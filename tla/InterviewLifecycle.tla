------------------------- MODULE InterviewLifecycle -------------------------
(***************************************************************************)
(* What the asynchronous workflow promises to the owner of an interview,   *)
(* without saying how: an accepted request is the one request its session  *)
(* waits for, it ends once, in success or in failure, and the unit of quota*)
(* it reserved is settled with the success or released with the failure.   *)
(***************************************************************************)
CONSTANTS Sessions, GenerateRequests, SubmitRequests, None

VARIABLES
  status,    \* the status of each session
  awaiting,  \* the request a session waits for
  quota      \* the unit of quota of each request

contractVars == <<status, awaiting, quota>>

Requests == GenerateRequests \cup SubmitRequests

Init ==
  /\ status \in [Sessions -> {"PENDING", "IN_PROGRESS"}]
  /\ awaiting = [s \in Sessions |-> None]
  /\ quota = [r \in Requests |-> "ABSENT"]

Accept(s, r) ==
  /\ quota[r] = "ABSENT"
  /\ \/ /\ r \in GenerateRequests /\ status[s] = "PENDING"
        /\ status' = [status EXCEPT ![s] = "GENERATING"]
     \/ /\ r \in SubmitRequests /\ status[s] = "IN_PROGRESS"
        /\ status' = [status EXCEPT ![s] = "EVALUATING"]
  /\ awaiting' = [awaiting EXCEPT ![s] = r]
  /\ quota' = [quota EXCEPT ![r] = "RESERVED"]

Succeed(s) ==
  /\ awaiting[s] # None
  /\ status' = [status EXCEPT ![s] = IF @ = "GENERATING" THEN "IN_PROGRESS"
                                                         ELSE "COMPLETED"]
  /\ awaiting' = [awaiting EXCEPT ![s] = None]
  /\ quota' = [quota EXCEPT ![awaiting[s]] = "SETTLED"]

Fail(s) ==
  /\ awaiting[s] # None
  /\ status' = [status EXCEPT ![s] = "FAILED"]
  /\ awaiting' = [awaiting EXCEPT ![s] = None]
  /\ quota' = [quota EXCEPT ![awaiting[s]] = "RELEASED"]

Next == \E s \in Sessions :
  Succeed(s) \/ Fail(s) \/ \E r \in Requests : Accept(s, r)

Spec == Init /\ [][Next]_contractVars
=============================================================================
