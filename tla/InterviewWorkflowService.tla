---------------------- MODULE InterviewWorkflowService ----------------------
(***************************************************************************)
(* The request handlers of services/InterviewWorkflowService.ts.  Each runs*)
(* its reads and writes in one MongoDB transaction, so each is one action. *)
(* A request that finds its operation record already there is a replay (or *)
(* an IDEMPOTENCY_CONFLICT) and changes nothing; a request whose status or *)
(* version predicate fails is rejected and changes nothing.                *)
(***************************************************************************)
EXTENDS InterviewStore

WaitingStatus(o) == IF o \in GenerateRequests THEN "GENERATING" ELSE "EVALUATING"

(* The part both handlers share: the operation record, the compare-and-set *)
(* of the session that makes it the active operation, the quota            *)
(* reservation and the outbox event.                                       *)
AcceptOperation(s, o) ==
  /\ operation[o].status = "ABSENT"
  /\ operation' = [operation EXCEPT ![o] =
       [status |-> "PENDING", target |-> s,
        aggregateVersion |-> session[s].version + 1,
        attempts |-> 0, lease |-> None, due |-> TRUE]]
  /\ session' = [session EXCEPT ![s] =
       [status |-> WaitingStatus(o), version |-> @.version + 1,
        active |-> o, failedStage |-> None]]
  /\ ledger' = [ledger EXCEPT ![o] = "RESERVED"]
  /\ outbox' = [outbox EXCEPT ![o] =
       [status |-> "PENDING", attempts |-> 0, lease |-> None, due |-> TRUE]]
  /\ UNCHANGED <<results, usage, jobs, worker, dispatcher, bus>>

GenerateQuestions(s, o) ==
  /\ o \in GenerateRequests
  /\ session[s].status = "PENDING"
  /\ AcceptOperation(s, o)
  /\ UNCHANGED <<questions, submission>>

(* The answers are written to the questions and kept as the submission.    *)
SubmitAnswers(s, o, expectedVersion, a) ==
  /\ o \in SubmitRequests
  /\ session[s].status = "IN_PROGRESS"
  /\ session[s].version = expectedVersion
  /\ questions[s].by # None
  /\ AcceptOperation(s, o)
  /\ submission' = [submission EXCEPT ![o] = [status |-> "ACCEPTED", answers |-> a]]
  /\ questions' = [questions EXCEPT ![s].answer = a,
                                    ![s].answerVersion = expectedVersion + 1]

(* Autosave: the only other writer of answers.  Versions beyond            *)
(* VersionBound are not explored.                                          *)
WriteDraft(s, expectedVersion, a) ==
  /\ expectedVersion < VersionBound
  /\ questions[s].by # None
  /\ session' = [session EXCEPT ![s].version = expectedVersion + 1]
  /\ questions' = [questions EXCEPT ![s].answer = a,
                                    ![s].answerVersion = expectedVersion + 1]
  /\ UNCHANGED <<operation, outbox, submission, results, ledger, usage, jobs,
                 worker, dispatcher, bus>>

SaveProgressAnyStatus(s, expectedVersion, a) ==
  /\ session[s].version = expectedVersion
  /\ WriteDraft(s, expectedVersion, a)

SaveProgress(s, expectedVersion, a) ==
  /\ session[s].status = "IN_PROGRESS"
  /\ session[s].version = expectedVersion
  /\ WriteDraft(s, expectedVersion, a)

(* expectedVersion is what some earlier read of the session returned.      *)
Request ==
  \E s \in Sessions :
    \/ \E o \in GenerateRequests : GenerateQuestions(s, o)
    \/ \E v \in 0 .. session[s].version, a \in Drafts :
         \/ \E o \in SubmitRequests : SubmitAnswers(s, o, v, a)
         \/ SaveProgress(s, v, a)
=============================================================================
