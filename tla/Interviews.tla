----------------------------- MODULE Interviews -----------------------------
(***************************************************************************)
(* One user's requests without an Idempotency-Key through the rate limiter,*)
(* the daily quota and the service, the jobs they leave, restarts of the   *)
(* server and the passing of days.                                         *)
(***************************************************************************)
EXTENDS RateLimiter, InterviewQuota, InterviewService, StatusStream

RequestStep(r) == LimiterStep(r) \/ QuotaStep(r) \/ ServiceStep(r)

(* The process stops: requests under way are lost, stored jobs run again.  *)
Crash ==
  /\ "crash" \in Faults /\ faults < MaxFaults
  /\ request' = [r \in Requests |->
       IF request[r].pc \in {"new", "done"} THEN request[r]
       ELSE [request[r] EXCEPT !.pc = "done", !.code = "lost"]]
  /\ worker' = [w \in Workers |-> IdleWorker]
  /\ stream' = [v \in Viewers |-> NoStream]
  /\ viewer' = [v \in Viewers |-> IF viewer[v].pc = "reading" THEN Disconnected(v)
                                                            ELSE viewer[v]]
  /\ faults' = faults + 1
  /\ UNCHANGED <<session, quota, rate, jobs, clockVars>>

NewDay ==
  /\ today < MaxDay
  /\ today' = today + 1
  /\ UNCHANGED <<serverVars, request, worker, wiring, faults>>

(* Nothing is under way.                                                   *)
Rest ==
  /\ \A r \in Requests : At(r, "new") \/ At(r, "done")
  /\ jobs = {} /\ \A w \in Workers : worker[w] = IdleWorker
  /\ UNCHANGED vars

Next ==
  \/ \E r \in Requests : Arrive(r) \/ RequestStep(r) \/ Disconnect(r)
  \/ \E w \in Workers : JobStep(w)
  \/ \E v \in Viewers : ViewerStep(v) \/ (\E s \in Sessions : Watch(v, s)) \/ Drop(v)
  \/ Crash \/ NewDay \/ Rest

Spec == Init /\ [][Next]_vars

(* The server goes on with what it has started, Agenda runs what is stored.*)
Fairness ==
  /\ \A r \in Requests : WF_vars(RequestStep(r))
  /\ \A w \in Workers : WF_vars(JobStep(w))
  /\ \A v \in Viewers : WF_vars(ViewerStep(v))

FairSpec == Spec /\ Fairness

-----------------------------------------------------------------------------
(* Every document and process state has the shape its schema gives it.     *)
TypeOK ==
  /\ session \in [Sessions -> SessionDoc]
  /\ quota \in [Days -> QuotaDoc]
  /\ rate \in [Kinds -> [Days -> Nat]]
  /\ request \in [Requests -> RequestState]
  /\ jobs \in SUBSET Requests
  /\ stream \in [Viewers -> StreamState] /\ viewer \in [Viewers -> ViewerState]
  /\ worker \in [Workers -> WorkerState]
  /\ today \in Days /\ wiring \in Wirings /\ faults \in 0 .. MaxFaults

Marks(d, m) == {s \in Sessions : quota[d].mark[s] \in m}
Holds(r, s, d) == request[r].holder /\ request[r].pc # "done"
                  /\ request[r].session = s /\ request[r].day = d

(* The counter of a day is the number of its reservations, and these do not*)
(* exceed the limit: whatever is reserved, released and committed at once. *)
UsedCountsReservations ==
  \A d \in Days : /\ quota[d].used = Cardinality(Marks(d, {"RESERVED", "COMMITTED"}))
                  /\ quota[d].used <= DailyLimit

(* A request that is to settle a reservation still has it, and has it      *)
(* alone; and but for a server that stopped, a reservation that nobody is  *)
(* to settle does not stay.                                                *)
ReservationHeld ==
  \A s \in Sessions, d \in Days :
    LET holders == {r \in Requests : Holds(r, s, d)} IN
    /\ Cardinality(holders) <= 1
    /\ holders # {} => quota[d].mark[s] = "RESERVED"
    /\ quota[d].mark[s] = "RESERVED" =>
         holders # {} \/ \E r \in Requests : request[r].code = "lost"

(* A unit of quota is spent exactly on generations that were answered 2xx  *)
(* to the request that reserved it: nobody pays for a refused or failed one*)
SpentOnSuccess ==
  \A s \in Sessions, d \in Days :
    quota[d].mark[s] = "COMMITTED" <=>
      \E r \in Requests : /\ request[r].holder /\ request[r].code = "ok"
                          /\ request[r].pc = "done"
                          /\ request[r].session = s /\ request[r].day = d

(* So every reservation is settled, by its request and as it was answered. *)
ReservationsSettle == ReservationHeld /\ SpentOnSuccess

(* In one window no more requests of a kind pass than its limit, also when *)
(* several race for the first one's insert.                                *)
WithinRate ==
  \A k \in Kinds, d \in Days :
    LET passed == {r \in Requests : /\ request[r].admitted /\ request[r].kind = k
                                    /\ request[r].window = d}
    IN Cardinality(passed) = rate[k][d] /\ rate[k][d] <= RateLimit

(* A session is past its generation only with questions.                   *)
PastGenerationHasQuestions ==
  \A s \in Sessions :
    session[s].status \in {"IN_PROGRESS", "EVALUATING", "COMPLETED"} => session[s].questions

(* A page never shows what was not committed: no version ahead of the      *)
(* session's and no other status at that version.                          *)
ShownIsCommitted ==
  \A v \in Viewers :
    LET s == viewer[v].session IN
    viewer[v].status # None =>
      /\ viewer[v].version <= session[s].version
      /\ viewer[v].version = session[s].version => viewer[v].status = session[s].status

(* A listening stream has been told of the present version, unless it      *)
(* changed between the read and the subscription.                          *)
OpenStreamToldAll ==
  \A v \in Viewers :
    (stream[v].pc = "open" /\ ~ stream[v].gap) =>
      \/ viewer[v].version = session[stream[v].session].version
      \/ \E i \in 1 .. Len(stream[v].told) : stream[v].told[i] = Current(stream[v].session)

-----------------------------------------------------------------------------
(* A stage is ended only by a request or a job that read it at its present *)
(* version: a late execution never ends the stage of a later attempt.      *)
Reader(r, s) == request[r].session = s /\ request[r].version = session[s].version
StageEndedByItsReader ==
  [][\A s \in Sessions :
       (/\ session[s].status \in {"GENERATING", "EVALUATING"}
        /\ session'[s].status # session[s].status) =>
         \/ \E r \in Requests : Reader(r, s) /\ request'[r] # request[r]
         \/ \E w \in Workers : /\ worker[w].job # None /\ worker'[w] # worker[w]
                               /\ JobSession(w) = s /\ worker[w].version = session[s].version]_vars

(* What a candidate has answered survives: questions are created once, also*)
(* when a failed evaluation is sent back to generation.                    *)
QuestionsStand ==
  [][\A s \in Sessions :
       session[s].questions => /\ session'[s].questions
                               /\ session[s].answers # None => session'[s].answers # None]_vars

(* Every change of status takes the next version and leads on; a completed *)
(* interview stays completed.                                              *)
StatusTakesNextVersion ==
  [][\A s \in Sessions :
       session'[s].status # session[s].status =>
         /\ session'[s].status \in legalTransitions[session[s].status]
         /\ session'[s].version = session[s].version + 1]_vars

(* Unless the server stops between the change of status and the job, no    *)
(* session stays in a stage, and every request is answered and settled.    *)
NeverLost == \A r \in Requests : request[r].code # "lost"
StagesEnd ==
  \A s \in Sessions :
    (session[s].status \in {"GENERATING", "EVALUATING"}) ~>
      (session[s].status \notin {"GENERATING", "EVALUATING"} \/ ~ NeverLost)
RequestsSettle ==
  \A r \in Requests : ~ At(r, "new") ~> At(r, "done")
WorkEnds == StagesEnd /\ RequestsSettle

(* A page whose stream was dropped or ended shows, in the end, at least    *)
(* the version the session had then: it is not left on a stale screen.     *)
DroppedPageCatchesUp ==
  \A v \in Viewers, n \in 0 .. MaxVersion :
    (/\ viewer[v].pc \in {"waiting", "polling"}
     /\ session[viewer[v].session].version = n) ~> (viewer[v].status # None /\ viewer[v].version >= n)
=============================================================================
