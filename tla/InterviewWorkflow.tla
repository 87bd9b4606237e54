------------------------- MODULE InterviewWorkflow -------------------------
(***************************************************************************)
(* The asynchronous interview workflow: clients that send requests to      *)
(* InterviewWorkflowService, dispatchers that move outbox rows to the job  *)
(* queue, workers that run InterviewOperationProcessor.process, crashes of *)
(* both, and the passing of time.                                          *)
(***************************************************************************)
EXTENDS InterviewWorkflowService, OutboxDispatcher, InterviewOperationProcessor

Next ==
  \/ Request
  \/ \E d \in Dispatchers : DispatcherStep(d) \/ DispatcherCrash(d)
  \/ \E w \in Workers : WorkerStep(w) \/ WorkerCrash(w)
  \/ \E o \in Operations : OperationDue(o) \/ OutboxDue(o)

Spec == Init /\ [][Next]_vars

(* A poll timer drives the dispatcher, Agenda the workers, clocks advance. *)
(* Requests and crashes need not happen.                                   *)
Fairness ==
  /\ \A d \in Dispatchers : WF_vars(DispatcherStep(d))
  /\ \A w \in Workers : WF_vars(WorkerStep(w))
  /\ \A o \in Operations : WF_vars(OperationDue(o)) /\ WF_vars(OutboxDue(o))

FairSpec == Spec /\ Fairness

-----------------------------------------------------------------------------
(* Every document and every process state has the shape its schema gives.  *)
TypeOK ==
  /\ session \in [Sessions -> SessionDoc]
  /\ questions \in [Sessions -> QuestionSet]
  /\ operation \in [Operations -> OperationDoc]
  /\ outbox \in [Operations -> OutboxDoc]
  /\ submission \in [Operations -> SubmissionDoc]
  /\ results \in SUBSET Operations
  /\ ledger \in [Operations -> LedgerStatus]
  /\ usage \in [Operations -> [Attempts -> UsageStatus]]
  /\ jobs \in SUBSET Operations
  /\ worker \in [Workers -> WorkerState]
  /\ dispatcher \in [Dispatchers -> DispatcherState]
  /\ bus \in SUBSET StateEvent

(* A session in GENERATING or EVALUATING, and no other, waits for an       *)
(* operation; it is of the right kind, was accepted at the session's       *)
(* version and has not ended: a later commit's compare-and-set can succeed.*)
WaitsForLiveOperation ==
  \A s \in Sessions :
    LET o == session[s].active IN
    IF o = None
    THEN session[s].status \notin {"GENERATING", "EVALUATING"}
    ELSE /\ session[s].status = WaitingStatus(o)
         /\ operation[o].target = s
         /\ operation[o].aggregateVersion = session[s].version
         /\ operation[o].status \in {"PENDING", "PROCESSING"}

(* A unit of quota is reserved exactly while a session waits for its       *)
(* operation: no reservation outlives the request, and no request loses it.*)
ReservedWhileAwaited ==
  \A o \in Operations :
    ledger[o] = "RESERVED" <=> \E s \in Sessions : session[s].active = o

(* The ledger is settled exactly for the operations that SUCCEEDED, and    *)
(* these are exactly the ones whose output is stored: whatever workers were*)
(* redelivered, late or restarted, no output without a debit, no debit     *)
(* without an output.                                                      *)
Stored(o) == IF o \in GenerateRequests THEN \E s \in Sessions : questions[s].by = o
                                       ELSE o \in results
SettledWithOutput ==
  \A o \in Operations :
    /\ (ledger[o] = "SETTLED") <=> (operation[o].status = "SUCCEEDED")
    /\ (ledger[o] = "SETTLED") <=> Stored(o)

(* Quota follows the session: reserved exactly while it waits, settled     *)
(* exactly with its output.                                                *)
QuotaFollows == ReservedWhileAwaited /\ SettledWithOutput

(* Once a submission is accepted, the answers stored with the questions are*)
(* the submitted ones: no autosave that was under way overwrites them.     *)
AcceptedAnswersStand ==
  \A o \in SubmitRequests :
    submission[o].status # "ABSENT" =>
      questions[operation[o].target].answer = submission[o].answers

(* A failed session names the stage it failed in, and that stage is the one*)
(* the stored documents show; other sessions name none.                    *)
FailedStageIsTrue ==
  \A s \in Sessions :
    IF session[s].status = "FAILED"
    THEN session[s].failedStage = IF questions[s].by = None THEN "GENERATION"
                                                            ELSE "EVALUATION"
    ELSE session[s].failedStage = None

(* A STATE_CHANGED event tells of a committed change: never of a version   *)
(* the session has not reached, nor of another status at that version; and *)
(* no two events contradict each other, in whatever order they are seen.   *)
EventsAreCommitted ==
  \A e \in bus :
    /\ e.version <= session[e.session].version
    /\ e.version = session[e.session].version => e.status = session[e.session].status
    /\ \A f \in bus :
         (f.session = e.session /\ f.version = e.version) => f.status = e.status

(* At most one provider attempt of an operation is recorded SUCCEEDED, and *)
(* only for an operation that did.                                         *)
UsageSucceedsOnce ==
  \A o \in Operations :
    LET done == {n \in Attempts : usage[o][n] = "SUCCEEDED"} IN
    /\ Cardinality(done) <= 1
    /\ done # {} => operation[o].status = "SUCCEEDED"

-----------------------------------------------------------------------------
(* What ended stays as it ended: the session, the operation record and the *)
(* ledger row, against workers that come back late.                        *)
EndedIsFinal ==
  [][/\ \A s \in Sessions : session[s].status \in {"COMPLETED", "FAILED"} =>
          session'[s] = session[s]
     /\ \A o \in Operations :
          /\ operation[o].status \in {"SUCCEEDED", "FAILED"} =>
               operation'[o] = operation[o]
          /\ ledger[o] \in {"SETTLED", "RELEASED"} => ledger'[o] = ledger[o]]_vars

(* Every change of a session or of its answers takes the next version:     *)
(* what clients compare versions for (expectedVersion, SSE, polling).      *)
ChangesTakeNextVersion ==
  [][\A s \in Sessions :
       (session'[s] # session[s] \/ questions'[s] # questions[s]) =>
         session'[s].version = session[s].version + 1]_vars

(* An operation leaves PROCESSING only by a step of the worker that holds  *)
(* the current lease.                                                      *)
OnlyHolderEndsLease ==
  [][\A o \in Operations :
       (operation[o].status = "PROCESSING" /\ operation'[o].status # "PROCESSING") =>
         \E w \in Workers : /\ operation[o].lease = w
                            /\ worker[w].op = o
                            /\ worker'[w] # worker[w]]_vars

-----------------------------------------------------------------------------
(* Properties of a system whose leases outlast their holders' work         *)
(* ("late" \notin Faults); crashes are allowed.                            *)

(* The provider is never called for one operation by two workers at once.  *)
OneCallAtATime ==
  \A v, w \in Workers :
    (v # w /\ worker[v].op = worker[w].op) =>
      ~ (worker[v].pc = "calling" /\ worker[w].pc = "calling")

(* A terminal failure reaches every document of the operation.             *)
FailsTogether ==
  \A o \in Operations :
    ledger[o] = "RELEASED" =>
      /\ operation[o].status = "FAILED"
      /\ outbox[o].status = "FAILED"
      /\ session[operation[o].target].status = "FAILED"
      /\ o \in SubmitRequests => submission[o].status = "FAILED"

(* The submission is COMPLETED exactly when its operation SUCCEEDED.       *)
SubmissionTellsOutcome ==
  \A o \in SubmitRequests :
    submission[o].status = "COMPLETED" <=> operation[o].status = "SUCCEEDED"

(* The documents of an operation agree on how it ended.                    *)
OutcomesAgree == FailsTogether /\ SubmissionTellsOutcome

(* When an operation has SUCCEEDED, its last attempt is recorded so and no *)
(* earlier one still counts as under way.                                  *)
SucceededUsageClosed ==
  \A o \in Operations :
    operation[o].status = "SUCCEEDED" =>
      /\ usage[o][operation[o].attempts] = "SUCCEEDED"
      /\ \A n \in Attempts : usage[o][n] # "STARTED"

(* Every accepted operation ends, or a worker that had lost it has failed  *)
(* its session and released its reservation.                               *)
OperationsEnd ==
  \A o \in Operations :
    (operation[o].status = "PENDING") ~>
      (operation[o].status \in {"SUCCEEDED", "FAILED"} \/ ledger[o] = "RELEASED")

(* No session waits for ever.                                              *)
SessionsSettle ==
  \A s \in Sessions : (session[s].active # None) ~> (session[s].active = None)

-----------------------------------------------------------------------------
(* The workflow implements the contract its users are promised.            *)
Contract == INSTANCE InterviewLifecycle WITH
  status <- [s \in Sessions |-> session[s].status],
  awaiting <- [s \in Sessions |-> session[s].active],
  quota <- ledger

ImplementsContract == Contract!Spec
=============================================================================
