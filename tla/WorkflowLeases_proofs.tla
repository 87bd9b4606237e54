------------------------ MODULE WorkflowLeases_proofs ------------------------
(***************************************************************************)
(* What holds of the asynchronous workflow when a lease outlasts the work  *)
(* of its live holder ("late" is no fault): workers may still crash and    *)
(* jobs be delivered again.  Then an operation has one busy worker, and    *)
(* its documents agree on how it ended.                                    *)
(*                                                                         *)
(* Part 1: what one step does to one busy worker.  Part 2: the invariants. *)
(* Part 3: the theorems.                                                   *)
(***************************************************************************)
EXTENDS WorkflowHistory_proofs

-----------------------------------------------------------------------------
(* Part 1. *)

Busy(w) == worker[w].pc \in {"claimed", "ready", "calling", "answered"}

(* A busy worker holds a lease that has not run out.                       *)
LeasesHold ==
  \A w \in Workers : Busy(w) => HoldsLease(w) /\ ~ operation[worker[w].op].due

LEMMA Sole ==
  ASSUME LeasesHold, NEW v \in Workers, NEW w \in Workers,
         Busy(v), Busy(w), worker[v].op = worker[w].op
  PROVE  v = w
BY DEF LeasesHold, HoldsLease

(* A worker that is busy after a step was so before, on the same operation,*)
(* or has just claimed it.                                                 *)
LEMMA BusyStep ==
  ASSUME Shape, [Next]_vars, NEW v \in Workers, Busy(v)'
  PROVE  \/ Busy(v) /\ worker'[v].op = worker[v].op /\ worker'[v].attempt = worker[v].attempt
         \/ \E o \in Operations : ClaimOperation(v, o) /\ worker'[v].op = o
<1>0. worker \in [Workers -> WorkerState] /\ worker[v] \in WorkerState
  BY DEF Shape, TypeOK
<1> DEFINE Same == Busy(v) /\ worker'[v].op = worker[v].op
                   /\ worker'[v].attempt = worker[v].attempt
<1>1. ASSUME NEW w \in Workers, v # w, WorkerStep(w) \/ WorkerCrash(w) PROVE Same
  <2>1. worker'[v] = worker[v]
    BY <1>0, <1>1 DEF WorkerStep, WorkerCrash, ClaimOperation, DropDelivery, MarkUnknown,
       StartUsageAttempt, ProviderAnswers, AbandonCommit, RetryLater, PublishStateChanged,
       CommitGeneratedQuestions, CommitEvaluation, FailTerminally, Advance
  <2> QED BY <2>1 DEF Busy
<1>2. ASSUME MarkUnknown(v) \/ StartUsageAttempt(v) PROVE Same
  <2> PICK pc : Advance(v, pc)
    BY <1>2 DEF MarkUnknown, StartUsageAttempt
  <2>1. worker'[v] = [worker[v] EXCEPT !.pc = pc] /\ Busy(v)
    BY <1>0, <1>2 DEF Advance, MarkUnknown, StartUsageAttempt, Busy
  <2> QED BY <1>0, <2>1, WorkerUpdate
<1>3. ASSUME NEW outcome \in ProviderOutcome, ProviderAnswers(v, outcome) PROVE Same
  <2>1. Busy(v) /\ worker'[v] = [worker[v] EXCEPT !.pc = "answered", !.outcome = outcome]
    BY <1>0, <1>3 DEF ProviderAnswers, Busy
  <2> QED BY <1>0, <2>1, WorkerUpdate
<1>4. ASSUME worker'[v].pc \in {"idle", "publish"} PROVE FALSE
  BY <1>4 DEF Busy
<1>5. ASSUME CommitGeneratedQuestions(v) \/ CommitEvaluation(v) PROVE FALSE
  <2>1. worker'[v] = [worker[v] EXCEPT !.pc = "publish"]
    BY <1>0, <1>5 DEF CommitGeneratedQuestions, CommitEvaluation, Advance
  <2>2. [worker[v] EXCEPT !.pc = "publish"].pc = "publish"
    BY <1>0, WorkerUpdate
  <2> QED BY <1>4, <2>1, <2>2
<1>6. ASSUME FailTerminally(v) PROVE FALSE
  <2>1. [worker[v] EXCEPT !.pc = "publish"].pc = "publish"
    BY <1>0, WorkerUpdate
  <2>2. AfterFailure(v).pc \in {"idle", "publish"}
    BY <2>1 DEF AfterFailure, IdleWorker
  <2>3. worker'[v] = AfterFailure(v)
    BY <1>0, <1>6 DEF FailTerminally
  <2> QED BY <1>4, <2>2, <2>3
<1>7. ASSUME AbandonCommit(v) \/ RetryLater(v) \/ PublishStateChanged(v) \/ WorkerCrash(v)
      PROVE  FALSE
  <2>1. worker'[v] = IdleWorker /\ IdleWorker.pc = "idle"
    BY <1>0, <1>7 DEF AbandonCommit, RetryLater, PublishStateChanged, WorkerCrash, IdleWorker
  <2> QED BY <1>4, <2>1
<1>8. ASSUME NEW o \in Operations, ClaimOperation(v, o)
      PROVE  \E p \in Operations : ClaimOperation(v, p) /\ worker'[v].op = p
  <2>1. worker'[v].op = o
    BY <1>0, <1>8 DEF ClaimOperation
  <2> QED BY <1>8, <2>1
<1>9. ASSUME UNCHANGED worker PROVE Same
  BY <1>9 DEF Busy
<1>10. ASSUME NEW d \in Dispatchers, DispatcherStep(d) \/ DispatcherCrash(d)
       PROVE  UNCHANGED worker
  BY <1>10 DEF DispatcherStep, DispatcherCrash, FindStalled, Redeliver, ClaimRow, NothingDue,
     Enqueue, EnqueueFails, ConfirmRow, RefuseRow, LeaseEnds
<1>11. ASSUME Request PROVE UNCHANGED worker
  <2>1. ASSUME NEW s, NEW o, AcceptOperation(s, o) PROVE UNCHANGED worker
    BY <2>1 DEF AcceptOperation
  <2>2. ASSUME NEW s, NEW a, NEW b, SaveProgress(s, a, b) PROVE UNCHANGED worker
    BY <2>2 DEF SaveProgress, WriteDraft
  <2> QED BY <1>11, <2>1, <2>2 DEF Request, GenerateQuestions, SubmitAnswers
<1>12. ASSUME NEW o \in Operations, OperationDue(o) \/ OutboxDue(o) PROVE UNCHANGED worker
  BY <1>12 DEF OperationDue, OutboxDue
<1>13. ASSUME NEW o \in Operations, DropDelivery(v, o) PROVE UNCHANGED worker
  BY <1>13 DEF DropDelivery
<1> QED
  BY <1>1, <1>2, <1>3, <1>5, <1>6, <1>7, <1>8, <1>9, <1>10, <1>11, <1>12, <1>13
     DEF Next, vars, WorkerStep

(* Whose step changed the record of an operation.                          *)
EndsLease(w) ==
  \E st \in OperationStatus :
    /\ worker[w].pc = "answered" /\ EndLease(w, st) /\ ~ Busy(w)'
    /\ st = "SUCCEEDED" => CommitGeneratedQuestions(w) \/ CommitEvaluation(w)

LEMMA OperationStep ==
  ASSUME Shape, [Next]_vars, NEW o \in Operations
  PROVE  \/ operation'[o] = operation[o]
         \/ operation[o].status = "ABSENT" /\ operation'[o].status = "PENDING"
         \/ \E w \in Workers : ClaimOperation(w, o)
         \/ OperationDue(o)
         \/ \E w \in Workers : EndsLease(w) /\ worker[w].op = o /\ HoldsLease(w)
<1> DEFINE Goal == \/ operation'[o] = operation[o]
                   \/ operation[o].status = "ABSENT" /\ operation'[o].status = "PENDING"
                   \/ \E w \in Workers : ClaimOperation(w, o)
                   \/ OperationDue(o)
                   \/ \E w \in Workers : EndsLease(w) /\ worker[w].op = o /\ HoldsLease(w)
<1>0. operation \in [Operations -> OperationDoc]
  BY DEF Shape, TypeOK
<1>1. ASSUME NEW d \in Dispatchers, DispatcherStep(d) \/ DispatcherCrash(d) PROVE Goal
  BY <1>1 DEF DispatcherStep, DispatcherCrash, FindStalled, Redeliver, ClaimRow, NothingDue,
     Enqueue, EnqueueFails, ConfirmRow, RefuseRow, LeaseEnds, storeVars
<1>2. ASSUME NEW s \in Sessions, NEW p \in Operations, AcceptOperation(s, p) PROVE Goal
  BY <1>0, <1>2 DEF AcceptOperation
<1>3. ASSUME NEW s, NEW v, NEW a, SaveProgress(s, v, a) PROVE Goal
  BY <1>3 DEF SaveProgress, WriteDraft
<1>4. ASSUME Request PROVE Goal
  BY <1>2, <1>3, <1>4 DEF Request, GenerateQuestions, SubmitAnswers, Operations
<1>5. ASSUME NEW p \in Operations, OperationDue(p) \/ OutboxDue(p) PROVE Goal
  BY <1>0, <1>5 DEF OperationDue, OutboxDue
<1>6. ASSUME NEW w \in Workers, EndsLease(w) PROVE Goal
  <2>1. ASSUME worker[w].op # o \/ ~ HoldsLease(w) PROVE operation'[o] = operation[o]
    BY <1>0, <1>6, <2>1 DEF EndsLease, EndLease
  <2> QED BY <1>6, <2>1
<1>7. ASSUME NEW w \in Workers, FailTerminally(w) \/ RetryLater(w)
                                \/ CommitGeneratedQuestions(w) \/ CommitEvaluation(w)
      PROVE  Goal
  <2>1. PICK st \in OperationStatus :
          /\ worker[w].pc = "answered" /\ EndLease(w, st)
          /\ st = "SUCCEEDED" => CommitGeneratedQuestions(w) \/ CommitEvaluation(w)
    BY <1>7 DEF FailTerminally, RetryLater, CommitGeneratedQuestions, CommitEvaluation,
       Failing, HasOutput, FinishAccounting, OperationStatus
  <2>2. [worker[w] EXCEPT !.pc = "publish"].pc = "publish"
    BY WorkerUpdate DEF Shape, TypeOK
  <2>3. worker'[w] = AfterFailure(w) \/ worker'[w] = IdleWorker
        \/ worker'[w] = [worker[w] EXCEPT !.pc = "publish"]
    BY <1>7 DEF FailTerminally, RetryLater, CommitGeneratedQuestions, CommitEvaluation,
       Advance, Shape, TypeOK
  <2>4. AfterFailure(w).pc \in {"idle", "publish"} /\ IdleWorker.pc = "idle"
    BY <2>2 DEF AfterFailure, IdleWorker
  <2>5. ~ Busy(w)'
    BY <2>2, <2>3, <2>4 DEF Busy
  <2> QED BY <1>6, <2>1, <2>5 DEF EndsLease
<1>8. ASSUME NEW w \in Workers, NEW p \in Operations, ClaimOperation(w, p) PROVE Goal
  BY <1>0, <1>8 DEF ClaimOperation
<1>9. ASSUME NEW w \in Workers,
             \/ \E p \in Operations : DropDelivery(w, p)
             \/ MarkUnknown(w) \/ StartUsageAttempt(w)
             \/ \E outcome \in ProviderOutcome : ProviderAnswers(w, outcome)
             \/ AbandonCommit(w) \/ PublishStateChanged(w) \/ WorkerCrash(w)
      PROVE  operation' = operation
  BY <1>9 DEF DropDelivery, MarkUnknown, StartUsageAttempt, ProviderAnswers,
     AbandonCommit, PublishStateChanged, WorkerCrash, storeVars
<1>10. ASSUME NEW w \in Workers, WorkerStep(w) \/ WorkerCrash(w) PROVE Goal
  BY <1>7, <1>8, <1>9, <1>10 DEF WorkerStep
<1>11. CASE UNCHANGED vars
  BY <1>11 DEF vars
<1> QED BY <1>1, <1>4, <1>5, <1>10, <1>11 DEF Next

(* The only fault that matters here is excluded.                           *)
LEMMA LeasesHoldStep ==
  ASSUME "late" \notin Faults, Shape, LeasesHold, [Next]_vars
  PROVE  LeasesHold'
<1> SUFFICES ASSUME NEW v \in Workers, Busy(v)'
             PROVE  HoldsLease(v)' /\ ~ operation'[worker'[v].op].due
  BY DEF LeasesHold
<1>1. ASSUME NEW o \in Operations, ClaimOperation(v, o), worker'[v].op = o
      PROVE  HoldsLease(v)' /\ ~ operation'[worker'[v].op].due
  <2>1. \A doc \in OperationDoc, n \in Nat :
          LET e == [doc EXCEPT !.status = "PROCESSING", !.lease = v, !.due = FALSE,
                               !.attempts = n]
          IN  e.status = "PROCESSING" /\ e.lease = v /\ e.due = FALSE
    BY DEF OperationDoc
  <2> DEFINE q == [operation[o] EXCEPT !.status = "PROCESSING", !.lease = v, !.due = FALSE,
                                       !.attempts = operation[o].attempts + 1]
  <2>2. operation[o] \in OperationDoc /\ operation[o].attempts + 1 \in Nat
    BY DEF Shape, TypeOK, OperationDoc
  <2>3. q.status = "PROCESSING" /\ q.lease = v /\ q.due = FALSE
    BY <2>1, <2>2
  <2>4. operation'[o] = q
    BY <1>1 DEF ClaimOperation, Shape, TypeOK
  <2> HIDE DEF q
  <2> QED BY <1>1, <2>3, <2>4 DEF HoldsLease
<1>2. ASSUME Busy(v), worker'[v].op = worker[v].op
      PROVE  HoldsLease(v)' /\ ~ operation'[worker'[v].op].due
  <2> DEFINE o == worker[v].op
  <2>1. o \in Operations /\ HoldsLease(v) /\ ~ operation[o].due
        /\ operation[o].status = "PROCESSING"
    BY <1>2 DEF Busy, LeasesHold, Shape, WorkerShape, HoldsLease
  <2>2. ASSUME NEW w \in Workers, ClaimOperation(w, o) PROVE FALSE
    BY <2>1, <2>2 DEF ClaimOperation, Claimable
  <2>3. ASSUME OperationDue(o) PROVE FALSE
    BY <2>1, <2>3 DEF OperationDue
  <2>4. ASSUME NEW w \in Workers, EndsLease(w), worker[w].op = o PROVE FALSE
    <3>1. Busy(w) /\ ~ Busy(w)'
      BY <2>4 DEF EndsLease, Busy
    <3>2. w = v
      BY <1>2, <2>4, <3>1, Sole
    <3> QED BY <3>1, <3>2
  <2>5. operation'[o] = operation[o]
    BY <2>1, <2>2, <2>3, <2>4, OperationStep
  <2> QED BY <1>2, <2>1, <2>5 DEF HoldsLease
<1> QED BY <1>1, <1>2, BusyStep

-----------------------------------------------------------------------------
(* Part 2. *)

(* What a submission says while its operation has a status.                *)
SubmissionFor(st) ==
  CASE st = "ABSENT"    -> "ABSENT"
    [] st = "SUCCEEDED" -> "COMPLETED"
    [] st = "FAILED"    -> "FAILED"
    [] OTHER            -> "ACCEPTED"

OutcomesKept ==
  \A o \in Operations :
    /\ ledger[o] = "RELEASED" => /\ operation[o].status = "FAILED"
                                 /\ outbox[o].status = "FAILED"
                                 /\ session[operation[o].target].status = "FAILED"
    /\ o \in SubmitRequests => submission[o].status = SubmissionFor(operation[o].status)

(* What a step does to the documents of an operation.                      *)
OutcomeSame(o) ==
  /\ ledger'[o] = ledger[o]
  /\ outbox[o].status = "FAILED" => outbox'[o].status = "FAILED" \/ ledger[o] # "RELEASED"
  /\ o \in SubmitRequests => submission'[o] = submission[o]
  /\ operation'[o].target = operation[o].target
  /\ \/ operation'[o].status = operation[o].status
     \/ {operation'[o].status, operation[o].status} \subseteq {"PENDING", "PROCESSING"}

OutcomeOpens(o) ==
  /\ ledger'[o] = "RESERVED" /\ operation'[o].status = "PENDING"
  /\ o \in SubmitRequests => submission'[o].status = "ACCEPTED"

OutcomeSucceeds(o) ==
  /\ ledger'[o] = "SETTLED" /\ operation'[o].status = "SUCCEEDED"
  /\ o \in SubmitRequests => submission'[o].status = "COMPLETED"

OutcomeFails(o) ==
  /\ ledger'[o] = "RELEASED" /\ operation'[o].status = "FAILED"
  /\ outbox'[o].status = "FAILED" /\ session'[operation'[o].target].status = "FAILED"
  /\ o \in SubmitRequests => submission'[o].status = "FAILED"

LEMMA OutcomesKeptAfter ==
  ASSUME Shape, Consistent, OutcomesKept, [Next]_vars,
         \A o \in Operations : OutcomeSame(o) \/ OutcomeOpens(o) \/ OutcomeSucceeds(o)
                               \/ OutcomeFails(o)
  PROVE  OutcomesKept'
<1> SUFFICES ASSUME NEW o \in Operations
             PROVE  /\ ledger'[o] = "RELEASED" =>
                         /\ operation'[o].status = "FAILED"
                         /\ outbox'[o].status = "FAILED"
                         /\ session'[operation'[o].target].status = "FAILED"
                    /\ o \in SubmitRequests =>
                         submission'[o].status = SubmissionFor(operation'[o].status)
  BY DEF OutcomesKept, SubmissionFor
<1>1. CASE OutcomeSame(o)
  <2>1. ASSUME ledger[o] = "RELEASED"
        PROVE  session'[operation[o].target].status = "FAILED"
    <3> DEFINE t == operation[o].target
    <3>1. t \in Sessions /\ session[t].status = "FAILED"
      BY <2>1 DEF OutcomesKept, Shape, OperationShape
    <3>2. SessionStep(t)
      BY <3>1, SessionSteps
    <3> QED BY <3>1, <3>2 DEF SessionStep, SessionKept, Moves
  <2> QED BY <1>1, <2>1 DEF OutcomeSame, OutcomesKept, SubmissionFor
<1>2. CASE OutcomeOpens(o)
  BY <1>2 DEF OutcomeOpens, SubmissionFor
<1>3. CASE OutcomeSucceeds(o)
  BY <1>3 DEF OutcomeSucceeds, SubmissionFor
<1>4. CASE OutcomeFails(o)
  BY <1>4 DEF OutcomeFails, SubmissionFor
<1> QED BY <1>1, <1>2, <1>3, <1>4

(* An operation in PROCESSING has its reservation, and its session waits.  *)
LEMMA ProcessingIsAwaited ==
  ASSUME Shape, Consistent, OutcomesKept, NEW o \in Operations,
         operation[o].status = "PROCESSING"
  PROVE  /\ ledger[o] = "RESERVED" /\ operation[o].target \in Sessions
         /\ SessionStillActive(o)
<1>1. ledger[o] = "RESERVED"
  BY DEF Consistent, SettledWithOutput, LedgerFollowsOperation, OutcomesKept, Shape, TypeOK,
     LedgerStatus
<1>2. PICK s \in Sessions : session[s].active = o
  BY <1>1 DEF Consistent, ReservedWhileAwaited
<1>3. o # None
  BY ConstantsAssumption
<1>4. operation[o].target = s /\ operation[o].aggregateVersion = session[s].version
  BY <1>2, <1>3 DEF Consistent, WaitsForLiveOperation
<1> QED BY <1>1, <1>2, <1>4 DEF SessionStillActive

LEMMA OutcomesKeptStep ==
  ASSUME "late" \notin Faults, Shape, Consistent, LeasesHold, OutcomesKept, [Next]_vars
  PROVE  OutcomesKept'
<1> SUFFICES ASSUME NEW p \in Operations
             PROVE  OutcomeSame(p) \/ OutcomeOpens(p) \/ OutcomeSucceeds(p) \/ OutcomeFails(p)
  BY OutcomesKeptAfter
<1>0. /\ p \in DOMAIN outbox /\ p \in DOMAIN ledger /\ p \in DOMAIN operation
      /\ outbox[p] \in OutboxDoc /\ DOMAIN submission = Operations
      /\ \A o \in Operations : submission[o] \in SubmissionDoc
  BY DEF Shape, TypeOK
<1>9. \A d \in OutboxDoc, st \in OutboxStatus :
        /\ [d EXCEPT !.status = st].status = st
        /\ [d EXCEPT !.due = TRUE].status = d.status
  BY DEF OutboxDoc
<1>8. \A d \in SubmissionDoc : \A st : [d EXCEPT !.status = st].status = st
  BY DEF SubmissionDoc
<1>1. ASSUME Idles, submission' = submission,
             outbox[p].status = "FAILED" => outbox'[p].status = "FAILED" \/ ledger[p] # "RELEASED"
      PROVE  OutcomeSame(p)
  BY <1>1 DEF Idles, OutcomeSame
<1>2. ASSUME NEW d \in Dispatchers, DispatcherStep(d) \/ DispatcherCrash(d)
      PROVE  OutcomeSame(p)
  <2>1. submission' = submission
    BY <1>2 DEF DispatcherStep, DispatcherCrash, FindStalled, Redeliver, ClaimRow,
       NothingDue, Enqueue, EnqueueFails, ConfirmRow, RefuseRow, LeaseEnds, storeVars
  <2>2. outbox[p].status = "FAILED" => outbox'[p].status = "FAILED"
    BY <1>0, <1>2 DEF DispatcherStep, DispatcherCrash, FindStalled, Redeliver, ClaimRow,
       ClaimableRow, NothingDue, Enqueue, EnqueueFails, ConfirmRow, RefuseRow, LeaseEnds,
       HoldsRow, storeVars
  <2> QED BY <1>1, <1>2, <2>1, <2>2, DispatcherIdles
<1>3. ASSUME NEW o \in Operations, OperationDue(o) \/ OutboxDue(o)
      PROVE  OutcomeSame(p)
  <2>1. Idles /\ submission' = submission
    BY <1>3, DueIdles DEF OperationDue, OutboxDue
  <2>2. outbox' = outbox \/ outbox' = [outbox EXCEPT ![o] = [outbox[o] EXCEPT !.due = TRUE]]
    BY <1>3 DEF OperationDue, OutboxDue
  <2>3. outbox[p].status = "FAILED" => outbox'[p].status = "FAILED"
    <3>1. [outbox[p] EXCEPT !.due = TRUE].status = outbox[p].status
      BY <1>0, <1>9 DEF OutboxStatus
    <3>2. outbox'[p] = outbox[p] \/ outbox'[p] = [outbox[p] EXCEPT !.due = TRUE]
      BY <1>0, <2>2
    <3> QED BY <3>1, <3>2
  <2> QED BY <1>1, <2>1, <2>3
<1>4. ASSUME NEW s \in Sessions, NEW o \in GenerateRequests, GenerateQuestions(s, o)
      PROVE  OutcomeSame(p) \/ OutcomeOpens(p)
  <2>1. CASE p = o
    BY <1>0, <1>4, <2>1, ConstantsAssumption DEF GenerateQuestions, AcceptOperation, OutcomeOpens
  <2>2. CASE p # o
    BY <1>0, <1>4, <2>2 DEF GenerateQuestions, AcceptOperation, OutcomeSame
  <2> QED BY <2>1, <2>2
<1>5. ASSUME NEW s \in Sessions, NEW o \in SubmitRequests, NEW v, NEW a, SubmitAnswers(s, o, v, a)
      PROVE  OutcomeSame(p) \/ OutcomeOpens(p)
  <2>1. CASE p = o
    BY <1>0, <1>5, <2>1 DEF SubmitAnswers, AcceptOperation, OutcomeOpens
  <2>2. CASE p # o
    BY <1>0, <1>5, <2>2 DEF SubmitAnswers, AcceptOperation, OutcomeSame
  <2> QED BY <2>1, <2>2
<1>6. ASSUME NEW s \in Sessions, NEW v, NEW a, SaveProgress(s, v, a)
      PROVE  OutcomeSame(p)
  BY <1>6 DEF SaveProgress, WriteDraft, OutcomeSame
<1>7. ASSUME NEW w \in Workers, CommitGeneratedQuestions(w) \/ CommitEvaluation(w)
      PROVE  OutcomeSame(p) \/ OutcomeSucceeds(p)
  <2> PICK o \in Operations : o = worker[w].op
    BY <1>7, CommitFinds
  <2>1. /\ operation[o].status = "PROCESSING" /\ operation'[o].status = "SUCCEEDED"
        /\ \A q \in Operations : q # o => operation'[q] = operation[q]
    BY <1>7, CommitFinds
  <2>2. ledger[o] = "RESERVED"
    BY <2>1, ProcessingIsAwaited
  <2>3. ledger' = [ledger EXCEPT ![o] = "SETTLED"] /\ outbox' = outbox
    BY <1>7, <2>2 DEF CommitGeneratedQuestions, CommitEvaluation, FinishAccounting, Settle
  <2>4. \/ o \notin SubmitRequests /\ submission' = submission
        \/ /\ o \in SubmitRequests
           /\ submission' = [submission EXCEPT ![o].status =
                IF submission[o].status = "ACCEPTED" THEN "COMPLETED" ELSE submission[o].status]
    BY <1>7, ConstantsAssumption DEF CommitGeneratedQuestions, CommitEvaluation,
       CanCommitQuestions, CompleteSubmission, CanCommitEvaluation
  <2>5. o \in SubmitRequests => submission[o].status = "ACCEPTED"
    BY <2>1 DEF OutcomesKept, SubmissionFor
  <2>6. CASE p = o
    <3>1. p \in SubmitRequests => submission'[p].status = "COMPLETED"
      <4> SUFFICES ASSUME p \in SubmitRequests PROVE submission'[p].status = "COMPLETED"
        OBVIOUS
      <4>1. submission' = [submission EXCEPT ![p].status = "COMPLETED"]
        BY <2>4, <2>5, <2>6
      <4>2. submission'[p] = [submission[p] EXCEPT !.status = "COMPLETED"]
        BY <1>0, <4>1
      <4> QED BY <1>0, <1>8, <4>2
    <3> QED BY <1>0, <2>1, <2>3, <2>6, <3>1 DEF OutcomeSucceeds
  <2>7. CASE p # o
    BY <1>0, <2>1, <2>3, <2>4, <2>7 DEF OutcomeSame
  <2> QED BY <2>6, <2>7
<1>10. ASSUME NEW w \in Workers, FailTerminally(w)
       PROVE  OutcomeSame(p) \/ OutcomeFails(p)
  <2> PICK o \in Operations : o = worker[w].op
    BY <1>10 DEF FailTerminally, Failing, Shape, WorkerShape
  <2>1. worker[w].pc # "idle" /\ EndLease(w, "FAILED") /\ HoldsLease(w)
    BY <1>10 DEF FailTerminally, Failing, LeasesHold, Busy
  <2>2. operation[o].status = "PROCESSING" /\ operation'[o].status = "FAILED"
        /\ operation'[o].target = operation[o].target
        /\ \A q \in Operations : q # o => operation'[q] = operation[q]
    BY <2>1, EndLeaseEffect DEF OperationStatus
  <2>3. ledger[o] = "RESERVED" /\ operation[o].target \in Sessions /\ SessionStillActive(o)
    BY <2>2, ProcessingIsAwaited
  <2>4. /\ ledger' = [ledger EXCEPT ![o] = "RELEASED"]
        /\ outbox' = [outbox EXCEPT ![o].status = "FAILED"]
        /\ submission' = IF o \in SubmitRequests
                         THEN [submission EXCEPT ![o].status = "FAILED"] ELSE submission
        /\ FailSession(o)
    BY <1>10, <2>3 DEF FailTerminally, Settle
  <2>5. session'[operation[o].target].status = "FAILED"
    BY <2>3, <2>4 DEF FailSession, Shape, TypeOK
  <2>6. CASE p = o
    <3>1. p \in SubmitRequests => submission'[p].status = "FAILED"
      BY <1>0, <1>8, <2>4, <2>6
    <3>2. outbox'[p].status = "FAILED"
      BY <1>0, <1>9, <2>4, <2>6 DEF OutboxStatus
    <3> QED BY <1>0, <2>2, <2>4, <2>5, <2>6, <3>1, <3>2 DEF OutcomeFails
  <2>7. CASE p # o
    BY <1>0, <2>2, <2>4, <2>7 DEF OutcomeSame
  <2> QED BY <2>6, <2>7
<1>11. ASSUME NEW w \in Workers, RetryLater(w)
       PROVE  OutcomeSame(p)
  <2> PICK o \in Operations : o = worker[w].op
    BY <1>11 DEF RetryLater, Failing, Shape, WorkerShape
  <2>1. operation[o].status = "PROCESSING"
    BY <1>11 DEF RetryLater, Failing, LeasesHold, Busy, HoldsLease
  <2>2. ledger[o] # "RELEASED"
    BY <2>1, ProcessingIsAwaited
  <2>3. p # o => outbox'[p] = outbox[p]
    BY <1>11 DEF RetryLater
  <2>4. submission' = submission
    BY <1>11 DEF RetryLater
  <2> QED BY <1>1, <1>11, <2>2, <2>3, <2>4, WorkerIdles
<1>12. ASSUME NEW w \in Workers,
              \/ \E o \in Operations : ClaimOperation(w, o) \/ DropDelivery(w, o)
              \/ MarkUnknown(w) \/ StartUsageAttempt(w)
              \/ \E outcome \in ProviderOutcome : ProviderAnswers(w, outcome)
              \/ AbandonCommit(w) \/ PublishStateChanged(w) \/ WorkerCrash(w)
       PROVE  OutcomeSame(p)
  <2>1. outbox' = outbox /\ submission' = submission
    BY <1>12 DEF ClaimOperation, DropDelivery, MarkUnknown, StartUsageAttempt,
       ProviderAnswers, AbandonCommit, PublishStateChanged, WorkerCrash, storeVars,
       UNCHANGEDByClaim
  <2> QED BY <1>1, <1>12, <2>1, WorkerIdles
<1>13. CASE UNCHANGED vars
  BY <1>13 DEF vars, OutcomeSame
<1>14. ASSUME Request PROVE OutcomeSame(p) \/ OutcomeOpens(p)
  BY <1>4, <1>5, <1>6, <1>14 DEF Request
<1> QED
  BY <1>2, <1>3, <1>7, <1>10, <1>11, <1>12, <1>13, <1>14 DEF Next, WorkerStep

(* The accounting of the attempts: a holder that is ready has no open      *)
(* attempt behind it, one that has its output has its own and no other.    *)
NoneOpen(o) == \A n \in Attempts : usage[o][n] # "STARTED"
OnlyOpen(o, m) ==
  /\ usage[o][m] = "STARTED"
  /\ \A n \in Attempts : n # m => usage[o][n] # "STARTED"

UsageClosed ==
  /\ \A o \in Operations : operation[o].status = "SUCCEEDED" =>
       usage[o][operation[o].attempts] = "SUCCEEDED" /\ NoneOpen(o)
  /\ \A w \in Workers :
       /\ worker[w].pc = "ready" => NoneOpen(worker[w].op)
       /\ worker[w].pc = "calling" \/ HasOutput(w) =>
            OnlyOpen(worker[w].op, worker[w].attempt)

(* The attempts of an operation change by the step of a worker that is busy*)
(* on it.                                                                  *)
LEMMA UsageStep ==
  ASSUME Shape, [Next]_vars, NEW o \in Operations
  PROVE  \/ usage'[o] = usage[o]
         \/ \E w \in Workers : /\ worker[w].op = o /\ Busy(w)
                               /\ \/ MarkUnknown(w) \/ StartUsageAttempt(w) \/ RetryLater(w)
                                  \/ FailTerminally(w) \/ CommitGeneratedQuestions(w)
                                  \/ CommitEvaluation(w)
<1> DEFINE Goal == \/ usage'[o] = usage[o]
                   \/ \E w \in Workers :
                        /\ worker[w].op = o /\ Busy(w)
                        /\ \/ MarkUnknown(w) \/ StartUsageAttempt(w) \/ RetryLater(w)
                           \/ FailTerminally(w) \/ CommitGeneratedQuestions(w)
                           \/ CommitEvaluation(w)
<1>0. usage \in [Operations -> [Attempts -> UsageStatus]]
  BY DEF Shape, TypeOK
<1>1. ASSUME NEW d \in Dispatchers, DispatcherStep(d) \/ DispatcherCrash(d) PROVE Goal
  BY <1>1 DEF DispatcherStep, DispatcherCrash, FindStalled, Redeliver, ClaimRow, NothingDue,
     Enqueue, EnqueueFails, ConfirmRow, RefuseRow, LeaseEnds, storeVars
<1>2. ASSUME NEW s, NEW p, AcceptOperation(s, p) PROVE Goal
  BY <1>2 DEF AcceptOperation
<1>3. ASSUME NEW s, NEW v, NEW a, SaveProgress(s, v, a) PROVE Goal
  BY <1>3 DEF SaveProgress, WriteDraft
<1>4. ASSUME Request PROVE Goal
  BY <1>2, <1>3, <1>4 DEF Request, GenerateQuestions, SubmitAnswers
<1>5. ASSUME NEW p \in Operations, OperationDue(p) \/ OutboxDue(p) PROVE Goal
  BY <1>5 DEF OperationDue, OutboxDue
<1>6. ASSUME NEW w \in Workers,
             \/ MarkUnknown(w) \/ StartUsageAttempt(w) \/ RetryLater(w)
             \/ FailTerminally(w) \/ CommitGeneratedQuestions(w) \/ CommitEvaluation(w)
      PROVE  Goal
  <2>1. Busy(w)
    BY <1>6 DEF Busy, MarkUnknown, StartUsageAttempt, RetryLater, FailTerminally, Failing,
       CommitGeneratedQuestions, CommitEvaluation, HasOutput
  <2>2. \/ \E x : usage' = [usage EXCEPT ![worker[w].op] = x]
        \/ \E x, n : usage' = [usage EXCEPT ![worker[w].op][n] = x]
    BY <1>6 DEF MarkUnknown, StartUsageAttempt, RetryLater, FailTerminally,
       CommitGeneratedQuestions, CommitEvaluation, FinishAccounting, CloseAttempt
  <2>3. CASE worker[w].op = o
    BY <1>6, <2>1, <2>3
  <2>4. CASE worker[w].op # o
    BY <1>0, <2>2, <2>4
  <2> QED BY <2>3, <2>4
<1>7. ASSUME NEW w \in Workers,
             \/ \E p \in Operations : ClaimOperation(w, p) \/ DropDelivery(w, p)
             \/ \E outcome \in ProviderOutcome : ProviderAnswers(w, outcome)
             \/ AbandonCommit(w) \/ PublishStateChanged(w) \/ WorkerCrash(w)
      PROVE  usage' = usage
  BY <1>7 DEF ClaimOperation, DropDelivery, ProviderAnswers, AbandonCommit,
     PublishStateChanged, WorkerCrash, storeVars, UNCHANGEDByClaim
<1>8. CASE UNCHANGED vars
  BY <1>8 DEF vars
<1> QED BY <1>1, <1>4, <1>5, <1>6, <1>7, <1>8 DEF Next, WorkerStep

(* What one step does to a worker and to the attempts of its operation.    *)
Marks(v) == MarkUnknown(v) /\ worker'[v].pc = "ready" /\ worker'[v].op = worker[v].op
Starts(v) == /\ StartUsageAttempt(v) /\ worker'[v].pc = "calling"
             /\ worker'[v].op = worker[v].op /\ worker'[v].attempt = worker[v].attempt
Leaves(v) == worker'[v].pc \in {"idle", "publish", "claimed"}
Goes(v) ==
  /\ usage'[worker[v].op] = usage[worker[v].op]
  /\ \/ worker'[v] = worker[v]
     \/ /\ worker'[v].pc = "answered"
        /\ worker'[v].op = worker[v].op /\ worker'[v].attempt = worker[v].attempt
        /\ worker'[v].outcome = "output" => worker[v].pc = "calling"

LEMMA PhaseStep ==
  ASSUME Shape, LeasesHold, [Next]_vars, NEW v \in Workers, Busy(v)
  PROVE  Marks(v) \/ Starts(v) \/ Leaves(v) \/ Goes(v)
<1>0. worker \in [Workers -> WorkerState] /\ worker[v] \in WorkerState
      /\ worker[v].op \in Operations
  BY DEF Shape, TypeOK, WorkerShape, Busy
<1>1. CASE MarkUnknown(v)
  <2>1. worker'[v] = [worker[v] EXCEPT !.pc = "ready"]
    BY <1>0, <1>1 DEF MarkUnknown, Advance
  <2> QED BY <1>0, <1>1, <2>1, WorkerUpdate DEF Marks
<1>2. CASE StartUsageAttempt(v)
  <2>1. worker'[v] = [worker[v] EXCEPT !.pc = "calling"]
    BY <1>0, <1>2 DEF StartUsageAttempt, Advance
  <2> QED BY <1>0, <1>2, <2>1, WorkerUpdate DEF Starts
<1>3. CASE RetryLater(v) \/ FailTerminally(v) \/ AbandonCommit(v) \/ PublishStateChanged(v)
           \/ WorkerCrash(v)
  <2>1. [worker[v] EXCEPT !.pc = "publish"].pc = "publish"
    BY <1>0, WorkerUpdate
  <2>2. AfterFailure(v).pc \in {"idle", "publish"} /\ IdleWorker.pc = "idle"
    BY <2>1 DEF AfterFailure, IdleWorker
  <2>3. worker'[v] = AfterFailure(v) \/ worker'[v] = IdleWorker
    BY <1>0, <1>3 DEF RetryLater, FailTerminally, AbandonCommit, PublishStateChanged, WorkerCrash
  <2> QED BY <2>2, <2>3 DEF Leaves
<1>4. CASE CommitGeneratedQuestions(v) \/ CommitEvaluation(v)
  <2>1. worker'[v] = [worker[v] EXCEPT !.pc = "publish"]
    BY <1>0, <1>4 DEF CommitGeneratedQuestions, CommitEvaluation, Advance
  <2> QED BY <1>0, <2>1, WorkerUpdate DEF Leaves
<1>5. CASE ~ (MarkUnknown(v) \/ StartUsageAttempt(v) \/ RetryLater(v) \/ FailTerminally(v)
              \/ AbandonCommit(v) \/ PublishStateChanged(v) \/ WorkerCrash(v)
              \/ CommitGeneratedQuestions(v) \/ CommitEvaluation(v))
  <2>1. usage'[worker[v].op] = usage[worker[v].op]
    BY <1>0, <1>5, UsageStep, Sole
  <2>2. ASSUME NEW outcome \in ProviderOutcome, ProviderAnswers(v, outcome) PROVE Goes(v)
    <3>1. worker'[v] = [worker[v] EXCEPT !.pc = "answered", !.outcome = outcome]
      BY <1>0, <2>2 DEF ProviderAnswers
    <3>2. outcome = "output" => worker[v].pc = "calling"
      BY <2>2 DEF ProviderAnswers
    <3> QED BY <1>0, <2>1, <3>1, <3>2, WorkerUpdate DEF Goes
  <2>3. ASSUME NEW w \in Workers, WorkerStep(w) \/ WorkerCrash(w), w # v
        PROVE  worker'[v] = worker[v]
    BY <1>0, <2>3 DEF WorkerStep, WorkerCrash, ClaimOperation, DropDelivery, MarkUnknown,
       StartUsageAttempt, ProviderAnswers, AbandonCommit, RetryLater, PublishStateChanged,
       CommitGeneratedQuestions, CommitEvaluation, FailTerminally, Advance
  <2>4. ASSUME NEW o \in Operations, ClaimOperation(v, o) PROVE FALSE
    BY <2>4 DEF ClaimOperation, Busy
  <2>5. ASSUME NEW o \in Operations, DropDelivery(v, o) PROVE FALSE
    BY <2>5 DEF DropDelivery, Busy
  <2>6. ASSUME NEW d \in Dispatchers, DispatcherStep(d) \/ DispatcherCrash(d)
        PROVE  worker' = worker
    BY <2>6 DEF DispatcherStep, DispatcherCrash, FindStalled, Redeliver, ClaimRow,
       NothingDue, Enqueue, EnqueueFails, ConfirmRow, RefuseRow, LeaseEnds
  <2>7. ASSUME Request PROVE worker' = worker
    <3>1. ASSUME NEW s, NEW o, AcceptOperation(s, o) PROVE worker' = worker
      BY <3>1 DEF AcceptOperation
    <3>2. ASSUME NEW s, NEW a, NEW b, SaveProgress(s, a, b) PROVE worker' = worker
      BY <3>2 DEF SaveProgress, WriteDraft
    <3> QED BY <2>7, <3>1, <3>2 DEF Request, GenerateQuestions, SubmitAnswers
  <2>8. ASSUME NEW o \in Operations, OperationDue(o) \/ OutboxDue(o) PROVE worker' = worker
    BY <2>8 DEF OperationDue, OutboxDue
  <2>9. \/ \E outcome \in ProviderOutcome : ProviderAnswers(v, outcome)
        \/ worker'[v] = worker[v]
    BY <1>5, <2>3, <2>4, <2>5, <2>6, <2>7, <2>8 DEF Next, vars, WorkerStep
  <2> QED BY <2>1, <2>2, <2>9 DEF Goes
<1> QED BY <1>1, <1>2, <1>3, <1>4, <1>5

LEMMA UsageClosedStep ==
  ASSUME "late" \notin Faults, Shape, Consistent, LeasesHold, UsageClosed, [Next]_vars
  PROVE  UsageClosed'
<1>0. usage \in [Operations -> [Attempts -> UsageStatus]]
  BY DEF Shape, TypeOK
<1>1. ASSUME NEW o \in Operations, operation'[o].status = "SUCCEEDED"
      PROVE  usage'[o][operation'[o].attempts] = "SUCCEEDED" /\ NoneOpen(o)'
  <2>1. ASSUME NEW w \in Workers, worker[w].op = o, HoldsLease(w),
               CommitGeneratedQuestions(w) \/ CommitEvaluation(w)
        PROVE  usage'[o][operation'[o].attempts] = "SUCCEEDED" /\ NoneOpen(o)'
    <3> DEFINE m == worker[w].attempt
    <3>1. /\ HasOutput(w) /\ worker[w].pc # "idle"
          /\ CloseAttempt(w, "SUCCEEDED") /\ EndLease(w, "SUCCEEDED")
      BY <2>1 DEF CommitGeneratedQuestions, CommitEvaluation, HasOutput, FinishAccounting
    <3>2. OnlyOpen(o, m) /\ m = operation[o].attempts
      BY <2>1, <3>1 DEF UsageClosed, Shape, WorkerShape
    <3>3. operation'[o].attempts = m
      <4>1. operation[o] \in OperationDoc
        BY DEF Shape, TypeOK
      <4>2. operation'[o] = [operation[o] EXCEPT !.status = "SUCCEEDED", !.lease = None,
                                                 !.due = FALSE]
        BY <2>1, <3>1 DEF EndLease, Shape, TypeOK
      <4>3. \A doc \in OperationDoc :
              [doc EXCEPT !.status = "SUCCEEDED", !.lease = None,
                          !.due = FALSE].attempts = doc.attempts
        BY DEF OperationDoc
      <4> QED BY <3>2, <4>1, <4>2, <4>3
    <3>4. /\ usage'[o][m] = "SUCCEEDED" /\ m \in Attempts
          /\ \A n \in Attempts : n # m => usage'[o][n] = usage[o][n]
      BY <2>1, <3>1, <3>2, CloseEffect DEF OnlyOpen
    <3>5. \A n \in Attempts : usage'[o][n] # "STARTED"
      BY <3>2, <3>4 DEF OnlyOpen
    <3> QED BY <3>3, <3>4, <3>5 DEF NoneOpen
  <2>2. ASSUME operation[o].status = "SUCCEEDED", operation'[o] = operation[o]
        PROVE  usage'[o][operation'[o].attempts] = "SUCCEEDED" /\ NoneOpen(o)'
    <3>1. ASSUME NEW w \in Workers, worker[w].op = o, Busy(w) PROVE FALSE
      BY <2>2, <3>1 DEF LeasesHold, HoldsLease
    <3>2. usage'[o] = usage[o]
      BY <3>1, UsageStep
    <3> QED BY <2>2, <3>2 DEF UsageClosed, NoneOpen
  <2>3. ASSUME NEW w \in Workers, ClaimOperation(w, o) PROVE FALSE
    <3>1. \A doc \in OperationDoc, n \in Nat :
            [doc EXCEPT !.status = "PROCESSING", !.lease = w, !.due = FALSE,
                        !.attempts = n].status = "PROCESSING"
      BY DEF OperationDoc
    <3>2. operation[o] \in OperationDoc /\ operation[o].attempts + 1 \in Nat
      BY DEF Shape, TypeOK, OperationDoc
    <3>3. operation'[o] = [operation[o] EXCEPT !.status = "PROCESSING", !.lease = w,
                             !.due = FALSE, !.attempts = operation[o].attempts + 1]
      BY <2>3 DEF ClaimOperation, Shape, TypeOK
    <3>4. operation'[o].status = "PROCESSING"
      BY <3>1, <3>2, <3>3
    <3> QED BY <1>1, <3>4
  <2>4. ASSUME OperationDue(o) PROVE FALSE
    <3>1. operation'[o] = [operation[o] EXCEPT !.due = TRUE]
          /\ operation[o].status # "SUCCEEDED"
      BY <2>4 DEF OperationDue, Shape, TypeOK
    <3>2. operation'[o].status = operation[o].status
      BY <3>1, OperationDueUpdate DEF Shape, TypeOK
    <3> QED BY <1>1, <3>1, <3>2
  <2>5. ASSUME NEW w \in Workers, EndsLease(w), worker[w].op = o, HoldsLease(w)
        PROVE  CommitGeneratedQuestions(w) \/ CommitEvaluation(w)
    <3>1. PICK st \in OperationStatus :
            /\ worker[w].pc = "answered" /\ EndLease(w, st)
            /\ st = "SUCCEEDED" => CommitGeneratedQuestions(w) \/ CommitEvaluation(w)
      BY <2>5 DEF EndsLease
    <3>2. operation'[o].status = st
      BY <2>5, <3>1, EndLeaseEffect
    <3> QED BY <1>1, <3>1, <3>2
  <2> QED BY <1>1, <2>1, <2>2, <2>3, <2>4, <2>5, OperationStep
<1>2. ASSUME NEW v \in Workers,
             worker'[v].pc \in {"ready", "calling"} \/ HasOutput(v)'
      PROVE  /\ worker'[v].pc = "ready" => NoneOpen(worker[v].op)'
             /\ worker'[v].pc = "calling" \/ HasOutput(v)' =>
                  OnlyOpen(worker[v].op, worker[v].attempt)'
  <2>0. Busy(v)' /\ ~ Leaves(v)
    BY <1>2 DEF Busy, HasOutput, Leaves
  <2>1. Busy(v)
    <3>1. ASSUME NEW o \in Operations, ClaimOperation(v, o) PROVE FALSE
      BY <2>0, <3>1 DEF ClaimOperation, Leaves, Shape, TypeOK
    <3> QED BY <2>0, <3>1, BusyStep
  <2>2. worker[v].op \in Operations /\ worker[v].attempt \in Attempts
    BY <2>1 DEF Busy, Shape, WorkerShape
  <2>3. CASE Marks(v)
    <3> DEFINE o == worker[v].op
    <3>1. usage' = [usage EXCEPT ![o] = [n \in Attempts |->
                      IF usage[o][n] = "STARTED" THEN "UNKNOWN" ELSE usage[o][n]]]
          /\ o \in Operations /\ worker'[v].op = o
      BY <2>2, <2>3 DEF Marks, MarkUnknown
    <3>2. \A n \in Attempts : usage'[worker'[v].op][n] # "STARTED"
      <4> HIDE DEF o
      <4> QED BY <1>0, <3>1
    <3> QED BY <2>3, <3>2 DEF Marks, NoneOpen, HasOutput
  <2>4. CASE Starts(v)
    <3> DEFINE o == worker[v].op
               m == worker[v].attempt
    <3>1. /\ usage' = [usage EXCEPT ![o][m] = "STARTED"] /\ NoneOpen(o)
          /\ o \in Operations /\ m \in Attempts /\ worker'[v].op = o /\ worker'[v].attempt = m
      BY <2>2, <2>4 DEF Starts, StartUsageAttempt, UsageClosed
    <3>2. /\ usage'[worker'[v].op][worker'[v].attempt] = "STARTED"
          /\ \A n \in Attempts :
               n # worker'[v].attempt => usage'[worker'[v].op][n] # "STARTED"
      <4> HIDE DEF o, m
      <4> QED BY <1>0, <3>1 DEF NoneOpen
    <3> QED BY <2>4, <3>2 DEF Starts, OnlyOpen, HasOutput
  <2>5. CASE Goes(v)
    <3>1. /\ worker'[v].op = worker[v].op /\ worker'[v].attempt = worker[v].attempt
          /\ usage'[worker[v].op] = usage[worker[v].op]
      BY <2>5 DEF Goes
    <3>2. worker'[v].pc = "ready" => NoneOpen(worker[v].op)
      BY <2>5 DEF Goes, UsageClosed
    <3>3. worker'[v].pc = "calling" \/ HasOutput(v)' => OnlyOpen(worker[v].op, worker[v].attempt)
      BY <2>5 DEF Goes, UsageClosed, HasOutput
    <3> QED BY <3>1, <3>2, <3>3 DEF NoneOpen, OnlyOpen
  <2> QED BY <2>0, <2>1, <2>3, <2>4, <2>5, PhaseStep
<1> QED BY <1>1, <1>2 DEF UsageClosed, HasOutput

-----------------------------------------------------------------------------
(* Part 3. *)

Orderly == LeasesHold /\ OutcomesKept /\ UsageClosed

LEMMA OrderlyInit == Init => Orderly
<1> SUFFICES ASSUME Init PROVE Orderly
  OBVIOUS
<1>1. LeasesHold
  BY DEF Init, LeasesHold, Busy, IdleWorker
<1>2. OutcomesKept
  BY DEF Init, OutcomesKept, NoOperation, SubmissionFor, Operations
<1>3. UsageClosed
  BY DEF Init, UsageClosed, NoOperation, IdleWorker, HasOutput
<1> QED BY <1>1, <1>2, <1>3 DEF Orderly

LEMMA OrderlyStands ==
  ASSUME "late" \notin Faults
  PROVE  Spec => [](Shape /\ Consistent /\ Orderly)
<1>1. Init => Shape /\ Consistent /\ Orderly
  BY InitShape, InitConsistent, OrderlyInit
<1>2. (Shape /\ Consistent /\ Orderly) /\ [Next]_vars => (Shape /\ Consistent /\ Orderly)'
  BY ShapeStep, ConsistentStep, LeasesHoldStep, OutcomesKeptStep, UsageClosedStep DEF Orderly
<1> QED BY <1>1, <1>2, PTL DEF Spec

(* Two workers never call the provider for one operation.                  *)
THEOREM ProviderCalledOnceAtATime ==
  ASSUME "late" \notin Faults
  PROVE  Spec => []OneCallAtATime
<1>1. Orderly => OneCallAtATime
  BY Sole DEF Orderly, OneCallAtATime, Busy
<1> QED BY <1>1, OrderlyStands, PTL

(* Record, ledger, outbox row, submission and session agree on how an      *)
(* operation ended.                                                        *)
THEOREM OutcomesCorrect ==
  ASSUME "late" \notin Faults
  PROVE  Spec => []OutcomesAgree
<1>1. Shape /\ OutcomesKept => OutcomesAgree
  BY DEF Shape, TypeOK, OperationDoc, OperationStatus, OutcomesKept, SubmissionFor,
     OutcomesAgree, FailsTogether, SubmissionTellsOutcome, Operations
<1>2. Orderly => OutcomesKept
  BY DEF Orderly
<1> QED BY <1>1, <1>2, OrderlyStands, PTL

(* The attempts of an operation that succeeded are closed, the last one as *)
(* the one that succeeded.                                                 *)
THEOREM AttemptsClosed ==
  ASSUME "late" \notin Faults
  PROVE  Spec => []SucceededUsageClosed
<1>1. Orderly => SucceededUsageClosed
  BY DEF Orderly, UsageClosed, NoneOpen, SucceededUsageClosed
<1> QED BY <1>1, OrderlyStands, PTL
=============================================================================
