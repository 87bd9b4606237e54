---------------------- MODULE InterviewWorkflow_proofs ----------------------
(***************************************************************************)
(* Proofs about InterviewWorkflow for any sets of sessions, requests,      *)
(* drafts, workers and dispatchers, any bounds and any faults.             *)
(*                                                                         *)
(* Part 1: Shape, the type invariant and what a process knows of the       *)
(* documents it works on.  Part 2: Consistent, how the documents of one    *)
(* request relate.  Part 3: the theorems.                                  *)
(***************************************************************************)
EXTENDS InterviewWorkflow, TLAPS

-----------------------------------------------------------------------------
(* Part 1. *)

(* A busy worker works on an operation that exists, and its attempt number *)
(* is the record's as long as it holds the lease.                          *)
WorkerShape ==
  \A w \in Workers : worker[w].pc # "idle" =>
    /\ worker[w].op \in Operations
    /\ worker[w].attempt \in Attempts
    /\ operation[worker[w].op].status # "ABSENT"
    /\ HoldsLease(w) => worker[w].attempt = operation[worker[w].op].attempts

DispatcherShape ==
  \A d \in Dispatchers : dispatcher[d].pc \in {"enqueue", "confirm", "refused"} =>
    dispatcher[d].event \in Operations

(* An operation that can be claimed has a claim left in the bound.         *)
OperationShape ==
  \A o \in Operations :
    /\ operation[o].status # "ABSENT" => operation[o].target \in Sessions
    /\ (operation[o].status = "PENDING"
        \/ (operation[o].status = "PROCESSING" /\ operation[o].due)) =>
         operation[o].attempts < ClaimBound

Shape == TypeOK /\ WorkerShape /\ DispatcherShape /\ OperationShape

(* What the updates of a document return.                                  *)
LEMMA OperationUpdate ==
  ASSUME NEW doc \in OperationDoc, NEW st \in OperationStatus
  PROVE  LET d == [doc EXCEPT !.status = st, !.lease = None, !.due = FALSE] IN
           /\ d \in OperationDoc
           /\ d.status = st /\ d.lease = None /\ d.due = FALSE
           /\ d.target = doc.target /\ d.attempts = doc.attempts
           /\ d.aggregateVersion = doc.aggregateVersion
BY DEF OperationDoc

LEMMA OperationDueUpdate ==
  ASSUME NEW doc \in OperationDoc
  PROVE  LET d == [doc EXCEPT !.due = TRUE] IN
           /\ d \in OperationDoc
           /\ d.status = doc.status /\ d.lease = doc.lease
           /\ d.target = doc.target /\ d.attempts = doc.attempts
           /\ d.aggregateVersion = doc.aggregateVersion
BY DEF OperationDoc

(* The initial states have the shape.                                      *)
LEMMA InitShape == Init => Shape
<1> SUFFICES ASSUME Init PROVE Shape
  OBVIOUS
<1>1. session \in [Sessions -> SessionDoc] /\ questions \in [Sessions -> QuestionSet]
  <2> PICK st \in [Sessions -> StartStatus] :
        /\ session = [s \in Sessions |-> NewSession(st[s])]
        /\ questions = [s \in Sessions |-> FirstQuestions(st[s])]
    BY DEF Init
  <2>1. \A s \in Sessions : st[s] \in {"PENDING", "IN_PROGRESS"}
    BY ConstantsAssumption
  <2> QED
    BY <2>1 DEF NewSession, SessionDoc, SessionStatus, Stages, FirstQuestions, QuestionSet
<1>2. operation \in [Operations -> OperationDoc] /\ outbox \in [Operations -> OutboxDoc]
  BY ConstantsAssumption DEF Init, NoOperation, OperationDoc, OperationStatus,
     NoOutbox, OutboxDoc, OutboxStatus
<1>3. worker \in [Workers -> WorkerState] /\ dispatcher \in [Dispatchers -> DispatcherState]
  BY ConstantsAssumption DEF Init, IdleWorker, WorkerState, IdleDispatcher, DispatcherState
<1>4. TypeOK
  BY <1>1, <1>2, <1>3 DEF Init, TypeOK, SubmissionDoc, SubmissionStatus, LedgerStatus, UsageStatus
<1>5. WorkerShape /\ DispatcherShape /\ OperationShape
  BY DEF Init, WorkerShape, DispatcherShape, OperationShape, IdleWorker, IdleDispatcher, NoOperation
<1> QED BY <1>4, <1>5 DEF Shape

(* The requests. *)
LEMMA AcceptShape ==
  ASSUME Shape, NEW s \in Sessions, NEW o \in Operations, AcceptOperation(s, o),
         submission' \in [Operations -> SubmissionDoc],
         questions' \in [Sessions -> QuestionSet]
  PROVE  Shape'
<1>1. session' \in [Sessions -> SessionDoc]
  BY DEF Shape, TypeOK, AcceptOperation, WaitingStatus, SessionDoc, SessionStatus, Stages
<1>2. operation' \in [Operations -> OperationDoc]
  BY ConstantsAssumption
     DEF Shape, TypeOK, AcceptOperation, OperationDoc, OperationStatus, SessionDoc
<1>3. outbox' \in [Operations -> OutboxDoc]
  BY ConstantsAssumption DEF Shape, TypeOK, AcceptOperation, OutboxDoc, OutboxStatus
<1>4. ledger' \in [Operations -> LedgerStatus]
  BY DEF Shape, TypeOK, AcceptOperation, LedgerStatus
<1>5. TypeOK'
  BY <1>1, <1>2, <1>3, <1>4 DEF Shape, TypeOK, AcceptOperation
<1>6. WorkerShape' /\ DispatcherShape' /\ OperationShape'
  BY ConstantsAssumption DEF Shape, TypeOK, AcceptOperation, WorkerShape, DispatcherShape,
     OperationShape, HoldsLease, OperationDoc
<1> QED BY <1>5, <1>6 DEF Shape

LEMMA RequestShape ==
  ASSUME Shape, Request
  PROVE  Shape'
<1> PICK s \in Sessions :
      \/ \E o \in GenerateRequests : GenerateQuestions(s, o)
      \/ \E v \in 0 .. session[s].version, a \in Drafts :
           \/ \E o \in SubmitRequests : SubmitAnswers(s, o, v, a)
           \/ SaveProgress(s, v, a)
  BY DEF Request
<1>1. ASSUME NEW o \in GenerateRequests, GenerateQuestions(s, o) PROVE Shape'
  BY <1>1, AcceptShape DEF Shape, TypeOK, GenerateQuestions, Operations
<1>2. ASSUME NEW v \in 0 .. session[s].version, NEW a \in Drafts,
             NEW o \in SubmitRequests, SubmitAnswers(s, o, v, a)
      PROVE Shape'
  <2>1. v + 1 \in Nat
    BY DEF Shape, TypeOK, SessionDoc
  <2>2. submission' \in [Operations -> SubmissionDoc]
    BY <1>2 DEF Shape, TypeOK, SubmitAnswers, SubmissionDoc, SubmissionStatus
  <2>3. questions' \in [Sessions -> QuestionSet]
    <3> DEFINE q == [questions[s] EXCEPT !.answer = a, !.answerVersion = v + 1]
    <3>1. q \in QuestionSet
      BY <2>1 DEF Shape, TypeOK, QuestionSet
    <3>2. questions' = [questions EXCEPT ![s] = q]
      BY <1>2 DEF SubmitAnswers
    <3> QED BY <3>1, <3>2 DEF Shape, TypeOK
  <2> QED
    BY <1>2, <2>2, <2>3, AcceptShape DEF SubmitAnswers, Operations
<1>3. ASSUME NEW v \in 0 .. session[s].version, NEW a \in Drafts, SaveProgress(s, v, a)
      PROVE Shape'
  <2>1. v + 1 \in Nat
    BY DEF Shape, TypeOK, SessionDoc
  <2>2. session' \in [Sessions -> SessionDoc]
    <3> DEFINE d == [session[s] EXCEPT !.version = v + 1]
    <3>1. d \in SessionDoc
      BY <2>1 DEF Shape, TypeOK, SessionDoc
    <3>2. session' = [session EXCEPT ![s] = d]
      BY <1>3 DEF SaveProgress, WriteDraft
    <3> QED BY <3>1, <3>2 DEF Shape, TypeOK
  <2>3. questions' \in [Sessions -> QuestionSet]
    <3> DEFINE q == [questions[s] EXCEPT !.answer = a, !.answerVersion = v + 1]
    <3>1. q \in QuestionSet
      BY <2>1 DEF Shape, TypeOK, QuestionSet
    <3>2. questions' = [questions EXCEPT ![s] = q]
      BY <1>3 DEF SaveProgress, WriteDraft
    <3> QED BY <3>1, <3>2 DEF Shape, TypeOK
  <2> QED
    BY <1>3, <2>2, <2>3 DEF Shape, TypeOK, SaveProgress, WriteDraft, WorkerShape,
       DispatcherShape, OperationShape, HoldsLease
<1> QED BY <1>1, <1>2, <1>3

(* The dispatcher. *)
LEMMA DispatcherShapeStep ==
  ASSUME Shape, NEW d \in Dispatchers, DispatcherStep(d) \/ DispatcherCrash(d)
  PROVE  Shape'
<1> USE DEF Shape
(* Steps that change no document but the outbox row, and this dispatcher.  *)
<1>0. ASSUME UNCHANGED <<session, questions, operation, submission, results, ledger,
                         usage, worker, bus>>,
             outbox' \in [Operations -> OutboxDoc],
             jobs' \in SUBSET Operations,
             NEW x \in DispatcherState, dispatcher' = [dispatcher EXCEPT ![d] = x],
             x.pc \in {"enqueue", "confirm", "refused"} => x.event \in Operations
      PROVE  Shape'
  <2>1. TypeOK'
    BY <1>0 DEF TypeOK
  <2>2. WorkerShape' /\ DispatcherShape' /\ OperationShape'
    BY <1>0 DEF TypeOK, WorkerShape, DispatcherShape, OperationShape, HoldsLease
  <2> QED BY <2>1, <2>2
<1>idle. IdleDispatcher \in DispatcherState
  BY ConstantsAssumption DEF IdleDispatcher, DispatcherState
<1>row. ASSUME NEW row \in OutboxDoc, NEW st \in OutboxStatus
        PROVE  [row EXCEPT !.status = st, !.lease = None, !.due = FALSE] \in OutboxDoc
               /\ [row EXCEPT !.status = st, !.lease = None, !.due = TRUE] \in OutboxDoc
  BY DEF OutboxDoc
<1>1. CASE FindStalled(d)
  <2> DEFINE found == {o \in Operations : Stalled(o)}
             x == [IdleDispatcher EXCEPT !.pc = IF found = {} THEN "claim" ELSE "redeliver",
                                         !.stalled = found]
  <2>1. x \in DispatcherState /\ x.pc \notin {"enqueue", "confirm", "refused"}
    BY <1>idle DEF DispatcherState, IdleDispatcher
  <2> QED BY <1>1, <1>0, <2>1 DEF FindStalled, storeVars, TypeOK
<1>2. CASE Redeliver(d)
  <2> DEFINE x == [dispatcher[d] EXCEPT !.pc = "claim", !.stalled = {}]
  <2>1. x \in DispatcherState /\ x.pc = "claim"
    BY DEF TypeOK, DispatcherState
  <2>2. dispatcher' = [dispatcher EXCEPT ![d] = x]
    BY <1>2 DEF Redeliver
  <2>3. outbox' \in [Operations -> OutboxDoc]
    BY <1>2, <1>row DEF Redeliver, TypeOK, OutboxStatus
  <2> QED BY <1>2, <1>0, <2>1, <2>2, <2>3 DEF Redeliver, TypeOK
<1>3. ASSUME NEW o \in Operations, ClaimRow(d, o) PROVE Shape'
  <2> DEFINE n == CountedUp(outbox[o].attempts)
             x == [dispatcher[d] EXCEPT !.pc = "enqueue", !.event = o, !.attempts = n]
  <2>1. n \in 0 .. MaxPublishAttempts
    BY ConstantsAssumption DEF CountedUp, TypeOK, OutboxDoc
  <2>2. x \in DispatcherState /\ x.event = o
    BY <2>1 DEF TypeOK, DispatcherState
  <2>3. dispatcher' = [dispatcher EXCEPT ![d] = x]
    BY <1>3 DEF ClaimRow
  <2>4. outbox' \in [Operations -> OutboxDoc]
    BY <1>3, <2>1 DEF ClaimRow, TypeOK, OutboxDoc, OutboxStatus
  <2> QED BY <1>3, <1>0, <2>2, <2>3, <2>4 DEF ClaimRow, TypeOK
<1>4. CASE NothingDue(d)
  BY <1>4, <1>0, <1>idle DEF NothingDue, storeVars, TypeOK, IdleDispatcher
<1>5. ASSUME NEW pc \in {"confirm", "refused"}, dispatcher[d].pc = "enqueue",
             jobs' \in SUBSET (jobs \cup {dispatcher[d].event}),
             dispatcher' = [dispatcher EXCEPT ![d].pc = pc],
             UNCHANGED <<storeVars, worker, bus>>
      PROVE  Shape'
  <2> DEFINE x == [dispatcher[d] EXCEPT !.pc = pc]
  <2>1. dispatcher[d].event \in Operations
    BY <1>5 DEF DispatcherShape
  <2>2. x \in DispatcherState /\ x.event = dispatcher[d].event
    BY <1>5 DEF TypeOK, DispatcherState
  <2> QED BY <1>5, <1>0, <2>1, <2>2 DEF storeVars, TypeOK
<1>6. CASE Enqueue(d)
  BY <1>6, <1>5 DEF Enqueue, TypeOK
<1>7. CASE EnqueueFails(d)
  BY <1>7, <1>5 DEF EnqueueFails, TypeOK
<1>8. ASSUME NEW st \in OutboxStatus, LeaseEnds(d, st),
             dispatcher[d].pc \in {"confirm", "refused"}
      PROVE  Shape'
  <2> DEFINE x == [IdleDispatcher EXCEPT !.pc = "claim"]
  <2>1. x \in DispatcherState /\ x.pc = "claim"
    BY <1>idle DEF DispatcherState, IdleDispatcher
  <2>2. dispatcher[d].event \in Operations
    BY <1>8 DEF DispatcherShape
  <2> DEFINE e == dispatcher[d].event
             row == [outbox[e] EXCEPT !.status = st, !.lease = None, !.due = FALSE]
  <2>3. outbox' \in [Operations -> OutboxDoc]
    <3>1. row \in OutboxDoc
      BY <1>row, <2>2 DEF TypeOK
    <3>2. outbox' = [outbox EXCEPT ![e] = row] \/ outbox' = outbox
      BY <1>8 DEF LeaseEnds
    <3> QED BY <2>2, <3>1, <3>2 DEF TypeOK
  <2> QED BY <1>8, <1>0, <2>1, <2>3 DEF LeaseEnds, TypeOK
<1>9. CASE ConfirmRow(d) \/ RefuseRow(d)
  BY <1>9, <1>8 DEF ConfirmRow, RefuseRow, OutboxStatus
<1>10. CASE DispatcherCrash(d)
  BY <1>10, <1>0, <1>idle DEF DispatcherCrash, storeVars, TypeOK, IdleDispatcher
<1> QED
  BY <1>1, <1>2, <1>3, <1>4, <1>6, <1>7, <1>9, <1>10 DEF DispatcherStep

(* The passing of time. *)
LEMMA DueShape ==
  ASSUME Shape, NEW o \in Operations, OperationDue(o) \/ OutboxDue(o)
  PROVE  Shape'
<1> USE DEF Shape
<1>1. CASE OperationDue(o)
  <2> DEFINE d == [operation[o] EXCEPT !.due = TRUE]
  <2>1. d \in OperationDoc
    BY DEF TypeOK, OperationDoc
  <2>2. operation' = [operation EXCEPT ![o] = d]
    BY <1>1 DEF OperationDue
  <2>3. TypeOK'
    BY <1>1, <2>1, <2>2 DEF OperationDue, TypeOK
  <2>4. OperationShape'
    <3>1. d.status = operation[o].status /\ d.target = operation[o].target
          /\ d.attempts = operation[o].attempts
      BY OperationDueUpdate DEF TypeOK
    <3>2. operation[o].attempts < ClaimBound
      <4>1. CASE operation[o].status = "PENDING"
        BY <4>1 DEF OperationShape
      <4>2. CASE operation[o].status # "PENDING"
        BY <1>1, <4>2 DEF OperationDue
      <4> QED BY <4>1, <4>2
    <3> QED BY <2>2, <3>1, <3>2 DEF TypeOK, OperationShape
  <2>5. WorkerShape' /\ DispatcherShape'
    BY <1>1, <2>2 DEF OperationDue, TypeOK, OperationDoc, WorkerShape, DispatcherShape,
       HoldsLease
  <2> QED BY <2>3, <2>4, <2>5
<1>2. CASE OutboxDue(o)
  <2> DEFINE d == [outbox[o] EXCEPT !.due = TRUE]
  <2>1. d \in OutboxDoc
    BY DEF TypeOK, OutboxDoc
  <2>2. outbox' = [outbox EXCEPT ![o] = d]
    BY <1>2 DEF OutboxDue
  <2>3. TypeOK'
    BY <1>2, <2>1, <2>2 DEF OutboxDue, TypeOK
  <2> QED
    BY <1>2, <2>3 DEF OutboxDue, WorkerShape, DispatcherShape, OperationShape, HoldsLease
<1> QED BY <1>1, <1>2

(* The worker: first the updates its commits and failure branches share.   *)
LEMMA EndLeaseShape ==
  ASSUME Shape, NEW w \in Workers, worker[w].pc # "idle",
         NEW st \in {"PENDING", "SUCCEEDED", "FAILED"}, EndLease(w, st),
         st = "PENDING" => worker[w].attempt < MaxAttempts,
         NEW x \in WorkerState, x.pc \in {"idle", "publish"},
         x.pc # "idle" => x.op = worker[w].op /\ x.attempt = worker[w].attempt,
         worker' = [worker EXCEPT ![w] = x]
  PROVE  /\ operation' \in [Operations -> OperationDoc]
         /\ WorkerShape'
         /\ OperationShape'
<1> USE DEF Shape
<1> DEFINE o == worker[w].op
           d == [operation[o] EXCEPT !.status = st, !.lease = None, !.due = FALSE]
<1>1. o \in Operations
  BY DEF WorkerShape
<1>2. d \in OperationDoc
  BY <1>1, OperationUpdate DEF TypeOK, OperationStatus
<1>3. CASE HoldsLease(w)
  <2>1. operation' = [operation EXCEPT ![o] = d]
    BY <1>3 DEF EndLease
  <2>2. operation' \in [Operations -> OperationDoc]
    BY <1>1, <1>2, <2>1 DEF TypeOK
  <2>3. OperationShape'
    BY <1>1, <1>3, <2>1, ConstantsAssumption
       DEF TypeOK, OperationDoc, OperationShape, WorkerShape, Attempts
  <2>4. WorkerShape'
    BY <1>1, <2>1 DEF TypeOK, OperationDoc, WorkerShape, HoldsLease
  <2> QED BY <2>2, <2>3, <2>4
<1>4. CASE ~ HoldsLease(w)
  <2>1. operation' = operation
    BY <1>4 DEF EndLease
  <2> QED
    BY <2>1 DEF TypeOK, OperationShape, WorkerShape, HoldsLease
<1> QED BY <1>3, <1>4

LEMMA CloseAttemptType ==
  ASSUME Shape, NEW w \in Workers, worker[w].pc # "idle",
         NEW st \in UsageStatus, CloseAttempt(w, st)
  PROVE  usage' \in [Operations -> [Attempts -> UsageStatus]]
<1> DEFINE o == worker[w].op
           n == worker[w].attempt
           u == [usage[o] EXCEPT ![n] = IF @ = "STARTED" THEN st ELSE @]
<1>1. o \in Operations /\ n \in Attempts
  BY DEF Shape, WorkerShape
<1>2. u \in [Attempts -> UsageStatus]
  BY <1>1 DEF Shape, TypeOK
<1>3. usage' = [usage EXCEPT ![o] = u]
  BY DEF CloseAttempt
<1> QED BY <1>1, <1>2, <1>3 DEF Shape, TypeOK

LEMMA SettleType ==
  ASSUME Shape, NEW o \in Operations, NEW st \in LedgerStatus, Settle(o, st)
  PROVE  ledger' \in [Operations -> LedgerStatus]
BY DEF Shape, TypeOK, Settle

LEMMA MoveSessionType ==
  ASSUME Shape, NEW o \in Operations, operation[o].status # "ABSENT",
         NEW st \in SessionStatus, MoveSession(o, st)
  PROVE  session' \in [Sessions -> SessionDoc]
<1>1. operation[o].target \in Sessions
  BY DEF Shape, OperationShape
<1> QED
  BY <1>1 DEF Shape, TypeOK, MoveSession, SessionDoc

LEMMA FailSessionType ==
  ASSUME Shape, NEW o \in Operations, operation[o].status # "ABSENT", FailSession(o)
  PROVE  session' \in [Sessions -> SessionDoc]
<1>1. operation[o].target \in Sessions
  BY DEF Shape, OperationShape
<1> QED
  BY <1>1 DEF Shape, TypeOK, FailSession, SessionDoc, SessionStatus, Stages

(* A worker that only moves on, and may write usage attempts.              *)
LEMMA AdvanceShape ==
  ASSUME Shape, NEW w \in Workers, NEW x \in WorkerState,
         worker' = [worker EXCEPT ![w] = x],
         x.pc # "idle" => /\ worker[w].pc # "idle"
                          /\ x.op = worker[w].op /\ x.attempt = worker[w].attempt,
         UNCHANGED <<session, questions, operation, outbox, submission, results,
                     ledger, dispatcher>>,
         usage' \in [Operations -> [Attempts -> UsageStatus]],
         jobs' \in SUBSET Operations,
         bus' \in SUBSET StateEvent
  PROVE  Shape'
<1>1. TypeOK'
  BY DEF Shape, TypeOK
<1>2. WorkerShape' /\ DispatcherShape' /\ OperationShape'
  BY DEF Shape, TypeOK, WorkerShape, DispatcherShape, OperationShape, HoldsLease
<1> QED BY <1>1, <1>2 DEF Shape

LEMMA ClaimShape ==
  ASSUME Shape, NEW w \in Workers, NEW o \in Operations, ClaimOperation(w, o)
  PROVE  Shape'
<1> USE DEF Shape
<1> DEFINE d == [operation[o] EXCEPT !.status = "PROCESSING", !.lease = w, !.due = FALSE,
                                     !.attempts = operation[o].attempts + 1]
           x == [pc |-> "claimed", op |-> o, attempt |-> operation[o].attempts + 1,
                 outcome |-> None]
<1>1. operation[o].attempts + 1 \in Attempts
  BY ConstantsAssumption
     DEF TypeOK, ClaimOperation, Claimable, OperationDoc, OperationShape, Attempts
<1>2. ASSUME NEW doc \in OperationDoc, NEW n \in 0 .. ClaimBound
      PROVE LET e == [doc EXCEPT !.status = "PROCESSING", !.lease = w, !.due = FALSE,
                                 !.attempts = n]
            IN  /\ e \in OperationDoc /\ e.status = "PROCESSING" /\ e.lease = w
                /\ e.due = FALSE /\ e.attempts = n /\ e.target = doc.target
  BY DEF OperationDoc, OperationStatus
<1>3. /\ d \in OperationDoc /\ d.status = "PROCESSING" /\ d.lease = w
      /\ d.due = FALSE /\ d.attempts = operation[o].attempts + 1
      /\ d.target = operation[o].target
  <2>1. operation[o] \in OperationDoc /\ operation[o].attempts + 1 \in 0 .. ClaimBound
    BY <1>1, ConstantsAssumption DEF TypeOK, Attempts
  <2> QED BY <2>1, <1>2
<1>4. operation' = [operation EXCEPT ![o] = d] /\ worker' = [worker EXCEPT ![w] = x]
  BY DEF ClaimOperation
<1>5. x \in WorkerState
  BY <1>1, ConstantsAssumption DEF WorkerState, Attempts
<1>6. TypeOK'
  BY <1>3, <1>4, <1>5 DEF ClaimOperation, Deliver, UNCHANGEDByClaim, TypeOK
<1>7. OperationShape'
  BY <1>3, <1>4 DEF ClaimOperation, Claimable, TypeOK, OperationShape
<1>8. WorkerShape'
  BY <1>1, <1>3, <1>4 DEF TypeOK, WorkerShape, HoldsLease
<1>9. DispatcherShape'
  BY DEF ClaimOperation, UNCHANGEDByClaim, DispatcherShape
<1> QED BY <1>6, <1>7, <1>8, <1>9

LEMMA WorkerShapeStep ==
  ASSUME Shape, NEW w \in Workers, WorkerStep(w) \/ WorkerCrash(w)
  PROVE  Shape'
<1> USE DEF Shape
<1>idle. IdleWorker \in WorkerState /\ IdleWorker.pc = "idle"
  BY ConstantsAssumption DEF IdleWorker, WorkerState
<1>pc. ASSUME NEW y \in WorkerState,
              NEW pc \in {"ready", "calling", "answered", "publish"}
       PROVE  LET x == [y EXCEPT !.pc = pc] IN
                /\ x \in WorkerState /\ x.pc = pc
                /\ x.op = y.op /\ x.attempt = y.attempt
  BY DEF WorkerState
<1>1. ASSUME NEW o \in Operations, ClaimOperation(w, o) PROVE Shape'
  BY <1>1, ClaimShape
<1>2. ASSUME NEW o \in Operations, DropDelivery(w, o) PROVE Shape'
  BY <1>2 DEF DropDelivery, storeVars, TypeOK, WorkerShape, DispatcherShape,
     OperationShape, HoldsLease
<1>3. CASE MarkUnknown(w)
  <2> DEFINE x == [worker[w] EXCEPT !.pc = "ready"]
  <2>1. worker' = [worker EXCEPT ![w] = x]
    BY <1>3 DEF MarkUnknown, Advance
  <2>2. worker[w].op \in Operations
    BY <1>3 DEF MarkUnknown, WorkerShape
  <2>3. usage' \in [Operations -> [Attempts -> UsageStatus]]
    BY <1>3, <2>2 DEF MarkUnknown, TypeOK, UsageStatus
  <2> QED
    BY <1>3, <1>pc, <2>1, <2>3, AdvanceShape DEF MarkUnknown, UNCHANGEDByClaim, TypeOK
<1>4. CASE StartUsageAttempt(w)
  <2> DEFINE x == [worker[w] EXCEPT !.pc = "calling"]
             u == [usage[worker[w].op] EXCEPT ![worker[w].attempt] = "STARTED"]
  <2>1. worker' = [worker EXCEPT ![w] = x] /\ usage' = [usage EXCEPT ![worker[w].op] = u]
    BY <1>4 DEF StartUsageAttempt, Advance
  <2>2. worker[w].op \in Operations /\ worker[w].attempt \in Attempts
    BY <1>4 DEF StartUsageAttempt, WorkerShape
  <2>3. u \in [Attempts -> UsageStatus]
    BY <2>2 DEF TypeOK, UsageStatus
  <2>4. usage' \in [Operations -> [Attempts -> UsageStatus]]
    BY <2>1, <2>2, <2>3 DEF TypeOK
  <2> QED
    BY <1>4, <1>pc, <2>1, <2>4, AdvanceShape DEF StartUsageAttempt, UNCHANGEDByClaim, TypeOK
<1>5. ASSUME NEW outcome \in ProviderOutcome, ProviderAnswers(w, outcome) PROVE Shape'
  <2> DEFINE x == [worker[w] EXCEPT !.pc = "answered", !.outcome = outcome]
  <2>1. worker' = [worker EXCEPT ![w] = x] /\ worker[w].pc # "idle"
    BY <1>5 DEF ProviderAnswers
  <2>2. \A y \in WorkerState : LET z == [y EXCEPT !.pc = "answered", !.outcome = outcome] IN
          z \in WorkerState /\ z.op = y.op /\ z.attempt = y.attempt
    BY DEF WorkerState
  <2>3. x \in WorkerState /\ x.op = worker[w].op /\ x.attempt = worker[w].attempt
    BY <2>2 DEF TypeOK
  <2> QED
    BY <1>5, <2>1, <2>3, AdvanceShape DEF ProviderAnswers, UNCHANGEDByClaim, TypeOK
<1>6. CASE CommitGeneratedQuestions(w)
  <2> DEFINE o == worker[w].op
             x == [worker[w] EXCEPT !.pc = "publish"]
  <2>1. worker[w].pc = "answered"
    BY <1>6 DEF CommitGeneratedQuestions, HasOutput
  <2>2. o \in Operations /\ operation[o].status # "ABSENT" /\ operation[o].target \in Sessions
    BY <2>1 DEF WorkerShape, OperationShape
  <2>3. worker' = [worker EXCEPT ![w] = x] /\ x \in WorkerState /\ x.pc = "publish"
        /\ x.op = o /\ x.attempt = worker[w].attempt
    BY <1>6, <1>pc DEF CommitGeneratedQuestions, Advance, TypeOK
  <2>4. /\ operation' \in [Operations -> OperationDoc]
        /\ WorkerShape' /\ OperationShape'
    <3>1. EndLease(w, "SUCCEEDED")
      BY <1>6 DEF CommitGeneratedQuestions, FinishAccounting
    <3> QED BY <2>1, <2>3, <3>1, EndLeaseShape
  <2>5. session' \in [Sessions -> SessionDoc]
    BY <1>6, <2>2, MoveSessionType DEF CommitGeneratedQuestions, SessionStatus
  <2>6. ledger' \in [Operations -> LedgerStatus]
    BY <1>6, <2>2, SettleType DEF CommitGeneratedQuestions, FinishAccounting, LedgerStatus
  <2>7. usage' \in [Operations -> [Attempts -> UsageStatus]]
    BY <1>6, <2>1, CloseAttemptType
       DEF CommitGeneratedQuestions, FinishAccounting, UsageStatus
  <2>8. questions' \in [Sessions -> QuestionSet]
    BY <1>6, <2>2 DEF CommitGeneratedQuestions, TypeOK, QuestionSet, OperationDoc
  <2> QED
    BY <1>6, <2>3, <2>4, <2>5, <2>6, <2>7, <2>8
       DEF CommitGeneratedQuestions, TypeOK, DispatcherShape
<1>7. CASE CommitEvaluation(w)
  <2> DEFINE o == worker[w].op
             x == [worker[w] EXCEPT !.pc = "publish"]
  <2>1. worker[w].pc = "answered"
    BY <1>7 DEF CommitEvaluation, HasOutput
  <2>2. o \in Operations /\ operation[o].status # "ABSENT" /\ operation[o].target \in Sessions
    BY <2>1 DEF WorkerShape, OperationShape
  <2>3. worker' = [worker EXCEPT ![w] = x] /\ x \in WorkerState /\ x.pc = "publish"
        /\ x.op = o /\ x.attempt = worker[w].attempt
    BY <1>7, <1>pc DEF CommitEvaluation, Advance, TypeOK
  <2>4. /\ operation' \in [Operations -> OperationDoc]
        /\ WorkerShape' /\ OperationShape'
    <3>1. EndLease(w, "SUCCEEDED")
      BY <1>7 DEF CommitEvaluation, FinishAccounting
    <3> QED BY <2>1, <2>3, <3>1, EndLeaseShape
  <2>5. session' \in [Sessions -> SessionDoc]
    BY <1>7, <2>2, MoveSessionType DEF CommitEvaluation, SessionStatus
  <2>6. ledger' \in [Operations -> LedgerStatus]
    BY <1>7, <2>2, SettleType DEF CommitEvaluation, FinishAccounting, LedgerStatus
  <2>7. usage' \in [Operations -> [Attempts -> UsageStatus]]
    BY <1>7, <2>1, CloseAttemptType DEF CommitEvaluation, FinishAccounting, UsageStatus
  <2>8. submission' \in [Operations -> SubmissionDoc] /\ results' \in SUBSET Operations
    BY <1>7, <2>2 DEF CommitEvaluation, CompleteSubmission, TypeOK, SubmissionDoc,
       SubmissionStatus
  <2> QED
    BY <1>7, <2>3, <2>4, <2>5, <2>6, <2>7, <2>8 DEF CommitEvaluation, TypeOK, DispatcherShape
<1>8. CASE AbandonCommit(w) \/ WorkerCrash(w)
  BY <1>8, <1>idle, AdvanceShape DEF AbandonCommit, WorkerCrash, storeVars, TypeOK
<1>9. CASE RetryLater(w)
  <2> DEFINE o == worker[w].op
             row == [outbox[o] EXCEPT !.status = "PENDING", !.lease = None, !.due = FALSE]
  <2>1. worker[w].pc = "answered" /\ worker[w].attempt < MaxAttempts
    BY <1>9 DEF RetryLater, Failing, MayRetry
  <2>2. o \in Operations
    BY <2>1 DEF WorkerShape
  <2>3. /\ operation' \in [Operations -> OperationDoc]
        /\ WorkerShape' /\ OperationShape'
    <3>1. EndLease(w, "PENDING") /\ worker' = [worker EXCEPT ![w] = IdleWorker]
      BY <1>9 DEF RetryLater
    <3> QED BY <1>idle, <2>1, <3>1, EndLeaseShape
  <2>4. usage' \in [Operations -> [Attempts -> UsageStatus]]
    BY <1>9, <2>1, CloseAttemptType DEF RetryLater, UsageStatus
  <2>5. row \in OutboxDoc
    <3>1. \A r \in OutboxDoc :
            [r EXCEPT !.status = "PENDING", !.lease = None, !.due = FALSE] \in OutboxDoc
      BY DEF OutboxDoc, OutboxStatus
    <3> QED BY <2>2, <3>1 DEF TypeOK
  <2>6. outbox' = [outbox EXCEPT ![o] = row]
    BY <1>9 DEF RetryLater
  <2> QED
    <3>1. outbox' \in [Operations -> OutboxDoc]
      BY <2>2, <2>5, <2>6 DEF TypeOK
    <3> QED
      BY <1>9, <1>idle, <2>3, <2>4, <3>1 DEF RetryLater, TypeOK, DispatcherShape
<1>10. CASE FailTerminally(w)
  <2> DEFINE o == worker[w].op
  <2>1. worker[w].pc = "answered"
    BY <1>10 DEF FailTerminally, Failing
  <2>2. o \in Operations /\ operation[o].status # "ABSENT"
    BY <2>1 DEF WorkerShape
  <2>3. PICK x \in WorkerState :
          /\ x.pc \in {"idle", "publish"}
          /\ x.pc # "idle" => x.op = worker[w].op /\ x.attempt = worker[w].attempt
          /\ worker' = [worker EXCEPT ![w] = x]
    BY <1>10, <1>idle, <1>pc DEF FailTerminally, AfterFailure, TypeOK
  <2>4. /\ operation' \in [Operations -> OperationDoc]
        /\ WorkerShape' /\ OperationShape'
    <3>1. EndLease(w, "FAILED")
      BY <1>10 DEF FailTerminally
    <3> QED BY <2>1, <2>3, <3>1, EndLeaseShape
  <2>5. session' \in [Sessions -> SessionDoc]
    BY <1>10, <2>2, FailSessionType DEF FailTerminally
  <2>6. ledger' \in [Operations -> LedgerStatus]
    BY <1>10, <2>2, SettleType DEF FailTerminally, LedgerStatus
  <2>7. usage' \in [Operations -> [Attempts -> UsageStatus]]
    BY <1>10, <2>1, CloseAttemptType DEF FailTerminally, UsageStatus
  <2>8. submission' \in [Operations -> SubmissionDoc]
    BY <1>10, <2>2 DEF FailTerminally, TypeOK, SubmissionDoc, SubmissionStatus
  <2>9. outbox' \in [Operations -> OutboxDoc]
    BY <1>10, <2>2 DEF FailTerminally, TypeOK, OutboxDoc, OutboxStatus
  <2> QED
    BY <1>10, <2>3, <2>4, <2>5, <2>6, <2>7, <2>8, <2>9
       DEF FailTerminally, TypeOK, DispatcherShape
<1>11. CASE PublishStateChanged(w)
  <2> DEFINE o == worker[w].op
  <2>1. operation[o] \in OperationDoc /\ operation[o].target \in Sessions
    BY <1>11 DEF PublishStateChanged, WorkerShape, OperationShape, TypeOK
  <2>2. StateChange(w) \in StateEvent
    BY <2>1 DEF StateChange, StateEvent, SessionStatus, OperationDoc
  <2> QED
    BY <1>11, <1>idle, <2>2, AdvanceShape DEF PublishStateChanged, storeVars, TypeOK
<1> QED
  BY <1>1, <1>2, <1>3, <1>4, <1>5, <1>6, <1>7, <1>8, <1>9, <1>10, <1>11 DEF WorkerStep

LEMMA ShapeStep == Shape /\ [Next]_vars => Shape'
<1> SUFFICES ASSUME Shape, [Next]_vars PROVE Shape'
  OBVIOUS
<1>1. CASE Next
  BY <1>1, RequestShape, DispatcherShapeStep, WorkerShapeStep, DueShape DEF Next
<1>2. CASE UNCHANGED vars
  BY <1>2 DEF vars, Shape, TypeOK, WorkerShape, DispatcherShape, OperationShape, HoldsLease
<1> QED BY <1>1, <1>2

(* Every document and process keeps the shape of its schema: TypeOK is an  *)
(* invariant for every value of the constants.                             *)
THEOREM TypeCorrect == Spec => []TypeOK
<1>1. Spec => []Shape
  BY InitShape, ShapeStep, PTL DEF Spec
<1> QED BY <1>1, PTL DEF Shape

-----------------------------------------------------------------------------
(* Part 2. *)

(* An operation and its ledger row are created together, and a failed      *)
(* operation has no reservation left.                                      *)
LedgerFollowsOperation ==
  \A o \in Operations :
    /\ ledger[o] = "ABSENT" <=> operation[o].status = "ABSENT"
    /\ operation[o].status = "FAILED" => ledger[o] = "RELEASED"

Consistent ==
  /\ WaitsForLiveOperation
  /\ ReservedWhileAwaited
  /\ SettledWithOutput
  /\ LedgerFollowsOperation

LEMMA InitConsistent == Init => Consistent
<1> SUFFICES ASSUME Init PROVE Consistent
  OBVIOUS
<1> PICK st \in [Sessions -> StartStatus] :
      /\ session = [s \in Sessions |-> NewSession(st[s])]
      /\ questions = [s \in Sessions |-> FirstQuestions(st[s])]
  BY DEF Init
<1>1. \A s \in Sessions : /\ session[s].active = None
                          /\ session[s].status \in {"PENDING", "IN_PROGRESS"}
                          /\ questions[s].by \in {None, Legacy}
  BY ConstantsAssumption DEF NewSession, FirstQuestions
<1>2. \A o \in Operations : operation[o].status = "ABSENT" /\ ledger[o] = "ABSENT"
  BY DEF Init, NoOperation
<1>3. \A o \in Operations : o # None /\ o # Legacy
  BY ConstantsAssumption DEF Operations
<1>4. WaitsForLiveOperation
  BY <1>1 DEF WaitsForLiveOperation
<1>5. ReservedWhileAwaited
  BY <1>1, <1>2, <1>3 DEF ReservedWhileAwaited
<1>6. \A o \in Operations : ~ Stored(o)
  BY <1>1, <1>3 DEF Init, Stored
<1>7. SettledWithOutput
  BY <1>2, <1>6 DEF SettledWithOutput
<1>8. LedgerFollowsOperation
  BY <1>2 DEF LedgerFollowsOperation
<1> QED
  BY <1>4, <1>5, <1>7, <1>8 DEF Consistent

(* Steps that change no session, no ledger row and no output, and move     *)
(* operations only between the two live statuses.                          *)
Idles ==
  /\ UNCHANGED <<session, ledger, results>>
  /\ \A s \in Sessions : questions'[s].by = questions[s].by
  /\ \A o \in Operations :
       /\ operation'[o].target = operation[o].target
       /\ operation'[o].aggregateVersion = operation[o].aggregateVersion
       /\ \/ operation'[o] = operation[o]
          \/ /\ operation[o].status \in {"PENDING", "PROCESSING"}
             /\ operation'[o].status \in {"PENDING", "PROCESSING"}

LEMMA ConsistentIdles ==
  ASSUME Shape, Consistent, Idles
  PROVE  Consistent'
<1>1. WaitsForLiveOperation'
  <2> SUFFICES ASSUME NEW s \in Sessions,
                      session[s].active # None
               PROVE  /\ session[s].status = WaitingStatus(session[s].active)
                      /\ operation'[session[s].active].target = s
                      /\ operation'[session[s].active].aggregateVersion = session[s].version
                      /\ operation'[session[s].active].status \in {"PENDING", "PROCESSING"}
    BY DEF WaitsForLiveOperation, Idles, Consistent, WaitingStatus
  <2>1. session[s].active \in Operations
    BY DEF Shape, TypeOK, SessionDoc
  <2> QED
    BY <2>1 DEF WaitsForLiveOperation, Idles, Consistent
<1>2. ReservedWhileAwaited'
  BY DEF Idles, Consistent, ReservedWhileAwaited
<1>3. \A o \in Operations : Stored(o)' <=> Stored(o)
  BY DEF Idles, Stored
<1>4. SettledWithOutput'
  BY <1>3 DEF Idles, Consistent, SettledWithOutput
<1>5. LedgerFollowsOperation'
  BY DEF Idles, Consistent, LedgerFollowsOperation
<1> QED BY <1>1, <1>2, <1>4, <1>5 DEF Consistent

LEMMA DispatcherIdles ==
  ASSUME Shape, NEW d \in Dispatchers, DispatcherStep(d) \/ DispatcherCrash(d)
  PROVE  Idles
BY DEF DispatcherStep, DispatcherCrash, FindStalled, Redeliver, ClaimRow, NothingDue,
   Enqueue, EnqueueFails, ConfirmRow, RefuseRow, LeaseEnds, storeVars, Idles

LEMMA DueIdles ==
  ASSUME Shape, NEW o \in Operations, OperationDue(o) \/ OutboxDue(o)
  PROVE  Idles
<1>1. CASE OperationDue(o)
  <2> DEFINE d == [operation[o] EXCEPT !.due = TRUE]
  <2>1. operation' = [operation EXCEPT ![o] = d]
    BY <1>1 DEF OperationDue
  <2>2. d.status = operation[o].status /\ d.target = operation[o].target
        /\ d.aggregateVersion = operation[o].aggregateVersion
    BY OperationDueUpdate DEF Shape, TypeOK
  <2> QED BY <1>1, <2>1, <2>2 DEF OperationDue, Idles, Shape, TypeOK
<1>2. CASE OutboxDue(o)
  BY <1>2 DEF OutboxDue, Idles
<1> QED BY <1>1, <1>2

(* What ends a lease does to the operation records.                        *)
LEMMA EndLeaseEffect ==
  ASSUME Shape, NEW w \in Workers, worker[w].pc # "idle",
         NEW st \in OperationStatus, EndLease(w, st)
  PROVE  \A o \in Operations :
           /\ operation'[o].target = operation[o].target
           /\ operation'[o].aggregateVersion = operation[o].aggregateVersion
           /\ IF o = worker[w].op /\ HoldsLease(w)
              THEN operation[o].status = "PROCESSING" /\ operation'[o].status = st
              ELSE operation'[o] = operation[o]
<1> DEFINE o == worker[w].op
           d == [operation[o] EXCEPT !.status = st, !.lease = None, !.due = FALSE]
<1>1. o \in Operations
  BY DEF Shape, WorkerShape
<1>2. CASE HoldsLease(w)
  <2>1. operation' = [operation EXCEPT ![o] = d]
    BY <1>2 DEF EndLease
  <2>0. operation[o] \in OperationDoc
    BY <1>1 DEF Shape, TypeOK
  <2>2. d.status = st /\ d.target = operation[o].target
        /\ d.aggregateVersion = operation[o].aggregateVersion
    BY <2>0, OperationUpdate
  <2>3. operation[o].status = "PROCESSING"
    BY <1>2 DEF HoldsLease
  <2> QED BY <1>1, <1>2, <2>1, <2>2, <2>3 DEF Shape, TypeOK
<1>3. CASE ~ HoldsLease(w)
  BY <1>3 DEF EndLease
<1> QED BY <1>2, <1>3

LEMMA WorkerIdles ==
  ASSUME Shape, NEW w \in Workers,
         \/ \E o \in Operations : ClaimOperation(w, o) \/ DropDelivery(w, o)
         \/ MarkUnknown(w) \/ StartUsageAttempt(w)
         \/ \E outcome \in ProviderOutcome : ProviderAnswers(w, outcome)
         \/ AbandonCommit(w) \/ RetryLater(w) \/ PublishStateChanged(w) \/ WorkerCrash(w)
  PROVE  Idles
<1>1. ASSUME NEW o \in Operations, ClaimOperation(w, o) PROVE Idles
  <2> DEFINE d == [operation[o] EXCEPT !.status = "PROCESSING", !.lease = w,
                                       !.due = FALSE,
                                       !.attempts = operation[o].attempts + 1]
  <2>1. operation' = [operation EXCEPT ![o] = d]
    BY <1>1 DEF ClaimOperation
  <2>2. \A doc \in OperationDoc, n \in Nat :
          LET e == [doc EXCEPT !.status = "PROCESSING", !.lease = w, !.due = FALSE,
                               !.attempts = n]
          IN  e.status = "PROCESSING" /\ e.target = doc.target
              /\ e.aggregateVersion = doc.aggregateVersion
    BY DEF OperationDoc
  <2>3. operation[o] \in OperationDoc /\ operation[o].attempts + 1 \in Nat
    BY DEF Shape, TypeOK, OperationDoc
  <2>4. d.status = "PROCESSING" /\ d.target = operation[o].target
        /\ d.aggregateVersion = operation[o].aggregateVersion
    BY <2>2, <2>3
  <2> QED
    BY <1>1, <2>1, <2>4 DEF ClaimOperation, Claimable, UNCHANGEDByClaim, Idles, Shape, TypeOK
<1>2. CASE RetryLater(w)
  <2>1. worker[w].pc # "idle" /\ EndLease(w, "PENDING")
    BY <1>2 DEF RetryLater, Failing
  <2> QED
    BY <1>2, <2>1, EndLeaseEffect DEF RetryLater, Idles, OperationStatus
<1>3. ASSUME \/ \E o \in Operations : DropDelivery(w, o)
             \/ MarkUnknown(w) \/ StartUsageAttempt(w)
             \/ \E outcome \in ProviderOutcome : ProviderAnswers(w, outcome)
             \/ AbandonCommit(w) \/ PublishStateChanged(w) \/ WorkerCrash(w)
      PROVE  Idles
  BY <1>3 DEF DropDelivery, MarkUnknown, StartUsageAttempt, ProviderAnswers, AbandonCommit,
     PublishStateChanged, WorkerCrash, UNCHANGEDByClaim, storeVars, Idles
<1> QED BY <1>1, <1>2, <1>3

(* A new operation: the session it is accepted for waited for none, and no *)
(* session waited for it.                                                  *)
LEMMA AcceptConsistent ==
  ASSUME Shape, Consistent, NEW s \in Sessions, NEW o \in Operations,
         AcceptOperation(s, o), session[s].status \in {"PENDING", "IN_PROGRESS"},
         \A t \in Sessions : questions'[t].by = questions[t].by
  PROVE  Consistent'
<1> USE ConstantsAssumption
<1>1. session[s].active = None
  BY DEF Consistent, WaitsForLiveOperation, WaitingStatus
<1>2. \A t \in Sessions : session[t].active # o
  BY ConstantsAssumption DEF Consistent, WaitsForLiveOperation, AcceptOperation
<1>3. \A t \in Sessions :
        /\ session'[t].active = IF t = s THEN o ELSE session[t].active
        /\ t # s => session'[t] = session[t]
  BY DEF Shape, TypeOK, AcceptOperation
<1>4. \A p \in Operations : p # o => operation'[p] = operation[p] /\ ledger'[p] = ledger[p]
  BY DEF Shape, TypeOK, AcceptOperation
<1>5. operation'[o].status = "PENDING" /\ operation'[o].target = s /\ ledger'[o] = "RESERVED"
      /\ operation'[o].aggregateVersion = session[s].version + 1
  BY DEF Shape, TypeOK, AcceptOperation
<1>6. session'[s].status = WaitingStatus(o) /\ session'[s].version = session[s].version + 1
  BY DEF Shape, TypeOK, AcceptOperation
<1>7. WaitsForLiveOperation'
  <2> SUFFICES ASSUME NEW t \in Sessions
               PROVE  LET p == session'[t].active IN
                        IF p = None
                        THEN session'[t].status \notin {"GENERATING", "EVALUATING"}
                        ELSE /\ session'[t].status = WaitingStatus(p)
                             /\ operation'[p].target = t
                             /\ operation'[p].aggregateVersion = session'[t].version
                             /\ operation'[p].status \in {"PENDING", "PROCESSING"}
    BY DEF WaitsForLiveOperation, WaitingStatus
  <2>1. CASE t = s
    BY <2>1, <1>3, <1>5, <1>6
  <2>2. CASE t # s
    <3>1. session[t].active \in Operations \cup {None} /\ session[t].active # o
      BY <1>2 DEF Shape, TypeOK, SessionDoc
    <3> QED BY <2>2, <3>1, <1>3, <1>4 DEF Consistent, WaitsForLiveOperation
  <2> QED BY <2>1, <2>2
<1>8. ReservedWhileAwaited'
  BY <1>1, <1>2, <1>3, <1>4, <1>5 DEF Consistent, ReservedWhileAwaited
<1>9. \A p \in Operations : Stored(p)' <=> Stored(p)
  BY DEF AcceptOperation, Stored
<1>10. SettledWithOutput'
  <2>1. ledger[o] = "ABSENT"
    BY DEF AcceptOperation, Consistent, LedgerFollowsOperation
  <2>2. ~ Stored(o)
    BY <2>1 DEF Consistent, SettledWithOutput
  <2> QED BY <2>2, <1>4, <1>5, <1>9 DEF Consistent, SettledWithOutput
<1>11. LedgerFollowsOperation'
  BY <1>4, <1>5 DEF Consistent, LedgerFollowsOperation
<1> QED BY <1>7, <1>8, <1>10, <1>11 DEF Consistent

(* An autosave is no change but of a version nobody waits at.              *)
LEMMA SaveConsistent ==
  ASSUME Shape, Consistent, NEW s \in Sessions, NEW v \in 0 .. session[s].version,
         NEW a \in Drafts, SaveProgress(s, v, a)
  PROVE  Consistent'
<1>1. session[s].active = None
  BY DEF SaveProgress, Consistent, WaitsForLiveOperation, WaitingStatus
<1>2. \A t \in Sessions : /\ session'[t].active = session[t].active
                          /\ session'[t].status = session[t].status
                          /\ t # s => session'[t] = session[t]
                          /\ questions'[t].by = questions[t].by
  <2>1. \A doc \in SessionDoc, n \in Nat :
          [doc EXCEPT !.version = n].active = doc.active
          /\ [doc EXCEPT !.version = n].status = doc.status
    BY DEF SessionDoc
  <2>2. \A q \in QuestionSet, n \in Nat :
          [q EXCEPT !.answer = a, !.answerVersion = n].by = q.by
    BY DEF QuestionSet
  <2> DEFINE d == [session[s] EXCEPT !.version = v + 1]
             q == [questions[s] EXCEPT !.answer = a, !.answerVersion = v + 1]
  <2>3. session' = [session EXCEPT ![s] = d] /\ questions' = [questions EXCEPT ![s] = q]
    BY DEF SaveProgress, WriteDraft
  <2>4. session[s] \in SessionDoc /\ questions[s] \in QuestionSet /\ v + 1 \in Nat
    BY DEF Shape, TypeOK, SessionDoc
  <2>5. d.active = session[s].active /\ d.status = session[s].status /\ q.by = questions[s].by
    BY <2>1, <2>2, <2>4
  <2> QED BY <2>3, <2>5 DEF Shape, TypeOK
<1>3. UNCHANGED <<operation, ledger, results>>
  BY DEF SaveProgress, WriteDraft
<1>4. WaitsForLiveOperation'
  BY <1>1, <1>2, <1>3 DEF Consistent, WaitsForLiveOperation, WaitingStatus
<1>5. ReservedWhileAwaited'
  BY <1>2, <1>3 DEF Consistent, ReservedWhileAwaited
<1>6. \A p \in Operations : Stored(p)' <=> Stored(p)
  BY <1>2, <1>3 DEF Stored
<1>7. SettledWithOutput' /\ LedgerFollowsOperation'
  BY <1>3, <1>6 DEF Consistent, SettledWithOutput, LedgerFollowsOperation
<1> QED BY <1>4, <1>5, <1>7 DEF Consistent

LEMMA RequestConsistent ==
  ASSUME Shape, Consistent, Request
  PROVE  Consistent'
<1> PICK s \in Sessions :
      \/ \E o \in GenerateRequests : GenerateQuestions(s, o)
      \/ \E v \in 0 .. session[s].version, a \in Drafts :
           \/ \E o \in SubmitRequests : SubmitAnswers(s, o, v, a)
           \/ SaveProgress(s, v, a)
  BY DEF Request
<1>1. ASSUME NEW o \in GenerateRequests, GenerateQuestions(s, o) PROVE Consistent'
  <2>1. AcceptOperation(s, o) /\ session[s].status = "PENDING" /\ questions' = questions
        /\ o \in Operations
    BY <1>1 DEF GenerateQuestions, Operations
  <2> QED BY <2>1, AcceptConsistent
<1>2. ASSUME NEW v \in 0 .. session[s].version, NEW a \in Drafts,
             NEW o \in SubmitRequests, SubmitAnswers(s, o, v, a)
      PROVE Consistent'
  <2>1. AcceptOperation(s, o) /\ session[s].status = "IN_PROGRESS" /\ o \in Operations
    BY <1>2 DEF SubmitAnswers, Operations
  <2>2. \A t \in Sessions : questions'[t].by = questions[t].by
    <3>1. \A q \in QuestionSet, n \in Nat :
            [q EXCEPT !.answer = a, !.answerVersion = n].by = q.by
      BY DEF QuestionSet
    <3> DEFINE q == [questions[s] EXCEPT !.answer = a, !.answerVersion = v + 1]
    <3>2. questions' = [questions EXCEPT ![s] = q]
      BY <1>2 DEF SubmitAnswers
    <3>3. questions[s] \in QuestionSet /\ v + 1 \in Nat
      BY DEF Shape, TypeOK, SessionDoc
    <3>4. q.by = questions[s].by
      BY <3>1, <3>3
    <3> QED BY <3>2, <3>4 DEF Shape, TypeOK
  <2> QED BY <2>1, <2>2, AcceptConsistent
<1> QED BY <1>1, <1>2, SaveConsistent

(* A step that ends a session's wait for o, and only that.                 *)
WaitEnds(o, x, q) ==
  /\ session' = [session EXCEPT ![operation[o].target] = x]
  /\ x.active = None /\ x.status \notin {"GENERATING", "EVALUATING"}
  /\ ledger' = [ledger EXCEPT ![o] = q]
  /\ q \in {"SETTLED", "RELEASED"}
  /\ \A p \in Operations \ {o} : operation'[p] = operation[p]

LEMMA WaitEndsConsistent ==
  ASSUME Shape, Consistent, NEW o \in Operations, NEW x, NEW q,
         operation[o].target \in Sessions,
         session[operation[o].target].active = o,
         WaitEnds(o, x, q)
  PROVE  WaitsForLiveOperation' /\ ReservedWhileAwaited'
<1> USE ConstantsAssumption
<1> DEFINE s == operation[o].target
<1>1. \A t \in Sessions : t # s => session[t].active # o
  BY DEF Consistent, WaitsForLiveOperation
<1>2. /\ session'[s] = x
      /\ \A t \in Sessions : t # s => session'[t] = session[t]
      /\ ledger'[o] = q
      /\ \A p \in Operations : p # o => ledger'[p] = ledger[p]
  BY DEF WaitEnds, Shape, TypeOK
<1>3. WaitsForLiveOperation'
  <2> SUFFICES ASSUME NEW t \in Sessions
               PROVE  LET p == session'[t].active IN
                        IF p = None
                        THEN session'[t].status \notin {"GENERATING", "EVALUATING"}
                        ELSE /\ session'[t].status = WaitingStatus(p)
                             /\ operation'[p].target = t
                             /\ operation'[p].aggregateVersion = session'[t].version
                             /\ operation'[p].status \in {"PENDING", "PROCESSING"}
    BY DEF WaitsForLiveOperation, WaitingStatus
  <2>1. CASE t = s
    BY <2>1, <1>2 DEF WaitEnds
  <2>2. CASE t # s
    <3>1. session[t].active \in (Operations \ {o}) \cup {None}
      BY <1>1, <2>2 DEF Shape, TypeOK, SessionDoc
    <3> QED BY <2>2, <3>1, <1>2 DEF Consistent, WaitsForLiveOperation, WaitEnds
  <2> QED BY <2>1, <2>2
<1>4. ReservedWhileAwaited'
  <2> SUFFICES ASSUME NEW p \in Operations
               PROVE  ledger'[p] = "RESERVED" <=> \E t \in Sessions : session'[t].active = p
    BY DEF ReservedWhileAwaited
  <2>1. CASE p = o
    BY <2>1, <1>1, <1>2 DEF WaitEnds
  <2>2. CASE p # o
    BY <2>2, <1>2 DEF WaitEnds, Consistent, ReservedWhileAwaited
  <2> QED BY <2>1, <2>2
<1> QED BY <1>3, <1>4

(* What both commits do: they find the session waiting, settle the         *)
(* reservation and end the lease they hold.                                *)
LEMMA CommitEffect ==
  ASSUME Shape, Consistent, NEW w \in Workers, worker[w].pc # "idle", HoldsLease(w),
         session[operation[worker[w].op].target].active = worker[w].op,
         NEW st \in {"IN_PROGRESS", "COMPLETED"}, MoveSession(worker[w].op, st),
         FinishAccounting(w)
  PROVE  LET o == worker[w].op IN
         /\ o \in Operations /\ operation[o].target \in Sessions
         /\ WaitsForLiveOperation' /\ ReservedWhileAwaited' /\ LedgerFollowsOperation'
         /\ ledger[o] = "RESERVED"
         /\ operation'[o].status = "SUCCEEDED" /\ ledger'[o] = "SETTLED"
         /\ \A p \in Operations \ {o} :
              operation'[p] = operation[p] /\ ledger'[p] = ledger[p]
<1> DEFINE o == worker[w].op
           s == operation[o].target
           x == [status |-> st, version |-> session[s].version + 1, active |-> None,
                 failedStage |-> session[s].failedStage]
<1>1. o \in Operations /\ s \in Sessions
  BY DEF Shape, WorkerShape, OperationShape
<1>2. ledger[o] = "RESERVED"
  BY <1>1 DEF Consistent, ReservedWhileAwaited
<1>3. EndLease(w, "SUCCEEDED") /\ ledger' = [ledger EXCEPT ![o] = "SETTLED"]
  BY <1>2 DEF FinishAccounting, Settle
<1>4. operation'[o].status = "SUCCEEDED"
      /\ \A p \in Operations \ {o} : operation'[p] = operation[p]
  BY <1>1, <1>3, EndLeaseEffect DEF OperationStatus
<1>5. WaitEnds(o, x, "SETTLED")
  BY <1>3, <1>4 DEF WaitEnds, MoveSession
<1>6. WaitsForLiveOperation' /\ ReservedWhileAwaited'
  BY <1>1, <1>5, WaitEndsConsistent
<1>7. ledger'[o] = "SETTLED" /\ \A p \in Operations \ {o} : ledger'[p] = ledger[p]
  BY <1>1, <1>3 DEF Shape, TypeOK
<1>8. LedgerFollowsOperation'
  BY <1>4, <1>7 DEF Consistent, LedgerFollowsOperation
<1> QED BY <1>1, <1>2, <1>4, <1>6, <1>7, <1>8

LEMMA CommitQuestionsConsistent ==
  ASSUME Shape, Consistent, NEW w \in Workers, CommitGeneratedQuestions(w)
  PROVE  Consistent'
<1>0. PICK o \in Operations : o = worker[w].op
  BY DEF Shape, WorkerShape, CommitGeneratedQuestions, CommitEvaluation, HasOutput
<1> DEFINE s == operation[o].target
<1>1. /\ worker[w].pc # "idle" /\ HoldsLease(w) /\ session[s].active = o
      /\ MoveSession(o, "IN_PROGRESS") /\ FinishAccounting(w)
      /\ o \in GenerateRequests /\ questions[s].by = None
      /\ questions' = [questions EXCEPT ![s] = [by |-> o, answer |-> None,
                          answerVersion |-> operation[o].aggregateVersion]]
      /\ results' = results
  BY <1>0 DEF CommitGeneratedQuestions, HasOutput, CanCommitQuestions, AwaitsOperation
<1>2. /\ o \in Operations /\ s \in Sessions
      /\ WaitsForLiveOperation' /\ ReservedWhileAwaited' /\ LedgerFollowsOperation'
      /\ operation'[o].status = "SUCCEEDED" /\ ledger'[o] = "SETTLED"
      /\ \A p \in Operations \ {o} : operation'[p] = operation[p] /\ ledger'[p] = ledger[p]
  BY <1>0, <1>1, CommitEffect
<1>3. Stored(o)'
  BY <1>1, <1>2 DEF Stored, Shape, TypeOK
<1>4. \A p \in Operations \ {o} : Stored(p)' <=> Stored(p)
  <2> SUFFICES ASSUME NEW p \in Operations \ {o}
               PROVE  Stored(p)' <=> Stored(p)
    OBVIOUS
  <2>1. \A t \in Sessions : questions'[t].by = p <=> questions[t].by = p
    BY <1>1, <1>2, ConstantsAssumption DEF Shape, TypeOK
  <2> QED BY <1>1, <2>1 DEF Stored
<1>5. SettledWithOutput'
  BY <1>2, <1>3, <1>4 DEF Consistent, SettledWithOutput
<1> QED BY <1>2, <1>5 DEF Consistent

LEMMA CommitEvaluationConsistent ==
  ASSUME Shape, Consistent, NEW w \in Workers, CommitEvaluation(w)
  PROVE  Consistent'
<1>0. PICK o \in Operations : o = worker[w].op
  BY DEF Shape, WorkerShape, CommitGeneratedQuestions, CommitEvaluation, HasOutput
<1> DEFINE s == operation[o].target
<1>1. /\ worker[w].pc # "idle" /\ HoldsLease(w) /\ session[s].active = o
      /\ MoveSession(o, "COMPLETED") /\ FinishAccounting(w)
      /\ o \in SubmitRequests /\ questions' = questions
      /\ results' = results \cup {o}
  BY <1>0 DEF CommitEvaluation, HasOutput, CanCommitEvaluation, AwaitsOperation
<1>2. /\ o \in Operations /\ s \in Sessions
      /\ WaitsForLiveOperation' /\ ReservedWhileAwaited' /\ LedgerFollowsOperation'
      /\ operation'[o].status = "SUCCEEDED" /\ ledger'[o] = "SETTLED"
      /\ \A p \in Operations \ {o} : operation'[p] = operation[p] /\ ledger'[p] = ledger[p]
  BY <1>0, <1>1, CommitEffect
<1>3. Stored(o)'
  BY <1>1, ConstantsAssumption DEF Stored
<1>4. \A p \in Operations \ {o} : Stored(p)' <=> Stored(p)
  BY <1>1 DEF Stored
<1>5. SettledWithOutput'
  BY <1>2, <1>3, <1>4 DEF Consistent, SettledWithOutput
<1> QED BY <1>2, <1>5 DEF Consistent

(* The terminal failure, whether or not its worker still holds the lease.  *)
LEMMA FailConsistent ==
  ASSUME Shape, Consistent, NEW w \in Workers, FailTerminally(w)
  PROVE  Consistent'
<1> USE ConstantsAssumption
<1> DEFINE o == worker[w].op
           s == operation[o].target
<1>1. /\ worker[w].pc # "idle" /\ EndLease(w, "FAILED") /\ Settle(o, "RELEASED")
      /\ FailSession(o) /\ UNCHANGED <<questions, results>>
  BY DEF FailTerminally, Failing
<1>2. o \in Operations /\ s \in Sessions /\ operation[o].status # "ABSENT"
  BY <1>1 DEF Shape, WorkerShape, OperationShape
<1>3. \A p \in Operations :
        /\ operation'[p].target = operation[p].target
        /\ operation'[p].aggregateVersion = operation[p].aggregateVersion
        /\ IF p = o /\ HoldsLease(w)
           THEN operation[p].status = "PROCESSING" /\ operation'[p].status = "FAILED"
           ELSE operation'[p] = operation[p]
  BY <1>1, EndLeaseEffect DEF OperationStatus
<1>4. \A p \in Operations : Stored(p)' <=> Stored(p)
  BY <1>1 DEF Stored
<1>5. CASE SessionStillActive(o)
  <2> DEFINE x == [status |-> "FAILED", version |-> session[s].version + 1, active |-> None,
                   failedStage |-> IF o \in GenerateRequests
                                   THEN "GENERATION" ELSE "EVALUATION"]
  <2>1. session[s].active = o /\ session' = [session EXCEPT ![s] = x]
    BY <1>1, <1>5 DEF SessionStillActive, FailSession
  <2>2. ledger[o] = "RESERVED"
    BY <1>2, <2>1 DEF Consistent, ReservedWhileAwaited
  <2>3. ledger' = [ledger EXCEPT ![o] = "RELEASED"]
    BY <1>1, <2>2 DEF Settle
  <2>4. \A p \in Operations \ {o} : operation'[p] = operation[p]
    BY <1>3
  <2>5. WaitEnds(o, x, "RELEASED")
    BY <2>1, <2>3, <2>4 DEF WaitEnds
  <2>6. WaitsForLiveOperation' /\ ReservedWhileAwaited'
    BY <1>2, <2>1, <2>5, WaitEndsConsistent
  <2>7. ledger'[o] = "RELEASED" /\ \A p \in Operations \ {o} : ledger'[p] = ledger[p]
    BY <1>2, <2>3 DEF Shape, TypeOK
  <2>8. operation[o].status # "SUCCEEDED" /\ ~ Stored(o)
    BY <1>2, <2>2 DEF Consistent, SettledWithOutput
  <2>9. operation'[o].status # "SUCCEEDED" /\ operation'[o].status # "ABSENT"
    BY <1>2, <1>3, <2>8
  <2>10. SettledWithOutput'
    BY <1>4, <2>4, <2>7, <2>8, <2>9 DEF Consistent, SettledWithOutput
  <2>11. LedgerFollowsOperation'
    BY <2>4, <2>7, <2>9 DEF Consistent, LedgerFollowsOperation
  <2> QED BY <2>6, <2>10, <2>11 DEF Consistent
<1>6. CASE ~ SessionStillActive(o)
  <2>1. session' = session
    BY <1>1, <1>6 DEF FailSession
  <2>2. \A t \in Sessions : session[t].active # o
    BY <1>2, <1>6 DEF SessionStillActive, Consistent, WaitsForLiveOperation
  <2>3. ledger[o] # "RESERVED"
    BY <1>2, <2>2 DEF Consistent, ReservedWhileAwaited
  <2>4. ledger' = ledger
    BY <1>1, <1>2, <2>3 DEF Settle, Shape, TypeOK
  <2>5. HoldsLease(w) => ledger[o] = "RELEASED"
    <3>1. HoldsLease(w) => operation[o].status = "PROCESSING"
      BY DEF HoldsLease
    <3>2. ledger[o] \in {"ABSENT", "SETTLED", "RELEASED"}
      BY <1>2, <2>3 DEF Shape, TypeOK, LedgerStatus
    <3> QED BY <1>2, <3>1, <3>2
            DEF Consistent, SettledWithOutput, LedgerFollowsOperation
  <2>6. WaitsForLiveOperation'
    <3> SUFFICES ASSUME NEW t \in Sessions, session[t].active # None
                 PROVE  operation'[session[t].active] = operation[session[t].active]
      BY <2>1 DEF Consistent, WaitsForLiveOperation, WaitingStatus
    <3>1. session[t].active \in Operations \ {o}
      BY <2>2 DEF Shape, TypeOK, SessionDoc
    <3> QED BY <3>1, <1>3
  <2>7. ReservedWhileAwaited'
    BY <2>1, <2>4 DEF Consistent, ReservedWhileAwaited
  <2>8. SettledWithOutput'
    BY <1>3, <1>4, <2>4 DEF Consistent, SettledWithOutput
  <2>9. LedgerFollowsOperation'
    BY <1>2, <1>3, <2>4, <2>5 DEF Consistent, LedgerFollowsOperation
  <2> QED BY <2>6, <2>7, <2>8, <2>9 DEF Consistent
<1> QED BY <1>5, <1>6

LEMMA ConsistentStep == Shape /\ Consistent /\ [Next]_vars => Consistent'
<1> SUFFICES ASSUME Shape, Consistent, [Next]_vars PROVE Consistent'
  OBVIOUS
<1>1. CASE Request
  BY <1>1, RequestConsistent
<1>2. ASSUME NEW d \in Dispatchers, DispatcherStep(d) \/ DispatcherCrash(d)
      PROVE  Consistent'
  BY <1>2, DispatcherIdles, ConsistentIdles
<1>3. ASSUME NEW o \in Operations, OperationDue(o) \/ OutboxDue(o)
      PROVE  Consistent'
  BY <1>3, DueIdles, ConsistentIdles
<1>4. ASSUME NEW w \in Workers, WorkerStep(w) \/ WorkerCrash(w)
      PROVE  Consistent'
  <2>1. CASE CommitGeneratedQuestions(w)
    BY <2>1, CommitQuestionsConsistent
  <2>2. CASE CommitEvaluation(w)
    BY <2>2, CommitEvaluationConsistent
  <2>3. CASE FailTerminally(w)
    BY <2>3, FailConsistent
  <2>4. CASE ~ (CommitGeneratedQuestions(w) \/ CommitEvaluation(w) \/ FailTerminally(w))
    <3>1. Idles
      BY <1>4, <2>4, WorkerIdles DEF WorkerStep
    <3> QED BY <3>1, ConsistentIdles
  <2> QED BY <2>1, <2>2, <2>3, <2>4
<1>5. CASE UNCHANGED vars
  BY <1>5 DEF vars, Consistent, WaitsForLiveOperation, ReservedWhileAwaited,
     SettledWithOutput, Stored, LedgerFollowsOperation, WaitingStatus
<1> QED BY <1>1, <1>2, <1>3, <1>4, <1>5 DEF Next

LEMMA Invariants == Spec => [](Shape /\ Consistent)
<1>1. Init => Shape /\ Consistent
  BY InitShape, InitConsistent
<1>2. (Shape /\ Consistent) /\ [Next]_vars => (Shape /\ Consistent)'
  BY ShapeStep, ConsistentStep
<1> QED BY <1>1, <1>2, PTL DEF Spec

-----------------------------------------------------------------------------
(* Part 3. *)

(* A waiting session waits for a live operation of its kind and version.   *)
THEOREM WaitsCorrect == Spec => []WaitsForLiveOperation
BY Invariants, PTL DEF Consistent

(* Quota is reserved exactly while a session waits for its request.        *)
THEOREM ReservationsCorrect == Spec => []ReservedWhileAwaited
BY Invariants, PTL DEF Consistent

(* A debit, a SUCCEEDED record and a stored output come together, whatever *)
(* is redelivered, crashes or comes late.                                  *)
THEOREM DebitsMatchOutput == Spec => []SettledWithOutput
BY Invariants, PTL DEF Consistent

(* Reserved exactly while it is waited for, settled exactly with output.   *)
THEOREM QuotaCorrect == Spec => []QuotaFollows
BY ReservationsCorrect, DebitsMatchOutput, PTL DEF QuotaFollows

(* No step reopens what has ended.                                         *)
THEOREM EndsAreFinal == Spec => EndedIsFinal
<1> DEFINE Final ==
      /\ \A s \in Sessions : session[s].status \in {"COMPLETED", "FAILED"} =>
           session'[s] = session[s]
      /\ \A o \in Operations :
           /\ operation[o].status \in {"SUCCEEDED", "FAILED"} =>
                operation'[o] = operation[o]
           /\ ledger[o] \in {"SETTLED", "RELEASED"} => ledger'[o] = ledger[o]
<1>1. ASSUME Shape, Consistent, [Next]_vars PROVE Final
  <2>1. ASSUME NEW s \in Sessions, session[s].status \in {"COMPLETED", "FAILED"}
        PROVE  session[s].active = None
    BY <1>1, <2>1 DEF Consistent, WaitsForLiveOperation, WaitingStatus
  <2>2. CASE Idles \/ UNCHANGED vars
    BY <2>2 DEF Idles, vars
  <2>3. CASE Request
    <3> PICK s \in Sessions :
          \/ \E o \in GenerateRequests : GenerateQuestions(s, o)
          \/ \E v \in 0 .. session[s].version, a \in Drafts :
               \/ \E o \in SubmitRequests : SubmitAnswers(s, o, v, a)
               \/ SaveProgress(s, v, a)
      BY <2>3 DEF Request
    <3>1. ASSUME NEW o \in Operations, AcceptOperation(s, o),
                 session[s].status \in {"PENDING", "IN_PROGRESS"}
          PROVE  Final
      <4>1. ledger[o] = "ABSENT" /\ operation[o].status = "ABSENT"
        BY <1>1, <3>1 DEF AcceptOperation, Consistent, LedgerFollowsOperation
      <4> QED BY <1>1, <3>1, <4>1 DEF AcceptOperation, Shape, TypeOK
    <3>2. ASSUME NEW v \in 0 .. session[s].version, NEW a \in Drafts, SaveProgress(s, v, a)
          PROVE  Final
      BY <1>1, <3>2 DEF SaveProgress, WriteDraft, Shape, TypeOK
    <3> QED BY <3>1, <3>2 DEF GenerateQuestions, SubmitAnswers, Operations
  <2>4. ASSUME NEW w \in Workers, NEW st \in {"SUCCEEDED", "FAILED"},
               worker[w].pc # "idle", EndLease(w, st),
               NEW q, Settle(worker[w].op, q), NEW x,
               \/ session' = session
               \/ /\ session[operation[worker[w].op].target].active = worker[w].op
                  /\ session' = [session EXCEPT ![operation[worker[w].op].target] = x]
        PROVE  Final
    <3> PICK o \in Operations : o = worker[w].op
      BY <1>1, <2>4 DEF Shape, WorkerShape
    <3>1. o # None /\ operation[o].target \in Sessions
      BY <1>1, <2>4, ConstantsAssumption DEF Shape, WorkerShape, OperationShape
    <3>2. ASSUME NEW s \in Sessions, session[s].status \in {"COMPLETED", "FAILED"}
          PROVE  session'[s] = session[s]
      BY <1>1, <2>1, <2>4, <3>1, <3>2 DEF Shape, TypeOK
    <3>3. ASSUME NEW p \in Operations, operation[p].status \in {"SUCCEEDED", "FAILED"}
          PROVE  operation'[p] = operation[p]
      BY <1>1, <2>4, <3>3, EndLeaseEffect DEF OperationStatus
    <3>4. ASSUME NEW p \in Operations, ledger[p] \in {"SETTLED", "RELEASED"}
          PROVE  ledger'[p] = ledger[p]
      BY <1>1, <2>4, <3>4 DEF Settle, Shape, TypeOK
    <3> QED BY <3>2, <3>3, <3>4
  <2>5. ASSUME NEW w \in Workers, CommitGeneratedQuestions(w) \/ CommitEvaluation(w)
        PROVE  Final
    <3>1. /\ worker[w].pc # "idle" /\ FinishAccounting(w)
          /\ session[operation[worker[w].op].target].active = worker[w].op
          /\ \E st \in {"IN_PROGRESS", "COMPLETED"} : MoveSession(worker[w].op, st)
      BY <2>5 DEF CommitGeneratedQuestions, CommitEvaluation, CanCommitQuestions,
         CanCommitEvaluation, AwaitsOperation, HasOutput
    <3> QED BY <3>1, <2>4 DEF FinishAccounting, MoveSession
  <2>6. ASSUME NEW w \in Workers, FailTerminally(w) PROVE Final
    <3>1. /\ worker[w].pc # "idle" /\ EndLease(w, "FAILED")
          /\ Settle(worker[w].op, "RELEASED") /\ FailSession(worker[w].op)
      BY <2>6 DEF FailTerminally, Failing
    <3> QED BY <3>1, <2>4 DEF FailSession, SessionStillActive
  <2>7. Idles \/ UNCHANGED vars \/ Request
        \/ \E w \in Workers : CommitGeneratedQuestions(w) \/ CommitEvaluation(w)
                              \/ FailTerminally(w)
    BY <1>1, DispatcherIdles, DueIdles, WorkerIdles DEF Next, WorkerStep
  <2> QED BY <2>2, <2>3, <2>5, <2>6, <2>7
<1>2. Shape /\ Consistent /\ [Next]_vars => [Final]_vars
  BY <1>1
<1> QED BY <1>2, Invariants, PTL DEF Spec, EndedIsFinal

(* The refinement: what each kind of step is for the contract.             *)
LEMMA AcceptIsAccept ==
  ASSUME Shape, Consistent, NEW s \in Sessions, NEW o \in Operations,
         AcceptOperation(s, o),
         session[s].status = IF o \in GenerateRequests THEN "PENDING" ELSE "IN_PROGRESS"
  PROVE  Contract!Accept(s, o)
<1>1. ledger[o] = "ABSENT"
  BY DEF AcceptOperation, Consistent, LedgerFollowsOperation
<1>2. /\ session' = [session EXCEPT ![s] =
             [status |-> WaitingStatus(o), version |-> session[s].version + 1,
              active |-> o, failedStage |-> None]]
      /\ ledger' = [ledger EXCEPT ![o] = "RESERVED"]
  BY DEF AcceptOperation
<1>3. [t \in Sessions |-> session'[t].status]
        = [[t \in Sessions |-> session[t].status] EXCEPT ![s] = WaitingStatus(o)]
  BY <1>2 DEF Shape, TypeOK
<1>4. [t \in Sessions |-> session'[t].active]
        = [[t \in Sessions |-> session[t].active] EXCEPT ![s] = o]
  BY <1>2 DEF Shape, TypeOK
<1> QED BY <1>1, <1>2, <1>3, <1>4 DEF Contract!Accept, WaitingStatus, Operations

LEMMA WaitEndsForContract ==
  ASSUME Shape, Consistent, NEW o \in Operations, NEW x, NEW q,
         operation[o].target \in Sessions,
         session[operation[o].target].active = o,
         WaitEnds(o, x, q),
         \/ /\ q = "SETTLED"
            /\ x.status = IF o \in GenerateRequests THEN "IN_PROGRESS" ELSE "COMPLETED"
         \/ q = "RELEASED" /\ x.status = "FAILED"
  PROVE  Contract!Next
<1> PICK s \in Sessions : s = operation[o].target
  OBVIOUS
<1>1. [t \in Sessions |-> session'[t].status]
        = [[t \in Sessions |-> session[t].status] EXCEPT ![s] = x.status]
  BY DEF WaitEnds, Shape, TypeOK
<1>2. [t \in Sessions |-> session'[t].active]
        = [[t \in Sessions |-> session[t].active] EXCEPT ![s] = None]
  BY DEF WaitEnds, Shape, TypeOK
<1>3. session[s].status = WaitingStatus(o) /\ o # None
  BY ConstantsAssumption DEF Consistent, WaitsForLiveOperation
<1>4. ledger' = [ledger EXCEPT ![o] = q]
  BY DEF WaitEnds
<1>5. CASE q = "SETTLED"
  <2>1. Contract!Succeed(s)
    BY <1>1, <1>2, <1>3, <1>4, <1>5 DEF Contract!Succeed, WaitingStatus
  <2> QED BY <2>1 DEF Contract!Next
<1>6. CASE q = "RELEASED"
  <2>1. Contract!Fail(s)
    BY <1>1, <1>2, <1>3, <1>4, <1>6 DEF Contract!Fail
  <2> QED BY <2>1 DEF Contract!Next
<1> QED BY <1>5, <1>6

(* Every step is a step of InterviewLifecycle, or invisible there.         *)
LEMMA StepImplements ==
  Shape /\ Consistent /\ [Next]_vars => [Contract!Next]_(Contract!contractVars)
<1> SUFFICES ASSUME Shape, Consistent, [Next]_vars
             PROVE  Contract!Next \/ UNCHANGED Contract!contractVars
  OBVIOUS
<1>1. CASE session' = session /\ ledger' = ledger
  BY <1>1 DEF Contract!contractVars
<1>2. CASE Request
  <2> PICK s \in Sessions :
        \/ \E o \in GenerateRequests : GenerateQuestions(s, o)
        \/ \E v \in 0 .. session[s].version, a \in Drafts :
             \/ \E o \in SubmitRequests : SubmitAnswers(s, o, v, a)
             \/ SaveProgress(s, v, a)
    BY <1>2 DEF Request
  <2>1. ASSUME NEW o \in Operations, Contract!Accept(s, o) PROVE Contract!Next
    BY <2>1 DEF Contract!Next, Contract!Requests, Operations
  <2>2. ASSUME NEW o \in GenerateRequests, GenerateQuestions(s, o)
        PROVE  Contract!Next
    <3>1. o \in Operations /\ AcceptOperation(s, o) /\ session[s].status = "PENDING"
      BY <2>2 DEF GenerateQuestions, Operations
    <3> QED BY <3>1, <2>1, AcceptIsAccept
  <2>3. ASSUME NEW v \in 0 .. session[s].version, NEW a \in Drafts,
               NEW o \in SubmitRequests, SubmitAnswers(s, o, v, a)
        PROVE  Contract!Next
    <3>1. o \in Operations /\ o \notin GenerateRequests
          /\ AcceptOperation(s, o) /\ session[s].status = "IN_PROGRESS"
      BY <2>3, ConstantsAssumption DEF SubmitAnswers, Operations
    <3> QED BY <3>1, <2>1, AcceptIsAccept
  <2>4. ASSUME NEW v \in 0 .. session[s].version, NEW a \in Drafts, SaveProgress(s, v, a)
        PROVE  UNCHANGED Contract!contractVars
    <3> DEFINE d == [session[s] EXCEPT !.version = v + 1]
    <3>1. \A doc \in SessionDoc, n \in Nat :
            [doc EXCEPT !.version = n].active = doc.active
            /\ [doc EXCEPT !.version = n].status = doc.status
      BY DEF SessionDoc
    <3>2. session[s] \in SessionDoc /\ v + 1 \in Nat
      BY DEF Shape, TypeOK, SessionDoc
    <3>3. d.active = session[s].active /\ d.status = session[s].status
      BY <3>1, <3>2
    <3>4. session' = [session EXCEPT ![s] = d] /\ ledger' = ledger
      BY <2>4 DEF SaveProgress, WriteDraft
    <3>5. [t \in Sessions |-> session'[t].status] = [t \in Sessions |-> session[t].status]
          /\ [t \in Sessions |-> session'[t].active] = [t \in Sessions |-> session[t].active]
      BY <3>3, <3>4 DEF Shape, TypeOK
    <3> QED BY <3>4, <3>5 DEF Contract!contractVars
  <2> QED BY <2>2, <2>3, <2>4
<1>3. ASSUME NEW w \in Workers, CommitGeneratedQuestions(w) \/ CommitEvaluation(w)
      PROVE  Contract!Next
  <2> PICK o \in Operations : o = worker[w].op
    BY <1>3 DEF Shape, WorkerShape, CommitGeneratedQuestions, CommitEvaluation, HasOutput
  <2> DEFINE st == IF o \in GenerateRequests THEN "IN_PROGRESS" ELSE "COMPLETED"
             s == operation[o].target
             x == [status |-> st, version |-> session[s].version + 1, active |-> None,
                   failedStage |-> session[s].failedStage]
  <2>1. /\ worker[w].pc # "idle" /\ HoldsLease(w) /\ session[s].active = o
        /\ MoveSession(o, st) /\ FinishAccounting(w)
    BY <1>3, ConstantsAssumption DEF CommitGeneratedQuestions, CommitEvaluation, HasOutput,
       CanCommitQuestions, CanCommitEvaluation, AwaitsOperation
  <2>2. /\ s \in Sessions /\ ledger[o] = "RESERVED"
        /\ \A p \in Operations \ {o} : operation'[p] = operation[p]
    BY <2>1, CommitEffect
  <2>3. ledger' = [ledger EXCEPT ![o] = "SETTLED"]
    BY <2>1, <2>2 DEF FinishAccounting, Settle
  <2>4. WaitEnds(o, x, "SETTLED")
    BY <2>1, <2>2, <2>3 DEF WaitEnds, MoveSession
  <2> QED BY <2>1, <2>2, <2>4, WaitEndsForContract
<1>4. ASSUME NEW w \in Workers, FailTerminally(w)
      PROVE  Contract!Next \/ UNCHANGED Contract!contractVars
  <2> PICK o \in Operations : o = worker[w].op
    BY <1>4 DEF Shape, WorkerShape, FailTerminally, Failing
  <2> DEFINE s == operation[o].target
             x == [status |-> "FAILED", version |-> session[s].version + 1, active |-> None,
                   failedStage |-> IF o \in GenerateRequests
                                   THEN "GENERATION" ELSE "EVALUATION"]
  <2>1. /\ worker[w].pc # "idle" /\ EndLease(w, "FAILED")
        /\ Settle(o, "RELEASED") /\ FailSession(o)
    BY <1>4 DEF FailTerminally, Failing
  <2>2. s \in Sessions /\ \A p \in Operations \ {o} : operation'[p] = operation[p]
    BY <2>1, EndLeaseEffect DEF Shape, WorkerShape, OperationShape, OperationStatus
  <2>3. CASE SessionStillActive(o)
    <3>1. session[s].active = o /\ session' = [session EXCEPT ![s] = x]
      BY <2>1, <2>3 DEF SessionStillActive, FailSession
    <3>2. ledger[o] = "RESERVED"
      BY <2>2, <3>1 DEF Consistent, ReservedWhileAwaited
    <3>3. WaitEnds(o, x, "RELEASED")
      BY <2>1, <2>2, <3>1, <3>2 DEF WaitEnds, Settle
    <3> QED BY <2>2, <3>1, <3>3, WaitEndsForContract
  <2>4. CASE ~ SessionStillActive(o)
    <3>1. \A t \in Sessions : session[t].active # o
      BY <2>2, <2>4, ConstantsAssumption
         DEF SessionStillActive, Consistent, WaitsForLiveOperation
    <3>2. session' = session /\ ledger' = ledger
      BY <2>1, <2>4, <3>1
         DEF FailSession, Settle, Consistent, ReservedWhileAwaited, Shape, TypeOK
    <3> QED BY <3>2, <1>1
  <2> QED BY <2>3, <2>4
<1>5. CASE Idles \/ UNCHANGED vars
  BY <1>5, <1>1 DEF Idles, vars
<1>6. Idles \/ UNCHANGED vars \/ Request
      \/ \E w \in Workers : CommitGeneratedQuestions(w) \/ CommitEvaluation(w)
                            \/ FailTerminally(w)
  BY DispatcherIdles, DueIdles, WorkerIdles DEF Next, WorkerStep
<1> QED BY <1>2, <1>3, <1>4, <1>5, <1>6

LEMMA InitImplements == Init => Contract!Init
<1> SUFFICES ASSUME Init PROVE Contract!Init
  OBVIOUS
<1> PICK st \in [Sessions -> StartStatus] : session = [s \in Sessions |-> NewSession(st[s])]
  BY DEF Init
<1>1. \A s \in Sessions : /\ session[s].active = None
                          /\ session[s].status \in {"PENDING", "IN_PROGRESS"}
  BY ConstantsAssumption DEF NewSession
<1> QED BY <1>1 DEF Init, Contract!Init, Contract!Requests, Operations

(* The workflow implements the contract of InterviewLifecycle: a request   *)
(* is accepted once, ends once, and its quota is settled or released with  *)
(* that end.                                                               *)
THEOREM WorkflowImplementsContract == Spec => ImplementsContract
<1>1. Spec => Contract!Init /\ [][Contract!Next]_(Contract!contractVars)
  BY InitImplements, StepImplements, Invariants, PTL DEF Spec
<1> QED BY <1>1 DEF ImplementsContract, Contract!Spec
=============================================================================
