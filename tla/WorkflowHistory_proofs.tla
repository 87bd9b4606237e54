----------------------- MODULE WorkflowHistory_proofs -----------------------
(***************************************************************************)
(* What the asynchronous workflow never rewrites, for any sets of sessions,*)
(* requests, drafts, workers and dispatchers, any bounds and any faults:   *)
(* accepted answers, the stage a session failed in, versions, leases,      *)
(* events and recorded attempts.                                           *)
(*                                                                         *)
(* Part 1: the kinds of step there are, and what one step can do to a      *)
(* session.  Part 2: the invariants.  Part 3: the theorems.                *)
(***************************************************************************)
EXTENDS InterviewWorkflow_proofs, FiniteSetTheorems

-----------------------------------------------------------------------------
(* Part 1. *)

(* The events that were published or are about to be.                      *)
Told == bus \cup {StateChange(w) : w \in {v \in Workers : worker[v].pc = "publish"}}

(* Nobody has a new event to publish.                                      *)
NothingToTell ==
  /\ bus' \subseteq Told
  /\ \A w \in Workers : worker'[w].pc = "publish" => worker'[w] = worker[w]

(* Steps that leave what the owner reads alone.                            *)
Rests == Idles /\ UNCHANGED <<questions, submission>> /\ NothingToTell

LEMMA WorkerUpdate ==
  ASSUME NEW doc \in WorkerState, NEW pc, NEW outcome
  PROVE  /\ [doc EXCEPT !.pc = pc].pc = pc
         /\ [doc EXCEPT !.pc = pc].op = doc.op
         /\ [doc EXCEPT !.pc = pc].attempt = doc.attempt
         /\ [doc EXCEPT !.pc = pc].outcome = doc.outcome
         /\ [doc EXCEPT !.pc = pc, !.outcome = outcome].pc = pc
         /\ [doc EXCEPT !.pc = pc, !.outcome = outcome].op = doc.op
         /\ [doc EXCEPT !.pc = pc, !.outcome = outcome].attempt = doc.attempt
         /\ [doc EXCEPT !.pc = pc, !.outcome = outcome].outcome = outcome
BY DEF WorkerState

LEMMA WorkerTellsNothing ==
  ASSUME Shape, NEW w \in Workers,
         \/ \E o \in Operations : ClaimOperation(w, o) \/ DropDelivery(w, o)
         \/ MarkUnknown(w) \/ StartUsageAttempt(w)
         \/ \E outcome \in ProviderOutcome : ProviderAnswers(w, outcome)
         \/ AbandonCommit(w) \/ RetryLater(w) \/ PublishStateChanged(w) \/ WorkerCrash(w)
  PROVE  NothingToTell
<1>0. worker \in [Workers -> WorkerState] /\ worker[w] \in WorkerState
  BY DEF Shape, TypeOK
<1>1. ASSUME NEW x, x.pc # "publish", worker' = [worker EXCEPT ![w] = x], bus' = bus
      PROVE  NothingToTell
  BY <1>0, <1>1 DEF NothingToTell, Told
<1>2. ASSUME NEW o \in Operations, ClaimOperation(w, o) PROVE NothingToTell
  BY <1>1, <1>2 DEF ClaimOperation, UNCHANGEDByClaim
<1>3. ASSUME NEW o \in Operations, DropDelivery(w, o) PROVE NothingToTell
  BY <1>3 DEF DropDelivery, NothingToTell, Told
<1>4. ASSUME MarkUnknown(w) \/ StartUsageAttempt(w) PROVE NothingToTell
  <2> PICK pc \in {"ready", "calling"} : Advance(w, pc)
    BY <1>4 DEF MarkUnknown, StartUsageAttempt
  <2>1. [worker[w] EXCEPT !.pc = pc].pc # "publish"
    BY <1>0, WorkerUpdate
  <2>2. worker' = [worker EXCEPT ![w] = [worker[w] EXCEPT !.pc = pc]] /\ bus' = bus
    BY <1>0, <1>4 DEF Advance, MarkUnknown, StartUsageAttempt, UNCHANGEDByClaim
  <2> QED BY <1>1, <2>1, <2>2
<1>5. ASSUME NEW outcome \in ProviderOutcome, ProviderAnswers(w, outcome)
      PROVE  NothingToTell
  <2>1. [worker[w] EXCEPT !.pc = "answered", !.outcome = outcome].pc # "publish"
    BY <1>0, WorkerUpdate
  <2>2. /\ worker' = [worker EXCEPT ![w] =
             [worker[w] EXCEPT !.pc = "answered", !.outcome = outcome]]
        /\ bus' = bus
    BY <1>0, <1>5 DEF ProviderAnswers, UNCHANGEDByClaim
  <2> QED BY <1>1, <2>1, <2>2
<1>6. IdleWorker.pc # "publish"
  BY DEF IdleWorker
<1>7. ASSUME AbandonCommit(w) \/ RetryLater(w) \/ WorkerCrash(w) PROVE NothingToTell
  BY <1>1, <1>6, <1>7 DEF AbandonCommit, RetryLater, WorkerCrash
<1>8. ASSUME PublishStateChanged(w) PROVE NothingToTell
  <2>1. bus' \subseteq Told
    BY <1>8 DEF PublishStateChanged, Told
  <2>2. worker' = [worker EXCEPT ![w] = IdleWorker]
    BY <1>8 DEF PublishStateChanged
  <2> QED BY <1>0, <1>6, <2>1, <2>2 DEF NothingToTell
<1> QED BY <1>2, <1>3, <1>4, <1>5, <1>7, <1>8

LEMMA StepKinds ==
  ASSUME Shape, [Next]_vars
  PROVE  \/ Rests
         \/ \E s \in Sessions :
              \/ \E o \in GenerateRequests : GenerateQuestions(s, o)
              \/ \E v \in Nat, a \in Drafts :
                   \/ \E o \in SubmitRequests : SubmitAnswers(s, o, v, a)
                   \/ SaveProgress(s, v, a)
         \/ \E w \in Workers : CommitGeneratedQuestions(w) \/ CommitEvaluation(w)
                               \/ FailTerminally(w)
<1>1. ASSUME NEW d \in Dispatchers, DispatcherStep(d) \/ DispatcherCrash(d)
      PROVE  Rests
  <2>1. UNCHANGED <<questions, submission>>
    BY <1>1 DEF DispatcherStep, DispatcherCrash, FindStalled, Redeliver, ClaimRow,
       NothingDue, Enqueue, EnqueueFails, ConfirmRow, RefuseRow, LeaseEnds, storeVars
  <2>2. UNCHANGED <<worker, bus>>
    BY <1>1 DEF DispatcherStep, DispatcherCrash, FindStalled, Redeliver, ClaimRow,
       NothingDue, Enqueue, EnqueueFails, ConfirmRow, RefuseRow, LeaseEnds
  <2> QED BY <1>1, <2>1, <2>2, DispatcherIdles DEF Rests, NothingToTell, Told
<1>2. ASSUME NEW o \in Operations, OperationDue(o) \/ OutboxDue(o)
      PROVE  Rests
  BY <1>2, DueIdles DEF OperationDue, OutboxDue, Rests, NothingToTell, Told
<1>3. ASSUME NEW w \in Workers, WorkerStep(w) \/ WorkerCrash(w),
             ~ (CommitGeneratedQuestions(w) \/ CommitEvaluation(w) \/ FailTerminally(w))
      PROVE  Rests
  <2>1. Idles
    BY <1>3, WorkerIdles DEF WorkerStep
  <2>2. UNCHANGED <<questions, submission>>
    BY <1>3 DEF WorkerStep, WorkerCrash, ClaimOperation, DropDelivery, MarkUnknown,
       StartUsageAttempt, ProviderAnswers, AbandonCommit, RetryLater, PublishStateChanged,
       UNCHANGEDByClaim, storeVars
  <2>3. NothingToTell
    BY <1>3, WorkerTellsNothing DEF WorkerStep
  <2> QED BY <2>1, <2>2, <2>3 DEF Rests
<1>4. ASSUME Request
      PROVE  \E s \in Sessions :
               \/ \E o \in GenerateRequests : GenerateQuestions(s, o)
               \/ \E v \in Nat, a \in Drafts :
                    \/ \E o \in SubmitRequests : SubmitAnswers(s, o, v, a)
                    \/ SaveProgress(s, v, a)
  <2>1. \A s \in Sessions : session[s].version \in Nat
    BY DEF Shape, TypeOK, SessionDoc
  <2>2. \A s \in Sessions : \A v \in 0 .. session[s].version : v \in Nat
    BY <2>1
  <2> QED BY <1>4, <2>2 DEF Request
<1>5. CASE UNCHANGED vars
  BY <1>5 DEF vars, Idles, Rests, NothingToTell, Told
<1> QED BY <1>1, <1>2, <1>3, <1>4, <1>5 DEF Next

(* The documents a commit finds and what it makes of the session.          *)
LEMMA CommitFinds ==
  ASSUME Shape, Consistent, NEW w \in Workers,
         CommitGeneratedQuestions(w) \/ CommitEvaluation(w)
  PROVE  LET o == worker[w].op
             t == operation[o].target
         IN /\ o \in Operations /\ t \in Sessions
            /\ HoldsLease(w) /\ operation[o].status = "PROCESSING"
            /\ session[t].active = o
            /\ session[t].version = operation[o].aggregateVersion
            /\ session[t].version \in Nat
            /\ \A p \in Operations :
                 /\ operation'[p].target = operation[p].target
                 /\ operation'[p].aggregateVersion = operation[p].aggregateVersion
                 /\ p # o => operation'[p] = operation[p]
            /\ operation'[o].status = "SUCCEEDED"
<1> DEFINE o == worker[w].op
           t == operation[o].target
<1>1. worker[w].pc # "idle" /\ HoldsLease(w) /\ EndLease(w, "SUCCEEDED")
      /\ session[t].active = o /\ session[t].version = operation[o].aggregateVersion
  BY DEF CommitGeneratedQuestions, CommitEvaluation, CanCommitQuestions,
     CanCommitEvaluation, AwaitsOperation, HasOutput, FinishAccounting
<1>2. o \in Operations /\ t \in Sessions
  BY <1>1 DEF Shape, WorkerShape, OperationShape
<1>3. operation[o].status = "PROCESSING" /\ session[t].version \in Nat
  BY <1>1, <1>2 DEF HoldsLease, Shape, TypeOK, SessionDoc
<1>4. \A p \in Operations :
        /\ operation'[p].target = operation[p].target
        /\ operation'[p].aggregateVersion = operation[p].aggregateVersion
        /\ IF p = worker[w].op /\ HoldsLease(w)
           THEN operation[p].status = "PROCESSING" /\ operation'[p].status = "SUCCEEDED"
           ELSE operation'[p] = operation[p]
  BY <1>1, EndLeaseEffect DEF OperationStatus
<1> QED BY <1>1, <1>2, <1>3, <1>4

(* What one step can do to a session and its questions.                    *)
Moves(s, from, to) ==
  /\ session[s].status = from
  /\ session'[s].status = to
  /\ session'[s].version = session[s].version + 1

StageSame(s) == session'[s].failedStage = session[s].failedStage
QuestionsSame(s) == questions'[s] = questions[s]

SessionKept(s) == session'[s] = session[s] /\ QuestionsSame(s)
SessionStep(s) ==
  \/ SessionKept(s)
  \/ Moves(s, "PENDING", "GENERATING") /\ QuestionsSame(s)
     /\ session'[s].failedStage = None
  \/ Moves(s, "IN_PROGRESS", "EVALUATING") /\ questions'[s].by = questions[s].by
     /\ session'[s].failedStage = None
  \/ Moves(s, "IN_PROGRESS", "IN_PROGRESS") /\ questions'[s].by = questions[s].by
     /\ StageSame(s)
  \/ Moves(s, "GENERATING", "IN_PROGRESS") /\ questions'[s].by # None /\ StageSame(s)
  \/ Moves(s, "EVALUATING", "COMPLETED") /\ QuestionsSame(s) /\ StageSame(s)
  \/ Moves(s, "GENERATING", "FAILED") /\ QuestionsSame(s)
     /\ session'[s].failedStage = "GENERATION"
  \/ Moves(s, "EVALUATING", "FAILED") /\ QuestionsSame(s)
     /\ session'[s].failedStage = "EVALUATION"

LEMMA SessionSteps ==
  ASSUME Shape, Consistent, [Next]_vars, NEW t \in Sessions
  PROVE  SessionStep(t)
<1> USE DEF SessionStep, SessionKept, Moves, QuestionsSame, StageSame
<1>0. t \in DOMAIN session /\ t \in DOMAIN questions
  BY DEF Shape, TypeOK
<1>1. CASE Rests
  BY <1>1 DEF Rests, Idles
<1>2. ASSUME NEW s \in Sessions, NEW o \in GenerateRequests, GenerateQuestions(s, o)
      PROVE  SessionStep(t)
  BY <1>0, <1>2 DEF GenerateQuestions, AcceptOperation, WaitingStatus, Shape, TypeOK
<1>3. ASSUME NEW s \in Sessions, NEW o \in SubmitRequests, NEW v \in Nat, NEW a \in Drafts,
             SubmitAnswers(s, o, v, a)
      PROVE  SessionStep(t)
  <2>1. o \notin GenerateRequests
    BY ConstantsAssumption
  <2>2. session' = [session EXCEPT ![s] =
          [status |-> "EVALUATING", version |-> session[s].version + 1,
           active |-> o, failedStage |-> None]]
    BY <1>3, <2>1 DEF SubmitAnswers, AcceptOperation, WaitingStatus
  <2>3. \A q \in QuestionSet :
          [q EXCEPT !.answer = a, !.answerVersion = v + 1].by = q.by
    BY DEF QuestionSet
  <2>4. questions'[t].by = questions[t].by /\ (t # s => questions'[t] = questions[t])
    BY <1>3, <2>3 DEF SubmitAnswers, Shape, TypeOK
  <2>5. CASE t = s
    BY <1>3, <2>2, <2>4, <2>5 DEF SubmitAnswers, Shape, TypeOK
  <2>6. CASE t # s
    BY <2>2, <2>4, <2>6 DEF Shape, TypeOK
  <2> QED BY <2>5, <2>6
<1>4. ASSUME NEW s \in Sessions, NEW v \in Nat, NEW a \in Drafts, SaveProgress(s, v, a)
      PROVE  SessionStep(t)
  <2>2. \A d \in SessionDoc :
          LET e == [d EXCEPT !.version = v + 1]
          IN  e.status = d.status /\ e.version = v + 1 /\ e.failedStage = d.failedStage
    BY DEF SessionDoc
  <2>3. \A q \in QuestionSet :
          [q EXCEPT !.answer = a, !.answerVersion = v + 1].by = q.by
    BY DEF QuestionSet
  <2>4. session[s] \in SessionDoc /\ questions[s] \in QuestionSet
    BY DEF Shape, TypeOK
  <2>5. CASE t = s
    <3>1. session'[s] = [session[s] EXCEPT !.version = v + 1]
      BY <1>4 DEF SaveProgress, WriteDraft, Shape, TypeOK
    <3>2. questions'[s] = [questions[s] EXCEPT !.answer = a, !.answerVersion = v + 1]
      BY <1>4 DEF SaveProgress, WriteDraft, Shape, TypeOK
    <3>3. session[s].status = "IN_PROGRESS" /\ session[s].version = v
      BY <1>4 DEF SaveProgress
    <3>4. session'[s].status = session[s].status /\ session'[s].version = v + 1
          /\ session'[s].failedStage = session[s].failedStage
      BY <3>1, <2>2, <2>4
    <3>5. questions'[s].by = questions[s].by
      BY <3>2, <2>3, <2>4
    <3> QED BY <2>5, <3>3, <3>4, <3>5
  <2>6. CASE t # s
    BY <1>4, <2>6 DEF SaveProgress, WriteDraft, Shape, TypeOK
  <2> QED BY <2>5, <2>6
<1>5. ASSUME NEW w \in Workers, CommitGeneratedQuestions(w)
      PROVE  SessionStep(t)
  <2> PICK o \in Operations : o = worker[w].op /\ operation[o].target \in Sessions
    BY <1>5, CommitFinds
  <2>1. /\ session[operation[o].target].status = "GENERATING"
        /\ MoveSession(o, "IN_PROGRESS")
        /\ questions' = [questions EXCEPT ![operation[o].target] =
             [by |-> o, answer |-> None, answerVersion |-> operation[o].aggregateVersion]]
        /\ o # None
    BY <1>5, ConstantsAssumption
       DEF CommitGeneratedQuestions, CanCommitQuestions, AwaitsOperation
  <2> QED BY <1>0, <2>1 DEF MoveSession, Shape, TypeOK
<1>6. ASSUME NEW w \in Workers, CommitEvaluation(w)
      PROVE  SessionStep(t)
  <2> PICK o \in Operations : o = worker[w].op /\ operation[o].target \in Sessions
    BY <1>6, CommitFinds
  <2>1. /\ session[operation[o].target].status = "EVALUATING"
        /\ MoveSession(o, "COMPLETED") /\ questions' = questions
    BY <1>6 DEF CommitEvaluation, CanCommitEvaluation, AwaitsOperation
  <2> QED BY <1>0, <2>1 DEF MoveSession, Shape, TypeOK
<1>7. ASSUME NEW w \in Workers, FailTerminally(w)
      PROVE  SessionStep(t)
  <2> PICK o \in Operations : o = worker[w].op
    BY <1>7 DEF FailTerminally, Failing, Shape, WorkerShape
  <2>1. FailSession(o) /\ questions' = questions
    BY <1>7 DEF FailTerminally
  <2>2. CASE ~ SessionStillActive(o)
    BY <2>1, <2>2 DEF FailSession
  <2>3. CASE SessionStillActive(o)
    <3> DEFINE s == operation[o].target
    <3>1. s \in Sessions
      BY <1>7 DEF FailTerminally, Failing, Shape, WorkerShape, OperationShape
    <3>2. session[s].active = o /\ o # None
      BY <2>3, ConstantsAssumption DEF SessionStillActive
    <3>3. session[s].status = WaitingStatus(o)
      BY <3>1, <3>2 DEF Consistent, WaitsForLiveOperation
    <3>4. session' = [session EXCEPT ![s] =
            [status |-> "FAILED", version |-> session[s].version + 1, active |-> None,
             failedStage |-> IF o \in GenerateRequests
                             THEN "GENERATION" ELSE "EVALUATION"]]
      BY <2>1, <2>3 DEF FailSession
    <3>5. CASE t = s
      BY <2>1, <3>1, <3>3, <3>4, <3>5 DEF WaitingStatus, Shape, TypeOK
    <3>6. CASE t # s
      BY <2>1, <3>4, <3>6 DEF Shape, TypeOK
    <3> QED BY <3>5, <3>6
  <2> QED BY <2>2, <2>3
<1> QED BY <1>1, <1>2, <1>3, <1>4, <1>5, <1>6, <1>7, StepKinds

-----------------------------------------------------------------------------
(* Part 2. *)

(* The questions are there from IN_PROGRESS on and not before, and only a  *)
(* failed session names a stage: the one its questions show.               *)
StageKept ==
  \A s \in Sessions :
    /\ session[s].status \in {"PENDING", "GENERATING"} => questions[s].by = None
    /\ session[s].status \in {"IN_PROGRESS", "EVALUATING", "COMPLETED"} =>
         questions[s].by # None
    /\ IF session[s].status = "FAILED"
       THEN session[s].failedStage = IF questions[s].by = None THEN "GENERATION"
                                                               ELSE "EVALUATION"
       ELSE session[s].failedStage = None

LEMMA StageKeptStep ==
  ASSUME Shape, Consistent, StageKept, [Next]_vars
  PROVE  StageKept'
<1> SUFFICES ASSUME NEW s \in Sessions
             PROVE  /\ session'[s].status \in {"PENDING", "GENERATING"} =>
                         questions'[s].by = None
                    /\ session'[s].status \in {"IN_PROGRESS", "EVALUATING", "COMPLETED"} =>
                         questions'[s].by # None
                    /\ IF session'[s].status = "FAILED"
                       THEN session'[s].failedStage =
                              IF questions'[s].by = None THEN "GENERATION" ELSE "EVALUATION"
                       ELSE session'[s].failedStage = None
  BY DEF StageKept
<1>1. SessionStep(s)
  BY SessionSteps
<1> QED
  BY <1>1 DEF SessionStep, SessionKept, Moves, QuestionsSame, StageSame, StageKept

LEMMA StageKeptInit == Init => StageKept
<1> SUFFICES ASSUME Init PROVE StageKept
  OBVIOUS
<1> PICK st \in [Sessions -> StartStatus] :
      /\ session = [s \in Sessions |-> NewSession(st[s])]
      /\ questions = [s \in Sessions |-> FirstQuestions(st[s])]
  BY DEF Init
<1>1. \A s \in Sessions : st[s] \in {"PENDING", "IN_PROGRESS"}
  BY ConstantsAssumption
<1> QED
  BY <1>1, ConstantsAssumption DEF NewSession, FirstQuestions, StageKept

(* A submission and its operation are created together, and from then on   *)
(* the session is past writing answers.                                    *)
AnswersKept ==
  \A o \in SubmitRequests :
    /\ submission[o].status = "ABSENT" <=> operation[o].status = "ABSENT"
    /\ submission[o].status # "ABSENT" =>
         /\ session[operation[o].target].status \in {"EVALUATING", "COMPLETED", "FAILED"}
         /\ questions[operation[o].target].answer = submission[o].answers

(* What one step can do to a submission.                                   *)
SubmissionKept(o) ==
  /\ operation'[o].target = operation[o].target
  /\ operation'[o].status = "ABSENT" <=> operation[o].status = "ABSENT"
  /\ submission'[o].status = "ABSENT" <=> submission[o].status = "ABSENT"
  /\ submission'[o].answers = submission[o].answers

SubmissionMade(o) ==
  \E s \in Sessions :
    /\ operation'[o].target = s /\ operation'[o].status = "PENDING"
    /\ submission'[o].status = "ACCEPTED"
    /\ session'[s].status = "EVALUATING"
    /\ questions'[s].answer = submission'[o].answers

LEMMA SubmissionSteps ==
  ASSUME Shape, Consistent, AnswersKept, [Next]_vars, NEW p \in SubmitRequests
  PROVE  SubmissionKept(p) \/ SubmissionMade(p)
<1> USE DEF SubmissionKept
<1>0. /\ p \in Operations /\ p \in DOMAIN submission /\ p \in DOMAIN operation
      /\ submission[p] \in SubmissionDoc
      /\ p \notin GenerateRequests
  BY ConstantsAssumption DEF Shape, TypeOK, Operations
<1>8. \A d \in SubmissionDoc, st \in SubmissionStatus :
        LET e == [d EXCEPT !.status = st] IN e.status = st /\ e.answers = d.answers
  BY DEF SubmissionDoc
<1>1. CASE Rests
  BY <1>0, <1>1 DEF Rests, Idles
<1>2. ASSUME NEW s \in Sessions, NEW o \in GenerateRequests, GenerateQuestions(s, o)
      PROVE  SubmissionKept(p)
  BY <1>0, <1>2 DEF GenerateQuestions, AcceptOperation, Shape, TypeOK
<1>3. ASSUME NEW s \in Sessions, NEW o \in SubmitRequests, NEW v \in Nat, NEW a \in Drafts,
             SubmitAnswers(s, o, v, a)
      PROVE  SubmissionKept(p) \/ SubmissionMade(p)
  <2>1. CASE p # o
    BY <1>0, <1>3, <2>1 DEF SubmitAnswers, AcceptOperation, Shape, TypeOK
  <2>2. CASE p = o
    <3>1. submission'[p] = [status |-> "ACCEPTED", answers |-> a]
      BY <1>0, <1>3, <2>2 DEF SubmitAnswers
    <3>2. operation'[p].target = s /\ operation'[p].status = "PENDING"
      BY <1>0, <1>3, <2>2 DEF SubmitAnswers, AcceptOperation
    <3>3. session'[s].status = "EVALUATING"
      BY <1>0, <1>3, <2>2 DEF SubmitAnswers, AcceptOperation, WaitingStatus, Shape, TypeOK
    <3>4. \A q \in QuestionSet :
            [q EXCEPT !.answer = a, !.answerVersion = v + 1].answer = a
      BY DEF QuestionSet
    <3>5. questions'[s].answer = a
      BY <1>3, <3>4 DEF SubmitAnswers, Shape, TypeOK
    <3> QED BY <3>1, <3>2, <3>3, <3>5 DEF SubmissionMade
  <2> QED BY <2>1, <2>2
<1>4. ASSUME NEW s \in Sessions, NEW v \in Nat, NEW a \in Drafts, SaveProgress(s, v, a)
      PROVE  SubmissionKept(p)
  BY <1>4 DEF SaveProgress, WriteDraft
<1>5. ASSUME NEW w \in Workers, CommitGeneratedQuestions(w)
      PROVE  SubmissionKept(p)
  <2>1. submission' = submission /\ p # worker[w].op
    BY <1>0, <1>5 DEF CommitGeneratedQuestions, CanCommitQuestions
  <2> QED BY <1>0, <1>5, <2>1, CommitFinds
<1>6. ASSUME NEW w \in Workers, CommitEvaluation(w)
      PROVE  SubmissionKept(p)
  <2>1. CompleteSubmission(worker[w].op)
    BY <1>6 DEF CommitEvaluation
  <2>2. submission'[p].answers = submission[p].answers
        /\ (submission'[p].status = "ABSENT" <=> submission[p].status = "ABSENT")
    BY <1>0, <1>8, <2>1 DEF CompleteSubmission, SubmissionStatus, Shape, TypeOK
  <2> QED BY <1>0, <1>6, <2>2, CommitFinds
<1>7. ASSUME NEW w \in Workers, FailTerminally(w)
      PROVE  SubmissionKept(p)
  <2> PICK o \in Operations : o = worker[w].op
    BY <1>7 DEF FailTerminally, Failing, Shape, WorkerShape
  <2>1. worker[w].pc # "idle" /\ EndLease(w, "FAILED") /\ operation[o].status # "ABSENT"
    BY <1>7 DEF FailTerminally, Failing, Shape, WorkerShape
  <2>2. /\ operation'[p].target = operation[p].target
        /\ operation'[p].status = "ABSENT" <=> operation[p].status = "ABSENT"
    BY <1>0, <2>1, EndLeaseEffect DEF OperationStatus
  <2>3. submission' = IF o \in SubmitRequests
                      THEN [submission EXCEPT ![o].status = "FAILED"] ELSE submission
    BY <1>7 DEF FailTerminally
  <2>4. CASE p = o
    <3>1. submission[p].status # "ABSENT"
      BY <2>1, <2>4 DEF AnswersKept
    <3>2. submission'[p] = [submission[p] EXCEPT !.status = "FAILED"]
      BY <1>0, <2>3, <2>4
    <3>3. submission'[p].status = "FAILED" /\ submission'[p].answers = submission[p].answers
      BY <1>0, <1>8, <3>2 DEF SubmissionStatus
    <3> QED BY <2>2, <3>1, <3>3
  <2>5. CASE p # o
    BY <2>2, <2>3, <2>5
  <2> QED BY <2>4, <2>5
<1> QED BY <1>1, <1>2, <1>3, <1>4, <1>5, <1>6, <1>7, StepKinds

LEMMA AnswersKeptStep ==
  ASSUME Shape, Consistent, AnswersKept, [Next]_vars
  PROVE  AnswersKept'
<1> SUFFICES ASSUME NEW o \in SubmitRequests
             PROVE  /\ submission'[o].status = "ABSENT" <=> operation'[o].status = "ABSENT"
                    /\ submission'[o].status # "ABSENT" =>
                         /\ session'[operation'[o].target].status \in
                              {"EVALUATING", "COMPLETED", "FAILED"}
                         /\ questions'[operation'[o].target].answer = submission'[o].answers
  BY DEF AnswersKept
<1>1. CASE SubmissionMade(o)
  BY <1>1 DEF SubmissionMade
<1>2. CASE SubmissionKept(o) /\ submission[o].status = "ABSENT"
  BY <1>2 DEF SubmissionKept, AnswersKept
<1>3. CASE SubmissionKept(o) /\ submission[o].status # "ABSENT"
  <2> DEFINE t == operation[o].target
  <2>1. t \in Sessions
    BY <1>3 DEF AnswersKept, Shape, OperationShape, Operations
  <2>2. SessionStep(t)
    BY <2>1, SessionSteps
  <2>3. /\ session'[t].status \in {"EVALUATING", "COMPLETED", "FAILED"}
        /\ questions'[t].answer = questions[t].answer
    BY <1>3, <2>2 DEF AnswersKept, SessionStep, SessionKept, Moves, QuestionsSame
  <2> QED BY <1>3, <2>3 DEF AnswersKept, SubmissionKept
<1> QED BY <1>1, <1>2, <1>3, SubmissionSteps

(* Every event that was published, and every event a worker has yet to     *)
(* publish, tells of a committed change.                                   *)
EventsKept ==
  \A e \in Told :
    /\ e.session \in Sessions /\ e.version \in Nat
    /\ e.version <= session[e.session].version
    /\ e.version = session[e.session].version => e.status = session[e.session].status
    /\ \A f \in Told : (f.session = e.session /\ f.version = e.version) => f.status = e.status

(* What one step adds to the events: nothing, or the change it commits.    *)
NewEvent(e) ==
  /\ e.session \in Sessions /\ session[e.session].version \in Nat
  /\ e.version = session[e.session].version + 1
  /\ session'[e.session].version = e.version
  /\ session'[e.session].status = e.status

LEMMA EventsKeptAfter ==
  ASSUME Shape, EventsKept, \A t \in Sessions : SessionStep(t),
         \A e \in Told' : e \in Told \/ NewEvent(e),
         \A e, f \in Told' : (e \notin Told /\ f \notin Told) => e = f
  PROVE  EventsKept'
<1>1. \A t \in Sessions : session[t].version \in Nat
  BY DEF Shape, TypeOK, SessionDoc
<1>2. ASSUME NEW e \in Told
      PROVE  /\ e.session \in Sessions /\ e.version \in Nat
             /\ e.version <= session'[e.session].version
             /\ e.version = session'[e.session].version =>
                  e.status = session'[e.session].status
  <2>1. /\ e.session \in Sessions /\ e.version \in Nat
        /\ e.version <= session[e.session].version
        /\ e.version = session[e.session].version => e.status = session[e.session].status
    BY <1>2 DEF EventsKept
  <2>2. \/ session'[e.session] = session[e.session]
        \/ session'[e.session].version = session[e.session].version + 1
    BY <2>1 DEF SessionStep, SessionKept, Moves
  <2> QED BY <1>1, <2>1, <2>2
<1>3. ASSUME NEW e, NewEvent(e)
      PROVE  /\ e.session \in Sessions /\ e.version \in Nat
             /\ e.version <= session'[e.session].version
             /\ e.version = session'[e.session].version =>
                  e.status = session'[e.session].status
  BY <1>3 DEF NewEvent
<1>4. ASSUME NEW e \in Told, NEW f, NewEvent(f), f.session = e.session
      PROVE  f.version # e.version
  BY <1>1, <1>4 DEF EventsKept, NewEvent
<1>5. ASSUME NEW e \in Told', NEW f \in Told', f.session = e.session, f.version = e.version
      PROVE  f.status = e.status
  <2>1. CASE e \in Told /\ f \in Told
    BY <1>5, <2>1 DEF EventsKept
  <2>2. CASE e \in Told /\ f \notin Told
    BY <1>4, <1>5, <2>2
  <2>3. CASE e \notin Told /\ f \in Told
    BY <1>4, <1>5, <2>3
  <2>4. CASE e \notin Told /\ f \notin Told
    BY <1>5, <2>4
  <2> QED BY <2>1, <2>2, <2>3, <2>4
<1>6. \A e \in Told' : /\ e.session \in Sessions /\ e.version \in Nat
                       /\ e.version <= session'[e.session].version
                       /\ e.version = session'[e.session].version =>
                            e.status = session'[e.session].status
  BY <1>2, <1>3
<1> QED BY <1>5, <1>6 DEF EventsKept

(* Steps after which the workers that are to publish tell what they did.   *)
LEMMA ToldStays ==
  ASSUME Shape, NothingToTell,
         \A w \in Workers : worker[w].pc = "publish" =>
           LET o == worker[w].op IN
             /\ operation'[o].target = operation[o].target
             /\ operation'[o].aggregateVersion = operation[o].aggregateVersion
  PROVE  Told' \subseteq Told
<1> SUFFICES ASSUME NEW w \in Workers, worker'[w].pc = "publish"
             PROVE  StateChange(w)' = StateChange(w) /\ worker[w].pc = "publish"
  BY DEF Told, NothingToTell
<1>1. worker'[w] = worker[w]
  BY DEF NothingToTell
<1> QED BY <1>1 DEF StateChange

(* The worker that committed has its own change to tell.                   *)
LEMMA ToldGrows ==
  ASSUME Shape, Consistent, NEW w \in Workers, NEW x, NEW o \in Operations,
         o = worker[w].op, x.op = o, operation[o].target \in Sessions,
         worker' = [worker EXCEPT ![w] = x], bus' = bus,
         \A p \in Operations : /\ operation'[p].target = operation[p].target
                               /\ operation'[p].aggregateVersion = operation[p].aggregateVersion,
         session[operation[o].target].version = operation[o].aggregateVersion,
         session'[operation[o].target].version = operation[o].aggregateVersion + 1,
         session'[operation[o].target].status =
           IF x.outcome # "output" THEN "FAILED"
           ELSE IF o \in GenerateRequests THEN "IN_PROGRESS" ELSE "COMPLETED"
  PROVE  /\ \A e \in Told' : e \in Told \/ NewEvent(e)
         /\ \A e, f \in Told' : (e \notin Told /\ f \notin Told) => e = f
<1>1. worker'[w] = x /\ \A v \in Workers \ {w} : worker'[v] = worker[v]
  BY DEF Shape, TypeOK
<1>2. NewEvent(StateChange(w)')
  BY <1>1 DEF NewEvent, StateChange, Shape, TypeOK, SessionDoc
<1>3. ASSUME NEW v \in Workers, worker'[v].pc = "publish", v # w
      PROVE  StateChange(v)' = StateChange(v) /\ worker[v].pc = "publish"
  <2>1. worker'[v] = worker[v]
    BY <1>1, <1>3
  <2>2. worker[v].op \in Operations
    BY <1>3, <2>1 DEF Shape, WorkerShape
  <2> QED BY <1>3, <2>1, <2>2 DEF StateChange
<1>4. \A e \in Told' : e \in Told \/ e = StateChange(w)'
  BY <1>3 DEF Told
<1> QED BY <1>2, <1>4

LEMMA EventsKeptStep ==
  ASSUME Shape, Consistent, EventsKept, [Next]_vars
  PROVE  EventsKept'
<1>0. \A t \in Sessions : SessionStep(t)
  BY SessionSteps
<1>1. ASSUME Told' \subseteq Told PROVE EventsKept'
  BY <1>0, <1>1, EventsKeptAfter
<1>2. CASE Rests
  <2>1. \A w \in Workers : worker[w].pc = "publish" =>
          LET o == worker[w].op IN
            /\ operation'[o].target = operation[o].target
            /\ operation'[o].aggregateVersion = operation[o].aggregateVersion
    BY <1>2 DEF Rests, Idles, Shape, WorkerShape
  <2>2. NothingToTell
    BY <1>2 DEF Rests
  <2> QED BY <1>1, <2>1, <2>2, ToldStays
<1>3. ASSUME NEW s \in Sessions, NEW o \in Operations, AcceptOperation(s, o)
      PROVE  EventsKept'
  <2>1. \A w \in Workers : worker[w].pc = "publish" =>
          worker[w].op \in Operations \ {o}
    BY <1>3 DEF AcceptOperation, Shape, WorkerShape
  <2>2. \A p \in Operations \ {o} : operation'[p] = operation[p]
    BY <1>3 DEF AcceptOperation, Shape, TypeOK
  <2>3. NothingToTell
    BY <1>3 DEF AcceptOperation, NothingToTell, Told
  <2> QED BY <1>1, <2>1, <2>2, <2>3, ToldStays
<1>4. ASSUME NEW s \in Sessions, NEW v \in Nat, NEW a \in Drafts, SaveProgress(s, v, a)
      PROVE  EventsKept'
  <2>1. NothingToTell /\ operation' = operation
    BY <1>4 DEF SaveProgress, WriteDraft, NothingToTell, Told
  <2> QED BY <1>1, <2>1, ToldStays
<1>5. ASSUME NEW w \in Workers, CommitGeneratedQuestions(w) \/ CommitEvaluation(w)
      PROVE  EventsKept'
  <2> PICK o \in Operations : o = worker[w].op
    BY <1>5, CommitFinds
  <2> DEFINE t == operation[o].target
             x == [worker[w] EXCEPT !.pc = "publish"]
  <2>1. /\ t \in Sessions /\ session[t].version = operation[o].aggregateVersion
        /\ \A p \in Operations :
             /\ operation'[p].target = operation[p].target
             /\ operation'[p].aggregateVersion = operation[p].aggregateVersion
    BY <1>5, CommitFinds
  <2>2. worker' = [worker EXCEPT ![w] = x] /\ bus' = bus /\ worker[w].outcome = "output"
    BY <1>5 DEF CommitGeneratedQuestions, CommitEvaluation, Advance, HasOutput, Shape, TypeOK
  <2>3. x.op = o /\ x.outcome = "output"
    BY <2>2, WorkerUpdate DEF Shape, TypeOK
  <2>4. PICK st : /\ MoveSession(o, st)
                  /\ st = IF o \in GenerateRequests THEN "IN_PROGRESS" ELSE "COMPLETED"
    BY <1>5, ConstantsAssumption DEF CommitGeneratedQuestions, CommitEvaluation,
       CanCommitQuestions, CanCommitEvaluation
  <2>5. session'[t].version = operation[o].aggregateVersion + 1 /\ session'[t].status = st
    BY <2>1, <2>4 DEF MoveSession, Shape, TypeOK
  <2> HIDE DEF x
  <2>6. /\ \A e \in Told' : e \in Told \/ NewEvent(e)
        /\ \A e, f \in Told' : (e \notin Told /\ f \notin Told) => e = f
    BY <2>1, <2>2, <2>3, <2>4, <2>5, ToldGrows
  <2> QED BY <1>0, <2>6, EventsKeptAfter
<1>6. ASSUME NEW w \in Workers, FailTerminally(w)
      PROVE  EventsKept'
  <2> PICK o \in Operations : o = worker[w].op
    BY <1>6 DEF FailTerminally, Failing, Shape, WorkerShape
  <2>1. /\ worker[w].pc # "idle" /\ EndLease(w, "FAILED") /\ FailSession(o) /\ bus' = bus
        /\ worker[w].outcome # "output" /\ worker' = [worker EXCEPT ![w] = AfterFailure(w)]
    BY <1>6 DEF FailTerminally, Failing
  <2>2. \A p \in Operations :
          /\ operation'[p].target = operation[p].target
          /\ operation'[p].aggregateVersion = operation[p].aggregateVersion
    BY <2>1, EndLeaseEffect DEF OperationStatus
  <2>3. CASE ~ SessionStillActive(o)
    <3>1. worker' = [worker EXCEPT ![w] = IdleWorker]
      BY <2>1, <2>3 DEF AfterFailure
    <3>2. NothingToTell
      BY <2>1, <3>1 DEF NothingToTell, Told, IdleWorker, Shape, TypeOK
    <3>3. \A v \in Workers : worker[v].pc = "publish" =>
            LET p == worker[v].op IN
              /\ operation'[p].target = operation[p].target
              /\ operation'[p].aggregateVersion = operation[p].aggregateVersion
      BY <2>2 DEF Shape, WorkerShape
    <3> QED BY <1>1, <3>2, <3>3, ToldStays
  <2>4. CASE SessionStillActive(o)
    <3> DEFINE t == operation[o].target
               x == [worker[w] EXCEPT !.pc = "publish"]
    <3>1. worker' = [worker EXCEPT ![w] = x]
      BY <2>1, <2>4 DEF AfterFailure
    <3>2. x.op = o /\ x.outcome # "output"
      BY <2>1, WorkerUpdate DEF Shape, TypeOK
    <3>3. t \in Sessions /\ session[t].version = operation[o].aggregateVersion
      BY <2>1, <2>4 DEF SessionStillActive, Shape, WorkerShape, OperationShape
    <3>4. session'[t].version = operation[o].aggregateVersion + 1
          /\ session'[t].status = "FAILED"
      BY <2>1, <2>4, <3>3 DEF FailSession, Shape, TypeOK
    <3> HIDE DEF x
    <3>5. /\ \A e \in Told' : e \in Told \/ NewEvent(e)
          /\ \A e, f \in Told' : (e \notin Told /\ f \notin Told) => e = f
      BY <2>1, <2>2, <3>1, <3>2, <3>3, <3>4, ToldGrows
    <3> QED BY <1>0, <3>5, EventsKeptAfter
  <2> QED BY <2>3, <2>4
<1> QED
  BY <1>2, <1>3, <1>4, <1>5, <1>6, StepKinds DEF GenerateQuestions, SubmitAnswers, Operations

(* UsageSucceedsOnce, without counting.                                    *)
UsageKept ==
  \A o \in Operations :
    /\ \A m, n \in Attempts :
         (usage[o][m] = "SUCCEEDED" /\ usage[o][n] = "SUCCEEDED") => m = n
    /\ \A n \in Attempts :
         usage[o][n] = "SUCCEEDED" => operation[o].status = "SUCCEEDED"

(* Only a commit records a success, of one attempt of its operation.       *)
NoSuccess(o) ==
  /\ operation[o].status = "SUCCEEDED" => operation'[o].status = "SUCCEEDED"
  /\ \A n \in Attempts : usage'[o][n] = "SUCCEEDED" => usage[o][n] = "SUCCEEDED"

OneSuccess(o) ==
  /\ operation[o].status = "PROCESSING" /\ operation'[o].status = "SUCCEEDED"
  /\ \E m \in Attempts : \A n \in Attempts :
       usage'[o][n] = "SUCCEEDED" => n = m \/ usage[o][n] = "SUCCEEDED"

LEMMA CloseEffect ==
  ASSUME Shape, NEW w \in Workers, worker[w].pc # "idle", NEW st, CloseAttempt(w, st)
  PROVE  LET o == worker[w].op
             m == worker[w].attempt
         IN /\ o \in Operations /\ m \in Attempts
            /\ usage'[o][m] = IF usage[o][m] = "STARTED" THEN st ELSE usage[o][m]
            /\ \A n \in Attempts : n # m => usage'[o][n] = usage[o][n]
            /\ \A p \in Operations : p # o => usage'[p] = usage[p]
<1> DEFINE o == worker[w].op
           m == worker[w].attempt
           x == IF usage[o][m] = "STARTED" THEN st ELSE usage[o][m]
<1>1. o \in Operations /\ m \in Attempts
  BY DEF Shape, WorkerShape
<1>2. usage' = [usage EXCEPT ![o][m] = x]
  BY DEF CloseAttempt
<1>3. usage \in [Operations -> [Attempts -> UsageStatus]]
  BY DEF Shape, TypeOK
<1> HIDE DEF o, m, x
<1>4. /\ usage'[o][m] = x
      /\ \A n \in Attempts : n # m => usage'[o][n] = usage[o][n]
      /\ \A p \in Operations : p # o => usage'[p] = usage[p]
  BY <1>1, <1>2, <1>3
<1> QED BY <1>1, <1>4 DEF o, m, x

LEMMA UsageSteps ==
  ASSUME Shape, Consistent, [Next]_vars, NEW p \in Operations
  PROVE  NoSuccess(p) \/ OneSuccess(p)
<1> USE DEF NoSuccess
<1>1. ASSUME NEW d \in Dispatchers, DispatcherStep(d) \/ DispatcherCrash(d)
      PROVE  NoSuccess(p)
  BY <1>1 DEF DispatcherStep, DispatcherCrash, FindStalled, Redeliver, ClaimRow,
     NothingDue, Enqueue, EnqueueFails, ConfirmRow, RefuseRow, LeaseEnds, storeVars
<1>2. ASSUME NEW o \in Operations, OperationDue(o) \/ OutboxDue(o)
      PROVE  NoSuccess(p)
  <2>1. Idles /\ usage' = usage
    BY <1>2, DueIdles DEF OperationDue, OutboxDue
  <2> QED BY <2>1 DEF Idles
<1>3. ASSUME NEW s \in Sessions, NEW o \in Operations, AcceptOperation(s, o)
      PROVE  NoSuccess(p)
  BY <1>3 DEF AcceptOperation, Shape, TypeOK
<1>4. ASSUME NEW s \in Sessions, NEW v \in Nat, NEW a \in Drafts, SaveProgress(s, v, a)
      PROVE  NoSuccess(p)
  BY <1>4 DEF SaveProgress, WriteDraft
<1>5. ASSUME NEW w \in Workers, CommitGeneratedQuestions(w) \/ CommitEvaluation(w)
      PROVE  NoSuccess(p) \/ OneSuccess(p)
  <2>1. worker[w].pc # "idle" /\ CloseAttempt(w, "SUCCEEDED")
    BY <1>5 DEF CommitGeneratedQuestions, CommitEvaluation, HasOutput, FinishAccounting
  <2>2. CASE p = worker[w].op
    BY <1>5, <2>1, <2>2, CommitFinds, CloseEffect DEF OneSuccess
  <2>3. CASE p # worker[w].op
    BY <1>5, <2>1, <2>3, CommitFinds, CloseEffect
  <2> QED BY <2>2, <2>3
<1>6. ASSUME NEW w \in Workers, NEW st \in {"PENDING", "FAILED"}, worker[w].pc # "idle",
             EndLease(w, st), CloseAttempt(w, "FAILED")
      PROVE  NoSuccess(p)
  <2>1. operation[p].status = "SUCCEEDED" => operation'[p].status = "SUCCEEDED"
    BY <1>6, EndLeaseEffect DEF OperationStatus
  <2>2. \A n \in Attempts : usage'[p][n] = "SUCCEEDED" => usage[p][n] = "SUCCEEDED"
    BY <1>6, CloseEffect
  <2> QED BY <2>1, <2>2
<1>7. ASSUME NEW w \in Workers, FailTerminally(w) \/ RetryLater(w)
      PROVE  NoSuccess(p)
  BY <1>6, <1>7 DEF FailTerminally, RetryLater, Failing
<1>8. ASSUME NEW w \in Workers, MarkUnknown(w) \/ StartUsageAttempt(w)
      PROVE  NoSuccess(p)
  <2>1. worker[w].op \in Operations /\ worker[w].attempt \in Attempts
    BY <1>8 DEF MarkUnknown, StartUsageAttempt, Shape, WorkerShape
  <2>2. operation' = operation /\ usage \in [Operations -> [Attempts -> UsageStatus]]
    BY <1>8 DEF MarkUnknown, StartUsageAttempt, UNCHANGEDByClaim, Shape, TypeOK
  <2>3. CASE StartUsageAttempt(w)
    <3> DEFINE o == worker[w].op
               m == worker[w].attempt
    <3>1. usage' = [usage EXCEPT ![o][m] = "STARTED"] /\ o \in Operations /\ m \in Attempts
      BY <2>1, <2>3 DEF StartUsageAttempt
    <3> HIDE DEF o, m
    <3> QED BY <2>2, <3>1
  <2>4. CASE MarkUnknown(w)
    <3> DEFINE o == worker[w].op
    <3>1. usage' = [usage EXCEPT ![o] = [n \in Attempts |->
                      IF usage[o][n] = "STARTED" THEN "UNKNOWN" ELSE usage[o][n]]]
          /\ o \in Operations
      BY <2>1, <2>4 DEF MarkUnknown
    <3> HIDE DEF o
    <3> QED BY <2>2, <3>1
  <2> QED BY <1>8, <2>3, <2>4
<1>9. ASSUME NEW w \in Workers,
             \/ \E o \in Operations : ClaimOperation(w, o) \/ DropDelivery(w, o)
             \/ \E outcome \in ProviderOutcome : ProviderAnswers(w, outcome)
             \/ AbandonCommit(w) \/ PublishStateChanged(w) \/ WorkerCrash(w)
      PROVE  NoSuccess(p)
  <2>1. Idles /\ usage' = usage
    BY <1>9, WorkerIdles DEF ClaimOperation, DropDelivery, ProviderAnswers, AbandonCommit,
       PublishStateChanged, WorkerCrash, storeVars, UNCHANGEDByClaim
  <2> QED BY <2>1 DEF Idles
<1>10. CASE UNCHANGED vars
  BY <1>10 DEF vars
<1>11. ASSUME Request PROVE NoSuccess(p)
  <2>1. \A s \in Sessions : \A v \in 0 .. session[s].version : v \in Nat
    BY DEF Shape, TypeOK, SessionDoc
  <2> QED
    BY <1>3, <1>4, <1>11, <2>1 DEF Request, GenerateQuestions, SubmitAnswers, Operations
<1> QED
  BY <1>1, <1>2, <1>5, <1>7, <1>8, <1>9, <1>10, <1>11 DEF Next, WorkerStep

LEMMA UsageKeptStep ==
  ASSUME Shape, Consistent, UsageKept, [Next]_vars
  PROVE  UsageKept'
<1> SUFFICES ASSUME NEW o \in Operations
             PROVE  /\ \A m, n \in Attempts :
                         (usage'[o][m] = "SUCCEEDED" /\ usage'[o][n] = "SUCCEEDED") => m = n
                    /\ \A n \in Attempts :
                         usage'[o][n] = "SUCCEEDED" => operation'[o].status = "SUCCEEDED"
  BY DEF UsageKept
<1>1. CASE NoSuccess(o)
  BY <1>1 DEF NoSuccess, UsageKept
<1>2. CASE OneSuccess(o)
  <2>1. \A n \in Attempts : usage[o][n] # "SUCCEEDED"
    BY <1>2 DEF OneSuccess, UsageKept
  <2> QED BY <1>2, <2>1 DEF OneSuccess
<1> QED BY <1>1, <1>2, UsageSteps

LEMMA UsageKeptCounts == ASSUME UsageKept PROVE UsageSucceedsOnce
<1> SUFFICES ASSUME NEW o \in Operations
             PROVE  LET done == {n \in Attempts : usage[o][n] = "SUCCEEDED"} IN
                      /\ Cardinality(done) <= 1
                      /\ done # {} => operation[o].status = "SUCCEEDED"
  BY DEF UsageSucceedsOnce
<1> DEFINE done == {n \in Attempts : usage[o][n] = "SUCCEEDED"}
<1>1. \A m, n \in done : m = n
  BY DEF UsageKept
<1>2. done = {} \/ \E n : done = {n}
  BY <1>1
<1>3. Cardinality(done) <= 1
  BY <1>2, FS_EmptySet, FS_Singleton
<1>4. done # {} => operation[o].status = "SUCCEEDED"
  BY DEF UsageKept
<1> QED BY <1>3, <1>4

-----------------------------------------------------------------------------
(* Part 3. *)

History == StageKept /\ AnswersKept /\ EventsKept /\ UsageKept

LEMMA HistoryInit == Init => History
<1> SUFFICES ASSUME Init PROVE History
  OBVIOUS
<1>1. AnswersKept
  BY DEF Init, AnswersKept, NoOperation, Operations
<1>2. EventsKept
  BY DEF Init, EventsKept, Told, IdleWorker
<1>3. UsageKept
  BY DEF Init, UsageKept
<1> QED BY <1>1, <1>2, <1>3, StageKeptInit DEF History

LEMMA HistoryStands == Spec => [](Shape /\ Consistent /\ History)
<1>1. Init => Shape /\ Consistent /\ History
  BY InitShape, InitConsistent, HistoryInit
<1>2. (Shape /\ Consistent /\ History) /\ [Next]_vars => (Shape /\ Consistent /\ History)'
  BY ShapeStep, ConsistentStep, StageKeptStep, AnswersKeptStep, EventsKeptStep,
     UsageKeptStep DEF History
<1> QED BY <1>1, <1>2, PTL DEF Spec

(* No autosave, commit, failure or later request overwrites the answers of *)
(* an accepted submission.                                                 *)
THEOREM AnswersStand == Spec => []AcceptedAnswersStand
<1>1. History => AcceptedAnswersStand
  BY DEF History, AnswersKept, AcceptedAnswersStand
<1> QED BY <1>1, HistoryStands, PTL

(* The stage a failed session names is the one its documents show.         *)
THEOREM StagesAreTrue == Spec => []FailedStageIsTrue
<1>1. History => FailedStageIsTrue
  BY DEF History, StageKept, FailedStageIsTrue
<1> QED BY <1>1, HistoryStands, PTL

(* No event tells of what was not committed, however late it is published. *)
THEOREM EventsTellCommits == Spec => []EventsAreCommitted
<1>1. History => EventsAreCommitted
  BY DEF History, EventsKept, Told, EventsAreCommitted
<1> QED BY <1>1, HistoryStands, PTL

(* One attempt at most is recorded as the one that succeeded.              *)
THEOREM UsageIsCounted == Spec => []UsageSucceedsOnce
<1>1. History => UsageSucceedsOnce
  BY UsageKeptCounts DEF History
<1> QED BY <1>1, HistoryStands, PTL

(* Whatever changes a session or its answers takes the next version.       *)
THEOREM VersionsFollowChanges == Spec => ChangesTakeNextVersion
<1> DEFINE TakesNext ==
      \A s \in Sessions :
        (session'[s] # session[s] \/ questions'[s] # questions[s]) =>
          session'[s].version = session[s].version + 1
<1>1. Shape /\ Consistent /\ [Next]_vars => [TakesNext]_vars
  BY SessionSteps DEF SessionStep, SessionKept, Moves, QuestionsSame
<1> QED BY <1>1, Invariants, PTL DEF Spec, ChangesTakeNextVersion

(* A lease is ended by the worker that holds it and by no other.           *)
THEOREM LeasesEndByHolder == Spec => OnlyHolderEndsLease
<1> DEFINE Holder ==
      \A o \in Operations :
        (operation[o].status = "PROCESSING" /\ operation'[o].status # "PROCESSING") =>
          \E w \in Workers : /\ operation[o].lease = w
                             /\ worker[w].op = o
                             /\ worker'[w] # worker[w]
<1>1. ASSUME Shape, Consistent, [Next]_vars, NEW o \in Operations,
             operation[o].status = "PROCESSING", operation'[o].status # "PROCESSING"
      PROVE  \E w \in Workers : /\ operation[o].lease = w
                                /\ worker[w].op = o
                                /\ worker'[w] # worker[w]
  <2>1. ASSUME NEW w \in Workers, NEW st \in OperationStatus, worker[w].pc = "answered",
               EndLease(w, st), worker'[w].pc # "answered"
        PROVE  /\ operation[o].lease = w
               /\ worker[w].op = o
               /\ worker'[w] # worker[w]
    BY <1>1, <2>1, EndLeaseEffect DEF HoldsLease
  <2>2. ASSUME NEW w \in Workers, CommitGeneratedQuestions(w) \/ CommitEvaluation(w)
        PROVE  /\ operation[o].lease = w
               /\ worker[w].op = o
               /\ worker'[w] # worker[w]
    <3>1. worker[w].pc = "answered" /\ EndLease(w, "SUCCEEDED") /\ Advance(w, "publish")
      BY <2>2 DEF CommitGeneratedQuestions, CommitEvaluation, HasOutput, FinishAccounting
    <3>2. worker'[w].pc = "publish"
      BY <1>1, <3>1, WorkerUpdate DEF Advance, Shape, TypeOK
    <3> QED BY <2>1, <3>1, <3>2 DEF OperationStatus
  <2>3. ASSUME NEW w \in Workers, FailTerminally(w) \/ RetryLater(w)
        PROVE  /\ operation[o].lease = w
               /\ worker[w].op = o
               /\ worker'[w] # worker[w]
    <3>1. worker[w].pc = "answered" /\ \E st \in {"PENDING", "FAILED"} : EndLease(w, st)
      BY <2>3 DEF FailTerminally, RetryLater, Failing
    <3>2. [worker[w] EXCEPT !.pc = "publish"].pc = "publish"
      BY <1>1, WorkerUpdate DEF Shape, TypeOK
    <3>3. AfterFailure(w).pc # "answered" /\ IdleWorker.pc # "answered"
      BY <3>2 DEF AfterFailure, IdleWorker
    <3>4. worker'[w] = AfterFailure(w) \/ worker'[w] = IdleWorker
      BY <1>1, <2>3 DEF FailTerminally, RetryLater, Shape, TypeOK
    <3> QED BY <2>1, <3>1, <3>3, <3>4 DEF OperationStatus
  <2>4. ASSUME NEW w \in Workers,
               \/ \E p \in Operations : ClaimOperation(w, p) \/ DropDelivery(w, p)
               \/ MarkUnknown(w) \/ StartUsageAttempt(w)
               \/ \E outcome \in ProviderOutcome : ProviderAnswers(w, outcome)
               \/ AbandonCommit(w) \/ PublishStateChanged(w) \/ WorkerCrash(w)
        PROVE  FALSE
    <3>1. ASSUME NEW p \in Operations, ClaimOperation(w, p) PROVE FALSE
      <4>1. \A doc \in OperationDoc, n \in Nat :
              [doc EXCEPT !.status = "PROCESSING", !.lease = w, !.due = FALSE,
                          !.attempts = n].status = "PROCESSING"
        BY DEF OperationDoc
      <4>2. operation[p] \in OperationDoc /\ operation[p].attempts + 1 \in Nat
        BY <1>1 DEF Shape, TypeOK, OperationDoc
      <4> DEFINE q == [operation[p] EXCEPT !.status = "PROCESSING", !.lease = w,
                                           !.due = FALSE,
                                           !.attempts = operation[p].attempts + 1]
      <4>3. q.status = "PROCESSING" /\ operation' = [operation EXCEPT ![p] = q]
        BY <3>1, <4>1, <4>2 DEF ClaimOperation
      <4> HIDE DEF q
      <4> QED BY <1>1, <4>3 DEF Shape, TypeOK
    <3>2. operation' = operation \/ \E p \in Operations : ClaimOperation(w, p)
      BY <2>4 DEF DropDelivery, MarkUnknown, StartUsageAttempt, ProviderAnswers,
         AbandonCommit, PublishStateChanged, WorkerCrash, storeVars
    <3> QED BY <1>1, <3>1, <3>2
  <2>5. ASSUME NEW d \in Dispatchers, DispatcherStep(d) \/ DispatcherCrash(d) PROVE FALSE
    BY <1>1, <2>5 DEF DispatcherStep, DispatcherCrash, FindStalled, Redeliver, ClaimRow,
       NothingDue, Enqueue, EnqueueFails, ConfirmRow, RefuseRow, LeaseEnds, storeVars
  <2>6. ASSUME NEW p \in Operations, OperationDue(p) \/ OutboxDue(p) PROVE FALSE
    <3>1. CASE OutboxDue(p)
      BY <1>1, <3>1 DEF OutboxDue
    <3>2. CASE OperationDue(p)
      <4>1. operation' = [operation EXCEPT ![p] = [operation[p] EXCEPT !.due = TRUE]]
        BY <3>2 DEF OperationDue
      <4>2. [operation[p] EXCEPT !.due = TRUE].status = operation[p].status
        BY <1>1, OperationDueUpdate DEF Shape, TypeOK
      <4> QED BY <1>1, <4>1, <4>2 DEF Shape, TypeOK
    <3> QED BY <2>6, <3>1, <3>2
  <2>7. ASSUME Request PROVE FALSE
    <3>1. ASSUME NEW s \in Sessions, NEW p \in Operations, AcceptOperation(s, p) PROVE FALSE
      BY <1>1, <3>1 DEF AcceptOperation, Shape, TypeOK
    <3>2. ASSUME NEW s \in Sessions, NEW v, NEW a, SaveProgress(s, v, a) PROVE FALSE
      BY <1>1, <3>2 DEF SaveProgress, WriteDraft
    <3> QED BY <2>7, <3>1, <3>2 DEF Request, GenerateQuestions, SubmitAnswers, Operations
  <2>8. CASE UNCHANGED vars
    BY <1>1, <2>8 DEF vars
  <2> QED BY <1>1, <2>2, <2>3, <2>4, <2>5, <2>6, <2>7, <2>8 DEF Next, WorkerStep
<1>2. Shape /\ Consistent /\ [Next]_vars => [Holder]_vars
  BY <1>1
<1> QED BY <1>2, Invariants, PTL DEF Spec, OnlyHolderEndsLease
=============================================================================
