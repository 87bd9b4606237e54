-------------------- MODULE InterviewOperationProcessor --------------------
(***************************************************************************)
(* services/InterviewOperationProcessor.ts: what one execution of an Agenda*)
(* job does with the operation it was given.  process() is a sequence of   *)
(* statements to MongoDB with awaits between them, so it is a sequence of  *)
(* actions here; the two commits and the two failure branches are one      *)
(* transaction, so one action, each.                                       *)
(*                                                                         *)
(* The lease token of an operation is the worker that drew it: a worker    *)
(* never holds two tokens at once.  worker[w].attempt is the "attempts" of *)
(* the snapshot the claim returned.                                        *)
(***************************************************************************)
EXTENDS InterviewStore

UNCHANGEDByClaim == <<session, questions, outbox, submission, results, ledger,
                      dispatcher, bus>>

ClaimablePending(o) == operation[o].status = "PENDING" /\ operation[o].due

Claimable(o) == operation[o].status \in {"PENDING", "PROCESSING"} /\ operation[o].due

(* Agenda delivers at least once: the job may be delivered again.          *)
Deliver(o) == o \in jobs /\ jobs' \in {jobs, jobs \ {o}}

ClaimOperation(w, o) ==
  /\ worker[w].pc = "idle"
  /\ Claimable(o)
  /\ Deliver(o)
  /\ operation' = [operation EXCEPT ![o] =
       [@ EXCEPT !.status = "PROCESSING", !.lease = w, !.due = FALSE,
                 !.attempts = operation[o].attempts + 1]]
  /\ worker' = [worker EXCEPT ![w] =
       [pc |-> "claimed", op |-> o, attempt |-> operation[o].attempts + 1,
        outcome |-> None]]
  /\ UNCHANGED <<UNCHANGEDByClaim, usage>>

(* The claim finds nothing: process() returns and the job is done.         *)
DropDelivery(w, o) ==
  /\ worker[w].pc = "idle"
  /\ ~ Claimable(o)
  /\ o \in jobs
  /\ jobs' = jobs \ {o}
  /\ UNCHANGED <<storeVars, worker, dispatcher, bus>>

Advance(w, pc) == worker' = [worker EXCEPT ![w].pc = pc]

MarkNothing(w) ==
  /\ worker[w].pc = "claimed"
  /\ Advance(w, "ready")
  /\ UNCHANGED <<UNCHANGEDByClaim, usage, operation, jobs>>

(* Attempts left STARTED by whoever held the operation before.             *)
MarkUnknown(w) ==
  LET o == worker[w].op IN
  /\ worker[w].pc = "claimed"
  /\ usage' = [usage EXCEPT ![o] = [n \in Attempts |->
       IF usage[o][n] = "STARTED" THEN "UNKNOWN" ELSE usage[o][n]]]
  /\ Advance(w, "ready")
  /\ UNCHANGED <<UNCHANGEDByClaim, operation, jobs>>

StartUsageAttempt(w) ==
  /\ worker[w].pc = "ready"
  /\ usage' = [usage EXCEPT ![worker[w].op][worker[w].attempt] = "STARTED"]
  /\ Advance(w, "calling")
  /\ UNCHANGED <<UNCHANGEDByClaim, operation, jobs>>

(* The provider call with its own retries, recordObservedUsage (token      *)
(* counts only) and the validation of the output.  Everything from the     *)
(* reads of the inputs on is in one try block: a failed read or a failed   *)
(* startUsageAttempt is handled as a provider failure without a call.      *)
ProviderAnswers(w, outcome) ==
  /\ \/ worker[w].pc = "calling"
     \/ worker[w].pc = "ready" /\ outcome # "output"
  /\ worker' = [worker EXCEPT ![w].pc = "answered", ![w].outcome = outcome]
  /\ UNCHANGED <<UNCHANGEDByClaim, usage, operation, jobs>>

-----------------------------------------------------------------------------
(* Commit. *)

HoldsLease(w) == LET op == operation[worker[w].op] IN
  op.status = "PROCESSING" /\ op.lease = w

(* The predicate of the session's compare-and-set.                         *)
AwaitsOperation(o, status) == LET s == operation[o].target IN
  /\ session[s].status = status
  /\ session[s].version = operation[o].aggregateVersion
  /\ session[s].active = o

(* status, activeOperationId and version of the session, in one update.    *)
MoveSessionKeepingActive(o, status) ==
  session' = [session EXCEPT ![operation[o].target] =
    [status |-> status, version |-> @.version + 1, active |-> @.active,
     failedStage |-> @.failedStage]]

MoveSession(o, status) ==
  session' = [session EXCEPT ![operation[o].target] =
    [status |-> status, version |-> @.version + 1, active |-> None,
     failedStage |-> @.failedStage]]

SettleAnyRow(o, status) == ledger' = [ledger EXCEPT ![o] = status]

Settle(o, status) ==
  ledger' = [ledger EXCEPT ![o] = IF @ = "RESERVED" THEN status ELSE @]

CloseAttempt(w, status) ==
  usage' = [usage EXCEPT ![worker[w].op][worker[w].attempt] =
    IF @ = "STARTED" THEN status ELSE @]

(* The lease-checked update that ends a lease.                             *)
EndLease(w, status) ==
  operation' = IF HoldsLease(w)
               THEN [operation EXCEPT ![worker[w].op] =
                      [@ EXCEPT !.status = status, !.lease = None, !.due = FALSE]]
               ELSE operation

FinishWithoutLedger(w) ==
  /\ CloseAttempt(w, "SUCCEEDED")
  /\ EndLease(w, "SUCCEEDED")
  /\ UNCHANGED ledger

FinishAccounting(w) ==
  /\ Settle(worker[w].op, "SETTLED")
  /\ CloseAttempt(w, "SUCCEEDED")
  /\ EndLease(w, "SUCCEEDED")

HasOutput(w) == worker[w].pc = "answered" /\ worker[w].outcome = "output"

CanCommitQuestions(w) == LET o == worker[w].op IN
  /\ o \in GenerateRequests
  /\ HoldsLease(w)
  /\ questions[operation[o].target].by = None
  /\ AwaitsOperation(o, "GENERATING")

CommitGeneratedQuestions(w) ==
  LET o == worker[w].op IN
  /\ HasOutput(w)
  /\ CanCommitQuestions(w)
  /\ questions' = [questions EXCEPT ![operation[o].target] =
       [by |-> o, answer |-> None, answerVersion |-> operation[o].aggregateVersion]]
  /\ MoveSession(o, "IN_PROGRESS")
  /\ FinishAccounting(w)
  /\ Advance(w, "publish")
  /\ UNCHANGED <<outbox, submission, results, jobs, dispatcher, bus>>

CanCommitEvaluation(w) == LET o == worker[w].op IN
  /\ o \in SubmitRequests
  /\ HoldsLease(w)
  /\ submission[o].status \notin {"ABSENT", "COMPLETED"}
  /\ o \notin results
  /\ AwaitsOperation(o, "EVALUATING")

CompleteSubmission(o) ==
  submission' = [submission EXCEPT ![o].status = IF @ = "ACCEPTED" THEN "COMPLETED" ELSE @]

CommitEvaluation(w) ==
  LET o == worker[w].op IN
  /\ HasOutput(w)
  /\ CanCommitEvaluation(w)
  /\ results' = results \cup {o}
  /\ MoveSession(o, "COMPLETED")
  /\ CompleteSubmission(o)
  /\ FinishAccounting(w)
  /\ Advance(w, "publish")
  /\ UNCHANGED <<questions, outbox, jobs, dispatcher, bus>>

(* The lease is lost (process() returns), or a predicate or a unique index *)
(* refuses the commit (the transaction aborts and process() throws): the   *)
(* operation record stays as it is.                                        *)
AbandonCommit(w) ==
  /\ HasOutput(w)
  /\ ~ (CanCommitQuestions(w) \/ CanCommitEvaluation(w))
  /\ worker' = [worker EXCEPT ![w] = IdleWorker]
  /\ UNCHANGED <<storeVars, jobs, dispatcher, bus>>

-----------------------------------------------------------------------------
(* handleProviderFailure. *)

MayRetry(w) == worker[w].outcome = "transient" /\ worker[w].attempt < MaxAttempts

Failing(w) == worker[w].pc = "answered" /\ worker[w].outcome \in {"transient", "permanent"}

RetryLater(w) ==
  LET o == worker[w].op IN
  /\ Failing(w)
  /\ MayRetry(w)
  /\ CloseAttempt(w, "FAILED")
  /\ EndLease(w, "PENDING")
  /\ outbox' = [outbox EXCEPT ![o] =
       [@ EXCEPT !.status = "PENDING", !.lease = None, !.due = FALSE]]
  /\ worker' = [worker EXCEPT ![w] = IdleWorker]
  /\ UNCHANGED <<session, questions, submission, results, ledger, jobs,
                 dispatcher, bus>>

(* The terminal branch checks the lease for the operation record only: the *)
(* ledger, the outbox row and the submission are matched by operationId,   *)
(* the session by version and activeOperationId.                           *)
SessionAtLaterVersion(o) == LET s == operation[o].target IN
  /\ session[s].version = operation[o].aggregateVersion + 1
  /\ session[s].active = o

SessionStillActive(o) == LET s == operation[o].target IN
  /\ session[s].version = operation[o].aggregateVersion
  /\ session[s].active = o

FailSessionAlways(o) ==
  session' = [session EXCEPT ![operation[o].target] =
    [status |-> "FAILED", version |-> @.version + 1, active |-> None,
     failedStage |-> IF o \in GenerateRequests THEN "GENERATION" ELSE "EVALUATION"]]

FailSession(o) ==
  session' = IF SessionStillActive(o)
             THEN [session EXCEPT ![operation[o].target] =
                    [status |-> "FAILED", version |-> @.version + 1, active |-> None,
                     failedStage |-> IF o \in GenerateRequests
                                     THEN "GENERATION" ELSE "EVALUATION"]]
             ELSE session

PublishAnyway(w) == [worker[w] EXCEPT !.pc = "publish"]

(* failedVersion is undefined when the session did not change.             *)
AfterFailure(w) == IF SessionStillActive(worker[w].op)
                   THEN [worker[w] EXCEPT !.pc = "publish"] ELSE IdleWorker

FailTerminally(w) ==
  LET o == worker[w].op IN
  /\ Failing(w)
  /\ ~ MayRetry(w)
  /\ CloseAttempt(w, "FAILED")
  /\ Settle(o, "RELEASED")
  /\ EndLease(w, "FAILED")
  /\ outbox' = [outbox EXCEPT ![o].status = "FAILED"]
  /\ submission' = IF o \in SubmitRequests
                   THEN [submission EXCEPT ![o].status = "FAILED"]
                   ELSE submission
  /\ worker' = [worker EXCEPT ![w] = AfterFailure(w)]
  /\ FailSession(o)
  /\ UNCHANGED <<questions, results, jobs, dispatcher, bus>>

-----------------------------------------------------------------------------
(* eventPublisher.publish('STATE_CHANGED'), after the transaction.         *)
StateChange(w) == LET o == worker[w].op IN
  [session |-> operation[o].target,
   status |-> IF worker[w].outcome # "output" THEN "FAILED"
              ELSE IF o \in GenerateRequests THEN "IN_PROGRESS" ELSE "COMPLETED",
   version |-> operation[o].aggregateVersion + 1]

PublishStateChanged(w) ==
  /\ worker[w].pc = "publish"
  /\ bus' = bus \cup {StateChange(w)}
  /\ worker' = [worker EXCEPT ![w] = IdleWorker]
  /\ UNCHANGED <<storeVars, jobs, dispatcher>>

WorkerStep(w) ==
  \/ \E o \in Operations : ClaimOperation(w, o) \/ DropDelivery(w, o)
  \/ MarkUnknown(w)
  \/ StartUsageAttempt(w)
  \/ \E outcome \in ProviderOutcome : ProviderAnswers(w, outcome)
  \/ CommitGeneratedQuestions(w)
  \/ CommitEvaluation(w)
  \/ AbandonCommit(w)
  \/ RetryLater(w)
  \/ FailTerminally(w)
  \/ PublishStateChanged(w)

(* The process dies between two statements, whatever the job was doing.    *)
(* The attempt that reaches ClaimBound is not cut short (bound).           *)
WorkerCrash(w) ==
  /\ "crash" \in Faults
  /\ worker[w].pc # "idle"
  /\ worker[w].attempt < ClaimBound
  /\ worker' = [worker EXCEPT ![w] = IdleWorker]
  /\ UNCHANGED <<storeVars, jobs, dispatcher, bus>>

(* Time passes for an operation: its backoff, or its lease.  A lease runs  *)
(* out under a live holder only if "late" is a fault: leaseMs (60 s) is    *)
(* shorter than the provider's own deadline (90 s).                        *)
OperationDue(o) ==
  /\ ~ operation[o].due
  /\ \/ operation[o].status = "PENDING"
     \/ /\ operation[o].status = "PROCESSING"
        /\ operation[o].attempts < ClaimBound
        /\ "late" \in Faults \/ \A w \in Workers : worker[w].op # o
  /\ operation' = [operation EXCEPT ![o].due = TRUE]
  /\ UNCHANGED <<session, questions, outbox, submission, results, ledger, usage,
                 jobs, worker, dispatcher, bus>>
=============================================================================
