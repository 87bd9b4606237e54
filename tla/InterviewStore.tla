--------------------------- MODULE InterviewStore ---------------------------
(***************************************************************************)
(* The MongoDB collections behind one asynchronous interview request, and  *)
(* the volatile state of the processes that work on them.  Every component *)
(* module of the workflow (InterviewWorkflowService, OutboxDispatcher,     *)
(* InterviewOperationProcessor) EXTENDS this one and acts on its variables.*)
(*                                                                         *)
(* An operation record is unique per (actorId, route, idempotencyKeyHash), *)
(* so a record and the idempotency key it was accepted under are the same  *)
(* thing here: GenerateRequests and SubmitRequests are the keys a client   *)
(* may send to the two routes, and status "ABSENT" is "no such document".  *)
(* Documents of the other collections that carry an operationId are        *)
(* functions of the operation.                                             *)
(*                                                                         *)
(* Clocks.  A row waits for one instant at a time: nextAttemptAt while it  *)
(* is PENDING, leaseExpiresAt / leasedUntil while it is leased, publishedAt*)
(* + redeliveryMs once an outbox row is PUBLISHED.  "due" says whether that*)
(* instant has passed; the passing of time turns it TRUE.                  *)
(***************************************************************************)
EXTENDS Naturals, FiniteSets

CONSTANTS
  Sessions,           \* interview sessions
  GenerateRequests,   \* idempotency keys sent to POST /interviews/:id/generate
  SubmitRequests,     \* idempotency keys sent to POST /interviews/:id/submit
  Drafts,             \* contents of the five answers of a session, as one value
  Workers,            \* concurrent executions of Agenda jobs
  Dispatchers,        \* processes that run an OutboxDispatcher
  None,               \* null, an unset field or a missing document
  Legacy,             \* source of questions written by a route without a key
  MaxAttempts,        \* OperationProcessorOptions.maxAttempts
  MaxPublishAttempts, \* OutboxDispatcherOptions.maxAttempts
  ClaimBound,         \* bound: claims of one operation that may be cut short
  VersionBound,       \* bound: session versions up to which drafts are saved
  StartStatus,        \* statuses of the sessions when the behaviour starts
  Faults              \* what the environment may do: see FaultKinds

FaultKinds == {"crash", "late", "queue"}

Operations == GenerateRequests \cup SubmitRequests

Attempts == 1 .. ClaimBound

ASSUME ConstantsAssumption ==
  /\ GenerateRequests \cap SubmitRequests = {}
  /\ None \notin Operations \cup Drafts \cup Workers \cup Dispatchers \cup Sessions
  /\ Legacy \notin Operations \cup {None}
  /\ MaxAttempts \in Nat \ {0}
  /\ MaxPublishAttempts \in Nat \ {0}
  /\ ClaimBound \in Nat /\ ClaimBound >= MaxAttempts
  /\ VersionBound \in Nat
  /\ StartStatus \subseteq {"PENDING", "IN_PROGRESS"}
  /\ Faults \subseteq FaultKinds

VARIABLES
  session,     \* InterviewSession: status, version, activeOperationId, failedStage
  questions,   \* InterviewQuestion: who wrote the set, the answers, answerVersion
  operation,   \* OperationRecord
  outbox,      \* OutboxEvent of an operation
  submission,  \* InterviewSubmission of a submit operation
  results,     \* operations with an InterviewEvaluationResult
  ledger,      \* UserQuotaLedger row of an operation
  usage,       \* ProviderUsageAttempt rows of an operation, by attempt
  jobs,        \* operations with an Agenda job waiting to be delivered
  worker,      \* what each job execution is doing
  dispatcher,  \* what each dispatcher is doing
  bus          \* STATE_CHANGED events published in this process

requestVars == <<session, questions, submission>>
storeVars == <<session, questions, operation, outbox, submission, results,
               ledger, usage>>
vars == <<session, questions, operation, outbox, submission, results, ledger,
          usage, jobs, worker, dispatcher, bus>>

-----------------------------------------------------------------------------
(* The documents. *)

SessionStatus ==
  {"PENDING", "GENERATING", "IN_PROGRESS", "EVALUATING", "COMPLETED", "FAILED"}
Stages == {"GENERATION", "EVALUATION"}
SessionDoc == [status : SessionStatus, version : Nat,
               active : Operations \cup {None}, failedStage : Stages \cup {None}]

QuestionSet == [by : Operations \cup {Legacy, None}, answer : Drafts \cup {None},
                answerVersion : Nat]

OperationStatus == {"ABSENT", "PENDING", "PROCESSING", "SUCCEEDED", "FAILED"}
OperationDoc == [status : OperationStatus, target : Sessions \cup {None},
                 aggregateVersion : Nat, attempts : 0 .. ClaimBound,
                 lease : Workers \cup {None}, due : BOOLEAN]

OutboxStatus == {"ABSENT", "PENDING", "LEASED", "PUBLISHED", "FAILED"}
OutboxDoc == [status : OutboxStatus, attempts : 0 .. MaxPublishAttempts,
              lease : Dispatchers \cup {None}, due : BOOLEAN]

SubmissionStatus == {"ABSENT", "ACCEPTED", "COMPLETED", "FAILED"}
SubmissionDoc == [status : SubmissionStatus, answers : Drafts \cup {None}]

LedgerStatus == {"ABSENT", "RESERVED", "SETTLED", "RELEASED"}
UsageStatus == {"ABSENT", "STARTED", "UNKNOWN", "SUCCEEDED", "FAILED"}

-----------------------------------------------------------------------------
(* The processes. *)

ProviderOutcome == {"output", "transient", "permanent"}
WorkerState ==
  [pc : {"idle", "claimed", "ready", "calling", "answered", "publish"},
   op : Operations \cup {None}, attempt : 0 .. ClaimBound,
   outcome : ProviderOutcome \cup {None}]
IdleWorker == [pc |-> "idle", op |-> None, attempt |-> 0, outcome |-> None]

DispatcherState ==
  [pc : {"poll", "redeliver", "claim", "enqueue", "confirm", "refused"},
   event : Operations \cup {None}, attempts : 0 .. MaxPublishAttempts,
   stalled : SUBSET Operations]
IdleDispatcher == [pc |-> "poll", event |-> None, attempts |-> 0, stalled |-> {}]

StateEvent == [session : Sessions, status : SessionStatus, version : Nat]

-----------------------------------------------------------------------------
NoOperation == [status |-> "ABSENT", target |-> None, aggregateVersion |-> 0,
                attempts |-> 0, lease |-> None, due |-> FALSE]
NoOutbox == [status |-> "ABSENT", attempts |-> 0, lease |-> None, due |-> FALSE]

(* A session starts as the setup form created it, or already in progress   *)
(* with questions that were generated without an operation record.         *)
NewSession(st) == [status |-> st, version |-> IF st = "PENDING" THEN 0 ELSE 2,
                   active |-> None, failedStage |-> None]
FirstQuestions(st) == [by |-> IF st = "PENDING" THEN None ELSE Legacy,
                       answer |-> None, answerVersion |-> 0]

Init ==
  /\ \E st \in [Sessions -> StartStatus] :
       /\ session = [s \in Sessions |-> NewSession(st[s])]
       /\ questions = [s \in Sessions |-> FirstQuestions(st[s])]
  /\ operation = [o \in Operations |-> NoOperation]
  /\ outbox = [o \in Operations |-> NoOutbox]
  /\ submission = [o \in Operations |-> [status |-> "ABSENT", answers |-> None]]
  /\ results = {}
  /\ ledger = [o \in Operations |-> "ABSENT"]
  /\ usage = [o \in Operations |-> [n \in Attempts |-> "ABSENT"]]
  /\ jobs = {}
  /\ worker = [w \in Workers |-> IdleWorker]
  /\ dispatcher = [d \in Dispatchers |-> IdleDispatcher]
  /\ bus = {}
=============================================================================
