-------------------------- MODULE InterviewRecords --------------------------
(***************************************************************************)
(* The interviews of one user on the routes without an Idempotency-Key:    *)
(* the session documents, the quota document of each day, the counters of  *)
(* the rate limiter, the HTTP requests under way and the jobs they leave.  *)
(* No statement touches the documents of two users.                        *)
(***************************************************************************)
EXTENDS Naturals, FiniteSets, Sequences

CONSTANTS
  Sessions,      \* interviews of the user
  Requests,      \* HTTP requests the user sends
  Workers,       \* concurrent executions of Agenda jobs
  Viewers,       \* pages that show the status of an interview
  Drafts,        \* contents of the five answers of a session, as one value
  None,
  DailyLimit,    \* DAILY_INTERVIEW_QUOTA
  RateLimit,     \* RATE_LIMIT_AI_MAX, RATE_LIMIT_SUBMIT_MAX, RATE_LIMIT_PROGRESS_MAX
  MaxRetries,    \* reconnections of a page before it polls (the code: 3)
  MaxDay,        \* bound: calendar days in QUOTA_TIMEZONE
  MaxVersion,    \* bound: no request arrives at a session past this version
  StartStatus,   \* statuses of the sessions when the behaviour starts
  Wirings,       \* how the process is put together: see AllWirings
  Faults,        \* what the environment may do: see FaultKinds
  MaxFaults      \* how often

\* "server": src/server.ts, whose job handlers get the operation processor in
\* the place of an AI provider.  "sync": NODE_ENV=test, no job is enqueued.
\* "jobs": the handlers with an AI provider, as their constructors allow.
AllWirings == {"server", "sync", "jobs"}
FaultKinds == {"crash", "disconnect", "late", "drop"}
Kinds == {"generate", "submit", "progress"}
Days == 1 .. MaxDay
SessionStatus ==
  {"PENDING", "GENERATING", "IN_PROGRESS", "EVALUATING", "COMPLETED", "FAILED"}

ASSUME InterviewAssumption ==
  /\ {MaxRetries, MaxDay, MaxVersion, MaxFaults} \subseteq Nat /\ MaxDay # 0
  /\ IsFiniteSet(Sessions) /\ IsFiniteSet(Requests)
  /\ DailyLimit \in Nat \ {0} /\ RateLimit \in Nat \ {0}
  /\ None \notin Sessions \cup Requests \cup Drafts
  /\ None \notin SessionStatus \cup Kinds \cup {"ok", "conflict", "limited", "error", "lost"}
  /\ StartStatus \subseteq {"PENDING", "IN_PROGRESS"}
  /\ Wirings \subseteq AllWirings /\ Faults \subseteq FaultKinds

VARIABLES
  session,   \* InterviewSession and its questions
  quota,     \* InterviewQuota of a day
  rate,      \* ApiRateLimit counter of a kind of request in a day's window
  request,   \* what each HTTP request is doing
  jobs,      \* requests whose Agenda job is stored
  worker,    \* what each job execution is doing
  stream,    \* the server's side of the event stream of a page
  viewer,    \* what useInterviewSSE of a page is doing
  today, wiring, faults

streamVars == <<stream, viewer>>
vars == <<session, quota, rate, request, jobs, worker, stream, viewer, today, wiring, faults>>
serverVars == <<session, quota, rate, jobs, streamVars>>
clockVars == <<today, wiring>>

(* `questions` tells whether the five questions exist, `feedback` which    *)
(* answers the feedback of the last evaluation is about.                   *)
SessionDoc ==
  [status : SessionStatus, version : Nat, questions : BOOLEAN,
   answers : Drafts \cup {None}, feedback : Drafts \cup {None}]
NewSession(st) ==
  [status |-> st, version |-> IF st = "PENDING" THEN 0 ELSE 2,
   questions |-> st # "PENDING", answers |-> None, feedback |-> None]

(* One reservation per session and day: the key is interview:<id>:generate.*)
QuotaDoc == [used : Nat, mark : [Sessions -> {"NONE", "RESERVED", "COMMITTED"}]]
NoQuota == [used |-> 0, mark |-> [s \in Sessions |-> "NONE"]]

(* `holder` is a request whose response listeners are to settle a          *)
(* reservation of `day`; status and version are the ones it has read.      *)
RequestState ==
  [pc : {"new", "consume", "reconsume", "look", "reserve", "inspect", "read",
         "write", "act", "enqueue", "call", "store", "end", "fail", "answered", "done"},
   kind : Kinds \cup {None}, session : Sessions \cup {None}, draft : Drafts \cup {None},
   day : Days, window : Days, admitted : BOOLEAN, holder : BOOLEAN,
   status : SessionStatus \cup {None}, version : Nat,
   code : {"ok", "conflict", "limited", "error", "lost"} \cup {None}]
NewRequest ==
  [pc |-> "new", kind |-> None, session |-> None, draft |-> None, day |-> 1,
   window |-> 1, admitted |-> FALSE, holder |-> FALSE, status |-> None,
   version |-> 0, code |-> None]

WorkerState ==
  [pc : {"idle", "call", "store", "end", "fail"}, job : Requests \cup {None},
   version : Nat, draft : Drafts \cup {None}]
IdleWorker == [pc |-> "idle", job |-> None, version |-> 0, draft |-> None]

(* An event names the status a session took and the version it took then.  *)
(* `told` is what the connection has been written and the page not yet read*)
(* and `gap` remembers a change between the read and the subscription.     *)
StatusEvent == [status : SessionStatus, version : Nat]
StreamState ==
  [pc : {"none", "read", "open", "ended"}, session : Sessions \cup {None},
   told : Seq(StatusEvent), gap : BOOLEAN]
NoStream == [pc |-> "none", session |-> None, told |-> <<>>, gap |-> FALSE]

(* shown is latestVersionRef and the event of that version.                *)
ViewerState ==
  [pc : {"away", "connect", "reading", "waiting", "polling"}, session : Sessions \cup {None},
   retries : 0 .. MaxRetries, status : SessionStatus \cup {None}, version : Nat,
   answers : SUBSET StatusEvent]
AwayViewer ==
  [pc |-> "away", session |-> None, retries |-> 0, status |-> None, version |-> 0,
   answers |-> {}]

Init ==
  /\ \E st \in [Sessions -> StartStatus] :
       session = [s \in Sessions |-> NewSession(st[s])]
  /\ quota = [d \in Days |-> NoQuota]
  /\ rate = [k \in Kinds |-> [d \in Days |-> 0]]
  /\ request = [r \in Requests |-> NewRequest]
  /\ jobs = {}
  /\ worker = [w \in Workers |-> IdleWorker]
  /\ stream = [v \in Viewers |-> NoStream]
  /\ viewer = [v \in Viewers |-> AwayViewer]
  /\ today = 1
  /\ wiring \in Wirings
  /\ faults = 0

-----------------------------------------------------------------------------
(* Steps of one request.                                                   *)
At(r, pc) == request[r].pc = pc
Go(r, pc) == request' = [request EXCEPT ![r].pc = pc]
Current(s) == [status |-> session[s].status, version |-> session[s].version]
Terminal(status) == status \in {"COMPLETED", "FAILED"}
Respond(r, code) == request' = [request EXCEPT ![r].pc = "answered", ![r].code = code]
=============================================================================
