-------------------------- MODULE InterviewService --------------------------
(***************************************************************************)
(* InterviewService, InterviewContext and its states, the repository       *)
(* statements they use and the two job handlers: an interview is generated,*)
(* saved, submitted and evaluated under a compare-and-set on its status and*)
(* version.                                                                *)
(***************************************************************************)
EXTENDS InterviewRecords

legalTransitions ==
  [PENDING |-> {"GENERATING"}, GENERATING |-> {"IN_PROGRESS", "FAILED"},
   IN_PROGRESS |-> {"EVALUATING", "FAILED"}, EVALUATING |-> {"COMPLETED", "FAILED"},
   COMPLETED |-> {}, FAILED |-> {"GENERATING", "EVALUATING"}]

(* changeState: is the transition legal, and does the stored document still*)
(* have the status and the version of the context?                         *)
CanChangeAnyVersion(s, from, version, to) ==
  to \in legalTransitions[from] /\ session[s].status = from
CanChange(s, from, version, to) ==
  /\ to \in legalTransitions[from]
  /\ session[s].status = from /\ session[s].version = version
(* The change is published to the listeners of this process.               *)
PublishUnlessBusy(s, event) ==
  stream' = [v \in Viewers |->
    IF stream[v].pc = "open" /\ stream[v].session = s /\ stream[v].told = <<>>
    THEN [stream[v] EXCEPT !.told = <<event>>,
                           !.pc = IF Terminal(event.status) THEN "ended" ELSE @]
    ELSE stream[v]]
Publish(s, event) ==
  stream' = [v \in Viewers |->
    IF stream[v].pc = "open" /\ stream[v].session = s
    THEN [stream[v] EXCEPT !.told = Append(@, event),
                           !.pc = IF Terminal(event.status) THEN "ended" ELSE @]
    ELSE IF stream[v].pc = "read" /\ stream[v].session = s
    THEN [stream[v] EXCEPT !.gap = TRUE]
    ELSE stream[v]]
Changed(s, to) ==
  /\ session' = [session EXCEPT ![s].status = to, ![s].version = @ + 1]
  /\ Publish(s, [status |-> to, version |-> session[s].version + 1])

Stage(kind) == IF kind = "generate" THEN "GENERATING" ELSE "EVALUATING"
Target(kind) == IF kind = "generate" THEN "IN_PROGRESS" ELSE "COMPLETED"
(* The states whose generate, submit and saveProgress do not throw; the    *)
(* service has refused a submit of a FAILED session before.                *)
Allows(kind) == IF kind = "generate" THEN {"PENDING", "FAILED"} ELSE {"IN_PROGRESS"}

(* The provider, and who answers in its place: the operation processor that*)
(* src/server.ts gives the handlers has no generateQuestions.              *)
ProviderMayAnswer == wiring # "server"

(* The insert violates (sessionId, order) unless the session has none.     *)
StorableAlways(kind, s) == TRUE
Storable(kind, s) == kind = "generate" => ~ session[s].questions

(* The output of generate is stored as new questions, that of submit as    *)
(* feedback on the answers that were evaluated, with score and path.       *)
CreateQuestions(s) ==
  session' = [session EXCEPT ![s].questions = TRUE, ![s].answers = None]
Store(kind, s, draft) ==
  /\ IF kind = "generate" THEN CreateQuestions(s)
                          ELSE session' = [session EXCEPT ![s].feedback = draft]
  /\ UNCHANGED stream

-----------------------------------------------------------------------------
(* Requests.  The session is read with its questions; recording the version*)
(* of the published prompt may fail (it is modelled in SystemPrompts).     *)
ReadSession(r) ==
  /\ At(r, "read")
  /\ LET s == request[r].session
         k == request[r].kind
     IN \/ /\ session[s].status \in Allows(k)
           /\ k # "generate" => session[s].questions
           /\ request' = [request EXCEPT
                ![r].pc = IF k = "generate" THEN "act" ELSE "write",
                ![r].status = session[s].status, ![r].version = session[s].version]
        \/ /\ session[s].status \notin Allows(k) \/ (k # "generate" /\ ~ session[s].questions)
           /\ Respond(r, "conflict")
        \/ /\ k # "progress"
           /\ Respond(r, "error")
  /\ UNCHANGED <<serverVars, worker, clockVars, faults>>

(* updateQuestionAnswer for each answer: no status, no version in the filter*)
WriteAnswers(r) ==
  /\ At(r, "write")
  /\ session' = [session EXCEPT ![request[r].session].answers = request[r].draft]
  /\ UNCHANGED stream
  /\ IF request[r].kind = "submit" THEN Go(r, "act") ELSE Respond(r, "ok")
  /\ UNCHANGED <<viewer, quota, rate, jobs, worker, clockVars, faults>>

(* PendingState.generate and InProgressState.submit: the first change.     *)
Act(r) ==
  /\ At(r, "act")
  /\ LET s == request[r].session
         to == Stage(request[r].kind)
     IN IF CanChange(s, request[r].status, request[r].version, to)
        THEN /\ Changed(s, to)
             /\ request' = [request EXCEPT
                  ![r].pc = IF wiring = "sync" THEN "call" ELSE "enqueue",
                  ![r].status = to, ![r].version = @ + 1]
        ELSE /\ Respond(r, "conflict")
             /\ UNCHANGED <<session, stream>>
  /\ UNCHANGED <<viewer, quota, rate, jobs, worker, clockVars, faults>>

Enqueue(r) ==
  /\ At(r, "enqueue")
  /\ \/ /\ jobs' = jobs \cup {r}
        /\ Respond(r, "ok")
     \/ /\ Go(r, "fail")
        /\ UNCHANGED jobs
  /\ UNCHANGED <<session, streamVars, quota, rate, worker, clockVars, faults>>

(* The synchronous fallback.                                               *)
CallProvider(r) ==
  /\ At(r, "call")
  /\ Go(r, "store") \/ Go(r, "fail")
  /\ UNCHANGED <<serverVars, worker, clockVars, faults>>

StoreOutput(r) ==
  /\ At(r, "store")
  /\ LET s == request[r].session
         k == request[r].kind
     IN \/ Storable(k, s) /\ Store(k, s, request[r].draft) /\ Go(r, "end")
        \/ ~ Storable(k, s) /\ Go(r, "fail") /\ UNCHANGED <<session, stream>>
  /\ UNCHANGED <<viewer, quota, rate, jobs, worker, clockVars, faults>>

EndStage(r) ==
  /\ At(r, "end")
  /\ LET s == request[r].session
         to == Target(request[r].kind)
     IN IF CanChange(s, request[r].status, request[r].version, to)
        THEN Changed(s, to) /\ Respond(r, "ok")
        ELSE UNCHANGED <<session, stream>> /\ Go(r, "fail")
  /\ UNCHANGED <<viewer, quota, rate, jobs, worker, clockVars, faults>>

(* The catch block: FAILED if the context is still current, and an error.  *)
FailStage(r) ==
  /\ At(r, "fail")
  /\ LET s == request[r].session
     IN IF CanChange(s, request[r].status, request[r].version, "FAILED")
        THEN Changed(s, "FAILED") ELSE UNCHANGED <<session, stream>>
  /\ Respond(r, "error")
  /\ UNCHANGED <<viewer, quota, rate, jobs, worker, clockVars, faults>>

ServiceStep(r) ==
  \/ ReadSession(r) \/ WriteAnswers(r) \/ Act(r) \/ Enqueue(r)
  \/ CallProvider(r) \/ StoreOutput(r) \/ EndStage(r) \/ FailStage(r)

-----------------------------------------------------------------------------
(* Job executions.  A job is stored until an execution of it ends; Agenda  *)
(* hands it to a second one when the first outlasts its lock.              *)
Job(w) == worker[w].job
JobKind(w) == request[worker[w].job].kind
JobSession(w) == request[worker[w].job].session
JobEnds(w) ==
  /\ worker' = [worker EXCEPT ![w] = IdleWorker]
  /\ jobs' = jobs \ {worker[w].job}
JobGoes(w, pc) == worker' = [worker EXCEPT ![w].pc = pc] /\ UNCHANGED jobs

(* The handler reads the session and skips one that is not in its stage.   *)
TakeJob(w, r) ==
  /\ worker[w].pc = "idle" /\ r \in jobs
  /\ \/ /\ \A v \in Workers : worker[v].job # r
        /\ UNCHANGED faults
     \/ /\ \E v \in Workers : worker[v].job = r
        /\ "late" \in Faults /\ faults < MaxFaults
        /\ faults' = faults + 1
  /\ LET s == request[r].session
     IN IF session[s].status = Stage(request[r].kind)
        THEN /\ worker' = [worker EXCEPT ![w] =
                  [pc |-> "call", job |-> r, version |-> session[s].version,
                   draft |-> session[s].answers]]
             /\ UNCHANGED jobs
        ELSE jobs' = jobs \ {r} /\ UNCHANGED worker
  /\ UNCHANGED <<session, streamVars, quota, rate, request, clockVars>>

JobCalls(w) ==
  /\ worker[w].pc = "call"
  /\ \/ ProviderMayAnswer /\ JobGoes(w, "store")
     \/ JobGoes(w, "fail")
  /\ UNCHANGED <<session, streamVars, quota, rate, request, clockVars, faults>>

JobStores(w) ==
  /\ worker[w].pc = "store"
  /\ \/ /\ Storable(JobKind(w), JobSession(w))
        /\ Store(JobKind(w), JobSession(w), worker[w].draft)
        /\ JobGoes(w, "end")
     \/ /\ ~ Storable(JobKind(w), JobSession(w))
        /\ JobGoes(w, "fail") /\ UNCHANGED <<session, stream>>
  /\ UNCHANGED <<viewer, quota, rate, request, clockVars, faults>>

JobCompletes(w) ==
  /\ worker[w].pc = "end"
  /\ LET s == JobSession(w)
         k == JobKind(w)
     IN IF CanChange(s, Stage(k), worker[w].version, Target(k))
        THEN Changed(s, Target(k)) /\ JobEnds(w)
        ELSE UNCHANGED <<session, stream>> /\ JobGoes(w, "fail")
  /\ UNCHANGED <<viewer, quota, rate, request, clockVars, faults>>

JobFailsSilently(w) ==
  /\ worker[w].pc = "fail"
  /\ JobEnds(w)
  /\ UNCHANGED <<session, streamVars, quota, rate, request, clockVars, faults>>
JobFails(w) ==
  /\ worker[w].pc = "fail"
  /\ LET s == JobSession(w)
     IN IF CanChange(s, Stage(JobKind(w)), worker[w].version, "FAILED")
        THEN Changed(s, "FAILED") ELSE UNCHANGED <<session, stream>>
  /\ JobEnds(w)
  /\ UNCHANGED <<viewer, quota, rate, request, clockVars, faults>>

JobStep(w) ==
  \/ \E r \in Requests : TakeJob(w, r)
  \/ JobCalls(w) \/ JobStores(w) \/ JobCompletes(w) \/ JobFails(w)
=============================================================================
