--------------------------- MODULE InterviewRoom ---------------------------
(***************************************************************************)
(* One browser tab in the interview room, and the interview it edits on    *)
(* the server: the autosave chain, the copy kept in sessionStorage, the    *)
(* timer, the submission with its idempotency key, the fetches that load   *)
(* and refresh the page, and the calls in between, which may be lost,      *)
(* answered late or abandoned by a reload.                                 *)
(*                                                                         *)
(* The answers to the five questions are one text, named by the number of  *)
(* the edit that wrote it; 0 is no text. Versions are those of the session.*)
(***************************************************************************)
EXTENDS Naturals, Sequences

CONSTANTS
  StartStatus,  \* statuses in which the room may be entered
  Mishaps,      \* which of "lost", "reload" and "stream" may happen
  MaxMishaps,   \* bound: how many of them
  MaxEdits,     \* bound: texts the candidate types
  MaxVersion,   \* bound: autosaves start below this version
  MaxChain      \* bound: saves waiting in the chain

ASSUME RoomAssumption ==
  /\ StartStatus \subseteq {"GENERATING", "IN_PROGRESS"}
  /\ Mishaps \subseteq {"lost", "reload", "stream"}
  /\ MaxMishaps \in Nat /\ MaxEdits \in Nat /\ MaxVersion \in Nat
  /\ MaxChain \in Nat \ {0}

VARIABLES
  server,    \* the interview: status, version and stored answer
  accepted,  \* the submission recorded under the tab's submit key, or NoBody
  page,      \* what the mounted components keep in state and refs
  chain,     \* the autosave chain: saves still to be answered, oldest first
  save,      \* the request of the head of the chain
  submit,    \* the submission under way
  fetches,   \* the requests of fetchSession, by what started them
  stored,    \* the answers in sessionStorage and their version
  late,      \* requests no page waits for any more
  env        \* edits typed, mishaps so far and their kinds, time limit passed

vars == <<server, accepted, page, chain, save, submit, fetches, stored, late, env>>
calls == <<chain, save, submit, fetches>>

NoBody == [version |-> 0, answer |-> 0]
NoCall == [state |-> "none", version |-> 0, answer |-> 0, status |-> "none"]
Fetchers == {"open", "poll", "refetch"}
Waiting == {"GENERATING", "EVALUATING"}

(* A page whose first fetch is under way. *)
Mounted ==
  [draft |-> 0, ver |-> 0, view |-> 0, status |-> "none", loading |-> TRUE,
   generating |-> FALSE, error |-> FALSE, armed |-> FALSE, timer |-> "running",
   snapshot |-> NoBody, submitting |-> FALSE, gone |-> FALSE]
NoSubmit == [pc |-> "idle", answer |-> 0]
FirstFetch == [f \in Fetchers |-> IF f = "open" THEN [NoCall EXCEPT !.state = "sent"] ELSE NoCall]

Init ==
  /\ \E st \in StartStatus :
       server = [status |-> st, version |-> IF st = "GENERATING" THEN 1 ELSE 2, answer |-> 0]
  /\ accepted = NoBody /\ stored = NoBody /\ late = {}
  /\ page = Mounted /\ fetches = FirstFetch
  /\ chain = <<>> /\ save = NoCall /\ submit = NoSubmit
  /\ env = [edits |-> 0, mishaps |-> 0, kinds |-> {}, expired |-> FALSE]

(* --------------------------- the page's effects ------------------------ *)
Enabled(p) == p.status = "IN_PROGRESS" /\ ~p.submitting

\* Mutant: an edit during a save does not start a timeout of its own.
RearmedWhenIdle(p) == [p EXCEPT !.armed = Enabled(p) /\ p.draft > 0 /\ chain = <<>>]

\* The autosave effect runs again: the previous timeout is cleared and a new
\* one starts if saving is enabled.
Rearmed(p) == [p EXCEPT !.armed = Enabled(p) /\ p.draft > 0]

\* The effect that copies the answers to sessionStorage, never an empty list.
Copy(p) == IF p.draft > 0 THEN [version |-> p.ver, answer |-> p.draft] ELSE stored

Editable(p) ==
  /\ p.view # 0 /\ p.status = "IN_PROGRESS"
  /\ ~p.loading /\ ~p.generating /\ ~p.error /\ ~p.gone

Edit ==
  /\ Editable(page) /\ env.edits < MaxEdits
  /\ env' = [env EXCEPT !.edits = @ + 1]
  /\ page' = Rearmed([page EXCEPT !.draft = env.edits + 1])
  /\ stored' = Copy(page')
  /\ UNCHANGED <<server, accepted, calls, late>>

\* The 20 minutes, counted from the creation of the session, are over.
TimeUp ==
  /\ page.view # 0 /\ ~env.expired /\ ~page.gone
  /\ env' = [env EXCEPT !.expired = TRUE]
  /\ page' = [page EXCEPT !.timer = IF @ = "running" THEN "up" ELSE @]
  /\ UNCHANGED <<server, accepted, calls, stored, late>>

(* ------------------------------- autosave ------------------------------ *)
Autosave ==
  /\ page.armed /\ ~page.gone /\ page.ver < MaxVersion /\ Len(chain) < MaxChain
  /\ page' = [page EXCEPT !.armed = FALSE]
  /\ chain' = Append(chain, [answer |-> page.draft, by |-> "timeout"])
  /\ UNCHANGED <<server, accepted, save, submit, fetches, stored, late, env>>

\* The chain sends one save at a time, under the version known by then.
SendSave ==
  /\ chain # <<>> /\ save.state = "none"
  /\ save' = [NoCall EXCEPT !.state = "sent", !.version = page.ver, !.answer = Head(chain).answer]
  /\ UNCHANGED <<server, accepted, page, chain, submit, fetches, stored, late, env>>

\* Mutant: any version may be saved over.
CanSaveAnyVersion(v) == server.status = "IN_PROGRESS"

CanSave(v) == server.status = "IN_PROGRESS" /\ server.version = v
Store(a) == server' = [server EXCEPT !.version = @ + 1, !.answer = a]

HandleSave ==
  /\ save.state = "sent"
  /\ \/ /\ CanSave(save.version) /\ Store(save.answer)
        /\ save' = [save EXCEPT !.state = "ok", !.version = @ + 1]
     \/ /\ ~CanSave(save.version) /\ UNCHANGED server
        /\ save' = [save EXCEPT !.state = "failed"]
  /\ UNCHANGED <<accepted, page, chain, submit, fetches, stored, late, env>>

\* submitInterview is called with the snapshot, taken once per page.
SendSubmit(p, v, a) ==
  /\ page' = [p EXCEPT !.snapshot = [version |-> v, answer |-> a]]
  /\ submit' = [submit EXCEPT !.pc = "sent"]

GiveUp(p) ==
  /\ page' = Rearmed([p EXCEPT !.submitting = FALSE])
  /\ submit' = NoSubmit

\* Mutant: the page counts the answered version up itself.
LearnedNext(p, v) == [p EXCEPT !.ver = v + 1, !.view = IF v > @ THEN v ELSE @]

\* versionRef takes the answered version, and onVersion tells the session.
Learned(p, v) == [p EXCEPT !.ver = v, !.view = IF v > @ THEN v ELSE @]

SaveAnswered ==
  /\ save.state = "ok"
  /\ LET p == Learned(page, save.version) IN
       /\ stored' = IF p.view # page.view THEN Copy(p) ELSE stored
       /\ IF Head(chain).by = "submit" THEN SendSubmit(p, save.version, submit.answer)
                                       ELSE page' = p /\ UNCHANGED submit
  /\ chain' = Tail(chain) /\ save' = NoCall
  /\ UNCHANGED <<server, accepted, fetches, late, env>>

\* Mutant: a forced save that fails is ignored and the submission goes on.
SaveFailedSubmitsOn ==
  /\ save.state = "failed"
  /\ IF Head(chain).by = "submit" THEN SendSubmit(page, page.ver, submit.answer)
                                  ELSE UNCHANGED <<page, submit>>
  /\ chain' = Tail(chain) /\ save' = NoCall
  /\ UNCHANGED <<server, accepted, fetches, stored, late, env>>

\* A failed autosave is shown and left at that; a failed forced save ends the
\* submission.
SaveFailed ==
  /\ save.state = "failed"
  /\ IF Head(chain).by = "submit" THEN GiveUp(page) ELSE UNCHANGED <<page, submit>>
  /\ chain' = Tail(chain) /\ save' = NoCall
  /\ UNCHANGED <<server, accepted, fetches, stored, late, env>>

(* ------------------------------ submission ----------------------------- *)
\* handleSubmit: the timer stops for good, the answers are saved first, and
\* a snapshot left by an earlier attempt is sent again as it is.
Submit ==
  /\ submit.pc = "idle" /\ ~page.gone
  /\ LET p == [page EXCEPT !.submitting = TRUE, !.armed = FALSE,
                           !.timer = IF @ = "running" THEN "stopped" ELSE @]
     IN \/ /\ page.snapshot = NoBody /\ page.draft > 0 /\ Len(chain) < MaxChain
           /\ page' = p /\ chain' = Append(chain, [answer |-> page.draft, by |-> "submit"])
           /\ submit' = [pc |-> "saving", answer |-> page.draft]
        \/ /\ page.snapshot = NoBody /\ page.draft = 0
           /\ SendSubmit(p, page.ver, 0) /\ UNCHANGED chain
        \/ /\ page.snapshot # NoBody /\ page' = p
           /\ submit' = [submit EXCEPT !.pc = "sent"] /\ UNCHANGED chain
  /\ UNCHANGED <<server, accepted, save, fetches, stored, late, env>>

PressSubmit == Editable(page) /\ page.draft > 0 /\ Submit
\* Mutant: the time limit, too, wants every question answered.
AutoSubmitAnswered == page.timer = "up" /\ page.draft > 0 /\ Submit

\* onTimeUp runs with every render once no time is left.
AutoSubmit == page.timer = "up" /\ Submit

\* Mutant: an open interview takes a submission of any version.
CanSubmitAnyVersion(v) == accepted = NoBody /\ server.status = "IN_PROGRESS"

CanSubmit(v) == accepted = NoBody /\ server.status = "IN_PROGRESS" /\ server.version = v

Accept(body) ==
  /\ accepted' = body
  /\ server' = [status |-> "EVALUATING", version |-> server.version + 1, answer |-> body.answer]

\* Accepted, replayed, refused as a reuse of the key, or refused by the state.
HandleSubmit ==
  /\ submit.pc = "sent"
  /\ \/ /\ CanSubmit(page.snapshot.version) /\ Accept(page.snapshot)
        /\ submit' = [submit EXCEPT !.pc = "ok"]
     \/ /\ ~CanSubmit(page.snapshot.version)
        /\ submit' = [submit EXCEPT !.pc = CASE accepted = page.snapshot -> "ok"
                                             [] accepted = NoBody -> "failed"
                                             [] OTHER -> "conflict"]
        /\ UNCHANGED <<server, accepted>>
  /\ UNCHANGED <<page, chain, save, fetches, stored, late, env>>

SubmitAnswered ==
  /\ submit.pc = "ok" /\ fetches["refetch"].state = "none"
  /\ submit' = [submit EXCEPT !.pc = "refetching"]
  /\ fetches' = [fetches EXCEPT !["refetch"].state = "sent"]
  /\ page' = [page EXCEPT !.loading = TRUE, !.error = FALSE]
  /\ UNCHANGED <<server, accepted, chain, save, stored, late, env>>

SubmitFailed ==
  /\ submit.pc \in {"failed", "conflict"} /\ GiveUp(page)
  /\ UNCHANGED <<server, accepted, chain, save, fetches, stored, late, env>>

(* ----------------------------- fetchSession ---------------------------- *)
\* Mutant: the page polls whether or not it waits for the worker.
PollAlways ==
  /\ page.view # 0 /\ ~page.loading /\ ~page.error /\ ~page.gone
  /\ fetches["poll"].state = "none"
  /\ fetches' = [fetches EXCEPT !["poll"].state = "sent"]
  /\ UNCHANGED <<server, accepted, page, chain, save, submit, stored, late, env>>

Poll ==
  /\ page.generating /\ ~page.loading /\ ~page.error /\ ~page.gone
  /\ fetches["poll"].state = "none"
  /\ fetches' = [fetches EXCEPT !["poll"].state = "sent"]
  /\ UNCHANGED <<server, accepted, page, chain, save, submit, stored, late, env>>

\* The server reads the session first and its questions afterwards.
ReadSession(f) ==
  /\ fetches[f].state = "sent"
  /\ fetches' = [fetches EXCEPT ![f].state = "reading", ![f].version = server.version,
                                ![f].status = server.status]
  /\ UNCHANGED <<server, accepted, page, chain, save, submit, stored, late, env>>

ReadQuestions(f) ==
  /\ fetches[f].state = "reading"
  /\ fetches' = [fetches EXCEPT ![f].state = "ok", ![f].answer = server.answer]
  /\ UNCHANGED <<server, accepted, page, chain, save, submit, stored, late, env>>

\* Stored answers are merged over the fetched ones under an equal version.
Merged(data) == IF stored.answer > 0 /\ stored.version = data.version
                THEN stored.answer ELSE data.answer

Shown(p, data) ==
  Rearmed([p EXCEPT !.draft = Merged(data), !.view = data.version, !.status = data.status,
                    !.ver = IF data.version > @ THEN data.version ELSE @,
                    !.generating = data.status \in Waiting, !.loading = FALSE,
                    !.timer = IF p.view = 0 /\ env.expired THEN "up" ELSE @])

EndFetch(f) ==
  /\ fetches' = [fetches EXCEPT ![f] = NoCall]
  /\ submit' = IF f = "refetch" THEN NoSubmit ELSE submit
  /\ UNCHANGED <<server, accepted, chain, save, late, env>>

FetchAnswered(f) ==
  /\ fetches[f].state = "ok" /\ ~page.gone
  /\ CASE fetches[f].status = "COMPLETED" ->
            page' = [page EXCEPT !.gone = TRUE] /\ UNCHANGED stored
       [] fetches[f].status = "FAILED" ->
            page' = [page EXCEPT !.error = TRUE, !.generating = FALSE, !.loading = FALSE]
            /\ UNCHANGED stored
       [] OTHER -> page' = Shown(page, fetches[f]) /\ stored' = Copy(page')
  /\ EndFetch(f)

FetchFailed(f) ==
  /\ fetches[f].state = "failed" /\ ~page.gone
  /\ page' = [page EXCEPT !.error = TRUE, !.generating = FALSE, !.loading = FALSE]
  /\ UNCHANGED stored /\ EndFetch(f)

(* ------------------------------- mishaps ------------------------------- *)
Mishap(kind) ==
  /\ kind \in Mishaps /\ env.mishaps < MaxMishaps
  /\ env' = [env EXCEPT !.mishaps = @ + 1, !.kinds = @ \cup {kind}]

Abandoned ==
  (IF save.state = "sent" THEN {[kind |-> "save", version |-> save.version, answer |-> save.answer]} ELSE {})
  \cup
  (IF submit.pc = "sent" THEN {[kind |-> "submit", version |-> page.snapshot.version,
                                answer |-> page.snapshot.answer]} ELSE {})

\* The network fails a call, before or after the server handles it.
LoseCall ==
  /\ Mishap("lost")
  /\ \/ /\ save.state \in {"sent", "ok"} /\ save' = [save EXCEPT !.state = "failed"]
        /\ \E r \in SUBSET {a \in Abandoned : a.kind = "save"} : late' = late \cup r
        /\ UNCHANGED <<submit, fetches>>
     \/ /\ submit.pc \in {"sent", "ok"} /\ submit' = [submit EXCEPT !.pc = "failed"]
        /\ \E r \in SUBSET {a \in Abandoned : a.kind = "submit"} : late' = late \cup r
        /\ UNCHANGED <<save, fetches>>
     \/ /\ \E f \in Fetchers : fetches[f].state \in {"sent", "reading", "ok"}
                               /\ fetches' = [fetches EXCEPT ![f].state = "failed"]
        /\ UNCHANGED <<save, submit, late>>
  /\ UNCHANGED <<server, accepted, page, chain, stored>>

Reload ==
  /\ Mishap("reload") /\ ~page.gone
  /\ page' = Mounted /\ fetches' = FirstFetch
  /\ chain' = <<>> /\ save' = NoCall /\ submit' = NoSubmit
  /\ \E r \in SUBSET Abandoned : late' = late \cup r
  /\ UNCHANGED <<server, accepted, stored>>

\* The stream (its first event after a reconnection, or its polling) tells a
\* version the session state has not reached: the page fetches again.
StreamTells ==
  /\ Mishap("stream") /\ ~page.gone
  /\ page.view # 0 /\ server.version > page.view
  /\ server.status \in {"IN_PROGRESS", "COMPLETED", "FAILED"}
  /\ fetches["open"].state = "none"
  /\ fetches' = [fetches EXCEPT !["open"].state = "sent"]
  /\ page' = [page EXCEPT !.loading = TRUE, !.error = FALSE]
  /\ UNCHANGED <<server, accepted, chain, save, submit, stored, late>>

\* A request no page waits for reaches the server after all.
LateRequest ==
  \E r \in late :
    /\ late' = late \ {r}
    /\ \/ r.kind = "save" /\ CanSave(r.version) /\ Store(r.answer) /\ UNCHANGED accepted
       \/ r.kind = "submit" /\ CanSubmit(r.version)
          /\ Accept([version |-> r.version, answer |-> r.answer])
       \/ (r.kind = "save" => ~CanSave(r.version)) /\ (r.kind = "submit" => ~CanSubmit(r.version))
          /\ UNCHANGED <<server, accepted>>
    /\ UNCHANGED <<page, calls, stored, env>>

\* The worker ends the operation the session waits for.
Work ==
  /\ server.status \in Waiting
  /\ \E st \in {"FAILED", IF server.status = "GENERATING" THEN "IN_PROGRESS" ELSE "COMPLETED"} :
       server' = [server EXCEPT !.status = st, !.version = @ + 1]
  /\ UNCHANGED <<accepted, page, calls, stored, late, env>>

(* ---------------------------- specification ---------------------------- *)
PageStep ==
  \/ Autosave \/ SendSave \/ SaveAnswered \/ SaveFailed
  \/ AutoSubmit \/ SubmitAnswered \/ SubmitFailed \/ Poll
  \/ \E f \in Fetchers : FetchAnswered(f) \/ FetchFailed(f)

ServerStep ==
  \/ HandleSave \/ HandleSubmit \/ Work
  \/ \E f \in Fetchers : ReadSession(f) \/ ReadQuestions(f)


Next ==
  \/ Edit \/ TimeUp \/ PressSubmit \/ PageStep \/ ServerStep
  \/ LoseCall \/ Reload \/ StreamTells \/ LateRequest

Spec == Init /\ [][Next]_vars

\* Timers, promise continuations and effects run; the server answers.
Fairness ==
  /\ WF_vars(Autosave) /\ WF_vars(SendSave) /\ WF_vars(SaveAnswered) /\ WF_vars(SaveFailed)
  /\ WF_vars(AutoSubmit) /\ WF_vars(SubmitAnswered) /\ WF_vars(SubmitFailed) /\ WF_vars(Poll)
  /\ WF_vars(HandleSave) /\ WF_vars(HandleSubmit) /\ WF_vars(Work)
  /\ \A f \in Fetchers : WF_vars(ReadSession(f)) /\ WF_vars(ReadQuestions(f))
                       /\ WF_vars(FetchAnswered(f) \/ FetchFailed(f))

FairSpec == Spec /\ Fairness

(* ------------------------------ properties ----------------------------- *)
\* Every component of the page, the calls and the interview keeps its range.
TypeOK ==
  /\ server.status \in {"GENERATING", "IN_PROGRESS", "EVALUATING", "COMPLETED", "FAILED"}
  /\ server.version \in Nat /\ server.answer \in 0..MaxEdits
  /\ \A b \in {accepted, stored, page.snapshot} : b.version \in Nat /\ b.answer \in 0..MaxEdits
  /\ page.draft \in 0..MaxEdits /\ page.ver <= server.version /\ page.view <= server.version
  /\ page.timer \in {"running", "stopped", "up"}
  /\ save.state \in {"none", "sent", "ok", "failed"} /\ (save.state # "none" => chain # <<>>)
  /\ submit.pc \in {"idle", "saving", "sent", "ok", "failed", "conflict", "refetching"}
  /\ (submit.pc # "idle" => page.submitting)
  /\ \A f \in Fetchers : fetches[f].state \in {"none", "sent", "reading", "ok", "failed"}

\* Whatever is lost, late, repeated or sent by a page that is gone, only a
\* fetch the stream started can have put an older text in the place of a newer.
OlderOnlyByStream ==
  [][server'.answer < server.answer => "stream" \in env.kinds]_vars

\* handleSubmit saves first and submits under the version it got: what is
\* accepted is exactly the draft the server holds, none saved after it.
SubmittedIsSaved ==
  [][accepted' # accepted /\ "stream" \notin env.kinds
       => accepted'.answer = server.answer]_vars

\* The key outlives a reload and the snapshot does not: still no submission
\* of a page that shows an open interview is refused as a reuse of the key.
KeyNeverReused == page.status = "IN_PROGRESS" => submit.pc # "conflict"

\* A page that can be edited shows what the candidate typed last: unless it is
\* reloaded or the stream makes it fetch, no lost call takes that back.
DraftKept ==
  Editable(page) /\ env.kinds \subseteq {"lost"} => page.draft = env.edits

\* What was typed is saved or overtaken by the accepted submission.
EditsReachServer ==
  [](env.edits > server.answer
     => <>(server.answer = env.edits \/ accepted # NoBody \/ page.error))

\* When the 20 minutes are over the interview is submitted, unless generating
\* its questions failed.
TimeUpSubmits == env.expired ~> (accepted # NoBody \/ server.status = "FAILED")
=============================================================================
