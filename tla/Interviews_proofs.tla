------------------------- MODULE Interviews_proofs -------------------------
(***************************************************************************)
(* Proofs about Interviews for any number of interviews, requests, job     *)
(* executions and pages, any limits, any wiring and any faults.            *)
(*                                                                         *)
(* Every step does one of five things to the session documents, the moves  *)
(* of part 1.  Part 2 shows that requests, jobs and pages stay well-formed *)
(* and that each step makes such a move, part 3 what the moves keep, part 4*)
(* what the limiter and the quota count, part 5 the theorems.              *)
(***************************************************************************)
EXTENDS Interviews, FiniteSetTheorems, TLAPS

-----------------------------------------------------------------------------
(* Part 1. *)
Answered(s, a) ==
  a \in Drafts /\ session' = [session EXCEPT ![s].answers = a] /\ UNCHANGED stream
Asked(s) ==
  ~ session[s].questions /\ CreateQuestions(s) /\ UNCHANGED stream
Assessed(s, f) ==
  /\ f \in Drafts \cup {None}
  /\ session' = [session EXCEPT ![s].feedback = f] /\ UNCHANGED stream
Moved(s, to) ==
  /\ to \in legalTransitions[session[s].status]
  /\ to = "IN_PROGRESS" => session[s].questions
  /\ to = "EVALUATING" => session[s].status = "IN_PROGRESS"
  /\ Changed(s, to)
SessionMove ==
  \E s \in Sessions :
    \/ \E a \in Drafts : Answered(s, a)
    \/ Asked(s)
    \/ \E f \in Drafts \cup {None} : Assessed(s, f)
    \/ \E to \in SessionStatus : Moved(s, to)

(* A request has the fields that its place in the handlers presupposes.    *)
RequestFormed(q) ==
  /\ q \in RequestState
  /\ q.pc = "new" => q = NewRequest
  /\ q.pc # "new" => q.kind \in Kinds /\ q.session \in Sessions
  /\ (q.pc # "new" /\ q.kind # "generate") => q.draft \in Drafts
  /\ q.pc \in {"consume", "reconsume"} => ~ q.admitted
  /\ q.pc \in {"consume", "reconsume", "look", "reserve", "inspect"} => ~ q.holder
  /\ q.pc = "write" => q.kind # "generate"
  /\ q.pc \in {"write", "act"} => q.status \in Allows(q.kind)
  /\ q.pc = "act" => q.kind # "progress"
  /\ q.pc \in {"enqueue", "call", "store", "end", "fail"} =>
       q.status = Stage(q.kind) /\ q.kind # "progress"
  /\ q.pc \notin {"answered", "done"} => q.code = None
  /\ q.pc = "answered" => q.code \notin {"lost", None}
RequestsFormed == request \in [Requests -> RequestState] /\ \A r \in Requests : RequestFormed(request[r])

(* A job was left by a request that has been answered and was not about a  *)
(* draft to be saved.                                                      *)
JobFormed(q) == q.pc \in {"answered", "done"} /\ q.kind # "progress"
JobsFormed == jobs \in SUBSET Requests /\ \A r \in jobs : JobFormed(request[r])

WorkerFormed(d) ==
  /\ d \in WorkerState
  /\ d.pc # "idle" => d.job \in Requests /\ JobFormed(request[d.job])
WorkersFormed == worker \in [Workers -> WorkerState] /\ \A w \in Workers : WorkerFormed(worker[w])

PageFormed(c, d) ==
  /\ c \in StreamState /\ d \in ViewerState
  /\ d.pc = "away" => d.status = None /\ d.answers = {}
  /\ d.pc # "away" => d.session \in Sessions
  /\ d.pc # "reading" => c = NoStream
  /\ c.pc # "none" => c.session = d.session
  /\ c.pc = "read" => Len(c.told) = 1
  /\ d.status = None => d.version = 0
(* What a page has been told, asked and shown was true when it was.        *)
Held(e, doc) == e.version <= doc.version /\ (e.version = doc.version => e.status = doc.status)
PageTrue(c, d, docs) ==
  /\ c.pc # "none" => \A i \in 1 .. Len(c.told) : Held(c.told[i], docs[c.session])
  /\ \A e \in d.answers : Held(e, docs[d.session])
  /\ d.status # None => Held(d, docs[d.session])
PageTold(c, d, docs) ==
  (c.pc \in {"read", "open"} /\ ~ c.gap) =>
    \/ c.pc = "open" /\ d.version = docs[c.session].version
    \/ \E i \in 1 .. Len(c.told) : /\ c.told[i].status = docs[c.session].status
                                   /\ c.told[i].version = docs[c.session].version
Page(c, d, docs) == PageFormed(c, d) /\ PageTrue(c, d, docs) /\ PageTold(c, d, docs)
PagesFormed ==
  /\ stream \in [Viewers -> StreamState] /\ viewer \in [Viewers -> ViewerState]
  /\ \A v \in Viewers : Page(stream[v], viewer[v], session)

SessionsFormed == session \in [Sessions -> SessionDoc]

(* Who is about to end a generation has stored its questions.              *)
EndsWithQuestions ==
  /\ \A r \in Requests :
       (At(r, "end") /\ request[r].kind = "generate") => session[request[r].session].questions
  /\ \A w \in Workers :
       (worker[w].pc = "end" /\ JobKind(w) = "generate") => session[JobSession(w)].questions

ClockFormed == today \in Days /\ wiring \in Wirings /\ faults \in 0 .. MaxFaults

Formed ==
  /\ SessionsFormed /\ RequestsFormed /\ JobsFormed /\ WorkersFormed /\ PagesFormed
  /\ EndsWithQuestions /\ ClockFormed

-----------------------------------------------------------------------------
(* Part 2. *)
LEMMA Bounds ==
  /\ MaxRetries \in Nat /\ MaxDay \in Nat \ {0} /\ MaxVersion \in Nat /\ MaxFaults \in Nat
  /\ DailyLimit \in Nat \ {0} /\ RateLimit \in Nat \ {0}
  /\ IsFiniteSet(Sessions) /\ IsFiniteSet(Requests)
BY InterviewAssumption

LEMMA NoneIsNothing ==
  /\ None \notin Sessions /\ None \notin Requests /\ None \notin Drafts
  /\ None \notin SessionStatus
BY InterviewAssumption

LEMMA NewRequestFormed == RequestFormed(NewRequest)
BY Bounds DEF RequestFormed, NewRequest, RequestState, Days

(* What each move does to the documents.                                   *)
LEMMA AnsweredDoc ==
  ASSUME SessionsFormed, NEW s \in Sessions, NEW a \in Drafts, Answered(s, a)
  PROVE  /\ SessionsFormed'
         /\ \A t \in Sessions :
              /\ session'[t].status = session[t].status
              /\ session'[t].version = session[t].version
              /\ session'[t].questions = session[t].questions
              /\ session'[t].answers = IF t = s THEN a ELSE session[t].answers
BY DEF SessionsFormed, SessionDoc, Answered

LEMMA AskedDoc ==
  ASSUME SessionsFormed, NEW s \in Sessions, Asked(s)
  PROVE  /\ SessionsFormed'
         /\ ~ session[s].questions /\ session'[s].questions
         /\ \A t \in Sessions :
              /\ session'[t].status = session[t].status
              /\ session'[t].version = session[t].version
              /\ t # s => session'[t] = session[t]
BY DEF SessionsFormed, SessionDoc, Asked, CreateQuestions

LEMMA AssessedDoc ==
  ASSUME SessionsFormed, NEW s \in Sessions, NEW f \in Drafts \cup {None}, Assessed(s, f)
  PROVE  /\ SessionsFormed'
         /\ \A t \in Sessions :
              /\ session'[t].status = session[t].status
              /\ session'[t].version = session[t].version
              /\ session'[t].questions = session[t].questions
              /\ session'[t].answers = session[t].answers
BY DEF SessionsFormed, SessionDoc, Assessed

LEMMA MovedDoc ==
  ASSUME SessionsFormed, NEW s \in Sessions, NEW to \in SessionStatus, Moved(s, to)
  PROVE  /\ SessionsFormed'
         /\ session'[s].status = to /\ session'[s].version = session[s].version + 1
         /\ to # session[s].status
         /\ \A t \in Sessions :
              /\ session'[t].questions = session[t].questions
              /\ session'[t].answers = session[t].answers
              /\ t # s => session'[t] = session[t]
<1>1. session' = [session EXCEPT ![s].status = to, ![s].version = @ + 1]
  BY DEF Moved, Changed
<1>2. session[s].status \in SessionStatus /\ to \in legalTransitions[session[s].status]
  BY DEF Moved, SessionsFormed, SessionDoc
<1>3. to # session[s].status
  BY <1>2 DEF legalTransitions, SessionStatus
<1>4. QED
  BY <1>1, <1>3 DEF SessionsFormed, SessionDoc

(* A request moves on alone; what it asked for is settled with its arrival.*)
Kept(q, n) ==
  /\ q.pc # "new" => n.pc # "new" /\ n.kind = q.kind /\ n.session = q.session
  /\ q.pc \in {"answered", "done"} => n.pc \in {"answered", "done"}
RequestMove(r) ==
  /\ request' \in [Requests -> RequestState]
  /\ RequestFormed(request'[r]) /\ Kept(request[r], request'[r])
  /\ \A p \in Requests \ {r} : request'[p] = request[p]
  /\ (request'[r].pc = "end" => request[r].pc = "end" \/ StoreOutput(r))
(* The handlers leave the limiter's and the quota's marks on it alone.     *)
Apart(q, n) ==
  /\ q.pc # "done" /\ n.pc # "done" /\ q.pc # "new"
  /\ n.admitted = q.admitted /\ n.window = q.window
  /\ n.holder = q.holder /\ n.day = q.day

LEMMA GoMoves ==
  ASSUME RequestsFormed, NEW r \in Requests,
         NEW pc \in {"consume", "reconsume", "look", "reserve", "inspect", "read", "write",
                     "act", "enqueue", "call", "store", "end", "fail", "answered", "done"},
         Go(r, pc)
  PROVE  /\ request' \in [Requests -> RequestState]
         /\ \A p \in Requests \ {r} : request'[p] = request[p]
         /\ request'[r].pc = pc /\ request'[r].kind = request[r].kind
         /\ request'[r].session = request[r].session /\ request'[r].draft = request[r].draft
         /\ request'[r].admitted = request[r].admitted
         /\ request'[r].holder = request[r].holder
         /\ request'[r].status = request[r].status /\ request'[r].code = request[r].code
         /\ request'[r].day = request[r].day /\ request'[r].window = request[r].window
BY DEF RequestsFormed, RequestState, Go

LEMMA RespondMoves ==
  ASSUME RequestsFormed, NEW r \in Requests, NEW code \in {"ok", "conflict", "limited", "error"},
         Respond(r, code)
  PROVE  /\ request' \in [Requests -> RequestState]
         /\ \A p \in Requests \ {r} : request'[p] = request[p]
         /\ request'[r].pc = "answered" /\ request'[r].kind = request[r].kind
         /\ request'[r].session = request[r].session /\ request'[r].draft = request[r].draft
         /\ request'[r].admitted = request[r].admitted
         /\ request'[r].holder = request[r].holder
         /\ request'[r].status = request[r].status /\ request'[r].code = code
         /\ request'[r].day = request[r].day /\ request'[r].window = request[r].window
<1> DEFINE q == [request[r] EXCEPT !.pc = "answered", !.code = code]
<1>1. request[r] \in RequestState /\ request' = [request EXCEPT ![r] = q]
  BY DEF RequestsFormed, Respond
<1>2. /\ q \in RequestState /\ q.pc = "answered" /\ q.code = code
      /\ q.kind = request[r].kind /\ q.session = request[r].session
      /\ q.draft = request[r].draft /\ q.admitted = request[r].admitted
      /\ q.holder = request[r].holder /\ q.status = request[r].status
      /\ q.day = request[r].day /\ q.window = request[r].window
  BY <1>1 DEF RequestState
<1> HIDE DEF q
<1>3. QED
  BY <1>1, <1>2 DEF RequestsFormed


LEMMA AdmitMoves ==
  ASSUME RequestsFormed, NEW r \in Requests, Admit(r)
  PROVE  /\ request' \in [Requests -> RequestState]
         /\ \A p \in Requests \ {r} : request'[p] = request[p]
         /\ request'[r].pc = IF request[r].kind = "generate" THEN "look" ELSE "read"
         /\ request'[r].kind = request[r].kind
         /\ request'[r].session = request[r].session /\ request'[r].draft = request[r].draft
         /\ request'[r].admitted /\ request'[r].holder = request[r].holder
         /\ request'[r].code = request[r].code
         /\ request'[r].day = request[r].day /\ request'[r].window = request[r].window
<1> DEFINE pc == IF request[r].kind = "generate" THEN "look" ELSE "read"
           q == [request[r] EXCEPT !.admitted = TRUE, !.pc = pc]
<1>0. pc \in {"look", "read"}
  OBVIOUS
<1>1. request[r] \in RequestState /\ request' = [request EXCEPT ![r] = q]
  BY DEF RequestsFormed, Admit
<1> HIDE DEF pc
<1>2. /\ q \in RequestState /\ q.admitted /\ q.pc = pc
      /\ q.kind = request[r].kind /\ q.session = request[r].session
      /\ q.draft = request[r].draft /\ q.code = request[r].code
      /\ q.holder = request[r].holder
      /\ q.day = request[r].day /\ q.window = request[r].window
  BY <1>0, <1>1 DEF RequestState
<1> HIDE DEF q
<1>3. QED
  BY <1>1, <1>2 DEF RequestsFormed, pc


LEMMA LimiterMoves ==
  ASSUME RequestsFormed, ClockFormed, NEW r \in Requests, Arrive(r) \/ LimiterStep(r)
  PROVE  RequestMove(r)
<1>1. CASE Arrive(r)
  <2>1. PICK k \in Kinds, s \in Sessions, a \in Drafts :
          request' = [request EXCEPT ![r] =
            [NewRequest EXCEPT !.pc = "consume", !.kind = k, !.session = s,
                               !.draft = IF k = "generate" THEN None ELSE a,
                               !.day = today, !.window = today]]
    BY <1>1 DEF Arrive
  <2> DEFINE q == [NewRequest EXCEPT !.pc = "consume", !.kind = k, !.session = s,
                               !.draft = IF k = "generate" THEN None ELSE a,
                               !.day = today, !.window = today]
  <2>2. /\ q.pc = "consume" /\ q.kind = k /\ q.session = s /\ q.code = None
        /\ q.draft = IF k = "generate" THEN None ELSE a
        /\ ~ q.admitted /\ ~ q.holder
    BY DEF NewRequest
  <2>3. q \in RequestState
    BY NewRequestFormed DEF RequestFormed, RequestState, ClockFormed
  <2> HIDE DEF q
  <2>4. RequestFormed(q)
    BY <2>2, <2>3 DEF RequestFormed
  <2>5. request'[r] = q /\ \A p \in Requests \ {r} : request'[p] = request[p]
    BY <2>1 DEF q, RequestsFormed
  <2>6. request' \in [Requests -> RequestState]
    BY <2>1, <2>3 DEF q, RequestsFormed
  <2>7. Kept(request[r], q)
    BY <1>1 DEF Arrive, Kept, At
  <2> QED
    BY <2>2, <2>4, <2>5, <2>6, <2>7 DEF RequestMove
<1>2. CASE LimiterStep(r)
  <2>1. request[r].pc \in {"consume", "reconsume"} /\ RequestFormed(request[r])
    BY <1>2 DEF LimiterStep, Consume, Reconsume, At, RequestsFormed
  <2>2. CASE Admit(r)
    BY <2>1, <2>2, AdmitMoves DEF RequestMove, RequestFormed, Kept
  <2>3. CASE Go(r, "reconsume")
    BY <2>1, <2>3, GoMoves DEF RequestMove, RequestFormed, Kept
  <2>4. CASE Respond(r, "limited")
    <3>1. "limited" # None /\ "limited" # "lost"
      BY InterviewAssumption
    <3> QED
      BY <2>1, <2>4, <3>1, RespondMoves DEF RequestMove, RequestFormed, Kept
  <2> QED
    BY <1>2, <2>2, <2>3, <2>4 DEF LimiterStep, Consume, Reconsume
<1> QED
  BY <1>1, <1>2

LEMMA ReservedMoves ==
  ASSUME RequestsFormed, NEW r \in Requests,
         request' = [request EXCEPT ![r].pc = "read", ![r].holder = TRUE]
  PROVE  /\ request' \in [Requests -> RequestState]
         /\ \A p \in Requests \ {r} : request'[p] = request[p]
         /\ request'[r].pc = "read" /\ request'[r].kind = request[r].kind
         /\ request'[r].session = request[r].session /\ request'[r].draft = request[r].draft
         /\ request'[r].admitted = request[r].admitted
         /\ request'[r].holder /\ request'[r].code = request[r].code
         /\ request'[r].day = request[r].day /\ request'[r].window = request[r].window
<1> DEFINE q == [request[r] EXCEPT !.pc = "read", !.holder = TRUE]
<1>1. request[r] \in RequestState /\ request' = [request EXCEPT ![r] = q]
  BY DEF RequestsFormed
<1>2. /\ q \in RequestState /\ q.pc = "read" /\ q.holder
      /\ q.kind = request[r].kind /\ q.session = request[r].session
      /\ q.draft = request[r].draft /\ q.code = request[r].code
      /\ q.admitted = request[r].admitted
      /\ q.day = request[r].day /\ q.window = request[r].window
  BY <1>1 DEF RequestState
<1> HIDE DEF q
<1>3. QED
  BY <1>1, <1>2 DEF RequestsFormed

LEMMA LetGoMoves ==
  ASSUME RequestsFormed, NEW r \in Requests, request' = [request EXCEPT ![r].holder = FALSE]
  PROVE  /\ request' \in [Requests -> RequestState]
         /\ \A p \in Requests \ {r} : request'[p] = request[p]
         /\ request'[r].pc = request[r].pc /\ request'[r].kind = request[r].kind
         /\ request'[r].session = request[r].session /\ request'[r].draft = request[r].draft
         /\ request'[r].admitted = request[r].admitted
         /\ request'[r].status = request[r].status
         /\ ~ request'[r].holder /\ request'[r].code = request[r].code
         /\ request'[r].day = request[r].day /\ request'[r].window = request[r].window
BY DEF RequestsFormed, RequestState

LEMMA DatedMoves ==
  ASSUME RequestsFormed, ClockFormed, NEW r \in Requests, Look(r)
  PROVE  /\ request' \in [Requests -> RequestState]
         /\ \A p \in Requests \ {r} : request'[p] = request[p]
         /\ request'[r].pc \in {"read", "reserve"} /\ request'[r].kind = request[r].kind
         /\ request'[r].session = request[r].session /\ request'[r].draft = request[r].draft
         /\ request'[r].admitted = request[r].admitted
         /\ request'[r].holder = request[r].holder /\ request'[r].code = request[r].code
         /\ request'[r].day = today /\ request'[r].window = request[r].window
<1> DEFINE pc == IF quota[today].mark[request[r].session] # "NONE" THEN "read" ELSE "reserve"
           q == [request[r] EXCEPT !.day = today, !.pc = pc]
<1>0. pc \in {"read", "reserve"}
  OBVIOUS
<1>1. request[r] \in RequestState /\ request' = [request EXCEPT ![r] = q]
  BY DEF RequestsFormed, Look, Dated
<1> HIDE DEF pc
<1>2. /\ q \in RequestState /\ q.pc = pc /\ q.day = today
      /\ q.kind = request[r].kind /\ q.session = request[r].session
      /\ q.draft = request[r].draft /\ q.code = request[r].code
      /\ q.holder = request[r].holder /\ q.admitted = request[r].admitted
      /\ q.window = request[r].window
  BY <1>0, <1>1 DEF RequestState, ClockFormed
<1> HIDE DEF q
<1>3. QED
  BY <1>0, <1>1, <1>2 DEF RequestsFormed

Reads(r, pc, s) ==
  request' = [request EXCEPT ![r].pc = pc,
                ![r].status = session[s].status, ![r].version = session[s].version]
ActsOn(r, pc, to) ==
  request' = [request EXCEPT ![r].pc = pc, ![r].status = to, ![r].version = @ + 1]

LEMMA ReadMoves ==
  ASSUME RequestsFormed, SessionsFormed, NEW r \in Requests, NEW pc \in {"act", "write"},
         NEW s \in Sessions, Reads(r, pc, s)
  PROVE  /\ request' \in [Requests -> RequestState]
         /\ \A p \in Requests \ {r} : request'[p] = request[p]
         /\ request'[r].pc = pc /\ request'[r].kind = request[r].kind
         /\ request'[r].session = request[r].session /\ request'[r].draft = request[r].draft
         /\ request'[r].admitted = request[r].admitted
         /\ request'[r].status = session[s].status
         /\ request'[r].holder = request[r].holder /\ request'[r].code = request[r].code
         /\ request'[r].day = request[r].day /\ request'[r].window = request[r].window
<1> DEFINE q == [request[r] EXCEPT
                   !.pc = pc, !.status = session[s].status, !.version = session[s].version]
<1>1. request[r] \in RequestState /\ request' = [request EXCEPT ![r] = q]
  BY DEF RequestsFormed, Reads
<1>2. session[s].status \in SessionStatus /\ session[s].version \in Nat
  BY DEF SessionsFormed, SessionDoc
<1>3. /\ q \in RequestState /\ q.pc = pc /\ q.status = session[s].status
      /\ q.kind = request[r].kind /\ q.session = request[r].session
      /\ q.draft = request[r].draft /\ q.code = request[r].code
      /\ q.holder = request[r].holder /\ q.admitted = request[r].admitted
      /\ q.day = request[r].day /\ q.window = request[r].window
  BY <1>1, <1>2 DEF RequestState
<1> HIDE DEF q
<1>4. QED
  BY <1>1, <1>3 DEF RequestsFormed

LEMMA ActMoves ==
  ASSUME RequestsFormed, NEW r \in Requests, NEW pc \in {"call", "enqueue"},
         NEW to \in SessionStatus,
         ActsOn(r, pc, to)
  PROVE  /\ request' \in [Requests -> RequestState]
         /\ \A p \in Requests \ {r} : request'[p] = request[p]
         /\ request'[r].pc = pc /\ request'[r].kind = request[r].kind
         /\ request'[r].session = request[r].session /\ request'[r].draft = request[r].draft
         /\ request'[r].admitted = request[r].admitted
         /\ request'[r].status = to
         /\ request'[r].holder = request[r].holder /\ request'[r].code = request[r].code
         /\ request'[r].day = request[r].day /\ request'[r].window = request[r].window
<1> DEFINE q == [request[r] EXCEPT
                   !.pc = pc, !.status = to, !.version = request[r].version + 1]
<1>1. request[r] \in RequestState /\ request' = [request EXCEPT ![r] = q]
  BY DEF RequestsFormed, ActsOn
<1>2. request[r].version + 1 \in Nat
  BY <1>1 DEF RequestState
<1>3. /\ q \in RequestState /\ q.pc = pc /\ q.status = to
      /\ q.kind = request[r].kind /\ q.session = request[r].session
      /\ q.draft = request[r].draft /\ q.code = request[r].code
      /\ q.holder = request[r].holder /\ q.admitted = request[r].admitted
      /\ q.day = request[r].day /\ q.window = request[r].window
  BY <1>1, <1>2 DEF RequestState
<1> HIDE DEF q
<1>4. /\ request' \in [Requests -> RequestState] /\ request'[r] = q
      /\ \A p \in Requests \ {r} : request'[p] = request[p]
  BY <1>1, <1>3 DEF RequestsFormed
<1>5. QED
  BY <1>3, <1>4

LEMMA QuotaMoves ==
  ASSUME RequestsFormed, ClockFormed, NEW r \in Requests, QuotaStep(r) \/ Disconnect(r)
  PROVE  RequestMove(r)
<1> USE DEF RequestMove, RequestFormed, Kept
<1>0. RequestFormed(request[r]) /\ "limited" # None /\ "limited" # "lost"
  BY InterviewAssumption DEF RequestsFormed
<1>1. CASE Look(r)
  BY <1>0, <1>1, DatedMoves DEF Look, At
<1>2. CASE Reserve(r)
  BY <1>0, <1>2, ReservedMoves, GoMoves DEF Reserve, At
<1>3. CASE Inspect(r)
  BY <1>0, <1>3, GoMoves, RespondMoves DEF Inspect, At
<1>4. CASE Finish(r)
  BY <1>0, <1>4, GoMoves DEF Finish, At
<1>5. CASE Disconnect(r)
  <2>1. request[r].holder /\ request[r].pc \notin {"answered", "done"}
    BY <1>5 DEF Disconnect
  <2>2. request[r].pc # "new"
    BY <1>0, <2>1 DEF NewRequest
  <2> QED
    BY <1>0, <1>5, <2>1, <2>2, LetGoMoves DEF Disconnect
<1> QED
  BY <1>1, <1>2, <1>3, <1>4, <1>5 DEF QuotaStep

LEMMA ServiceMoves ==
  ASSUME RequestsFormed, SessionsFormed, NEW r \in Requests, ServiceStep(r)
  PROVE  RequestMove(r) /\ Apart(request[r], request'[r])
<1> USE DEF RequestMove, RequestFormed, Kept, Apart
<1>0. /\ RequestFormed(request[r])
      /\ "ok" # None /\ "conflict" # None /\ "error" # None
  BY InterviewAssumption DEF RequestsFormed
<1>1. CASE ReadSession(r)
  <2>1. request[r].session \in Sessions /\ request[r].kind \in Kinds /\ At(r, "read")
    BY <1>0, <1>1 DEF ReadSession, At
  <2>2. CASE \E code \in {"conflict", "error"} : Respond(r, code)
    BY <1>0, <2>1, <2>2, RespondMoves DEF At
  <2>3. CASE ~ \E code \in {"conflict", "error"} : Respond(r, code)
    <3> DEFINE pc == IF request[r].kind = "generate" THEN "act" ELSE "write"
    <3>1. /\ session[request[r].session].status \in Allows(request[r].kind)
          /\ Reads(r, pc, request[r].session)
      BY <1>1, <2>3 DEF ReadSession, Reads
    <3>2. pc \in {"act", "write"}
      OBVIOUS
    <3>3. pc = "write" <=> request[r].kind # "generate"
      OBVIOUS
    <3> HIDE DEF pc
    <3> DEFINE q == request'[r]
    <3>4. /\ request' \in [Requests -> RequestState]
          /\ \A p \in Requests \ {r} : request'[p] = request[p]
          /\ q.pc = pc /\ q.kind = request[r].kind /\ q.session = request[r].session
          /\ q.draft = request[r].draft /\ q.code = request[r].code
          /\ q.status = session[request[r].session].status
          /\ q.admitted = request[r].admitted /\ q.window = request[r].window
          /\ q.holder = request[r].holder /\ q.day = request[r].day
      BY <2>1, <3>1, <3>2, ReadMoves
    <3> HIDE DEF q
    <3>5. q \in RequestState
      BY <3>4 DEF q
    <3>6. RequestFormed(q) /\ Kept(request[r], q) /\ Apart(request[r], q)
      BY <1>0, <2>1, <3>1, <3>2, <3>3, <3>4, <3>5 DEF At
    <3>7. QED
      BY <3>2, <3>4, <3>6 DEF q
  <2> QED
    BY <2>2, <2>3
<1>2. CASE WriteAnswers(r)
  BY <1>0, <1>2, GoMoves, RespondMoves DEF WriteAnswers, At
<1>3. CASE Act(r)
  <2>1. CASE Respond(r, "conflict")
    BY <1>0, <1>3, <2>1, RespondMoves DEF Act, At
  <2>2. CASE ~ Respond(r, "conflict")
    <3> DEFINE to == Stage(request[r].kind)
               pc == IF wiring = "sync" THEN "call" ELSE "enqueue"
    <3>1. ActsOn(r, pc, to) /\ At(r, "act")
      BY <1>3, <2>2 DEF Act, ActsOn
    <3>2. pc \in {"call", "enqueue"} /\ to \in SessionStatus
      BY DEF Stage, SessionStatus
    <3> HIDE DEF pc
    <3> DEFINE q == request'[r]
    <3>3. /\ request' \in [Requests -> RequestState]
          /\ \A p \in Requests \ {r} : request'[p] = request[p]
          /\ q.pc = pc /\ q.kind = request[r].kind /\ q.session = request[r].session
          /\ q.draft = request[r].draft /\ q.code = request[r].code /\ q.status = to
          /\ q.admitted = request[r].admitted /\ q.window = request[r].window
          /\ q.holder = request[r].holder /\ q.day = request[r].day
      BY <3>1, <3>2, ActMoves
    <3> HIDE DEF q
    <3>4. q \in RequestState
      BY <3>3 DEF q
    <3>5. RequestFormed(q) /\ Kept(request[r], q) /\ Apart(request[r], q)
      BY <1>0, <3>1, <3>2, <3>3, <3>4 DEF At
    <3>6. QED
      BY <3>2, <3>3, <3>5 DEF q
  <2> QED
    BY <2>1, <2>2
<1>4. CASE Enqueue(r)
  BY <1>0, <1>4, GoMoves, RespondMoves DEF Enqueue, At
<1>5. CASE CallProvider(r)
  BY <1>0, <1>5, GoMoves DEF CallProvider, At
<1>6. CASE StoreOutput(r)
  BY <1>0, <1>6, GoMoves DEF StoreOutput, At
<1>7. CASE EndStage(r)
  BY <1>0, <1>7, GoMoves, RespondMoves DEF EndStage, At
<1>8. CASE FailStage(r)
  BY <1>0, <1>8, RespondMoves DEF FailStage, At
<1> QED
  BY <1>1, <1>2, <1>3, <1>4, <1>5, <1>6, <1>7, <1>8 DEF ServiceStep

-----------------------------------------------------------------------------
LEMMA RequestSteps ==
  ASSUME Formed, [Next]_vars
  PROVE  (\E r \in Requests : RequestMove(r)) \/ request' = request \/ Crash
<1>1. ASSUME NEW r \in Requests, Arrive(r) \/ RequestStep(r) \/ Disconnect(r)
      PROVE  RequestMove(r)
  BY <1>1, LimiterMoves, QuotaMoves, ServiceMoves DEF RequestStep, Formed
<1>2. ASSUME NEW w \in Workers, JobStep(w)
      PROVE  request' = request
  BY <1>2 DEF JobStep, TakeJob, JobCalls, JobStores, JobCompletes, JobFails
<1>3. ASSUME NEW v \in Viewers, ViewerStep(v) \/ (\E s \in Sessions : Watch(v, s)) \/ Drop(v)
      PROVE  request' = request
  BY <1>3 DEF ViewerStep, Connect, Subscribe, Receive, EndOfStream, Reconnect, Ask, Answer,
              Watch, Drop
<1>4. ASSUME NewDay \/ Rest \/ UNCHANGED vars
      PROVE  request' = request
  BY <1>4 DEF NewDay, Rest, vars
<1>5. QED
  BY <1>1, <1>2, <1>3, <1>4 DEF Next

LEMMA RequestsKept ==
  ASSUME Formed, [Next]_vars
  PROVE  RequestsFormed' /\ \A r \in Requests : Kept(request[r], request'[r])
<1>0. \A q : Kept(q, q)
  BY DEF Kept
<1>1. CASE \E r \in Requests : RequestMove(r)
  BY <1>0, <1>1 DEF Formed, RequestsFormed, RequestMove
<1>2. CASE request' = request
  BY <1>0, <1>2 DEF Formed, RequestsFormed
<1>3. CASE Crash
  <2> SUFFICES ASSUME NEW r \in Requests
               PROVE  RequestFormed(request'[r]) /\ Kept(request[r], request'[r])
    BY <1>3 DEF Crash, RequestsFormed, RequestFormed
  <2> DEFINE q == [request[r] EXCEPT !.pc = "done", !.code = "lost"]
  <2>1. request'[r] = IF request[r].pc \in {"new", "done"} THEN request[r] ELSE q
    BY <1>3 DEF Crash
  <2>2. request[r] \in RequestState /\ RequestFormed(request[r])
    BY DEF Formed, RequestsFormed
  <2>3. /\ q \in RequestState /\ q.pc = "done" /\ q.kind = request[r].kind
        /\ q.session = request[r].session /\ q.draft = request[r].draft
    BY <2>2 DEF RequestState
  <2> HIDE DEF q
  <2>4. QED
    BY <2>1, <2>2, <2>3 DEF RequestFormed, Kept
<1>4. QED
  BY <1>1, <1>2, <1>3, RequestSteps

LEMMA Kinded ==
  ASSUME RequestsFormed, NEW r \in Requests, request[r].pc # "new"
  PROVE  request[r].session \in Sessions /\ request[r].kind \in Kinds
BY DEF RequestsFormed, RequestFormed

LEMMA Working ==
  ASSUME Formed, NEW w \in Workers, worker[w].pc # "idle"
  PROVE  /\ worker[w].job \in Requests /\ JobSession(w) \in Sessions
         /\ JobKind(w) \in {"generate", "submit"} /\ worker[w].draft \in Drafts \cup {None}
         /\ worker[w].version \in Nat
<1>1. WorkerFormed(worker[w])
  BY DEF Formed, WorkersFormed
<1>2. worker[w].job \in Requests /\ JobFormed(request[worker[w].job])
  BY <1>1 DEF WorkerFormed
<1>3. JobSession(w) \in Sessions /\ JobKind(w) \in Kinds
  BY <1>2, Kinded DEF Formed, JobFormed, JobSession, JobKind
<1>4. QED
  BY <1>1, <1>2, <1>3 DEF WorkerFormed, WorkerState, JobFormed, JobKind, Kinds

(* Every step leaves the session documents alone or makes one move.        *)
LEMMA ChangeMoves ==
  ASSUME SessionsFormed, NEW s \in Sessions, NEW from, NEW n, NEW to \in SessionStatus,
         CanChange(s, from, n, to), Changed(s, to),
         to = "IN_PROGRESS" => session[s].questions,
         to = "EVALUATING" => from = "IN_PROGRESS"
  PROVE  SessionMove
BY DEF CanChange, SessionMove, Moved

LEMMA StoreMoves ==
  ASSUME NEW s \in Sessions, NEW kind \in {"generate", "submit"}, NEW f \in Drafts \cup {None},
         Storable(kind, s), Store(kind, s, f)
  PROVE  SessionMove
<1>1. CASE kind = "generate"
  BY <1>1 DEF Storable, Store, SessionMove, Asked
<1>2. CASE kind = "submit"
  BY <1>2 DEF Store, SessionMove, Assessed
<1> QED
  BY <1>1, <1>2

LEMMA ServiceSessionMoves ==
  ASSUME Formed, NEW r \in Requests, ServiceStep(r)
  PROVE  SessionMove \/ (session' = session /\ stream' = stream)
<1> DEFINE s == request[r].session
           k == request[r].kind
<1>0. RequestFormed(request[r]) /\ SessionsFormed /\ RequestsFormed
  BY DEF Formed, RequestsFormed
<1>1. CASE WriteAnswers(r)
  <2>1. s \in Sessions /\ request[r].draft \in Drafts
    BY <1>0, <1>1 DEF WriteAnswers, At, RequestFormed
  <2>2. Answered(s, request[r].draft)
    BY <1>1, <2>1 DEF WriteAnswers, Answered
  <2> QED
    BY <2>1, <2>2 DEF SessionMove
<1>2. CASE Act(r)
  <2>1. /\ s \in Sessions /\ k \in {"generate", "submit"} /\ request[r].status \in Allows(k)
    BY <1>0, <1>2 DEF Act, At, RequestFormed, Kinds
  <2>2. CASE CanChange(s, request[r].status, request[r].version, Stage(k))
    <3>1. Changed(s, Stage(k))
      BY <1>2, <2>2 DEF Act
    <3>2. Stage(k) \in SessionStatus /\ Stage(k) # "IN_PROGRESS"
          /\ (Stage(k) = "EVALUATING" => request[r].status = "IN_PROGRESS")
      BY <2>1 DEF Stage, SessionStatus, Allows
    <3> HIDE DEF s, k
    <3>3. QED
      BY <1>0, <2>1, <2>2, <3>1, <3>2, ChangeMoves
  <2>3. CASE ~ CanChange(s, request[r].status, request[r].version, Stage(k))
    BY <1>2, <2>3 DEF Act
  <2> QED
    BY <2>2, <2>3
<1>3. CASE StoreOutput(r)
  <2>1. s \in Sessions /\ k \in {"generate", "submit"}
        /\ (k = "submit" => request[r].draft \in Drafts)
    BY <1>0, <1>3 DEF StoreOutput, At, RequestFormed, Kinds
  <2>2. request[r].draft \in Drafts \cup {None}
    BY <1>0 DEF RequestFormed, RequestState
  <2>3. \/ Storable(k, s) /\ Store(k, s, request[r].draft)
        \/ session' = session /\ stream' = stream
    BY <1>3 DEF StoreOutput
  <2> HIDE DEF s, k
  <2> QED
    BY <2>1, <2>2, <2>3, StoreMoves
<1>4. CASE EndStage(r)
  <2>1. s \in Sessions /\ k \in {"generate", "submit"}
    BY <1>0, <1>4 DEF EndStage, At, RequestFormed, Kinds
  <2>2. CASE CanChange(s, request[r].status, request[r].version, Target(k))
    <3>1. Changed(s, Target(k)) /\ At(r, "end")
      BY <1>4, <2>2 DEF EndStage
    <3>2. /\ Target(k) \in SessionStatus /\ Target(k) # "EVALUATING"
          /\ (Target(k) = "IN_PROGRESS" => k = "generate")
      BY <2>1 DEF Target, SessionStatus
    <3>3. Target(k) = "IN_PROGRESS" => session[s].questions
      BY <3>1, <3>2 DEF Formed, EndsWithQuestions
    <3> HIDE DEF s, k
    <3>4. QED
      BY <1>0, <2>1, <2>2, <3>1, <3>2, <3>3, ChangeMoves
  <2>3. CASE ~ CanChange(s, request[r].status, request[r].version, Target(k))
    BY <1>4, <2>3 DEF EndStage
  <2> QED
    BY <2>2, <2>3
<1>5. CASE FailStage(r)
  <2>1. s \in Sessions
    BY <1>0, <1>5 DEF FailStage, At, RequestFormed
  <2>2. CASE CanChange(s, request[r].status, request[r].version, "FAILED")
    <3>1. Changed(s, "FAILED") /\ "FAILED" \in SessionStatus
      BY <1>5, <2>2 DEF FailStage, SessionStatus
    <3> HIDE DEF s, k
    <3>2. QED
      BY <1>0, <2>1, <2>2, <3>1, ChangeMoves
  <2>3. CASE ~ CanChange(s, request[r].status, request[r].version, "FAILED")
    BY <1>5, <2>3 DEF FailStage
  <2> QED
    BY <2>2, <2>3
<1>6. CASE ReadSession(r) \/ Enqueue(r) \/ CallProvider(r)
  BY <1>6 DEF ReadSession, Enqueue, CallProvider, serverVars, streamVars
<1> QED
  BY <1>1, <1>2, <1>3, <1>4, <1>5, <1>6 DEF ServiceStep

LEMMA JobSessionMoves ==
  ASSUME Formed, NEW w \in Workers, JobStep(w)
  PROVE  SessionMove \/ (session' = session /\ stream' = stream)
<1> DEFINE s == JobSession(w)
           k == JobKind(w)
<1>1. CASE JobStores(w)
  <2>1. s \in Sessions /\ k \in {"generate", "submit"} /\ worker[w].draft \in Drafts \cup {None}
    BY <1>1, Working DEF JobStores
  <2>2. \/ Storable(k, s) /\ Store(k, s, worker[w].draft)
        \/ session' = session /\ stream' = stream
    BY <1>1 DEF JobStores
  <2> HIDE DEF s, k
  <2> QED
    BY <2>1, <2>2, StoreMoves
<1>2. CASE JobCompletes(w)
  <2>1. s \in Sessions /\ k \in {"generate", "submit"}
    BY <1>2, Working DEF JobCompletes
  <2>2. CASE CanChange(s, Stage(k), worker[w].version, Target(k))
    <3>1. Changed(s, Target(k)) /\ worker[w].pc = "end"
      BY <1>2, <2>2 DEF JobCompletes
    <3>2. /\ Target(k) \in SessionStatus /\ Target(k) # "EVALUATING"
          /\ (Target(k) = "IN_PROGRESS" => k = "generate")
      BY <2>1 DEF Target, SessionStatus
    <3>3. Target(k) = "IN_PROGRESS" => session[s].questions
      BY <3>1, <3>2 DEF Formed, EndsWithQuestions
    <3> HIDE DEF s, k
    <3>4. QED
      BY <2>1, <2>2, <3>1, <3>2, <3>3, ChangeMoves DEF Formed
  <2>3. CASE ~ CanChange(s, Stage(k), worker[w].version, Target(k))
    BY <1>2, <2>3 DEF JobCompletes
  <2> QED
    BY <2>2, <2>3
<1>3. CASE JobFails(w)
  <2>1. s \in Sessions
    BY <1>3, Working DEF JobFails
  <2>2. CASE CanChange(s, Stage(k), worker[w].version, "FAILED")
    <3>1. Changed(s, "FAILED") /\ "FAILED" \in SessionStatus
      BY <1>3, <2>2 DEF JobFails, SessionStatus
    <3> HIDE DEF s, k
    <3>2. QED
      BY <2>1, <2>2, <3>1, ChangeMoves DEF Formed
  <2>3. CASE ~ CanChange(s, Stage(k), worker[w].version, "FAILED")
    BY <1>3, <2>3 DEF JobFails
  <2> QED
    BY <2>2, <2>3
<1>4. CASE JobCalls(w) \/ \E r \in Requests : TakeJob(w, r)
  BY <1>4 DEF JobCalls, TakeJob, streamVars
<1> QED
  BY <1>1, <1>2, <1>3, <1>4 DEF JobStep

LEMMA SessionMoves ==
  ASSUME Formed, [Next]_vars
  PROVE  SessionMove \/ session' = session
<1>1. ASSUME NEW r \in Requests, Arrive(r) \/ RequestStep(r) \/ Disconnect(r)
      PROVE  SessionMove \/ session' = session
  <2>1. CASE ServiceStep(r)
    BY <2>1, ServiceSessionMoves
  <2>2. CASE ~ ServiceStep(r)
    BY <1>1, <2>2 DEF Arrive, RequestStep, LimiterStep, Consume, Reconsume, QuotaStep, Look,
      Reserve, Inspect, Finish, Disconnect, serverVars
  <2> QED
    BY <2>1, <2>2
<1>2. ASSUME NEW w \in Workers, JobStep(w)
      PROVE  SessionMove \/ session' = session
  BY <1>2, JobSessionMoves
<1>3. ASSUME NEW v \in Viewers, ViewerStep(v) \/ (\E s \in Sessions : Watch(v, s)) \/ Drop(v)
      PROVE  session' = session
  BY <1>3 DEF ViewerStep, Connect, Subscribe, Receive, EndOfStream, Reconnect, Ask, Answer,
              Watch, Drop
<1>4. ASSUME Crash \/ NewDay \/ Rest \/ UNCHANGED vars
      PROVE  session' = session
  BY <1>4 DEF Crash, NewDay, Rest, vars, serverVars
<1>5. QED
  BY <1>1, <1>2, <1>3, <1>4 DEF Next

(* What the moves have in common.                                          *)
LEMMA MoveKeeps ==
  ASSUME SessionsFormed, SessionMove \/ session' = session
  PROVE  /\ SessionsFormed'
         /\ \A s \in Sessions :
              /\ session[s].questions => session'[s].questions
              /\ \/ /\ session'[s].status = session[s].status
                    /\ session'[s].version = session[s].version
                 \/ /\ session'[s].status \in legalTransitions[session[s].status]
                    /\ session'[s].version = session[s].version + 1
<1>1. CASE session' = session
  BY <1>1 DEF SessionsFormed
<1>2. CASE SessionMove
  <2>1. PICK s \in Sessions :
          \/ \E a \in Drafts : Answered(s, a)
          \/ Asked(s)
          \/ \E f \in Drafts \cup {None} : Assessed(s, f)
          \/ \E to \in SessionStatus : Moved(s, to)
    BY <1>2 DEF SessionMove
  <2>2. CASE \E a \in Drafts : Answered(s, a)
    BY <2>2, AnsweredDoc
  <2>3. CASE Asked(s)
    BY <2>3, AskedDoc
  <2>4. CASE \E f \in Drafts \cup {None} : Assessed(s, f)
    BY <2>4, AssessedDoc
  <2>5. ASSUME NEW to \in SessionStatus, Moved(s, to)
        PROVE  /\ SessionsFormed'
               /\ \A t \in Sessions :
                    /\ session[t].questions => session'[t].questions
                    /\ \/ /\ session'[t].status = session[t].status
                          /\ session'[t].version = session[t].version
                       \/ /\ session'[t].status \in legalTransitions[session[t].status]
                          /\ session'[t].version = session[t].version + 1
    <3>1. to \in legalTransitions[session[s].status]
      BY <2>5 DEF Moved
    <3>2. QED
      BY <2>5, <3>1, MovedDoc
  <2>6. QED
    BY <2>1, <2>2, <2>3, <2>4, <2>5
<1> QED
  BY <1>1, <1>2

-----------------------------------------------------------------------------
LEMMA JobsKept ==
  ASSUME Formed, [Next]_vars
  PROVE  JobsFormed'
<1>1. \A r \in Requests : JobFormed(request[r]) => JobFormed(request'[r])
  BY RequestsKept DEF JobFormed, Kept
<1>2. ASSUME jobs' \subseteq jobs
      PROVE  JobsFormed'
  BY <1>1, <1>2 DEF Formed, JobsFormed
<1>3. ASSUME NEW r \in Requests, Enqueue(r)
      PROVE  JobsFormed'
  <2>1. CASE jobs' = jobs
    BY <1>2, <2>1
  <2>2. CASE jobs' # jobs
    <3>1. At(r, "enqueue") /\ jobs' = jobs \cup {r} /\ Respond(r, "ok")
      BY <1>3, <2>2 DEF Enqueue
    <3>2. request[r].kind # "progress"
      BY <3>1 DEF Formed, RequestsFormed, RequestFormed, At
    <3>3. JobFormed(request'[r])
      BY <3>1, <3>2, RespondMoves DEF JobFormed, Formed
    <3>4. QED
      BY <1>1, <3>1, <3>3 DEF Formed, JobsFormed
  <2> QED
    BY <2>1, <2>2
<1>4. ASSUME NEW r \in Requests, Arrive(r) \/ RequestStep(r) \/ Disconnect(r)
      PROVE  JobsFormed'
  <2>1. CASE Enqueue(r)
    BY <1>3, <2>1
  <2>2. CASE ~ Enqueue(r)
    BY <1>2, <1>4, <2>2 DEF Arrive, RequestStep, LimiterStep, Consume, Reconsume, QuotaStep, Look,
      Reserve, Inspect, Finish, Disconnect, serverVars, ServiceStep, ReadSession, WriteAnswers,
      Act, CallProvider, StoreOutput, EndStage, FailStage
  <2> QED
    BY <2>1, <2>2
<1>5. ASSUME NEW w \in Workers, JobStep(w)
      PROVE  JobsFormed'
  BY <1>2, <1>5 DEF JobStep, TakeJob, JobCalls, JobStores, JobCompletes, JobFails, JobEnds, JobGoes
<1>6. ASSUME NEW v \in Viewers, ViewerStep(v) \/ (\E s \in Sessions : Watch(v, s)) \/ Drop(v)
      PROVE  JobsFormed'
  BY <1>2, <1>6 DEF ViewerStep, Connect, Subscribe, Receive, EndOfStream, Reconnect, Ask, Answer,
              Watch, Drop
<1>7. ASSUME Crash \/ NewDay \/ Rest \/ UNCHANGED vars
      PROVE  JobsFormed'
  BY <1>2, <1>7 DEF Crash, NewDay, Rest, vars, serverVars
<1>8. QED
  BY <1>4, <1>5, <1>6, <1>7 DEF Next

(* An execution changes alone.                                             *)
WorkerMove(w) ==
  \/ worker' = [worker EXCEPT ![w] = IdleWorker]
  \/ /\ worker[w].pc # "idle"
     /\ \E pc \in {"call", "store", "end", "fail"} : worker' = [worker EXCEPT ![w].pc = pc]
  \/ \E r \in jobs :
       worker' = [worker EXCEPT ![w] =
         [pc |-> "call", job |-> r, version |-> session[request[r].session].version,
          draft |-> session[request[r].session].answers]]

LEMMA WorkersKept ==
  ASSUME Formed, [Next]_vars
  PROVE  WorkersFormed'
<1>1. \A r \in Requests : JobFormed(request[r]) => JobFormed(request'[r])
  BY RequestsKept DEF JobFormed, Kept
<1>2. \A w \in Workers : WorkerFormed(worker[w])
  BY DEF Formed, WorkersFormed
<1>3. IdleWorker \in WorkerState /\ IdleWorker.pc = "idle"
  BY DEF IdleWorker, WorkerState
<1>4. ASSUME worker' = worker
      PROVE  WorkersFormed'
  BY <1>1, <1>2, <1>4 DEF Formed, WorkersFormed, WorkerFormed
<1>5. ASSUME NEW w \in Workers, WorkerMove(w)
      PROVE  WorkersFormed'
  <2>1. ASSUME NEW d \in WorkerState, worker' = [worker EXCEPT ![w] = d],
               d.pc # "idle" => d.job \in Requests /\ JobFormed(request[d.job])
        PROVE  WorkersFormed'
    BY <1>1, <1>2, <2>1 DEF Formed, WorkersFormed, WorkerFormed
  <2>2. CASE worker' = [worker EXCEPT ![w] = IdleWorker]
    BY <1>3, <2>1, <2>2
  <2>3. ASSUME worker[w].pc # "idle", NEW pc \in {"call", "store", "end", "fail"},
               worker' = [worker EXCEPT ![w].pc = pc]
        PROVE  WorkersFormed'
    <3> DEFINE d == [worker[w] EXCEPT !.pc = pc]
    <3>1. worker[w] \in WorkerState /\ worker' = [worker EXCEPT ![w] = d]
      BY <2>3 DEF Formed, WorkersFormed
    <3>2. d \in WorkerState /\ d.pc = pc /\ d.job = worker[w].job
      BY <3>1 DEF WorkerState
    <3>3. worker[w].job \in Requests /\ JobFormed(request[worker[w].job])
      BY <1>2, <2>3 DEF WorkerFormed
    <3> HIDE DEF d
    <3>4. QED
      BY <2>1, <3>1, <3>2, <3>3
  <2>4. ASSUME NEW r \in jobs,
               worker' = [worker EXCEPT ![w] =
                 [pc |-> "call", job |-> r, version |-> session[request[r].session].version,
                  draft |-> session[request[r].session].answers]]
        PROVE  WorkersFormed'
    <3> DEFINE d == [pc |-> "call", job |-> r, version |-> session[request[r].session].version,
                     draft |-> session[request[r].session].answers]
    <3>1. r \in Requests /\ JobFormed(request[r])
      BY DEF Formed, JobsFormed
    <3>2. request[r].session \in Sessions
      BY <3>1, Kinded DEF Formed, JobFormed
    <3>3. d \in WorkerState /\ d.job = r
      BY <3>1, <3>2 DEF WorkerState, Formed, SessionsFormed, SessionDoc
    <3>4. worker' = [worker EXCEPT ![w] = d]
      BY <2>4
    <3> HIDE DEF d
    <3>5. QED
      BY <2>1, <3>1, <3>3, <3>4
  <2>5. QED
    BY <1>5, <2>2, <2>3, <2>4 DEF WorkerMove
<1>6. ASSUME NEW w \in Workers, JobStep(w)
      PROVE  WorkersFormed'
  <2>1. CASE \E r \in Requests : TakeJob(w, r)
    BY <1>4, <1>5, <2>1 DEF TakeJob, WorkerMove
  <2>2. CASE JobCalls(w) \/ JobStores(w)
    BY <1>5, <2>2 DEF JobCalls, JobStores, JobGoes, WorkerMove
  <2>3. CASE JobCompletes(w) \/ JobFails(w)
    BY <1>5, <2>3 DEF JobCompletes, JobFails, JobEnds, JobGoes, WorkerMove
  <2>4. QED
    BY <1>6, <2>1, <2>2, <2>3 DEF JobStep
<1>7. ASSUME NEW r \in Requests, Arrive(r) \/ RequestStep(r) \/ Disconnect(r)
      PROVE  WorkersFormed'
  BY <1>4, <1>7 DEF Arrive, RequestStep, LimiterStep, Consume, Reconsume, QuotaStep, Look,
      Reserve, Inspect, Finish, Disconnect, ServiceStep, ReadSession, WriteAnswers, Enqueue,
      Act, CallProvider, StoreOutput, EndStage, FailStage
<1>8. ASSUME NEW v \in Viewers, ViewerStep(v) \/ (\E s \in Sessions : Watch(v, s)) \/ Drop(v)
      PROVE  WorkersFormed'
  BY <1>4, <1>8 DEF ViewerStep, Connect, Subscribe, Receive, EndOfStream, Reconnect, Ask, Answer,
              Watch, Drop
<1>9. CASE Crash
  BY <1>3, <1>9 DEF Crash, WorkersFormed, WorkerFormed
<1>10. ASSUME NewDay \/ Rest \/ UNCHANGED vars
      PROVE  WorkersFormed'
  BY <1>4, <1>10 DEF NewDay, Rest, vars
<1>11. QED
  BY <1>6, <1>7, <1>8, <1>9, <1>10 DEF Next

LEMMA WorkerEnds ==
  ASSUME Formed, [Next]_vars, NEW w \in Workers, worker'[w] # worker[w], worker'[w].pc = "end"
  PROVE  JobStores(w) /\ JobGoes(w, "end")
<1>0. IdleWorker.pc = "idle"
  BY DEF IdleWorker
<1>1. ASSUME NEW x \in Workers, JobStep(x)
      PROVE  JobStores(w) /\ JobGoes(w, "end")
  <2>1. ASSUME NEW d, worker' = [worker EXCEPT ![x] = d], d.pc # "end"
        PROVE  FALSE
    BY <2>1 DEF Formed, WorkersFormed
  <2>2. ASSUME NEW pc \in {"call", "store", "fail"}, JobGoes(x, pc)
        PROVE  FALSE
    <3> DEFINE d == [worker[x] EXCEPT !.pc = pc]
    <3>1. worker' = [worker EXCEPT ![x] = d]
      BY <2>2 DEF JobGoes
    <3>2. d.pc = pc
      BY DEF Formed, WorkersFormed, WorkerState
    <3> HIDE DEF d
    <3>3. QED
      BY <2>1, <3>1, <3>2
  <2>3. ~ JobEnds(x)
    BY <1>0, <2>1 DEF JobEnds
  <2>4. \A r \in Requests : ~ TakeJob(x, r)
    <3> SUFFICES ASSUME NEW r \in Requests, TakeJob(x, r)
                 PROVE  FALSE
      OBVIOUS
    <3> DEFINE d == [pc |-> "call", job |-> r, version |-> session[request[r].session].version,
                     draft |-> session[request[r].session].answers]
    <3>1. worker' = worker \/ worker' = [worker EXCEPT ![x] = d]
      BY DEF TakeJob
    <3>2. d.pc = "call"
      OBVIOUS
    <3> HIDE DEF d
    <3>3. QED
      BY <2>1, <3>1, <3>2
  <2>5. JobStores(x) /\ JobGoes(x, "end")
    BY <1>1, <2>2, <2>3, <2>4 DEF JobStep, JobCalls, JobStores, JobCompletes, JobFails
  <2>6. x = w
    BY <2>5 DEF JobGoes, Formed, WorkersFormed
  <2>7. QED
    BY <2>5, <2>6
<1>2. ASSUME NEW r \in Requests, Arrive(r) \/ RequestStep(r) \/ Disconnect(r)
      PROVE  worker' = worker
  BY <1>2 DEF Arrive, RequestStep, LimiterStep, Consume, Reconsume, QuotaStep, Look,
      Reserve, Inspect, Finish, Disconnect, ServiceStep, ReadSession, WriteAnswers, Enqueue,
      Act, CallProvider, StoreOutput, EndStage, FailStage
<1>3. ASSUME NEW v \in Viewers, ViewerStep(v) \/ (\E s \in Sessions : Watch(v, s)) \/ Drop(v)
      PROVE  worker' = worker
  BY <1>3 DEF ViewerStep, Connect, Subscribe, Receive, EndOfStream, Reconnect, Ask, Answer,
              Watch, Drop
<1>4. ~ Crash
  BY <1>0 DEF Crash
<1>5. ASSUME NewDay \/ Rest \/ UNCHANGED vars
      PROVE  worker' = worker
  BY <1>5 DEF NewDay, Rest, vars
<1>6. QED
  BY <1>1, <1>2, <1>3, <1>4, <1>5 DEF Next

LEMMA QuestionsKept ==
  ASSUME Formed, [Next]_vars
  PROVE  EndsWithQuestions'
<1>1. \A s \in Sessions : session[s].questions => session'[s].questions
  BY SessionMoves, MoveKeeps DEF Formed
<1>2. ASSUME NEW r \in Requests, request'[r].pc = "end", request'[r].kind = "generate"
      PROVE  session'[request'[r].session].questions
  <2>0. RequestFormed(request[r]) /\ Kept(request[r], request'[r])
    BY RequestsKept DEF Formed, RequestsFormed
  <2>1. CASE request[r].pc = "end"
    <3>1. /\ request'[r].session = request[r].session /\ request[r].session \in Sessions
          /\ request[r].kind = "generate"
      BY <1>2, <2>0, <2>1 DEF Kept, RequestFormed
    <3>2. session[request[r].session].questions
      BY <2>1, <3>1 DEF Formed, EndsWithQuestions, At
    <3>3. QED
      BY <1>1, <3>1, <3>2
  <2>2. CASE StoreOutput(r)
    <3>1. At(r, "store")
      BY <2>2 DEF StoreOutput
    <3>2. /\ request'[r].session = request[r].session /\ request[r].session \in Sessions
          /\ request[r].kind = "generate"
      BY <1>2, <2>0, <3>1 DEF Kept, RequestFormed, At
    <3>3. CASE Go(r, "fail")
      <4>1. request'[r].pc = "fail"
        BY <3>3, GoMoves DEF Formed
      <4> QED
        BY <1>2, <4>1
    <3>4. CASE ~ Go(r, "fail")
      <4>1. CreateQuestions(request[r].session)
        BY <2>2, <3>2, <3>4 DEF StoreOutput, Store
      <4> QED
        BY <3>2, <4>1 DEF CreateQuestions, Formed, SessionsFormed, SessionDoc
    <3> QED
      BY <3>3, <3>4
  <2>3. ASSUME NEW p \in Requests, RequestMove(p)
        PROVE  request[r].pc = "end" \/ StoreOutput(r)
    BY <1>2, <2>3 DEF RequestMove
  <2>4. CASE Crash
    <3> DEFINE q == [request[r] EXCEPT !.pc = "done", !.code = "lost"]
    <3>1. request'[r] = IF request[r].pc \in {"new", "done"} THEN request[r] ELSE q
      BY <2>4 DEF Crash
    <3>2. q.pc = "done"
      BY <2>0 DEF RequestFormed, RequestState
    <3> HIDE DEF q
    <3>3. QED
      BY <1>2, <2>1, <3>1, <3>2
  <2>5. CASE request' = request
    BY <1>2, <2>1, <2>5
  <2>6. QED
    BY <2>1, <2>2, <2>3, <2>4, <2>5, RequestSteps
<1>3. ASSUME NEW w \in Workers, worker'[w].pc = "end", request'[worker'[w].job].kind = "generate"
      PROVE  session'[request'[worker'[w].job].session].questions
  <2>1. CASE worker'[w] = worker[w]
    <3>1. /\ worker[w].job \in Requests /\ JobFormed(request[worker[w].job])
          /\ worker[w].pc = "end"
      BY <1>3, <2>1 DEF Formed, WorkersFormed, WorkerFormed
    <3>2. /\ request'[worker[w].job].kind = request[worker[w].job].kind
          /\ request'[worker[w].job].session = request[worker[w].job].session
      BY <3>1, RequestsKept DEF JobFormed, Kept
    <3>3. session[JobSession(w)].questions /\ JobSession(w) \in Sessions
      BY <1>3, <2>1, <3>1, <3>2, Working DEF Formed, EndsWithQuestions, JobKind
    <3>4. QED
      BY <1>1, <2>1, <3>2, <3>3 DEF JobSession
  <2>2. CASE worker'[w] # worker[w]
    <3>1. JobStores(w) /\ JobGoes(w, "end")
      BY <1>3, <2>2, WorkerEnds
    <3>2. worker[w].pc = "store"
      BY <3>1 DEF JobStores
    <3>3. /\ worker'[w].job = worker[w].job /\ request' = request
      BY <3>1 DEF JobStores, JobGoes, Formed, WorkersFormed, WorkerState
    <3>4. worker'[w].pc = "end" /\ JobKind(w) = "generate" /\ JobSession(w) \in Sessions
      BY <1>3, <3>2, <3>3, Working DEF JobKind
    <3>5. CreateQuestions(JobSession(w))
      <4>1. ~ JobGoes(w, "fail")
        BY <3>4 DEF JobGoes, Formed, WorkersFormed, WorkerState
      <4> QED
        BY <3>1, <3>4, <4>1 DEF JobStores, Store
    <3>6. QED
      BY <3>3, <3>4, <3>5 DEF CreateQuestions, Formed, SessionsFormed, SessionDoc, JobSession
  <2> QED
    BY <2>1, <2>2
<1>4. QED
  BY <1>2, <1>3 DEF EndsWithQuestions, At, JobKind, JobSession

LEMMA ClockKept ==
  ASSUME ClockFormed, [Next]_vars
  PROVE  ClockFormed'
<1>0. MaxDay \in Nat /\ MaxFaults \in Nat
  BY Bounds
<1>1. ASSUME today' = today, wiring' = wiring,
             faults' = faults \/ (faults < MaxFaults /\ faults' = faults + 1)
      PROVE  ClockFormed'
  BY <1>0, <1>1 DEF ClockFormed
<1>2. ASSUME NEW r \in Requests, Arrive(r) \/ RequestStep(r) \/ Disconnect(r)
      PROVE  ClockFormed'
  BY <1>1, <1>2 DEF clockVars, Arrive, RequestStep, LimiterStep, Consume, Reconsume, QuotaStep, Look,
      Reserve, Inspect, Finish, Disconnect, ServiceStep, ReadSession, WriteAnswers, Enqueue,
      Act, CallProvider, StoreOutput, EndStage, FailStage
<1>3. ASSUME NEW w \in Workers, JobStep(w)
      PROVE  ClockFormed'
  BY <1>1, <1>3 DEF clockVars, JobStep, TakeJob, JobCalls, JobStores, JobCompletes, JobFails
<1>4. ASSUME NEW v \in Viewers, ViewerStep(v) \/ (\E s \in Sessions : Watch(v, s)) \/ Drop(v)
      PROVE  ClockFormed'
  BY <1>1, <1>4 DEF clockVars, ViewerStep, Connect, Subscribe, Receive, EndOfStream, Reconnect, Ask,
              Answer, Watch, Drop
<1>5. CASE NewDay
  BY <1>0, <1>5 DEF NewDay, ClockFormed, Days
<1>6. CASE Crash \/ Rest \/ UNCHANGED vars
  BY <1>1, <1>6 DEF Crash, Rest, vars, clockVars
<1>7. QED
  BY <1>2, <1>3, <1>4, <1>5, <1>6 DEF Next

(* What a change tells the pages that listen.                              *)
Told(c, d, s, event) ==
  \/ d = c /\ (c.session = s => c.pc \in {"none", "ended"})
  \/ /\ c.pc = "open" /\ c.session = s
     /\ d.pc \in {"open", "ended"} /\ d.session = s /\ d.gap = c.gap
     /\ d.told = Append(c.told, event)
  \/ /\ c.pc = "read" /\ c.session = s
     /\ d.pc = "read" /\ d.session = s /\ d.gap /\ d.told = c.told

LEMMA PublishTells ==
  ASSUME PagesFormed, NEW s \in Sessions, NEW event \in StatusEvent, Publish(s, event)
  PROVE  /\ stream' \in [Viewers -> StreamState]
         /\ \A v \in Viewers : Told(stream[v], stream'[v], s, event)
<1> SUFFICES ASSUME NEW v \in Viewers
             PROVE  stream'[v] \in StreamState /\ Told(stream[v], stream'[v], s, event)
  BY DEF Publish
<1> DEFINE c == stream[v]
<1>1. c \in StreamState
  BY DEF PagesFormed
<1>2. CASE c.pc = "open" /\ c.session = s
  <2> DEFINE pc == IF Terminal(event.status) THEN "ended" ELSE "open"
             d == [c EXCEPT !.told = Append(c.told, event), !.pc = pc]
  <2>1. pc \in {"open", "ended"}
    OBVIOUS
  <2>2. stream'[v] = d
    BY <1>2 DEF Publish
  <2> HIDE DEF pc
  <2>3. Append(c.told, event) \in Seq(StatusEvent)
    BY <1>1 DEF StreamState
  <2>4. /\ d \in StreamState /\ d.pc = pc /\ d.session = s /\ d.gap = c.gap
        /\ d.told = Append(c.told, event)
    BY <1>1, <1>2, <2>1, <2>3 DEF StreamState
  <2> HIDE DEF d
  <2>5. QED
    BY <1>2, <2>1, <2>2, <2>4 DEF Told
<1>3. CASE c.pc = "read" /\ c.session = s
  <2> DEFINE d == [c EXCEPT !.gap = TRUE]
  <2>1. stream'[v] = d
    BY <1>3 DEF Publish
  <2>2. /\ d \in StreamState /\ d.pc = "read" /\ d.session = s /\ d.gap
        /\ d.told = c.told
    BY <1>1, <1>3 DEF StreamState
  <2> HIDE DEF d
  <2>3. QED
    BY <1>3, <2>1, <2>2 DEF Told
<1>4. CASE ~ (c.session = s /\ c.pc \in {"open", "read"})
  BY <1>1, <1>4 DEF Publish, Told, StreamState
<1>5. QED
  BY <1>2, <1>3, <1>4

LEMMA ChangedTells ==
  ASSUME SessionsFormed, PagesFormed, NEW s \in Sessions, NEW to \in SessionStatus, Changed(s, to)
  PROVE  LET event == [status |-> to, version |-> session[s].version + 1] IN
         /\ stream' \in [Viewers -> StreamState]
         /\ \A v \in Viewers : Told(stream[v], stream'[v], s, event)
<1> DEFINE event == [status |-> to, version |-> session[s].version + 1]
<1>1. event \in StatusEvent /\ Publish(s, event)
  BY DEF StatusEvent, SessionsFormed, SessionDoc, Changed
<1> HIDE DEF event
<1>2. /\ stream' \in [Viewers -> StreamState]
      /\ \A v \in Viewers : Told(stream[v], stream'[v], s, event)
  BY <1>1, PublishTells
<1> QED
  BY <1>2 DEF event

(* Steps that are not about a page leave it alone, but for what a change   *)
(* tells it.                                                               *)
PageStep(v) == ViewerStep(v) \/ (\E s \in Sessions : Watch(v, s)) \/ Drop(v)
LEMMA PageSteps ==
  ASSUME Formed, [Next]_vars
  PROVE  \/ viewer' = viewer /\ (SessionMove \/ (session' = session /\ stream' = stream))
         \/ (\E v \in Viewers : PageStep(v)) /\ session' = session
         \/ Crash
<1>1. ASSUME NEW r \in Requests, Arrive(r) \/ RequestStep(r) \/ Disconnect(r)
      PROVE  viewer' = viewer /\ (SessionMove \/ (session' = session /\ stream' = stream))
  <2>1. CASE ServiceStep(r)
    <3>1. viewer' = viewer
      BY <2>1 DEF ServiceStep, ReadSession, WriteAnswers, Enqueue, Act, CallProvider, StoreOutput,
        EndStage, FailStage, serverVars, streamVars
    <3> QED
      BY <2>1, <3>1, ServiceSessionMoves
  <2>2. CASE ~ ServiceStep(r)
    BY <1>1, <2>2 DEF Arrive, RequestStep, LimiterStep, Consume, Reconsume, QuotaStep, Look,
      Reserve, Inspect, Finish, Disconnect, serverVars, streamVars
  <2> QED
    BY <2>1, <2>2
<1>2. ASSUME NEW w \in Workers, JobStep(w)
      PROVE  viewer' = viewer /\ (SessionMove \/ (session' = session /\ stream' = stream))
  <2>1. viewer' = viewer
    BY <1>2 DEF JobStep, TakeJob, JobCalls, JobStores, JobCompletes, JobFails, streamVars
  <2> QED
    BY <1>2, <2>1, JobSessionMoves
<1>3. ASSUME NEW v \in Viewers, PageStep(v)
      PROVE  session' = session
  BY <1>3 DEF PageStep, ViewerStep, Connect, Subscribe, Receive, EndOfStream, Reconnect, Ask, Answer,
              Watch, Drop
<1>4. ASSUME NewDay \/ Rest \/ UNCHANGED vars
      PROVE  viewer' = viewer /\ session' = session /\ stream' = stream
  BY <1>4 DEF NewDay, Rest, vars, serverVars, streamVars
<1>5. QED
  BY <1>1, <1>2, <1>3, <1>4 DEF Next, PageStep

AcceptedDoc(d, e) ==
  IF d.status = None \/ e.version > d.version
  THEN [d EXCEPT !.status = e.status, !.version = e.version] ELSE d

LEMMA AcceptedPage ==
  ASSUME NEW d \in ViewerState, NEW e \in StatusEvent
  PROVE  LET n == AcceptedDoc(d, e) IN
         /\ n \in ViewerState /\ n.pc = d.pc /\ n.session = d.session /\ n.answers = d.answers
         /\ IF d.status = None \/ e.version > d.version
            THEN n.status = e.status /\ n.version = e.version
            ELSE n.status = d.status /\ n.version = d.version
<1>1. CASE d.status = None \/ e.version > d.version
  <2> DEFINE n == [d EXCEPT !.status = e.status, !.version = e.version]
  <2>1. AcceptedDoc(d, e) = n
    BY <1>1 DEF AcceptedDoc
  <2>2. e.status \in SessionStatus /\ e.version \in Nat
    BY DEF StatusEvent
  <2>3. /\ n \in ViewerState /\ n.pc = d.pc /\ n.session = d.session /\ n.answers = d.answers
        /\ n.status = e.status /\ n.version = e.version
    BY <2>2 DEF ViewerState
  <2> HIDE DEF n
  <2>4. QED
    BY <1>1, <2>1, <2>3
<1>2. CASE ~ (d.status = None \/ e.version > d.version)
  BY <1>2 DEF AcceptedDoc
<1> QED
  BY <1>1, <1>2

LEMMA AcceptedViewer ==
  ASSUME viewer \in [Viewers -> ViewerState], NEW v \in Viewers, NEW e
  PROVE  Accepted(v, e) = [viewer EXCEPT ![v] = AcceptedDoc(viewer[v], e)]
BY DEF Accepted, AcceptedDoc

LEMMA StatusNotNone ==
  ASSUME SessionsFormed, NEW s \in Sessions
  PROVE  /\ session[s].status \in SessionStatus /\ session[s].version \in Nat
         /\ Current(s) \in StatusEvent
         /\ Current(s).status = session[s].status /\ Current(s).version = session[s].version
BY DEF SessionsFormed, SessionDoc, Current, StatusEvent

LEMMA NoStreamPage ==
  ASSUME NEW d \in ViewerState, NEW docs,
         d.pc = "away" => d.status = None /\ d.answers = {},
         d.pc # "away" => d.session \in Sessions,
         d.status = None => d.version = 0,
         \A e \in d.answers : Held(e, docs[d.session]),
         d.status # None => Held(d, docs[d.session])
  PROVE  Page(NoStream, d, docs)
<1>1. NoStream \in StreamState /\ NoStream.pc = "none"
  BY DEF NoStream, StreamState
<1>2. QED
  BY <1>1 DEF Page, PageFormed, PageTrue, PageTold

LEMMA DisconnectedPage ==
  ASSUME PagesFormed, NEW v \in Viewers, viewer[v].pc # "away"
  PROVE  Page(NoStream, Disconnected(v), session)
<1> DEFINE d == viewer[v]
           waiting == [d EXCEPT !.pc = "waiting", !.retries = d.retries + 1]
           polling == [d EXCEPT !.pc = "polling"]
           n == Disconnected(v)
<1>1. d \in ViewerState /\ PageFormed(stream[v], d) /\ PageTrue(stream[v], d, session)
  BY DEF PagesFormed, Page
<1>2. \/ n = waiting /\ d.retries < MaxRetries
      \/ n = polling
  BY DEF Disconnected
<1>3. d.retries < MaxRetries => waiting \in ViewerState
  <2>1. d.retries < MaxRetries => d.retries + 1 \in 0 .. MaxRetries
    BY <1>1, Bounds DEF ViewerState
  <2> QED
    BY <1>1, <2>1 DEF ViewerState
<1>4. polling \in ViewerState
  BY <1>1 DEF ViewerState
<1>5. /\ waiting.session = d.session /\ waiting.status = d.status /\ waiting.version = d.version
      /\ waiting.answers = d.answers /\ waiting.pc = "waiting"
  BY <1>1 DEF ViewerState
<1>6. /\ polling.session = d.session /\ polling.status = d.status /\ polling.version = d.version
      /\ polling.answers = d.answers /\ polling.pc = "polling"
  BY <1>1 DEF ViewerState
<1> HIDE DEF waiting, polling
<1>7. /\ n \in ViewerState /\ n.session = d.session /\ n.status = d.status
      /\ n.version = d.version /\ n.answers = d.answers /\ n.pc # "away"
  BY <1>2, <1>3, <1>4, <1>5, <1>6
<1>8. /\ d.session \in Sessions /\ (d.status = None => d.version = 0)
      /\ (\A e \in d.answers : Held(e, session[d.session]))
      /\ (d.status # None => Held(d, session[d.session]))
  BY <1>1 DEF PageFormed, PageTrue
<1> HIDE DEF n
<1>9. n.status # None => Held(n, session[n.session])
  BY <1>7, <1>8 DEF Held
<1>10. QED
  BY <1>7, <1>8, <1>9, NoStreamPage DEF n

LEMMA OnePage ==
  ASSUME PagesFormed, NEW v \in Viewers, NEW c, NEW d, Page(c, d, session), session' = session,
         \/ stream' = stream /\ c = stream[v]
         \/ stream' = [stream EXCEPT ![v] = c],
         viewer' = [viewer EXCEPT ![v] = d] \/ (viewer' = viewer /\ d = viewer[v])
  PROVE  PagesFormed'
<1>1. c \in StreamState /\ d \in ViewerState
  BY DEF Page, PageFormed
<1>2. /\ stream' \in [Viewers -> StreamState] /\ viewer' \in [Viewers -> ViewerState]
      /\ stream'[v] = c /\ viewer'[v] = d
      /\ \A u \in Viewers \ {v} : stream'[u] = stream[u] /\ viewer'[u] = viewer[u]
  BY <1>1 DEF PagesFormed
<1>3. \A u \in Viewers : Page(stream'[u], viewer'[u], session')
  BY <1>2 DEF PagesFormed
<1>4. QED
  BY <1>2, <1>3 DEF PagesFormed

(* The steps of a page.                                                    *)
LEMMA WatchPage ==
  ASSUME SessionsFormed, PagesFormed, NEW v \in Viewers, NEW s \in Sessions, Watch(v, s),
         session' = session
  PROVE  PagesFormed'
<1> DEFINE d == [AwayViewer EXCEPT !.pc = "connect", !.session = s]
<1>1. /\ d \in ViewerState /\ d.pc = "connect" /\ d.session = s /\ d.status = None
      /\ d.version = 0 /\ d.answers = {}
  <2>1. /\ AwayViewer \in ViewerState /\ AwayViewer.status = None
        /\ AwayViewer.version = 0 /\ AwayViewer.answers = {}
    BY Bounds DEF AwayViewer, ViewerState
  <2> QED
    BY <2>1 DEF ViewerState
<1>2. /\ viewer' = [viewer EXCEPT ![v] = d] /\ stream' = stream
  BY DEF Watch
<1> HIDE DEF d
<1>3. stream[v] = NoStream
  BY DEF PagesFormed, Page, PageFormed, Watch
<1>4. Page(NoStream, d, session)
  BY <1>1, NoStreamPage
<1>5. QED
  BY <1>2, <1>3, <1>4, OnePage

LEMMA ConnectPage ==
  ASSUME SessionsFormed, PagesFormed, NEW v \in Viewers, Connect(v), session' = session
  PROVE  PagesFormed'
<1> DEFINE s == viewer[v].session
           e == Current(s)
           d == [viewer[v] EXCEPT !.pc = "reading"]
           c == [pc |-> "read", session |-> s, told |-> <<e>>, gap |-> FALSE]
<1>1. /\ viewer[v] \in ViewerState /\ PageFormed(stream[v], viewer[v])
      /\ PageTrue(stream[v], viewer[v], session) /\ viewer[v].pc = "connect"
  BY DEF PagesFormed, Page, Connect
<1>2. s \in Sessions
  BY <1>1 DEF PageFormed
<1>3. e \in StatusEvent /\ e.status = session[s].status /\ e.version = session[s].version
  BY <1>2, StatusNotNone
<1>4. /\ d \in ViewerState /\ d.pc = "reading" /\ d.session = s /\ d.status = viewer[v].status
      /\ d.version = viewer[v].version /\ d.answers = viewer[v].answers
  BY <1>1 DEF ViewerState
<1>5. viewer' = [viewer EXCEPT ![v] = d] /\ stream' = [stream EXCEPT ![v] = c]
  BY DEF Connect, PagesFormed
<1> HIDE DEF e
<1>6. /\ c \in StreamState /\ c.pc = "read" /\ c.session = s /\ Len(c.told) = 1
      /\ c.told[1] = e
  BY <1>2, <1>3 DEF StreamState
<1> HIDE DEF c, d
<1>7. PageFormed(c, d)
  BY <1>1, <1>2, <1>4, <1>6 DEF PageFormed
<1>8. \A i \in 1 .. Len(c.told) : i = 1
  BY <1>6
<1>9. PageTrue(c, d, session)
  <2>1. Held(e, session[s])
    BY <1>3, <1>2, StatusNotNone DEF Held
  <2>2. /\ \A x \in d.answers : Held(x, session[d.session])
        /\ d.status # None => Held(d, session[d.session])
    BY <1>1, <1>4 DEF PageTrue, Held
  <2> QED
    BY <1>6, <1>8, <2>1, <2>2 DEF PageTrue
<1>10. PageTold(c, d, session)
  BY <1>3, <1>6 DEF PageTold
<1>11. Page(c, d, session)
  BY <1>7, <1>9, <1>10 DEF Page
<1>12. QED
  BY <1>5, <1>11, OnePage

LEMMA SubscribePage ==
  ASSUME SessionsFormed, PagesFormed, NEW v \in Viewers, Subscribe(v), session' = session
  PROVE  PagesFormed'
<1> DEFINE pc == IF Terminal(stream[v].told[1].status) THEN "ended" ELSE "open"
           c == [stream[v] EXCEPT !.pc = pc]
           d == viewer[v]
<1>1. pc \in {"ended", "open"}
  OBVIOUS
<1>2. /\ stream[v] \in StreamState /\ stream[v].pc = "read" /\ PageFormed(stream[v], d)
      /\ PageTrue(stream[v], d, session) /\ PageTold(stream[v], d, session)
  BY DEF PagesFormed, Page, Subscribe
<1>3. stream' = [stream EXCEPT ![v] = c] /\ viewer' = viewer
  BY DEF Subscribe, PagesFormed
<1> HIDE DEF pc
<1>4. /\ c \in StreamState /\ c.pc = pc /\ c.session = stream[v].session
      /\ c.told = stream[v].told /\ c.gap = stream[v].gap
  BY <1>1, <1>2 DEF StreamState
<1> HIDE DEF c
<1>5. d.pc = "reading"
  <2>1. stream[v] # NoStream
    BY <1>2 DEF NoStream
  <2> QED
    BY <1>2, <2>1 DEF PageFormed
<1>6. PageFormed(c, d)
  BY <1>1, <1>2, <1>4, <1>5 DEF PageFormed
<1>7. PageTrue(c, d, session)
  BY <1>1, <1>2, <1>4 DEF PageTrue
<1>8. PageTold(c, d, session)
  BY <1>1, <1>2, <1>4 DEF PageTold
<1>9. QED
  BY <1>3, <1>6, <1>7, <1>8, OnePage DEF Page

LEMMA EndPage ==
  ASSUME PagesFormed, NEW v \in Viewers, EndOfStream(v) \/ Drop(v), session' = session
  PROVE  PagesFormed'
<1>1. /\ viewer' = [viewer EXCEPT ![v] = Disconnected(v)]
      /\ stream' = [stream EXCEPT ![v] = NoStream] /\ viewer[v].pc # "away"
  BY DEF EndOfStream, Drop
<1>2. Page(NoStream, Disconnected(v), session)
  BY <1>1, DisconnectedPage
<1>3. QED
  BY <1>1, <1>2, OnePage

LEMMA ReconnectPage ==
  ASSUME PagesFormed, NEW v \in Viewers, Reconnect(v), session' = session
  PROVE  PagesFormed'
<1> DEFINE d == [viewer[v] EXCEPT !.pc = "connect"]
<1>1. /\ viewer[v] \in ViewerState /\ PageFormed(stream[v], viewer[v])
      /\ PageTrue(stream[v], viewer[v], session) /\ viewer[v].pc = "waiting"
  BY DEF PagesFormed, Page, Reconnect
<1>2. /\ d \in ViewerState /\ d.pc = "connect" /\ d.session = viewer[v].session
      /\ d.status = viewer[v].status
      /\ d.version = viewer[v].version /\ d.answers = viewer[v].answers
  BY <1>1 DEF ViewerState
<1>3. viewer' = [viewer EXCEPT ![v] = d] /\ stream' = stream
  BY DEF Reconnect
<1> HIDE DEF d
<1>4. stream[v] = NoStream
  BY <1>1 DEF PageFormed
<1>5. /\ \A x \in d.answers : Held(x, session[d.session])
      /\ d.status # None => Held(d, session[d.session])
  BY <1>1, <1>2 DEF PageTrue, Held
<1>6. Page(NoStream, d, session)
  BY <1>1, <1>2, <1>5, NoStreamPage DEF PageFormed
<1>7. QED
  BY <1>3, <1>4, <1>6, OnePage

LEMMA AskPage ==
  ASSUME SessionsFormed, PagesFormed, NEW v \in Viewers, Ask(v), session' = session
  PROVE  PagesFormed'
<1> DEFINE e == Current(viewer[v].session)
           d == [viewer[v] EXCEPT !.answers = viewer[v].answers \cup {e}]
<1>1. /\ viewer[v] \in ViewerState /\ PageFormed(stream[v], viewer[v])
      /\ PageTrue(stream[v], viewer[v], session) /\ viewer[v].pc = "polling"
  BY DEF PagesFormed, Page, Ask
<1>2. viewer[v].session \in Sessions
  BY <1>1 DEF PageFormed
<1>3. e \in StatusEvent /\ Held(e, session[viewer[v].session])
  BY <1>2, StatusNotNone DEF Held
<1>4. viewer' = [viewer EXCEPT ![v] = d] /\ stream' = stream
  BY DEF Ask, PagesFormed
<1> HIDE DEF e
<1>5. /\ d \in ViewerState /\ d.pc = "polling" /\ d.session = viewer[v].session
      /\ d.status = viewer[v].status
      /\ d.version = viewer[v].version /\ d.answers = viewer[v].answers \cup {e}
  BY <1>1, <1>3 DEF ViewerState
<1> HIDE DEF d
<1>6. stream[v] = NoStream
  BY <1>1 DEF PageFormed
<1>7. /\ \A x \in d.answers : Held(x, session[d.session])
      /\ d.status # None => Held(d, session[d.session])
  BY <1>1, <1>3, <1>5 DEF PageTrue, Held
<1>8. Page(NoStream, d, session)
  BY <1>1, <1>2, <1>5, <1>7, NoStreamPage DEF PageFormed
<1>9. QED
  BY <1>4, <1>6, <1>8, OnePage

LEMMA ShownAfter ==
  ASSUME SessionsFormed, NEW c, NEW d, Page(c, d, session), d.pc # "away",
         NEW e \in StatusEvent, Held(e, session[d.session])
  PROVE  LET n == AcceptedDoc(d, e)
             now == session[d.session].version
         IN /\ n \in ViewerState /\ n.pc = d.pc /\ n.session = d.session
            /\ n.answers = d.answers
            /\ n.status = None => n.version = 0
            /\ n.status # None => Held(n, session[d.session])
            /\ (d.version = now \/ e.version = now) => n.version = now
<1>1. d \in ViewerState /\ d.session \in Sessions /\ (d.status = None => d.version = 0)
  BY DEF Page, PageFormed
<1>2. d.version \in Nat /\ e.version \in Nat /\ e.status \in SessionStatus
  BY <1>1 DEF ViewerState, StatusEvent
<1>3. session[d.session].version \in Nat
  BY <1>1, StatusNotNone
<1>4. d.status # None => Held(d, session[d.session])
  BY DEF Page, PageTrue
<1> DEFINE n == AcceptedDoc(d, e)
<1>5. /\ n \in ViewerState /\ n.pc = d.pc /\ n.session = d.session /\ n.answers = d.answers
      /\ IF d.status = None \/ e.version > d.version
         THEN n.status = e.status /\ n.version = e.version
         ELSE n.status = d.status /\ n.version = d.version
  BY <1>1, AcceptedPage
<1> HIDE DEF n
<1>6. (n.status = None => n.version = 0) /\ (n.status # None => Held(n, session[d.session]))
  BY <1>1, <1>2, <1>4, <1>5, NoneIsNothing DEF Held
<1>7. (d.version = session[d.session].version \/ e.version = session[d.session].version)
      => n.version = session[d.session].version
  BY <1>1, <1>2, <1>3, <1>4, <1>5 DEF Held
<1>8. QED
  BY <1>5, <1>6, <1>7 DEF n

LEMMA AnswerPage ==
  ASSUME SessionsFormed, PagesFormed, NEW v \in Viewers, Answer(v), session' = session
  PROVE  PagesFormed'
<1> DEFINE d == viewer[v]
           c == stream[v]
<1>1. PICK e \in d.answers :
        /\ viewer' = [Accepted(v, e) EXCEPT ![v].answers = @ \ {e}] /\ stream' = stream
  BY DEF Answer
<1>2. /\ d \in ViewerState /\ Page(c, d, session) /\ viewer \in [Viewers -> ViewerState]
  BY DEF PagesFormed, Page, PageFormed
<1>3. d.pc # "away" /\ e \in StatusEvent /\ Held(e, session[d.session])
  BY <1>2 DEF Page, PageFormed, PageTrue, ViewerState
<1> DEFINE n == AcceptedDoc(d, e)
           m == [n EXCEPT !.answers = n.answers \ {e}]
<1>4. Accepted(v, e) = [viewer EXCEPT ![v] = n]
  BY <1>2, AcceptedViewer
<1> HIDE DEF n
<1>5. viewer' = [viewer EXCEPT ![v] = m]
  BY <1>1, <1>2, <1>4
<1>6. /\ n \in ViewerState /\ n.pc = d.pc /\ n.session = d.session
      /\ n.answers = d.answers
      /\ n.status = None => n.version = 0
      /\ n.status # None => Held(n, session[d.session])
      /\ d.version = session[d.session].version => n.version = session[d.session].version
  BY <1>2, <1>3, ShownAfter DEF n
<1>7. /\ m \in ViewerState /\ m.pc = d.pc /\ m.session = d.session
      /\ m.answers = d.answers \ {e} /\ m.status = n.status /\ m.version = n.version
  BY <1>6 DEF ViewerState
<1> HIDE DEF m
<1>8. PageFormed(c, m)
  BY <1>2, <1>3, <1>6, <1>7 DEF Page, PageFormed
<1>9. PageTrue(c, m, session)
  <2>1. m.status # None => Held(m, session[m.session])
    BY <1>6, <1>7 DEF Held
  <2> QED
    BY <1>2, <1>7, <2>1 DEF Page, PageTrue
<1>10. PageTold(c, m, session)
  BY <1>2, <1>6, <1>7 DEF Page, PageFormed, PageTold
<1>11. Page(c, m, session)
  BY <1>8, <1>9, <1>10 DEF Page
<1> HIDE DEF c
<1>12. QED
  BY <1>1, <1>5, <1>11, OnePage DEF c

LEMMA ReceivePage ==
  ASSUME SessionsFormed, PagesFormed, NEW v \in Viewers, Receive(v), session' = session
  PROVE  PagesFormed'
<1> DEFINE d == viewer[v]
           b == stream[v]
           e == Head(b.told)
           n == AcceptedDoc(d, e)
           c == [b EXCEPT !.told = Tail(b.told)]
<1>1. /\ viewer' = Accepted(v, e) /\ stream' = [stream EXCEPT ![v] = c]
      /\ d.pc = "reading" /\ b.pc \in {"open", "ended"} /\ b.told # <<>>
  BY DEF Receive, PagesFormed
<1>2. /\ d \in ViewerState /\ b \in StreamState /\ Page(b, d, session)
      /\ viewer \in [Viewers -> ViewerState]
  BY DEF PagesFormed, Page, PageFormed
<1>3. b.told \in Seq(StatusEvent) /\ b.session = d.session /\ d.session \in Sessions
  BY <1>1, <1>2 DEF Page, PageFormed, StreamState
<1>4. /\ e = b.told[1] /\ e \in StatusEvent /\ Len(b.told) > 0
      /\ Tail(b.told) \in Seq(StatusEvent) /\ Len(Tail(b.told)) = Len(b.told) - 1
      /\ \A i \in 1 .. Len(Tail(b.told)) : Tail(b.told)[i] = b.told[i + 1]
  BY <1>1, <1>3
<1>5. Held(e, session[d.session])
  BY <1>1, <1>2, <1>3, <1>4 DEF Page, PageTrue
<1> HIDE DEF e
<1>6. viewer' = [viewer EXCEPT ![v] = n]
  BY <1>1, <1>2, AcceptedViewer
<1>7. /\ n \in ViewerState /\ n.pc = d.pc /\ n.session = d.session
      /\ n.answers = d.answers
      /\ n.status = None => n.version = 0
      /\ n.status # None => Held(n, session[d.session])
      /\ (d.version = session[d.session].version \/ e.version = session[d.session].version)
         => n.version = session[d.session].version
  BY <1>1, <1>2, <1>4, <1>5, ShownAfter
<1> HIDE DEF n
<1>8. /\ c \in StreamState /\ c.pc = b.pc /\ c.session = b.session /\ c.gap = b.gap
      /\ c.told = Tail(b.told)
  BY <1>2, <1>4 DEF StreamState
<1> HIDE DEF c
<1>9. PageFormed(c, n)
  BY <1>1, <1>2, <1>3, <1>7, <1>8 DEF Page, PageFormed
<1>10. PageTrue(c, n, session)
  <2>1. n.status # None => Held(n, session[n.session])
    BY <1>7
  <2>2. ASSUME NEW i \in 1 .. Len(c.told)
        PROVE  Held(c.told[i], session[c.session])
    <3>1. i + 1 \in 1 .. Len(b.told) /\ c.told[i] = b.told[i + 1]
      BY <1>3, <1>4, <1>8
    <3>2. b.pc # "none"
      BY <1>1
    <3>3. QED
      BY <1>2, <1>8, <3>1, <3>2 DEF Page, PageTrue
  <2>3. \A x \in n.answers : Held(x, session[n.session])
    BY <1>2, <1>7 DEF Page, PageTrue
  <2> QED
    BY <2>1, <2>2, <2>3 DEF PageTrue
<1>11. PageTold(c, n, session)
  <2> SUFFICES ASSUME c.pc \in {"read", "open"}, ~ c.gap
               PROVE  \/ c.pc = "open" /\ n.version = session[c.session].version
                      \/ \E i \in 1 .. Len(c.told) :
                           /\ c.told[i].status = session[c.session].status
                           /\ c.told[i].version = session[c.session].version
    BY DEF PageTold
  <2>1. b.pc = "open" /\ ~ b.gap
    BY <1>1, <1>8
  <2>2. \/ d.version = session[b.session].version
        \/ \E i \in 1 .. Len(b.told) : /\ b.told[i].status = session[b.session].status
                                       /\ b.told[i].version = session[b.session].version
    BY <1>2, <2>1 DEF Page, PageTold
  <2>3. CASE d.version = session[b.session].version \/ e.version = session[b.session].version
    BY <1>3, <1>7, <1>8, <2>1, <2>3
  <2>4. ASSUME NEW i \in 1 .. Len(b.told), i # 1,
               b.told[i].status = session[b.session].status,
               b.told[i].version = session[b.session].version
        PROVE  \E j \in 1 .. Len(c.told) :
                           /\ c.told[j].status = session[c.session].status
                           /\ c.told[j].version = session[c.session].version
    <3>1. i - 1 \in 1 .. Len(c.told) /\ c.told[i - 1] = b.told[i]
      BY <1>3, <1>4, <1>8, <2>4
    <3>2. QED
      BY <1>8, <2>4, <3>1
  <2>5. QED
    BY <1>4, <2>2, <2>3, <2>4
<1>12. QED
  BY <1>1, <1>6, <1>9, <1>10, <1>11, OnePage DEF Page

(* A move of a session, as the pages see it.                               *)
LEMMA QuietPages ==
  ASSUME PagesFormed, stream' = stream, viewer' = viewer,
         \A s \in Sessions : /\ session'[s].status = session[s].status
                             /\ session'[s].version = session[s].version
  PROVE  PagesFormed'
<1> SUFFICES ASSUME NEW v \in Viewers
             PROVE  Page(stream[v], viewer[v], session')
  BY DEF PagesFormed
<1>1. Page(stream[v], viewer[v], session)
  BY DEF PagesFormed
<1> DEFINE c == stream[v]
           d == viewer[v]
<1> HIDE DEF c, d
<1>2. PageFormed(c, d) /\ PageTrue(c, d, session) /\ PageTold(c, d, session)
  BY <1>1 DEF Page, c, d
<1>3. CASE d.pc = "away"
  <2>1. c = NoStream /\ c.pc = "none" /\ d.answers = {} /\ d.status = None
    BY <1>2, <1>3 DEF PageFormed, NoStream
  <2> QED
    BY <1>2, <2>1 DEF Page, PageTrue, PageTold, c, d
<1>4. CASE d.pc # "away"
  <2>1. d.session \in Sessions /\ (c.pc # "none" => c.session = d.session)
    BY <1>2, <1>4 DEF PageFormed
  <2>2. PageTrue(c, d, session')
    BY <1>2, <2>1 DEF PageTrue, Held
  <2>3. PageTold(c, d, session')
    BY <1>2, <2>1 DEF PageTold
  <2> QED
    BY <1>2, <2>2, <2>3 DEF Page, c, d
<1> QED
  BY <1>3, <1>4

LEMMA MovedPages ==
  ASSUME SessionsFormed, PagesFormed, viewer' = viewer, NEW s \in Sessions,
         NEW to \in SessionStatus, Moved(s, to)
  PROVE  PagesFormed'
<1> DEFINE n == session[s].version + 1
           e == [status |-> to, version |-> n]
<1>1. /\ stream' \in [Viewers -> StreamState]
      /\ \A v \in Viewers : Told(stream[v], stream'[v], s, e)
  BY ChangedTells DEF Moved
<1>2. /\ session'[s].status = to /\ session'[s].version = n /\ n \in Nat
      /\ \A t \in Sessions \ {s} : session'[t] = session[t]
  BY MovedDoc, StatusNotNone
<1>3. \A x : Held(x, session[s]) /\ x.version \in Nat => Held(x, session'[s])
  BY <1>2, StatusNotNone DEF Held
<1>4. e.status = to /\ e.version = n /\ Held(e, session'[s]) /\ e \in StatusEvent
  BY <1>2 DEF Held, StatusEvent
<1> HIDE DEF e, n
<1> SUFFICES ASSUME NEW v \in Viewers
             PROVE  Page(stream'[v], viewer[v], session')
  BY <1>1 DEF PagesFormed
<1> DEFINE b == stream[v]
           c == stream'[v]
           d == viewer[v]
<1>5. /\ Page(b, d, session) /\ Told(b, c, s, e) /\ c \in StreamState /\ b \in StreamState
      /\ d \in ViewerState
  BY <1>1 DEF PagesFormed, Page, PageFormed
<1> HIDE DEF b, c, d
<1>6. CASE d.pc = "away"
  <2>1. b = NoStream /\ b.pc = "none" /\ d.answers = {} /\ d.status = None
    BY <1>5, <1>6 DEF Page, PageFormed, NoStream
  <2>2. c = b
    BY <1>5, <2>1 DEF Told
  <2> QED
    BY <1>5, <2>1, <2>2 DEF Page, PageTrue, PageTold, c, d
<1>7. CASE d.pc # "away" /\ d.session # s
  <2>1. d.session \in Sessions /\ (b.pc # "none" => b.session = d.session)
    BY <1>5, <1>7 DEF Page, PageFormed
  <2>2. c = b /\ session'[d.session] = session[d.session]
    BY <1>2, <1>5, <1>7, <2>1 DEF Told
  <2>3. PageTrue(b, d, session') /\ PageTold(b, d, session') /\ PageFormed(b, d)
    BY <1>5, <2>1, <2>2 DEF Page, PageTrue, PageTold
  <2> QED
    BY <2>2, <2>3 DEF Page, c, d
<1>8. CASE d.pc # "away" /\ d.session = s
  <2>1. /\ (b.pc # "none" => b.session = s) /\ b.told \in Seq(StatusEvent)
        /\ d.version \in Nat /\ d.answers \subseteq StatusEvent
    BY <1>5, <1>8 DEF Page, PageFormed, StreamState, ViewerState
  <2>2. PageFormed(c, d)
    <3>1. CASE c = b
      BY <1>5, <3>1 DEF Page
    <3>2. CASE c # b
      <4>1. b.pc \in {"open", "read"} /\ c.session = s
            /\ (c.pc = "read" => c.told = b.told /\ b.pc = "read")
        BY <1>5, <3>2 DEF Told
      <4>2. d.pc = "reading"
        BY <1>5, <4>1 DEF Page, PageFormed, NoStream
      <4> QED
        BY <1>5, <1>8, <4>1, <4>2 DEF Page, PageFormed
    <3> QED
      BY <3>1, <3>2
  <2>3. PageTrue(c, d, session')
    <3>1. ASSUME NEW x \in d.answers
          PROVE  Held(x, session'[d.session])
      <4>1. Held(x, session[s]) /\ x.version \in Nat
        BY <1>5, <1>8, <2>1 DEF Page, PageTrue, StatusEvent
      <4> QED
        BY <1>3, <1>8, <4>1
    <3>2. d.status # None => Held(d, session'[d.session])
      BY <1>3, <1>5, <1>8, <2>1 DEF Page, PageTrue
    <3>3. ASSUME b.pc # "none", NEW i \in 1 .. Len(b.told)
          PROVE  Held(b.told[i], session'[s])
      <4>1. Held(b.told[i], session[s]) /\ b.told[i] \in StatusEvent
        BY <1>5, <2>1, <3>3 DEF Page, PageTrue
      <4> QED
        BY <1>3, <4>1 DEF StatusEvent
    <3>4. ASSUME c.pc # "none", NEW i \in 1 .. Len(c.told)
          PROVE  Held(c.told[i], session'[c.session])
      <4>1. CASE c.told = b.told /\ b.pc # "none" /\ c.session = s
        BY <3>3, <3>4, <4>1
      <4>2. CASE c.told = Append(b.told, e) /\ b.pc # "none" /\ c.session = s
        <5>1. CASE i \in 1 .. Len(b.told)
          BY <2>1, <3>3, <4>2, <5>1
        <5>2. CASE i = Len(b.told) + 1
          BY <1>4, <2>1, <4>2, <5>2
        <5> QED
          BY <2>1, <3>4, <4>2, <5>1, <5>2
      <4> QED
        BY <1>5, <2>1, <3>4, <4>1, <4>2 DEF Told
    <3> QED
      BY <3>1, <3>2, <3>4 DEF PageTrue
  <2>4. PageTold(c, d, session')
    <3> SUFFICES ASSUME c.pc \in {"read", "open"}, ~ c.gap
                 PROVE  \E i \in 1 .. Len(c.told) :
                           /\ c.told[i].status = session'[c.session].status
                           /\ c.told[i].version = session'[c.session].version
      BY DEF PageTold
    <3>1. c.told = Append(b.told, e) /\ c.session = s
      BY <1>5, <2>1 DEF Told
    <3>2. Len(b.told) + 1 \in 1 .. Len(c.told) /\ c.told[Len(b.told) + 1] = e
      BY <2>1, <3>1, <1>4
    <3> QED
      BY <1>2, <1>4, <3>1, <3>2
  <2> QED
    BY <2>2, <2>3, <2>4 DEF Page, c, d
<1> QED
  BY <1>6, <1>7, <1>8

LEMMA CrashPages ==
  ASSUME PagesFormed, Crash
  PROVE  PagesFormed'
<1>1. /\ session' = session
      /\ stream' = [v \in Viewers |-> NoStream]
      /\ viewer' = [v \in Viewers |-> IF viewer[v].pc = "reading" THEN Disconnected(v)
                                                                ELSE viewer[v]]
  BY DEF Crash
<1>2. ASSUME NEW v \in Viewers
      PROVE  Page(NoStream, viewer'[v], session)
  <2>1. CASE viewer[v].pc = "reading"
    BY <1>1, <2>1, DisconnectedPage
  <2>2. CASE viewer[v].pc # "reading"
    BY <1>1, <2>2 DEF PagesFormed, Page, PageFormed
  <2> QED
    BY <2>1, <2>2
<1>3. \A v \in Viewers : viewer'[v] \in ViewerState
  BY <1>2 DEF Page, PageFormed
<1>4. NoStream \in StreamState
  BY DEF NoStream, StreamState
<1>5. viewer' \in [Viewers -> ViewerState] /\ stream' \in [Viewers -> StreamState]
  BY <1>1, <1>3, <1>4
<1>6. QED
  BY <1>1, <1>2, <1>5 DEF PagesFormed

LEMMA PagesKept ==
  ASSUME Formed, [Next]_vars
  PROVE  PagesFormed'
<1>0. SessionsFormed /\ PagesFormed
  BY DEF Formed
<1>1. ASSUME viewer' = viewer, SessionMove
      PROVE  PagesFormed'
  <2>1. PICK s \in Sessions :
          \/ \E a \in Drafts : Answered(s, a)
          \/ Asked(s)
          \/ \E f \in Drafts \cup {None} : Assessed(s, f)
          \/ \E to \in SessionStatus : Moved(s, to)
    BY <1>1 DEF SessionMove
  <2>2. ASSUME NEW a \in Drafts, Answered(s, a)
        PROVE  PagesFormed'
    BY <1>0, <1>1, <2>2, AnsweredDoc, QuietPages DEF Answered
  <2>3. CASE Asked(s)
    BY <1>0, <1>1, <2>3, AskedDoc, QuietPages DEF Asked
  <2>4. ASSUME NEW f \in Drafts \cup {None}, Assessed(s, f)
        PROVE  PagesFormed'
    BY <1>0, <1>1, <2>4, AssessedDoc, QuietPages DEF Assessed
  <2>5. QED
    BY <1>0, <1>1, <2>1, <2>2, <2>3, <2>4, MovedPages
<1>2. ASSUME viewer' = viewer, session' = session, stream' = stream
      PROVE  PagesFormed'
  BY <1>0, <1>2, QuietPages
<1>3. ASSUME NEW v \in Viewers, PageStep(v), session' = session
      PROVE  PagesFormed'
  <2>1. CASE \E s \in Sessions : Watch(v, s)
    BY <1>0, <1>3, <2>1, WatchPage
  <2>2. CASE Drop(v)
    BY <1>0, <1>3, <2>2, EndPage
  <2>3. CASE ViewerStep(v)
    BY <1>0, <1>3, <2>3, ConnectPage, SubscribePage, ReceivePage, EndPage, ReconnectPage, AskPage,
       AnswerPage DEF ViewerStep
  <2> QED
    BY <1>3, <2>1, <2>2, <2>3 DEF PageStep
<1>4. QED
  BY <1>0, <1>1, <1>2, <1>3, PageSteps, CrashPages

LEMMA FormedKept ==
  ASSUME Formed, [Next]_vars
  PROVE  Formed'
<1>1. SessionsFormed'
  BY SessionMoves, MoveKeeps DEF Formed
<1>2. QED
  BY <1>1, RequestsKept, JobsKept, WorkersKept, QuestionsKept, PagesKept, ClockKept DEF Formed

LEMMA InitFormed ==
  ASSUME Init
  PROVE  Formed
<1>1. SessionsFormed
  <2>1. ASSUME NEW st \in StartStatus
        PROVE  NewSession(st) \in SessionDoc
    <3>1. st \in SessionStatus
      BY InterviewAssumption DEF SessionStatus
    <3>2. CASE st = "PENDING"
      BY <3>1, <3>2 DEF NewSession, SessionDoc
    <3>3. CASE st # "PENDING"
      BY <3>1, <3>3 DEF NewSession, SessionDoc
    <3> QED
      BY <3>2, <3>3
  <2> QED
    BY <2>1 DEF Init, SessionsFormed
<1>2. RequestsFormed
  BY NewRequestFormed DEF Init, RequestsFormed, RequestFormed
<1>3. JobsFormed
  BY DEF Init, JobsFormed
<1>4. WorkersFormed
  BY DEF Init, WorkersFormed, WorkerFormed, WorkerState, IdleWorker
<1>5. PagesFormed
  <2>1. /\ AwayViewer \in ViewerState /\ AwayViewer.status = None
        /\ AwayViewer.version = 0 /\ AwayViewer.answers = {} /\ AwayViewer.pc = "away"
    BY Bounds DEF AwayViewer, ViewerState
  <2>2. Page(NoStream, AwayViewer, session)
    BY <2>1, NoStreamPage
  <2>3. NoStream \in StreamState
    BY DEF NoStream, StreamState
  <2> QED
    BY <2>1, <2>2, <2>3 DEF Init, PagesFormed
<1>6. EndsWithQuestions
  BY DEF Init, EndsWithQuestions, At, NewRequest, IdleWorker
<1>7. ClockFormed
  BY Bounds, InterviewAssumption DEF Init, ClockFormed, Days
<1>8. QED
  BY <1>1, <1>2, <1>3, <1>4, <1>5, <1>6, <1>7 DEF Formed

-----------------------------------------------------------------------------
(* Part 3. *)
LEMMA PastGenerationKept ==
  ASSUME SessionsFormed, PastGenerationHasQuestions, SessionMove \/ session' = session
  PROVE  PastGenerationHasQuestions'
<1> SUFFICES ASSUME NEW t \in Sessions,
                    session'[t].status \in {"IN_PROGRESS", "EVALUATING", "COMPLETED"}
             PROVE  session'[t].questions
  BY DEF PastGenerationHasQuestions
<1>0. session[t].questions => session'[t].questions
  BY MoveKeeps
<1>1. CASE session'[t].status = session[t].status
  BY <1>0, <1>1 DEF PastGenerationHasQuestions
<1>2. CASE session'[t].status # session[t].status
  <2>1. PICK s \in Sessions, to \in SessionStatus : Moved(s, to)
    BY <1>2, AnsweredDoc, AskedDoc, AssessedDoc DEF SessionMove
  <2>2. t = s /\ session'[t].status = to /\ to \in legalTransitions[session[t].status]
    BY <1>2, <2>1, MovedDoc DEF Moved
  <2>3. session[t].status \in SessionStatus
    BY StatusNotNone
  <2>4. session[t].questions
    BY <2>1, <2>2, <2>3 DEF Moved, PastGenerationHasQuestions, legalTransitions, SessionStatus
  <2> QED
    BY <1>0, <2>4
<1> QED
  BY <1>1, <1>2

(* What the property QuestionsStand says of one step.                      *)
LEMMA AnswersKept ==
  ASSUME SessionsFormed, SessionMove \/ session' = session, NEW t \in Sessions,
         session[t].questions
  PROVE  /\ session'[t].questions
         /\ session[t].answers # None => session'[t].answers # None
<1>1. session'[t].questions
  BY MoveKeeps
<1>2. CASE session' = session
  BY <1>2
<1>3. CASE SessionMove
  <2>1. PICK s \in Sessions :
          \/ \E a \in Drafts : Answered(s, a)
          \/ Asked(s)
          \/ \E f \in Drafts \cup {None} : Assessed(s, f)
          \/ \E to \in SessionStatus : Moved(s, to)
    BY <1>3 DEF SessionMove
  <2>2. CASE \E a \in Drafts : Answered(s, a)
    BY <2>2, AnsweredDoc, NoneIsNothing
  <2>3. CASE Asked(s)
    BY <2>3, AskedDoc
  <2>4. CASE \E f \in Drafts \cup {None} : Assessed(s, f)
    BY <2>4, AssessedDoc
  <2>5. CASE \E to \in SessionStatus : Moved(s, to)
    BY <2>5, MovedDoc
  <2>6. QED
    BY <1>1, <2>1, <2>2, <2>3, <2>4, <2>5
<1> QED
  BY <1>1, <1>2, <1>3

-----------------------------------------------------------------------------
(* Part 4.  What a step may do to the counters.                            *)
RateQuiet ==
  /\ rate' = rate
  /\ \A r \in Requests :
       /\ request'[r].admitted = request[r].admitted
       /\ request[r].admitted => /\ request'[r].kind = request[r].kind
                                 /\ request'[r].window = request[r].window
Admits(r) ==
  /\ request[r].pc \in {"consume", "reconsume"} /\ Count(r) < RateLimit
  /\ rate' = Counted(r) /\ Admit(r)

QuotaQuietOf(q, n) ==
  \/ n = q
  \/ /\ n.holder = q.holder /\ q.pc # "done" /\ n.pc # "done"
     /\ q.holder => n.session = q.session /\ n.day = q.day
QuotaQuiet ==
  quota' = quota /\ \A r \in Requests : QuotaQuietOf(request[r], request'[r])
Reserves(r) ==
  /\ At(r, "reserve") /\ quota[request[r].day].used < DailyLimit /\ Mark(r) = "NONE"
  /\ quota' = Marked(r, quota[request[r].day].used + 1, "RESERVED")
  /\ request' = [request EXCEPT ![r].pc = "read", ![r].holder = TRUE]

LEMMA LimiterEffects ==
  ASSUME Formed, NEW r \in Requests, Arrive(r) \/ LimiterStep(r)
  PROVE  (RateQuiet \/ Admits(r)) /\ QuotaQuiet
<1>0. RequestsFormed /\ RequestFormed(request[r])
  BY DEF Formed, RequestsFormed
<1>1. CASE Arrive(r)
  <2>1. PICK k \in Kinds, s \in Sessions, a \in Drafts :
          request' = [request EXCEPT ![r] =
            [NewRequest EXCEPT !.pc = "consume", !.kind = k, !.session = s,
                               !.draft = IF k = "generate" THEN None ELSE a,
                               !.day = today, !.window = today]]
    BY <1>1 DEF Arrive
  <2> DEFINE q == [NewRequest EXCEPT !.pc = "consume", !.kind = k, !.session = s,
                               !.draft = IF k = "generate" THEN None ELSE a,
                               !.day = today, !.window = today]
  <2>2. q.pc = "consume" /\ ~ q.admitted /\ ~ q.holder /\ q.admitted = FALSE /\ q.holder = FALSE
    BY DEF NewRequest
  <2> HIDE DEF q
  <2>3. request'[r] = q /\ \A p \in Requests \ {r} : request'[p] = request[p]
    BY <1>0, <2>1 DEF RequestsFormed, q
  <2>4. /\ request[r].pc = "new" /\ request[r].admitted = FALSE /\ request[r].holder = FALSE
        /\ rate' = rate /\ quota' = quota
    <3>1. NewRequest.admitted = FALSE /\ NewRequest.holder = FALSE
      BY DEF NewRequest
    <3> QED
      BY <1>0, <1>1, <3>1 DEF Arrive, At, RequestFormed, serverVars
  <2>5. QED
    BY <2>2, <2>3, <2>4 DEF RateQuiet, QuotaQuiet, QuotaQuietOf
<1>2. CASE LimiterStep(r)
  <2>1. /\ request[r].pc \in {"consume", "reconsume"} /\ quota' = quota
        /\ \/ Admits(r)
           \/ rate' = rate /\ (Go(r, "reconsume") \/ Respond(r, "limited"))
    BY <1>2 DEF LimiterStep, Consume, Reconsume, At, Admits
  <2>2. CASE Admits(r)
    <3>1. request'[r].pc \in {"look", "read"}
      BY <1>0, <2>2, AdmitMoves DEF Admits
    <3> QED
      BY <1>0, <2>1, <2>2, <3>1, AdmitMoves DEF Admits, QuotaQuiet, QuotaQuietOf
  <2>3. CASE rate' = rate /\ Go(r, "reconsume")
    BY <1>0, <2>1, <2>3, GoMoves DEF RateQuiet, QuotaQuiet, QuotaQuietOf
  <2>4. CASE rate' = rate /\ Respond(r, "limited")
    BY <1>0, <2>1, <2>4, RespondMoves DEF RateQuiet, QuotaQuiet, QuotaQuietOf
  <2> QED
    BY <2>1, <2>2, <2>3, <2>4
<1> QED
  BY <1>1, <1>2

LEMMA QuotaEffects ==
  ASSUME Formed, NEW r \in Requests, QuotaStep(r) \/ Disconnect(r)
  PROVE  RateQuiet /\ (QuotaQuiet \/ Reserves(r) \/ Finish(r) \/ Disconnect(r))
<1>0. RequestsFormed /\ RequestFormed(request[r]) /\ ClockFormed
  BY DEF Formed, RequestsFormed
<1>1. CASE Look(r)
  <2>1. rate' = rate /\ quota' = quota /\ request[r].pc = "look" /\ ~ request[r].holder
    BY <1>0, <1>1 DEF Look, serverVars, At, RequestFormed
  <2> QED
    BY <1>0, <1>1, <2>1, DatedMoves DEF RateQuiet, QuotaQuiet, QuotaQuietOf
<1>2. CASE Reserve(r)
  <2>1. /\ rate' = rate /\ request[r].pc = "reserve"
        /\ Reserves(r) \/ (Go(r, "inspect") /\ quota' = quota)
    BY <1>2 DEF Reserve, At, Reserves
  <2>2. CASE Reserves(r)
    BY <1>0, <2>1, <2>2, ReservedMoves DEF Reserves, RateQuiet
  <2>3. CASE Go(r, "inspect") /\ quota' = quota
    BY <1>0, <2>1, <2>3, GoMoves DEF RateQuiet, QuotaQuiet, QuotaQuietOf
  <2> QED
    BY <2>1, <2>2, <2>3
<1>3. CASE Inspect(r)
  <2>1. rate' = rate /\ quota' = quota /\ request[r].pc = "inspect"
        /\ (Go(r, "read") \/ Respond(r, "limited"))
    BY <1>3 DEF Inspect, serverVars, At
  <2>2. CASE Go(r, "read")
    BY <1>0, <2>1, <2>2, GoMoves DEF RateQuiet, QuotaQuiet, QuotaQuietOf
  <2>3. CASE Respond(r, "limited")
    BY <1>0, <2>1, <2>3, RespondMoves DEF RateQuiet, QuotaQuiet, QuotaQuietOf
  <2> QED
    BY <2>1, <2>2, <2>3
<1>4. CASE Finish(r)
  BY <1>0, <1>4, GoMoves DEF Finish, RateQuiet
<1>5. CASE Disconnect(r)
  <2>1. rate' = rate /\ request' = [request EXCEPT ![r].holder = FALSE]
    BY <1>5 DEF Disconnect
  <2> QED
    BY <1>0, <1>5, <2>1, LetGoMoves DEF RateQuiet
<1> QED
  BY <1>1, <1>2, <1>3, <1>4, <1>5 DEF QuotaStep

LEMMA ServiceEffects ==
  ASSUME Formed, NEW r \in Requests, ServiceStep(r)
  PROVE  RateQuiet /\ QuotaQuiet
<1>1. rate' = rate /\ quota' = quota
  BY DEF ServiceStep, ReadSession, WriteAnswers, Enqueue, Act, CallProvider, StoreOutput,
        EndStage, FailStage, serverVars
<1>2. RequestMove(r) /\ Apart(request[r], request'[r])
  BY ServiceMoves DEF Formed
<1>3. QED
  BY <1>1, <1>2 DEF RequestMove, Apart, Kept, RateQuiet, QuotaQuiet, QuotaQuietOf

LEMMA CrashRequests ==
  ASSUME RequestsFormed, Crash, NEW r \in Requests
  PROVE  LET q == request[r]
             n == request'[r]
         IN /\ n.admitted = q.admitted /\ n.kind = q.kind /\ n.window = q.window
            /\ n.holder = q.holder /\ n.day = q.day /\ n.session = q.session
            /\ IF q.pc \in {"new", "done"} THEN n = q ELSE n.pc = "done" /\ n.code = "lost"
<1> DEFINE q == [request[r] EXCEPT !.pc = "done", !.code = "lost"]
<1>1. request'[r] = IF request[r].pc \in {"new", "done"} THEN request[r] ELSE q
  BY DEF Crash
<1>2. request[r] \in RequestState
  BY DEF RequestsFormed
<1>3. /\ q.admitted = request[r].admitted /\ q.kind = request[r].kind
      /\ q.window = request[r].window /\ q.holder = request[r].holder
      /\ q.day = request[r].day /\ q.session = request[r].session
      /\ q.pc = "done" /\ q.code = "lost"
  BY <1>2 DEF RequestState
<1> HIDE DEF q
<1>4. QED
  BY <1>1, <1>3

LEMMA CounterSteps ==
  ASSUME Formed, [Next]_vars
  PROVE  /\ RateQuiet \/ \E r \in Requests : Admits(r)
         /\ QuotaQuiet \/ Crash \/ \E r \in Requests : Reserves(r) \/ Finish(r) \/ Disconnect(r)
<1>1. ASSUME request' = request, rate' = rate, quota' = quota
      PROVE  RateQuiet /\ QuotaQuiet
  BY <1>1 DEF RateQuiet, QuotaQuiet, QuotaQuietOf
<1>2. ASSUME NEW w \in Workers, JobStep(w)
      PROVE  RateQuiet /\ QuotaQuiet
  BY <1>1, <1>2 DEF JobStep, TakeJob, JobCalls, JobStores, JobCompletes, JobFails
<1>3. ASSUME NEW v \in Viewers, ViewerStep(v) \/ (\E s \in Sessions : Watch(v, s)) \/ Drop(v)
      PROVE  RateQuiet /\ QuotaQuiet
  BY <1>1, <1>3 DEF ViewerStep, Connect, Subscribe, Receive, EndOfStream, Reconnect, Ask, Answer,
              Watch, Drop
<1>4. ASSUME NewDay \/ Rest \/ UNCHANGED vars
      PROVE  RateQuiet /\ QuotaQuiet
  BY <1>1, <1>4 DEF NewDay, Rest, vars, serverVars
<1>5. ASSUME Crash
      PROVE  RateQuiet
  BY <1>5, CrashRequests DEF Crash, RateQuiet, Formed
<1>6. QED
  BY <1>2, <1>3, <1>4, <1>5, LimiterEffects, QuotaEffects, ServiceEffects DEF Next, RequestStep

(* The rate limiter.                                                       *)
Passed(k, d) == {r \in Requests : /\ request[r].admitted /\ request[r].kind = k
                                 /\ request[r].window = d}
RateFormed == rate \in [Kinds -> [Days -> Nat]]
RateInv == RateFormed /\ WithinRate

LEMMA RateKept ==
  ASSUME Formed, RateInv, RateQuiet \/ \E r \in Requests : Admits(r)
  PROVE  RateInv'
<1>1. CASE RateQuiet
  <2>1. \A k \in Kinds, d \in Days : Passed(k, d)' = Passed(k, d)
    BY <1>1 DEF RateQuiet, Passed
  <2> QED
    BY <1>1, <2>1 DEF RateInv, RateFormed, WithinRate, RateQuiet, Passed
<1>2. ASSUME NEW r \in Requests, Admits(r)
      PROVE  RateInv'
  <2> DEFINE k0 == request[r].kind
             d0 == request[r].window
  <2>1. RequestsFormed /\ RequestFormed(request[r]) /\ request[r] \in RequestState
    BY DEF Formed, RequestsFormed
  <2>2. k0 \in Kinds /\ d0 \in Days /\ ~ request[r].admitted
    BY <1>2, <2>1 DEF Admits, RequestFormed, RequestState
  <2>3. /\ request'[r].admitted /\ request'[r].kind = k0 /\ request'[r].window = d0
        /\ \A p \in Requests \ {r} : request'[p] = request[p]
    BY <1>2, <2>1, AdmitMoves DEF Admits
  <2>4. rate' = [rate EXCEPT ![k0][d0] = rate[k0][d0] + 1] /\ rate[k0][d0] < RateLimit
    BY <1>2 DEF Admits, Counted, Count
  <2> HIDE DEF k0, d0
  <2>5. RateFormed'
    BY <2>2, <2>4 DEF RateInv, RateFormed
  <2>6. \A k \in Kinds, d \in Days :
           rate'[k][d] = IF k = k0 /\ d = d0 THEN rate[k][d] + 1 ELSE rate[k][d]
    BY <2>2, <2>4 DEF RateInv, RateFormed
  <2>7. ASSUME NEW k \in Kinds, NEW d \in Days
        PROVE  Cardinality(Passed(k, d)') = rate'[k][d] /\ rate'[k][d] <= RateLimit
    <3>1. /\ Cardinality(Passed(k, d)) = rate[k][d] /\ rate[k][d] <= RateLimit
          /\ rate[k][d] \in Nat /\ RateLimit \in Nat
      BY Bounds DEF RateInv, RateFormed, WithinRate, Passed
    <3>2. CASE k = k0 /\ d = d0
      <4>1. Passed(k, d)' = Passed(k, d) \cup {r} /\ r \notin Passed(k, d)
        BY <2>2, <2>3, <3>2 DEF Passed
      <4>2. IsFiniteSet(Passed(k, d))
        BY Bounds, FS_Subset DEF Passed
      <4>3. Cardinality(Passed(k, d)') = rate[k][d] + 1
        BY <3>1, <4>1, <4>2, FS_AddElement
      <4> QED
        BY <2>4, <2>6, <3>1, <3>2, <4>3
    <3>3. CASE ~ (k = k0 /\ d = d0)
      <4>1. Passed(k, d)' = Passed(k, d)
        BY <2>2, <2>3, <3>3 DEF Passed
      <4> QED
        BY <2>6, <3>1, <3>3, <4>1
    <3> QED
      BY <3>2, <3>3
  <2>8. QED
    BY <2>5, <2>7 DEF RateInv, WithinRate, Passed
<1>3. QED
  BY <1>1, <1>2

(* The quota.                                                              *)
QuotaFormed == quota \in [Days -> QuotaDoc]
OneHolder ==
  \A s \in Sessions, d \in Days, p, r \in Requests : Holds(p, s, d) /\ Holds(r, s, d) => p = r
HolderReserved ==
  \A s \in Sessions, d \in Days, r \in Requests : Holds(r, s, d) => quota[d].mark[s] = "RESERVED"
ReservedHeld ==
  \A s \in Sessions, d \in Days :
    quota[d].mark[s] = "RESERVED" =>
      \/ \E r \in Requests : Holds(r, s, d)
      \/ \E r \in Requests : request[r].code = "lost"
Paid(r, s, d) == /\ request[r].holder /\ request[r].code = "ok" /\ request[r].pc = "done"
                 /\ request[r].session = s /\ request[r].day = d
QuotaInv ==
  /\ QuotaFormed /\ UsedCountsReservations /\ OneHolder /\ HolderReserved /\ ReservedHeld
  /\ SpentOnSuccess

LEMMA MarkedQuota ==
  ASSUME QuotaFormed, NEW r \in Requests, request[r].day \in Days, request[r].session \in Sessions,
         NEW n \in Nat, NEW m \in {"NONE", "RESERVED", "COMMITTED"}, quota' = Marked(r, n, m)
  PROVE  /\ QuotaFormed'
         /\ \A d \in Days : quota'[d].used = IF d = request[r].day THEN n ELSE quota[d].used
         /\ \A d \in Days, s \in Sessions :
              quota'[d].mark[s] = IF d = request[r].day /\ s = request[r].session THEN m
                                  ELSE quota[d].mark[s]
<1> DEFINE d0 == request[r].day
           s0 == request[r].session
           mark == [quota[d0].mark EXCEPT ![s0] = m]
           doc == [used |-> n, mark |-> mark]
<1>1. quota' = [quota EXCEPT ![d0] = doc]
  BY DEF Marked, QuotaFormed
<1>2. /\ mark \in [Sessions -> {"NONE", "RESERVED", "COMMITTED"}]
      /\ \A s \in Sessions : mark[s] = IF s = s0 THEN m ELSE quota[d0].mark[s]
  BY DEF QuotaFormed, QuotaDoc
<1> HIDE DEF mark
<1>3. doc \in QuotaDoc /\ doc.used = n /\ doc.mark = mark
  BY <1>2 DEF QuotaDoc
<1> HIDE DEF doc, d0, s0
<1>4. /\ QuotaFormed' /\ d0 \in Days
      /\ \A d \in Days : quota'[d] = IF d = d0 THEN doc ELSE quota[d]
  BY <1>1, <1>3 DEF QuotaFormed, d0
<1>5. QED
  BY <1>2, <1>3, <1>4 DEF d0, s0

LEMMA OneAtMost ==
  ASSUME NEW S, IsFiniteSet(S)
  PROVE  (\A x, y \in S : x = y) => Cardinality(S) <= 1
<1>1. CASE S = {}
  BY <1>1, FS_EmptySet
<1>2. CASE S # {}
  <2> SUFFICES ASSUME \A x, y \in S : x = y
               PROVE  Cardinality(S) <= 1
    OBVIOUS
  <2>1. PICK x : x \in S
    BY <1>2
  <2>2. S = {x}
    BY <2>1
  <2> QED
    BY <2>2, FS_Singleton
<1> QED
  BY <1>1, <1>2

(* How the number of marks follows one mark.                               *)
LEMMA MarkCounts ==
  ASSUME QuotaFormed, QuotaFormed', UsedCountsReservations, NEW d0 \in Days, NEW s0 \in Sessions,
         NEW m \in {"NONE", "RESERVED", "COMMITTED"},
         \A d \in Days, s \in Sessions :
           quota'[d].mark[s] = IF d = d0 /\ s = s0 THEN m ELSE quota[d].mark[s],
         \A d \in Days \ {d0} : quota'[d].used = quota[d].used,
         LET old == quota[d0].mark[s0] IN
           \/ /\ old = "NONE" /\ m # "NONE"
              /\ quota'[d0].used = quota[d0].used + 1 /\ quota[d0].used < DailyLimit
           \/ old # "NONE" /\ m = "NONE" /\ quota'[d0].used = quota[d0].used - 1
           \/ old # "NONE" /\ m # "NONE" /\ quota'[d0].used = quota[d0].used
  PROVE  UsedCountsReservations'
<1> DEFINE M(d) == Marks(d, {"RESERVED", "COMMITTED"})
<1>1. \A d \in Days : /\ quota[d].used \in Nat /\ quota'[d].used \in Nat
                     /\ quota[d].mark \in [Sessions -> {"NONE", "RESERVED", "COMMITTED"}]
  BY DEF QuotaFormed, QuotaDoc
<1>2. \A d \in Days : IsFiniteSet(M(d)) /\ Cardinality(M(d)) = quota[d].used
                     /\ quota[d].used <= DailyLimit
  BY Bounds, FS_Subset DEF Marks, UsedCountsReservations
<1>3. ASSUME NEW d \in Days \ {d0}
      PROVE  Cardinality(M(d)') = quota'[d].used /\ quota'[d].used <= DailyLimit
  <2>1. M(d)' = M(d)
    BY DEF Marks
  <2> QED
    BY <1>2, <2>1
<1>4. Cardinality(M(d0)') = quota'[d0].used /\ quota'[d0].used <= DailyLimit
  <2>0. DailyLimit \in Nat
    BY Bounds
  <2>1. CASE quota[d0].mark[s0] = "NONE" /\ m # "NONE"
    <3>1. M(d0)' = M(d0) \cup {s0} /\ s0 \notin M(d0)
      BY <2>1 DEF Marks
    <3>2. Cardinality(M(d0)') = Cardinality(M(d0)) + 1
      BY <1>2, <3>1, FS_AddElement
    <3> QED
      BY <1>1, <1>2, <2>0, <2>1, <3>2
  <2>2. CASE quota[d0].mark[s0] # "NONE" /\ m = "NONE"
    <3>1. M(d0)' = M(d0) \ {s0} /\ s0 \in M(d0)
      BY <1>1, <2>2 DEF Marks
    <3>2. Cardinality(M(d0)') = Cardinality(M(d0)) - 1
      BY <1>2, <3>1, FS_RemoveElement
    <3> QED
      BY <1>1, <1>2, <2>0, <2>2, <3>2
  <2>3. CASE quota[d0].mark[s0] # "NONE" /\ m # "NONE"
    <3>1. M(d0)' = M(d0)
      BY <1>1, <2>3 DEF Marks
    <3> QED
      BY <1>1, <1>2, <2>3, <3>1
  <2> QED
    BY <2>1, <2>2, <2>3
<1> HIDE DEF M
<1>5. \A d \in Days : Cardinality(M(d)') = quota'[d].used /\ quota'[d].used <= DailyLimit
  BY <1>3, <1>4
<1>6. QED
  BY <1>5 DEF UsedCountsReservations, M

LEMMA MarkedIsCounted ==
  ASSUME QuotaFormed, UsedCountsReservations, NEW d \in Days, NEW s \in Sessions,
         quota[d].mark[s] # "NONE"
  PROVE  quota[d].used \in Nat /\ quota[d].used - 1 \in Nat
<1> DEFINE M == Marks(d, {"RESERVED", "COMMITTED"})
<1>1. s \in M
  BY DEF Marks, QuotaFormed, QuotaDoc
<1>2. IsFiniteSet(M) /\ Cardinality(M) = quota[d].used /\ quota[d].used \in Nat
  BY Bounds, FS_Subset DEF Marks, UsedCountsReservations, QuotaFormed, QuotaDoc
<1> HIDE DEF M
<1>3. Cardinality(M) # 0
  BY <1>1, <1>2, FS_EmptySet
<1>4. QED
  BY <1>2, <1>3

LEMMA QuietQuota ==
  ASSUME QuotaInv, QuotaQuiet, \A r \in Requests : RequestFormed(request[r])
  PROVE  QuotaInv'
<1>1. quota' = quota /\ \A r \in Requests : QuotaQuietOf(request[r], request'[r])
  BY DEF QuotaQuiet
<1>2. \A r \in Requests, s \in Sessions, d \in Days :
        /\ Holds(r, s, d)' <=> Holds(r, s, d)
        /\ Paid(r, s, d)' <=> Paid(r, s, d)
  BY <1>1 DEF QuotaQuietOf, Holds, Paid
<1>3. \A r \in Requests : request[r].code = "lost" => request'[r].code = "lost"
  <2>1. "lost" # None
    BY InterviewAssumption
  <2> QED
    BY <1>1, <2>1 DEF QuotaQuietOf, RequestFormed
<1>4. QuotaFormed' /\ UsedCountsReservations'
  BY <1>1 DEF QuotaInv, QuotaFormed, UsedCountsReservations, Marks
<1>5. OneHolder' /\ HolderReserved'
  BY <1>1, <1>2 DEF QuotaInv, OneHolder, HolderReserved
<1>6. ReservedHeld'
  BY <1>1, <1>2, <1>3 DEF QuotaInv, ReservedHeld
<1>7. SpentOnSuccess'
  BY <1>1, <1>2 DEF QuotaInv, SpentOnSuccess, Paid
<1>8. QED
  BY <1>4, <1>5, <1>6, <1>7 DEF QuotaInv

LEMMA CrashQuota ==
  ASSUME QuotaInv, RequestsFormed, Crash
  PROVE  QuotaInv'
<1>0. quota' = quota
  BY DEF Crash
<1>1. \A r \in Requests : request[r].pc = "new" => ~ request[r].holder
  <2>1. ~ NewRequest.holder
    BY DEF NewRequest
  <2> QED
    BY <2>1 DEF RequestsFormed, RequestFormed
<1>2. \A r \in Requests, s \in Sessions, d \in Days :
        /\ ~ Holds(r, s, d)'
        /\ Holds(r, s, d) => request'[r].code = "lost"
        /\ Paid(r, s, d)' <=> Paid(r, s, d)
  BY <1>1, CrashRequests DEF Holds, Paid
<1>3. \A r \in Requests : request[r].code = "lost" => request'[r].code = "lost"
  <2>1. "lost" # None
    BY InterviewAssumption
  <2> QED
    BY <2>1, CrashRequests DEF RequestsFormed, RequestFormed
<1>4. QuotaFormed' /\ UsedCountsReservations'
  BY <1>0 DEF QuotaInv, QuotaFormed, UsedCountsReservations, Marks
<1>5. OneHolder' /\ HolderReserved'
  BY <1>2 DEF OneHolder, HolderReserved
<1>6. ReservedHeld'
  BY <1>0, <1>2, <1>3 DEF QuotaInv, ReservedHeld
<1>7. SpentOnSuccess'
  BY <1>0, <1>2 DEF QuotaInv, SpentOnSuccess, Paid
<1>8. QED
  BY <1>4, <1>5, <1>6, <1>7 DEF QuotaInv

(* One request and the mark it is about.                                   *)
OneMark(r, m) ==
  /\ QuotaFormed' /\ UsedCountsReservations'
  /\ \A d \in Days, s \in Sessions :
       quota'[d].mark[s] = IF d = request[r].day /\ s = request[r].session THEN m
                           ELSE quota[d].mark[s]
  /\ \A p \in Requests \ {r} : request'[p] = request[p]
  /\ request'[r].session = request[r].session /\ request'[r].day = request[r].day

LEMMA OthersKept ==
  ASSUME QuotaInv, NEW r \in Requests, NEW m, OneMark(r, m),
         request[r].code # "lost", request[r].session \in Sessions, request[r].day \in Days,
         ~ \E p \in Requests \ {r} : \/ Holds(p, request[r].session, request[r].day)
                                    \/ Paid(p, request[r].session, request[r].day),
         LET s == request[r].session
             d == request[r].day
         IN \/ m = "RESERVED" /\ Holds(r, s, d)' /\ ~ Paid(r, s, d)'
            \/ m = "COMMITTED" /\ ~ Holds(r, s, d)' /\ Paid(r, s, d)'
            \/ m = "NONE" /\ ~ Holds(r, s, d)' /\ ~ Paid(r, s, d)',
         request[r].pc # "done"
  PROVE  QuotaInv'
<1>0. PICK s0 \in Sessions, d0 \in Days : s0 = request[r].session /\ d0 = request[r].day
  OBVIOUS
<1>1. \A p \in Requests \ {r}, s \in Sessions, d \in Days :
        /\ Holds(p, s, d)' <=> Holds(p, s, d)
        /\ Paid(p, s, d)' <=> Paid(p, s, d)
  BY DEF OneMark, Holds, Paid
<1>2. \A s \in Sessions, d \in Days :
        ~ (s = s0 /\ d = d0) => /\ ~ Holds(r, s, d)' /\ ~ Paid(r, s, d)'
                               /\ ~ Holds(r, s, d) /\ ~ Paid(r, s, d)
  BY <1>0 DEF OneMark, Holds, Paid
<1>3. \A p \in Requests : request[p].code = "lost" => request'[p].code = "lost"
  BY DEF OneMark
<1>4. \A s \in Sessions, d \in Days :
        quota'[d].mark[s] = IF d = d0 /\ s = s0 THEN m ELSE quota[d].mark[s]
  BY <1>0 DEF OneMark
<1>5. /\ \/ m = "RESERVED" /\ Holds(r, s0, d0)' /\ ~ Paid(r, s0, d0)'
         \/ m = "COMMITTED" /\ ~ Holds(r, s0, d0)' /\ Paid(r, s0, d0)'
         \/ m = "NONE" /\ ~ Holds(r, s0, d0)' /\ ~ Paid(r, s0, d0)'
      /\ \A p \in Requests \ {r} : ~ Holds(p, s0, d0) /\ ~ Paid(p, s0, d0)
  BY <1>0 DEF OneMark, Holds, Paid
<1>6. OneHolder'
  <2> SUFFICES ASSUME NEW s \in Sessions, NEW d \in Days, NEW p \in Requests, NEW q \in Requests,
                      Holds(p, s, d)', Holds(q, s, d)'
               PROVE  p = q
    BY DEF OneHolder
  <2>1. CASE s = s0 /\ d = d0
    BY <1>1, <1>5, <2>1
  <2>2. CASE ~ (s = s0 /\ d = d0)
    BY <1>1, <1>2, <2>2 DEF QuotaInv, OneHolder
  <2> QED
    BY <2>1, <2>2
<1>7. HolderReserved'
  <2> SUFFICES ASSUME NEW s \in Sessions, NEW d \in Days, NEW p \in Requests, Holds(p, s, d)'
               PROVE  quota'[d].mark[s] = "RESERVED"
    BY DEF HolderReserved
  <2>1. CASE s = s0 /\ d = d0
    BY <1>1, <1>4, <1>5, <2>1
  <2>2. CASE ~ (s = s0 /\ d = d0)
    BY <1>1, <1>2, <1>4, <2>2 DEF QuotaInv, HolderReserved
  <2> QED
    BY <2>1, <2>2
<1>8. ReservedHeld'
  <2> SUFFICES ASSUME NEW s \in Sessions, NEW d \in Days, quota'[d].mark[s] = "RESERVED"
               PROVE  \/ \E p \in Requests : Holds(p, s, d)'
                      \/ \E p \in Requests : request'[p].code = "lost"
    BY DEF ReservedHeld
  <2>1. CASE s = s0 /\ d = d0
    BY <1>4, <1>5, <2>1
  <2>2. CASE ~ (s = s0 /\ d = d0)
    <3>1. \/ \E p \in Requests : Holds(p, s, d)
          \/ \E p \in Requests : request[p].code = "lost"
      BY <1>4, <2>2 DEF QuotaInv, ReservedHeld
    <3> QED
      BY <1>1, <1>2, <1>3, <2>2, <3>1
  <2> QED
    BY <2>1, <2>2
<1>9. SpentOnSuccess'
  <2> SUFFICES ASSUME NEW s \in Sessions, NEW d \in Days
               PROVE  quota'[d].mark[s] = "COMMITTED" <=> \E p \in Requests : Paid(p, s, d)'
    BY DEF SpentOnSuccess, Paid
  <2>1. CASE s = s0 /\ d = d0
    BY <1>1, <1>4, <1>5, <2>1
  <2>2. CASE ~ (s = s0 /\ d = d0)
    <3>1. quota[d].mark[s] = "COMMITTED" <=> \E p \in Requests : Paid(p, s, d)
      BY DEF QuotaInv, SpentOnSuccess, Paid
    <3> QED
      BY <1>1, <1>2, <1>4, <2>2, <3>1
  <2> QED
    BY <2>1, <2>2
<1>10. QED
  BY <1>6, <1>7, <1>8, <1>9 DEF QuotaInv, OneMark

LEMMA ReservesQuota ==
  ASSUME Formed, QuotaInv, NEW r \in Requests, Reserves(r)
  PROVE  QuotaInv'
<1> DEFINE s0 == request[r].session
           d0 == request[r].day
<1>1. /\ RequestsFormed /\ request[r].pc = "reserve" /\ s0 \in Sessions /\ d0 \in Days
      /\ request[r].code = None
  BY DEF Formed, RequestsFormed, RequestFormed, RequestState, Reserves, At
<1>2. /\ \A p \in Requests \ {r} : request'[p] = request[p]
      /\ request'[r].session = s0 /\ request'[r].day = d0 /\ request'[r].holder
      /\ request'[r].pc = "read"
  BY <1>1, ReservedMoves DEF Reserves
<1>3. quota[d0].mark[s0] = "NONE" /\ quota[d0].used < DailyLimit /\ quota[d0].used \in Nat
  BY <1>1 DEF Reserves, Mark, QuotaInv, QuotaFormed, QuotaDoc
<1>4. /\ QuotaFormed'
      /\ \A d \in Days : quota'[d].used = IF d = d0 THEN quota[d0].used + 1 ELSE quota[d].used
      /\ \A d \in Days, s \in Sessions :
           quota'[d].mark[s] = IF d = d0 /\ s = s0 THEN "RESERVED" ELSE quota[d].mark[s]
  <2>1. quota[d0].used + 1 \in Nat
    BY <1>3
  <2>2. quota' = Marked(r, quota[d0].used + 1, "RESERVED")
    BY DEF Reserves
  <2> QED
    BY <1>1, <2>1, <2>2, MarkedQuota DEF QuotaInv
<1>5. UsedCountsReservations'
  BY <1>1, <1>3, <1>4, MarkCounts DEF QuotaInv
<1>6. OneMark(r, "RESERVED")
  BY <1>2, <1>4, <1>5 DEF OneMark
<1>7. \A p \in Requests : ~ Holds(p, s0, d0) /\ ~ Paid(p, s0, d0)
  BY <1>1, <1>3 DEF QuotaInv, HolderReserved, SpentOnSuccess, Paid
<1>8. Holds(r, s0, d0)' /\ ~ Paid(r, s0, d0)'
  BY <1>2 DEF Holds, Paid
<1>9. "lost" # None
  BY InterviewAssumption
<1>10. QED
  BY <1>1, <1>6, <1>7, <1>8, <1>9, OthersKept

(* A request that is to settle a reservation has it.                       *)
LEMMA HeldMark ==
  ASSUME Formed, QuotaInv, NEW r \in Requests, request[r].holder, request[r].pc # "done"
  PROVE  LET s == request[r].session
             d == request[r].day
         IN /\ request[r].pc # "new" /\ s \in Sessions /\ d \in Days /\ Holds(r, s, d)
            /\ quota[d].mark[s] = "RESERVED" /\ Mark(r) = "RESERVED"
            /\ quota[d].used \in Nat /\ quota[d].used - 1 \in Nat
            /\ \A p \in Requests \ {r} : ~ Holds(p, s, d) /\ ~ Paid(p, s, d)
            /\ ~ Paid(r, s, d)
            /\ request[r].code # "lost"
<1> DEFINE s == request[r].session
           d == request[r].day
<1>1. RequestFormed(request[r]) /\ request[r] \in RequestState
  BY DEF Formed, RequestsFormed
<1>2. request[r].pc # "new"
  <2>1. ~ NewRequest.holder
    BY DEF NewRequest
  <2> QED
    BY <1>1, <2>1 DEF RequestFormed
<1>3. s \in Sessions /\ d \in Days
  BY <1>1, <1>2 DEF RequestFormed, RequestState
<1>4. Holds(r, s, d)
  BY DEF Holds
<1>5. quota[d].mark[s] = "RESERVED"
  BY <1>3, <1>4 DEF QuotaInv, HolderReserved
<1>6. \A p \in Requests \ {r} : ~ Holds(p, s, d)
  BY <1>3, <1>4 DEF QuotaInv, OneHolder
<1>7. \A p \in Requests : ~ Paid(p, s, d)
  BY <1>3, <1>5 DEF QuotaInv, SpentOnSuccess, Paid
<1>8. quota[d].used \in Nat /\ quota[d].used - 1 \in Nat
  BY <1>3, <1>5, MarkedIsCounted DEF QuotaInv
<1>9. request[r].code # "lost"
  <2>1. "lost" # None
    BY InterviewAssumption
  <2> QED
    BY <1>1, <2>1 DEF RequestFormed
<1>10. Mark(r) = "RESERVED"
  BY <1>5 DEF Mark
<1>11. QED
  BY <1>2, <1>3, <1>4, <1>5, <1>6, <1>7, <1>8, <1>9, <1>10

LEMMA FinishQuota ==
  ASSUME Formed, QuotaInv, NEW r \in Requests, Finish(r)
  PROVE  QuotaInv'
<1> DEFINE s0 == request[r].session
           d0 == request[r].day
<1>1. RequestsFormed /\ request[r].pc = "answered" /\ Go(r, "done")
  BY DEF Formed, Finish, At
<1>2. /\ \A p \in Requests \ {r} : request'[p] = request[p]
      /\ request'[r].session = s0 /\ request'[r].day = d0
      /\ request'[r].holder = request[r].holder /\ request'[r].code = request[r].code
      /\ request'[r].pc = "done"
  BY <1>1, GoMoves
<1>3. CASE ~ request[r].holder
  <2>1. quota' = quota
    BY <1>3 DEF Finish
  <2>2. \A p \in Requests, s \in Sessions, d \in Days :
          (Holds(p, s, d)' <=> Holds(p, s, d)) /\ (Paid(p, s, d)' <=> Paid(p, s, d))
    BY <1>2, <1>3 DEF Holds, Paid
  <2>3. \A p \in Requests : request[p].code = "lost" => request'[p].code = "lost"
    BY <1>2
  <2>4. QuotaFormed' /\ UsedCountsReservations'
    BY <2>1 DEF QuotaInv, QuotaFormed, UsedCountsReservations, Marks
  <2>5. OneHolder' /\ HolderReserved' /\ ReservedHeld'
    BY <2>1, <2>2, <2>3 DEF QuotaInv, OneHolder, HolderReserved, ReservedHeld
  <2>6. SpentOnSuccess'
    BY <2>1, <2>2 DEF QuotaInv, SpentOnSuccess, Paid
  <2> QED
    BY <2>4, <2>5, <2>6 DEF QuotaInv
<1>4. CASE request[r].holder
  <2>0. /\ s0 \in Sessions /\ d0 \in Days /\ Holds(r, s0, d0)
        /\ quota[d0].mark[s0] = "RESERVED" /\ Mark(r) = "RESERVED"
        /\ quota[d0].used \in Nat /\ quota[d0].used - 1 \in Nat
        /\ \A p \in Requests \ {r} : ~ Holds(p, s0, d0) /\ ~ Paid(p, s0, d0)
        /\ request[r].code # "lost"
    BY <1>1, <1>4, HeldMark
  <2>1. ~ Holds(r, s0, d0)' /\ (Paid(r, s0, d0)' <=> request[r].code = "ok")
    BY <1>2, <1>4 DEF Holds, Paid
  <2>2. ASSUME NEW n \in Nat, NEW m \in {"NONE", "COMMITTED"}, quota' = Marked(r, n, m),
               \/ m = "NONE" /\ n = quota[d0].used - 1 /\ ~ Paid(r, s0, d0)'
               \/ m = "COMMITTED" /\ n = quota[d0].used /\ Paid(r, s0, d0)'
        PROVE  QuotaInv'
    <3>1. /\ QuotaFormed'
          /\ \A d \in Days : quota'[d].used = IF d = d0 THEN n ELSE quota[d].used
          /\ \A d \in Days, s \in Sessions :
               quota'[d].mark[s] = IF d = d0 /\ s = s0 THEN m ELSE quota[d].mark[s]
      BY <2>0, <2>2, MarkedQuota DEF QuotaInv
    <3>2. UsedCountsReservations'
      BY <2>0, <2>2, <3>1, MarkCounts DEF QuotaInv
    <3>3. OneMark(r, m)
      BY <1>2, <3>1, <3>2 DEF OneMark
    <3>4. QED
      BY <1>1, <2>0, <2>1, <2>2, <3>3, OthersKept
  <2>3. CASE request[r].code = "ok"
    <3>1. quota' = Marked(r, quota[d0].used, "COMMITTED")
      BY <1>4, <2>0, <2>3 DEF Finish, Commit
    <3> QED
      BY <2>0, <2>1, <2>2, <2>3, <3>1
  <2>4. CASE request[r].code # "ok"
    <3>1. quota' = Marked(r, quota[d0].used - 1, "NONE")
      BY <1>4, <2>0, <2>4 DEF Finish, Release, Freed
    <3> QED
      BY <2>0, <2>1, <2>2, <2>4, <3>1
  <2> QED
    BY <2>3, <2>4
<1> QED
  BY <1>3, <1>4

LEMMA DisconnectQuota ==
  ASSUME Formed, QuotaInv, NEW r \in Requests, Disconnect(r)
  PROVE  QuotaInv'
<1> DEFINE s0 == request[r].session
           d0 == request[r].day
<1>1. /\ RequestsFormed /\ request[r].holder /\ request[r].pc \notin {"answered", "done"}
      /\ quota' = Release(r) /\ request' = [request EXCEPT ![r].holder = FALSE]
  BY DEF Formed, Disconnect
<1>2. /\ \A p \in Requests \ {r} : request'[p] = request[p]
      /\ request'[r].session = s0 /\ request'[r].day = d0 /\ ~ request'[r].holder
  BY <1>1, LetGoMoves
<1>3. /\ s0 \in Sessions /\ d0 \in Days
      /\ quota[d0].mark[s0] = "RESERVED" /\ Mark(r) = "RESERVED"
      /\ quota[d0].used \in Nat /\ quota[d0].used - 1 \in Nat
      /\ \A p \in Requests \ {r} : ~ Holds(p, s0, d0) /\ ~ Paid(p, s0, d0)
      /\ request[r].code # "lost"
  BY <1>1, HeldMark
<1>4. quota' = Marked(r, quota[d0].used - 1, "NONE")
  BY <1>1, <1>3 DEF Release, Freed
<1>5. /\ QuotaFormed'
      /\ \A d \in Days : quota'[d].used = IF d = d0 THEN quota[d0].used - 1 ELSE quota[d].used
      /\ \A d \in Days, s \in Sessions :
           quota'[d].mark[s] = IF d = d0 /\ s = s0 THEN "NONE" ELSE quota[d].mark[s]
  BY <1>3, <1>4, MarkedQuota DEF QuotaInv
<1>6. UsedCountsReservations'
  BY <1>3, <1>5, MarkCounts DEF QuotaInv
<1>7. OneMark(r, "NONE")
  BY <1>2, <1>5, <1>6 DEF OneMark
<1>8. ~ Holds(r, s0, d0)' /\ ~ Paid(r, s0, d0)'
  BY <1>2 DEF Holds, Paid
<1>9. QED
  BY <1>1, <1>3, <1>7, <1>8, OthersKept

-----------------------------------------------------------------------------
(* Part 5. *)
IInv == Formed /\ PastGenerationHasQuestions /\ RateInv /\ QuotaInv

LEMMA InitInv == Init => IInv
<1> SUFFICES ASSUME Init PROVE IInv
  OBVIOUS
<1>0. ~ NewRequest.admitted /\ ~ NewRequest.holder
  BY DEF NewRequest
<1>1. Formed
  BY InitFormed
<1>2. PastGenerationHasQuestions
  <2>1. ASSUME NEW st \in StartStatus, NewSession(st).status # "PENDING"
        PROVE  NewSession(st).questions
    BY <2>1 DEF NewSession
  <2> QED
    BY <2>1 DEF Init, PastGenerationHasQuestions
<1>3. RateInv
  <2>1. RateFormed /\ \A k \in Kinds, d \in Days : rate[k][d] = 0
    BY DEF Init, RateFormed
  <2>2. \A k \in Kinds, d \in Days : Passed(k, d) = {}
    BY <1>0 DEF Init, Passed
  <2>3. Cardinality({}) = 0 /\ 0 <= RateLimit
    BY FS_EmptySet, Bounds
  <2> QED
    BY <2>1, <2>2, <2>3 DEF RateInv, WithinRate, Passed
<1>4. QuotaInv
  <2>1. NoQuota \in QuotaDoc /\ NoQuota.used = 0 /\ \A s \in Sessions : NoQuota.mark[s] = "NONE"
    BY DEF NoQuota, QuotaDoc
  <2>2. \A d \in Days : quota[d] = NoQuota
    BY DEF Init
  <2>3. QuotaFormed
    BY <2>1 DEF Init, QuotaFormed
  <2>4. \A d \in Days : Marks(d, {"RESERVED", "COMMITTED"}) = {}
    BY <2>1, <2>2 DEF Marks
  <2>5. Cardinality({}) = 0 /\ 0 <= DailyLimit
    BY FS_EmptySet, Bounds
  <2>6. UsedCountsReservations
    BY <2>1, <2>2, <2>4, <2>5 DEF UsedCountsReservations
  <2>7. \A r \in Requests, s \in Sessions, d \in Days : ~ Holds(r, s, d) /\ ~ Paid(r, s, d)
    BY <1>0 DEF Init, Holds, Paid
  <2>8. OneHolder /\ HolderReserved /\ ReservedHeld /\ SpentOnSuccess
    BY <2>1, <2>2, <2>7 DEF OneHolder, HolderReserved, ReservedHeld, SpentOnSuccess, Paid
  <2> QED
    BY <2>3, <2>6, <2>8 DEF QuotaInv
<1>5. QED
  BY <1>1, <1>2, <1>3, <1>4 DEF IInv

LEMMA NextInv == IInv /\ [Next]_vars => IInv'
<1> SUFFICES ASSUME IInv, [Next]_vars PROVE IInv'
  OBVIOUS
<1>1. Formed /\ Formed'
  BY FormedKept DEF IInv
<1>2. PastGenerationHasQuestions'
  BY <1>1, SessionMoves, PastGenerationKept DEF IInv, Formed
<1>3. RateInv'
  BY <1>1, CounterSteps, RateKept DEF IInv
<1>4. QuotaInv'
  <2>1. \A r \in Requests : RequestFormed(request[r])
    BY <1>1 DEF Formed, RequestsFormed
  <2> QED
    BY <1>1, <2>1, CounterSteps, QuietQuota, CrashQuota, ReservesQuota, FinishQuota, DisconnectQuota
    DEF IInv, Formed
<1>5. QED
  BY <1>1, <1>2, <1>3, <1>4 DEF IInv

THEOREM Inductive == Spec => []IInv
BY InitInv, NextInv, PTL DEF Spec

(* Every document, request, job and page has the shape its schema gives it *)
(* in every state: TypeOK.                                                 *)
THEOREM TypeCorrect == Spec => []TypeOK
<1>1. IInv => TypeOK
  BY DEF IInv, Formed, SessionsFormed, RequestsFormed, JobsFormed, WorkersFormed, PagesFormed,
         ClockFormed, RateInv, RateFormed, QuotaInv, QuotaFormed, TypeOK
<1>2. QED
  BY <1>1, Inductive, PTL

(* InterviewQuotaRepository's statements: the counter of a day equals its  *)
(* reservations and stays within DAILY_INTERVIEW_QUOTA, for any number of  *)
(* concurrent requests.                                                    *)
THEOREM QuotaCounts == Spec => []UsedCountsReservations
<1>1. IInv => UsedCountsReservations
  BY DEF IInv, QuotaInv
<1>2. QED
  BY <1>1, Inductive, PTL

(* The response listeners of the quota middleware: a reservation has one   *)
(* request that settles it, which still finds it RESERVED.                 *)
THEOREM ReservationsSettled == Spec => []ReservationHeld
<1>1. IInv => ReservationHeld
  <2> SUFFICES ASSUME IInv, NEW s \in Sessions, NEW d \in Days
               PROVE  LET holders == {r \in Requests : Holds(r, s, d)} IN
                      /\ Cardinality(holders) <= 1
                      /\ holders # {} => quota[d].mark[s] = "RESERVED"
                      /\ quota[d].mark[s] = "RESERVED" =>
                           holders # {} \/ \E r \in Requests : request[r].code = "lost"
    BY DEF ReservationHeld
  <2> DEFINE holders == {r \in Requests : Holds(r, s, d)}
  <2>1. \A x, y \in holders : x = y
    BY DEF IInv, QuotaInv, OneHolder
  <2>2. IsFiniteSet(holders)
    BY Bounds, FS_Subset
  <2>3. holders # {} => quota[d].mark[s] = "RESERVED"
    BY DEF IInv, QuotaInv, HolderReserved
  <2>4. quota[d].mark[s] = "RESERVED" =>
          holders # {} \/ \E r \in Requests : request[r].code = "lost"
    BY DEF IInv, QuotaInv, ReservedHeld
  <2> HIDE DEF holders
  <2>5. Cardinality(holders) <= 1
    BY <2>1, <2>2, OneAtMost
  <2>6. QED
    BY <2>3, <2>4, <2>5 DEF holders
<1>2. QED
  BY <1>1, Inductive, PTL

(* Quota is spent exactly on generations that were answered 2xx.           *)
THEOREM SpendingIsEarned == Spec => []SpentOnSuccess
<1>1. IInv => SpentOnSuccess
  BY DEF IInv, QuotaInv
<1>2. QED
  BY <1>1, Inductive, PTL

(* ApiRateLimitRepository.consume lets no more requests pass in a window   *)
(* than its limit, whoever wins the insert of the counter.                 *)
THEOREM RateRespected == Spec => []WithinRate
<1>1. IInv => WithinRate
  BY DEF IInv, RateInv
<1>2. QED
  BY <1>1, Inductive, PTL

(* No session is past its generation without questions.                    *)
THEOREM QuestionsFirst == Spec => []PastGenerationHasQuestions
<1>1. IInv => PastGenerationHasQuestions
  BY DEF IInv
<1>2. QED
  BY <1>1, Inductive, PTL

(* useInterviewSSE: whatever stream, reconnection and poll bring, and in   *)
(* whatever order, a page shows a status that was committed.               *)
THEOREM PagesShowCommitted == Spec => []ShownIsCommitted
<1>1. IInv => ShownIsCommitted
  BY DEF IInv, Formed, PagesFormed, Page, PageTrue, Held, ShownIsCommitted
<1>2. QED
  BY <1>1, Inductive, PTL

(* streamStatus: but for a change between its read and its subscription, a *)
(* stream that listens has been told of the present version.               *)
THEOREM StreamsAreTold == Spec => []OpenStreamToldAll
<1>1. IInv => OpenStreamToldAll
  <2> SUFFICES ASSUME IInv, NEW v \in Viewers, stream[v].pc = "open", ~ stream[v].gap
               PROVE  \/ viewer[v].version = session[stream[v].session].version
                      \/ \E i \in 1 .. Len(stream[v].told) :
                           stream[v].told[i] = Current(stream[v].session)
    BY DEF OpenStreamToldAll
  <2>1. /\ Page(stream[v], viewer[v], session) /\ stream[v] \in StreamState
    BY DEF IInv, Formed, PagesFormed
  <2>2. ASSUME NEW i \in 1 .. Len(stream[v].told),
               stream[v].told[i].status = session[stream[v].session].status,
               stream[v].told[i].version = session[stream[v].session].version
        PROVE  stream[v].told[i] = Current(stream[v].session)
    <3>1. stream[v].told[i] \in StatusEvent
      BY <2>1 DEF StreamState
    <3> QED
      BY <2>2, <3>1 DEF StatusEvent, Current
  <2>3. QED
    BY <2>1, <2>2 DEF Page, PageTold
<1>2. QED
  BY <1>1, Inductive, PTL

(* Questions and answers of a session survive every step.                  *)
THEOREM QuestionsSurvive == Spec => QuestionsStand
<1>1. IInv /\ [Next]_vars =>
        [\A s \in Sessions :
           session[s].questions => /\ session'[s].questions
                                   /\ session[s].answers # None => session'[s].answers # None]_vars
  BY SessionMoves, AnswersKept DEF IInv, Formed
<1>2. QED
  BY <1>1, Inductive, PTL DEF Spec, QuestionsStand

(* InterviewContext.changeState: a change of status is a legal transition  *)
(* and takes the next version.                                             *)
THEOREM StatusAdvances == Spec => StatusTakesNextVersion
<1>1. IInv /\ [Next]_vars =>
        [\A s \in Sessions :
           session'[s].status # session[s].status =>
             /\ session'[s].status \in legalTransitions[session[s].status]
             /\ session'[s].version = session[s].version + 1]_vars
  BY SessionMoves, MoveKeeps DEF IInv, Formed
<1>2. QED
  BY <1>1, Inductive, PTL DEF Spec, StatusTakesNextVersion

(* Who moved session s read it at its present version.                     *)
Ended(s) ==
  \/ \E r \in Requests : Reader(r, s) /\ request'[r] # request[r]
  \/ \E w \in Workers : /\ worker[w].job # None /\ worker'[w] # worker[w]
                        /\ JobSession(w) = s /\ worker[w].version = session[s].version

LEMMA ChangedAlone ==
  ASSUME SessionsFormed, NEW s, NEW to, Changed(s, to), NEW t \in Sessions,
         session'[t].status # session[t].status
  PROVE  t = s
BY DEF SessionsFormed, Changed

LEMMA RequestEnds ==
  ASSUME Formed, NEW r \in Requests, ServiceStep(r), NEW t \in Sessions,
         session'[t].status # session[t].status
  PROVE  Ended(t)
<1> DEFINE s == request[r].session
           k == request[r].kind
<1>0. RequestsFormed /\ SessionsFormed /\ RequestFormed(request[r])
  BY DEF Formed, RequestsFormed
<1>1. ASSUME NEW to, CanChange(s, request[r].status, request[r].version, to), Changed(s, to),
             request'[r].pc # request[r].pc
      PROVE  Ended(t)
  BY <1>0, <1>1, ChangedAlone DEF CanChange, Ended, Reader
<1>2. CASE Act(r)
  <2>1. CanChange(s, request[r].status, request[r].version, Stage(k)) /\ Changed(s, Stage(k))
        /\ ActsOn(r, IF wiring = "sync" THEN "call" ELSE "enqueue", Stage(k))
        /\ request[r].pc = "act"
    BY <1>2 DEF Act, ActsOn, At
  <2>2. request'[r].pc \in {"call", "enqueue"}
    <3>1. Stage(k) \in SessionStatus
      BY DEF Stage, SessionStatus
    <3> QED
      BY <1>0, <2>1, <3>1, ActMoves
  <2> QED
    BY <1>1, <2>1, <2>2
<1>3. CASE EndStage(r)
  <2>1. /\ CanChange(s, request[r].status, request[r].version, Target(k)) /\ Changed(s, Target(k))
        /\ Respond(r, "ok") /\ request[r].pc = "end"
    BY <1>3 DEF EndStage, At
  <2>2. request'[r].pc = "answered"
    BY <1>0, <2>1, RespondMoves
  <2> QED
    BY <1>1, <2>1, <2>2
<1>4. CASE FailStage(r)
  <2>1. /\ CanChange(s, request[r].status, request[r].version, "FAILED") /\ Changed(s, "FAILED")
        /\ Respond(r, "error") /\ request[r].pc = "fail"
    BY <1>4 DEF FailStage, At
  <2>2. request'[r].pc = "answered"
    BY <1>0, <2>1, RespondMoves
  <2> QED
    BY <1>1, <2>1, <2>2
<1>5. CASE WriteAnswers(r)
  BY <1>0, <1>5 DEF WriteAnswers, SessionsFormed, SessionDoc
<1>6. CASE StoreOutput(r)
  BY <1>0, <1>6 DEF StoreOutput, Store, CreateQuestions, SessionsFormed, SessionDoc
<1>7. CASE ReadSession(r) \/ Enqueue(r) \/ CallProvider(r)
  BY <1>7 DEF ReadSession, Enqueue, CallProvider, serverVars
<1> QED
  BY <1>2, <1>3, <1>4, <1>5, <1>6, <1>7 DEF ServiceStep

LEMMA JobEndsStage ==
  ASSUME Formed, NEW w \in Workers, JobStep(w), NEW t \in Sessions,
         session'[t].status # session[t].status
  PROVE  Ended(t)
<1> DEFINE s == JobSession(w)
           k == JobKind(w)
<1>0. SessionsFormed /\ worker \in [Workers -> WorkerState] /\ None \notin Requests
      /\ IdleWorker.pc = "idle"
  BY InterviewAssumption DEF Formed, WorkersFormed, IdleWorker
<1>1. ASSUME NEW to, CanChange(s, Stage(k), worker[w].version, to), Changed(s, to),
             worker[w].pc # "idle", JobEnds(w)
      PROVE  Ended(t)
  <2>1. worker[w].job # None
    BY <1>0, <1>1, Working
  <2>2. worker'[w].pc = "idle"
    BY <1>0, <1>1 DEF JobEnds
  <2> QED
    BY <1>0, <1>1, <2>1, <2>2, ChangedAlone DEF CanChange, Ended
<1>2. CASE JobCompletes(w)
  <2>1. /\ CanChange(s, Stage(k), worker[w].version, Target(k)) /\ Changed(s, Target(k))
        /\ JobEnds(w) /\ worker[w].pc # "idle"
    BY <1>2 DEF JobCompletes
  <2> QED
    BY <1>1, <2>1
<1>3. CASE JobFails(w)
  <2>1. /\ CanChange(s, Stage(k), worker[w].version, "FAILED") /\ Changed(s, "FAILED")
        /\ JobEnds(w) /\ worker[w].pc # "idle"
    BY <1>3 DEF JobFails
  <2> QED
    BY <1>1, <2>1
<1>4. CASE JobStores(w)
  BY <1>0, <1>4 DEF JobStores, Store, CreateQuestions, SessionsFormed, SessionDoc
<1>5. CASE JobCalls(w) \/ \E r \in Requests : TakeJob(w, r)
  BY <1>5 DEF JobCalls, TakeJob
<1> QED
  BY <1>2, <1>3, <1>4, <1>5 DEF JobStep

(* GenerateQuestionJobHandler, EvaluationJobHandler and the synchronous    *)
(* path: a late execution never ends the stage of a later attempt.         *)
THEOREM ReadersEndStages == Spec => StageEndedByItsReader
<1>1. ASSUME IInv, [Next]_vars, NEW t \in Sessions, session'[t].status # session[t].status
      PROVE  Ended(t)
  <2>0. Formed
    BY <1>1 DEF IInv
  <2>1. ASSUME NEW r \in Requests, Arrive(r) \/ RequestStep(r) \/ Disconnect(r)
        PROVE  Ended(t)
    <3>1. CASE ServiceStep(r)
      BY <1>1, <2>0, <3>1, RequestEnds
    <3>2. CASE ~ ServiceStep(r)
      BY <1>1, <2>1, <3>2 DEF Arrive, RequestStep, LimiterStep, Consume, Reconsume, QuotaStep, Look,
        Reserve, Inspect, Finish, Disconnect, serverVars
    <3> QED
      BY <3>1, <3>2
  <2>2. ASSUME NEW w \in Workers, JobStep(w)
        PROVE  Ended(t)
    BY <1>1, <2>0, <2>2, JobEndsStage
  <2>3. ASSUME NEW v \in Viewers, ViewerStep(v) \/ (\E s \in Sessions : Watch(v, s)) \/ Drop(v)
        PROVE  FALSE
    BY <1>1, <2>3 DEF ViewerStep, Connect, Subscribe, Receive, EndOfStream, Reconnect, Ask, Answer,
                Watch, Drop
  <2>4. ASSUME Crash \/ NewDay \/ Rest \/ UNCHANGED vars
        PROVE  FALSE
    BY <1>1, <2>4 DEF Crash, NewDay, Rest, vars, serverVars
  <2>5. QED
    BY <1>1, <2>1, <2>2, <2>3, <2>4 DEF Next
<1>2. IInv /\ [Next]_vars =>
        [\A s \in Sessions :
           (/\ session[s].status \in {"GENERATING", "EVALUATING"}
            /\ session'[s].status # session[s].status) =>
             \/ \E r \in Requests : Reader(r, s) /\ request'[r] # request[r]
             \/ \E w \in Workers : /\ worker[w].job # None /\ worker'[w] # worker[w]
                                   /\ JobSession(w) = s /\ worker[w].version = session[s].version]_vars
  BY <1>1 DEF Ended
<1>3. QED
  BY <1>2, Inductive, PTL DEF Spec, StageEndedByItsReader

(* Every reservation has the one request that settles it, and is spent     *)
(* exactly on the generation that was answered 2xx to it.                  *)
THEOREM SettlementsCorrect == Spec => []ReservationsSettle
BY ReservationsSettled, SpendingIsEarned, PTL DEF ReservationsSettle
=============================================================================
