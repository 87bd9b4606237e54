------------------------ MODULE InterviewRoom_proofs ------------------------
(***************************************************************************)
(* Proofs about InterviewRoom for any bounds, any number of mishaps and    *)
(* any of the two statuses in which the room is entered.                   *)
(*                                                                         *)
(* Part 1 is the inductive invariant, clause by clause.  Part 2 says what  *)
(* each action does to the fields of the page, the calls and the interview *)
(* (its Effect) and that it keeps the types.  Part 3 has the facts about   *)
(* numbers, bodies and the autosave chain that the steps need, part 4 one  *)
(* lemma per action: its effect keeps the invariant.  Part 5 has the       *)
(* theorems.                                                               *)
(***************************************************************************)
EXTENDS InterviewRoom, SequenceTheorems, TLAPS

-----------------------------------------------------------------------------
(* Part 1: the invariant. *)
(* What the variables hold; an answer is an edit that may be typed.        *)
Statuses == {"GENERATING", "IN_PROGRESS", "EVALUATING", "COMPLETED", "FAILED"}
Over == {"EVALUATING", "COMPLETED", "FAILED"}
Text == 0 .. MaxEdits
Body == [version : Nat, answer : Text]
Call == [state : {"none", "sent", "reading", "ok", "failed"}, version : Nat,
         answer : Text, status : Statuses \cup {"none"}]
Page == [draft : Text, ver : Nat, view : Nat, status : Statuses \cup {"none"},
         loading : BOOLEAN, generating : BOOLEAN, error : BOOLEAN, armed : BOOLEAN,
         timer : {"running", "stopped", "up"}, snapshot : Body,
         submitting : BOOLEAN, gone : BOOLEAN]
PcSet == {"idle", "saving", "sent", "ok", "failed", "conflict", "refetching"}

Types ==
  /\ server \in [status : Statuses, version : Nat, answer : Text]
  /\ accepted \in Body /\ stored \in Body /\ page \in Page
  /\ chain \in Seq([answer : Text, by : {"timeout", "submit"}])
  /\ save \in Call /\ submit \in [pc : PcSet, answer : Text]
  /\ fetches \in [Fetchers -> Call]
  /\ late \subseteq [kind : {"save", "submit"}, version : Nat, answer : Text]
  /\ env \in [edits : Text, mishaps : Nat, kinds : SUBSET {"lost", "reload", "stream"},
              expired : BOOLEAN]

(* A fetch that has read the session.                                      *)
Read(f) == fetches[f].state \in {"reading", "ok"}

(* No text is newer than what was typed.                                   *)
PageTexts ==
  /\ server.answer <= env.edits /\ accepted.answer <= env.edits /\ stored.answer <= env.edits
  /\ page.draft <= env.edits /\ page.snapshot.answer <= env.edits
  /\ save.answer <= env.edits /\ submit.answer <= env.edits
ChainTexts == \A i \in 1 .. Len(chain) : chain[i].answer <= env.edits
FetchTexts == \A f \in Fetchers : fetches[f].answer <= env.edits
LateTexts == \A r \in late : r.answer <= env.edits
Texts == PageTexts /\ ChainTexts /\ FetchTexts /\ LateTexts

(* No version is newer than the one of the interview; fetched ones and     *)
(* those of saved answers are real versions, which begin at 1.             *)
PageVersions ==
  /\ server.version > 0
  /\ page.ver <= server.version /\ page.view <= server.version
  /\ save.version <= server.version /\ (save.state = "ok" => save.version > 0)
  /\ stored.version <= server.version /\ page.snapshot.version <= server.version
FetchVersions ==
  \A f \in Fetchers : Read(f) =>
    /\ fetches[f].version > 0 /\ fetches[f].version <= server.version
    /\ fetches[f].status # "none"
LateVersions == \A r \in late : r.version <= server.version
Versions == PageVersions /\ FetchVersions /\ LateVersions

(* A page that shows no interview yet knows nothing and has started        *)
(* nothing.                                                                *)
Blank ==
  /\ page.view = 0 <=> page.status = "none"
  /\ page.view = 0 <=> page.ver = 0
  /\ page.view = 0 =>
       /\ page.draft = 0 /\ page.timer # "up" /\ chain = <<>> /\ submit.pc = "idle"
       /\ ~ page.generating /\ page.snapshot = NoBody
       /\ fetches["poll"].state = "none" /\ fetches["refetch"].state = "none"

(* The page only waits and saves in the statuses for it, and the save      *)
(* under way is that of the head of the chain.                             *)
Heads ==
  /\ page.generating => page.status \in Waiting
  /\ page.armed => ~ page.submitting /\ page.draft > 0 /\ page.status = "IN_PROGRESS"
  /\ save.state # "reading"
  /\ save.state # "none" => chain # <<>> /\ save.answer = Head(chain).answer

(* The save that a submission waits for is the last of the chain.          *)
Queue ==
  /\ \A i \in 1 .. Len(chain) : chain[i].answer > 0
  /\ \A i \in 1 .. Len(chain) : chain[i].by = "submit" =>
       i = Len(chain) /\ submit.pc = "saving" /\ chain[i].answer = submit.answer
Chained == Heads /\ Queue

(* What a submission has reached, and whether its snapshot was accepted.   *)
Submitting ==
  /\ submit.pc # "idle" => page.submitting
  /\ page.snapshot = NoBody \/ page.snapshot.version > 0
  /\ submit.pc \in {"sent", "ok", "failed", "conflict", "refetching"} => page.snapshot # NoBody
  /\ submit.pc = "saving" => page.snapshot = NoBody
  /\ submit.pc \in {"ok", "refetching"} => accepted = page.snapshot
  /\ submit.pc = "conflict" => accepted # NoBody /\ accepted # page.snapshot
  /\ fetches["refetch"].state # "none" => submit.pc = "refetching"

(* After an accepted submission the interview is over for good, a page that*)
(* shows it over is right, and nothing is typed before there are questions.*)
PageEnded ==
  /\ accepted # NoBody => /\ server.status \in Over /\ server.answer = accepted.answer
                          /\ accepted.version > 0
  /\ page.status \in Over => server.status \in Over
  /\ server.status = "GENERATING" => env.edits = 0 /\ page.status \in {"none", "GENERATING"}
FetchEnded ==
  /\ \A f \in Fetchers : Read(f) /\ fetches[f].status \in Over => server.status \in Over
  /\ Read("refetch") => fetches["refetch"].status \in Over
  /\ server.status = "GENERATING" =>
       \A f \in Fetchers : Read(f) => fetches[f].status = "GENERATING"
Ended == PageEnded /\ FetchEnded

(* While the interview is open, every copy of the current version of its   *)
(* answers is the current text; a submission without a text may stand      *)
(* beside it.                                                              *)
Open == server.status = "IN_PROGRESS"
SaveStands ==
  Open /\ save.state = "ok" /\ save.version = server.version => save.answer = server.answer
FetchesStand ==
  Open => \A f \in Fetchers : fetches[f].state = "ok" /\ fetches[f].version = server.version
            => fetches[f].answer = server.answer
SnapshotStands ==
  Open /\ page.snapshot.version = server.version => page.snapshot.answer \in {0, server.answer}
LateStand ==
  Open => \A r \in late : r.kind = "submit" /\ r.version = server.version
            => r.answer \in {0, server.answer}
Current == SaveStands /\ FetchesStand /\ SnapshotStands /\ LateStand

(* A submission of an earlier page that can still be accepted, and the     *)
(* page that it leaves with a fresh start: one that has neither saved nor  *)
(* submitted since.                                                        *)
Rival(r) ==
  /\ r.kind = "submit" /\ r.version = server.version
  /\ [version |-> r.version, answer |-> r.answer] # page.snapshot
Fresh ==
  /\ page.snapshot = NoBody /\ save.state # "ok" /\ ~ page.generating
  /\ fetches["poll"].state = "none" /\ fetches["refetch"].state = "none"
  /\ \/ page.view = 0
     \/ /\ page.status = "IN_PROGRESS" /\ page.ver = server.version
        /\ page.view = server.version
        /\ (page.draft = 0 => server.answer = 0)
        /\ fetches["open"].state = "none"
  /\ Read("open") => fetches["open"].version = server.version
                     /\ fetches["open"].status = "IN_PROGRESS"
Rivals == Open => \A r \in late : Rival(r) => Fresh

(* When the accepted submission is not that of this page, the page either  *)
(* knows that the interview is over or still shows just what was           *)
(* submitted.                                                              *)
PageBehind ==
  /\ page.status \in {"none", "IN_PROGRESS"} =>
       page.snapshot = NoBody /\ save.state # "ok" /\ ~ page.generating
  /\ page.status = "IN_PROGRESS" => page.ver = accepted.version
                                    /\ (page.draft = 0 => accepted.answer = 0)
  /\ page.status # "GENERATING"
FetchBehind ==
  \A f \in Fetchers : Read(f) /\ fetches[f].status \in {"GENERATING", "IN_PROGRESS"} =>
    /\ page.view = 0 /\ f = "open" /\ fetches[f].status = "IN_PROGRESS"
    /\ fetches[f].version = accepted.version
    /\ fetches[f].state = "ok" /\ fetches[f].answer = 0 => accepted.answer = 0
Overtaken == accepted # NoBody /\ accepted # page.snapshot => PageBehind /\ FetchBehind

(* Until the stream makes the page fetch again: the first fetch shows the  *)
(* page, the polling ends with the waiting.                                *)
PageTurns ==
  /\ fetches["open"].state # "none" => page.view = 0
  /\ fetches["poll"].state # "none" => page.status \in Waiting
  /\ page.status = "GENERATING" => env.edits = 0
FetchTurns ==
  \A f \in Fetchers : Read(f) /\ fetches[f].status = "GENERATING" => env.edits = 0

(* And while the interview is then open: everything that can be saved over *)
(* the current version is no older than it, and what can be submitted      *)
(* equals it.                                                              *)
DraftNewer ==
  page.ver = server.version => /\ page.draft >= server.answer
                               /\ \A i \in 1 .. Len(chain) : chain[i].answer >= server.answer
SaveKnown ==
  /\ save.state = "sent" => save.version = page.ver
  /\ save.state = "ok" => save.version = page.ver + 1
ChainRises ==
  /\ \A i, j \in 1 .. Len(chain) : i <= j => chain[i].answer <= chain[j].answer
  /\ \A i \in 1 .. Len(chain) : chain[i].answer <= page.draft
StoredNewer == stored.version = server.version => stored.answer >= server.answer
SnapshotExact ==
  page.snapshot.version = server.version => page.snapshot.answer = server.answer
LateNewer ==
  \A r \in late : r.version = server.version =>
    IF r.kind = "save" THEN r.answer >= server.answer ELSE r.answer = server.answer
Known ==
  Open => /\ DraftNewer /\ SaveKnown /\ ChainRises /\ StoredNewer /\ SnapshotExact /\ LateNewer
Ordered == "stream" \notin env.kinds => PageTurns /\ FetchTurns /\ Known

(* With lost calls only, the page keeps what was typed last.               *)
Kept ==
  env.kinds \subseteq {"lost"} =>
    /\ page.status = "IN_PROGRESS" => page.draft = env.edits
    /\ page.status \in {"none", "GENERATING"} => env.edits = 0
    /\ Read("poll") /\ fetches["poll"].status = "IN_PROGRESS" => env.edits = 0

Inv ==
  /\ Types /\ Texts /\ Versions /\ Blank /\ Chained /\ Submitting /\ Ended
  /\ Current /\ Rivals /\ Overtaken /\ Ordered /\ Kept

-----------------------------------------------------------------------------
(* Part 2: what each action does. *)
Entry == [answer : Text, by : {"timeout", "submit"}]
Request == [kind : {"save", "submit"}, version : Nat, answer : Text]
Env == [edits : Text, mishaps : Nat, kinds : SUBSET {"lost", "reload", "stream"},
        expired : BOOLEAN]

(* What the invariant says of an armed page.                               *)
ArmedOK(q) == q.armed => ~ q.submitting /\ q.draft > 0 /\ q.status = "IN_PROGRESS"
(* Two pages that show and know the same.                                  *)
Same(q, p) ==
  /\ q.draft = p.draft /\ q.ver = p.ver /\ q.view = p.view /\ q.status = p.status
  /\ q.generating = p.generating /\ q.snapshot = p.snapshot

LEMMA Bounds == MaxEdits \in Nat /\ MaxChain \in Nat
BY RoomAssumption

LEMMA RearmedPage ==
  ASSUME NEW p \in Page
  PROVE  LET q == Rearmed(p) IN
           /\ q \in Page /\ ArmedOK(q) /\ Same(q, p)
           /\ q.timer = p.timer /\ q.submitting = p.submitting
<1> DEFINE a == Enabled(p) /\ p.draft > 0
           q == [p EXCEPT !.armed = a]
<1>1. a \in BOOLEAN
  OBVIOUS
<1>2. a => ~ p.submitting /\ p.draft > 0 /\ p.status = "IN_PROGRESS"
  BY DEF Enabled
<1>3. q = Rearmed(p)
  BY DEF Rearmed
<1> HIDE DEF a
<1>4. q \in Page
  BY <1>1 DEF Page
<1>5. (q.armed <=> a)
  BY <1>1 DEF Page
<1>6. /\ q.draft = p.draft /\ q.ver = p.ver /\ q.view = p.view /\ q.status = p.status
      /\ q.timer = p.timer /\ q.snapshot = p.snapshot
      /\ q.generating = p.generating /\ q.submitting = p.submitting
  BY DEF Page
<1> HIDE DEF q
<1> QED BY <1>2, <1>3, <1>4, <1>5, <1>6 DEF ArmedOK, Same

(* The chain behind a new save, and without its first.                     *)
LEMMA Appended ==
  ASSUME chain \in Seq(Entry), NEW e \in Entry
  PROVE  LET c == Append(chain, e) IN
           /\ c \in Seq(Entry) /\ c # <<>> /\ Len(c) = Len(chain) + 1 /\ Len(chain) \in Nat
           /\ \A i \in 1 .. Len(c) :
                (i = Len(c) /\ c[i] = e) \/ (i \in 1 .. Len(chain) /\ c[i] = chain[i])
           /\ chain # <<>> => Head(c) = Head(chain)
           /\ chain # <<>> => Head(chain) = chain[1] /\ 1 \in 1 .. Len(chain)
<1>1. /\ Append(chain, e) \in Seq(Entry) /\ Append(chain, e) # <<>>
      /\ Len(Append(chain, e)) = Len(chain) + 1
      /\ \A i \in 1 .. Len(chain) : Append(chain, e)[i] = chain[i]
      /\ Append(chain, e)[Len(chain) + 1] = e
  BY AppendProperties
<1>2. Len(chain) \in Nat
  BY LenProperties
<1>3. chain # <<>> => Head(chain) = chain[1] /\ 1 \in 1 .. Len(chain)
  BY EmptySeq
<1> QED BY <1>1, <1>2, <1>3

LEMMA Shortened ==
  ASSUME chain \in Seq(Entry), chain # <<>>
  PROVE  LET c == Tail(chain) IN
           /\ c \in Seq(Entry) /\ Head(chain) \in Entry /\ Len(c) = Len(chain) - 1
           /\ \A i \in 1 .. Len(c) : i + 1 \in 1 .. Len(chain) /\ c[i] = chain[i + 1]
           /\ Head(chain) = chain[1] /\ 1 \in 1 .. Len(chain) /\ Len(chain) \in Nat
           /\ Len(chain) = 1 => c = <<>>
<1>1. /\ Tail(chain) \in Seq(Entry) /\ Head(chain) \in Entry
      /\ Len(Tail(chain)) = Len(chain) - 1
      /\ \A i \in 1 .. Len(Tail(chain)) : Tail(chain)[i] = chain[i + 1]
  BY HeadTailProperties
<1>2. Len(chain) \in Nat
  BY LenProperties
<1>3. Head(chain) = chain[1] /\ 1 \in 1 .. Len(chain)
  BY EmptySeq
<1>4. Len(chain) = 1 => Tail(chain) = <<>>
  <2>1. Tail(chain) # <<>> => Len(Tail(chain)) \in Nat \ {0}
    BY <1>1, EmptySeq
  <2> QED BY <1>1, <2>1
<1> QED BY <1>1, <1>2, <1>3, <1>4

EditEffect ==
  /\ page'.draft = env.edits + 1 /\ env'.edits = env.edits + 1
  /\ env'.kinds = env.kinds
  /\ page'.ver = page.ver /\ page'.view = page.view /\ page'.status = page.status
  /\ page'.generating = page.generating /\ page'.timer = page.timer
  /\ page'.snapshot = page.snapshot /\ page'.submitting = page.submitting
  /\ ArmedOK(page')
  /\ stored' = [version |-> page.ver, answer |-> env.edits + 1]
  /\ page.view # 0 /\ page.status = "IN_PROGRESS"
  /\ server' = server /\ accepted' = accepted /\ chain' = chain /\ save' = save
  /\ submit' = submit /\ fetches' = fetches /\ late' = late

LEMMA EditFacts ==
  ASSUME Types, Edit
  PROVE  Types' /\ EditEffect
<1> USE DEF EditEffect
<1>frame. /\ server' = server /\ accepted' = accepted /\ chain' = chain /\ save' = save
          /\ submit' = submit /\ fetches' = fetches /\ late' = late
  BY DEF Edit, Editable, calls
<1>guard. /\ page.view # 0 /\ page.status = "IN_PROGRESS"
  BY DEF Edit, Editable, calls
<1> DEFINE p == [page EXCEPT !.draft = env.edits + 1]
<1>1. env.edits + 1 \in Text /\ env.edits + 1 > 0 /\ page \in Page
  BY Bounds DEF Types, Edit, Text
<1>2. /\ p \in Page /\ p.draft = env.edits + 1
      /\ p.ver = page.ver /\ p.view = page.view /\ p.status = page.status
      /\ p.timer = page.timer /\ p.snapshot = page.snapshot
      /\ p.generating = page.generating /\ p.submitting = page.submitting
  BY <1>1 DEF Page
<1>3. page' = Rearmed(p)
  BY DEF Edit
<1> HIDE DEF p
<1>4. page' \in Page /\ ArmedOK(page') /\ Same(page', p)
      /\ page'.timer = p.timer /\ page'.submitting = p.submitting
  BY <1>2, <1>3, RearmedPage
<1>5. stored' = [version |-> page.ver, answer |-> env.edits + 1]
  BY <1>1, <1>2, <1>4 DEF Edit, Copy, Same
<1>6. env' \in Env /\ env'.edits = env.edits + 1 /\ env'.kinds = env.kinds
  BY <1>1 DEF Edit, Types, Env
<1>7. stored' \in Body
  BY <1>1, <1>5 DEF Body, Page
<1>8. Types'
  BY <1>4, <1>6, <1>7 DEF Types, Edit, Env, calls
<1> QED BY <1>frame, <1>guard, <1>2, <1>4, <1>5, <1>6, <1>8 DEF Same

TimeUpEffect ==
  /\ Same(page', page) /\ page'.submitting = page.submitting
  /\ (page'.armed <=> page.armed)
  /\ page'.timer \in {page.timer, "up"} /\ page.view # 0
  /\ env'.edits = env.edits /\ env'.kinds = env.kinds
  /\ server' = server /\ accepted' = accepted /\ chain' = chain /\ save' = save
  /\ submit' = submit /\ fetches' = fetches /\ stored' = stored /\ late' = late

LEMMA TimeUpFacts ==
  ASSUME Types, TimeUp
  PROVE  Types' /\ TimeUpEffect
<1> USE DEF TimeUpEffect
<1>frame. /\ server' = server /\ accepted' = accepted /\ chain' = chain /\ save' = save
          /\ submit' = submit /\ fetches' = fetches /\ stored' = stored /\ late' = late
  BY DEF TimeUp, calls
<1>1. /\ page' \in Page /\ Same(page', page)
      /\ page'.timer \in {page.timer, "up"} /\ page.view # 0
  BY DEF Types, TimeUp, Page, Same
<1>2. page'.submitting = page.submitting
  BY DEF Types, TimeUp, Page
<1>3. (page'.armed <=> page.armed)
  BY DEF Types, TimeUp, Page
<1>4. env' \in Env /\ env'.edits = env.edits /\ env'.kinds = env.kinds
  BY DEF TimeUp, Types, Env
<1>5. Types'
  BY <1>1, <1>4 DEF Types, TimeUp, Env, calls
<1> QED BY <1>frame, <1>1, <1>2, <1>3, <1>4, <1>5

AutosaveEffect ==
  /\ Same(page', page) /\ page'.submitting = page.submitting
  /\ ~ page'.armed /\ page'.timer = page.timer
  /\ [answer |-> page.draft, by |-> "timeout"] \in Entry
  /\ page.armed /\ chain' = Append(chain, [answer |-> page.draft, by |-> "timeout"])
  /\ server' = server /\ accepted' = accepted /\ save' = save /\ submit' = submit
  /\ fetches' = fetches /\ stored' = stored /\ late' = late /\ env' = env

LEMMA AutosaveFacts ==
  ASSUME Types, Autosave
  PROVE  Types' /\ AutosaveEffect
<1> USE DEF AutosaveEffect
<1>frame. /\ server' = server /\ accepted' = accepted /\ save' = save /\ submit' = submit
          /\ fetches' = fetches /\ stored' = stored /\ late' = late /\ env' = env
  BY DEF Autosave, calls
<1>guard. /\ page.armed /\ chain' = Append(chain, [answer |-> page.draft, by |-> "timeout"])
  BY DEF Autosave, calls
<1> DEFINE e == [answer |-> page.draft, by |-> "timeout"]
<1>1. page' \in Page /\ Same(page', page) /\ page'.timer = page.timer
  BY DEF Types, Autosave, Page, Same
<1>2. page'.submitting = page.submitting
  BY DEF Types, Autosave, Page
<1>3. ~ page'.armed
  BY DEF Types, Autosave, Page
<1>4. e \in Entry
  BY DEF Types, Entry, Page
<1>5. chain' \in Seq(Entry)
  BY <1>4, Appended DEF Autosave, Types, Entry
<1>6. Types'
  BY <1>1, <1>5 DEF Types, Autosave, Entry
<1> QED BY <1>frame, <1>guard, <1>1, <1>2, <1>3, <1>4, <1>6

SendSaveEffect ==
  /\ save'.state = "sent" /\ save'.version = page.ver
  /\ save'.answer = Head(chain).answer
  /\ chain # <<>> /\ save.state = "none"
  /\ server' = server /\ accepted' = accepted /\ page' = page /\ chain' = chain
  /\ submit' = submit /\ fetches' = fetches /\ stored' = stored /\ late' = late
  /\ env' = env

LEMMA SendSaveFacts ==
  ASSUME Types, SendSave
  PROVE  Types' /\ SendSaveEffect
<1> USE DEF SendSaveEffect
<1>frame. /\ server' = server /\ accepted' = accepted /\ page' = page /\ chain' = chain
          /\ submit' = submit /\ fetches' = fetches /\ stored' = stored /\ late' = late
          /\ env' = env
  BY DEF SendSave, calls
<1>guard. /\ chain # <<>> /\ save.state = "none"
  BY DEF SendSave, calls
<1>1. Head(chain) \in Entry
  BY Shortened DEF Types, SendSave, Entry
<1>2. /\ save' = [state |-> "sent", version |-> page.ver, answer |-> Head(chain).answer,
                  status |-> "none"]
  BY DEF SendSave, NoCall
<1>3. save' \in Call
  BY <1>1, <1>2 DEF Call, Types, Entry, Page
<1>4. Types'
  BY <1>3 DEF Types, SendSave
<1> QED BY <1>frame, <1>guard, <1>2, <1>4

HandleSaveEffect ==
  /\ save'.answer = save.answer /\ save.state = "sent"
  /\ \/ /\ CanSave(save.version) /\ save'.state = "ok"
        /\ save'.version = save.version + 1
        /\ server'.status = server.status /\ server'.version = server.version + 1
        /\ server'.answer = save.answer
     \/ server' = server /\ save'.state = "failed" /\ save'.version = save.version
  /\ accepted' = accepted /\ page' = page /\ chain' = chain /\ submit' = submit
  /\ fetches' = fetches /\ stored' = stored /\ late' = late /\ env' = env

LEMMA HandleSaveFacts ==
  ASSUME Types, HandleSave
  PROVE  Types' /\ HandleSaveEffect
<1> USE DEF HandleSaveEffect
<1>frame. /\ accepted' = accepted /\ page' = page /\ chain' = chain /\ submit' = submit
          /\ fetches' = fetches /\ stored' = stored /\ late' = late /\ env' = env
  BY DEF HandleSave, calls
<1>1. save \in Call /\ server \in [status : Statuses, version : Nat, answer : Text]
  BY DEF Types
<1>2. CASE CanSave(save.version) /\ Store(save.answer)
           /\ save' = [save EXCEPT !.state = "ok", !.version = @ + 1]
  <2> DEFINE v == save.version + 1
             w == server.version + 1
  <2>0. v \in Nat /\ w \in Nat /\ save.answer \in Text
    BY <1>1 DEF Call
  <2>4. /\ save' = [save EXCEPT !.state = "ok", !.version = v]
        /\ server' = [server EXCEPT !.version = w, !.answer = save.answer]
    BY <1>1, <1>2 DEF Store
  <2> HIDE DEF v, w
  <2>1. /\ save' \in Call /\ save'.answer = save.answer /\ save'.state = "ok"
        /\ save'.version = v
    BY <1>1, <2>0, <2>4 DEF Call
  <2>2. /\ server' \in [status : Statuses, version : Nat, answer : Text]
        /\ server'.status = server.status /\ server'.version = w
        /\ server'.answer = save.answer
    BY <1>1, <2>0, <2>4
  <2>3. Types'
    BY <2>1, <2>2 DEF Types, HandleSave
  <2> QED BY <1>2, <2>1, <2>2, <2>3 DEF HandleSave, v, w
<1>3. CASE UNCHANGED server /\ save' = [save EXCEPT !.state = "failed"]
  <2>1. /\ save' \in Call /\ save'.answer = save.answer /\ save'.state = "failed"
        /\ save'.version = save.version
    BY <1>1, <1>3 DEF Call
  <2>2. Types'
    BY <1>1, <1>3, <2>1 DEF Types, HandleSave
  <2> QED BY <1>3, <2>1, <2>2 DEF HandleSave
<1> QED BY <1>frame, <1>2, <1>3 DEF HandleSave

(* The page after a save was answered, and the submission it goes on with. *)
SaveAnsweredEffect ==
  /\ page'.draft = page.draft /\ page'.ver = save.version
  /\ page'.view \in {page.view, save.version} /\ page'.view >= page.view
  /\ page'.status = page.status /\ page'.generating = page.generating
  /\ page'.timer = page.timer /\ page'.submitting = page.submitting
  /\ (page'.armed <=> page.armed)
  /\ \/ /\ Head(chain).by = "submit" /\ submit'.pc = "sent"
        /\ submit'.answer = submit.answer
        /\ page'.snapshot = [version |-> save.version, answer |-> submit.answer]
     \/ /\ Head(chain).by # "submit" /\ submit' = submit /\ page'.snapshot = page.snapshot
  /\ \/ stored' = stored
     \/ page.draft > 0 /\ stored' = [version |-> save.version, answer |-> page.draft]
  /\ chain' = Tail(chain) /\ save'.state = "none" /\ save'.version = 0 /\ save'.answer = 0
  /\ save.state = "ok"
  /\ server' = server /\ accepted' = accepted /\ fetches' = fetches /\ late' = late
  /\ env' = env

LEMMA SaveAnsweredFacts ==
  ASSUME Types, SaveAnswered, chain # <<>>
  PROVE  Types' /\ SaveAnsweredEffect
<1> USE DEF SaveAnsweredEffect
<1>frame. /\ server' = server /\ accepted' = accepted /\ fetches' = fetches /\ late' = late
          /\ env' = env
  BY DEF SaveAnswered, calls
<1>guard. /\ save.state = "ok"
  BY DEF SaveAnswered, calls
<1> DEFINE w == IF save.version > page.view THEN save.version ELSE page.view
           p == [page EXCEPT !.ver = save.version, !.view = w]
           b == [version |-> save.version, answer |-> submit.answer]
<1>1. save.version \in Nat /\ page \in Page /\ submit \in [pc : PcSet, answer : Text]
      /\ submit.answer \in Text /\ page.view \in Nat
  BY DEF Types, Call, Page
<1>2. w \in {page.view, save.version} /\ w >= page.view /\ w \in Nat
  BY <1>1
<1>3. p = Learned(page, save.version)
  BY <1>1 DEF Learned, Page
<1>4. b \in Body
  BY <1>1 DEF Body
<1> HIDE DEF w, b
<1>5. /\ p \in Page /\ p.draft = page.draft /\ p.ver = save.version /\ p.view = w
      /\ p.status = page.status /\ p.timer = page.timer /\ p.snapshot = page.snapshot
  BY <1>1, <1>2 DEF Page
<1>6. /\ p.generating = page.generating /\ p.submitting = page.submitting
      /\ (p.armed <=> page.armed)
  BY <1>1, <1>2 DEF Page
<1> HIDE DEF p
<1>7. \/ /\ Head(chain).by = "submit" /\ page' = [p EXCEPT !.snapshot = b]
         /\ submit' = [submit EXCEPT !.pc = "sent"]
      \/ Head(chain).by # "submit" /\ page' = p /\ submit' = submit
  BY <1>3 DEF SaveAnswered, SendSubmit, b
<1>8. /\ page' \in Page /\ page'.draft = page.draft /\ page'.ver = save.version /\ page'.view = w
      /\ page'.status = page.status /\ page'.timer = page.timer
  BY <1>4, <1>5, <1>7 DEF Page
<1>9. /\ page'.generating = page.generating /\ page'.submitting = page.submitting
      /\ (page'.armed <=> page.armed)
  BY <1>4, <1>5, <1>6, <1>7 DEF Page
<1>10. /\ submit' \in [pc : PcSet, answer : Text] /\ submit'.answer = submit.answer
       /\ Head(chain).by = "submit" => submit'.pc = "sent" /\ page'.snapshot = b
  BY <1>1, <1>4, <1>5, <1>7 DEF PcSet, Page
<1>11. stored' \in {stored, [version |-> save.version, answer |-> page.draft]}
       /\ (stored' # stored => page.draft > 0)
  BY <1>3, <1>5 DEF SaveAnswered, Copy
<1>12. stored' \in Body
  BY <1>1, <1>11 DEF Types, Body, Page
<1>13. chain' = Tail(chain) /\ chain' \in Seq(Entry)
  BY Shortened DEF SaveAnswered, Types, Entry
<1>14. save' \in Call /\ save'.state = "none" /\ save'.version = 0 /\ save'.answer = 0
  BY Bounds DEF SaveAnswered, NoCall, Call, Text
<1>15. Types'
  BY <1>8, <1>10, <1>12, <1>13, <1>14 DEF Types, SaveAnswered, Entry
<1>16. \/ stored' = stored
       \/ page.draft > 0 /\ stored' = [version |-> save.version, answer |-> page.draft]
  BY <1>11
<1> QED
  BY <1>frame, <1>guard, <1>2, <1>5, <1>7, <1>8, <1>9, <1>10, <1>13, <1>14, <1>15, <1>16
     DEF b

(* A submission that is given up.                                          *)
LEMMA GiveUpFacts ==
  ASSUME page \in Page, GiveUp(page)
  PROVE  /\ page' \in Page /\ Same(page', page) /\ page'.timer = page.timer
         /\ ArmedOK(page') /\ submit' = [pc |-> "idle", answer |-> 0]
<1> DEFINE p == [page EXCEPT !.submitting = FALSE]
<1>1. /\ p \in Page /\ Same(p, page) /\ p.timer = page.timer
  BY DEF Page, Same
<1>2. page' = Rearmed(p)
  BY DEF GiveUp
<1> HIDE DEF p
<1>3. /\ page' \in Page /\ ArmedOK(page') /\ Same(page', p) /\ page'.timer = p.timer
  BY <1>1, <1>2, RearmedPage
<1> QED BY <1>1, <1>3 DEF GiveUp, NoSubmit, Same

SaveFailedEffect ==
  /\ Same(page', page) /\ page'.timer = page.timer
  /\ \/ /\ Head(chain).by = "submit" /\ ArmedOK(page')
        /\ submit'.pc = "idle" /\ submit'.answer = 0
     \/ Head(chain).by # "submit" /\ page' = page /\ submit' = submit
  /\ chain' = Tail(chain) /\ save'.state = "none" /\ save'.version = 0 /\ save'.answer = 0
  /\ save.state = "failed"
  /\ server' = server /\ accepted' = accepted /\ fetches' = fetches /\ stored' = stored
  /\ late' = late /\ env' = env

LEMMA SaveFailedFacts ==
  ASSUME Types, SaveFailed, chain # <<>>
  PROVE  Types' /\ SaveFailedEffect
<1> USE DEF SaveFailedEffect
<1>frame. /\ server' = server /\ accepted' = accepted /\ fetches' = fetches /\ stored' = stored
          /\ late' = late /\ env' = env
  BY DEF SaveFailed, calls
<1>guard. /\ save.state = "failed"
  BY DEF SaveFailed, calls
<1>1. chain' = Tail(chain) /\ chain' \in Seq(Entry)
  BY Shortened DEF SaveFailed, Types, Entry
<1>2. save' \in Call /\ save'.state = "none" /\ save'.version = 0 /\ save'.answer = 0
  BY Bounds DEF SaveFailed, NoCall, Call, Text
<1>3. page \in Page
  BY DEF Types
<1>4. /\ page' \in Page /\ Same(page', page) /\ page'.timer = page.timer
      /\ \/ /\ Head(chain).by = "submit" /\ ArmedOK(page')
            /\ submit' = [pc |-> "idle", answer |-> 0]
         \/ Head(chain).by # "submit" /\ page' = page /\ submit' = submit
  BY <1>3, GiveUpFacts DEF SaveFailed, Same
<1>5. submit' \in [pc : PcSet, answer : Text]
  BY <1>4, Bounds DEF Types, PcSet, Text
<1>6. Types'
  BY <1>1, <1>2, <1>4, <1>5 DEF Types, SaveFailed, Entry
<1> QED BY <1>frame, <1>guard, <1>1, <1>2, <1>4, <1>6

SubmitEffect ==
  /\ submit.pc = "idle" /\ submit'.answer \in {submit.answer, page.draft}
  /\ page'.draft = page.draft /\ page'.ver = page.ver /\ page'.view = page.view
  /\ page'.status = page.status /\ page'.generating = page.generating
  /\ page'.submitting /\ ~ page'.armed /\ page'.timer \in {page.timer, "stopped"}
  /\ \/ /\ page.snapshot = NoBody /\ page.draft > 0 /\ page'.snapshot = NoBody
        /\ submit'.pc = "saving" /\ submit'.answer = page.draft
        /\ [answer |-> page.draft, by |-> "submit"] \in Entry
        /\ chain' = Append(chain, [answer |-> page.draft, by |-> "submit"])
     \/ /\ page.snapshot = NoBody /\ page.draft = 0 /\ submit'.pc = "sent"
        /\ page'.snapshot = [version |-> page.ver, answer |-> 0] /\ chain' = chain
     \/ /\ page.snapshot # NoBody /\ page'.snapshot = page.snapshot
        /\ submit'.pc = "sent" /\ chain' = chain
  /\ server' = server /\ accepted' = accepted /\ save' = save /\ fetches' = fetches
  /\ stored' = stored /\ late' = late /\ env' = env

LEMMA SubmitFacts ==
  ASSUME Types, Submit
  PROVE  Types' /\ SubmitEffect
<1> USE DEF SubmitEffect
<1>frame. /\ server' = server /\ accepted' = accepted /\ save' = save /\ fetches' = fetches
          /\ stored' = stored /\ late' = late /\ env' = env
  BY DEF Submit, calls
<1> DEFINE t == IF page.timer = "running" THEN "stopped" ELSE page.timer
           p == [page EXCEPT !.submitting = TRUE, !.armed = FALSE, !.timer = t]
           b == [version |-> page.ver, answer |-> 0]
           e == [answer |-> page.draft, by |-> "submit"]
           o == page'.snapshot
<1>1. page \in Page /\ submit \in [pc : PcSet, answer : Text] /\ submit.answer \in Text
      /\ t \in {page.timer, "stopped"} /\ t \in {"running", "stopped", "up"}
  BY DEF Types, Page
<1>2. b \in Body /\ e \in Entry
  BY <1>1, Bounds DEF Body, Page, Text, Entry
<1>3. p = [page EXCEPT !.submitting = TRUE, !.armed = FALSE,
                       !.timer = IF @ = "running" THEN "stopped" ELSE @]
  BY <1>1
<1> HIDE DEF t, b
<1>4. /\ p \in Page /\ p.draft = page.draft /\ p.ver = page.ver /\ p.view = page.view
      /\ p.status = page.status /\ p.timer = t /\ p.snapshot = page.snapshot
  BY <1>1 DEF Page
<1>5. (p.generating <=> page.generating) /\ p.submitting /\ ~ p.armed
  BY <1>1 DEF Page
<1> HIDE DEF p, e
<1>6. \/ /\ page.snapshot = NoBody /\ page.draft > 0 /\ page' = p
         /\ submit' = [pc |-> "saving", answer |-> page.draft] /\ chain' = Append(chain, e)
      \/ /\ page.snapshot = NoBody /\ page.draft = 0 /\ page' = [p EXCEPT !.snapshot = b]
         /\ submit' = [submit EXCEPT !.pc = "sent"] /\ chain' = chain
      \/ /\ page.snapshot # NoBody /\ page' = p
         /\ submit' = [submit EXCEPT !.pc = "sent"] /\ chain' = chain
  BY <1>3 DEF Submit, SendSubmit, b, e
<1>7. /\ page' \in Page /\ page'.draft = page.draft /\ page'.ver = page.ver
      /\ page'.view = page.view /\ page'.status = page.status /\ page'.timer = t
  BY <1>2, <1>4, <1>6 DEF Page
<1>8. (page'.generating <=> page.generating) /\ page'.submitting /\ ~ page'.armed
  BY <1>2, <1>4, <1>5, <1>6 DEF Page
<1>9. /\ submit' \in [pc : PcSet, answer : Text] /\ submit'.answer \in {submit.answer, page.draft}
  BY <1>1, <1>6 DEF PcSet, Page
<1>10. chain' \in Seq(Entry)
  BY <1>2, <1>6, Appended DEF Types, Entry
<1>11. Types'
  BY <1>7, <1>9, <1>10 DEF Types, Submit, Entry
<1>12. page'.generating = page.generating
  BY <1>1, <1>7, <1>8 DEF Page
<1>13. \/ /\ page.snapshot = NoBody /\ page.draft > 0 /\ page'.snapshot = NoBody
          /\ submit'.pc = "saving" /\ submit'.answer = page.draft
          /\ chain' = Append(chain, e)
       \/ /\ page.snapshot = NoBody /\ page.draft = 0 /\ submit'.pc = "sent"
          /\ page'.snapshot = b /\ chain' = chain
       \/ /\ page.snapshot # NoBody /\ page'.snapshot = page.snapshot
          /\ submit'.pc = "sent" /\ chain' = chain
  BY <1>1, <1>2, <1>4, <1>6 DEF Page
<1>14. submit.pc = "idle"
  BY DEF Submit
<1> QED BY <1>frame, <1>1, <1>2, <1>7, <1>8, <1>9, <1>11, <1>12, <1>13, <1>14 DEF b, e

HandleSubmitEffect ==
  /\ submit.pc = "sent" /\ submit'.answer = submit.answer
  /\ \/ /\ CanSubmit(page.snapshot.version) /\ accepted' = page.snapshot
        /\ submit'.pc = "ok"
        /\ server'.status = "EVALUATING" /\ server'.version = server.version + 1
        /\ server'.answer = page.snapshot.answer
     \/ /\ server' = server /\ accepted' = accepted
        /\ \/ accepted = page.snapshot /\ submit'.pc = "ok"
           \/ submit'.pc = "failed"
           \/ accepted # page.snapshot /\ accepted # NoBody /\ submit'.pc = "conflict"
  /\ page' = page /\ chain' = chain /\ save' = save /\ fetches' = fetches
  /\ stored' = stored /\ late' = late /\ env' = env

LEMMA HandleSubmitFacts ==
  ASSUME Types, HandleSubmit
  PROVE  Types' /\ HandleSubmitEffect
<1> USE DEF HandleSubmitEffect
<1>frame. /\ page' = page /\ chain' = chain /\ save' = save /\ fetches' = fetches
          /\ stored' = stored /\ late' = late /\ env' = env
  BY DEF HandleSubmit, calls
<1>1. page.snapshot \in Body /\ page.snapshot.answer \in Text /\ server.version + 1 \in Nat
      /\ submit \in [pc : PcSet, answer : Text]
  BY DEF Types, Page, Body
<1>2. CASE CanSubmit(page.snapshot.version) /\ Accept(page.snapshot)
           /\ submit' = [submit EXCEPT !.pc = "ok"]
  <2>1. /\ submit' \in [pc : PcSet, answer : Text] /\ submit'.answer = submit.answer
        /\ submit'.pc = "ok"
    BY <1>1, <1>2 DEF PcSet
  <2>2. /\ accepted' = page.snapshot
        /\ server' = [status |-> "EVALUATING", version |-> server.version + 1,
                      answer |-> page.snapshot.answer]
    BY <1>2 DEF Accept
  <2>3. server' \in [status : Statuses, version : Nat, answer : Text]
    BY <1>1, <2>2 DEF Statuses
  <2>4. Types'
    BY <1>1, <2>1, <2>2, <2>3 DEF Types, HandleSubmit
  <2> QED BY <1>2, <2>1, <2>2, <2>4 DEF HandleSubmit
<1>3. CASE /\ ~ CanSubmit(page.snapshot.version) /\ UNCHANGED <<server, accepted>>
           /\ submit' = [submit EXCEPT !.pc = CASE accepted = page.snapshot -> "ok"
                                                [] accepted = NoBody -> "failed"
                                                [] OTHER -> "conflict"]
  <2>1. PICK o \in {"ok", "failed", "conflict"} :
           /\ submit' = [submit EXCEPT !.pc = o]
           /\ o = "ok" => accepted = page.snapshot
           /\ o = "conflict" => accepted # page.snapshot /\ accepted # NoBody
    <3>1. CASE accepted = page.snapshot
      BY <1>3, <3>1
    <3>2. CASE accepted # page.snapshot /\ accepted = NoBody
      BY <1>3, <3>2
    <3>3. CASE accepted # page.snapshot /\ accepted # NoBody
      BY <1>3, <3>3
    <3> QED BY <3>1, <3>2, <3>3
  <2>2. /\ submit' \in [pc : PcSet, answer : Text] /\ submit'.answer = submit.answer
        /\ submit'.pc = o
    BY <1>1, <2>1 DEF PcSet
  <2>3. Types'
    BY <1>3, <2>2 DEF Types, HandleSubmit
  <2> QED BY <1>3, <2>1, <2>2, <2>3 DEF HandleSubmit
<1> QED BY <1>frame, <1>2, <1>3 DEF HandleSubmit

(* One fetch changes.                                                      *)
LEMMA OneFetch ==
  ASSUME Types, NEW f \in Fetchers, NEW c \in Call, fetches' = [fetches EXCEPT ![f] = c]
  PROVE  /\ fetches' \in [Fetchers -> Call] /\ fetches'[f] = c
         /\ \A g \in Fetchers : g # f => fetches'[g] = fetches[g]
         /\ fetches[f] \in Call
BY DEF Types

LEMMA FetchStarts ==
  ASSUME Types, NEW f \in Fetchers, fetches' = [fetches EXCEPT ![f].state = "sent"]
  PROVE  /\ fetches' \in [Fetchers -> Call]
         /\ fetches'[f].state = "sent" /\ fetches'[f].answer = fetches[f].answer
         /\ \A g \in Fetchers : g # f => fetches'[g] = fetches[g]
<1> DEFINE c == [fetches[f] EXCEPT !.state = "sent"]
<1>1. fetches[f] \in Call
  BY DEF Types
<1>2. c \in Call /\ c.state = "sent" /\ c.answer = fetches[f].answer
  BY <1>1 DEF Call
<1>3. fetches' = [fetches EXCEPT ![f] = c]
  BY <1>1 DEF Types
<1> HIDE DEF c
<1> QED BY <1>2, <1>3, OneFetch

(* The page shows that it loads.                                           *)
LEMMA LoadingPage ==
  ASSUME page \in Page, page' = [page EXCEPT !.loading = TRUE, !.error = FALSE]
  PROVE  /\ page' \in Page /\ Same(page', page) /\ page'.timer = page.timer
         /\ page'.submitting = page.submitting /\ (page'.armed <=> page.armed)
<1>1. page' \in Page /\ Same(page', page) /\ page'.timer = page.timer
  BY DEF Page, Same
<1>2. page'.submitting = page.submitting
  BY DEF Page
<1>3. (page'.armed <=> page.armed)
  BY DEF Page
<1> QED BY <1>1, <1>2, <1>3

SubmitAnsweredEffect ==
  /\ Same(page', page) /\ page'.timer = page.timer
  /\ page'.submitting = page.submitting /\ (page'.armed <=> page.armed)
  /\ submit.pc = "ok" /\ submit'.pc = "refetching" /\ submit'.answer = submit.answer
  /\ fetches'["refetch"].state = "sent"
  /\ fetches'["refetch"].answer = fetches["refetch"].answer
  /\ \A g \in Fetchers : g # "refetch" => fetches'[g] = fetches[g]
  /\ server' = server /\ accepted' = accepted /\ chain' = chain /\ save' = save
  /\ stored' = stored /\ late' = late /\ env' = env

LEMMA SubmitAnsweredFacts ==
  ASSUME Types, SubmitAnswered
  PROVE  Types' /\ SubmitAnsweredEffect
<1> USE DEF SubmitAnsweredEffect
<1>frame. /\ server' = server /\ accepted' = accepted /\ chain' = chain /\ save' = save
          /\ stored' = stored /\ late' = late /\ env' = env
  BY DEF SubmitAnswered, calls
<1>1. "refetch" \in Fetchers
  BY DEF Fetchers
<1>2. /\ fetches' \in [Fetchers -> Call]
      /\ fetches'["refetch"].state = "sent"
      /\ fetches'["refetch"].answer = fetches["refetch"].answer
      /\ \A g \in Fetchers : g # "refetch" => fetches'[g] = fetches[g]
  BY <1>1, FetchStarts DEF SubmitAnswered
<1>3. /\ page' \in Page /\ Same(page', page) /\ page'.timer = page.timer
      /\ page'.submitting = page.submitting /\ (page'.armed <=> page.armed)
  BY LoadingPage DEF Types, SubmitAnswered
<1>4. /\ submit' \in [pc : PcSet, answer : Text] /\ submit'.answer = submit.answer
      /\ submit'.pc = "refetching"
  BY DEF Types, SubmitAnswered, PcSet
<1>5. Types'
  BY <1>2, <1>3, <1>4 DEF Types, SubmitAnswered
<1> QED BY <1>frame, <1>2, <1>3, <1>4, <1>5 DEF SubmitAnswered

SubmitFailedEffect ==
  /\ Same(page', page) /\ page'.timer = page.timer /\ ArmedOK(page')
  /\ submit.pc \in {"failed", "conflict"}
  /\ submit'.pc = "idle" /\ submit'.answer = 0
  /\ server' = server /\ accepted' = accepted /\ chain' = chain /\ save' = save
  /\ fetches' = fetches /\ stored' = stored /\ late' = late /\ env' = env

LEMMA SubmitFailedFacts ==
  ASSUME Types, SubmitFailed
  PROVE  Types' /\ SubmitFailedEffect
<1> USE DEF SubmitFailedEffect
<1>frame. /\ server' = server /\ accepted' = accepted /\ chain' = chain /\ save' = save
          /\ fetches' = fetches /\ stored' = stored /\ late' = late /\ env' = env
  BY DEF SubmitFailed, calls
<1>1. /\ page' \in Page /\ Same(page', page) /\ page'.timer = page.timer
      /\ ArmedOK(page') /\ submit' = [pc |-> "idle", answer |-> 0]
  BY GiveUpFacts DEF Types, SubmitFailed
<1>2. submit' \in [pc : PcSet, answer : Text]
  BY <1>1, Bounds DEF PcSet, Text
<1>3. Types'
  BY <1>1, <1>2 DEF Types, SubmitFailed
<1> QED BY <1>frame, <1>1, <1>3 DEF SubmitFailed

PollEffect ==
  /\ page.generating
  /\ fetches'["poll"].state = "sent" /\ fetches'["poll"].answer = fetches["poll"].answer
  /\ \A g \in Fetchers : g # "poll" => fetches'[g] = fetches[g]
  /\ server' = server /\ accepted' = accepted /\ page' = page /\ chain' = chain
  /\ save' = save /\ submit' = submit /\ stored' = stored /\ late' = late
  /\ env' = env

LEMMA PollFacts ==
  ASSUME Types, Poll
  PROVE  Types' /\ PollEffect
<1> USE DEF PollEffect
<1>frame. /\ server' = server /\ accepted' = accepted /\ page' = page /\ chain' = chain
          /\ save' = save /\ submit' = submit /\ stored' = stored /\ late' = late
          /\ env' = env
  BY DEF Poll, calls
<1>1. "poll" \in Fetchers
  BY DEF Fetchers
<1>2. /\ fetches' \in [Fetchers -> Call]
      /\ fetches'["poll"].state = "sent" /\ fetches'["poll"].answer = fetches["poll"].answer
      /\ \A g \in Fetchers : g # "poll" => fetches'[g] = fetches[g]
  BY <1>1, FetchStarts DEF Poll
<1>3. Types'
  BY <1>2 DEF Types, Poll
<1> QED BY <1>frame, <1>2, <1>3 DEF Poll

ReadSessionEffect(f) ==
  /\ fetches[f].state = "sent" /\ fetches'[f].state = "reading"
  /\ fetches'[f].version = server.version /\ fetches'[f].status = server.status
  /\ fetches'[f].answer = fetches[f].answer
  /\ \A g \in Fetchers : g # f => fetches'[g] = fetches[g]
  /\ server' = server /\ accepted' = accepted /\ page' = page /\ chain' = chain
  /\ save' = save /\ submit' = submit /\ stored' = stored /\ late' = late
  /\ env' = env

LEMMA ReadSessionFacts ==
  ASSUME Types, NEW f \in Fetchers, ReadSession(f)
  PROVE  Types' /\ ReadSessionEffect(f)
<1> USE DEF ReadSessionEffect
<1>frame. /\ server' = server /\ accepted' = accepted /\ page' = page /\ chain' = chain
          /\ save' = save /\ submit' = submit /\ stored' = stored /\ late' = late
          /\ env' = env
  BY DEF ReadSession, calls
<1> DEFINE c == [fetches[f] EXCEPT !.state = "reading", !.version = server.version,
                                   !.status = server.status]
<1>1. fetches[f] \in Call /\ server.version \in Nat /\ server.status \in Statuses
  BY DEF Types
<1>2. /\ c \in Call /\ c.state = "reading" /\ c.version = server.version
      /\ c.status = server.status /\ c.answer = fetches[f].answer
  BY <1>1 DEF Call
<1>3. fetches' = [fetches EXCEPT ![f] = c]
  BY <1>1 DEF Types, ReadSession
<1> HIDE DEF c
<1>4. fetches' \in [Fetchers -> Call] /\ fetches'[f] = c
      /\ \A g \in Fetchers : g # f => fetches'[g] = fetches[g]
  BY <1>2, <1>3, OneFetch
<1>5. Types'
  BY <1>4 DEF Types, ReadSession
<1> QED BY <1>frame, <1>2, <1>4, <1>5 DEF ReadSession

ReadQuestionsEffect(f) ==
  /\ fetches[f].state = "reading" /\ fetches'[f].state = "ok"
  /\ fetches'[f].version = fetches[f].version /\ fetches'[f].status = fetches[f].status
  /\ fetches'[f].answer = server.answer
  /\ \A g \in Fetchers : g # f => fetches'[g] = fetches[g]
  /\ server' = server /\ accepted' = accepted /\ page' = page /\ chain' = chain
  /\ save' = save /\ submit' = submit /\ stored' = stored /\ late' = late
  /\ env' = env

LEMMA ReadQuestionsFacts ==
  ASSUME Types, NEW f \in Fetchers, ReadQuestions(f)
  PROVE  Types' /\ ReadQuestionsEffect(f)
<1> USE DEF ReadQuestionsEffect
<1>frame. /\ server' = server /\ accepted' = accepted /\ page' = page /\ chain' = chain
          /\ save' = save /\ submit' = submit /\ stored' = stored /\ late' = late
          /\ env' = env
  BY DEF ReadQuestions, calls
<1> DEFINE c == [fetches[f] EXCEPT !.state = "ok", !.answer = server.answer]
<1>1. fetches[f] \in Call /\ server.answer \in Text
  BY DEF Types
<1>2. /\ c \in Call /\ c.state = "ok" /\ c.version = fetches[f].version
      /\ c.status = fetches[f].status /\ c.answer = server.answer
  BY <1>1 DEF Call
<1>3. fetches' = [fetches EXCEPT ![f] = c]
  BY <1>1 DEF Types, ReadQuestions
<1> HIDE DEF c
<1>4. fetches' \in [Fetchers -> Call] /\ fetches'[f] = c
      /\ \A g \in Fetchers : g # f => fetches'[g] = fetches[g]
  BY <1>2, <1>3, OneFetch
<1>5. Types'
  BY <1>4 DEF Types, ReadQuestions
<1> QED BY <1>frame, <1>2, <1>4, <1>5 DEF ReadQuestions

LEMMA EndFetchFacts ==
  ASSUME Types, NEW f \in Fetchers, EndFetch(f)
  PROVE  /\ fetches' \in [Fetchers -> Call] /\ fetches'[f] = NoCall
         /\ \A g \in Fetchers : g # f => fetches'[g] = fetches[g]
         /\ submit' \in [pc : PcSet, answer : Text]
         /\ IF f = "refetch" THEN submit'.pc = "idle" /\ submit'.answer = 0
                             ELSE submit' = submit
<1>1. NoCall \in Call
  BY Bounds DEF NoCall, Call, Text
<1>2. fetches' \in [Fetchers -> Call] /\ fetches'[f] = NoCall
      /\ \A g \in Fetchers : g # f => fetches'[g] = fetches[g]
  BY <1>1, OneFetch DEF EndFetch
<1>3. /\ submit' \in [pc : PcSet, answer : Text]
      /\ IF f = "refetch" THEN submit'.pc = "idle" /\ submit'.answer = 0
                          ELSE submit' = submit
  BY Bounds DEF EndFetch, NoSubmit, Types, PcSet, Text
<1> QED BY <1>2, <1>3

(* What a fetch that ends without showing anything leaves.                 *)
Left(q, p) ==
  /\ q \in Page /\ q.draft = p.draft /\ q.ver = p.ver /\ q.view = p.view /\ q.status = p.status
  /\ q.snapshot = p.snapshot /\ q.timer = p.timer /\ (q.generating => p.generating)
  /\ q.submitting = p.submitting /\ (q.armed <=> p.armed)

LEMMA ErrorPage ==
  ASSUME page \in Page,
         page' = [page EXCEPT !.error = TRUE, !.generating = FALSE, !.loading = FALSE]
  PROVE  Left(page', page)
<1>1. /\ page' \in Page /\ page'.draft = page.draft /\ page'.ver = page.ver
      /\ page'.view = page.view /\ page'.status = page.status
      /\ page'.snapshot = page.snapshot /\ page'.timer = page.timer
  BY DEF Page
<1>2. page'.submitting = page.submitting /\ ~ page'.generating
  BY DEF Page
<1>3. (page'.armed <=> page.armed)
  BY DEF Page
<1> QED BY <1>1, <1>2, <1>3 DEF Left

LEMMA GonePage ==
  ASSUME page \in Page, page' = [page EXCEPT !.gone = TRUE]
  PROVE  Left(page', page)
<1>1. /\ page' \in Page /\ page'.draft = page.draft /\ page'.ver = page.ver
      /\ page'.view = page.view /\ page'.status = page.status
      /\ page'.snapshot = page.snapshot /\ page'.timer = page.timer
  BY DEF Page
<1>2. page'.submitting = page.submitting /\ page'.generating = page.generating
  BY DEF Page
<1>3. (page'.armed <=> page.armed)
  BY DEF Page
<1> QED BY <1>1, <1>2, <1>3 DEF Left

LEMMA ShownPage ==
  ASSUME Types, NEW d \in Call, d.status # "none"
  PROVE  LET q == Shown(page, d) IN
           /\ q \in Page /\ q.view = d.version /\ q.status = d.status
           /\ q.ver \in {page.ver, d.version} /\ q.ver >= page.ver /\ q.ver >= d.version
           /\ \/ q.draft = d.answer
              \/ stored.version = d.version /\ q.draft = stored.answer /\ stored.answer > 0
           /\ (q.generating <=> d.status \in Waiting) /\ q.timer \in {page.timer, "up"}
           /\ q.snapshot = page.snapshot /\ q.submitting = page.submitting /\ ArmedOK(q)
<1> DEFINE m == Merged(d)
           w == IF d.version > page.ver THEN d.version ELSE page.ver
           g == d.status \in Waiting
           t == IF page.view = 0 /\ env.expired THEN "up" ELSE page.timer
           q == [page EXCEPT !.draft = m, !.view = d.version, !.status = d.status,
                             !.ver = w, !.generating = g, !.loading = FALSE, !.timer = t]
<1>1. page \in Page /\ d.version \in Nat /\ d.answer \in Text /\ d.status \in Statuses
      /\ stored.answer \in Text /\ page.ver \in Nat /\ page.timer \in {"running", "stopped", "up"}
  BY DEF Types, Call, Body, Page
<1>2. /\ m \in Text
      /\ \/ m = d.answer
         \/ stored.version = d.version /\ m = stored.answer /\ stored.answer > 0
  BY <1>1 DEF Merged
<1>3. w \in Nat /\ w \in {page.ver, d.version} /\ w >= page.ver /\ w >= d.version
  BY <1>1
<1>4. g \in BOOLEAN /\ t \in {"running", "stopped", "up"} /\ t \in {page.timer, "up"}
  BY <1>1
<1>5. Rearmed(q) = Shown(page, d)
  BY <1>1 DEF Shown, Page
<1>6. (g <=> d.status \in Waiting)
  OBVIOUS
<1> HIDE DEF m, w, g, t
<1>7. q \in Page
  BY <1>1, <1>2, <1>3, <1>4 DEF Page
<1>8. /\ q.view = d.version /\ q.status = d.status /\ q.ver = w /\ q.draft = m
      /\ q.timer = t /\ q.snapshot = page.snapshot
  BY <1>1 DEF Page
<1>9. (q.generating <=> g) /\ q.submitting = page.submitting
  BY <1>1, <1>4 DEF Page
<1> HIDE DEF q
<1>10. /\ Rearmed(q) \in Page /\ ArmedOK(Rearmed(q)) /\ Same(Rearmed(q), q)
       /\ Rearmed(q).timer = q.timer /\ Rearmed(q).submitting = q.submitting
  BY <1>7, RearmedPage
<1> QED BY <1>2, <1>3, <1>4, <1>5, <1>6, <1>8, <1>9, <1>10 DEF Same

FetchAnsweredEffect(f) ==
  /\ fetches[f].state = "ok" /\ fetches'[f] = NoCall
  /\ \A g \in Fetchers : g # f => fetches'[g] = fetches[g]
  /\ IF f = "refetch" THEN submit'.pc = "idle" /\ submit'.answer = 0
                      ELSE submit' = submit
  /\ \/ Left(page', page) /\ stored' = stored
     \/ /\ fetches[f].status \notin {"COMPLETED", "FAILED"}
        /\ page'.view = fetches[f].version /\ page'.status = fetches[f].status
        /\ page'.ver \in {page.ver, fetches[f].version}
        /\ page'.ver >= page.ver /\ page'.ver >= fetches[f].version
        /\ \/ page'.draft = fetches[f].answer
           \/ /\ stored.version = fetches[f].version
              /\ page'.draft = stored.answer /\ stored.answer > 0
        /\ (page'.generating <=> fetches[f].status \in Waiting)
        /\ page'.timer \in {page.timer, "up"}
        /\ page'.snapshot = page.snapshot /\ page'.submitting = page.submitting
        /\ ArmedOK(page')
        /\ \/ stored' = stored
           \/ page'.draft > 0 /\ stored' = [version |-> page'.ver, answer |-> page'.draft]
  /\ server' = server /\ accepted' = accepted /\ chain' = chain /\ save' = save
  /\ late' = late /\ env' = env

LEMMA FetchAnsweredFacts ==
  ASSUME Types, NEW f \in Fetchers, FetchAnswered(f), fetches[f].status # "none"
  PROVE  Types' /\ FetchAnsweredEffect(f)
<1> USE DEF FetchAnsweredEffect
<1>frame. /\ server' = server /\ accepted' = accepted /\ chain' = chain /\ save' = save
          /\ late' = late /\ env' = env
  BY DEF FetchAnswered, EndFetch, calls
<1>1. /\ fetches' \in [Fetchers -> Call] /\ fetches'[f] = NoCall
      /\ \A g \in Fetchers : g # f => fetches'[g] = fetches[g]
      /\ submit' \in [pc : PcSet, answer : Text]
      /\ IF f = "refetch" THEN submit'.pc = "idle" /\ submit'.answer = 0
                          ELSE submit' = submit
  BY EndFetchFacts DEF FetchAnswered
<1>2. page \in Page /\ fetches[f] \in Call
  BY DEF Types
<1>3. CASE Left(page', page) /\ stored' = stored
  <2>1. Types'
    BY <1>1, <1>3 DEF Types, FetchAnswered, EndFetch, Left
  <2> QED BY <1>frame, <1>1, <1>3, <2>1 DEF FetchAnswered
<1>4. CASE /\ fetches[f].status \notin {"COMPLETED", "FAILED"}
           /\ page' = Shown(page, fetches[f]) /\ stored' = Copy(page')
  <2>1. page' \in Page /\ page'.ver \in Nat /\ page'.draft \in Text
    BY <1>2, <1>4, ShownPage DEF Page
  <2>2. \/ stored' = stored
        \/ page'.draft > 0 /\ stored' = [version |-> page'.ver, answer |-> page'.draft]
    BY <1>4 DEF Copy
  <2>3. stored' \in Body
    BY <2>1, <2>2 DEF Types, Body
  <2>4. Types'
    BY <1>1, <2>1, <2>3 DEF Types, FetchAnswered, EndFetch
  <2>5. /\ page'.view = fetches[f].version /\ page'.status = fetches[f].status
        /\ page'.ver \in {page.ver, fetches[f].version}
        /\ page'.ver >= page.ver /\ page'.ver >= fetches[f].version
        /\ \/ page'.draft = fetches[f].answer
           \/ /\ stored.version = fetches[f].version
              /\ page'.draft = stored.answer /\ stored.answer > 0
        /\ (page'.generating <=> fetches[f].status \in Waiting)
        /\ page'.timer \in {page.timer, "up"}
        /\ page'.snapshot = page.snapshot /\ page'.submitting = page.submitting
        /\ ArmedOK(page')
    BY <1>2, <1>4, ShownPage
  <2> QED BY <1>frame, <1>1, <1>4, <2>2, <2>4, <2>5 DEF FetchAnswered
<1>5. CASE fetches[f].status = "COMPLETED"
  BY <1>2, <1>3, <1>5, GonePage DEF FetchAnswered
<1>6. CASE fetches[f].status = "FAILED"
  BY <1>2, <1>3, <1>6, ErrorPage DEF FetchAnswered
<1>7. CASE fetches[f].status \notin {"COMPLETED", "FAILED"}
  <2>1. page' = Shown(page, fetches[f]) /\ stored' = Copy(page')
    BY <1>7 DEF FetchAnswered
  <2> QED BY <1>frame, <1>4, <1>7, <2>1
<1> QED BY <1>5, <1>6, <1>7

FetchFailedEffect(f) ==
  /\ fetches[f].state = "failed" /\ fetches'[f] = NoCall
  /\ \A g \in Fetchers : g # f => fetches'[g] = fetches[g]
  /\ IF f = "refetch" THEN submit'.pc = "idle" /\ submit'.answer = 0
                      ELSE submit' = submit
  /\ Left(page', page) /\ stored' = stored
  /\ server' = server /\ accepted' = accepted /\ chain' = chain /\ save' = save
  /\ stored' = stored /\ late' = late /\ env' = env

LEMMA FetchFailedFacts ==
  ASSUME Types, NEW f \in Fetchers, FetchFailed(f)
  PROVE  Types' /\ FetchFailedEffect(f)
<1> USE DEF FetchFailedEffect
<1>frame. /\ server' = server /\ accepted' = accepted /\ chain' = chain /\ save' = save
          /\ stored' = stored /\ late' = late /\ env' = env
  BY DEF FetchFailed, EndFetch, calls
<1>1. /\ fetches' \in [Fetchers -> Call] /\ fetches'[f] = NoCall
      /\ \A g \in Fetchers : g # f => fetches'[g] = fetches[g]
      /\ submit' \in [pc : PcSet, answer : Text]
      /\ IF f = "refetch" THEN submit'.pc = "idle" /\ submit'.answer = 0
                          ELSE submit' = submit
  BY EndFetchFacts DEF FetchFailed
<1>2. Left(page', page) /\ stored' = stored
  BY ErrorPage DEF Types, FetchFailed
<1>3. Types'
  BY <1>1, <1>2 DEF Types, FetchFailed, EndFetch, Left
<1> QED BY <1>frame, <1>1, <1>2, <1>3 DEF FetchFailed

LEMMA MishapFacts ==
  ASSUME Types, NEW k, Mishap(k)
  PROVE  /\ env' \in Env /\ env'.edits = env.edits /\ env'.kinds = env.kinds \cup {k}
<1> DEFINE ks == env.kinds \cup {k}
           m == env.mishaps + 1
<1>1. ks \in SUBSET {"lost", "reload", "stream"}
  BY RoomAssumption DEF Mishap, Types
<1>2. env' = [env EXCEPT !.mishaps = m, !.kinds = ks] /\ env \in Env /\ m \in Nat
  BY DEF Mishap, Types, Env
<1> HIDE DEF ks, m
<1>3. env' \in Env /\ env'.edits = env.edits /\ env'.kinds = ks
  BY <1>1, <1>2 DEF Env
<1> QED BY <1>3 DEF ks

(* A request that is left behind is the save or the submission under way.  *)
LateSave(r) ==
  save.state = "sent" /\ r.kind = "save" /\ r.version = save.version /\ r.answer = save.answer
LateSubmit(r) ==
  /\ submit.pc = "sent" /\ r.kind = "submit" /\ r.version = page.snapshot.version
  /\ r.answer = page.snapshot.answer

LEMMA AbandonedFacts ==
  ASSUME Types, NEW r \in Abandoned
  PROVE  r \in Request /\ (LateSave(r) \/ LateSubmit(r))
<1>1. CASE save.state = "sent" /\ r = [kind |-> "save", version |-> save.version, answer |-> save.answer]
  BY <1>1 DEF Types, Call, Request, LateSave
<1>2. CASE submit.pc = "sent" /\ r = [kind |-> "submit", version |-> page.snapshot.version,
                                     answer |-> page.snapshot.answer]
  BY <1>2 DEF Types, Page, Body, Request, LateSubmit
<1> QED BY <1>1, <1>2 DEF Abandoned

LoseCallEffect ==
  /\ env'.edits = env.edits /\ env'.kinds = env.kinds \cup {"lost"}
  /\ \/ /\ save.state \in {"sent", "ok"} /\ save'.state = "failed"
        /\ save'.version = save.version /\ save'.answer = save.answer
        /\ \A r \in late' : r \in late \/ LateSave(r)
        /\ submit' = submit /\ fetches' = fetches
     \/ /\ submit.pc \in {"sent", "ok"} /\ submit'.pc = "failed"
        /\ submit'.answer = submit.answer
        /\ \A r \in late' : r \in late \/ LateSubmit(r)
        /\ save' = save /\ fetches' = fetches
     \/ /\ \E f \in Fetchers :
             /\ fetches[f].state \in {"sent", "reading", "ok"}
             /\ fetches'[f].state = "failed" /\ fetches'[f].answer = fetches[f].answer
             /\ \A g \in Fetchers : g # f => fetches'[g] = fetches[g]
        /\ submit' = submit /\ save' = save /\ late' = late
  /\ server' = server /\ accepted' = accepted /\ page' = page /\ chain' = chain
  /\ stored' = stored

LEMMA LoseCallFacts ==
  ASSUME Types, LoseCall
  PROVE  Types' /\ LoseCallEffect
<1> USE DEF LoseCallEffect
<1>frame. /\ server' = server /\ accepted' = accepted /\ page' = page /\ chain' = chain
          /\ stored' = stored
  BY DEF LoseCall, calls
<1>1. env' \in Env /\ env'.edits = env.edits /\ env'.kinds = env.kinds \cup {"lost"}
  BY MishapFacts DEF LoseCall
<1>2. CASE /\ save.state \in {"sent", "ok"} /\ save' = [save EXCEPT !.state = "failed"]
           /\ \E r \in SUBSET {a \in Abandoned : a.kind = "save"} : late' = late \cup r
           /\ UNCHANGED <<submit, fetches>>
  <2>1. save' \in Call /\ save'.state = "failed" /\ save'.version = save.version
        /\ save'.answer = save.answer
    BY <1>2 DEF Types, Call
  <2>2. \A r \in late' : r \in late \/ (r \in Abandoned /\ r.kind = "save")
    BY <1>2
  <2>3. \A r \in late' : r \in Request /\ (r \in late \/ LateSave(r))
    BY <2>2, AbandonedFacts DEF LateSubmit, Types, Request
  <2>4. Types'
    BY <1>1, <1>2, <2>1, <2>3 DEF Types, LoseCall, Request, Env
  <2> QED BY <1>frame, <1>1, <1>2, <2>1, <2>3, <2>4
<1>3. CASE /\ submit.pc \in {"sent", "ok"} /\ submit' = [submit EXCEPT !.pc = "failed"]
           /\ \E r \in SUBSET {a \in Abandoned : a.kind = "submit"} : late' = late \cup r
           /\ UNCHANGED <<save, fetches>>
  <2>1. submit' \in [pc : PcSet, answer : Text] /\ submit'.pc = "failed"
        /\ submit'.answer = submit.answer
    BY <1>3 DEF Types, PcSet
  <2>2. \A r \in late' : r \in late \/ (r \in Abandoned /\ r.kind = "submit")
    BY <1>3
  <2>3. \A r \in late' : r \in Request /\ (r \in late \/ LateSubmit(r))
    BY <2>2, AbandonedFacts DEF LateSave, Types, Request
  <2>4. Types'
    BY <1>1, <1>3, <2>1, <2>3 DEF Types, LoseCall, Request, Env
  <2> QED BY <1>frame, <1>1, <1>3, <2>1, <2>3, <2>4
<1>4. CASE /\ \E f \in Fetchers : fetches[f].state \in {"sent", "reading", "ok"}
                                  /\ fetches' = [fetches EXCEPT ![f].state = "failed"]
           /\ UNCHANGED <<save, submit, late>>
  <2>1. PICK f \in Fetchers : fetches[f].state \in {"sent", "reading", "ok"}
                              /\ fetches' = [fetches EXCEPT ![f].state = "failed"]
    BY <1>4
  <2> DEFINE c == [fetches[f] EXCEPT !.state = "failed"]
  <2>2. fetches[f] \in Call
    BY DEF Types
  <2>3. c \in Call /\ c.state = "failed" /\ c.answer = fetches[f].answer
    BY <2>2 DEF Call
  <2>4. fetches' = [fetches EXCEPT ![f] = c]
    BY <2>1, <2>2 DEF Types
  <2> HIDE DEF c
  <2>5. fetches' \in [Fetchers -> Call] /\ fetches'[f] = c
        /\ \A g \in Fetchers : g # f => fetches'[g] = fetches[g]
    BY <2>3, <2>4, OneFetch
  <2>6. Types'
    BY <1>1, <1>4, <2>5 DEF Types, LoseCall, Env
  <2> QED BY <1>frame, <1>1, <1>4, <2>1, <2>3, <2>5, <2>6
<1> QED BY <1>2, <1>3, <1>4 DEF LoseCall

LEMMA MountedFacts ==
  /\ Mounted \in Page /\ Mounted.draft = 0 /\ Mounted.ver = 0 /\ Mounted.view = 0
  /\ Mounted.status = "none" /\ ~ Mounted.generating /\ ~ Mounted.armed
  /\ Mounted.timer = "running" /\ Mounted.snapshot = NoBody
  /\ FirstFetch \in [Fetchers -> Call]
  /\ \A f \in Fetchers : /\ FirstFetch[f].answer = 0
                         /\ FirstFetch[f].state = IF f = "open" THEN "sent" ELSE "none"
<1>1. NoBody \in Body /\ 0 \in Text
  BY Bounds DEF NoBody, Body, Text
<1>2. NoCall \in Call /\ [NoCall EXCEPT !.state = "sent"] \in Call
      /\ [NoCall EXCEPT !.state = "sent"].state = "sent"
      /\ [NoCall EXCEPT !.state = "sent"].answer = 0
      /\ NoCall.state = "none" /\ NoCall.answer = 0
  BY <1>1 DEF NoCall, Call
<1>3. Mounted \in Page
  BY <1>1 DEF Mounted, Page
<1> QED BY <1>2, <1>3 DEF Mounted, FirstFetch

ReloadEffect ==
  /\ page' = Mounted /\ fetches' = FirstFetch /\ chain' = <<>>
  /\ save' = NoCall /\ submit' = NoSubmit
  /\ env'.edits = env.edits /\ env'.kinds = env.kinds \cup {"reload"}
  /\ \A r \in late' : r \in late \/ LateSave(r) \/ LateSubmit(r)
  /\ server' = server /\ accepted' = accepted /\ stored' = stored

LEMMA ReloadFacts ==
  ASSUME Types, Reload
  PROVE  Types' /\ ReloadEffect
<1> USE DEF ReloadEffect
<1>frame. /\ server' = server /\ accepted' = accepted /\ stored' = stored
  BY DEF Reload, calls
<1>1. env' \in Env /\ env'.edits = env.edits /\ env'.kinds = env.kinds \cup {"reload"}
  BY MishapFacts DEF Reload
<1>2. \A r \in late' : r \in late \/ r \in Abandoned
  BY DEF Reload
<1>3. \A r \in late' : r \in Request /\ (r \in late \/ LateSave(r) \/ LateSubmit(r))
  BY <1>2, AbandonedFacts DEF Types, Request
<1>4. page' \in Page /\ fetches' \in [Fetchers -> Call]
  BY MountedFacts DEF Reload
<1>5. save' \in Call /\ submit' \in [pc : PcSet, answer : Text] /\ chain' \in Seq(Entry)
  BY Bounds, EmptySeq DEF Reload, NoCall, NoSubmit, Call, PcSet, Text
<1>6. Types'
  BY <1>1, <1>3, <1>4, <1>5 DEF Types, Reload, Request, Entry, Env
<1> QED BY <1>frame, <1>1, <1>3, <1>6 DEF Reload

StreamTellsEffect ==
  /\ Same(page', page) /\ page'.timer = page.timer
  /\ page'.submitting = page.submitting /\ (page'.armed <=> page.armed)
  /\ fetches'["open"].state = "sent" /\ fetches'["open"].answer = fetches["open"].answer
  /\ \A g \in Fetchers : g # "open" => fetches'[g] = fetches[g]
  /\ env'.edits = env.edits /\ env'.kinds = env.kinds \cup {"stream"}
  /\ page.view # 0 /\ server.version > page.view
  /\ server' = server /\ accepted' = accepted /\ chain' = chain /\ save' = save
  /\ submit' = submit /\ stored' = stored /\ late' = late

LEMMA StreamTellsFacts ==
  ASSUME Types, StreamTells
  PROVE  Types' /\ StreamTellsEffect
<1> USE DEF StreamTellsEffect
<1>frame. /\ server' = server /\ accepted' = accepted /\ chain' = chain /\ save' = save
          /\ submit' = submit /\ stored' = stored /\ late' = late
  BY DEF StreamTells, calls
<1>guard. /\ page.view # 0 /\ server.version > page.view
  BY DEF StreamTells, calls
<1>1. env' \in Env /\ env'.edits = env.edits /\ env'.kinds = env.kinds \cup {"stream"}
  BY MishapFacts DEF StreamTells
<1>2. "open" \in Fetchers
  BY DEF Fetchers
<1>3. /\ fetches' \in [Fetchers -> Call]
      /\ fetches'["open"].state = "sent" /\ fetches'["open"].answer = fetches["open"].answer
      /\ \A g \in Fetchers : g # "open" => fetches'[g] = fetches[g]
  BY <1>2, FetchStarts DEF StreamTells
<1>4. /\ page' \in Page /\ Same(page', page) /\ page'.timer = page.timer
      /\ page'.submitting = page.submitting /\ (page'.armed <=> page.armed)
  BY LoadingPage DEF Types, StreamTells
<1>5. Types'
  BY <1>1, <1>3, <1>4 DEF Types, StreamTells, Env
<1> QED BY <1>frame, <1>guard, <1>1, <1>3, <1>4, <1>5

LateRequestEffect ==
  /\ \E r \in late :
       /\ late' = late \ {r}
       /\ \/ /\ r.kind = "save" /\ CanSave(r.version) /\ accepted' = accepted
             /\ server'.status = server.status /\ server'.version = server.version + 1
             /\ server'.answer = r.answer
          \/ /\ r.kind = "submit" /\ CanSubmit(r.version)
             /\ accepted' = [version |-> r.version, answer |-> r.answer]
             /\ server'.status = "EVALUATING" /\ server'.version = server.version + 1
             /\ server'.answer = r.answer
          \/ server' = server /\ accepted' = accepted
  /\ page' = page /\ chain' = chain /\ save' = save /\ submit' = submit
  /\ fetches' = fetches /\ stored' = stored /\ env' = env

LEMMA LateRequestFacts ==
  ASSUME Types, LateRequest
  PROVE  Types' /\ LateRequestEffect
<1> USE DEF LateRequestEffect
<1>frame. /\ page' = page /\ chain' = chain /\ save' = save /\ submit' = submit
          /\ fetches' = fetches /\ stored' = stored /\ env' = env
  BY DEF LateRequest, calls
<1>1. PICK r \in late :
        /\ late' = late \ {r}
        /\ \/ r.kind = "save" /\ CanSave(r.version) /\ Store(r.answer) /\ UNCHANGED accepted
           \/ r.kind = "submit" /\ CanSubmit(r.version)
              /\ Accept([version |-> r.version, answer |-> r.answer])
           \/ UNCHANGED <<server, accepted>>
        /\ UNCHANGED <<page, calls, stored, env>>
  BY DEF LateRequest
<1> DEFINE v == server.version + 1
<1>2. r \in Request /\ r.version \in Nat /\ r.answer \in Text /\ v \in Nat
      /\ server \in [status : Statuses, version : Nat, answer : Text]
  BY DEF Types, Request
<1>3. CASE r.kind = "save" /\ CanSave(r.version) /\ Store(r.answer) /\ UNCHANGED accepted
  <2>1. server' = [server EXCEPT !.version = v, !.answer = r.answer]
    BY <1>2, <1>3 DEF Store
  <2> HIDE DEF v
  <2>2. /\ server' \in [status : Statuses, version : Nat, answer : Text]
        /\ server'.status = server.status /\ server'.version = v /\ server'.answer = r.answer
    BY <1>2, <2>1
  <2>3. Types'
    BY <1>1, <1>3, <2>2 DEF Types, calls
  <2> QED BY <1>frame, <1>1, <1>3, <2>2, <2>3 DEF v
<1>4. CASE r.kind = "submit" /\ CanSubmit(r.version)
           /\ Accept([version |-> r.version, answer |-> r.answer])
  <2>1. /\ accepted' = [version |-> r.version, answer |-> r.answer]
        /\ server' = [status |-> "EVALUATING", version |-> v, answer |-> r.answer]
    BY <1>4 DEF Accept
  <2>2. accepted' \in Body /\ server' \in [status : Statuses, version : Nat, answer : Text]
    BY <1>2, <2>1 DEF Body, Statuses
  <2>3. Types'
    BY <1>1, <2>2 DEF Types, calls
  <2> QED BY <1>frame, <1>1, <1>4, <2>1, <2>3
<1>5. CASE UNCHANGED <<server, accepted>>
  <2>1. Types'
    BY <1>1, <1>5 DEF Types, calls
  <2> QED BY <1>frame, <1>1, <1>5, <2>1
<1> QED BY <1>1, <1>3, <1>4, <1>5

WorkEffect ==
  /\ server.status \in Waiting
  /\ server'.version = server.version + 1 /\ server'.answer = server.answer
  /\ IF server.status = "GENERATING" THEN server'.status \in {"FAILED", "IN_PROGRESS"}
                                     ELSE server'.status \in {"FAILED", "COMPLETED"}
  /\ accepted' = accepted /\ page' = page /\ chain' = chain /\ save' = save
  /\ submit' = submit /\ fetches' = fetches /\ stored' = stored /\ late' = late
  /\ env' = env

LEMMA WorkFacts ==
  ASSUME Types, Work
  PROVE  Types' /\ WorkEffect
<1> USE DEF WorkEffect
<1>frame. /\ accepted' = accepted /\ page' = page /\ chain' = chain /\ save' = save
          /\ submit' = submit /\ fetches' = fetches /\ stored' = stored /\ late' = late
          /\ env' = env
  BY DEF Work, calls
<1>1. PICK st \in {"FAILED", IF server.status = "GENERATING" THEN "IN_PROGRESS" ELSE "COMPLETED"} :
        server' = [server EXCEPT !.status = st, !.version = @ + 1]
  BY DEF Work
<1> DEFINE v == server.version + 1
<1>2. v \in Nat /\ server \in [status : Statuses, version : Nat, answer : Text]
      /\ st \in Statuses
  BY DEF Types, Statuses
<1>3. server' = [server EXCEPT !.status = st, !.version = v]
  BY <1>1, <1>2
<1> HIDE DEF v
<1>4. /\ server' \in [status : Statuses, version : Nat, answer : Text]
      /\ server'.status = st /\ server'.version = v /\ server'.answer = server.answer
  BY <1>2, <1>3
<1>5. Types'
  BY <1>4 DEF Types, Work, calls
<1> QED BY <1>frame, <1>4, <1>5 DEF Work, v

-----------------------------------------------------------------------------
(* Part 3: numbers, bodies and the chain. *)

PageNumbers ==
  /\ server.version \in Nat /\ server.answer \in Nat
  /\ accepted.version \in Nat /\ accepted.answer \in Nat
  /\ stored.version \in Nat /\ stored.answer \in Nat
  /\ page.draft \in Nat /\ page.ver \in Nat /\ page.view \in Nat
  /\ page.snapshot.version \in Nat /\ page.snapshot.answer \in Nat
  /\ save.version \in Nat /\ save.answer \in Nat /\ submit.answer \in Nat
  /\ env.edits \in Nat
ChainNumbers == Len(chain) \in Nat /\ \A i \in 1 .. Len(chain) : chain[i].answer \in Nat
FetchNumbers == \A f \in Fetchers : fetches[f].version \in Nat /\ fetches[f].answer \in Nat
LateNumbers == \A r \in late : r.version \in Nat /\ r.answer \in Nat
Numbers == PageNumbers /\ ChainNumbers /\ FetchNumbers /\ LateNumbers

LEMMA TypesNumbers == Types => Numbers
<1> SUFFICES ASSUME Types
             PROVE  Numbers
  OBVIOUS
<1>1. \A a \in Text : a \in Nat
  BY Bounds DEF Text
<1>2. \A i \in 1 .. Len(chain) : chain[i] \in Entry
  BY ElementOfSeq DEF Types, Entry
<1>3. Len(chain) \in Nat
  BY LenProperties DEF Types
<1>4. \A f \in Fetchers : fetches[f] \in Call
  BY DEF Types
<1>5. \A r \in late : r.version \in Nat /\ r.answer \in Text
  BY DEF Types
<1>6. page \in Page /\ save \in Call /\ accepted \in Body /\ stored \in Body
  BY DEF Types
<1>7. page.snapshot \in Body
  BY <1>6 DEF Page
<1> QED BY <1>1, <1>2, <1>3, <1>4, <1>5, <1>6, <1>7 DEF Numbers, PageNumbers,
     ChainNumbers, FetchNumbers, LateNumbers, Types, Page, Call, Body, Entry

LEMMA TypesNumbersNext == Types' => Numbers'
<1> SUFFICES ASSUME Types'
             PROVE  Numbers'
  OBVIOUS
<1>1. \A a \in Text : a \in Nat
  BY Bounds DEF Text
<1>2. \A i \in 1 .. Len(chain') : chain'[i] \in Entry
  BY ElementOfSeq DEF Types, Entry
<1>3. Len(chain') \in Nat
  BY LenProperties DEF Types
<1>4. \A f \in Fetchers : fetches'[f] \in Call
  BY DEF Types
<1>5. \A r \in late' : r.version \in Nat /\ r.answer \in Text
  BY DEF Types
<1>6. page' \in Page /\ save' \in Call /\ accepted' \in Body /\ stored' \in Body
  BY DEF Types
<1>7. page'.snapshot \in Body
  BY <1>6 DEF Page
<1> QED BY <1>1, <1>2, <1>3, <1>4, <1>5, <1>6, <1>7 DEF Numbers, PageNumbers,
     ChainNumbers, FetchNumbers, LateNumbers, Types, Page, Call, Body, Entry

(* Bodies are equal when both their parts are.                             *)
SameBody(a, b) == a.version = b.version /\ a.answer = b.answer
LEMMA BodyEqual ==
  \A a, b \in Body : a = b <=> SameBody(a, b)
BY DEF Body, SameBody

Bodies ==
  /\ accepted \in Body /\ page.snapshot \in Body /\ NoBody \in Body
  /\ NoBody.version = 0 /\ NoBody.answer = 0
  /\ \A v \in Nat, a \in Text : [version |-> v, answer |-> a] \in Body

LEMMA TypesBodies == Types => Bodies
BY Bounds DEF Types, Page, NoBody, Body, Text, Bodies

LEMMA TypesBodiesNext == Types' => Bodies'
BY Bounds DEF Types, Page, NoBody, Body, Text, Bodies

(* The chain with one save more, and with its first one answered.          *)
Longer(e) ==
  /\ chain' # <<>> /\ Len(chain') = Len(chain) + 1 /\ Len(chain) \in Nat
  /\ \A i \in 1 .. Len(chain') :
       \/ i = Len(chain') /\ chain'[i] = e
       \/ i < Len(chain') /\ i \in 1 .. Len(chain) /\ chain'[i] = chain[i]
  /\ chain # <<>> => Head(chain') = Head(chain)
Shorter ==
  /\ Len(chain') = Len(chain) - 1 /\ Len(chain) \in Nat
  /\ \A i \in 1 .. Len(chain') :
       i \in Nat /\ i > 0 /\ i + 1 \in 1 .. Len(chain) /\ chain'[i] = chain[i + 1]
  /\ Head(chain) = chain[1] /\ 1 \in 1 .. Len(chain)
  /\ Len(chain) = 1 => chain' = <<>>

LEMMA HeadFacts ==
  ASSUME Types, chain # <<>>
  PROVE  Head(chain) = chain[1] /\ 1 \in 1 .. Len(chain)
BY Shortened DEF Types, Entry

LEMMA LongerChain ==
  ASSUME Types, NEW e \in Entry, chain' = Append(chain, e)
  PROVE  Longer(e)
<1>1. /\ chain' # <<>> /\ Len(chain') = Len(chain) + 1 /\ Len(chain) \in Nat
      /\ \A i \in 1 .. Len(chain') :
           (i = Len(chain') /\ chain'[i] = e) \/ (i \in 1 .. Len(chain) /\ chain'[i] = chain[i])
      /\ chain # <<>> => Head(chain') = Head(chain)
  BY Appended DEF Types, Entry
<1>2. \A i \in 1 .. Len(chain') : i \in 1 .. Len(chain) => i < Len(chain')
  BY <1>1
<1> QED BY <1>1, <1>2 DEF Longer

LEMMA ShorterChain ==
  ASSUME Types, chain # <<>>, chain' = Tail(chain)
  PROVE  Shorter
<1>1. /\ Len(chain') = Len(chain) - 1 /\ Len(chain) \in Nat
      /\ \A i \in 1 .. Len(chain') : i + 1 \in 1 .. Len(chain) /\ chain'[i] = chain[i + 1]
      /\ Head(chain) = chain[1] /\ 1 \in 1 .. Len(chain)
      /\ Len(chain) = 1 => chain' = <<>>
  BY Shortened DEF Types, Entry
<1>2. \A i \in 1 .. Len(chain') : i \in Nat /\ i > 0
  BY <1>1
<1> QED BY <1>1, <1>2 DEF Shorter

LEMMA InvFacts ==
  ASSUME Inv, Types'
  PROVE  /\ Texts /\ Versions /\ Blank /\ Chained /\ Submitting /\ Ended
         /\ Current /\ Rivals /\ Overtaken /\ Ordered /\ Kept
         /\ Numbers /\ Numbers' /\ Bodies /\ Bodies' /\ Types
BY TypesNumbers, TypesNumbersNext, TypesBodies, TypesBodiesNext DEF Inv

-----------------------------------------------------------------------------
(* Part 4: every action keeps the invariant. *)
LEMMA EditInv ==
  ASSUME Inv, Types', EditEffect
  PROVE  Inv'
<1>1. /\ Texts /\ Versions /\ Blank /\ Chained /\ Submitting /\ Ended
      /\ Current /\ Rivals /\ Overtaken /\ Ordered /\ Kept
      /\ Numbers /\ Numbers' /\ Bodies /\ Bodies'
  BY InvFacts
<1> USE DEF EditEffect
<1>2. Texts'
  <2>1. PageTexts'
    BY <1>1 DEF Texts, PageTexts, Numbers, PageNumbers
  <2>2. ChainTexts'
    <3> SUFFICES ASSUME NEW i \in 1 .. Len(chain)
                 PROVE  chain[i].answer <= env.edits + 1
      BY DEF Texts, ChainTexts
    <3>1. chain[i].answer <= env.edits
      BY <1>1 DEF Texts, ChainTexts
    <3>2. env.edits \in Nat /\ chain[i].answer \in Nat
      BY <1>1 DEF Numbers, PageNumbers, ChainNumbers
    <3> QED BY <3>1, <3>2
  <2>3. FetchTexts'
    BY <1>1 DEF Texts, FetchTexts, Numbers, PageNumbers, FetchNumbers
  <2>4. LateTexts'
    BY <1>1 DEF Texts, LateTexts, Numbers, PageNumbers, LateNumbers
  <2> QED BY <2>1, <2>2, <2>3, <2>4 DEF Texts
<1>3. Versions'
  BY <1>1
     DEF Versions, PageVersions, Numbers, PageNumbers, FetchVersions, Read, FetchNumbers,
         LateVersions, LateNumbers
<1>4. Blank'
  BY <1>1 DEF Blank
<1>5. Chained'
  BY <1>1 DEF Chained, Heads, ArmedOK, Waiting, Queue, Numbers, PageNumbers, ChainNumbers
<1>6. Submitting'
  BY <1>1 DEF Submitting
<1>7. Ended'
  BY <1>1 DEF Ended, PageEnded, Over, Waiting, Bodies, FetchEnded, Read
<1>8. Current'
  BY <1>1
     DEF Current, SaveStands, Open, Numbers, PageNumbers, Versions, PageVersions,
         FetchesStand, Read, FetchVersions, FetchNumbers, SnapshotStands, LateStand,
         LateNumbers, LateVersions
<1>9. Rivals'
  <2> SUFFICES ASSUME Open', NEW r \in late', Rival(r)'
               PROVE  Fresh'
    BY DEF Rivals
  <2>1. Open /\ r \in late /\ Rival(r)
    BY DEF Open, Rival
  <2>2. Fresh
    BY <1>1, <2>1 DEF Rivals
  <2>3. env.edits + 1 # 0
    BY <1>1 DEF Numbers, PageNumbers
  <2> QED BY <2>2, <2>3 DEF Fresh, Read
<1>10. Overtaken'
  BY <1>1
     DEF Overtaken, PageBehind, Bodies, Numbers, PageNumbers, FetchBehind, Read,
         FetchNumbers
<1>11. Ordered'
  <2> SUFFICES ASSUME "stream" \notin env'.kinds
               PROVE  PageTurns' /\ FetchTurns' /\ Known'
    BY DEF Ordered
  <2>1. PageTurns /\ FetchTurns /\ Known
    BY <1>1 DEF Ordered
  <2>2. PageTurns'
    BY <1>1, <2>1 DEF PageTurns, Waiting
  <2>3. FetchTurns'
    BY <1>1, <2>1
       DEF FetchTurns, Read, Fetchers, PageTurns, Waiting, Ended, FetchEnded, Over
  <2>4. Known'
    <3> SUFFICES ASSUME Open'
                 PROVE  DraftNewer' /\ SaveKnown' /\ ChainRises' /\ StoredNewer' /\ SnapshotExact' /\ LateNewer'
      BY DEF Known
    <3>0. DraftNewer /\ SaveKnown /\ ChainRises /\ StoredNewer /\ SnapshotExact /\ LateNewer
      BY <1>1, <2>1 DEF Known, Open
    <3>1. DraftNewer'
      <4>1. server.answer <= env.edits /\ server.answer \in Nat /\ env.edits \in Nat
        BY <1>1 DEF Texts, PageTexts, Numbers, PageNumbers
      <4>2. env.edits + 1 >= server.answer
        BY <4>1
      <4> QED BY <3>0, <4>2 DEF DraftNewer
    <3>2. SaveKnown'
      BY <1>1, <2>1, <3>0 DEF SaveKnown, Numbers, PageNumbers
    <3>3. ChainRises'
      <4>1. \A i, j \in 1 .. Len(chain) : i <= j => chain[i].answer <= chain[j].answer
        BY <3>0 DEF ChainRises
      <4>2. ASSUME NEW i \in 1 .. Len(chain)
            PROVE  chain[i].answer <= env.edits + 1
        <5>1. chain[i].answer <= env.edits
          BY <1>1 DEF Texts, ChainTexts
        <5>2. env.edits \in Nat /\ chain[i].answer \in Nat
          BY <1>1 DEF Numbers, PageNumbers, ChainNumbers
        <5> QED BY <5>1, <5>2
      <4> QED BY <4>1, <4>2 DEF ChainRises
    <3>4. StoredNewer'
      BY <1>1, <2>1, <3>0 DEF StoredNewer, Numbers, PageNumbers, Texts, PageTexts
    <3>5. SnapshotExact'
      BY <1>1, <2>1, <3>0 DEF SnapshotExact, Numbers, PageNumbers
    <3>6. LateNewer'
      BY <1>1, <2>1, <3>0 DEF LateNewer
    <3> QED BY <3>1, <3>2, <3>3, <3>4, <3>5, <3>6
  <2> QED BY <2>2, <2>3, <2>4
<1>12. Kept'
  <2> SUFFICES ASSUME env.kinds \subseteq {"lost"}
               PROVE  Kept'
    BY DEF Kept
  <2>1. fetches["poll"].state = "none"
    BY <1>1 DEF Ordered, PageTurns, Waiting
  <2> QED BY <1>1, <2>1 DEF Kept, Read
<1> QED BY <1>2, <1>3, <1>4, <1>5, <1>6, <1>7, <1>8, <1>9, <1>10, <1>11, <1>12 DEF Inv

LEMMA TimeUpInv ==
  ASSUME Inv, Types', TimeUpEffect
  PROVE  Inv'
<1>1. /\ Texts /\ Versions /\ Blank /\ Chained /\ Submitting /\ Ended
      /\ Current /\ Rivals /\ Overtaken /\ Ordered /\ Kept
      /\ Numbers /\ Numbers' /\ Bodies /\ Bodies'
  BY InvFacts
<1> USE DEF TimeUpEffect, Same
<1>2. Texts'
  BY <1>1
     DEF Texts, PageTexts, Numbers, PageNumbers, ChainTexts, ChainNumbers, FetchTexts,
         FetchNumbers, LateTexts, LateNumbers
<1>3. Versions'
  BY <1>1
     DEF Versions, PageVersions, Numbers, PageNumbers, FetchVersions, Read, FetchNumbers,
         LateVersions, LateNumbers
<1>4. Blank'
  BY <1>1 DEF Blank
<1>5. Chained'
  BY <1>1 DEF Chained, Heads, ArmedOK, Waiting, Queue, Numbers, PageNumbers, ChainNumbers
<1>6. Submitting'
  BY <1>1 DEF Submitting
<1>7. Ended'
  BY <1>1 DEF Ended, PageEnded, Over, Waiting, Bodies, FetchEnded, Read
<1>8. Current'
  BY <1>1
     DEF Current, SaveStands, Open, Numbers, PageNumbers, Versions, PageVersions,
         FetchesStand, Read, FetchVersions, FetchNumbers, SnapshotStands, LateStand,
         LateNumbers, LateVersions
<1>9. Rivals'
  <2> SUFFICES ASSUME Open', NEW r \in late', Rival(r)'
               PROVE  Fresh'
    BY DEF Rivals
  <2>1. Open /\ r \in late /\ Rival(r)
    BY <1>1 DEF Open, Rival
  <2>2. Fresh
    BY <1>1, <2>1 DEF Rivals
  <2> QED BY <1>1, <2>2 DEF Fresh, Read
<1>10. Overtaken'
  BY <1>1
     DEF Overtaken, PageBehind, Bodies, Numbers, PageNumbers, FetchBehind, Read,
         FetchNumbers
<1>11. Ordered'
  BY <1>1
     DEF Ordered, PageTurns, Waiting, FetchTurns, Read, Known, DraftNewer, Numbers,
         PageNumbers, ChainNumbers, SaveKnown, ChainRises, StoredNewer, SnapshotExact,
         LateNewer, LateNumbers, Open
<1>12. Kept'
  BY <1>1 DEF Kept, Read
<1> QED BY <1>2, <1>3, <1>4, <1>5, <1>6, <1>7, <1>8, <1>9, <1>10, <1>11, <1>12 DEF Inv

LEMMA AutosaveInv ==
  ASSUME Inv, Types', AutosaveEffect
  PROVE  Inv'
<1>1. /\ Texts /\ Versions /\ Blank /\ Chained /\ Submitting /\ Ended
      /\ Current /\ Rivals /\ Overtaken /\ Ordered /\ Kept
      /\ Numbers /\ Numbers' /\ Bodies /\ Bodies'
  BY InvFacts
<1> USE DEF AutosaveEffect, Same
<1> DEFINE e == [answer |-> page.draft, by |-> "timeout"]
<1>a. Longer(e) /\ e.answer = page.draft /\ e.by = "timeout"
  BY LongerChain, InvFacts
<1>b. submit.pc = "idle" /\ page.draft > 0
  BY <1>1 DEF Chained, Heads, Submitting
<1> HIDE DEF e
<1>2. Texts'
  <2>1. PageTexts'
    BY <1>1, <1>a, <1>b DEF Texts, PageTexts, Numbers, PageNumbers
  <2>2. ChainTexts'
    <3> SUFFICES ASSUME NEW i \in 1 .. Len(chain')
                 PROVE  chain'[i].answer <= env.edits
      BY DEF Texts, ChainTexts
    <3>1. chain'[i] = e \/ (i \in 1 .. Len(chain) /\ chain'[i] = chain[i])
      BY <1>a DEF Longer
    <3> QED BY <1>1, <1>a, <3>1 DEF Texts, PageTexts, ChainTexts
  <2>3. FetchTexts'
    BY <1>1, <1>a, <1>b DEF Texts, FetchTexts, Numbers, PageNumbers, FetchNumbers
  <2>4. LateTexts'
    BY <1>1, <1>a, <1>b DEF Texts, LateTexts, Numbers, PageNumbers, LateNumbers
  <2> QED BY <2>1, <2>2, <2>3, <2>4 DEF Texts
<1>3. Versions'
  BY <1>1, <1>a, <1>b
     DEF Versions, PageVersions, Numbers, PageNumbers, FetchVersions, Read, FetchNumbers,
         LateVersions, LateNumbers
<1>4. Blank'
  BY <1>1, <1>b DEF Blank
<1>5. Chained'
  <2>1. Heads'
    BY <1>1, <1>a, <1>b DEF Chained, Heads, ArmedOK, Waiting
  <2>2. Queue'
    <3> SUFFICES ASSUME NEW i \in 1 .. Len(chain')
                 PROVE  chain'[i].answer > 0 /\ chain'[i].by # "submit"
      BY DEF Chained, Queue
    <3>1. chain'[i] = e \/ (i \in 1 .. Len(chain) /\ chain'[i] = chain[i])
      BY <1>a DEF Longer
    <3> QED BY <1>1, <1>a, <1>b, <3>1 DEF Chained, Queue
  <2> QED BY <2>1, <2>2 DEF Chained
<1>6. Submitting'
  BY <1>1, <1>a, <1>b DEF Submitting, NoBody, Bodies
<1>7. Ended'
  BY <1>1, <1>a, <1>b DEF Ended, PageEnded, Over, Waiting, Bodies, FetchEnded, Read
<1>8. Current'
  BY <1>1, <1>a, <1>b
     DEF Current, SaveStands, Open, Numbers, PageNumbers, Versions, PageVersions,
         FetchesStand, Read, FetchVersions, FetchNumbers, SnapshotStands, LateStand,
         LateNumbers, LateVersions
<1>9. Rivals'
  <2> SUFFICES ASSUME Open', NEW r \in late', Rival(r)'
               PROVE  Fresh'
    BY DEF Rivals
  <2>1. Open /\ r \in late /\ Rival(r)
    BY <1>1 DEF Open, Rival
  <2>2. Fresh
    BY <1>1, <2>1 DEF Rivals
  <2> QED BY <1>1, <2>2 DEF Fresh, Read
<1>10. Overtaken'
  BY <1>1, <1>a, <1>b
     DEF Overtaken, PageBehind, Bodies, Numbers, PageNumbers, FetchBehind, Read,
         FetchNumbers
<1>11. Ordered'
  <2> SUFFICES ASSUME "stream" \notin env'.kinds
               PROVE  PageTurns' /\ FetchTurns' /\ Known'
    BY DEF Ordered
  <2>1. PageTurns /\ FetchTurns /\ Known
    BY <1>1 DEF Ordered
  <2>2. PageTurns'
    BY <2>1 DEF PageTurns, Waiting
  <2>3. FetchTurns'
    BY <2>1 DEF FetchTurns, Read
  <2>4. Known'
    <3> SUFFICES ASSUME Open'
                 PROVE  DraftNewer' /\ SaveKnown' /\ ChainRises' /\ StoredNewer' /\ SnapshotExact' /\ LateNewer'
      BY DEF Known
    <3>0. DraftNewer /\ SaveKnown /\ ChainRises /\ StoredNewer /\ SnapshotExact /\ LateNewer
      BY <1>1, <2>1 DEF Known, Open
    <3>1. DraftNewer'
      <4> SUFFICES ASSUME page.ver = server.version, NEW i \in 1 .. Len(chain')
                   PROVE  chain'[i].answer >= server.answer
        BY <3>0 DEF DraftNewer
      <4>1. chain'[i] = e \/ (i \in 1 .. Len(chain) /\ chain'[i] = chain[i])
        BY <1>a DEF Longer
      <4> QED BY <1>a, <3>0, <4>1 DEF DraftNewer
    <3>2. SaveKnown'
      BY <3>0 DEF SaveKnown, Numbers, PageNumbers
    <3>3. ChainRises'
      <4>1. ASSUME NEW i \in 1 .. Len(chain')
            PROVE  /\ chain'[i].answer <= page.draft
                   /\ \/ i = Len(chain') /\ chain'[i].answer = page.draft
                      \/ i < Len(chain') /\ i \in 1 .. Len(chain) /\ chain'[i] = chain[i]
        <5>1. \/ i = Len(chain') /\ chain'[i] = e
              \/ i < Len(chain') /\ i \in 1 .. Len(chain) /\ chain'[i] = chain[i]
          BY <1>a DEF Longer
        <5>2. page.draft \in Nat
          BY <1>1 DEF Numbers, PageNumbers
        <5> QED BY <1>a, <3>0, <5>1, <5>2 DEF ChainRises
      <4>2. ASSUME NEW i \in 1 .. Len(chain'), NEW j \in 1 .. Len(chain'), i <= j
            PROVE  chain'[i].answer <= chain'[j].answer
        <5>1. CASE j = Len(chain') /\ chain'[j].answer = page.draft
          BY <4>1, <5>1
        <5>2. CASE j < Len(chain') /\ j \in 1 .. Len(chain) /\ chain'[j] = chain[j]
          <6>1. i # Len(chain')
            BY <4>2, <5>2
          <6>2. i \in 1 .. Len(chain) /\ chain'[i] = chain[i]
            BY <4>1, <6>1
          <6> QED BY <3>0, <4>2, <5>2, <6>2 DEF ChainRises
        <5> QED BY <4>1, <5>1, <5>2
      <4> QED BY <4>1, <4>2 DEF ChainRises
    <3>4. StoredNewer'
      BY <3>0 DEF StoredNewer, Numbers, PageNumbers
    <3>5. SnapshotExact'
      BY <3>0 DEF SnapshotExact, Numbers, PageNumbers
    <3>6. LateNewer'
      BY <1>1, <1>a, <1>b, <2>1, <3>0 DEF LateNewer, Numbers, PageNumbers, LateNumbers, Open
    <3> QED BY <3>1, <3>2, <3>3, <3>4, <3>5, <3>6
  <2> QED BY <2>2, <2>3, <2>4
<1>12. Kept'
  BY <1>1, <1>a, <1>b DEF Kept, Read, Numbers, PageNumbers
<1> QED BY <1>2, <1>3, <1>4, <1>5, <1>6, <1>7, <1>8, <1>9, <1>10, <1>11, <1>12 DEF Inv

LEMMA SendSaveInv ==
  ASSUME Inv, Types', SendSaveEffect
  PROVE  Inv'
<1>1. /\ Texts /\ Versions /\ Blank /\ Chained /\ Submitting /\ Ended
      /\ Current /\ Rivals /\ Overtaken /\ Ordered /\ Kept
      /\ Numbers /\ Numbers' /\ Bodies /\ Bodies'
  BY InvFacts
<1> USE DEF SendSaveEffect
<1>a. Head(chain) = chain[1] /\ 1 \in 1 .. Len(chain)
  BY HeadFacts, InvFacts
<1>2. Texts'
  <2>1. PageTexts'
    BY <1>1, <1>a DEF Texts, PageTexts, Numbers, PageNumbers, ChainTexts
  <2>2. ChainTexts'
    BY <1>1, <1>a DEF Texts, ChainTexts
  <2>3. FetchTexts'
    BY <1>1, <1>a DEF Texts, FetchTexts
  <2>4. LateTexts'
    BY <1>1, <1>a DEF Texts, LateTexts
  <2> QED BY <2>1, <2>2, <2>3, <2>4 DEF Texts
<1>3. Versions'
  BY <1>1, <1>a
     DEF Versions, PageVersions, Numbers, PageNumbers, FetchVersions, Read, FetchNumbers,
         LateVersions, LateNumbers
<1>4. Blank'
  BY <1>1, <1>a DEF Blank
<1>5. Chained'
  <2>1. Heads'
    BY <1>1, <1>a DEF Chained, Heads, ArmedOK, Waiting
  <2>2. Queue'
    BY <1>1, <1>a DEF Chained, Queue
  <2> QED BY <2>1, <2>2 DEF Chained
<1>6. Submitting'
  BY <1>1, <1>a DEF Submitting
<1>7. Ended'
  BY <1>1, <1>a DEF Ended, PageEnded, Over, Waiting, Bodies, FetchEnded, Read
<1>8. Current'
  BY <1>1, <1>a
     DEF Current, SaveStands, Open, Numbers, PageNumbers, Versions, PageVersions,
         FetchesStand, Read, FetchVersions, FetchNumbers, SnapshotStands, LateStand,
         LateNumbers, LateVersions
<1>9. Rivals'
  BY <1>1, <1>a
     DEF Rivals, Rival, Open, Fresh, Read, Bodies, Numbers, PageNumbers, LateNumbers
<1>10. Overtaken'
  BY <1>1, <1>a
     DEF Overtaken, PageBehind, Bodies, Numbers, PageNumbers, FetchBehind, Read,
         FetchNumbers
<1>11. Ordered'
  BY <1>1, <1>a
     DEF Ordered, PageTurns, Waiting, FetchTurns, Read, Known, DraftNewer, Numbers,
         PageNumbers, ChainNumbers, SaveKnown, ChainRises, StoredNewer, SnapshotExact,
         LateNewer, LateNumbers, Open
<1>12. Kept'
  BY <1>1, <1>a DEF Kept, Read, Numbers, PageNumbers
<1> QED BY <1>2, <1>3, <1>4, <1>5, <1>6, <1>7, <1>8, <1>9, <1>10, <1>11, <1>12 DEF Inv

LEMMA HandleSaveInv ==
  ASSUME Inv, Types', HandleSaveEffect
  PROVE  Inv'
<1>1. /\ Texts /\ Versions /\ Blank /\ Chained /\ Submitting /\ Ended
      /\ Current /\ Rivals /\ Overtaken /\ Ordered /\ Kept
      /\ Numbers /\ Numbers' /\ Bodies /\ Bodies'
  BY InvFacts
<1> USE DEF HandleSaveEffect
<1>2. Texts'
  BY <1>1
     DEF Texts, PageTexts, Numbers, PageNumbers, ChainTexts, ChainNumbers, FetchTexts,
         FetchNumbers, LateTexts, LateNumbers
<1>3. Versions'
  <2>1. PageVersions'
    BY <1>1 DEF Versions, PageVersions, Numbers, PageNumbers
  <2>2. FetchVersions'
    BY <1>1 DEF Versions, FetchVersions, Read, Numbers, PageNumbers, FetchNumbers
  <2>3. LateVersions'
    BY <1>1 DEF Versions, LateVersions, Numbers, PageNumbers, LateNumbers
  <2> QED BY <2>1, <2>2, <2>3 DEF Versions
<1>4. Blank'
  BY <1>1 DEF Blank
<1>5. Chained'
  <2>1. Heads'
    BY <1>1 DEF Chained, Heads
  <2>2. Queue'
    BY <1>1 DEF Chained, Queue
  <2> QED BY <2>1, <2>2 DEF Chained
<1>6. Submitting'
  BY <1>1 DEF Submitting
<1>7. Ended'
  <2>1. PageEnded'
    BY <1>1 DEF Ended, PageEnded, Over, Waiting, Bodies, CanSave
  <2>2. FetchEnded'
    BY <1>1 DEF Ended, FetchEnded, Over, Waiting, Read
  <2> QED BY <2>1, <2>2 DEF Ended
<1>8. Current'
  <2>1. SaveStands'
    BY <1>1 DEF Current, SaveStands, Open
  <2>2. FetchesStand'
    BY <1>1
       DEF Current, FetchesStand, Open, Read, Versions, FetchVersions, Numbers, PageNumbers,
           FetchNumbers
  <2>3. SnapshotStands'
    BY <1>1 DEF Current, SnapshotStands, Open, Numbers, PageNumbers, Versions, PageVersions
  <2>4. LateStand'
    BY <1>1
       DEF Current, LateStand, Open, Numbers, PageNumbers, LateNumbers, Versions,
           LateVersions
  <2> QED BY <2>1, <2>2, <2>3, <2>4 DEF Current
<1>9. Rivals'
  <2> SUFFICES ASSUME Open', NEW r \in late', Rival(r)'
               PROVE  Fresh'
    BY DEF Rivals
  <2>1. CASE server' = server /\ save'.state = "failed"
    <3>1. Open /\ r \in late /\ Rival(r)
      BY <2>1 DEF Open, Rival
    <3>2. Fresh
      BY <1>1, <3>1 DEF Rivals
    <3> QED BY <2>1, <3>2 DEF Fresh, Read
  <2>2. CASE server'.version = server.version + 1
    BY <1>1, <2>2 DEF Rival, Versions, LateVersions, Numbers, PageNumbers, LateNumbers
  <2> QED BY <2>1, <2>2
<1>10. Overtaken'
  <2> SUFFICES ASSUME accepted' # NoBody, accepted' # page'.snapshot
               PROVE  PageBehind' /\ FetchBehind'
    BY DEF Overtaken
  <2>1. PageBehind'
    BY <1>1
       DEF Overtaken, PageBehind, FetchBehind, Bodies, Numbers, PageNumbers, Ended,
           PageEnded, Over, CanSave
  <2>2. FetchBehind'
    BY <1>1 DEF Overtaken, PageBehind, FetchBehind, Read, Numbers, PageNumbers, FetchNumbers
  <2> QED BY <2>1, <2>2
<1>11. Ordered'
  <2> SUFFICES ASSUME "stream" \notin env'.kinds
               PROVE  PageTurns' /\ FetchTurns' /\ Known'
    BY DEF Ordered
  <2>1. PageTurns /\ FetchTurns /\ Known
    BY <1>1 DEF Ordered
  <2>2. PageTurns'
    BY <1>1, <2>1 DEF PageTurns, Waiting
  <2>3. FetchTurns'
    BY <1>1, <2>1 DEF FetchTurns, Read
  <2>4. Known'
    <3> SUFFICES ASSUME Open'
                 PROVE  DraftNewer' /\ SaveKnown' /\ ChainRises' /\ StoredNewer' /\ SnapshotExact' /\ LateNewer'
      BY DEF Known
    <3>0. DraftNewer /\ SaveKnown /\ ChainRises /\ StoredNewer /\ SnapshotExact /\ LateNewer
      BY <1>1, <2>1 DEF Known, Open
    <3>1. DraftNewer'
      <4>1. CASE server' = server
        BY <3>0, <4>1 DEF DraftNewer
      <4>2. CASE server'.version = server.version + 1
        <5>1. page.ver # server'.version
          BY <1>1, <4>2 DEF Versions, PageVersions, Numbers, PageNumbers
        <5> QED BY <5>1 DEF DraftNewer
      <4> QED BY <4>1, <4>2
    <3>2. SaveKnown'
      BY <1>1, <2>1, <3>0 DEF SaveKnown, Numbers, PageNumbers
    <3>3. ChainRises'
      BY <1>1, <2>1, <3>0 DEF ChainRises
    <3>4. StoredNewer'
      BY <1>1, <2>1, <3>0
         DEF StoredNewer, Numbers, PageNumbers, Versions, PageVersions, CanSave
    <3>5. SnapshotExact'
      BY <1>1, <2>1, <3>0
         DEF SnapshotExact, Numbers, PageNumbers, Versions, PageVersions, CanSave
    <3>6. LateNewer'
      BY <1>1, <2>1, <3>0
         DEF LateNewer, Numbers, PageNumbers, LateNumbers, Open, Versions, LateVersions,
             CanSave
    <3> QED BY <3>1, <3>2, <3>3, <3>4, <3>5, <3>6
  <2> QED BY <2>2, <2>3, <2>4
<1>12. Kept'
  BY <1>1 DEF Kept, Read
<1> QED BY <1>2, <1>3, <1>4, <1>5, <1>6, <1>7, <1>8, <1>9, <1>10, <1>11, <1>12 DEF Inv

LEMMA SaveAnsweredInv ==
  ASSUME Inv, Types', SaveAnsweredEffect
  PROVE  Inv'
<1>1. /\ Texts /\ Versions /\ Blank /\ Chained /\ Submitting /\ Ended
      /\ Current /\ Rivals /\ Overtaken /\ Ordered /\ Kept
      /\ Numbers /\ Numbers' /\ Bodies /\ Bodies'
  BY InvFacts
<1> USE DEF SaveAnsweredEffect
<1>a. Shorter /\ chain # <<>>
  BY <1>1, ShorterChain, InvFacts DEF Chained, Heads
<1>b. /\ save.answer = chain[1].answer /\ page.view # 0
      /\ Head(chain).by = "submit" =>
           /\ chain' = <<>> /\ submit.pc = "saving" /\ save.answer = submit.answer
           /\ page.snapshot = NoBody /\ page.submitting
  <2>1. save.answer = chain[1].answer /\ Head(chain) = chain[1] /\ 1 \in 1 .. Len(chain)
    BY <1>1 DEF Chained, Heads
  <2>2. page.view # 0
    BY <1>1, <1>a DEF Blank
  <2>3. Head(chain).by = "submit" =>
          1 = Len(chain) /\ submit.pc = "saving" /\ save.answer = submit.answer
    BY <1>1, <2>1 DEF Chained, Queue
  <2>4. Head(chain).by = "submit" => chain' = <<>>
    BY <1>a, <2>3 DEF Shorter
  <2> QED BY <1>1, <2>1, <2>2, <2>3, <2>4 DEF Submitting
<1>c. /\ stored'.version \in {stored.version, save.version}
      /\ stored'.answer \in {stored.answer, page.draft}
      /\ page'.snapshot.version \in {page.snapshot.version, save.version}
      /\ page'.snapshot.answer \in {page.snapshot.answer, submit.answer}
      /\ submit'.answer = submit.answer
  OBVIOUS
<1>2. Texts'
  <2>1. PageTexts'
    <3> HIDE DEF SaveAnsweredEffect
    <3>1. /\ server' = server /\ accepted' = accepted /\ env' = env /\ page'.draft = page.draft
          /\ save'.answer = 0
      BY DEF SaveAnsweredEffect
    <3> QED BY <1>1, <1>c, <3>1 DEF Texts, PageTexts, Numbers, PageNumbers
  <2>2. ChainTexts'
    <3> SUFFICES ASSUME NEW i \in 1 .. Len(chain')
                 PROVE  chain'[i].answer <= env.edits
      BY DEF Texts, ChainTexts
    <3>1. i + 1 \in 1 .. Len(chain) /\ chain'[i] = chain[i + 1]
      BY <1>a DEF Shorter
    <3> QED BY <1>1, <3>1 DEF Texts, ChainTexts
  <2>3. FetchTexts'
    BY <1>1, <1>a, <1>b, <1>c DEF Texts, FetchTexts, Numbers, PageNumbers, FetchNumbers
  <2>4. LateTexts'
    BY <1>1, <1>a, <1>b, <1>c DEF Texts, LateTexts, Numbers, PageNumbers, LateNumbers
  <2> QED BY <2>1, <2>2, <2>3, <2>4 DEF Texts
<1>3. Versions'
  <2>1. PageVersions'
    <3> HIDE DEF SaveAnsweredEffect
    <3>1. /\ server' = server /\ page'.ver = save.version /\ save'.state = "none"
          /\ page'.view \in {page.view, save.version} /\ save'.version = 0
      BY DEF SaveAnsweredEffect
    <3> QED BY <1>1, <1>c, <3>1 DEF Versions, PageVersions, Numbers, PageNumbers
  <2>2. FetchVersions'
    BY <1>1, <1>a, <1>b, <1>c
       DEF Versions, FetchVersions, Read, Numbers, PageNumbers, FetchNumbers
  <2>3. LateVersions'
    BY <1>1, <1>a, <1>b, <1>c DEF Versions, LateVersions, Numbers, PageNumbers, LateNumbers
  <2> QED BY <2>1, <2>2, <2>3 DEF Versions
<1>4. Blank'
  <2>1. page'.ver = save.version /\ save.version > 0
    BY <1>1 DEF Versions, PageVersions
  <2>2. page'.view >= page.view /\ page'.view \in Nat /\ page.view \in Nat /\ save.version \in Nat
    BY <1>1 DEF Numbers, PageNumbers
  <2>3. page'.view # 0 /\ page'.ver # 0
    BY <1>b, <2>1, <2>2
  <2> QED BY <1>1, <1>b, <2>3 DEF Blank
<1>5. Chained'
  <2>1. Heads'
    BY <1>1, <1>a, <1>b, <1>c DEF Chained, Heads, ArmedOK, Waiting
  <2>2. Queue'
    <3>1. CASE Head(chain).by = "submit"
      <4>1. Len(chain') = 0
        BY <1>b, <3>1, EmptySeq
      <4> QED BY <4>1 DEF Chained, Queue
    <3>2. CASE Head(chain).by # "submit"
      <4> SUFFICES ASSUME NEW i \in 1 .. Len(chain')
                   PROVE  /\ chain'[i].answer > 0
                          /\ chain'[i].by = "submit" =>
                               /\ i = Len(chain') /\ submit'.pc = "saving"
                               /\ chain'[i].answer = submit'.answer
        BY DEF Queue
      <4>1. /\ i \in Nat /\ i + 1 \in 1 .. Len(chain) /\ chain'[i] = chain[i + 1]
            /\ Len(chain') = Len(chain) - 1 /\ Len(chain) \in Nat
        BY <1>a DEF Shorter
      <4>2. submit' = submit
        BY <3>2
      <4>3. /\ chain[i + 1].answer > 0
            /\ chain[i + 1].by = "submit" =>
                 /\ i + 1 = Len(chain) /\ submit.pc = "saving"
                 /\ chain[i + 1].answer = submit.answer
        BY <1>1, <4>1 DEF Chained, Queue
      <4> QED BY <4>1, <4>2, <4>3
    <3> QED BY <3>1, <3>2
  <2> QED BY <2>1, <2>2 DEF Chained
<1>6. Submitting'
  <2>1. CASE Head(chain).by = "submit" /\ submit'.pc = "sent"
             /\ page'.snapshot = [version |-> save.version, answer |-> submit.answer]
    <3>1. page'.snapshot.version > 0 /\ page'.snapshot # NoBody
      BY <1>1, <2>1 DEF Versions, PageVersions, NoBody
    <3> QED BY <1>1, <1>b, <2>1, <3>1 DEF Submitting
  <2>2. CASE submit' = submit /\ page'.snapshot = page.snapshot
    BY <1>1, <2>2 DEF Submitting
  <2> QED BY <2>1, <2>2
<1>7. Ended'
  BY <1>1, <1>a, <1>b, <1>c DEF Ended, PageEnded, Over, Waiting, Bodies, FetchEnded, Read
<1>8. Current'
  <2>1. SaveStands'
    BY <1>1, <1>a, <1>b, <1>c DEF Current, SaveStands
  <2>2. FetchesStand'
    BY <1>1, <1>a, <1>b, <1>c DEF Current, FetchesStand, Open
  <2>3. SnapshotStands'
    BY <1>1, <1>b DEF Current, SnapshotStands, SaveStands, Open
  <2>4. LateStand'
    BY <1>1, <1>a, <1>b, <1>c
       DEF Current, LateStand, Open, Numbers, PageNumbers, LateNumbers, Versions,
           LateVersions
  <2> QED BY <2>1, <2>2, <2>3, <2>4 DEF Current
<1>9. Rivals'
  <2> SUFFICES ASSUME Open', NEW r \in late', Rival(r)'
               PROVE  Fresh'
    BY DEF Rivals
  <2>1. Open /\ r \in late /\ r.kind = "submit" /\ r.version = server.version
        /\ [version |-> r.version, answer |-> r.answer] # page'.snapshot
    BY DEF Open, Rival
  <2>2. Rival(r)
    <3>1. CASE Head(chain).by = "submit"
      <4>1. r.version > 0
        BY <1>1, <2>1 DEF Versions, PageVersions
      <4>2. [version |-> r.version, answer |-> r.answer] # NoBody
        BY <4>1 DEF NoBody
      <4> QED BY <1>b, <4>2 DEF Rival
    <3>2. CASE page'.snapshot = page.snapshot
      BY <2>1, <3>2 DEF Rival
    <3> QED BY <3>1, <3>2
  <2>3. Fresh
    BY <1>1, <2>1, <2>2 DEF Rivals
  <2> QED BY <2>3 DEF Fresh
<1>10. Overtaken'
  <2> SUFFICES ASSUME accepted' # NoBody, accepted' # page'.snapshot
               PROVE  PageBehind' /\ FetchBehind'
    BY DEF Overtaken
  <2>1. PageBehind'
    <3>1. accepted # page.snapshot
      BY <1>b
    <3>2. PageBehind
      BY <1>1, <3>1 DEF Overtaken
    <3> QED BY <3>2 DEF Overtaken, PageBehind, FetchBehind
  <2>2. FetchBehind'
    <3>1. accepted # page.snapshot
      BY <1>b
    <3>2. FetchBehind
      BY <1>1, <3>1 DEF Overtaken
    <3> QED BY <1>b, <3>2 DEF Overtaken, PageBehind, FetchBehind, Read
  <2> QED BY <2>1, <2>2
<1>11. Ordered'
  <2> SUFFICES ASSUME "stream" \notin env'.kinds
               PROVE  PageTurns' /\ FetchTurns' /\ Known'
    BY DEF Ordered
  <2>1. PageTurns /\ FetchTurns /\ Known
    BY <1>1 DEF Ordered
  <2>2. PageTurns'
    BY <1>b, <2>1 DEF PageTurns
  <2>3. FetchTurns'
    BY <1>1, <2>1 DEF FetchTurns, Read
  <2>4. Known'
    <3> SUFFICES ASSUME Open'
                 PROVE  DraftNewer' /\ SaveKnown' /\ ChainRises' /\ StoredNewer' /\ SnapshotExact' /\ LateNewer'
      BY DEF Known
    <3>0. DraftNewer /\ SaveKnown /\ ChainRises /\ StoredNewer /\ SnapshotExact /\ LateNewer
      BY <1>1, <2>1 DEF Known, Open
    <3>1. DraftNewer'
      <4> SUFFICES ASSUME save.version = server.version
                   PROVE  /\ page.draft >= server.answer
                          /\ \A i \in 1 .. Len(chain') : chain'[i].answer >= server.answer
        BY DEF DraftNewer
      <4>1. server.answer = chain[1].answer /\ 1 \in 1 .. Len(chain)
        BY <1>1, <1>a, <1>b DEF Current, SaveStands, Open, Shorter
      <4>2. chain[1].answer <= page.draft
        BY <3>0, <4>1 DEF ChainRises
      <4>3. ASSUME NEW i \in 1 .. Len(chain')
            PROVE  chain'[i].answer >= chain[1].answer
        <5>1. /\ i + 1 \in 1 .. Len(chain) /\ chain'[i] = chain[i + 1]
              /\ i \in Nat
          BY <1>a DEF Shorter
        <5>2. chain[1].answer <= chain[i + 1].answer
          BY <3>0, <4>1, <5>1 DEF ChainRises
        <5>3. chain[1].answer \in Nat /\ chain[i + 1].answer \in Nat
          BY <1>1 DEF Numbers, ChainNumbers
        <5> QED BY <5>1, <5>2, <5>3
      <4>4. page.draft \in Nat /\ server.answer \in Nat
        BY <1>1 DEF Numbers, PageNumbers
      <4> QED BY <4>1, <4>2, <4>3, <4>4
    <3>2. SaveKnown'
      BY <1>1, <3>0 DEF SaveKnown, Numbers, PageNumbers
    <3>3. ChainRises'
      <4>1. ASSUME NEW i \in 1 .. Len(chain')
            PROVE  i \in Nat /\ i + 1 \in 1 .. Len(chain) /\ chain'[i] = chain[i + 1]
        BY <1>a DEF Shorter
      <4>2. ASSUME NEW i \in 1 .. Len(chain'), NEW j \in 1 .. Len(chain'), i <= j
            PROVE  chain'[i].answer <= chain'[j].answer
        <5>1. i + 1 <= j + 1
          BY <4>1, <4>2
        <5> QED BY <3>0, <4>1, <5>1 DEF ChainRises
      <4> QED BY <3>0, <4>1, <4>2 DEF ChainRises
    <3>4. StoredNewer'
      BY <1>1, <3>0, <3>1 DEF StoredNewer, DraftNewer
    <3>5. SnapshotExact'
      <4>1. CASE page'.snapshot = page.snapshot
        BY <3>0, <4>1 DEF SnapshotExact
      <4>2. CASE page'.snapshot = [version |-> save.version, answer |-> submit.answer]
                 /\ Head(chain).by = "submit"
        BY <1>1, <1>b, <4>2 DEF SnapshotExact, Current, SaveStands, Open
      <4> QED BY <4>1, <4>2
    <3>6. LateNewer'
      BY <1>1, <1>a, <1>b, <1>c, <2>1, <3>0
         DEF LateNewer, Numbers, PageNumbers, LateNumbers, Open
    <3> QED BY <3>1, <3>2, <3>3, <3>4, <3>5, <3>6
  <2> QED BY <2>2, <2>3, <2>4
<1>12. Kept'
  BY <1>1, <1>a, <1>b, <1>c DEF Kept, Read, Numbers, PageNumbers
<1> QED BY <1>2, <1>3, <1>4, <1>5, <1>6, <1>7, <1>8, <1>9, <1>10, <1>11, <1>12 DEF Inv

LEMMA SaveFailedInv ==
  ASSUME Inv, Types', SaveFailedEffect
  PROVE  Inv'
<1>1. /\ Texts /\ Versions /\ Blank /\ Chained /\ Submitting /\ Ended
      /\ Current /\ Rivals /\ Overtaken /\ Ordered /\ Kept
      /\ Numbers /\ Numbers' /\ Bodies /\ Bodies'
  BY InvFacts
<1> USE DEF SaveFailedEffect, Same
<1>a. Shorter /\ chain # <<>>
  BY <1>1, ShorterChain, InvFacts DEF Chained, Heads
<1>b. /\ page.view # 0
      /\ Head(chain).by = "submit" =>
           chain' = <<>> /\ submit.pc = "saving" /\ page.snapshot = NoBody
  <2>1. Head(chain) = chain[1] /\ 1 \in 1 .. Len(chain)
    BY <1>a DEF Shorter
  <2>2. page.view # 0
    BY <1>1, <1>a DEF Blank
  <2>3. Head(chain).by = "submit" => 1 = Len(chain) /\ submit.pc = "saving"
    BY <1>1, <2>1 DEF Chained, Queue
  <2>4. Head(chain).by = "submit" => chain' = <<>>
    BY <1>a, <2>3 DEF Shorter
  <2> QED BY <1>1, <2>1, <2>2, <2>3, <2>4 DEF Submitting
<1>c. submit'.answer \in {submit.answer, 0}
  OBVIOUS
<1>2. Texts'
  <2>1. PageTexts'
    <3> HIDE DEF SaveFailedEffect
    <3>1. /\ server' = server /\ accepted' = accepted /\ env' = env /\ stored' = stored
          /\ page'.draft = page.draft /\ page'.snapshot = page.snapshot /\ save'.answer = 0
      BY DEF SaveFailedEffect
    <3> QED BY <1>1, <1>c, <3>1 DEF Texts, PageTexts, Numbers, PageNumbers
  <2>2. ChainTexts'
    <3> SUFFICES ASSUME NEW i \in 1 .. Len(chain')
                 PROVE  chain'[i].answer <= env.edits
      BY DEF Texts, ChainTexts
    <3>1. i + 1 \in 1 .. Len(chain) /\ chain'[i] = chain[i + 1]
      BY <1>a DEF Shorter
    <3> QED BY <1>1, <3>1 DEF Texts, ChainTexts
  <2>3. FetchTexts'
    BY <1>1, <1>a, <1>b, <1>c DEF Texts, FetchTexts, Numbers, PageNumbers, FetchNumbers
  <2>4. LateTexts'
    BY <1>1, <1>a, <1>b, <1>c DEF Texts, LateTexts, Numbers, PageNumbers, LateNumbers
  <2> QED BY <2>1, <2>2, <2>3, <2>4 DEF Texts
<1>3. Versions'
  <2>1. PageVersions'
    <3> HIDE DEF SaveFailedEffect
    <3>1. /\ server' = server /\ stored' = stored /\ page'.ver = page.ver
          /\ page'.view = page.view /\ page'.snapshot = page.snapshot
          /\ save'.version = 0 /\ save'.state = "none"
      BY DEF SaveFailedEffect
    <3> QED BY <1>1, <3>1 DEF Versions, PageVersions, Numbers, PageNumbers
  <2>2. FetchVersions'
    BY <1>1, <1>a, <1>b, <1>c
       DEF Versions, FetchVersions, Read, Numbers, PageNumbers, FetchNumbers
  <2>3. LateVersions'
    BY <1>1, <1>a, <1>b, <1>c DEF Versions, LateVersions, Numbers, PageNumbers, LateNumbers
  <2> QED BY <2>1, <2>2, <2>3 DEF Versions
<1>4. Blank'
  BY <1>1 DEF Blank, Waiting, NoBody
<1>5. Chained'
  <2>1. Heads'
    BY <1>1, <1>a, <1>b, <1>c DEF Chained, Heads, ArmedOK, Waiting
  <2>2. Queue'
    <3>1. CASE Head(chain).by = "submit"
      <4>1. Len(chain') = 0
        BY <1>b, <3>1, EmptySeq
      <4> QED BY <4>1 DEF Chained, Queue
    <3>2. CASE Head(chain).by # "submit"
      <4> SUFFICES ASSUME NEW i \in 1 .. Len(chain')
                   PROVE  /\ chain'[i].answer > 0
                          /\ chain'[i].by = "submit" =>
                               /\ i = Len(chain') /\ submit'.pc = "saving"
                               /\ chain'[i].answer = submit'.answer
        BY DEF Queue
      <4>1. /\ i \in Nat /\ i + 1 \in 1 .. Len(chain) /\ chain'[i] = chain[i + 1]
            /\ Len(chain') = Len(chain) - 1 /\ Len(chain) \in Nat
        BY <1>a DEF Shorter
      <4>2. submit' = submit
        BY <3>2
      <4>3. /\ chain[i + 1].answer > 0
            /\ chain[i + 1].by = "submit" =>
                 /\ i + 1 = Len(chain) /\ submit.pc = "saving"
                 /\ chain[i + 1].answer = submit.answer
        BY <1>1, <4>1 DEF Chained, Queue
      <4> QED BY <4>1, <4>2, <4>3
    <3> QED BY <3>1, <3>2
  <2> QED BY <2>1, <2>2 DEF Chained
<1>6. Submitting'
  BY <1>1, <1>b DEF Submitting, NoBody
<1>7. Ended'
  BY <1>1, <1>a, <1>b, <1>c DEF Ended, PageEnded, Over, Waiting, Bodies, FetchEnded, Read
<1>8. Current'
  BY <1>1, <1>a, <1>b, <1>c
     DEF Current, SaveStands, Open, Numbers, PageNumbers, Versions, PageVersions,
         FetchesStand, Read, FetchVersions, FetchNumbers, SnapshotStands, LateStand,
         LateNumbers, LateVersions
<1>9. Rivals'
  BY <1>1, <1>a, <1>b, <1>c
     DEF Rivals, Rival, Open, Fresh, Read, Bodies, Numbers, PageNumbers, LateNumbers
<1>10. Overtaken'
  BY <1>1, <1>a, <1>b, <1>c
     DEF Overtaken, PageBehind, Bodies, Numbers, PageNumbers, FetchBehind, Read,
         FetchNumbers
<1>11. Ordered'
  BY <1>1, <1>a, <1>b, <1>c
     DEF Ordered, PageTurns, Waiting, FetchTurns, Read, Known, DraftNewer, Numbers,
         PageNumbers, ChainNumbers, SaveKnown, ChainRises, StoredNewer, SnapshotExact,
         LateNewer, LateNumbers, Open
<1>12. Kept'
  BY <1>1, <1>a, <1>b, <1>c DEF Kept, Read, Numbers, PageNumbers
<1> QED BY <1>2, <1>3, <1>4, <1>5, <1>6, <1>7, <1>8, <1>9, <1>10, <1>11, <1>12 DEF Inv

LEMMA HandleSubmitInv ==
  ASSUME Inv, Types', HandleSubmitEffect
  PROVE  Inv'
<1>1. /\ Texts /\ Versions /\ Blank /\ Chained /\ Submitting /\ Ended
      /\ Current /\ Rivals /\ Overtaken /\ Ordered /\ Kept
      /\ Numbers /\ Numbers' /\ Bodies /\ Bodies'
  BY InvFacts
<1> USE DEF HandleSubmitEffect
<1>2. Texts'
  BY <1>1
     DEF Texts, PageTexts, Numbers, PageNumbers, ChainTexts, ChainNumbers, FetchTexts,
         FetchNumbers, LateTexts, LateNumbers
<1>3. Versions'
  <2>1. PageVersions'
    BY <1>1 DEF Versions, PageVersions, Numbers, PageNumbers
  <2>2. FetchVersions'
    BY <1>1 DEF Versions, FetchVersions, Read, Numbers, PageNumbers, FetchNumbers
  <2>3. LateVersions'
    BY <1>1 DEF Versions, LateVersions, Numbers, PageNumbers, LateNumbers
  <2> QED BY <2>1, <2>2, <2>3 DEF Versions
<1>4. Blank'
  BY <1>1 DEF Blank
<1>5. Chained'
  BY <1>1 DEF Chained, Heads, ArmedOK, Waiting, Queue, Numbers, PageNumbers, ChainNumbers
<1>6. Submitting'
  BY <1>1 DEF Submitting
<1>7. Ended'
  <2>1. PageEnded'
    BY <1>1 DEF Ended, PageEnded, Over, Waiting, Bodies, CanSubmit, Submitting, NoBody
  <2>2. FetchEnded'
    BY <1>1 DEF Ended, FetchEnded, Over, Waiting, Read
  <2> QED BY <2>1, <2>2 DEF Ended
<1>8. Current'
  BY <1>1
     DEF Current, SaveStands, Open, Numbers, PageNumbers, Versions, PageVersions,
         FetchesStand, Read, FetchVersions, FetchNumbers, SnapshotStands, LateStand,
         LateNumbers, LateVersions
<1>9. Rivals'
  BY <1>1 DEF Rivals, Rival, Open, Fresh, Read, Bodies, Numbers, PageNumbers, LateNumbers
<1>10. Overtaken'
  BY <1>1
     DEF Overtaken, PageBehind, Bodies, Numbers, PageNumbers, FetchBehind, Read,
         FetchNumbers
<1>11. Ordered'
  BY <1>1
     DEF Ordered, PageTurns, Waiting, FetchTurns, Read, Known, DraftNewer, Numbers,
         PageNumbers, ChainNumbers, SaveKnown, ChainRises, StoredNewer, SnapshotExact,
         LateNewer, LateNumbers, Open
<1>12. Kept'
  BY <1>1 DEF Kept, Read
<1> QED BY <1>2, <1>3, <1>4, <1>5, <1>6, <1>7, <1>8, <1>9, <1>10, <1>11, <1>12 DEF Inv

LEMMA SubmitAnsweredInv ==
  ASSUME Inv, Types', SubmitAnsweredEffect
  PROVE  Inv'
<1>1. /\ Texts /\ Versions /\ Blank /\ Chained /\ Submitting /\ Ended
      /\ Current /\ Rivals /\ Overtaken /\ Ordered /\ Kept
      /\ Numbers /\ Numbers' /\ Bodies /\ Bodies'
  BY InvFacts
<1> USE DEF SubmitAnsweredEffect, Same, Fetchers
<1>2. Texts'
  BY <1>1
     DEF Texts, PageTexts, Numbers, PageNumbers, ChainTexts, ChainNumbers, FetchTexts,
         FetchNumbers, LateTexts, LateNumbers
<1>3. Versions'
  BY <1>1
     DEF Versions, PageVersions, Numbers, PageNumbers, FetchVersions, Read, FetchNumbers,
         LateVersions, LateNumbers
<1>4. Blank'
  BY <1>1 DEF Blank
<1>5. Chained'
  BY <1>1 DEF Chained, Heads, ArmedOK, Waiting, Queue, Numbers, PageNumbers, ChainNumbers
<1>6. Submitting'
  BY <1>1 DEF Submitting
<1>7. Ended'
  BY <1>1 DEF Ended, PageEnded, Over, Waiting, Bodies, FetchEnded, Read
<1>8. Current'
  BY <1>1
     DEF Current, SaveStands, Open, Numbers, PageNumbers, Versions, PageVersions,
         FetchesStand, Read, FetchVersions, FetchNumbers, SnapshotStands, LateStand,
         LateNumbers, LateVersions
<1>9. Rivals'
  <2> SUFFICES ASSUME Open', NEW r \in late', Rival(r)'
               PROVE  Fresh'
    BY DEF Rivals
  <2>1. Open /\ r \in late /\ Rival(r)
    BY DEF Open, Rival
  <2>2. Fresh
    BY <1>1, <2>1 DEF Rivals
  <2>3. page.snapshot # NoBody
    BY <1>1 DEF Submitting
  <2> QED BY <2>2, <2>3 DEF Fresh
<1>10. Overtaken'
  BY <1>1
     DEF Overtaken, PageBehind, Bodies, Numbers, PageNumbers, FetchBehind, Read,
         FetchNumbers
<1>11. Ordered'
  BY <1>1
     DEF Ordered, PageTurns, Waiting, FetchTurns, Read, Known, DraftNewer, Numbers,
         PageNumbers, ChainNumbers, SaveKnown, ChainRises, StoredNewer, SnapshotExact,
         LateNewer, LateNumbers, Open
<1>12. Kept'
  BY <1>1 DEF Kept, Read
<1> QED BY <1>2, <1>3, <1>4, <1>5, <1>6, <1>7, <1>8, <1>9, <1>10, <1>11, <1>12 DEF Inv

LEMMA SubmitFailedInv ==
  ASSUME Inv, Types', SubmitFailedEffect
  PROVE  Inv'
<1>1. /\ Texts /\ Versions /\ Blank /\ Chained /\ Submitting /\ Ended
      /\ Current /\ Rivals /\ Overtaken /\ Ordered /\ Kept
      /\ Numbers /\ Numbers' /\ Bodies /\ Bodies'
  BY InvFacts
<1> USE DEF SubmitFailedEffect, Same
<1>2. Texts'
  BY <1>1
     DEF Texts, PageTexts, Numbers, PageNumbers, ChainTexts, ChainNumbers, FetchTexts,
         FetchNumbers, LateTexts, LateNumbers
<1>3. Versions'
  BY <1>1
     DEF Versions, PageVersions, Numbers, PageNumbers, FetchVersions, Read, FetchNumbers,
         LateVersions, LateNumbers
<1>4. Blank'
  BY <1>1 DEF Blank
<1>5. Chained'
  BY <1>1 DEF Chained, Heads, ArmedOK, Waiting, Queue, Numbers, PageNumbers, ChainNumbers
<1>6. Submitting'
  BY <1>1 DEF Submitting
<1>7. Ended'
  BY <1>1 DEF Ended, PageEnded, Over, Waiting, Bodies, FetchEnded, Read
<1>8. Current'
  BY <1>1
     DEF Current, SaveStands, Open, Numbers, PageNumbers, Versions, PageVersions,
         FetchesStand, Read, FetchVersions, FetchNumbers, SnapshotStands, LateStand,
         LateNumbers, LateVersions
<1>9. Rivals'
  BY <1>1 DEF Rivals, Rival, Open, Fresh, Read, Bodies, Numbers, PageNumbers, LateNumbers
<1>10. Overtaken'
  BY <1>1
     DEF Overtaken, PageBehind, Bodies, Numbers, PageNumbers, FetchBehind, Read,
         FetchNumbers
<1>11. Ordered'
  BY <1>1
     DEF Ordered, PageTurns, Waiting, FetchTurns, Read, Known, DraftNewer, Numbers,
         PageNumbers, ChainNumbers, SaveKnown, ChainRises, StoredNewer, SnapshotExact,
         LateNewer, LateNumbers, Open
<1>12. Kept'
  BY <1>1 DEF Kept, Read
<1> QED BY <1>2, <1>3, <1>4, <1>5, <1>6, <1>7, <1>8, <1>9, <1>10, <1>11, <1>12 DEF Inv

LEMMA PollInv ==
  ASSUME Inv, Types', PollEffect
  PROVE  Inv'
<1>1. /\ Texts /\ Versions /\ Blank /\ Chained /\ Submitting /\ Ended
      /\ Current /\ Rivals /\ Overtaken /\ Ordered /\ Kept
      /\ Numbers /\ Numbers' /\ Bodies /\ Bodies'
  BY InvFacts
<1> USE DEF PollEffect, Fetchers
<1>2. Texts'
  BY <1>1
     DEF Texts, PageTexts, Numbers, PageNumbers, ChainTexts, ChainNumbers, FetchTexts,
         FetchNumbers, LateTexts, LateNumbers
<1>3. Versions'
  BY <1>1
     DEF Versions, PageVersions, Numbers, PageNumbers, FetchVersions, Read, FetchNumbers,
         LateVersions, LateNumbers
<1>4. Blank'
  BY <1>1 DEF Blank
<1>5. Chained'
  BY <1>1 DEF Chained, Heads, ArmedOK, Waiting, Queue, Numbers, PageNumbers, ChainNumbers
<1>6. Submitting'
  BY <1>1 DEF Submitting
<1>7. Ended'
  BY <1>1 DEF Ended, PageEnded, Over, Waiting, Bodies, FetchEnded, Read
<1>8. Current'
  BY <1>1
     DEF Current, SaveStands, Open, Numbers, PageNumbers, Versions, PageVersions,
         FetchesStand, Read, FetchVersions, FetchNumbers, SnapshotStands, LateStand,
         LateNumbers, LateVersions
<1>9. Rivals'
  BY <1>1 DEF Rivals, Rival, Open, Fresh
<1>10. Overtaken'
  BY <1>1
     DEF Overtaken, PageBehind, Bodies, Numbers, PageNumbers, FetchBehind, Read,
         FetchNumbers
<1>11. Ordered'
  <2> SUFFICES ASSUME "stream" \notin env'.kinds
               PROVE  PageTurns' /\ FetchTurns' /\ Known'
    BY DEF Ordered
  <2>1. PageTurns /\ FetchTurns /\ Known
    BY <1>1 DEF Ordered
  <2>2. PageTurns'
    BY <1>1, <2>1 DEF PageTurns, Waiting, Chained, Heads, Blank
  <2>3. FetchTurns'
    BY <1>1, <2>1 DEF FetchTurns, Read
  <2>4. Known'
    <3> SUFFICES ASSUME Open'
                 PROVE  DraftNewer' /\ SaveKnown' /\ ChainRises' /\ StoredNewer' /\ SnapshotExact' /\ LateNewer'
      BY DEF Known
    <3>0. DraftNewer /\ SaveKnown /\ ChainRises /\ StoredNewer /\ SnapshotExact /\ LateNewer
      BY <1>1, <2>1 DEF Known, Open
    <3>1. DraftNewer'
      BY <1>1, <2>1, <3>0 DEF DraftNewer
    <3>2. SaveKnown'
      BY <1>1, <2>1, <3>0 DEF SaveKnown, Numbers, PageNumbers
    <3>3. ChainRises'
      BY <1>1, <2>1, <3>0 DEF ChainRises
    <3>4. StoredNewer'
      BY <1>1, <2>1, <3>0 DEF StoredNewer, Numbers, PageNumbers
    <3>5. SnapshotExact'
      BY <1>1, <2>1, <3>0 DEF SnapshotExact, Numbers, PageNumbers
    <3>6. LateNewer'
      BY <1>1, <2>1, <3>0 DEF LateNewer
    <3> QED BY <3>1, <3>2, <3>3, <3>4, <3>5, <3>6
  <2> QED BY <2>2, <2>3, <2>4
<1>12. Kept'
  BY <1>1 DEF Kept, Read
<1> QED BY <1>2, <1>3, <1>4, <1>5, <1>6, <1>7, <1>8, <1>9, <1>10, <1>11, <1>12 DEF Inv

LEMMA ReadSessionInv ==
  ASSUME Inv, Types', NEW f \in Fetchers, ReadSessionEffect(f)
  PROVE  Inv'
<1>1. /\ Texts /\ Versions /\ Blank /\ Chained /\ Submitting /\ Ended
      /\ Current /\ Rivals /\ Overtaken /\ Ordered /\ Kept
      /\ Numbers /\ Numbers' /\ Bodies /\ Bodies'
  BY InvFacts
<1> USE DEF ReadSessionEffect, Fetchers
<1>a. server.status \in Statuses
  BY InvFacts DEF Types
<1>2. Texts'
  BY <1>1, <1>a
     DEF Texts, PageTexts, Numbers, PageNumbers, ChainTexts, ChainNumbers, FetchTexts,
         FetchNumbers, LateTexts, LateNumbers
<1>3. Versions'
  <2>1. PageVersions'
    BY <1>1, <1>a DEF Versions, PageVersions, Numbers, PageNumbers
  <2>2. FetchVersions'
    BY <1>1, <1>a
       DEF Versions, FetchVersions, Read, Numbers, PageNumbers, FetchNumbers, PageVersions,
           Statuses
  <2>3. LateVersions'
    BY <1>1, <1>a DEF Versions, LateVersions
  <2> QED BY <2>1, <2>2, <2>3 DEF Versions
<1>4. Blank'
  BY <1>1, <1>a DEF Blank
<1>5. Chained'
  BY <1>1, <1>a
     DEF Chained, Heads, ArmedOK, Waiting, Queue, Numbers, PageNumbers, ChainNumbers
<1>6. Submitting'
  BY <1>1, <1>a DEF Submitting
<1>7. Ended'
  <2>1. PageEnded'
    BY <1>1, <1>a DEF Ended, PageEnded
  <2>2. FetchEnded'
    BY <1>1, <1>a
       DEF Ended, FetchEnded, Over, Waiting, Read, PageEnded, Submitting, NoBody, Statuses
  <2> QED BY <2>1, <2>2 DEF Ended
<1>8. Current'
  BY <1>1, <1>a
     DEF Current, SaveStands, Open, Numbers, PageNumbers, Versions, PageVersions,
         FetchesStand, Read, FetchVersions, FetchNumbers, SnapshotStands, LateStand,
         LateNumbers, LateVersions
<1>9. Rivals'
  BY <1>1, <1>a DEF Rivals, Rival, Open, Fresh
<1>10. Overtaken'
  <2> SUFFICES ASSUME accepted' # NoBody, accepted' # page'.snapshot
               PROVE  PageBehind' /\ FetchBehind'
    BY DEF Overtaken
  <2>1. PageBehind'
    BY <1>1, <1>a DEF Overtaken, PageBehind
  <2>2. FetchBehind'
    BY <1>1, <1>a
       DEF Overtaken, PageBehind, FetchBehind, Read, Numbers, PageNumbers, FetchNumbers,
           Ended, PageEnded, Over
  <2> QED BY <2>1, <2>2
<1>11. Ordered'
  <2> SUFFICES ASSUME "stream" \notin env'.kinds
               PROVE  PageTurns' /\ FetchTurns' /\ Known'
    BY DEF Ordered
  <2>1. PageTurns /\ FetchTurns /\ Known
    BY <1>1 DEF Ordered
  <2>2. PageTurns'
    BY <1>1, <1>a, <2>1 DEF PageTurns, Waiting
  <2>3. FetchTurns'
    BY <1>1, <1>a, <2>1 DEF FetchTurns, Read, Ended, PageEnded
  <2>4. Known'
    <3> SUFFICES ASSUME Open'
                 PROVE  DraftNewer' /\ SaveKnown' /\ ChainRises' /\ StoredNewer' /\ SnapshotExact' /\ LateNewer'
      BY DEF Known
    <3>0. DraftNewer /\ SaveKnown /\ ChainRises /\ StoredNewer /\ SnapshotExact /\ LateNewer
      BY <1>1, <2>1 DEF Known, Open
    <3>1. DraftNewer'
      BY <1>1, <1>a, <2>1, <3>0 DEF DraftNewer, Numbers, PageNumbers, ChainNumbers
    <3>2. SaveKnown'
      BY <1>1, <1>a, <2>1, <3>0 DEF SaveKnown, Numbers, PageNumbers
    <3>3. ChainRises'
      BY <1>1, <1>a, <2>1, <3>0 DEF ChainRises, Numbers, PageNumbers, ChainNumbers
    <3>4. StoredNewer'
      BY <1>1, <1>a, <2>1, <3>0 DEF StoredNewer, Numbers, PageNumbers
    <3>5. SnapshotExact'
      BY <1>1, <1>a, <2>1, <3>0 DEF SnapshotExact, Numbers, PageNumbers
    <3>6. LateNewer'
      BY <1>1, <1>a, <2>1, <3>0 DEF LateNewer
    <3> QED BY <3>1, <3>2, <3>3, <3>4, <3>5, <3>6
  <2> QED BY <2>2, <2>3, <2>4
<1>12. Kept'
  <2> SUFFICES ASSUME env.kinds \subseteq {"lost"}
               PROVE  Kept'
    BY DEF Kept
  <2>1. Kept /\ PageTurns
    BY <1>1 DEF Ordered
  <2>2. CASE f = "poll"
    <3>1. page.status \in Waiting
      BY <2>1, <2>2 DEF PageTurns
    <3>2. server.status = "IN_PROGRESS" => page.status # "EVALUATING"
      BY <1>1 DEF Ended, PageEnded, Over
    <3> QED BY <2>1, <2>2, <3>1, <3>2 DEF Kept, Read, Waiting
  <2>3. CASE f # "poll"
    BY <2>1, <2>3 DEF Kept, Read
  <2> QED BY <2>2, <2>3
<1> QED BY <1>2, <1>3, <1>4, <1>5, <1>6, <1>7, <1>8, <1>9, <1>10, <1>11, <1>12 DEF Inv

LEMMA ReadQuestionsInv ==
  ASSUME Inv, Types', NEW f \in Fetchers, ReadQuestionsEffect(f)
  PROVE  Inv'
<1>1. /\ Texts /\ Versions /\ Blank /\ Chained /\ Submitting /\ Ended
      /\ Current /\ Rivals /\ Overtaken /\ Ordered /\ Kept
      /\ Numbers /\ Numbers' /\ Bodies /\ Bodies'
  BY InvFacts
<1> USE DEF ReadQuestionsEffect, Fetchers
<1>2. Texts'
  BY <1>1
     DEF Texts, PageTexts, Numbers, PageNumbers, ChainTexts, ChainNumbers, FetchTexts,
         FetchNumbers, LateTexts, LateNumbers
<1>3. Versions'
  BY <1>1
     DEF Versions, PageVersions, Numbers, PageNumbers, FetchVersions, Read, FetchNumbers,
         LateVersions, LateNumbers
<1>4. Blank'
  BY <1>1 DEF Blank
<1>5. Chained'
  BY <1>1 DEF Chained, Heads, ArmedOK, Waiting, Queue, Numbers, PageNumbers, ChainNumbers
<1>6. Submitting'
  BY <1>1 DEF Submitting
<1>7. Ended'
  BY <1>1 DEF Ended, PageEnded, Over, Waiting, Bodies, FetchEnded, Read
<1>8. Current'
  BY <1>1
     DEF Current, SaveStands, Open, Numbers, PageNumbers, Versions, PageVersions,
         FetchesStand, Read, FetchVersions, FetchNumbers, SnapshotStands, LateStand,
         LateNumbers, LateVersions
<1>9. Rivals'
  BY <1>1 DEF Rivals, Rival, Open, Fresh, Read, Bodies, Numbers, PageNumbers, LateNumbers
<1>10. Overtaken'
  <2> SUFFICES ASSUME accepted' # NoBody, accepted' # page'.snapshot
               PROVE  PageBehind' /\ FetchBehind'
    BY DEF Overtaken
  <2>1. PageBehind'
    BY <1>1 DEF Overtaken, PageBehind, FetchBehind
  <2>2. FetchBehind'
    BY <1>1
       DEF Overtaken, PageBehind, FetchBehind, Read, Numbers, PageNumbers, FetchNumbers,
           Ended, PageEnded
  <2> QED BY <2>1, <2>2
<1>11. Ordered'
  BY <1>1
     DEF Ordered, PageTurns, Waiting, FetchTurns, Read, Known, DraftNewer, Numbers,
         PageNumbers, ChainNumbers, SaveKnown, ChainRises, StoredNewer, SnapshotExact,
         LateNewer, LateNumbers, Open
<1>12. Kept'
  BY <1>1 DEF Kept, Read
<1> QED BY <1>2, <1>3, <1>4, <1>5, <1>6, <1>7, <1>8, <1>9, <1>10, <1>11, <1>12 DEF Inv

LEMMA FetchAnsweredInv ==
  ASSUME Inv, Types', NEW f \in Fetchers, FetchAnsweredEffect(f)
  PROVE  Inv'
<1>1. /\ Texts /\ Versions /\ Blank /\ Chained /\ Submitting /\ Ended
      /\ Current /\ Rivals /\ Overtaken /\ Ordered /\ Kept
      /\ Numbers /\ Numbers' /\ Bodies /\ Bodies'
  BY InvFacts
<1> USE DEF FetchAnsweredEffect, Left, NoCall, Fetchers
<1> DEFINE d == fetches[f]
           Shows == /\ d.status \notin {"COMPLETED", "FAILED"} /\ page'.view = d.version
                    /\ page'.status = d.status /\ page'.ver \in {page.ver, d.version}
                    /\ page'.ver >= page.ver /\ page'.ver >= d.version
                    /\ \/ page'.draft = d.answer
                       \/ /\ stored.version = d.version
                          /\ page'.draft = stored.answer /\ stored.answer > 0
                    /\ (page'.generating <=> d.status \in Waiting)
                    /\ page'.timer \in {page.timer, "up"}
                    /\ page'.submitting = page.submitting /\ ArmedOK(page')
                    /\ \/ stored' = stored
                       \/ /\ page'.draft > 0
                          /\ stored' = [version |-> page'.ver, answer |-> page'.draft]
<1>a. /\ d.state = "ok" /\ fetches'[f].state = "none" /\ fetches'[f].answer = 0
      /\ \A g \in Fetchers : g # f => fetches'[g] = fetches[g]
      /\ IF f = "refetch" THEN submit'.pc = "idle" /\ submit'.answer = 0
                          ELSE submit' = submit
      /\ page'.snapshot = page.snapshot /\ server' = server /\ accepted' = accepted
      /\ chain' = chain /\ save' = save /\ late' = late /\ env' = env
  OBVIOUS
<1>b. (Left(page', page) /\ stored' = stored) \/ Shows
  OBVIOUS
<1>c. /\ d.version > 0 /\ d.version <= server.version /\ d.version \in Nat
      /\ d.answer \in Nat /\ d.answer <= env.edits
  BY <1>1, <1>a DEF Versions, FetchVersions, Read, Numbers, FetchNumbers, Texts, FetchTexts
<1>d. f = "refetch" => submit.pc = "refetching" /\ d.status \in Over
  BY <1>1, <1>a DEF Submitting, Ended, FetchEnded, Read
<1>e. f = "open" \/ page.view # 0
  BY <1>1, <1>a DEF Blank, Fetchers
<1> HIDE DEF FetchAnsweredEffect, Shows
<1> USE DEF Fetchers
<1>2. Texts'
  <2>1. PageTexts'
    <3>1. /\ page'.draft \in {page.draft, d.answer, stored.answer}
          /\ stored'.answer \in {stored.answer, page'.draft}
          /\ submit'.answer \in {submit.answer, 0}
      BY <1>a, <1>b DEF Shows, Left
    <3> QED BY <1>1, <1>a, <1>c, <3>1 DEF Texts, PageTexts, Numbers, PageNumbers
  <2>2. ChainTexts'
    BY <1>1, <1>a, <1>b, <1>c, <1>d
       DEF Texts, ChainTexts, Numbers, PageNumbers, ChainNumbers
  <2>3. FetchTexts'
    BY <1>1, <1>a, <1>b, <1>c, <1>d
       DEF Texts, FetchTexts, Numbers, PageNumbers, FetchNumbers
  <2>4. LateTexts'
    BY <1>1, <1>a, <1>b, <1>c, <1>d DEF Texts, LateTexts, Numbers, PageNumbers, LateNumbers
  <2> QED BY <2>1, <2>2, <2>3, <2>4 DEF Texts
<1>3. Versions'
  <2>1. PageVersions'
    <3>1. /\ page'.ver \in {page.ver, d.version} /\ page'.view \in {page.view, d.version}
          /\ stored'.version \in {stored.version, page'.ver}
      BY <1>a, <1>b DEF Shows, Left
    <3> QED BY <1>1, <1>a, <1>c, <3>1 DEF Versions, PageVersions, Numbers, PageNumbers
  <2>2. FetchVersions'
    BY <1>1, <1>a, <1>b, <1>c, <1>d
       DEF Versions, FetchVersions, Read, Numbers, PageNumbers, FetchNumbers
  <2>3. LateVersions'
    BY <1>1, <1>a, <1>b, <1>c, <1>d
       DEF Versions, LateVersions, Numbers, PageNumbers, LateNumbers
  <2> QED BY <2>1, <2>2, <2>3 DEF Versions
<1>4. Blank'
  <2>1. CASE Left(page', page)
    BY <1>1, <1>a, <1>d, <2>1 DEF Blank, Left
  <2>2. CASE Shows
    <3>1. page'.view # 0 /\ page'.ver # 0 /\ page'.status # "none"
      <4>1. d.status # "none"
        BY <1>1, <1>a DEF Versions, FetchVersions, Read
      <4> QED BY <1>1, <1>c, <2>2, <4>1 DEF Shows, Numbers, PageNumbers
    <3> QED BY <3>1 DEF Blank
  <2> QED BY <1>b, <2>1, <2>2
<1>5. Chained'
  <2>1. Heads'
    BY <1>1, <1>a, <1>b DEF Chained, Heads, Left, Shows, ArmedOK
  <2>2. Queue'
    <3>1. submit' = submit \/ submit.pc = "refetching"
      BY <1>a, <1>d
    <3> QED BY <1>1, <1>a, <3>1 DEF Chained, Queue
  <2> QED BY <2>1, <2>2 DEF Chained
<1>6. Submitting'
  <2>1. page'.submitting = page.submitting
    BY <1>b DEF Left, Shows
  <2> QED BY <1>1, <1>a, <1>d, <2>1 DEF Submitting
<1>7. Ended'
  <2>1. PageEnded'
    <3>1. page'.status \in {page.status, d.status}
      BY <1>b DEF Left, Shows
    <3> QED BY <1>1, <1>a, <3>1 DEF Ended, PageEnded, FetchEnded, Read
  <2>2. FetchEnded'
    BY <1>1, <1>a, <1>b, <1>c, <1>d DEF Ended, FetchEnded, Over, Waiting, Read
  <2> QED BY <2>1, <2>2 DEF Ended
<1>8. Current'
  <2>1. SaveStands'
    BY <1>1, <1>a, <1>b, <1>c, <1>d
       DEF Current, SaveStands, Open, Numbers, PageNumbers, Versions, PageVersions
  <2>2. FetchesStand'
    BY <1>1, <1>a, <1>b, <1>c, <1>d
       DEF Current, FetchesStand, Open, Read, Versions, FetchVersions, Numbers, PageNumbers,
           FetchNumbers
  <2>3. SnapshotStands'
    BY <1>1, <1>a, <1>b, <1>c, <1>d
       DEF Current, SnapshotStands, Open, Numbers, PageNumbers, Versions, PageVersions
  <2>4. LateStand'
    BY <1>1, <1>a, <1>b, <1>c, <1>d
       DEF Current, LateStand, Open, Numbers, PageNumbers, LateNumbers, Versions,
           LateVersions
  <2> QED BY <2>1, <2>2, <2>3, <2>4 DEF Current
<1>9. Rivals'
  <2> SUFFICES ASSUME Open', NEW r \in late', Rival(r)'
               PROVE  Fresh'
    BY DEF Rivals
  <2>1. Open /\ r \in late /\ Rival(r)
    BY <1>a DEF Open, Rival
  <2>2. Fresh
    BY <1>1, <2>1 DEF Rivals
  <2>3. f = "open" /\ page.view = 0 /\ page.ver = 0
    BY <1>1, <1>a, <2>2 DEF Fresh, Blank
  <2>4. d.version = server.version /\ d.status = "IN_PROGRESS"
    BY <1>a, <2>2, <2>3 DEF Fresh, Read
  <2>5. CASE Left(page', page)
    BY <1>a, <2>2, <2>3, <2>5 DEF Fresh, Left, Read
  <2>6. CASE Shows
    <3>1. d.answer = server.answer
      BY <1>1, <1>a, <2>1, <2>4 DEF Current, FetchesStand
    <3>2. page'.draft = 0 => server.answer = 0
      BY <1>1, <2>6, <3>1 DEF Shows, Numbers, PageNumbers
    <3>3. page'.ver = server.version /\ page'.view = server.version
      BY <1>c, <2>3, <2>4, <2>6 DEF Shows
    <3>4. page'.status = "IN_PROGRESS" /\ ~ page'.generating
      BY <2>4, <2>6 DEF Shows, Waiting
    <3> QED BY <1>a, <2>2, <2>3, <3>2, <3>3, <3>4 DEF Fresh, Read
  <2> QED BY <1>b, <2>5, <2>6
<1>10. Overtaken'
  <2> SUFFICES ASSUME accepted # NoBody, accepted # page.snapshot
               PROVE  PageBehind' /\ FetchBehind'
    BY <1>a DEF Overtaken
  <2>1. PageBehind /\ FetchBehind
    BY <1>1 DEF Overtaken
  <2>2. CASE Left(page', page)
    <3>1. PageBehind'
      BY <1>a, <2>1, <2>2 DEF PageBehind, Left
    <3>2. FetchBehind'
      BY <1>a, <2>1, <2>2 DEF FetchBehind, Left, Read
    <3> QED BY <3>1, <3>2
  <2>3. CASE Shows /\ d.status \in {"GENERATING", "IN_PROGRESS"}
    <3>1. /\ page.view = 0 /\ f = "open" /\ d.status = "IN_PROGRESS"
          /\ d.version = accepted.version /\ (d.answer = 0 => accepted.answer = 0)
      BY <1>a, <2>1, <2>3 DEF FetchBehind, Read
    <3>2. page.ver = 0 /\ page.status = "none"
      BY <1>1, <3>1 DEF Blank
    <3>3. page'.ver = accepted.version /\ (page'.draft = 0 => accepted.answer = 0)
      BY <1>1, <1>c, <2>3, <3>1, <3>2 DEF Shows, Numbers, PageNumbers
    <3>4. PageBehind'
      BY <1>a, <2>1, <2>3, <3>1, <3>2, <3>3 DEF PageBehind, Shows, Waiting
    <3>5. FetchBehind'
      BY <1>a, <2>1, <3>1 DEF FetchBehind, Read
    <3> QED BY <3>4, <3>5
  <2>4. CASE Shows /\ d.status \notin {"GENERATING", "IN_PROGRESS"}
    <3>1. d.status # "none"
      BY <1>1, <1>a DEF Versions, FetchVersions, Read
    <3>2. PageBehind'
      BY <2>4, <3>1 DEF PageBehind, Shows
    <3>3. FetchBehind'
      <4>1. \A g \in Fetchers : Read(g)' => g # f /\ Read(g) /\ fetches'[g] = fetches[g]
        BY <1>a DEF Read
      <4>2. \A g \in Fetchers : (g # "open" /\ fetches[g].state # "none") => page.view # 0
        BY <1>1 DEF Blank
      <4>3. \A g \in Fetchers : Read(g)' => fetches[g].status \notin {"GENERATING", "IN_PROGRESS"}
        BY <1>a, <1>e, <2>1, <4>1, <4>2 DEF FetchBehind
      <4> QED BY <4>1, <4>3 DEF FetchBehind
    <3> QED BY <3>2, <3>3
  <2> QED BY <1>b, <2>2, <2>3, <2>4
<1>11. Ordered'
  <2> SUFFICES ASSUME "stream" \notin env'.kinds
               PROVE  PageTurns' /\ FetchTurns' /\ Known'
    BY <1>a DEF Ordered
  <2>1. PageTurns /\ FetchTurns /\ Known
    BY <1>1, <1>a, <1>b, <1>c, <1>d DEF Ordered
  <2>2. PageTurns'
    <3>1. CASE Left(page', page)
      BY <1>a, <2>1, <3>1 DEF PageTurns, Left
    <3>2. CASE Shows
      <4>1. fetches'["open"].state = "none"
        BY <1>a, <1>e, <2>1 DEF PageTurns
      <4>2. fetches'["poll"].state # "none" => d.status \in Waiting
        <5>1. CASE f = "open"
          BY <1>1, <1>a, <2>1, <5>1 DEF PageTurns, Blank
        <5>2. CASE f = "poll"
          BY <1>a, <5>2
        <5>3. CASE f = "refetch"
          BY <1>d, <3>2, <5>3 DEF Shows, Over, Waiting
        <5> QED BY <5>1, <5>2, <5>3
      <4>3. d.status = "GENERATING" => env.edits = 0
        BY <1>a, <2>1 DEF FetchTurns, Read
      <4> QED BY <1>a, <3>2, <4>1, <4>2, <4>3 DEF PageTurns, Shows
    <3> QED BY <1>b, <3>1, <3>2
  <2>3. FetchTurns'
    BY <1>1, <1>a, <1>b, <1>c, <1>d, <2>1 DEF FetchTurns, Read
  <2>4. Known'
    <3> SUFFICES ASSUME Open
                 PROVE  Known'
      BY <1>a DEF Known, Open
    <3>0. DraftNewer /\ SaveKnown /\ ChainRises /\ StoredNewer /\ SnapshotExact /\ LateNewer
      BY <2>1 DEF Known
    <3>1. CASE Left(page', page) /\ stored' = stored
      BY <1>a, <3>0, <3>1
         DEF Known, DraftNewer, SaveKnown, ChainRises, StoredNewer, SnapshotExact,
         LateNewer, Left
    <3>2. CASE Shows
      <4>1. f # "refetch"
        BY <1>1, <1>a, <1>d DEF Ended, FetchEnded, Read, Open, Over
      <4>2. f = "poll" => env.edits = 0
        <5>1. f = "poll" => page.status \in Waiting
          BY <1>a, <2>1 DEF PageTurns
        <5>2. page.status # "EVALUATING"
          BY <1>1 DEF Ended, PageEnded, Over, Open
        <5> QED BY <2>1, <5>1, <5>2 DEF PageTurns, Waiting
      <4>3. chain = <<>>
        <5>1. CASE f = "open"
          BY <1>1, <1>a, <2>1, <5>1 DEF PageTurns, Blank
        <5>2. CASE env.edits = 0
          <6>1. chain # <<>> => 1 \in 1 .. Len(chain)
            BY HeadFacts, InvFacts
          <6>2. \A i \in 1 .. Len(chain) : FALSE
            BY <1>1, <5>2 DEF Chained, Queue, Texts, ChainTexts, Numbers, ChainNumbers
          <6> QED BY <6>1, <6>2
        <5> QED BY <4>1, <4>2, <5>1, <5>2
      <4>4. Len(chain) = 0
        BY <4>3, EmptySeq
      <4>5. save.state = "none"
        BY <1>1, <4>3 DEF Chained, Heads
      <4>6. page'.ver = server.version => page'.draft >= server.answer
        <5>1. CASE d.version = server.version
          <6>1. d.answer = server.answer
            BY <1>1, <1>a, <5>1 DEF Current, FetchesStand
          <6>2. stored.version = server.version => stored.answer >= server.answer
            BY <3>0 DEF StoredNewer
          <6> QED BY <1>1, <1>c, <3>2, <5>1, <6>1, <6>2 DEF Shows, Numbers, PageNumbers
        <5>2. CASE page.ver = server.version /\ env.edits = 0
          BY <1>1, <1>c, <3>2, <5>2 DEF Texts, PageTexts, Shows, Numbers, PageNumbers
        <5>3. CASE f = "open" /\ page.ver = 0
          BY <1>1, <1>c, <3>2, <5>1, <5>3
             DEF Shows, Versions, PageVersions, Numbers, PageNumbers
        <5>4. f = "open" => page.ver = 0
          BY <1>1, <1>a, <2>1 DEF PageTurns, Blank
        <5> QED BY <3>2, <4>1, <4>2, <5>1, <5>2, <5>3, <5>4 DEF Shows
      <4>7. DraftNewer' /\ ChainRises'
        BY <1>a, <4>4, <4>6 DEF DraftNewer, ChainRises
      <4>8. SaveKnown' /\ SnapshotExact' /\ LateNewer'
        BY <1>a, <3>0, <4>5 DEF SaveKnown, SnapshotExact, LateNewer
      <4>9. StoredNewer'
        BY <1>a, <3>0, <3>2, <4>6 DEF StoredNewer, Shows
      <4> QED BY <4>7, <4>8, <4>9 DEF Known
    <3> QED BY <1>b, <3>1, <3>2
  <2> QED BY <2>2, <2>3, <2>4
<1>12. Kept'
  <2> SUFFICES ASSUME env.kinds \subseteq {"lost"}
               PROVE  Kept'
    BY <1>a DEF Kept
  <2>1. Kept /\ PageTurns /\ FetchTurns
    BY <1>1 DEF Ordered
  <2>2. fetches'["poll"].state # "none" => fetches'["poll"] = fetches["poll"]
    BY <1>a
  <2>3. CASE Left(page', page)
    BY <1>a, <2>1, <2>2, <2>3 DEF Kept, Left, Read
  <2>4. CASE Shows
    <3>1. d.status = "IN_PROGRESS" => env.edits = 0
      <4>1. CASE f = "open"
        BY <1>1, <1>a, <2>1, <4>1 DEF PageTurns, Blank, Kept
      <4>2. CASE f = "poll"
        BY <1>a, <2>1, <4>2 DEF Kept, Read
      <4>3. CASE f = "refetch"
        BY <1>d, <4>3 DEF Over
      <4> QED BY <4>1, <4>2, <4>3
    <3>2. d.status = "IN_PROGRESS" => page'.draft = env.edits
      <4>1. env.edits = 0 => page'.draft = 0
        BY <1>1, <1>c, <2>4 DEF Shows, Texts, PageTexts, Numbers, PageNumbers
      <4> QED BY <3>1, <4>1
    <3>3. d.status = "GENERATING" => env.edits = 0
      BY <1>a, <2>1 DEF FetchTurns, Read
    <3>4. d.status # "none"
      BY <1>1, <1>a DEF Versions, FetchVersions, Read
    <3>5. page'.status = d.status
      BY <2>4 DEF Shows
    <3>6. Read("poll")' /\ fetches'["poll"].status = "IN_PROGRESS" => env.edits = 0
      BY <2>1, <2>2 DEF Kept, Read
    <3> QED BY <1>a, <3>1, <3>2, <3>3, <3>4, <3>5, <3>6 DEF Kept
  <2> QED BY <1>b, <2>3, <2>4
<1> QED BY <1>2, <1>3, <1>4, <1>5, <1>6, <1>7, <1>8, <1>9, <1>10, <1>11, <1>12 DEF Inv

LEMMA FetchFailedInv ==
  ASSUME Inv, Types', NEW f \in Fetchers, FetchFailedEffect(f)
  PROVE  Inv'
<1>1. /\ Texts /\ Versions /\ Blank /\ Chained /\ Submitting /\ Ended
      /\ Current /\ Rivals /\ Overtaken /\ Ordered /\ Kept
      /\ Numbers /\ Numbers' /\ Bodies /\ Bodies'
  BY InvFacts
<1> USE DEF FetchFailedEffect, Left, NoCall, Fetchers
<1>2. Texts'
  <2>1. PageTexts'
    BY <1>1 DEF Texts, PageTexts, Numbers, PageNumbers
  <2>2. ChainTexts'
    BY <1>1 DEF Texts, ChainTexts
  <2>3. FetchTexts'
    BY <1>1 DEF Texts, FetchTexts, Numbers, PageNumbers, FetchNumbers
  <2>4. LateTexts'
    BY <1>1 DEF Texts, LateTexts
  <2> QED BY <2>1, <2>2, <2>3, <2>4 DEF Texts
<1>3. Versions'
  <2>1. PageVersions'
    BY <1>1 DEF Versions, PageVersions
  <2>2. FetchVersions'
    BY <1>1 DEF Versions, FetchVersions, Read
  <2>3. LateVersions'
    BY <1>1 DEF Versions, LateVersions
  <2> QED BY <2>1, <2>2, <2>3 DEF Versions
<1>4. Blank'
  BY <1>1 DEF Blank
<1>5. Chained'
  <2>1. Heads'
    BY <1>1 DEF Chained, Heads
  <2>2. Queue'
    <3>1. submit' = submit \/ submit.pc = "refetching"
      BY <1>1 DEF Submitting
    <3> QED BY <1>1, <3>1 DEF Chained, Queue
  <2> QED BY <2>1, <2>2 DEF Chained
<1>6. Submitting'
  BY <1>1 DEF Submitting
<1>7. Ended'
  <2>1. PageEnded'
    BY <1>1 DEF Ended, PageEnded
  <2>2. FetchEnded'
    BY <1>1 DEF Ended, FetchEnded, Over, Waiting, Read
  <2> QED BY <2>1, <2>2 DEF Ended
<1>8. Current'
  <2>1. SaveStands'
    BY <1>1 DEF Current, SaveStands, Open
  <2>2. FetchesStand'
    BY <1>1 DEF Current, FetchesStand, Open, Read
  <2>3. SnapshotStands'
    BY <1>1 DEF Current, SnapshotStands, Open
  <2>4. LateStand'
    BY <1>1 DEF Current, LateStand, Open, Numbers
  <2> QED BY <2>1, <2>2, <2>3, <2>4 DEF Current
<1>9. Rivals'
  <2> SUFFICES ASSUME Open', NEW r \in late', Rival(r)'
               PROVE  Fresh'
    BY DEF Rivals
  <2>1. Open /\ r \in late /\ Rival(r)
    BY <1>1 DEF Open, Rival
  <2>2. Fresh
    BY <1>1, <2>1 DEF Rivals
  <2> QED BY <1>1, <2>2 DEF Fresh, Read
<1>10. Overtaken'
  <2> SUFFICES ASSUME accepted' # NoBody, accepted' # page'.snapshot
               PROVE  PageBehind' /\ FetchBehind'
    BY DEF Overtaken
  <2>1. PageBehind'
    BY <1>1 DEF Overtaken, PageBehind, FetchBehind
  <2>2. FetchBehind'
    BY <1>1 DEF Overtaken, PageBehind, FetchBehind, Read, Numbers, PageNumbers, FetchNumbers
  <2> QED BY <2>1, <2>2
<1>11. Ordered'
  <2> SUFFICES ASSUME "stream" \notin env'.kinds
               PROVE  PageTurns' /\ FetchTurns' /\ Known'
    BY DEF Ordered
  <2>1. PageTurns /\ FetchTurns /\ Known
    BY <1>1 DEF Ordered
  <2>2. PageTurns'
    BY <1>1, <2>1 DEF PageTurns, Waiting
  <2>3. FetchTurns'
    BY <1>1, <2>1 DEF FetchTurns, Read
  <2>4. Known'
    <3> SUFFICES ASSUME Open'
                 PROVE  DraftNewer' /\ SaveKnown' /\ ChainRises' /\ StoredNewer' /\ SnapshotExact' /\ LateNewer'
      BY DEF Known
    <3>0. DraftNewer /\ SaveKnown /\ ChainRises /\ StoredNewer /\ SnapshotExact /\ LateNewer
      BY <1>1, <2>1 DEF Known, Open
    <3>1. DraftNewer'
      BY <1>1, <2>1, <3>0 DEF DraftNewer
    <3>2. SaveKnown'
      BY <1>1, <2>1, <3>0 DEF SaveKnown, Numbers, PageNumbers
    <3>3. ChainRises'
      BY <1>1, <2>1, <3>0 DEF ChainRises
    <3>4. StoredNewer'
      BY <1>1, <2>1, <3>0 DEF StoredNewer, Numbers, PageNumbers
    <3>5. SnapshotExact'
      BY <1>1, <2>1, <3>0 DEF SnapshotExact, Numbers, PageNumbers
    <3>6. LateNewer'
      BY <1>1, <2>1, <3>0 DEF LateNewer
    <3> QED BY <3>1, <3>2, <3>3, <3>4, <3>5, <3>6
  <2> QED BY <2>2, <2>3, <2>4
<1>12. Kept'
  BY <1>1 DEF Kept, Read
<1> QED BY <1>2, <1>3, <1>4, <1>5, <1>6, <1>7, <1>8, <1>9, <1>10, <1>11, <1>12 DEF Inv

LEMMA LoseCallInv ==
  ASSUME Inv, Types', LoseCallEffect
  PROVE  Inv'
<1>1. /\ Texts /\ Versions /\ Blank /\ Chained /\ Submitting /\ Ended
      /\ Current /\ Rivals /\ Overtaken /\ Ordered /\ Kept
      /\ Numbers /\ Numbers' /\ Bodies /\ Bodies'
  BY InvFacts
<1> USE DEF LoseCallEffect, Fetchers
<1>a. /\ save'.state \in {save.state, "failed"} /\ save'.version = save.version
      /\ save'.answer = save.answer /\ (save'.state # "none" => save.state # "none")
      /\ submit'.pc \in {submit.pc, "failed"} /\ submit'.answer = submit.answer
      /\ (submit'.pc = "failed" => submit.pc \in {"sent", "ok", "failed"})
      /\ \A f \in Fetchers :
           /\ \/ fetches'[f] = fetches[f]
              \/ fetches[f].state # "none" /\ fetches'[f].state = "failed"
           /\ fetches'[f].answer = fetches[f].answer
      /\ server' = server /\ accepted' = accepted /\ page' = page /\ chain' = chain
      /\ stored' = stored /\ env'.edits = env.edits /\ env'.kinds = env.kinds \cup {"lost"}
  OBVIOUS
<1>b. \A r \in late' : r \in late \/ LateSave(r) \/ LateSubmit(r)
  OBVIOUS
<1>c. \A f \in Fetchers : Read(f)' => Read(f) /\ fetches'[f] = fetches[f]
  BY <1>a DEF Read
<1> HIDE DEF LoseCallEffect
<1>2. Texts'
  <2>1. PageTexts'
    BY <1>1, <1>a, <1>b, <1>c DEF Texts, PageTexts, Numbers, PageNumbers
  <2>2. ChainTexts'
    BY <1>1, <1>a, <1>b, <1>c DEF Texts, ChainTexts, Numbers, PageNumbers, ChainNumbers
  <2>3. FetchTexts'
    BY <1>1, <1>a, <1>b, <1>c DEF Texts, FetchTexts, Numbers, PageNumbers, FetchNumbers
  <2>4. LateTexts'
    <3> SUFFICES ASSUME NEW r \in late'
                 PROVE  r.answer <= env.edits
      BY <1>a DEF Texts, LateTexts
    <3> QED BY <1>1, <1>b DEF Texts, PageTexts, LateTexts, LateSave, LateSubmit
  <2> QED BY <2>1, <2>2, <2>3, <2>4 DEF Texts
<1>3. Versions'
  <2>1. PageVersions'
    BY <1>1, <1>a, <1>b, <1>c DEF Versions, PageVersions, Numbers, PageNumbers
  <2>2. FetchVersions'
    BY <1>1, <1>a, <1>b, <1>c
       DEF Versions, FetchVersions, Read, Numbers, PageNumbers, FetchNumbers
  <2>3. LateVersions'
    <3> SUFFICES ASSUME NEW r \in late'
                 PROVE  r.version <= server.version
      BY <1>a DEF Versions, LateVersions
    <3> QED BY <1>1, <1>b DEF Versions, PageVersions, LateVersions, LateSave, LateSubmit
  <2> QED BY <2>1, <2>2, <2>3 DEF Versions
<1>4. Blank'
  BY <1>1, <1>a, <1>b, <1>c DEF Blank, Waiting, NoBody, Fetchers
<1>5. Chained'
  <2>1. Heads'
    BY <1>1, <1>a, <1>b, <1>c DEF Chained, Heads, ArmedOK, Waiting
  <2>2. Queue'
    BY <1>1, <1>a, <1>b, <1>c DEF Chained, Queue, Numbers, PageNumbers, ChainNumbers
  <2> QED BY <2>1, <2>2 DEF Chained
<1>6. Submitting'
  BY <1>1, <1>a, <1>b, <1>c DEF Submitting, NoBody, Bodies, Fetchers
<1>7. Ended'
  <2>1. PageEnded'
    BY <1>1, <1>a, <1>b, <1>c DEF Ended, PageEnded, Over, Waiting, Bodies
  <2>2. FetchEnded'
    BY <1>1, <1>a, <1>b, <1>c DEF Ended, FetchEnded, Over, Waiting, Read
  <2> QED BY <2>1, <2>2 DEF Ended
<1>8. Current'
  <2>1. SaveStands'
    BY <1>1, <1>a, <1>b, <1>c
       DEF Current, SaveStands, Open, Numbers, PageNumbers, Versions, PageVersions
  <2>2. FetchesStand'
    BY <1>1, <1>a, <1>b, <1>c DEF Current, FetchesStand, Open
  <2>3. SnapshotStands'
    BY <1>1, <1>a, <1>b, <1>c
       DEF Current, SnapshotStands, Open, Numbers, PageNumbers, Versions, PageVersions
  <2>4. LateStand'
    <3> SUFFICES ASSUME Open, NEW r \in late', r.kind = "submit", r.version = server.version
                 PROVE  r.answer \in {0, server.answer}
      BY <1>a DEF Current, LateStand, Open
    <3> QED BY <1>1, <1>b DEF Current, SnapshotStands, LateStand, LateSave, LateSubmit
  <2> QED BY <2>1, <2>2, <2>3, <2>4 DEF Current
<1>9. Rivals'
  <2> SUFFICES ASSUME Open', NEW r \in late', Rival(r)'
               PROVE  Fresh'
    BY DEF Rivals
  <2>1. Open
    BY <1>a DEF Open
  <2>2. r \in late /\ Rival(r)
    <3>1. r.kind = "submit" /\ [version |-> r.version, answer |-> r.answer] # page.snapshot
      BY <1>a DEF Rival
    <3>2. page.snapshot = [version |-> page.snapshot.version, answer |-> page.snapshot.answer]
      BY <1>1 DEF Bodies, Body
    <3>3. ~ LateSave(r) /\ ~ LateSubmit(r)
      BY <3>1, <3>2 DEF LateSave, LateSubmit
    <3> QED BY <1>a, <1>b, <3>3 DEF Rival
  <2>3. Fresh
    BY <1>1, <2>1, <2>2 DEF Rivals
  <2>4. \A f \in Fetchers : fetches[f].state = "none" => fetches'[f].state = "none"
    BY <1>a
  <2> QED BY <1>a, <1>c, <2>3, <2>4 DEF Fresh, Fetchers
<1>10. Overtaken'
  <2> SUFFICES ASSUME accepted' # NoBody, accepted' # page'.snapshot
               PROVE  PageBehind' /\ FetchBehind'
    BY DEF Overtaken
  <2>1. PageBehind'
    BY <1>1, <1>a, <1>b, <1>c
       DEF Overtaken, PageBehind, FetchBehind, Bodies, Numbers, PageNumbers
  <2>2. FetchBehind'
    BY <1>1, <1>a, <1>b, <1>c
       DEF Overtaken, PageBehind, FetchBehind, Read, Numbers, PageNumbers, FetchNumbers
  <2> QED BY <2>1, <2>2
<1>11. Ordered'
  <2> SUFFICES ASSUME "stream" \notin env'.kinds
               PROVE  PageTurns' /\ FetchTurns' /\ Known'
    BY <1>a DEF Ordered
  <2>1. PageTurns /\ FetchTurns /\ Known
    BY <1>1, <1>a, <1>b, <1>c DEF Ordered
  <2>2. PageTurns'
    BY <1>1, <1>a, <1>b, <1>c, <2>1 DEF PageTurns, Waiting
  <2>3. FetchTurns'
    BY <1>1, <1>a, <1>b, <1>c, <2>1 DEF FetchTurns, Read
  <2>4. Known'
    <3> SUFFICES ASSUME Open'
                 PROVE  DraftNewer' /\ SaveKnown' /\ ChainRises' /\ StoredNewer' /\ SnapshotExact' /\ LateNewer'
      BY DEF Known
    <3>0. DraftNewer /\ SaveKnown /\ ChainRises /\ StoredNewer /\ SnapshotExact /\ LateNewer
      BY <1>1, <1>a, <1>b, <1>c, <2>1 DEF Known, Open
    <3>1. DraftNewer'
      BY <1>1, <1>a, <1>b, <1>c, <2>1, <3>0
         DEF DraftNewer, Numbers, PageNumbers, ChainNumbers
    <3>2. SaveKnown'
      BY <1>1, <1>a, <1>b, <1>c, <2>1, <3>0 DEF SaveKnown, Numbers, PageNumbers
    <3>3. ChainRises'
      BY <1>1, <1>a, <1>b, <1>c, <2>1, <3>0
         DEF ChainRises, Numbers, PageNumbers, ChainNumbers
    <3>4. StoredNewer'
      BY <1>1, <1>a, <1>b, <1>c, <2>1, <3>0 DEF StoredNewer, Numbers, PageNumbers
    <3>5. SnapshotExact'
      BY <1>1, <1>a, <1>b, <1>c, <2>1, <3>0 DEF SnapshotExact, Numbers, PageNumbers
    <3>6. LateNewer'
    <4> SUFFICES ASSUME NEW r \in late', r.version = server.version
                 PROVE  IF r.kind = "save" THEN r.answer >= server.answer
                                           ELSE r.answer = server.answer
      BY <1>a DEF LateNewer
    <4>1. CASE r \in late
      BY <3>0, <4>1 DEF LateNewer
    <4>2. CASE LateSubmit(r)
      BY <3>0, <4>2 DEF LateSubmit, SnapshotExact
    <4>3. CASE LateSave(r)
      <5>1. chain # <<>> /\ save.answer = Head(chain).answer
        BY <1>1, <4>3 DEF Chained, Heads, LateSave
      <5>2. Head(chain) = chain[1] /\ 1 \in 1 .. Len(chain)
        BY <5>1, HeadFacts, InvFacts
      <5>3. page.ver = server.version
        BY <3>0, <4>3 DEF SaveKnown, LateSave
      <5> QED BY <3>0, <4>3, <5>1, <5>2, <5>3 DEF DraftNewer, LateSave
    <4> QED BY <1>b, <4>1, <4>2, <4>3
    <3> QED BY <3>1, <3>2, <3>3, <3>4, <3>5, <3>6
  <2> QED BY <2>2, <2>3, <2>4
<1>12. Kept'
  BY <1>1, <1>a, <1>c DEF Kept, Fetchers
<1> QED BY <1>2, <1>3, <1>4, <1>5, <1>6, <1>7, <1>8, <1>9, <1>10, <1>11, <1>12 DEF Inv

LEMMA ReloadInv ==
  ASSUME Inv, Types', ReloadEffect
  PROVE  Inv'
<1>1. /\ Texts /\ Versions /\ Blank /\ Chained /\ Submitting /\ Ended
      /\ Current /\ Rivals /\ Overtaken /\ Ordered /\ Kept
      /\ Numbers /\ Numbers' /\ Bodies /\ Bodies'
  BY InvFacts
<1> USE DEF ReloadEffect
<1>a. /\ page'.draft = 0 /\ page'.ver = 0 /\ page'.view = 0 /\ page'.status = "none"
      /\ ~ page'.generating /\ ~ page'.armed /\ page'.timer = "running"
      /\ page'.snapshot = NoBody /\ save'.state = "none" /\ save'.version = 0
      /\ save'.answer = 0 /\ submit'.pc = "idle" /\ submit'.answer = 0
      /\ \A f \in Fetchers : /\ fetches'[f].answer = 0
                             /\ fetches'[f].state = IF f = "open" THEN "sent" ELSE "none"
  BY MountedFacts DEF NoCall, NoSubmit
<1>b. \A r \in late' : r \in late \/ LateSave(r) \/ LateSubmit(r)
  OBVIOUS
<1>c. /\ server' = server /\ accepted' = accepted /\ stored' = stored /\ chain' = <<>>
      /\ env'.edits = env.edits /\ env'.kinds = env.kinds \cup {"reload"}
  OBVIOUS
<1>d. /\ \A f \in Fetchers : ~ Read(f)'
      /\ NoBody.version = 0 /\ NoBody.answer = 0 /\ Len(chain') = 0
      /\ server.version > 0 /\ server.version \in Nat /\ env.edits \in Nat
  BY <1>1, <1>a, <1>c, EmptySeq
     DEF Read, Bodies, Numbers, PageNumbers, Versions, PageVersions
<1> HIDE DEF ReloadEffect
<1> USE DEF Fetchers
<1>2. Texts'
  <2>1. PageTexts'
    BY <1>1, <1>a, <1>c, <1>d DEF Texts, PageTexts
  <2>2. ChainTexts'
    BY <1>d DEF Texts, ChainTexts
  <2>3. FetchTexts'
    BY <1>a, <1>c, <1>d DEF Texts, FetchTexts
  <2>4. LateTexts'
    <3> SUFFICES ASSUME NEW r \in late'
                 PROVE  r.answer <= env.edits
      BY <1>c DEF Texts, LateTexts
    <3> QED BY <1>1, <1>b DEF Texts, PageTexts, LateTexts, LateSave, LateSubmit
  <2> QED BY <2>1, <2>2, <2>3, <2>4 DEF Texts
<1>3. Versions'
  <2>1. PageVersions'
    BY <1>1, <1>a, <1>c, <1>d DEF Versions, PageVersions
  <2>2. FetchVersions'
    BY <1>d DEF Versions, FetchVersions
  <2>3. LateVersions'
    <3> SUFFICES ASSUME NEW r \in late'
                 PROVE  r.version <= server.version
      BY <1>c DEF Versions, LateVersions
    <3> QED BY <1>1, <1>b DEF Versions, PageVersions, LateVersions, LateSave, LateSubmit
  <2> QED BY <2>1, <2>2, <2>3 DEF Versions
<1>4. Blank'
  BY <1>a, <1>c DEF Blank
<1>5. Chained'
  <2>1. Heads'
    BY <1>a DEF Chained, Heads
  <2>2. Queue'
    BY <1>d DEF Chained, Queue
  <2> QED BY <2>1, <2>2 DEF Chained
<1>6. Submitting'
  BY <1>a DEF Submitting
<1>7. Ended'
  <2>1. PageEnded'
    BY <1>1, <1>a, <1>c, <1>d DEF Ended, PageEnded, Over, Waiting
  <2>2. FetchEnded'
    BY <1>d DEF Ended, FetchEnded
  <2> QED BY <2>1, <2>2 DEF Ended
<1>8. Current'
  <2>1. SaveStands'
    BY <1>a DEF Current, SaveStands
  <2>2. FetchesStand'
    BY <1>a DEF Current, FetchesStand
  <2>3. SnapshotStands'
    BY <1>a, <1>c, <1>d DEF Current, SnapshotStands, Open
  <2>4. LateStand'
    <3> SUFFICES ASSUME Open, NEW r \in late', r.kind = "submit", r.version = server.version
                 PROVE  r.answer \in {0, server.answer}
      BY <1>c DEF Current, LateStand, Open
    <3> QED BY <1>1, <1>b DEF Current, SnapshotStands, LateStand, LateSave, LateSubmit
  <2> QED BY <2>1, <2>2, <2>3, <2>4 DEF Current
<1>9. Rivals'
  <2> SUFFICES ASSUME Open', NEW r \in late', Rival(r)'
               PROVE  Fresh'
    BY DEF Rivals
  <2> QED BY <1>a, <1>d DEF Fresh
<1>10. Overtaken'
  <2> SUFFICES ASSUME accepted' # NoBody, accepted' # page'.snapshot
               PROVE  PageBehind' /\ FetchBehind'
    BY DEF Overtaken
  <2>1. PageBehind'
    BY <1>a DEF Overtaken, PageBehind, FetchBehind
  <2>2. FetchBehind'
    BY <1>d DEF Overtaken, PageBehind, FetchBehind
  <2> QED BY <2>1, <2>2
<1>11. Ordered'
  <2> SUFFICES ASSUME "stream" \notin env'.kinds
               PROVE  PageTurns' /\ FetchTurns' /\ Known'
    BY <1>a DEF Ordered
  <2>1. PageTurns /\ FetchTurns /\ Known
    BY <1>1, <1>a, <1>b, <1>c, <1>d DEF Ordered
  <2>2. PageTurns'
    BY <1>a DEF PageTurns
  <2>3. FetchTurns'
    BY <1>d DEF FetchTurns
  <2>4. Known'
    <3> SUFFICES ASSUME Open'
                 PROVE  DraftNewer' /\ SaveKnown' /\ ChainRises' /\ StoredNewer' /\ SnapshotExact' /\ LateNewer'
      BY DEF Known
    <3>0. DraftNewer /\ SaveKnown /\ ChainRises /\ StoredNewer /\ SnapshotExact /\ LateNewer
      BY <1>1, <1>a, <1>b, <1>c, <1>d, <2>1 DEF Known, Open
    <3>1. DraftNewer'
      BY <1>a, <1>c, <1>d DEF DraftNewer
    <3>2. SaveKnown'
      BY <1>a DEF SaveKnown
    <3>3. ChainRises'
      BY <1>d DEF ChainRises
    <3>4. StoredNewer'
      BY <1>c, <3>0 DEF StoredNewer
    <3>5. SnapshotExact'
      BY <1>a, <1>c, <1>d DEF SnapshotExact
    <3>6. LateNewer'
    <4> SUFFICES ASSUME NEW r \in late', r.version = server.version
                 PROVE  IF r.kind = "save" THEN r.answer >= server.answer
                                           ELSE r.answer = server.answer
      BY <1>c DEF LateNewer
    <4>1. CASE r \in late
      BY <3>0, <4>1 DEF LateNewer
    <4>2. CASE LateSubmit(r)
      BY <3>0, <4>2 DEF LateSubmit, SnapshotExact
    <4>3. CASE LateSave(r)
      <5>1. chain # <<>> /\ save.answer = Head(chain).answer
        BY <1>1, <4>3 DEF Chained, Heads, LateSave
      <5>2. Head(chain) = chain[1] /\ 1 \in 1 .. Len(chain)
        BY <5>1, HeadFacts, InvFacts
      <5>3. page.ver = server.version
        BY <3>0, <4>3 DEF SaveKnown, LateSave
      <5> QED BY <3>0, <4>3, <5>1, <5>2, <5>3 DEF DraftNewer, LateSave
    <4> QED BY <1>b, <4>1, <4>2, <4>3
    <3> QED BY <3>1, <3>2, <3>3, <3>4, <3>5, <3>6
  <2> QED BY <2>2, <2>3, <2>4
<1>12. Kept'
  BY <1>c DEF Kept
<1> QED BY <1>2, <1>3, <1>4, <1>5, <1>6, <1>7, <1>8, <1>9, <1>10, <1>11, <1>12 DEF Inv

LEMMA StreamTellsInv ==
  ASSUME Inv, Types', StreamTellsEffect
  PROVE  Inv'
<1>1. /\ Texts /\ Versions /\ Blank /\ Chained /\ Submitting /\ Ended
      /\ Current /\ Rivals /\ Overtaken /\ Ordered /\ Kept
      /\ Numbers /\ Numbers' /\ Bodies /\ Bodies'
  BY InvFacts
<1> USE DEF StreamTellsEffect, Same, Fetchers
<1>2. Texts'
  BY <1>1
     DEF Texts, PageTexts, Numbers, PageNumbers, ChainTexts, ChainNumbers, FetchTexts,
         FetchNumbers, LateTexts, LateNumbers
<1>3. Versions'
  BY <1>1
     DEF Versions, PageVersions, Numbers, PageNumbers, FetchVersions, Read, FetchNumbers,
         LateVersions, LateNumbers
<1>4. Blank'
  BY <1>1 DEF Blank
<1>5. Chained'
  BY <1>1 DEF Chained, Heads, ArmedOK, Waiting, Queue, Numbers, PageNumbers, ChainNumbers
<1>6. Submitting'
  BY <1>1 DEF Submitting
<1>7. Ended'
  BY <1>1 DEF Ended, PageEnded, Over, Waiting, Bodies, FetchEnded, Read
<1>8. Current'
  <2>1. SaveStands'
    BY <1>1 DEF Current, SaveStands, Open
  <2>2. FetchesStand'
    BY <1>1 DEF Current, FetchesStand, Open, Read
  <2>3. SnapshotStands'
    BY <1>1 DEF Current, SnapshotStands, Open
  <2>4. LateStand'
    BY <1>1 DEF Current, LateStand, Open, Numbers
  <2> QED BY <2>1, <2>2, <2>3, <2>4 DEF Current
<1>9. Rivals'
  <2> SUFFICES ASSUME Open', NEW r \in late', Rival(r)'
               PROVE  Fresh'
    BY DEF Rivals
  <2>1. Open /\ r \in late /\ Rival(r)
    BY <1>1 DEF Open, Rival
  <2>2. Fresh
    BY <1>1, <2>1 DEF Rivals
  <2>3. page.view = server.version
    BY <2>2 DEF Fresh
  <2> QED BY <1>1, <2>3 DEF Numbers, PageNumbers
<1>10. Overtaken'
  BY <1>1
     DEF Overtaken, PageBehind, Bodies, Numbers, PageNumbers, FetchBehind, Read,
         FetchNumbers
<1>11. Ordered'
  BY <1>1 DEF Ordered, PageTurns, Waiting, FetchTurns
<1>12. Kept'
  BY <1>1 DEF Kept, Read
<1> QED BY <1>2, <1>3, <1>4, <1>5, <1>6, <1>7, <1>8, <1>9, <1>10, <1>11, <1>12 DEF Inv

LEMMA LateRequestInv ==
  ASSUME Inv, Types', LateRequestEffect
  PROVE  Inv'
<1>1. /\ Texts /\ Versions /\ Blank /\ Chained /\ Submitting /\ Ended
      /\ Current /\ Rivals /\ Overtaken /\ Ordered /\ Kept
      /\ Numbers /\ Numbers' /\ Bodies /\ Bodies'
  BY InvFacts
<1> USE DEF LateRequestEffect
<1>r. PICK q \in late :
        /\ late' = late \ {q}
        /\ \/ /\ q.kind = "save" /\ CanSave(q.version) /\ accepted' = accepted
              /\ server'.status = server.status /\ server'.version = server.version + 1
              /\ server'.answer = q.answer
           \/ /\ q.kind = "submit" /\ CanSubmit(q.version)
              /\ accepted' = [version |-> q.version, answer |-> q.answer]
              /\ server'.status = "EVALUATING" /\ server'.version = server.version + 1
              /\ server'.answer = q.answer
           \/ server' = server /\ accepted' = accepted
  OBVIOUS
<1> DEFINE Still == server' = server /\ accepted' = accepted
           Saved == /\ Open /\ accepted' = accepted /\ accepted = NoBody
                    /\ server'.status = server.status
                    /\ server'.version = server.version + 1 /\ server'.answer = q.answer
           Taken == /\ Open /\ accepted = NoBody
                    /\ q.kind = "submit" /\ q.version = server.version
                    /\ accepted' = [version |-> q.version, answer |-> q.answer]
                    /\ accepted'.version = q.version /\ accepted'.answer = q.answer
                    /\ server'.status = "EVALUATING"
                    /\ server'.version = server.version + 1 /\ server'.answer = q.answer
<1>a. /\ late' \subseteq late /\ page' = page /\ chain' = chain /\ save' = save
      /\ submit' = submit /\ fetches' = fetches /\ stored' = stored /\ env' = env
  BY <1>r
<1>b. Still \/ Saved \/ Taken
  BY <1>1, <1>r DEF CanSave, CanSubmit, Open, Ended, PageEnded, Over
<1>c. /\ q \in late /\ q.version \in Nat /\ q.answer \in Nat /\ q.answer <= env.edits
      /\ server.version > 0 /\ server.version \in Nat
      /\ ~ Still => server'.version = server.version + 1
  BY <1>1, <1>b
     DEF Numbers, LateNumbers, PageNumbers, Texts, LateTexts, Versions, PageVersions
<1> HIDE DEF LateRequestEffect, Still, Saved, Taken
<1>2. Texts'
  <2>1. PageTexts'
    BY <1>1, <1>a, <1>b, <1>c
       DEF Texts, PageTexts, Numbers, PageNumbers, Still, Saved, Taken, Open
  <2>2. ChainTexts'
    BY <1>1, <1>a, <1>b, <1>c DEF Texts, ChainTexts, Numbers, PageNumbers, ChainNumbers
  <2>3. FetchTexts'
    BY <1>1, <1>a, <1>b, <1>c DEF Texts, FetchTexts, Numbers, PageNumbers, FetchNumbers
  <2>4. LateTexts'
    BY <1>1, <1>a, <1>b, <1>c DEF Texts, LateTexts, Numbers, PageNumbers, LateNumbers
  <2> QED BY <2>1, <2>2, <2>3, <2>4 DEF Texts
<1>3. Versions'
  <2>1. PageVersions'
    BY <1>1, <1>a, <1>b, <1>c
       DEF Versions, PageVersions, Numbers, PageNumbers, Still, Saved, Taken, Open
  <2>2. FetchVersions'
    BY <1>1, <1>a, <1>b, <1>c
       DEF Versions, FetchVersions, Read, Numbers, PageNumbers, FetchNumbers, Still, Saved,
           Taken, Open
  <2>3. LateVersions'
    BY <1>1, <1>a, <1>b, <1>c
       DEF Versions, LateVersions, Numbers, PageNumbers, LateNumbers, Still, Saved, Taken,
           Open
  <2> QED BY <2>1, <2>2, <2>3 DEF Versions
<1>4. Blank'
  BY <1>1, <1>a, <1>b, <1>c DEF Blank, Waiting, NoBody
<1>5. Chained'
  <2>1. Heads'
    BY <1>1, <1>a, <1>b, <1>c DEF Chained, Heads, ArmedOK, Waiting
  <2>2. Queue'
    BY <1>1, <1>a, <1>b, <1>c DEF Chained, Queue, Numbers, PageNumbers, ChainNumbers
  <2> QED BY <2>1, <2>2 DEF Chained
<1>6. Submitting'
  BY <1>1, <1>a, <1>b, <1>c DEF Submitting, NoBody, Bodies, Still, Saved, Taken, Open
<1>7. Ended'
  <2>1. PageEnded'
    BY <1>1, <1>a, <1>b, <1>c
       DEF Ended, PageEnded, Over, Waiting, Bodies, Still, Saved, Taken, Open
  <2>2. FetchEnded'
    BY <1>1, <1>a, <1>b, <1>c
       DEF Ended, FetchEnded, Over, Waiting, Read, Still, Saved, Taken, Open
  <2> QED BY <2>1, <2>2 DEF Ended
<1>8. Current'
  <2>1. SaveStands'
    <3>1. CASE Still
      BY <1>1, <1>a, <3>1 DEF Still, Current, SaveStands, Open
    <3>2. CASE ~ Still
      BY <1>1, <1>a, <1>c, <3>2
         DEF Current, SaveStands, Versions, PageVersions, Numbers, PageNumbers
    <3> QED BY <3>1, <3>2
  <2>2. FetchesStand'
    <3>1. CASE Still
      BY <1>1, <1>a, <3>1 DEF Still, Current, FetchesStand, Open
    <3>2. CASE ~ Still
      BY <1>1, <1>a, <1>c, <3>2
         DEF Current, FetchesStand, Versions, PageVersions, FetchVersions, FetchNumbers,
             Read, Numbers, PageNumbers
    <3> QED BY <3>1, <3>2
  <2>3. SnapshotStands'
    <3>1. CASE Still
      BY <1>1, <1>a, <3>1 DEF Still, Current, SnapshotStands, Open
    <3>2. CASE ~ Still
      BY <1>1, <1>a, <1>c, <3>2
         DEF Current, SnapshotStands, Versions, PageVersions, Numbers, PageNumbers
    <3> QED BY <3>1, <3>2
  <2>4. LateStand'
    <3>1. CASE Still
      BY <1>1, <1>a, <3>1 DEF Still, Current, LateStand, Open
    <3>2. CASE ~ Still
      BY <1>1, <1>a, <1>c, <3>2
         DEF Current, LateStand, Versions, PageVersions, LateVersions, LateNumbers, Numbers,
             PageNumbers
    <3> QED BY <3>1, <3>2
  <2> QED BY <2>1, <2>2, <2>3, <2>4 DEF Current
<1>9. Rivals'
  <2> SUFFICES ASSUME Open', NEW r \in late', Rival(r)'
               PROVE  Fresh'
    BY DEF Rivals
  <2>1. CASE Still
    <3>1. Open /\ r \in late /\ Rival(r)
      BY <1>a, <2>1 DEF Open, Rival, Still
    <3>2. Fresh
      BY <1>1, <3>1 DEF Rivals
    <3> QED BY <1>a, <2>1, <3>2 DEF Fresh, Read, Still
  <2>2. CASE ~ Still
    <3>1. r.version = server.version + 1 /\ r.version <= server.version
      BY <1>1, <1>a, <1>c, <2>2 DEF Rival, Versions, LateVersions
    <3> QED BY <1>c, <3>1
  <2> QED BY <2>1, <2>2
<1>10. Overtaken'
  <2> SUFFICES ASSUME accepted' # NoBody, accepted' # page.snapshot
               PROVE  PageBehind' /\ FetchBehind'
    BY <1>a DEF Overtaken
  <2>1. CASE Still
    <3>1. PageBehind /\ FetchBehind
      BY <1>1, <2>1 DEF Overtaken, Still
    <3> QED BY <1>a, <2>1, <3>1 DEF PageBehind, FetchBehind, Read, Still
  <2>2. CASE Taken
    <3>1. Rival(q)
      BY <2>2 DEF Taken, Rival
    <3>2. Fresh
      BY <1>1, <1>c, <2>2, <3>1 DEF Rivals, Taken
    <3>3. accepted'.answer \in {0, server.answer} /\ accepted'.version = server.version
      BY <1>1, <1>c, <2>2 DEF Taken, Current, LateStand
    <3>4. PageBehind'
      BY <1>1, <1>a, <3>2, <3>3 DEF PageBehind, Fresh, Blank
    <3>5. FetchBehind'
      <4> SUFFICES ASSUME NEW f \in Fetchers, Read(f), fetches[f].status \in {"GENERATING", "IN_PROGRESS"}
                   PROVE  /\ page.view = 0 /\ f = "open" /\ fetches[f].status = "IN_PROGRESS"
                          /\ fetches[f].version = accepted'.version
                          /\ fetches[f].state = "ok" /\ fetches[f].answer = 0 => accepted'.answer = 0
        BY <1>a DEF FetchBehind, Read
      <4>1. f = "open" /\ page.view = 0
        BY <3>2 DEF Fresh, Read, Fetchers
      <4>2. fetches[f].version = server.version /\ fetches[f].status = "IN_PROGRESS"
        BY <3>2, <4>1 DEF Fresh
      <4>3. fetches[f].state = "ok" => fetches[f].answer = server.answer
        BY <1>1, <2>2, <4>2 DEF Current, FetchesStand, Taken
      <4> QED BY <3>3, <4>1, <4>2, <4>3
    <3> QED BY <3>4, <3>5
  <2>3. CASE Saved
    BY <2>3 DEF Saved
  <2> QED BY <1>b, <2>1, <2>2, <2>3
<1>11. Ordered'
  <2> SUFFICES ASSUME "stream" \notin env'.kinds
               PROVE  PageTurns' /\ FetchTurns' /\ Known'
    BY <1>a DEF Ordered
  <2>1. PageTurns /\ FetchTurns /\ Known
    BY <1>1, <1>a, <1>b, <1>c DEF Ordered
  <2>2. PageTurns'
    BY <1>1, <1>a, <1>b, <1>c, <2>1 DEF PageTurns, Waiting
  <2>3. FetchTurns'
    BY <1>1, <1>a, <1>b, <1>c, <2>1 DEF FetchTurns, Read
  <2>4. Known'
    <3> SUFFICES ASSUME Open'
                 PROVE  Known'
      BY DEF Known
    <3>0. Open /\ ~ Taken
      BY <1>b DEF Open, Still, Saved, Taken
    <3>1. DraftNewer /\ SaveKnown /\ ChainRises /\ StoredNewer /\ SnapshotExact /\ LateNewer
      BY <2>1, <3>0 DEF Known
    <3>2. SaveKnown' /\ ChainRises'
      BY <1>a, <3>1 DEF SaveKnown, ChainRises
    <3>3. CASE Still
      BY <1>a, <3>1, <3>2, <3>3
         DEF Known, DraftNewer, StoredNewer, SnapshotExact, LateNewer, Still
    <3>4. CASE ~ Still
      <4>1. /\ page'.ver # server'.version /\ stored'.version # server'.version
            /\ page'.snapshot.version # server'.version
        BY <1>1, <1>a, <1>c, <3>4 DEF Versions, PageVersions, Numbers, PageNumbers
      <4>2. \A z \in late' : z.version # server'.version
        BY <1>1, <1>a, <1>c, <3>4 DEF Versions, LateVersions, Numbers, LateNumbers
      <4>3. DraftNewer' /\ StoredNewer' /\ SnapshotExact' /\ LateNewer'
        BY <4>1, <4>2 DEF DraftNewer, StoredNewer, SnapshotExact, LateNewer
      <4> QED BY <3>2, <4>3 DEF Known
    <3> QED BY <3>3, <3>4
  <2> QED BY <2>2, <2>3, <2>4
<1>12. Kept'
  BY <1>1, <1>a, <1>b, <1>c DEF Kept, Read, Numbers, PageNumbers
<1> QED BY <1>2, <1>3, <1>4, <1>5, <1>6, <1>7, <1>8, <1>9, <1>10, <1>11, <1>12 DEF Inv

LEMMA WorkInv ==
  ASSUME Inv, Types', WorkEffect
  PROVE  Inv'
<1>1. /\ Texts /\ Versions /\ Blank /\ Chained /\ Submitting /\ Ended
      /\ Current /\ Rivals /\ Overtaken /\ Ordered /\ Kept
      /\ Numbers /\ Numbers' /\ Bodies /\ Bodies'
  BY InvFacts
<1> USE DEF WorkEffect
<1>2. Texts'
  BY <1>1
     DEF Texts, PageTexts, Numbers, PageNumbers, ChainTexts, ChainNumbers, FetchTexts,
         FetchNumbers, LateTexts, LateNumbers
<1>3. Versions'
  <2>1. PageVersions'
    BY <1>1 DEF Versions, PageVersions, Numbers, PageNumbers
  <2>2. FetchVersions'
    BY <1>1 DEF Versions, FetchVersions, Read, Numbers, PageNumbers, FetchNumbers
  <2>3. LateVersions'
    BY <1>1 DEF Versions, LateVersions, Numbers, PageNumbers, LateNumbers
  <2> QED BY <2>1, <2>2, <2>3 DEF Versions
<1>4. Blank'
  BY <1>1 DEF Blank
<1>5. Chained'
  BY <1>1 DEF Chained, Heads, ArmedOK, Waiting, Queue, Numbers, PageNumbers, ChainNumbers
<1>6. Submitting'
  BY <1>1 DEF Submitting
<1>7. Ended'
  BY <1>1 DEF Ended, PageEnded, Over, Waiting, Bodies, FetchEnded, Read
<1>8. Current'
  BY <1>1
     DEF Current, SaveStands, Open, Numbers, PageNumbers, Versions, PageVersions,
         FetchesStand, Read, FetchVersions, FetchNumbers, SnapshotStands, LateStand,
         LateNumbers, LateVersions
<1>9. Rivals'
  <2> SUFFICES ASSUME Open', NEW r \in late', Rival(r)'
               PROVE  Fresh'
    BY DEF Rivals
  <2>1. r.version = server.version + 1 /\ r.version <= server.version /\ server.version \in Nat
    BY <1>1 DEF Rival, Versions, LateVersions, Numbers, PageNumbers
  <2> QED BY <2>1
<1>10. Overtaken'
  BY <1>1
     DEF Overtaken, PageBehind, Bodies, Numbers, PageNumbers, FetchBehind, Read,
         FetchNumbers
<1>11. Ordered'
  <2> SUFFICES ASSUME "stream" \notin env'.kinds
               PROVE  PageTurns' /\ FetchTurns' /\ Known'
    BY DEF Ordered
  <2>1. PageTurns /\ FetchTurns /\ Known
    BY <1>1 DEF Ordered
  <2>2. PageTurns'
    BY <1>1, <2>1 DEF PageTurns, Waiting
  <2>3. FetchTurns'
    BY <1>1, <2>1 DEF FetchTurns, Read
  <2>4. Known'
    <3> SUFFICES ASSUME Open'
                 PROVE  Known'
      BY DEF Known
    <3>1. server.status = "GENERATING"
      BY DEF Open
    <3>2. env.edits = 0
      BY <1>1, <3>1 DEF Ended, PageEnded
    <3>3. \A i \in 1 .. Len(chain) : FALSE
      BY <1>1, <3>2 DEF Chained, Queue, Texts, ChainTexts, Numbers, ChainNumbers
    <3>4. save.state = "none"
      <4>1. chain # <<>> => 1 \in 1 .. Len(chain)
        BY HeadFacts, InvFacts
      <4> QED BY <1>1, <3>3, <4>1 DEF Chained, Heads
    <3>5. /\ page'.ver # server'.version /\ stored'.version # server'.version
          /\ page'.snapshot.version # server'.version
      BY <1>1 DEF Versions, PageVersions, Numbers, PageNumbers
    <3>6. \A z \in late' : z.version # server'.version
      BY <1>1 DEF Versions, LateVersions, Numbers, LateNumbers, PageNumbers
    <3>7. DraftNewer' /\ StoredNewer' /\ SnapshotExact' /\ LateNewer'
      BY <3>5, <3>6 DEF DraftNewer, StoredNewer, SnapshotExact, LateNewer
    <3>8. SaveKnown' /\ ChainRises'
      BY <3>3, <3>4 DEF SaveKnown, ChainRises
    <3> QED BY <3>7, <3>8 DEF Known
  <2> QED BY <2>2, <2>3, <2>4
<1>12. Kept'
  BY <1>1 DEF Kept, Read
<1> QED BY <1>2, <1>3, <1>4, <1>5, <1>6, <1>7, <1>8, <1>9, <1>10, <1>11, <1>12 DEF Inv

LEMMA SubmitInv ==
  ASSUME Inv, Types', SubmitEffect, page.view # 0
  PROVE  Inv'
<1>1. /\ Texts /\ Versions /\ Blank /\ Chained /\ Submitting /\ Ended
      /\ Current /\ Rivals /\ Overtaken /\ Ordered /\ Kept
      /\ Numbers /\ Numbers' /\ Bodies /\ Bodies'
  BY InvFacts
<1> USE DEF SubmitEffect
<1> DEFINE e == [answer |-> page.draft, by |-> "submit"]
           Saves == /\ page.snapshot = NoBody /\ page.draft > 0 /\ page'.snapshot = NoBody
                    /\ submit'.pc = "saving" /\ submit'.answer = page.draft /\ Longer(e)
           Empty == /\ page.snapshot = NoBody /\ page.draft = 0 /\ submit'.pc = "sent"
                    /\ page'.snapshot = [version |-> page.ver, answer |-> 0]
                    /\ page'.snapshot.version = page.ver /\ page'.snapshot.answer = 0
                    /\ page'.snapshot # NoBody /\ chain' = chain
           Again == /\ page.snapshot # NoBody /\ page'.snapshot = page.snapshot
                    /\ submit'.pc = "sent" /\ chain' = chain
<1>a. /\ submit.pc = "idle" /\ submit'.answer \in {submit.answer, page.draft}
      /\ page'.draft = page.draft /\ page'.ver = page.ver /\ page'.view = page.view
      /\ page'.status = page.status /\ page'.generating = page.generating
      /\ page'.submitting /\ ~ page'.armed /\ page'.timer \in {page.timer, "stopped"}
      /\ server' = server /\ accepted' = accepted /\ save' = save /\ fetches' = fetches
      /\ stored' = stored /\ late' = late /\ env' = env
      /\ e.answer = page.draft /\ e.by = "submit"
  OBVIOUS
<1>b. /\ page.ver # 0 /\ page.status # "none" /\ fetches["refetch"].state = "none"
      /\ \A i \in 1 .. Len(chain) : chain[i].by # "submit"
  BY <1>1, <1>a DEF Blank, Submitting, Chained, Queue, Fetchers
<1>c. Saves \/ Empty \/ Again
  <2>1. CASE /\ page.snapshot = NoBody /\ page.draft > 0 /\ page'.snapshot = NoBody
             /\ submit'.pc = "saving" /\ submit'.answer = page.draft
             /\ [answer |-> page.draft, by |-> "submit"] \in Entry
             /\ chain' = Append(chain, [answer |-> page.draft, by |-> "submit"])
    BY <2>1, LongerChain, InvFacts
  <2>2. CASE /\ page.snapshot = NoBody /\ page.draft = 0 /\ submit'.pc = "sent"
             /\ page'.snapshot = [version |-> page.ver, answer |-> 0] /\ chain' = chain
    BY <1>1, <1>b, <2>2 DEF Bodies
  <2> QED BY <2>1, <2>2
<1>d. \/ chain' = chain
      \/ /\ chain' # <<>> /\ (chain # <<>> => Head(chain') = Head(chain))
         /\ page.snapshot = NoBody
  BY <1>c DEF Longer
<1> HIDE DEF e, SubmitEffect, Saves, Empty, Again
<1>2. Texts'
  <2>1. PageTexts'
    BY <1>1, <1>a, <1>b, <1>c, <1>d
       DEF Texts, PageTexts, Numbers, PageNumbers, Saves, Empty, Again
  <2>2. ChainTexts'
    <3> SUFFICES ASSUME NEW i \in 1 .. Len(chain')
                 PROVE  chain'[i].answer <= env.edits
      BY <1>a DEF Texts, ChainTexts
    <3>1. \/ i \in 1 .. Len(chain) /\ chain'[i] = chain[i]
          \/ chain'[i] = e
      BY <1>c DEF Longer, Saves, Empty, Again
    <3> QED BY <1>1, <1>a, <3>1 DEF Texts, PageTexts, ChainTexts
  <2>3. FetchTexts'
    BY <1>1, <1>a, <1>b, <1>c, <1>d
       DEF Texts, FetchTexts, Numbers, PageNumbers, FetchNumbers
  <2>4. LateTexts'
    BY <1>1, <1>a, <1>b, <1>c, <1>d DEF Texts, LateTexts, Numbers, PageNumbers, LateNumbers
  <2> QED BY <2>1, <2>2, <2>3, <2>4 DEF Texts
<1>3. Versions'
  <2>1. PageVersions'
    BY <1>1, <1>a, <1>b, <1>c, <1>d
       DEF Versions, PageVersions, Numbers, PageNumbers, Saves, Empty, Again
  <2>2. FetchVersions'
    BY <1>1, <1>a, <1>b, <1>c, <1>d
       DEF Versions, FetchVersions, Read, Numbers, PageNumbers, FetchNumbers
  <2>3. LateVersions'
    BY <1>1, <1>a, <1>b, <1>c, <1>d
       DEF Versions, LateVersions, Numbers, PageNumbers, LateNumbers
  <2> QED BY <2>1, <2>2, <2>3 DEF Versions
<1>4. Blank'
  BY <1>1, <1>a, <1>b, <1>c, <1>d DEF Blank, Waiting, NoBody
<1>5. Chained'
  <2>1. Heads'
    BY <1>1, <1>a, <1>b, <1>c, <1>d DEF Chained, Heads, ArmedOK, Waiting
  <2>2. Queue'
    <3>1. CASE Saves
      <4> SUFFICES ASSUME NEW i \in 1 .. Len(chain')
                   PROVE  /\ chain'[i].answer > 0
                          /\ chain'[i].by = "submit" =>
                               i = Len(chain') /\ chain'[i].answer = submit'.answer
        BY <3>1 DEF Chained, Queue, Saves
      <4>1. \/ i \in 1 .. Len(chain) /\ chain'[i] = chain[i]
            \/ i = Len(chain') /\ chain'[i] = e
        BY <3>1 DEF Longer, Saves
      <4>2. page.draft > 0 /\ submit'.answer = page.draft
        BY <3>1 DEF Saves
      <4> QED BY <1>1, <1>a, <1>b, <4>1, <4>2 DEF Chained, Queue
    <3>2. CASE chain' = chain
      BY <1>1, <1>b, <3>2 DEF Chained, Queue
    <3> QED BY <1>c, <3>1, <3>2 DEF Empty, Again
  <2> QED BY <2>1, <2>2 DEF Chained
<1>6. Submitting'
  <2>1. page'.snapshot = NoBody \/ page'.snapshot.version > 0
    BY <1>1, <1>b, <1>c DEF Submitting, Numbers, PageNumbers, Saves, Empty, Again
  <2>2. \/ submit'.pc = "saving" /\ page'.snapshot = NoBody
        \/ submit'.pc = "sent" /\ page'.snapshot # NoBody
    BY <1>c DEF Saves, Empty, Again
  <2> QED BY <1>a, <1>b, <2>1, <2>2 DEF Submitting
<1>7. Ended'
  <2>1. PageEnded'
    BY <1>1, <1>a, <1>b, <1>c, <1>d DEF Ended, PageEnded, Over, Waiting, Bodies
  <2>2. FetchEnded'
    BY <1>1, <1>a, <1>b, <1>c, <1>d DEF Ended, FetchEnded, Over, Waiting, Read
  <2> QED BY <2>1, <2>2 DEF Ended
<1>8. Current'
  <2>1. SaveStands'
    BY <1>1, <1>a, <1>b, <1>c, <1>d
       DEF Current, SaveStands, Open, Numbers, PageNumbers, Versions, PageVersions
  <2>2. FetchesStand'
    BY <1>1, <1>a, <1>b, <1>c, <1>d
       DEF Current, FetchesStand, Open, Read, Versions, FetchVersions, Numbers, PageNumbers,
           FetchNumbers
  <2>3. SnapshotStands'
    BY <1>1, <1>a, <1>b, <1>c, <1>d
       DEF Current, SnapshotStands, Open, Numbers, PageNumbers, Versions, PageVersions,
           Saves, Empty, Again
  <2>4. LateStand'
    BY <1>1, <1>a, <1>b, <1>c, <1>d
       DEF Current, LateStand, Open, Numbers, PageNumbers, LateNumbers, Versions,
           LateVersions
  <2> QED BY <2>1, <2>2, <2>3, <2>4 DEF Current
<1>9. Rivals'
  <2> SUFFICES ASSUME Open', NEW r \in late', Rival(r)'
               PROVE  Fresh'
    BY DEF Rivals
  <2>1. Open /\ r \in late
    BY <1>a DEF Open
  <2>2. CASE Saves \/ Again
    <3>1. Rival(r)
      BY <1>a, <2>2 DEF Rival, Saves, Again
    <3>2. Fresh
      BY <1>1, <2>1, <3>1 DEF Rivals
    <3>3. page'.snapshot = page.snapshot
      BY <2>2 DEF Saves, Again
    <3> QED BY <1>a, <3>2, <3>3 DEF Fresh, Read
  <2>3. CASE Empty
    <3>1. /\ r.kind = "submit" /\ r.version = server.version
          /\ [version |-> r.version, answer |-> r.answer] # page'.snapshot
      BY <1>a DEF Rival
    <3>2. [version |-> r.version, answer |-> r.answer] # NoBody
      BY <1>1, <3>1 DEF Versions, PageVersions, NoBody
    <3>3. Fresh
      BY <1>1, <2>1, <2>3, <3>1, <3>2 DEF Rivals, Rival, Empty
    <3>4. page.ver = server.version /\ server.answer = 0
      BY <1>1, <1>b, <2>3, <3>3 DEF Fresh, Empty, Blank
    <3>5. r.answer = 0
      BY <1>1, <2>1, <3>1, <3>4 DEF Current, LateStand
    <3> QED BY <2>3, <3>1, <3>4, <3>5 DEF Empty
  <2> QED BY <1>c, <2>2, <2>3
<1>10. Overtaken'
  <2> SUFFICES ASSUME accepted # NoBody, accepted # page'.snapshot
               PROVE  PageBehind' /\ FetchBehind'
    BY <1>a DEF Overtaken
  <2>1. PageBehind /\ FetchBehind
    BY <1>1, <1>c DEF Overtaken, Saves, Empty, Again
  <2>2. FetchBehind'
    BY <1>a, <2>1 DEF FetchBehind, Read
  <2>3. CASE page'.snapshot = page.snapshot
    BY <1>a, <2>1, <2>2, <2>3 DEF PageBehind
  <2>4. CASE Empty
    <3>1. page.status = "IN_PROGRESS" => accepted.version = page.ver /\ accepted.answer = 0
      BY <2>1, <2>4 DEF PageBehind, Empty
    <3>2. page.status # "IN_PROGRESS"
      <4>1. accepted \in Body /\ page'.snapshot \in Body
        BY <1>1, <1>a DEF Bodies
      <4> QED BY <2>4, <3>1, <4>1, BodyEqual DEF SameBody, Empty
    <3> QED BY <1>a, <1>b, <2>1, <2>2, <3>2 DEF PageBehind
  <2> QED BY <1>c, <2>2, <2>3, <2>4 DEF Saves, Again
<1>11. Ordered'
  <2> SUFFICES ASSUME "stream" \notin env'.kinds
               PROVE  PageTurns' /\ FetchTurns' /\ Known'
    BY <1>a DEF Ordered
  <2>1. PageTurns /\ FetchTurns /\ Known
    BY <1>1, <1>a, <1>b, <1>c, <1>d DEF Ordered
  <2>2. PageTurns'
    BY <1>1, <1>a, <1>b, <1>c, <1>d, <2>1 DEF PageTurns, Waiting
  <2>3. FetchTurns'
    BY <1>1, <1>a, <1>b, <1>c, <1>d, <2>1 DEF FetchTurns, Read
  <2>4. Known'
    <3> SUFFICES ASSUME Open'
                 PROVE  DraftNewer' /\ SaveKnown' /\ ChainRises' /\ StoredNewer' /\ SnapshotExact' /\ LateNewer'
      BY DEF Known
    <3>0. DraftNewer /\ SaveKnown /\ ChainRises /\ StoredNewer /\ SnapshotExact /\ LateNewer
      BY <1>1, <1>a, <1>b, <1>c, <1>d, <2>1 DEF Known, Open
    <3>1. DraftNewer'
      <4>1. CASE chain' = chain
        BY <1>a, <3>0, <4>1 DEF DraftNewer
      <4>2. CASE Longer(e)
        <5> SUFFICES ASSUME page.ver = server.version, NEW i \in 1 .. Len(chain')
                     PROVE  chain'[i].answer >= server.answer
          BY <1>a, <3>0 DEF DraftNewer
        <5>1. chain'[i] = e \/ (i \in 1 .. Len(chain) /\ chain'[i] = chain[i])
          BY <4>2 DEF Longer
        <5> QED BY <1>a, <3>0, <5>1 DEF DraftNewer
      <4> QED BY <1>c, <4>1, <4>2 DEF Saves, Empty, Again
    <3>2. SaveKnown'
      BY <1>1, <1>a, <1>b, <1>c, <1>d, <2>1, <3>0 DEF SaveKnown, Numbers, PageNumbers
    <3>3. ChainRises'
      <4>1. CASE chain' = chain
        BY <1>a, <3>0, <4>1 DEF ChainRises
      <4>2. CASE Longer(e)
        <5>1. ASSUME NEW i \in 1 .. Len(chain')
              PROVE  /\ chain'[i].answer <= page.draft
                     /\ \/ i = Len(chain') /\ chain'[i].answer = page.draft
                        \/ i < Len(chain') /\ i \in 1 .. Len(chain) /\ chain'[i] = chain[i]
          <6>1. \/ i = Len(chain') /\ chain'[i] = e
                \/ i < Len(chain') /\ i \in 1 .. Len(chain) /\ chain'[i] = chain[i]
            BY <4>2 DEF Longer
          <6>2. page.draft \in Nat
            BY <1>1 DEF Numbers, PageNumbers
          <6> QED BY <1>a, <3>0, <6>1, <6>2 DEF ChainRises
        <5>2. ASSUME NEW i \in 1 .. Len(chain'), NEW j \in 1 .. Len(chain'), i <= j
              PROVE  chain'[i].answer <= chain'[j].answer
          <6>1. CASE j = Len(chain') /\ chain'[j].answer = page.draft
            BY <5>1, <6>1
          <6>2. CASE j < Len(chain') /\ j \in 1 .. Len(chain) /\ chain'[j] = chain[j]
            <7>1. i # Len(chain')
              BY <5>2, <6>2
            <7>2. i \in 1 .. Len(chain) /\ chain'[i] = chain[i]
              BY <5>1, <7>1
            <7> QED BY <3>0, <5>2, <6>2, <7>2 DEF ChainRises
          <6> QED BY <5>1, <6>1, <6>2
        <5> QED BY <1>a, <5>1, <5>2 DEF ChainRises
      <4> QED BY <1>c, <4>1, <4>2 DEF Saves, Empty, Again
    <3>4. StoredNewer'
      BY <1>1, <1>a, <1>b, <1>c, <1>d, <2>1, <3>0 DEF StoredNewer, Numbers, PageNumbers
    <3>5. SnapshotExact'
      <4>1. CASE page'.snapshot = page.snapshot
        BY <1>a, <3>0, <4>1 DEF SnapshotExact
      <4>2. CASE Empty
        BY <1>1, <1>a, <3>0, <4>2 DEF SnapshotExact, DraftNewer, Empty, Numbers, PageNumbers
      <4> QED BY <1>c, <4>1, <4>2 DEF Saves, Again
    <3>6. LateNewer'
      BY <1>1, <1>a, <1>b, <1>c, <1>d, <2>1, <3>0
         DEF LateNewer, Numbers, PageNumbers, LateNumbers, Open
    <3> QED BY <3>1, <3>2, <3>3, <3>4, <3>5, <3>6
  <2> QED BY <2>2, <2>3, <2>4
<1>12. Kept'
  BY <1>1, <1>a, <1>b, <1>c, <1>d DEF Kept, Read, Numbers, PageNumbers
<1> QED BY <1>2, <1>3, <1>4, <1>5, <1>6, <1>7, <1>8, <1>9, <1>10, <1>11, <1>12 DEF Inv

-----------------------------------------------------------------------------
(* Part 5: the theorems. *)
LEMMA InitInv == Init => Inv
<1> SUFFICES ASSUME Init
             PROVE  Inv
  OBVIOUS
<1>1. /\ page = Mounted /\ fetches = FirstFetch /\ accepted = NoBody /\ stored = NoBody
      /\ late = {} /\ chain = <<>> /\ save = NoCall /\ submit = NoSubmit
      /\ env = [edits |-> 0, mishaps |-> 0, kinds |-> {}, expired |-> FALSE]
      /\ server \in {[status |-> st, version |-> v, answer |-> 0] :
                       st \in {"GENERATING", "IN_PROGRESS"}, v \in {1, 2}}
  BY RoomAssumption DEF Init
<1>2. /\ Mounted \in Page /\ page.draft = 0 /\ page.ver = 0 /\ page.view = 0
      /\ page.status = "none" /\ ~ page.generating /\ ~ page.armed
      /\ page.timer = "running" /\ page.snapshot = NoBody
      /\ FirstFetch \in [Fetchers -> Call]
      /\ \A f \in Fetchers : /\ fetches[f].answer = 0 /\ ~ Read(f)
                             /\ fetches[f].state = IF f = "open" THEN "sent" ELSE "none"
  BY <1>1, MountedFacts DEF Read
<1>3. /\ save.state = "none" /\ save.version = 0 /\ save.answer = 0
      /\ submit.pc = "idle" /\ submit.answer = 0
      /\ accepted.version = 0 /\ accepted.answer = 0
      /\ stored.version = 0 /\ stored.answer = 0 /\ Len(chain) = 0
      /\ env.edits = 0 /\ env.kinds = {} /\ NoBody.version = 0 /\ NoBody.answer = 0
  BY <1>1, EmptySeq DEF NoCall, NoSubmit, NoBody
<1>4. /\ server.version \in {1, 2} /\ server.answer = 0
      /\ server.status \in {"GENERATING", "IN_PROGRESS"}
  BY <1>1
<1>5. Types
  <2>1. NoBody \in Body /\ NoCall \in Call /\ NoSubmit \in [pc : PcSet, answer : Text]
        /\ 0 \in Text
    BY Bounds DEF NoBody, Body, NoCall, Call, NoSubmit, PcSet, Text
  <2>2. server \in [status : Statuses, version : Nat, answer : Text]
    BY <1>1, <2>1 DEF Statuses
  <2>3. env \in [edits : Text, mishaps : Nat, kinds : SUBSET {"lost", "reload", "stream"},
                 expired : BOOLEAN]
    BY <1>1, <2>1
  <2>4. chain \in Seq([answer : Text, by : {"timeout", "submit"}])
    BY <1>1, EmptySeq
  <2> QED BY <1>1, <1>2, <2>1, <2>2, <2>3, <2>4 DEF Types
<1>6. Texts /\ Versions
  <2>1. PageTexts /\ PageVersions
    BY <1>2, <1>3, <1>4 DEF PageTexts, PageVersions
  <2>2. ChainTexts /\ FetchTexts /\ LateTexts /\ FetchVersions /\ LateVersions
    BY <1>1, <1>2, <1>3 DEF ChainTexts, FetchTexts, LateTexts, FetchVersions, LateVersions
  <2> QED BY <2>1, <2>2 DEF Texts, Versions
<1>7. Blank /\ Chained /\ Submitting
  BY <1>1, <1>2, <1>3 DEF Blank, Chained, Heads, Queue, Submitting, Fetchers
<1>8. Ended /\ Overtaken
  BY <1>1, <1>2, <1>3, <1>4 DEF Ended, PageEnded, FetchEnded, Overtaken, Over, Fetchers
<1>9. Current /\ Rivals
  BY <1>1, <1>2, <1>3, <1>4
     DEF Current, SaveStands, FetchesStand, SnapshotStands, LateStand, Rivals
<1>10. Ordered /\ Kept
  <2>1. PageTurns /\ FetchTurns
    BY <1>2, <1>3 DEF PageTurns, FetchTurns, Fetchers
  <2>2. DraftNewer /\ SaveKnown /\ ChainRises /\ StoredNewer /\ SnapshotExact /\ LateNewer
    BY <1>1, <1>2, <1>3, <1>4 DEF DraftNewer, SaveKnown, ChainRises, StoredNewer,
       SnapshotExact, LateNewer
  <2>3. Kept
    BY <1>2, <1>3 DEF Kept, Fetchers
  <2> QED BY <2>1, <2>2, <2>3 DEF Ordered, Known
<1> QED BY <1>5, <1>6, <1>7, <1>8, <1>9, <1>10 DEF Inv

(* Every step has one of the effects.                                      *)
PageEffect ==
  \/ EditEffect \/ TimeUpEffect \/ AutosaveEffect \/ SendSaveEffect \/ SaveAnsweredEffect
  \/ SaveFailedEffect \/ (page.view # 0 /\ SubmitEffect) \/ SubmitAnsweredEffect
  \/ SubmitFailedEffect \/ PollEffect
  \/ \E f \in Fetchers : FetchAnsweredEffect(f) \/ FetchFailedEffect(f)
ServerEffect ==
  \/ HandleSaveEffect \/ HandleSubmitEffect \/ WorkEffect
  \/ \E f \in Fetchers : ReadSessionEffect(f) \/ ReadQuestionsEffect(f)
MishapEffect == LoseCallEffect \/ ReloadEffect \/ StreamTellsEffect \/ LateRequestEffect

LEMMA NextEffects ==
  ASSUME Inv, Next
  PROVE  Types' /\ (PageEffect \/ ServerEffect \/ MishapEffect)
<1>1. Types /\ Blank /\ Chained /\ Versions
  BY DEF Inv
<1>2. CASE Edit
  BY <1>1, <1>2, EditFacts DEF PageEffect
<1>3. CASE TimeUp
  BY <1>1, <1>3, TimeUpFacts DEF PageEffect
<1>4. CASE Autosave
  BY <1>1, <1>4, AutosaveFacts DEF PageEffect
<1>5. CASE SendSave
  BY <1>1, <1>5, SendSaveFacts DEF PageEffect
<1>6. CASE SaveAnswered
  <2>1. chain # <<>>
    BY <1>1, <1>6 DEF Chained, Heads, SaveAnswered
  <2> QED BY <1>1, <1>6, <2>1, SaveAnsweredFacts DEF PageEffect
<1>7. CASE SaveFailed
  <2>1. chain # <<>>
    BY <1>1, <1>7 DEF Chained, Heads, SaveFailed
  <2> QED BY <1>1, <1>7, <2>1, SaveFailedFacts DEF PageEffect
<1>8. CASE PressSubmit \/ AutoSubmit
  <2>1. page.view # 0 /\ Submit
    BY <1>1, <1>8 DEF PressSubmit, AutoSubmit, Editable, Blank
  <2> QED BY <1>1, <2>1, SubmitFacts DEF PageEffect
<1>9. CASE SubmitAnswered
  BY <1>1, <1>9, SubmitAnsweredFacts DEF PageEffect
<1>10. CASE SubmitFailed
  BY <1>1, <1>10, SubmitFailedFacts DEF PageEffect
<1>11. CASE Poll
  BY <1>1, <1>11, PollFacts DEF PageEffect
<1>12. ASSUME NEW f \in Fetchers, FetchAnswered(f)
       PROVE  Types' /\ PageEffect
  <2>1. fetches[f].status # "none"
    BY <1>1, <1>12 DEF FetchAnswered, Versions, FetchVersions, Read
  <2>2. Types' /\ FetchAnsweredEffect(f)
    BY <1>1, <1>12, <2>1, FetchAnsweredFacts
  <2> QED BY <2>2 DEF PageEffect
<1>13. ASSUME NEW f \in Fetchers, FetchFailed(f)
       PROVE  Types' /\ PageEffect
  <2>1. Types' /\ FetchFailedEffect(f)
    BY <1>1, <1>13, FetchFailedFacts
  <2> QED BY <2>1 DEF PageEffect
<1>14. CASE HandleSave
  BY <1>1, <1>14, HandleSaveFacts DEF ServerEffect
<1>15. CASE HandleSubmit
  BY <1>1, <1>15, HandleSubmitFacts DEF ServerEffect
<1>16. CASE Work
  BY <1>1, <1>16, WorkFacts DEF ServerEffect
<1>17. ASSUME NEW f \in Fetchers, ReadSession(f)
       PROVE  Types' /\ ServerEffect
  <2>1. Types' /\ ReadSessionEffect(f)
    BY <1>1, <1>17, ReadSessionFacts
  <2> QED BY <2>1 DEF ServerEffect
<1>18. ASSUME NEW f \in Fetchers, ReadQuestions(f)
       PROVE  Types' /\ ServerEffect
  <2>1. Types' /\ ReadQuestionsEffect(f)
    BY <1>1, <1>18, ReadQuestionsFacts
  <2> QED BY <2>1 DEF ServerEffect
<1>19. CASE LoseCall
  BY <1>1, <1>19, LoseCallFacts DEF MishapEffect
<1>20. CASE Reload
  BY <1>1, <1>20, ReloadFacts DEF MishapEffect
<1>21. CASE StreamTells
  BY <1>1, <1>21, StreamTellsFacts DEF MishapEffect
<1>22. CASE LateRequest
  BY <1>1, <1>22, LateRequestFacts DEF MishapEffect
<1> QED
  BY <1>2, <1>3, <1>4, <1>5, <1>6, <1>7, <1>8, <1>9, <1>10, <1>11, <1>12, <1>13, <1>14,
     <1>15,
     <1>16, <1>17, <1>18, <1>19, <1>20, <1>21, <1>22 DEF Next, PageStep, ServerStep

LEMMA NextInv ==
  ASSUME Inv, Next
  PROVE  Inv'
<1>1. Types'
  BY NextEffects
<1>2. CASE PageEffect
  BY <1>1, <1>2, EditInv, TimeUpInv, AutosaveInv, SendSaveInv, SaveAnsweredInv,
     SaveFailedInv,
     SubmitInv, SubmitAnsweredInv, SubmitFailedInv, PollInv, FetchAnsweredInv, FetchFailedInv
     DEF PageEffect
<1>3. CASE ServerEffect
  BY <1>1, <1>3, HandleSaveInv, HandleSubmitInv, WorkInv, ReadSessionInv, ReadQuestionsInv
     DEF ServerEffect
<1>4. CASE MishapEffect
  BY <1>1, <1>4, LoseCallInv, ReloadInv, StreamTellsInv, LateRequestInv DEF MishapEffect
<1> QED BY <1>2, <1>3, <1>4, NextEffects

LEMMA StillInv == Inv /\ UNCHANGED vars => Inv'
<1> SUFFICES ASSUME Inv, UNCHANGED vars
             PROVE  Inv'
  OBVIOUS
<1>1. /\ server' = server /\ accepted' = accepted /\ page' = page /\ chain' = chain
      /\ save' = save /\ submit' = submit /\ fetches' = fetches /\ stored' = stored
      /\ late' = late /\ env' = env
  BY DEF vars
<1>2. Types' /\ Texts' /\ Versions' /\ Blank' /\ Chained' /\ Submitting'
  BY <1>1 DEF Inv, Types, Texts, PageTexts, ChainTexts, FetchTexts, LateTexts, Versions,
     PageVersions, FetchVersions, LateVersions, Read, Blank, Chained, Heads, Queue, Submitting
<1>3. Ended' /\ Current' /\ Rivals' /\ Overtaken'
  BY <1>1 DEF Inv, Ended, PageEnded, FetchEnded, Current, SaveStands, FetchesStand,
     SnapshotStands, LateStand, Open, Rivals, Rival, Fresh, Read, Overtaken, PageBehind, FetchBehind
<1>4. Ordered' /\ Kept'
  BY <1>1
     DEF Inv, Ordered, PageTurns, FetchTurns, Known, Open, DraftNewer, SaveKnown,
         ChainRises, StoredNewer, SnapshotExact, LateNewer, Kept, Read
<1> QED BY <1>2, <1>3, <1>4 DEF Inv

(* What the room says of itself is inductive.                              *)
THEOREM RoomInvariant == Spec => []Inv
<1>1. Inv /\ [Next]_vars => Inv'
  BY NextInv, StillInv
<1> QED BY InitInv, <1>1, PTL DEF Spec

(* TypeOK, for any bounds and any mishaps: what the tab, its calls and the *)
(* interview hold, and that the tab never knows a version of the future.   *)
THEOREM RoomTypes == Spec => []TypeOK
<1>1. Inv => TypeOK
  <2> SUFFICES ASSUME Inv
               PROVE  TypeOK
    OBVIOUS
  <2>1. Types /\ Versions /\ Chained /\ Submitting
    BY DEF Inv
  <2>2. /\ server.status \in Statuses /\ server.version \in Nat /\ server.answer \in Text
        /\ accepted \in Body /\ stored \in Body /\ page \in Page /\ save \in Call
        /\ submit.pc \in PcSet /\ \A f \in Fetchers : fetches[f] \in Call
    BY <2>1 DEF Types
  <2>3. page.snapshot \in Body /\ page.draft \in Text /\ page.timer \in {"running", "stopped", "up"}
    BY <2>2 DEF Page
  <2>4. \A b \in {accepted, stored, page.snapshot} : b.version \in Nat /\ b.answer \in Text
    BY <2>2, <2>3 DEF Body
  <2>5. /\ save.state \in {"none", "sent", "ok", "failed"}
        /\ (save.state # "none" => chain # <<>>)
    BY <2>1, <2>2 DEF Call, Chained, Heads
  <2>6. \A f \in Fetchers : fetches[f].state \in {"none", "sent", "reading", "ok", "failed"}
    BY <2>2 DEF Call
  <2>7. page.ver <= server.version /\ page.view <= server.version
        /\ (submit.pc # "idle" => page.submitting)
    BY <2>1 DEF Versions, PageVersions, Submitting
  <2> QED BY <2>2, <2>3, <2>4, <2>5, <2>6, <2>7 DEF TypeOK, Statuses, PcSet, Text
<1> QED BY RoomInvariant, <1>1, PTL

(* KeyNeverReused: the submit key outlives a reload and the snapshot of    *)
(* useInterviewRoom does not, yet no open page is told of its reuse.       *)
THEOREM KeyIsNeverReused == Spec => []KeyNeverReused
<1>1. Inv => KeyNeverReused
  BY DEF Inv, KeyNeverReused, Submitting, Overtaken, PageBehind
<1> QED BY RoomInvariant, <1>1, PTL

(* DraftKept: while calls are only lost, a page that can be edited shows   *)
(* what was typed last.                                                    *)
THEOREM DraftIsKept == Spec => []DraftKept
<1>1. Inv => DraftKept
  BY DEF Inv, DraftKept, Kept, Editable
<1> QED BY RoomInvariant, <1>1, PTL

(* Until the stream made the page fetch, a save that is accepted is not    *)
(* older than the answer it replaces, and a submission equals it.          *)
LEMMA ServerMoves ==
  ASSUME Inv, Next, "stream" \notin env.kinds
  PROVE  /\ server'.answer >= server.answer
         /\ accepted' # accepted => accepted'.answer = server.answer
<1>1. /\ server.answer \in Nat
      /\ Open => DraftNewer /\ SaveKnown /\ SnapshotExact /\ LateNewer
      /\ chain # <<>> => Head(chain) = chain[1] /\ 1 \in 1 .. Len(chain)
      /\ save.state # "none" => chain # <<>> /\ save.answer = Head(chain).answer
  <2>1. server.answer \in Nat
    BY TypesNumbers DEF Inv, Numbers, PageNumbers
  <2>2. Open => DraftNewer /\ SaveKnown /\ SnapshotExact /\ LateNewer
    BY DEF Inv, Ordered, Known
  <2>3. chain # <<>> => Head(chain) = chain[1] /\ 1 \in 1 .. Len(chain)
    BY HeadFacts DEF Inv
  <2>4. save.state # "none" => chain # <<>> /\ save.answer = Head(chain).answer
    BY DEF Inv, Chained, Heads
  <2> QED BY <2>1, <2>2, <2>3, <2>4
<1>2. CASE server' = server /\ accepted' = accepted
  BY <1>1, <1>2
<1>3. CASE PageEffect
  <2>1. server' = server /\ accepted' = accepted
    BY <1>3 DEF PageEffect, EditEffect, TimeUpEffect, AutosaveEffect, SendSaveEffect,
       SaveAnsweredEffect, SaveFailedEffect, SubmitEffect, SubmitAnsweredEffect,
       SubmitFailedEffect, PollEffect, FetchAnsweredEffect, FetchFailedEffect
  <2> QED BY <1>2, <2>1
<1>4. CASE HandleSaveEffect
  <2>1. accepted' = accepted
    BY <1>4 DEF HandleSaveEffect
  <2>2. CASE server' = server
    BY <1>2, <2>1, <2>2
  <2>3. CASE CanSave(save.version) /\ server'.answer = save.answer
    <3>1. Open /\ save.version = server.version /\ save.state = "sent"
      BY <1>4, <2>3 DEF CanSave, Open, HandleSaveEffect
    <3>2. page.ver = server.version
      BY <1>1, <3>1 DEF SaveKnown
    <3>3. chain[1].answer >= server.answer
      BY <1>1, <3>1, <3>2 DEF DraftNewer
    <3> QED BY <1>1, <2>1, <2>3, <3>1, <3>3
  <2> QED BY <1>4, <2>2, <2>3 DEF HandleSaveEffect
<1>5. CASE HandleSubmitEffect
  <2>1. CASE server' = server /\ accepted' = accepted
    BY <1>2, <2>1
  <2>2. CASE /\ CanSubmit(page.snapshot.version) /\ accepted' = page.snapshot
             /\ server'.answer = page.snapshot.answer
    <3>1. page.snapshot.answer = server.answer
      BY <1>1, <2>2 DEF CanSubmit, Open, SnapshotExact
    <3> QED BY <1>1, <2>2, <3>1
  <2> QED BY <1>5, <2>1, <2>2 DEF HandleSubmitEffect
<1>6. CASE WorkEffect
  BY <1>1, <1>6 DEF WorkEffect
<1>7. CASE \E f \in Fetchers : ReadSessionEffect(f) \/ ReadQuestionsEffect(f)
  BY <1>2, <1>7 DEF ReadSessionEffect, ReadQuestionsEffect
<1>8. CASE LoseCallEffect \/ ReloadEffect \/ StreamTellsEffect
  BY <1>2, <1>8 DEF LoseCallEffect, ReloadEffect, StreamTellsEffect
<1>9. CASE LateRequestEffect
  <2>1. PICK r \in late :
          \/ r.kind = "save" /\ CanSave(r.version) /\ accepted' = accepted
             /\ server'.answer = r.answer
          \/ r.kind = "submit" /\ CanSubmit(r.version)
             /\ accepted' = [version |-> r.version, answer |-> r.answer]
             /\ server'.answer = r.answer
          \/ server' = server /\ accepted' = accepted
    BY <1>9 DEF LateRequestEffect
  <2>2. CASE r.kind = "save" /\ CanSave(r.version) /\ accepted' = accepted
             /\ server'.answer = r.answer
    BY <1>1, <2>2 DEF CanSave, Open, LateNewer
  <2>3. CASE r.kind = "submit" /\ CanSubmit(r.version)
             /\ accepted' = [version |-> r.version, answer |-> r.answer]
             /\ server'.answer = r.answer
    <3>1. r.answer = server.answer
      BY <1>1, <2>3 DEF CanSubmit, Open, LateNewer
    <3> QED BY <1>1, <2>3, <3>1
  <2> QED BY <1>2, <2>1, <2>2, <2>3
<1> QED
  BY <1>3, <1>4, <1>5, <1>6, <1>7, <1>8, <1>9, NextEffects DEF ServerEffect, MishapEffect

(* OlderOnlyByStream: whatever is lost, late or sent by a page that is     *)
(* gone, the version guard keeps an older text from replacing a newer one. *)
THEOREM OlderIsByStream == Spec => OlderOnlyByStream
<1> DEFINE Newer == server'.answer < server.answer => "stream" \in env.kinds
<1>1. Inv /\ [Next]_vars => [Newer]_vars
  <2> SUFFICES ASSUME Inv, Next
               PROVE  Newer
    OBVIOUS
  <2>1. Inv'
    BY NextInv
  <2>2. server.answer \in Nat /\ server'.answer \in Nat
    BY <2>1, TypesNumbers, TypesNumbersNext DEF Inv, Numbers, PageNumbers
  <2> QED BY <2>2, ServerMoves
<1> QED BY RoomInvariant, <1>1, PTL DEF Spec, OlderOnlyByStream

(* SubmittedIsSaved: what is accepted is the draft the server holds.       *)
THEOREM SubmittedWasSaved == Spec => SubmittedIsSaved
<1> DEFINE Saved == accepted' # accepted /\ "stream" \notin env.kinds
                      => accepted'.answer = server.answer
<1>1. Inv /\ [Next]_vars => [Saved]_vars
  <2> SUFFICES ASSUME Inv, Next
               PROVE  Saved
    OBVIOUS
  <2> QED BY ServerMoves
<1> QED BY RoomInvariant, <1>1, PTL DEF Spec, SubmittedIsSaved
=============================================================================
