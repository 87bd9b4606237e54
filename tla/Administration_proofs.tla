------------------------ MODULE Administration_proofs ------------------------
(***************************************************************************)
(* Proofs about the calls of Administration, for any sets of accounts,     *)
(* items, codes and contents, any number of calls and any faults.          *)
(*                                                                         *)
(* Part 1: the shape of the calls.  Part 2: what the statements do to the  *)
(* versions of a prompt.  Part 3: what every step leaves of the calls.     *)
(* Part 4: the steps of an audited mutation.  Part 5: the documents and    *)
(* the log.  Part 6: the inductive invariant.  Part 7: the theorems.       *)
(***************************************************************************)
EXTENDS Administration, FiniteSetTheorems, SequenceTheorems, TLAPS

-----------------------------------------------------------------------------
(* Part 1. *)

Phases == {"new", "check", "mutate", "commit", "recheck", "next", "create", "find",
           "versions", "archive", "publish", "lookup", "record", "audit", "auditFailure",
           "done"}
Answers == {"ok", "replay", "error", "unavailable", "lost"}

(* A call after a step of its own, field by field.                         *)
Updated(k, old, pc, value, version, write, code) ==
  /\ k \in CallState
  /\ k.op = old.op /\ k.id = old.id /\ k.target = old.target /\ k.subject = old.subject
  /\ k.pc = pc /\ k.value = value /\ k.version = version
  /\ k.write = write /\ k.code = code

OnlyCall(c) == call' \in [Calls -> CallState] /\ \A d \in Calls : d # c => call'[d] = call[d]

LEMMA PhaseUpdate ==
  ASSUME NEW k \in CallState, NEW pc \in Phases
  PROVE  Updated([k EXCEPT !.pc = pc], k, pc, k.value, k.version, k.write, k.code)
<1> DEFINE q == [k EXCEPT !.pc = pc]
<1>1. q \in CallState
  BY DEF CallState, Phases
<1>2. /\ q.op = k.op /\ q.id = k.id /\ q.target = k.target /\ q.subject = k.subject
      /\ q.pc = pc /\ q.value = k.value /\ q.version = k.version /\ q.code = k.code
  BY DEF CallState
<1>3. q.write = k.write
  BY DEF CallState
<1> QED BY <1>1, <1>2, <1>3 DEF Updated

LEMMA VersionUpdate ==
  ASSUME NEW k \in CallState, NEW pc \in Phases, NEW version \in Nat
  PROVE  Updated([k EXCEPT !.pc = pc, !.version = version], k, pc, k.value, version, k.write, k.code)
<1> DEFINE q == [k EXCEPT !.pc = pc, !.version = version]
<1>1. q \in CallState
  BY DEF CallState, Phases
<1>2. /\ q.op = k.op /\ q.id = k.id /\ q.target = k.target /\ q.subject = k.subject
      /\ q.pc = pc /\ q.value = k.value /\ q.version = version /\ q.code = k.code
  BY DEF CallState
<1>3. q.write = k.write
  BY DEF CallState
<1> QED BY <1>1, <1>2, <1>3 DEF Updated

LEMMA ValueUpdate ==
  ASSUME NEW k \in CallState, NEW pc \in Phases, NEW value \in Codes \cup Contents \cup {None}
  PROVE  Updated([k EXCEPT !.pc = pc, !.value = value], k, pc, value, k.version, k.write, k.code)
<1> DEFINE q == [k EXCEPT !.pc = pc, !.value = value]
<1>1. q \in CallState
  BY DEF CallState, Phases
<1>2. /\ q.op = k.op /\ q.id = k.id /\ q.target = k.target /\ q.subject = k.subject
      /\ q.pc = pc /\ q.value = value /\ q.version = k.version /\ q.code = k.code
  BY DEF CallState
<1>3. q.write = k.write
  BY DEF CallState
<1> QED BY <1>1, <1>2, <1>3 DEF Updated

LEMMA WriteUpdate ==
  ASSUME NEW k \in CallState, NEW pc \in Phases, NEW write \in BOOLEAN
  PROVE  Updated([k EXCEPT !.pc = pc, !.write = write], k, pc, k.value, k.version, write, k.code)
<1> DEFINE q == [k EXCEPT !.pc = pc, !.write = write]
<1>1. q \in CallState
  BY DEF CallState, Phases
<1>2. /\ q.op = k.op /\ q.id = k.id /\ q.target = k.target /\ q.subject = k.subject
      /\ q.pc = pc /\ q.value = k.value /\ q.version = k.version /\ q.code = k.code
  BY DEF CallState
<1>3. q.write = write
  BY DEF CallState
<1> QED BY <1>1, <1>2, <1>3 DEF Updated

LEMMA CodeUpdate ==
  ASSUME NEW k \in CallState, NEW pc \in Phases, NEW code \in Answers
  PROVE  Updated([k EXCEPT !.pc = pc, !.code = code], k, pc, k.value, k.version, k.write, code)
<1> DEFINE q == [k EXCEPT !.pc = pc, !.code = code]
<1> DEFINE Fields(P, A) ==
      [pc : P, op : AllOps \cup {None}, id : 0 .. MaxCalls,
       target : Users \cup {Self} \cup Items \cup {None},
       value : Codes \cup Contents \cup {None},
       subject : Nat, version : Nat, write : BOOLEAN, code : A]
<1>0. \A P, A : (k \in Fields(P, A) /\ pc \in P /\ code \in A) => q \in Fields(P, A)
  OBVIOUS
<1>1. q \in CallState
  <2>1. CallState = Fields(Phases, Answers \cup {None})
    BY DEF CallState, Phases, Answers
  <2> HIDE DEF q, Fields
  <2> QED BY <1>0, <2>1
<1>2. /\ q.op = k.op /\ q.id = k.id /\ q.target = k.target /\ q.subject = k.subject
      /\ q.pc = pc /\ q.value = k.value /\ q.version = k.version /\ q.code = code
  BY DEF CallState
<1>3. q.write = k.write
  BY DEF CallState
<1> QED BY <1>1, <1>2, <1>3 DEF Updated

LEMMA GoUpdates ==
  ASSUME call \in [Calls -> CallState], NEW c \in Calls, NEW pc \in Phases, Go(c, pc)
  PROVE  /\ OnlyCall(c)
         /\ Updated(call'[c], call[c], pc, call[c].value, call[c].version, call[c].write,
                    call[c].code)
<1> DEFINE k == [call[c] EXCEPT !.pc = pc]
<1>1. Updated(k, call[c], pc, call[c].value, call[c].version, call[c].write, call[c].code)
  BY PhaseUpdate
<1>2. k \in CallState
  BY <1>1 DEF Updated
<1>3. call' = [call EXCEPT ![c] = k]
  BY DEF Go
<1> HIDE DEF k
<1> QED BY <1>1, <1>2, <1>3 DEF OnlyCall

LEMMA RespondUpdates ==
  ASSUME call \in [Calls -> CallState], NEW c \in Calls, NEW code \in Answers,
         Respond(c, code)
  PROVE  /\ OnlyCall(c)
         /\ Updated(call'[c], call[c], "done", call[c].value, call[c].version,
                    call[c].write, code)
<1> DEFINE k == [call[c] EXCEPT !.pc = "done", !.code = code]
<1>1. Updated(k, call[c], "done", call[c].value, call[c].version, call[c].write, code)
  BY CodeUpdate DEF Phases
<1>2. k \in CallState
  BY <1>1 DEF Updated
<1>3. call' = [call EXCEPT ![c] = k]
  BY DEF Respond
<1> HIDE DEF k
<1> QED BY <1>1, <1>2, <1>3 DEF OnlyCall

(* What is done by a call of an operation, with what, in which phase.      *)
CallShape(k) ==
  /\ k.pc \in {"check", "mutate", "commit", "recheck"} => k.op \in AuditedOps
  /\ k.op \in UserOps => k.target \in Users \cup {Self}
  /\ k.op = "UNLOCK_USER" => k.target \in Users
  /\ (k.op = "LOCK_USER" /\ k.pc = "commit") => k.target \in Users
  /\ k.op \in ItemOps => k.target \in Items
  /\ k.op \in {"CREATE", "UPDATE"} => k.value \in Codes
  /\ k.op = "CREATE_PROMPT_DRAFT" => k.value \in Contents
  /\ k.code # None => k.pc = "done"
  /\ k.pc = "new" => k.op = None

(* What a call on a prompt knows of its versions vs, in each phase: a      *)
(* rollback has found an earlier publication, and drafted its content.     *)
Earlier(subject, content, vs) ==
  \E v \in 1 .. subject - 1 : vs[v].publishedAt /\ vs[v].content = content
Switches == {"PUBLISH_PROMPT", "ROLLBACK_PROMPT"}

PromptShape(k, vs) ==
  /\ k.op \in Switches => k.subject \in 1 .. Len(vs)
  /\ k.pc \in {"find", "versions", "next", "create", "archive", "publish", "lookup", "record"} =>
       k.op \in PromptOps
  /\ k.pc = "versions" => k.op = "ROLLBACK_PROMPT"
  /\ k.pc \in {"next", "create"} => /\ k.op \in {"CREATE_PROMPT_DRAFT", "ROLLBACK_PROMPT"}
                                    /\ k.value \in Contents
  /\ k.pc = "create" => k.version \in 1 .. Len(vs) + 1
  /\ k.pc \in {"archive", "publish"} => k.op \in Switches /\ k.version \in 1 .. Len(vs)
  /\ (k.op \in Switches /\ k.pc = "audit") =>
       k.version \in 1 .. Len(vs) /\ vs[k.version].publishedAt
  /\ k.pc \in {"lookup", "record"} => k.op = "RECORD"
  /\ k.pc = "record" => k.version \in 1 .. Len(vs) /\ vs[k.version].publishedAt

Restored(k, vs) ==
  k.op = "ROLLBACK_PROMPT" =>
    /\ (k.pc \in {"next", "create", "archive", "publish", "audit"} \/ k.code = "ok") =>
         Earlier(k.subject, k.value, vs)
    /\ (k.pc \in {"archive", "publish", "audit"} \/ k.code = "ok") =>
         k.version \in 1 .. Len(vs) /\ vs[k.version].content = k.value
    /\ k.code = "ok" => vs[k.version].publishedAt

VersionsOK(vs) ==
  /\ vs \in Seq(PromptDoc)
  /\ \A v \in 1 .. Len(vs) : vs[v].publishedAt <=> vs[v].status # "DRAFT"
CallOK(k, vs) == CallShape(k) /\ PromptShape(k, vs) /\ Restored(k, vs)
CallsOK ==
  /\ VersionsOK(prompts) /\ call \in [Calls -> CallState]
  /\ \A c \in Calls : CallOK(call[c], prompts)

(* ws is what may become of vs.                                            *)
Later(vs, ws) ==
  /\ Len(ws) >= Len(vs)
  /\ \A v \in 1 .. Len(vs) :
       /\ ws[v].content = vs[v].content
       /\ vs[v].publishedAt => ws[v].publishedAt
       /\ \/ ws[v].status = vs[v].status
          \/ vs[v].status = "DRAFT" /\ ws[v].status = "PUBLISHED"
          \/ vs[v].status = "PUBLISHED" /\ ws[v].status = "ARCHIVED"

(* A call that did not move still knows what it knew.                      *)
LEMMA KnownLater ==
  ASSUME NEW vs, NEW ws, VersionsOK(vs), VersionsOK(ws), Later(vs, ws),
         NEW k \in CallState, CallOK(k, vs)
  PROVE  CallOK(k, ws)
<1>0. /\ Len(vs) \in Nat /\ Len(ws) \in Nat /\ Len(ws) >= Len(vs)
      /\ 1 .. Len(vs) \subseteq 1 .. Len(ws)
  <2>1. Len(vs) \in Nat /\ Len(ws) \in Nat /\ Len(ws) >= Len(vs)
    BY DEF VersionsOK, Later
  <2> QED BY <2>1
<1>1. \A v \in 1 .. Len(vs) : /\ ws[v].content = vs[v].content
                              /\ vs[v].publishedAt => ws[v].publishedAt
  BY DEF Later
<1>2. PromptShape(k, ws)
  BY <1>0, <1>1 DEF CallOK, PromptShape
<1>3. ASSUME k.op = "ROLLBACK_PROMPT", Earlier(k.subject, k.value, vs)
      PROVE  Earlier(k.subject, k.value, ws)
  <2>1. k.subject \in 1 .. Len(vs)
    BY <1>3 DEF CallOK, PromptShape, Switches
  <2>2. 1 .. k.subject - 1 \subseteq 1 .. Len(vs)
    BY <1>0, <2>1
  <2> QED BY <1>1, <1>3, <2>2 DEF Earlier
<1>4. Restored(k, ws)
  BY <1>0, <1>1, <1>3 DEF CallOK, Restored
<1> QED BY <1>2, <1>4 DEF CallOK

LEMMA LaterReflexive ==
  ASSUME NEW vs
  PROVE  Later(vs, vs)
<1>1. Len(vs) >= Len(vs)
  OBVIOUS
<1> QED BY <1>1 DEF Later

(* What one call's step has to show.                                       *)
LEMMA OneCallOK ==
  ASSUME CallsOK, NEW c \in Calls, OnlyCall(c), VersionsOK(prompts'), Later(prompts, prompts'),
         CallOK(call'[c], prompts')
  PROVE  CallsOK'
<1>1. ASSUME NEW d \in Calls, d # c
      PROVE  CallOK(call'[d], prompts')
  <2>1. call'[d] = call[d] /\ call[d] \in CallState /\ CallOK(call[d], prompts)
    BY <1>1 DEF OnlyCall, CallsOK
  <2> QED BY <2>1, KnownLater DEF CallsOK
<1> QED BY <1>1 DEF CallsOK, OnlyCall

-----------------------------------------------------------------------------
(* Part 2: what the statements do to the versions. *)

LEMMA DocUpdates ==
  \A d \in PromptDoc :
    LET archived == [d EXCEPT !.status = "ARCHIVED"]
        published == [d EXCEPT !.status = "PUBLISHED", !.publishedAt = TRUE]
    IN /\ archived \in PromptDoc /\ archived.status = "ARCHIVED"
       /\ archived.content = d.content /\ archived.publishedAt = d.publishedAt
       /\ published \in PromptDoc /\ published.status = "PUBLISHED"
       /\ published.content = d.content /\ published.publishedAt = TRUE
BY DEF PromptDoc

LEMMA ArchiveVersions ==
  ASSUME VersionsOK(prompts), ArchiveCurrentPublished
  PROVE  /\ VersionsOK(prompts') /\ Later(prompts, prompts') /\ Len(prompts') = Len(prompts)
         /\ \A v \in Versions : prompts'[v].status # "PUBLISHED"
<1>1. /\ Len(prompts) \in Nat /\ DOMAIN prompts = 1 .. Len(prompts)
      /\ \A v \in 1 .. Len(prompts) : prompts[v] \in PromptDoc
  BY DEF VersionsOK
<1>2. /\ DOMAIN prompts' = 1 .. Len(prompts)
      /\ \A v \in 1 .. Len(prompts) :
           prompts'[v] = IF prompts[v].status = "PUBLISHED"
                         THEN [prompts[v] EXCEPT !.status = "ARCHIVED"] ELSE prompts[v]
  BY DEF ArchiveCurrentPublished, Published, Versions
<1>3. \A v \in 1 .. Len(prompts) :
        /\ prompts'[v] \in PromptDoc /\ prompts'[v].content = prompts[v].content
        /\ prompts'[v].publishedAt = prompts[v].publishedAt
        /\ prompts'[v].status = IF prompts[v].status = "PUBLISHED" THEN "ARCHIVED"
                                ELSE prompts[v].status
  <2> TAKE v \in 1 .. Len(prompts)
  <2>1. prompts[v] \in PromptDoc
    BY <1>1
  <2>2. CASE prompts[v].status = "PUBLISHED"
    <3>1. prompts'[v] = [prompts[v] EXCEPT !.status = "ARCHIVED"]
      BY <1>2, <2>2
    <3> QED BY <2>1, <2>2, <3>1, DocUpdates
  <2>3. CASE prompts[v].status # "PUBLISHED"
    <3>1. prompts'[v] = prompts[v]
      BY <1>2, <2>3
    <3> QED BY <2>1, <2>3, <3>1
  <2> QED BY <2>2, <2>3
<1>4. prompts' \in [1 .. Len(prompts) -> PromptDoc]
  BY <1>2, <1>3 DEF ArchiveCurrentPublished, Versions
<1>5. prompts' \in Seq(PromptDoc)
  BY <1>1, <1>4, SeqDef
<1>6. Len(prompts') = Len(prompts)
  BY <1>1, <1>2, <1>5
<1>7. VersionsOK(prompts')
  BY <1>3, <1>5, <1>6 DEF VersionsOK
<1>8. Later(prompts, prompts')
  BY <1>1, <1>3, <1>6 DEF Later
<1> QED BY <1>3, <1>6, <1>7, <1>8 DEF Versions

LEMMA PublishVersions ==
  ASSUME VersionsOK(prompts), NEW version \in Versions, prompts[version].status = "DRAFT",
         SetPublished(version)
  PROVE  /\ VersionsOK(prompts') /\ Later(prompts, prompts') /\ Len(prompts') = Len(prompts)
         /\ prompts'[version].status = "PUBLISHED" /\ prompts'[version].publishedAt
         /\ \A v \in Versions \ {version} : prompts'[v] = prompts[v]
<1>1. /\ Len(prompts) \in Nat /\ version \in 1 .. Len(prompts)
      /\ \A v \in 1 .. Len(prompts) : prompts[v] \in PromptDoc
  BY DEF VersionsOK, Versions
<1> DEFINE doc == [prompts[version] EXCEPT !.status = "PUBLISHED", !.publishedAt = TRUE]
<1>2. /\ doc \in PromptDoc /\ doc.status = "PUBLISHED"
      /\ doc.content = prompts[version].content /\ doc.publishedAt = TRUE
  BY <1>1, DocUpdates
<1>3. prompts' = [prompts EXCEPT ![version] = doc]
  BY DEF SetPublished
<1> HIDE DEF doc
<1>4. /\ prompts' \in Seq(PromptDoc) /\ Len(prompts') = Len(prompts)
      /\ \A v \in 1 .. Len(prompts) : prompts'[v] = IF v = version THEN doc ELSE prompts[v]
  BY <1>1, <1>2, <1>3, ExceptSeq DEF VersionsOK
<1>5. VersionsOK(prompts')
  BY <1>2, <1>4 DEF VersionsOK
<1>6. Later(prompts, prompts')
  BY <1>1, <1>2, <1>4 DEF Later
<1> QED BY <1>1, <1>2, <1>4, <1>5, <1>6 DEF Versions

LEMMA DraftVersions ==
  ASSUME VersionsOK(prompts), NEW content \in Contents, prompts' = Draft(content)
  PROVE  /\ VersionsOK(prompts') /\ Later(prompts, prompts') /\ Len(prompts') = NextVersion
         /\ prompts'[NextVersion].content = content /\ prompts'[NextVersion].status = "DRAFT"
         /\ \A v \in Versions : prompts'[v] = prompts[v]
<1> DEFINE doc == Version(content, "DRAFT")
<1>1. /\ doc \in PromptDoc /\ doc.status = "DRAFT" /\ doc.content = content
      /\ doc.publishedAt = FALSE
  BY DEF PromptDoc, Version
<1>2. Len(prompts) \in Nat /\ prompts' = Append(prompts, doc)
  BY DEF VersionsOK, Draft
<1> HIDE DEF doc
<1>3. /\ prompts' \in Seq(PromptDoc) /\ Len(prompts') = Len(prompts) + 1
      /\ prompts'[Len(prompts) + 1] = doc
      /\ \A v \in 1 .. Len(prompts) : prompts'[v] = prompts[v]
  BY <1>1, <1>2 DEF VersionsOK
<1>4. VersionsOK(prompts')
  BY <1>1, <1>2, <1>3 DEF VersionsOK
<1>5. Later(prompts, prompts')
  BY <1>2, <1>3 DEF Later
<1> QED BY <1>1, <1>3, <1>4, <1>5 DEF NextVersion, Versions

LEMMA GoWithVersion ==
  ASSUME call \in [Calls -> CallState], NEW c \in Calls, NEW pc \in Phases, NEW version \in Nat,
         call' = [call EXCEPT ![c].pc = pc, ![c].version = version]
  PROVE  OnlyCall(c) /\ Updated(call'[c], call[c], pc, call[c].value, version, call[c].write, call[c].code)
<1> DEFINE k == [call[c] EXCEPT !.pc = pc, !.version = version]
<1>1. Updated(k, call[c], pc, call[c].value, version, call[c].write, call[c].code)
  BY VersionUpdate
<1>2. k \in CallState
  BY <1>1 DEF Updated
<1>3. call' = [call EXCEPT ![c] = k]
  OBVIOUS
<1> HIDE DEF k
<1> QED BY <1>1, <1>2, <1>3 DEF OnlyCall

LEMMA GoWithValue ==
  ASSUME call \in [Calls -> CallState], NEW c \in Calls, NEW pc \in Phases, NEW value \in Codes \cup Contents \cup {None},
         call' = [call EXCEPT ![c].pc = pc, ![c].value = value]
  PROVE  OnlyCall(c) /\ Updated(call'[c], call[c], pc, value, call[c].version, call[c].write, call[c].code)
<1> DEFINE k == [call[c] EXCEPT !.pc = pc, !.value = value]
<1>1. Updated(k, call[c], pc, value, call[c].version, call[c].write, call[c].code)
  BY ValueUpdate
<1>2. k \in CallState
  BY <1>1 DEF Updated
<1>3. call' = [call EXCEPT ![c] = k]
  OBVIOUS
<1> HIDE DEF k
<1> QED BY <1>1, <1>2, <1>3 DEF OnlyCall

LEMMA GoWithWrite ==
  ASSUME call \in [Calls -> CallState], NEW c \in Calls, NEW pc \in Phases, NEW write \in BOOLEAN,
         call' = [call EXCEPT ![c].pc = pc, ![c].write = write]
  PROVE  OnlyCall(c) /\ Updated(call'[c], call[c], pc, call[c].value, call[c].version, write, call[c].code)
<1> DEFINE k == [call[c] EXCEPT !.pc = pc, !.write = write]
<1>1. Updated(k, call[c], pc, call[c].value, call[c].version, write, call[c].code)
  BY WriteUpdate
<1>2. k \in CallState
  BY <1>1 DEF Updated
<1>3. call' = [call EXCEPT ![c] = k]
  OBVIOUS
<1> HIDE DEF k
<1> QED BY <1>1, <1>2, <1>3 DEF OnlyCall

-----------------------------------------------------------------------------
(* Part 3: what every step leaves of the calls. *)

LEMMA PageLeaves ==
  ASSUME PageStep \/ PageInput
  PROVE  UNCHANGED <<prompts, provenance, users, taxonomy, audit, desk, call, faults>>
BY DEF PageStep, PageInput, Debounce, AnswerArrives, AnswerFails, Acted, Filter, FilterStatus,
   TurnPage, Type, Back, Retry, Elsewhere2

(* A call that is sent.                                                    *)
Begun(k, op, id) ==
  /\ k \in CallState /\ CallOK(k, prompts)
  /\ k.op = op /\ k.id = id /\ k.code = None
  /\ k.pc \in {"check", "next", "find", "lookup"}

LEMMA SendBegins ==
  ASSUME CallsOK, desk \in Desks, NEW c \in Calls,
         NEW op \in OpsOf[desk], NEW target \in Targets(op), NEW value \in Values(op),
         NEW subject \in Subjects(op), Sent(c, op, target, value, subject)
  PROVE  OnlyCall(c) /\ Begun(call'[c], op, IF op \in AuditedOps THEN c ELSE 0)
<1> DEFINE id == IF op \in AuditedOps THEN c ELSE 0
           k == [NewCall EXCEPT !.pc = FirstStep(op), !.op = op, !.id = id,
                                !.target = target, !.value = value, !.subject = subject]
<1>1. op \in AllOps
  BY AdminAssumption DEF OpsOf, AllOps, AuditedOps
<1>2. id \in 0 .. MaxCalls
  BY AdminAssumption DEF Calls
<1>3. /\ target \in Users \cup {Self} \cup Items \cup {None}
      /\ op \in UserOps => target \in Users \cup {Self}
      /\ op = "UNLOCK_USER" => target \in Users
      /\ op \in ItemOps => target \in Items
  BY <1>1 DEF AllOps, AuditedOps, UserOps, ItemOps, PromptOps, Targets
<1>4. /\ value \in Codes \cup Contents \cup {None}
      /\ op \in {"CREATE", "UPDATE"} => value \in Codes
      /\ op = "CREATE_PROMPT_DRAFT" => value \in Contents
  BY DEF Values
<1>5. subject \in Nat /\ (op \in Switches => subject \in 1 .. Len(prompts))
  BY DEF Subjects, Switches, Versions
<1>6. /\ FirstStep(op) \in {"check", "next", "find", "lookup"} /\ FirstStep(op) \in Phases
      /\ FirstStep(op) = "check" => op \in AuditedOps
      /\ FirstStep(op) = "next" => op = "CREATE_PROMPT_DRAFT"
      /\ FirstStep(op) = "find" => op \in Switches
      /\ FirstStep(op) = "lookup" => op = "RECORD"
  BY <1>1 DEF FirstStep, AllOps, AuditedOps, UserOps, ItemOps, PromptOps, Switches, Phases
<1>8. call' = [call EXCEPT ![c] = k]
  BY DEF Sent
<1> HIDE DEF id
<1>7. /\ k \in CallState /\ k.pc = FirstStep(op) /\ k.op = op /\ k.id = id
      /\ k.target = target /\ k.value = value /\ k.subject = subject /\ k.code = None
  <2> DEFINE Fields(P, O, I, T, V, S, W, X, A) ==
        [pc : P, op : O, id : I, target : T, value : V, subject : S, version : W,
         write : X, code : A]
  <2>1. ASSUME NEW P, NEW O, NEW I, NEW T, NEW V, NEW S, NEW W, NEW X, NEW A,
               NewCall \in Fields(P, O, I, T, V, S, W, X, A), FirstStep(op) \in P, op \in O,
               id \in I, target \in T, value \in V, subject \in S
        PROVE  k \in Fields(P, O, I, T, V, S, W, X, A)
    BY <2>1
  <2>2. CallState = Fields(Phases, AllOps \cup {None}, 0 .. MaxCalls,
                           Users \cup {Self} \cup Items \cup {None},
                           Codes \cup Contents \cup {None}, Nat, Nat, BOOLEAN,
                           Answers \cup {None})
    BY DEF CallState, Phases, Answers
  <2>3. NewCall \in CallState
    BY AdminAssumption DEF CallState, NewCall
  <2>4. k \in CallState
    <3> HIDE DEF k, Fields
    <3> QED BY <1>1, <1>2, <1>3, <1>4, <1>5, <1>6, <2>1, <2>2, <2>3
  <2>5. /\ k.pc = FirstStep(op) /\ k.op = op /\ k.id = id /\ k.target = target
        /\ k.value = value /\ k.subject = subject /\ k.code = None
    BY DEF NewCall
  <2> QED BY <2>4, <2>5
<1> HIDE DEF k
<1>9. OnlyCall(c) /\ call'[c] = k
  BY <1>7, <1>8 DEF CallsOK, OnlyCall
<1>10. None # "ok"
  BY AdminAssumption
<1>11. CallShape(k)
  BY <1>3, <1>4, <1>6, <1>7 DEF CallShape
<1>12. PromptShape(k, prompts)
  BY <1>4, <1>5, <1>6, <1>7 DEF PromptShape, AuditedOps, UserOps, ItemOps, PromptOps, Switches
<1>13. Restored(k, prompts)
  BY <1>6, <1>7, <1>10 DEF Restored, AuditedOps, UserOps, ItemOps
<1> QED BY <1>6, <1>7, <1>9, <1>11, <1>12, <1>13 DEF Begun, CallOK, id

LEMMA ResendBegins ==
  ASSUME CallsOK, NEW c \in Calls, NEW d \in Calls, Resend(c, d)
  PROVE  /\ OnlyCall(c) /\ call[d].op \in AuditedOps
         /\ Begun(call'[c], call[d].op, call[d].id)
<1> DEFINE op == call[d].op
           id == call[d].id
           value == call[d].value
<1>1. /\ call[c].pc = "new" /\ op \in AuditedOps
      /\ \E target \in IF op = "CREATE" THEN Targets("CREATE") ELSE {call[d].target} :
           call' = [call EXCEPT ![c] =
             [NewCall EXCEPT !.pc = "check", !.op = op, !.id = id, !.target = target,
                             !.value = value]]
  BY DEF Resend, Unsent, At
<1>2. PICK target \in IF op = "CREATE" THEN Targets("CREATE") ELSE {call[d].target} :
           call' = [call EXCEPT ![c] =
             [NewCall EXCEPT !.pc = "check", !.op = op, !.id = id, !.target = target,
                             !.value = value]]
  BY <1>1
<1> DEFINE k == [NewCall EXCEPT !.pc = "check", !.op = op, !.id = id, !.target = target,
                                !.value = value]
<1>3. call[d] \in CallState /\ CallShape(call[d])
  BY DEF CallsOK, CallOK
<1>4. /\ op \in AllOps /\ id \in 0 .. MaxCalls /\ value \in Codes \cup Contents \cup {None}
      /\ call[d].target \in Users \cup {Self} \cup Items \cup {None}
  BY <1>1, <1>3 DEF CallState, AllOps
<1>5. /\ target \in Users \cup {Self} \cup Items \cup {None}
      /\ op \in UserOps => target \in Users \cup {Self}
      /\ op = "UNLOCK_USER" => target \in Users
      /\ op \in ItemOps => target \in Items
  <2>1. CASE op = "CREATE"
    <3>1. target \in Items
      BY <2>1 DEF Targets, PromptOps
    <3> QED BY <2>1, <3>1 DEF UserOps
  <2>2. CASE op # "CREATE"
    <3>1. target = call[d].target
      BY <2>2
    <3> QED BY <1>3, <1>4, <3>1 DEF CallShape
  <2> QED BY <2>1, <2>2
<1>6. op \in {"CREATE", "UPDATE"} => value \in Codes
  BY <1>3 DEF CallShape
<1>7. /\ k.pc = "check" /\ k.op = op /\ k.id = id /\ k.target = target
      /\ k.value = value /\ k.subject = 0 /\ k.code = None
  BY DEF NewCall
<1>8. k \in CallState
  <2> DEFINE Fields(P, O, I, T, V, S, W, X, A) ==
        [pc : P, op : O, id : I, target : T, value : V, subject : S, version : W,
         write : X, code : A]
  <2> HIDE DEF op, id, value
  <2>1. ASSUME NEW P, NEW O, NEW I, NEW T, NEW V, NEW S, NEW W, NEW X, NEW A,
               NewCall \in Fields(P, O, I, T, V, S, W, X, A), "check" \in P, op \in O,
               id \in I, target \in T, value \in V
        PROVE  k \in Fields(P, O, I, T, V, S, W, X, A)
    BY <2>1
  <2>2. CallState = Fields(Phases, AllOps \cup {None}, 0 .. MaxCalls,
                           Users \cup {Self} \cup Items \cup {None},
                           Codes \cup Contents \cup {None}, Nat, Nat, BOOLEAN,
                           Answers \cup {None})
    BY DEF CallState, Phases, Answers
  <2>3. NewCall \in CallState /\ "check" \in Phases
    BY AdminAssumption DEF CallState, NewCall, Phases
  <2> HIDE DEF k, Fields
  <2> QED BY <1>4, <1>5, <2>1, <2>2, <2>3
<1>9. OnlyCall(c) /\ call'[c] = k
  <2> HIDE DEF k
  <2>1. call' = [call EXCEPT ![c] = k]
    BY <1>2 DEF k
  <2> QED BY <1>8, <2>1 DEF CallsOK, OnlyCall
<1> HIDE DEF k, op, id, value
<1>10. None # "ok"
  BY AdminAssumption
<1>11. op \in UserOps \cup ItemOps /\ op \notin PromptOps
  BY <1>1 DEF op, AuditedOps, UserOps, ItemOps, PromptOps
<1>12. CallShape(k)
  BY <1>5, <1>6, <1>7, <1>11 DEF CallShape, UserOps, ItemOps, AuditedOps
<1>13. PromptShape(k, prompts) /\ Restored(k, prompts)
  BY <1>7, <1>10, <1>11 DEF PromptShape, Restored, UserOps, ItemOps, PromptOps, Switches
<1> QED BY <1>1, <1>7, <1>8, <1>9, <1>12, <1>13 DEF Begun, CallOK, op, id

LEMMA SendingOK ==
  ASSUME CallsOK, desk \in Desks, NEW c \in Calls,
         Send(c) \/ Press(c) \/ \E d \in Calls : Resend(c, d)
  PROVE  /\ UNCHANGED <<prompts, provenance, users, taxonomy, audit, desk>>
         /\ call[c].pc = "new" /\ OnlyCall(c)
         /\ \E op \in AllOps, id \in 0 .. MaxCalls : Begun(call'[c], op, id)
<1>1. ASSUME NEW op, NEW id, OnlyCall(c), Begun(call'[c], op, id), op # None
      PROVE  \E o \in AllOps, i \in 0 .. MaxCalls : Begun(call'[c], o, i)
  <2>1. op \in AllOps /\ id \in 0 .. MaxCalls
    BY <1>1 DEF Begun, CallState
  <2> QED BY <1>1, <2>1
<1>2. ASSUME NEW op \in OpsOf[desk], NEW target \in Targets(op), NEW value \in Values(op),
             NEW subject \in Subjects(op), Sent(c, op, target, value, subject)
      PROVE  OnlyCall(c) /\ \E o \in AllOps, i \in 0 .. MaxCalls : Begun(call'[c], o, i)
  <2>1. OnlyCall(c) /\ Begun(call'[c], op, IF op \in AuditedOps THEN c ELSE 0)
    BY <1>2, SendBegins
  <2>2. op # None
    BY AdminAssumption DEF OpsOf, AllOps, AuditedOps
  <2> QED BY <1>1, <2>1, <2>2
<1>3. CASE Send(c)
  BY <1>2, <1>3 DEF Send, Unsent, At
<1>4. CASE Press(c)
  BY <1>2, <1>4 DEF Press, Unsent, At
<1>5. CASE \E d \in Calls : Resend(c, d)
  <2> PICK d \in Calls : Resend(c, d)
    BY <1>5
  <2>1. /\ OnlyCall(c) /\ call[d].op \in AuditedOps
        /\ Begun(call'[c], call[d].op, call[d].id)
    BY ResendBegins
  <2>2. call[d].op # None
    BY <2>1, AdminAssumption DEF AllOps
  <2>3. PICK op : op = call[d].op
    OBVIOUS
  <2>4. PICK id : id = call[d].id
    OBVIOUS
  <2>5. \E o \in AllOps, i \in 0 .. MaxCalls : Begun(call'[c], o, i)
    BY <1>1, <2>1, <2>2, <2>3, <2>4
  <2> QED BY <2>1, <2>5 DEF Resend, Unsent, At
<1> QED BY <1>3, <1>4, <1>5

(* Each step of a call on a prompt.                                        *)
LEMMA Unanswered ==
  ASSUME NEW k, CallShape(k), k.pc # "done"
  PROVE  k.code = None /\ k.code # "ok"
BY AdminAssumption DEF CallShape
LEMMA ReadNextOK ==
  ASSUME CallsOK, NEW c \in Calls, ReadNext(c)
  PROVE  OnlyCall(c) /\ CallOK(call'[c], prompts) /\ call'[c].op = call[c].op /\ call'[c].pc = "create"
<1>1. /\ Len(prompts) \in Nat /\ call[c] \in CallState /\ CallOK(call[c], prompts)
      /\ call[c].pc = "next" /\ call[c].code # "ok"
  BY Unanswered DEF CallsOK, VersionsOK, ReadNext, At, CallOK
<1>2. /\ OnlyCall(c)
      /\ Updated(call'[c], call[c], "create", call[c].value, NextVersion, call[c].write,
                 call[c].code)
  <2>1. NextVersion \in Nat /\ "create" \in Phases
    BY <1>1 DEF NextVersion, Phases
  <2>2. call' = [call EXCEPT ![c].pc = "create", ![c].version = NextVersion]
    BY DEF ReadNext
  <2> QED BY <2>1, <2>2, GoWithVersion DEF CallsOK
<1>3. call[c].value \in Contents /\ NextVersion \in 1 .. Len(prompts) + 1
  BY <1>1 DEF CallOK, PromptShape, NextVersion
<1>4. PromptShape(call'[c], prompts)
  BY <1>1, <1>2, <1>3 DEF CallOK, PromptShape, Updated
<1>5. CallShape(call'[c]) /\ Restored(call'[c], prompts)
  BY <1>1, <1>2 DEF CallOK, CallShape, Restored, Updated
<1> QED BY <1>2, <1>4, <1>5 DEF CallOK, Updated

(* There is a newest version among some.                                   *)
LEMMA NewestIs ==
  ASSUME NEW n \in Nat, NEW S \in SUBSET (1 .. n), S # {}
  PROVE  Newest(S) \in S
<1> DEFINE T == {n - v : v \in S}
           R == OpToRel(<, Nat)
<1>0. \A v \in S : v \in Int /\ 1 <= v /\ v <= n /\ n - v \in Nat
  OBVIOUS
<1>1. T \subseteq Nat /\ T # {}
  BY <1>0
<1>2. IsWellFoundedOn(R, Nat)
  BY NatLessThanWellFounded
<1>3. \E x \in T : \A y \in T : ~ (<<y, x>> \in R)
  <2> HIDE DEF T, R
  <2> QED BY <1>1, <1>2, WFMin
<1>4. PICK x \in T : \A y \in T : <<y, x>> \notin R
  BY <1>3
<1>5. \A y \in T : ~ (y < x)
  BY <1>1, <1>4 DEF OpToRel
<1>6. PICK v \in S : x = n - v
  OBVIOUS
<1>7. ASSUME NEW w \in S
      PROVE  w <= v
  <2>1. ~ (n - w < n - v)
    BY <1>5, <1>6
  <2> QED BY <1>0, <2>1
<1> QED BY <1>7 DEF Newest

LEMMA CreateDraftOK ==
  ASSUME CallsOK, NEW c \in Calls, CreateDraft(c)
  PROVE  /\ OnlyCall(c) /\ CallOK(call'[c], prompts') /\ call'[c].op = call[c].op
         /\ VersionsOK(prompts') /\ Later(prompts, prompts') /\ Published' = Published
         /\ call'[c].pc \in {"archive", "audit", "auditFailure", "done"}
<1>1. /\ Len(prompts) \in Nat /\ call[c] \in CallState /\ CallOK(call[c], prompts)
      /\ VersionsOK(prompts) /\ call \in [Calls -> CallState]
      /\ call[c].pc = "create" /\ call[c].code # "ok"
  BY Unanswered DEF CallsOK, VersionsOK, CreateDraft, At, InPrompts, CallOK
<1>2. CASE ~ Free(call[c].version)
  <2>1. /\ prompts' = prompts
        /\ \/ Go(c, "auditFailure")
           \/ call[c].op # "ROLLBACK_PROMPT" /\ Respond(c, "error")
    BY <1>2 DEF CreateDraft
  <2>2. CASE Go(c, "auditFailure")
    <3>1. /\ OnlyCall(c)
          /\ Updated(call'[c], call[c], "auditFailure", call[c].value, call[c].version,
                     call[c].write, call[c].code)
      BY <1>1, <2>2, GoUpdates DEF Phases
    <3> QED BY <1>1, <2>1, <3>1, LaterReflexive
            DEF CallOK, CallShape, PromptShape, Restored, Updated, Published, Versions
  <2>3. CASE call[c].op # "ROLLBACK_PROMPT" /\ Respond(c, "error")
    <3>1. /\ OnlyCall(c)
          /\ Updated(call'[c], call[c], "done", call[c].value, call[c].version,
                     call[c].write, "error")
      BY <1>1, <2>3, RespondUpdates DEF Answers
    <3> QED BY <1>1, <2>1, <2>3, <3>1, LaterReflexive
            DEF CallOK, CallShape, PromptShape, Restored, Updated, Published, Versions
  <2> QED BY <2>1, <2>2, <2>3
<1>3. CASE Free(call[c].version)
  <2> DEFINE pc == IF call[c].op = "ROLLBACK_PROMPT" THEN "archive" ELSE "audit"
  <2>1. prompts' = Draft(call[c].value) /\ Go(c, pc)
    BY <1>3 DEF CreateDraft
  <2>2. /\ call[c].value \in Contents /\ call[c].version \in 1 .. Len(prompts) + 1
        /\ call[c].op \in {"CREATE_PROMPT_DRAFT", "ROLLBACK_PROMPT"}
    BY <1>1 DEF CallOK, PromptShape
  <2>3. PICK content \in Contents : content = call[c].value
    BY <2>2
  <2>4. /\ VersionsOK(prompts') /\ Later(prompts, prompts') /\ Len(prompts') = NextVersion
        /\ prompts'[NextVersion].content = content /\ prompts'[NextVersion].status = "DRAFT"
        /\ \A v \in Versions : prompts'[v] = prompts[v]
    BY <1>1, <2>1, <2>3, DraftVersions
  <2>5. /\ OnlyCall(c)
        /\ Updated(call'[c], call[c], pc, call[c].value, call[c].version,
                   call[c].write, call[c].code)
    BY <1>1, <2>1, GoUpdates DEF Phases
  <2>6. call[c].version = NextVersion
    BY <1>1, <1>3, <2>2 DEF Free, Versions, NextVersion
  <2>7. CallOK(call[c], prompts')
    BY <1>1, <2>4, KnownLater
  <2>8. CallOK(call'[c], prompts')
    BY <1>1, <2>2, <2>3, <2>4, <2>5, <2>6, <2>7
       DEF CallOK, CallShape, PromptShape, Restored, Updated, NextVersion, Switches
  <2>9. Published' = Published
    BY <1>1, <2>4 DEF Published, Versions, NextVersion
  <2> QED BY <2>4, <2>5, <2>8, <2>9 DEF Updated
<1> QED BY <1>2, <1>3

(* The steps that only read.                                               *)
LEMMA FindDraftOK ==
  ASSUME CallsOK, NEW c \in Calls, FindDraft(c)
  PROVE  /\ OnlyCall(c) /\ CallOK(call'[c], prompts) /\ call'[c].op = call[c].op /\ prompts' = prompts
         /\ call'[c].pc \in {"archive", "auditFailure", "done"}
         /\ call'[c].pc = "done" => Published # {}
<1>1. /\ Len(prompts) \in Nat /\ call[c] \in CallState /\ CallOK(call[c], prompts)
      /\ VersionsOK(prompts) /\ call \in [Calls -> CallState]
      /\ call[c].pc = "find" /\ call[c].code # "ok"
  BY Unanswered DEF CallsOK, VersionsOK, FindDraft, At, InPrompts, CallOK
<1>2. /\ call[c].op = "PUBLISH_PROMPT" /\ call[c].subject \in 1 .. Len(prompts)
      /\ prompts' = prompts
  BY <1>1 DEF FindDraft, InPrompts, CallOK, PromptShape, Switches
<1>3. CASE prompts[call[c].subject].status = "PUBLISHED" /\ Respond(c, "ok")
  <2>1. /\ OnlyCall(c)
        /\ Updated(call'[c], call[c], "done", call[c].value, call[c].version,
                   call[c].write, "ok")
    BY <1>1, <1>3, RespondUpdates DEF Answers
  <2>2. call[c].subject \in Published
    BY <1>2, <1>3 DEF Published, Versions
  <2> QED BY <1>1, <1>2, <2>1, <2>2 DEF CallOK, CallShape, PromptShape, Restored, Updated
<1>4. CASE Go(c, "auditFailure")
  <2>1. /\ OnlyCall(c)
        /\ Updated(call'[c], call[c], "auditFailure", call[c].value, call[c].version,
                   call[c].write, call[c].code)
    BY <1>1, <1>4, GoUpdates DEF Phases
  <2> QED BY <1>1, <1>2, <2>1 DEF CallOK, CallShape, PromptShape, Restored, Updated
<1>5. CASE call' = [call EXCEPT ![c].pc = "archive", ![c].version = call[c].subject]
  <2>1. /\ OnlyCall(c)
        /\ Updated(call'[c], call[c], "archive", call[c].value, call[c].subject,
                   call[c].write, call[c].code)
    <3>1. PICK version \in Nat : version = call[c].subject
      BY <1>1, <1>2
    <3>2. call' = [call EXCEPT ![c].pc = "archive", ![c].version = version]
      BY <1>5, <3>1
    <3>3. OnlyCall(c) /\ Updated(call'[c], call[c], "archive", call[c].value, version,
                                 call[c].write, call[c].code)
      BY <1>1, <3>2, GoWithVersion DEF Phases
    <3> QED BY <3>1, <3>3
  <2> QED BY <1>1, <1>2, <2>1 DEF CallOK, CallShape, PromptShape, Restored, Updated, Switches
<1> QED BY <1>3, <1>4, <1>5 DEF FindDraft

LEMMA FindTargetOK ==
  ASSUME CallsOK, NEW c \in Calls, FindTarget(c)
  PROVE  /\ OnlyCall(c) /\ CallOK(call'[c], prompts) /\ call'[c].op = call[c].op /\ prompts' = prompts
         /\ call'[c].pc \in {"versions", "auditFailure"}
<1>1. /\ Len(prompts) \in Nat /\ call[c] \in CallState /\ CallOK(call[c], prompts)
      /\ VersionsOK(prompts) /\ call \in [Calls -> CallState]
      /\ call[c].pc = "find" /\ call[c].code # "ok"
  BY Unanswered DEF CallsOK, VersionsOK, FindTarget, At, InPrompts, CallOK
<1>2. call[c].op = "ROLLBACK_PROMPT" /\ prompts' = prompts
  BY DEF FindTarget, InPrompts
<1>3. PICK pc \in {"versions", "auditFailure"} : Go(c, pc)
  BY DEF FindTarget
<1>4. /\ OnlyCall(c)
      /\ Updated(call'[c], call[c], pc, call[c].value, call[c].version,
                 call[c].write, call[c].code)
  BY <1>1, <1>3, GoUpdates DEF Phases
<1> QED BY <1>1, <1>2, <1>4 DEF CallOK, CallShape, PromptShape, Restored, Updated

LEMMA FindPreviousOK ==
  ASSUME CallsOK, NEW c \in Calls, FindPrevious(c)
  PROVE  /\ OnlyCall(c) /\ CallOK(call'[c], prompts) /\ call'[c].op = call[c].op /\ prompts' = prompts
         /\ call'[c].pc \in {"next", "auditFailure"}
<1>1. /\ Len(prompts) \in Nat /\ call[c] \in CallState /\ CallOK(call[c], prompts)
      /\ VersionsOK(prompts) /\ call \in [Calls -> CallState]
      /\ call[c].pc = "versions" /\ call[c].code # "ok"
  BY Unanswered DEF CallsOK, VersionsOK, FindPrevious, At, InPrompts, CallOK
<1> DEFINE previous == PreviousPublished(call[c].subject)
<1>2. /\ call[c].op = "ROLLBACK_PROMPT" /\ call[c].subject \in 1 .. Len(prompts)
      /\ prompts' = prompts
  BY <1>1 DEF FindPrevious, CallOK, PromptShape, Switches
<1>3. CASE previous = {}
  <2>1. /\ OnlyCall(c)
        /\ Updated(call'[c], call[c], "auditFailure", call[c].value, call[c].version,
                   call[c].write, call[c].code)
    BY <1>1, <1>3, GoUpdates DEF FindPrevious, Phases
  <2> QED BY <1>1, <1>2, <2>1 DEF CallOK, CallShape, PromptShape, Restored, Updated
<1>4. CASE previous # {}
  <2> DEFINE v == Newest(previous)
  <2>1. previous \in SUBSET (1 .. call[c].subject - 1) /\ call[c].subject - 1 \in Nat
    BY <1>2 DEF PreviousPublished
  <2>2. v \in previous
    BY <1>4, <2>1, NewestIs
  <2>3. /\ v \in 1 .. call[c].subject - 1 /\ v \in 1 .. Len(prompts)
        /\ prompts[v].publishedAt
    BY <1>1, <1>2, <2>2 DEF PreviousPublished
  <2> HIDE DEF v
  <2>4. prompts[v].content \in Contents
    <3>1. prompts[v] \in PromptDoc
      BY <1>1, <2>3 DEF VersionsOK
    <3> QED BY <3>1 DEF PromptDoc
  <2>5. call' = [call EXCEPT ![c].pc = "next", ![c].value = prompts[v].content]
    BY <1>4 DEF FindPrevious, v
  <2>6. /\ OnlyCall(c)
        /\ Updated(call'[c], call[c], "next", prompts[v].content, call[c].version,
                   call[c].write, call[c].code)
    BY <1>1, <2>4, <2>5, GoWithValue DEF Phases
  <2>7. Earlier(call[c].subject, prompts[v].content, prompts)
    BY <2>3 DEF Earlier
  <2>8. PromptShape(call'[c], prompts) /\ CallShape(call'[c])
    BY <1>1, <1>2, <2>4, <2>6
       DEF CallOK, CallShape, PromptShape, Updated, ItemOps, UserOps, AuditedOps
  <2>9. Restored(call'[c], prompts)
    BY <1>1, <1>2, <2>6, <2>7 DEF Restored, Updated
  <2> QED BY <1>2, <2>6, <2>8, <2>9 DEF CallOK, Updated
<1> QED BY <1>3, <1>4

LEMMA ArchiveOK ==
  ASSUME CallsOK, NEW c \in Calls, Archive(c)
  PROVE  /\ OnlyCall(c) /\ CallOK(call'[c], prompts') /\ call'[c].op = call[c].op
         /\ VersionsOK(prompts') /\ Later(prompts, prompts') /\ Published' = {}
         /\ call'[c].pc = "publish" /\ call'[c].op \in Switches
<1>1. /\ Len(prompts) \in Nat /\ call[c] \in CallState /\ CallOK(call[c], prompts)
      /\ VersionsOK(prompts) /\ call \in [Calls -> CallState]
      /\ call[c].pc = "archive" /\ call[c].code # "ok"
  BY Unanswered DEF CallsOK, VersionsOK, Archive, At, InPrompts, CallOK
<1>2. /\ VersionsOK(prompts') /\ Later(prompts, prompts') /\ Len(prompts') = Len(prompts)
      /\ \A v \in Versions : prompts'[v].status # "PUBLISHED"
  BY <1>1, ArchiveVersions DEF Archive
<1>3. /\ OnlyCall(c)
      /\ Updated(call'[c], call[c], "publish", call[c].value, call[c].version,
                 call[c].write, call[c].code)
  BY <1>1, GoUpdates DEF Archive, Phases
<1>4. CallOK(call[c], prompts')
  BY <1>1, <1>2, KnownLater
<1>5. CallOK(call'[c], prompts')
  BY <1>1, <1>3, <1>4 DEF CallOK, CallShape, PromptShape, Restored, Updated
<1>6. call[c].op \in Switches
  BY <1>1 DEF CallOK, PromptShape
<1> QED BY <1>2, <1>3, <1>5, <1>6 DEF Published, Versions, Updated

LEMMA PublishOK ==
  ASSUME CallsOK, NEW c \in Calls, Publish(c)
  PROVE  /\ OnlyCall(c) /\ CallOK(call'[c], prompts') /\ call'[c].op = call[c].op
         /\ VersionsOK(prompts') /\ Later(prompts, prompts')
         /\ call'[c].op \in Switches
         /\ \/ call'[c].pc = "audit" /\ Published = {} /\ Published' = {call[c].version}
            \/ call'[c].pc = "auditFailure" /\ Published' = Published
<1>1. /\ Len(prompts) \in Nat /\ call[c] \in CallState /\ CallOK(call[c], prompts)
      /\ VersionsOK(prompts) /\ call \in [Calls -> CallState]
      /\ call[c].pc = "publish" /\ call[c].code # "ok"
  BY Unanswered DEF CallsOK, VersionsOK, Publish, At, InPrompts, CallOK
<1>2. call[c].op \in Switches /\ call[c].version \in 1 .. Len(prompts)
  BY <1>1 DEF CallOK, PromptShape
<1>3. CASE Publishable(call[c].version) /\ SetPublished(call[c].version) /\ Go(c, "audit")
  <2>1. PICK version \in Versions : version = call[c].version
    BY <1>2 DEF Versions
  <2>2. /\ prompts[version].status = "DRAFT" /\ Published = {} /\ SetPublished(version)
    BY <1>3, <2>1 DEF Publishable
  <2>3. /\ VersionsOK(prompts') /\ Later(prompts, prompts') /\ Len(prompts') = Len(prompts)
        /\ prompts'[version].status = "PUBLISHED" /\ prompts'[version].publishedAt
        /\ \A v \in Versions \ {version} : prompts'[v] = prompts[v]
    BY <1>1, <2>2, PublishVersions
  <2>4. /\ OnlyCall(c)
        /\ Updated(call'[c], call[c], "audit", call[c].value, call[c].version,
                   call[c].write, call[c].code)
    BY <1>1, <1>3, GoUpdates DEF Phases
  <2>5. CallOK(call[c], prompts')
    BY <1>1, <2>3, KnownLater
  <2>6. CallOK(call'[c], prompts')
    BY <1>1, <1>2, <2>1, <2>3, <2>4, <2>5
       DEF CallOK, CallShape, PromptShape, Restored, Updated, Versions
  <2>7. Published' = {version}
    BY <2>2, <2>3 DEF Published, Versions
  <2> QED BY <1>2, <2>1, <2>2, <2>3, <2>4, <2>6, <2>7 DEF Updated
<1>4. CASE Go(c, "auditFailure") /\ UNCHANGED prompts
  <2>1. /\ OnlyCall(c)
        /\ Updated(call'[c], call[c], "auditFailure", call[c].value, call[c].version,
                   call[c].write, call[c].code)
    BY <1>1, <1>4, GoUpdates DEF Phases
  <2>2. CallOK(call'[c], prompts)
    BY <1>1, <1>2, <2>1 DEF CallOK, CallShape, PromptShape, Restored, Updated
  <2> QED BY <1>1, <1>2, <1>4, <2>1, <2>2, LaterReflexive DEF Published, Versions, Updated
<1> QED BY <1>3, <1>4 DEF Publish

LEMMA AuditOK ==
  ASSUME CallsOK, NEW c \in Calls, Audit(c)
  PROVE  /\ OnlyCall(c) /\ CallOK(call'[c], prompts) /\ call'[c].op = call[c].op /\ prompts' = prompts
         /\ call'[c].pc = "done" /\ call[c].pc = "audit" /\ call[c].op \in PromptOps
         /\ audit' = audit \cup {AuditRow(0, call[c].op, "SUCCESS", call[c].version)}
         /\ call[c].op \in Switches =>
              call[c].version \in Versions /\ prompts[call[c].version].publishedAt
<1>1. /\ Len(prompts) \in Nat /\ call[c] \in CallState /\ CallOK(call[c], prompts)
      /\ VersionsOK(prompts) /\ call \in [Calls -> CallState]
      /\ call[c].pc = "audit" /\ call[c].code # "ok"
  BY Unanswered DEF CallsOK, VersionsOK, Audit, At, InPrompts, CallOK
<1>2. /\ OnlyCall(c)
      /\ Updated(call'[c], call[c], "done", call[c].value, call[c].version,
                 call[c].write, "ok")
  BY <1>1, RespondUpdates DEF Audit, Answers
<1>3. call[c].op \in Switches =>
        call[c].version \in Versions /\ prompts[call[c].version].publishedAt
  BY <1>1 DEF CallOK, PromptShape, Versions
<1>4. Restored(call'[c], prompts)
  BY <1>1, <1>2, <1>3 DEF CallOK, Restored, Updated, Switches
<1>5. CallShape(call'[c]) /\ PromptShape(call'[c], prompts)
  BY <1>1, <1>2 DEF CallOK, CallShape, PromptShape, Updated
<1> QED BY <1>1, <1>2, <1>3, <1>4, <1>5 DEF CallOK, Updated, Audit, At

LEMMA AuditPromptFailureOK ==
  ASSUME CallsOK, NEW c \in Calls, AuditPromptFailure(c)
  PROVE  /\ OnlyCall(c) /\ CallOK(call'[c], prompts) /\ call'[c].op = call[c].op /\ prompts' = prompts
         /\ call'[c].pc = "done" /\ call'[c].code = "error" /\ call[c].op \in PromptOps
         /\ audit' = audit \cup {AuditRow(0, call[c].op, "FAILURE", call[c].subject)}
<1>1. /\ Len(prompts) \in Nat /\ call[c] \in CallState /\ CallOK(call[c], prompts)
      /\ VersionsOK(prompts) /\ call \in [Calls -> CallState]
      /\ call[c].pc = "auditFailure" /\ call[c].code # "ok"
  BY Unanswered DEF CallsOK, VersionsOK, AuditPromptFailure, At, InPrompts, CallOK
<1>2. /\ OnlyCall(c)
      /\ Updated(call'[c], call[c], "done", call[c].value, call[c].version,
                 call[c].write, "error")
  BY <1>1, RespondUpdates DEF AuditPromptFailure, Answers
<1>3. CallOK(call'[c], prompts)
  BY <1>1, <1>2 DEF CallOK, CallShape, PromptShape, Restored, Updated
<1> QED BY <1>2, <1>3 DEF Updated, AuditPromptFailure

LEMMA LookupOK ==
  ASSUME CallsOK, NEW c \in Calls, Lookup(c)
  PROVE  /\ OnlyCall(c) /\ CallOK(call'[c], prompts) /\ call'[c].op = call[c].op /\ prompts' = prompts
         /\ call'[c].op = "RECORD" /\ call'[c].pc \in {"record", "done"}
<1>1. /\ Len(prompts) \in Nat /\ call[c] \in CallState /\ CallOK(call[c], prompts)
      /\ VersionsOK(prompts) /\ call \in [Calls -> CallState]
      /\ call[c].pc = "lookup" /\ call[c].code # "ok"
  BY Unanswered DEF CallsOK, VersionsOK, Lookup, At, InPrompts, CallOK
<1>2. call[c].op = "RECORD" /\ prompts' = prompts
  BY <1>1 DEF CallOK, PromptShape, Lookup
<1>3. CASE Published = {}
  <2>1. /\ OnlyCall(c)
        /\ Updated(call'[c], call[c], "done", call[c].value, call[c].version,
                   call[c].write, "ok")
    BY <1>1, <1>3, RespondUpdates DEF Lookup, Answers
  <2> QED BY <1>1, <1>2, <2>1
          DEF CallOK, CallShape, PromptShape, Restored, Updated, Switches
<1>4. CASE Published # {}
  <2>1. Published \in SUBSET (1 .. Len(prompts))
    BY DEF Published, Versions
  <2>2. Newest(Published) \in Published
    BY <1>1, <1>4, <2>1, NewestIs
  <2>3. PICK version \in Published : version = Newest(Published)
    BY <2>2
  <2>4. /\ version \in 1 .. Len(prompts) /\ version \in Nat /\ prompts[version].publishedAt
    BY <1>1, <2>1 DEF Published, VersionsOK
  <2>5. /\ OnlyCall(c)
        /\ Updated(call'[c], call[c], "record", call[c].value, version,
                   call[c].write, call[c].code)
    BY <1>1, <1>4, <2>3, <2>4, GoWithVersion DEF Lookup, Phases
  <2> QED BY <1>1, <1>2, <2>4, <2>5
          DEF CallOK, CallShape, PromptShape, Restored, Updated, Switches
<1> QED BY <1>3, <1>4

LEMMA RecordOK ==
  ASSUME CallsOK, NEW c \in Calls, Record(c)
  PROVE  /\ OnlyCall(c) /\ CallOK(call'[c], prompts) /\ call'[c].op = call[c].op /\ prompts' = prompts
         /\ call'[c].op = "RECORD" /\ call'[c].pc = "done"
         /\ provenance' = call[c].version /\ call[c].version \in Versions
         /\ prompts[call[c].version].publishedAt
<1>1. /\ Len(prompts) \in Nat /\ call[c] \in CallState /\ CallOK(call[c], prompts)
      /\ VersionsOK(prompts) /\ call \in [Calls -> CallState]
      /\ call[c].pc = "record" /\ call[c].code # "ok"
  BY Unanswered DEF CallsOK, VersionsOK, Record, At, InPrompts, CallOK
<1>2. /\ call[c].op = "RECORD" /\ prompts' = prompts
      /\ call[c].version \in Versions /\ prompts[call[c].version].publishedAt
  BY <1>1 DEF CallOK, PromptShape, Record, Versions
<1>3. /\ OnlyCall(c)
      /\ Updated(call'[c], call[c], "done", call[c].value, call[c].version,
                 call[c].write, "ok")
  BY <1>1, RespondUpdates DEF Record, Answers
<1>4. CallOK(call'[c], prompts)
  BY <1>1, <1>2, <1>3 DEF CallOK, CallShape, PromptShape, Restored, Updated, Switches
<1> QED BY <1>2, <1>3, <1>4 DEF Updated, Record

LEMMA PromptStatementFailsOK ==
  ASSUME CallsOK, NEW c \in Calls, PromptStatementFails(c)
  PROVE  /\ OnlyCall(c) /\ CallOK(call'[c], prompts) /\ call'[c].op = call[c].op /\ prompts' = prompts
         /\ call[c].op \in PromptOps
         /\ \/ call'[c].pc = "auditFailure"
            \/ call'[c].pc = "done" /\ call'[c].code = "error"
<1>1. /\ call[c] \in CallState /\ CallOK(call[c], prompts) /\ call \in [Calls -> CallState]
      /\ call[c].pc # "done" /\ call[c].code # "ok" /\ call[c].op \in PromptOps
      /\ prompts' = prompts
  BY Unanswered DEF CallsOK, PromptStatementFails, CallOK, PromptOps
<1>2. CASE Go(c, "auditFailure")
  <2>1. /\ OnlyCall(c)
        /\ Updated(call'[c], call[c], "auditFailure", call[c].value, call[c].version,
                   call[c].write, call[c].code)
    BY <1>1, <1>2, GoUpdates DEF Phases
  <2> QED BY <1>1, <2>1 DEF CallOK, CallShape, PromptShape, Restored, Updated
<1>3. CASE Respond(c, "error")
  <2>1. /\ OnlyCall(c)
        /\ Updated(call'[c], call[c], "done", call[c].value, call[c].version,
                   call[c].write, "error")
    BY <1>1, <1>3, RespondUpdates DEF Answers
  <2> QED BY <1>1, <2>1 DEF CallOK, CallShape, PromptShape, Restored, Updated
<1> QED BY <1>2, <1>3 DEF PromptStatementFails

-----------------------------------------------------------------------------
(* Part 4: the steps of an audited mutation. *)

(* A call of an audited operation that moves on, or is answered.           *)
LEMMA MovesOn ==
  ASSUME CallsOK, NEW c \in Calls, call[c].op \in AuditedOps, call[c].pc # "done",
         NEW pc \in {"mutate", "recheck", "auditFailure"}, Go(c, pc)
  PROVE  /\ OnlyCall(c) /\ CallOK(call'[c], prompts) /\ call'[c].pc = pc
         /\ call'[c].op = call[c].op /\ call'[c].id = call[c].id
<1>1. /\ call[c] \in CallState /\ CallOK(call[c], prompts) /\ call \in [Calls -> CallState]
      /\ call[c].code # "ok"
  BY Unanswered DEF CallsOK, CallOK
<1>2. /\ OnlyCall(c)
      /\ Updated(call'[c], call[c], pc, call[c].value, call[c].version, call[c].write,
                 call[c].code)
  BY <1>1, GoUpdates DEF Phases
<1>3. CallShape(call'[c])
  BY <1>1, <1>2 DEF CallOK, CallShape, Updated
<1>4. PromptShape(call'[c], prompts) /\ Restored(call'[c], prompts)
  BY <1>1, <1>2 DEF CallOK, PromptShape, Restored, Updated, AuditedOps, UserOps, ItemOps,
     Switches
<1> QED BY <1>2, <1>3, <1>4 DEF CallOK, Updated

LEMMA IsAnswered ==
  ASSUME CallsOK, NEW c \in Calls, call[c].op \in AuditedOps, call[c].pc # "done",
         NEW code \in Answers, Respond(c, code)
  PROVE  /\ OnlyCall(c) /\ CallOK(call'[c], prompts)
         /\ call'[c].pc = "done" /\ call'[c].code = code
         /\ call'[c].op = call[c].op /\ call'[c].id = call[c].id
<1>1. /\ call[c] \in CallState /\ CallOK(call[c], prompts) /\ call \in [Calls -> CallState]
      /\ call[c].code # "ok"
  BY Unanswered DEF CallsOK, CallOK
<1>2. /\ OnlyCall(c)
      /\ Updated(call'[c], call[c], "done", call[c].value, call[c].version, call[c].write,
                 code)
  BY <1>1, RespondUpdates
<1>3. CallShape(call'[c])
  BY <1>1, <1>2 DEF CallOK, CallShape, Updated
<1>4. PromptShape(call'[c], prompts) /\ Restored(call'[c], prompts)
  BY <1>1, <1>2 DEF CallOK, PromptShape, Restored, Updated, AuditedOps, UserOps, ItemOps,
     Switches
<1> QED BY <1>2, <1>3, <1>4 DEF CallOK, Updated

LEMMA MutateOK ==
  ASSUME CallsOK, NEW c \in Calls, Mutate(c)
  PROVE  /\ OnlyCall(c) /\ CallOK(call'[c], prompts) /\ call'[c].pc \in {"recheck", "commit"}
         /\ call[c].op \in AuditedOps
<1>1. /\ call[c] \in CallState /\ CallOK(call[c], prompts) /\ call \in [Calls -> CallState]
      /\ call[c].code # "ok" /\ call[c].pc = "mutate" /\ call[c].op \in AuditedOps
  BY Unanswered DEF CallsOK, CallOK, CallShape, Mutate, At
<1>2. CASE Throws(c)
  BY <1>1, <1>2, MovesOn DEF Mutate
<1>3. CASE ~ Throws(c)
  <2>1. PICK write \in BOOLEAN : write = ~ AlreadySo(c)
    OBVIOUS
  <2>2. call' = [call EXCEPT ![c].pc = "commit", ![c].write = write]
    BY <1>3, <2>1 DEF Mutate
  <2>3. /\ OnlyCall(c)
        /\ Updated(call'[c], call[c], "commit", call[c].value, call[c].version, write,
                   call[c].code)
    BY <1>1, <2>2, GoWithWrite DEF Phases
  <2>4. call[c].op = "LOCK_USER" => call[c].target \in Users
    BY <1>1, <1>3 DEF Throws, CallOK, CallShape, UserOps
  <2>5. CallShape(call'[c])
    BY <1>1, <2>3, <2>4 DEF CallOK, CallShape, Updated
  <2>6. PromptShape(call'[c], prompts) /\ Restored(call'[c], prompts)
    BY <1>1, <2>3 DEF CallOK, PromptShape, Restored, Updated, AuditedOps, UserOps, ItemOps,
       Switches
  <2> QED BY <1>1, <2>3, <2>5, <2>6 DEF CallOK, Updated
<1> QED BY <1>2, <1>3

(* A commit moves its own call, and sends others back to their reads.      *)
Committed(k, old) ==
  /\ k.op = old.op /\ k.id = old.id /\ k.target = old.target
  /\ k.pc \in {"done", "recheck", "mutate"}
  /\ k.pc = "done" => k.code = "ok"

LEMMA CommitCalls ==
  ASSUME CallsOK, NEW c \in Calls, Commit(c)
  PROVE  /\ CallsOK' /\ prompts' = prompts /\ call[c].op \in AuditedOps
         /\ call'[c].pc \in {"done", "recheck"} /\ Committed(call'[c], call[c])
         /\ \A d \in Calls \ {c} :
              call'[d] = call[d] \/ (call[d].op \in AuditedOps /\ call'[d].pc = "mutate")
<1>1. /\ VersionsOK(prompts) /\ call \in [Calls -> CallState]
      /\ \A d \in Calls : call[d] \in CallState /\ CallOK(call[d], prompts)
      /\ call[c].pc = "commit" /\ prompts' = prompts
  BY DEF CallsOK, Commit, At, Elsewhere
<1>2. PICK again \in SUBSET Overlapping(c), told \in BOOLEAN :
        call' = [d \in Calls |->
          IF d = c /\ told THEN [call[d] EXCEPT !.pc = "done", !.code = "ok"]
          ELSE IF d = c THEN [call[d] EXCEPT !.pc = "recheck"]
          ELSE IF d \in again THEN [call[d] EXCEPT !.pc = "mutate"]
          ELSE call[d]]
  BY DEF Commit
<1>3. \A d \in Calls : call[d].pc = "commit" => call[d].op \in AuditedOps
  BY <1>1 DEF CallOK, CallShape
<1>4. \A d \in again : call[d].pc = "commit"
  BY DEF Overlapping, At
<1>5. ASSUME NEW d \in Calls, call[d].pc = "commit", NEW pc \in {"recheck", "mutate"},
             call'[d] = [call[d] EXCEPT !.pc = pc]
      PROVE  /\ call'[d] \in CallState /\ CallOK(call'[d], prompts)
             /\ call'[d].pc = pc /\ Committed(call'[d], call[d])
  <2>1. Updated(call'[d], call[d], pc, call[d].value, call[d].version, call[d].write,
                call[d].code)
    BY <1>1, <1>5, PhaseUpdate DEF Phases
  <2>2. call[d].op \in AuditedOps /\ call[d].code # "ok" /\ CallOK(call[d], prompts)
    BY <1>1, <1>3, <1>5, Unanswered DEF CallOK
  <2>3. CallShape(call'[d])
    BY <1>5, <2>1, <2>2 DEF CallOK, CallShape, Updated
  <2>4. PromptShape(call'[d], prompts) /\ Restored(call'[d], prompts)
    BY <1>5, <2>1, <2>2 DEF CallOK, PromptShape, Restored, Updated, AuditedOps, UserOps,
       ItemOps, Switches
  <2> QED BY <2>1, <2>3, <2>4 DEF CallOK, Updated, Committed
<1>6. ASSUME call'[c] = [call[c] EXCEPT !.pc = "done", !.code = "ok"]
      PROVE  /\ call'[c] \in CallState /\ CallOK(call'[c], prompts)
             /\ call'[c].pc = "done" /\ Committed(call'[c], call[c])
  <2>1. Updated(call'[c], call[c], "done", call[c].value, call[c].version, call[c].write,
                "ok")
    BY <1>1, <1>6, CodeUpdate DEF Phases, Answers
  <2>2. call[c].op \in AuditedOps /\ call[c].code # "ok" /\ CallOK(call[c], prompts)
    BY <1>1, <1>3, Unanswered DEF CallOK
  <2>3. CallShape(call'[c])
    BY <2>1, <2>2 DEF CallOK, CallShape, Updated
  <2>4. PromptShape(call'[c], prompts) /\ Restored(call'[c], prompts)
    BY <2>1, <2>2 DEF CallOK, PromptShape, Restored, Updated, AuditedOps, UserOps,
       ItemOps, Switches
  <2> QED BY <2>1, <2>3, <2>4 DEF CallOK, Updated, Committed
<1>7. /\ call'[c] \in CallState /\ CallOK(call'[c], prompts)
      /\ call'[c].pc \in {"done", "recheck"} /\ Committed(call'[c], call[c])
  <2>1. CASE told
    BY <1>2, <1>6, <2>1
  <2>2. CASE ~ told
    BY <1>1, <1>2, <1>5, <2>2
  <2> QED BY <2>1, <2>2
<1>8. ASSUME NEW d \in Calls \ {c}
      PROVE  /\ call'[d] \in CallState /\ CallOK(call'[d], prompts)
             /\ call'[d] = call[d] \/ (call[d].op \in AuditedOps /\ call'[d].pc = "mutate")
  <2>1. CASE d \in again
    BY <1>2, <1>3, <1>4, <1>5, <2>1
  <2>2. CASE d \notin again
    BY <1>1, <1>2, <2>2
  <2> QED BY <2>1, <2>2
<1>9. CallsOK'
  <2>1. \A d \in Calls : call'[d] \in CallState /\ CallOK(call'[d], prompts)
    BY <1>7, <1>8
  <2>2. call' \in [Calls -> CallState]
    BY <1>2, <2>1
  <2> QED BY <1>1, <2>1, <2>2 DEF CallsOK
<1> QED BY <1>1, <1>3, <1>7, <1>8, <1>9

-----------------------------------------------------------------------------
(* Part 5: the documents and the log. *)

Data ==
  /\ users \in [Users -> UserDoc] /\ taxonomy \in [Items -> ItemDoc \cup {None}]
  /\ desk \in Desks /\ IsFiniteSet(audit)
OneItemPerCode ==
  \A i \in Items, j \in Items :
    (taxonomy[i] # None /\ taxonomy[j] # None /\ taxonomy[i].code = taxonomy[j].code) => i = j

(* The log decides each request once, ...                                  *)
DecidedOnce ==
  \A r \in audit, s \in audit :
    (r.op \in AuditedOps /\ r.op = s.op /\ r.id = s.id) => r.outcome = s.outcome
(* ... each answer has its row, ...                                        *)
RowOf(k, outcomes, log) ==
  \E row \in log : row.id = k.id /\ row.op = k.op /\ row.outcome \in outcomes
AnswerOK(k, log) ==
  (k.op \in AuditedOps /\ k.pc = "done") =>
    /\ k.code = "ok" => RowOf(k, {"SUCCESS"}, log)
    /\ k.code = "error" => RowOf(k, {"FAILURE"}, log)
    /\ k.code = "replay" => \E row \in log : row.id = k.id /\ row.op = k.op
Answered == \A c \in Calls : AnswerOK(call[c], audit)
(* ... and what it says of publications took place.                        *)
PublicationsTrue ==
  /\ \A row \in audit : (row.op \in Switches /\ row.outcome = "SUCCESS") =>
       row.of \in Versions /\ prompts[row.of].publishedAt
  /\ provenance # 0 => provenance \in Versions /\ prompts[provenance].publishedAt

LEMMA AnswerKept ==
  ASSUME NEW k, NEW log, NEW more, log \subseteq more, AnswerOK(k, log)
  PROVE  AnswerOK(k, more)
BY DEF AnswerOK, RowOf

(* The write of a commit.                                                  *)
LEMMA CommitWrites ==
  ASSUME CallsOK, Data, OneItemPerCode, NEW c \in Calls, Commit(c)
  PROVE  users' \in [Users -> UserDoc] /\ taxonomy' \in [Items -> ItemDoc \cup {None}]
         /\ OneItemPerCode'
<1> DEFINE target == call[c].target
           value == call[c].value
           op == call[c].op
<1>1. /\ op \in AuditedOps /\ ~ Aborts(c) /\ Write(c)
      /\ op \in UserOps => target \in Users
      /\ op \in ItemOps => target \in Items
      /\ op \in {"CREATE", "UPDATE"} => value \in Codes
  BY DEF CallsOK, CallOK, CallShape, Commit, At, UserOps
<1>2. CASE op \in UserOps
  <2>1. taxonomy' = taxonomy
    BY <1>1, <1>2 DEF Write, UserOps, ItemOps
  <2>2. users[target] \in UserDoc
    BY <1>1, <1>2 DEF Data
  <2>3. /\ [status |-> "LOCKED", authVersion |-> users[target].authVersion + 1] \in UserDoc
        /\ [users[target] EXCEPT !.status = "ACTIVE"] \in UserDoc
    BY <2>2 DEF UserDoc
  <2>4. users' \in [Users -> UserDoc]
    BY <1>1, <1>2, <2>3 DEF Write, ChangedUsers, Data
  <2> QED BY <2>1, <2>4 DEF Data, OneItemPerCode
<1>3. CASE op \in ItemOps
  <2>1. users' = users /\ taxonomy' = [taxonomy EXCEPT ![target] = ChangedItem(c)]
    BY <1>1, <1>3 DEF Write, UserOps, ItemOps
  <2>2. /\ taxonomy[target] \in ItemDoc \cup {None}
        /\ op # "CREATE" => taxonomy[target] # None
        /\ op # "DELETE" => TakenBy(value) \subseteq {target}
    BY <1>1, <1>3 DEF Data, Aborts, RefusedByCode, ItemOps
  <2> DEFINE doc == ChangedItem(c)
  <2>3. /\ doc \in ItemDoc
        /\ op # "DELETE" => doc.code = value
        /\ op = "DELETE" => doc.code = taxonomy[target].code
    <3>1. CASE op = "CREATE"
      <4>1. doc = [code |-> value, status |-> "ACTIVE"]
        BY <3>1 DEF ChangedItem
      <4> QED BY <1>1, <3>1, <4>1 DEF ItemDoc
    <3>2. CASE op = "UPDATE"
      <4>1. doc = [taxonomy[target] EXCEPT !.code = value]
        BY <3>2 DEF ChangedItem
      <4> QED BY <1>1, <2>2, <3>2, <4>1 DEF ItemDoc
    <3>3. CASE op = "DELETE"
      <4>1. doc = [taxonomy[target] EXCEPT !.status = "INACTIVE"]
        BY <3>3 DEF ChangedItem
      <4> QED BY <1>1, <2>2, <3>3, <4>1 DEF ItemDoc
    <3> QED BY <1>3, <3>1, <3>2, <3>3 DEF ItemOps
  <2>4. taxonomy' = [taxonomy EXCEPT ![target] = doc]
    BY <2>1
  <2> HIDE DEF doc
  <2>5. /\ taxonomy' \in [Items -> ItemDoc \cup {None}]
        /\ \A i \in Items : taxonomy'[i] = IF i = target THEN doc ELSE taxonomy[i]
    BY <1>1, <1>3, <2>3, <2>4 DEF Data
  <2>6. ASSUME NEW i \in Items, taxonomy[i] # None, i # target
        PROVE  taxonomy[i].code # doc.code
    <3>1. CASE op # "DELETE"
      BY <2>2, <2>3, <2>6, <3>1 DEF TakenBy
    <3>2. CASE op = "DELETE"
      BY <1>1, <1>3, <2>2, <2>3, <2>6, <3>2 DEF OneItemPerCode
    <3> QED BY <3>1, <3>2
  <2>7. OneItemPerCode'
    <3> SUFFICES ASSUME NEW i \in Items, NEW j \in Items, taxonomy'[i] # None,
                        taxonomy'[j] # None, taxonomy'[i].code = taxonomy'[j].code
                 PROVE  i = j
      BY DEF OneItemPerCode
    <3>1. CASE i = target \/ j = target
      BY <2>5, <2>6, <3>1
    <3>2. CASE i # target /\ j # target
      BY <2>5, <3>2 DEF OneItemPerCode
    <3> QED BY <3>1, <3>2
  <2> QED BY <2>1, <2>5, <2>7 DEF Data
<1> QED BY <1>1, <1>2, <1>3 DEF AuditedOps

(* Locks and their rows.                                                   *)
LocksCounted ==
  \A u \in Users :
    /\ Cardinality(Rows("LOCK_USER", u)) \in Nat
    /\ users[u].authVersion <= Cardinality(Rows("LOCK_USER", u))
    /\ users[u].status = "LOCKED" => Rows("LOCK_USER", u) # {}

LEMMA MoreRows ==
  ASSUME Data, LocksCounted, users' = users, audit \subseteq audit', IsFiniteSet(audit')
  PROVE  LocksCounted'
<1> SUFFICES ASSUME NEW u \in Users
             PROVE  /\ Cardinality(Rows("LOCK_USER", u))' \in Nat
                    /\ users[u].authVersion <= Cardinality(Rows("LOCK_USER", u))'
                    /\ users[u].status = "LOCKED" => Rows("LOCK_USER", u)' # {}
  BY DEF LocksCounted
<1> DEFINE old == Rows("LOCK_USER", u)
           now == Rows("LOCK_USER", u)'
<1>1. now \in SUBSET audit' /\ old \in SUBSET now
  BY DEF Rows
<1>2. IsFiniteSet(now) /\ Cardinality(now) \in Nat
  BY <1>1, FS_Subset, FS_CardinalityType
<1>3. Cardinality(old) <= Cardinality(now)
  BY <1>1, <1>2, FS_Subset
<1>4. /\ Cardinality(old) \in Nat /\ users[u].authVersion <= Cardinality(old)
      /\ users[u].status = "LOCKED" => old # {}
  BY DEF LocksCounted
<1>5. users[u].authVersion \in Nat
  BY DEF Data, UserDoc
<1> HIDE DEF old, now
<1>6. users[u].authVersion <= Cardinality(now)
  BY <1>2, <1>3, <1>4, <1>5
<1>7. users[u].status = "LOCKED" => now # {}
  BY <1>1, <1>4
<1> QED BY <1>2, <1>6, <1>7 DEF now

LEMMA CommitCounts ==
  ASSUME CallsOK, Data, LocksCounted, NEW c \in Calls, Commit(c)
  PROVE  LocksCounted'
<1> DEFINE target == call[c].target
           row == AuditRow(call[c].id, call[c].op, "SUCCESS", target)
<1>1. /\ audit' = audit \cup {row} /\ row \notin audit /\ Write(c)
      /\ call[c].op \in UserOps => target \in Users
      /\ row.op = call[c].op /\ row.of = target /\ row.outcome = "SUCCESS"
  BY DEF CallsOK, CallOK, CallShape, Commit, At, Aborts, HasAudit, AuditRow, UserOps
<1>2. IsFiniteSet(audit')
  BY <1>1, FS_AddElement DEF Data
<1>3. CASE users' = users
  BY <1>1, <1>2, <1>3, MoreRows
<1>4. CASE users' # users
  <2>1. /\ call[c].op \in UserOps /\ target \in Users
        /\ users' = ChangedUsers(c)
    BY <1>1, <1>4 DEF Write
  <2>2. /\ \A u \in Users \ {target} : users'[u] = users[u]
        /\ call[c].op = "LOCK_USER" =>
             users'[target].authVersion = users[target].authVersion + 1
        /\ call[c].op # "LOCK_USER" =>
             /\ users'[target].authVersion = users[target].authVersion
             /\ users'[target].status = "ACTIVE"
    <3>1. users[target] \in UserDoc
      BY <2>1 DEF Data
    <3>2. /\ [users[target] EXCEPT !.status = "ACTIVE"].authVersion = users[target].authVersion
          /\ [users[target] EXCEPT !.status = "ACTIVE"].status = "ACTIVE"
      BY <3>1 DEF UserDoc
    <3> QED BY <2>1, <3>2 DEF ChangedUsers, Data
  <2> HIDE DEF row, target
  <2> SUFFICES ASSUME NEW u \in Users
               PROVE  /\ Cardinality(Rows("LOCK_USER", u))' \in Nat
                      /\ users'[u].authVersion <= Cardinality(Rows("LOCK_USER", u))'
                      /\ users'[u].status = "LOCKED" => Rows("LOCK_USER", u)' # {}
    BY DEF LocksCounted
  <2> DEFINE old == Rows("LOCK_USER", u)
             now == Rows("LOCK_USER", u)'
  <2>3. /\ old \in SUBSET audit /\ old \in SUBSET now /\ now \in SUBSET audit'
        /\ (call[c].op = "LOCK_USER" /\ u = target) => now = old \cup {row} /\ row \notin old
    BY <1>1 DEF Rows
  <2>4. /\ IsFiniteSet(old) /\ IsFiniteSet(now) /\ Cardinality(now) \in Nat
        /\ Cardinality(old) <= Cardinality(now)
    BY <1>2, <2>3, FS_Subset, FS_CardinalityType DEF Data
  <2>5. (call[c].op = "LOCK_USER" /\ u = target) => Cardinality(now) = Cardinality(old) + 1
    BY <2>3, <2>4, FS_AddElement
  <2>6. /\ Cardinality(old) \in Nat /\ users[u].authVersion <= Cardinality(old)
        /\ users[u].status = "LOCKED" => old # {}
        /\ users[u].authVersion \in Nat
    BY DEF LocksCounted, Data, UserDoc
  <2> HIDE DEF old, now
  <2>7. users'[u].authVersion <= Cardinality(now)
    BY <2>2, <2>4, <2>5, <2>6
  <2>8. users'[u].status = "LOCKED" => now # {}
    BY <2>2, <2>3, <2>6
  <2> QED BY <2>4, <2>7, <2>8 DEF now
<1> QED BY <1>3, <1>4

-----------------------------------------------------------------------------
(* Part 6: the inductive invariant. *)

PublishedOnce == \A v \in Published, w \in Published : v = w
(* A call that may leave the prompt without a published version.           *)
Pending(k) ==
  /\ k.op \in Switches
  /\ k.pc \in {"publish", "auditFailure"} \/ (k.pc = "done" /\ k.code # "ok")
SomePublished == Published # {} \/ \E c \in Calls : Pending(call[c])

Documents == Data /\ OneItemPerCode /\ LocksCounted
Log == DecidedOnce /\ Answered /\ PublicationsTrue
IInv == CallsOK /\ Documents /\ Log /\ PublishedOnce /\ SomePublished

LEMMA AnsweredAfter ==
  ASSUME Answered, audit \subseteq audit', NEW c \in Calls, OnlyCall(c),
         AnswerOK(call'[c], audit')
  PROVE  Answered'
<1>1. ASSUME NEW d \in Calls, d # c
      PROVE  AnswerOK(call'[d], audit')
  <2>1. call'[d] = call[d] /\ AnswerOK(call[d], audit)
    BY <1>1 DEF OnlyCall, Answered
  <2> QED BY <2>1, AnswerKept
<1> QED BY <1>1 DEF Answered

LEMMA PublicationsLater ==
  ASSUME PublicationsTrue, CallsOK, VersionsOK(prompts'), Later(prompts, prompts'),
         UNCHANGED <<provenance, audit>>
  PROVE  PublicationsTrue'
<1>1. /\ Len(prompts) \in Nat /\ Len(prompts') \in Nat /\ Len(prompts') >= Len(prompts)
      /\ \A v \in Versions : prompts[v].publishedAt => prompts'[v].publishedAt
  BY DEF CallsOK, VersionsOK, Later, Versions
<1>2. Versions \subseteq Versions'
  BY <1>1 DEF Versions
<1> QED BY <1>1, <1>2 DEF PublicationsTrue

LEMMA SamePrompts ==
  ASSUME prompts' = prompts
  PROVE  Versions' = Versions /\ Published' = Published /\ Later(prompts, prompts')
BY LaterReflexive DEF Versions, Published

(* Nothing but calls changes.                                              *)
LEMMA Quiet ==
  ASSUME IInv, UNCHANGED <<prompts, provenance, users, taxonomy, audit, desk>>,
         NEW c \in Calls, OnlyCall(c), CallOK(call'[c], prompts),
         AnswerOK(call'[c], audit), Pending(call[c]) => Pending(call'[c])
  PROVE  IInv'
<1>1. CallsOK'
  BY OneCallOK, SamePrompts DEF IInv, CallsOK
<1>2. Documents'
  BY DEF IInv, Documents, Data, OneItemPerCode, LocksCounted, Rows
<1>3. Log'
  <2>1. Answered'
    BY AnsweredAfter DEF IInv, Log
  <2> QED BY <2>1, SamePrompts DEF IInv, Log, DecidedOnce, PublicationsTrue
<1>4. PublishedOnce'
  BY SamePrompts DEF IInv, PublishedOnce
<1>5. SomePublished'
  BY SamePrompts DEF IInv, SomePublished, OnlyCall
<1> QED BY <1>1, <1>2, <1>3, <1>4, <1>5 DEF IInv

(* A row is written for a call.                                            *)
LEMMA RowWritten ==
  ASSUME IInv, UNCHANGED <<prompts, provenance, users, taxonomy, desk>>,
         NEW c \in Calls, OnlyCall(c), CallOK(call'[c], prompts),
         NEW row, audit' = audit \cup {row},
         row.op \in AuditedOps => ~ \E r \in audit : r.id = row.id /\ r.op = row.op,
         (row.op \in Switches /\ row.outcome = "SUCCESS") =>
           row.of \in Versions /\ prompts[row.of].publishedAt,
         AnswerOK(call'[c], audit'), Pending(call[c]) => Pending(call'[c])
  PROVE  IInv'
<1>1. CallsOK'
  BY OneCallOK, SamePrompts DEF IInv, CallsOK
<1>2. Documents'
  <2>1. IsFiniteSet(audit') /\ audit \subseteq audit'
    BY FS_AddElement DEF IInv, Documents, Data
  <2>2. LocksCounted'
    BY <2>1, MoreRows DEF IInv, Documents
  <2> QED BY <2>1, <2>2 DEF IInv, Documents, Data, OneItemPerCode
<1>3. Log'
  <2>1. Answered'
    BY AnsweredAfter DEF IInv, Log
  <2>2. DecidedOnce'
    BY DEF IInv, Log, DecidedOnce
  <2>3. PublicationsTrue'
    BY SamePrompts DEF IInv, Log, PublicationsTrue
  <2> QED BY <2>1, <2>2, <2>3 DEF Log
<1>4. PublishedOnce'
  BY SamePrompts DEF IInv, PublishedOnce
<1>5. SomePublished'
  BY SamePrompts DEF IInv, SomePublished, OnlyCall
<1> QED BY <1>1, <1>2, <1>3, <1>4, <1>5 DEF IInv

(* The versions change.                                                    *)
LEMMA VersionsChange ==
  ASSUME IInv, UNCHANGED <<provenance, users, taxonomy, audit, desk>>,
         NEW c \in Calls, OnlyCall(c), CallOK(call'[c], prompts'),
         VersionsOK(prompts'), Later(prompts, prompts'), AnswerOK(call'[c], audit),
         PublishedOnce', SomePublished'
  PROVE  IInv'
<1>1. CallsOK'
  BY OneCallOK DEF IInv
<1>2. Documents'
  BY DEF IInv, Documents, Data, OneItemPerCode, LocksCounted, Rows
<1>3. Log'
  <2>1. Answered'
    BY AnsweredAfter DEF IInv, Log
  <2>2. PublicationsTrue'
    BY PublicationsLater DEF IInv, Log
  <2> QED BY <2>1, <2>2 DEF IInv, Log, DecidedOnce
<1> QED BY <1>1, <1>2, <1>3 DEF IInv

LEMMA NotAudited ==
  ASSUME NEW k, NEW log, k.op \in PromptOps
  PROVE  AnswerOK(k, log)
BY DEF AnswerOK, AuditedOps, UserOps, ItemOps, PromptOps

LEMMA PromptStepInv ==
  ASSUME IInv, NEW c \in Calls, PromptStep(c) \/ PromptStatementFails(c)
  PROVE  IInv'
<1>0. /\ CallsOK /\ call[c] \in CallState /\ CallOK(call[c], prompts)
      /\ \A k \in CallState : k.pc \notin {"publish", "auditFailure", "done"} => ~ Pending(k)
  BY DEF IInv, CallsOK, Pending
<1>1. ASSUME ReadNext(c) \/ FindDraft(c) \/ FindTarget(c) \/ FindPrevious(c) \/ Lookup(c)
      PROVE  IInv'
  <2>1. /\ OnlyCall(c) /\ CallOK(call'[c], prompts) /\ call'[c].op = call[c].op
        /\ UNCHANGED <<prompts, provenance, users, taxonomy, audit, desk>>
    BY <1>0, <1>1, ReadNextOK, FindDraftOK, FindTargetOK, FindPreviousOK, LookupOK
       DEF ReadNext, FindDraft, FindTarget, FindPrevious, Lookup, OtherData
  <2>2. call[c].pc \in {"next", "find", "versions", "lookup"}
    BY <1>1 DEF ReadNext, FindDraft, FindTarget, FindPrevious, Lookup, At, InPrompts
  <2>3. call[c].op \in PromptOps
    BY <1>0, <2>2 DEF CallOK, PromptShape
  <2> QED BY <1>0, <2>1, <2>2, <2>3, NotAudited, Quiet
<1>2. ASSUME Record(c)
      PROVE  IInv'
  <2>1. /\ OnlyCall(c) /\ CallOK(call'[c], prompts) /\ prompts' = prompts
        /\ call'[c].op = "RECORD" /\ call'[c].op = call[c].op
        /\ provenance' = call[c].version
        /\ call[c].version \in Versions /\ prompts[call[c].version].publishedAt
        /\ UNCHANGED <<users, taxonomy, audit, desk>>
    BY <1>0, <1>2, RecordOK DEF Record
  <2>2. CallsOK'
    BY <1>0, <2>1, OneCallOK, SamePrompts DEF CallsOK
  <2>3. Documents'
    BY <2>1 DEF IInv, Documents, Data, OneItemPerCode, LocksCounted, Rows
  <2>4. AnswerOK(call'[c], audit)
    BY <2>1, NotAudited DEF PromptOps
  <2>5. Log'
    <3>1. Answered'
      BY <2>1, <2>4, AnsweredAfter DEF IInv, Log
    <3>2. PublicationsTrue'
      BY <2>1, SamePrompts DEF IInv, Log, PublicationsTrue
    <3> QED BY <2>1, <3>1, <3>2 DEF IInv, Log, DecidedOnce
  <2>6. SomePublished'
    BY <2>1, SamePrompts DEF IInv, SomePublished, OnlyCall, Pending, Switches
  <2> QED BY <2>1, <2>2, <2>3, <2>5, <2>6, SamePrompts DEF IInv, PublishedOnce
<1>3. ASSUME CreateDraft(c)
      PROVE  IInv'
  <2>1. /\ OnlyCall(c) /\ CallOK(call'[c], prompts') /\ call'[c].op = call[c].op
        /\ VersionsOK(prompts') /\ Later(prompts, prompts') /\ Published' = Published
        /\ UNCHANGED <<provenance, users, taxonomy, audit, desk>> /\ call[c].pc = "create"
    BY <1>0, <1>3, CreateDraftOK DEF CreateDraft, OtherData, At
  <2>2. call[c].op \in PromptOps
    BY <1>0, <2>1 DEF CallOK, PromptShape
  <2>3. AnswerOK(call'[c], audit)
    BY <2>1, <2>2, NotAudited
  <2>4. PublishedOnce' /\ SomePublished'
    BY <1>0, <2>1 DEF IInv, PublishedOnce, SomePublished, OnlyCall
  <2> QED BY <2>1, <2>3, <2>4, VersionsChange
<1>4. ASSUME Archive(c)
      PROVE  IInv'
  <2>1. /\ OnlyCall(c) /\ CallOK(call'[c], prompts') /\ call'[c].op \in Switches
        /\ VersionsOK(prompts') /\ Later(prompts, prompts') /\ Published' = {}
        /\ UNCHANGED <<provenance, users, taxonomy, audit, desk>> /\ call'[c].pc = "publish"
    BY <1>0, <1>4, ArchiveOK DEF Archive, OtherData
  <2>2. AnswerOK(call'[c], audit)
    BY <2>1, NotAudited DEF Switches, PromptOps
  <2>3. PublishedOnce' /\ SomePublished'
    BY <2>1 DEF PublishedOnce, SomePublished, Pending
  <2> QED BY <2>1, <2>2, <2>3, VersionsChange
<1>5. ASSUME Publish(c)
      PROVE  IInv'
  <2>1. /\ OnlyCall(c) /\ CallOK(call'[c], prompts') /\ call'[c].op \in Switches
        /\ VersionsOK(prompts') /\ Later(prompts, prompts')
        /\ UNCHANGED <<provenance, users, taxonomy, audit, desk>>
        /\ \/ call'[c].pc = "audit" /\ Published = {} /\ Published' = {call[c].version}
           \/ call'[c].pc = "auditFailure" /\ Published' = Published
    BY <1>0, <1>5, PublishOK DEF Publish, OtherData
  <2>2. AnswerOK(call'[c], audit)
    BY <2>1, NotAudited DEF Switches, PromptOps
  <2>3. PublishedOnce'
    BY <2>1 DEF IInv, PublishedOnce
  <2>4. SomePublished'
    BY <2>1 DEF IInv, SomePublished, Pending, OnlyCall
  <2> QED BY <2>1, <2>2, <2>3, <2>4, VersionsChange
<1>6. ASSUME Audit(c)
      PROVE  IInv'
  <2> DEFINE row == AuditRow(0, call[c].op, "SUCCESS", call[c].version)
  <2>1. /\ OnlyCall(c) /\ CallOK(call'[c], prompts) /\ call'[c].op = call[c].op
        /\ call[c].pc = "audit" /\ call[c].op \in PromptOps /\ audit' = audit \cup {row}
        /\ call[c].op \in Switches =>
             call[c].version \in Versions /\ prompts[call[c].version].publishedAt
        /\ UNCHANGED <<prompts, provenance, users, taxonomy, desk>>
    BY <1>0, <1>6, AuditOK DEF Audit, OtherData
  <2>2. AnswerOK(call'[c], audit') /\ call[c].op \notin AuditedOps
    BY <2>1, NotAudited DEF AuditedOps, UserOps, ItemOps, PromptOps
  <2>3. row.op = call[c].op /\ row.of = call[c].version
    BY DEF AuditRow
  <2> HIDE DEF row
  <2> QED BY <1>0, <2>1, <2>2, <2>3, RowWritten
<1>7. ASSUME AuditPromptFailure(c)
      PROVE  IInv'
  <2> DEFINE row == AuditRow(0, call[c].op, "FAILURE", call[c].subject)
  <2>1. /\ OnlyCall(c) /\ CallOK(call'[c], prompts) /\ call'[c].op = call[c].op
        /\ call'[c].pc = "done" /\ call'[c].code = "error"
        /\ call[c].op \in PromptOps /\ audit' = audit \cup {row}
        /\ UNCHANGED <<prompts, provenance, users, taxonomy, desk>>
    BY <1>0, <1>7, AuditPromptFailureOK DEF AuditPromptFailure, OtherData
  <2>2. AnswerOK(call'[c], audit') /\ call[c].op \notin AuditedOps
    BY <2>1, NotAudited DEF AuditedOps, UserOps, ItemOps, PromptOps
  <2>3. row.op = call[c].op /\ row.outcome = "FAILURE"
    BY DEF AuditRow
  <2>4. Pending(call[c]) => Pending(call'[c])
    BY <2>1 DEF Pending
  <2> HIDE DEF row
  <2> QED BY <2>1, <2>2, <2>3, <2>4, RowWritten
<1>8. ASSUME PromptStatementFails(c)
      PROVE  IInv'
  <2>1. /\ OnlyCall(c) /\ CallOK(call'[c], prompts) /\ call'[c].op = call[c].op
        /\ call[c].op \in PromptOps
        /\ \/ call'[c].pc = "auditFailure"
           \/ call'[c].pc = "done" /\ call'[c].code = "error"
        /\ UNCHANGED <<prompts, provenance, users, taxonomy, audit, desk>>
    BY <1>0, <1>8, PromptStatementFailsOK DEF PromptStatementFails, OtherData
  <2>2. AnswerOK(call'[c], audit)
    BY <2>1, NotAudited
  <2>3. Pending(call[c]) => Pending(call'[c])
    BY <2>1 DEF Pending
  <2> QED BY <2>1, <2>2, <2>3, Quiet
<1> QED BY <1>1, <1>2, <1>3, <1>4, <1>5, <1>6, <1>7, <1>8 DEF PromptStep

LEMMA MutationStepInv ==
  ASSUME IInv, NEW c \in Calls, MutationStep(c) \/ AuditStatementFails(c)
  PROVE  IInv'
<1>0. /\ CallsOK /\ call[c] \in CallState /\ CallOK(call[c], prompts)
      /\ \A k : k.op \in AuditedOps => ~ Pending(k)
  BY DEF IInv, CallsOK, Pending, Switches, AuditedOps, UserOps, ItemOps
<1>1. call[c].op \in AuditedOps /\ call[c].pc # "done" /\ ~ Pending(call[c])
  BY <1>0 DEF MutationStep, AuditStatementFails, Check, Mutate, Commit, Abort, Recheck,
     AuditFailure, At, CallOK, CallShape
<1>2. ASSUME UNCHANGED <<prompts, provenance, users, taxonomy, audit, desk>>,
             OnlyCall(c), CallOK(call'[c], prompts), call'[c].pc # "done"
      PROVE  IInv'
  BY <1>1, <1>2, Quiet DEF AnswerOK
<1>3. ASSUME UNCHANGED <<prompts, provenance, users, taxonomy, audit, desk>>,
             NEW code \in {"replay", "unavailable"}, Respond(c, code),
             code = "replay" => HasAudit(c)
      PROVE  IInv'
  <2>1. /\ OnlyCall(c) /\ CallOK(call'[c], prompts)
        /\ call'[c].pc = "done" /\ call'[c].code = code
        /\ call'[c].op = call[c].op /\ call'[c].id = call[c].id
    BY <1>0, <1>1, <1>3, IsAnswered DEF Answers
  <2>2. AnswerOK(call'[c], audit)
    BY <1>3, <2>1 DEF AnswerOK, HasAudit
  <2> QED BY <1>1, <1>3, <2>1, <2>2, Quiet
<1>4. ASSUME Check(c) \/ Recheck(c)
      PROVE  IInv'
  BY <1>0, <1>1, <1>2, <1>3, <1>4, MovesOn DEF Check, Recheck, Elsewhere
<1>5. ASSUME Mutate(c)
      PROVE  IInv'
  BY <1>0, <1>2, <1>5, MutateOK DEF Mutate, Elsewhere
<1>6. ASSUME Abort(c)
      PROVE  IInv'
  BY <1>0, <1>1, <1>2, <1>6, MovesOn DEF Abort, Elsewhere
<1>7. ASSUME AuditStatementFails(c)
      PROVE  IInv'
  BY <1>0, <1>1, <1>2, <1>3, <1>7, MovesOn DEF AuditStatementFails, Elsewhere
<1>8. ASSUME AuditFailure(c)
      PROVE  IInv'
  <2>1. CASE HasAudit(c)
    BY <1>3, <1>8, <2>1 DEF AuditFailure, Elsewhere
  <2>2. CASE ~ HasAudit(c)
    <3> DEFINE row == AuditRow(call[c].id, call[c].op, "FAILURE", FailedTarget(c))
    <3>1. /\ audit' = audit \cup {row} /\ Respond(c, "error")
          /\ UNCHANGED <<prompts, provenance, users, taxonomy, desk>>
      BY <1>8, <2>2 DEF AuditFailure, Elsewhere
    <3>2. row.id = call[c].id /\ row.op = call[c].op /\ row.outcome = "FAILURE"
      BY DEF AuditRow
    <3> HIDE DEF row
    <3>3. /\ OnlyCall(c) /\ CallOK(call'[c], prompts)
          /\ call'[c].pc = "done" /\ call'[c].code = "error"
          /\ call'[c].op = call[c].op /\ call'[c].id = call[c].id
      BY <1>0, <1>1, <3>1, IsAnswered DEF Answers
    <3>4. AnswerOK(call'[c], audit')
      BY <3>1, <3>2, <3>3 DEF AnswerOK, RowOf
    <3>5. ~ \E r \in audit : r.id = row.id /\ r.op = row.op
      BY <2>2, <3>2 DEF HasAudit
    <3> QED BY <1>1, <3>1, <3>2, <3>3, <3>4, <3>5, RowWritten
  <2> QED BY <2>1, <2>2
<1>9. ASSUME Commit(c)
      PROVE  IInv'
  <2> DEFINE row == AuditRow(call[c].id, call[c].op, "SUCCESS", call[c].target)
  <2>1. /\ audit' = audit \cup {row} /\ ~ HasAudit(c)
        /\ UNCHANGED <<prompts, provenance, desk>>
    BY <1>9 DEF Commit, Aborts, Elsewhere
  <2>2. row.id = call[c].id /\ row.op = call[c].op /\ row.outcome = "SUCCESS"
    BY DEF AuditRow
  <2> HIDE DEF row
  <2>3. /\ CallsOK' /\ call'[c].pc \in {"done", "recheck"} /\ Committed(call'[c], call[c])
        /\ \A d \in Calls \ {c} :
             call'[d] = call[d] \/ (call[d].op \in AuditedOps /\ call'[d].pc = "mutate")
    BY <1>0, <1>9, CommitCalls
  <2>4. Documents'
    <3>1. IsFiniteSet(audit')
      BY <2>1, FS_AddElement DEF IInv, Documents, Data
    <3>2. LocksCounted'
      BY <1>0, <1>9, CommitCounts DEF IInv, Documents
    <3> QED BY <1>0, <1>9, <2>1, <3>1, <3>2, CommitWrites DEF IInv, Documents, Data
  <2>5. DecidedOnce'
    BY <2>1, <2>2 DEF IInv, Log, DecidedOnce, HasAudit
  <2>6. PublicationsTrue'
    BY <1>1, <2>1, <2>2, SamePrompts
       DEF IInv, Log, PublicationsTrue, Switches, AuditedOps, UserOps, ItemOps
  <2>7. Answered'
    <3>1. AnswerOK(call'[c], audit')
      BY <2>1, <2>2, <2>3 DEF AnswerOK, RowOf, Committed
    <3>2. ASSUME NEW d \in Calls \ {c}
          PROVE  AnswerOK(call'[d], audit')
      <4>1. CASE call'[d] = call[d]
        BY <2>1, <4>1, AnswerKept DEF IInv, Log, Answered
      <4>2. CASE call'[d].pc = "mutate"
        BY <4>2 DEF AnswerOK
      <4> QED BY <2>3, <4>1, <4>2
    <3> QED BY <3>1, <3>2 DEF Answered
  <2>8. SomePublished'
    BY <1>0, <1>1, <2>1, <2>3, SamePrompts DEF IInv, SomePublished
  <2> QED BY <2>1, <2>3, <2>4, <2>5, <2>6, <2>7, <2>8, SamePrompts DEF IInv, Log, PublishedOnce
<1> QED BY <1>4, <1>5, <1>6, <1>7, <1>8, <1>9 DEF MutationStep

LEMMA SendInv ==
  ASSUME IInv, NEW c \in Calls, Send(c) \/ Press(c) \/ \E d \in Calls : Resend(c, d)
  PROVE  IInv'
<1>1. /\ UNCHANGED <<prompts, provenance, users, taxonomy, audit, desk>>
      /\ call[c].pc = "new" /\ OnlyCall(c)
      /\ \E op \in AllOps, id \in 0 .. MaxCalls : Begun(call'[c], op, id)
  BY SendingOK DEF IInv, Documents, Data
<1>2. CallOK(call'[c], prompts) /\ call'[c].pc # "done" /\ ~ Pending(call[c])
  BY <1>1 DEF Begun, Pending
<1> QED BY <1>1, <1>2, Quiet DEF AnswerOK

(* A crash ends what is under way: what it leaves may be without a         *)
(* published version, and says so.                                         *)
LEMMA CrashInv ==
  ASSUME IInv, Crash
  PROVE  IInv'
<1>1. /\ UNCHANGED <<prompts, provenance, users, taxonomy, audit, desk>>
      /\ call' = [c \in Calls |-> IF call[c].pc \in {"new", "done"} THEN call[c]
                                  ELSE [call[c] EXCEPT !.pc = "done", !.code = "lost"]]
  BY DEF Crash
<1>2. ASSUME NEW c \in Calls
      PROVE  /\ call'[c] \in CallState /\ CallOK(call'[c], prompts)
             /\ AnswerOK(call'[c], audit)
             /\ Pending(call[c]) => Pending(call'[c])
  <2>1. call[c] \in CallState /\ CallOK(call[c], prompts) /\ AnswerOK(call[c], audit)
    BY DEF IInv, CallsOK, Log, Answered
  <2>2. CASE call[c].pc \in {"new", "done"}
    BY <1>1, <2>1, <2>2
  <2>3. CASE call[c].pc \notin {"new", "done"}
    <3>1. call'[c] = [call[c] EXCEPT !.pc = "done", !.code = "lost"]
      BY <1>1, <2>3
    <3>2. Updated(call'[c], call[c], "done", call[c].value, call[c].version,
                  call[c].write, "lost")
      BY <2>1, <3>1, CodeUpdate DEF Phases, Answers
    <3>3. CallOK(call'[c], prompts)
      BY <2>1, <3>2 DEF CallOK, CallShape, PromptShape, Restored, Updated
    <3>4. /\ AnswerOK(call'[c], audit)
          /\ Pending(call[c]) => Pending(call'[c])
      BY <3>2 DEF AnswerOK, Pending, Updated
    <3> QED BY <3>2, <3>3, <3>4 DEF Updated, AnswerOK
  <2> QED BY <2>2, <2>3
<1>3. CallsOK'
  BY <1>1, <1>2 DEF IInv, CallsOK
<1>4. Documents'
  BY <1>1 DEF IInv, Documents, Data, OneItemPerCode, LocksCounted, Rows
<1>5. Log'
  BY <1>1, <1>2, SamePrompts DEF IInv, Log, DecidedOnce, Answered, PublicationsTrue
<1>6. PublishedOnce' /\ SomePublished'
  BY <1>1, <1>2, SamePrompts DEF IInv, PublishedOnce, SomePublished
<1> QED BY <1>3, <1>4, <1>5, <1>6 DEF IInv

LEMMA NothingChanges ==
  ASSUME IInv, UNCHANGED <<prompts, provenance, users, taxonomy, audit, desk, call>>
  PROVE  IInv'
BY SamePrompts DEF IInv, CallsOK, Documents, Data, OneItemPerCode, LocksCounted, Rows, Log,
   DecidedOnce, Answered, PublicationsTrue, PublishedOnce, SomePublished

LEMMA InitInv == Init => IInv
<1> SUFFICES ASSUME Init
             PROVE  IInv
  OBVIOUS
<1>1. /\ VersionsOK(prompts)
      /\ Published # {} /\ PublishedOnce
  <2>1. ASSUME NEW d \in Contents, NEW st \in {"DRAFT", "PUBLISHED", "ARCHIVED"}
        PROVE  /\ Version(d, st) \in PromptDoc /\ Version(d, st).status = st
               /\ Version(d, st).publishedAt <=> st # "DRAFT"
    BY DEF Version, PromptDoc
  <2>2. PICK c \in Contents, d \in Contents, e \in Contents :
          prompts = Seeded(c) \/ prompts = Worked(c, d, e)
    BY DEF Init
  <2>3. CASE prompts = Seeded(c)
    <3>1. /\ prompts \in Seq(PromptDoc) /\ Len(prompts) = 1
          /\ prompts[1] = Version(c, "PUBLISHED")
      BY <2>1, <2>3 DEF Seeded
    <3> QED BY <2>1, <3>1 DEF VersionsOK, Published, Versions, PublishedOnce
  <2>4. CASE prompts = Worked(c, d, e)
    <3>1. /\ prompts \in Seq(PromptDoc) /\ Len(prompts) = 4
          /\ prompts[1] = Version(c, "ARCHIVED") /\ prompts[2] = Version(d, "PUBLISHED")
          /\ prompts[3] = Version(e, "DRAFT") /\ prompts[4] = Version(c, "DRAFT")
      BY <2>1, <2>4 DEF Worked
    <3> QED BY <2>1, <3>1 DEF VersionsOK, Published, Versions, PublishedOnce
  <2> QED BY <2>2, <2>3, <2>4
<1>2. NewCall \in CallState /\ CallOK(NewCall, prompts) /\ AnswerOK(NewCall, audit)
  <2>1. NewCall \in CallState
    BY AdminAssumption DEF CallState, NewCall
  <2>2. /\ NewCall.pc = "new" /\ NewCall.op = None /\ NewCall.code = None
        /\ None \notin AllOps /\ None # "ok"
    BY AdminAssumption DEF NewCall
  <2>3. CallShape(NewCall)
    BY <2>2 DEF CallShape, AllOps, AuditedOps, UserOps, ItemOps, PromptOps
  <2>4. PromptShape(NewCall, prompts) /\ Restored(NewCall, prompts)
    BY <2>2 DEF PromptShape, Restored, AllOps, AuditedOps, UserOps, ItemOps, PromptOps, Switches
  <2> QED BY <2>1, <2>2, <2>3, <2>4 DEF CallOK, AnswerOK
<1>3. CallsOK
  BY <1>1, <1>2 DEF Init, CallsOK
<1>4. Documents
  <2>1. Data
    BY FS_EmptySet DEF Init, Data, UserDoc
  <2>2. OneItemPerCode
    BY DEF Init, OneItemPerCode
  <2>3. LocksCounted
    <3> SUFFICES ASSUME NEW u \in Users
                 PROVE  /\ Cardinality(Rows("LOCK_USER", u)) \in Nat
                        /\ users[u].authVersion <= Cardinality(Rows("LOCK_USER", u))
                        /\ users[u].status = "LOCKED" => Rows("LOCK_USER", u) # {}
      BY DEF LocksCounted
    <3>1. Rows("LOCK_USER", u) = {}
      BY DEF Init, Rows
    <3>2. users[u].authVersion = 0 /\ users[u].status = "ACTIVE"
      BY DEF Init
    <3> QED BY <3>1, <3>2, FS_EmptySet
  <2> QED BY <2>1, <2>2, <2>3 DEF Documents
<1>5. Log
  BY <1>2 DEF Init, Log, DecidedOnce, Answered, PublicationsTrue
<1> QED BY <1>1, <1>3, <1>4, <1>5 DEF IInv, SomePublished

LEMMA StepInv == IInv /\ [Next]_vars => IInv'
<1> SUFFICES ASSUME IInv, [Next]_vars
             PROVE  IInv'
  OBVIOUS
<1>1. CASE PageStep \/ PageInput
  BY <1>1, PageLeaves, NothingChanges
<1>2. CASE Crash
  BY <1>2, CrashInv
<1>3. CASE Rest \/ UNCHANGED vars
  BY <1>3, NothingChanges DEF Rest, vars
<1>4. CASE \E c \in Calls : Send(c) \/ Press(c) \/ \E d \in Calls : Resend(c, d)
  BY <1>4, SendInv
<1>5. CASE \E c \in Calls : CallStep(c) \/ PromptStatementFails(c) \/ AuditStatementFails(c)
  BY <1>5, PromptStepInv, MutationStepInv DEF CallStep
<1> QED BY <1>1, <1>2, <1>3, <1>4, <1>5 DEF Next

LEMMA Invariance == Spec => []IInv
BY InitInv, StepInv, PTL DEF Spec

-----------------------------------------------------------------------------
(* Part 7: the theorems. *)

(* However publications and rollbacks cross, no two versions of a prompt   *)
(* are published at once.                                                  *)
THEOREM PublicationUnique == Spec => []OnePublished
<1>1. IInv => OnePublished
  <2> SUFFICES ASSUME IInv
               PROVE  Cardinality(Published) <= 1
    BY DEF OnePublished
  <2>1. CASE Published = {}
    BY <2>1, FS_EmptySet
  <2>2. CASE Published # {}
    <3>1. PICK v \in Published : Published = {v}
      BY <2>2 DEF IInv, PublishedOnce
    <3>2. Cardinality({v}) = 1
      BY FS_Singleton
    <3> QED BY <3>1, <3>2
  <2> QED BY <2>1, <2>2
<1> QED BY <1>1, Invariance, PTL

(* If no call that publishes failed or was lost, and none is between its   *)
(* two statements, the prompt has a published version.                     *)
THEOREM PublicationsComplete == Spec => []PublishedUnlessFailed
<1>1. IInv => PublishedUnlessFailed
  BY DEF IInv, SomePublished, Pending, PublishedUnlessFailed, At, Switches
<1> QED BY <1>1, Invariance, PTL

(* A rollback that succeeded has published the content of an earlier       *)
(* publication, found before its draft was made.                           *)
THEOREM RollbacksRestore == Spec => []RollbackRestores
<1>1. IInv => RollbackRestores
  <2> SUFFICES ASSUME IInv, NEW c \in Calls, call[c].op = "ROLLBACK_PROMPT",
                      call[c].code = "ok"
               PROVE  /\ prompts[call[c].version].publishedAt
                      /\ \E v \in 1 .. call[c].subject - 1 :
                           /\ prompts[v].publishedAt
                           /\ prompts[v].content = prompts[call[c].version].content
    BY DEF RollbackRestores
  <2>1. Restored(call[c], prompts)
    BY DEF IInv, CallsOK, CallOK
  <2> QED BY <2>1 DEF Restored, Earlier
<1> QED BY <1>1, Invariance, PTL

(* Audit rows of success, and the version an interview recorded, name      *)
(* versions that were published.                                           *)
THEOREM LogIsTrue == Spec => []SuccessIsTrue
<1>1. IInv => SuccessIsTrue
  BY DEF IInv, Log, PublicationsTrue, SuccessIsTrue, Switches
<1> QED BY <1>1, Invariance, PTL

(* What a caller of an audited mutation is told is what the log says of    *)
(* its request, through repeats, lost acknowledgements and failures.       *)
THEOREM AnswersAudited == Spec => []AnswerIsAudited
<1>1. IInv => AnswerIsAudited
  <2> SUFFICES ASSUME IInv, NEW c \in Calls, call[c].op \in AuditedOps, call[c].pc = "done"
               PROVE  LET rows == {row \in audit : row.id = call[c].id /\ row.op = call[c].op}
                          outcomes == {row.outcome : row \in rows}
                      IN /\ call[c].code = "ok" => outcomes = {"SUCCESS"}
                         /\ call[c].code = "error" => outcomes = {"FAILURE"}
                         /\ call[c].code = "replay" => outcomes # {}
    BY DEF AnswerIsAudited, At
  <2> DEFINE rows == {row \in audit : row.id = call[c].id /\ row.op = call[c].op}
             outcomes == {row.outcome : row \in rows}
  <2>1. \A r \in rows, s \in rows : r.outcome = s.outcome
    BY DEF IInv, Log, DecidedOnce
  <2>2. AnswerOK(call[c], audit)
    BY DEF IInv, Log, Answered
  <2>3. ASSUME NEW outcome, RowOf(call[c], {outcome}, audit)
        PROVE  outcomes = {outcome}
    <3>1. PICK r \in rows : r.outcome = outcome
      BY <2>3 DEF RowOf
    <3> QED BY <2>1, <3>1
  <2> QED BY <2>2, <2>3 DEF AnswerOK
<1> QED BY <1>1, Invariance, PTL

(* Every lock that took effect has a row of its own, and nobody is locked  *)
(* without one.                                                            *)
THEOREM LocksHaveRows == Spec => []LocksAudited
<1>1. IInv => LocksAudited
  BY DEF IInv, Documents, LocksCounted, LocksAudited
<1> QED BY <1>1, Invariance, PTL

(* No two items have one code, though it is looked up before the           *)
(* transaction.                                                            *)
THEOREM CodesAreUnique == Spec => []CodesUnique
<1>1. IInv => CodesUnique
  <2> SUFFICES ASSUME IInv, NEW code \in Codes
               PROVE  Cardinality(TakenBy(code)) <= 1
    BY DEF CodesUnique
  <2>1. \A i \in TakenBy(code), j \in TakenBy(code) : i = j
    BY DEF IInv, Documents, OneItemPerCode, TakenBy
  <2>2. CASE TakenBy(code) = {}
    BY <2>2, FS_EmptySet
  <2>3. CASE TakenBy(code) # {}
    <3>1. PICK i \in TakenBy(code) : TakenBy(code) = {i}
      BY <2>1, <2>3
    <3> QED BY <3>1, FS_Singleton
  <2> QED BY <2>2, <2>3
<1> QED BY <1>1, Invariance, PTL

(* A version is never rewritten: it is drafted, published and archived, in *)
(* this order, and never published again.                                  *)
VersionsMove ==
  /\ Len(prompts') >= Len(prompts)
  /\ \A v \in Versions :
       /\ prompts'[v].content = prompts[v].content
       /\ prompts[v].publishedAt => prompts'[v].publishedAt
       /\ <<prompts[v].status, prompts'[v].status>> \in
            {<<"DRAFT", "DRAFT">>, <<"DRAFT", "PUBLISHED">>, <<"PUBLISHED", "PUBLISHED">>,
             <<"PUBLISHED", "ARCHIVED">>, <<"ARCHIVED", "ARCHIVED">>}

LEMMA LaterMoves ==
  ASSUME VersionsOK(prompts), Later(prompts, prompts')
  PROVE  VersionsMove
<1> SUFFICES ASSUME NEW v \in Versions
             PROVE  <<prompts[v].status, prompts'[v].status>> \in
                      {<<"DRAFT", "DRAFT">>, <<"DRAFT", "PUBLISHED">>,
                       <<"PUBLISHED", "PUBLISHED">>, <<"PUBLISHED", "ARCHIVED">>,
                       <<"ARCHIVED", "ARCHIVED">>}
  BY DEF Later, VersionsMove, Versions
<1>1. prompts[v].status \in {"DRAFT", "PUBLISHED", "ARCHIVED"}
  <2>1. prompts[v] \in PromptDoc
    BY DEF VersionsOK, Versions
  <2> QED BY <2>1 DEF PromptDoc
<1> QED BY <1>1 DEF Later, Versions

THEOREM VersionsAreKept == Spec => VersionsStand
<1>1. ASSUME IInv, [Next]_vars
      PROVE  [VersionsMove]_vars
  <2>0. CallsOK /\ VersionsOK(prompts) /\ desk \in Desks
    BY <1>1 DEF IInv, CallsOK, Documents, Data
  <2>1. ASSUME prompts' = prompts
        PROVE  VersionsMove
    BY <2>0, <2>1, LaterMoves, SamePrompts
  <2>2. ASSUME NEW c \in Calls, CreateDraft(c) \/ Archive(c) \/ Publish(c)
        PROVE  VersionsMove
    BY <2>0, <2>2, CreateDraftOK, ArchiveOK, PublishOK, LaterMoves
  <2>3. ASSUME NEW c \in Calls, PromptStep(c) \/ PromptStatementFails(c)
        PROVE  VersionsMove
    BY <2>1, <2>2, <2>3 DEF PromptStep, ReadNext, FindDraft, FindTarget, FindPrevious, Audit,
       AuditPromptFailure, Lookup, Record, PromptStatementFails, OtherData
  <2>4. ASSUME NEW c \in Calls, MutationStep(c) \/ AuditStatementFails(c)
        PROVE  prompts' = prompts
    BY <2>4 DEF MutationStep, AuditStatementFails, Check, Mutate, Commit, Abort, Recheck,
       AuditFailure, Elsewhere
  <2>5. ASSUME NEW c \in Calls, Send(c) \/ Press(c) \/ \E d \in Calls : Resend(c, d)
        PROVE  prompts' = prompts
    BY <2>5 DEF Send, Press, Resend
  <2>6. CASE PageStep \/ PageInput \/ Crash \/ Rest
    BY <2>1, <2>6, PageLeaves DEF Crash, Rest, vars
  <2>7. CASE UNCHANGED vars
    BY <2>7
  <2> QED BY <1>1, <2>1, <2>3, <2>4, <2>5, <2>6, <2>7 DEF Next, CallStep
<1> QED BY <1>1, Invariance, PTL DEF Spec, VersionsStand, VersionsMove
=============================================================================
