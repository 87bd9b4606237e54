--------------------------- MODULE Administration ---------------------------
(***************************************************************************)
(* Administrators at work: calls to the audited services and to the system *)
(* prompts, from the buttons of a page or from elsewhere, beside the list  *)
(* pages; calls that are repeated or lost and statements that fail.        *)
(***************************************************************************)
EXTENDS SystemPrompts, AuditedMutations, ListPages

FirstStep(op) ==
  CASE op \in AuditedOps -> "check"
    [] op = "CREATE_PROMPT_DRAFT" -> "next"
    [] op \in {"PUBLISH_PROMPT", "ROLLBACK_PROMPT"} -> "find"
    [] op = "RECORD" -> "lookup"
(* An item that is created has an _id of its own.                          *)
Fresh(i) == taxonomy[i] = None /\ \A d \in Calls : call[d].target # i
Targets(op) ==
  CASE op = "LOCK_USER" -> Users \cup {Self}
    [] op = "UNLOCK_USER" -> Users
    [] op = "CREATE" -> {i \in Items : Fresh(i)}
    [] op \in {"UPDATE", "DELETE"} -> Items
    [] op \in PromptOps -> {None}
Values(op) ==
  CASE op \in {"CREATE", "UPDATE"} -> Codes
    [] op = "CREATE_PROMPT_DRAFT" -> Contents
    [] OTHER -> {None}
Subjects(op) == IF op \in {"PUBLISH_PROMPT", "ROLLBACK_PROMPT"} THEN Versions ELSE {0}

Sent(c, op, target, value, subject) ==
  call' = [call EXCEPT ![c] =
    [NewCall EXCEPT !.pc = FirstStep(op), !.op = op, !.id = IF op \in AuditedOps THEN c ELSE 0,
                    !.target = target, !.value = value, !.subject = subject]]
(* Calls are numbered as they are sent.                                    *)
Unsent(c) == At(c, "new") /\ \A d \in 1 .. c - 1 : ~ At(d, "new")

(* Bound: few calls beside an open page.                                   *)
Send(c) ==
  /\ Unsent(c)
  /\ Is({"closed"}) \/ c <= CallsBeside
  /\ \E op \in OpsOf[desk] : \E target \in Targets(op), value \in Values(op), subject \in Subjects(op) :
       Sent(c, op, target, value, subject)
  /\ UNCHANGED <<prompts, provenance, users, taxonomy, audit, page, desk, faults>>

(* A client that has had no answer yet, or lost it, sends a request again. *)
Resend(c, d) ==
  /\ Unsent(c) /\ call[d].op \in AuditedOps
  /\ Fault("resend")
  /\ \E target \in IF call[d].op = "CREATE" THEN Targets("CREATE") ELSE {call[d].target} :
       call' = [call EXCEPT ![c] =
         [NewCall EXCEPT !.pc = "check", !.op = call[d].op, !.id = call[d].id,
                         !.target = target, !.value = call[d].value]]
  /\ UNCHANGED <<prompts, provenance, users, taxonomy, audit, page, desk>>

(* A button of the list: one action at a time on the users' page.          *)
Press(c) ==
  /\ Unsent(c) /\ Is({"users", "prompts"}) /\ Input /\ c <= CallsBeside
  /\ page.shown # None /\ ~ page.loading
  /\ Is({"users"}) => page.actions = {}
  /\ \E op \in OpsOf[desk] \ {"RECORD"} :
     \E target \in Targets(op) \ {Self}, value \in Values(op), subject \in Subjects(op) :
       Sent(c, op, target, value, subject)
  /\ page' = [page EXCEPT !.actions = @ \cup {[call |-> c, query |-> page.filters]},
                          !.inputs = @ + 1, !.error = @ /\ ~ Is({"users"})]
  /\ UNCHANGED <<prompts, provenance, users, taxonomy, audit, desk, faults>>

CallStep(c) == PromptStep(c) \/ MutationStep(c)

(* The server stops: every call under way ends without an answer.          *)
Crash ==
  /\ Fault("crash")
  /\ call' = [c \in Calls |-> IF call[c].pc \in {"new", "done"} THEN call[c]
                              ELSE [call[c] EXCEPT !.pc = "done", !.code = "lost"]]
  /\ UNCHANGED <<prompts, provenance, users, taxonomy, audit, page, desk>>

(* Nothing is under way.                                                   *)
Rest ==
  /\ \A c \in Calls : call[c].pc \in {"new", "done"}
  /\ page.asked = {} /\ page.actions = {}
  /\ UNCHANGED vars

Next ==
  \/ \E c \in Calls :
       \/ Send(c) \/ Press(c) \/ CallStep(c)
       \/ PromptStatementFails(c) \/ AuditStatementFails(c)
       \/ \E d \in Calls : Resend(c, d)
  \/ PageStep \/ PageInput \/ Crash \/ Rest

Spec == Init /\ [][Next]_vars

-----------------------------------------------------------------------------
(* Every document, row and state has the shape its schema gives it.        *)
TypeOK ==
  /\ prompts \in Seq(PromptDoc) /\ provenance \in Nat
  /\ users \in [Users -> UserDoc] /\ taxonomy \in [Items -> ItemDoc \cup {None}]
  /\ call \in [Calls -> CallState]
  /\ page \in PageState /\ desk \in Desks /\ faults \in 0 .. MaxFaults

(* At most one version of a prompt is published, whatever publications and *)
(* rollbacks cross between their archiving and their publishing.           *)
OnePublished == Cardinality(Published) <= 1

(* A prompt has a published version, unless a call that archived one is    *)
(* still under way, was lost or has been answered with an error: crossing  *)
(* calls that all succeed never leave a prompt without one.                *)
PublishedUnlessFailed ==
  \/ Published # {}
  \/ \E c \in Calls : call[c].op \in {"PUBLISH_PROMPT", "ROLLBACK_PROMPT"}
                      /\ call[c].pc # "new" /\ (At(c, "done") => call[c].code # "ok")

(* A rollback that was answered has published an earlier publication's     *)
(* content again, as a version of its own.                                 *)
RollbackRestores ==
  \A c \in Calls :
    (call[c].op = "ROLLBACK_PROMPT" /\ call[c].code = "ok") =>
      /\ prompts[call[c].version].publishedAt
      /\ \E v \in 1 .. call[c].subject - 1 :
           /\ prompts[v].publishedAt
           /\ prompts[v].content = prompts[call[c].version].content

(* The log and an interview's provenance name publications that took place.*)
SuccessIsTrue ==
  /\ \A row \in audit :
       (row.op \in {"PUBLISH_PROMPT", "ROLLBACK_PROMPT"} /\ row.outcome = "SUCCESS") =>
         prompts[row.of].publishedAt
  /\ provenance # 0 => prompts[provenance].publishedAt

Rows(op, of) == {row \in audit : row.op = op /\ row.of = of /\ row.outcome = "SUCCESS"}

(* Each lock that took effect has a row of its own, also when a request is *)
(* sent twice; and nobody is locked without one.                           *)
LocksAudited ==
  \A u \in Users :
    /\ users[u].authVersion <= Cardinality(Rows("LOCK_USER", u))
    /\ users[u].status = "LOCKED" => Rows("LOCK_USER", u) # {}

(* What a caller is told is what the log says: success has a row of it, an *)
(* error the row of a failure and no success, also with the same id.       *)
AnswerIsAudited ==
  \A c \in Calls :
    LET rows == {row \in audit : row.id = call[c].id /\ row.op = call[c].op}
        outcomes == {row.outcome : row \in rows}
    IN (call[c].op \in AuditedOps /\ At(c, "done")) =>
         /\ call[c].code = "ok" => outcomes = {"SUCCESS"}
         /\ call[c].code = "error" => outcomes = {"FAILURE"}
         /\ call[c].code = "replay" => outcomes # {}

(* No two roles have one code, though the code is looked up outside the    *)
(* transaction.                                                            *)
CodesUnique == \A code \in Codes : Cardinality(TakenBy(code)) <= 1

(* With no answer on its way a page without an error shows what its filters*)
(* say: always on the history page, elsewhere unless answers overtook each *)
(* other or an action reloaded a query that had been left.                 *)
SettledListIsCurrent ==
  (/\ page.kind # "closed" /\ page.asked = {} /\ page.actions = {} /\ ~ page.error
   /\ Is({"users"}) => page.typed = page.filters.by
   /\ Is({"history"}) \/ ~ page.crossed) => page.shown = page.filters

(* A page that loads waits for something: an answer, the end of an action  *)
(* or the timer of its search; but for a text that was typed and undone    *)
(* before it was searched for, no list stays a spinner.                    *)
LoadingEnds ==
  page.loading => \/ page.asked # {} \/ page.actions # {} \/ page.retyped
                  \/ Is({"users"}) /\ page.typed # page.filters.by

(* A version is never rewritten: it is drafted, published, archived, in    *)
(* this order, and an archived one is not published again.                 *)
VersionsStand ==
  [][/\ Len(prompts') >= Len(prompts)
     /\ \A v \in Versions :
          /\ prompts'[v].content = prompts[v].content
          /\ prompts[v].publishedAt => prompts'[v].publishedAt
          /\ <<prompts[v].status, prompts'[v].status>> \in
               {<<"DRAFT", "DRAFT">>, <<"DRAFT", "PUBLISHED">>, <<"PUBLISHED", "PUBLISHED">>,
                <<"PUBLISHED", "ARCHIVED">>, <<"ARCHIVED", "ARCHIVED">>}]_vars
=============================================================================
