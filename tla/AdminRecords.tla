---------------------------- MODULE AdminRecords ----------------------------
(***************************************************************************)
(* What administrators work on: the versions of one system prompt, the     *)
(* user accounts and the taxonomy with the audit log beside them, and the  *)
(* list page of a browser.  A call is one HTTP request of an administrator.*)
(***************************************************************************)
EXTENDS Naturals, FiniteSets, Sequences

CONSTANTS
  MaxCalls,      \* bound: HTTP requests that change something
  CallsBeside,   \* bound: how many of them while a list page is open
  Users, Self,   \* accounts that are administered; the administrator's own
  Items,         \* roles, levels and technologies
  Codes,         \* their codes
  Contents,      \* contents of a prompt
  Terms,         \* texts of a search, or values of a filter
  PageKinds,     \* list pages that may be open: see AllPageKinds
  Desks,         \* what is administered in a behaviour: see OpsOf
  StartPrompts,  \* "seeded": one published version; "worked": with a past and drafts
  None,
  MaxInputs,     \* bound: inputs to the page
  Faults,        \* what the environment may do: see FaultKinds
  MaxFaults      \* how often

UserOps == {"LOCK_USER", "UNLOCK_USER"}
ItemOps == {"CREATE", "UPDATE", "DELETE"}
PromptOps == {"CREATE_PROMPT_DRAFT", "PUBLISH_PROMPT", "ROLLBACK_PROMPT", "RECORD"}
AuditedOps == UserOps \cup ItemOps
AllOps == AuditedOps \cup PromptOps
OpsOf == [accounts |-> UserOps, taxonomy |-> ItemOps, prompts |-> PromptOps, nothing |-> {}]
(* The list page beside which a desk may be worked at.                     *)
PagesOf ==
  [accounts |-> {"closed", "users"}, taxonomy |-> {"closed"},
   prompts |-> {"closed", "prompts"}, nothing |-> {"history", "metrics", "analytics"}]
AllPageKinds == {"closed", "history", "users", "metrics", "analytics", "prompts"}
Calls == 1 .. MaxCalls
FaultKinds == {"resend", "unknown", "database", "crash"}

ASSUME AdminAssumption ==
  /\ {MaxCalls, CallsBeside, MaxInputs, MaxFaults} \subseteq Nat
  /\ PageKinds \subseteq AllPageKinds /\ Desks \subseteq DOMAIN OpsOf /\ Faults \subseteq FaultKinds
  /\ Contents # {} /\ Terms # {}
  /\ None \notin Users \cup {Self} \cup Items \cup Codes \cup Contents
  /\ None \notin AllOps \cup {"ok", "replay", "error", "unavailable", "lost"}

VARIABLES
  prompts,      \* versions of one (promptKey, type, language): 1, 2, ...
  provenance,   \* the version an interview recorded, or 0
  users,        \* accounts
  taxonomy,     \* roles, levels and technologies
  audit,        \* AuditLog rows
  call,         \* what each call is doing
  page,         \* the list page of the browser
  desk,         \* what is administered: the desks share no document
  faults

vars == <<prompts, provenance, users, taxonomy, audit, call, page, desk, faults>>

(* publishedAt is only ever compared with null.                            *)
PromptDoc ==
  [content : Contents, status : {"DRAFT", "PUBLISHED", "ARCHIVED"}, publishedAt : BOOLEAN]
Version(c, st) == [content |-> c, status |-> st, publishedAt |-> st # "DRAFT"]
Seeded(c) == <<Version(c, "PUBLISHED")>>
Worked(c, d, e) ==
  <<Version(c, "ARCHIVED"), Version(d, "PUBLISHED"), Version(e, "DRAFT"), Version(c, "DRAFT")>>

UserDoc == [status : {"ACTIVE", "LOCKED"}, authVersion : Nat]
ItemDoc == [code : Codes, status : {"ACTIVE", "INACTIVE"}]
(* `of` is the target: an account, an item or the version of a prompt.     *)
AuditRow(id, op, outcome, of) == [id |-> id, op |-> op, outcome |-> outcome, of |-> of]

(* The id is X-Request-Id: of the call itself, or of the call it repeats;  *)
(* the calls on prompts leave it to createAuditLog (0).                    *)
CallState ==
  [pc : {"new", "check", "mutate", "commit", "recheck", "next", "create", "find",
         "versions", "archive", "publish", "lookup", "record", "audit", "auditFailure",
         "done"},
   op : AllOps \cup {None}, id : 0 .. MaxCalls,
   target : Users \cup {Self} \cup Items \cup {None},
   value : Codes \cup Contents \cup {None},
   subject : Nat, version : Nat, write : BOOLEAN,
   code : {"ok", "replay", "error", "unavailable", "lost"} \cup {None}]
NewCall ==
  [pc |-> "new", op |-> None, id |-> 0, target |-> None, value |-> None,
   subject |-> 0, version |-> 0, write |-> FALSE, code |-> None]

(* A query: the text or filter, the status filter and the page asked for.  *)
Query == [by : Terms, status : Terms, page : 1 .. 2]
(* An answer on its way: `n` is its place among the requests, `refresh`    *)
(* tells that it reloads the list after an action.                         *)
Request == [n : Nat, query : Query, refresh : BOOLEAN]
PageState ==
  [kind : PageKinds, filters : Query, typed : Terms, asked : SUBSET Request,
   n : Nat, newest : Nat, shown : Query \cup {None}, loading : BOOLEAN, error : BOOLEAN,
   actions : SUBSET [call : Calls, query : Query],
   inputs : 0 .. MaxInputs, crossed : BOOLEAN, retyped : BOOLEAN]
Opened(kind, q) ==
  [kind |-> kind, filters |-> q, typed |-> q.by,
   asked |-> {[n |-> 1, query |-> q, refresh |-> FALSE]}, n |-> 1, newest |-> 0,
   shown |-> None, loading |-> TRUE, error |-> FALSE, actions |-> {},
   inputs |-> 0, crossed |-> FALSE, retyped |-> FALSE]

FirstQuery == [by |-> CHOOSE t \in Terms : TRUE, status |-> CHOOSE t \in Terms : TRUE, page |-> 1]

Init ==
  /\ \E c, d, e \in Contents :
       \/ "seeded" \in StartPrompts /\ prompts = Seeded(c)
       \/ "worked" \in StartPrompts /\ Cardinality({c, d, e}) = 3 /\ prompts = Worked(c, d, e)
  /\ provenance = 0
  /\ users = [u \in Users |-> [status |-> "ACTIVE", authVersion |-> 0]]
  /\ taxonomy = [i \in Items |-> None]
  /\ audit = {}
  /\ call = [c \in Calls |-> NewCall]
  /\ desk \in Desks
  /\ \E kind \in PageKinds \cap PagesOf[desk] :
       page = IF kind = "closed" THEN [Opened(kind, FirstQuery) EXCEPT !.asked = {}, !.loading = FALSE]
              ELSE Opened(kind, FirstQuery)
  /\ faults = 0

-----------------------------------------------------------------------------
(* Steps of one call.                                                      *)
At(c, pc) == call[c].pc = pc
Go(c, pc) == call' = [call EXCEPT ![c].pc = pc]
Respond(c, code) == call' = [call EXCEPT ![c].pc = "done", ![c].code = code]
Fault(kind) == kind \in Faults /\ faults < MaxFaults /\ faults' = faults + 1
=============================================================================
