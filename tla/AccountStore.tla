--------------------------- MODULE AccountStore ---------------------------
(***************************************************************************)
(* The documents of one account and what talks about them: refresh tokens, *)
(* calls between browser tabs and the server, password reset codes.        *)
(* Documents of different accounts are touched by no common statement.     *)
(***************************************************************************)
EXTENDS Integers, FiniteSets

CONSTANTS
  Tabs,            \* browser tabs; each has its own sessionStorage and memory
  MaxCalls,        \* calls under way at once
  MaxTokens,       \* refresh tokens ever issued
  MaxCredential,   \* bound of credentialVersion
  Askers,          \* server executions of requestPasswordReset
  Resetters,       \* server executions of resetPassword
  MaxCodes,        \* codes ever created
  MaxAttempts,     \* wrong codes a record survives (the code: 5)
  HourlyLimit,     \* reset requests per rolling hour (the code: 5)
  StartAccount,    \* the accounts a run starts from: "none", "password", "google"
  UserCalls,       \* the kinds of call a candidate makes, besides signing out
  Mishaps,         \* what may go wrong in a run
  MaxMishaps,      \* how often
  None,
  Expired          \* an access token past its lifetime

VARIABLES account, token, call, tab, rate, code, mailbox, asker, resetter, mishaps

sessionVars == <<account, token>>
clientVars == <<call, tab>>
recoveryVars == <<rate, code, mailbox, asker, resetter>>
vars == <<account, token, call, tab, rate, code, mailbox, asker, resetter, mishaps>>

Tokens == 1 .. MaxTokens
Calls == 1 .. MaxCalls
Codes == 1 .. MaxCodes
Credentials == 0 .. MaxCredential
Forms == {"register", "login", "google"}
Kinds == Forms \cup {"refresh", "logout", "change", "api", "profile"}

ASSUME AccountAssumption ==
  /\ {MaxCalls, MaxTokens, MaxCredential, MaxCodes, MaxAttempts, HourlyLimit, MaxMishaps} \subseteq Nat
  /\ StartAccount \subseteq {"none", "password", "google"}
  /\ UserCalls \subseteq Kinds \ {"refresh", "logout"}
  /\ None \notin Tabs \cup Askers \cup Tokens \cup Codes \cup Credentials
  /\ None \notin Kinds \cup {"ok", "unauthorized", "denied"}
  /\ Expired \notin Credentials \cup {None}

-----------------------------------------------------------------------------
(* A password hash is named by the credential version it was written with. *)
Account ==
  [status : {"ABSENT", "ACTIVE", "LOCKED"}, hash : Credentials \cup {None},
   google : BOOLEAN, credential : Credentials]
NoAccount == [status |-> "ABSENT", hash |-> None, google |-> FALSE, credential |-> 0]
PasswordAccount == [status |-> "ACTIVE", hash |-> 0, google |-> FALSE, credential |-> 0]
GoogleAccount == [status |-> "ACTIVE", hash |-> None, google |-> TRUE, credential |-> 0]

(* A family is the sessionId that rotated tokens share: the first of them. *)
TokenDoc ==
  [state : {"ABSENT", "LIVE", "REVOKED"}, family : Tokens \cup {None},
   credential : Credentials, expired : BOOLEAN]
NoToken == [state |-> "ABSENT", family |-> None, credential |-> 0, expired |-> FALSE]

(* A call from the fetch of a tab to the continuation of its promise.      *)
(* `waiting` is a call refused with 401 that awaits refreshPromise; a call *)
(* of tab None still reaches the server, but nobody awaits its answer.     *)
Call ==
  [pc : {"free", "sent", "checked", "answered", "waiting"},
   kind : Kinds \cup {None}, tab : Tabs \cup {None}, token : Tokens \cup {None},
   credential : Credentials \cup {None, Expired}, retry : BOOLEAN,
   status : {"ok", "unauthorized", "denied"} \cup {None}]
FreeCall == [pc |-> "free", kind |-> None, tab |-> None, token |-> None,
             credential |-> None, retry |-> FALSE, status |-> None]

(* refresh is in sessionStorage; access, user and ready are in memory.     *)
TabState ==
  [refresh : Tokens \cup {None}, access : Credentials \cup {None, Expired},
   user : BOOLEAN, ready : BOOLEAN]
EmptyTab == [refresh |-> None, access |-> None, user |-> FALSE, ready |-> TRUE]

(* The rate limit record: requests of the last hour, whether the cooldown  *)
(* and the reservation set with it still run, and who holds the latter.    *)
RateDoc == [stamps : 0 .. HourlyLimit, cooldown : BOOLEAN, owner : Askers \cup {None}]

CodeDoc ==
  [state : {"ABSENT", "PENDING", "SENT", "FAILED"}, owned : BOOLEAN, used : BOOLEAN,
   attempts : 0 .. MaxAttempts, expired : BOOLEAN]
NoCode == [state |-> "ABSENT", owned |-> FALSE, used |-> FALSE, attempts |-> 0,
           expired |-> FALSE]

AskerState ==
  [pc : {"idle", "reserved", "found", "mailing", "mailed", "refused", "marked", "unmarked"},
   owned : BOOLEAN, code : Codes \cup {None}]
IdleAsker == [pc |-> "idle", owned |-> FALSE, code |-> None]

ResetterState == [pc : {"idle", "wrong", "right"}, code : Codes \cup {None}]
IdleResetter == [pc |-> "idle", code |-> None]

Init ==
  /\ \E a \in StartAccount :
       account = CASE a = "none" -> NoAccount
                   [] a = "password" -> PasswordAccount
                   [] a = "google" -> GoogleAccount
  /\ token = [t \in Tokens |-> NoToken]
  /\ call = [k \in Calls |-> FreeCall]
  /\ tab = [c \in Tabs |-> EmptyTab]
  /\ rate = [stamps |-> 0, cooldown |-> FALSE, owner |-> None]
  /\ code = [n \in Codes |-> NoCode]
  /\ mailbox = {}
  /\ asker = [a \in Askers |-> IdleAsker]
  /\ resetter = [r \in Resetters |-> IdleResetter]
  /\ mishaps = 0
=============================================================================
