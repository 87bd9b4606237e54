------------------------------ MODULE Accounts ------------------------------
(***************************************************************************)
(* One account, the tabs that use it, the administrator who locks it, and  *)
(* the recovery of its password.                                           *)
(***************************************************************************)
EXTENDS BrowserSession

Administrate ==
  /\ \/ (LockUser \/ UnlockUser) /\ Harmless
     \/ \E t \in Tokens : TokenExpires(t) /\ Mishap("lifetime")
  /\ UNCHANGED <<tab, rate, code, mailbox, asker, resetter>>

Next ==
  \/ \E k \in Calls : Serve(k) \/ Deliver(k)
  \/ Browse
  \/ Administrate
  \/ Recover

Spec == Init /\ [][Next]_vars

(* The server answers what it received, the browser runs continuations and *)
(* effects.  Candidate and administrator need not act.                     *)
FairSpec ==
  /\ Spec
  /\ \A k \in Calls : WF_vars(Serve(k)) /\ WF_vars(Receive(k))
  /\ \A c \in Tabs : WF_vars(Bootstrap(c))

-----------------------------------------------------------------------------
TypeOK ==
  /\ account \in Account
  /\ token \in [Tokens -> TokenDoc]
  /\ call \in [Calls -> Call]
  /\ tab \in [Tabs -> TabState]
  /\ rate \in RateDoc
  /\ code \in [Codes -> CodeDoc]
  /\ mailbox \subseteq Codes
  /\ asker \in [Askers -> AskerState]
  /\ resetter \in [Resetters -> ResetterState]
  /\ mishaps \in 0 .. MaxMishaps

Live == {t \in Tokens : token[t].state = "LIVE"}

(* Whatever races with a lock, a change or a recovery of the password: a   *)
(* token that still works belongs to an active account and was issued      *)
(* under its present credentials.                                          *)
LiveTokensCurrent ==
  \A t \in Live : account.status = "ACTIVE" /\ token[t].credential = account.credential

(* Rotation leaves one live token per session, as the partial unique index *)
(* of refresh-token.model.ts demands.                                      *)
OneLivePerFamily ==
  \A t, u \in Live : token[t].family = token[u].family => t = u

(* Tokens implement sessions: one that has ended - signed out, reused,     *)
(* locked, under an old password - gets no token again, whatever refresh   *)
(* was under way, and none opens while the account is locked.              *)
SessionOf(s) ==
  IF \E t \in Live : token[t].family = s THEN "open"
  ELSE IF \E t \in Tokens : token[t].family = s THEN "ended" ELSE "none"
Contract ==
  INSTANCE LoginSessions WITH
    Sessions <- Tokens, status <- account.status, version <- account.credential,
    session <- [s \in Tokens |-> SessionOf(s)]
ImplementsSessions == Contract!Spec

(* While nothing is lost, reloaded or duplicated, the shared refresh never *)
(* presents a token twice: what a tab stores and does not just rotate or   *)
(* sign out works, unless its account was locked or changed its password.  *)
StoredTokenWorks ==
  mishaps = 0 =>
    \A c \in Tabs :
      (tab[c].refresh # None /\ Pending(c, {"refresh", "logout"}) = {}) =>
        \/ token[tab[c].refresh].state = "LIVE"
        \/ token[tab[c].refresh].credential # account.credential

(* While nothing goes wrong, a session that is alive on the server is held *)
(* by a tab or by a call on its way to one: signing out leaves none behind.*)
LiveSessionIsHeld ==
  mishaps = 0 =>
    \A t \in Live : \/ \E c \in Tabs : tab[c].refresh = t
                    \/ \E k \in Calls : call[k].pc = "answered" /\ call[k].token = t

(* So tabs and server agree on the sessions that are open.                 *)
SessionsMatchTabs == StoredTokenWorks /\ LiveSessionIsHeld

(* No call waits for ever for a refresh, and no page stays on "restoring   *)
(* the session", as long as the bound leaves a token to issue.             *)
CallsEnd ==
  \A k \in Calls : (call[k].pc = "waiting") ~> (call[k].pc # "waiting" \/ ~ TokensLeft)
PagesOpen == \A c \in Tabs : ~ tab[c].ready ~> (tab[c].ready \/ ~ TokensLeft)
TabsRecover == CallsEnd /\ PagesOpen

-----------------------------------------------------------------------------
(* A password that no call of a tab sets costs a code that arrived and     *)
(* that nobody has used: of two resets with one code one changes it.       *)
ResetCostsCode ==
  [][(account'.hash # account.hash /\ UNCHANGED call) =>
       \E n \in mailbox : /\ ~ code[n].used /\ code'[n].used
                          /\ code[n].attempts < MaxAttempts]_vars

(* While no mail fails, no server stops and no request outlasts its        *)
(* reservation, one request is under way at a time, ...                    *)
OneRequestAtATime ==
  mishaps = 0 => \A a, b \in Askers : (asker[a].pc # "idle" /\ asker[b].pc # "idle") => a = b

(* ... and a code that arrived can be used until it expires or a newer one *)
(* is asked for.                                                           *)
ArrivedCodeUsable ==
  mishaps = 0 /\ (\A a \in Askers : asker[a].pc = "idle") =>
    \A n \in mailbox \cap Unused :
      (n = Newest(Unused) /\ ~ code[n].expired) => code[n].state = "SENT"

(* When the newest mail has failed and its request was answered, the user  *)
(* need not wait to ask again.                                             *)
FailedMailFreesUser ==
  (/\ Created # {} /\ code[Newest(Created)].state = "FAILED"
   /\ \A a \in Askers : asker[a].pc = "idle"
   /\ mishaps = 1) => ~ rate.cooldown
=============================================================================
