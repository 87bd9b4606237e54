-------------------------- MODULE Accounts_proofs --------------------------
(***************************************************************************)
(* Proofs about Accounts for any number of tabs, calls, tokens, requests   *)
(* and codes, any bounds and any mishaps.                                  *)
(*                                                                         *)
(* Every step of the system does one of seven things to the account and    *)
(* its tokens, the effects of part 1.  Part 2 shows what the effects keep, *)
(* part 3 that each step has one, part 4 what the calls and the tabs keep, *)
(* part 5 the theorems that follow.  Part 6 is about the mails of password *)
(* recovery, part 7 about tabs and server while nothing goes wrong.        *)
(***************************************************************************)
EXTENDS Accounts, FiniteSetTheorems, WellFoundedInduction, TLAPS

-----------------------------------------------------------------------------
(* Part 1. *)
Opens(t) ==
  /\ t \in Tokens /\ token[t].state = "ABSENT" /\ account.status # "LOCKED"
  /\ account'.status = "ACTIVE" /\ account'.credential = account.credential
  /\ token' = [token EXCEPT ![t] = Issued(t, account.credential)]
Rotates(t, n) ==
  /\ t \in Tokens /\ n \in Tokens /\ token[t].state = "LIVE" /\ token[n].state = "ABSENT"
  /\ account' = account /\ token' = Rotated(t, n)
Ends(S) == account' = account /\ token' = Revoked(S)
EndsAll ==
  /\ account.status # "ABSENT" /\ account'.status \in {account.status, "LOCKED"}
  /\ account'.credential = account.credential + 1
  /\ token' = Revoked(Tokens)
Unlocks ==
  /\ account.status = "LOCKED" /\ account'.status = "ACTIVE"
  /\ account'.credential = account.credential /\ token' = token
Ages(t) ==
  /\ t \in Tokens /\ token[t].state # "ABSENT"
  /\ account' = account /\ token' = [token EXCEPT ![t].expired = TRUE]

SessionEffect ==
  \/ \E t \in Tokens : Opens(t)
  \/ \E t, n \in Tokens : Rotates(t, n)
  \/ \E S \in SUBSET Tokens : Ends(S)
  \/ EndsAll \/ Unlocks
  \/ \E t \in Tokens : Ages(t)
  \/ account' = account /\ token' = token

DocsTyped == account \in Account /\ token \in [Tokens -> TokenDoc]

(* A token that was never issued is blank, one that was belongs to a family*)
(* whose first token was issued too.                                       *)
TokensFormed ==
  \A t \in Tokens :
    /\ token[t].state = "ABSENT" => token[t] = NoToken
    /\ token[t].state # "ABSENT" =>
         token[t].family \in Tokens /\ token[token[t].family].state # "ABSENT"

(* Before its registration nobody has a token.                             *)
NoneBefore ==
  account.status = "ABSENT" =>
    account.credential = 0 /\ \A t \in Tokens : token[t].state = "ABSENT"

(* The tokens that calls and tabs know of have been issued.                *)
Known == {t \in Tokens : token[t].state # "ABSENT"}

(* A call presents a token that was issued, if its kind presents one; only *)
(* a call of a tab is answered or waits; a sign-in that succeeds has one.  *)
CallFormed(d, K) ==
  /\ d \in Call
  /\ d.pc \in {"answered", "waiting"} => d.tab # None
  /\ d.token # None => d.token \in K
  /\ d.kind \in {"refresh", "logout"} => d.token # None
  /\ (d.kind \in Forms /\ d.pc = "answered" /\ d.status = "ok") => d.token # None
CallsFormed == call \in [Calls -> Call] /\ \A k \in Calls : CallFormed(call[k], Known)

TabFormed(d, K) == d \in TabState /\ (d.refresh # None => d.refresh \in K)
TabsFormed == tab \in [Tabs -> TabState] /\ \A c \in Tabs : TabFormed(tab[c], Known)

AskersFormed == \A a \in Askers : asker[a].pc \in {"mailing", "mailed"} => asker[a].code # None

SessionInv == TokensFormed /\ NoneBefore /\ LiveTokensCurrent /\ OneLivePerFamily

-----------------------------------------------------------------------------
(* Part 2. *)
LEMMA Bounds ==
  /\ MaxCredential \in Nat /\ MaxAttempts \in Nat /\ HourlyLimit \in Nat /\ MaxMishaps \in Nat
  /\ MaxCalls \in Nat /\ MaxTokens \in Nat /\ MaxCodes \in Nat
BY AccountAssumption

LEMMA BlankToken == NoToken.state = "ABSENT" /\ NoToken.family = None
BY DEF NoToken

LEMMA RevokedTokens ==
  ASSUME DocsTyped, NEW S \in SUBSET Tokens
  PROVE  /\ Revoked(S) \in [Tokens -> TokenDoc]
         /\ \A t \in Tokens :
              /\ Revoked(S)[t].family = token[t].family
              /\ Revoked(S)[t].credential = token[t].credential
              /\ token[t].state = "ABSENT" => Revoked(S)[t] = token[t]
              /\ Revoked(S)[t].state = "ABSENT" => token[t].state = "ABSENT"
              /\ Revoked(S)[t].state = "LIVE" <=> token[t].state = "LIVE" /\ t \notin S
BY DEF DocsTyped, Revoked, TokenDoc

(* The effects keep the shape of the tokens, and who has a live one.       *)
LEMMA OpensKeeps ==
  ASSUME DocsTyped, SessionInv, NEW t \in Tokens, Opens(t)
  PROVE  SessionInv'
<1> DEFINE doc == Issued(t, account.credential)
<1>1. /\ token'[t] = doc /\ doc.state = "LIVE" /\ doc.family = t
      /\ doc.credential = account.credential
  BY DEF Opens, DocsTyped, Issued
<1>2. \A u \in Tokens \ {t} : token'[u] = token[u]
  BY DEF Opens, DocsTyped
<1>3. token[t].state = "ABSENT" /\ account'.status = "ACTIVE"
      /\ account'.credential = account.credential
  BY DEF Opens
<1> HIDE DEF doc
<1>4. TokensFormed'
  BY <1>1, <1>2, <1>3 DEF SessionInv, TokensFormed
<1>5. NoneBefore'
  BY <1>3 DEF NoneBefore
<1>6. LiveTokensCurrent'
  BY <1>1, <1>2, <1>3 DEF SessionInv, LiveTokensCurrent, Live
<1>7. \A u \in Tokens \ {t} : token[u].state = "LIVE" => token[u].family # t
  BY <1>3 DEF SessionInv, TokensFormed
<1>8. OneLivePerFamily'
  BY <1>1, <1>2, <1>7 DEF SessionInv, OneLivePerFamily, Live
<1>9. QED
  BY <1>4, <1>5, <1>6, <1>8 DEF SessionInv

LEMMA RotatesKeeps ==
  ASSUME DocsTyped, SessionInv, NEW t \in Tokens, NEW n \in Tokens, Rotates(t, n)
  PROVE  SessionInv'
<1> DEFINE doc == Issued(token[t].family, account.credential)
<1>1. /\ doc.state = "LIVE" /\ doc.family = token[t].family
      /\ doc.credential = account.credential
  BY DEF Issued
<1>2. /\ token[t].state = "LIVE" /\ token[n].state = "ABSENT" /\ account' = account
      /\ t # n
  BY DEF Rotates
<1>3. /\ token'[n] = doc /\ token'[t].state = "REVOKED" /\ token'[t].family = token[t].family
      /\ \A u \in Tokens \ {t, n} : token'[u] = token[u]
  BY <1>2 DEF Rotates, Rotated, DocsTyped, TokenDoc
<1> HIDE DEF doc
<1>4. token[t].family \in Tokens /\ token[token[t].family].state # "ABSENT"
      /\ token[t].family # n
  BY <1>2 DEF SessionInv, TokensFormed
<1>5. TokensFormed'
  BY <1>1, <1>2, <1>3, <1>4 DEF SessionInv, TokensFormed
<1>6. account.status = "ACTIVE"
  BY <1>2 DEF SessionInv, LiveTokensCurrent, Live
<1>7. NoneBefore'
  BY <1>2, <1>6 DEF NoneBefore
<1>8. LiveTokensCurrent'
  BY <1>1, <1>2, <1>3, <1>6 DEF SessionInv, LiveTokensCurrent, Live
<1>9. \A u \in Tokens \ {t, n} : token[u].state = "LIVE" => token[u].family # token[t].family
  BY <1>2 DEF SessionInv, OneLivePerFamily, Live
<1>10. OneLivePerFamily'
  BY <1>1, <1>2, <1>3, <1>9 DEF SessionInv, OneLivePerFamily, Live
<1>11. QED
  BY <1>5, <1>7, <1>8, <1>10 DEF SessionInv

LEMMA EndsKeeps ==
  ASSUME DocsTyped, SessionInv, NEW S \in SUBSET Tokens, Ends(S)
  PROVE  SessionInv'
<1>1. token' = Revoked(S) /\ account' = account
  BY DEF Ends
<1>2. TokensFormed' /\ NoneBefore'
  BY <1>1, RevokedTokens, BlankToken DEF SessionInv, TokensFormed, NoneBefore
<1>3. LiveTokensCurrent'
  BY <1>1, RevokedTokens DEF SessionInv, LiveTokensCurrent, Live
<1>4. OneLivePerFamily'
  BY <1>1, RevokedTokens DEF SessionInv, OneLivePerFamily, Live
<1>5. QED
  BY <1>2, <1>3, <1>4 DEF SessionInv

LEMMA EndsAllKeeps ==
  ASSUME DocsTyped, SessionInv, EndsAll
  PROVE  SessionInv'
<1>1. token' = Revoked(Tokens) /\ account'.status # "ABSENT"
  BY DEF EndsAll
<1>2. Live' = {}
  BY <1>1, RevokedTokens DEF Live
<1>3. TokensFormed' /\ NoneBefore'
  BY <1>1, RevokedTokens, BlankToken DEF SessionInv, TokensFormed, NoneBefore
<1>4. QED
  BY <1>2, <1>3 DEF SessionInv, LiveTokensCurrent, OneLivePerFamily

LEMMA OtherEffectsKeep ==
  ASSUME DocsTyped, SessionInv,
         Unlocks \/ (\E t \in Tokens : Ages(t)) \/ (account' = account /\ token' = token)
  PROVE  SessionInv'
<1>1. CASE Unlocks
  BY <1>1 DEF Unlocks, SessionInv, TokensFormed, NoneBefore, LiveTokensCurrent,
              OneLivePerFamily, Live
<1>2. ASSUME NEW t \in Tokens, Ages(t) PROVE SessionInv'
  <2>1. /\ \A u \in Tokens : /\ token'[u].state = token[u].state
                             /\ token'[u].family = token[u].family
                             /\ token'[u].credential = token[u].credential
        /\ \A u \in Tokens : token[u].state = "ABSENT" => token'[u] = token[u]
        /\ account' = account
    BY <1>2 DEF Ages, DocsTyped, TokenDoc
  <2>2. QED
    BY <2>1
       DEF SessionInv, TokensFormed, NoneBefore, LiveTokensCurrent, OneLivePerFamily, Live
<1>3. CASE account' = account /\ token' = token
  BY <1>3
     DEF SessionInv, TokensFormed, NoneBefore, LiveTokensCurrent, OneLivePerFamily, Live
<1>4. QED
  BY <1>1, <1>2, <1>3

LEMMA EffectKeeps ==
  ASSUME DocsTyped, SessionInv, SessionEffect
  PROVE  SessionInv'
BY OpensKeeps, RotatesKeeps, EndsKeeps, EndsAllKeeps, OtherEffectsKeep DEF SessionEffect

(* A token that was issued stays issued.                                   *)
LEMMA IssuedForGood ==
  ASSUME DocsTyped, SessionEffect, NEW t \in Tokens, token[t].state # "ABSENT"
  PROVE  token'[t].state # "ABSENT"
<1>1. ASSUME NEW u \in Tokens, Opens(u) PROVE token'[t].state # "ABSENT"
  BY <1>1 DEF Opens, DocsTyped
<1>2. ASSUME NEW u \in Tokens, NEW n \in Tokens, Rotates(u, n) PROVE token'[t].state # "ABSENT"
  BY <1>2 DEF Rotates, Rotated, DocsTyped, TokenDoc
<1>3. ASSUME NEW S \in SUBSET Tokens, Ends(S) PROVE token'[t].state # "ABSENT"
  BY <1>3, RevokedTokens DEF Ends
<1>4. CASE EndsAll
  BY <1>4, RevokedTokens DEF EndsAll
<1>5. ASSUME NEW u \in Tokens, Ages(u) PROVE token'[t].state # "ABSENT"
  BY <1>5 DEF Ages, DocsTyped, TokenDoc
<1>6. QED
  BY <1>1, <1>2, <1>3, <1>4, <1>5 DEF SessionEffect, Unlocks

-----------------------------------------------------------------------------
(* Part 3. *)
LEMMA IssuedTyped ==
  ASSUME NEW f \in Tokens, NEW c \in Credentials
  PROVE  Issued(f, c) \in TokenDoc
BY DEF Issued, TokenDoc

LEMMA OpenFamilyEffect ==
  ASSUME DocsTyped, NEW k \in Calls, OpenFamily(k, account.credential),
         account.status # "LOCKED", account'.status = "ACTIVE",
         account'.credential = account.credential
  PROVE  SessionEffect /\ token' \in [Tokens -> TokenDoc]
<1>1. PICK t \in Tokens : Fresh(t) /\ token' = [token EXCEPT ![t] = Issued(t, account.credential)]
  BY DEF OpenFamily
<1>2. Opens(t)
  BY <1>1 DEF Opens, Fresh
<1>3. account.credential \in Credentials
  BY DEF DocsTyped, Account
<1>4. token' \in [Tokens -> TokenDoc]
  BY <1>1, <1>3, IssuedTyped DEF DocsTyped
<1>5. QED
  BY <1>2, <1>4 DEF SessionEffect

LEMMA SetPasswordEffect ==
  ASSUME DocsTyped, SetPassword, account.status = "ACTIVE"
  PROVE  SessionEffect /\ DocsTyped'
<1>1. account' \in Account /\ account'.credential = account.credential + 1
      /\ account'.status = "ACTIVE"
  <2>1. account.credential + 1 \in Credentials
    BY Bounds DEF SetPassword, CredentialsLeft, DocsTyped, Account, Credentials
  <2>2. QED
    BY <2>1 DEF SetPassword, DocsTyped, Account
<1>2. token' = Revoked(Tokens)
  BY DEF SetPassword
<1>3. EndsAll
  BY <1>1, <1>2 DEF EndsAll
<1>4. QED
  BY <1>1, <1>2, <1>3, RevokedTokens DEF SessionEffect, DocsTyped

LEMMA NoEffect ==
  ASSUME DocsTyped, UNCHANGED sessionVars
  PROVE  SessionEffect /\ DocsTyped'
BY DEF sessionVars, SessionEffect, DocsTyped

LEMMA PasswordAccountTyped == PasswordAccount \in Account /\ GoogleAccount \in Account
                              /\ PasswordAccount.status = "ACTIVE" /\ GoogleAccount.status = "ACTIVE"
                              /\ PasswordAccount.credential = 0 /\ GoogleAccount.credential = 0
<1>1. 0 \in Credentials
  BY Bounds DEF Credentials
<1>2. QED
  BY <1>1 DEF PasswordAccount, GoogleAccount, Account

LEMMA RefreshEffect ==
  ASSUME DocsTyped, CallsFormed, NEW k \in Calls, RefreshAuthTokens(k)
  PROVE  SessionEffect /\ DocsTyped'
<1> DEFINE t == call[k].token
<1>1. t \in Tokens /\ token[t].state # "ABSENT" /\ account' = account
  BY DEF RefreshAuthTokens, Arrived, CallsFormed, CallFormed, Known
<1>2. \/ UNCHANGED sessionVars
      \/ token' = Revoked(FamilyOf(t))
      \/ token[t].state # "REVOKED" /\ \E n \in Tokens : Fresh(n) /\ token' = Rotated(t, n)
  BY <1>1 DEF RefreshAuthTokens, Refuse, Reused, sessionVars
<1> HIDE DEF t
<1>3. CASE UNCHANGED sessionVars
  BY <1>3, NoEffect
<1>4. CASE token' = Revoked(FamilyOf(t))
  <2>1. FamilyOf(t) \in SUBSET Tokens
    BY DEF FamilyOf
  <2>2. Ends(FamilyOf(t)) /\ token' \in [Tokens -> TokenDoc]
    BY <1>1, <1>4, <2>1, RevokedTokens DEF Ends
  <2>3. QED
    BY <1>1, <2>1, <2>2 DEF SessionEffect, DocsTyped
<1>5. ASSUME NEW n \in Tokens, Fresh(n), token' = Rotated(t, n), token[t].state # "REVOKED"
      PROVE  SessionEffect /\ DocsTyped'
  <2>1. token[t].state = "LIVE"
    BY <1>1, <1>5 DEF DocsTyped, TokenDoc
  <2>2. t # n
    BY <2>1, <1>5 DEF Fresh
  <2>3. token[t].family \in Tokens \cup {None}
    BY <1>1 DEF DocsTyped, TokenDoc
  <2>4. Issued(token[t].family, account.credential) \in TokenDoc
    BY <2>3 DEF Issued, TokenDoc, DocsTyped, Account
  <2>5. token' \in [Tokens -> TokenDoc]
    BY <1>1, <1>5, <2>2, <2>4 DEF Rotated, DocsTyped, TokenDoc
  <2>6. Rotates(t, n)
    BY <1>1, <1>5, <2>1 DEF Rotates, Fresh
  <2>7. QED
    BY <1>1, <2>5, <2>6 DEF SessionEffect, DocsTyped
<1>6. QED
  BY <1>2, <1>3, <1>4, <1>5

LEMMA LogoutEffect ==
  ASSUME DocsTyped, CallsFormed, NEW k \in Calls, LogoutUser(k)
  PROVE  SessionEffect /\ DocsTyped'
<1> DEFINE t == call[k].token
<1>1. t \in Tokens /\ token[t].state # "ABSENT" /\ account' = account
  BY DEF LogoutUser, Arrived, CallsFormed, CallFormed, Known
<1>2. UNCHANGED sessionVars \/ token' = [token EXCEPT ![t].state = "REVOKED"]
  BY <1>1 DEF LogoutUser, Refuse, sessionVars
<1> HIDE DEF t
<1>3. ASSUME token' = [token EXCEPT ![t].state = "REVOKED"]
      PROVE  token' = Revoked({t})
  <2>1. CASE token[t].state = "LIVE"
    BY <1>1, <1>3, <2>1 DEF Revoked, DocsTyped
  <2>2. CASE token[t].state = "REVOKED"
    BY <1>1, <1>3, <2>2 DEF Revoked, DocsTyped, TokenDoc
  <2>3. QED
    BY <1>1, <2>1, <2>2 DEF DocsTyped, TokenDoc
<1>4. CASE token' = Revoked({t})
  <2>1. {t} \in SUBSET Tokens
    BY <1>1
  <2>2. Ends({t}) /\ token' \in [Tokens -> TokenDoc]
    BY <1>1, <1>4, <2>1, RevokedTokens DEF Ends
  <2>3. QED
    BY <1>1, <2>1, <2>2 DEF SessionEffect, DocsTyped
<1>5. QED
  BY <1>2, <1>3, <1>4, NoEffect

LEMMA ServeEffect ==
  ASSUME DocsTyped, SessionInv, CallsFormed, NEW k \in Calls, Serve(k)
  PROVE  SessionEffect /\ DocsTyped'
<1>1. CASE Register(k)
  <2>1. CASE account.status = "ABSENT"
    <3>1. account' = PasswordAccount /\ OpenFamily(k, account.credential) /\ account.credential = 0
      BY <1>1, <2>1 DEF Register, SessionInv, NoneBefore
    <3>2. QED
      BY <3>1, <2>1, PasswordAccountTyped, OpenFamilyEffect DEF DocsTyped
  <2>2. QED
    BY <1>1, <2>1, NoEffect DEF Register, Refuse
<1>2. CASE OpenSession(k)
  BY <1>2, OpenFamilyEffect, NoEffect DEF OpenSession, Refuse, DocsTyped
<1>3. CASE LoginWithGoogle(k)
  <2>1. CASE account.status \in {"ABSENT", "ACTIVE"} /\ OpenFamily(k, account.credential)
             /\ account' = IF account.status = "ABSENT" THEN GoogleAccount
                           ELSE [account EXCEPT !.google = TRUE]
    <3>1. account' \in Account /\ account'.status = "ACTIVE"
          /\ account'.credential = account.credential
      BY <2>1, PasswordAccountTyped DEF SessionInv, NoneBefore, DocsTyped, Account
    <3>2. QED
      BY <2>1, <3>1, OpenFamilyEffect DEF DocsTyped
  <2>2. QED
    BY <1>3, <2>1, NoEffect DEF LoginWithGoogle, Refuse
<1>4. CASE ChangePassword(k)
  BY <1>4, SetPasswordEffect, NoEffect DEF ChangePassword, Refuse
<1>5. CASE CheckPassword(k) \/ ServeApi(k) \/ CheckCurrentPassword(k)
  <2>1. UNCHANGED sessionVars
    BY <1>5 DEF CheckPassword, ServeApi, CheckCurrentPassword, Refuse
  <2>2. QED
    BY <2>1, NoEffect
<1>6. QED
  BY <1>1, <1>2, <1>3, <1>4, <1>5, RefreshEffect, LogoutEffect DEF Serve

LEMMA AdministrateEffect ==
  ASSUME DocsTyped, Administrate
  PROVE  SessionEffect /\ DocsTyped'
<1>1. CASE LockUser
  <2>1. account' \in Account /\ account'.credential = account.credential + 1
        /\ account'.status = "LOCKED" /\ account.status # "ABSENT"
    <3>1. account.credential + 1 \in Credentials
      BY <1>1, Bounds DEF LockUser, CredentialsLeft, DocsTyped, Account, Credentials
    <3>2. QED
      BY <1>1, <3>1 DEF LockUser, DocsTyped, Account
  <2>2. token' = Revoked(Tokens)
    BY <1>1 DEF LockUser
  <2>3. EndsAll
    BY <2>1, <2>2 DEF EndsAll
  <2>4. QED
    BY <2>1, <2>2, <2>3, RevokedTokens DEF SessionEffect, DocsTyped
<1>2. CASE UnlockUser
  BY <1>2 DEF UnlockUser, Unlocks, SessionEffect, DocsTyped, Account
<1>3. ASSUME NEW t \in Tokens, TokenExpires(t) PROVE SessionEffect /\ DocsTyped'
  <2>1. Ages(t)
    BY <1>3 DEF TokenExpires, Ages
  <2>2. DocsTyped'
    BY <1>3 DEF TokenExpires, DocsTyped, TokenDoc
  <2>3. QED
    BY <2>1, <2>2 DEF SessionEffect
<1>4. QED
  BY <1>1, <1>2, <1>3 DEF Administrate

LEMMA RecoverEffect ==
  ASSUME DocsTyped, Recover
  PROVE  SessionEffect /\ DocsTyped'
<1>1. ASSUME NEW a \in Askers, AcquireReservation(a) \/ AskerStep(a) \/ AskerCrash(a)
      PROVE  UNCHANGED sessionVars
  BY <1>1 DEF AcquireReservation, AskerStep, AskerCrash, FindUser, CreateCode, SendMail,
              MailRefused, MarkSent, MarkFailed, ReleaseReservation, sessionVars
<1>2. ASSUME NEW r \in Resetters, MatchCode(r) \/ CountAttempt(r)
      PROVE  UNCHANGED sessionVars
  BY <1>2 DEF MatchCode, CountAttempt, sessionVars
<1>3. ASSUME NEW r \in Resetters, ConsumeCode(r)
      PROVE  SessionEffect /\ DocsTyped'
  BY <1>3, SetPasswordEffect, NoEffect DEF ConsumeCode, sessionVars
<1>4. CASE CooldownEnds \/ HourPasses \/ \E n \in Codes : CodeExpires(n)
  <2>1. UNCHANGED sessionVars
    BY <1>4 DEF CooldownEnds, HourPasses, CodeExpires, sessionVars
  <2>2. QED
    BY <2>1, NoEffect
<1>5. QED
  BY <1>1, <1>2, <1>3, <1>4, NoEffect DEF Recover, ResetterStep

(* The browser touches no document.                                        *)
LEMMA ClientEffect ==
  ASSUME DocsTyped, Browse \/ \E k \in Calls : Deliver(k)
  PROVE  UNCHANGED <<account, token, rate, code, mailbox, asker, resetter>>
<1>1. ASSUME NEW k \in Calls, Deliver(k) PROVE Keeping
  BY <1>1 DEF Deliver, Receive, CallFails
<1>2. CASE Browse
  <2>1. Keeping
    BY <1>2 DEF Browse, SubmitLogin, SubmitRegistration, PressGoogle, SubmitForm, AskData,
                LoadProfile, SubmitChange, CallApi, Logout, Reload, Bootstrap,
                AccessExpires, DuplicateTab
  <2>2. QED
    BY <2>1 DEF Keeping
<1>3. QED
  BY <1>1, <1>2 DEF Keeping

LEMMA StepEffect ==
  ASSUME DocsTyped, SessionInv, CallsFormed, [Next]_vars
  PROVE  SessionEffect /\ DocsTyped'
<1>1. CASE Browse \/ \E k \in Calls : Deliver(k)
  BY <1>1, ClientEffect, NoEffect DEF sessionVars
<1>2. CASE UNCHANGED vars
  BY <1>2, NoEffect DEF vars, sessionVars
<1>3. QED
  BY <1>1, <1>2, ServeEffect, AdministrateEffect, RecoverEffect DEF Next

-----------------------------------------------------------------------------
(* Part 4. *)
LEMMA KnownGrows ==
  ASSUME DocsTyped, SessionEffect
  PROVE  Known \subseteq Known'
BY IssuedForGood DEF Known

LEMMA FreeCallFormed == \A K : CallFormed(FreeCall, K)
<1>1. FreeCall \in Call
  BY DEF FreeCall, Call
<1>2. FreeCall.pc = "free" /\ FreeCall.token = None /\ FreeCall.kind = None
  BY DEF FreeCall
<1>3. FreeCall.kind \notin {"refresh", "logout"}
  BY <1>1, <1>2, AccountAssumption DEF Kinds
<1>4. QED
  BY <1>1, <1>2, <1>3 DEF CallFormed

LEMMA CallStaysFormed ==
  ASSUME NEW K, NEW L, K \subseteq L, NEW d, CallFormed(d, K)
  PROVE  CallFormed(d, L)
BY DEF CallFormed

LEMMA CallsStayFormed ==
  ASSUME CallsFormed, Known \subseteq Known', call' = call
  PROVE  CallsFormed'
BY DEF CallsFormed, CallFormed

LEMMA TabsStayFormed ==
  ASSUME TabsFormed, Known \subseteq Known', tab' = tab
  PROVE  TabsFormed'
BY DEF TabsFormed, TabFormed

(* One call changes.                                                       *)
LEMMA PutCall ==
  ASSUME CallsFormed, Known \subseteq Known', NEW x, NEW d, CallFormed(d, Known'),
         call' = [call EXCEPT ![x] = d]
  PROVE  CallsFormed'
<1>1. d \in Call
  BY DEF CallFormed
<1>2. call' \in [Calls -> Call]
  BY <1>1 DEF CallsFormed
<1>3. \A k \in Calls : call'[k] = call[k] \/ call'[k] = d
  BY DEF CallsFormed
<1>4. ASSUME NEW k \in Calls PROVE CallFormed(call'[k], Known')
  BY <1>3, CallStaysFormed DEF CallsFormed
<1>5. QED
  BY <1>2, <1>4 DEF CallsFormed

LEMMA PutTab ==
  ASSUME TabsFormed, Known \subseteq Known', NEW x, NEW d, TabFormed(d, Known'),
         tab' = [tab EXCEPT ![x] = d]
  PROVE  TabsFormed'
<1>1. d \in TabState
  BY DEF TabFormed
<1>2. tab' \in [Tabs -> TabState]
  BY <1>1 DEF TabsFormed
<1>3. \A k \in Tabs : tab'[k] = tab[k] \/ tab'[k] = d
  BY DEF TabsFormed
<1>4. ASSUME NEW k \in Tabs PROVE TabFormed(tab'[k], Known')
  BY <1>3 DEF TabsFormed, TabFormed
<1>5. QED
  BY <1>2, <1>4 DEF TabsFormed

(* The server answers.                                                     *)
LEMMA AnsweredFormed ==
  ASSUME CallsFormed, Known \subseteq Known', NEW k \in Calls,
         NEW status \in {"ok", "unauthorized", "denied"},
         call[k].kind \in Forms => status # "ok", Answered(k, status)
  PROVE  CallsFormed'
<1> DEFINE d == IF call[k].tab = None THEN FreeCall
               ELSE [call[k] EXCEPT !.pc = "answered", !.status = status, !.credential = None]
<1>1. call' = [call EXCEPT ![k] = d]
  BY DEF Answered
<1>2. CallFormed(call[k], Known)
  BY DEF CallsFormed
<1>3. ASSUME NEW c \in Call, CallFormed(c, Known), c.tab # None, c.kind \in Forms => status # "ok"
      PROVE  CallFormed([c EXCEPT !.pc = "answered", !.status = status, !.credential = None], Known)
  BY <1>3 DEF CallFormed, Call
<1>4. call[k] \in Call
  BY DEF CallsFormed
<1>5. CallFormed(d, Known)
  BY <1>2, <1>3, <1>4, FreeCallFormed
<1>6. CallFormed(d, Known')
  BY <1>5, CallStaysFormed
<1> HIDE DEF d
<1>7. QED
  BY <1>1, <1>6, PutCall

LEMMA AnsweredWithFormed ==
  ASSUME CallsFormed, Known \subseteq Known', NEW k \in Calls,
         NEW t \in Tokens, t \in Known', AnsweredWith(k, t)
  PROVE  CallsFormed'
<1> DEFINE d == IF call[k].tab = None THEN FreeCall
               ELSE [call[k] EXCEPT !.pc = "answered", !.status = "ok", !.credential = None,
                                    !.token = t]
<1>1. call' = [call EXCEPT ![k] = d]
  BY DEF AnsweredWith
<1>2. CallFormed(call[k], Known)
  BY DEF CallsFormed
<1>3. ASSUME NEW c \in Call, c.tab # None, NEW K, t \in K
      PROVE  CallFormed([c EXCEPT !.pc = "answered", !.status = "ok", !.credential = None,
                                  !.token = t], K)
  BY <1>3, AccountAssumption DEF CallFormed, Call
<1>4. call[k] \in Call
  BY DEF CallsFormed
<1>5. CallFormed(d, Known')
  BY <1>3, <1>4, FreeCallFormed
<1> HIDE DEF d
<1>6. QED
  BY <1>1, <1>5, PutCall

LEMMA OpenFamilyCalls ==
  ASSUME DocsTyped, CallsFormed, SessionEffect, NEW k \in Calls, OpenFamily(k, account.credential)
  PROVE  CallsFormed'
<1>1. PICK t \in Tokens : /\ token' = [token EXCEPT ![t] = Issued(t, account.credential)]
                          /\ AnsweredWith(k, t)
  BY DEF OpenFamily
<1>2. t \in Known'
  BY <1>1 DEF Known, DocsTyped, Issued
<1>3. QED
  BY <1>1, <1>2, KnownGrows, AnsweredWithFormed

LEMMA RefuseCalls ==
  ASSUME CallsFormed, NEW k \in Calls, NEW status \in {"ok", "unauthorized", "denied"},
         call[k].kind \in Forms => status # "ok", Refuse(k, status)
  PROVE  CallsFormed'
<1>1. Known \subseteq Known'
  BY DEF Refuse, sessionVars, Known
<1>2. QED
  BY <1>1, AnsweredFormed DEF Refuse

LEMMA CheckedFormed ==
  ASSUME CallsFormed, NEW k \in Calls, NEW h \in Credentials \cup {None}, UNCHANGED sessionVars,
         \/ call' = [call EXCEPT ![k].pc = "checked"]
         \/ call' = [call EXCEPT ![k].pc = "checked", ![k].credential = h]
  PROVE  CallsFormed'
<1>1. Known \subseteq Known'
  BY DEF sessionVars, Known
<1>2. ASSUME NEW c \in Call, NEW K, CallFormed(c, K)
      PROVE  /\ CallFormed([c EXCEPT !.pc = "checked"], K)
             /\ CallFormed([c EXCEPT !.pc = "checked", !.credential = h], K)
  BY <1>2 DEF CallFormed, Call
<1>3. call[k] \in Call /\ CallFormed(call[k], Known')
  BY <1>1, CallStaysFormed DEF CallsFormed
<1>4. CASE call' = [call EXCEPT ![k].pc = "checked"]
  <2>1. call' = [call EXCEPT ![k] = [call[k] EXCEPT !.pc = "checked"]]
    BY <1>4
  <2>2. QED
    BY <1>1, <1>2, <1>3, <2>1, PutCall
<1>5. CASE call' = [call EXCEPT ![k].pc = "checked", ![k].credential = h]
  <2>1. call' = [call EXCEPT ![k] = [call[k] EXCEPT !.pc = "checked", !.credential = h]]
    BY <1>5 DEF CallsFormed
  <2>2. QED
    BY <1>1, <1>2, <1>3, <2>1, PutCall
<1>6. QED
  BY <1>4, <1>5

LEMMA ServeCalls ==
  ASSUME DocsTyped, SessionInv, CallsFormed, NEW k \in Calls, Serve(k)
  PROVE  CallsFormed'
<1>1. SessionEffect /\ Known \subseteq Known'
  BY ServeEffect, KnownGrows
<1>2. "denied" # "ok" /\ "unauthorized" # "ok"
  OBVIOUS
<1>3. CASE Register(k)
  <2>1. CASE account.status = "ABSENT"
    BY <1>1, <1>3, <2>1, OpenFamilyCalls DEF Register, SessionInv, NoneBefore
  <2>2. QED
    BY <1>2, <1>3, <2>1, RefuseCalls DEF Register
<1>4. CASE CheckPassword(k)
  BY <1>2, <1>4, RefuseCalls, CheckedFormed DEF CheckPassword
<1>5. CASE OpenSession(k)
  BY <1>1, <1>2, <1>5, OpenFamilyCalls, RefuseCalls DEF OpenSession
<1>6. CASE LoginWithGoogle(k)
  BY <1>1, <1>2, <1>6, OpenFamilyCalls, RefuseCalls DEF LoginWithGoogle
<1>7. CASE RefreshAuthTokens(k)
  <2>1. \/ Refuse(k, "unauthorized") \/ Refuse(k, "denied") \/ Answered(k, "unauthorized")
        \/ \E n \in Tokens : token' = Rotated(call[k].token, n) /\ AnsweredWith(k, n)
    BY <1>7 DEF RefreshAuthTokens
  <2>2. ASSUME NEW n \in Tokens, token' = Rotated(call[k].token, n), AnsweredWith(k, n)
        PROVE  CallsFormed'
    <3>1. n \in Known'
      BY <2>2 DEF Known, Rotated, DocsTyped, Issued, TokenDoc
    <3>2. QED
      BY <1>1, <2>2, <3>1, AnsweredWithFormed
  <2>3. QED
    BY <1>1, <1>2, <2>1, <2>2, AnsweredFormed, RefuseCalls
<1>8. CASE LogoutUser(k)
  <2>1. call[k].kind \notin Forms
    BY <1>8 DEF LogoutUser, Arrived, Forms
  <2>2. \/ Refuse(k, "unauthorized") \/ Answered(k, "ok")
    BY <1>8 DEF LogoutUser
  <2>3. QED
    BY <1>1, <2>1, <2>2, AnsweredFormed, RefuseCalls
<1>9. CASE ServeApi(k)
  <2>1. call[k].kind \notin Forms
    BY <1>9 DEF ServeApi, Arrived, Forms
  <2>2. \E st \in {"ok", "unauthorized", "denied"} : Refuse(k, st)
    BY <1>9 DEF ServeApi, Rejection
  <2>3. QED
    BY <2>1, <2>2, RefuseCalls
<1>10. CASE CheckCurrentPassword(k)
  <2>1. call[k].kind \notin Forms
    BY <1>10 DEF CheckCurrentPassword, Arrived, Forms
  <2>2. \/ \E st \in {"unauthorized", "denied"} : Refuse(k, st)
        \/ /\ call' = [call EXCEPT ![k].pc = "checked", ![k].credential = account.hash]
           /\ UNCHANGED sessionVars
    BY <1>10 DEF CheckCurrentPassword, Rejection
  <2>3. account.hash \in Credentials \cup {None}
    BY DEF DocsTyped, Account
  <2>4. QED
    BY <2>1, <2>2, <2>3, RefuseCalls, CheckedFormed
<1>11. CASE ChangePassword(k)
  <2>1. call[k].kind \notin Forms
    BY <1>11 DEF ChangePassword, Forms
  <2>2. \/ \E st \in {"unauthorized", "denied"} : Refuse(k, st)
        \/ Answered(k, "ok")
    BY <1>11 DEF ChangePassword
  <2>3. QED
    BY <1>1, <2>1, <2>2, RefuseCalls, AnsweredFormed
<1>12. QED
  BY <1>3, <1>4, <1>5, <1>6, <1>7, <1>8, <1>9, <1>10, <1>11 DEF Serve

(* What a tab sends, and what becomes of it.                               *)
LEMMA SentFormed ==
  ASSUME TabsFormed, NEW c \in Tabs, NEW kind \in Kinds, NEW t \in Tokens \cup {None},
         t # None => t \in Known, kind \in {"refresh", "logout"} => t # None
  PROVE  CallFormed(Sent(c, kind, t), Known)
<1>1. tab[c].access \in Credentials \cup {None, Expired}
  BY DEF TabsFormed, TabFormed, TabState
<1>2. Sent(c, kind, t) \in Call
  BY <1>1 DEF Sent, Call
<1>3. /\ Sent(c, kind, t).pc = "sent" /\ Sent(c, kind, t).token = t
      /\ Sent(c, kind, t).kind = kind
  BY DEF Sent
<1>4. QED
  BY <1>2, <1>3 DEF CallFormed

LEMMA TabToken ==
  ASSUME TabsFormed, NEW c \in Tabs, tab[c].refresh # None
  PROVE  tab[c].refresh \in Tokens /\ tab[c].refresh \in Known
BY DEF TabsFormed, TabFormed, TabState

LEMMA SignedOutFormed ==
  ASSUME TabsFormed, NEW c \in Tabs, Known \subseteq Known', tab' = SignedOut(c)
  PROVE  TabsFormed'
<1>1. ASSUME NEW d \in TabState, NEW K
      PROVE  TabFormed([d EXCEPT !.refresh = None, !.access = None, !.user = FALSE], K)
  BY DEF TabFormed, TabState
<1>2. tab[c] \in TabState
  BY DEF TabsFormed
<1>3. tab' = [tab EXCEPT ![c] = [tab[c] EXCEPT !.refresh = None, !.access = None, !.user = FALSE]]
  BY DEF SignedOut, TabsFormed
<1>4. QED
  BY <1>1, <1>2, <1>3, PutTab

LEMMA SignedInFormed ==
  ASSUME DocsTyped, TabsFormed, NEW c \in Tabs, NEW t \in Known, Known \subseteq Known',
         tab' = SignedIn(c, t)
  PROVE  TabsFormed'
<1>1. [refresh |-> t, access |-> token[t].credential, user |-> TRUE, ready |-> TRUE] \in TabState
  BY DEF DocsTyped, TokenDoc, TabState, Known
<1>2. TabFormed([refresh |-> t, access |-> token[t].credential, user |-> TRUE, ready |-> TRUE], Known')
  BY <1>1 DEF TabFormed
<1>3. QED
  BY <1>2, PutTab DEF SignedIn

ClientFormed == CallsFormed /\ TabsFormed

LEMMA AwaitFormed ==
  ASSUME ClientFormed, Known \subseteq Known', NEW k \in Calls, NEW c \in Tabs,
         call[k].tab = c, call[k].kind \notin Forms, NEW rest, CallFormed(rest, Known),
         AwaitRefresh(c, k, rest)
  PROVE  ClientFormed'
<1> DEFINE wait == [call[k] EXCEPT !.pc = "waiting", !.status = None]
<1>1. call[k] \in Call /\ CallFormed(call[k], Known) /\ call[k].tab # None
  BY AccountAssumption DEF ClientFormed, CallsFormed
<1>2. ASSUME NEW d \in Call, CallFormed(d, Known), d.tab # None
      PROVE  CallFormed([d EXCEPT !.pc = "waiting", !.status = None], Known)
  BY <1>2 DEF CallFormed, Call
<1>3. CallFormed(wait, Known)
  BY <1>1, <1>2
<1>4. CASE Pending(c, {"refresh"}) # {}
  <2>1. call' = [call EXCEPT ![k] = wait] /\ tab' = tab
    BY <1>4 DEF AwaitRefresh, ClientFormed, CallsFormed
  <2>2. CallFormed(wait, Known')
    BY <1>3, CallStaysFormed
  <2> HIDE DEF wait
  <2>3. QED
    BY <2>1, <2>2, PutCall, TabsStayFormed DEF ClientFormed
<1>5. CASE Pending(c, {"refresh"}) = {} /\ tab[c].refresh = None
  <2>1. call' = [call EXCEPT ![k] = rest] /\ tab' = SignedOut(c)
    BY <1>5 DEF AwaitRefresh
  <2>2. CallFormed(rest, Known')
    BY CallStaysFormed
  <2>3. QED
    BY <2>1, <2>2, PutCall, SignedOutFormed DEF ClientFormed
<1>6. CASE Pending(c, {"refresh"}) = {} /\ tab[c].refresh # None
  <2> DEFINE sent == Sent(c, "refresh", tab[c].refresh)
  <2>1. call' = [call EXCEPT ![k] = wait, ![NextFree] = sent] /\ tab' = tab
    BY <1>6 DEF AwaitRefresh, ClientFormed, CallsFormed
  <2>2. CallFormed(sent, Known)
    BY <1>6, TabToken, SentFormed DEF ClientFormed, Kinds
  <2> HIDE DEF wait, sent
  <2>3. wait \in Call /\ sent \in Call
    BY <1>3, <2>2 DEF CallFormed
  <2>4. call' \in [Calls -> Call]
    BY <2>1, <2>3 DEF ClientFormed, CallsFormed
  <2>5. \A j \in Calls : call'[j] = call[j] \/ call'[j] = wait \/ call'[j] = sent
    BY <2>1 DEF ClientFormed, CallsFormed
  <2>6. \A j \in Calls : CallFormed(call'[j], Known')
    BY <1>3, <2>2, <2>5, CallStaysFormed DEF ClientFormed, CallsFormed
  <2>7. QED
    BY <2>1, <2>4, <2>6, TabsStayFormed DEF ClientFormed, CallsFormed
<1>7. QED
  BY <1>4, <1>5, <1>6

LEMMA ResentFormed ==
  ASSUME NEW d \in Call, NEW K, CallFormed(d, K), NEW a \in Credentials \cup {None, Expired}
  PROVE  CallFormed([d EXCEPT !.pc = "sent", !.retry = FALSE, !.credential = a], K)
<1> DEFINE e == [d EXCEPT !.pc = "sent", !.retry = FALSE, !.credential = a]
<1>1. e \in Call
  BY DEF Call
<1>2. e.pc = "sent" /\ e.token = d.token /\ e.kind = d.kind
  BY DEF Call
<1> HIDE DEF e
<1>3. CallFormed(e, K)
  BY <1>1, <1>2 DEF CallFormed
<1>4. QED
  BY <1>3 DEF e

LEMMA RefreshEndsFormed ==
  ASSUME DocsTyped, ClientFormed, Known \subseteq Known', NEW k \in Calls, NEW c \in Tabs,
         NEW ok \in BOOLEAN, ok => call[k].token \in Known,
         NEW rest, CallFormed(rest, Known), RefreshEnds(c, k, ok, rest)
  PROVE  ClientFormed'
<1>1. PICK after : /\ after = IF ok THEN SignedIn(c, call[k].token) ELSE SignedOut(c)
                   /\ tab' = [after EXCEPT ![c].ready = TRUE]
                   /\ call' = [j \in Calls |->
                        IF j = k THEN rest
                        ELSE IF call[j].tab = c /\ call[j].pc = "waiting"
                        THEN IF ok THEN [call[j] EXCEPT !.pc = "sent", !.retry = FALSE,
                                                        !.credential = after[c].access]
                             ELSE FreeCall
                        ELSE call[j]]
  BY DEF RefreshEnds
<1>2. PICK doc : after = [tab EXCEPT ![c] = doc] /\ TabFormed(doc, Known)
  <2>1. CASE ok
    <3>1. call[k].token \in Tokens /\ token[call[k].token].credential \in Credentials
      BY <2>1 DEF DocsTyped, TokenDoc, Known
    <3> DEFINE doc == [refresh |-> call[k].token, access |-> token[call[k].token].credential,
                       user |-> TRUE, ready |-> TRUE]
    <3>2. doc \in TabState
      BY <3>1 DEF TabState
    <3>3. TabFormed(doc, Known)
      BY <2>1, <3>2 DEF TabFormed
    <3>4. after = [tab EXCEPT ![c] = doc]
      BY <1>1, <2>1 DEF SignedIn
    <3>5. QED
      BY <3>3, <3>4
  <2>2. CASE ~ ok
    <3>1. ASSUME NEW d \in TabState
          PROVE  TabFormed([d EXCEPT !.refresh = None, !.access = None, !.user = FALSE], Known)
      BY DEF TabFormed, TabState
    <3>2. tab[c] \in TabState
      BY DEF ClientFormed, TabsFormed
    <3>3. after = [tab EXCEPT ![c] = [tab[c] EXCEPT !.refresh = None, !.access = None,
                                                    !.user = FALSE]]
      BY <1>1, <2>2 DEF SignedOut, ClientFormed, TabsFormed
    <3>4. QED
      BY <3>1, <3>2, <3>3
  <2>3. QED
    BY <2>1, <2>2
<1>3. TabsFormed'
  <2>1. ASSUME NEW d \in TabState, TabFormed(d, Known)
        PROVE  TabFormed([d EXCEPT !.ready = TRUE], Known')
    BY <2>1 DEF TabFormed, TabState
  <2>2. doc \in TabState
    BY <1>2 DEF TabFormed
  <2>3. tab' = [tab EXCEPT ![c] = [doc EXCEPT !.ready = TRUE]]
    BY <1>1, <1>2 DEF ClientFormed, TabsFormed
  <2>4. QED
    BY <1>2, <2>1, <2>2, <2>3, PutTab DEF ClientFormed
<1>4. after[c].access \in Credentials \cup {None, Expired}
  BY <1>2 DEF TabFormed, TabState, ClientFormed, TabsFormed
<1>6. \A j \in Calls : call[j] \in Call /\ CallFormed(call[j], Known)
  BY DEF ClientFormed, CallsFormed
<1>7. \A j \in Calls : CallFormed(call'[j], Known)
  BY <1>1, <1>4, <1>6, ResentFormed, FreeCallFormed
<1>8. \A j \in Calls : call'[j] \in Call
  BY <1>7 DEF CallFormed
<1>9. call' \in [Calls -> Call]
  BY <1>1, <1>8
<1>10. QED
  BY <1>3, <1>7, <1>9, CallStaysFormed DEF ClientFormed, CallsFormed

LEMMA SettleFormed ==
  ASSUME DocsTyped, ClientFormed, Known \subseteq Known', NEW k \in Calls, NEW c \in Tabs,
         call[k].tab = c, NEW status \in {"ok", "unauthorized", "denied", None},
         (status = "ok" /\ call[k].kind \in Forms \cup {"refresh"}) => call[k].token \in Known,
         NEW rest, CallFormed(rest, Known), Settle(c, k, status, rest)
  PROVE  ClientFormed'
<1>1. CallFormed(rest, Known')
  BY CallStaysFormed
<1>2. CASE call[k].kind \in Forms
  <2>1. call' = [call EXCEPT ![k] = rest]
        /\ tab' = IF status = "ok" THEN SignedIn(c, call[k].token) ELSE tab
    BY <1>2 DEF Settle, Forms
  <2>2. QED
    BY <1>1, <1>2, <2>1, PutCall, SignedInFormed, TabsStayFormed DEF ClientFormed
<1>3. CASE call[k].kind = "refresh"
  <2>1. RefreshEnds(c, k, status = "ok", rest)
    BY <1>3 DEF Settle, Forms
  <2>2. (status = "ok") \in BOOLEAN
    OBVIOUS
  <2>3. QED
    BY <1>3, <2>1, <2>2, RefreshEndsFormed
<1>4. CASE call[k].kind = "logout"
  <2>1. call' = [call EXCEPT ![k] = rest] /\ tab' = SignedOut(c)
    BY <1>4 DEF Settle, Forms
  <2>2. QED
    BY <1>1, <2>1, PutCall, SignedOutFormed DEF ClientFormed
<1>5. CASE call[k].kind \notin Forms \cup {"refresh", "logout"}
  <2>1. \/ AwaitRefresh(c, k, rest)
        \/ /\ call' = [call EXCEPT ![k] = rest]
           /\ \/ tab' = SignedOut(c) \/ tab' = tab
              \/ tab' = [tab EXCEPT ![c].user = TRUE]
    BY <1>5 DEF Settle, Forms
  <2>2. ASSUME tab' = [tab EXCEPT ![c].user = TRUE] PROVE TabsFormed'
    <3>1. ASSUME NEW d \in TabState, TabFormed(d, Known)
          PROVE  TabFormed([d EXCEPT !.user = TRUE], Known')
      BY <3>1 DEF TabFormed, TabState
    <3>2. tab[c] \in TabState /\ TabFormed(tab[c], Known)
      BY DEF ClientFormed, TabsFormed
    <3>3. tab' = [tab EXCEPT ![c] = [tab[c] EXCEPT !.user = TRUE]]
      BY <2>2 DEF ClientFormed, TabsFormed
    <3>4. QED
      BY <3>1, <3>2, <3>3, PutTab DEF ClientFormed
  <2>3. QED
    BY <1>1, <1>5, <2>1, <2>2, AwaitFormed, PutCall, SignedOutFormed, TabsStayFormed
       DEF ClientFormed
<1>6. QED
  BY <1>2, <1>3, <1>4, <1>5

LEMMA DeliverFormed ==
  ASSUME DocsTyped, ClientFormed, Known \subseteq Known', NEW k \in Calls, Deliver(k)
  PROVE  ClientFormed'
<1>1. call[k] \in Call /\ CallFormed(call[k], Known)
  BY DEF ClientFormed, CallsFormed
<1>2. CASE Receive(k)
  <2>1. call[k].tab \in Tabs
    BY <1>1, <1>2 DEF Receive, CallFormed, Call
  <2>2. call[k].status \in {"ok", "unauthorized", "denied", None}
    BY <1>1 DEF Call
  <2>3. (call[k].status = "ok" /\ call[k].kind \in Forms \cup {"refresh"}) => call[k].token \in Known
    BY <1>1, <1>2 DEF Receive, CallFormed
  <2>4. QED
    BY <1>2, <2>1, <2>2, <2>3, FreeCallFormed, SettleFormed DEF Receive
<1>3. CASE CallFails(k)
  <2>1. call[k].tab \in Tabs
    BY <1>1, <1>3 DEF CallFails, Call
  <2>2. PICK rest \in {FreeCall} \cup (IF call[k].pc = "answered" THEN {}
                                       ELSE {[call[k] EXCEPT !.tab = None]}) :
          Settle(call[k].tab, k, None, rest)
    BY <1>3 DEF CallFails
  <2>3. ASSUME NEW d \in Call, CallFormed(d, Known), d.pc \in {"sent", "checked"}
        PROVE  CallFormed([d EXCEPT !.tab = None], Known)
    BY <2>3 DEF CallFormed, Call
  <2>4. CallFormed(rest, Known)
    BY <1>1, <1>3, <2>2, <2>3, FreeCallFormed DEF CallFails
  <2>5. None # "ok"
    BY AccountAssumption
  <2>6. QED
    BY <2>1, <2>2, <2>4, <2>5, SettleFormed
<1>4. QED
  BY <1>2, <1>3 DEF Deliver

LEMMA SendFormed ==
  ASSUME ClientFormed, Known \subseteq Known', NEW c \in Tabs, NEW kind \in Kinds,
         NEW t \in Tokens \cup {None},
         t # None => t \in Known, kind \in {"refresh", "logout"} => t # None,
         call' = [call EXCEPT ![NextFree] = Sent(c, kind, t)], tab' = tab
  PROVE  ClientFormed'
<1>1. CallFormed(Sent(c, kind, t), Known')
  BY SentFormed, CallStaysFormed DEF ClientFormed
<1>2. QED
  BY <1>1, PutCall, TabsStayFormed DEF ClientFormed

LEMMA BrowseFormed ==
  ASSUME ClientFormed, Known \subseteq Known', Browse
  PROVE  ClientFormed'
<1>1. ASSUME NEW c \in Tabs, NEW kind \in {"login", "register", "google"}, SubmitForm(c, kind)
      PROVE  ClientFormed'
  BY <1>1, SendFormed DEF SubmitForm, Kinds, Forms
<1>2. ASSUME NEW c \in Tabs, NEW kind \in {"api", "profile", "change"}, CallApi(c, kind)
      PROVE  ClientFormed'
  BY <1>2, SendFormed DEF CallApi, Kinds, Forms
<1>3. ASSUME NEW c \in Tabs, Logout(c) PROVE ClientFormed'
  <2>1. CASE tab[c].refresh # None
    BY <1>3, <2>1, TabToken, SendFormed DEF Logout, Kinds, ClientFormed
  <2>2. CASE tab[c].refresh = None
    BY <1>3, <2>2, SignedOutFormed, CallsStayFormed DEF Logout, ClientFormed
  <2>3. QED
    BY <2>1, <2>2
<1>4. ASSUME NEW c \in Tabs, Bootstrap(c) PROVE ClientFormed'
  BY <1>4, TabToken, SendFormed DEF Bootstrap, Kinds, ClientFormed
<1>5. ASSUME NEW c \in Tabs, Reload(c) PROVE ClientFormed'
  <2>1. ASSUME NEW d \in Call, CallFormed(d, Known), d.pc \in {"sent", "checked"}
        PROVE  CallFormed([d EXCEPT !.tab = None], Known)
    BY <2>1 DEF CallFormed, Call
  <2>2. \A k \in Calls : call[k] \in Call /\ CallFormed(call[k], Known)
    BY DEF ClientFormed, CallsFormed
  <2>3. call' = Dropped(c)
    BY <1>5 DEF Reload
  <2>4. \A k \in Calls : CallFormed(call'[k], Known)
    BY <2>1, <2>2, <2>3, FreeCallFormed DEF Dropped
  <2>5. call' \in [Calls -> Call]
    BY <2>3, <2>4 DEF Dropped, CallFormed
  <2>6. CallsFormed'
    BY <2>4, <2>5, CallStaysFormed DEF CallsFormed
  <2>7. ASSUME NEW d \in TabState, TabFormed(d, Known), NEW r \in BOOLEAN
        PROVE  TabFormed([d EXCEPT !.access = None, !.user = FALSE, !.ready = r], Known')
    BY <2>7 DEF TabFormed, TabState
  <2>8. tab[c] \in TabState /\ TabFormed(tab[c], Known)
    BY DEF ClientFormed, TabsFormed
  <2>9. tab' = [tab EXCEPT ![c] = [tab[c] EXCEPT !.access = None, !.user = FALSE,
                                                 !.ready = (tab[c].refresh = None)]]
    BY <1>5 DEF Reload, ClientFormed, TabsFormed
  <2>10. (tab[c].refresh = None) \in BOOLEAN
    OBVIOUS
  <2>11. TabsFormed'
    BY <2>7, <2>8, <2>9, <2>10, PutTab DEF ClientFormed
  <2>12. QED
    BY <2>6, <2>11 DEF ClientFormed
<1>6. ASSUME NEW c \in Tabs, AccessExpires(c) PROVE ClientFormed'
  <2>1. ASSUME NEW d \in TabState, TabFormed(d, Known)
        PROVE  TabFormed([d EXCEPT !.access = Expired], Known')
    BY <2>1 DEF TabFormed, TabState
  <2>2. tab[c] \in TabState /\ TabFormed(tab[c], Known)
    BY DEF ClientFormed, TabsFormed
  <2>3. tab' = [tab EXCEPT ![c] = [tab[c] EXCEPT !.access = Expired]] /\ call' = call
    BY <1>6 DEF AccessExpires, ClientFormed, TabsFormed
  <2>4. QED
    BY <2>1, <2>2, <2>3, PutTab, CallsStayFormed DEF ClientFormed
<1>7. ASSUME NEW c \in Tabs, NEW d \in Tabs, DuplicateTab(c, d) PROVE ClientFormed'
  <2>1. ASSUME NEW e \in TabState, NEW t \in Tokens, t \in Known
        PROVE  TabFormed([e EXCEPT !.refresh = t, !.ready = FALSE], Known')
    BY <2>1 DEF TabFormed, TabState
  <2>2. tab[c].refresh \in Tokens /\ tab[c].refresh \in Known
    BY <1>7, TabToken DEF DuplicateTab, ClientFormed
  <2>3. tab[d] \in TabState
    BY DEF ClientFormed, TabsFormed
  <2>4. /\ tab' = [tab EXCEPT ![d] = [tab[d] EXCEPT !.refresh = tab[c].refresh, !.ready = FALSE]]
        /\ call' = call
    BY <1>7 DEF DuplicateTab, ClientFormed, TabsFormed
  <2>5. QED
    BY <2>1, <2>2, <2>3, <2>4, PutTab, CallsStayFormed DEF ClientFormed
<1>8. QED
  BY <1>1, <1>2, <1>3, <1>4, <1>5, <1>6, <1>7
     DEF Browse, SubmitLogin, SubmitRegistration, PressGoogle, AskData, LoadProfile, SubmitChange

(* Every step keeps what calls and tabs know.                              *)
LEMMA StepFormed ==
  ASSUME DocsTyped, SessionInv, ClientFormed, [Next]_vars
  PROVE  ClientFormed'
<1>1. Known \subseteq Known'
  BY StepEffect, KnownGrows DEF ClientFormed
<1>2. ASSUME NEW k \in Calls, Serve(k) PROVE ClientFormed'
  <2>1. tab' = tab
    BY <1>2 DEF Serve
  <2>2. QED
    BY <1>1, <1>2, <2>1, ServeCalls, TabsStayFormed DEF ClientFormed
<1>3. ASSUME NEW k \in Calls, Deliver(k) PROVE ClientFormed'
  BY <1>1, <1>3, DeliverFormed
<1>4. CASE Browse
  BY <1>1, <1>4, BrowseFormed
<1>5. CASE Administrate \/ Recover \/ UNCHANGED vars
  <2>1. tab' = tab
    BY <1>5 DEF Administrate, Recover, vars
  <2>2. call' = call
    BY <1>5
       DEF Administrate, LockUser, UnlockUser, TokenExpires, Recover, AcquireReservation,
                AskerStep, AskerCrash, FindUser, CreateCode, SendMail, MailRefused, MarkSent,
                MarkFailed, ReleaseReservation, ResetterStep, MatchCode, CountAttempt,
                ConsumeCode, CooldownEnds, HourPasses, CodeExpires, vars
  <2>3. QED
    BY <1>1, <2>1, <2>2, CallsStayFormed, TabsStayFormed DEF ClientFormed
<1>6. QED
  BY <1>2, <1>3, <1>4, <1>5 DEF Next

-----------------------------------------------------------------------------
(* The password recovery.  Without a mishap whoever is busy holds the      *)
(* reservation, and whoever typed a right code has it from the mailbox.    *)
RecoveryTyped ==
  /\ rate \in RateDoc /\ code \in [Codes -> CodeDoc] /\ mailbox \subseteq Codes
  /\ asker \in [Askers -> AskerState] /\ resetter \in [Resetters -> ResetterState]
  /\ mishaps \in 0 .. MaxMishaps
BusyHolds ==
  mishaps = 0 => \A a \in Askers : asker[a].pc # "idle" => rate.owner = a /\ rate.cooldown
RightArrived == \A r \in Resetters : resetter[r].pc = "right" => resetter[r].code \in mailbox

RecoveryInv == RecoveryTyped /\ AskersFormed /\ BusyHolds /\ RightArrived

LEMMA MishapTyped ==
  ASSUME mishaps \in 0 .. MaxMishaps,
         UNCHANGED mishaps \/ (mishaps < MaxMishaps /\ mishaps' = mishaps + 1)
  PROVE  mishaps' \in 0 .. MaxMishaps /\ (mishaps' = 0 => mishaps = 0)
BY Bounds

LEMMA RestKeepsRecovery ==
  ASSUME RecoveryInv, UNCHANGED <<rate, code, mailbox, asker, resetter>>,
         UNCHANGED mishaps \/ (mishaps < MaxMishaps /\ mishaps' = mishaps + 1)
  PROVE  RecoveryInv'
<1>1. RecoveryTyped'
  BY MishapTyped DEF RecoveryInv, RecoveryTyped
<1>2. BusyHolds'
  BY MishapTyped DEF RecoveryInv, RecoveryTyped, BusyHolds
<1>3. QED
  BY <1>1, <1>2 DEF RecoveryInv, AskersFormed, RightArrived

LEMMA AskerUpdates ==
  ASSUME NEW d \in AskerState, NEW p \in {"reserved", "found", "mailing", "mailed", "refused",
                                          "marked", "unmarked"}
  PROVE  /\ [d EXCEPT !.pc = p] \in AskerState
         /\ [d EXCEPT !.pc = p].pc = p /\ [d EXCEPT !.pc = p].code = d.code
BY DEF AskerState

LEMMA IdleTyped ==
  /\ IdleAsker \in AskerState /\ IdleAsker.pc = "idle"
  /\ IdleResetter \in ResetterState /\ IdleResetter.pc = "idle"
BY DEF IdleAsker, AskerState, IdleResetter, ResetterState

LEMMA AcquireKeeps ==
  ASSUME RecoveryInv, NEW a \in Askers, AcquireReservation(a)
  PROVE  RecoveryInv'
<1>1. asker[a] \in AskerState /\ asker'[a] = [asker[a] EXCEPT !.pc = "reserved"]
      /\ \A b \in Askers \ {a} : asker'[b] = asker[b]
  BY DEF RecoveryInv, RecoveryTyped, AcquireReservation
<1>2. asker' \in [Askers -> AskerState]
  BY <1>1, AskerUpdates DEF RecoveryInv, RecoveryTyped, AcquireReservation
<1>3. rate' \in RateDoc /\ rate'.owner = a /\ rate'.cooldown
  BY Bounds DEF RecoveryInv, RecoveryTyped, AcquireReservation, MayReserve, RateDoc
<1>4. RecoveryTyped'
  BY <1>2, <1>3 DEF RecoveryInv, RecoveryTyped, AcquireReservation
<1>5. AskersFormed'
  <2>1. asker'[a].pc = "reserved"
    BY <1>1 DEF AskerState
  <2>2. QED
    BY <1>1, <2>1 DEF RecoveryInv, AskersFormed
<1>6. mishaps = 0 => \A b \in Askers : asker[b].pc = "idle"
  BY DEF RecoveryInv, BusyHolds, AcquireReservation, MayReserve
<1>7. BusyHolds'
  BY <1>1, <1>3, <1>6 DEF BusyHolds, AcquireReservation
<1>8. QED
  BY <1>4, <1>5, <1>7 DEF RecoveryInv, RightArrived, AcquireReservation

(* A busy asker goes on, and so does who holds the reservation.            *)
LEMMA AskerGoesOn ==
  ASSUME RecoveryInv, NEW a \in Askers, asker[a].pc # "idle", NEW d \in AskerState,
         asker' = [asker EXCEPT ![a] = d], d.pc \in {"mailing", "mailed"} => d.code # None,
         rate' = rate, code' \in [Codes -> CodeDoc], mailbox \subseteq mailbox',
         mailbox' \subseteq Codes, resetter' = resetter,
         UNCHANGED mishaps \/ (mishaps < MaxMishaps /\ mishaps' = mishaps + 1)
  PROVE  RecoveryInv'
<1>1. asker' \in [Askers -> AskerState] /\ asker'[a] = d
      /\ \A b \in Askers \ {a} : asker'[b] = asker[b]
  BY DEF RecoveryInv, RecoveryTyped
<1>2. RecoveryTyped'
  BY <1>1, MishapTyped DEF RecoveryInv, RecoveryTyped
<1>3. AskersFormed'
  BY <1>1 DEF RecoveryInv, AskersFormed
<1>4. BusyHolds'
  BY <1>1, MishapTyped DEF RecoveryInv, RecoveryTyped, BusyHolds
<1>5. RightArrived'
  BY DEF RecoveryInv, RightArrived
<1>6. QED
  BY <1>2, <1>3, <1>4, <1>5 DEF RecoveryInv

LEMMA CodeUpdates ==
  ASSUME NEW d \in CodeDoc
  PROVE  /\ [d EXCEPT !.state = "SENT"] \in CodeDoc
         /\ [d EXCEPT !.state = "FAILED", !.expired = TRUE] \in CodeDoc
         /\ [d EXCEPT !.used = TRUE] \in CodeDoc
         /\ [d EXCEPT !.expired = TRUE] \in CodeDoc
         /\ d.attempts < MaxAttempts => [d EXCEPT !.attempts = d.attempts + 1] \in CodeDoc
         /\ \A o \in BOOLEAN : [d EXCEPT !.state = "PENDING", !.owned = o] \in CodeDoc
<1>1. d.attempts < MaxAttempts => [d EXCEPT !.attempts = d.attempts + 1] \in CodeDoc
  <2>1. d.attempts < MaxAttempts => d.attempts + 1 \in 0 .. MaxAttempts
    BY Bounds DEF CodeDoc
  <2>2. QED
    BY <2>1 DEF CodeDoc
<1>2. QED
  BY <1>1 DEF CodeDoc

LEMMA NoCodeTyped == NoCode \in CodeDoc
BY Bounds DEF CodeDoc, NoCode

LEMMA AskerStepKeeps ==
  ASSUME RecoveryInv, NEW a \in Askers, AskerStep(a) \/ AskerCrash(a)
  PROVE  RecoveryInv'
<1>1. asker[a] \in AskerState /\ rate \in RateDoc /\ code \in [Codes -> CodeDoc]
      /\ mailbox \subseteq Codes
  BY DEF RecoveryInv, RecoveryTyped
<1>2. CASE FindUser(a)
  <2> DEFINE d == [asker[a] EXCEPT !.pc = "found", !.owned = (account.status = "ACTIVE")]
  <2>1. d \in AskerState /\ d.pc = "found"
    BY <1>1 DEF AskerState
  <2>2. asker' = [asker EXCEPT ![a] = d] /\ asker[a].pc # "idle"
    BY <1>2 DEF FindUser, RecoveryInv, RecoveryTyped
  <2> HIDE DEF d
  <2>3. QED
    BY <1>1, <1>2, <2>1, <2>2, AskerGoesOn DEF FindUser
<1>3. CASE CreateCode(a)
  <2>1. PICK n \in Codes :
          /\ code' = [code EXCEPT ![n] = [NoCode EXCEPT !.state = "PENDING", !.owned = asker[a].owned]]
          /\ asker' = [asker EXCEPT ![a].pc = "mailing", ![a].code = n]
    BY <1>3 DEF CreateCode
  <2> DEFINE d == [asker[a] EXCEPT !.pc = "mailing", !.code = n]
  <2>2. d \in AskerState /\ d.pc = "mailing" /\ d.code = n
    BY <1>1 DEF AskerState
  <2>3. asker' = [asker EXCEPT ![a] = d] /\ asker[a].pc # "idle"
    BY <1>3, <2>1 DEF CreateCode, RecoveryInv, RecoveryTyped
  <2>4. asker[a].owned \in BOOLEAN
    BY <1>1 DEF AskerState
  <2>5. [NoCode EXCEPT !.state = "PENDING", !.owned = asker[a].owned] \in CodeDoc
    BY <2>4, NoCodeTyped, CodeUpdates
  <2>6. code' \in [Codes -> CodeDoc]
    BY <1>1, <2>1, <2>5
  <2>7. n # None
    BY AccountAssumption, Bounds DEF CodeDoc
  <2> HIDE DEF d
  <2>8. QED
    BY <1>1, <1>3, <2>2, <2>3, <2>6, <2>7, AskerGoesOn DEF CreateCode
<1>4. CASE SendMail(a)
  <2> DEFINE d == [asker[a] EXCEPT !.pc = "mailed"]
  <2>1. d \in AskerState /\ d.pc = "mailed" /\ d.code = asker[a].code
    BY <1>1, AskerUpdates
  <2>2. asker' = [asker EXCEPT ![a] = d] /\ asker[a].pc = "mailing"
    BY <1>4 DEF SendMail, RecoveryInv, RecoveryTyped
  <2>3. asker[a].code \in Codes
    BY <1>1, <2>2 DEF RecoveryInv, AskersFormed, AskerState
  <2>4. asker[a].code # None
    BY <2>2 DEF RecoveryInv, AskersFormed
  <2>5. mailbox' = mailbox \cup {asker[a].code}
    BY <1>4 DEF SendMail
  <2> HIDE DEF d
  <2>6. QED
    BY <1>1, <1>4, <2>1, <2>2, <2>3, <2>4, <2>5, AskerGoesOn DEF SendMail
<1>5. CASE MailRefused(a)
  <2> DEFINE d == [asker[a] EXCEPT !.pc = "refused"]
  <2>1. d \in AskerState /\ d.pc = "refused"
    BY <1>1, AskerUpdates
  <2>2. asker' = [asker EXCEPT ![a] = d] /\ asker[a].pc # "idle"
    BY <1>5 DEF MailRefused, RecoveryInv, RecoveryTyped
  <2> HIDE DEF d
  <2>3. QED
    BY <1>1, <1>5, <2>1, <2>2, AskerGoesOn DEF MailRefused, CanHappen
<1>6. CASE MarkSent(a)
  <2> DEFINE d == [asker[a] EXCEPT !.pc = "marked"]
  <2>1. d \in AskerState /\ d.pc = "marked"
    BY <1>1, AskerUpdates
  <2>2. asker' = [asker EXCEPT ![a] = d] /\ asker[a].pc # "idle"
    BY <1>6 DEF MarkSent, RecoveryInv, RecoveryTyped
  <2>3. code' \in [Codes -> CodeDoc]
    BY <1>1, <1>6, CodeUpdates DEF MarkSent
  <2> HIDE DEF d
  <2>4. QED
    BY <1>1, <1>6, <2>1, <2>2, <2>3, AskerGoesOn DEF MarkSent
<1>7. CASE MarkFailed(a)
  <2> DEFINE d == [asker[a] EXCEPT !.pc = "unmarked"]
  <2>1. d \in AskerState /\ d.pc = "unmarked"
    BY <1>1, AskerUpdates
  <2>2. asker' = [asker EXCEPT ![a] = d] /\ asker[a].pc # "idle"
    BY <1>7 DEF MarkFailed, RecoveryInv, RecoveryTyped
  <2>3. code' \in [Codes -> CodeDoc]
    BY <1>1, <1>7, CodeUpdates DEF MarkFailed
  <2> HIDE DEF d
  <2>4. QED
    BY <1>1, <1>7, <2>1, <2>2, <2>3, AskerGoesOn DEF MarkFailed
<1>8. CASE ReleaseReservation(a)
  <2>1. asker' \in [Askers -> AskerState] /\ asker'[a].pc = "idle"
        /\ (\A b \in Askers \ {a} : asker'[b] = asker[b]) /\ asker[a].pc # "idle"
    BY <1>8, IdleTyped DEF ReleaseReservation, RecoveryInv, RecoveryTyped
  <2>2. rate' \in RateDoc
    BY <1>1, <1>8 DEF ReleaseReservation, RateDoc
  <2>3. RecoveryTyped' /\ AskersFormed'
    BY <1>8, <2>1, <2>2 DEF ReleaseReservation, RecoveryInv, RecoveryTyped, AskersFormed
  <2>4. BusyHolds'
    BY <1>8, <2>1 DEF ReleaseReservation, RecoveryInv, BusyHolds
  <2>5. QED
    BY <1>8, <2>3, <2>4 DEF ReleaseReservation, RecoveryInv, RightArrived
<1>9. CASE AskerCrash(a)
  BY <1>1, <1>9, IdleTyped, AskerGoesOn DEF AskerCrash, CanHappen
<1>10. QED
  BY <1>2, <1>3, <1>4, <1>5, <1>6, <1>7, <1>8, <1>9 DEF AskerStep

LEMMA ResetterStepKeeps ==
  ASSUME RecoveryInv, NEW r \in Resetters, ResetterStep(r)
  PROVE  RecoveryInv'
<1>1. code \in [Codes -> CodeDoc] /\ resetter \in [Resetters -> ResetterState]
      /\ resetter[r] \in ResetterState
  BY DEF RecoveryInv, RecoveryTyped
<1>2. PICK d \in ResetterState :
        /\ resetter' = [resetter EXCEPT ![r] = d]
        /\ d.pc = "right" => d.code \in mailbox
  <2>1. CASE MatchCode(r)
    <3>1. PICK n \in Unused : \/ /\ n \in mailbox
                                 /\ resetter' = [resetter EXCEPT ![r] = [pc |-> "right", code |-> n]]
                              \/ resetter' = [resetter EXCEPT ![r] = [pc |-> "wrong", code |-> n]]
      BY <2>1 DEF MatchCode
    <3>2. n \in Codes
      BY DEF Unused, Created
    <3>3. [pc |-> "right", code |-> n] \in ResetterState /\ [pc |-> "wrong", code |-> n] \in ResetterState
      BY <3>2 DEF ResetterState
    <3>4. QED
      BY <3>1, <3>3
  <2>2. CASE CountAttempt(r) \/ ConsumeCode(r)
    BY <2>2, IdleTyped DEF CountAttempt, ConsumeCode
  <2>3. QED
    BY <2>1, <2>2 DEF ResetterStep
<1>3. code' \in [Codes -> CodeDoc]
  <2>1. CASE MatchCode(r)
    BY <1>1, <2>1 DEF MatchCode
  <2>2. CASE CountAttempt(r)
    <3>1. PICK n : n = resetter[r].code
      OBVIOUS
    <3>2. PICK m : m = IF ~ code[n].used /\ code[n].attempts < MaxAttempts
                      THEN code[n].attempts + 1 ELSE code[n].attempts
      OBVIOUS
    <3>3. code' = [code EXCEPT ![n].attempts = m]
      BY <2>2, <3>1, <3>2 DEF CountAttempt
    <3>4. CASE n \in Codes
      <4>1. m \in 0 .. MaxAttempts /\ code[n] \in CodeDoc
        BY <1>1, <3>2, <3>4, Bounds DEF CodeDoc
      <4>2. [code[n] EXCEPT !.attempts = m] \in CodeDoc
        BY <4>1 DEF CodeDoc
      <4>3. QED
        BY <1>1, <3>3, <4>2
    <3>5. CASE n \notin Codes
      BY <1>1, <3>3, <3>5
    <3>6. QED
      BY <3>4, <3>5
  <2>3. CASE ConsumeCode(r)
    <3>1. code' = code \/ code' = [code EXCEPT ![resetter[r].code].used = TRUE]
      BY <2>3 DEF ConsumeCode
    <3>2. QED
      BY <1>1, <3>1, CodeUpdates
  <2>4. QED
    BY <2>1, <2>2, <2>3 DEF ResetterStep
<1>4. UNCHANGED <<rate, mailbox, asker, mishaps>>
  BY DEF ResetterStep, MatchCode, CountAttempt, ConsumeCode
<1>5. RecoveryTyped'
  BY <1>1, <1>2, <1>3, <1>4 DEF RecoveryInv, RecoveryTyped
<1>6. RightArrived'
  BY <1>1, <1>2, <1>4 DEF RecoveryInv, RightArrived
<1>7. QED
  BY <1>4, <1>5, <1>6 DEF RecoveryInv, AskersFormed, BusyHolds

LEMMA TimeKeeps ==
  ASSUME RecoveryInv, CooldownEnds \/ HourPasses \/ \E n \in Codes : CodeExpires(n)
  PROVE  RecoveryInv'
<1>1. rate \in RateDoc /\ code \in [Codes -> CodeDoc] /\ asker \in [Askers -> AskerState]
  BY DEF RecoveryInv, RecoveryTyped
<1>2. CASE CooldownEnds
  <2>1. rate' \in RateDoc /\ rate'.owner = rate.owner
    BY <1>1, <1>2 DEF CooldownEnds, RateDoc
  <2>2. UNCHANGED mishaps \/ (mishaps < MaxMishaps /\ mishaps' = mishaps + 1)
    BY <1>2 DEF CooldownEnds, Overtakes, CanHappen
  <2>3. mishaps' = 0 => mishaps = 0 /\ \A a \in Askers : rate.owner = a => asker[a].pc = "idle"
    BY <1>2, <2>2, MishapTyped DEF CooldownEnds, Overtakes, RecoveryInv, RecoveryTyped
  <2>4. BusyHolds'
    BY <1>2, <2>3 DEF CooldownEnds, RecoveryInv, BusyHolds
  <2>5. RecoveryTyped'
    BY <1>2, <2>1, <2>2, MishapTyped DEF CooldownEnds, RecoveryInv, RecoveryTyped
  <2>6. QED
    BY <1>2, <2>4, <2>5 DEF CooldownEnds, RecoveryInv, AskersFormed, RightArrived
<1>3. CASE HourPasses
  <2>1. rate.stamps \in 0 .. HourlyLimit /\ rate.stamps > 0
    BY <1>1, <1>3, Bounds DEF HourPasses, RateDoc
  <2>2. rate.stamps - 1 \in 0 .. HourlyLimit
    BY <2>1, Bounds
  <2>3. rate' = [rate EXCEPT !.stamps = rate.stamps - 1]
    BY <1>3 DEF HourPasses
  <2>4. rate' \in RateDoc /\ rate'.owner = rate.owner /\ rate'.cooldown = rate.cooldown
    BY <1>1, <2>2, <2>3 DEF RateDoc
  <2>5. QED
    BY <1>3, <2>4
       DEF HourPasses, RecoveryInv, RecoveryTyped, AskersFormed, BusyHolds, RightArrived
<1>4. ASSUME NEW n \in Codes, CodeExpires(n) PROVE RecoveryInv'
  <2>1. code' \in [Codes -> CodeDoc]
    BY <1>1, <1>4, CodeUpdates DEF CodeExpires
  <2>2. UNCHANGED mishaps \/ (mishaps < MaxMishaps /\ mishaps' = mishaps + 1)
    BY <1>4 DEF CodeExpires, Overtakes, CanHappen
  <2>3. RecoveryTyped'
    BY <1>4, <2>1, <2>2, MishapTyped DEF CodeExpires, RecoveryInv, RecoveryTyped
  <2>4. BusyHolds'
    BY <1>4, <2>2, MishapTyped DEF CodeExpires, RecoveryInv, RecoveryTyped, BusyHolds
  <2>5. QED
    BY <1>4, <2>3, <2>4 DEF CodeExpires, RecoveryInv, AskersFormed, RightArrived
<1>5. QED
  BY <1>2, <1>3, <1>4

LEMMA StepRecovery ==
  ASSUME DocsTyped, RecoveryInv, [Next]_vars
  PROVE  RecoveryInv'
<1>1. CASE Browse \/ \E k \in Calls : Deliver(k)
  <2>1. UNCHANGED mishaps \/ (mishaps < MaxMishaps /\ mishaps' = mishaps + 1)
    BY <1>1
       DEF Browse, Deliver, Receive, CallFails, SubmitLogin, SubmitRegistration,
           PressGoogle,
                SubmitForm, AskData, LoadProfile, SubmitChange, CallApi, Logout, Reload, Bootstrap,
                AccessExpires, DuplicateTab, Alone, Harmless, Mishap, CanHappen
  <2>2. QED
    BY <1>1, <2>1, ClientEffect, RestKeepsRecovery
<1>2. CASE (\E k \in Calls : Serve(k)) \/ Administrate \/ UNCHANGED vars
  BY <1>2, RestKeepsRecovery DEF Serve, Administrate, Harmless, Mishap, CanHappen, vars
<1>3. CASE Recover
  BY <1>3, AcquireKeeps, AskerStepKeeps, ResetterStepKeeps, TimeKeeps DEF Recover
<1>4. QED
  BY <1>1, <1>2, <1>3 DEF Next

-----------------------------------------------------------------------------
(* Part 5. *)
IInv == DocsTyped /\ SessionInv /\ ClientFormed /\ RecoveryInv

LEMMA InitIInv == Init => IInv
<1> SUFFICES ASSUME Init PROVE IInv
  OBVIOUS
<1>1. NoToken \in TokenDoc
  BY Bounds DEF NoToken, TokenDoc, Credentials
<1>2. DocsTyped
  <2>1. NoAccount \in Account
    BY Bounds DEF NoAccount, Account, Credentials
  <2>2. account \in {NoAccount, PasswordAccount, GoogleAccount}
    <3>1. PICK a \in StartAccount : account = CASE a = "none" -> NoAccount
                                               [] a = "password" -> PasswordAccount
                                               [] a = "google" -> GoogleAccount
      BY DEF Init
    <3>2. QED
      BY <3>1, AccountAssumption
  <2>3. QED
    BY <1>1, <2>1, <2>2, PasswordAccountTyped DEF Init, DocsTyped
<1>3. \A t \in Tokens : token[t] = NoToken
  BY DEF Init
<1>4. SessionInv
  <2>1. Live = {}
    BY <1>3, BlankToken DEF Live
  <2>2. account.status = "ABSENT" => account.credential = 0
    <3>1. PICK a \in StartAccount : account = CASE a = "none" -> NoAccount
                                               [] a = "password" -> PasswordAccount
                                               [] a = "google" -> GoogleAccount
      BY DEF Init
    <3>2. account \in {NoAccount, PasswordAccount, GoogleAccount}
      BY <3>1, AccountAssumption
    <3>3. QED
      BY <3>2 DEF NoAccount, PasswordAccount, GoogleAccount
  <2>3. QED
    BY <1>3, <2>1, <2>2, BlankToken
       DEF SessionInv, TokensFormed, NoneBefore, LiveTokensCurrent, OneLivePerFamily
<1>5. ClientFormed
  <2>1. \A K : EmptyTab \in TabState /\ TabFormed(EmptyTab, K)
    BY DEF EmptyTab, TabState, TabFormed
  <2>2. FreeCall \in Call
    BY DEF FreeCall, Call
  <2>3. QED
    BY <2>1, <2>2, FreeCallFormed DEF Init, ClientFormed, CallsFormed, TabsFormed
<1>6. RecoveryInv
  <2>1. rate \in RateDoc
    BY Bounds DEF Init, RateDoc
  <2>2. RecoveryTyped
    BY <2>1, NoCodeTyped, IdleTyped, Bounds DEF Init, RecoveryTyped
  <2>3. QED
    BY <2>2, IdleTyped DEF Init, RecoveryInv, AskersFormed, BusyHolds, RightArrived
<1>7. QED
  BY <1>2, <1>4, <1>5, <1>6 DEF IInv

LEMMA NextIInv == IInv /\ [Next]_vars => IInv'
BY StepEffect, EffectKeeps, StepFormed, StepRecovery DEF IInv, ClientFormed

LEMMA Inductive == Spec => []IInv
BY InitIInv, NextIInv, PTL DEF Spec

(* TypeOK of Accounts: whatever tabs, administrator and recovery do, every *)
(* document, call and tab keeps its shape.                                 *)
THEOREM TypeCorrect == Spec => []TypeOK
<1>1. IInv => TypeOK
  BY DEF IInv, DocsTyped, ClientFormed, CallsFormed, TabsFormed, RecoveryInv, RecoveryTyped,
         TypeOK
<1>2. QED
  BY <1>1, Inductive, PTL

(* refreshAuthTokens, lockUser, changePassword, resetPassword: a token that*)
(* works belongs to an active account with these credentials.              *)
THEOREM TokensCurrent == Spec => []LiveTokensCurrent
<1>1. IInv => LiveTokensCurrent
  BY DEF IInv, SessionInv
<1>2. QED
  BY <1>1, Inductive, PTL

(* refreshAuthTokens: no rotation leaves two working tokens in a family.   *)
THEOREM RotationExclusive == Spec => []OneLivePerFamily
<1>1. IInv => OneLivePerFamily
  BY DEF IInv, SessionInv
<1>2. QED
  BY <1>1, Inductive, PTL

(* acquirePasswordResetReservation: while nothing goes wrong, one request  *)
(* for a code is under way at a time.                                      *)
THEOREM RequestsExclusive == Spec => []OneRequestAtATime
<1>1. IInv => OneRequestAtATime
  BY DEF IInv, RecoveryInv, BusyHolds, OneRequestAtATime
<1>2. QED
  BY <1>1, Inductive, PTL

(* What changes a password without a call of a tab: a reset only.          *)
LEMMA ServeTellsPassword ==
  ASSUME CallsFormed, NEW k \in Calls, Serve(k), UNCHANGED call
  PROVE  UNCHANGED account
<1>1. call[k] \in Call /\ call' = call
  BY DEF CallsFormed
<1>2. ASSUME NEW st, call[k].pc \in {"sent", "checked"}, Answered(k, st) PROVE FALSE
  <2>1. call'[k].pc \in {"free", "answered"}
    BY <1>1, <1>2 DEF Answered, FreeCall, Call, CallsFormed
  <2>2. QED
    BY <1>1, <1>2, <2>1
<1>3. ASSUME NEW t, call[k].pc \in {"sent", "checked"}, AnsweredWith(k, t) PROVE FALSE
  <2>1. call'[k].pc \in {"free", "answered"}
    BY <1>1, <1>3 DEF AnsweredWith, FreeCall, Call, CallsFormed
  <2>2. QED
    BY <1>1, <1>3, <2>1
<1>4. CASE Register(k) \/ LoginWithGoogle(k)
  BY <1>3, <1>4 DEF Register, LoginWithGoogle, OpenFamily, Refuse, Arrived, sessionVars
<1>5. CASE ChangePassword(k)
  BY <1>2, <1>5 DEF ChangePassword, Refuse, sessionVars
<1>6. QED
  BY <1>4, <1>5
     DEF Serve, CheckPassword, OpenSession, RefreshAuthTokens, LogoutUser, ServeApi,
                    CheckCurrentPassword, Refuse, sessionVars

LEMMA ResetConsumes ==
  IInv /\ [Next]_vars =>
    ((account'.hash # account.hash /\ UNCHANGED call) =>
       \E n \in mailbox : /\ ~ code[n].used /\ code'[n].used
                          /\ code[n].attempts < MaxAttempts)
<1> SUFFICES ASSUME IInv, [Next]_vars, account'.hash # account.hash, UNCHANGED call
             PROVE  \E n \in mailbox : /\ ~ code[n].used /\ code'[n].used
                                       /\ code[n].attempts < MaxAttempts
  OBVIOUS
<1>1. ~ \E k \in Calls : Serve(k)
  BY ServeTellsPassword DEF IInv, ClientFormed
<1>2. ~ (Browse \/ \E k \in Calls : Deliver(k))
  BY ClientEffect DEF IInv
<1>3. ~ Administrate
  BY DEF Administrate, LockUser, UnlockUser, TokenExpires, IInv, DocsTyped, Account
<1>4. Recover
  BY <1>1, <1>2, <1>3 DEF Next, vars
<1>5. \E r \in Resetters : ConsumeCode(r)
  BY <1>4
     DEF Recover, AcquireReservation, AskerStep, AskerCrash, FindUser, CreateCode, SendMail,
              MailRefused, MarkSent, MarkFailed, ReleaseReservation, ResetterStep, MatchCode,
              CountAttempt, CooldownEnds, HourPasses, CodeExpires
<1>6. PICK r \in Resetters : ConsumeCode(r)
  BY <1>5
<1>7. PICK n : n = resetter[r].code
  OBVIOUS
<1>8. ~ code[n].used /\ Usable(n) /\ code' = [code EXCEPT ![n].used = TRUE]
      /\ resetter[r].pc = "right"
  BY <1>6, <1>7 DEF ConsumeCode
<1>9. n \in mailbox /\ n \in Codes /\ code \in [Codes -> CodeDoc]
  BY <1>7, <1>8 DEF IInv, RecoveryInv, RecoveryTyped, RightArrived
<1>10. code'[n].used
  BY <1>8, <1>9 DEF CodeDoc
<1>11. QED
  BY <1>8, <1>9, <1>10 DEF Usable

(* resetPassword: a password changes against a code that arrived and that  *)
(* nobody has used.                                                        *)
THEOREM ResetsCostCodes == Spec => ResetCostsCode
<1>1. IInv /\ [Next]_vars =>
        [(account'.hash # account.hash /\ UNCHANGED call) =>
           \E n \in mailbox : /\ ~ code[n].used /\ code'[n].used
                              /\ code[n].attempts < MaxAttempts]_vars
  BY ResetConsumes
<1>2. QED
  BY <1>1, Inductive, PTL DEF Spec, ResetCostsCode

-----------------------------------------------------------------------------
(* The effects as steps of the contract.                                   *)
LEMMA OpensMaps ==
  ASSUME DocsTyped, SessionInv, NEW t \in Tokens, Opens(t)
  PROVE  Contract!Open(t)
<1>1. /\ token[t].state = "ABSENT" /\ account.status # "LOCKED"
      /\ account'.status = "ACTIVE" /\ account'.credential = account.credential
  BY DEF Opens
<1>2. /\ token'[t].state = "LIVE" /\ token'[t].family = t
      /\ \A u \in Tokens \ {t} : token'[u] = token[u]
  BY DEF Opens, DocsTyped, Issued
<1>3. \A u \in Tokens : token[u].family # t
  BY <1>1, BlankToken, AccountAssumption DEF SessionInv, TokensFormed
<1>4. SessionOf(t) = "none"
  BY <1>3 DEF SessionOf, Live
<1>5. SessionOf(t)' = "open"
  BY <1>2 DEF SessionOf, Live
<1>6. token[t].family = None
  BY <1>1, BlankToken DEF SessionInv, TokensFormed
<1>7. ASSUME NEW s \in Tokens, s # t PROVE SessionOf(s)' = SessionOf(s)
  <2>1. token'[t].family # s /\ token[t].family # s
    BY <1>2, <1>6, <1>7, AccountAssumption
  <2>2. QED
    BY <1>2, <2>1 DEF SessionOf, Live
<1>8. QED
  BY <1>1, <1>4, <1>5, <1>7 DEF Contract!Open

LEMMA RotatesMaps ==
  ASSUME DocsTyped, SessionInv, NEW t \in Tokens, NEW n \in Tokens, Rotates(t, n)
  PROVE  UNCHANGED Contract!vars
<1>1. /\ token[t].state = "LIVE" /\ token[n].state = "ABSENT" /\ account' = account
      /\ t # n
  BY DEF Rotates
<1>2. /\ token'[n].state = "LIVE" /\ token'[n].family = token[t].family
      /\ token'[t].state = "REVOKED" /\ token'[t].family = token[t].family
      /\ \A u \in Tokens \ {t, n} : token'[u] = token[u]
  BY <1>1 DEF Rotates, Rotated, DocsTyped, TokenDoc, Issued
<1>3. token[n].family = None
  BY <1>1, BlankToken DEF SessionInv, TokensFormed
<1>4. ASSUME NEW s \in Tokens PROVE SessionOf(s)' = SessionOf(s)
  <2>1. s # None
    BY AccountAssumption
  <2>2. CASE s = token[t].family
    <3>1. SessionOf(s) = "open" /\ SessionOf(s)' = "open"
      BY <1>1, <1>2, <2>2 DEF SessionOf, Live
    <3>2. QED
      BY <3>1
  <2>3. CASE s # token[t].family
    BY <1>2, <1>3, <2>1, <2>3 DEF SessionOf, Live
  <2>4. QED
    BY <2>2, <2>3
<1>5. QED
  BY <1>1, <1>4 DEF Contract!vars

LEMMA RevokedSessions ==
  ASSUME DocsTyped, NEW S \in SUBSET Tokens, token' = Revoked(S), NEW s \in Tokens
  PROVE  SessionOf(s)' = IF SessionOf(s)' # "open" /\ SessionOf(s) = "open" THEN "ended"
                         ELSE SessionOf(s)
<1>1. \A u \in Tokens : /\ token'[u].family = token[u].family
                        /\ token'[u].state = "LIVE" => token[u].state = "LIVE"
  BY RevokedTokens
<1>2. QED
  BY <1>1 DEF SessionOf, Live

LEMMA EndsMaps ==
  ASSUME DocsTyped, NEW S \in SUBSET Tokens, Ends(S)
  PROVE  \E E \in SUBSET Tokens : Contract!End(E)
<1>1. PICK E \in SUBSET Tokens : \A s \in Tokens : s \in E <=> SessionOf(s)' # "open"
  <2>1. {s \in Tokens : SessionOf(s)' # "open"} \in SUBSET Tokens
    OBVIOUS
  <2>2. QED
    BY <2>1
<1>2. \A s \in Tokens : SessionOf(s)' = IF s \in E /\ SessionOf(s) = "open" THEN "ended"
                                        ELSE SessionOf(s)
  BY <1>1, RevokedSessions DEF Ends
<1>3. Contract!End(E)
  BY <1>2 DEF Contract!End, Contract!Ended, Ends
<1>4. QED
  BY <1>3

LEMMA EndsAllMaps ==
  ASSUME DocsTyped, EndsAll
  PROVE  Contract!EndAll
<1>1. token' = Revoked(Tokens)
  BY DEF EndsAll
<1>2. \A s \in Tokens : SessionOf(s)' # "open"
  BY <1>1, RevokedTokens DEF SessionOf, Live
<1>3. \A s \in Tokens : SessionOf(s)' = IF s \in Tokens /\ SessionOf(s) = "open" THEN "ended"
                                        ELSE SessionOf(s)
  BY <1>1, <1>2, RevokedSessions
<1>4. QED
  BY <1>3 DEF Contract!EndAll, Contract!Ended, EndsAll

LEMMA SameSessions ==
  ASSUME DocsTyped, \/ Unlocks \/ (\E t \in Tokens : Ages(t))
                    \/ account' = account /\ token' = token
  PROVE  \A s \in Tokens : SessionOf(s)' = SessionOf(s)
<1>1. \A u \in Tokens : token'[u].family = token[u].family /\ token'[u].state = token[u].state
  BY DEF Unlocks, Ages, DocsTyped, TokenDoc
<1>2. QED
  BY <1>1 DEF SessionOf, Live

LEMMA EffectMaps ==
  ASSUME DocsTyped, SessionInv, SessionEffect
  PROVE  [Contract!Next]_(Contract!vars)
<1>1. CASE Unlocks
  <2>1. Contract!Unlock
    BY <1>1, SameSessions DEF Contract!Unlock, Unlocks
  <2>2. QED
    BY <2>1 DEF Contract!Next
<1>2. CASE (\E t \in Tokens : Ages(t)) \/ (account' = account /\ token' = token)
  <2>1. UNCHANGED Contract!vars
    BY <1>2, SameSessions DEF Contract!vars, Ages
  <2>2. QED
    BY <2>1
<1>3. QED
  BY <1>1, <1>2, OpensMaps, RotatesMaps, EndsMaps, EndsAllMaps
     DEF SessionEffect, Contract!Next

LEMMA InitMaps == Init => Contract!Init
<1> SUFFICES ASSUME Init PROVE Contract!Init
  OBVIOUS
<1>1. PICK a \in StartAccount : account = CASE a = "none" -> NoAccount
                                           [] a = "password" -> PasswordAccount
                                           [] a = "google" -> GoogleAccount
  BY DEF Init
<1>2. account \in {NoAccount, PasswordAccount, GoogleAccount}
  BY <1>1, AccountAssumption
<1>3. account.status \in {"ABSENT", "ACTIVE"} /\ account.credential = 0
  BY <1>2 DEF NoAccount, PasswordAccount, GoogleAccount
<1>4. \A t \in Tokens : token[t].state = "ABSENT" /\ token[t].family = None
  BY BlankToken DEF Init
<1>5. \A s \in Tokens : SessionOf(s) = "none"
  BY <1>4, AccountAssumption DEF SessionOf, Live
<1>6. QED
  BY <1>3, <1>5 DEF Contract!Init

(* Registration, login, rotation, reuse, sign-out, lock, change and reset  *)
(* of a password: the tokens implement LoginSessions.                      *)
THEOREM TokensImplementSessions == Spec => ImplementsSessions
<1>1. IInv /\ [Next]_vars => [Contract!Next]_(Contract!vars)
  BY StepEffect, EffectMaps DEF IInv, ClientFormed
<1>2. QED
  BY <1>1, InitMaps, Inductive, PTL DEF Spec, ImplementsSessions, Contract!Spec

-----------------------------------------------------------------------------
(* Part 6. *)
(* The codes and their mails.  Until something goes wrong, or when a mail  *)
(* that failed is all that went wrong, ...                                 *)
MailFailed == \/ \E a \in Askers : asker[a].pc \in {"refused", "unmarked"}
              \/ \E n \in Codes : code[n].state = "FAILED"
Calm == mishaps = 0 \/ (mishaps = 1 /\ MailFailed)
Quiet == \A a \in Askers : asker[a].pc = "idle"
Latest(n) == n \in Created /\ \A m \in Created : m <= n
HasCode == {"mailing", "mailed", "refused", "marked", "unmarked"}

CodesFormed ==
  /\ \A n \in Created, m \in Codes : m < n => m \in Created
  /\ \A a \in Askers : asker[a].pc \in HasCode => asker[a].code \in Created
(* ... whoever is busy holds the reservation, ...                          *)
BusyStillHolds == Calm => \A a \in Askers : asker[a].pc # "idle" => rate.owner = a /\ rate.cooldown
(* ... and the code it has is the newest, ...                              *)
BusyHasLatest ==
  Calm => \A a \in Askers :
            /\ asker[a].pc \in HasCode => Latest(asker[a].code)
            /\ asker[a].pc = "marked" => code[asker[a].code].state = "SENT"
(* ... until the first mail fails every code is SENT or on its way, ...    *)
BeingMailed(n) == \E a \in Askers : asker[a].code = n /\ asker[a].pc \in {"mailing", "mailed"}
MailsArrive ==
  mishaps = 0 => /\ ~ MailFailed
                 /\ \A n \in Created : code[n].state = "SENT" \/ BeingMailed(n)
(* ... and after it the cooldown does not outlast the request.             *)
FailureFrees ==
  (mishaps = 1 /\ Quiet /\ \E n \in Codes : Latest(n) /\ code[n].state = "FAILED")
    => ~ rate.cooldown

MailInv == CodesFormed /\ BusyStillHolds /\ BusyHasLatest /\ MailsArrive /\ FailureFrees

(* A second mishap, or one that is no failed mail, ends the promise.       *)
LEMMA OtherMishap ==
  ASSUME RecoveryInv, MailInv, mishaps' = mishaps + 1, MailFailed' => MailFailed, CodesFormed'
  PROVE  MailInv'
<1>1. mishaps \in Nat
  BY Bounds DEF RecoveryInv, RecoveryTyped
<1>2. mishaps' # 0 /\ (mishaps' = 1 => ~ MailFailed')
  BY <1>1 DEF MailInv, MailsArrive
<1>3. ~ Calm'
  BY <1>2 DEF Calm
<1>4. BusyStillHolds' /\ BusyHasLatest'
  BY <1>3 DEF BusyStillHolds, BusyHasLatest
<1>5. MailsArrive'
  BY <1>2 DEF MailsArrive
<1>6. FailureFrees'
  BY <1>2 DEF FailureFrees, MailFailed
<1>7. QED
  BY <1>4, <1>5, <1>6 DEF MailInv

(* What says nothing of a mail: the states of the codes, the requests and  *)
(* the reservation stay as they are.                                       *)
LEMMA MailRests ==
  ASSUME RecoveryInv, MailInv, asker' = asker,
         rate'.owner = rate.owner, rate'.cooldown = rate.cooldown,
         \A n \in Codes : code'[n].state = code[n].state,
         UNCHANGED mishaps \/ mishaps' = mishaps + 1
  PROVE  MailInv'
<1>1. /\ MailFailed' <=> MailFailed
      /\ Quiet' <=> Quiet
      /\ \A n : Latest(n)' <=> Latest(n)
      /\ \A n : BeingMailed(n)' <=> BeingMailed(n)
      /\ Created' = Created
  BY DEF MailFailed, Quiet, Latest, BeingMailed, Created
<1>2. CodesFormed'
  BY <1>1 DEF MailInv, CodesFormed
<1>3. CASE UNCHANGED mishaps
  <2>1. Calm' <=> Calm
    BY <1>1, <1>3 DEF Calm
  <2>2. BusyStillHolds'
    BY <2>1 DEF MailInv, BusyStillHolds
  <2>4. BusyHasLatest'
    <3> SUFFICES ASSUME Calm, NEW a \in Askers
                 PROVE  /\ asker[a].pc \in HasCode => Latest(asker[a].code)'
                        /\ asker[a].pc = "marked" => code'[asker[a].code].state = "SENT"
      BY <2>1 DEF BusyHasLatest
    <3>1. asker[a].pc \in HasCode => Latest(asker[a].code)
      BY DEF MailInv, BusyHasLatest
    <3>2. asker[a].pc \in HasCode => asker[a].code \in Codes
      BY <3>1 DEF Latest, Created
    <3>3. asker[a].pc = "marked" => code[asker[a].code].state = "SENT" /\ asker[a].code \in Codes
      BY <3>2 DEF MailInv, BusyHasLatest, HasCode
    <3>4. QED
      BY <1>1, <3>1, <3>3
  <2>5. MailsArrive'
    BY <1>1, <1>3 DEF MailInv, MailsArrive, Created
  <2>6. FailureFrees'
    BY <1>1, <1>3 DEF MailInv, FailureFrees
  <2>7. QED
    BY <1>2, <2>2, <2>4, <2>5, <2>6 DEF MailInv
<1>4. CASE mishaps' = mishaps + 1
  BY <1>1, <1>2, <1>4, OtherMishap
<1>5. QED
  BY <1>3, <1>4

(* A request gets the reservation: in calm nobody else is busy.            *)
LEMMA AcquireMails ==
  ASSUME RecoveryInv, MailInv, NEW a \in Askers, AcquireReservation(a)
  PROVE  MailInv'
<1>1. /\ asker'[a] = [asker[a] EXCEPT !.pc = "reserved"] /\ asker[a] \in AskerState
      /\ \A b \in Askers \ {a} : asker'[b] = asker[b]
      /\ rate'.owner = a /\ rate'.cooldown /\ ~ rate.cooldown /\ asker[a].pc = "idle"
      /\ code' = code /\ mishaps' = mishaps
  BY DEF AcquireReservation, MayReserve, RecoveryInv, RecoveryTyped
<1>2. asker'[a].pc = "reserved"
  BY <1>1 DEF AskerState
<1>3. Calm => Quiet
  BY <1>1 DEF MailInv, BusyStillHolds, Quiet
<1>4. /\ MailFailed' <=> MailFailed
      /\ Calm' <=> Calm
      /\ \A n : Latest(n)' <=> Latest(n)
      /\ Created' = Created
      /\ \A n : BeingMailed(n) => BeingMailed(n)'
  BY <1>1, <1>2 DEF MailFailed, Calm, Latest, BeingMailed, Created
<1>5. CodesFormed'
  BY <1>1, <1>2, <1>4 DEF MailInv, CodesFormed, HasCode
<1>6. BusyStillHolds'
  BY <1>1, <1>3, <1>4 DEF BusyStillHolds, Quiet
<1>7. BusyHasLatest'
  BY <1>1, <1>2, <1>3, <1>4 DEF BusyHasLatest, Quiet, HasCode
<1>8. MailsArrive'
  BY <1>1, <1>4 DEF MailInv, MailsArrive
<1>9. FailureFrees'
  BY <1>2 DEF FailureFrees, Quiet
<1>10. QED
  BY <1>5, <1>6, <1>7, <1>8, <1>9 DEF MailInv

(* A step of the one busy request: `p` and `n` are its state and its code  *)
(* afterwards.  It says nothing wrong of its code, and no other request is *)
(* under way in calm.                                                      *)
LEMMA BusyGoesOn ==
  ASSUME RecoveryInv, MailInv, NEW a \in Askers, asker[a].pc # "idle", asker'[a].pc # "idle",
         \A b \in Askers \ {a} : asker'[b] = asker[b],
         rate' = rate, CodesFormed', Calm' => Calm,
         Calm => (/\ asker[a].pc \in HasCode => Latest(asker[a].code)
                  /\ asker[a].pc = "marked" => code[asker[a].code].state = "SENT")',
         MailsArrive'
  PROVE  MailInv'
<1>1. Calm => \A b \in Askers \ {a} : asker[b].pc = "idle"
  BY DEF MailInv, BusyStillHolds
<1>2. BusyStillHolds'
  BY DEF MailInv, BusyStillHolds
<1>3. BusyHasLatest'
  BY <1>1 DEF BusyHasLatest, HasCode
<1>4. FailureFrees'
  BY DEF FailureFrees, Quiet
<1>5. QED
  BY <1>2, <1>3, <1>4 DEF MailInv

LEMMA FindMails ==
  ASSUME RecoveryInv, MailInv, NEW a \in Askers, FindUser(a)
  PROVE  MailInv'
<1>1. /\ asker'[a] = [asker[a] EXCEPT !.pc = "found", !.owned = (account.status = "ACTIVE")]
      /\ asker[a] \in AskerState
      /\ \A b \in Askers \ {a} : asker'[b] = asker[b]
      /\ asker[a].pc = "reserved" /\ rate' = rate /\ code' = code /\ mishaps' = mishaps
  BY DEF FindUser, RecoveryInv, RecoveryTyped
<1>2. asker'[a].pc = "found"
  BY <1>1 DEF AskerState
<1>3. /\ MailFailed' <=> MailFailed
      /\ Calm' <=> Calm
      /\ Created' = Created
      /\ \A n : BeingMailed(n) => BeingMailed(n)'
  BY <1>1, <1>2 DEF MailFailed, Calm, BeingMailed, Created
<1>4. CodesFormed' /\ MailsArrive'
  BY <1>1, <1>2, <1>3 DEF MailInv, CodesFormed, MailsArrive, HasCode
<1>5. QED
  BY <1>1, <1>2, <1>3, <1>4, BusyGoesOn DEF HasCode

LEMMA CreateMails ==
  ASSUME RecoveryInv, MailInv, NEW a \in Askers, CreateCode(a)
  PROVE  MailInv'
<1>1. PICK n \in Codes :
        /\ code[n].state = "ABSENT" /\ \A m \in Codes : m < n => code[m].state # "ABSENT"
        /\ code' = [code EXCEPT ![n] = [NoCode EXCEPT !.state = "PENDING", !.owned = asker[a].owned]]
        /\ asker' = [asker EXCEPT ![a].pc = "mailing", ![a].code = n]
  BY DEF CreateCode
<1>2. /\ asker'[a].pc = "mailing" /\ asker'[a].code = n
      /\ \A b \in Askers \ {a} : asker'[b] = asker[b]
      /\ asker[a].pc = "found" /\ rate' = rate /\ mishaps' = mishaps
  BY <1>1 DEF CreateCode, RecoveryInv, RecoveryTyped, AskerState
<1>3. code'[n].state = "PENDING" /\ \A m \in Codes \ {n} : code'[m] = code[m]
  BY <1>1 DEF RecoveryInv, RecoveryTyped, NoCode
<1>4. Created' = Created \cup {n} /\ n \notin Created
  BY <1>1, <1>3 DEF Created
<1>5. n \in Nat /\ \A m \in Codes : m \in Nat
  BY Bounds DEF Codes
<1>6. \A m \in Created : m <= n
  BY <1>1, <1>4, <1>5 DEF MailInv, CodesFormed, Created
<1>7. CodesFormed'
  <2> SUFFICES ASSUME NEW m \in Created', NEW l \in Codes, l < m PROVE l \in Created'
    BY <1>2, <1>4 DEF MailInv, CodesFormed
  <2>1. CASE m = n
    BY <1>1, <1>4, <2>1 DEF Created
  <2>2. CASE m \in Created
    BY <1>4, <2>2 DEF MailInv, CodesFormed
  <2>3. QED
    BY <1>4, <2>1, <2>2
<1>8. Latest(n)'
  BY <1>4, <1>5, <1>6 DEF Latest
<1>9. /\ MailFailed' => MailFailed
      /\ Calm' => Calm
      /\ \A m : BeingMailed(m) => BeingMailed(m)'
      /\ BeingMailed(n)'
  BY <1>2, <1>3 DEF MailFailed, Calm, BeingMailed
<1>10. MailsArrive'
  BY <1>2, <1>3, <1>4, <1>9 DEF MailInv, MailsArrive, Created
<1>11. QED
  BY <1>2, <1>7, <1>8, <1>9, <1>10, BusyGoesOn

(* The mail leaves, and comes back or not.                                 *)
LEMMA SendMails ==
  ASSUME RecoveryInv, MailInv, NEW a \in Askers, SendMail(a) \/ MailRefused(a)
  PROVE  MailInv'
<1>1. PICK p \in {"mailed", "refused"} : asker' = [asker EXCEPT ![a].pc = p]
  BY DEF SendMail, MailRefused
<1>2. /\ asker[a].pc \in {"mailing", "mailed"} /\ rate' = rate /\ code' = code
      /\ \/ p = "mailed" /\ mishaps' = mishaps
         \/ p = "refused" /\ mishaps' = mishaps + 1
  BY <1>1 DEF SendMail, MailRefused, RecoveryInv, RecoveryTyped, AskerState
<1>3. /\ asker'[a].pc = p /\ asker'[a].code = asker[a].code
      /\ \A b \in Askers \ {a} : asker'[b] = asker[b]
  BY <1>1 DEF RecoveryInv, RecoveryTyped, AskerState
<1>4. mishaps \in Nat
  BY Bounds DEF RecoveryInv, RecoveryTyped
<1>5. Calm' => Calm
  BY <1>2, <1>3, <1>4 DEF Calm, MailFailed
<1>6. Created' = Created /\ CodesFormed'
  BY <1>2, <1>3 DEF MailInv, CodesFormed, Created, HasCode
<1>7. Calm => (/\ asker[a].pc \in HasCode => Latest(asker[a].code)
               /\ asker[a].pc = "marked" => code[asker[a].code].state = "SENT")'
  BY <1>2, <1>3, <1>6 DEF MailInv, BusyHasLatest, HasCode, Latest
<1>8. MailsArrive'
  <2>1. CASE p = "mailed"
    <3>1. (MailFailed' => MailFailed) /\ \A n : BeingMailed(n) => BeingMailed(n)'
      BY <1>2, <1>3, <2>1 DEF MailFailed, BeingMailed
    <3>2. QED
      BY <1>2, <1>6, <2>1, <3>1 DEF MailInv, MailsArrive
  <2>2. CASE p = "refused"
    BY <1>2, <1>4, <2>2 DEF MailsArrive
  <2>3. QED
    BY <2>1, <2>2
<1>9. QED
  BY <1>2, <1>3, <1>5, <1>6, <1>7, <1>8, BusyGoesOn

LEMMA MarkMails ==
  ASSUME RecoveryInv, MailInv, NEW a \in Askers, MarkSent(a) \/ MarkFailed(a)
  PROVE  MailInv'
<1> DEFINE n == asker[a].code
<1>1. PICK p \in {"marked", "unmarked"} : asker' = [asker EXCEPT ![a].pc = p]
  BY DEF MarkSent, MarkFailed
<1>2. /\ asker'[a].pc = p /\ asker'[a].code = n
      /\ \A b \in Askers \ {a} : asker'[b] = asker[b]
  BY <1>1 DEF RecoveryInv, RecoveryTyped, AskerState
<1>3. rate' = rate /\ mishaps' = mishaps /\ asker[a].pc \in HasCode /\ asker[a].pc # "idle"
  BY DEF MarkSent, MarkFailed, HasCode
<1>4. \/ /\ p = "marked" /\ asker[a].pc = "mailed"
         /\ code' = [code EXCEPT ![n].state = "SENT"]
      \/ /\ p = "unmarked" /\ asker[a].pc = "refused"
         /\ code' = [code EXCEPT ![n].state = "FAILED", ![n].expired = TRUE]
  <2>1. CASE MarkSent(a)
    BY <1>2, <2>1 DEF MarkSent, RecoveryInv, RecoveryTyped, AskerState
  <2>2. CASE MarkFailed(a)
    BY <1>2, <2>2 DEF MarkFailed, RecoveryInv, RecoveryTyped, AskerState
  <2>3. QED
    BY <2>1, <2>2
<1> HIDE DEF n
<1>5. /\ n \in Codes => code'[n].state = IF p = "marked" THEN "SENT" ELSE "FAILED"
      /\ \A m \in Codes \ {n} : code'[m] = code[m]
  <2>1. code \in [Codes -> CodeDoc]
    BY DEF RecoveryInv, RecoveryTyped
  <2>2. n \in Codes => code'[n].state = IF p = "marked" THEN "SENT" ELSE "FAILED"
    BY <1>4, <2>1 DEF CodeDoc
  <2>3. QED
    BY <1>4, <2>1, <2>2
<1> USE DEF n
<1>6. n \in Created /\ Created' = Created
  BY <1>3, <1>5 DEF MailInv, CodesFormed, Created
<1>7. CodesFormed'
  BY <1>2, <1>3, <1>6 DEF MailInv, CodesFormed
<1>8. MailFailed' => MailFailed
  BY <1>2, <1>4, <1>5 DEF MailFailed
<1>9. Calm' => Calm
  BY <1>3, <1>8 DEF Calm
<1>10. Calm => (/\ asker[a].pc \in HasCode => Latest(asker[a].code)
                /\ asker[a].pc = "marked" => code[asker[a].code].state = "SENT")'
  BY <1>2, <1>3, <1>4, <1>5, <1>6 DEF MailInv, BusyHasLatest, Latest, Created
<1>11. MailsArrive'
  <2> SUFFICES ASSUME mishaps = 0, NEW m \in Created, m # n
               PROVE  code'[m].state = "SENT" \/ BeingMailed(m)'
    BY <1>2, <1>3, <1>5, <1>6, <1>8 DEF MailInv, MailsArrive, MailFailed, Created
  <2>1. code[m].state = "SENT" \/ BeingMailed(m)
    BY DEF MailInv, MailsArrive
  <2>2. BeingMailed(m) => BeingMailed(m)'
    BY <1>2 DEF BeingMailed
  <2>3. QED
    BY <1>5, <2>1, <2>2 DEF Created
<1> HIDE DEF n
<1>12. QED
  BY <1>2, <1>3, <1>7, <1>9, <1>10, <1>11, BusyGoesOn

(* The answer: a failed mail takes the cooldown with it.                   *)
LEMMA ReleaseMails ==
  ASSUME RecoveryInv, MailInv, NEW a \in Askers, ReleaseReservation(a)
  PROVE  MailInv'
<1>1. /\ asker'[a].pc = "idle" /\ \A b \in Askers \ {a} : asker'[b] = asker[b]
      /\ asker[a].pc \in {"marked", "unmarked"} /\ code' = code /\ mishaps' = mishaps
  BY IdleTyped DEF ReleaseReservation, RecoveryInv, RecoveryTyped
<1>2. /\ MailFailed' => MailFailed
      /\ Calm' => Calm
      /\ Created' = Created
      /\ \A n : Latest(n)' <=> Latest(n)
      /\ \A n : BeingMailed(n) => BeingMailed(n)'
  BY <1>1 DEF MailFailed, Calm, Created, Latest, BeingMailed
<1>3. CodesFormed'
  BY <1>1, <1>2 DEF MailInv, CodesFormed, HasCode
<1>4. Calm => rate.owner = a /\ Latest(asker[a].code)
              /\ \A b \in Askers \ {a} : asker[b].pc = "idle"
  BY <1>1 DEF MailInv, BusyStillHolds, BusyHasLatest, HasCode
<1>5. BusyStillHolds' /\ BusyHasLatest'
  BY <1>1, <1>2, <1>4 DEF BusyStillHolds, BusyHasLatest, HasCode
<1>6. MailsArrive'
  BY <1>1, <1>2 DEF MailInv, MailsArrive
<1>7. FailureFrees'
  <2> SUFFICES ASSUME mishaps = 1, NEW n \in Codes, Latest(n), code[n].state = "FAILED"
               PROVE  ~ rate'.cooldown
    BY <1>1, <1>2 DEF FailureFrees
  <2>1. Calm
    BY DEF Calm, MailFailed
  <2>2. asker[a].code = n
    <3>1. asker[a].code \in Codes /\ asker[a].code <= n /\ n <= asker[a].code
      BY <1>4, <2>1 DEF Latest, Created
    <3>2. QED
      BY <3>1, Bounds DEF Codes
  <2>3. asker[a].pc = "unmarked"
    BY <1>1, <2>1, <2>2 DEF MailInv, BusyHasLatest
  <2>4. rate' = [rate EXCEPT !.owner = None, !.cooldown = FALSE]
    BY <1>4, <2>1, <2>3 DEF ReleaseReservation
  <2>5. QED
    BY <2>4 DEF RecoveryInv, RecoveryTyped, RateDoc
<1>8. QED
  BY <1>3, <1>5, <1>6, <1>7 DEF MailInv

LEMMA CrashMails ==
  ASSUME RecoveryInv, MailInv, NEW a \in Askers, AskerCrash(a)
  PROVE  MailInv'
<1>1. /\ asker'[a].pc = "idle" /\ \A b \in Askers \ {a} : asker'[b] = asker[b]
      /\ code' = code /\ mishaps' = mishaps + 1
  BY IdleTyped DEF AskerCrash, RecoveryInv, RecoveryTyped
<1>2. (MailFailed' => MailFailed) /\ Created' = Created
  BY <1>1 DEF MailFailed, Created
<1>3. CodesFormed'
  BY <1>1, <1>2 DEF MailInv, CodesFormed, HasCode
<1>4. QED
  BY <1>1, <1>2, <1>3, OtherMishap

(* The cooldown that ends beside a request is a mishap.                    *)
LEMMA CooldownMails ==
  ASSUME RecoveryInv, MailInv, CooldownEnds
  PROVE  MailInv'
<1>1. ~ rate'.cooldown /\ code' = code /\ asker' = asker
  BY DEF CooldownEnds, RecoveryInv, RecoveryTyped, RateDoc
<1>2. /\ MailFailed' <=> MailFailed
      /\ Created' = Created
      /\ \A n : Latest(n)' <=> Latest(n)
      /\ \A n : BeingMailed(n)' <=> BeingMailed(n)
  BY <1>1 DEF MailFailed, Created, Latest, BeingMailed
<1>3. CodesFormed'
  BY <1>1, <1>2 DEF MailInv, CodesFormed
<1>4. CASE \E a \in Askers : rate.owner = a /\ asker[a].pc # "idle"
  BY <1>2, <1>3, <1>4, OtherMishap DEF CooldownEnds, Overtakes
<1>5. CASE ~ \E a \in Askers : rate.owner = a /\ asker[a].pc # "idle"
  <2>1. mishaps' = mishaps
    BY <1>5 DEF CooldownEnds, Overtakes
  <2>2. Calm' => Calm /\ Quiet
    BY <1>2, <1>5, <2>1 DEF Calm, Quiet, MailInv, BusyStillHolds
  <2>3. BusyStillHolds' /\ BusyHasLatest'
    BY <1>1, <2>2 DEF BusyStillHolds, BusyHasLatest, Quiet, HasCode
  <2>4. MailsArrive'
    BY <1>1, <1>2, <2>1 DEF MailInv, MailsArrive
  <2>5. FailureFrees'
    BY <1>1 DEF FailureFrees
  <2>6. QED
    BY <1>3, <2>3, <2>4, <2>5 DEF MailInv
<1>6. QED
  BY <1>4, <1>5

LEMMA ExpiryMails ==
  ASSUME RecoveryInv, MailInv, NEW n \in Codes, CodeExpires(n)
  PROVE  MailInv'
<1>1. \A m \in Codes : code'[m].state = code[m].state
  BY DEF CodeExpires, RecoveryInv, RecoveryTyped, CodeDoc
<1>2. UNCHANGED mishaps \/ mishaps' = mishaps + 1
  BY DEF CodeExpires, Overtakes
<1>3. QED
  BY <1>1, <1>2, MailRests DEF CodeExpires

(* Resetters use codes up; they do not change how the mail went.           *)
LEMMA ResetMails ==
  ASSUME RecoveryInv, MailInv, NEW r \in Resetters, ResetterStep(r)
  PROVE  MailInv'
<1> DEFINE n == resetter[r].code
<1>1. code \in [Codes -> CodeDoc]
  BY DEF RecoveryInv, RecoveryTyped
<1>2. UNCHANGED <<rate, asker, mishaps>>
  BY DEF ResetterStep, MatchCode, CountAttempt, ConsumeCode
<1>3. \/ code' = code
      \/ code' = [code EXCEPT ![n].used = TRUE]
      \/ \E k \in Int : code' = [code EXCEPT ![n].attempts = k]
  <2>1. CASE MatchCode(r)
    BY <2>1 DEF MatchCode
  <2>2. CASE CountAttempt(r)
    <3>1. PICK k : k = IF ~ code[n].used /\ code[n].attempts < MaxAttempts
                      THEN code[n].attempts + 1 ELSE code[n].attempts
      OBVIOUS
    <3>2. code' = [code EXCEPT ![n].attempts = k]
      BY <2>2, <3>1 DEF CountAttempt
    <3>3. n \in Codes => k \in Int
      BY <1>1, <3>1, Bounds DEF CodeDoc
    <3>4. n \notin Codes => code' = code
      BY <1>1, <3>2
    <3>5. QED
      BY <3>2, <3>3, <3>4
  <2>3. CASE ConsumeCode(r)
    BY <2>3 DEF ConsumeCode
  <2>4. QED
    BY <2>1, <2>2, <2>3 DEF ResetterStep
<1> HIDE DEF n
<1>4. \A m \in Codes : code'[m].state = code[m].state
  BY <1>1, <1>3 DEF CodeDoc
<1>5. QED
  BY <1>2, <1>4, MailRests

LEMMA StepMails ==
  ASSUME DocsTyped, RecoveryInv, MailInv, [Next]_vars
  PROVE  MailInv'
<1>1. CASE Browse \/ \E k \in Calls : Deliver(k)
  <2>1. UNCHANGED mishaps \/ mishaps' = mishaps + 1
    BY <1>1
       DEF Browse, Deliver, Receive, CallFails, SubmitLogin, SubmitRegistration,
           PressGoogle,
                SubmitForm, AskData, LoadProfile, SubmitChange, CallApi, Logout, Reload, Bootstrap,
                AccessExpires, DuplicateTab, Alone, Harmless, Mishap
  <2>2. UNCHANGED <<rate, code, asker>>
    BY <1>1, ClientEffect
  <2>3. QED
    BY <2>1, <2>2, MailRests
<1>2. CASE (\E k \in Calls : Serve(k)) \/ Administrate \/ UNCHANGED vars
  <2>1. UNCHANGED mishaps \/ mishaps' = mishaps + 1
    BY <1>2 DEF Serve, Administrate, Harmless, Mishap, vars
  <2>2. UNCHANGED <<rate, code, asker>>
    BY <1>2 DEF Serve, Administrate, vars
  <2>3. QED
    BY <2>1, <2>2, MailRests
<1>3. CASE Recover
  <2>1. CASE HourPasses
    <3>1. rate'.owner = rate.owner /\ rate'.cooldown = rate.cooldown
      BY <2>1 DEF HourPasses, RecoveryInv, RecoveryTyped, RateDoc
    <3>2. QED
      BY <2>1, <3>1, MailRests DEF HourPasses
  <2>2. QED
    BY <1>3, <2>1, AcquireMails, FindMails, CreateMails, SendMails, MarkMails, ReleaseMails,
       CrashMails, CooldownMails, ExpiryMails, ResetMails DEF Recover, AskerStep
<1>4. QED
  BY <1>1, <1>2, <1>3 DEF Next

LEMMA InitMails == Init => MailInv
<1> SUFFICES ASSUME Init PROVE MailInv
  OBVIOUS
<1>1. /\ \A a \in Askers : asker[a].pc = "idle"
      /\ \A n \in Codes : code[n].state = "ABSENT"
      /\ mishaps = 0
  BY IdleTyped DEF Init, NoCode
<1>2. Created = {} /\ ~ MailFailed
  BY <1>1 DEF Created, MailFailed
<1>3. QED
  BY <1>1, <1>2
     DEF MailInv, CodesFormed, HasCode, BusyStillHolds, BusyHasLatest, MailsArrive,
                    FailureFrees

LEMMA MailsInductive == Spec => [](IInv /\ MailInv)
<1>1. Init => IInv /\ MailInv
  BY InitIInv, InitMails
<1>2. IInv /\ MailInv /\ [Next]_vars => (IInv /\ MailInv)'
  BY NextIInv, StepMails DEF IInv
<1>3. QED
  BY <1>1, <1>2, PTL DEF Spec

(* sendPasswordResetOtp and what follows it: without a mishap a code that  *)
(* arrived is SENT before its request is answered.                         *)
THEOREM ArrivedCodesUsable == Spec => []ArrivedCodeUsable
<1>1. MailInv => ArrivedCodeUsable
  BY DEF MailInv, MailsArrive, BeingMailed, ArrivedCodeUsable, Unused
<1>2. QED
  BY <1>1, MailsInductive, PTL

(* There is a newest code, which Newest names.                             *)
LEMMA NewestIsLatest ==
  ASSUME Created # {}
  PROVE  Latest(Newest(Created))
<1> DEFINE T == {MaxCodes - n : n \in Created}
<1>1. \A n \in Created : n \in Int /\ MaxCodes - n \in Nat
  BY Bounds DEF Created, Codes
<1>2. T \subseteq Nat /\ T # {}
  BY <1>1
<1>max. MaxCodes \in Int
  BY Bounds
<1>3. PICK x \in T : \A y \in T : ~ (<<y, x>> \in OpToRel(<, Nat))
  BY <1>2, NatLessThanWellFounded, WFMin
<1>4. \A y \in T : ~ (y < x)
  BY <1>2, <1>3 DEF OpToRel
<1>5. PICK n \in Created : x = MaxCodes - n
  BY DEF T
<1>6. \A m \in Created : m <= n
  <2>1. ASSUME NEW m \in Created PROVE m <= n
    <3>1. ~ (MaxCodes - m < MaxCodes - n)
      BY <1>4, <1>5 DEF T
    <3>2. QED
      BY <1>1, <1>max, <3>1
  <2>2. QED
    BY <2>1
<1>7. QED
  BY <1>6 DEF Latest, Newest

(* sendPasswordResetOtp that fails, and the release after it: the cooldown *)
(* of a mail that never arrived does not keep the user from asking again.  *)
THEOREM FailedMailsFree == Spec => []FailedMailFreesUser
<1>1. MailInv => FailedMailFreesUser
  BY NewestIsLatest DEF MailInv, FailureFrees, Quiet, Latest, Created, FailedMailFreesUser
<1>2. QED
  BY <1>1, MailsInductive, PTL

-----------------------------------------------------------------------------
(* Part 7.  Tabs and server while nothing is lost or expires, no page is   *)
(* reloaded or duplicated and no sign-in overlaps.  A token is good if it  *)
(* works or belongs to credentials that were replaced.  A tab holds what   *)
(* it stores and what its calls present or bring.  Match is the invariant; *)
(* its preservation is shown for seven kinds of step, and then that every  *)
(* step without a mishap is of one of them.                                *)
Good(t) == token[t].state = "LIVE" \/ token[t].credential < account.credential
Holds(c, t) == tab[c].refresh = t \/ \E k \in Calls : call[k].tab = c /\ call[k].token = t
Waits == {"api", "profile", "change"}
Presents == {"refresh", "logout"}

(* No page is restoring its session, and a tab with a token shows its user.*)
TabsPlain == \A c \in Tabs : tab[c].ready /\ (tab[c].refresh # None => tab[c].user)
(* Every call that is under way is awaited by its tab.                     *)
CallsPlain ==
  \A k \in Calls : /\ call[k].pc = "free" <=> call[k].tab = None
                   /\ call[k].tab # None => call[k].kind \in Kinds
                   /\ call[k].kind \in Waits => call[k].token = None
                   /\ call[k].kind \in Presents => call[k].pc \in {"sent", "answered"}
                   /\ call[k].kind \in Forms =>
                        call[k].token = None \/ (call[k].pc = "answered" /\ call[k].status = "ok")
NoneAged == \A t \in Tokens : ~ token[t].expired
(* A sign-in and a sign-out are alone in their tab, a refresh is the only  *)
(* one, and who signs in is nobody yet.                                    *)
Sole ==
  \A j, k \in Calls : (call[j].tab = call[k].tab /\ call[k].tab # None) =>
    /\ call[k].kind \in Forms \cup {"logout"} => j = k
    /\ (call[j].kind = "refresh" /\ call[k].kind = "refresh") => j = k
Guests == \A k \in Calls : (call[k].tab # None /\ call[k].kind \in Forms) => ~ tab[call[k].tab].user
(* No token is in two tabs, and those of one tab are of one credential.    *)
Apart == \A c, d \in Tabs : \A t \in Tokens : (Holds(c, t) /\ Holds(d, t)) => c = d
OneIssue ==
  \A c \in Tabs : \A t, u \in Tokens :
    (Holds(c, t) /\ Holds(c, u)) => token[t].credential = token[u].credential
(* What is presented is good and is what the tab stores, unless the tab    *)
(* has been signed out meanwhile because the token no longer worked.       *)
Presented ==
  \A k \in Calls : call[k].pc = "sent" =>
    /\ call[k].kind = "refresh" =>
         /\ Good(call[k].token)
         /\ \/ tab[call[k].tab].refresh = call[k].token
            \/ tab[call[k].tab].refresh = None /\ token[call[k].token].state # "LIVE"
    /\ call[k].kind = "logout" => tab[call[k].tab].refresh = call[k].token
(* What is stored is good, unless the answer that replaces it is there.    *)
Kept ==
  \A c \in Tabs : tab[c].refresh # None =>
    \/ Good(tab[c].refresh)
    \/ \E k \in Calls : call[k].tab = c /\ call[k].kind \in Presents /\ call[k].pc = "answered"
(* What an answer brings is good, ...                                      *)
Carried ==
  \A k \in Calls :
    (call[k].pc = "answered" /\ call[k].kind \in Forms \cup {"refresh"} /\ call[k].status = "ok")
      => Good(call[k].token)
(* ... and what it replaces no longer works.                               *)
Spent ==
  \A k \in Calls : (call[k].pc = "answered" /\ call[k].kind \in Presents) =>
    /\ tab[call[k].tab].refresh # None => token[tab[call[k].tab].refresh].state # "LIVE"
    /\ (call[k].kind = "logout" \/ call[k].status # "ok") => token[call[k].token].state # "LIVE"
(* A call that is sent again presents the credential of its tab's tokens.  *)
Retried ==
  \A k \in Calls : (call[k].kind \in Waits /\ call[k].pc = "sent" /\ ~ call[k].retry) =>
    \A t \in Tokens : Holds(call[k].tab, t) => token[t].credential = call[k].credential
(* An answer that makes a tab give its session up finds that it has ended. *)
Dismisses(k) ==
  /\ call[k].kind \in Waits /\ call[k].pc = "answered"
  /\ \/ call[k].status = "unauthorized" /\ ~ call[k].retry
     \/ call[k].status = "ok" /\ call[k].kind = "change"
Dismissed ==
  \A k \in Calls : Dismisses(k) =>
    \A t \in Tokens : Holds(call[k].tab, t) => token[t].state # "LIVE"
LiveHeld ==
  \A t \in Tokens : token[t].state = "LIVE" =>
    \/ \E c \in Tabs : tab[c].refresh = t
    \/ \E k \in Calls : call[k].pc = "answered" /\ call[k].token = t

Match ==
  /\ TabsPlain /\ CallsPlain /\ NoneAged /\ Sole /\ Guests
  /\ Apart /\ OneIssue
  /\ Presented /\ Kept /\ Carried /\ Spent /\ Retried /\ Dismissed
  /\ LiveHeld

(* What the types say of tokens and tabs.                                  *)
LEMMA Places ==
  ASSUME ClientFormed
  PROVE  /\ None \notin Tabs /\ None \notin Tokens
         /\ \A k \in Calls : /\ call[k].tab \in Tabs \cup {None}
                             /\ call[k].token \in Tokens \cup {None}
                             /\ call[k].token # None => token[call[k].token].state # "ABSENT"
                             /\ call[k].kind \in Presents => call[k].token # None
                             /\ call[k].kind \in Kinds \cup {None}
                             /\ (call[k].kind \in Forms /\ call[k].pc = "answered" /\ call[k].status = "ok")
                                  => call[k].token # None
         /\ \A c \in Tabs : /\ tab[c].refresh \in Tokens \cup {None}
                            /\ tab[c].refresh # None => token[tab[c].refresh].state # "ABSENT"
<1>1. None \notin Tabs /\ None \notin Tokens
  BY AccountAssumption
<1>2. \A k \in Calls : CallFormed(call[k], Known)
  BY DEF ClientFormed, CallsFormed
<1>3. \A c \in Tabs : TabFormed(tab[c], Known)
  BY DEF ClientFormed, TabsFormed
<1>4. QED
  BY <1>1, <1>2, <1>3 DEF CallFormed, TabFormed, Known, Presents, Call, TabState

LEMMA Credits ==
  ASSUME DocsTyped
  PROVE  account.credential \in Nat /\ \A t \in Tokens : token[t].credential \in Nat
BY Bounds DEF DocsTyped, Account, TokenDoc, Credentials

(* Sessions end, or nothing happens to them.                               *)
Weaker ==
  \A t \in Tokens : /\ token'[t].credential = token[t].credential
                    /\ token'[t].expired = token[t].expired
                    /\ token'[t].state = "LIVE" => token[t].state = "LIVE"

LEMMA Weakens ==
  ASSUME ClientFormed, Match, call' = call, tab' = tab, Weaker,
         \A t \in Tokens : Good(t) => Good(t)'
  PROVE  Match'
<1>1. \A c, t : Holds(c, t)' <=> Holds(c, t)
  BY DEF Holds
<1>2. TabsPlain' /\ CallsPlain' /\ NoneAged' /\ Sole' /\ Guests'
  BY DEF Match, TabsPlain, CallsPlain, NoneAged, Sole, Guests, Weaker
<1>3. Apart' /\ OneIssue'
  BY <1>1 DEF Match, Apart, OneIssue, Weaker
<1>4. Presented'
  BY Places DEF Match, Presented, Weaker, Presents
<1>5. Kept' /\ Carried'
  <2>1. Kept'
    BY Places DEF Match, Kept
  <2>2. \A k \in Calls : call[k].kind = "refresh" => call[k].token \in Tokens
    BY Places DEF Presents
  <2>3. Carried'
    BY <2>2, Places DEF Match, Carried
  <2>4. QED
    BY <2>1, <2>3
<1>6. Spent'
  BY Places DEF Match, CallsPlain, Spent, Weaker
<1>7. Retried'
  BY <1>1 DEF Match, Retried, Weaker
<1>8. Dismissed'
  BY <1>1 DEF Match, Dismissed, Dismisses, Weaker
<1>9. LiveHeld'
  BY DEF Match, LiveHeld, Weaker
<1>10. QED
  BY <1>2, <1>3, <1>4, <1>5, <1>6, <1>7, <1>8, <1>9 DEF Match

(* Whoever answers with a token that was not there before is the only call *)
(* of its tab that can have one.                                           *)
LEMMA AnswerKeeps ==
  ASSUME ClientFormed, Match, NEW k \in Calls, call[k].pc \in {"sent", "checked"},
         \A j \in Calls \ {k} : call'[j] = call[j],
         call'[k].pc = "answered", call'[k].kind = call[k].kind, call'[k].tab = call[k].tab,
         call'[k].token = call[k].token, call'[k].retry = call[k].retry,
         tab' = tab, Weaker,
         \A t \in Tokens : Good(t) => Good(t)' \/ (call[k].kind = "logout" /\ call[k].token = t),
         call[k].kind \in Forms \cup {"refresh"} => call'[k].status # "ok",
         call[k].kind \in Presents => ~ (token'[call[k].token].state = "LIVE"),
         Dismisses(k)' => \A t \in Tokens : Holds(call[k].tab, t) => token'[t].state # "LIVE"
  PROVE  Match'
<1> DEFINE c == call[k].tab
<1>0. /\ c \in Tabs
      /\ \A j \in Calls : call[j].tab # None => call[j].tab \in Tabs
      /\ \A j \in Calls : /\ call'[j].tab = call[j].tab /\ call'[j].kind = call[j].kind
                          /\ call'[j].token = call[j].token /\ call'[j].retry = call[j].retry
                          /\ j # k => call'[j] = call[j]
                          /\ call[j].pc # "free" <=> call[j].tab # None
      /\ \A j \in Calls : call[j].kind \in Presents => call[j].token \in Tokens
      /\ \A d \in Tabs : tab[d].refresh # None => tab[d].refresh \in Tokens
  BY Places DEF Match, CallsPlain
<1> HIDE DEF c
<1>1. \A d : \A t : Holds(d, t)' <=> Holds(d, t)
  BY <1>0 DEF Holds
<1>2. TabsPlain' /\ NoneAged' /\ Sole' /\ Guests'
  BY <1>0 DEF Match, TabsPlain, NoneAged, Sole, Guests, Weaker
<1>3. CallsPlain'
  BY <1>0 DEF Match, CallsPlain, c
<1>4. Apart' /\ OneIssue'
  BY <1>1 DEF Match, Apart, OneIssue, Weaker
<1>5. \A j \in Calls : (call[j].token \in Tokens /\ Good(call[j].token) /\ j # k /\ call[j].tab # None)
                         => Good(call[j].token)'
  <2> SUFFICES ASSUME NEW j \in Calls, j # k, call[j].token \in Tokens, call[j].tab # None,
                      call[k].kind = "logout", call[k].token = call[j].token
               PROVE  FALSE
    OBVIOUS
  <2>1. Holds(c, call[j].token) /\ Holds(call[j].tab, call[j].token)
    BY DEF Holds, c
  <2>2. call[j].tab = c
    BY <1>0, <2>1 DEF Match, Apart
  <2>3. QED
    BY <1>0, <2>2 DEF Match, Sole, c
<1>6. Presented'
  BY <1>0, <1>5, Places DEF Match, Presented, Weaker, Presents
<1>7. Kept'
  <2> SUFFICES ASSUME NEW d \in Tabs, tab[d].refresh # None
               PROVE  \/ Good(tab[d].refresh)'
                      \/ \E j \in Calls : call'[j].tab = d /\ call'[j].kind \in Presents
                                            /\ call'[j].pc = "answered"
    BY DEF Kept
  <2>1. CASE Good(tab[d].refresh)
    <3>1. CASE call[k].kind = "logout" /\ call[k].token = tab[d].refresh
      <4>1. Holds(c, tab[d].refresh) /\ Holds(d, tab[d].refresh)
        BY <3>1 DEF Holds, c
      <4>2. d = c
        BY <1>0, <4>1 DEF Match, Apart
      <4>3. QED
        BY <1>0, <3>1, <4>2 DEF Presents, c
    <3>2. QED
      BY <1>0, <2>1, <3>1
  <2>2. CASE ~ Good(tab[d].refresh)
    <3>1. PICK j \in Calls : call[j].tab = d /\ call[j].kind \in Presents /\ call[j].pc = "answered"
      BY <2>2 DEF Match, Kept
    <3>2. call'[j].pc = "answered"
      BY <3>1, <1>0
    <3>3. QED
      BY <1>0, <3>1, <3>2
  <2>3. QED
    BY <2>1, <2>2
<1>8. Carried'
  <2>1. \A j \in Calls : (call[j].kind \in Forms /\ call[j].pc = "answered" /\ call[j].status = "ok")
          => call[j].token \in Tokens
    BY Places
  <2>2. QED
    BY <1>0, <1>5, <2>1 DEF Match, Carried, Presents
<1>9. Spent'
  <2> SUFFICES ASSUME NEW j \in Calls, call'[j].pc = "answered", call[j].kind \in Presents
               PROVE  /\ tab[call[j].tab].refresh # None =>
                           token'[tab[call[j].tab].refresh].state # "LIVE"
                      /\ (call[j].kind = "logout" \/ call'[j].status # "ok")
                           => token'[call[j].token].state # "LIVE"
    BY <1>0 DEF Spent
  <2>1. CASE j = k
    <3>1. call[k].pc = "sent"
      BY <2>1 DEF Match, CallsPlain, Presents
    <3>2. CASE tab[c].refresh = call[k].token
      BY <2>1, <3>2 DEF c
    <3>3. CASE tab[c].refresh # call[k].token
      BY <2>1, <3>1, <3>3 DEF Match, Presented, Presents, c
    <3>4. QED
      BY <3>2, <3>3
  <2>2. CASE j # k
    <3>1. call[j].pc = "answered" /\ call[j].tab \in Tabs /\ call'[j].status = call[j].status
      BY <1>0, <2>2
    <3>2. QED
      BY <1>0, <3>1 DEF Match, Spent, Weaker
  <2>3. QED
    BY <2>1, <2>2
<1>10. Retried'
  BY <1>0, <1>1 DEF Match, Retried, Weaker
<1>11. Dismissed'
  <2> SUFFICES ASSUME NEW j \in Calls, Dismisses(j)'
               PROVE  \A t \in Tokens : Holds(call[j].tab, t) => token'[t].state # "LIVE"
    BY <1>0, <1>1 DEF Dismissed
  <2>1. CASE j = k
    BY <2>1
  <2>2. CASE j # k
    BY <1>0, <2>2 DEF Match, Dismissed, Dismisses, Weaker
  <2>3. QED
    BY <2>1, <2>2
<1>12. LiveHeld'
  BY <1>0 DEF Match, LiveHeld, Weaker
<1>13. QED
  BY <1>2, <1>3, <1>4, <1>6, <1>7, <1>8, <1>9, <1>10, <1>11, <1>12 DEF Match

(* A sign-in is answered with the first token of a new session.            *)
LEMMA OpenCarries ==
  ASSUME DocsTyped, ClientFormed, Match, NEW k \in Calls, NEW c \in Tabs, c = call[k].tab,
         call[k].pc \in {"sent", "checked"},
         call[k].kind \in Forms, NEW n \in Tokens, token[n].state = "ABSENT",
         \A j \in Calls \ {k} : call'[j] = call[j],
         call'[k].pc = "answered", call'[k].kind = call[k].kind, call'[k].tab = call[k].tab,
         call'[k].token = n, call'[k].status = "ok", tab' = tab,
         \A t \in Tokens \ {n} : token'[t] = token[t],
         token'[n].state = "LIVE", ~ token'[n].expired,
         account'.credential = account.credential
  PROVE  Match'
<1>k. call[k].kind \notin Presents /\ call[k].kind \notin Waits
  BY DEF Forms, Presents, Waits
<1>0. /\ \A j \in Calls : call[j].tab # None => call[j].tab \in Tabs
      /\ \A j \in Calls : /\ call'[j].tab = call[j].tab /\ call'[j].kind = call[j].kind
                          /\ j # k => call'[j] = call[j]
                          /\ call[j].pc # "free" <=> call[j].tab # None
      /\ \A j \in Calls : call[j].kind \in Presents => call[j].token \in Tokens \ {n}
      /\ \A j \in Calls : call[j].token # n
      /\ \A d \in Tabs : tab[d].refresh # n /\ (tab[d].refresh # None => tab[d].refresh \in Tokens \ {n})
      /\ \A j \in Calls : call[j].tab = c => j = k
      /\ tab[c].refresh = None
  BY Places DEF Match, CallsPlain, Sole, Guests, TabsPlain, Presents
<1>1. /\ \A t : Holds(c, t)' => t = n \/ t = None
      /\ \A d \in Tabs \ {c} : \A t : Holds(d, t)' <=> Holds(d, t)
      /\ \A d \in Tabs : ~ Holds(d, n)
  BY <1>0 DEF Holds
<1>2. \A t \in Tokens \ {n} : Good(t)' <=> Good(t)
  BY DEF Good
<1>3. TabsPlain' /\ NoneAged' /\ Sole' /\ Guests'
  BY <1>0 DEF Match, TabsPlain, NoneAged, Sole, Guests
<1>4. CallsPlain'
  BY <1>0, <1>k DEF Match, CallsPlain
<1>5. Apart' /\ OneIssue'
  <2>1. Apart'
    <3> SUFFICES ASSUME NEW d \in Tabs, NEW e \in Tabs, NEW t \in Tokens, Holds(d, t)',
                        Holds(e, t)'
                 PROVE  d = e
      BY DEF Apart
    <3>1. CASE t = n
      BY <1>1, <3>1
    <3>2. CASE t # n
      <4>1. d # c /\ e # c
        BY <1>1, <3>2, Places
      <4>2. QED
        BY <1>1, <4>1 DEF Match, Apart
    <3>3. QED
      BY <3>1, <3>2
  <2>2. OneIssue'
    <3> SUFFICES ASSUME NEW d \in Tabs, NEW t \in Tokens, NEW u \in Tokens, Holds(d, t)',
                        Holds(d, u)'
                 PROVE  token'[t].credential = token'[u].credential
      BY DEF OneIssue
    <3>1. CASE d = c
      BY <1>1, <3>1, Places
    <3>2. CASE d # c
      <4>1. Holds(d, t) /\ Holds(d, u) /\ t # n /\ u # n
        BY <1>1, <3>2
      <4>2. QED
        BY <4>1 DEF Match, OneIssue
    <3>3. QED
      BY <3>1, <3>2
  <2>3. QED
    BY <2>1, <2>2
<1>6. Presented'
  BY <1>0, <1>2 DEF Match, Presented, Presents
<1>7. Kept'
  BY <1>0, <1>2, <1>k DEF Match, Kept
<1>8. Carried'
  <2> SUFFICES ASSUME NEW j \in Calls, call'[j].pc = "answered",
                      call[j].kind \in Forms \cup {"refresh"},
                      call'[j].status = "ok"
               PROVE  Good(call[j].token)'
    BY <1>0 DEF Carried
  <2>1. CASE j = k
    BY <2>1 DEF Good
  <2>2. CASE j # k
    <3>1. call[j].token \in Tokens \ {n}
      BY <1>0, <2>2, Places DEF Presents
    <3>2. QED
      BY <1>0, <1>2, <2>2, <3>1 DEF Match, Carried
  <2>3. QED
    BY <2>1, <2>2
<1>9. Spent'
  <2> SUFFICES ASSUME NEW j \in Calls, j # k, call[j].pc = "answered", call[j].kind \in Presents
               PROVE  /\ tab[call[j].tab].refresh # None =>
                           token'[tab[call[j].tab].refresh].state # "LIVE"
                      /\ (call[j].kind = "logout" \/ call[j].status # "ok")
                           => token'[call[j].token].state # "LIVE"
    BY <1>0, <1>k DEF Spent
  <2>1. call[j].tab \in Tabs /\ call[j].token \in Tokens \ {n}
    BY <1>0
  <2>2. QED
    BY <1>0, <2>1 DEF Match, Spent
<1>10. Retried'
  <2> SUFFICES ASSUME NEW j \in Calls, j # k, call[j].kind \in Waits, call[j].pc = "sent",
                      ~ call[j].retry,
                      NEW t \in Tokens, Holds(call[j].tab, t)'
               PROVE  token'[t].credential = call[j].credential
    BY <1>0, <1>k DEF Retried
  <2>1. call[j].tab \in Tabs \ {c}
    BY <1>0
  <2>2. QED
    BY <1>1, <2>1 DEF Match, Retried
<1>11. Dismissed'
  <2> SUFFICES ASSUME NEW j \in Calls, j # k, Dismisses(j), NEW t \in Tokens,
                      Holds(call[j].tab, t)'
               PROVE  token'[t].state # "LIVE"
    BY <1>0, <1>k DEF Dismissed, Dismisses
  <2>1. call[j].tab \in Tabs \ {c}
    BY <1>0 DEF Dismisses
  <2>2. QED
    BY <1>1, <2>1 DEF Match, Dismissed
<1>12. LiveHeld'
  BY <1>0 DEF Match, LiveHeld
<1>13. QED
  BY <1>3, <1>4, <1>5, <1>6, <1>7, <1>8, <1>9, <1>10, <1>11, <1>12 DEF Match

(* A refresh is answered with the successor of the token it presents.      *)
LEMMA RotateCarries ==
  ASSUME DocsTyped, SessionInv, ClientFormed, Match, NEW k \in Calls, NEW c \in Tabs,
         c = call[k].tab, call[k].pc = "sent",
         call[k].kind = "refresh", NEW t \in Tokens, t = call[k].token, token[t].state = "LIVE",
         NEW n \in Tokens, token[n].state = "ABSENT",
         \A j \in Calls \ {k} : call'[j] = call[j],
         call'[k].pc = "answered", call'[k].kind = call[k].kind, call'[k].tab = call[k].tab,
         call'[k].token = n, call'[k].status = "ok", tab' = tab,
         \A u \in Tokens \ {t, n} : token'[u] = token[u],
         token'[t].state = "REVOKED", token'[t].credential = token[t].credential,
         ~ token'[t].expired,
         token'[n].state = "LIVE", ~ token'[n].expired, token'[n].credential = account.credential,
         account'.credential = account.credential
  PROVE  Match'
<1>k. call[k].kind \in Presents /\ call[k].kind \notin Waits
  BY DEF Presents, Waits
<1>0. /\ \A j \in Calls : call[j].tab # None => call[j].tab \in Tabs
      /\ \A j \in Calls : /\ call'[j].tab = call[j].tab /\ call'[j].kind = call[j].kind
                          /\ j # k => call'[j] = call[j]
                          /\ call[j].pc # "free" <=> call[j].tab # None
      /\ \A j \in Calls : call[j].kind \in Presents => call[j].token \in Tokens \ {n}
      /\ \A j \in Calls : call[j].token # n
      /\ \A d \in Tabs : tab[d].refresh # n /\ (tab[d].refresh # None => tab[d].refresh \in Tokens \ {n})
  BY Places DEF Match, CallsPlain
<1>t. tab[c].refresh = t /\ Holds(c, t) /\ t # n
  BY <1>0, <1>k DEF Match, Presented, Holds
<1>c. token[t].credential = account.credential
  BY DEF SessionInv, LiveTokensCurrent, Live
<1>s. \A j \in Calls : (call[j].tab = c /\ j # k) => call[j].kind \in Waits /\ call[j].token = None
  <2> SUFFICES ASSUME NEW j \in Calls, call[j].tab = c, j # k
               PROVE  call[j].kind \in Waits /\ call[j].token = None
    OBVIOUS
  <2>1. call[j].kind \in Kinds /\ call[j].kind \notin Forms \cup {"logout"} /\ call[j].kind # "refresh"
    BY <1>0 DEF Match, CallsPlain, Sole
  <2>2. call[j].kind \in Waits
    BY <2>1 DEF Kinds, Waits
  <2>3. QED
    BY <2>2 DEF Match, CallsPlain
<1>1. /\ \A u \in Tokens : Holds(c, u)' <=> u = t \/ u = n
      /\ \A d \in Tabs \ {c} : \A u : Holds(d, u)' <=> Holds(d, u)
      /\ \A d \in Tabs : ~ Holds(d, n)
      /\ \A d \in Tabs \ {c} : ~ Holds(d, t)
  <2>1. \A d \in Tabs \ {c} : ~ Holds(d, t)
    BY <1>0, <1>t DEF Match, Apart
  <2>2. \A u \in Tokens : Holds(c, u)' <=> u = t \/ u = n
    BY <1>0, <1>t, <1>s, Places DEF Holds
  <2>3. QED
    BY <1>0, <2>1, <2>2 DEF Holds
<1>2. \A u \in Tokens \ {t, n} : Good(u)' <=> Good(u)
  BY DEF Good
<1>o. \A j \in Calls : (j # k /\ call[j].tab # None) => call[j].token # t
  <2> SUFFICES ASSUME NEW j \in Calls, j # k, call[j].tab # None, call[j].token = t PROVE FALSE
    OBVIOUS
  <2>1. Holds(call[j].tab, t)
    BY DEF Holds
  <2>2. call[j].tab = c
    BY <1>0, <1>1, <2>1
  <2>3. QED
    BY <1>s, <2>2, Places
<1>3. TabsPlain' /\ NoneAged' /\ Sole' /\ Guests'
  BY <1>0, <1>t DEF Match, TabsPlain, NoneAged, Sole, Guests
<1>4. CallsPlain'
  BY <1>0, <1>k DEF Match, CallsPlain
<1>5. Apart' /\ OneIssue'
  <2>1. Apart'
    <3> SUFFICES ASSUME NEW d \in Tabs, NEW e \in Tabs, NEW u \in Tokens, Holds(d, u)',
                        Holds(e, u)'
                 PROVE  d = e
      BY DEF Apart
    <3>1. CASE u \in {t, n}
      <4>1. d = c /\ e = c
        BY <1>1, <3>1
      <4>2. QED
        BY <4>1
    <3>2. CASE u \notin {t, n}
      <4>1. d # c /\ e # c
        BY <1>1, <3>2
      <4>2. QED
        BY <1>1, <4>1 DEF Match, Apart
    <3>3. QED
      BY <3>1, <3>2
  <2>2. OneIssue'
    <3> SUFFICES ASSUME NEW d \in Tabs, NEW u \in Tokens, NEW v \in Tokens, Holds(d, u)',
                        Holds(d, v)'
                 PROVE  token'[u].credential = token'[v].credential
      BY DEF OneIssue
    <3>1. CASE d = c
      <4>1. u \in {t, n} /\ v \in {t, n}
        BY <1>1, <3>1
      <4>2. QED
        BY <1>c, <4>1
    <3>2. CASE d # c
      <4>1. Holds(d, u) /\ Holds(d, v) /\ u \notin {t, n} /\ v \notin {t, n}
        BY <1>1, <3>2
      <4>2. token'[u] = token[u] /\ token'[v] = token[v]
        BY <4>1
      <4>3. QED
        BY <4>1, <4>2 DEF Match, OneIssue
    <3>3. QED
      BY <3>1, <3>2
  <2>3. QED
    BY <2>1, <2>2
<1>6. Presented'
  <2> SUFFICES ASSUME NEW j \in Calls, j # k, call[j].pc = "sent"
               PROVE  /\ call[j].kind = "refresh" =>
                           /\ Good(call[j].token)'
                           /\ \/ tab[call[j].tab].refresh = call[j].token
                              \/ /\ tab[call[j].tab].refresh = None
                                 /\ token'[call[j].token].state # "LIVE"
                      /\ call[j].kind = "logout" => tab[call[j].tab].refresh = call[j].token
    BY <1>0 DEF Presented
  <2>1. call[j].kind = "refresh" => call[j].token \in Tokens \ {t, n}
    BY <1>0, <1>o DEF Presents
  <2>2. QED
    BY <1>2, <2>1 DEF Match, Presented
<1>7. Kept'
  <2> SUFFICES ASSUME NEW d \in Tabs, tab[d].refresh # None
               PROVE  \/ Good(tab[d].refresh)'
                      \/ \E j \in Calls : call'[j].tab = d /\ call'[j].kind \in Presents
                                            /\ call'[j].pc = "answered"
    BY DEF Kept
  <2>1. CASE d = c
    BY <1>0, <1>k, <2>1
  <2>2. CASE d # c
    <3>1. tab[d].refresh \in Tokens \ {t, n}
      BY <1>0, <1>1, <2>2 DEF Holds
    <3>2. QED
      BY <1>0, <1>2, <3>1 DEF Match, Kept
  <2>3. QED
    BY <2>1, <2>2
<1>8. Carried'
  <2> SUFFICES ASSUME NEW j \in Calls, call'[j].pc = "answered",
                      call[j].kind \in Forms \cup {"refresh"},
                      call'[j].status = "ok"
               PROVE  Good(call[j].token)'
    BY <1>0 DEF Carried
  <2>1. CASE j = k
    BY <2>1 DEF Good
  <2>2. CASE j # k
    <3>1. call[j].token \in Tokens \ {t, n}
      BY <1>0, <1>o, <2>2, Places DEF Presents
    <3>2. QED
      BY <1>0, <1>2, <2>2, <3>1 DEF Match, Carried
  <2>3. QED
    BY <2>1, <2>2
<1>9. Spent'
  <2> SUFFICES ASSUME NEW j \in Calls, call'[j].pc = "answered", call[j].kind \in Presents
               PROVE  /\ tab[call[j].tab].refresh # None =>
                           token'[tab[call[j].tab].refresh].state # "LIVE"
                      /\ (call[j].kind = "logout" \/ call'[j].status # "ok")
                           => token'[call'[j].token].state # "LIVE"
    BY <1>0 DEF Spent
  <2>1. CASE j = k
    BY <1>0, <1>t, <2>1
  <2>2. CASE j # k
    <3>1. call[j].tab \in Tabs /\ call[j].token \in Tokens \ {t, n} /\ call'[j] = call[j]
      BY <1>0, <1>o, <2>2
    <3>2. \A u \in Tokens \ {n} : token'[u].state = "LIVE" => token[u].state = "LIVE"
      OBVIOUS
    <3>3. QED
      BY <1>0, <2>2, <3>1, <3>2 DEF Match, Spent
  <2>3. QED
    BY <2>1, <2>2
<1>10. Retried'
  <2> SUFFICES ASSUME NEW j \in Calls, j # k, call[j].kind \in Waits, call[j].pc = "sent",
                      ~ call[j].retry,
                      NEW u \in Tokens, Holds(call[j].tab, u)'
               PROVE  token'[u].credential = call[j].credential
    BY <1>0, <1>k DEF Retried
  <2>1. call[j].tab \in Tabs
    BY <1>0
  <2>2. CASE call[j].tab = c
    <3>1. token[t].credential = call[j].credential
      BY <1>t, <2>2 DEF Match, Retried
    <3>2. u = t \/ u = n
      <4>1. call'[j].tab = c
        BY <1>0, <2>2
      <4>2. QED
        BY <1>1, <4>1
    <3>3. QED
      BY <1>c, <3>1, <3>2
  <2>3. CASE call[j].tab # c
    <3>1. Holds(call[j].tab, u) /\ u # t /\ u # n
      BY <1>1, <2>1, <2>3
    <3>2. QED
      BY <3>1 DEF Match, Retried
  <2>4. QED
    BY <2>2, <2>3
<1>11. Dismissed'
  <2> SUFFICES ASSUME NEW j \in Calls, j # k, Dismisses(j), NEW u \in Tokens,
                      Holds(call[j].tab, u)'
               PROVE  token'[u].state # "LIVE"
    BY <1>0, <1>k DEF Dismissed, Dismisses
  <2>1. call[j].tab \in Tabs \ {c}
    BY <1>0, <1>t DEF Match, Dismissed, Dismisses
  <2>2. QED
    BY <1>1, <2>1 DEF Match, Dismissed
<1>12. LiveHeld'
  <2> SUFFICES ASSUME NEW u \in Tokens, token'[u].state = "LIVE", u # n, u # t
               PROVE  \/ \E d \in Tabs : tab[d].refresh = u
                      \/ \E j \in Calls : call'[j].pc = "answered" /\ call'[j].token = u
    BY DEF LiveHeld
  <2>1. token[u].state = "LIVE"
    OBVIOUS
  <2>2. QED
    BY <1>0, <2>1 DEF Match, LiveHeld
<1>13. QED
  BY <1>3, <1>4, <1>5, <1>6, <1>7, <1>8, <1>9, <1>10, <1>11, <1>12 DEF Match

(* A call waits, for its second statement on the server or for a refresh.  *)
Pauses(j) ==
  /\ call'[j].kind = call[j].kind /\ call'[j].tab = call[j].tab /\ call'[j].token = call[j].token
  /\ call'[j].pc \in {"checked", "waiting"} /\ call[j].pc # "free"
  /\ call[j].kind \notin Presents /\ (call[j].pc = "answered" => call[j].kind \in Waits)

LEMMA PauseKeeps ==
  ASSUME ClientFormed, Match, \A j \in Calls : call'[j] = call[j] \/ Pauses(j),
         tab' = tab, account' = account, token' = token
  PROVE  Match'
<1>1. \A j \in Calls : /\ call'[j].tab = call[j].tab /\ call'[j].kind = call[j].kind
                       /\ call'[j].token = call[j].token
                       /\ call'[j].pc = "free" <=> call[j].pc = "free"
                       /\ call'[j].pc \in {"sent", "answered", "free"} => call'[j] = call[j]
                       /\ call[j].kind \in Presents => call'[j] = call[j]
                       /\ (call[j].kind \in Forms /\ call[j].pc = "answered") =>
                            call'[j] = call[j]
  BY DEF Pauses, Waits, Forms
<1>2. \A d, t : Holds(d, t)' <=> Holds(d, t)
  BY <1>1 DEF Holds
<1>3. TabsPlain' /\ NoneAged' /\ Sole' /\ Guests'
  BY <1>1 DEF Match, TabsPlain, NoneAged, Sole, Guests
<1>4. CallsPlain'
  BY <1>1 DEF Match, CallsPlain
<1>5. Apart' /\ OneIssue'
  BY <1>2 DEF Match, Apart, OneIssue
<1>6. Presented'
  BY <1>1 DEF Match, Presented, Good
<1>7. Kept'
  <2> SUFFICES ASSUME NEW d \in Tabs, tab[d].refresh # None, ~ Good(tab[d].refresh)
               PROVE  \E j \in Calls : /\ call'[j].tab = d /\ call'[j].kind \in Presents
                                       /\ call'[j].pc = "answered"
    BY DEF Kept, Good
  <2>1. PICK j \in Calls : call[j].tab = d /\ call[j].kind \in Presents /\ call[j].pc = "answered"
    BY DEF Match, Kept
  <2>2. QED
    BY <1>1, <2>1
<1>8. Carried' /\ Spent'
  BY <1>1 DEF Match, Carried, Spent, Good
<1>9. Retried'
  BY <1>1, <1>2 DEF Match, Retried
<1>10. Dismissed'
  BY <1>1, <1>2 DEF Match, Dismissed, Dismisses
<1>11. LiveHeld'
  <2> SUFFICES ASSUME NEW t \in Tokens, token[t].state = "LIVE",
                      NEW j \in Calls, call[j].pc = "answered", call[j].token = t
               PROVE  call'[j].pc = "answered" /\ call'[j].token = t
    BY DEF Match, LiveHeld
  <2>1. call[j].kind \notin Waits
    BY Places DEF Match, CallsPlain
  <2>2. QED
    BY <2>1 DEF Pauses
<1>12. QED
  BY <1>3, <1>4, <1>5, <1>6, <1>7, <1>8, <1>9, <1>10, <1>11 DEF Match

(* A tab sends a call, and a refused call may wait for it.                 *)
LEMMA SendKeeps ==
  ASSUME ClientFormed, Match, NEW m \in Calls, NEW c \in Tabs, call[m].pc = "free",
         \A j \in Calls \ {m} : call'[j] = call[j] \/ Pauses(j),
         call'[m].pc = "sent", call'[m].tab = c, call'[m].kind \in Kinds, call'[m].retry,
         \/ call'[m].kind \in Presents /\ tab[c].refresh # None /\ call'[m].token = tab[c].refresh
         \/ call'[m].kind \notin Presents /\ call'[m].token = None,
         call'[m].kind \in Forms \cup {"logout"} => CallsOf(c) = {},
         call'[m].kind \in Forms => ~ tab[c].user,
         call'[m].kind = "refresh" => Pending(c, {"refresh"}) = {},
         Pending(c, Forms \cup {"logout"}) = {},
         tab' = tab, account' = account, token' = token
  PROVE  Match'
<1>f. call[m].tab = None
  BY DEF Match, CallsPlain
<1>1. \A j \in Calls \ {m} : /\ call'[j].tab = call[j].tab /\ call'[j].kind = call[j].kind
                             /\ call'[j].token = call[j].token
                             /\ call'[j].pc = "free" <=> call[j].pc = "free"
                             /\ call'[j].pc \in {"sent", "answered", "free"} =>
                                  call'[j] = call[j]
                             /\ call[j].kind \in Presents => call'[j] = call[j]
                             /\ (call[j].kind \in Forms /\ call[j].pc = "answered") =>
                                  call'[j] = call[j]
  BY DEF Pauses, Waits, Forms
<1>2. \A d \in Tabs : \A t \in Tokens : Holds(d, t)' <=> Holds(d, t)
  <2> SUFFICES ASSUME NEW d \in Tabs, NEW t \in Tokens PROVE Holds(d, t)' <=> Holds(d, t)
    OBVIOUS
  <2>1. Holds(d, t) => Holds(d, t)'
    BY <1>1, <1>f, Places DEF Holds
  <2>2. Holds(d, t)' => Holds(d, t)
    BY <1>1, <1>f, Places DEF Holds
  <2>3. QED
    BY <2>1, <2>2
<1>3. TabsPlain' /\ NoneAged'
  BY DEF Match, TabsPlain, NoneAged
<1>4. CallsPlain'
  <2> SUFFICES ASSUME NEW j \in Calls
               PROVE  /\ call'[j].pc = "free" <=> call'[j].tab = None
                      /\ call'[j].tab # None => call'[j].kind \in Kinds
                      /\ call'[j].kind \in Waits => call'[j].token = None
                      /\ call'[j].kind \in Presents => call'[j].pc \in {"sent", "answered"}
                      /\ call'[j].kind \in Forms => call'[j].token = None
                                                    \/ (call'[j].pc = "answered" /\ call'[j].status = "ok")
    BY DEF CallsPlain
  <2>1. CASE j = m
    BY <2>1, Places DEF Waits, Presents, Forms
  <2>2. CASE j # m
    BY <1>1, <2>2 DEF Match, CallsPlain
  <2>3. QED
    BY <2>1, <2>2
<1>5. Sole'
  <2> SUFFICES ASSUME NEW i \in Calls, NEW j \in Calls, i # j,
                      call'[i].tab = call'[j].tab, call'[j].tab # None
               PROVE  /\ call'[j].kind \notin Forms \cup {"logout"}
                      /\ ~ (call'[i].kind = "refresh" /\ call'[j].kind = "refresh")
    BY DEF Sole
  <2>1. CASE i # m /\ j # m
    BY <1>1, <2>1 DEF Match, Sole
  <2>2. CASE i = m
    <3>1. j \in CallsOf(c) /\ call'[j].kind = call[j].kind
      BY <1>1, <2>2 DEF CallsOf
    <3>2. QED
      BY <2>2, <3>1 DEF Pending
  <2>3. CASE j = m
    <3>1. i \in CallsOf(c) /\ call'[i].kind = call[i].kind
      BY <1>1, <2>3 DEF CallsOf
    <3>2. QED
      BY <2>3, <3>1 DEF Pending
  <2>4. QED
    BY <2>1, <2>2, <2>3
<1>6. Guests'
  BY <1>1 DEF Match, Guests
<1>7. Apart' /\ OneIssue'
  BY <1>2 DEF Match, Apart, OneIssue
<1>8. Presented'
  <2> SUFFICES ASSUME NEW j \in Calls, call'[j].pc = "sent"
               PROVE  /\ call'[j].kind = "refresh" =>
                           /\ Good(call'[j].token)
                           /\ \/ tab[call'[j].tab].refresh = call'[j].token
                              \/ /\ tab[call'[j].tab].refresh = None
                                 /\ token[call'[j].token].state # "LIVE"
                      /\ call'[j].kind = "logout" => tab[call'[j].tab].refresh = call'[j].token
    BY DEF Presented, Good
  <2>1. CASE j = m
    <3>1. call'[m].kind = "refresh" => Good(tab[c].refresh)
      <4> SUFFICES ASSUME call'[m].kind = "refresh" PROVE Good(tab[c].refresh)
        OBVIOUS
      <4>1. tab[c].refresh # None
        BY DEF Presents
      <4>2. ~ \E i \in Calls : call[i].tab = c /\ call[i].kind \in Presents
        BY DEF Pending, CallsOf, Presents
      <4>3. QED
        BY <4>1, <4>2 DEF Match, Kept
    <3>2. QED
      BY <2>1, <3>1 DEF Presents
  <2>2. CASE j # m
    BY <1>1, <2>2 DEF Match, Presented
  <2>3. QED
    BY <2>1, <2>2
<1>9. Kept'
  <2> SUFFICES ASSUME NEW d \in Tabs, tab[d].refresh # None, ~ Good(tab[d].refresh)
               PROVE  \E j \in Calls : /\ call'[j].tab = d /\ call'[j].kind \in Presents
                                       /\ call'[j].pc = "answered"
    BY DEF Kept, Good
  <2>1. PICK j \in Calls : call[j].tab = d /\ call[j].kind \in Presents /\ call[j].pc = "answered"
    BY DEF Match, Kept
  <2>2. QED
    BY <1>1, <2>1
<1>10. Carried' /\ Spent'
  BY <1>1 DEF Match, Carried, Spent, Good
<1>11. Retried'
  <2> SUFFICES ASSUME NEW j \in Calls, j # m, call[j].kind \in Waits, call[j].pc = "sent",
                      ~ call[j].retry, call'[j] = call[j], NEW t \in Tokens, Holds(call[j].tab, t)'
               PROVE  token[t].credential = call[j].credential
    BY <1>1 DEF Retried
  <2>1. call[j].tab \in Tabs
    BY Places DEF Match, CallsPlain
  <2>2. QED
    BY <1>2, <2>1 DEF Match, Retried
<1>12. Dismissed'
  <2> SUFFICES ASSUME NEW j \in Calls, j # m, Dismisses(j), call'[j] = call[j],
                      NEW t \in Tokens, Holds(call[j].tab, t)'
               PROVE  token[t].state # "LIVE"
    BY <1>1 DEF Dismissed, Dismisses
  <2>1. call[j].tab \in Tabs
    BY Places DEF Match, CallsPlain, Dismisses
  <2>2. QED
    BY <1>2, <2>1 DEF Match, Dismissed
<1>13. LiveHeld'
  <2> SUFFICES ASSUME NEW t \in Tokens, token[t].state = "LIVE",
                      NEW j \in Calls, call[j].pc = "answered", call[j].token = t
               PROVE  call'[j].pc = "answered" /\ call'[j].token = t
    BY DEF Match, LiveHeld
  <2>1. call[j].kind \notin Waits
    BY Places DEF Match, CallsPlain
  <2>2. QED
    BY <2>1 DEF Pauses
<1>14. QED
  BY <1>3, <1>4, <1>5, <1>6, <1>7, <1>8, <1>9, <1>10, <1>11, <1>12, <1>13 DEF Match

LEMMA Blank ==
  /\ FreeCall.pc = "free" /\ FreeCall.tab = None /\ FreeCall.token = None /\ FreeCall.kind = None
  /\ None \notin Kinds
BY AccountAssumption DEF FreeCall

(* Calls of a tab end, and it may have given its session up.               *)
Finishes(c, j) ==
  /\ call[j].tab = c /\ call'[j] = FreeCall
  /\ (call[j].pc = "answered" /\ call[j].token # None) => token[call[j].token].state # "LIVE"
  /\ call[j].kind \in Presents => tab'[c].refresh = None

LEMMA LeaveKeeps ==
  ASSUME ClientFormed, Match, NEW c \in Tabs, account' = account, token' = token,
         \A d \in Tabs \ {c} : tab'[d] = tab[d],
         tab'[c].ready, tab'[c].refresh # None => tab'[c].user,
         \/ tab'[c].refresh = tab[c].refresh
         \/ /\ tab'[c].refresh = None /\ tab[c].refresh # None
            /\ token[tab[c].refresh].state # "LIVE"
            /\ \A j \in Calls : (call[j].tab = c /\ call[j].kind = "logout") => Finishes(c, j),
         \/ tab'[c].user => tab[c].user
         \/ \A j \in Calls : (call[j].tab = c /\ call[j].kind \in Forms) => Finishes(c, j),
         \A j \in Calls : call'[j] = call[j] \/ Finishes(c, j)
  PROVE  Match'
<1>0. /\ \A j \in Calls : call'[j] # call[j] => call'[j].tab = None /\ call'[j].pc = "free"
                            /\ call'[j].token = None /\ call'[j].kind = None
                            /\ call[j].tab = c
      /\ \A j \in Calls : Finishes(c, j) => call'[j].tab = None /\ call'[j].pc = "free"
      /\ \A j \in Calls : call[j].tab # None => call[j].tab \in Tabs
      /\ \A j \in Calls : call[j].pc # "free" <=> call[j].tab # None
      /\ None \notin Tabs /\ None \notin Tokens
      /\ \A d \in Tabs : tab'[d].refresh # None => tab'[d].refresh = tab[d].refresh
  BY Places, Blank DEF Match, CallsPlain, Finishes
<1>k. None \notin Forms /\ None \notin Presents /\ None \notin Waits
  BY Blank DEF Kinds, Forms, Presents, Waits
<1>1. \A d \in Tabs : \A t \in Tokens : Holds(d, t)' => Holds(d, t)
  BY <1>0 DEF Holds
<1>2. TabsPlain' /\ NoneAged'
  BY <1>0 DEF Match, TabsPlain, NoneAged
<1>3. CallsPlain'
  <2> SUFFICES ASSUME NEW j \in Calls, call'[j] # call[j]
               PROVE  /\ call'[j].pc = "free" <=> call'[j].tab = None
                      /\ call'[j].tab # None => call'[j].kind \in Kinds
                      /\ call'[j].kind \in Waits => call'[j].token = None
                      /\ call'[j].kind \in Presents => call'[j].pc \in {"sent", "answered"}
                      /\ call'[j].kind \in Forms => call'[j].token = None
                                                    \/ (call'[j].pc = "answered" /\ call'[j].status = "ok")
    BY DEF Match, CallsPlain
  <2>1. QED
    BY <1>0, <1>k
<1>4. Sole'
  BY <1>0 DEF Match, Sole
<1>5. Guests'
  <2> SUFFICES ASSUME NEW j \in Calls, call'[j].tab # None, call'[j].kind \in Forms
               PROVE  ~ tab'[call[j].tab].user
    BY <1>0 DEF Guests
  <2>1. call'[j] = call[j] /\ call[j].tab \in Tabs /\ ~ Finishes(c, j)
    BY <1>0
  <2>2. ~ tab[call[j].tab].user
    BY <2>1 DEF Match, Guests
  <2>3. CASE call[j].tab = c
    BY <2>1, <2>2, <2>3
  <2>4. CASE call[j].tab # c
    BY <2>1, <2>2, <2>4
  <2>5. QED
    BY <2>3, <2>4
<1>6. Apart' /\ OneIssue'
  BY <1>1 DEF Match, Apart, OneIssue
<1>7. Presented'
  <2> SUFFICES ASSUME NEW j \in Calls, call'[j] = call[j], call[j].pc = "sent", ~ Finishes(c, j)
               PROVE  /\ call[j].kind = "refresh" =>
                           /\ Good(call[j].token)
                           /\ \/ tab'[call[j].tab].refresh = call[j].token
                              \/ /\ tab'[call[j].tab].refresh = None
                                 /\ token[call[j].token].state # "LIVE"
                      /\ call[j].kind = "logout" => tab'[call[j].tab].refresh = call[j].token
    BY <1>0 DEF Presented, Good
  <2>1. call[j].tab \in Tabs
    BY <1>0
  <2>2. CASE call[j].tab = c
    BY <2>1, <2>2 DEF Match, Presented
  <2>3. CASE call[j].tab # c
    BY <2>1, <2>3 DEF Match, Presented
  <2>4. QED
    BY <2>2, <2>3
<1>8. Kept'
  <2> SUFFICES ASSUME NEW d \in Tabs, tab'[d].refresh # None, ~ Good(tab[d].refresh)
               PROVE  \E j \in Calls : /\ call'[j].tab = d /\ call'[j].kind \in Presents
                                       /\ call'[j].pc = "answered"
    BY <1>0 DEF Kept, Good
  <2>1. PICK j \in Calls : call[j].tab = d /\ call[j].kind \in Presents /\ call[j].pc = "answered"
    BY <1>0 DEF Match, Kept
  <2>2. ~ Finishes(c, j)
    BY <2>1 DEF Finishes
  <2>3. QED
    BY <2>1, <2>2
<1>9. Carried'
  BY <1>0 DEF Match, Carried, Good
<1>10. Spent'
  <2> SUFFICES ASSUME NEW j \in Calls, call'[j] = call[j], call[j].pc = "answered",
                      call[j].kind \in Presents
               PROVE  /\ tab'[call[j].tab].refresh # None =>
                           token[tab'[call[j].tab].refresh].state # "LIVE"
                      /\ (call[j].kind = "logout" \/ call[j].status # "ok") =>
                           token[call[j].token].state # "LIVE"
    BY <1>0 DEF Spent
  <2>1. call[j].tab \in Tabs
    BY <1>0
  <2>2. QED
    BY <1>0, <2>1 DEF Match, Spent
<1>11. Retried'
  <2> SUFFICES ASSUME NEW j \in Calls, call[j].kind \in Waits, call[j].pc = "sent",
                      ~ call[j].retry, call'[j] = call[j], NEW t \in Tokens, Holds(call[j].tab, t)'
               PROVE  token[t].credential = call[j].credential
    BY <1>0 DEF Retried
  <2>1. call[j].tab \in Tabs
    BY <1>0
  <2>2. QED
    BY <1>1, <2>1 DEF Match, Retried
<1>12. Dismissed'
  <2> SUFFICES ASSUME NEW j \in Calls, Dismisses(j), call'[j] = call[j],
                      NEW t \in Tokens, Holds(call[j].tab, t)'
               PROVE  token[t].state # "LIVE"
    BY <1>0 DEF Dismissed, Dismisses
  <2>1. call[j].tab \in Tabs
    BY <1>0 DEF Dismisses
  <2>2. QED
    BY <1>1, <2>1 DEF Match, Dismissed
<1>13. LiveHeld'
  <2> SUFFICES ASSUME NEW t \in Tokens, token[t].state = "LIVE"
               PROVE  \/ \E d \in Tabs : tab'[d].refresh = t
                      \/ \E j \in Calls : call'[j].pc = "answered" /\ call'[j].token = t
    BY DEF LiveHeld
  <2>1. CASE \E d \in Tabs : tab[d].refresh = t
    BY <2>1
  <2>2. ASSUME NEW j \in Calls, call[j].pc = "answered", call[j].token = t
        PROVE  call'[j].pc = "answered" /\ call'[j].token = t
    BY <1>0, <2>2 DEF Finishes
  <2>3. QED
    BY <2>1, <2>2 DEF Match, LiveHeld
<1>14. QED
  BY <1>2, <1>3, <1>4, <1>5, <1>6, <1>7, <1>8, <1>9, <1>10, <1>11, <1>12, <1>13 DEF Match

(* A sign-in or a refresh succeeds, and what waited for it is sent again.  *)
Resends(c, j, n) ==
  /\ call[j].tab = c /\ call[j].pc = "waiting" /\ call'[j].pc = "sent" /\ ~ call'[j].retry
  /\ call'[j].kind = call[j].kind /\ call'[j].tab = call[j].tab /\ call'[j].token = call[j].token
  /\ call'[j].credential = token[n].credential

LEMMA EnterKeeps ==
  ASSUME ClientFormed, Match, NEW c \in Tabs, account' = account, token' = token,
         NEW k \in Calls, call[k].tab = c, call[k].pc = "answered", call[k].status = "ok",
         call[k].kind \in Forms \cup {"refresh"}, NEW n \in Tokens, n = call[k].token,
         \A d \in Tabs \ {c} : tab'[d] = tab[d],
         tab'[c].ready, tab'[c].user, tab'[c].refresh = n,
         call'[k] = FreeCall,
         \A j \in Calls \ {k} : call'[j] = call[j] \/ Resends(c, j, n)
  PROVE  Match'
<1>0. /\ call'[k].tab = None /\ call'[k].pc = "free" /\ call'[k].token = None /\ call'[k].kind = None
      /\ \A j \in Calls : call[j].tab # None => call[j].tab \in Tabs
      /\ \A j \in Calls : call[j].pc # "free" <=> call[j].tab # None
      /\ None \notin Tabs /\ None \notin Tokens
      /\ \A j \in Calls \ {k} : /\ call'[j].kind = call[j].kind /\ call'[j].tab = call[j].tab
                                /\ call'[j].token = call[j].token
                                /\ (call'[j].pc = "free" <=> call[j].pc = "free")
                                /\ call'[j].pc = "answered" => call'[j] = call[j]
  BY Places, Blank DEF Match, CallsPlain, Resends
<1>k. None \notin Forms /\ None \notin Presents /\ None \notin Waits
  BY Blank DEF Kinds, Forms, Presents, Waits
<1>s. \A j \in Calls \ {k} : call[j].tab = c => call[j].kind \in Waits /\ call[j].token = None
  <2> SUFFICES ASSUME NEW j \in Calls \ {k}, call[j].tab = c
               PROVE  call[j].kind \in Waits /\ call[j].token = None
    OBVIOUS
  <2>1. call[j].kind \in Kinds /\ call[j].kind \notin Forms \cup {"logout"} /\ call[j].kind # "refresh"
    BY <1>0 DEF Match, CallsPlain, Sole
  <2>2. call[j].kind \in Waits
    BY <2>1 DEF Kinds, Waits
  <2>3. QED
    BY <2>2 DEF Match, CallsPlain
<1>w. None \notin Waits /\ \A j \in Calls : call[j].kind \in Waits => call[j].kind \notin Forms \cup Presents
  BY <1>k DEF Waits, Forms, Presents
<1>h. Holds(c, n)
  BY DEF Holds
<1>1. /\ \A t \in Tokens : Holds(c, t)' => t = n
      /\ \A d \in Tabs : \A t \in Tokens : Holds(d, t)' => Holds(d, t)
  <2>1. \A t \in Tokens : Holds(c, t)' => t = n
    BY <1>0, <1>s DEF Holds
  <2>2. \A d \in Tabs \ {c} : \A t \in Tokens : Holds(d, t)' => Holds(d, t)
    BY <1>0 DEF Holds
  <2>3. QED
    BY <1>h, <2>1, <2>2
<1>o. tab[c].refresh # None => token[tab[c].refresh].state # "LIVE"
  <2>1. CASE call[k].kind \in Forms
    BY <1>0, <2>1 DEF Match, Guests, TabsPlain
  <2>2. CASE call[k].kind = "refresh"
    BY <2>2 DEF Match, Spent, Presents
  <2>3. QED
    BY <2>1, <2>2
<1>2. TabsPlain' /\ NoneAged'
  BY DEF Match, TabsPlain, NoneAged
<1>3. CallsPlain'
  <2> SUFFICES ASSUME NEW j \in Calls
               PROVE  /\ call'[j].pc = "free" <=> call'[j].tab = None
                      /\ call'[j].tab # None => call'[j].kind \in Kinds
                      /\ call'[j].kind \in Waits => call'[j].token = None
                      /\ call'[j].kind \in Presents => call'[j].pc \in {"sent", "answered"}
                      /\ call'[j].kind \in Forms => call'[j].token = None
                                                    \/ (call'[j].pc = "answered" /\ call'[j].status = "ok")
    BY DEF CallsPlain
  <2>1. CASE j = k
    BY <1>0, <1>k, <2>1
  <2>2. CASE j # k
    BY <1>0, <2>2 DEF Match, CallsPlain, Resends
  <2>3. QED
    BY <2>1, <2>2
<1>4. Sole'
  BY <1>0 DEF Match, Sole
<1>5. Guests'
  <2> SUFFICES ASSUME NEW j \in Calls \ {k}, call[j].tab # None, call[j].kind \in Forms
               PROVE  ~ tab'[call[j].tab].user
    BY <1>0 DEF Guests
  <2>1. call[j].tab \in Tabs \ {c}
    BY <1>0, <1>s, <1>w
  <2>2. QED
    BY <2>1 DEF Match, Guests
<1>6. Apart' /\ OneIssue'
  BY <1>1 DEF Match, Apart, OneIssue
<1>7. Presented'
  <2> SUFFICES ASSUME NEW j \in Calls \ {k}, call'[j].pc = "sent", call[j].kind \in Presents
               PROVE  /\ call[j].kind = "refresh" =>
                           /\ Good(call[j].token)
                           /\ \/ tab'[call[j].tab].refresh = call[j].token
                              \/ /\ tab'[call[j].tab].refresh = None
                                 /\ token[call[j].token].state # "LIVE"
                      /\ call[j].kind = "logout" => tab'[call[j].tab].refresh = call[j].token
    BY <1>0 DEF Presented, Good, Presents
  <2>1. call[j].pc = "sent"
    BY DEF Match, CallsPlain, Resends
  <2>2. call[j].tab \in Tabs \ {c}
    BY <1>0, <1>s, <1>w, <2>1
  <2>3. QED
    BY <2>1, <2>2 DEF Match, Presented
<1>8. Kept'
  <2> SUFFICES ASSUME NEW d \in Tabs, tab'[d].refresh # None
               PROVE  \/ Good(tab'[d].refresh)
                      \/ \E j \in Calls : /\ call'[j].tab = d /\ call'[j].kind \in Presents
                                          /\ call'[j].pc = "answered"
    BY DEF Kept, Good
  <2>1. CASE d = c
    BY <2>1 DEF Match, Carried
  <2>2. CASE d # c /\ ~ Good(tab[d].refresh)
    <3>1. PICK j \in Calls : call[j].tab = d /\ call[j].kind \in Presents /\ call[j].pc = "answered"
      BY <2>2 DEF Match, Kept
    <3>2. call'[j] = call[j]
      BY <2>2, <3>1 DEF Resends
    <3>3. QED
      BY <3>1, <3>2
  <2>3. QED
    BY <2>1, <2>2
<1>9. Carried'
  BY <1>0 DEF Match, Carried, Good
<1>10. Spent'
  <2> SUFFICES ASSUME NEW j \in Calls \ {k}, call'[j] = call[j], call[j].pc = "answered",
                      call[j].kind \in Presents
               PROVE  /\ tab'[call[j].tab].refresh # None =>
                           token[tab'[call[j].tab].refresh].state # "LIVE"
                      /\ (call[j].kind = "logout" \/ call[j].status # "ok") =>
                           token[call[j].token].state # "LIVE"
    BY <1>0 DEF Spent
  <2>1. call[j].tab \in Tabs \ {c}
    BY <1>0, <1>s, <1>w
  <2>2. QED
    BY <1>0, <2>1 DEF Match, Spent
<1>11. Retried'
  <2> SUFFICES ASSUME NEW j \in Calls \ {k}, call[j].kind \in Waits, call'[j].pc = "sent",
                      ~ call'[j].retry, NEW t \in Tokens, Holds(call[j].tab, t)'
               PROVE  token[t].credential = call'[j].credential
    BY <1>0, <1>k DEF Retried
  <2>1. CASE call'[j] = call[j]
    <3>1. call[j].tab \in Tabs
      BY <1>0, <2>1
    <3>2. QED
      BY <1>1, <2>1, <3>1 DEF Match, Retried
  <2>2. CASE Resends(c, j, n)
    <3>1. t = n
      BY <1>0, <1>1, <2>2 DEF Resends
    <3>2. QED
      BY <2>2, <3>1 DEF Resends
  <2>3. QED
    BY <2>1, <2>2
<1>12. Dismissed'
  <2> SUFFICES ASSUME NEW j \in Calls \ {k}, Dismisses(j), call'[j] = call[j],
                      NEW t \in Tokens, Holds(call[j].tab, t)'
               PROVE  token[t].state # "LIVE"
    BY <1>0, <1>k DEF Dismissed, Dismisses
  <2>1. call[j].tab \in Tabs
    BY <1>0 DEF Dismisses
  <2>2. QED
    BY <1>1, <2>1 DEF Match, Dismissed
<1>13. LiveHeld'
  <2> SUFFICES ASSUME NEW t \in Tokens, token[t].state = "LIVE", t # n
               PROVE  \/ \E d \in Tabs : tab'[d].refresh = t
                      \/ \E j \in Calls : call'[j].pc = "answered" /\ call'[j].token = t
    BY DEF LiveHeld
  <2>1. CASE \E d \in Tabs : tab[d].refresh = t
    BY <1>0, <1>o, <2>1
  <2>2. ASSUME NEW j \in Calls, call[j].pc = "answered", call[j].token = t
        PROVE  call'[j].pc = "answered" /\ call'[j].token = t
    BY <1>0, <2>2 DEF Resends
  <2>3. QED
    BY <2>1, <2>2 DEF Match, LiveHeld
<1>14. QED
  BY <1>2, <1>3, <1>4, <1>5, <1>6, <1>7, <1>8, <1>9, <1>10, <1>11, <1>12, <1>13 DEF Match

LEMMA Replies ==
  ASSUME CallsFormed, NEW k \in Calls, call[k].tab # None, NEW status, Answered(k, status)
  PROVE  /\ \A j \in Calls \ {k} : call'[j] = call[j]
         /\ call'[k].pc = "answered" /\ call'[k].status = status
         /\ call'[k].kind = call[k].kind /\ call'[k].tab = call[k].tab
         /\ call'[k].token = call[k].token /\ call'[k].retry = call[k].retry
BY DEF CallsFormed, Answered, Call

LEMMA Brings ==
  ASSUME CallsFormed, NEW k \in Calls, call[k].tab # None, NEW t, AnsweredWith(k, t)
  PROVE  /\ \A j \in Calls \ {k} : call'[j] = call[j]
         /\ call'[k].pc = "answered" /\ call'[k].status = "ok"
         /\ call'[k].kind = call[k].kind /\ call'[k].tab = call[k].tab
         /\ call'[k].token = t /\ call'[k].retry = call[k].retry
BY DEF CallsFormed, AnsweredWith, Call

(* An answer that changes nothing.                                         *)
LEMMA RefuseKeeps ==
  ASSUME ClientFormed, Match, NEW k \in Calls, call[k].pc \in {"sent", "checked"}, tab' = tab,
         NEW status, Refuse(k, status),
         call[k].kind \in Forms \cup {"refresh"} => status # "ok",
         call[k].kind \in Presents => token[call[k].token].state # "LIVE",
         \/ call[k].kind \notin Waits
         \/ status # "unauthorized" /\ ~ (status = "ok" /\ call[k].kind = "change")
         \/ call[k].retry /\ ~ (status = "ok" /\ call[k].kind = "change")
         \/ \A t \in Tokens : Holds(call[k].tab, t) => token[t].state # "LIVE"
  PROVE  Match'
<1>1. call[k].tab # None
  BY DEF Match, CallsPlain
<1>2. /\ \A j \in Calls \ {k} : call'[j] = call[j]
      /\ call'[k].pc = "answered" /\ call'[k].status = status
      /\ call'[k].kind = call[k].kind /\ call'[k].tab = call[k].tab
      /\ call'[k].token = call[k].token /\ call'[k].retry = call[k].retry
  BY <1>1, Replies DEF Refuse, ClientFormed
<1>3. account' = account /\ token' = token
  BY DEF Refuse, sessionVars
<1>4. Weaker /\ \A t \in Tokens : Good(t) => Good(t)'
  BY <1>3 DEF Weaker, Good
<1>5. Dismisses(k)' => \A t \in Tokens : Holds(call[k].tab, t) => token'[t].state # "LIVE"
  BY <1>2, <1>3 DEF Dismisses
<1>6. QED
  BY <1>2, <1>3, <1>4, <1>5, AnswerKeeps

LEMMA OpenMatches ==
  ASSUME DocsTyped, ClientFormed, Match, NEW k \in Calls, call[k].pc \in {"sent", "checked"},
         call[k].kind \in Forms, tab' = tab, NEW x, OpenFamily(k, x),
         account'.credential = account.credential
  PROVE  Match'
<1>1. PICK n \in Tokens : /\ Fresh(n) /\ token' = [token EXCEPT ![n] = Issued(n, x)]
                          /\ AnsweredWith(k, n)
  BY DEF OpenFamily
<1>2. call[k].tab # None
  BY DEF Match, CallsPlain
<1>3. call[k].tab \in Tabs
  BY <1>2, Places
<1>4. /\ \A j \in Calls \ {k} : call'[j] = call[j]
      /\ call'[k].pc = "answered" /\ call'[k].kind = call[k].kind /\ call'[k].tab = call[k].tab
      /\ call'[k].token = n /\ call'[k].status = "ok"
  BY <1>1, <1>2, Brings DEF ClientFormed
<1>5. /\ \A t \in Tokens \ {n} : token'[t] = token[t]
      /\ token'[n].state = "LIVE" /\ ~ token'[n].expired /\ token[n].state = "ABSENT"
  BY <1>1 DEF DocsTyped, Issued, Fresh
<1>6. QED
  BY <1>3, <1>4, <1>5, OpenCarries

LEMMA SignInMatches ==
  ASSUME DocsTyped, SessionInv, ClientFormed, Match, NEW k \in Calls, tab' = tab,
         Register(k) \/ OpenSession(k) \/ LoginWithGoogle(k)
  PROVE  Match'
<1>0. "register" \in Forms /\ "login" \in Forms /\ "google" \in Forms
      /\ \A f \in Forms : f \notin Presents /\ f \notin Waits
  BY DEF Forms, Presents, Waits
<1>1. CASE Register(k)
  <2>1. call[k].pc = "sent" /\ call[k].kind \in Forms
    BY <1>1, <1>0 DEF Register, Arrived
  <2>2. CASE account.status = "ABSENT"
    <3>1. account'.credential = account.credential /\ OpenFamily(k, 0)
      BY <1>1, <2>2, PasswordAccountTyped DEF Register, SessionInv, NoneBefore
    <3>2. QED
      BY <2>1, <3>1, OpenMatches
  <2>3. CASE account.status # "ABSENT"
    <3>1. Refuse(k, "denied")
      BY <1>1, <2>3 DEF Register
    <3>2. QED
      BY <2>1, <3>1, <1>0, RefuseKeeps
  <2>4. QED
    BY <2>2, <2>3
<1>2. CASE OpenSession(k)
  <2>1. call[k].pc = "checked" /\ call[k].kind \in Forms
    BY <1>2, <1>0 DEF OpenSession
  <2>2. CASE account.status = "ACTIVE"
    <3>1. account' = account /\ OpenFamily(k, account.credential)
      BY <1>2, <2>2 DEF OpenSession
    <3>2. QED
      BY <2>1, <3>1, OpenMatches
  <2>3. CASE account.status # "ACTIVE"
    <3>1. Refuse(k, "denied")
      BY <1>2, <2>3 DEF OpenSession
    <3>2. QED
      BY <2>1, <3>1, <1>0, RefuseKeeps
  <2>4. QED
    BY <2>2, <2>3
<1>3. CASE LoginWithGoogle(k)
  <2>1. call[k].pc = "sent" /\ call[k].kind \in Forms
    BY <1>3, <1>0 DEF LoginWithGoogle, Arrived
  <2>2. CASE Refuse(k, "denied")
    BY <2>1, <2>2, <1>0, RefuseKeeps
  <2>3. CASE ~ Refuse(k, "denied")
    <3>1. /\ OpenFamily(k, account.credential)
          /\ account' = IF account.status = "ABSENT" THEN GoogleAccount
                        ELSE [account EXCEPT !.google = TRUE]
      BY <1>3, <2>3 DEF LoginWithGoogle
    <3>2. account'.credential = account.credential
      BY <3>1, PasswordAccountTyped DEF SessionInv, NoneBefore, DocsTyped, Account
    <3>3. QED
      BY <2>1, <3>1, <3>2, OpenMatches
  <2>4. QED
    BY <2>2, <2>3
<1>4. QED
  BY <1>1, <1>2, <1>3

(* What is presented is not expired, and if it is of the present           *)
(* credential it works.                                                    *)
LEMMA RefreshMatches ==
  ASSUME DocsTyped, SessionInv, ClientFormed, Match, NEW k \in Calls, tab' = tab,
         RefreshAuthTokens(k)
  PROVE  Match'
<1> DEFINE t == call[k].token
<1>1. call[k].pc = "sent" /\ call[k].kind = "refresh" /\ account' = account
  BY DEF RefreshAuthTokens, Arrived
<1>2. t \in Tokens /\ token[t].state # "ABSENT" /\ call[k].kind \in Presents
      /\ call[k].kind \notin Waits
  BY <1>1, Places DEF Presents, Waits
<1>3. ~ token[t].expired /\ Good(t)
  BY <1>1, <1>2 DEF Match, NoneAged, Presented
<1>4. token[t].state = "LIVE" =>
        account.status = "ACTIVE" /\ token[t].credential = account.credential
  BY <1>2 DEF SessionInv, LiveTokensCurrent, Live
<1>5. (token[t].credential = account.credential) => token[t].state = "LIVE"
  BY <1>2, <1>3, Credits DEF Good
<1>6. \/ /\ Refuse(k, "unauthorized") \/ Refuse(k, "denied")
         /\ token[t].state # "LIVE"
      \/ token[t].state = "LIVE" /\ \E n \in Tokens : Fresh(n) /\ token' = Rotated(t, n) /\ AnsweredWith(k, n)
  BY <1>3, <1>4, <1>5 DEF RefreshAuthTokens, Reused
<1>7. CASE /\ Refuse(k, "unauthorized") \/ Refuse(k, "denied")
           /\ token[t].state # "LIVE"
  BY <1>1, <1>2, <1>7, RefuseKeeps
<1>8. ASSUME token[t].state = "LIVE", NEW n \in Tokens, Fresh(n), token' = Rotated(t, n),
             AnsweredWith(k, n)
      PROVE  Match'
  <2>1. call[k].tab # None
    BY <1>1 DEF Match, CallsPlain
  <2>2. call[k].tab \in Tabs
    BY <2>1, Places
  <2>3. /\ \A j \in Calls \ {k} : call'[j] = call[j]
        /\ call'[k].pc = "answered" /\ call'[k].kind = call[k].kind /\ call'[k].tab = call[k].tab
        /\ call'[k].token = n /\ call'[k].status = "ok"
    BY <1>8, <2>1, Brings DEF ClientFormed
  <2>4. t # n /\ token[n].state = "ABSENT"
    BY <1>8 DEF Fresh
  <2>5. /\ \A u \in Tokens \ {t, n} : token'[u] = token[u]
        /\ token'[t].state = "REVOKED" /\ token'[t].credential = token[t].credential
        /\ token'[t].expired = token[t].expired
    BY <1>2, <1>8, <2>4 DEF Rotated, DocsTyped, TokenDoc
  <2>6. token'[n].state = "LIVE" /\ ~ token'[n].expired /\ token'[n].credential = account.credential
    BY <1>2, <1>8, <2>4 DEF Rotated, Issued, DocsTyped
  <2>7. QED
    BY <1>1, <1>2, <1>3, <1>8, <2>2, <2>3, <2>4, <2>5, <2>6, RotateCarries
<1>9. QED
  BY <1>6, <1>7, <1>8

LEMMA LogoutMatches ==
  ASSUME DocsTyped, SessionInv, ClientFormed, Match, NEW k \in Calls, tab' = tab,
         LogoutUser(k)
  PROVE  Match'
<1> DEFINE t == call[k].token
<1>1. call[k].pc = "sent" /\ call[k].kind = "logout" /\ account' = account
  BY DEF LogoutUser, Arrived
<1>2. t \in Tokens /\ call[k].tab # None /\ call[k].kind \in Presents
      /\ call[k].kind \notin Waits /\ call[k].kind \notin Forms \cup {"refresh"}
  BY <1>1, Places DEF Presents, Waits, Forms, Match, CallsPlain
<1>3. token' = [token EXCEPT ![t].state = "REVOKED"] /\ Answered(k, "ok")
  BY <1>2 DEF LogoutUser, Match, NoneAged
<1>4. /\ \A j \in Calls \ {k} : call'[j] = call[j]
      /\ call'[k].pc = "answered" /\ call'[k].kind = call[k].kind /\ call'[k].tab = call[k].tab
      /\ call'[k].token = call[k].token /\ call'[k].retry = call[k].retry
  BY <1>2, <1>3, Replies DEF ClientFormed
<1>5. /\ \A u \in Tokens \ {t} : token'[u] = token[u]
      /\ token'[t].state = "REVOKED" /\ token'[t].credential = token[t].credential
      /\ token'[t].expired = token[t].expired
  BY <1>2, <1>3 DEF DocsTyped, TokenDoc
<1>6. Weaker /\ \A u \in Tokens : Good(u) => Good(u)' \/ (call[k].kind = "logout" /\ call[k].token = u)
  BY <1>1, <1>2, <1>5 DEF Weaker, Good
<1>7. ~ Dismisses(k)'
  BY <1>2, <1>4 DEF Dismisses
<1>8. QED
  BY <1>1, <1>2, <1>4, <1>5, <1>6, <1>7, AnswerKeeps

(* A token that is held when a call is refused for the second time does    *)
(* not work.                                                               *)
LEMMA RejectMatches ==
  ASSUME DocsTyped, SessionInv, ClientFormed, Match, NEW k \in Calls, tab' = tab,
         call[k].pc = "sent", call[k].kind \in Waits, ~ Authentic(k), Refuse(k, Rejection)
  PROVE  Match'
<1>1. call[k].kind \notin Forms \cup {"refresh"} /\ call[k].kind \notin Presents
  BY DEF Forms, Presents, Waits
<1>2. Rejection # "ok"
  BY DEF Rejection
<1>3. CASE call[k].retry
  BY <1>1, <1>2, <1>3, RefuseKeeps
<1>4. CASE ~ call[k].retry
  <2>1. \A t \in Tokens : Holds(call[k].tab, t) => token[t].credential = call[k].credential
    BY <1>4 DEF Match, Retried
  <2>2. \A t \in Tokens : Holds(call[k].tab, t) => token[t].state # "LIVE"
    BY <2>1 DEF SessionInv, LiveTokensCurrent, Live, Authentic
  <2>3. QED
    BY <1>1, <1>2, <2>2, RefuseKeeps
<1>5. QED
  BY <1>3, <1>4

LEMMA SetPasswordWeakens ==
  ASSUME DocsTyped, SessionInv, SetPassword \/ LockUser
  PROVE  /\ Weaker /\ \A t \in Tokens : Good(t) => Good(t)'
         /\ \A t \in Tokens : token'[t].state # "LIVE"
<1>1. token' = Revoked(Tokens) /\ account'.credential = account.credential + 1
  BY DEF SetPassword, LockUser, DocsTyped, Account
<1>2. \A t \in Tokens : /\ token'[t].state # "LIVE" /\ token'[t].credential = token[t].credential
                        /\ token'[t].expired = token[t].expired
  BY <1>1 DEF Revoked, DocsTyped, TokenDoc
<1>3. \A t \in Tokens : Good(t) => token[t].credential <= account.credential
  BY Credits DEF Good, SessionInv, LiveTokensCurrent, Live
<1>4. \A t \in Tokens : Good(t) => Good(t)'
  BY <1>1, <1>2, <1>3, Credits DEF Good
<1>5. QED
  BY <1>2, <1>4 DEF Weaker

LEMMA CheckMatches ==
  ASSUME DocsTyped, SessionInv, ClientFormed, Match, NEW k \in Calls, tab' = tab,
         CheckPassword(k) \/ ServeApi(k) \/ CheckCurrentPassword(k) \/ ChangePassword(k)
  PROVE  Match'
<1>0. /\ "login" \notin Presents /\ "login" \notin Waits /\ "login" # "refresh"
      /\ {"api", "profile", "change"} = Waits /\ "change" \notin Presents
      /\ \A w \in Waits : w \notin Presents /\ w \notin Forms \cup {"refresh"}
  BY DEF Forms, Presents, Waits
<1>1. CASE CheckPassword(k)
  <2>1. call[k].pc = "sent" /\ call[k].kind = "login"
    BY <1>1 DEF CheckPassword, Arrived
  <2>2. CASE Refuse(k, "denied")
    BY <2>1, <2>2, <1>0, RefuseKeeps
  <2>3. CASE ~ Refuse(k, "denied")
    <3>1. call' = [call EXCEPT ![k].pc = "checked"] /\ account' = account /\ token' = token
      BY <1>1, <2>3 DEF CheckPassword, sessionVars
    <3>2. \A j \in Calls : call'[j] = call[j] \/ Pauses(j)
      BY <2>1, <3>1, <1>0 DEF Pauses, ClientFormed, CallsFormed, Call
    <3>3. QED
      BY <3>1, <3>2, PauseKeeps
  <2>4. QED
    BY <2>2, <2>3
<1>2. CASE ServeApi(k)
  <2>1. call[k].pc = "sent" /\ call[k].kind \in Waits /\ call[k].kind # "change"
    BY <1>2, <1>0 DEF ServeApi, Arrived
  <2>2. CASE Authentic(k)
    <3>1. Refuse(k, "ok")
      BY <1>2, <2>2 DEF ServeApi
    <3>2. QED
      BY <2>1, <3>1, <1>0, RefuseKeeps
  <2>3. CASE ~ Authentic(k)
    BY <1>2, <2>1, <2>3, RejectMatches DEF ServeApi
  <2>4. QED
    BY <2>2, <2>3
<1>3. CASE CheckCurrentPassword(k)
  <2>1. call[k].pc = "sent" /\ call[k].kind = "change"
    BY <1>3 DEF CheckCurrentPassword, Arrived
  <2>2. CASE ~ Authentic(k)
    BY <1>3, <2>1, <2>2, <1>0, RejectMatches DEF CheckCurrentPassword
  <2>3. CASE Refuse(k, "denied")
    BY <2>1, <2>3, <1>0, RefuseKeeps
  <2>4. CASE Authentic(k) /\ ~ Refuse(k, "denied")
    <3>1. /\ call' = [call EXCEPT ![k].pc = "checked", ![k].credential = account.hash]
          /\ account' = account /\ token' = token
      BY <1>3, <2>4 DEF CheckCurrentPassword, sessionVars
    <3>2. \A j \in Calls : call'[j] = call[j] \/ Pauses(j)
      BY <2>1, <3>1, <1>0 DEF Pauses, ClientFormed, CallsFormed, Call
    <3>3. QED
      BY <3>1, <3>2, PauseKeeps
  <2>5. QED
    BY <2>2, <2>3, <2>4
<1>4. CASE ChangePassword(k)
  <2>1. call[k].pc = "checked" /\ call[k].kind = "change" /\ call[k].tab # None
    BY <1>4 DEF ChangePassword, Match, CallsPlain
  <2>2. CASE SetPassword /\ Answered(k, "ok")
    <3>1. /\ \A j \in Calls \ {k} : call'[j] = call[j]
          /\ call'[k].pc = "answered" /\ call'[k].kind = call[k].kind /\ call'[k].tab = call[k].tab
          /\ call'[k].token = call[k].token /\ call'[k].retry = call[k].retry
      BY <2>1, <2>2, Replies DEF ClientFormed
    <3>2. /\ Weaker /\ \A t \in Tokens : Good(t) => Good(t)'
          /\ \A t \in Tokens : token'[t].state # "LIVE"
      BY <2>2, SetPasswordWeakens
    <3>3. call[k].kind \notin Forms \cup {"refresh"} /\ call[k].kind \notin Presents
      BY <2>1, <1>0
    <3>4. QED
      BY <2>1, <3>1, <3>2, <3>3, AnswerKeeps
  <2>3. CASE Refuse(k, "denied")
    BY <2>1, <2>3, <1>0, RefuseKeeps
  <2>4. CASE account.status # "ACTIVE" /\ Refuse(k, "unauthorized")
    <3>1. \A t \in Tokens : token[t].state # "LIVE"
      BY <2>4 DEF SessionInv, LiveTokensCurrent, Live
    <3>2. QED
      BY <2>1, <2>4, <3>1, <1>0, RefuseKeeps
  <2>5. QED
    BY <1>4, <2>2, <2>3, <2>4 DEF ChangePassword
<1>5. QED
  BY <1>1, <1>2, <1>3, <1>4

LEMMA ServeMatches ==
  ASSUME DocsTyped, SessionInv, ClientFormed, Match, NEW k \in Calls, Serve(k)
  PROVE  Match'
BY SignInMatches, RefreshMatches, LogoutMatches, CheckMatches DEF Serve

(* The administrator and the recovery of the password only end sessions.   *)
LEMMA DocumentsMatch ==
  ASSUME DocsTyped, SessionInv, ClientFormed, Match, Administrate \/ Recover,
         mishaps = 0, mishaps' = 0
  PROVE  Match'
<1>1. call' = call /\ tab' = tab
  BY DEF Administrate, LockUser, UnlockUser, TokenExpires, Recover, AcquireReservation,
         AskerStep,
         AskerCrash, FindUser, CreateCode, SendMail, MailRefused, MarkSent, MarkFailed,
         ReleaseReservation, ResetterStep, MatchCode, CountAttempt, ConsumeCode, CooldownEnds,
         HourPasses, CodeExpires
<1>2. \/ SetPassword \/ LockUser
      \/ account'.credential = account.credential /\ token' = token
  <2>1. ASSUME NEW t \in Tokens, TokenExpires(t), Mishap("lifetime") PROVE FALSE
    BY <2>1 DEF Mishap
  <2>2. CASE Administrate
    BY <2>1, <2>2 DEF Administrate, UnlockUser, DocsTyped, Account
  <2>3. CASE Recover
    BY <2>3, RecoverEffect DEF Recover, AcquireReservation, AskerStep,
         AskerCrash, FindUser, CreateCode, SendMail, MailRefused, MarkSent, MarkFailed,
         ReleaseReservation, ResetterStep, MatchCode, CountAttempt, ConsumeCode, CooldownEnds,
         HourPasses, CodeExpires, sessionVars
  <2>4. QED
    BY <2>2, <2>3
<1>3. CASE SetPassword \/ LockUser
  BY <1>1, <1>3, SetPasswordWeakens, Weakens
<1>4. CASE account'.credential = account.credential /\ token' = token
  BY <1>1, <1>4, Weakens DEF Weaker, Good
<1>5. QED
  BY <1>2, <1>3, <1>4

(* NextFree is a call that is free.                                        *)
LEMMA SlotFound ==
  ASSUME Free # {}
  PROVE  NextFree \in Calls /\ call[NextFree].pc = "free"
<1>1. Free \subseteq Nat /\ \A k \in Free : k \in Int
  BY Bounds DEF Free, Calls
<1>2. PICK x \in Free : \A y \in Free : ~ (<<y, x>> \in OpToRel(<, Nat))
  BY <1>1, NatLessThanWellFounded, WFMin
<1>3. \A y \in Free : ~ (y < x)
  BY <1>1, <1>2 DEF OpToRel
<1>4. NextFree \in Free
  <2>1. \E k \in Free : \A j \in Free : k <= j
    BY <1>1, <1>3
  <2>2. QED
    BY <2>1, Zenon DEF NextFree
<1>5. QED
  BY <1>4 DEF Free

LEMMA RoomFound == RoomForCall => Free # {}
BY FS_EmptySet DEF RoomForCall

LEMMA SentIs ==
  ASSUME NEW c, NEW kind, NEW t
  PROVE  /\ Sent(c, kind, t).pc = "sent" /\ Sent(c, kind, t).tab = c
         /\ Sent(c, kind, t).kind = kind /\ Sent(c, kind, t).retry /\ Sent(c, kind, t).token = t
BY DEF Sent

LEMMA AloneMeans ==
  ASSUME mishaps = 0, mishaps' = 0, NEW c, NEW kind, Alone(c, kind)
  PROVE  /\ kind \in Forms \cup {"logout", "change"} => CallsOf(c) = {}
         /\ Pending(c, {"logout", "change"}) = {}
BY DEF Alone, Mishap

LEMMA NoMishap ==
  ASSUME mishaps = 0, mishaps' = 0, NEW m
  PROVE  ~ Mishap(m)
BY DEF Mishap

LEMMA FormMatches ==
  ASSUME ClientFormed, Match, mishaps = 0, mishaps' = 0, NEW c \in Tabs, NEW kind \in Forms,
         SubmitForm(c, kind)
  PROVE  Match'
<1> DEFINE m == NextFree
<1>1. m \in Calls /\ call[m].pc = "free"
  BY SlotFound, RoomFound DEF SubmitForm
<1>2. call' = [call EXCEPT ![m] = Sent(c, kind, None)] /\ tab' = tab /\ ~ tab[c].user
      /\ account' = account /\ token' = token
  BY DEF SubmitForm, Keeping
<1> HIDE DEF m
<1>3. /\ \A j \in Calls \ {m} : call'[j] = call[j]
      /\ call'[m].pc = "sent" /\ call'[m].tab = c /\ call'[m].kind = kind /\ call'[m].retry
      /\ call'[m].token = None
  BY <1>1, <1>2, SentIs DEF ClientFormed, CallsFormed
<1>4. CallsOf(c) = {}
  BY AloneMeans DEF SubmitForm
<1>5. Pending(c, {"refresh"}) = {} /\ Pending(c, Forms \cup {"logout"}) = {}
  BY <1>4 DEF Pending
<1>6. kind \in Kinds /\ kind \notin Presents
  BY DEF Kinds, Forms, Presents
<1>7. QED
  BY <1>1, <1>2, <1>3, <1>4, <1>5, <1>6, SendKeeps

LEMMA CallMatches ==
  ASSUME ClientFormed, Match, mishaps = 0, mishaps' = 0, NEW c \in Tabs, NEW kind \in Waits,
         CallApi(c, kind)
  PROVE  Match'
<1> DEFINE m == NextFree
<1>1. m \in Calls /\ call[m].pc = "free"
  BY SlotFound, RoomFound DEF CallApi
<1>2. call' = [call EXCEPT ![m] = Sent(c, kind, None)] /\ tab' = tab /\ tab[c].user
      /\ account' = account /\ token' = token
  BY DEF CallApi, Keeping
<1> HIDE DEF m
<1>3. /\ \A j \in Calls \ {m} : call'[j] = call[j]
      /\ call'[m].pc = "sent" /\ call'[m].tab = c /\ call'[m].kind = kind /\ call'[m].retry
      /\ call'[m].token = None
  BY <1>1, <1>2, SentIs DEF ClientFormed, CallsFormed
<1>4. Pending(c, {"logout", "change"}) = {}
  BY AloneMeans DEF CallApi
<1>5. Pending(c, Forms \cup {"logout"}) = {}
  BY <1>2, <1>4, Places DEF Pending, CallsOf, Match, Guests
<1>6. kind \in Kinds /\ kind \notin Presents /\ kind \notin Forms \cup {"logout"} /\ kind # "refresh"
  BY DEF Kinds, Forms, Presents, Waits
<1>7. QED
  BY <1>1, <1>2, <1>3, <1>5, <1>6, SendKeeps

(* Of a tab that is signed out only the session goes.                      *)
LEMMA TabIs ==
  ASSUME ClientFormed, NEW c \in Tabs
  PROVE  /\ \A d \in Tabs \ {c} : SignedOut(c)[d] = tab[d]
         /\ SignedOut(c)[c].refresh = None /\ ~ SignedOut(c)[c].user
         /\ SignedOut(c)[c].ready = tab[c].ready
         /\ SignedOut(c) \in [Tabs -> TabState]
<1>1. tab \in [Tabs -> TabState]
  BY DEF ClientFormed, TabsFormed
<1>2. QED
  BY <1>1 DEF SignedOut, TabState

LEMMA LogoutSends ==
  ASSUME ClientFormed, Match, mishaps = 0, mishaps' = 0, NEW c \in Tabs, Logout(c)
  PROVE  Match'
<1>k. account' = account /\ token' = token
  BY DEF Logout, Keeping
<1>1. CASE tab[c].refresh = None
  <2>1. tab' = SignedOut(c) /\ call' = call
    BY <1>1 DEF Logout
  <2>2. /\ \A d \in Tabs \ {c} : tab'[d] = tab[d]
        /\ tab'[c].refresh = None /\ ~ tab'[c].user /\ tab'[c].ready = tab[c].ready
    BY <2>1, TabIs
  <2>3. tab[c].ready
    BY DEF Match, TabsPlain
  <2>4. QED
    BY <1>k, <1>1, <2>1, <2>2, <2>3, LeaveKeeps
<1>2. CASE tab[c].refresh # None
  <2> DEFINE m == NextFree
  <2>1. m \in Calls /\ call[m].pc = "free"
    BY <1>2, SlotFound, RoomFound DEF Logout
  <2>2. call' = [call EXCEPT ![m] = Sent(c, "logout", tab[c].refresh)] /\ tab' = tab
    BY <1>2 DEF Logout
  <2> HIDE DEF m
  <2>3. /\ \A j \in Calls \ {m} : call'[j] = call[j]
        /\ call'[m].pc = "sent" /\ call'[m].tab = c /\ call'[m].kind = "logout" /\ call'[m].retry
        /\ call'[m].token = tab[c].refresh
    BY <2>1, <2>2, SentIs DEF ClientFormed, CallsFormed
  <2>4. CallsOf(c) = {}
    BY AloneMeans DEF Logout
  <2>5. Pending(c, {"refresh"}) = {} /\ Pending(c, Forms \cup {"logout"}) = {}
    BY <2>4 DEF Pending
  <2>6. "logout" \in Kinds /\ "logout" \in Presents /\ "logout" \notin Forms
    BY DEF Kinds, Forms, Presents
  <2>7. QED
    BY <1>k, <1>2, <2>1, <2>2, <2>3, <2>4, <2>5, <2>6, SendKeeps
<1>3. QED
  BY <1>1, <1>2

LEMMA BrowseMatches ==
  ASSUME ClientFormed, Match, mishaps = 0, mishaps' = 0, Browse
  PROVE  Match'
<1>0. {"login", "register", "google"} \subseteq Forms /\ {"api", "profile", "change"} \subseteq Waits
  BY DEF Forms, Waits
<1> PICK c \in Tabs :
    \/ SubmitLogin(c) \/ SubmitRegistration(c) \/ PressGoogle(c)
    \/ AskData(c) \/ LoadProfile(c) \/ SubmitChange(c)
    \/ Logout(c) \/ Reload(c) \/ Bootstrap(c) \/ AccessExpires(c)
    \/ \E d \in Tabs : DuplicateTab(c, d)
  BY DEF Browse
<1>1. CASE SubmitLogin(c) \/ SubmitRegistration(c) \/ PressGoogle(c)
  BY <1>0, <1>1, FormMatches DEF SubmitLogin, SubmitRegistration, PressGoogle
<1>2. CASE AskData(c) \/ LoadProfile(c) \/ SubmitChange(c)
  BY <1>0, <1>2, CallMatches DEF AskData, LoadProfile, SubmitChange
<1>3. CASE AccessExpires(c)
  <2>1. tab' = [tab EXCEPT ![c].access = Expired] /\ call' = call /\ account' = account /\ token' = token
    BY <1>3 DEF AccessExpires, Keeping
  <2>2. /\ \A d \in Tabs \ {c} : tab'[d] = tab[d]
        /\ tab'[c].refresh = tab[c].refresh /\ tab'[c].user = tab[c].user
        /\ tab'[c].ready = tab[c].ready
    BY <2>1 DEF ClientFormed, TabsFormed, TabState
  <2>3. tab[c].ready /\ (tab[c].refresh # None => tab[c].user)
    BY DEF Match, TabsPlain
  <2>4. QED
    BY <2>1, <2>2, <2>3, LeaveKeeps
<1>4. ~ Reload(c) /\ ~ \E d \in Tabs : DuplicateTab(c, d)
  BY NoMishap DEF Reload, DuplicateTab
<1>5. ~ Bootstrap(c)
  BY DEF Bootstrap, Match, TabsPlain
<1>6. QED
  BY <1>1, <1>2, <1>3, <1>4, <1>5, LogoutSends

(* Nobody else signs in or out in the tab of a call that is neither.       *)
LEMMA OthersWait ==
  ASSUME ClientFormed, Match, NEW k \in Calls, call[k].tab # None,
         call[k].kind \notin Forms \cup {"logout"}
  PROVE  \A j \in Calls : call[j].tab = call[k].tab => call[j].kind \notin Forms \cup {"logout"}
BY DEF Match, Sole

(* A tab gives up a session that no longer works, or had none.             *)
LEMMA GivesUp ==
  ASSUME ClientFormed, Match, account' = account, token' = token,
         NEW c \in Tabs, NEW k \in Calls, call[k].tab = c,
         \A d \in Tabs \ {c} : tab'[d] = tab[d],
         tab'[c].refresh = None, ~ tab'[c].user, tab'[c].ready,
         tab[c].refresh # None => token[tab[c].refresh].state # "LIVE",
         call[k].kind \in Presents => token[call[k].token].state # "LIVE",
         call'[k] = FreeCall,
         call[k].kind \notin Forms,
         \A j \in Calls \ {k} : \/ call'[j] = call[j]
                                \/ /\ call[j].tab = c /\ call[j].pc = "waiting"
                                   /\ call'[j] = FreeCall
  PROVE  Match'
<1>1. Finishes(c, k)
  <2>1. call[k].kind \in Kinds
    BY Places DEF Match, CallsPlain
  <2>2. call[k].kind \notin Presents => call[k].kind \in Waits
    BY <2>1 DEF Kinds, Presents, Waits
  <2>3. call[k].kind \in Waits => call[k].token = None
    BY DEF Match, CallsPlain
  <2>4. QED
    BY <2>2, <2>3 DEF Finishes
<1>2. \A j \in Calls : call'[j] = call[j] \/ Finishes(c, j)
  BY <1>1 DEF Finishes
<1>3. \A j \in Calls : (call[j].tab = c /\ call[j].kind = "logout") => Finishes(c, j)
  <2>1. ASSUME NEW j \in Calls, call[j].tab = c, call[j].kind = "logout" PROVE j = k
    BY <2>1, Places DEF Match, Sole
  <2>2. QED
    BY <1>1, <2>1
<1>4. QED
  BY <1>2, <1>3, LeaveKeeps

LEMMA FormEnds ==
  ASSUME ClientFormed, Match, NEW k \in Calls, call[k].kind \in Forms, Receive(k)
  PROVE  Match'
<1> DEFINE c == call[k].tab
<1>1. call[k].pc = "answered" /\ account' = account /\ token' = token
  BY DEF Receive, Keeping
<1>2. c \in Tabs
  BY <1>1, Places DEF Match, CallsPlain
<1>3. /\ tab' = IF call[k].status = "ok" THEN SignedIn(c, call[k].token) ELSE tab
      /\ call' = [call EXCEPT ![k] = FreeCall]
  <2>1. call[k].kind # "refresh" /\ call[k].kind # "logout"
    BY DEF Forms
  <2>2. QED
    BY <2>1 DEF Receive, Settle
<1>4. call'[k] = FreeCall /\ \A j \in Calls \ {k} : call'[j] = call[j]
  BY <1>3 DEF ClientFormed, CallsFormed
<1> HIDE DEF c
<1>5. CASE call[k].status = "ok"
  <2>1. call[k].token \in Tokens
    BY <1>1, <1>5, Places
  <2>2. /\ \A d \in Tabs \ {c} : tab'[d] = tab[d]
        /\ tab'[c].ready /\ tab'[c].user /\ tab'[c].refresh = call[k].token
    BY <1>2, <1>3, <1>5 DEF SignedIn, ClientFormed, TabsFormed
  <2>3. QED
    BY <1>1, <1>2, <1>4, <1>5, <2>1, <2>2, EnterKeeps DEF c
<1>6. CASE call[k].status # "ok"
  <2>1. call[k].token = None /\ call[k].kind \notin Presents
    BY <1>6 DEF Match, CallsPlain, Forms, Presents
  <2>2. Finishes(c, k)
    BY <1>4, <2>1 DEF Finishes, c
  <2>3. tab' = tab
    BY <1>3, <1>6
  <2>4. tab[c].ready /\ (tab[c].refresh # None => tab[c].user)
    BY <1>2 DEF Match, TabsPlain
  <2>5. QED
    BY <1>1, <1>2, <1>4, <2>2, <2>3, <2>4, LeaveKeeps
<1>7. QED
  BY <1>5, <1>6

LEMMA RefreshEndsMatches ==
  ASSUME DocsTyped, ClientFormed, Match, NEW k \in Calls, call[k].kind = "refresh", Receive(k)
  PROVE  Match'
<1> DEFINE c == call[k].tab
           after == IF call[k].status = "ok" THEN SignedIn(c, call[k].token) ELSE SignedOut(c)
<1>1. call[k].pc = "answered" /\ account' = account /\ token' = token
  BY DEF Receive, Keeping
<1>2. c \in Tabs /\ call[k].kind \in Presents /\ call[k].token \in Tokens
  BY <1>1, Places DEF Match, CallsPlain, Presents
<1>k. call[k].kind \notin Forms \cup {"logout"}
  BY DEF Forms
<1>3. RefreshEnds(c, k, call[k].status = "ok", FreeCall)
  BY <1>k DEF Receive, Settle
<1>r. tab' = [after EXCEPT ![c].ready = TRUE]
  BY <1>3 DEF RefreshEnds
<1>4. call' = [j \in Calls |->
           IF j = k THEN FreeCall
           ELSE IF call[j].tab = c /\ call[j].pc = "waiting"
           THEN IF call[k].status = "ok" THEN [call[j] EXCEPT !.pc = "sent", !.retry = FALSE,
                                                              !.credential = after[c].access]
                ELSE FreeCall
           ELSE call[j]]
  BY <1>3 DEF RefreshEnds
<1> HIDE DEF c, after
<1>5. CASE call[k].status = "ok"
  <2>1. /\ after \in [Tabs -> TabState] /\ \A d \in Tabs \ {c} : after[d] = tab[d]
        /\ after[c].refresh = call[k].token /\ after[c].user
        /\ after[c].access = token[call[k].token].credential
    <3>1. after = SignedIn(c, call[k].token)
      BY <1>5 DEF after
    <3>2. [refresh |-> call[k].token, access |-> token[call[k].token].credential,
           user |-> TRUE, ready |-> TRUE] \in TabState
      BY <1>2 DEF DocsTyped, TokenDoc, TabState
    <3>3. after \in [Tabs -> TabState]
      BY <1>2, <3>1, <3>2 DEF SignedIn, ClientFormed, TabsFormed
    <3>4. QED
      BY <1>2, <3>1, <3>3 DEF SignedIn, ClientFormed, TabsFormed
  <2>2. /\ \A d \in Tabs \ {c} : tab'[d] = tab[d]
        /\ tab'[c].ready /\ tab'[c].user /\ tab'[c].refresh = call[k].token
    BY <1>2, <1>r, <2>1 DEF TabState
  <2>3. call'[k] = FreeCall
    BY <1>4
  <2>4. \A j \in Calls \ {k} : call'[j] = call[j] \/ Resends(c, j, call[k].token)
    <3> SUFFICES ASSUME NEW j \in Calls \ {k}, call[j].tab = c, call[j].pc = "waiting"
                 PROVE  Resends(c, j, call[k].token)
      BY <1>4
    <3>1. call'[j] = [call[j] EXCEPT !.pc = "sent", !.retry = FALSE, !.credential = after[c].access]
      BY <1>4, <1>5
    <3>2. call[j] \in Call
      BY DEF ClientFormed, CallsFormed
    <3>3. QED
      BY <2>1, <3>1, <3>2 DEF Resends, Call
  <2>5. QED
    BY <1>1, <1>2, <1>5, <2>2, <2>3, <2>4, EnterKeeps DEF c
<1>6. CASE call[k].status # "ok"
  <2>1. after = SignedOut(c)
    BY <1>6 DEF after
  <2>2. /\ \A d \in Tabs \ {c} : tab'[d] = tab[d]
        /\ tab'[c].ready /\ ~ tab'[c].user /\ tab'[c].refresh = None
    BY <1>2, <1>r, <2>1, TabIs DEF TabState
  <2>3. /\ tab[c].refresh # None => token[tab[c].refresh].state # "LIVE"
        /\ token[call[k].token].state # "LIVE"
    BY <1>1, <1>2, <1>6 DEF Match, Spent, c
  <2>4. call'[k] = FreeCall /\ \A j \in Calls \ {k} : \/ call'[j] = call[j]
                                \/ /\ call[j].tab = c /\ call[j].pc = "waiting"
                                   /\ call'[j] = FreeCall
    BY <1>4, <1>6
  <2>5. QED
    BY <1>1, <1>2, <1>k, <2>2, <2>3, <2>4, GivesUp DEF c
<1>7. QED
  BY <1>5, <1>6

LEMMA LogoutEnds ==
  ASSUME ClientFormed, Match, NEW k \in Calls, call[k].kind = "logout", Receive(k)
  PROVE  Match'
<1> DEFINE c == call[k].tab
<1>1. call[k].pc = "answered" /\ account' = account /\ token' = token
  BY DEF Receive, Keeping
<1>2. c \in Tabs /\ call[k].kind \in Presents /\ call[k].kind \notin Forms
  BY <1>1, Places DEF Match, CallsPlain, Presents, Forms
<1>3. tab' = SignedOut(c) /\ call' = [call EXCEPT ![k] = FreeCall]
  BY <1>2 DEF Receive, Settle
<1>4. call'[k] = FreeCall /\ \A j \in Calls \ {k} : call'[j] = call[j]
  BY <1>3 DEF ClientFormed, CallsFormed
<1>5. /\ \A d \in Tabs \ {c} : tab'[d] = tab[d]
      /\ tab'[c].ready /\ ~ tab'[c].user /\ tab'[c].refresh = None
  BY <1>2, <1>3, TabIs DEF Match, TabsPlain
<1>6. /\ tab[c].refresh # None => token[tab[c].refresh].state # "LIVE"
      /\ token[call[k].token].state # "LIVE"
  BY <1>1, <1>2 DEF Match, Spent
<1>7. QED
  BY <1>1, <1>2, <1>4, <1>5, <1>6, GivesUp

LEMMA AwaitMatches ==
  ASSUME ClientFormed, Match, NEW k \in Calls, call[k].pc = "answered", call[k].kind \in Waits,
         NEW c \in Tabs, c = call[k].tab, AwaitRefresh(c, k, FreeCall),
         account' = account, token' = token
  PROVE  Match'
<1>k. call[k].kind \notin Forms \cup {"logout"} /\ call[k].kind \notin Presents /\ call[k].tab # None
  BY Places DEF Waits, Forms, Presents
<1>f. call[k] \in Call
  BY DEF ClientFormed, CallsFormed
<1>1. CASE Pending(c, {"refresh"}) # {}
  <2>1. call' = [call EXCEPT ![k].pc = "waiting", ![k].status = None] /\ tab' = tab
    BY <1>1 DEF AwaitRefresh
  <2>2. \A j \in Calls : call'[j] = call[j] \/ Pauses(j)
    BY <1>k, <1>f, <2>1 DEF ClientFormed, CallsFormed, Pauses, Call
  <2>3. QED
    BY <2>1, <2>2, PauseKeeps
<1>2. CASE Pending(c, {"refresh"}) = {} /\ tab[c].refresh = None
  <2>1. call' = [call EXCEPT ![k] = FreeCall] /\ tab' = SignedOut(c)
    BY <1>2 DEF AwaitRefresh
  <2>2. call'[k] = FreeCall /\ \A j \in Calls \ {k} : call'[j] = call[j]
    BY <2>1 DEF ClientFormed, CallsFormed
  <2>3. /\ \A d \in Tabs \ {c} : tab'[d] = tab[d]
        /\ tab'[c].ready /\ ~ tab'[c].user /\ tab'[c].refresh = None
    BY <2>1, TabIs DEF Match, TabsPlain
  <2>4. QED
    BY <1>k, <1>2, <2>2, <2>3, GivesUp
<1>3. CASE Pending(c, {"refresh"}) = {} /\ tab[c].refresh # None
  <2> DEFINE m == NextFree
  <2>1. m \in Calls /\ call[m].pc = "free"
    BY <1>3, SlotFound DEF AwaitRefresh
  <2>2. /\ call' = [call EXCEPT ![k].pc = "waiting", ![k].status = None,
                                ![m] = Sent(c, "refresh", tab[c].refresh)]
        /\ tab' = tab
    BY <1>3 DEF AwaitRefresh
  <2> HIDE DEF m
  <2>3. m # k
    BY <2>1
  <2>4. /\ call'[m].pc = "sent" /\ call'[m].tab = c /\ call'[m].kind = "refresh" /\ call'[m].retry
        /\ call'[m].token = tab[c].refresh
    BY <2>1, <2>2, SentIs DEF ClientFormed, CallsFormed
  <2>5. \A j \in Calls \ {m} : call'[j] = call[j] \/ Pauses(j)
    BY <1>k, <1>f, <2>2, <2>3 DEF ClientFormed, CallsFormed, Pauses, Call
  <2>6. Pending(c, Forms \cup {"logout"}) = {}
    BY <1>k, OthersWait DEF Pending, CallsOf
  <2>7. "refresh" \in Kinds /\ "refresh" \in Presents /\ "refresh" \notin Forms \cup {"logout"}
    BY DEF Kinds, Presents, Forms
  <2>8. QED
    BY <1>3, <2>1, <2>2, <2>4, <2>5, <2>6, <2>7, SendKeeps
<1>4. QED
  BY <1>1, <1>2, <1>3

LEMMA OtherEnds ==
  ASSUME ClientFormed, Match, NEW k \in Calls, call[k].kind \in Waits, Receive(k)
  PROVE  Match'
<1> DEFINE c == call[k].tab
<1>1. call[k].pc = "answered" /\ account' = account /\ token' = token
  BY DEF Receive, Keeping
<1>2. c \in Tabs /\ c # None /\ call[k].token = None
  BY <1>1, Places DEF Match, CallsPlain
<1>k. call[k].kind \notin Forms \cup {"logout"} /\ call[k].kind \notin Presents /\ call[k].kind # "refresh"
  BY DEF Waits, Forms, Presents
<1>3. \/ AwaitRefresh(c, k, FreeCall)
      \/ /\ ~ (call[k].status = "unauthorized" /\ call[k].retry)
         /\ tab' = CASE call[k].status = "unauthorized" -> SignedOut(c)
                     [] call[k].status = "ok" /\ call[k].kind = "change" -> SignedOut(c)
                     [] call[k].status = "ok" /\ call[k].kind = "profile" -> [tab EXCEPT ![c].user = TRUE]
                     [] OTHER -> tab
         /\ call' = [call EXCEPT ![k] = FreeCall]
  BY <1>k DEF Receive, Settle
<1>4. CASE AwaitRefresh(c, k, FreeCall)
  BY <1>1, <1>2, <1>4, AwaitMatches
<1>5. CASE call' = [call EXCEPT ![k] = FreeCall] /\ tab' = SignedOut(c) /\ Dismisses(k)
  <2>1. call'[k] = FreeCall /\ \A j \in Calls \ {k} : call'[j] = call[j]
    BY <1>5 DEF ClientFormed, CallsFormed
  <2>2. /\ \A d \in Tabs \ {c} : tab'[d] = tab[d]
        /\ tab'[c].ready /\ ~ tab'[c].user /\ tab'[c].refresh = None
    BY <1>2, <1>5, TabIs DEF Match, TabsPlain
  <2>3. tab[c].refresh # None => Holds(c, tab[c].refresh) /\ tab[c].refresh \in Tokens
    BY <1>2, Places DEF Holds
  <2>4. tab[c].refresh # None => token[tab[c].refresh].state # "LIVE"
    BY <1>5, <2>3 DEF Match, Dismissed
  <2>5. QED
    BY <1>1, <1>2, <1>k, <2>1, <2>2, <2>4, GivesUp
<1>6. CASE call' = [call EXCEPT ![k] = FreeCall] /\ (tab' = tab \/ tab' = [tab EXCEPT ![c].user = TRUE])
  <2>1. call'[k] = FreeCall /\ \A j \in Calls \ {k} : call'[j] = call[j]
    BY <1>6 DEF ClientFormed, CallsFormed
  <2>2. /\ \A d \in Tabs \ {c} : tab'[d] = tab[d]
        /\ tab'[c].ready /\ tab'[c].refresh = tab[c].refresh
        /\ tab'[c].refresh # None => tab'[c].user
    <3>1. tab[c].ready /\ (tab[c].refresh # None => tab[c].user)
      BY <1>2 DEF Match, TabsPlain
    <3>2. QED
      BY <1>2, <1>6, <3>1 DEF ClientFormed, TabsFormed, TabState
  <2>3. Finishes(c, k)
    BY <1>2, <1>k, <2>1 DEF Finishes
  <2>4. \A j \in Calls : call[j].tab = c => call[j].kind \notin Forms
    BY <1>2, <1>k, OthersWait
  <2>5. QED
    BY <1>1, <1>2, <2>1, <2>2, <2>3, <2>4, LeaveKeeps
<1>7. QED
  BY <1>1, <1>3, <1>4, <1>5, <1>6 DEF Dismisses

LEMMA DeliverMatches ==
  ASSUME DocsTyped, ClientFormed, Match, mishaps = 0, mishaps' = 0, NEW k \in Calls, Deliver(k)
  PROVE  Match'
<1>1. ~ CallFails(k)
  BY NoMishap DEF CallFails
<1>2. Receive(k) /\ call[k].tab # None
  BY <1>1 DEF Deliver, Receive, Match, CallsPlain
<1>3. call[k].kind \in Kinds
  BY <1>2 DEF Match, CallsPlain
<1>4. call[k].kind \in Forms \/ call[k].kind = "refresh" \/ call[k].kind = "logout" \/ call[k].kind \in Waits
  BY <1>3 DEF Kinds, Waits
<1>5. QED
  BY <1>2, <1>4, FormEnds, RefreshEndsMatches, LogoutEnds, OtherEnds

(* The invariant of part 7 as one of the specification.                    *)
Matched == mishaps = 0 => Match

LEMMA InitMatches == Init => Match
<1> SUFFICES ASSUME Init PROVE Match
  OBVIOUS
<1>1. /\ \A t \in Tokens : token[t] = NoToken
      /\ \A k \in Calls : call[k] = FreeCall
      /\ \A c \in Tabs : tab[c] = EmptyTab
  BY DEF Init
<1>2. NoToken.state = "ABSENT" /\ ~ NoToken.expired /\ EmptyTab.refresh = None /\ EmptyTab.ready
  BY DEF NoToken, EmptyTab
<1>3. FreeCall.kind \notin Forms /\ FreeCall.kind \notin Waits /\ FreeCall.kind \notin Presents
  BY Blank DEF Kinds, Forms, Waits, Presents
<1>4. None \notin Tokens
  BY AccountAssumption
<1>5. \A c \in Tabs : \A t \in Tokens : ~ Holds(c, t)
  BY <1>1, <1>2, <1>4, Blank DEF Holds
<1>6. TabsPlain /\ CallsPlain /\ NoneAged /\ Sole /\ Guests
  BY <1>1, <1>2, <1>3, Blank DEF TabsPlain, CallsPlain, NoneAged, Sole, Guests
<1>7. Apart /\ OneIssue /\ Presented /\ Kept /\ Carried /\ Spent /\ Retried
  BY <1>1, <1>2, <1>3, <1>5, Blank
     DEF Apart, OneIssue, Presented, Kept, Carried, Spent, Retried
<1>8. Dismissed /\ LiveHeld
  BY <1>1, <1>2, <1>3, <1>5, Blank DEF Dismissed, Dismisses, LiveHeld
<1>9. QED
  BY <1>6, <1>7, <1>8 DEF Match

(* A step has at most one mishap.                                          *)
LEMMA MishapsGrow ==
  ASSUME [Next]_vars
  PROVE  UNCHANGED mishaps \/ mishaps' = mishaps + 1
<1>1. CASE Browse \/ \E k \in Calls : Deliver(k)
  BY <1>1
     DEF Browse, Deliver, Receive, CallFails, SubmitLogin, SubmitRegistration, PressGoogle,
              SubmitForm, AskData, LoadProfile, SubmitChange, CallApi, Logout, Reload, Bootstrap,
              AccessExpires, DuplicateTab, Alone, Harmless, Mishap
<1>2. CASE (\E k \in Calls : Serve(k)) \/ Administrate \/ UNCHANGED vars
  BY <1>2 DEF Serve, Administrate, Harmless, Mishap, vars
<1>3. CASE Recover
  BY <1>3
     DEF Recover, AcquireReservation, AskerStep, AskerCrash, FindUser, CreateCode, SendMail,
              MailRefused, MarkSent, MarkFailed, ReleaseReservation, ResetterStep, MatchCode,
              CountAttempt, ConsumeCode, CooldownEnds, Overtakes, HourPasses, CodeExpires
<1>4. QED
  BY <1>1, <1>2, <1>3 DEF Next

LEMMA StepMatches == (IInv /\ Matched /\ [Next]_vars) => Matched'
<1> SUFFICES ASSUME IInv, Matched, [Next]_vars, mishaps' = 0 PROVE Match'
  BY DEF Matched
<1>1. DocsTyped /\ SessionInv /\ ClientFormed
  BY DEF IInv
<1>2. mishaps = 0
  BY MishapsGrow, MishapTyped, Bounds DEF IInv, RecoveryInv, RecoveryTyped
<1>3. Match
  BY <1>2 DEF Matched
<1>4. CASE UNCHANGED vars
  BY <1>1, <1>3, <1>4, Weakens DEF vars, Weaker, Good
<1>5. QED
  BY <1>1, <1>2, <1>3, <1>4, ServeMatches, DeliverMatches, BrowseMatches, DocumentsMatch
     DEF Next

(* Match holds until the first mishap.                                     *)
LEMMA TabsInductive == Spec => [](IInv /\ Matched)
<1>1. Init => Matched
  BY InitMatches DEF Matched
<1>2. QED
  BY <1>1, StepMatches, Inductive, PTL DEF Spec

(* The shared refresh of apiClient.ts against refreshAuthTokens: while     *)
(* nothing goes wrong the token a tab stores works, unless its account was *)
(* locked or got a new password, and every live session is held by a tab.  *)
THEOREM TabsMatchSessions == Spec => []SessionsMatchTabs
<1>1. (IInv /\ Matched) => SessionsMatchTabs
  <2> SUFFICES ASSUME IInv, mishaps = 0, Match PROVE SessionsMatchTabs
    BY DEF Matched, SessionsMatchTabs, StoredTokenWorks, LiveSessionIsHeld
  <2>1. DocsTyped /\ ClientFormed
    BY DEF IInv
  <2>2. StoredTokenWorks
    <3> SUFFICES ASSUME NEW c \in Tabs, tab[c].refresh # None,
                        Pending(c, {"refresh", "logout"}) = {}
                 PROVE  \/ token[tab[c].refresh].state = "LIVE"
                        \/ token[tab[c].refresh].credential # account.credential
      BY DEF StoredTokenWorks
    <3>1. Good(tab[c].refresh)
      BY DEF Match, Kept, Pending, CallsOf, Presents
    <3>2. QED
      BY <2>1, <3>1, Places, Credits DEF Good
  <2>3. LiveSessionIsHeld
    BY DEF LiveSessionIsHeld, Live, Match, LiveHeld
  <2>4. QED
    BY <2>2, <2>3 DEF SessionsMatchTabs
<1>2. QED
  BY <1>1, TabsInductive, PTL
=============================================================================
