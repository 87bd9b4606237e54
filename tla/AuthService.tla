---------------------------- MODULE AuthService ----------------------------
(***************************************************************************)
(* auth.service.ts and admin-user.service.ts: each operation is the part   *)
(* outside and the part inside its transaction.  authVersion only makes    *)
(* two transactions on one user conflict, so a transaction is one action.  *)
(***************************************************************************)
EXTENDS AccountStore

Answered(k, status) ==
  call' = [call EXCEPT ![k] =
    IF @.tab = None THEN FreeCall
    ELSE [@ EXCEPT !.pc = "answered", !.status = status, !.credential = None]]

AnsweredWith(k, t) ==
  call' = [call EXCEPT ![k] =
    IF @.tab = None THEN FreeCall
    ELSE [@ EXCEPT !.pc = "answered", !.status = "ok", !.credential = None, !.token = t]]

Arrived(k, kinds) == call[k].pc = "sent" /\ call[k].kind \in kinds

(* generateAuthTokens names a token no document has; a transaction that    *)
(* issues one waits for ever when MaxTokens are issued.                    *)
Fresh(t) == /\ token[t].state = "ABSENT"
            /\ \A u \in Tokens : u < t => token[u].state # "ABSENT"
TokensLeft == \E t \in Tokens : Fresh(t)
Issued(family, credential) ==
  [state |-> "LIVE", family |-> family, credential |-> credential, expired |-> FALSE]

(* RefreshToken.updateMany: the live tokens of a set.                      *)
Revoked(S) ==
  [t \in Tokens |-> IF token[t].state = "LIVE" /\ t \in S
                    THEN [token[t] EXCEPT !.state = "REVOKED"] ELSE token[t]]
FamilyOf(t) == {u \in Tokens : token[u].family = token[t].family}

(* A new session: its first token names the family.                        *)
OpenFamily(k, credential) ==
  \E t \in Tokens :
    /\ Fresh(t)
    /\ token' = [token EXCEPT ![t] = Issued(t, credential)]
    /\ AnsweredWith(k, t)

(* An answer that changes no document of the account.                      *)
Refuse(k, status) ==
  /\ Answered(k, status)
  /\ UNCHANGED sessionVars

-----------------------------------------------------------------------------
Register(k) ==
  /\ Arrived(k, {"register"})
  /\ IF account.status = "ABSENT"
     THEN account' = PasswordAccount /\ OpenFamily(k, 0)
     ELSE Refuse(k, "denied")

(* loginUser before its transaction: the user is read and the password     *)
(* compared, which may also fail.                                          *)
CheckPassword(k) ==
  /\ Arrived(k, {"login"})
  /\ \/ /\ account.status = "ACTIVE" /\ account.hash # None
        /\ call' = [call EXCEPT ![k].pc = "checked"]
        /\ UNCHANGED sessionVars
     \/ Refuse(k, "denied")

OpenSession(k) ==
  /\ call[k].pc = "checked" /\ call[k].kind = "login"
  /\ IF account.status = "ACTIVE"
     THEN OpenFamily(k, account.credential) /\ UNCHANGED account
     ELSE Refuse(k, "denied")

(* loginWithGoogle: find by subject, else link by email when the address   *)
(* is authoritative, else create.  Google's token may fail verification.   *)
LoginWithGoogle(k) ==
  /\ Arrived(k, {"google"})
  /\ \/ /\ account.status \in {"ABSENT", "ACTIVE"}
        /\ account' = IF account.status = "ABSENT" THEN GoogleAccount
                      ELSE [account EXCEPT !.google = TRUE]
        /\ OpenFamily(k, account.credential)
     \/ Refuse(k, "denied")

(* Rotation: the presented token ends, its successor joins the family.     *)
Rotated(t, n) ==
  [token EXCEPT ![t].state = "REVOKED", ![n] = Issued(token[t].family, account.credential)]

(* A token that was rotated or signed out already.                         *)
\* Mutant: the flag is not looked at.
NeverReused(t) == FALSE
Reused(t) == token[t].state = "REVOKED"

(* refreshAuthTokens.  The revocation for a locked user is undone by the   *)
(* exception thrown in the same transaction.                               *)
RefreshAuthTokens(k) ==
  /\ Arrived(k, {"refresh"})
  /\ UNCHANGED account
  /\ LET t == call[k].token IN
     CASE token[t].expired -> Refuse(k, "unauthorized")
       [] ~ token[t].expired /\ account.status = "LOCKED" -> Refuse(k, "denied")
       [] /\ ~ token[t].expired /\ account.status # "LOCKED"
          /\ token[t].credential # account.credential -> Refuse(k, "unauthorized")
       [] /\ ~ token[t].expired /\ account.status # "LOCKED"
          /\ token[t].credential = account.credential
          /\ Reused(t) ->
            token' = Revoked(FamilyOf(t)) /\ Answered(k, "unauthorized")
       [] OTHER ->
            \E n \in Tokens :
              /\ Fresh(n)
              /\ token' = Rotated(t, n)
              /\ AnsweredWith(k, n)

\* Mutant: only the browser forgets the session.
LogoutUserLocally(k) ==
  /\ Arrived(k, {"logout"})
  /\ Refuse(k, "ok")
LogoutUser(k) ==
  /\ Arrived(k, {"logout"})
  /\ UNCHANGED account
  /\ LET t == call[k].token IN
     IF token[t].expired THEN Refuse(k, "unauthorized")
     ELSE /\ token' = [token EXCEPT ![t].state = "REVOKED"]
          /\ Answered(k, "ok")

(* authenticate: the user as it is now against the version in the token.   *)
Authentic(k) == account.status = "ACTIVE" /\ call[k].credential = account.credential
Rejection == IF account.status = "LOCKED" THEN "denied" ELSE "unauthorized"

(* A route that only reads: the handlers behind `request`.                 *)
ServeApi(k) ==
  /\ Arrived(k, {"api", "profile"})
  /\ Refuse(k, IF Authentic(k) THEN "ok" ELSE Rejection)

(* changePassword before its transaction: authenticated, the hash read and *)
(* compared.  `token` is unused by this kind; `credential` keeps the hash. *)
CheckCurrentPassword(k) ==
  /\ Arrived(k, {"change"})
  /\ IF ~ Authentic(k) THEN Refuse(k, Rejection)
     ELSE \/ /\ account.hash # None
             /\ call' = [call EXCEPT ![k].pc = "checked", ![k].credential = account.hash]
             /\ UNCHANGED sessionVars
          \/ Refuse(k, "denied")

CredentialsLeft == account.credential < MaxCredential

(* The account under a new password: every session ends.                   *)
\* Mutant: the sessions go on.
SetPasswordOnly ==
  /\ CredentialsLeft
  /\ account' = [account EXCEPT !.hash = account.credential + 1, !.credential = @ + 1]
  /\ UNCHANGED token
SetPassword ==
  /\ CredentialsLeft
  /\ account' = [account EXCEPT !.hash = account.credential + 1, !.credential = @ + 1]
  /\ token' = Revoked(Tokens)

ChangePassword(k) ==
  /\ call[k].pc = "checked" /\ call[k].kind = "change"
  /\ IF account.status = "ACTIVE" /\ account.hash = call[k].credential
     THEN SetPassword /\ Answered(k, "ok")
     ELSE Refuse(k, IF account.status = "ACTIVE" THEN "denied" ELSE "unauthorized")

(* lockUser of auth.service and of admin-user.service: the status, the     *)
(* sessions and the audit record in one transaction.                       *)
LockUser ==
  /\ account.status \in {"ACTIVE", "LOCKED"} /\ CredentialsLeft
  /\ account' = [account EXCEPT !.status = "LOCKED", !.credential = @ + 1]
  /\ token' = Revoked(Tokens)
  /\ UNCHANGED call

UnlockUser ==
  /\ account.status = "LOCKED"
  /\ account' = [account EXCEPT !.status = "ACTIVE"]
  /\ UNCHANGED <<token, call>>

(* The lifetime of a refresh token ends.                                   *)
TokenExpires(t) ==
  /\ token[t].state # "ABSENT" /\ ~ token[t].expired
  /\ token' = [token EXCEPT ![t].expired = TRUE]
  /\ UNCHANGED <<account, call>>

Serve(k) ==
  /\ \/ Register(k) \/ CheckPassword(k) \/ OpenSession(k) \/ LoginWithGoogle(k)
     \/ RefreshAuthTokens(k) \/ LogoutUser(k) \/ ServeApi(k)
     \/ CheckCurrentPassword(k) \/ ChangePassword(k)
  /\ UNCHANGED <<tab, rate, code, mailbox, asker, resetter, mishaps>>
=============================================================================
