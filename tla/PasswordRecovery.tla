-------------------------- MODULE PasswordRecovery --------------------------
(***************************************************************************)
(* requestPasswordReset and resetPassword of auth.service.ts for the email *)
(* of the account.  Neither runs in one transaction: every statement that  *)
(* awaits MongoDB or the mail server is an action, and the server may stop *)
(* between two of them.                                                    *)
(***************************************************************************)
EXTENDS AuthService

Newest(S) == CHOOSE n \in S : \A m \in S : m <= n
Created == {n \in Codes : code[n].state # "ABSENT"}
Unused == {n \in Created : ~ code[n].used}
CanHappen(m) == m \in Mishaps /\ mishaps < MaxMishaps

(* acquirePasswordResetReservation: what it checks first, the conditional  *)
(* update checks again.                                                    *)
MayReserve == ~ rate.cooldown /\ rate.stamps < HourlyLimit
AcquireReservation(a) ==
  /\ asker[a].pc = "idle" /\ MayReserve
  /\ rate' = [stamps |-> rate.stamps + 1, cooldown |-> TRUE, owner |-> a]
  /\ asker' = [asker EXCEPT ![a].pc = "reserved"]
  /\ UNCHANGED <<account, token, call, code, mailbox, resetter, mishaps>>

(* A locked or unknown account gets a synthetic code, on which a reset has *)
(* no effect.                                                              *)
FindUser(a) ==
  /\ asker[a].pc = "reserved"
  /\ asker' = [asker EXCEPT ![a].pc = "found", ![a].owned = (account.status = "ACTIVE")]
  /\ UNCHANGED <<account, token, call, rate, code, mailbox, resetter, mishaps>>

CreateCode(a) ==
  /\ asker[a].pc = "found"
  /\ \E n \in Codes :
       /\ code[n].state = "ABSENT" /\ \A m \in Codes : m < n => code[m].state # "ABSENT"
       /\ code' = [code EXCEPT ![n] = [NoCode EXCEPT !.state = "PENDING",
                                                     !.owned = asker[a].owned]]
       /\ asker' = [asker EXCEPT ![a].pc = "mailing", ![a].code = n]
  /\ UNCHANGED <<account, token, call, rate, mailbox, resetter, mishaps>>

(* sendPasswordResetOtp: the mail arrives.  It fails before that, or after *)
(* it: the mail server's answer or the statement that follows is lost.     *)
SendMail(a) ==
  /\ asker[a].pc = "mailing"
  /\ mailbox' = mailbox \cup {asker[a].code}
  /\ asker' = [asker EXCEPT ![a].pc = "mailed"]
  /\ UNCHANGED <<account, token, call, rate, code, resetter, mishaps>>

MailRefused(a) ==
  /\ asker[a].pc \in {"mailing", "mailed"} /\ CanHappen("mail")
  /\ asker' = [asker EXCEPT ![a].pc = "refused"]
  /\ mishaps' = mishaps + 1
  /\ UNCHANGED <<account, token, call, rate, code, mailbox, resetter>>

\* Mutant: the code stays PENDING.
MarkNothing(a) ==
  /\ asker[a].pc = "mailed"
  /\ asker' = [asker EXCEPT ![a].pc = "marked"]
  /\ UNCHANGED <<account, token, call, rate, code, mailbox, resetter, mishaps>>
MarkSent(a) ==
  /\ asker[a].pc = "mailed"
  /\ code' = [code EXCEPT ![asker[a].code].state = "SENT"]
  /\ asker' = [asker EXCEPT ![a].pc = "marked"]
  /\ UNCHANGED <<account, token, call, rate, mailbox, resetter, mishaps>>

MarkFailed(a) ==
  /\ asker[a].pc = "refused"
  /\ code' = [code EXCEPT ![asker[a].code].state = "FAILED",
                          ![asker[a].code].expired = TRUE]
  /\ asker' = [asker EXCEPT ![a].pc = "unmarked"]
  /\ UNCHANGED <<account, token, call, rate, mailbox, resetter, mishaps>>

(* The reservation is given back by whoever still holds it; after a failed *)
(* mail the cooldown goes with it.                                         *)
\* Mutant: the cooldown stays in either case.
ReleaseReservationOnly(a) ==
  /\ asker[a].pc \in {"marked", "unmarked"}
  /\ rate' = IF rate.owner = a THEN [rate EXCEPT !.owner = None] ELSE rate
  /\ asker' = [asker EXCEPT ![a] = IdleAsker]
  /\ UNCHANGED <<account, token, call, code, mailbox, resetter, mishaps>>
ReleaseReservation(a) ==
  /\ asker[a].pc \in {"marked", "unmarked"}
  /\ rate' = IF rate.owner = a
             THEN [rate EXCEPT !.owner = None,
                               !.cooldown = @ /\ asker[a].pc = "marked"]
             ELSE rate
  /\ asker' = [asker EXCEPT ![a] = IdleAsker]
  /\ UNCHANGED <<account, token, call, code, mailbox, resetter, mishaps>>

AskerStep(a) ==
  \/ FindUser(a) \/ CreateCode(a) \/ SendMail(a) \/ MailRefused(a)
  \/ MarkSent(a) \/ MarkFailed(a) \/ ReleaseReservation(a)

AskerCrash(a) ==
  /\ asker[a].pc # "idle" /\ CanHappen("crash")
  /\ asker' = [asker EXCEPT ![a] = IdleAsker]
  /\ mishaps' = mishaps + 1
  /\ UNCHANGED <<account, token, call, rate, code, mailbox, resetter>>

-----------------------------------------------------------------------------
(* resetPassword looks at the newest unused code only.                     *)
Usable(n) == ~ code[n].expired /\ code[n].attempts < MaxAttempts /\ code[n].state = "SENT"

(* The user types a code from the mailbox, or a wrong one.                 *)
MatchCode(r) ==
  /\ resetter[r].pc = "idle"
  /\ \E n \in Unused :
       /\ \A m \in Unused : m <= n
       /\ Usable(n)
       /\ \/ /\ n \in mailbox
             /\ resetter' = [resetter EXCEPT ![r] = [pc |-> "right", code |-> n]]
          \/ resetter' = [resetter EXCEPT ![r] = [pc |-> "wrong", code |-> n]]
  /\ UNCHANGED <<account, token, call, rate, code, mailbox, asker, mishaps>>

CountAttempt(r) ==
  /\ resetter[r].pc = "wrong"
  /\ code' = [code EXCEPT ![resetter[r].code].attempts =
       IF ~ code[resetter[r].code].used /\ @ < MaxAttempts THEN @ + 1 ELSE @]
  /\ resetter' = [resetter EXCEPT ![r] = IdleResetter]
  /\ UNCHANGED <<account, token, call, rate, mailbox, asker, mishaps>>

(* The transaction: use up the code, set the password, end the sessions.   *)
\* Mutant: the code is not checked again.
ConsumeCodeUnchecked(r) ==
  /\ resetter[r].pc = "right"
  /\ resetter' = [resetter EXCEPT ![r] = IdleResetter]
  /\ LET n == resetter[r].code IN
     /\ code' = [code EXCEPT ![n].used = TRUE]
     /\ IF code[n].owned /\ account.status = "ACTIVE" THEN SetPassword
        ELSE UNCHANGED sessionVars
  /\ UNCHANGED <<call, rate, mailbox, asker, mishaps>>
ConsumeCode(r) ==
  /\ resetter[r].pc = "right"
  /\ resetter' = [resetter EXCEPT ![r] = IdleResetter]
  /\ LET n == resetter[r].code IN
     IF ~ code[n].used /\ Usable(n)
     THEN /\ code' = [code EXCEPT ![n].used = TRUE]
          /\ IF code[n].owned /\ account.status = "ACTIVE"
             THEN SetPassword
             ELSE UNCHANGED sessionVars
     ELSE UNCHANGED <<account, token, code>>
  /\ UNCHANGED <<call, rate, mailbox, asker, mishaps>>

ResetterStep(r) == MatchCode(r) \/ CountAttempt(r) \/ ConsumeCode(r)

-----------------------------------------------------------------------------
(* Time.  Cooldown and reservation are set together for 60 seconds, a code *)
(* lives for 10 minutes; it is a mishap when either passes before the      *)
(* request that set it is done.                                            *)
Overtakes(busy) ==
  IF busy THEN CanHappen("slow") /\ mishaps' = mishaps + 1 ELSE UNCHANGED mishaps
CooldownEnds ==
  /\ rate.cooldown
  /\ rate' = [rate EXCEPT !.cooldown = FALSE]
  /\ Overtakes(\E a \in Askers : rate.owner = a /\ asker[a].pc # "idle")
  /\ UNCHANGED <<account, token, call, code, mailbox, asker, resetter>>

HourPasses ==
  /\ rate.stamps > IF rate.cooldown THEN 1 ELSE 0
  /\ rate' = [rate EXCEPT !.stamps = @ - 1]
  /\ UNCHANGED <<account, token, call, code, mailbox, asker, resetter, mishaps>>

CodeExpires(n) ==
  /\ code[n].state # "ABSENT" /\ ~ code[n].expired
  /\ code' = [code EXCEPT ![n].expired = TRUE]
  /\ Overtakes(\E a \in Askers : asker[a].code = n)
  /\ UNCHANGED <<account, token, call, rate, mailbox, asker, resetter>>

Recover ==
  /\ \/ \E a \in Askers : AcquireReservation(a) \/ AskerStep(a) \/ AskerCrash(a)
     \/ \E r \in Resetters : ResetterStep(r)
     \/ CooldownEnds \/ HourPasses
     \/ \E n \in Codes : CodeExpires(n)
  /\ UNCHANGED tab
=============================================================================
