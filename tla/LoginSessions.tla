--------------------------- MODULE LoginSessions ---------------------------
(***************************************************************************)
(* What refresh tokens promise of an account: a session is opened once, by *)
(* an active account; it ends once and stays ended; a new password and a   *)
(* lock end every session there is.                                        *)
(***************************************************************************)
EXTENDS Integers

CONSTANT Sessions
VARIABLES status, version, session

vars == <<status, version, session>>

Init ==
  /\ status \in {"ABSENT", "ACTIVE"}
  /\ version = 0
  /\ session = [s \in Sessions |-> "none"]

Ended(S) == [s \in Sessions |-> IF s \in S /\ session[s] = "open" THEN "ended" ELSE session[s]]

Open(s) ==
  /\ status # "LOCKED" /\ session[s] = "none"
  /\ status' = "ACTIVE"
  /\ session' = [session EXCEPT ![s] = "open"]
  /\ UNCHANGED version

End(S) ==
  /\ session' = Ended(S)
  /\ UNCHANGED <<status, version>>

EndAll ==
  /\ status # "ABSENT"
  /\ status' \in {status, "LOCKED"}
  /\ version' = version + 1
  /\ session' = Ended(Sessions)

Unlock ==
  /\ status = "LOCKED" /\ status' = "ACTIVE"
  /\ UNCHANGED <<version, session>>

Next ==
  \/ \E s \in Sessions : Open(s)
  \/ \E S \in SUBSET Sessions : End(S)
  \/ EndAll \/ Unlock

Spec == Init /\ [][Next]_vars
=============================================================================
