----------------------------- MODULE MCAccounts -----------------------------
(* Accounts for TLC: tabs are interchangeable, and so are the executions   *)
(* of one operation.                                                       *)
EXTENDS Accounts, TLC

Symmetry == Permutations(Tabs) \cup Permutations(Askers) \cup Permutations(Resetters)
=============================================================================
