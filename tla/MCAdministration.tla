-------------------------- MODULE MCAdministration --------------------------
(* Instances of Administration for TLC.                                    *)
EXTENDS Administration, TLC

DocumentSymmetry == Permutations(Contents) \cup Permutations(Items)
=============================================================================
