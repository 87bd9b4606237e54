---------------------------- MODULE MCInterviews ----------------------------
(* Instances of Interviews for TLC.                                        *)
EXTENDS Interviews, TLC

RequestSymmetry ==
  Permutations(Requests) \cup Permutations(Workers) \cup Permutations(Sessions)
=============================================================================
