--------------------------- MODULE MCSharedAppIds ---------------------------
(* Bounded instances of SharedAppIds for TLC. *)
EXTENDS SharedAppIds, TLC

Symmetry ==
  Permutations(Workers) \cup Permutations(Instances) \cup Permutations(Apps)
=============================================================================
