--------------------------- MODULE MCStage2Leases ---------------------------
(* Instances of Stage2Leases. *)
EXTENDS Stage2Leases, TLC

CONSTANTS b1, c1, c2

Symmetry == Permutations({c1, c2})
=============================================================================
