---------------------------- MODULE MCEscapeKeys ----------------------------
(* Instances of EscapeKeys. *)
EXTENDS EscapeKeys, TLC

CONSTANTS p1, p2

Symmetry == Permutations(Procs)
=============================================================================
