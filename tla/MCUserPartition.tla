--------------------------- MODULE MCUserPartition ---------------------------
(* Instances of UserPartition for TLC.                                     *)
EXTENDS UserPartition, TLC

CONSTANTS u1, u2, u3, k1, k2

Symmetry == Permutations({u1, u2, u3}) \cup Permutations({k1, k2})
=============================================================================
