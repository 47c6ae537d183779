---------------------------- MODULE MCFileQueue -----------------------------
(* Instances of FileQueue for TLC.                                         *)
EXTENDS FileQueue, TLC

CONSTANTS k1, k2, t1, t2, d1, d2

Symmetry == Permutations({k1, k2}) \cup Permutations({t1, t2})
            \cup Permutations({d1, d2})
=============================================================================
