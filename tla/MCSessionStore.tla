--------------------------- MODULE MCSessionStore ---------------------------
(* Instances of SessionStore for TLC.                                      *)
EXTENDS SessionStore, TLC

CONSTANTS c1, c2, c3, h1, h2, w1, u1, u2

(* c1 may be the one that is forced.                                       *)
Symmetry == Permutations({c2, c3}) \cup Permutations({h1, h2})
            \cup Permutations({u1, u2})
=============================================================================
