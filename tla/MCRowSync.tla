----------------------------- MODULE MCRowSync ------------------------------
(* Instances of RowSync for TLC.                                           *)
EXTENDS RowSync, TLC

CONSTANTS a, b

OneWriter == {<<"task", a>>}

OneEach == {<<"task", a>>, <<"task", b>>}

Symmetry == Permutations({a, b})
=============================================================================
