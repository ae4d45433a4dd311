------------------------------ MODULE MCArray -------------------------------
(* Growth is from 2 to 4 cells; an array asked for with 3 has 6.            *)
EXTENDS MclArray

CONSTANTS d1, d2

MCData == {d1, d2}
MCInitSizes == {0, 3}
Symmetry == Permutations(MCData)
=============================================================================
