------------------------------- MODULE MCList -------------------------------
(* Three blocks fill the list; d1 and d2 are alike for the client's cmp.    *)
EXTENDS MclList

CONSTANTS d1, d2

MCData == {d1, d2}
MCLike == {<<d1, d1>>, <<d1, d2>>, <<d2, d1>>, <<d2, d2>>}
Symmetry == Permutations(Node)
=============================================================================
