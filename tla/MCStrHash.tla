----------------------------- MODULE MCStrHash -----------------------------
(* "a", "c" and "abcdefg" share a bucket that holds two, "a " hashes to    *)
(* the other until it is trimmed.  Seven letters exceed the 28 bits.       *)
EXTENDS MclStrHash

MCText == {<<97>>, <<99>>, <<97, 98, 99, 100, 101, 102, 103>>, <<97, 32>>}

Symmetry == Permutations(Str) \cup Permutations(Val)
=============================================================================
