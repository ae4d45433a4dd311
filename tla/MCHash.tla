------------------------------- MODULE MCHash -------------------------------
(* Two buckets.  -1 hashes to none; -2, 0 and 2 share one that holds two.  *)
EXTENDS MclHash

MCKey == {-2, -1, 0, 1, 2}
=============================================================================
