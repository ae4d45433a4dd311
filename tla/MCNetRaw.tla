------------------------------ MODULE MCNetRaw ------------------------------
(* A head and a content of two bytes each.                                  *)
EXTENDS MclNetRaw

MCBuffers == <<<<"h1", "h2">>, <<"c1", "c2">>>>
=============================================================================
