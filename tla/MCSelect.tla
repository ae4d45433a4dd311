------------------------------ MODULE MCSelect ------------------------------
(* Two buckets: sockets 0 and 2 chained in the first, 1 in the second.      *)
EXTENDS MclSelect

MCSock == {-1, 0, 1, 2}
MCTypes == {READ, WRITE \cup PERSIST}
=============================================================================
