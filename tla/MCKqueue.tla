------------------------------ MODULE MCKqueue ------------------------------
(* Sockets 0 and 1 share their bucket in each table.                        *)
EXTENDS MclKqueue

MCSock == {-1, 0, 1}
(* The contracts kept in all runs but that of what breaks without them.    *)
MCContracts == {"Vacant", "Unbatched"}

MCTypes == {READ, READ \cup PERSIST, WRITE}
=============================================================================
