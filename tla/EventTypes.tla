----------------------------- MODULE EventTypes -----------------------------
(***************************************************************************)
(* MCL_EVENT_TYPE of net/mcl_event.h, by its bits: EXP is READ|WRITE and   *)
(* ET is READ|PERSIST.                                                     *)
(***************************************************************************)
READ    == {1}
WRITE   == {2}
EXP     == {1, 2}
PERSIST == {4}
Has(type, bits) == type \cap bits # {}
=============================================================================
