----------------------------- MODULE MclNetRaw ------------------------------
(***************************************************************************)
(* mcl_send of net/mcl_net_raw.c, on a connected stream socket.  A client  *)
(* sends one buffer after the other, as test/net_kq/client.c sends a head  *)
(* and a content, and gives up when a call fails.                          *)
(***************************************************************************)
EXTENDS Integers, SequencesExt

CONSTANTS
  Buffers,    (* what the client sends: a sequence of sequences of bytes    *)
  SizeMod,    (* sizes are unsigned: 2^w of size_t                          *)
  MaxStream   (* bound: bytes the kernel takes before the model stops       *)

VARIABLES
  n,        (* the buffer of the call in progress; past the last at the end *)
  to_sent,
  stream,   (* what the kernel took and the peer receives, in order         *)
  failed    (* a call returned 0                                            *)

vars == <<n, to_sent, stream, failed>>

buff == Buffers[n]
bufflen == Len(buff)
Sending == n <= Len(Buffers) /\ ~failed

Init ==
  /\ n = 1 /\ to_sent = Len(Buffers[1])
  /\ stream = <<>>
  /\ failed = FALSE

(* send takes a prefix of what it is given, and it is given the buffer     *)
(* from its start at every turn of the loop.                               *)
SendSome(k) ==
  /\ Sending /\ to_sent > 0
  /\ k \in 1 .. bufflen /\ Len(stream) + k <= MaxStream
  /\ stream' = stream \o SubSeq(buff, 1, k)
  /\ to_sent' = (to_sent - k) % SizeMod
  /\ UNCHANGED <<n, failed>>

SendFails ==
  /\ Sending /\ to_sent > 0
  /\ failed' = TRUE
  /\ UNCHANGED <<n, to_sent, stream>>

(* The call returns, with success, and the client makes the next one.      *)
SendReturns ==
  /\ Sending /\ to_sent = 0
  /\ n' = n + 1
  /\ to_sent' = IF n < Len(Buffers) THEN Len(Buffers[n + 1]) ELSE 0
  /\ UNCHANGED <<stream, failed>>

Next == (\E k \in 1 .. MaxStream : SendSome(k)) \/ SendFails \/ SendReturns

Spec == Init /\ [][Next]_vars

(* mcl_net_raw.h:50 "@return 1 if all buff data sent": when the calls so   *)
(* far have succeeded the peer receives their buffers, whole, in order and *)
(* once.                                                                   *)
SentOnce ==
  to_sent = 0 /\ ~failed /\ n <= Len(Buffers) =>
    stream = FlattenSeq(SubSeq(Buffers, 1, n))
=============================================================================
