----------------------------- MODULE EventBase ------------------------------
(***************************************************************************)
(* What net/mcl_event.h promises of an event base whatever its backend: an *)
(* event that was added is kept until it is deleted; only kept events are  *)
(* called back, one at a time, and none while the cleanup callback of      *)
(* another is still to come back; a deleted event is freed once; and after *)
(* mcl_event_loopexit the loop does not wait again.                        *)
(***************************************************************************)
CONSTANT Event

VARIABLES
  state,     (* per event: the client's, held by the base, or being deleted *)
  running,   (* the event whose callback the loop is in, as a set           *)
  loop,      (* the loop is off, in a round of callbacks, or waiting        *)
  exit       (* mcl_event_loopexit was called                               *)

vars == <<state, running, loop, exit>>

Init ==
  /\ state = [e \in Event |-> "client"]
  /\ running = {}
  /\ loop = "main"
  /\ exit = FALSE

Dying == {e \in Event : state[e] = "dying"}
Quiet == running = {} /\ Dying = {}

(* Client code: main, and every callback.                                  *)
ClientRuns == loop = "main" \/ ~Quiet

Moves(e, from, to) == state[e] = from /\ state' = [state EXCEPT ![e] = to]

Add(e) ==
  /\ ClientRuns
  /\ Moves(e, "client", "held")
  /\ UNCHANGED <<running, loop, exit>>

Delete(e) ==
  /\ ClientRuns /\ e \notin running
  /\ Moves(e, "held", "dying")
  /\ UNCHANGED <<running, loop, exit>>

(* The cleanup callback is back and the block of the event is free.        *)
Freed(e) ==
  /\ Moves(e, "dying", "client")
  /\ UNCHANGED <<running, loop, exit>>

LoopExit ==
  /\ ClientRuns
  /\ exit' = TRUE
  /\ UNCHANGED <<state, running, loop>>

Start ==
  /\ Quiet /\ loop = "main" /\ loop' = "round"
  /\ UNCHANGED <<state, running, exit>>

Wait ==
  /\ Quiet /\ ~exit
  /\ loop = "round" /\ loop' = "wait"
  /\ UNCHANGED <<state, running, exit>>

Woken ==
  /\ loop = "wait" /\ loop' = "round"
  /\ UNCHANGED <<state, running, exit>>

(* The flag ends the loop between rounds, an error of the wait at once.    *)
Return ==
  /\ Quiet
  /\ loop = "wait" \/ (loop = "round" /\ exit)
  /\ loop' = "main"
  /\ UNCHANGED <<state, running, exit>>

Call(e) ==
  /\ Quiet /\ loop = "round"
  /\ state[e] = "held"
  /\ running' = {e}
  /\ UNCHANGED <<state, loop, exit>>

(* A one-shot event is deleted when its callback is back.                  *)
CallReturns(e) ==
  /\ running = {e} /\ running' = {}
  /\ \/ UNCHANGED state
     \/ Moves(e, "held", "dying")
  /\ UNCHANGED <<loop, exit>>

(* mcl_evbase_destroy, and mcl_evbase_new.                                 *)
Renew ==
  /\ Quiet /\ loop = "main"
  /\ state' = [e \in Event |-> "client"]
  /\ exit' = FALSE
  /\ UNCHANGED <<running, loop>>

Next ==
  \/ \E e \in Event : Add(e) \/ Delete(e) \/ Freed(e) \/ Call(e) \/ CallReturns(e)
  \/ LoopExit \/ Start \/ Wait \/ Woken \/ Return \/ Renew

Spec == Init /\ [][Next]_vars
=============================================================================
