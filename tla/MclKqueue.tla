----------------------------- MODULE MclKqueue ------------------------------
(***************************************************************************)
(* The event loop of net/mcl_event.c on its kqueue backend,                *)
(* net/mcl_kqueue.c.  An event is registered twice: with the kernel, as a  *)
(* knote per socket and filter that holds a pointer to the event, and in   *)
(* one of two hash tables from socket to event.  A dispatch round works on *)
(* a batch of kevents, copies of those pointers.  Client code runs in main *)
(* and in every callback; the calls in progress are the stack.             *)
(*                                                                         *)
(* A NULL callback has the effect of one that returns at once, so every    *)
(* event has all its callbacks; which one of them handle_events calls, and *)
(* with what type, is left out.                                            *)
(***************************************************************************)
EXTENDS HashTable, EventTypes

CONSTANTS
  Sock,       (* the values of sockfd clients pass; -1 is a failed socket() *)
  Event,      (* the heap blocks that hold a mcl_event                      *)
  Types,      (* the ev_type values clients use, as sets of bits            *)
  MaxEvents,  (* MAX_EVENT_COUNT, the room in a batch (5000)                *)
  Contracts   (* which of the contracts below the clients keep              *)

ASSUME KqAssumption ==
  /\ Sock \subseteq Int
  /\ IsFiniteSet(Event)
  /\ Types \subseteq SUBSET (EXP \cup PERSIST)
  /\ MaxEvents \in Nat \ {0}
  /\ Contracts \subseteq {"Vacant", "Unbatched"}

Fd == {s \in Sock : s >= 0}
Idle == [state |-> "client"]
Held(s, type) == [state |-> "held", fd |-> s, type |-> type]

(* add_event and del_event compare the whole type, so READ|PERSIST goes to *)
(* the table of the writers; its filter goes by the bit.                   *)
Table(type) == IF type = READ THEN "rd" ELSE "wr"
Filter(type) == IF Has(type, READ) THEN "read" ELSE "write"

VARIABLES
  ht,        (* per direction, the hash table from socket to event          *)
  knotes,    (* what the kernel watches                                     *)
  term_flag,
  evs,       (* the events: the client's, held, being deleted, or lost      *)
  pc,        (* where mcl_event_loop is: "main" is outside of it            *)
  batch,     (* the kevents of this round still to be handled               *)
  stack      (* the callbacks in progress, innermost first; "del" is the    *)
             (* cleanup callback that kq_del calls, "free" the second one,  *)
             (* of event_ht_free                                            *)

vars == <<ht, knotes, term_flag, evs, pc, batch, stack>>

Knote(e, s, type) == [fd |-> s, filter |-> Filter(type), ev |-> e]
Knotes == [fd : Fd, filter : {"read", "write"}, ev : Event]

TypeOK ==
  /\ ht \in [{"rd", "wr"} -> [Buckets -> Seq([key : Fd, val : Event])]]
  /\ knotes \subseteq Knotes
  /\ term_flag \in BOOLEAN
  /\ evs \in [Event -> {Idle} \cup
               [state : {"held", "dying", "lost"}, fd : Fd, type : Types]]
  /\ pc \in {"main", "top", "wait", "handle"}
  /\ batch \in Seq(Knotes) /\ Len(batch) <= MaxEvents
  /\ stack \in Seq([op : {"call", "del", "free"}, ev : Event])

Init ==
  /\ ht = [x \in {"rd", "wr"} |-> EmptyTable]
  /\ knotes = {}
  /\ term_flag = FALSE
  /\ evs = [e \in Event |-> Idle]
  /\ pc = "main"
  /\ batch = <<>> /\ stack = <<>>

ClientRuns == pc = "main" \/ stack # <<>>
Calling == {stack[i].ev : i \in {j \in DOMAIN stack : stack[j].op = "call"}}

-----------------------------------------------------------------------------
(***************************************************************************)
(* What clients must know to be safe, and no header tells them.            *)
(***************************************************************************)

(* One event per socket and filter, and one per socket and table: the      *)
(* kernel would replace the knote, the table would refuse the event.       *)
Vacant(s, type) ==
  /\ \A n \in knotes : ~(n.fd = s /\ n.filter = Filter(type))
  /\ ~HasKey(ht[Table(type)], s)

(* A callback deletes no event that the batch still points to.             *)
Unbatched(e) == \A i \in DOMAIN batch : batch[i].ev # e

-----------------------------------------------------------------------------
(***************************************************************************)
(* Calls of the client, in main or in the innermost callback.              *)
(***************************************************************************)
Watch(e, s, type) ==
  knotes' = {n \in knotes : ~(n.fd = s /\ n.filter = Filter(type))}
              \cup {Knote(e, s, type)}

(* Broken: the knote stays.                                                *)
UnwatchNot(s, type) == knotes' = knotes

Unwatch(s, type) ==
  knotes' = {n \in knotes : ~(n.fd = s /\ n.filter = Filter(type))}

Inserted(t, e, s) ==
  IF Available(s) /\ ~HasKey(t, s) /\ HasRoom(t, s)
  THEN WithPair(t, [key |-> s, val |-> e]) ELSE t

(* Broken: the return value of kevent is not looked at.                    *)
EventAddUnchecked(e, s, type) ==
  /\ ClientRuns /\ evs[e] = Idle
  /\ "Vacant" \in Contracts => Vacant(s, type)
  /\ Watch(e, s, type)
  /\ ht' = [ht EXCEPT ![Table(type)] = Inserted(@, e, s)]
  /\ evs' = [evs EXCEPT ![e] = Held(s, type)]
  /\ UNCHANGED <<term_flag, pc, batch, stack>>

(* mcl_event_set and mcl_event_add, which succeeds if the kernel takes the *)
(* socket, whatever the table does.                                        *)
EventAdd(e, s, type) ==
  /\ ClientRuns /\ evs[e] = Idle
  /\ "Vacant" \in Contracts => Vacant(s, type)
  /\ s \in Fd
  /\ Watch(e, s, type)
  /\ ht' = [ht EXCEPT ![Table(type)] = Inserted(@, e, s)]
  /\ evs' = [evs EXCEPT ![e] = Held(s, type)]
  /\ UNCHANGED <<term_flag, pc, batch, stack>>

(* kevent fails: the socket is closed or was never opened.                 *)
EventAddRefused ==
  /\ ClientRuns
  /\ UNCHANGED vars

(* kq_del up to its first cleanup callback.                                *)
Deleting(e, rest) ==
  /\ Unwatch(evs[e].fd, evs[e].type)
  /\ evs' = [evs EXCEPT ![e].state = "dying"]
  /\ stack' = <<[op |-> "del", ev |-> e]>> \o rest

(* mcl_event_del with the socket and the type of an event: not of the one  *)
(* whose callback runs, whose type handle_events reads afterwards.         *)
EventDel(e) ==
  /\ ClientRuns /\ evs[e].state = "held"
  /\ e \notin Calling
  /\ "Unbatched" \in Contracts => Unbatched(e)
  /\ Deleting(e, stack)
  /\ UNCHANGED <<ht, term_flag, pc, batch>>

(* The client closes a socket; the kernel drops its knotes.                *)
Close(s) ==
  /\ ClientRuns
  /\ knotes' = {n \in knotes : n.fd # s}
  /\ UNCHANGED <<ht, term_flag, evs, pc, batch, stack>>

LoopExit ==
  /\ ClientRuns
  /\ term_flag' = TRUE
  /\ UNCHANGED <<ht, knotes, evs, pc, batch, stack>>

EventLoop ==
  /\ pc = "main" /\ stack = <<>>
  /\ pc' = "top"
  /\ UNCHANGED <<ht, knotes, term_flag, evs, batch, stack>>

(* mcl_evbase_destroy: kq_cleanup gives every event of the tables to its   *)
(* cleanup callback, once, and frees it; it does not close the old queue,  *)
(* which nobody waits on any more.  Cleanup callbacks make no calls on a   *)
(* base that is being destroyed.  Then mcl_evbase_new.                     *)
DestroyAndNew ==
  /\ pc = "main" /\ stack = <<>>
  /\ ht' = [x \in {"rd", "wr"} |-> EmptyTable]
  /\ knotes' = {}
  /\ term_flag' = FALSE
  /\ evs' = [e \in Event |->
               IF \E x \in {"rd", "wr"} : \E p \in Entries(ht[x]) : p.val = e
               THEN Idle
               ELSE IF evs[e] = Idle THEN Idle ELSE [evs[e] EXCEPT !.state = "lost"]]
  /\ UNCHANGED <<pc, batch, stack>>

-----------------------------------------------------------------------------
(***************************************************************************)
(* kq_dispatch and handle_events.                                          *)
(***************************************************************************)
LoopReturns ==
  /\ pc = "top" /\ term_flag
  /\ pc' = "main"
  /\ UNCHANGED <<ht, knotes, term_flag, evs, batch, stack>>

(* Broken: no test of the flag before the next wait.                       *)
WaitAnyway ==
  /\ pc = "top"
  /\ pc' = "wait"
  /\ UNCHANGED <<ht, knotes, term_flag, evs, batch, stack>>

Wait ==
  /\ pc = "top" /\ ~term_flag
  /\ pc' = "wait"
  /\ UNCHANGED <<ht, knotes, term_flag, evs, batch, stack>>

(* kevent reports some of the knotes; none when the time is up.            *)
KeventReturns(ready) ==
  /\ pc = "wait"
  /\ pc' = "handle" /\ batch' = ready
  /\ UNCHANGED <<ht, knotes, term_flag, evs, stack>>

KeventFails ==
  /\ pc = "wait"
  /\ pc' = "main"
  /\ UNCHANGED <<ht, knotes, term_flag, evs, batch, stack>>

(* Broken: the index of the batch is not moved on.                         *)
SameBatch == batch

Rest == Tail(batch)

Dispatch ==
  /\ pc = "handle" /\ stack = <<>> /\ batch # <<>>
  /\ stack' = <<[op |-> "call", ev |-> Head(batch).ev]>>
  /\ batch' = Rest
  /\ UNCHANGED <<ht, knotes, term_flag, evs, pc>>

EndBatch ==
  /\ pc = "handle" /\ stack = <<>> /\ batch = <<>>
  /\ pc' = "top"
  /\ UNCHANGED <<ht, knotes, term_flag, evs, batch, stack>>

(* Broken: picks the table by the READ bit, as the filter is.              *)
TableByBit(e) == IF Has(evs[e].type, READ) THEN "rd" ELSE "wr"

TableOf(e) == Table(evs[e].type)

(* What the code does with an event that was freed under it is undefined:  *)
(* there are no such steps.                                                *)
Top(op) == stack # <<>> /\ Head(stack).op = op /\ evs[Head(stack).ev] # Idle

(* A one-shot event is deleted after its callback.                         *)
CallbackReturns ==
  /\ Top("call")
  /\ LET e == Head(stack).ev
     IN  IF Has(evs[e].type, PERSIST)
           THEN stack' = Tail(stack) /\ UNCHANGED <<knotes, evs>>
           ELSE Deleting(e, Tail(stack))
  /\ UNCHANGED <<ht, term_flag, pc, batch>>

(* Broken: kq_del frees the event that event_ht_free is going to free.     *)
DelReturnsFrees ==
  /\ Top("del")
  /\ LET e == Head(stack).ev
         x == TableOf(e)
     IN  /\ HasKey(ht[x], evs[e].fd)
         /\ ht' = [ht EXCEPT ![x] = Without(@, evs[e].fd)]
         /\ evs' = [evs EXCEPT ![e] = Idle]
         /\ stack' = <<[op |-> "free", ev |-> e]>> \o Tail(stack)
  /\ UNCHANGED <<knotes, term_flag, pc, batch>>

(* kq_del goes on: del_event unlinks whatever event the table has for the  *)
(* socket and gives that one to event_ht_free.  The deleted event itself,  *)
(* if it is another, was in the table never and is freed by nobody.        *)
DelReturns ==
  /\ Top("del")
  /\ LET e == Head(stack).ev
         x == TableOf(e)
         found == HasKey(ht[x], evs[e].fd)
         o == Lookup(ht[x], evs[e].fd).val
     IN  /\ ht' = IF found THEN [ht EXCEPT ![x] = Without(@, evs[e].fd)] ELSE ht
         /\ evs' = [v \in Event |->
                     IF found /\ v = o THEN [evs[v] EXCEPT !.state = "dying"]
                     ELSE IF v = e THEN [evs[v] EXCEPT !.state = "lost"]
                     ELSE evs[v]]
         /\ stack' = IF found THEN <<[op |-> "free", ev |-> o]>> \o Tail(stack)
                              ELSE Tail(stack)
  /\ UNCHANGED <<knotes, term_flag, pc, batch>>

(* event_ht_free, after its cleanup callback.                              *)
FreeReturns ==
  /\ Top("free")
  /\ stack' = Tail(stack)
  /\ evs' = [evs EXCEPT ![Head(stack).ev] = Idle]
  /\ UNCHANGED <<ht, knotes, term_flag, pc, batch>>

ClientCalls ==
  \/ \E e \in Event :
       \/ \E s \in Sock, type \in Types : EventAdd(e, s, type)
       \/ EventDel(e)
  \/ EventAddRefused
  \/ \E s \in Fd : Close(s)
  \/ LoopExit \/ EventLoop \/ DestroyAndNew

(* A batch reports a knote once.                                           *)
Kevent ==
  \/ \E rs \in SUBSET knotes : \E ready \in SetToSeqs(rs) :
       Cardinality(rs) <= MaxEvents /\ KeventReturns(ready)
  \/ KeventFails

LoopSteps == LoopReturns \/ Wait \/ Dispatch \/ EndBatch
Returns == CallbackReturns \/ DelReturns \/ FreeReturns

Next == ClientCalls \/ Kevent \/ LoopSteps \/ Returns

(* As for the select backend: the loop runs as long as it can, a callback  *)
(* that has the processor again and again returns, kevent may block.       *)
Fairness ==
  /\ WF_vars(LoopSteps)
  /\ \A d \in 1 .. Cardinality(Event) + 1 :
       SF_vars(Returns /\ Len(stack) = d)

Spec == Init /\ [][Next]_vars /\ Fairness

-----------------------------------------------------------------------------
(***************************************************************************)
(* Properties.                                                             *)
(***************************************************************************)
InFrame(e, op) == \E i \in DOMAIN stack : stack[i] = [op |-> op, ev |-> e]

(* kq_add and kq_del, from any depth of callbacks: the tables hold exactly *)
(* the events that were added and not deleted, and those whose first       *)
(* cleanup callback runs, each under its socket in the table of its type.  *)
TablesHoldEvents ==
  \A x \in {"rd", "wr"}, s \in Fd, e \in Event :
    (\E p \in Entries(ht[x]) : p.key = s /\ p.val = e)
      <=> /\ evs[e].state = "held" \/ InFrame(e, "del")
          /\ evs[e].fd = s /\ Table(evs[e].type) = x

(* The kernel keeps no pointer to a block that the backend has freed or is *)
(* freeing, and watches an event for the filter of its type.               *)
KnotesBacked ==
  \A n \in knotes :
    /\ evs[n.ev].state = "held"
    /\ n.fd = evs[n.ev].fd /\ n.filter = Filter(evs[n.ev].type)

(* However deletions nest, the event whose callback runs is still there    *)
(* when handle_events reads its type (mcl_kqueue.c:198), and an event is   *)
(* in one deletion only: the two cleanup calls and the free come in turn.  *)
FramesSound ==
  /\ \A i \in DOMAIN stack :
       evs[stack[i].ev].state = IF stack[i].op = "call" THEN "held" ELSE "dying"
  /\ \A i, j \in DOMAIN stack : stack[i].ev = stack[j].ev => i = j
  /\ \A e \in Event :
       evs[e].state = "dying" => InFrame(e, "del") \/ InFrame(e, "free")

(* handle_events: what is left of the batch points to live events, though  *)
(* one-shot events are freed and added again, in the same blocks, while    *)
(* the batch is worked off; and no event is in it twice.                   *)
BatchLive ==
  /\ \A i \in DOMAIN batch :
       LET e == batch[i].ev
       IN  evs[e] = Held(batch[i].fd, evs[e].type) /\ e \notin Calling
  /\ \A i, j \in DOMAIN batch : batch[i].ev = batch[j].ev => i = j

(* The event base as EventBase sees it.                                    *)
Mode == IF pc \in {"main", "wait"} THEN pc ELSE "round"

Base == INSTANCE EventBase
  WITH state <- [e \in Event |-> evs[e].state], running <- Calling,
       loop <- Mode, exit <- term_flag

(* mcl_evops: seen from clients that keep the contracts the kqueue backend *)
(* is an event base like the select backend: it calls back events that it  *)
(* keeps, one after the other, frees an event once, when its deletion is   *)
(* over, and does not wait after an exit.                                  *)
ImplementsBase == Base!Spec

(* Once mcl_event_loopexit was called the loop works off its batch and     *)
(* returns to its caller.                                                  *)
ExitEndsLoop == term_flag ~> (~term_flag \/ pc = "main")

(* mcl_event.h:103 "The event MUST allocated on Heap, cause event          *)
(* structure will be kept and used by backend": the loop calls back events *)
(* that the backend keeps, not such as it has freed.                       *)
CalledIsKept ==
  [][Dispatch => evs[Head(batch).ev].state = "held"]_vars
=============================================================================
