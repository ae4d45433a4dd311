----------------------------- MODULE MclSelect -----------------------------
(***************************************************************************)
(* The event loop of net/mcl_event.c on its select backend,                *)
(* net/mcl_select.c: the three event sets (a hash table from socket to     *)
(* event, and an fd_set), the registration calls, a dispatch round and the *)
(* destruction of the base.  Client code runs in main and inside every     *)
(* callback; a callback may add events, delete events (whose cleanup       *)
(* callback runs inside the call) and ask the loop to stop.  The calls in  *)
(* progress are the stack.                                                 *)
(*                                                                         *)
(* A NULL callback has the effect of one that returns at once, so every    *)
(* event has all its callbacks.                                            *)
(***************************************************************************)
EXTENDS HashTable, EventTypes

CONSTANTS
  Sock,      (* the values of sockfd clients pass; -1 is a failed socket() *)
  Event,     (* the heap blocks that hold a mcl_event                      *)
  Types      (* the ev_type values clients use, as sets of bits            *)

ASSUME LoopAssumption ==
  /\ Sock \subseteq Int
  /\ Types \subseteq SUBSET (EXP \cup PERSIST)

Sets == {"in", "out", "exp"}
Fd == {s \in Sock : s >= 0}

(* get_evset.  A type with neither the READ nor the WRITE bit has no set,  *)
(* so neither add nor del ever gets to the exception set.                  *)
Routed(type) == Has(type, READ) \/ Has(type, WRITE)
SetOf(type) == IF Has(type, READ) THEN "in" ELSE "out"

Idle == [state |-> "client"]

VARIABLES
  ht,        (* per set, the hash table from socket to event               *)
  fds,       (* per set, the fd_set                                        *)
  n_maxfdn,
  term_flag,
  evs,       (* the events: the client's, held by a table, or in their     *)
             (* cleanup callback                                           *)
  pc,        (* where mcl_event_loop is: "main" is outside of it           *)
  tval,      (* what select will wait for: NULL, all of it, or a rest      *)
  phase, it, (* handle_events: the set it works on and its iterator        *)
  stack,     (* the callbacks in progress, innermost first                 *)
  pending,   (* history: reported by select, not yet called back           *)
  quiet      (* history: registered when select ran and not reported       *)

loop == <<pc, tval, phase, it>>
base == <<n_maxfdn, term_flag>>
round == <<pending, quiet>>
vars == <<ht, fds, base, evs, loop, stack, round>>

None == [x \in Sets |-> {}]
Held(s, type) == [state |-> "held", fd |-> s, type |-> type]

TypeOK ==
  /\ ht \in [Sets -> [Buckets -> Seq([key : Fd, val : Event])]]
  /\ fds \in [Sets -> SUBSET Fd]
  /\ n_maxfdn \in {0} \cup Fd
  /\ term_flag \in BOOLEAN
  /\ evs \in [Event -> {Idle} \cup [state : {"held", "dying"}, fd : Fd, type : Types]]
  /\ pc \in {"main", "top", "select", "handle"}
  /\ tval \in {"NULL", "all", "rest"}
  /\ phase \in Sets
  /\ it \in {NoIter} \cup [cursor : Buckets, pair : [key : Fd, val : Event]]
  /\ stack \in Seq([op : {"call", "del", "erase"}, ev : Event])
  /\ pending \in [Sets -> SUBSET Fd]
  /\ quiet \in [Sets -> SUBSET Fd]

Init ==
  /\ ht = [x \in Sets |-> EmptyTable]
  /\ fds = None
  /\ n_maxfdn = 0 /\ term_flag = FALSE
  /\ evs = [e \in Event |-> Idle]
  /\ pc = "main" /\ tval = "NULL"
  /\ phase = "in" /\ it = NoIter
  /\ stack = <<>>
  /\ pending = None /\ quiet = None

-----------------------------------------------------------------------------
(***************************************************************************)
(* Calls of the client, in main or in the innermost callback.              *)
(***************************************************************************)
ClientRuns == pc = "main" \/ stack # <<>>

(* An event must not be deleted under the iterator of handle_events, which *)
(* goes on to read the event and its table entry when the callback is      *)
(* back: callbacks delete any event but that one.                          *)
UnderIterator(x, s) ==
  /\ pc = "handle" /\ phase = x
  /\ ~Ended(it) => it.pair.key = s
  /\ ~Ended(it)

CanAdd(s, type) ==
  /\ Routed(type) /\ s >= 0
  /\ LET t == ht[SetOf(type)]
     IN  Available(s) /\ ~HasKey(t, s) /\ HasRoom(t, s)

(* Broken: the last socket instead of the highest; the nfds argument.      *)
LastFdn(s) == s
NfdsFdn(s) == IF n_maxfdn < s THEN s + 1 ELSE n_maxfdn

MaxFdn(s) == IF n_maxfdn < s THEN s ELSE n_maxfdn

(* mcl_event_set and mcl_event_add.  The socket joins the fd_set at once,  *)
(* also when that holds the answer of a select in progress.                *)
EventAdd(e, s, type) ==
  /\ ClientRuns /\ evs[e] = Idle
  /\ CanAdd(s, type)
  /\ LET x == SetOf(type)
     IN  /\ ht' = [ht EXCEPT ![x] = WithPair(@, [key |-> s, val |-> e])]
         /\ fds' = [fds EXCEPT ![x] = @ \cup {s}]
  /\ n_maxfdn' = MaxFdn(s)
  /\ evs' = [evs EXCEPT ![e] = Held(s, type)]
  /\ UNCHANGED <<term_flag, loop, stack, round>>

EventAddRefused(s, type) ==
  /\ ClientRuns /\ Event # {}
  /\ ~CanAdd(s, type)
  /\ UNCHANGED vars

(* mcl_event_del: a socket whose bit is off is taken for not registered.   *)
CanDel(s, type) == Routed(type) /\ s >= 0 /\ s \in fds[SetOf(type)]

EventDel(s, type) ==
  LET x == SetOf(type)
      e == Lookup(ht[x], s).val
  IN  /\ ClientRuns
      /\ CanDel(s, type) /\ ~UnderIterator(x, s)
      /\ fds' = [fds EXCEPT ![x] = @ \ {s}]
      /\ IF HasKey(ht[x], s)
           THEN /\ ht' = [ht EXCEPT ![x] = Without(@, s)]
                /\ evs' = [evs EXCEPT ![e].state = "dying"]
                /\ stack' = <<[op |-> "del", ev |-> e]>> \o stack
                /\ pending' = [pending EXCEPT ![x] = @ \ {s}]
           ELSE UNCHANGED <<ht, evs, stack, pending>>
      /\ UNCHANGED <<base, loop, quiet>>

EventDelRefused(s, type) ==
  /\ ClientRuns
  /\ ~CanDel(s, type)
  /\ UNCHANGED vars

LoopExit ==
  /\ ClientRuns
  /\ term_flag' = TRUE
  /\ UNCHANGED <<ht, fds, n_maxfdn, evs, loop, stack, round>>

EventLoop(t) ==
  /\ pc = "main" /\ stack = <<>>
  /\ pc' = "top" /\ tval' = t
  /\ UNCHANGED <<ht, fds, base, evs, phase, it, stack, round>>

(* mcl_evbase_destroy: select_cleanup gives every event to its cleanup     *)
(* callback and frees it; then mcl_evbase_new.  Cleanup callbacks make no  *)
(* calls on a base that is being destroyed.                                *)
DestroyAndNew ==
  /\ pc = "main" /\ stack = <<>>
  /\ ht' = [x \in Sets |-> EmptyTable]
  /\ fds' = None
  /\ n_maxfdn' = 0 /\ term_flag' = FALSE
  /\ evs' = [e \in Event |->
               IF \E x \in Sets : \E p \in Entries(ht[x]) : p.val = e
               THEN Idle ELSE evs[e]]
  /\ UNCHANGED <<loop, stack, round>>

-----------------------------------------------------------------------------
(***************************************************************************)
(* select_dispatch.                                                        *)
(***************************************************************************)
LoopReturns ==
  /\ pc = "top" /\ term_flag
  /\ pc' = "main" /\ tval' = "NULL"
  /\ UNCHANGED <<ht, fds, base, evs, phase, it, stack, round>>

(* Broken: no test of the flag before the next wait.                       *)
InitFdsAnyway ==
  /\ pc = "top"
  /\ fds' = [x \in Sets |-> Keys(ht[x])]
  /\ pc' = "select"
  /\ UNCHANGED <<ht, base, evs, tval, phase, it, stack, round>>

InitFds ==
  /\ pc = "top" /\ ~term_flag
  /\ fds' = [x \in Sets |-> Keys(ht[x])]
  /\ pc' = "select"
  /\ UNCHANGED <<ht, base, evs, tval, phase, it, stack, round>>

(* Linux leaves in the timeout what was not waited for.                    *)
Waited == IF tval = "NULL" THEN "NULL" ELSE "rest"

(* select reports some of the sockets up to n_maxfdn, and leaves only them *)
(* in the sets.                                                            *)
SelectReady(ready) ==
  /\ pc = "select"
  /\ ready # None
  /\ \A x \in Sets : ready[x] \subseteq fds[x] \cap 0 .. n_maxfdn
  /\ fds' = ready
  /\ tval' = Waited
  /\ pc' = "handle" /\ phase' = "in" /\ it' = IterHead(ht["in"])
  /\ pending' = ready
  /\ quiet' = [x \in Sets |-> Keys(ht[x]) \ ready[x]]
  /\ UNCHANGED <<ht, base, evs, stack>>

SelectTimeout ==
  /\ pc = "select" /\ tval # "NULL"
  /\ fds' = None
  /\ tval' = Waited
  /\ pc' = "top"
  /\ UNCHANGED <<ht, base, evs, phase, it, stack, round>>

(* A signal, or a registered socket that the client has closed.            *)
SelectError ==
  /\ pc = "select"
  /\ pc' = "main" /\ tval' = "NULL"
  /\ UNCHANGED <<ht, fds, base, evs, phase, it, stack, round>>

(***************************************************************************)
(* handle_events, for the sets in, out and exp in this order.              *)
(***************************************************************************)
Handling == pc = "handle" /\ stack = <<>>
AtEntry == Handling /\ ~Ended(it)
EveryOne == TRUE    (* broken: no FD_ISSET *)
Flagged == it.pair.key \in fds[phase]

PassEntry ==
  /\ AtEntry /\ ~Flagged
  /\ it' = IterNext(ht[phase], it)
  /\ UNCHANGED <<ht, fds, base, evs, pc, tval, phase, stack, round>>

Dispatch ==
  /\ AtEntry /\ Flagged
  /\ stack' = <<[op |-> "call", ev |-> it.pair.val]>>
  /\ pending' = [pending EXCEPT ![phase] = @ \ {it.pair.key}]
  /\ UNCHANGED <<ht, fds, base, evs, loop, quiet>>

Kept(e) == Has(evs[e].type, PERSIST) /\ phase # "exp"

(* Broken: calls the cleanup callback before it unlinks the pair.          *)
CallbackReturnsFreeFirst ==
  /\ stack # <<>> /\ Head(stack).op = "call"
  /\ LET e == Head(stack).ev
     IN  IF Kept(e)
           THEN stack' = Tail(stack) /\ UNCHANGED evs
           ELSE /\ evs' = [evs EXCEPT ![e].state = "dying"]
                /\ stack' = <<[op |-> "erase", ev |-> e]>> \o Tail(stack)
  /\ it' = IterNext(ht[phase], it)
  /\ UNCHANGED <<ht, fds, base, pc, tval, phase, round>>

(* Broken: leaves the iterator on the pair it unlinks.                     *)
CallbackReturnsInPlace ==
  /\ stack # <<>> /\ Head(stack).op = "call"
  /\ LET e == Head(stack).ev
     IN  IF Kept(e)
           THEN stack' = Tail(stack) /\ UNCHANGED <<ht, evs>>
           ELSE /\ ht' = [ht EXCEPT ![phase] = Without(@, it.pair.key)]
                /\ evs' = [evs EXCEPT ![e].state = "dying"]
                /\ stack' = <<[op |-> "erase", ev |-> e]>> \o Tail(stack)
  /\ UNCHANGED <<fds, base, pc, tval, phase, it, round>>

(* A one-shot event leaves its table, and its cleanup callback is called   *)
(* before its bit is cleared.                                              *)
CallbackReturns ==
  /\ stack # <<>> /\ Head(stack).op = "call"
  /\ LET e == Head(stack).ev
     IN  IF Kept(e)
           THEN stack' = Tail(stack) /\ UNCHANGED <<ht, evs>>
           ELSE /\ ht' = [ht EXCEPT ![phase] = Without(@, it.pair.key)]
                /\ evs' = [evs EXCEPT ![e].state = "dying"]
                /\ stack' = <<[op |-> "erase", ev |-> e]>> \o Tail(stack)
  /\ it' = IterNext(ht[phase], it)
  /\ UNCHANGED <<fds, base, pc, tval, phase, round>>

(* Broken: the erase in handle_events leaves the bit on.                   *)
CleanupReturnsBitOn ==
  /\ stack # <<>> /\ Head(stack).op \in {"del", "erase"}
  /\ stack' = Tail(stack)
  /\ evs' = [evs EXCEPT ![Head(stack).ev] = Idle]
  /\ UNCHANGED <<ht, fds, base, loop, round>>

(* event_ht_free, after the cleanup callback.                              *)
CleanupReturns ==
  /\ stack # <<>> /\ Head(stack).op \in {"del", "erase"}
  /\ stack' = Tail(stack)
  /\ evs' = [evs EXCEPT ![Head(stack).ev] = Idle]
  /\ fds' = IF Head(stack).op = "erase"
              THEN [fds EXCEPT ![phase] = @ \ {evs[Head(stack).ev].fd}]
              ELSE fds
  /\ UNCHANGED <<ht, base, loop, round>>

(* Broken: handles the sets again instead of going back to select.         *)
EndSetAgain ==
  /\ Handling /\ Ended(it)
  /\ phase' = IF phase = "in" THEN "out" ELSE IF phase = "out" THEN "exp" ELSE "in"
  /\ it' = IterHead(ht[phase'])
  /\ UNCHANGED <<ht, fds, base, evs, pc, tval, stack, round>>

EndSet ==
  /\ Handling /\ Ended(it)
  /\ IF phase = "exp"
       THEN /\ pc' = "top" /\ phase' = "in" /\ it' = NoIter
            /\ pending' = None /\ quiet' = None
       ELSE /\ phase' = IF phase = "in" THEN "out" ELSE "exp"
            /\ it' = IterHead(ht[phase'])
            /\ UNCHANGED <<pc, round>>
  /\ UNCHANGED <<ht, fds, base, evs, tval, stack>>

ClientCalls ==
  \/ \E s \in Sock, type \in Types :
       \/ \E e \in Event : EventAdd(e, s, type)
       \/ EventAddRefused(s, type)
       \/ EventDel(s, type) \/ EventDelRefused(s, type)
  \/ LoopExit
  \/ \E t \in {"NULL", "all"} : EventLoop(t)
  \/ DestroyAndNew

Select ==
  \/ \E ready \in [Sets -> SUBSET Fd] : SelectReady(ready)
  \/ SelectTimeout \/ SelectError

LoopSteps == LoopReturns \/ InitFds \/ PassEntry \/ Dispatch \/ EndSet
Returns == CallbackReturns \/ CleanupReturns

Next == ClientCalls \/ Select \/ LoopSteps \/ Returns

(* The loop runs as long as it can; a callback that has the processor again*)
(* and again returns at last.  select may block for ever.                  *)
Fairness ==
  /\ WF_vars(LoopSteps)
  /\ \A d \in 1 .. Cardinality(Event) + 1 :
       SF_vars(Returns /\ Len(stack) = d)

Spec == Init /\ [][Next]_vars /\ Fairness

-----------------------------------------------------------------------------
(***************************************************************************)
(* Properties.                                                             *)
(***************************************************************************)
Registered(x, s, e) == \E p \in Entries(ht[x]) : p.key = s /\ p.val = e

(* add_event, del_event and the erase in handle_events keep tables and     *)
(* events together: a table holds exactly the events that were added and   *)
(* not yet deleted, each in one table, under its socket.  No event leaks,  *)
(* none is reachable after event_ht_free.                                  *)
TablesHoldEvents ==
  \A x \in Sets, s \in Fd, e \in Event :
    Registered(x, s, e) <=> /\ evs[e].state = "held"
                            /\ evs[e].fd = s /\ SetOf(evs[e].type) = x

(* However deletions nest through cleanup callbacks, the event whose       *)
(* callback runs is still in its table under the iterator, so the accesses *)
(* after the call (mcl_select.c:291-301) are to live memory, and an event  *)
(* is in at most one call of event_ht_free: it is freed once.              *)
FramesSound ==
  /\ \A i \in DOMAIN stack :
       LET f == stack[i]
       IN  IF f.op = "call"
             THEN /\ evs[f.ev].state = "held"
                  /\ ~Ended(it) /\ it.pair.val = f.ev
             ELSE evs[f.ev].state = "dying"
  /\ \A i, j \in DOMAIN stack : stack[i].ev = stack[j].ev => i = j
  /\ \A e \in Event : evs[e].state = "dying" => \E i \in DOMAIN stack : stack[i].ev = e

(* handle_events: the iterator survives whatever a callback adds or        *)
(* deletes; it stands on a linked pair of the set it works on.             *)
IteratorLinked ==
  ~Ended(it) => /\ pc = "handle"
                /\ it.cursor = CalHash(it.pair.key)
                /\ it.pair \in Entries(ht[phase])

(* FD_ISSET is how del_event tells that a socket is registered: a bit is   *)
(* on for registered sockets only, but for the socket being erased.        *)
BitsBacked ==
  \A x \in Sets : \A s \in fds[x] \ Keys(ht[x]) :
    \E i \in DOMAIN stack :
      stack[i].op = "erase" /\ x = phase /\ evs[stack[i].ev].fd = s

(* select looks at sockets up to n_maxfdn only: none registered is above.  *)
MaxFdCovers == \A x \in Sets : \A s \in Keys(ht[x]) : s <= n_maxfdn

(* mcl_event_loopexit from any callback: the loop finishes the round and   *)
(* does not wait in another select.                                        *)
ExitNeverWaits == pc = "select" => ~term_flag

(* The event base as EventBase sees it.                                    *)
Calling == {stack[i].ev : i \in {j \in DOMAIN stack : stack[j].op = "call"}}
Mode == IF pc = "main" THEN "main" ELSE IF pc = "select" THEN "wait" ELSE "round"

Base == INSTANCE EventBase
  WITH state <- [e \in Event |-> evs[e].state], running <- Calling,
       loop <- Mode, exit <- term_flag

(* mcl_evops: seen from its clients the select backend is an event base;   *)
(* it calls back events that it keeps, one after the other, frees an event *)
(* once, when its deletion is over, and does not wait after an exit.       *)
ImplementsBase == Base!Spec

(* When handle_events is through with a set it has called back every event *)
(* that select reported there and that no callback deleted meanwhile,      *)
(* whatever else the callbacks added and deleted.                          *)
RoundServesAll == [][EndSet => pending[phase] = {}]_vars

(* An event that was registered when select ran and was not reported is    *)
(* not called back in that round.                                          *)
QuietNotDispatched ==
  [][Dispatch => it.pair.key \notin quiet[phase]]_vars

(* Once mcl_event_loopexit was called the loop returns to its caller,      *)
(* though callbacks register new events in sets still to be handled.       *)
ExitEndsLoop == term_flag ~> (~term_flag \/ pc = "main")

(* mcl_event.h:37 "The callback when event happens": only events that      *)
(* select reported are called back.                                        *)
DispatchOnlyReported ==
  [][Dispatch => it.pair.key \in pending[phase]]_vars

(* mcl_event.h:106 "Del event from backend. The deletion is according to   *)
(* sockfd value": wherever client code runs, mcl_event_del of a registered *)
(* socket deletes it.                                                      *)
DelHonoured ==
  ClientRuns => \A e \in Event : evs[e].state = "held" => CanDel(evs[e].fd, evs[e].type)

(* mcl_event.h:71 "waits event forever or tval": every select is given the *)
(* whole timeout.                                                          *)
WaitsTval == pc = "select" => tval # "rest"
=============================================================================
