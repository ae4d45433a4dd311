-------------------------- MODULE MclSelectProofs --------------------------
(***************************************************************************)
(* The select loop keeps its tables, fd_sets, iterator and calls in        *)
(* progress consistent, for every set of sockets and events, every size of *)
(* the tables and every depth of nested callbacks.                         *)
(***************************************************************************)
EXTENDS MclSelect, HashTableTheorems

Pair == [key : Fd, val : Event]
Frame == [op : {"call", "del", "erase"}, ev : Event]

(* The tables are well formed: a lookup by socket finds the one pair.      *)
TablesSound == \A x \in Sets : WellPlaced(ht[x]) /\ NoDuplicate(ht[x])

(* No callback is in progress before or inside select; only a round erases.*)
StackPlaced ==
  /\ pc \in {"top", "select"} => stack = <<>>
  /\ \A i \in DOMAIN stack : stack[i].op = "erase" => pc = "handle"

(* A registered socket that select did not report stays registered, with   *)
(* its bit off, to the end of the round, because del_event does not see it;*)
(* so it is not the one being called back.                                 *)
QuietKept ==
  /\ pc = "handle" => \A x \in Sets : quiet[x] \subseteq Keys(ht[x]) \ fds[x]
  /\ \A i \in DOMAIN stack :
       stack[i].op = "call" => it.pair.key \notin quiet[phase]

Inv ==
  /\ TypeOK
  /\ TablesSound
  /\ TablesHoldEvents
  /\ FramesSound
  /\ IteratorLinked
  /\ BitsBacked
  /\ MaxFdCovers
  /\ StackPlaced
  /\ QuietKept

-----------------------------------------------------------------------------
(* What TypeOK says of one table.                                          *)
LEMMA TableFacts ==
  ASSUME TypeOK, NEW x \in Sets
  PROVE  /\ ht[x] \in Tables(Pair) /\ it \in Iters(Pair)
         /\ Entries(ht[x]) \subseteq Pair
         /\ Keys(ht[x]) \subseteq Fd
<1>1. ht[x] \in Tables(Pair) /\ it \in Iters(Pair)
  BY DEF TypeOK, Tables, Iters, Pair
<1>2. \A h \in Buckets : \A i \in 1 .. Len(ht[x][h]) : ht[x][h][i] \in Pair
  BY <1>1 DEF Tables
<1>3. Entries(ht[x]) \subseteq Pair
  BY <1>1, <1>2, EntryHasPlace
<1> QED
  BY <1>1, <1>3 DEF Keys, Pair

(* A pair of a table is a registered event.                                *)
LEMMA EntryFacts ==
  ASSUME TypeOK, TablesHoldEvents, NEW x \in Sets, NEW p \in Entries(ht[x])
  PROVE  /\ p.key \in Fd /\ p.val \in Event
         /\ evs[p.val].state = "held" /\ evs[p.val].fd = p.key
         /\ SetOf(evs[p.val].type) = x
<1>1. p.key \in Fd /\ p.val \in Event
  BY TableFacts DEF Pair
<1>2. Registered(x, p.key, p.val)
  BY DEF Registered
<1> QED
  BY <1>1, <1>2 DEF TablesHoldEvents

(* The places of the stack after a call and after a return.                *)
LEMMA Pushed ==
  ASSUME NEW F, NEW s \in Seq(F), NEW f \in F
  PROVE  /\ <<f>> \o s \in Seq(F)
         /\ 1 \in DOMAIN (<<f>> \o s) /\ (<<f>> \o s)[1] = f
         /\ \A i \in DOMAIN (<<f>> \o s) :
              i = 1 \/ (i - 1 \in DOMAIN s /\ (<<f>> \o s)[i] = s[i - 1])
         /\ \A i \in DOMAIN s : /\ i + 1 \in DOMAIN (<<f>> \o s)
                                /\ (<<f>> \o s)[i + 1] = s[i]
  OBVIOUS

LEMMA Popped ==
  ASSUME NEW F, NEW s \in Seq(F), s # <<>>
  PROVE  /\ 1 \in DOMAIN s /\ Head(s) = s[1] /\ s[1] \in F
         /\ Tail(s) \in Seq(F)
         /\ \A i \in DOMAIN Tail(s) :
              /\ i + 1 \in DOMAIN s /\ i + 1 # 1
              /\ Tail(s)[i] = s[i + 1]
         /\ \A i \in DOMAIN s :
              i # 1 => i - 1 \in DOMAIN Tail(s) /\ Tail(s)[i - 1] = s[i]
  OBVIOUS

(* A call in progress is about an event that was not given back.           *)
LEMMA FrameFacts ==
  ASSUME TypeOK, FramesSound, NEW i \in DOMAIN stack
  PROVE  /\ stack[i].op \in {"call", "del", "erase"} /\ stack[i].ev \in Event
         /\ evs[stack[i].ev].state = IF stack[i].op = "call" THEN "held" ELSE "dying"
         /\ evs[stack[i].ev] # Idle
<1>1. stack \in Seq(Frame)
  BY DEF TypeOK, Frame
<1>2. stack[i] \in Frame
  BY <1>1
<1>3. evs[stack[i].ev].state = IF stack[i].op = "call" THEN "held" ELSE "dying"
  BY DEF FramesSound
<1> QED
  BY <1>2, <1>3 DEF Frame, Idle

(* Marking an event whose cleanup callback is about to be called.          *)
LEMMA Dying ==
  ASSUME TypeOK, NEW e \in Event, evs[e].state = "held",
         evs' = [evs EXCEPT ![e].state = "dying"]
  PROVE  /\ evs' \in [Event -> {Idle} \cup [state : {"held", "dying"}, fd : Fd, type : Types]]
         /\ evs'[e].state = "dying"
         /\ \A g \in Event : g # e => evs'[g] = evs[g]
         /\ \A g \in Event : evs'[g].fd = evs[g].fd
<1>1. evs[e] \in [state : {"held", "dying"}, fd : Fd, type : Types]
  BY DEF TypeOK, Idle
<1>2. evs'[e] = [evs[e] EXCEPT !.state = "dying"]
  BY DEF TypeOK
<1>3. [evs[e] EXCEPT !.state = "dying"]
        = [state |-> "dying", fd |-> evs[e].fd, type |-> evs[e].type]
  BY <1>1
<1> QED
  BY <1>1, <1>2, <1>3 DEF TypeOK

(* A lookup of a socket finds its event, which is held.                    *)
LEMMA LookedUp ==
  ASSUME Inv, NEW x \in Sets, NEW s, HasKey(ht[x], s)
  PROVE  LET old == Lookup(ht[x], s)
         IN  /\ old \in Entries(ht[x]) /\ old.key = s
             /\ \A p \in Entries(ht[x]) : p.key = s => p = old
             /\ s \in Fd /\ old.val \in Event
             /\ evs[old.val].state = "held"
             /\ evs[old.val].fd = s /\ SetOf(evs[old.val].type) = x
<1> DEFINE old == Lookup(ht[x], s)
<1>1. ht[x] \in Tables(Pair) /\ WellPlaced(ht[x]) /\ NoDuplicate(ht[x])
  BY TableFacts DEF Inv, TablesSound
<1>2. /\ old \in Entries(ht[x]) /\ old.key = s
      /\ \A p \in Entries(ht[x]) : p.key = s => p = old
  BY <1>1, WithoutRemoves
<1> HIDE DEF old
<1>3. /\ s \in Fd /\ old.val \in Event
      /\ evs[old.val].state = "held"
      /\ evs[old.val].fd = s /\ SetOf(evs[old.val].type) = x
  BY <1>2, EntryFacts DEF Inv
<1> QED
  BY <1>2, <1>3 DEF old

(* hash_delete and the erase of handle_events take one event out of its    *)
(* table.                                                                  *)
LEMMA Unlinked ==
  ASSUME Inv, NEW x \in Sets, NEW s, HasKey(ht[x], s),
         NEW old, old = Lookup(ht[x], s),
         ht' = [ht EXCEPT ![x] = Without(@, s)],
         evs'[old.val].state = "dying",
         \A g \in Event : g # old.val => evs'[g] = evs[g],
         n_maxfdn' = n_maxfdn
  PROVE  /\ ht' \in [Sets -> [Buckets -> Seq(Pair)]]
         /\ \A y \in Sets : Entries(ht'[y]) = IF y = x THEN Entries(ht[x]) \ {old}
                                                       ELSE Entries(ht[y])
         /\ \A y \in Sets : Keys(ht'[y]) = IF y = x THEN Keys(ht[x]) \ {s} ELSE Keys(ht[y])
         /\ TablesSound' /\ TablesHoldEvents' /\ MaxFdCovers'
<1> DEFINE rest == Without(ht[x], s)
           e == old.val
<1>1. ht[x] \in Tables(Pair) /\ WellPlaced(ht[x]) /\ NoDuplicate(ht[x])
  BY TableFacts DEF Inv, TablesSound
<1>2. /\ rest \in Tables(Pair) /\ Entries(rest) = Entries(ht[x]) \ {old}
      /\ WellPlaced(rest) /\ NoDuplicate(rest)
  BY <1>1, WithoutRemoves
<1>3. ht' = [ht EXCEPT ![x] = rest]
  OBVIOUS
<1> HIDE DEF rest
<1>4. /\ old \in Entries(ht[x]) /\ old.key = s
      /\ \A p \in Entries(ht[x]) : p.key = s => p = old
      /\ s \in Fd /\ e \in Event /\ evs[e].state = "held"
      /\ evs[e].fd = s /\ SetOf(evs[e].type) = x
  BY LookedUp
<1>5. /\ ht' \in [Sets -> [Buckets -> Seq(Pair)]]
      /\ ht'[x] = rest /\ \A y \in Sets : y # x => ht'[y] = ht[y]
  <2>1. ht \in [Sets -> [Buckets -> Seq(Pair)]]
    BY DEF Inv, TypeOK, Pair
  <2>2. rest \in [Buckets -> Seq(Pair)]
    BY <1>2 DEF Tables
  <2> QED
    BY <1>3, <2>1, <2>2
<1>6. \A y \in Sets : Entries(ht'[y]) = IF y = x THEN Entries(ht[x]) \ {old} ELSE Entries(ht[y])
  BY <1>2, <1>5
<1>7. \A y \in Sets : Keys(ht'[y]) = IF y = x THEN Keys(ht[x]) \ {s} ELSE Keys(ht[y])
  BY <1>4, <1>6 DEF Keys
<1>8. TablesSound'
  BY <1>2, <1>5 DEF Inv, TablesSound
<1>9. TablesHoldEvents'
  <2> SUFFICES ASSUME NEW y \in Sets, NEW r \in Fd, NEW g \in Event
               PROVE  Registered(y, r, g)' <=> /\ evs'[g].state = "held"
                                               /\ evs'[g].fd = r /\ SetOf(evs'[g].type) = y
    BY DEF TablesHoldEvents
  <2>1. evs'[e].state = "dying" /\ (g # e => evs'[g] = evs[g])
    OBVIOUS
  <2>2. Registered(y, r, g) <=> /\ evs[g].state = "held"
                                /\ evs[g].fd = r /\ SetOf(evs[g].type) = y
    BY DEF Inv, TablesHoldEvents
  <2>3. CASE g = e
    <3>1. ASSUME NEW p \in Entries(ht'[y]), p.val = e PROVE FALSE
      <4>1. p \in Entries(ht[y])
        BY <1>6, <3>1
      <4>2. p.key = s /\ y = x
        BY <1>4, <3>1, <4>1, EntryFacts DEF Inv
      <4> QED
        BY <1>4, <1>6, <4>2, <3>1
    <3> QED
      BY <2>1, <2>3, <3>1 DEF Registered
  <2>4. CASE g # e
    <3>1. Registered(y, r, g)' <=> Registered(y, r, g)
      BY <1>6, <2>4 DEF Registered
    <3> QED
      BY <2>1, <2>2, <2>4, <3>1
  <2> QED
    BY <2>3, <2>4
<1>10. MaxFdCovers'
  BY <1>7 DEF Inv, MaxFdCovers
<1> QED
  BY <1>5, <1>6, <1>7, <1>8, <1>9, <1>10

-----------------------------------------------------------------------------
(* One lemma per action, first those of the client.                        *)
LEMMA InitInv == Init => Inv
<1> SUFFICES ASSUME Init PROVE Inv
  OBVIOUS
<1>1. EmptyTable \in Tables(Pair) /\ Entries(EmptyTable) = {}
  BY EmptyTableIsEmpty
<1>2. \A x \in Sets : ht[x] = EmptyTable /\ Entries(ht[x]) = {} /\ Keys(ht[x]) = {}
  BY <1>1 DEF Init, Keys
<1>3. TypeOK
  <2>1. ht \in [Sets -> [Buckets -> Seq([key : Fd, val : Event])]]
    BY <1>1 DEF Init, Tables, Pair
  <2>2. None \in [Sets -> SUBSET Fd]
    BY DEF None
  <2>3. stack \in Seq([op : {"call", "del", "erase"}, ev : Event])
    BY DEF Init
  <2> QED
    BY <2>1, <2>2, <2>3 DEF Init, TypeOK, Sets
<1>4. TablesSound
  <2>1. \A h \in Buckets : DOMAIN EmptyTable[h] = {}
    BY DEF EmptyTable
  <2> QED
    BY <1>2, <2>1 DEF TablesSound, WellPlaced, NoDuplicate
<1>5. TablesHoldEvents
  BY <1>2 DEF Init, TablesHoldEvents, Registered, Idle
<1>6. FramesSound
  BY DEF Init, FramesSound, Idle
<1>7. IteratorLinked
  BY DEF Init, IteratorLinked, Ended, NoIter
<1>8. BitsBacked /\ MaxFdCovers
  BY <1>2 DEF Init, BitsBacked, MaxFdCovers, None
<1>9. StackPlaced /\ QuietKept
  BY DEF Init, StackPlaced, QuietKept
<1> QED
  BY <1>3, <1>4, <1>5, <1>6, <1>7, <1>8, <1>9 DEF Inv

LEMMA UnchangedInv ==
  ASSUME Inv, UNCHANGED vars
  PROVE  Inv'
<1>1. UNCHANGED <<ht, fds, n_maxfdn, term_flag, evs, pc, tval, phase, it, stack,
                  pending, quiet>>
  BY DEF vars, loop, base, round
<1>2. TypeOK'
  BY <1>1 DEF Inv, TypeOK
<1>3. TablesSound' /\ TablesHoldEvents' /\ MaxFdCovers'
  BY <1>1 DEF Inv, TablesSound, TablesHoldEvents, Registered, MaxFdCovers
<1>4. FramesSound' /\ StackPlaced'
  BY <1>1 DEF Inv, FramesSound, StackPlaced
<1>5. IteratorLinked' /\ BitsBacked' /\ QuietKept'
  BY <1>1 DEF Inv, IteratorLinked, BitsBacked, QuietKept
<1> QED
  BY <1>2, <1>3, <1>4, <1>5 DEF Inv

(* The new event was in no table; its socket gets its bit with its pair.   *)
LEMMA EventAddInv ==
  ASSUME Inv, NEW s \in Sock, NEW type \in Types, NEW e \in Event,
         EventAdd(e, s, type)
  PROVE  Inv'
<1> DEFINE x == SetOf(type)
           p == [key |-> s, val |-> e]
<1>1. /\ x \in Sets /\ s \in Fd /\ evs[e] = Idle
      /\ Available(s) /\ ~HasKey(ht[x], s)
      /\ ht' = [ht EXCEPT ![x] = WithPair(@, p)]
      /\ fds' = [fds EXCEPT ![x] = @ \cup {s}]
      /\ n_maxfdn' = MaxFdn(s)
      /\ evs' = [evs EXCEPT ![e] = Held(s, type)]
      /\ UNCHANGED <<term_flag, pc, tval, phase, it, stack, pending, quiet>>
  BY DEF EventAdd, CanAdd, SetOf, Sets, Fd, loop, round
<1>2. p \in Pair /\ p.key = s /\ p.val = e
  BY <1>1 DEF Pair
<1> HIDE DEF x, p
<1>3. ht[x] \in Tables(Pair) /\ WellPlaced(ht[x]) /\ NoDuplicate(ht[x])
  BY <1>1, TableFacts DEF Inv, TablesSound
<1>4. /\ WithPair(ht[x], p) \in Tables(Pair)
      /\ Entries(WithPair(ht[x], p)) = Entries(ht[x]) \cup {p}
      /\ WellPlaced(WithPair(ht[x], p)) /\ NoDuplicate(WithPair(ht[x], p))
  BY <1>1, <1>2, <1>3, WithPairAdds, WithPairKeeps
<1>5. /\ ht' \in [Sets -> [Buckets -> Seq(Pair)]]
      /\ ht'[x] = WithPair(ht[x], p)
      /\ \A y \in Sets : y # x => ht'[y] = ht[y]
  BY <1>1, <1>4 DEF Inv, TypeOK, Tables, Pair
<1>6. \A y \in Sets : Entries(ht'[y]) = IF y = x THEN Entries(ht[x]) \cup {p} ELSE Entries(ht[y])
  BY <1>4, <1>5
<1>7. \A y \in Sets : Keys(ht'[y]) = IF y = x THEN Keys(ht[x]) \cup {s} ELSE Keys(ht[y])
  BY <1>2, <1>6 DEF Keys
<1>8. /\ evs'[e] = [state |-> "held", fd |-> s, type |-> type]
      /\ \A g \in Event : g # e => evs'[g] = evs[g]
  BY <1>1 DEF Inv, TypeOK, Held
<1>9. Fd \subseteq Int
  BY LoopAssumption DEF Fd
<1>10. TypeOK'
  <2>1. n_maxfdn' \in {0} \cup Fd
    BY <1>1 DEF Inv, TypeOK, MaxFdn
  <2>2. evs' \in [Event -> {Idle} \cup [state : {"held", "dying"}, fd : Fd, type : Types]]
    BY <1>1 DEF Inv, TypeOK, Held
  <2>3. fds' \in [Sets -> SUBSET Fd]
    BY <1>1 DEF Inv, TypeOK
  <2> QED
    BY <1>1, <1>5, <2>1, <2>2, <2>3 DEF Inv, TypeOK, Pair
<1>11. TablesSound'
  BY <1>4, <1>5 DEF Inv, TablesSound
<1>12. TablesHoldEvents'
  <2> SUFFICES ASSUME NEW y \in Sets, NEW r \in Fd, NEW g \in Event
               PROVE  Registered(y, r, g)' <=> /\ evs'[g].state = "held"
                                               /\ evs'[g].fd = r /\ SetOf(evs'[g].type) = y
    BY DEF TablesHoldEvents
  <2>1. Registered(y, r, g) <=> /\ evs[g].state = "held"
                                /\ evs[g].fd = r /\ SetOf(evs[g].type) = y
    BY DEF Inv, TablesHoldEvents
  <2>2. CASE g = e
    <3>1. ~Registered(y, r, g)
      BY <1>1, <2>1, <2>2 DEF Idle
    <3>2. Registered(y, r, g)' <=> y = x /\ r = s
      BY <1>2, <1>6, <2>2, <3>1 DEF Registered
    <3> QED
      BY <1>8, <2>2, <3>2 DEF x
  <2>3. CASE g # e
    <3>1. Registered(y, r, g)' <=> Registered(y, r, g)
      BY <1>2, <1>6, <2>3 DEF Registered
    <3> QED
      BY <1>8, <2>1, <2>3, <3>1
  <2> QED
    BY <2>2, <2>3
<1>13. FramesSound'
  <2>1. \A i \in DOMAIN stack : stack[i].ev \in Event /\ stack[i].ev # e
    BY <1>1, FrameFacts DEF Inv
  <2> QED
    BY <1>1, <1>8, <2>1 DEF Inv, FramesSound
<1>14. IteratorLinked'
  BY <1>1, <1>6 DEF Inv, IteratorLinked, TypeOK
<1>15. BitsBacked'
  <2> SUFFICES ASSUME NEW y \in Sets, NEW r \in fds'[y] \ Keys(ht'[y])
               PROVE  \E i \in DOMAIN stack' :
                        stack'[i].op = "erase" /\ y = phase' /\ evs'[stack'[i].ev].fd = r
    BY DEF BitsBacked
  <2>1. r \in fds[y] \ Keys(ht[y])
    BY <1>1, <1>7 DEF Inv, TypeOK
  <2>2. PICK i \in DOMAIN stack : stack[i].op = "erase" /\ y = phase /\ evs[stack[i].ev].fd = r
    BY <2>1 DEF Inv, BitsBacked
  <2>3. stack[i].ev \in Event /\ stack[i].ev # e
    BY <1>1, FrameFacts DEF Inv
  <2> QED
    BY <1>1, <1>8, <2>2, <2>3
<1>16. MaxFdCovers'
  <2>1. n_maxfdn \in Int /\ s \in Int
    BY <1>1, <1>9 DEF Inv, TypeOK
  <2>2. n_maxfdn <= n_maxfdn' /\ s <= n_maxfdn' /\ n_maxfdn' \in Int
    BY <1>1, <2>1 DEF MaxFdn
  <2>3. \A y \in Sets : \A r \in Keys(ht[y]) : r \in Int /\ r <= n_maxfdn
    BY <1>9, TableFacts DEF Inv, MaxFdCovers
  <2> QED
    BY <1>7, <2>1, <2>2, <2>3 DEF MaxFdCovers
<1>17. StackPlaced'
  BY <1>1 DEF Inv, StackPlaced
<1>18. QuietKept'
  <2>1. s \notin Keys(ht[x])
    BY <1>1, <1>3, HasKeyIsEntry DEF Keys
  <2>2. ASSUME pc = "handle", NEW y \in Sets
        PROVE  quiet[y] \subseteq Keys(ht'[y]) \ fds'[y]
    BY <1>1, <1>7, <2>1, <2>2 DEF Inv, QuietKept, TypeOK
  <2> QED
    BY <1>1, <2>2 DEF Inv, QuietKept
<1> QED
  BY <1>10, <1>11, <1>12, <1>13, <1>14, <1>15, <1>16, <1>17, <1>18 DEF Inv

(* The deleted event has no call in progress: it is held, so the only one  *)
(* could be its own callback, which UnderIterator excludes.                *)
LEMMA EventDelInv ==
  ASSUME Inv, NEW s \in Sock, NEW type \in Types, EventDel(s, type)
  PROVE  Inv'
<1> DEFINE x == SetOf(type)
           old == Lookup(ht[x], s)
           e == old.val
           f == [op |-> "del", ev |-> e]
<1>1. /\ x \in Sets /\ s \in Fd /\ s \in fds[x] /\ ~UnderIterator(x, s)
      /\ fds' = [fds EXCEPT ![x] = @ \ {s}]
      /\ UNCHANGED <<n_maxfdn, term_flag, pc, tval, phase, it, quiet>>
  BY DEF EventDel, CanDel, SetOf, Sets, Fd, loop, base
<1>2. ht[x] \in Tables(Pair) /\ WellPlaced(ht[x])
  BY <1>1, TableFacts DEF Inv, TablesSound
<1>3. pc = "handle" => s \notin quiet[x]
  BY <1>1 DEF Inv, QuietKept
<1>4. fds' \in [Sets -> SUBSET Fd] /\ \A y \in Sets : fds'[y] = IF y = x THEN fds[x] \ {s} ELSE fds[y]
  BY <1>1 DEF Inv, TypeOK
<1>5. CASE ~HasKey(ht[x], s)
  <2>1. UNCHANGED <<ht, evs, stack, pending>>
    BY <1>5 DEF EventDel
  <2>2. TypeOK'
    BY <1>1, <1>4, <2>1 DEF Inv, TypeOK
  <2>3. TablesSound' /\ TablesHoldEvents' /\ MaxFdCovers' /\ FramesSound'
        /\ IteratorLinked' /\ StackPlaced'
    BY <1>1, <2>1 DEF Inv, TablesSound, TablesHoldEvents, Registered, MaxFdCovers,
                      FramesSound, IteratorLinked, StackPlaced
  <2>4. BitsBacked'
    BY <1>1, <1>4, <2>1 DEF Inv, BitsBacked
  <2>5. QuietKept'
    BY <1>1, <1>4, <2>1 DEF Inv, QuietKept
  <2> QED
    BY <2>2, <2>3, <2>4, <2>5 DEF Inv
<1>6. CASE HasKey(ht[x], s)
  <2>1. /\ ht' = [ht EXCEPT ![x] = Without(@, s)]
        /\ evs' = [evs EXCEPT ![e].state = "dying"]
        /\ stack' = <<f>> \o stack
        /\ pending' = [pending EXCEPT ![x] = @ \ {s}]
    BY <1>6 DEF EventDel
  <2>2. /\ old \in Entries(ht[x]) /\ old.key = s
        /\ \A p \in Entries(ht[x]) : p.key = s => p = old
        /\ e \in Event /\ evs[e].state = "held"
        /\ evs[e].fd = s /\ SetOf(evs[e].type) = x
    BY <1>1, <1>6, LookedUp
  <2>3. /\ evs' \in [Event -> {Idle} \cup [state : {"held", "dying"}, fd : Fd, type : Types]]
        /\ evs'[e].state = "dying"
        /\ \A g \in Event : g # e => evs'[g] = evs[g]
        /\ \A g \in Event : evs'[g].fd = evs[g].fd
    BY <2>1, <2>2, Dying DEF Inv
  <2>3a. /\ ht' \in [Sets -> [Buckets -> Seq(Pair)]]
         /\ \A y \in Sets : Entries(ht'[y]) = IF y = x THEN Entries(ht[x]) \ {old} ELSE Entries(ht[y])
         /\ \A y \in Sets : Keys(ht'[y]) = IF y = x THEN Keys(ht[x]) \ {s} ELSE Keys(ht[y])
         /\ TablesSound' /\ TablesHoldEvents' /\ MaxFdCovers'
    BY <1>1, <1>6, <2>1, <2>3, Unlinked
  <2>4. ~Ended(it) => pc = "handle" /\ it.pair \in Entries(ht[phase]) /\ phase \in Sets
    BY DEF Inv, IteratorLinked, TypeOK
  <2>5. ~Ended(it) => ~(phase = x /\ it.pair.key = s)
    BY <1>1, <2>4 DEF UnderIterator
  <2>6. ~Ended(it) => it.pair.val # e
    BY <2>2, <2>3a, <2>4, <2>5, EntryFacts DEF Inv
  <2>7. f \in Frame /\ f.op = "del" /\ f.ev = e /\ stack \in Seq(Frame)
    BY <2>2, <2>3a DEF Inv, TypeOK, Frame
  <2> HIDE DEF x, old, e, f
  <2>8. /\ stack' \in Seq(Frame)
        /\ 1 \in DOMAIN stack' /\ stack'[1] = f
        /\ \A i \in DOMAIN stack' :
             i = 1 \/ (i - 1 \in DOMAIN stack /\ stack'[i] = stack[i - 1])
        /\ \A i \in DOMAIN stack : i + 1 \in DOMAIN stack' /\ stack'[i + 1] = stack[i]
    BY <2>1, <2>7, Pushed
  <2>9. \A i \in DOMAIN stack :
          /\ stack[i].ev \in Event /\ stack[i].ev # e
          /\ evs[stack[i].ev].state = IF stack[i].op = "call" THEN "held" ELSE "dying"
    <3> SUFFICES ASSUME NEW i \in DOMAIN stack PROVE stack[i].ev # e
      BY FrameFacts DEF Inv
    <3>1. stack[i].op = "call" => ~Ended(it) /\ it.pair.val = stack[i].ev
      BY DEF Inv, FramesSound
    <3>2. stack[i].op # "call" => evs[stack[i].ev].state = "dying"
      BY FrameFacts DEF Inv
    <3> QED
      BY <2>2, <2>3a, <2>6, <3>1, <3>2
  <2>10. TypeOK'
    <3>1. pending' \in [Sets -> SUBSET Fd]
      BY <2>1 DEF Inv, TypeOK
    <3> QED
      BY <1>1, <1>4, <2>2, <2>3a, <2>3, <2>8, <3>1 DEF Inv, TypeOK, Pair, Frame
  <2>11. FramesSound'
    <3>1. ASSUME NEW i \in DOMAIN stack'
          PROVE  IF stack'[i].op = "call"
                   THEN /\ evs'[stack'[i].ev].state = "held"
                        /\ ~Ended(it') /\ it'.pair.val = stack'[i].ev
                   ELSE evs'[stack'[i].ev].state = "dying"
      <4>1. CASE i = 1
        BY <2>3, <2>7, <2>8, <4>1
      <4>2. CASE i # 1
        <5>1. i - 1 \in DOMAIN stack /\ stack'[i] = stack[i - 1]
          BY <2>8, <4>2
        <5>2. evs'[stack'[i].ev] = evs[stack[i - 1].ev]
          BY <2>3, <2>9, <5>1
        <5> QED
          BY <1>1, <5>1, <5>2 DEF Inv, FramesSound
      <4> QED
        BY <4>1, <4>2
    <3>2. ASSUME NEW i \in DOMAIN stack', NEW j \in DOMAIN stack', stack'[i].ev = stack'[j].ev
          PROVE  i = j
      <4>1. i \in Nat /\ j \in Nat
        BY <2>8
      <4>2. i = 1 <=> j = 1
        BY <2>7, <2>8, <2>9, <3>2
      <4>3. CASE i # 1
        <5>1. /\ i - 1 \in DOMAIN stack /\ stack'[i] = stack[i - 1]
              /\ j - 1 \in DOMAIN stack /\ stack'[j] = stack[j - 1]
          BY <2>8, <4>2, <4>3
        <5>2. i - 1 = j - 1
          BY <3>2, <5>1 DEF Inv, FramesSound
        <5> QED
          BY <4>1, <5>2
      <4> QED
        BY <4>2, <4>3
    <3>3. ASSUME NEW g \in Event, evs'[g].state = "dying"
          PROVE  \E i \in DOMAIN stack' : stack'[i].ev = g
      <4>1. CASE g = e
        BY <2>7, <2>8, <4>1
      <4>2. CASE g # e
        <5>1. PICK i \in DOMAIN stack : stack[i].ev = g
          BY <2>3, <3>3, <4>2 DEF Inv, FramesSound
        <5> QED
          BY <2>8, <5>1
      <4> QED
        BY <4>1, <4>2
    <3> QED
      BY <3>1, <3>2, <3>3 DEF FramesSound
  <2>12. IteratorLinked'
    <3>1. ~Ended(it) => it.pair \in Entries(ht'[phase])
      BY <2>2, <2>3a, <2>4, <2>5, EntryFacts DEF Inv, IteratorLinked
    <3> QED
      BY <1>1, <3>1 DEF Inv, IteratorLinked
  <2>13. BitsBacked'
    <3> SUFFICES ASSUME NEW y \in Sets, NEW r \in fds'[y] \ Keys(ht'[y])
                 PROVE  \E i \in DOMAIN stack' :
                          stack'[i].op = "erase" /\ y = phase' /\ evs'[stack'[i].ev].fd = r
      BY DEF BitsBacked
    <3>1. r \in fds[y] \ Keys(ht[y])
      BY <1>4, <2>2, <2>3a
    <3>2. PICK i \in DOMAIN stack : stack[i].op = "erase" /\ y = phase /\ evs[stack[i].ev].fd = r
      BY <3>1 DEF Inv, BitsBacked
    <3> QED
      BY <1>1, <2>3, <2>8, <2>9, <3>2
  <2>14. StackPlaced'
    <3>1. pc \notin {"top", "select"}
      BY DEF EventDel, ClientRuns, Inv, StackPlaced
    <3> QED
      BY <1>1, <2>7, <2>8, <3>1 DEF Inv, StackPlaced
  <2>15. QuietKept'
    <3>1. pc = "handle" => \A y \in Sets : quiet[y] \subseteq Keys(ht'[y]) \ fds'[y]
      BY <1>3, <1>4, <2>2, <2>3a DEF Inv, QuietKept
    <3>2. \A i \in DOMAIN stack' : stack'[i].op = "call" => it.pair.key \notin quiet[phase]
      BY <2>7, <2>8 DEF Inv, QuietKept
    <3> QED
      BY <1>1, <3>1, <3>2 DEF QuietKept
  <2> QED
    BY <2>2, <2>3a, <2>10, <2>11, <2>12, <2>13, <2>14, <2>15 DEF Inv
<1> QED
  BY <1>5, <1>6

LEMMA LoopExitInv ==
  ASSUME Inv, LoopExit
  PROVE  Inv'
<1>1. /\ term_flag' = TRUE
      /\ UNCHANGED <<ht, fds, n_maxfdn, evs, pc, tval, phase, it, stack, pending, quiet>>
  BY DEF LoopExit, loop, round
<1>2. TypeOK'
  BY <1>1 DEF Inv, TypeOK
<1>3. TablesSound' /\ TablesHoldEvents' /\ MaxFdCovers'
  BY <1>1 DEF Inv, TablesSound, TablesHoldEvents, Registered, MaxFdCovers
<1>4. FramesSound' /\ StackPlaced'
  BY <1>1 DEF Inv, FramesSound, StackPlaced
<1>5. IteratorLinked' /\ BitsBacked' /\ QuietKept'
  BY <1>1 DEF Inv, IteratorLinked, BitsBacked, QuietKept
<1> QED
  BY <1>2, <1>3, <1>4, <1>5 DEF Inv

(* Every event a table holds is given back, so none is held.               *)
LEMMA DestroyAndNewInv ==
  ASSUME Inv, DestroyAndNew
  PROVE  Inv'
<1>1. /\ pc = "main" /\ stack = <<>>
      /\ ht' = [x \in Sets |-> EmptyTable] /\ fds' = None
      /\ n_maxfdn' = 0 /\ term_flag' = FALSE
      /\ UNCHANGED <<pc, tval, phase, it, stack, pending, quiet>>
  BY DEF DestroyAndNew, loop, round
<1>2. \A e \in Event :
        evs'[e] = IF \E x \in Sets : \E p \in Entries(ht[x]) : p.val = e THEN Idle ELSE evs[e]
  BY DEF DestroyAndNew
<1>3. EmptyTable \in Tables(Pair) /\ Entries(EmptyTable) = {}
  BY EmptyTableIsEmpty
<1>4. \A x \in Sets : ht'[x] = EmptyTable /\ Entries(ht'[x]) = {} /\ Keys(ht'[x]) = {}
  BY <1>1, <1>3 DEF Keys
<1>5. TypeOK'
  <2>1. ht' \in [Sets -> [Buckets -> Seq([key : Fd, val : Event])]]
    BY <1>1, <1>3 DEF Tables, Pair
  <2>2. None \in [Sets -> SUBSET Fd]
    BY DEF None
  <2>3. evs' \in [Event -> {Idle} \cup [state : {"held", "dying"}, fd : Fd, type : Types]]
    BY DEF DestroyAndNew, Inv, TypeOK
  <2> QED
    BY <1>1, <2>1, <2>2, <2>3 DEF Inv, TypeOK
<1>6. TablesSound'
  <2>1. \A h \in Buckets : DOMAIN EmptyTable[h] = {}
    BY DEF EmptyTable
  <2> QED
    BY <1>4, <2>1 DEF TablesSound, WellPlaced, NoDuplicate
<1>7. \A e \in Event : evs'[e].state # "held" /\ evs'[e].state # "dying"
  <2> SUFFICES ASSUME NEW e \in Event PROVE evs'[e].state = "client"
    OBVIOUS
  <2>1. evs[e] \in {Idle} \cup [state : {"held", "dying"}, fd : Fd, type : Types]
    BY DEF Inv, TypeOK
  <2>2. evs[e].state # "dying"
    BY <1>1 DEF Inv, FramesSound
  <2>3. CASE evs[e].state = "held"
    <3>1. evs[e].fd \in Fd /\ SetOf(evs[e].type) \in Sets
      BY <2>1, <2>3 DEF Idle, SetOf, Sets
    <3>2. Registered(SetOf(evs[e].type), evs[e].fd, e)
      BY <2>3, <3>1 DEF Inv, TablesHoldEvents
    <3> QED
      BY <1>2, <3>1, <3>2 DEF Registered, Idle
  <2>4. CASE evs[e] = Idle
    BY <1>2, <2>4 DEF Idle
  <2> QED
    BY <2>1, <2>2, <2>3, <2>4
<1>8. TablesHoldEvents'
  BY <1>4, <1>7 DEF TablesHoldEvents, Registered
<1>9. FramesSound' /\ StackPlaced'
  BY <1>1, <1>7 DEF FramesSound, StackPlaced
<1>10. IteratorLinked'
  BY <1>1 DEF Inv, IteratorLinked
<1>11. BitsBacked' /\ MaxFdCovers' /\ QuietKept'
  BY <1>1, <1>4 DEF BitsBacked, MaxFdCovers, QuietKept, None
<1> QED
  BY <1>5, <1>6, <1>8, <1>9, <1>10, <1>11 DEF Inv

-----------------------------------------------------------------------------
(* The steps of select_dispatch outside of handle_events: no callback is   *)
(* in progress, no iterator in use, and the bits of sockets may only be    *)
(* those of registered sockets.                                            *)
LEMMA ControlInv ==
  ASSUME Inv, pc # "handle", stack = <<>>,
         pc' \in {"main", "top", "select"}, tval' \in {"NULL", "all", "rest"},
         fds' \in [Sets -> SUBSET Fd],
         \A x \in Sets : fds'[x] \subseteq Keys(ht[x]) \cup fds[x],
         UNCHANGED <<ht, n_maxfdn, term_flag, evs, phase, it, stack, pending, quiet>>
  PROVE  Inv'
<1>1. TypeOK'
  BY DEF Inv, TypeOK
<1>2. TablesSound' /\ TablesHoldEvents' /\ MaxFdCovers'
  BY DEF Inv, TablesSound, TablesHoldEvents, Registered, MaxFdCovers
<1>3. FramesSound' /\ StackPlaced'
  BY DEF Inv, FramesSound, StackPlaced
<1>4. IteratorLinked'
  BY DEF Inv, IteratorLinked
<1>5. BitsBacked'
  BY DEF Inv, BitsBacked
<1>6. QuietKept'
  BY DEF QuietKept
<1> QED
  BY <1>1, <1>2, <1>3, <1>4, <1>5, <1>6 DEF Inv

LEMMA LoopControlInv ==
  ASSUME Inv,
         \/ \E t \in {"NULL", "all"} : EventLoop(t)
         \/ LoopReturns \/ InitFds \/ SelectTimeout \/ SelectError
  PROVE  Inv'
<1>1. pc \in {"top", "select"} => stack = <<>>
  BY DEF Inv, StackPlaced
<1>2. fds \in [Sets -> SUBSET Fd] /\ tval \in {"NULL", "all", "rest"}
  BY DEF Inv, TypeOK
<1>3. CASE (\E t \in {"NULL", "all"} : EventLoop(t)) \/ LoopReturns \/ SelectError
  <2>1. /\ pc # "handle" /\ stack = <<>>
        /\ pc' \in {"main", "top", "select"} /\ tval' \in {"NULL", "all", "rest"}
        /\ UNCHANGED <<ht, fds, n_maxfdn, term_flag, evs, phase, it, stack, pending, quiet>>
    BY <1>1, <1>3 DEF EventLoop, LoopReturns, SelectError, base, round
  <2> QED
    BY <1>2, <2>1, ControlInv
<1>4. CASE InitFds
  <2>1. /\ pc = "top" /\ stack = <<>> /\ pc' = "select" /\ tval' = tval
        /\ fds' = [x \in Sets |-> Keys(ht[x])]
        /\ UNCHANGED <<ht, n_maxfdn, term_flag, evs, phase, it, stack, pending, quiet>>
    BY <1>1, <1>4 DEF InitFds, base, round
  <2>2. \A x \in Sets : Keys(ht[x]) \subseteq Fd
    BY TableFacts DEF Inv
  <2>3. fds' \in [Sets -> SUBSET Fd] /\ \A x \in Sets : fds'[x] \subseteq Keys(ht[x]) \cup fds[x]
    BY <2>1, <2>2
  <2> QED
    BY <1>2, <2>1, <2>3, ControlInv
<1>5. CASE SelectTimeout
  <2>1. /\ pc = "select" /\ stack = <<>> /\ pc' = "top" /\ tval' \in {"NULL", "all", "rest"}
        /\ fds' = None
        /\ UNCHANGED <<ht, n_maxfdn, term_flag, evs, phase, it, stack, pending, quiet>>
    BY <1>1, <1>5 DEF SelectTimeout, Waited, base, round
  <2>2. fds' \in [Sets -> SUBSET Fd] /\ \A x \in Sets : fds'[x] \subseteq Keys(ht[x]) \cup fds[x]
    BY <2>1 DEF None
  <2> QED
    BY <2>1, <2>2, ControlInv
<1> QED
  BY <1>3, <1>4, <1>5

(* A round begins with the answer of select and the first event.           *)
LEMMA SelectReadyInv ==
  ASSUME Inv, NEW ready \in [Sets -> SUBSET Fd], SelectReady(ready)
  PROVE  Inv'
<1>1. /\ stack = <<>> /\ fds' = ready
      /\ \A x \in Sets : ready[x] \subseteq fds[x]
      /\ tval' \in {"NULL", "all", "rest"}
      /\ pc' = "handle" /\ phase' = "in" /\ it' = IterHead(ht["in"])
      /\ pending' = ready /\ quiet' = [x \in Sets |-> Keys(ht[x]) \ ready[x]]
      /\ UNCHANGED <<ht, n_maxfdn, term_flag, evs, stack>>
  BY DEF SelectReady, Waited, base, Inv, StackPlaced
<1>2. "in" \in Sets /\ \A x \in Sets : Keys(ht[x]) \subseteq Fd
  BY TableFacts DEF Inv, Sets
<1>3. it' \in Iters(Pair) /\ OnEntry(ht["in"], it')
  BY <1>1, <1>2, TableFacts, FirstFromLinked DEF IterHead, Inv, TablesSound
<1>4. TypeOK'
  <2>1. quiet' \in [Sets -> SUBSET Fd]
    BY <1>1, <1>2
  <2> QED
    BY <1>1, <1>2, <1>3, <2>1 DEF Inv, TypeOK, Iters, Pair
<1>5. TablesSound' /\ TablesHoldEvents' /\ MaxFdCovers'
  BY <1>1 DEF Inv, TablesSound, TablesHoldEvents, Registered, MaxFdCovers
<1>6. FramesSound' /\ StackPlaced'
  BY <1>1 DEF Inv, FramesSound, StackPlaced
<1>7. IteratorLinked'
  BY <1>1, <1>3 DEF IteratorLinked, OnEntry
<1>8. BitsBacked'
  BY <1>1 DEF Inv, BitsBacked
<1>9. QuietKept'
  BY <1>1 DEF QuietKept
<1> QED
  BY <1>4, <1>5, <1>6, <1>7, <1>8, <1>9 DEF Inv

-----------------------------------------------------------------------------
(* The steps of handle_events.  Here, what the iterator guarantees.        *)
LEMMA IterFacts ==
  ASSUME Inv, ~Ended(it)
  PROVE  /\ pc = "handle" /\ phase \in Sets
         /\ it.pair \in Entries(ht[phase]) /\ it.pair.key \in Fd /\ it.pair.val \in Event
         /\ evs[it.pair.val].state = "held" /\ evs[it.pair.val].fd = it.pair.key
         /\ HasKey(ht[phase], it.pair.key)
         /\ Lookup(ht[phase], it.pair.key) = it.pair
         /\ IterNext(ht[phase], it) \in Iters(Pair)
         /\ OnEntry(ht[phase], IterNext(ht[phase], it))
         /\ ~Ended(IterNext(ht[phase], it)) =>
              IterNext(ht[phase], it).pair.key # it.pair.key
<1>1. /\ pc = "handle" /\ phase \in Sets /\ it.pair \in Entries(ht[phase])
      /\ OnEntry(ht[phase], it)
  BY DEF Inv, TypeOK, IteratorLinked, OnEntry
<1>2. /\ ht[phase] \in Tables(Pair) /\ it \in Iters(Pair)
      /\ WellPlaced(ht[phase]) /\ NoDuplicate(ht[phase])
  BY <1>1, TableFacts DEF Inv, TablesSound
<1>3. /\ it.pair.key \in Fd /\ it.pair.val \in Event
      /\ evs[it.pair.val].state = "held" /\ evs[it.pair.val].fd = it.pair.key
  BY <1>1, EntryFacts DEF Inv
<1>4. HasKey(ht[phase], it.pair.key)
  BY <1>1, <1>2, HasKeyIsEntry
<1>5. Lookup(ht[phase], it.pair.key) = it.pair
  BY <1>1, <1>4, LookedUp
<1>6. /\ IterNext(ht[phase], it) \in Iters(Pair)
      /\ OnEntry(ht[phase], IterNext(ht[phase], it))
      /\ ~Ended(IterNext(ht[phase], it)) =>
           IterNext(ht[phase], it).pair.key # it.pair.key
  BY <1>1, <1>2, IterNextLinked
<1> QED
  BY <1>1, <1>3, <1>4, <1>5, <1>6

LEMMA PassEntryInv ==
  ASSUME Inv, PassEntry
  PROVE  Inv'
<1>1. /\ stack = <<>> /\ ~Ended(it) /\ it' = IterNext(ht[phase], it)
      /\ UNCHANGED <<ht, fds, n_maxfdn, term_flag, evs, pc, tval, phase, stack, pending, quiet>>
  BY DEF PassEntry, AtEntry, Handling, base, round
<1>2. pc = "handle" /\ it' \in Iters(Pair) /\ OnEntry(ht[phase], it')
  BY <1>1, IterFacts
<1>3. TypeOK'
  BY <1>1, <1>2 DEF Inv, TypeOK, Iters, Pair
<1>4. TablesSound' /\ TablesHoldEvents' /\ MaxFdCovers'
  BY <1>1 DEF Inv, TablesSound, TablesHoldEvents, Registered, MaxFdCovers
<1>5. FramesSound' /\ StackPlaced'
  BY <1>1 DEF Inv, FramesSound, StackPlaced
<1>6. IteratorLinked'
  BY <1>1, <1>2 DEF IteratorLinked, OnEntry
<1>7. BitsBacked' /\ QuietKept'
  BY <1>1 DEF Inv, BitsBacked, QuietKept
<1> QED
  BY <1>3, <1>4, <1>5, <1>6, <1>7 DEF Inv

LEMMA EndSetInv ==
  ASSUME Inv, EndSet
  PROVE  Inv'
<1>1. /\ pc = "handle" /\ stack = <<>>
      /\ UNCHANGED <<ht, fds, n_maxfdn, term_flag, evs, tval, stack>>
  BY DEF EndSet, Handling, base
<1>2. /\ pc' \in {"top", "handle"} /\ phase' \in Sets
      /\ \/ it' = NoIter /\ pc' = "top" /\ pending' = None /\ quiet' = None
         \/ /\ it' = IterHead(ht[phase']) /\ pc' = "handle"
            /\ UNCHANGED <<pending, quiet>>
  BY <1>1 DEF EndSet, Sets, round
<1>3. \A x \in Sets : IterHead(ht[x]) \in Iters(Pair) /\ OnEntry(ht[x], IterHead(ht[x]))
  BY TableFacts, FirstFromLinked DEF IterHead, Inv, TablesSound
<1>4. it' \in Iters(Pair) /\ (~Ended(it') => pc' = "handle" /\ OnEntry(ht[phase'], it'))
  BY <1>2, <1>3 DEF Iters, Ended, NoIter
<1>5. TypeOK'
  <2>1. None \in [Sets -> SUBSET Fd]
    BY DEF None
  <2>2. pending' \in [Sets -> SUBSET Fd] /\ quiet' \in [Sets -> SUBSET Fd]
    BY <1>2, <2>1 DEF Inv, TypeOK
  <2> QED
    BY <1>1, <1>2, <1>4, <2>2 DEF Inv, TypeOK, Iters, Pair
<1>6. TablesSound' /\ TablesHoldEvents' /\ MaxFdCovers'
  BY <1>1 DEF Inv, TablesSound, TablesHoldEvents, Registered, MaxFdCovers
<1>7. FramesSound' /\ StackPlaced'
  BY <1>1 DEF Inv, FramesSound, StackPlaced
<1>8. IteratorLinked'
  BY <1>1, <1>4 DEF IteratorLinked, OnEntry
<1>9. BitsBacked'
  BY <1>1 DEF Inv, BitsBacked
<1>10. QuietKept'
  BY <1>1, <1>2 DEF Inv, QuietKept
<1> QED
  BY <1>5, <1>6, <1>7, <1>8, <1>9, <1>10 DEF Inv

LEMMA DispatchInv ==
  ASSUME Inv, Dispatch
  PROVE  Inv'
<1> DEFINE f == [op |-> "call", ev |-> it.pair.val]
<1>1. /\ stack = <<>> /\ ~Ended(it) /\ it.pair.key \in fds[phase]
      /\ stack' = <<f>>
      /\ pending' = [pending EXCEPT ![phase] = @ \ {it.pair.key}]
      /\ UNCHANGED <<ht, fds, n_maxfdn, term_flag, evs, pc, tval, phase, it, quiet>>
  BY DEF Dispatch, AtEntry, Handling, Flagged, base, loop
<1>2. /\ pc = "handle" /\ phase \in Sets /\ it.pair.val \in Event
      /\ evs[it.pair.val].state = "held"
  BY <1>1, IterFacts
<1>3. f \in Frame /\ f.op = "call" /\ f.ev = it.pair.val
  BY <1>2 DEF Frame
<1> HIDE DEF f
<1>4. stack' \in Seq(Frame) /\ DOMAIN stack' = {1} /\ stack'[1] = f
  BY <1>1, <1>3
<1>5. TypeOK'
  <2>1. pending' \in [Sets -> SUBSET Fd]
    BY <1>1 DEF Inv, TypeOK
  <2> QED
    BY <1>1, <1>4, <2>1 DEF Inv, TypeOK, Frame
<1>6. TablesSound' /\ TablesHoldEvents' /\ MaxFdCovers'
  BY <1>1 DEF Inv, TablesSound, TablesHoldEvents, Registered, MaxFdCovers
<1>7. FramesSound'
  <2>1. \A e \in Event : evs[e].state # "dying"
    BY <1>1 DEF Inv, FramesSound
  <2> QED
    BY <1>1, <1>2, <1>3, <1>4, <2>1 DEF FramesSound
<1>8. IteratorLinked'
  BY <1>1 DEF Inv, IteratorLinked
<1>9. BitsBacked'
  BY <1>1 DEF Inv, BitsBacked
<1>10. StackPlaced' /\ QuietKept'
  BY <1>1, <1>2, <1>3, <1>4 DEF Inv, StackPlaced, QuietKept
<1> QED
  BY <1>5, <1>6, <1>7, <1>8, <1>9, <1>10 DEF Inv

(* Below the callback of the event the iterator stands on there are only   *)
(* cleanup callbacks.                                                      *)
LEMMA BelowCall ==
  ASSUME Inv, stack # <<>>, Head(stack).op = "call"
  PROVE  /\ ~Ended(it) /\ Head(stack).ev = it.pair.val
         /\ Tail(stack) \in Seq(Frame)
         /\ \A i \in DOMAIN Tail(stack) :
              /\ Tail(stack)[i].ev \in Event /\ Tail(stack)[i].ev # it.pair.val
              /\ Tail(stack)[i].op # "call"
              /\ evs[Tail(stack)[i].ev].state = "dying"
              /\ Tail(stack)[i].op = "erase" => pc = "handle"
         /\ \A i, j \in DOMAIN Tail(stack) : Tail(stack)[i].ev = Tail(stack)[j].ev => i = j
         /\ \A e \in Event : evs[e].state = "dying" =>
              \E i \in DOMAIN Tail(stack) : Tail(stack)[i].ev = e
         /\ \A i \in DOMAIN stack : stack[i].op = "erase" =>
              \E j \in DOMAIN Tail(stack) : Tail(stack)[j] = stack[i]
<1>1. stack \in Seq(Frame)
  BY DEF Inv, TypeOK, Frame
<1>2. /\ 1 \in DOMAIN stack /\ Head(stack) = stack[1]
      /\ Tail(stack) \in Seq(Frame)
      /\ \A i \in DOMAIN Tail(stack) :
           i + 1 \in DOMAIN stack /\ i + 1 # 1 /\ Tail(stack)[i] = stack[i + 1]
      /\ \A i \in DOMAIN stack :
           i # 1 => i - 1 \in DOMAIN Tail(stack) /\ Tail(stack)[i - 1] = stack[i]
  BY <1>1, Popped
<1>3. ~Ended(it) /\ it.pair.val = stack[1].ev /\ evs[stack[1].ev].state = "held"
  BY <1>2, FrameFacts DEF Inv, FramesSound
<1>4. \A i, j \in DOMAIN stack : stack[i].ev = stack[j].ev => i = j
  BY DEF Inv, FramesSound
<1>5. ASSUME NEW i \in DOMAIN Tail(stack)
      PROVE  /\ Tail(stack)[i].ev \in Event /\ Tail(stack)[i].ev # it.pair.val
             /\ Tail(stack)[i].op # "call"
             /\ evs[Tail(stack)[i].ev].state = "dying"
             /\ Tail(stack)[i].op = "erase" => pc = "handle"
  <2>1. i + 1 \in DOMAIN stack /\ i + 1 # 1 /\ Tail(stack)[i] = stack[i + 1]
    BY <1>2
  <2>2. stack[i + 1].ev # stack[1].ev
    BY <1>2, <1>4, <2>1
  <2>3. stack[i + 1].op = "call" => it.pair.val = stack[i + 1].ev
    BY <2>1 DEF Inv, FramesSound
  <2>4. /\ stack[i + 1].ev \in Event
        /\ evs[stack[i + 1].ev].state = IF stack[i + 1].op = "call" THEN "held" ELSE "dying"
    BY <2>1, FrameFacts DEF Inv
  <2> QED
    BY <1>3, <2>1, <2>2, <2>3, <2>4 DEF Inv, StackPlaced
<1>6. ASSUME NEW i \in DOMAIN Tail(stack), NEW j \in DOMAIN Tail(stack),
             Tail(stack)[i].ev = Tail(stack)[j].ev
      PROVE  i = j
  <2>1. i + 1 = j + 1
    BY <1>2, <1>4, <1>6
  <2> QED
    BY <1>2, <2>1
<1>7. ASSUME NEW e \in Event, evs[e].state = "dying"
      PROVE  \E i \in DOMAIN Tail(stack) : Tail(stack)[i].ev = e
  <2>1. PICK i \in DOMAIN stack : stack[i].ev = e
    BY <1>7 DEF Inv, FramesSound
  <2>2. i # 1
    BY <1>3, <1>7, <2>1
  <2> QED
    BY <1>2, <2>1, <2>2
<1>8. ASSUME NEW i \in DOMAIN stack, stack[i].op = "erase"
      PROVE  \E j \in DOMAIN Tail(stack) : Tail(stack)[j] = stack[i]
  BY <1>2, <1>8
<1> QED
  BY <1>2, <1>3, <1>5, <1>6, <1>7, <1>8

(* The iterator has moved on from the event whose callback returned; a     *)
(* one-shot event has left its table and keeps its bit until its cleanup   *)
(* callback is back.                                                       *)
LEMMA CallbackReturnsInv ==
  ASSUME Inv, CallbackReturns
  PROVE  Inv'
<1> DEFINE e == it.pair.val
           s == it.pair.key
           below == Tail(stack)
           f == [op |-> "erase", ev |-> e]
<1>1. /\ stack # <<>> /\ Head(stack).op = "call"
      /\ it' = IterNext(ht[phase], it)
      /\ UNCHANGED <<fds, n_maxfdn, term_flag, pc, tval, phase, pending, quiet>>
  BY DEF CallbackReturns, base, round
<1>2. /\ ~Ended(it) /\ Head(stack).ev = e
      /\ below \in Seq(Frame)
      /\ \A i \in DOMAIN below :
           /\ below[i].ev \in Event /\ below[i].ev # e
           /\ below[i].op # "call" /\ evs[below[i].ev].state = "dying"
           /\ below[i].op = "erase" => pc = "handle"
      /\ \A i, j \in DOMAIN below : below[i].ev = below[j].ev => i = j
      /\ \A g \in Event : evs[g].state = "dying" => \E i \in DOMAIN below : below[i].ev = g
      /\ \A i \in DOMAIN stack : stack[i].op = "erase" =>
           \E j \in DOMAIN below : below[j] = stack[i]
  BY <1>1, BelowCall
<1>3. /\ pc = "handle" /\ phase \in Sets
      /\ it.pair \in Entries(ht[phase]) /\ s \in Fd /\ e \in Event
      /\ evs[e].state = "held" /\ evs[e].fd = s
      /\ HasKey(ht[phase], s) /\ Lookup(ht[phase], s) = it.pair
      /\ it' \in Iters(Pair) /\ OnEntry(ht[phase], it')
      /\ ~Ended(it') => it'.pair.key # s
  BY <1>1, <1>2, IterFacts
<1>4. CASE Kept(e)
  <2>1. stack' = below /\ UNCHANGED <<ht, evs>>
    BY <1>1, <1>2, <1>4 DEF CallbackReturns
  <2> HIDE DEF below, e, s, f
  <2>2. TypeOK'
    BY <1>1, <1>2, <1>3, <2>1 DEF Inv, TypeOK, Iters, Pair, Frame
  <2>3. TablesSound' /\ TablesHoldEvents' /\ MaxFdCovers'
    BY <1>1, <2>1 DEF Inv, TablesSound, TablesHoldEvents, Registered, MaxFdCovers
  <2>4. FramesSound'
    BY <1>2, <2>1 DEF FramesSound
  <2>5. IteratorLinked'
    BY <1>1, <1>3, <2>1 DEF IteratorLinked, OnEntry
  <2>6. BitsBacked'
    <3> SUFFICES ASSUME NEW y \in Sets, NEW r \in fds[y] \ Keys(ht[y])
                 PROVE  \E i \in DOMAIN stack' :
                          stack'[i].op = "erase" /\ y = phase /\ evs[stack'[i].ev].fd = r
      BY <1>1, <2>1 DEF BitsBacked
    <3>1. PICK i \in DOMAIN stack : stack[i].op = "erase" /\ y = phase /\ evs[stack[i].ev].fd = r
      BY DEF Inv, BitsBacked
    <3> QED
      BY <1>2, <2>1, <3>1
  <2>7. StackPlaced' /\ QuietKept'
    BY <1>1, <1>2, <1>3, <2>1 DEF Inv, StackPlaced, QuietKept
  <2> QED
    BY <2>2, <2>3, <2>4, <2>5, <2>6, <2>7 DEF Inv
<1>5. CASE ~Kept(e)
  <2>1. /\ ht' = [ht EXCEPT ![phase] = Without(@, s)]
        /\ evs' = [evs EXCEPT ![e].state = "dying"]
        /\ stack' = <<f>> \o below
    BY <1>1, <1>2, <1>5 DEF CallbackReturns
  <2>2. /\ evs' \in [Event -> {Idle} \cup [state : {"held", "dying"}, fd : Fd, type : Types]]
        /\ evs'[e].state = "dying"
        /\ \A g \in Event : g # e => evs'[g] = evs[g]
        /\ \A g \in Event : evs'[g].fd = evs[g].fd
    BY <1>3, <2>1, Dying DEF Inv
  <2>3. /\ ht' \in [Sets -> [Buckets -> Seq(Pair)]]
        /\ \A y \in Sets : Entries(ht'[y]) = IF y = phase THEN Entries(ht[phase]) \ {it.pair}
                                                          ELSE Entries(ht[y])
        /\ \A y \in Sets : Keys(ht'[y]) = IF y = phase THEN Keys(ht[phase]) \ {s} ELSE Keys(ht[y])
        /\ TablesSound' /\ TablesHoldEvents' /\ MaxFdCovers'
    BY <1>1, <1>3, <2>1, <2>2, Unlinked
  <2>4. f \in Frame /\ f.op = "erase" /\ f.ev = e
    BY <1>3 DEF Frame
  <2> HIDE DEF f, below
  <2>5. /\ stack' \in Seq(Frame)
        /\ 1 \in DOMAIN stack' /\ stack'[1] = f
        /\ \A i \in DOMAIN stack' :
             i = 1 \/ (i - 1 \in DOMAIN below /\ stack'[i] = below[i - 1])
        /\ \A i \in DOMAIN below : i + 1 \in DOMAIN stack' /\ stack'[i + 1] = below[i]
    BY <1>2, <2>1, <2>4, Pushed
  <2> HIDE DEF e, s
  <2>6. TypeOK'
    BY <1>1, <1>3, <2>2, <2>3, <2>5 DEF Inv, TypeOK, Iters, Pair, Frame
  <2>7. FramesSound'
    <3>1. ASSUME NEW i \in DOMAIN stack'
          PROVE  stack'[i].op # "call" /\ evs'[stack'[i].ev].state = "dying"
      <4>1. CASE i = 1
        BY <2>2, <2>4, <2>5, <4>1
      <4>2. CASE i # 1
        BY <1>2, <2>2, <2>5, <4>2
      <4> QED
        BY <4>1, <4>2
    <3>2. ASSUME NEW i \in DOMAIN stack', NEW j \in DOMAIN stack', stack'[i].ev = stack'[j].ev
          PROVE  i = j
      <4>1. i \in Nat /\ j \in Nat
        BY <2>5
      <4>2. i = 1 <=> j = 1
        BY <1>2, <2>4, <2>5, <3>2
      <4>3. CASE i # 1
        <5>1. /\ i - 1 \in DOMAIN below /\ stack'[i] = below[i - 1]
              /\ j - 1 \in DOMAIN below /\ stack'[j] = below[j - 1]
          BY <2>5, <4>2, <4>3
        <5>2. i - 1 = j - 1
          BY <1>2, <3>2, <5>1
        <5> QED
          BY <4>1, <5>2
      <4> QED
        BY <4>2, <4>3
    <3>3. ASSUME NEW g \in Event, evs'[g].state = "dying"
          PROVE  \E i \in DOMAIN stack' : stack'[i].ev = g
      <4>1. CASE g = e
        BY <2>4, <2>5, <4>1
      <4>2. CASE g # e
        <5>1. PICK i \in DOMAIN below : below[i].ev = g
          BY <1>2, <2>2, <3>3, <4>2
        <5> QED
          BY <2>5, <5>1
      <4> QED
        BY <4>1, <4>2
    <3> QED
      BY <3>1, <3>2, <3>3 DEF FramesSound
  <2>8. IteratorLinked'
    <3>1. ~Ended(it') => it'.pair # it.pair
      BY <1>3 DEF s
    <3>2. ~Ended(it') => it'.pair \in Entries(ht'[phase])
      BY <1>3, <2>3, <3>1 DEF OnEntry
    <3> QED
      BY <1>1, <1>3, <3>2 DEF IteratorLinked, OnEntry
  <2>9. BitsBacked'
    <3> SUFFICES ASSUME NEW y \in Sets, NEW r \in fds[y] \ Keys(ht'[y])
                 PROVE  \E i \in DOMAIN stack' :
                          stack'[i].op = "erase" /\ y = phase /\ evs'[stack'[i].ev].fd = r
      BY <1>1 DEF BitsBacked
    <3>1. CASE r \in Keys(ht[y])
      <4>1. y = phase /\ r = s
        BY <2>3, <3>1
      <4> QED
        BY <1>3, <2>2, <2>4, <2>5, <4>1
    <3>2. CASE r \notin Keys(ht[y])
      <4>1. PICK i \in DOMAIN stack : stack[i].op = "erase" /\ y = phase /\ evs[stack[i].ev].fd = r
        BY <3>2 DEF Inv, BitsBacked
      <4>2. PICK j \in DOMAIN below : below[j] = stack[i]
        BY <1>2, <4>1
      <4> QED
        BY <1>2, <2>2, <2>5, <4>1, <4>2
    <3> QED
      BY <3>1, <3>2
  <2>10. StackPlaced'
    BY <1>1, <1>3 DEF StackPlaced
  <2>11. QuietKept'
    <3>1. 1 \in DOMAIN stack /\ stack[1] = Head(stack)
      BY <1>1 DEF Inv, TypeOK
    <3>2. s \notin quiet[phase]
      BY <1>1, <3>1 DEF Inv, QuietKept, s
    <3>3. \A y \in Sets : quiet[y] \subseteq Keys(ht'[y]) \ fds[y]
      BY <1>3, <2>3, <3>2 DEF Inv, QuietKept
    <3>4. ASSUME NEW i \in DOMAIN stack' PROVE stack'[i].op # "call"
      <4>1. CASE i = 1
        BY <2>4, <2>5, <4>1
      <4>2. CASE i # 1
        BY <1>2, <2>5, <4>2
      <4> QED
        BY <4>1, <4>2
    <3> QED
      BY <1>1, <3>3, <3>4 DEF QuietKept
  <2> QED
    BY <2>3, <2>6, <2>7, <2>8, <2>9, <2>10, <2>11 DEF Inv
<1> QED
  BY <1>4, <1>5

(* event_ht_free frees the event after its cleanup callback; no other call *)
(* is about that event.                                                    *)
LEMMA CleanupReturnsInv ==
  ASSUME Inv, CleanupReturns
  PROVE  Inv'
<1> DEFINE e == Head(stack).ev
           below == Tail(stack)
<1>1. /\ stack # <<>> /\ Head(stack).op # "call"
      /\ stack' = below
      /\ evs' = [evs EXCEPT ![e] = Idle]
      /\ fds' = IF Head(stack).op = "erase" THEN [fds EXCEPT ![phase] = @ \ {evs[e].fd}] ELSE fds
      /\ UNCHANGED <<ht, n_maxfdn, term_flag, pc, tval, phase, it, pending, quiet>>
  BY DEF CleanupReturns, base, loop, round
<1>2. stack \in Seq(Frame)
  BY DEF Inv, TypeOK, Frame
<1>3. /\ 1 \in DOMAIN stack /\ Head(stack) = stack[1]
      /\ below \in Seq(Frame)
      /\ \A i \in DOMAIN below :
           i + 1 \in DOMAIN stack /\ i + 1 # 1 /\ below[i] = stack[i + 1]
      /\ \A i \in DOMAIN stack :
           i # 1 => i - 1 \in DOMAIN below /\ below[i - 1] = stack[i]
  BY <1>1, <1>2, Popped
<1>4. e = stack[1].ev /\ e \in Event /\ evs[e].state = "dying"
  BY <1>1, <1>3, FrameFacts DEF Inv
<1>5. \A i \in DOMAIN stack : stack[i].ev = e => i = 1
  BY <1>3, <1>4 DEF Inv, FramesSound
<1> HIDE DEF below, e
<1>6. evs'[e] = Idle /\ \A g \in Event : g # e => evs'[g] = evs[g]
  BY <1>1, <1>4 DEF Inv, TypeOK
<1>7. \A i \in DOMAIN below : below[i].ev \in Event /\ below[i].ev # e
  BY <1>3, <1>5, FrameFacts DEF Inv
<1>8. /\ fds' \in [Sets -> SUBSET Fd]
      /\ \A y \in Sets : fds'[y] = IF Head(stack).op = "erase" /\ y = phase
                                     THEN fds[y] \ {evs[e].fd} ELSE fds[y]
  BY <1>1 DEF Inv, TypeOK
<1>9. TypeOK'
  <2>1. evs' \in [Event -> {Idle} \cup [state : {"held", "dying"}, fd : Fd, type : Types]]
    BY <1>1 DEF Inv, TypeOK
  <2> QED
    BY <1>1, <1>3, <1>8, <2>1 DEF Inv, TypeOK, Frame
<1>10. TablesSound' /\ MaxFdCovers'
  BY <1>1 DEF Inv, TablesSound, MaxFdCovers
<1>11. TablesHoldEvents'
  <2> SUFFICES ASSUME NEW y \in Sets, NEW r \in Fd, NEW g \in Event
               PROVE  Registered(y, r, g)' <=> /\ evs'[g].state = "held"
                                               /\ evs'[g].fd = r /\ SetOf(evs'[g].type) = y
    BY DEF TablesHoldEvents
  <2>1. Registered(y, r, g)' <=> Registered(y, r, g)
    BY <1>1 DEF Registered
  <2>2. Registered(y, r, g) <=> /\ evs[g].state = "held"
                                /\ evs[g].fd = r /\ SetOf(evs[g].type) = y
    BY DEF Inv, TablesHoldEvents
  <2>3. CASE g = e
    BY <1>4, <1>6, <2>1, <2>2, <2>3 DEF Idle
  <2>4. CASE g # e
    BY <1>6, <2>1, <2>2, <2>4
  <2> QED
    BY <2>3, <2>4
<1>12. FramesSound'
  <2>1. ASSUME NEW i \in DOMAIN below
        PROVE  IF below[i].op = "call"
                 THEN evs'[below[i].ev].state = "held" /\ ~Ended(it) /\ it.pair.val = below[i].ev
                 ELSE evs'[below[i].ev].state = "dying"
    <3>1. i + 1 \in DOMAIN stack /\ below[i] = stack[i + 1]
      BY <1>3
    <3>2. evs'[below[i].ev] = evs[below[i].ev]
      BY <1>6, <1>7
    <3> QED
      BY <3>1, <3>2 DEF Inv, FramesSound
  <2>2. ASSUME NEW i \in DOMAIN below, NEW j \in DOMAIN below, below[i].ev = below[j].ev
        PROVE  i = j
    <3>1. i + 1 = j + 1
      BY <1>3, <2>2 DEF Inv, FramesSound
    <3> QED
      BY <1>3, <3>1
  <2>3. ASSUME NEW g \in Event, evs'[g].state = "dying"
        PROVE  \E i \in DOMAIN below : below[i].ev = g
    <3>1. g # e
      BY <1>6, <2>3 DEF Idle
    <3>2. PICK i \in DOMAIN stack : stack[i].ev = g
      BY <1>6, <2>3, <3>1 DEF Inv, FramesSound
    <3>3. i # 1
      BY <1>4, <3>1, <3>2
    <3> QED
      BY <1>3, <3>2, <3>3
  <2> QED
    BY <1>1, <2>1, <2>2, <2>3 DEF FramesSound
<1>13. IteratorLinked'
  BY <1>1 DEF Inv, IteratorLinked
<1>14. BitsBacked'
  <2> SUFFICES ASSUME NEW y \in Sets, NEW r \in fds'[y] \ Keys(ht[y])
               PROVE  \E i \in DOMAIN below :
                        below[i].op = "erase" /\ y = phase /\ evs'[below[i].ev].fd = r
    BY <1>1 DEF BitsBacked
  <2>1. PICK i \in DOMAIN stack : stack[i].op = "erase" /\ y = phase /\ evs[stack[i].ev].fd = r
    BY <1>8 DEF Inv, BitsBacked
  <2>2. i # 1
    BY <1>3, <1>4, <1>8, <2>1
  <2>3. i - 1 \in DOMAIN below /\ below[i - 1] = stack[i]
    BY <1>3, <2>2
  <2>4. evs'[below[i - 1].ev] = evs[stack[i].ev]
    BY <1>6, <1>7, <2>3
  <2> QED
    BY <2>1, <2>3, <2>4
<1>15. StackPlaced'
  <2>1. pc \notin {"top", "select"}
    BY <1>1 DEF Inv, StackPlaced
  <2> QED
    BY <1>1, <1>3, <2>1 DEF Inv, StackPlaced
<1>16. QuietKept'
  <2>1. pc = "handle" => \A y \in Sets : quiet[y] \subseteq Keys(ht[y]) \ fds'[y]
    BY <1>8 DEF Inv, QuietKept
  <2>2. \A i \in DOMAIN below : below[i].op = "call" => it.pair.key \notin quiet[phase]
    BY <1>3 DEF Inv, QuietKept
  <2> QED
    BY <1>1, <2>1, <2>2 DEF QuietKept
<1> QED
  BY <1>9, <1>10, <1>11, <1>12, <1>13, <1>14, <1>15, <1>16 DEF Inv

-----------------------------------------------------------------------------
(* Every step of the clients, of select and of the loop keeps Inv.         *)
LEMMA NextInv == Inv /\ [Next]_vars => Inv'
<1> SUFFICES ASSUME Inv, [Next]_vars PROVE Inv'
  OBVIOUS
<1>1. CASE \E s \in Sock, type \in Types :
             \/ \E e \in Event : EventAdd(e, s, type)
             \/ EventAddRefused(s, type)
             \/ EventDel(s, type) \/ EventDelRefused(s, type)
  BY <1>1, EventAddInv, EventDelInv, UnchangedInv DEF EventAddRefused, EventDelRefused
<1>2. CASE LoopExit
  BY <1>2, LoopExitInv
<1>3. CASE DestroyAndNew
  BY <1>3, DestroyAndNewInv
<1>4. CASE \/ \E t \in {"NULL", "all"} : EventLoop(t)
           \/ LoopReturns \/ InitFds \/ SelectTimeout \/ SelectError
  BY <1>4, LoopControlInv
<1>5. CASE \E ready \in [Sets -> SUBSET Fd] : SelectReady(ready)
  BY <1>5, SelectReadyInv
<1>6. CASE PassEntry
  BY <1>6, PassEntryInv
<1>7. CASE Dispatch
  BY <1>7, DispatchInv
<1>8. CASE EndSet
  BY <1>8, EndSetInv
<1>9. CASE CallbackReturns
  BY <1>9, CallbackReturnsInv
<1>10. CASE CleanupReturns
  BY <1>10, CleanupReturnsInv
<1>11. CASE UNCHANGED vars
  BY <1>11, UnchangedInv
<1> QED
  BY <1>1, <1>2, <1>3, <1>4, <1>5, <1>6, <1>7, <1>8, <1>9, <1>10, <1>11
     DEF Next, ClientCalls, Select, LoopSteps, Returns

LEMMA AlwaysInv == Spec => []Inv
BY InitInv, NextInv, PTL DEF Spec

(* Every variable of the loop keeps its type.                              *)
THEOREM LoopTypeCorrect == Spec => []TypeOK
<1>1. Inv => TypeOK
  BY DEF Inv
<1> QED
  BY <1>1, AlwaysInv, PTL

(* The tables hold exactly the events added and not deleted, each once.    *)
THEOREM EventsInTables == Spec => []TablesHoldEvents
<1>1. Inv => TablesHoldEvents
  BY DEF Inv
<1> QED
  BY <1>1, AlwaysInv, PTL

(* However calls nest, no event is freed under its callback or twice.      *)
THEOREM EventsFreedOnce == Spec => []FramesSound
<1>1. Inv => FramesSound
  BY DEF Inv
<1> QED
  BY <1>1, AlwaysInv, PTL

(* handle_events never iterates from a pair that is not linked any more.   *)
THEOREM RoundIteratorSafe == Spec => []IteratorLinked
<1>1. Inv => IteratorLinked
  BY DEF Inv
<1> QED
  BY <1>1, AlwaysInv, PTL

(* The fd_sets name registered sockets, but for the one being erased.      *)
THEOREM BitsAreBacked == Spec => []BitsBacked
<1>1. Inv => BitsBacked
  BY DEF Inv
<1> QED
  BY <1>1, AlwaysInv, PTL

(* select is told of every registered socket.                              *)
THEOREM SelectSeesAll == Spec => []MaxFdCovers
<1>1. Inv => MaxFdCovers
  BY DEF Inv
<1> QED
  BY <1>1, AlwaysInv, PTL

(* After mcl_event_loopexit the loop does not wait again: the flag can be  *)
(* set before the test or in a callback, never while select waits.         *)
THEOREM ExitIsHeard == Spec => []ExitNeverWaits
<1>1. Init => ExitNeverWaits
  BY DEF Init, ExitNeverWaits
<1>2. Inv /\ ExitNeverWaits /\ [Next]_vars => ExitNeverWaits'
  <2> SUFFICES ASSUME Inv, ExitNeverWaits, [Next]_vars, pc' = "select"
               PROVE  ~term_flag'
    BY DEF ExitNeverWaits
  <2>1. CASE pc = "select"
    <3>1. stack = <<>>
      BY <2>1 DEF Inv, StackPlaced
    <3>2. ~LoopExit /\ ~EventLoop("NULL") /\ ~EventLoop("all") /\ ~ClientRuns
      BY <2>1, <3>1 DEF LoopExit, ClientRuns, EventLoop
    <3> QED
      BY <2>1, <3>1, <3>2 DEF ExitNeverWaits, Next, ClientCalls, Select, LoopSteps, Returns,
           EventAdd, EventAddRefused, EventDel, EventDelRefused, DestroyAndNew, SelectReady,
           SelectTimeout, SelectError, LoopReturns, InitFds, PassEntry, Dispatch, EndSet,
           CallbackReturns, CleanupReturns, Handling, AtEntry, base, vars
  <2>2. CASE pc # "select"
    <3>1. CASE InitFds
      BY <3>1 DEF InitFds, base
    <3>2. CASE ~InitFds
      BY <2>2, <3>2 DEF Next, ClientCalls, Select, LoopSteps, Returns,
           EventAdd, EventAddRefused, EventDel, EventDelRefused, LoopExit, EventLoop,
           DestroyAndNew, SelectReady, SelectTimeout, SelectError, LoopReturns, PassEntry,
           Dispatch, EndSet, CallbackReturns, CleanupReturns, loop, vars
    <3> QED
      BY <3>1, <3>2
  <2> QED
    BY <2>1, <2>2
<1> QED
  BY <1>1, <1>2, AlwaysInv, PTL DEF Spec

(* An event registered and quiet when select ran is not called back.       *)
THEOREM QuietIsLeftAlone == Spec => QuietNotDispatched
<1>1. Inv /\ Dispatch => it.pair.key \notin quiet[phase]
  BY IterFacts DEF Inv, QuietKept, Dispatch, AtEntry, Handling, Flagged
<1>2. Inv /\ [Next]_vars => [Dispatch => it.pair.key \notin quiet[phase]]_vars
  BY <1>1
<1> QED
  BY <1>2, AlwaysInv, PTL DEF Spec, QuietNotDispatched


-----------------------------------------------------------------------------
(* The select backend is an event base: its steps, seen through the states *)
(* of the events, are those of EventBase or leave them alone.              *)
States == [e \in Event |-> evs[e].state]

(* Nothing is in progress for the event base when no callback is.          *)
LEMMA QuietIffEmpty ==
  ASSUME Inv
  PROVE  /\ Base!Quiet <=> stack = <<>>
         /\ Base!ClientRuns <=> ClientRuns
<1>1. stack \in Seq(Frame)
  BY DEF Inv, TypeOK, Frame
<1>2. ASSUME stack = <<>> PROVE Calling = {} /\ \A e \in Event : evs[e].state # "dying"
  BY <1>2 DEF Calling, Inv, FramesSound
<1>3. ASSUME stack # <<>> PROVE Calling # {} \/ \E e \in Event : evs[e].state = "dying"
  <2>1. 1 \in DOMAIN stack
    BY <1>1, <1>3
  <2>2. /\ stack[1].ev \in Event
        /\ evs[stack[1].ev].state = IF stack[1].op = "call" THEN "held" ELSE "dying"
    BY <2>1, FrameFacts DEF Inv
  <2>3. stack[1].op = "call" => stack[1].ev \in Calling
    BY <2>1 DEF Calling
  <2> QED
    BY <2>2, <2>3
<1>4. Base!Quiet <=> stack = <<>>
  BY <1>2, <1>3 DEF Base!Quiet, Base!Dying
<1> QED
  BY <1>4 DEF Base!ClientRuns, ClientRuns, Mode, Inv, TypeOK

(* A step that moves one event and no other.                               *)
LEMMA EventMoves ==
  ASSUME NEW e \in Event, NEW from, NEW to,
         evs[e].state = from, evs'[e].state = to,
         \A g \in Event : g # e => evs'[g].state = evs[g].state
  PROVE  Base!Moves(e, from, to)
<1>1. States[e] = from /\ States' = [States EXCEPT ![e] = to]
  BY DEF States
<1> QED
  BY <1>1 DEF Base!Moves, States

(* An added event is held from now on.                                     *)
LEMMA EventAddMaps ==
  ASSUME Inv, NEW s \in Sock, NEW type \in Types, NEW e \in Event, EventAdd(e, s, type)
  PROVE  Base!Add(e)
<1>1. /\ ClientRuns /\ evs[e] = Idle /\ evs' = [evs EXCEPT ![e] = Held(s, type)]
      /\ UNCHANGED <<term_flag, pc, stack>>
  BY DEF EventAdd, loop
<1>2. evs[e].state = "client" /\ evs'[e].state = "held"
  BY <1>1 DEF Inv, TypeOK, Held, Idle
<1>3. \A g \in Event : g # e => evs'[g].state = evs[g].state
  BY <1>1 DEF Inv, TypeOK
<1>4. Base!Moves(e, "client", "held")
  BY <1>2, <1>3, EventMoves
<1> QED
  BY <1>1, <1>4, QuietIffEmpty DEF Base!Add, Calling, Mode

(* A deleted event is not the one whose callback runs.                     *)
LEMMA EventDelMaps ==
  ASSUME Inv, NEW s \in Sock, NEW type \in Types, EventDel(s, type)
  PROVE  Base!Next \/ UNCHANGED Base!vars
<1> DEFINE x == SetOf(type)
<1>1. /\ x \in Sets /\ ClientRuns /\ ~UnderIterator(x, s)
      /\ UNCHANGED <<term_flag, pc>>
  BY DEF EventDel, SetOf, Sets, loop, base
<1>2. CASE ~HasKey(ht[x], s)
  <2>1. UNCHANGED <<evs, stack>>
    BY <1>2 DEF EventDel
  <2> QED
    BY <1>1, <2>1 DEF Base!vars, Calling, Mode
<1>3. CASE HasKey(ht[x], s)
  <2>1. PICK e \in Event : e = Lookup(ht[x], s).val
    BY <1>1, <1>3, LookedUp
  <2> DEFINE f == [op |-> "del", ev |-> e]
  <2>2. /\ evs' = [evs EXCEPT ![e].state = "dying"]
        /\ stack' = <<f>> \o stack
    BY <1>3, <2>1 DEF EventDel
  <2>3. evs[e].state = "held" /\ evs[e].fd = s /\ SetOf(evs[e].type) = x
    <3>1. \A y \in Sets : HasKey(ht[y], s) =>
            LET g == Lookup(ht[y], s).val
            IN  evs[g].state = "held" /\ evs[g].fd = s /\ SetOf(evs[g].type) = y
      BY LookedUp
    <3> HIDE DEF x
    <3> QED
      BY <1>1, <1>3, <2>1, <3>1
  <2>4. stack \in Seq(Frame) /\ f \in Frame /\ f.op = "del"
    BY DEF Inv, TypeOK, Frame
  <2> HIDE DEF f, x
  <2>5. /\ \A i \in DOMAIN stack' :
             i = 1 \/ (i - 1 \in DOMAIN stack /\ stack'[i] = stack[i - 1])
        /\ 1 \in DOMAIN stack' /\ stack'[1] = f
        /\ \A i \in DOMAIN stack : i + 1 \in DOMAIN stack' /\ stack'[i + 1] = stack[i]
    BY <2>2, <2>4, Pushed
  <2>6. Calling' = Calling
    BY <2>4, <2>5 DEF Calling
  <2>7. e \notin Calling
    <3> SUFFICES ASSUME NEW i \in DOMAIN stack, stack[i].op = "call", stack[i].ev = e
                 PROVE  FALSE
      BY DEF Calling
    <3>1. ~Ended(it) /\ it.pair.val = e
      BY DEF Inv, FramesSound
    <3>2. pc = "handle" /\ it.pair.key = s /\ it.pair \in Entries(ht[phase]) /\ phase \in Sets
      BY <2>3, <3>1, IterFacts
    <3>3. phase = x
      BY <2>3, <3>1, <3>2, EntryFacts DEF Inv
    <3> QED
      BY <1>1, <3>1, <3>2, <3>3 DEF UnderIterator
  <2>8. Base!Moves(e, "held", "dying")
    <3>1. evs'[e].state = "dying" /\ \A g \in Event : g # e => evs'[g].state = evs[g].state
      BY <2>2, <2>3, Dying DEF Inv
    <3> QED
      BY <2>3, <3>1, EventMoves
  <2>9. Base!Delete(e)
    BY <1>1, <2>6, <2>7, <2>8, QuietIffEmpty DEF Base!Delete, Mode
  <2> QED
    BY <2>9 DEF Base!Next
<1> QED
  BY <1>2, <1>3

(* mcl_evbase_destroy finds every event that is not the client's.          *)
LEMMA DestroyAndNewMaps ==
  ASSUME Inv, DestroyAndNew
  PROVE  Base!Renew
<1>1. /\ pc = "main" /\ stack = <<>> /\ term_flag' = FALSE /\ UNCHANGED <<pc, stack>>
  BY DEF DestroyAndNew, loop
<1>2. ASSUME NEW e \in Event PROVE evs'[e].state = "client"
  <2>1. CASE \E x \in Sets : \E p \in Entries(ht[x]) : p.val = e
    BY <2>1 DEF DestroyAndNew, Idle
  <2>2. CASE ~\E x \in Sets : \E p \in Entries(ht[x]) : p.val = e
    <3>1. evs'[e] = evs[e]
      BY <2>2 DEF DestroyAndNew
    <3>2. evs[e].state # "dying"
      BY <1>1 DEF Inv, FramesSound
    <3>3. ASSUME evs[e] # Idle PROVE FALSE
      <4>1. evs[e].state = "held" /\ evs[e].fd \in Fd /\ SetOf(evs[e].type) \in Sets
        BY <3>2, <3>3 DEF Inv, TypeOK, SetOf, Sets
      <4>2. Registered(SetOf(evs[e].type), evs[e].fd, e)
        BY <4>1 DEF Inv, TablesHoldEvents
      <4> QED
        BY <2>2, <4>1, <4>2 DEF Registered
    <3> QED
      BY <3>1, <3>3 DEF Idle
  <2> QED
    BY <2>1, <2>2
<1> QED
  BY <1>1, <1>2, QuietIffEmpty DEF Base!Renew, Calling, Mode

(* handle_events calls back an event that is held, and nothing else.       *)
LEMMA DispatchMaps ==
  ASSUME Inv, Dispatch
  PROVE  Base!Next
<1>1. /\ stack = <<>> /\ ~Ended(it) /\ pc = "handle"
      /\ stack' = <<[op |-> "call", ev |-> it.pair.val]>>
      /\ UNCHANGED <<evs, pc, term_flag>>
  BY DEF Dispatch, AtEntry, Handling, base, loop
<1>2. PICK e \in Event : e = it.pair.val /\ evs[e].state = "held"
  BY <1>1, IterFacts
<1>3. Calling' = {e}
  <2> DEFINE f == [op |-> "call", ev |-> e]
  <2>1. stack' = <<f>> /\ f.op = "call" /\ f.ev = e
    BY <1>1, <1>2
  <2> HIDE DEF f
  <2>2. DOMAIN stack' = {1} /\ stack'[1] = f
    BY <2>1
  <2> QED
    BY <2>1, <2>2 DEF Calling
<1>4. Base!Call(e)
  BY <1>1, <1>2, <1>3, QuietIffEmpty DEF Base!Call, Mode
<1> QED
  BY <1>4 DEF Base!Next

(* Only one callback of the loop is in progress.                           *)
LEMMA CallbackReturnsMaps ==
  ASSUME Inv, CallbackReturns
  PROVE  Base!Next
<1>1. /\ stack # <<>> /\ Head(stack).op = "call" /\ UNCHANGED <<term_flag, pc>>
  BY DEF CallbackReturns, base
<1>2. PICK e \in Event : e = Head(stack).ev /\ e = it.pair.val /\ evs[e].state = "held"
  BY <1>1, BelowCall, IterFacts
<1> DEFINE below == Tail(stack)
<1>3. below \in Seq(Frame) /\ \A i \in DOMAIN below : below[i].op # "call"
  BY <1>1, BelowCall
<1>4. 1 \in DOMAIN stack /\ stack[1].op = "call" /\ stack[1].ev = e
  BY <1>1, <1>2, Popped DEF Inv, TypeOK, Frame
<1>5. Calling = {e}
  <2>1. \A i \in DOMAIN stack : stack[i].op = "call" => stack[i].ev = e
    BY <1>2 DEF Inv, FramesSound
  <2> QED
    BY <1>4, <2>1 DEF Calling
<1>6. CASE stack' = below /\ UNCHANGED evs
  <2>1. Calling' = {}
    BY <1>3, <1>6 DEF Calling
  <2>2. Base!CallReturns(e)
    BY <1>1, <1>5, <1>6, <2>1 DEF Base!CallReturns, Mode
  <2> QED
    BY <2>2 DEF Base!Next
<1>7. CASE /\ evs' = [evs EXCEPT ![e].state = "dying"]
           /\ stack' = <<[op |-> "erase", ev |-> e]>> \o below
  <2> DEFINE f == [op |-> "erase", ev |-> e]
  <2>1. f \in Frame /\ f.op = "erase" /\ stack' = <<f>> \o below
    BY <1>7 DEF Frame
  <2> HIDE DEF f, below
  <2>2. /\ stack'[1] = f
        /\ \A i \in DOMAIN stack' :
             i = 1 \/ (i - 1 \in DOMAIN below /\ stack'[i] = below[i - 1])
    BY <1>3, <2>1, Pushed
  <2>3. \A i \in DOMAIN stack' : stack'[i].op # "call"
    BY <1>3, <2>1, <2>2
  <2>4. Calling' = {}
    BY <2>3 DEF Calling
  <2>5. Base!Moves(e, "held", "dying")
    <3>1. evs'[e].state = "dying" /\ \A g \in Event : g # e => evs'[g].state = evs[g].state
      BY <1>2, <1>7, Dying DEF Inv
    <3> QED
      BY <1>2, <3>1, EventMoves
  <2>6. Base!CallReturns(e)
    BY <1>1, <1>5, <2>4, <2>5 DEF Base!CallReturns, Mode
  <2> QED
    BY <2>6 DEF Base!Next
<1> QED
  BY <1>2, <1>6, <1>7 DEF CallbackReturns

(* event_ht_free ends a deletion.                                          *)
LEMMA CleanupReturnsMaps ==
  ASSUME Inv, CleanupReturns
  PROVE  Base!Next
<1> DEFINE below == Tail(stack)
<1>1. /\ stack # <<>> /\ Head(stack).op # "call" /\ stack' = below
      /\ evs' = [evs EXCEPT ![Head(stack).ev] = Idle]
      /\ UNCHANGED <<term_flag, pc>>
  BY DEF CleanupReturns, base, loop
<1>2. /\ 1 \in DOMAIN stack /\ Head(stack) = stack[1]
      /\ \A i \in DOMAIN below :
           i + 1 \in DOMAIN stack /\ i + 1 # 1 /\ below[i] = stack[i + 1]
      /\ \A i \in DOMAIN stack :
           i # 1 => i - 1 \in DOMAIN below /\ below[i - 1] = stack[i]
  BY <1>1, Popped DEF Inv, TypeOK, Frame
<1>3. PICK e \in Event : e = Head(stack).ev /\ evs[e].state = "dying"
  BY <1>1, <1>2, FrameFacts DEF Inv
<1> HIDE DEF below
<1>4. evs'[e].state = "client" /\ \A g \in Event : g # e => evs'[g].state = evs[g].state
  BY <1>1, <1>3 DEF Inv, TypeOK, Idle
<1>5. Base!Moves(e, "dying", "client")
  BY <1>3, <1>4, EventMoves
<1>6. Calling' = Calling
  BY <1>1, <1>2 DEF Calling
<1>7. Base!Freed(e)
  BY <1>1, <1>5, <1>6 DEF Base!Freed, Mode
<1> QED
  BY <1>7 DEF Base!Next

(* Every step of the select loop is one of the event base, or none.        *)
THEOREM SelectIsEventBase == Spec => ImplementsBase
<1>1. Init => Base!Init
  <2> SUFFICES ASSUME Init PROVE Base!Init
    OBVIOUS
  <2>1. \A e \in Event : evs[e].state = "client"
    BY DEF Init, Idle
  <2>2. Calling = {} /\ Mode = "main" /\ term_flag = FALSE
    BY DEF Init, Calling, Mode
  <2> QED
    BY <2>1, <2>2 DEF Base!Init
<1>2. Inv /\ [Next]_vars => [Base!Next]_(Base!vars)
  <2> SUFFICES ASSUME Inv, [Next]_vars
               PROVE  Base!Next \/ UNCHANGED Base!vars
    OBVIOUS
  <2>1. CASE UNCHANGED vars \/ \E s \in Sock, type \in Types :
               EventAddRefused(s, type) \/ EventDelRefused(s, type)
    <3>1. UNCHANGED <<evs, stack, pc, term_flag>>
      BY <2>1 DEF EventAddRefused, EventDelRefused, vars, base, loop
    <3> QED
      BY <3>1 DEF Base!vars, Calling, Mode
  <2>2. CASE \E s \in Sock, type \in Types, e \in Event : EventAdd(e, s, type)
    BY <2>2, EventAddMaps DEF Base!Next
  <2>3. CASE \E s \in Sock, type \in Types : EventDel(s, type)
    BY <2>3, EventDelMaps
  <2>4. CASE LoopExit
    <3>1. Base!LoopExit
      BY <2>4, QuietIffEmpty DEF LoopExit, loop, Base!LoopExit, Calling, Mode
    <3> QED
      BY <3>1 DEF Base!Next
  <2>5. CASE \E t \in {"NULL", "all"} : EventLoop(t)
    <3>1. /\ pc = "main" /\ stack = <<>> /\ pc' = "top"
          /\ UNCHANGED <<evs, stack, term_flag>>
      BY <2>5 DEF EventLoop, base
    <3>2. Base!Start
      BY <3>1, QuietIffEmpty DEF Base!Start, Calling, Mode
    <3> QED
      BY <3>2 DEF Base!Next
  <2>6. CASE DestroyAndNew
    BY <2>6, DestroyAndNewMaps DEF Base!Next
  <2>7. CASE LoopReturns \/ SelectError
    <3>1. /\ stack = <<>> /\ pc' = "main" /\ UNCHANGED <<evs, stack, term_flag>>
          /\ pc = "select" \/ (pc = "top" /\ term_flag)
      BY <2>7 DEF LoopReturns, SelectError, base, Inv, StackPlaced
    <3>2. Base!Return
      BY <3>1, QuietIffEmpty DEF Base!Return, Calling, Mode
    <3> QED
      BY <3>2 DEF Base!Next
  <2>8. CASE InitFds
    <3>1. /\ stack = <<>> /\ pc = "top" /\ ~term_flag /\ pc' = "select"
          /\ UNCHANGED <<evs, stack, term_flag>>
      BY <2>8 DEF InitFds, base, Inv, StackPlaced
    <3>2. Base!Wait
      BY <3>1, QuietIffEmpty DEF Base!Wait, Calling, Mode
    <3> QED
      BY <3>2 DEF Base!Next
  <2>9. CASE SelectTimeout \/ \E ready \in [Sets -> SUBSET Fd] : SelectReady(ready)
    <3>1. /\ pc = "select" /\ pc' \in {"top", "handle"}
          /\ UNCHANGED <<evs, stack, term_flag>>
      BY <2>9 DEF SelectTimeout, SelectReady, base
    <3>2. Base!Woken
      BY <3>1 DEF Base!Woken, Calling, Mode
    <3> QED
      BY <3>2 DEF Base!Next
  <2>10. CASE PassEntry \/ EndSet
    <3>1. /\ pc = "handle" /\ pc' \in {"top", "handle"}
          /\ UNCHANGED <<evs, stack, term_flag>>
      BY <2>10 DEF PassEntry, EndSet, AtEntry, Handling, base
    <3> QED
      BY <3>1 DEF Base!vars, Calling, Mode
  <2>11. CASE Dispatch
    BY <2>11, DispatchMaps
  <2>12. CASE CallbackReturns
    BY <2>12, CallbackReturnsMaps
  <2>13. CASE CleanupReturns
    BY <2>13, CleanupReturnsMaps
  <2> QED
    BY <2>1, <2>2, <2>3, <2>4, <2>5, <2>6, <2>7, <2>8, <2>9, <2>10, <2>11, <2>12, <2>13
       DEF Next, ClientCalls, Select, LoopSteps, Returns
<1> QED
  BY <1>1, <1>2, AlwaysInv, PTL DEF Spec, ImplementsBase, Base!Spec


-----------------------------------------------------------------------------
(***************************************************************************)
(* A round serves all that select reported.  What is still to be called    *)
(* back in the set being handled is under the iterator or ahead of it, and *)
(* in every set it is registered with its bit on: callbacks that delete it *)
(* take it back, those that delete other events or add some do not hide    *)
(* it, and no cleanup callback in progress is about to clear its bit.      *)
(***************************************************************************)
Coming(t, j) == IF Ended(j) THEN {} ELSE {j.pair.key} \cup Ahead(t, j)

PendingAhead ==
  pc = "handle" =>
    /\ \A x \in Sets : pending[x] \subseteq fds[x] \cap Keys(ht[x])
    /\ pending[phase] \subseteq Coming(ht[phase], it)

Served ==
  \A i \in DOMAIN stack :
    /\ stack[i].op = "call" => it.pair.key \notin pending[phase]
    /\ stack[i].op = "erase" => evs[stack[i].ev].fd \notin pending[phase]

LEMMA SetFacts ==
  ASSUME Inv
  PROVE  /\ phase \in Sets /\ "in" \in Sets
         /\ \A x \in Sets : /\ ht[x] \in Tables(Pair)
                            /\ WellPlaced(ht[x]) /\ NoDuplicate(ht[x])
         /\ it \in Iters(Pair) /\ OnEntry(ht[phase], it)
BY TableFacts DEF Inv, TypeOK, TablesSound, IteratorLinked, OnEntry, Sets

LEMMA ComingHead ==
  ASSUME Inv, NEW x \in Sets
  PROVE  Coming(ht[x], IterHead(ht[x])) = Keys(ht[x])
BY SetFacts, AheadOfHead DEF Coming

LEMMA ComingNext ==
  ASSUME Inv, ~Ended(it)
  PROVE  Coming(ht[phase], IterNext(ht[phase], it)) = Ahead(ht[phase], it)
<1>1. PICK t : t = ht[phase]
  OBVIOUS
<1>2. PICK j : j = IterNext(t, it)
  OBVIOUS
<1>3. t \in Tables(Pair) /\ WellPlaced(t) /\ NoDuplicate(t) /\ OnEntry(t, it)
  BY <1>1, SetFacts
<1>4. IF Ended(j) THEN Ahead(t, it) = {}
                  ELSE /\ j.pair.key \in Ahead(t, it)
                       /\ Ahead(t, j) = Ahead(t, it) \ {j.pair.key}
  BY <1>2, <1>3, SetFacts, AheadOfNext
<1>5. Coming(t, j) = Ahead(t, it)
  BY <1>4 DEF Coming
<1> QED
  BY <1>1, <1>2, <1>5

LEMMA SameRound ==
  ASSUME PendingAhead, Served,
         UNCHANGED <<ht, fds, evs, pc, phase, it, stack, pending>>
  PROVE  PendingAhead' /\ Served'
BY DEF PendingAhead, Served

LEMMA EventAddRound ==
  ASSUME Inv, PendingAhead, Served, NEW s \in Sock, NEW type \in Types, NEW e \in Event,
         EventAdd(e, s, type)
  PROVE  PendingAhead' /\ Served'
<1>1. PICK x \in Sets : x = SetOf(type)
  BY DEF SetOf, Sets
<1>2. PICK p : p = [key |-> s, val |-> e]
  OBVIOUS
<1>3. /\ s \in Fd /\ evs[e] = Idle /\ Available(s) /\ ~HasKey(ht[x], s)
      /\ ht' = [ht EXCEPT ![x] = WithPair(@, p)]
      /\ fds' = [fds EXCEPT ![x] = @ \cup {s}]
      /\ evs' = [evs EXCEPT ![e] = Held(s, type)]
      /\ UNCHANGED <<pc, phase, it, stack, pending>>
  BY <1>1, <1>2 DEF EventAdd, CanAdd, Fd, loop, round
<1>4. p \in Pair /\ p.key = s
  BY <1>2, <1>3 DEF Pair
<1>5. /\ Entries(WithPair(ht[x], p)) = Entries(ht[x]) \cup {p}
      /\ ht'[x] = WithPair(ht[x], p) /\ \A y \in Sets : y # x => ht'[y] = ht[y]
  <2>1. ht[x] \in Tables(Pair) /\ Available(p.key)
    BY <1>3, <1>4, SetFacts
  <2>2. Entries(WithPair(ht[x], p)) = Entries(ht[x]) \cup {p}
    BY <1>4, <2>1, WithPairAdds
  <2>3. ht'[x] = WithPair(ht[x], p) /\ \A y \in Sets : y # x => ht'[y] = ht[y]
    BY <1>3 DEF Inv, TypeOK
  <2> QED
    BY <2>2, <2>3
<1>6. \A y \in Sets : Keys(ht[y]) \subseteq Keys(ht'[y]) /\ fds[y] \subseteq fds'[y]
  BY <1>3, <1>5 DEF Keys, Inv, TypeOK
<1>7. Coming(ht[phase], it) \subseteq Coming(ht'[phase], it)
  <2>1. CASE Ended(it)
    BY <2>1 DEF Coming
  <2>2. CASE ~Ended(it) /\ phase = x
    <3>1. Ahead(ht[x], it) \subseteq Ahead(WithPair(ht[x], p), it)
      BY <1>3, <1>4, <2>2, SetFacts, AheadGrows
    <3> QED
      BY <1>5, <2>2, <3>1 DEF Coming
  <2>3. CASE phase # x
    BY <1>5, <2>3, SetFacts
  <2> QED
    BY <2>1, <2>2, <2>3
<1>8. PendingAhead'
  BY <1>3, <1>6, <1>7 DEF PendingAhead
<1>9. Served'
  <2>1. \A i \in DOMAIN stack : evs'[stack[i].ev] = evs[stack[i].ev]
    <3> SUFFICES ASSUME NEW i \in DOMAIN stack PROVE stack[i].ev \in Event /\ stack[i].ev # e
      BY <1>3 DEF Inv, TypeOK
    <3> QED
      BY <1>3, FrameFacts DEF Inv
  <2> QED
    BY <1>3, <2>1 DEF Served
<1> QED
  BY <1>8, <1>9

LEMMA EventDelRound ==
  ASSUME Inv, PendingAhead, Served, NEW s \in Sock, NEW type \in Types, EventDel(s, type)
  PROVE  PendingAhead' /\ Served'
<1>1. PICK x \in Sets : x = SetOf(type)
  BY DEF SetOf, Sets
<1>2. /\ ~UnderIterator(x, s) /\ fds' = [fds EXCEPT ![x] = @ \ {s}]
      /\ UNCHANGED <<pc, phase, it>>
  BY <1>1 DEF EventDel, loop
<1>3. \A y \in Sets : fds'[y] = IF y = x THEN fds[y] \ {s} ELSE fds[y]
  BY <1>2 DEF Inv, TypeOK
<1>4. CASE ~HasKey(ht[x], s)
  <2>1. UNCHANGED <<ht, evs, stack, pending>>
    BY <1>1, <1>4 DEF EventDel
  <2>2. s \notin Keys(ht[x])
    BY <1>1, <1>4, SetFacts, HasKeyIsEntry DEF Keys
  <2>3. PendingAhead'
    BY <1>2, <1>3, <2>1, <2>2 DEF PendingAhead
  <2>4. Served'
    BY <1>2, <2>1 DEF Served
  <2> QED
    BY <2>3, <2>4
<1>5. CASE HasKey(ht[x], s)
  <2>1. PICK old : old = Lookup(ht[x], s)
    OBVIOUS
  <2>2. PICK f : f = [op |-> "del", ev |-> old.val]
    OBVIOUS
  <2>3. /\ ht' = [ht EXCEPT ![x] = Without(@, s)]
        /\ evs' = [evs EXCEPT ![old.val].state = "dying"]
        /\ stack' = <<f>> \o stack
        /\ pending' = [pending EXCEPT ![x] = @ \ {s}]
    BY <1>1, <1>5, <2>1, <2>2 DEF EventDel
  <2>4. /\ Lookup(ht[x], s).key = s /\ old \in Entries(ht[x])
        /\ Entries(Without(ht[x], s)) = Entries(ht[x]) \ {old}
        /\ \A p \in Entries(ht[x]) : p.key = s => p = old
    BY <1>1, <1>5, <2>1, SetFacts, WithoutRemoves
  <2>5. /\ ht'[x] = Without(ht[x], s) /\ \A y \in Sets : y # x => ht'[y] = ht[y]
        /\ \A y \in Sets : pending'[y] = IF y = x THEN pending[y] \ {s} ELSE pending[y]
    BY <2>3 DEF Inv, TypeOK
  <2>6. \A y \in Sets : Keys(ht'[y]) = IF y = x THEN Keys(ht[y]) \ {s} ELSE Keys(ht[y])
    BY <2>1, <2>4, <2>5 DEF Keys
  <2>7. phase = x => Coming(ht[phase], it) \ {s} \subseteq Coming(ht'[phase], it)
    <3>1. CASE Ended(it)
      BY <3>1 DEF Coming
    <3>2. CASE ~Ended(it) /\ phase = x
      <4>1. it.pair.key # s
        <5>1. pc = "handle"
          BY <3>2 DEF Inv, IteratorLinked
        <5> QED
          BY <1>2, <3>2, <5>1 DEF UnderIterator
      <4>2. Ahead(Without(ht[x], s), it) = Ahead(ht[x], it) \ {s}
        BY <1>5, <3>2, <4>1, SetFacts, AheadShrinks
      <4> QED
        BY <2>5, <3>2, <4>1, <4>2 DEF Coming
    <3> QED
      BY <3>1, <3>2
  <2>8. PendingAhead'
    BY <1>2, <1>3, <2>5, <2>6, <2>7, SetFacts DEF PendingAhead
  <2>9. /\ old.val \in Event /\ evs[old.val].state = "held"
        /\ \A g \in Event : evs'[g].fd = evs[g].fd
    <3>1. old.val \in Event /\ evs[old.val].state = "held"
      BY <2>4, EntryFacts DEF Inv
    <3> QED
      BY <2>3, <3>1, Dying DEF Inv
  <2>10. f \in Frame /\ f.op = "del" /\ stack \in Seq(Frame)
    BY <2>2, <2>9 DEF Inv, TypeOK, Frame
  <2>11. /\ stack'[1] = f
         /\ \A i \in DOMAIN stack' :
              i = 1 \/ (i - 1 \in DOMAIN stack /\ stack'[i] = stack[i - 1])
    BY <2>3, <2>10, Pushed
  <2>12. \A y \in Sets : pending'[y] \subseteq pending[y]
    BY <2>5
  <2>13. Served'
    <3> SUFFICES ASSUME NEW i \in DOMAIN stack'
                 PROVE  /\ stack'[i].op = "call" => it.pair.key \notin pending'[phase]
                        /\ stack'[i].op = "erase" => evs'[stack'[i].ev].fd \notin pending'[phase]
      BY <1>2 DEF Served
    <3>1. CASE i = 1
      BY <2>10, <2>11, <3>1
    <3>2. CASE i # 1
      <4>1. i - 1 \in DOMAIN stack /\ stack'[i] = stack[i - 1]
        BY <2>11, <3>2
      <4>2. stack[i - 1].ev \in Event
        BY <4>1, FrameFacts DEF Inv
      <4> QED
        BY <2>9, <2>12, <4>1, <4>2, SetFacts DEF Served
    <3> QED
      BY <3>1, <3>2
  <2> QED
    BY <2>8, <2>13
<1> QED
  BY <1>4, <1>5

(* Outside of a round there is nothing to serve.                           *)
LEMMA OutsideRound ==
  ASSUME pc' # "handle", stack' = <<>>
  PROVE  PendingAhead' /\ Served'
BY DEF PendingAhead, Served

LEMMA SelectReadyRound ==
  ASSUME Inv, NEW ready \in [Sets -> SUBSET Fd], SelectReady(ready)
  PROVE  PendingAhead' /\ Served'
<1>1. /\ stack = <<>> /\ stack' = stack /\ fds' = ready /\ pending' = ready /\ ht' = ht
      /\ phase' = "in" /\ it' = IterHead(ht["in"])
      /\ \A x \in Sets : ready[x] \subseteq fds[x]
  BY DEF SelectReady, Inv, StackPlaced
<1>2. \A x \in Sets : fds[x] \subseteq Keys(ht[x])
  BY <1>1 DEF Inv, BitsBacked
<1>3. Coming(ht["in"], it') = Keys(ht["in"])
  BY <1>1, SetFacts, ComingHead
<1> QED
  BY <1>1, <1>2, <1>3, SetFacts DEF PendingAhead, Served

LEMMA EndSetRound ==
  ASSUME Inv, PendingAhead, EndSet
  PROVE  PendingAhead' /\ Served'
<1>1. pc = "handle" /\ stack = <<>> /\ UNCHANGED <<ht, fds, stack>>
  BY DEF EndSet, Handling
<1>2. CASE phase = "exp"
  BY <1>1, <1>2, OutsideRound DEF EndSet
<1>3. CASE phase # "exp"
  <2>1. phase' \in Sets /\ it' = IterHead(ht[phase']) /\ UNCHANGED pending
    BY <1>3 DEF EndSet, round, Sets
  <2>2. Coming(ht[phase'], it') = Keys(ht[phase'])
    BY <2>1, ComingHead
  <2> QED
    BY <1>1, <2>1, <2>2 DEF PendingAhead, Served
<1> QED
  BY <1>2, <1>3

(* An entry passed over was not reported, or was called back already.      *)
LEMMA PassEntryRound ==
  ASSUME Inv, PendingAhead, PassEntry
  PROVE  PendingAhead' /\ Served'
<1>1. /\ pc = "handle" /\ stack = <<>> /\ ~Ended(it) /\ it.pair.key \notin fds[phase]
      /\ it' = IterNext(ht[phase], it)
      /\ UNCHANGED <<ht, fds, pc, phase, stack, pending>>
  BY DEF PassEntry, AtEntry, Handling, Flagged, round
<1>2. Coming(ht[phase], it') = Ahead(ht[phase], it)
  BY <1>1, ComingNext
<1>3. pending[phase] \subseteq Ahead(ht[phase], it)
  BY <1>1, SetFacts DEF PendingAhead, Coming
<1> QED
  BY <1>1, <1>2, <1>3 DEF PendingAhead, Served

LEMMA DispatchRound ==
  ASSUME Inv, PendingAhead, Dispatch
  PROVE  PendingAhead' /\ Served'
<1>1. /\ stack' = <<[op |-> "call", ev |-> it.pair.val]>>
      /\ pending' = [pending EXCEPT ![phase] = @ \ {it.pair.key}]
      /\ UNCHANGED <<ht, fds, pc, phase, it>>
  BY DEF Dispatch, loop
<1>2. \A x \in Sets : pending'[x] = IF x = phase THEN pending[x] \ {it.pair.key} ELSE pending[x]
  BY <1>1 DEF Inv, TypeOK
<1>3. PendingAhead'
  BY <1>1, <1>2, SetFacts DEF PendingAhead
<1>4. Served'
  BY <1>1, <1>2, SetFacts DEF Served
<1> QED
  BY <1>3, <1>4

LEMMA CallbackReturnsRound ==
  ASSUME Inv, PendingAhead, Served, CallbackReturns
  PROVE  PendingAhead' /\ Served'
<1>1. PICK s : s = it.pair.key
  OBVIOUS
<1>2. PICK e : e = it.pair.val
  OBVIOUS
<1>3. PICK below : below = Tail(stack)
  OBVIOUS
<1>4. /\ stack # <<>> /\ Head(stack).op = "call"
      /\ it' = IterNext(ht[phase], it)
      /\ UNCHANGED <<fds, pc, phase, pending>>
  BY DEF CallbackReturns, round
<1>5. /\ ~Ended(it) /\ Head(stack).ev = e /\ below \in Seq(Frame)
      /\ \A i \in DOMAIN below :
           below[i].ev \in Event /\ below[i].ev # e /\ below[i].op # "call"
  BY <1>2, <1>3, <1>4, BelowCall
<1>6. /\ pc = "handle" /\ phase \in Sets /\ e \in Event
      /\ evs[e].state = "held" /\ evs[e].fd = s /\ HasKey(ht[phase], s)
      /\ Lookup(ht[phase], s) = it.pair /\ it.pair \in Entries(ht[phase])
      /\ it' \in Iters(Pair) /\ OnEntry(ht[phase], it')
      /\ ~Ended(it') => it'.pair.key # s
  BY <1>1, <1>2, <1>4, <1>5, IterFacts
<1>7. stack \in Seq(Frame)
  BY DEF Inv, TypeOK, Frame
<1>8. /\ 1 \in DOMAIN stack /\ Head(stack) = stack[1]
      /\ \A i \in DOMAIN below : i + 1 \in DOMAIN stack /\ below[i] = stack[i + 1]
  BY <1>3, <1>4, <1>7, Popped
<1>9. s \notin pending[phase]
  BY <1>1, <1>4, <1>8 DEF Served
<1>10. Coming(ht[phase], it') = Ahead(ht[phase], it)
  BY <1>4, <1>5, ComingNext
<1>11. pending[phase] \subseteq Coming(ht[phase], it')
  BY <1>1, <1>5, <1>6, <1>9, <1>10 DEF PendingAhead, Coming
<1>12. \A i \in DOMAIN below :
         below[i].op = "erase" => evs[below[i].ev].fd \notin pending[phase]
  BY <1>8 DEF Served
<1>13. CASE Kept(e)
  <2>1. stack' = below /\ UNCHANGED <<ht, evs>>
    BY <1>3, <1>4, <1>5, <1>13 DEF CallbackReturns
  <2>2. PendingAhead'
    BY <1>4, <1>11, <2>1 DEF PendingAhead
  <2>3. Served'
    BY <1>4, <1>5, <1>12, <2>1 DEF Served
  <2> QED
    BY <2>2, <2>3
<1>14. CASE ~Kept(e)
  <2>1. PICK f : f = [op |-> "erase", ev |-> e]
    OBVIOUS
  <2>2. /\ ht' = [ht EXCEPT ![phase] = Without(@, s)]
        /\ evs' = [evs EXCEPT ![e].state = "dying"]
        /\ stack' = <<f>> \o below
    BY <1>1, <1>3, <1>4, <1>5, <1>14, <2>1 DEF CallbackReturns
  <2>3. /\ ht'[phase] = Without(ht[phase], s)
        /\ \A y \in Sets : y # phase => ht'[y] = ht[y]
    BY <2>2, SetFacts DEF Inv, TypeOK
  <2>4. /\ Entries(Without(ht[phase], s)) = Entries(ht[phase]) \ {it.pair}
    BY <1>6, SetFacts, WithoutRemoves
  <2>5. \A y \in Sets : Keys(ht[y]) \ {s} \subseteq Keys(ht'[y])
                        /\ (y # phase => Keys(ht'[y]) = Keys(ht[y]))
    BY <1>1, <2>3, <2>4 DEF Keys
  <2>6. Coming(ht[phase], it') \ {s} \subseteq Coming(ht'[phase], it')
    <3>1. CASE Ended(it')
      BY <3>1 DEF Coming
    <3>2. CASE ~Ended(it')
      <4>1. PICK j \in Iters(Pair) : j = it'
        BY <1>6
      <4>2. Ahead(Without(ht[phase], s), j) = Ahead(ht[phase], j) \ {s}
        BY <1>6, <3>2, <4>1, SetFacts, AheadShrinks
      <4> QED
        BY <2>3, <3>2, <4>1, <4>2 DEF Coming
    <3> QED
      BY <3>1, <3>2
  <2>7. PendingAhead'
    <3>1. \A y \in Sets : pending[y] \subseteq fds[y] \cap Keys(ht'[y])
      BY <1>6, <1>9, <2>5 DEF PendingAhead
    <3>2. pending[phase] \subseteq Coming(ht'[phase], it')
      BY <1>9, <1>11, <2>6
    <3> QED
      BY <1>4, <3>1, <3>2 DEF PendingAhead
  <2>8. \A g \in Event : evs'[g].fd = evs[g].fd
    BY <1>6, <2>2, Dying DEF Inv
  <2>9. f \in Frame /\ f.op = "erase" /\ f.ev = e
    BY <1>6, <2>1 DEF Frame
  <2>10. /\ stack'[1] = f
         /\ \A i \in DOMAIN stack' :
              i = 1 \/ (i - 1 \in DOMAIN below /\ stack'[i] = below[i - 1])
    BY <1>5, <2>2, <2>9, Pushed
  <2>11. Served'
    <3> SUFFICES ASSUME NEW i \in DOMAIN stack'
                 PROVE  /\ stack'[i].op # "call"
                        /\ stack'[i].op = "erase" => evs'[stack'[i].ev].fd \notin pending[phase]
      BY <1>4 DEF Served
    <3>1. CASE i = 1
      BY <1>6, <1>9, <2>8, <2>9, <2>10, <3>1
    <3>2. CASE i # 1
      <4>1. i - 1 \in DOMAIN below /\ stack'[i] = below[i - 1]
        BY <2>10, <3>2
      <4> QED
        BY <1>5, <1>12, <2>8, <4>1
    <3> QED
      BY <3>1, <3>2
  <2> QED
    BY <2>7, <2>11
<1> QED
  BY <1>13, <1>14

LEMMA CleanupReturnsRound ==
  ASSUME Inv, PendingAhead, Served, CleanupReturns
  PROVE  PendingAhead' /\ Served'
<1>1. PICK e : e = Head(stack).ev
  OBVIOUS
<1>2. PICK below : below = Tail(stack)
  OBVIOUS
<1>3. /\ stack # <<>> /\ Head(stack).op # "call" /\ stack' = below
      /\ evs' = [evs EXCEPT ![e] = Idle]
      /\ fds' = IF Head(stack).op = "erase" THEN [fds EXCEPT ![phase] = @ \ {evs[e].fd}] ELSE fds
      /\ UNCHANGED <<ht, pc, phase, it, pending>>
  BY <1>1, <1>2 DEF CleanupReturns, loop, round
<1>4. stack \in Seq(Frame)
  BY DEF Inv, TypeOK, Frame
<1>5. /\ 1 \in DOMAIN stack /\ Head(stack) = stack[1]
      /\ \A i \in DOMAIN below :
           i + 1 \in DOMAIN stack /\ i + 1 # 1 /\ below[i] = stack[i + 1]
  BY <1>2, <1>3, <1>4, Popped
<1>6. \A y \in Sets : fds'[y] = IF Head(stack).op = "erase" /\ y = phase
                                  THEN fds[y] \ {evs[e].fd} ELSE fds[y]
  BY <1>3 DEF Inv, TypeOK
<1>7. Head(stack).op = "erase" => evs[e].fd \notin pending[phase]
  BY <1>1, <1>5 DEF Served
<1>8. PendingAhead'
  BY <1>3, <1>6, <1>7 DEF PendingAhead
<1>9. \A i \in DOMAIN below : below[i].ev \in Event /\ below[i].ev # e
  <2> SUFFICES ASSUME NEW i \in DOMAIN below PROVE below[i].ev \in Event /\ below[i].ev # e
    OBVIOUS
  <2>1. i + 1 \in DOMAIN stack /\ i + 1 # 1 /\ below[i] = stack[i + 1]
    BY <1>5
  <2>2. stack[i + 1].ev \in Event
    BY <2>1, FrameFacts DEF Inv
  <2> QED
    BY <1>1, <1>5, <2>1, <2>2 DEF Inv, FramesSound
<1>10. \A i \in DOMAIN below : evs'[below[i].ev] = evs[below[i].ev]
  BY <1>3, <1>9 DEF Inv, TypeOK
<1>11. Served'
  BY <1>3, <1>5, <1>10 DEF Served
<1> QED
  BY <1>8, <1>11

LEMMA NextRound ==
  Inv /\ PendingAhead /\ Served /\ [Next]_vars => PendingAhead' /\ Served'
<1> SUFFICES ASSUME Inv, PendingAhead, Served, [Next]_vars PROVE PendingAhead' /\ Served'
  OBVIOUS
<1>1. CASE \E s \in Sock, type \in Types :
             \/ \E e \in Event : EventAdd(e, s, type)
             \/ EventAddRefused(s, type)
             \/ EventDel(s, type) \/ EventDelRefused(s, type)
  BY <1>1, EventAddRound, EventDelRound, SameRound
     DEF EventAddRefused, EventDelRefused, vars, base, loop, round
<1>2. CASE LoopExit
  BY <1>2, SameRound DEF LoopExit, loop, round
<1>3. CASE DestroyAndNew
  BY <1>3, OutsideRound DEF DestroyAndNew, loop
<1>4. CASE \/ \E t \in {"NULL", "all"} : EventLoop(t)
           \/ LoopReturns \/ InitFds \/ SelectTimeout \/ SelectError
  <2>1. pc' # "handle" /\ stack' = stack /\ stack = <<>>
    BY <1>4 DEF EventLoop, LoopReturns, InitFds, SelectTimeout, SelectError, Inv, StackPlaced
  <2> QED
    BY <2>1, OutsideRound
<1>5. CASE \E ready \in [Sets -> SUBSET Fd] : SelectReady(ready)
  BY <1>5, SelectReadyRound
<1>6. CASE PassEntry
  BY <1>6, PassEntryRound
<1>7. CASE Dispatch
  BY <1>7, DispatchRound
<1>8. CASE EndSet
  BY <1>8, EndSetRound
<1>9. CASE CallbackReturns
  BY <1>9, CallbackReturnsRound
<1>10. CASE CleanupReturns
  BY <1>10, CleanupReturnsRound
<1>11. CASE UNCHANGED vars
  BY <1>11, SameRound DEF vars, base, loop, round
<1> QED
  BY <1>1, <1>2, <1>3, <1>4, <1>5, <1>6, <1>7, <1>8, <1>9, <1>10, <1>11
     DEF Next, ClientCalls, Select, LoopSteps, Returns

(* When handle_events is through with a set, every event that select       *)
(* reported there was called back or deleted, whatever callbacks did.      *)
THEOREM EverySetIsServed == Spec => RoundServesAll
<1>1. Init => Inv /\ PendingAhead /\ Served
  BY InitInv DEF Init, PendingAhead, Served
<1>2. Inv /\ PendingAhead /\ Served /\ [Next]_vars => (Inv /\ PendingAhead /\ Served)'
  BY NextInv, NextRound
<1>3. ASSUME Inv, PendingAhead, EndSet PROVE pending[phase] = {}
  BY <1>3 DEF PendingAhead, Coming, EndSet, Handling
<1>4. Inv /\ PendingAhead /\ Served /\ [Next]_vars
        => [EndSet => pending[phase] = {}]_vars
  BY <1>3
<1> QED
  BY <1>1, <1>2, <1>4, PTL DEF Spec, RoundServesAll
=============================================================================
