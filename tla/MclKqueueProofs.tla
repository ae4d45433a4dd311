-------------------------- MODULE MclKqueueProofs --------------------------
(***************************************************************************)
(* The kqueue loop, for clients that keep both contracts and no more       *)
(* sockets than a chain has room for: its tables, the kernel's knotes, the *)
(* callbacks in progress and the batch agree on which events there are, and*)
(* the backend is an event base.                                           *)
(***************************************************************************)
EXTENDS MclKqueue, HashTableTheorems, FiniteSetTheorems

(* The limits of a process keep its sockets below MCL_LIST_MAX_SIZE.       *)
Careful ==
  /\ Contracts = {"Vacant", "Unbatched"}
  /\ IsFiniteSet(Fd) /\ Cardinality(Fd) <= MaxListSize

Dirs == {"rd", "wr"}
Pair == [key : Fd, val : Event]
Frame == [op : {"call", "del", "free"}, ev : Event]
Kept == [state : {"held", "dying"}, fd : Fd, type : Types]

(* The callbacks in progress, as a set; their events differ, and that of   *)
(* handle_events is the outermost.                                         *)
Frames == ToSet(stack)
Apart(s) == \A i, j \in DOMAIN s : s[i].ev = s[j].ev => i = j
CallsLast(s) == \A i \in DOMAIN s : s[i].op = "call" => i = Len(s)

Cleaning(e, op) == [op |-> op, ev |-> e] \in Frames

TablesSound == \A x \in Dirs : WellPlaced(ht[x]) /\ NoDuplicate(ht[x])

(* TablesHoldEvents, FramesSound and BatchLive, by what is in the tables,  *)
(* the stack and the batch and not by its place.                           *)
Listed(x, s, e) == [key |-> s, val |-> e] \in Entries(ht[x])
ToList(x, s, e) ==
  /\ evs[e].state = "held" \/ Cleaning(e, "del")
  /\ evs[e].fd = s /\ Table(evs[e].type) = x
TablesAgree ==
  \A x \in Dirs, s \in Fd, e \in Event : Listed(x, s, e) <=> ToList(x, s, e)

FramesAgree ==
  /\ \A f \in Frames : evs[f.ev].state = IF f.op = "call" THEN "held" ELSE "dying"
  /\ \A e \in Event : evs[e].state = "dying" => Cleaning(e, "del") \/ Cleaning(e, "free")

BatchAgrees ==
  /\ \A n \in ToSet(batch) :
       evs[n.ev] = Held(n.fd, evs[n.ev].type) /\ ~Cleaning(n.ev, "call")
  /\ \A i, j \in DOMAIN batch : batch[i].ev = batch[j].ev => i = j

(* Under the contracts no event is lost.                                   *)
NoneLost == evs \in [Event -> {Idle} \cup Kept]

(* Only a round works on a batch and calls back.                           *)
StackPlaced ==
  /\ pc \in {"top", "wait"} => stack = <<>>
  /\ pc # "handle" => batch = <<>>
  /\ \A f \in Frames : f.op = "call" => pc = "handle"

Inv ==
  /\ TypeOK
  /\ TablesSound
  /\ NoneLost
  /\ TablesAgree
  /\ KnotesBacked
  /\ FramesAgree
  /\ Apart(stack) /\ CallsLast(stack)
  /\ BatchAgrees
  /\ StackPlaced

-----------------------------------------------------------------------------
(* The callbacks in progress after a call and after a return.              *)
LEMMA PushFrame ==
  ASSUME NEW s \in Seq(Frame), Apart(s), CallsLast(s),
         NEW f \in Frame, f.op # "call", \A g \in ToSet(s) : g.ev # f.ev
  PROVE  /\ <<f>> \o s \in Seq(Frame) /\ Apart(<<f>> \o s) /\ CallsLast(<<f>> \o s)
         /\ ToSet(<<f>> \o s) = ToSet(s) \cup {f}
<1> DEFINE t == <<f>> \o s
<1>1. /\ t \in Seq(Frame) /\ Len(t) = Len(s) + 1 /\ t[1] = f
      /\ \A j \in 1 .. Len(s) : t[j + 1] = s[j]
  BY ConsPlaces
<1> HIDE DEF t
<1>2. Len(s) \in Nat /\ DOMAIN s = 1 .. Len(s) /\ DOMAIN t = 1 .. Len(s) + 1
  BY <1>1
<1>3. \A i \in 1 .. Len(s) + 1 : i # 1 => i - 1 \in 1 .. Len(s) /\ (i - 1) + 1 = i
  BY <1>2
<1>4. \A i \in 1 .. Len(s) + 1 : i # 1 => i - 1 \in 1 .. Len(s) /\ t[i] = s[i - 1]
  BY <1>1, <1>3
<1>5. \A x : x \in ToSet(s) <=> \E i \in 1 .. Len(s) : s[i] = x
  BY ToSetPlaces
<1>6. \A x : x \in ToSet(t) <=> \E i \in 1 .. Len(s) + 1 : t[i] = x
  BY <1>1, <1>2, ToSetPlaces
<1>7. Apart(t)
  <2> SUFFICES ASSUME NEW i \in 1 .. Len(s) + 1, NEW j \in 1 .. Len(s) + 1,
                      t[i].ev = t[j].ev
               PROVE  i = j
    BY <1>2 DEF Apart
  <2>1. CASE i = 1 /\ j # 1
    BY <1>1, <1>4, <1>5, <2>1
  <2>2. CASE i # 1 /\ j = 1
    BY <1>1, <1>4, <1>5, <2>2
  <2>3. CASE i # 1 /\ j # 1
    <3>1. /\ i - 1 \in 1 .. Len(s) /\ j - 1 \in 1 .. Len(s)
          /\ s[i - 1].ev = s[j - 1].ev
      BY <1>4, <2>3
    <3>2. i - 1 = j - 1
      BY <1>2, <3>1 DEF Apart
    <3> QED
      BY <1>2, <3>2
  <2> QED
    BY <2>1, <2>2, <2>3
<1>8. CallsLast(t)
  <2> SUFFICES ASSUME NEW i \in 1 .. Len(s) + 1, t[i].op = "call"
               PROVE  i = Len(s) + 1
    BY <1>1, <1>2 DEF CallsLast
  <2>1. i # 1
    BY <1>1
  <2>2. i - 1 \in 1 .. Len(s) /\ s[i - 1].op = "call"
    BY <1>4, <2>1
  <2>3. i - 1 = Len(s)
    BY <1>2, <2>2 DEF CallsLast
  <2> QED
    BY <1>2, <2>3
<1>9. ToSet(t) = ToSet(s) \cup {f}
  <2>1. ASSUME NEW x \in ToSet(t), x # f PROVE x \in ToSet(s)
    BY <1>1, <1>4, <1>5, <1>6, <2>1
  <2>2. f \in ToSet(t)
    <3>1. 1 \in 1 .. Len(s) + 1
      BY <1>2
    <3> QED
      BY <1>1, <1>6, <3>1
  <2>3. ASSUME NEW x \in ToSet(s) PROVE x \in ToSet(t)
    <3>1. PICK i \in 1 .. Len(s) : s[i] = x
      BY <1>5
    <3>2. i + 1 \in 1 .. Len(s) + 1 /\ t[i + 1] = x
      BY <1>1, <1>2, <3>1
    <3> QED
      BY <1>6, <3>2
  <2> QED
    BY <2>1, <2>2, <2>3
<1> QED
  BY <1>1, <1>7, <1>8, <1>9 DEF t

LEMMA PopFrame ==
  ASSUME NEW s \in Seq(Frame), s # <<>>, Apart(s), CallsLast(s)
  PROVE  /\ Head(s) \in Frame /\ Head(s) \in ToSet(s)
         /\ Tail(s) \in Seq(Frame) /\ Apart(Tail(s)) /\ CallsLast(Tail(s))
         /\ ToSet(Tail(s)) = ToSet(s) \ {Head(s)}
         /\ \A g \in ToSet(s) : g.ev = Head(s).ev => g = Head(s)
         /\ Head(s).op = "call" => Tail(s) = <<>>
<1> DEFINE t == Tail(s)
           h == Head(s)
<1>1. /\ t \in Seq(Frame) /\ Len(t) = Len(s) - 1
      /\ h = s[1] /\ 1 \in 1 .. Len(s)
      /\ \A i \in 1 .. Len(s) - 1 : t[i] = s[i + 1]
  BY TailPlaces
<1>2. s[1] \in Frame
  BY <1>1
<1> HIDE DEF t, h
<1>3. Len(s) \in Nat /\ DOMAIN s = 1 .. Len(s) /\ DOMAIN t = 1 .. Len(s) - 1
  BY <1>1
<1>4. \A i \in 1 .. Len(s) - 1 : i + 1 \in 1 .. Len(s) /\ i + 1 # 1
  BY <1>3
<1>5. \A i \in 1 .. Len(s) : i # 1 => i - 1 \in 1 .. Len(s) - 1 /\ (i - 1) + 1 = i
  BY <1>3
<1>6. \A x : x \in ToSet(s) <=> \E i \in 1 .. Len(s) : s[i] = x
  BY ToSetPlaces
<1>7. \A x : x \in ToSet(t) <=> \E i \in 1 .. Len(s) - 1 : t[i] = x
  BY <1>1, <1>3, ToSetPlaces
<1>8. Apart(t)
  <2> SUFFICES ASSUME NEW i \in 1 .. Len(s) - 1, NEW j \in 1 .. Len(s) - 1,
                      t[i].ev = t[j].ev
               PROVE  i = j
    BY <1>3 DEF Apart
  <2>1. s[i + 1].ev = s[j + 1].ev
    BY <1>1
  <2>2. i + 1 = j + 1
    BY <1>3, <1>4, <2>1 DEF Apart
  <2> QED
    BY <1>3, <2>2
<1>9. CallsLast(t)
  <2> SUFFICES ASSUME NEW i \in 1 .. Len(s) - 1, t[i].op = "call"
               PROVE  i = Len(s) - 1
    BY <1>1, <1>3 DEF CallsLast
  <2>1. s[i + 1].op = "call"
    BY <1>1
  <2>2. i + 1 \in DOMAIN s
    BY <1>3, <1>4
  <2>3. i + 1 = Len(s)
    BY <2>1, <2>2 DEF CallsLast
  <2>4. \A m \in Nat : \A k \in 1 .. m - 1 : k + 1 = m => k = m - 1
    OBVIOUS
  <2> QED
    BY <1>3, <2>3, <2>4
<1>10. h \in ToSet(s)
  BY <1>1, <1>6
<1>11. \A g \in ToSet(s) : g.ev = h.ev => g = h
  BY <1>1, <1>3, <1>6 DEF Apart
<1>12. ToSet(t) = ToSet(s) \ {h}
  <2>1. ASSUME NEW x \in ToSet(t) PROVE x \in ToSet(s) /\ x # h
    <3>1. PICK i \in 1 .. Len(s) - 1 : t[i] = x
      BY <1>7
    <3>2. i + 1 \in 1 .. Len(s) /\ i + 1 # 1 /\ s[i + 1] = x
      BY <1>1, <1>4, <3>1
    <3>3. x # h
      BY <1>1, <1>3, <3>2 DEF Apart
    <3> QED
      BY <1>6, <3>2, <3>3
  <2>2. ASSUME NEW x \in ToSet(s), x # h PROVE x \in ToSet(t)
    <3>1. PICK i \in 1 .. Len(s) : s[i] = x
      BY <1>6
    <3>2. i - 1 \in 1 .. Len(s) - 1 /\ t[i - 1] = x
      BY <1>1, <1>5, <2>2, <3>1
    <3> QED
      BY <1>7, <3>2
  <2> QED
    BY <2>1, <2>2
<1>13. ASSUME h.op = "call" PROVE t = <<>>
  <2>1. 1 = Len(s)
    BY <1>1, <1>3, <1>13 DEF CallsLast
  <2>2. Len(t) = 0
    BY <1>1, <2>1
  <2> QED
    BY <1>1, <2>2
<1> QED
  BY <1>1, <1>2, <1>8, <1>9, <1>10, <1>11, <1>12, <1>13 DEF t, h

-----------------------------------------------------------------------------
(* A socket that is open has a bucket: the remainder is not negative.      *)
LEMMA SocketsAvailable ==
  ASSUME NEW s \in Fd
  PROVE  Available(s)
<1>1. s \in Nat
  BY KqAssumption DEF Fd
<1>2. s * Multiplier \in Nat
  BY <1>1, HashAssumption
<1>3. \A a \in Nat : a % MaxHash \in 0 .. MaxHash - 1
  BY HashAssumption
<1>4. (s * Multiplier) % MaxHash \in 0 .. MaxHash - 1
  BY <1>2, <1>3
<1> QED
  BY <1>2, <1>4 DEF Available, CalHash, TruncRem, Buckets

(* A chain without a socket's pair has room for it: its keys are other     *)
(* sockets, each once.                                                     *)
LEMMA ChainHasRoom ==
  ASSUME Careful, NEW t \in Tables(Pair), WellPlaced(t), NoDuplicate(t),
         NEW s \in Fd, ~HasKey(t, s)
  PROVE  HasRoom(t, s)
<1> DEFINE b == t[CalHash(s)]
           f == [i \in 1 .. Len(b) |-> b[i].key]
           D == 1 .. Len(b)
<1>1. CalHash(s) \in Buckets /\ Available(s)
  BY SocketsAvailable DEF Available
<1>2. b \in Seq(Pair) /\ DOMAIN b = D /\ Len(b) \in Nat
  BY <1>1 DEF Tables
<1>3. \A i \in D : b[i].key \in Fd
  <2>1. \A i \in D : b[i] \in Pair
    BY <1>2
  <2> QED
    BY <2>1 DEF Pair
<1>4. \A i \in D : b[i].key # s
  BY <1>1, <1>2 DEF HasKey, ChainHas
<1>5. \A i, j \in D : b[i].key = b[j].key => i = j
  BY <1>1, <1>2 DEF NoDuplicate
<1>6. f \in [D -> Fd \ {s}]
  BY <1>3, <1>4
<1>7. \A i, j \in D : f[i] = f[j] => i = j
  BY <1>5
<1>8. f \in Injection(D, Fd \ {s})
  BY <1>6, <1>7 DEF Injection, IsInjective
<1>9. IsFiniteSet(Fd \ {s}) /\ Cardinality(Fd \ {s}) = Cardinality(Fd) - 1
  BY FS_RemoveElement DEF Careful
<1>10. Cardinality(D) <= Cardinality(Fd \ {s})
  BY <1>8, <1>9, FS_Injection
<1>11. Cardinality(D) = Len(b)
  BY <1>2, FS_Interval
<1>12. Cardinality(Fd) \in Nat
  BY FS_CardinalityType DEF Careful
<1>13. Len(b) < MaxListSize
  BY <1>2, <1>9, <1>10, <1>11, <1>12, HashAssumption DEF Careful
<1> QED
  BY <1>13 DEF HasRoom

-----------------------------------------------------------------------------
(* What TypeOK says of one table.                                          *)
LEMMA TableFacts ==
  ASSUME TypeOK, NEW x \in Dirs
  PROVE  /\ ht[x] \in Tables(Pair)
         /\ Entries(ht[x]) \subseteq Pair
<1>1. ht[x] \in Tables(Pair)
  BY DEF TypeOK, Tables, Pair, Dirs
<1>2. \A h \in Buckets : \A i \in 1 .. Len(ht[x][h]) : ht[x][h][i] \in Pair
  BY <1>1 DEF Tables
<1> QED
  BY <1>1, <1>2, EntryHasPlace

(* An event is the client's, or has a socket and a type.                   *)
LEMMA EventFacts ==
  ASSUME Inv, NEW e \in Event
  PROVE  /\ evs[e] = Idle \/ evs[e] \in Kept
         /\ evs[e].state \in {"client", "held", "dying"}
         /\ evs[e] = Idle <=> evs[e].state = "client"
         /\ evs[e] # Idle =>
              /\ evs[e].fd \in Fd /\ evs[e].type \in Types
              /\ Table(evs[e].type) \in Dirs /\ Filter(evs[e].type) \in {"read", "write"}
BY DEF Inv, NoneLost, Kept, Idle, Table, Filter, Dirs

(* The pairs of a table, by their events.                                  *)
LEMMA EntryFacts ==
  ASSUME Inv, NEW x \in Dirs, NEW p \in Entries(ht[x])
  PROVE  /\ p.key \in Fd /\ p.val \in Event /\ p = [key |-> p.key, val |-> p.val]
         /\ ToList(x, p.key, p.val)
<1>1. p.key \in Fd /\ p.val \in Event /\ p = [key |-> p.key, val |-> p.val]
  BY TableFacts DEF Inv, Pair
<1>2. Listed(x, p.key, p.val)
  BY <1>1 DEF Listed
<1> QED
  BY <1>1, <1>2 DEF Inv, TablesAgree

(* The frames are about events that are not the client's.                  *)
LEMMA FrameFacts ==
  ASSUME Inv, NEW f \in Frames
  PROVE  /\ f \in Frame /\ f.op \in {"call", "del", "free"} /\ f.ev \in Event
         /\ f = [op |-> f.op, ev |-> f.ev] /\ Cleaning(f.ev, f.op)
         /\ evs[f.ev].state = IF f.op = "call" THEN "held" ELSE "dying"
<1>1. stack \in Seq(Frame)
  BY DEF Inv, TypeOK, Frame
<1>2. f \in Frame
  BY <1>1, ToSetPlaces DEF Frames
<1>3. f.op \in {"call", "del", "free"} /\ f.ev \in Event /\ f = [op |-> f.op, ev |-> f.ev]
  BY <1>2 DEF Frame
<1>4. Cleaning(f.ev, f.op)
  BY <1>3 DEF Cleaning
<1> QED
  BY <1>2, <1>3, <1>4 DEF Inv, FramesAgree

(* The knotes and kevents are about held events.                           *)
LEMMA KnoteFacts ==
  ASSUME Inv
  PROVE  /\ \A n \in knotes : n.ev \in Event /\ evs[n.ev].state = "held" /\ n \in Knotes
         /\ \A n \in ToSet(batch) : n.ev \in Event /\ evs[n.ev].state = "held" /\ n \in Knotes
<1>1. \A n \in Knotes : n.ev \in Event
  BY DEF Knotes
<1>2. \A n \in knotes : n \in Knotes /\ evs[n.ev].state = "held"
  BY DEF Inv, TypeOK, KnotesBacked
<1>3. \A n \in ToSet(batch) : n \in Knotes
  BY ToSetPlaces DEF Inv, TypeOK
<1>4. \A n \in ToSet(batch) : evs[n.ev].state = "held"
  <2>1. \A n \in ToSet(batch) : evs[n.ev] = Held(n.fd, evs[n.ev].type)
    BY DEF Inv, BatchAgrees
  <2>2. \A s, type : Held(s, type).state = "held"
    BY DEF Held
  <2> QED
    BY <2>1, <2>2
<1> QED
  BY <1>1, <1>2, <1>3, <1>4

-----------------------------------------------------------------------------
(* One lemma per action, first those of the client.                        *)
LEMMA InitInv == Init => Inv
<1> SUFFICES ASSUME Init PROVE Inv
  OBVIOUS
<1>1. EmptyTable \in Tables(Pair) /\ Entries(EmptyTable) = {}
  BY EmptyTableIsEmpty
<1>2. \A x \in Dirs : ht[x] = EmptyTable /\ Entries(ht[x]) = {}
  BY <1>1 DEF Init, Dirs
<1>3. Frames = {} /\ ToSet(batch) = {} /\ stack = <<>> /\ batch = <<>>
  BY DEF Init, Frames, ToSet
<1>4. TypeOK
  <2>1. ht \in [{"rd", "wr"} -> [Buckets -> Seq([key : Fd, val : Event])]]
    BY <1>1 DEF Init, Tables, Pair
  <2>2. Len(batch) = 0 /\ batch \in Seq(Knotes) /\ 0 <= MaxEvents
    BY <1>3, KqAssumption
  <2>3. stack \in Seq([op : {"call", "del", "free"}, ev : Event])
    BY <1>3
  <2> QED
    BY <2>1, <2>2, <2>3 DEF Init, TypeOK
<1>5. TablesSound
  <2>1. \A h \in Buckets : DOMAIN EmptyTable[h] = {}
    BY DEF EmptyTable
  <2> QED
    BY <1>2, <2>1 DEF TablesSound, WellPlaced, NoDuplicate
<1>6. NoneLost
  BY DEF Init, NoneLost
<1>7. \A e \in Event : evs[e].state = "client"
  BY DEF Init, Idle
<1>8. TablesAgree
  BY <1>2, <1>3, <1>7 DEF TablesAgree, Listed, ToList, Cleaning
<1>9. KnotesBacked /\ FramesAgree /\ Apart(stack) /\ CallsLast(stack)
  BY <1>3, <1>7 DEF Init, KnotesBacked, FramesAgree, Apart, CallsLast
<1>10. BatchAgrees /\ StackPlaced
  BY <1>3 DEF Init, BatchAgrees, StackPlaced
<1> QED
  BY <1>4, <1>5, <1>6, <1>8, <1>9, <1>10 DEF Inv

(* Steps that touch neither the events nor the calls in progress.          *)
LEMMA QuietInv ==
  ASSUME Inv, UNCHANGED <<ht, evs, batch, stack>>,
         knotes' \subseteq knotes, term_flag' \in BOOLEAN,
         pc' = pc \/ (stack = <<>> /\ batch = <<>> /\ pc' \in {"main", "top", "wait", "handle"})
  PROVE  Inv'
<1>1. TypeOK'
  BY DEF Inv, TypeOK
<1>2. TablesSound' /\ NoneLost' /\ TablesAgree'
  BY DEF Inv, TablesSound, NoneLost, TablesAgree, Listed, ToList, Cleaning, Frames
<1>3. KnotesBacked'
  BY DEF Inv, KnotesBacked
<1>4. FramesAgree' /\ Apart(stack)' /\ CallsLast(stack)' /\ BatchAgrees'
  BY DEF Inv, FramesAgree, Cleaning, Frames, Apart, CallsLast, BatchAgrees
<1>5. StackPlaced'
  <2>1. CASE pc' = pc
    BY <2>1 DEF Inv, StackPlaced, Frames
  <2>2. CASE stack = <<>> /\ batch = <<>>
    <3>1. Frames' = {}
      BY <2>2 DEF Frames, ToSet
    <3> QED
      BY <2>2, <3>1 DEF StackPlaced
  <2> QED
    BY <2>1, <2>2
<1> QED
  BY <1>1, <1>2, <1>3, <1>4, <1>5 DEF Inv

(* kq_add: the new event is in no table, no knote and no batch; the kernel *)
(* and the table of its type have room for it, because its place is vacant.*)
LEMMA EventAddInv ==
  ASSUME Careful, Inv, NEW e \in Event, NEW s \in Sock, NEW type \in Types,
         EventAdd(e, s, type)
  PROVE  Inv'
<1> DEFINE x == Table(type)
           p == [key |-> s, val |-> e]
           k == Knote(e, s, type)
<1>1. /\ x \in Dirs /\ s \in Fd /\ evs[e] = Idle
      /\ \A n \in knotes : ~(n.fd = s /\ n.filter = Filter(type))
      /\ ~HasKey(ht[x], s)
      /\ Watch(e, s, type)
      /\ ht' = [ht EXCEPT ![x] = Inserted(@, e, s)]
      /\ evs' = [evs EXCEPT ![e] = Held(s, type)]
      /\ UNCHANGED <<term_flag, pc, batch, stack>>
  BY DEF EventAdd, Careful, Vacant, Table, Dirs
<1>2. p \in Pair /\ p.key = s /\ p.val = e
  BY <1>1 DEF Pair
<1>3. k \in Knotes /\ k.fd = s /\ k.ev = e /\ k.filter = Filter(type)
  BY <1>1 DEF Knote, Knotes, Filter
<1>4. k \in knotes' /\ \A n \in knotes' : n = k \/ n \in knotes
  BY <1>1 DEF Watch
<1> HIDE DEF x, k
<1>5. ht[x] \in Tables(Pair) /\ WellPlaced(ht[x]) /\ NoDuplicate(ht[x])
  BY <1>1, TableFacts DEF Inv, TablesSound
<1>6. Available(s) /\ HasRoom(ht[x], s)
  BY <1>1, <1>5, SocketsAvailable, ChainHasRoom
<1>7. ht' = [ht EXCEPT ![x] = WithPair(ht[x], p)]
  BY <1>1, <1>6 DEF Inserted
<1> HIDE DEF p
<1>8. /\ WithPair(ht[x], p) \in Tables(Pair)
      /\ Entries(WithPair(ht[x], p)) = Entries(ht[x]) \cup {p}
      /\ WellPlaced(WithPair(ht[x], p)) /\ NoDuplicate(WithPair(ht[x], p))
  BY <1>1, <1>2, <1>5, <1>6, WithPairAdds, WithPairKeeps
<1>9. /\ ht' \in [Dirs -> [Buckets -> Seq(Pair)]]
      /\ ht'[x] = WithPair(ht[x], p)
      /\ \A y \in Dirs : y # x => ht'[y] = ht[y]
  <2>1. ht \in [Dirs -> Tables(Pair)]
    BY DEF Inv, TypeOK, Tables, Pair, Dirs
  <2>2. /\ ht' \in [Dirs -> Tables(Pair)]
        /\ ht'[x] = WithPair(ht[x], p)
        /\ \A y \in Dirs : y # x => ht'[y] = ht[y]
    BY <1>1, <1>7, <1>8, <2>1
  <2> QED
    BY <2>2 DEF Tables
<1>10. \A y \in Dirs : Entries(ht'[y]) = IF y = x THEN Entries(ht[x]) \cup {p} ELSE Entries(ht[y])
  BY <1>8, <1>9
<1>11. /\ evs'[e] = Held(s, type)
       /\ \A g \in Event : g # e => evs'[g] = evs[g]
  BY <1>1 DEF Inv, TypeOK
<1>12. /\ evs'[e].state = "held" /\ evs'[e].fd = s /\ evs'[e].type = type
       /\ evs[e].state = "client"
  BY <1>1, <1>11 DEF Held, Idle
<1>13. NoneLost'
  BY <1>1 DEF Inv, NoneLost, Held, Kept
<1>14. Frames' = Frames
  BY <1>1 DEF Frames
<1>15. \A f \in Frames : f.ev \in Event /\ f.ev # e
  BY <1>12, FrameFacts
<1>16. TypeOK'
  <2>1. knotes' \subseteq Knotes
    BY <1>3, <1>4 DEF Inv, TypeOK
  <2>2. evs' \in [Event -> {Idle} \cup [state : {"held", "dying", "lost"}, fd : Fd, type : Types]]
    BY <1>13 DEF NoneLost, Kept
  <2> QED
    BY <1>1, <1>9, <2>1, <2>2 DEF Inv, TypeOK, Pair, Dirs
<1>17. TablesSound'
  BY <1>8, <1>9 DEF Inv, TablesSound
<1>18. TablesAgree'
  <2> SUFFICES ASSUME NEW y \in Dirs, NEW r \in Fd, NEW g \in Event
               PROVE  Listed(y, r, g)' <=> ToList(y, r, g)'
    BY DEF TablesAgree
  <2>1. Listed(y, r, g) <=> ToList(y, r, g)
    BY DEF Inv, TablesAgree
  <2>2. Cleaning(g, "del")' <=> Cleaning(g, "del")
    BY <1>14 DEF Cleaning
  <2>3. CASE g = e
    <3>1. ~Cleaning(e, "del")
      BY <1>15 DEF Cleaning
    <3>2. ~Listed(y, r, e)
      BY <1>12, <2>1, <2>3, <3>1 DEF ToList
    <3>3. Listed(y, r, e)' <=> y = x /\ r = s
      BY <1>10, <3>2 DEF Listed, p
    <3>4. ToList(y, r, e)' <=> r = s /\ Table(type) = y
      BY <1>12 DEF ToList
    <3> QED
      BY <2>3, <3>3, <3>4 DEF x
  <2>4. CASE g # e
    <3>1. Listed(y, r, g)' <=> Listed(y, r, g)
      BY <1>10, <2>4 DEF Listed, p
    <3>2. ToList(y, r, g)' <=> ToList(y, r, g)
      BY <1>11, <2>2, <2>4 DEF ToList
    <3> QED
      BY <2>1, <3>1, <3>2
  <2> QED
    BY <2>3, <2>4
<1>19. KnotesBacked'
  <2> SUFFICES ASSUME NEW n \in knotes'
               PROVE  /\ evs'[n.ev].state = "held"
                      /\ n.fd = evs'[n.ev].fd /\ n.filter = Filter(evs'[n.ev].type)
    BY DEF KnotesBacked
  <2>1. CASE n = k
    BY <1>3, <1>12, <2>1
  <2>2. CASE n \in knotes
    <3>1. n.ev \in Event /\ n.ev # e
      BY <1>12, <2>2, KnoteFacts
    <3> QED
      BY <1>11, <2>2, <3>1 DEF Inv, KnotesBacked
  <2> QED
    BY <1>4, <2>1, <2>2
<1>20. FramesAgree'
  <2>1. \A f \in Frames : evs'[f.ev].state = IF f.op = "call" THEN "held" ELSE "dying"
    BY <1>11, <1>15 DEF Inv, FramesAgree
  <2>2. ASSUME NEW g \in Event, evs'[g].state = "dying"
        PROVE  Cleaning(g, "del") \/ Cleaning(g, "free")
    BY <1>11, <1>12, <2>2 DEF Inv, FramesAgree
  <2> QED
    BY <1>14, <2>1, <2>2 DEF FramesAgree, Cleaning
<1>21. BatchAgrees'
  <2>1. ASSUME NEW n \in ToSet(batch)
        PROVE  evs'[n.ev] = Held(n.fd, evs'[n.ev].type) /\ ~Cleaning(n.ev, "call")'
    <3>1. n.ev \in Event /\ n.ev # e
      BY <1>12, KnoteFacts
    <3>2. evs'[n.ev] = evs[n.ev]
      BY <1>11, <3>1
    <3> QED
      BY <1>14, <3>2 DEF Inv, BatchAgrees, Cleaning
  <2> QED
    BY <1>1, <2>1 DEF Inv, BatchAgrees
<1>22. Apart(stack)' /\ CallsLast(stack)' /\ StackPlaced'
  BY <1>1, <1>14 DEF Inv, Apart, CallsLast, StackPlaced
<1> QED
  BY <1>13, <1>16, <1>17, <1>18, <1>19, <1>20, <1>21, <1>22 DEF Inv

(* kq_del: the event is in no batch and in no frame but that of its own    *)
(* callback, which is over; it leaves the kernel but not yet its table.    *)
LEMMA DeletingInv ==
  ASSUME Inv, NEW e \in Event, evs[e].state = "held", Unbatched(e), pc \in {"main", "handle"},
         NEW rest \in Seq(Frame), Apart(rest), CallsLast(rest),
         ToSet(rest) = {f \in Frames : f.ev # e},
         Deleting(e, rest), UNCHANGED <<ht, term_flag, pc, batch>>
  PROVE  Inv'
<1> DEFINE f0 == [op |-> "del", ev |-> e]
           top == <<f0>> \o rest
<1>1. f0 \in Frame /\ f0.op # "call" /\ f0.ev = e
  BY DEF Frame
<1>2. /\ top \in Seq(Frame) /\ Apart(top) /\ CallsLast(top)
      /\ ToSet(top) = ToSet(rest) \cup {f0}
  BY <1>1, PushFrame
<1>3. stack' = top
  BY DEF Deleting
<1> HIDE DEF top
<1>4. Frames' = {f \in Frames : f.ev # e} \cup {f0}
  BY <1>2, <1>3 DEF Frames
<1>5. evs[e] \in Kept
  BY EventFacts DEF Idle
<1>6. evs' = [evs EXCEPT ![e].state = "dying"]
  BY DEF Deleting
<1>7. evs'[e] = [state |-> "dying", fd |-> evs[e].fd, type |-> evs[e].type]
  <2>1. evs'[e] = [evs[e] EXCEPT !.state = "dying"]
    BY <1>6 DEF Inv, TypeOK
  <2> QED
    BY <1>5, <2>1 DEF Kept
<1>8. \A g \in Event : g # e => evs'[g] = evs[g]
  BY <1>6 DEF Inv, TypeOK
<1>9. NoneLost'
  <2>1. evs'[e] \in Kept
    BY <1>5, <1>7 DEF Kept
  <2> QED
    BY <1>6, <1>8, <2>1 DEF Inv, NoneLost
<1>10. /\ evs'[e].state = "dying" /\ evs'[e].fd = evs[e].fd
       /\ evs'[e].type = evs[e].type
  BY <1>7
<1>11. \A n \in knotes' : n \in knotes /\ n.ev # e
  <2>1. \A n \in knotes' :
          n \in knotes /\ ~(n.fd = evs[e].fd /\ n.filter = Filter(evs[e].type))
    BY DEF Deleting, Unwatch
  <2> QED
    BY <2>1 DEF Inv, KnotesBacked
<1>12. TypeOK'
  <2>1. knotes' \subseteq Knotes
    BY <1>11 DEF Inv, TypeOK
  <2>2. evs' \in [Event -> {Idle} \cup [state : {"held", "dying", "lost"}, fd : Fd, type : Types]]
    BY <1>9 DEF NoneLost, Kept
  <2> QED
    BY <1>2, <1>3, <2>1, <2>2 DEF Inv, TypeOK, Frame
<1>13. TablesSound'
  BY DEF Inv, TablesSound
<1>14. \A g \in Event : g # e => \A op : Cleaning(g, op)' <=> Cleaning(g, op)
  BY <1>1, <1>4 DEF Cleaning
<1>15. TablesAgree'
  <2> SUFFICES ASSUME NEW y \in Dirs, NEW r \in Fd, NEW g \in Event
               PROVE  ToList(y, r, g)' <=> ToList(y, r, g)
    BY DEF Inv, TablesAgree, Listed
  <2>1. CASE g = e
    <3>1. Cleaning(e, "del")'
      BY <1>4 DEF Cleaning
    <3> QED
      BY <1>10, <2>1, <3>1 DEF ToList
  <2>2. CASE g # e
    BY <1>8, <1>14, <2>2 DEF ToList
  <2> QED
    BY <2>1, <2>2
<1>16. KnotesBacked'
  <2>1. \A n \in knotes' : n \in knotes /\ evs'[n.ev] = evs[n.ev]
    BY <1>8, <1>11, KnoteFacts
  <2> QED
    BY <2>1 DEF Inv, KnotesBacked
<1>17. FramesAgree'
  <2>1. ASSUME NEW f \in Frames'
        PROVE  evs'[f.ev].state = IF f.op = "call" THEN "held" ELSE "dying"
    <3>1. CASE f = f0
      BY <1>1, <1>10, <3>1
    <3>2. CASE f \in Frames /\ f.ev # e
      <4>1. evs'[f.ev] = evs[f.ev]
        BY <1>8, <3>2, FrameFacts
      <4> QED
        BY <3>2, <4>1 DEF Inv, FramesAgree
    <3> QED
      BY <1>4, <3>1, <3>2
  <2>2. ASSUME NEW g \in Event, evs'[g].state = "dying"
        PROVE  Cleaning(g, "del")' \/ Cleaning(g, "free")'
    <3>1. CASE g = e
      BY <1>4, <3>1 DEF Cleaning
    <3>2. CASE g # e
      BY <1>8, <1>14, <2>2, <3>2 DEF Inv, FramesAgree
    <3> QED
      BY <3>1, <3>2
  <2> QED
    BY <2>1, <2>2 DEF FramesAgree
<1>18. BatchAgrees'
  <2>1. batch \in Seq(Knotes) /\ DOMAIN batch = 1 .. Len(batch)
    BY DEF Inv, TypeOK
  <2>2. ASSUME NEW n \in ToSet(batch)
        PROVE  evs'[n.ev] = Held(n.fd, evs'[n.ev].type) /\ ~Cleaning(n.ev, "call")'
    <3>1. n.ev \in Event /\ n.ev # e
      BY <2>1, KnoteFacts, ToSetPlaces DEF Unbatched
    <3>2. evs'[n.ev] = evs[n.ev]
      BY <1>8, <3>1
    <3> QED
      BY <1>14, <3>1, <3>2 DEF Inv, BatchAgrees
  <2> QED
    BY <2>2 DEF Inv, BatchAgrees
<1>19. Apart(stack)' /\ CallsLast(stack)' /\ StackPlaced'
  <2>1. \A f \in Frames' : f.op = "call" => f \in Frames
    BY <1>1, <1>4
  <2> QED
    BY <1>2, <1>3, <2>1 DEF Inv, StackPlaced, Apart, CallsLast
<1> QED
  BY <1>9, <1>12, <1>13, <1>15, <1>16, <1>17, <1>18, <1>19 DEF Inv

LEMMA EventDelInv ==
  ASSUME Careful, Inv, NEW e \in Event, EventDel(e)
  PROVE  Inv'
<1>1. /\ ClientRuns /\ evs[e].state = "held" /\ e \notin Calling /\ Unbatched(e)
      /\ Deleting(e, stack) /\ UNCHANGED <<ht, term_flag, pc, batch>>
  BY DEF EventDel, Careful
<1>2. stack \in Seq(Frame) /\ Apart(stack) /\ CallsLast(stack)
  BY DEF Inv, TypeOK, Frame
<1>3. pc \in {"main", "handle"}
  BY <1>1 DEF ClientRuns, Inv, TypeOK, StackPlaced
<1>4. \A f \in Frames : f.ev # e
  <2> SUFFICES ASSUME NEW f \in Frames, f.ev = e PROVE FALSE
    OBVIOUS
  <2>1. f.op = "call"
    BY <1>1, FrameFacts
  <2>2. PICK i \in DOMAIN stack : stack[i] = f
    BY <1>2, ToSetPlaces DEF Frames
  <2> QED
    BY <1>1, <2>1, <2>2 DEF Calling
<1>5. ToSet(stack) = {f \in Frames : f.ev # e}
  BY <1>4 DEF Frames
<1> QED
  BY <1>1, <1>2, <1>3, <1>5, DeletingInv

(* mcl_evbase_destroy is called outside of all callbacks: every event that *)
(* is held is in a table and is freed.                                     *)
LEMMA DestroyAndNewInv ==
  ASSUME Inv, DestroyAndNew
  PROVE  Inv'
<1>1. /\ pc = "main" /\ stack = <<>> /\ batch = <<>>
      /\ ht' = [x \in Dirs |-> EmptyTable]
      /\ knotes' = {} /\ term_flag' = FALSE
      /\ UNCHANGED <<pc, batch, stack>>
  BY DEF DestroyAndNew, Inv, StackPlaced, Dirs
<1>2. Frames = {} /\ Frames' = {} /\ ToSet(batch) = {}
  BY <1>1 DEF Frames, ToSet
<1>3. ASSUME NEW e \in Event
      PROVE  evs'[e] = Idle
  <2>1. CASE evs[e] = Idle
    BY <2>1 DEF DestroyAndNew
  <2>2. CASE evs[e] # Idle
    <3>1. evs[e].state = "held"
      BY <1>2, <2>2, EventFacts DEF Inv, FramesAgree, Cleaning
    <3>2. evs[e].fd \in Fd /\ Table(evs[e].type) \in Dirs
      BY <2>2, EventFacts
    <3>3. Listed(Table(evs[e].type), evs[e].fd, e)
      BY <3>1, <3>2 DEF Inv, TablesAgree, ToList
    <3>4. \E x \in {"rd", "wr"} : \E p \in Entries(ht[x]) : p.val = e
      BY <3>2, <3>3 DEF Listed, Dirs
    <3> QED
      BY <3>4 DEF DestroyAndNew
  <2> QED
    BY <2>1, <2>2
<1>4. evs' = [e \in Event |-> Idle]
  BY <1>3 DEF DestroyAndNew
<1>5. EmptyTable \in Tables(Pair) /\ Entries(EmptyTable) = {}
  BY EmptyTableIsEmpty
<1>6. \A x \in Dirs : ht'[x] = EmptyTable /\ Entries(ht'[x]) = {}
  BY <1>1, <1>5
<1>7. TypeOK'
  <2>1. ht' \in [{"rd", "wr"} -> [Buckets -> Seq([key : Fd, val : Event])]]
    BY <1>1, <1>5 DEF Tables, Pair, Dirs
  <2> QED
    BY <1>1, <1>4, <2>1 DEF Inv, TypeOK
<1>8. TablesSound'
  <2>1. \A h \in Buckets : DOMAIN EmptyTable[h] = {}
    BY DEF EmptyTable
  <2> QED
    BY <1>6, <2>1 DEF TablesSound, WellPlaced, NoDuplicate
<1>9. NoneLost' /\ \A e \in Event : evs'[e].state = "client"
  BY <1>4 DEF NoneLost, Idle
<1>10. TablesAgree'
  BY <1>2, <1>6, <1>9 DEF TablesAgree, Listed, ToList, Cleaning
<1>11. KnotesBacked' /\ FramesAgree' /\ Apart(stack)' /\ CallsLast(stack)'
  BY <1>1, <1>2, <1>9 DEF KnotesBacked, FramesAgree, Apart, CallsLast
<1>12. BatchAgrees' /\ StackPlaced'
  BY <1>1, <1>2 DEF BatchAgrees, StackPlaced
<1> QED
  BY <1>7, <1>8, <1>9, <1>10, <1>11, <1>12 DEF Inv

-----------------------------------------------------------------------------
(* The kernel watches finitely many events, each by one knote.             *)
LEMMA KnotesFinite ==
  ASSUME Inv
  PROVE  IsFiniteSet(knotes) /\ \A n, m \in knotes : n.ev = m.ev => n = m
<1> DEFINE f == [n \in knotes |-> n.ev]
<1>1. \A n \in knotes : /\ n = [fd |-> n.fd, filter |-> n.filter, ev |-> n.ev]
                        /\ n.ev \in Event
  BY DEF Inv, TypeOK, Knotes
<1>2. \A n, m \in knotes : n.ev = m.ev => n.fd = m.fd /\ n.filter = m.filter
  BY DEF Inv, KnotesBacked
<1>3. \A n, m \in knotes : n.ev = m.ev => n = m
  BY <1>1, <1>2
<1>4. f \in Injection(knotes, Event)
  BY <1>1, <1>3 DEF Injection, IsInjective
<1>5. IsFiniteSet(Event)
  BY KqAssumption
<1> HIDE DEF f
<1> QED
  BY <1>3, <1>4, <1>5, FS_Injection

(* A batch reports knotes, hence live events, and each once.               *)
LEMMA KeventReturnsInv ==
  ASSUME Inv, NEW rs \in SUBSET knotes, NEW ready \in SetToSeqs(rs),
         Cardinality(rs) <= MaxEvents, KeventReturns(ready)
  PROVE  Inv'
<1>1. /\ pc = "wait" /\ stack = <<>> /\ pc' = "handle" /\ batch' = ready
      /\ UNCHANGED <<ht, knotes, term_flag, evs, stack>>
  BY DEF KeventReturns, Inv, StackPlaced
<1>2. Frames = {} /\ Frames' = {}
  BY <1>1 DEF Frames, ToSet
<1>3. Cardinality(rs) \in Nat
  BY KnotesFinite, FS_Subset, FS_CardinalityType
<1>4. /\ ready \in [1 .. Cardinality(rs) -> rs]
      /\ \A i, j \in 1 .. Cardinality(rs) : i # j => ready[i] # ready[j]
  BY DEF SetToSeqs
<1>5. /\ ready \in Seq(rs) /\ Len(ready) = Cardinality(rs)
      /\ DOMAIN ready = 1 .. Cardinality(rs)
  BY <1>3, <1>4
<1>6. ready \in Seq(Knotes) /\ \A i \in DOMAIN ready : ready[i] \in knotes
  BY <1>4, <1>5 DEF Inv, TypeOK
<1>7. TypeOK'
  BY <1>1, <1>5, <1>6 DEF Inv, TypeOK
<1>8. TablesSound' /\ NoneLost' /\ KnotesBacked' /\ Apart(stack)' /\ CallsLast(stack)'
  BY <1>1 DEF Inv, TablesSound, NoneLost, KnotesBacked, Apart, CallsLast
<1>9. TablesAgree' /\ FramesAgree'
  BY <1>1, <1>2 DEF Inv, TablesAgree, Listed, ToList, FramesAgree, Cleaning
<1>10. BatchAgrees'
  <2>1. ASSUME NEW n \in knotes PROVE evs[n.ev] = Held(n.fd, evs[n.ev].type)
    <3>1. n.ev \in Event /\ evs[n.ev] \in Kept /\ evs[n.ev].state = "held"
      BY KnoteFacts, EventFacts DEF Idle
    <3>2. evs[n.ev] = [state |-> "held", fd |-> evs[n.ev].fd, type |-> evs[n.ev].type]
      BY <3>1 DEF Kept
    <3>3. evs[n.ev].fd = n.fd
      BY DEF Inv, KnotesBacked
    <3> QED
      BY <3>2, <3>3 DEF Held
  <2>2. \A n \in ToSet(ready) : n \in knotes
    BY <1>4, <1>5, ToSetPlaces
  <2>3. \A n \in ToSet(ready) : evs[n.ev] = Held(n.fd, evs[n.ev].type)
    BY <2>1, <2>2
  <2>4. \A i, j \in DOMAIN ready : ready[i].ev = ready[j].ev => i = j
    BY <1>4, <1>5, <1>6, KnotesFinite
  <2> QED
    BY <1>1, <1>2, <2>3, <2>4 DEF BatchAgrees, Cleaning
<1>11. StackPlaced'
  BY <1>1, <1>2 DEF StackPlaced
<1> QED
  BY <1>7, <1>8, <1>9, <1>10, <1>11 DEF Inv

(* handle_events calls back the next event of the batch.                   *)
LEMMA DispatchInv ==
  ASSUME Inv, Dispatch
  PROVE  /\ Inv' /\ Head(batch).ev \in Event /\ evs[Head(batch).ev].state = "held"
         /\ Frames = {} /\ Frames' = {[op |-> "call", ev |-> Head(batch).ev]}
<1> DEFINE n0 == Head(batch)
           f0 == [op |-> "call", ev |-> n0.ev]
           t == Tail(batch)
<1>1. /\ pc = "handle" /\ stack = <<>> /\ batch # <<>>
      /\ stack' = <<f0>> /\ batch' = t
      /\ UNCHANGED <<ht, knotes, term_flag, evs, pc>>
  BY DEF Dispatch, Rest
<1>2. batch \in Seq(Knotes) /\ Len(batch) <= MaxEvents /\ Len(batch) \in Nat
  BY DEF Inv, TypeOK
<1>3. /\ t \in Seq(Knotes) /\ Len(t) = Len(batch) - 1
      /\ n0 = batch[1] /\ 1 \in 1 .. Len(batch)
      /\ \A i \in 1 .. Len(batch) - 1 : t[i] = batch[i + 1]
  BY <1>1, <1>2, TailPlaces
<1> HIDE DEF n0, t
<1>4. DOMAIN batch = 1 .. Len(batch) /\ DOMAIN t = 1 .. Len(batch) - 1
  BY <1>2, <1>3
<1>5. n0 \in ToSet(batch)
  BY <1>2, <1>3, ToSetPlaces
<1>6. n0.ev \in Event /\ evs[n0.ev].state = "held"
  BY <1>5, KnoteFacts
<1>7. f0 \in Frame
  BY <1>6 DEF Frame
<1>8. Frames = {} /\ Frames' = {f0}
  <2>1. ToSet(<<f0>>) = {f0}
    BY DEF ToSet
  <2> QED
    BY <1>1, <2>1 DEF Frames, ToSet
<1>9. ASSUME NEW m \in ToSet(t) PROVE m \in ToSet(batch) /\ m.ev # n0.ev
  <2>1. PICK i \in 1 .. Len(batch) - 1 : t[i] = m
    BY <1>3, <1>4, ToSetPlaces
  <2>2. i + 1 \in 1 .. Len(batch) /\ i + 1 # 1
    BY <1>2
  <2>3. batch[i + 1] = m
    BY <1>3, <2>1
  <2>4. m \in ToSet(batch)
    BY <1>2, <2>2, <2>3, ToSetPlaces
  <2>5. m.ev # n0.ev
    BY <1>3, <1>4, <2>2, <2>3 DEF Inv, BatchAgrees
  <2> QED
    BY <2>4, <2>5
<1>10. TypeOK'
  <2>1. Len(t) <= MaxEvents
    BY <1>2, <1>3, KqAssumption
  <2>2. <<f0>> \in Seq(Frame)
    BY <1>7
  <2> QED
    BY <1>1, <1>3, <2>1, <2>2 DEF Inv, TypeOK, Frame
<1>11. TablesSound' /\ NoneLost' /\ KnotesBacked'
  BY <1>1 DEF Inv, TablesSound, NoneLost, KnotesBacked
<1>12. \A g : ~Cleaning(g, "del") /\ ~Cleaning(g, "free")
  BY <1>8 DEF Cleaning
<1>13. \A g : ~Cleaning(g, "del")' /\ ~Cleaning(g, "free")'
  BY <1>8 DEF Cleaning
<1>14. TablesAgree'
  BY <1>1, <1>12, <1>13 DEF Inv, TablesAgree, Listed, ToList
<1>15. FramesAgree'
  BY <1>1, <1>6, <1>8, <1>12, <1>13 DEF Inv, FramesAgree
<1>16. Apart(stack)' /\ CallsLast(stack)'
  <2>1. DOMAIN <<f0>> = {1} /\ Len(<<f0>>) = 1
    OBVIOUS
  <2> QED
    BY <1>1, <2>1 DEF Apart, CallsLast
<1>17. BatchAgrees'
  <2>1. \A m \in ToSet(t) : evs[m.ev] = Held(m.fd, evs[m.ev].type)
    BY <1>9 DEF Inv, BatchAgrees
  <2>2. \A m \in ToSet(t) : ~Cleaning(m.ev, "call")'
    BY <1>8, <1>9 DEF Cleaning
  <2>3. ASSUME NEW i \in DOMAIN t, NEW j \in DOMAIN t, t[i].ev = t[j].ev PROVE i = j
    <3>1. i + 1 \in DOMAIN batch /\ j + 1 \in DOMAIN batch /\ batch[i + 1].ev = batch[j + 1].ev
      BY <1>2, <1>3, <1>4, <2>3
    <3>2. i + 1 = j + 1
      BY <3>1 DEF Inv, BatchAgrees
    <3> QED
      BY <1>4, <3>2
  <2> QED
    BY <1>1, <2>1, <2>2, <2>3 DEF BatchAgrees
<1>18. StackPlaced'
  BY <1>1 DEF StackPlaced
<1>19. Inv'
  BY <1>10, <1>11, <1>14, <1>15, <1>16, <1>17, <1>18 DEF Inv
<1> QED
  BY <1>6, <1>8, <1>19 DEF n0

-----------------------------------------------------------------------------
(* The innermost callback in progress.                                     *)
LEMMA TopFacts ==
  ASSUME Inv, NEW op, Top(op)
  PROVE  LET h == Head(stack)
             t == Tail(stack)
         IN  /\ h \in Frames /\ h.op = op /\ h.ev \in Event /\ h = [op |-> op, ev |-> h.ev]
             /\ t \in Seq(Frame) /\ Apart(t) /\ CallsLast(t)
             /\ ToSet(t) = Frames \ {h} /\ ToSet(t) = {f \in Frames : f.ev # h.ev}
             /\ \A f \in Frames : f.ev = h.ev => f = h
             /\ op = "call" => t = <<>>
             /\ pc \in {"main", "handle"}
<1> DEFINE h == Head(stack)
           t == Tail(stack)
<1>1. stack \in Seq(Frame) /\ stack # <<>> /\ h.op = op
  BY DEF Inv, TypeOK, Frame, Top
<1>2. /\ h \in Frame /\ h \in Frames
      /\ t \in Seq(Frame) /\ Apart(t) /\ CallsLast(t)
      /\ ToSet(t) = Frames \ {h}
      /\ \A f \in Frames : f.ev = h.ev => f = h
      /\ h.op = "call" => t = <<>>
  BY <1>1, PopFrame DEF Inv, Frames
<1>3. pc \in {"main", "handle"}
  BY <1>1 DEF Inv, TypeOK, StackPlaced
<1> HIDE DEF h, t
<1>4. h.ev \in Event /\ h = [op |-> op, ev |-> h.ev]
  BY <1>1, <1>2 DEF Frame
<1>5. ToSet(t) = {f \in Frames : f.ev # h.ev}
  BY <1>2
<1> QED
  BY <1>1, <1>2, <1>3, <1>4, <1>5 DEF h, t

(* The innermost callback is over and its event, a held one, is kept, or a *)
(* dying one is freed.                                                     *)
LEMMA ReturnedInv ==
  ASSUME Inv, NEW op, Top(op), op \in {"call", "free"}, stack' = Tail(stack),
         evs' = IF op = "free" THEN [evs EXCEPT ![Head(stack).ev] = Idle] ELSE evs,
         UNCHANGED <<ht, knotes, term_flag, pc, batch>>
  PROVE  Inv'
<1>0. PICK e \in Event : e = Head(stack).ev
  BY TopFacts
<1> DEFINE h == Head(stack)
           t == Tail(stack)
<1>1. /\ h \in Frames /\ h.op = op /\ h = [op |-> op, ev |-> e]
      /\ t \in Seq(Frame) /\ Apart(t) /\ CallsLast(t)
      /\ ToSet(t) = Frames \ {h}
      /\ \A f \in Frames : f.ev = e => f = h
  BY <1>0, TopFacts
<1>2. evs' = IF op = "free" THEN [evs EXCEPT ![e] = Idle] ELSE evs
  BY <1>0
<1>3. stack' = t
  OBVIOUS
<1> HIDE DEF h, t
<1>4. Frames' = Frames \ {h}
  BY <1>1, <1>3 DEF Frames
<1>5. /\ \A g \in Event : g # e \/ op = "call" => evs'[g] = evs[g]
      /\ op = "free" => evs'[e] = Idle /\ evs'[e].state = "client"
  BY <1>1, <1>2 DEF Inv, TypeOK, Idle
<1>6. evs[e].state = IF op = "call" THEN "held" ELSE "dying"
  BY <1>1, FrameFacts
<1>7. ~Cleaning(e, "del") /\ ~Cleaning(e, "del")'
  <2>1. [op |-> "del", ev |-> e].ev = e /\ [op |-> "del", ev |-> e].op = "del"
    OBVIOUS
  <2>2. [op |-> "del", ev |-> e] \notin Frames
    BY <1>1, <2>1
  <2> QED
    BY <1>4, <2>2 DEF Cleaning
<1>8. \A g \in Event : g # e => \A o : Cleaning(g, o)' <=> Cleaning(g, o)
  BY <1>1, <1>4 DEF Cleaning
<1>9. NoneLost'
  BY <1>1, <1>2 DEF Inv, NoneLost
<1>10. TypeOK'
  <2>1. evs' \in [Event -> {Idle} \cup [state : {"held", "dying", "lost"}, fd : Fd, type : Types]]
    BY <1>9 DEF NoneLost, Kept
  <2> QED
    BY <1>1, <1>3, <2>1 DEF Inv, TypeOK, Frame
<1>11. TablesSound'
  BY DEF Inv, TablesSound
<1>12. TablesAgree'
  <2> SUFFICES ASSUME NEW y \in Dirs, NEW r \in Fd, NEW g \in Event
               PROVE  ToList(y, r, g)' <=> ToList(y, r, g)
    BY DEF Inv, TablesAgree, Listed
  <2>1. CASE g # e
    BY <1>5, <1>8, <2>1 DEF ToList
  <2>2. CASE g = e /\ op = "call"
    BY <1>5, <1>7, <2>2 DEF ToList
  <2>3. CASE g = e /\ op = "free"
    BY <1>5, <1>6, <1>7, <2>3 DEF ToList
  <2> QED
    BY <2>1, <2>2, <2>3
<1>13. KnotesBacked'
  <2>1. \A n \in knotes : evs'[n.ev] = evs[n.ev]
    BY <1>5, <1>6, KnoteFacts
  <2> QED
    BY <2>1 DEF Inv, KnotesBacked
<1>14. FramesAgree'
  <2>1. ASSUME NEW f \in Frames'
        PROVE  evs'[f.ev].state = IF f.op = "call" THEN "held" ELSE "dying"
    <3>1. f \in Frames /\ f.ev # e /\ f.ev \in Event
      BY <1>1, <1>4, FrameFacts
    <3> QED
      BY <1>5, <3>1 DEF Inv, FramesAgree
  <2>2. ASSUME NEW g \in Event, evs'[g].state = "dying"
        PROVE  Cleaning(g, "del")' \/ Cleaning(g, "free")'
    <3>1. g # e
      BY <1>5, <1>6, <2>2
    <3> QED
      BY <1>5, <1>8, <2>2, <3>1 DEF Inv, FramesAgree
  <2> QED
    BY <2>1, <2>2 DEF FramesAgree
<1>15. BatchAgrees'
  <2>1. ASSUME NEW n \in ToSet(batch)
        PROVE  evs'[n.ev] = Held(n.fd, evs'[n.ev].type) /\ ~Cleaning(n.ev, "call")'
    <3>1. n.ev \in Event /\ evs[n.ev].state = "held"
      BY KnoteFacts
    <3>2. evs'[n.ev] = evs[n.ev]
      BY <1>5, <1>6, <3>1
    <3>3. ~Cleaning(n.ev, "call")'
      BY <1>4 DEF Inv, BatchAgrees, Cleaning
    <3> QED
      BY <3>2, <3>3 DEF Inv, BatchAgrees
  <2> QED
    BY <2>1 DEF Inv, BatchAgrees
<1>16. Apart(stack)' /\ CallsLast(stack)' /\ StackPlaced'
  <2>1. pc \notin {"top", "wait"}
    BY TopFacts
  <2> QED
    BY <1>1, <1>3, <1>4, <2>1 DEF Inv, StackPlaced, Apart, CallsLast
<1> QED
  BY <1>9, <1>10, <1>11, <1>12, <1>13, <1>14, <1>15, <1>16 DEF Inv

(* A persistent event stays, a one-shot event is deleted.                  *)
LEMMA CallbackReturnsInv ==
  ASSUME Inv, CallbackReturns
  PROVE  Inv'
<1> DEFINE e == Head(stack).ev
<1>1. Top("call") /\ UNCHANGED <<ht, term_flag, pc, batch>>
  BY DEF CallbackReturns
<1>2. CASE Has(evs[e].type, PERSIST)
  <2>1. stack' = Tail(stack) /\ UNCHANGED <<knotes, evs>>
    BY <1>2 DEF CallbackReturns
  <2> QED
    BY <1>1, <2>1, ReturnedInv
<1>3. CASE ~Has(evs[e].type, PERSIST)
  <2>1. Deleting(e, Tail(stack))
    BY <1>3 DEF CallbackReturns
  <2>2. /\ e \in Event /\ Head(stack) \in Frames /\ Head(stack).op = "call"
        /\ Tail(stack) \in Seq(Frame) /\ Apart(Tail(stack)) /\ CallsLast(Tail(stack))
        /\ ToSet(Tail(stack)) = {f \in Frames : f.ev # e} /\ pc \in {"main", "handle"}
    BY <1>1, TopFacts
  <2>3. evs[e].state = "held" /\ Cleaning(e, "call")
    BY <2>2, FrameFacts
  <2>4. Unbatched(e)
    <3>1. batch \in Seq(Knotes)
      BY DEF Inv, TypeOK
    <3>2. \A n \in ToSet(batch) : n.ev # e
      BY <2>3 DEF Inv, BatchAgrees
    <3> QED
      BY <3>1, <3>2, ToSetPlaces DEF Unbatched
  <2> HIDE DEF e
  <2> QED
    BY <1>1, <2>1, <2>2, <2>3, <2>4, DeletingInv
<1> QED
  BY <1>2, <1>3

(* The deletion goes on: the table still has the event, and only it, under *)
(* its socket, so kq_del unlinks what it was called with.                  *)
LEMMA DelReturnsUnlinks ==
  ASSUME Inv, DelReturns
  PROVE  LET e == Head(stack).ev
             x == TableOf(e)
         IN  /\ x \in Dirs /\ e \in Event /\ evs[e].fd \in Fd /\ HasKey(ht[x], evs[e].fd)
             /\ Lookup(ht[x], evs[e].fd) = [key |-> evs[e].fd, val |-> e]
             /\ ht' = [ht EXCEPT ![x] = Without(@, evs[e].fd)]
             /\ stack' = <<[op |-> "free", ev |-> e]>> \o Tail(stack)
             /\ evs' = evs
             /\ UNCHANGED <<knotes, term_flag, pc, batch>>
<1> DEFINE e == Head(stack).ev
           x == TableOf(e)
           s == evs[e].fd
           p == [key |-> s, val |-> e]
<1>1. Top("del") /\ UNCHANGED <<knotes, term_flag, pc, batch>>
  BY DEF DelReturns
<1>2. e \in Event /\ Cleaning(e, "del") /\ evs[e].state = "dying"
  <2>1. Head(stack) \in Frames /\ Head(stack).op = "del"
    BY <1>1, TopFacts
  <2> QED
    BY <2>1, FrameFacts
<1>3. evs[e] \in Kept /\ s \in Fd /\ x \in Dirs
  BY <1>2, EventFacts DEF Idle, TableOf
<1>4. p \in Entries(ht[x])
  <2>1. ToList(x, s, e)
    BY <1>2 DEF ToList, TableOf
  <2> QED
    BY <1>2, <1>3, <2>1 DEF Inv, TablesAgree, Listed
<1>5. ht[x] \in Tables(Pair) /\ WellPlaced(ht[x]) /\ NoDuplicate(ht[x])
  BY <1>3, TableFacts DEF Inv, TablesSound
<1> HIDE DEF x
<1>6. HasKey(ht[x], s)
  BY <1>4, <1>5, HasKeyIsEntry
<1>7. Lookup(ht[x], s) = p
  <2>1. \A q \in Entries(ht[x]) : q.key = s => q = Lookup(ht[x], s)
    BY <1>5, <1>6, WithoutRemoves
  <2> QED
    BY <1>4, <2>1
<1>8. Lookup(ht[x], s).val = e
  BY <1>7
<1>9. /\ ht' = [ht EXCEPT ![x] = Without(@, s)]
      /\ evs' = [v \in Event |-> IF v = e THEN [evs[v] EXCEPT !.state = "dying"] ELSE evs[v]]
      /\ stack' = <<[op |-> "free", ev |-> e]>> \o Tail(stack)
  <2>1. HasKey(ht[TableOf(e)], s) /\ Lookup(ht[TableOf(e)], s).val = e
    BY <1>6, <1>8 DEF x
  <2> QED
    BY <2>1 DEF DelReturns, x
<1>10. evs' = evs
  <2>1. [evs[e] EXCEPT !.state = "dying"] = evs[e]
    BY <1>2, <1>3 DEF Kept
  <2>2. evs' = [v \in Event |-> evs[v]]
    BY <1>9, <2>1
  <2> QED
    BY <2>2 DEF Inv, TypeOK
<1> QED
  BY <1>1, <1>2, <1>3, <1>6, <1>7, <1>9, <1>10 DEF x

LEMMA DelReturnsInv ==
  ASSUME Inv, DelReturns
  PROVE  Inv'
<1>0. PICK e \in Event : e = Head(stack).ev
  BY DelReturnsUnlinks
<1> DEFINE h == Head(stack)
           x == TableOf(e)
           s == evs[e].fd
           p == [key |-> s, val |-> e]
           t == Tail(stack)
           f0 == [op |-> "free", ev |-> e]
<1>1. /\ x \in Dirs /\ s \in Fd /\ HasKey(ht[x], s)
      /\ Lookup(ht[x], s) = p
      /\ ht' = [ht EXCEPT ![x] = Without(@, s)]
      /\ stack' = <<f0>> \o t
      /\ evs' = evs
      /\ UNCHANGED <<knotes, term_flag, pc, batch>>
  BY <1>0, DelReturnsUnlinks
<1>2. Top("del")
  BY DEF DelReturns
<1>3. /\ h \in Frames /\ h = [op |-> "del", ev |-> e]
      /\ t \in Seq(Frame) /\ Apart(t) /\ CallsLast(t)
      /\ ToSet(t) = Frames \ {h} /\ ToSet(t) = {f \in Frames : f.ev # e}
      /\ pc \in {"main", "handle"}
  BY <1>0, <1>2, TopFacts
<1>4. f0 \in Frame /\ f0.op # "call" /\ f0.ev = e
  BY <1>1 DEF Frame
<1> HIDE DEF h, t, x
<1>5. /\ <<f0>> \o t \in Seq(Frame) /\ Apart(<<f0>> \o t) /\ CallsLast(<<f0>> \o t)
      /\ ToSet(<<f0>> \o t) = ToSet(t) \cup {f0}
  BY <1>3, <1>4, PushFrame
<1>6. Frames' = (Frames \ {h}) \cup {f0}
  BY <1>1, <1>3, <1>5 DEF Frames
<1>7. /\ ht[x] \in Tables(Pair) /\ WellPlaced(ht[x]) /\ NoDuplicate(ht[x])
  BY <1>1, TableFacts DEF Inv, TablesSound
<1>8. /\ Without(ht[x], s) \in Tables(Pair)
      /\ Entries(Without(ht[x], s)) = Entries(ht[x]) \ {p}
      /\ WellPlaced(Without(ht[x], s)) /\ NoDuplicate(Without(ht[x], s))
  BY <1>1, <1>7, WithoutRemoves
<1>9. /\ ht' \in [Dirs -> [Buckets -> Seq(Pair)]]
      /\ ht'[x] = Without(ht[x], s)
      /\ \A y \in Dirs : y # x => ht'[y] = ht[y]
  BY <1>1, <1>8 DEF Inv, TypeOK, Tables, Pair, Dirs
<1>10. \A y \in Dirs : Entries(ht'[y]) = IF y = x THEN Entries(ht[x]) \ {p} ELSE Entries(ht[y])
  BY <1>8, <1>9
<1>11. evs[e].state = "dying"
  BY <1>3, FrameFacts
<1>12. ~Cleaning(e, "del")' /\ Cleaning(e, "free")'
  BY <1>3, <1>6 DEF Cleaning
<1>13. \A g \in Event : g # e => \A o : Cleaning(g, o)' <=> Cleaning(g, o)
  BY <1>3, <1>4, <1>6 DEF Cleaning
<1>14. TypeOK'
  BY <1>1, <1>5, <1>9 DEF Inv, TypeOK, Pair, Dirs, Frame
<1>15. TablesSound' /\ NoneLost'
  BY <1>1, <1>8, <1>9 DEF Inv, TablesSound, NoneLost
<1>16. TablesAgree'
  <2> SUFFICES ASSUME NEW y \in Dirs, NEW r \in Fd, NEW g \in Event
               PROVE  Listed(y, r, g)' <=> ToList(y, r, g)'
    BY DEF TablesAgree
  <2>1. Listed(y, r, g) <=> ToList(y, r, g)
    BY DEF Inv, TablesAgree
  <2>2. CASE g = e
    <3>1. ~ToList(y, r, e)'
      BY <1>1, <1>11, <1>12 DEF ToList
    <3>2. ASSUME Listed(y, r, e)' PROVE FALSE
      <4>1. [key |-> r, val |-> e] # p \/ y # x
        BY <1>10, <3>2 DEF Listed
      <4>2. Listed(y, r, e)
        BY <1>10, <3>2 DEF Listed
      <4>3. r = s /\ Table(evs[e].type) = y
        BY <2>1, <2>2, <4>2 DEF ToList
      <4> QED
        BY <4>1, <4>3 DEF x, TableOf
    <3> QED
      BY <2>2, <3>1, <3>2
  <2>3. CASE g # e
    <3>1. Listed(y, r, g)' <=> Listed(y, r, g)
      BY <1>10, <2>3 DEF Listed
    <3>2. ToList(y, r, g)' <=> ToList(y, r, g)
      BY <1>1, <1>13, <2>3 DEF ToList
    <3> QED
      BY <2>1, <3>1, <3>2
  <2> QED
    BY <2>2, <2>3
<1>17. KnotesBacked'
  BY <1>1 DEF Inv, KnotesBacked
<1>18. FramesAgree'
  <2>1. ASSUME NEW f \in Frames'
        PROVE  evs'[f.ev].state = IF f.op = "call" THEN "held" ELSE "dying"
    BY <1>1, <1>4, <1>6, <1>11 DEF Inv, FramesAgree
  <2>2. ASSUME NEW g \in Event, evs'[g].state = "dying"
        PROVE  Cleaning(g, "del")' \/ Cleaning(g, "free")'
    BY <1>1, <1>12, <1>13, <2>2 DEF Inv, FramesAgree
  <2> QED
    BY <2>1, <2>2 DEF FramesAgree
<1>19. BatchAgrees'
  <2>1. \A n \in ToSet(batch) : ~Cleaning(n.ev, "call")'
    BY <1>3, <1>4, <1>6 DEF Inv, BatchAgrees, Cleaning
  <2> QED
    BY <1>1, <2>1 DEF Inv, BatchAgrees
<1>20. Apart(stack)' /\ CallsLast(stack)' /\ StackPlaced'
  BY <1>1, <1>3, <1>4, <1>5, <1>6 DEF Inv, StackPlaced, Apart, CallsLast
<1> QED
  BY <1>14, <1>15, <1>16, <1>17, <1>18, <1>19, <1>20 DEF Inv

LEMMA FreeReturnsInv ==
  ASSUME Inv, FreeReturns
  PROVE  Inv'
<1>1. /\ Top("free") /\ stack' = Tail(stack)
      /\ evs' = [evs EXCEPT ![Head(stack).ev] = Idle]
      /\ UNCHANGED <<ht, knotes, term_flag, pc, batch>>
  BY DEF FreeReturns
<1> QED
  BY <1>1, ReturnedInv

-----------------------------------------------------------------------------
(* Every step of careful clients, of the kernel and of the loop keeps Inv. *)
LEMMA NextInv ==
  ASSUME Careful
  PROVE  Inv /\ [Next]_vars => Inv'
<1> SUFFICES ASSUME Inv, [Next]_vars PROVE Inv'
  OBVIOUS
<1>1. CASE \E e \in Event, s \in Sock, type \in Types : EventAdd(e, s, type)
  BY <1>1, EventAddInv
<1>2. CASE \E e \in Event : EventDel(e)
  BY <1>2, EventDelInv
<1>3. CASE EventAddRefused \/ UNCHANGED vars
  <2>1. UNCHANGED <<ht, knotes, term_flag, evs, pc, batch, stack>>
    BY <1>3 DEF EventAddRefused, vars
  <2>2. term_flag' \in BOOLEAN
    BY <2>1 DEF Inv, TypeOK
  <2> QED
    BY <2>1, <2>2, QuietInv
<1>4. CASE (\E s \in Fd : Close(s)) \/ LoopExit
  <2>1. /\ UNCHANGED <<ht, evs, batch, stack, pc>>
        /\ knotes' \subseteq knotes /\ term_flag' \in BOOLEAN
    BY <1>4 DEF Close, LoopExit, Inv, TypeOK
  <2> QED
    BY <2>1, QuietInv
<1>5. CASE EventLoop \/ LoopReturns \/ Wait \/ KeventFails \/ EndBatch
  <2>1. /\ UNCHANGED <<ht, evs, batch, stack, knotes, term_flag>>
        /\ pc' \in {"main", "top", "wait", "handle"}
    BY <1>5 DEF EventLoop, LoopReturns, Wait, KeventFails, EndBatch
  <2>2. stack = <<>> /\ batch = <<>>
    BY <1>5 DEF EventLoop, LoopReturns, Wait, KeventFails, EndBatch, Inv, StackPlaced
  <2>3. knotes' \subseteq knotes /\ term_flag' \in BOOLEAN
    BY <2>1 DEF Inv, TypeOK
  <2> QED
    BY <2>1, <2>2, <2>3, QuietInv
<1>6. CASE DestroyAndNew
  BY <1>6, DestroyAndNewInv
<1>7. CASE \E rs \in SUBSET knotes : \E ready \in SetToSeqs(rs) :
             Cardinality(rs) <= MaxEvents /\ KeventReturns(ready)
  BY <1>7, KeventReturnsInv
<1>8. CASE Dispatch
  BY <1>8, DispatchInv
<1>9. CASE CallbackReturns
  BY <1>9, CallbackReturnsInv
<1>10. CASE DelReturns
  BY <1>10, DelReturnsInv
<1>11. CASE FreeReturns
  BY <1>11, FreeReturnsInv
<1> QED
  BY <1>1, <1>2, <1>3, <1>4, <1>5, <1>6, <1>7, <1>8, <1>9, <1>10, <1>11
     DEF Next, ClientCalls, Kevent, LoopSteps, Returns

LEMMA AlwaysInv ==
  ASSUME Careful
  PROVE  Spec => []Inv
<1>1. Inv /\ [Next]_vars => Inv'
  BY NextInv
<1> QED
  BY <1>1, InitInv, PTL DEF Spec

-----------------------------------------------------------------------------
(* The invariants of the runs, which speak of places, follow from Inv.     *)
LEMMA FramePlaces ==
  ASSUME TypeOK
  PROVE  /\ \A e, op : InFrame(e, op) <=> Cleaning(e, op)
         /\ \A e : e \in Calling <=> Cleaning(e, "call")
         /\ \A i \in DOMAIN stack : stack[i] \in Frames
<1>1. stack \in Seq(Frame) /\ DOMAIN stack = 1 .. Len(stack)
  BY DEF TypeOK, Frame
<1>2. \A x : x \in Frames <=> \E i \in DOMAIN stack : stack[i] = x
  BY <1>1, ToSetPlaces DEF Frames
<1>3. \A i \in DOMAIN stack : stack[i] = [op |-> stack[i].op, ev |-> stack[i].ev]
  <2>1. \A i \in DOMAIN stack : stack[i] \in Frame
    BY <1>1
  <2>2. \A f \in Frame : f = [op |-> f.op, ev |-> f.ev]
    BY DEF Frame
  <2> QED
    BY <2>1, <2>2
<1>4. ASSUME NEW e PROVE e \in Calling <=> Cleaning(e, "call")
  <2>1. ASSUME e \in Calling PROVE Cleaning(e, "call")
    <3>1. PICK i \in DOMAIN stack : stack[i].op = "call" /\ stack[i].ev = e
      BY <2>1 DEF Calling
    <3>2. stack[i] = [op |-> "call", ev |-> e]
      BY <1>3, <3>1
    <3> QED
      BY <1>2, <3>2 DEF Cleaning
  <2>2. ASSUME Cleaning(e, "call") PROVE e \in Calling
    <3>1. PICK i \in DOMAIN stack : stack[i] = [op |-> "call", ev |-> e]
      BY <1>2, <2>2 DEF Cleaning
    <3>2. stack[i].op = "call" /\ stack[i].ev = e
      BY <3>1
    <3> QED
      BY <3>2 DEF Calling
  <2> QED
    BY <2>1, <2>2
<1>5. \A e, op : InFrame(e, op) <=> Cleaning(e, op)
  BY <1>2 DEF InFrame, Cleaning
<1> QED
  BY <1>2, <1>4, <1>5

LEMMA InvTables == Inv => TablesHoldEvents
<1> SUFFICES ASSUME Inv, NEW x \in Dirs, NEW s \in Fd, NEW e \in Event
             PROVE  (\E p \in Entries(ht[x]) : p.key = s /\ p.val = e)
                      <=> /\ evs[e].state = "held" \/ InFrame(e, "del")
                          /\ evs[e].fd = s /\ Table(evs[e].type) = x
  BY DEF TablesHoldEvents, Dirs
<1>1. InFrame(e, "del") <=> Cleaning(e, "del")
  BY FramePlaces DEF Inv
<1>2. Listed(x, s, e) <=> ToList(x, s, e)
  BY DEF Inv, TablesAgree
<1>3. \A p \in Entries(ht[x]) : p = [key |-> p.key, val |-> p.val]
  BY EntryFacts
<1>4. (\E p \in Entries(ht[x]) : p.key = s /\ p.val = e) <=> Listed(x, s, e)
  BY <1>3 DEF Listed
<1> QED
  BY <1>1, <1>2, <1>4 DEF ToList

LEMMA InvFrames == Inv => FramesSound
<1> SUFFICES ASSUME Inv PROVE FramesSound
  OBVIOUS
<1>1. /\ \A e, op : InFrame(e, op) <=> Cleaning(e, op)
      /\ \A i \in DOMAIN stack : stack[i] \in Frames
  BY FramePlaces DEF Inv
<1> QED
  BY <1>1 DEF FramesSound, Inv, FramesAgree, Apart

LEMMA InvBatch == Inv => BatchLive
<1> SUFFICES ASSUME Inv PROVE BatchLive
  OBVIOUS
<1>1. batch \in Seq(Knotes)
  BY DEF Inv, TypeOK
<1>2. \A i \in DOMAIN batch : batch[i] \in ToSet(batch)
  BY <1>1, ToSetPlaces
<1>3. \A e : e \in Calling <=> Cleaning(e, "call")
  BY FramePlaces DEF Inv
<1> QED
  BY <1>2, <1>3 DEF BatchLive, Inv, BatchAgrees

(* Every variable of the loop keeps its type.                              *)
THEOREM TypeCorrect ==
  ASSUME Careful
  PROVE  Spec => []TypeOK
<1>1. Inv => TypeOK
  BY DEF Inv
<1> QED
  BY <1>1, AlwaysInv, PTL

(* The tables hold exactly the events added and not deleted, and those     *)
(* whose first cleanup callback runs.                                      *)
THEOREM EventsInTables ==
  ASSUME Careful
  PROVE  Spec => []TablesHoldEvents
BY InvTables, AlwaysInv, PTL

(* The kernel keeps no pointer to an event that is freed or being freed.   *)
THEOREM KernelSeesLive ==
  ASSUME Careful
  PROVE  Spec => []KnotesBacked
<1>1. Inv => KnotesBacked
  BY DEF Inv
<1> QED
  BY <1>1, AlwaysInv, PTL

(* However deletions nest, an event outlives its callback and is in one    *)
(* deletion only.                                                          *)
THEOREM EventsFreedOnce ==
  ASSUME Careful
  PROVE  Spec => []FramesSound
BY InvFrames, AlwaysInv, PTL

(* What is left of a batch points to live events.                          *)
THEOREM BatchIsLive ==
  ASSUME Careful
  PROVE  Spec => []BatchLive
BY InvBatch, AlwaysInv, PTL

-----------------------------------------------------------------------------
(* The kqueue backend is an event base: its steps, seen through the states *)
(* of the events, are those of EventBase or leave them alone.              *)
States == [e \in Event |-> evs[e].state]

(* Nothing is in progress for the event base when no callback is.          *)
LEMMA QuietIffEmpty ==
  ASSUME Inv
  PROVE  /\ Base!Quiet <=> stack = <<>>
         /\ Base!ClientRuns <=> ClientRuns
         /\ States \in [Event -> {"client", "held", "dying"}]
<1>1. stack \in Seq(Frame)
  BY DEF Inv, TypeOK, Frame
<1>2. stack = <<>> <=> Frames = {}
  <2>1. ASSUME stack = <<>> PROVE Frames = {}
    BY <2>1 DEF Frames, ToSet
  <2>2. ASSUME stack # <<>> PROVE Frames # {}
    BY <1>1, <2>2, PopFrame DEF Inv, Frames
  <2> QED
    BY <2>1, <2>2
<1>3. \A e : e \in Calling <=> Cleaning(e, "call")
  BY FramePlaces DEF Inv
<1>4. ASSUME stack = <<>> PROVE Calling = {} /\ \A e \in Event : evs[e].state # "dying"
  BY <1>2, <1>3, <1>4 DEF Cleaning, Inv, FramesAgree
<1>5. ASSUME stack # <<>> PROVE Calling # {} \/ \E e \in Event : evs[e].state = "dying"
  <2>1. PICK f \in Frames : TRUE
    BY <1>2, <1>5
  <2>2. f.ev \in Event /\ Cleaning(f.ev, f.op)
        /\ evs[f.ev].state = IF f.op = "call" THEN "held" ELSE "dying"
    BY FrameFacts
  <2> QED
    BY <1>3, <2>2
<1>6. Base!Quiet <=> stack = <<>>
  BY <1>4, <1>5 DEF Base!Quiet, Base!Dying
<1>7. Base!ClientRuns <=> ClientRuns
  BY <1>6 DEF Base!ClientRuns, ClientRuns, Mode
<1> QED
  BY <1>6, <1>7, EventFacts DEF States

CallsOf(F) == {f.ev : f \in {g \in F : g.op = "call"}}
CallingOf == Calling = CallsOf(Frames)

LEMMA InvCalling == Inv => CallingOf
<1> SUFFICES ASSUME Inv PROVE Calling = CallsOf(Frames)
  BY DEF CallingOf
<1>1. \A e : e \in Calling <=> Cleaning(e, "call")
  BY FramePlaces DEF Inv
<1>2. \A f \in Frames : f.op = "call" => Cleaning(f.ev, "call")
  BY FrameFacts
<1>3. ASSUME NEW e, Cleaning(e, "call") PROVE e \in CallsOf(Frames)
  <2> DEFINE f == [op |-> "call", ev |-> e]
  <2>1. f \in Frames /\ f.op = "call" /\ f.ev = e
    BY <1>3 DEF Cleaning
  <2> HIDE DEF f
  <2> QED
    BY <2>1 DEF CallsOf
<1>4. ASSUME NEW e \in CallsOf(Frames) PROVE Cleaning(e, "call")
  BY <1>2 DEF CallsOf
<1> QED
  BY <1>1, <1>3, <1>4

(* What a step does to the callbacks that the event base sees.             *)
LEMMA CallingStep ==
  ASSUME Inv, Inv'
  PROVE  Calling = CallsOf(Frames) /\ Calling' = CallsOf(Frames')
<1>1. Inv' => CallingOf'
  BY InvCalling, PTL
<1> QED
  BY <1>1, InvCalling DEF CallingOf

(* A step that moves one event and one that moves none.                    *)
LEMMA EventMoves ==
  ASSUME NEW e \in Event, NEW from, NEW to,
         evs[e].state = from, evs'[e].state = to,
         \A g \in Event : g # e => evs'[g].state = evs[g].state
  PROVE  Base!Moves(e, from, to)
<1>1. States[e] = from /\ States' = [States EXCEPT ![e] = to]
  BY DEF States
<1> QED
  BY <1>1 DEF Base!Moves, States

(* The steps of the client outside of deletions.                           *)
LEMMA ClientSteps ==
  ASSUME Inv, Inv',
         \/ \E e \in Event, s \in Sock, type \in Types : EventAdd(e, s, type)
         \/ EventAddRefused \/ (\E s \in Fd : Close(s)) \/ LoopExit \/ EventLoop
         \/ DestroyAndNew
  PROVE  Base!Next \/ UNCHANGED Base!vars
<1>1. ASSUME NEW e \in Event, NEW s \in Sock, NEW type \in Types, EventAdd(e, s, type)
      PROVE  Base!Next
  <2>1. /\ ClientRuns /\ evs[e] = Idle /\ evs' = [evs EXCEPT ![e] = Held(s, type)]
        /\ UNCHANGED <<term_flag, pc, batch, stack>>
    BY <1>1 DEF EventAdd
  <2>2. evs[e].state = "client" /\ evs'[e].state = "held"
    BY <2>1 DEF Inv, TypeOK, Held, Idle
  <2>3. \A g \in Event : g # e => evs'[g].state = evs[g].state
    BY <2>1 DEF Inv, TypeOK
  <2>4. Base!Moves(e, "client", "held")
    BY <2>2, <2>3, EventMoves
  <2>5. Base!Add(e)
    BY <2>1, <2>4, QuietIffEmpty DEF Base!Add, Calling, Mode
  <2> QED
    BY <2>5 DEF Base!Next
<1>2. CASE EventAddRefused \/ \E s \in Fd : Close(s)
  <2>1. UNCHANGED <<evs, term_flag, pc, stack>>
    BY <1>2 DEF EventAddRefused, Close, vars
  <2> QED
    BY <2>1 DEF Base!vars, Calling, Mode
<1>3. CASE LoopExit
  <2>1. Base!LoopExit
    BY <1>3, QuietIffEmpty DEF LoopExit, Base!LoopExit, Calling, Mode
  <2> QED
    BY <2>1 DEF Base!Next
<1>4. CASE EventLoop
  <2>1. Base!Start
    BY <1>4, QuietIffEmpty DEF EventLoop, Base!Start, Calling, Mode
  <2> QED
    BY <2>1 DEF Base!Next
<1>5. CASE DestroyAndNew
  <2>1. /\ pc = "main" /\ stack = <<>> /\ term_flag' = FALSE /\ UNCHANGED <<pc, stack>>
    BY <1>5 DEF DestroyAndNew
  <2>2. \A e \in Event : evs'[e].state = "client"
    <3>1. Frames' = {}
      BY <2>1 DEF Frames, ToSet
    <3>2. \A e \in Event : evs'[e] = Idle
      <4> SUFFICES ASSUME NEW e \in Event PROVE evs'[e] = Idle
        OBVIOUS
      <4>1. CASE evs[e] = Idle
        BY <1>5, <4>1 DEF DestroyAndNew
      <4>2. CASE evs[e] # Idle
        <5>1. Frames = {}
          BY <2>1 DEF Frames, ToSet
        <5>2. evs[e].state = "held"
          BY <4>2, <5>1, EventFacts DEF Inv, FramesAgree, Cleaning
        <5>3. evs[e].fd \in Fd /\ Table(evs[e].type) \in Dirs
          BY <4>2, EventFacts
        <5>4. Listed(Table(evs[e].type), evs[e].fd, e)
          BY <5>2, <5>3 DEF Inv, TablesAgree, ToList
        <5>5. \E x \in {"rd", "wr"} : \E p \in Entries(ht[x]) : p.val = e
          BY <5>3, <5>4 DEF Listed, Dirs
        <5> QED
          BY <1>5, <5>5 DEF DestroyAndNew
      <4> QED
        BY <4>1, <4>2
    <3> QED
      BY <3>2 DEF Idle
  <2>3. Base!Renew
    BY <2>1, <2>2, QuietIffEmpty DEF Base!Renew, Calling, Mode
  <2> QED
    BY <2>3 DEF Base!Next
<1> QED
  BY <1>1, <1>2, <1>3, <1>4, <1>5

(* The steps of the loop and of the kernel.                                *)
LEMMA LoopStepsMap ==
  ASSUME Inv, Inv', LoopSteps \/ Kevent
  PROVE  Base!Next \/ UNCHANGED Base!vars
<1>1. CASE LoopReturns \/ KeventFails
  <2>1. /\ stack = <<>>
        /\ pc = "wait" \/ (pc = "top" /\ term_flag)
        /\ pc' = "main" /\ UNCHANGED <<evs, term_flag, stack>>
    BY <1>1 DEF LoopReturns, KeventFails, Inv, StackPlaced
  <2>2. Base!Return
    BY <2>1, QuietIffEmpty DEF Base!Return, Calling, Mode
  <2> QED
    BY <2>2 DEF Base!Next
<1>2. CASE Wait
  <2>1. /\ stack = <<>> /\ pc = "top" /\ ~term_flag
        /\ pc' = "wait" /\ UNCHANGED <<evs, term_flag, stack>>
    BY <1>2 DEF Wait, Inv, StackPlaced
  <2>2. Base!Wait
    BY <2>1, QuietIffEmpty DEF Base!Wait, Calling, Mode
  <2> QED
    BY <2>2 DEF Base!Next
<1>3. CASE \E ready : KeventReturns(ready)
  <2>1. pc = "wait" /\ pc' = "handle" /\ UNCHANGED <<evs, term_flag, stack>>
    BY <1>3 DEF KeventReturns
  <2>2. Base!Woken
    BY <2>1 DEF Base!Woken, Calling, Mode
  <2> QED
    BY <2>2 DEF Base!Next
<1>4. CASE EndBatch
  <2>1. pc = "handle" /\ pc' = "top" /\ UNCHANGED <<evs, term_flag, stack>>
    BY <1>4 DEF EndBatch
  <2> QED
    BY <2>1 DEF Base!vars, Calling, Mode
<1>5. CASE Dispatch
  <2>1. PICK e \in Event : e = Head(batch).ev
    BY <1>5, DispatchInv
  <2>2. /\ evs[e].state = "held"
        /\ Frames = {} /\ Frames' = {[op |-> "call", ev |-> e]}
    BY <1>5, <2>1, DispatchInv
  <2>3. /\ pc = "handle" /\ stack = <<>>
        /\ UNCHANGED <<evs, term_flag, pc>>
    BY <1>5 DEF Dispatch
  <2>4. Calling' = {e}
    <3> DEFINE f == [op |-> "call", ev |-> e]
    <3>1. f.op = "call" /\ f.ev = e /\ Frames' = {f}
      BY <2>2
    <3> HIDE DEF f
    <3>2. CallsOf({f}) = {e}
      BY <3>1 DEF CallsOf
    <3> QED
      BY <3>1, <3>2, CallingStep
  <2>5. Base!Call(e)
    BY <2>2, <2>3, <2>4, QuietIffEmpty DEF Base!Call, Mode
  <2> QED
    BY <2>5 DEF Base!Next
<1> QED
  BY <1>1, <1>2, <1>3, <1>4, <1>5 DEF LoopSteps, Kevent

(* A held event starts to be deleted.                                      *)
LEMMA DyingMoves ==
  ASSUME Inv, NEW e \in Event, evs[e].state = "held",
         evs' = [evs EXCEPT ![e].state = "dying"]
  PROVE  Base!Moves(e, "held", "dying")
<1>1. evs[e] \in Kept
  BY EventFacts DEF Idle
<1>2. evs'[e] = [evs[e] EXCEPT !.state = "dying"]
  BY DEF Inv, TypeOK
<1>3. evs'[e].state = "dying"
  BY <1>1, <1>2 DEF Kept
<1>4. \A g \in Event : g # e => evs'[g].state = evs[g].state
  BY DEF Inv, TypeOK
<1> QED
  BY <1>3, <1>4, EventMoves

(* The deletion of an event by the client.                                 *)
LEMMA EventDelMaps ==
  ASSUME Inv, Inv', NEW e \in Event, EventDel(e)
  PROVE  Base!Delete(e)
<1> DEFINE f0 == [op |-> "del", ev |-> e]
<1>1. /\ ClientRuns /\ evs[e].state = "held" /\ e \notin Calling
      /\ evs' = [evs EXCEPT ![e].state = "dying"]
      /\ stack' = <<f0>> \o stack /\ UNCHANGED <<term_flag, pc>>
  BY DEF EventDel, Deleting
<1>2. Base!Moves(e, "held", "dying")
  BY <1>1, DyingMoves
<1>3. stack \in Seq(Frame) /\ f0 \in Frame /\ f0.op = "del"
  BY DEF Inv, TypeOK, Frame
<1> HIDE DEF f0
<1>4. Frames' = Frames \cup {f0}
  <2>1. /\ 1 \in 1 .. Len(stack) + 1 /\ <<f0>> \o stack = InsertAt(stack, 1, f0)
    BY <1>3, InsertAtEnds
  <2>2. \A i \in 1 .. Len(stack) + 1 : ToSet(InsertAt(stack, i, f0)) = ToSet(stack) \cup {f0}
    BY <1>3, InsertAtSet
  <2> QED
    BY <1>1, <2>1, <2>2 DEF Frames
<1>5. Calling' = Calling
  BY <1>3, <1>4, CallingStep DEF CallsOf
<1> QED
  BY <1>1, <1>2, <1>5, QuietIffEmpty DEF Base!Delete, Mode

(* A callback of the loop is over: it was the only one in progress.        *)
LEMMA CallbackReturnsMaps ==
  ASSUME Inv, Inv', CallbackReturns
  PROVE  Base!Next
<1>0. Top("call") /\ UNCHANGED <<term_flag, pc>>
  BY DEF CallbackReturns
<1>1. PICK e \in Event : e = Head(stack).ev
  BY <1>0, TopFacts
<1>2. /\ Head(stack) \in Frames /\ Head(stack).op = "call"
      /\ Tail(stack) = <<>> /\ ToSet(Tail(stack)) = Frames \ {Head(stack)}
  BY <1>0, TopFacts
<1>3. Frames = {Head(stack)} /\ evs[e].state = "held"
  <2>1. ToSet(<<>>) = {}
    BY DEF ToSet
  <2> QED
    BY <1>1, <1>2, <2>1, FrameFacts
<1>4. Calling = {e}
  <2>1. CallsOf(Frames) = {Head(stack).ev}
    BY <1>2, <1>3 DEF CallsOf
  <2> QED
    BY <1>1, <2>1, CallingStep
<1>5. CASE stack' = Tail(stack) /\ UNCHANGED <<knotes, evs>>
  <2>1. Frames' = {}
    BY <1>2, <1>5 DEF Frames, ToSet
  <2>2. Calling' = {}
    BY <2>1, CallingStep DEF CallsOf
  <2>3. Base!CallReturns(e)
    BY <1>0, <1>4, <1>5, <2>2 DEF Base!CallReturns, Mode
  <2> QED
    BY <2>3 DEF Base!Next
<1>6. CASE Deleting(Head(stack).ev, Tail(stack))
  <2> DEFINE f0 == [op |-> "del", ev |-> e]
  <2>1. evs' = [evs EXCEPT ![e].state = "dying"] /\ stack' = <<f0>> \o <<>>
    BY <1>1, <1>2, <1>6 DEF Deleting
  <2>2. f0.op = "del"
    OBVIOUS
  <2> HIDE DEF f0
  <2>3. stack' = <<f0>>
    BY <2>1
  <2>4. Frames' = {f0}
    BY <2>3 DEF Frames, ToSet
  <2>5. Calling' = {}
    BY <2>2, <2>4, CallingStep DEF CallsOf
  <2>6. Base!Moves(e, "held", "dying")
    BY <1>3, <2>1, DyingMoves
  <2>7. Base!CallReturns(e)
    BY <1>0, <1>4, <2>5, <2>6 DEF Base!CallReturns, Mode
  <2> QED
    BY <2>7 DEF Base!Next
<1> QED
  BY <1>5, <1>6 DEF CallbackReturns

(* Between the two cleanup callbacks the event base sees nothing happen.   *)
LEMMA DelReturnsMaps ==
  ASSUME Inv, Inv', DelReturns
  PROVE  UNCHANGED Base!vars
<1> DEFINE h == Head(stack)
           t == Tail(stack)
           f0 == [op |-> "free", ev |-> h.ev]
<1>1. stack' = <<f0>> \o t /\ UNCHANGED <<evs, term_flag, pc>> /\ h.ev \in Event
  BY DelReturnsUnlinks
<1>2. Top("del")
  BY DEF DelReturns
<1>3. h.op = "del" /\ t \in Seq(Frame) /\ ToSet(t) = Frames \ {h}
  BY <1>2, TopFacts
<1>4. f0 \in Frame /\ f0.op = "free"
  BY <1>1 DEF Frame
<1> HIDE DEF f0, h, t
<1>5. Frames' = (Frames \ {h}) \cup {f0}
  <2>1. /\ 1 \in 1 .. Len(t) + 1 /\ <<f0>> \o t = InsertAt(t, 1, f0)
    BY <1>3, <1>4, InsertAtEnds
  <2>2. \A i \in 1 .. Len(t) + 1 : ToSet(InsertAt(t, i, f0)) = ToSet(t) \cup {f0}
    BY <1>3, <1>4, InsertAtSet
  <2> QED
    BY <1>1, <1>3, <2>1, <2>2 DEF Frames
<1>6. Calling' = Calling
  BY <1>3, <1>4, <1>5, CallingStep DEF CallsOf
<1> QED
  BY <1>1, <1>6 DEF Base!vars, Mode

(* event_ht_free ends the deletion.                                        *)
LEMMA FreeReturnsMaps ==
  ASSUME Inv, Inv', FreeReturns
  PROVE  Base!Next
<1>0. Top("free") /\ UNCHANGED <<term_flag, pc>>
  BY DEF FreeReturns
<1>1. PICK e \in Event : e = Head(stack).ev
  BY <1>0, TopFacts
<1> DEFINE h == Head(stack)
<1>2. h \in Frames /\ h.op = "free" /\ h.ev = e /\ ToSet(Tail(stack)) = Frames \ {h}
  BY <1>0, <1>1, TopFacts
<1>3. stack' = Tail(stack) /\ evs' = [evs EXCEPT ![e] = Idle]
  BY <1>1 DEF FreeReturns
<1> HIDE DEF h
<1>4. evs[e].state = "dying"
  BY <1>2, FrameFacts
<1>5. evs'[e].state = "client" /\ \A g \in Event : g # e => evs'[g].state = evs[g].state
  BY <1>3 DEF Inv, TypeOK, Idle
<1>6. Base!Moves(e, "dying", "client")
  BY <1>4, <1>5, EventMoves
<1>7. Calling' = Calling
  <2>1. Frames' = Frames \ {h}
    BY <1>2, <1>3 DEF Frames
  <2> QED
    BY <1>2, <2>1, CallingStep DEF CallsOf
<1>8. Base!Freed(e)
  BY <1>0, <1>6, <1>7 DEF Base!Freed, Mode
<1> QED
  BY <1>8 DEF Base!Next

(* For clients that keep the contracts the kqueue backend is an event base.*)
THEOREM KqueueIsEventBase ==
  ASSUME Careful
  PROVE  Spec => ImplementsBase
<1>1. Init => Base!Init
  <2> SUFFICES ASSUME Init PROVE Base!Init
    OBVIOUS
  <2>1. \A e \in Event : evs[e].state = "client"
    BY DEF Init, Idle
  <2>2. Calling = {} /\ Mode = "main" /\ term_flag = FALSE
    BY DEF Init, Calling, Mode
  <2> QED
    BY <2>1, <2>2 DEF Base!Init
<1>2. Inv /\ Inv' /\ [Next]_vars => [Base!Next]_(Base!vars)
  <2> SUFFICES ASSUME Inv, Inv', [Next]_vars
               PROVE  Base!Next \/ UNCHANGED Base!vars
    OBVIOUS
  <2>1. CASE UNCHANGED vars
    BY <2>1 DEF vars, Base!vars, Calling, Mode
  <2>2. CASE \E e \in Event : EventDel(e)
    BY <2>2, EventDelMaps DEF Base!Next
  <2>3. CASE CallbackReturns
    BY <2>3, CallbackReturnsMaps
  <2>4. CASE DelReturns
    BY <2>4, DelReturnsMaps
  <2>5. CASE FreeReturns
    BY <2>5, FreeReturnsMaps
  <2>6. CASE LoopSteps \/ Kevent
    BY <2>6, LoopStepsMap
  <2>7. CASE \/ \E e \in Event, s \in Sock, type \in Types : EventAdd(e, s, type)
             \/ EventAddRefused \/ (\E s \in Fd : Close(s)) \/ LoopExit \/ EventLoop
             \/ DestroyAndNew
    BY <2>7, ClientSteps
  <2> QED
    BY <2>1, <2>2, <2>3, <2>4, <2>5, <2>6, <2>7 DEF Next, ClientCalls, Returns
<1> QED
  BY <1>1, <1>2, AlwaysInv, PTL DEF Spec, ImplementsBase, Base!Spec
=============================================================================
