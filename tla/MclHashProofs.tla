--------------------------- MODULE MclHashProofs ---------------------------
(***************************************************************************)
(* The hash table keeps its shape, its ownership of values and the         *)
(* client's iterator, for every hash size, chain limit, set of keys and    *)
(* set of values.                                                          *)
(***************************************************************************)
EXTENDS MclHash, HashTableTheorems, FiniteSetTheorems

Pair == [key : Key, val : Val]

(* What the four invariants of MclHash need of each other: a call finds    *)
(* the pair it releases because the table is well formed, and the iterator *)
(* is safe because MayRemove compares keys, which are unique.              *)
Inv ==
  /\ TypeOK
  /\ WellFormed
  /\ Ownership
  /\ IteratorLinked

LEMMA TableFacts ==
  ASSUME TypeOK
  PROVE  /\ table \in Tables(Pair) /\ it \in Iters(Pair)
         /\ Entries(table) \subseteq Pair
         /\ Keys(table) \subseteq Key
<1>1. table \in Tables(Pair) /\ it \in Iters(Pair)
  BY DEF TypeOK, Tables, Iters, Pair
<1>2. \A h \in Buckets : \A i \in 1 .. Len(table[h]) : table[h][i] \in Pair
  BY <1>1 DEF Tables
<1>3. Entries(table) \subseteq Pair
  BY <1>1, <1>2, EntryHasPlace
<1> QED
  BY <1>1, <1>3 DEF Keys, Pair

LEMMA InitInv == Init => Inv
<1> SUFFICES ASSUME Init PROVE Inv
  OBVIOUS
<1>1. table \in Tables(Pair) /\ Entries(table) = {}
  BY EmptyTableIsEmpty DEF Init
<1>2. TypeOK
  BY <1>1 DEF Init, TypeOK, Tables, Pair
<1>3. WellFormed
  <2>1. \A h \in Buckets : table[h] = <<>>
    BY DEF Init, EmptyTable
  <2>2. \A h \in Buckets : DOMAIN table[h] = {} /\ Len(table[h]) = 0
    BY <2>1
  <2> QED
    BY <2>2, HashAssumption DEF WellFormed, WellPlaced, NoDuplicate, ChainsBounded
<1>4. Ownership
  BY <1>1 DEF Init, Ownership
<1>5. IteratorLinked
  BY DEF Init, IteratorLinked, Ended, NoIter
<1> QED
  BY <1>2, <1>3, <1>4, <1>5 DEF Inv

(* Adding a pair with a new key and a value of the client's.               *)
LEMMA AddedInv ==
  ASSUME TypeOK, WellFormed, NEW k \in Key, NEW v \in Val,
         Available(k), ~HasKey(table, k), HasRoom(table, k),
         NEW t, t = WithPair(table, [key |-> k, val |-> v])
  PROVE  /\ t \in [Buckets -> Seq(Pair)]
         /\ Entries(t) = Entries(table) \cup {[key |-> k, val |-> v]}
         /\ WellPlaced(t) /\ NoDuplicate(t) /\ ChainsBounded(t)
<1> DEFINE p == [key |-> k, val |-> v]
<1>1. p \in Pair /\ p.key = k /\ table \in Tables(Pair)
  BY TableFacts DEF Pair
<1> HIDE DEF p
<1>2. /\ t \in Tables(Pair) /\ Entries(t) = Entries(table) \cup {p}
      /\ Len(t[CalHash(k)]) = Len(table[CalHash(k)]) + 1
      /\ \A h \in Buckets : h # CalHash(k) => t[h] = table[h]
  BY <1>1, WithPairAdds DEF p
<1>3. WellPlaced(t) /\ NoDuplicate(t)
  BY <1>1, WithPairKeeps DEF p, WellFormed
<1>4. ChainsBounded(t)
  <2> SUFFICES ASSUME NEW h \in Buckets PROVE Len(t[h]) <= MaxListSize
    BY DEF ChainsBounded
  <2>1. table[h] \in Seq(Pair)
    BY <1>1 DEF Tables
  <2>2. Len(table[h]) \in Nat
    BY <2>1
  <2>3. CASE h = CalHash(k)
    BY <1>2, <2>2, <2>3, HashAssumption DEF HasRoom
  <2>4. CASE h # CalHash(k)
    BY <1>2, <2>4 DEF WellFormed, ChainsBounded
  <2> QED
    BY <2>3, <2>4
<1> QED
  BY <1>2, <1>3, <1>4 DEF p, Tables

(* Unlinking the pair of a key.                                            *)
LEMMA RemovedInv ==
  ASSUME TypeOK, WellFormed, NEW k, HasKey(table, k),
         NEW t, t = Without(table, k)
  PROVE  /\ t \in [Buckets -> Seq(Pair)]
         /\ Entries(t) = Entries(table) \ {Lookup(table, k)}
         /\ Lookup(table, k) \in Entries(table) /\ Lookup(table, k).key = k
         /\ \A p \in Entries(table) : p.key = k => p = Lookup(table, k)
         /\ WellPlaced(t) /\ NoDuplicate(t) /\ ChainsBounded(t)
         /\ Available(k) => HasRoom(t, k)
<1>1. table \in Tables(Pair) /\ WellPlaced(table) /\ NoDuplicate(table)
  BY TableFacts DEF WellFormed
<1>2. /\ t \in Tables(Pair)
      /\ Lookup(table, k) \in Entries(table) /\ Lookup(table, k).key = k
      /\ \A p \in Entries(table) : p.key = k => p = Lookup(table, k)
      /\ Entries(t) = Entries(table) \ {Lookup(table, k)}
      /\ WellPlaced(t) /\ NoDuplicate(t)
      /\ Len(t[CalHash(k)]) = Len(table[CalHash(k)]) - 1
      /\ \A h \in Buckets : h # CalHash(k) => t[h] = table[h]
  BY <1>1, WithoutRemoves
<1>3. CalHash(k) \in Buckets
  BY DEF HasKey, Available
<1>4. \A h \in Buckets : Len(table[h]) \in Nat /\ Len(table[h]) <= MaxListSize
  BY <1>1 DEF Tables, WellFormed, ChainsBounded
<1>5. ChainsBounded(t)
  <2> SUFFICES ASSUME NEW h \in Buckets PROVE Len(t[h]) <= MaxListSize
    BY DEF ChainsBounded
  <2>1. CASE h = CalHash(k)
    BY <1>2, <1>4, <2>1, HashAssumption
  <2>2. CASE h # CalHash(k)
    BY <1>2, <1>4, <2>2
  <2> QED
    BY <2>1, <2>2
<1>6. HasRoom(t, k)
  BY <1>2, <1>3, <1>4, HashAssumption DEF HasRoom
<1> QED
  BY <1>2, <1>5, <1>6 DEF Tables

-----------------------------------------------------------------------------
(* One lemma per call.                                                     *)
LEMMA RefusedInv ==
  ASSUME Inv, Refused PROVE Inv'
BY DEF Inv, Refused, walk, TypeOK, WellFormed, Ownership, IteratorLinked

LEMMA FindInv ==
  ASSUME Inv, NEW k \in Key, Find(k) PROVE Inv'
<1>1. answer' \in {0, 1, None} \cup Val
  <2>1. CASE HasKey(table, k)
    <3>1. Lookup(table, k) \in Pair
      BY <2>1, TableFacts, WithoutRemoves DEF Inv, WellFormed
    <3> QED
      BY <2>1, <3>1 DEF Find, Pair
  <2>2. CASE ~HasKey(table, k)
    BY <2>2 DEF Find
  <2> QED
    BY <2>1, <2>2
<1> QED
  BY <1>1 DEF Inv, Find, walk, TypeOK, WellFormed, Ownership, IteratorLinked

LEMMA MallocInv ==
  ASSUME Inv, NEW v \in Val, Malloc(v) PROVE Inv'
<1>1. TypeOK'
  BY DEF Inv, Malloc, walk, TypeOK
<1>2. \A p \in Entries(table) : p.val # v
  BY DEF Inv, Malloc, Ownership
<1>3. Ownership'
  <2>1. \A p \in Entries(table) : p.val \in Val
    BY TableFacts DEF Inv, Pair
  <2> QED
    BY <1>2, <2>1 DEF Inv, Malloc, Ownership, TypeOK
<1> QED
  BY <1>1, <1>3 DEF Inv, Malloc, walk, WellFormed, IteratorLinked

LEMMA InsertSafeInv ==
  ASSUME Inv, NEW k \in Key, NEW v \in Val, InsertSafe(k, v) PROVE Inv'
<1> DEFINE p == [key |-> k, val |-> v]
           fits == Available(k) /\ ~HasKey(table, k) /\ HasRoom(table, k)
<1>1. CASE ~fits
  BY <1>1, RefusedInv DEF InsertSafe
<1>2. CASE fits
  <2>1. /\ table' = WithPair(table, p) /\ owner[v] = "client"
        /\ owner' = [owner EXCEPT ![v] = "table"]
        /\ answer' = 1 /\ UNCHANGED <<eraseFn, it, seen, must>>
    BY <1>2 DEF InsertSafe, walk
  <2>2. /\ table' \in [Buckets -> Seq(Pair)]
        /\ Entries(table') = Entries(table) \cup {p}
        /\ WellPlaced(table') /\ NoDuplicate(table') /\ ChainsBounded(table')
    BY <1>2, <2>1, AddedInv DEF Inv
  <2>3. TypeOK'
    BY <2>1, <2>2 DEF Inv, TypeOK, Pair
  <2>4. Ownership'
    <3>1. \A q \in Entries(table) : q.val \in Val /\ owner[q.val] = "table"
      BY TableFacts DEF Inv, Ownership, Pair
    <3>2. \A q \in Entries(table) : q.val # v
      BY <2>1, <3>1
    <3> HIDE DEF p
    <3>3. p.val = v
      BY DEF p
    <3>4. owner'[v] = "table" /\ \A w \in Val : w # v => owner'[w] = owner[w]
      BY <2>1 DEF Inv, TypeOK
    <3>5. \A q \in Entries(table') : owner'[q.val] = "table"
      BY <2>2, <3>1, <3>2, <3>3, <3>4
    <3>6. \A w \in Val : owner'[w] = "table" => \E q \in Entries(table') : q.val = w
      BY <2>2, <3>3, <3>4 DEF Inv, Ownership
    <3>7. \A q, r \in Entries(table') : q.val = r.val => q = r
      BY <2>2, <3>2, <3>3 DEF Inv, Ownership
    <3> QED
      BY <3>5, <3>6, <3>7 DEF Ownership
  <2>5. IteratorLinked'
    BY <2>1, <2>2 DEF Inv, IteratorLinked
  <2> QED
    BY <2>2, <2>3, <2>4, <2>5 DEF Inv, WellFormed
<1> QED
  BY <1>1, <1>2

LEMMA ReplaceInv ==
  ASSUME Inv, NEW k \in Key, NEW v \in Val, NEW f \in BOOLEAN,
         owner[v] = "client", Replace(k, v, f)
  PROVE  Inv'
<1> DEFINE p    == [key |-> k, val |-> v]
           old  == Lookup(table, k)
           rest == Without(table, k)
<1>1. /\ HasKey(table, k) /\ MayRemove(k)
      /\ table' = WithPair(rest, p)
      /\ owner' = [owner EXCEPT ![v] = "table", ![old.val] = Released(f)]
      /\ answer' = 1 /\ must' = must \ {k} /\ UNCHANGED <<eraseFn, it, seen>>
  BY DEF Replace
<1>2. /\ rest \in Tables(Pair) /\ Entries(rest) = Entries(table) \ {old}
      /\ old \in Entries(table) /\ old.key = k
      /\ \A q \in Entries(table) : q.key = k => q = old
      /\ WellPlaced(rest) /\ NoDuplicate(rest) /\ ChainsBounded(rest)
      /\ HasRoom(rest, k) /\ Available(k)
  BY <1>1, RemovedInv DEF Inv, HasKey, Tables
<1>3. ~HasKey(rest, k)
  BY <1>2, HasKeyIsEntry
<1>4. p \in Pair /\ p.key = k /\ p.val = v
  BY DEF Pair
<1> HIDE DEF p, old, rest
<1>5. /\ table' \in Tables(Pair) /\ Entries(table') = Entries(rest) \cup {p}
      /\ Len(table'[CalHash(k)]) = Len(rest[CalHash(k)]) + 1
      /\ \A h \in Buckets : h # CalHash(k) => table'[h] = rest[h]
      /\ WellPlaced(table') /\ NoDuplicate(table')
  BY <1>1, <1>2, <1>3, <1>4, WithPairAdds, WithPairKeeps
<1>6. ChainsBounded(table')
  <2> SUFFICES ASSUME NEW h \in Buckets PROVE Len(table'[h]) <= MaxListSize
    BY DEF ChainsBounded
  <2>1. Len(rest[h]) \in Nat
    BY <1>2 DEF Tables
  <2>2. CASE h = CalHash(k)
    BY <1>2, <1>5, <2>1, <2>2, HashAssumption DEF HasRoom
  <2>3. CASE h # CalHash(k)
    BY <1>2, <1>5, <2>3 DEF ChainsBounded
  <2> QED
    BY <2>2, <2>3
<1>7. TypeOK'
  <2>1. table' \in [Buckets -> Seq([key : Key, val : Val])]
    BY <1>5 DEF Tables, Pair
  <2> QED
    BY <1>1, <2>1 DEF Inv, TypeOK, Released
<1>8. Ownership'
  <2>1. \A q \in Entries(table) : q.val \in Val /\ owner[q.val] = "table"
    BY TableFacts DEF Inv, Ownership, Pair
  <2>2. v # old.val /\ old.val \in Val /\ \A q \in Entries(table) : q.val # v
    BY <1>2, <2>1
  <2>3. \A q \in Entries(rest) : q.val # old.val
    BY <1>2 DEF Inv, Ownership
  <2>4. /\ owner'[v] = "table" /\ owner'[old.val] # "table"
        /\ \A w \in Val : w # v /\ w # old.val => owner'[w] = owner[w]
    BY <1>1, <2>2 DEF Inv, TypeOK, Released
  <2>5. \A q \in Entries(table') : owner'[q.val] = "table"
    BY <1>2, <1>4, <1>5, <2>1, <2>3, <2>4
  <2>6. \A w \in Val : owner'[w] = "table" => \E q \in Entries(table') : q.val = w
    BY <1>2, <1>4, <1>5, <2>4 DEF Inv, Ownership
  <2>7. \A q, r \in Entries(table') : q.val = r.val => q = r
    <3>1. \A q, r \in Entries(rest) : q.val = r.val => q = r
      BY <1>2 DEF Inv, Ownership
    <3>2. \A q \in Entries(rest) : q.val # v
      BY <1>2, <2>2
    <3> QED
      BY <1>4, <1>5, <3>1, <3>2
  <2> QED
    BY <2>5, <2>6, <2>7 DEF Ownership
<1>9. IteratorLinked'
  BY <1>1, <1>2, <1>5 DEF Inv, IteratorLinked, MayRemove
<1> QED
  BY <1>5, <1>6, <1>7, <1>8, <1>9 DEF Inv, WellFormed

(* Delete, and the erase below, unlink one pair and release its value.     *)
LEMMA ReleasedOwnership ==
  ASSUME Inv, NEW k, HasKey(table, k), NEW f \in BOOLEAN,
         table' = Without(table, k),
         owner' = [owner EXCEPT ![Lookup(table, k).val] = Released(f)]
  PROVE  Ownership' /\ owner' \in [Val -> {"client", "table", "freed"}]
<1> DEFINE old == Lookup(table, k)
<1>1. /\ Entries(table') = Entries(table) \ {old} /\ old \in Entries(table)
  BY RemovedInv DEF Inv
<1>2. \A q \in Entries(table) : q.val \in Val /\ owner[q.val] = "table"
  BY TableFacts DEF Inv, Ownership, Pair
<1>3. owner' = [owner EXCEPT ![old.val] = Released(f)]
  OBVIOUS
<1> HIDE DEF old
<1>4. \A q \in Entries(table') : q.val # old.val
  BY <1>1 DEF Inv, Ownership
<1>5. owner'[old.val] # "table" /\ \A w \in Val : w # old.val => owner'[w] = owner[w]
  BY <1>1, <1>2, <1>3 DEF Inv, TypeOK, Released
<1>6. owner' \in [Val -> {"client", "table", "freed"}]
  BY <1>3 DEF Inv, TypeOK, Released
<1> QED
  BY <1>1, <1>2, <1>4, <1>5, <1>6 DEF Inv, Ownership

LEMMA DeleteInv ==
  ASSUME Inv, NEW k \in Key, NEW f \in BOOLEAN, Delete(k, f) PROVE Inv'
<1>1. CASE ~HasKey(table, k)
  BY <1>1, RefusedInv DEF Delete
<1>2. CASE HasKey(table, k)
  <2>1. /\ MayRemove(k) /\ table' = Without(table, k)
        /\ owner' = [owner EXCEPT ![Lookup(table, k).val] = Released(f)]
        /\ answer' = 1 /\ must' = must \ {k} /\ UNCHANGED <<eraseFn, it, seen>>
    BY <1>2 DEF Delete
  <2>2. /\ table' \in [Buckets -> Seq(Pair)]
        /\ Entries(table') = Entries(table) \ {Lookup(table, k)}
        /\ Lookup(table, k).key = k
        /\ WellPlaced(table') /\ NoDuplicate(table') /\ ChainsBounded(table')
    BY <1>2, <2>1, RemovedInv DEF Inv
  <2>3. Ownership' /\ owner' \in [Val -> {"client", "table", "freed"}]
    BY <1>2, <2>1, ReleasedOwnership
  <2>4. TypeOK'
    BY <2>1, <2>2, <2>3 DEF Inv, TypeOK, Pair
  <2>5. IteratorLinked'
    BY <2>1, <2>2 DEF Inv, IteratorLinked, MayRemove
  <2> QED
    BY <2>2, <2>3, <2>4, <2>5 DEF Inv, WellFormed
<1> QED
  BY <1>1, <1>2

LEMMA ClearedInv ==
  ASSUME Inv, NEW f \in BOOLEAN, Clean(f) \/ DestroyAndNew(f) PROVE Inv'
<1>1. /\ Ended(it) /\ it' = it /\ table' = EmptyTable /\ eraseFn' \in BOOLEAN
      /\ owner' = [v \in Val |-> IF owner[v] = "table" THEN Released(f) ELSE owner[v]]
      /\ must' = {} /\ seen' = seen /\ answer' = answer
  BY DEF Clean, DestroyAndNew, Inv, TypeOK
<1>2. table' \in Tables(Pair) /\ Entries(table') = {}
  BY <1>1, EmptyTableIsEmpty
<1>3. TypeOK'
  BY <1>1, <1>2 DEF Inv, TypeOK, Tables, Pair, Released
<1>4. WellFormed'
  <2>1. \A h \in Buckets : DOMAIN table'[h] = {} /\ Len(table'[h]) = 0
    BY <1>1 DEF EmptyTable
  <2> QED
    BY <2>1, HashAssumption DEF WellFormed, WellPlaced, NoDuplicate, ChainsBounded
<1>5. Ownership'
  BY <1>1, <1>2 DEF Ownership, Released
<1>6. IteratorLinked'
  BY <1>1 DEF IteratorLinked
<1> QED
  BY <1>3, <1>4, <1>5, <1>6 DEF Inv

LEMMA CtrlInv ==
  ASSUME Inv, NEW f \in BOOLEAN, Ctrl(f) PROVE Inv'
BY DEF Inv, Ctrl, walk, TypeOK, WellFormed, Ownership, IteratorLinked

(* The iterator goes to a linked pair or ends.                             *)
LEMMA StandOnInv ==
  ASSUME Inv, NEW j \in Iters(Pair), OnEntry(table, j),
         NEW before \in SUBSET Key, NEW left \in SUBSET Key, StandOn(j, before, left),
         UNCHANGED <<table, eraseFn, owner, answer>>
  PROVE  Inv'
<1>1. ~Ended(j) => j.pair.key \in Key
  BY DEF Iters, Ended, NoIter, Pair
<1>2. TypeOK'
  BY <1>1 DEF Inv, TypeOK, StandOn, Iters, Pair
<1>3. IteratorLinked'
  BY DEF StandOn, OnEntry, IteratorLinked
<1> QED
  BY <1>2, <1>3 DEF Inv, WellFormed, Ownership

LEMMA IterFacts ==
  ASSUME Inv
  PROVE  /\ IterHead(table) \in Iters(Pair) /\ OnEntry(table, IterHead(table))
         /\ ~Ended(it) =>
              /\ IterNext(table, it) \in Iters(Pair)
              /\ OnEntry(table, IterNext(table, it))
              /\ ~Ended(IterNext(table, it)) =>
                   IterNext(table, it).pair.key # it.pair.key
<1>1. /\ table \in Tables(Pair) /\ it \in Iters(Pair)
      /\ WellPlaced(table) /\ NoDuplicate(table) /\ OnEntry(table, it)
  BY TableFacts DEF Inv, WellFormed, IteratorLinked, OnEntry
<1>2. IterHead(table) \in Iters(Pair) /\ OnEntry(table, IterHead(table))
  BY <1>1, FirstFromLinked DEF IterHead
<1> QED
  BY <1>1, <1>2, IterNextLinked

LEMMA FirstInv ==
  ASSUME Inv, First PROVE Inv'
<1>1. StandOn(IterHead(table), {}, Keys(table)) /\ UNCHANGED <<table, eraseFn, owner, answer>>
  BY DEF First
<1>2. Keys(table) \in SUBSET Key
  BY TableFacts DEF Inv
<1> QED
  BY <1>1, <1>2, IterFacts, StandOnInv

LEMMA MoveInv ==
  ASSUME Inv, Move PROVE Inv'
<1>1. ~Ended(it) /\ StandOn(IterNext(table, it), seen, must)
      /\ UNCHANGED <<table, eraseFn, owner, answer>>
  BY DEF Move
<1>2. seen \in SUBSET Key /\ must \in SUBSET Key
  BY DEF Inv, TypeOK
<1> QED
  BY <1>1, <1>2, IterFacts, StandOnInv

LEMMA EraseInv ==
  ASSUME Inv, Erase PROVE Inv'
<1> DEFINE k == it.pair.key
           j == IterNext(table, it)
<1>1. /\ ~Ended(it) /\ StandOn(j, seen, must) /\ table' = Without(table, k)
      /\ owner' = [owner EXCEPT ![it.pair.val] = Released(eraseFn)]
      /\ UNCHANGED <<eraseFn, answer>>
  BY DEF Erase
<1>2. /\ j \in Iters(Pair) /\ OnEntry(table, j)
      /\ ~Ended(j) => j.pair.key # k
  BY <1>1, IterFacts
<1>3. table \in Tables(Pair) /\ WellPlaced(table) /\ it.pair \in Entries(table)
  BY <1>1, TableFacts DEF Inv, WellFormed, IteratorLinked
<1>4. HasKey(table, k)
  BY <1>3, HasKeyIsEntry
<1>5. /\ table' \in [Buckets -> Seq(Pair)]
      /\ Entries(table') = Entries(table) \ {Lookup(table, k)}
      /\ Lookup(table, k).key = k /\ it.pair = Lookup(table, k)
      /\ WellPlaced(table') /\ NoDuplicate(table') /\ ChainsBounded(table')
  BY <1>1, <1>3, <1>4, RemovedInv DEF Inv
<1>6. Ownership' /\ owner' \in [Val -> {"client", "table", "freed"}]
  BY <1>1, <1>4, <1>5, ReleasedOwnership DEF Inv, TypeOK
<1> HIDE DEF j, k
<1>7. TypeOK'
  <2>1. ~Ended(j) => j.pair.key \in Key
    BY <1>2 DEF Iters, Ended, NoIter, Pair
  <2> QED
    BY <1>1, <1>2, <1>5, <1>6, <2>1 DEF Inv, TypeOK, StandOn, Iters, Pair
<1>8. IteratorLinked'
  BY <1>1, <1>2, <1>5 DEF StandOn, OnEntry, IteratorLinked
<1> QED
  BY <1>5, <1>6, <1>7, <1>8 DEF Inv, WellFormed

-----------------------------------------------------------------------------
(* Every step of the client and of the table keeps the invariant.          *)
LEMMA NextInv == Inv /\ [Next]_vars => Inv'
<1> SUFFICES ASSUME Inv, [Next]_vars PROVE Inv'
  OBVIOUS
<1>1. CASE \E v \in Val : Malloc(v)
  BY <1>1, MallocInv
<1>2. CASE InsertNull
  BY <1>2, RefusedInv DEF InsertNull
<1>3. CASE \E k \in Key, v \in Val : InsertSafe(k, v)
  BY <1>3, InsertSafeInv
<1>4. CASE \E k \in Key, v \in Val, f \in BOOLEAN : Insert(k, v, f)
  BY <1>4, InsertSafeInv, ReplaceInv DEF Insert
<1>5. CASE \E k \in Key, f \in BOOLEAN : Delete(k, f)
  BY <1>5, DeleteInv
<1>6. CASE \E k \in Key : Find(k)
  BY <1>6, FindInv
<1>7. CASE \E f \in BOOLEAN : Clean(f) \/ DestroyAndNew(f) \/ Ctrl(f)
  BY <1>7, ClearedInv, CtrlInv
<1>8. CASE First
  BY <1>8, FirstInv
<1>9. CASE Move
  BY <1>9, MoveInv
<1>10. CASE Erase
  BY <1>10, EraseInv
<1>11. CASE UNCHANGED vars
  BY <1>11 DEF vars, Inv, TypeOK, WellFormed, Ownership, IteratorLinked
<1> QED
  BY <1>1, <1>2, <1>3, <1>4, <1>5, <1>6, <1>7, <1>8, <1>9, <1>10, <1>11 DEF Next, Calls

LEMMA AlwaysInv == Spec => []Inv
BY InitInv, NextInv, PTL DEF Spec

(* Every variable keeps its type through every call.                       *)
THEOREM TypeCorrect == Spec => []TypeOK
<1>1. Inv => TypeOK
  BY DEF Inv
<1> QED
  BY <1>1, AlwaysInv, PTL

(* Keys stay unique, in their chains, and chains within their limit.       *)
THEOREM TableWellFormed == Spec => []WellFormed
<1>1. Inv => WellFormed
  BY DEF Inv
<1> QED
  BY <1>1, AlwaysInv, PTL

(* No value is released twice, lost, or stored after it was released.      *)
THEOREM ValuesOwned == Spec => []Ownership
<1>1. Inv => Ownership
  BY DEF Inv
<1> QED
  BY <1>1, AlwaysInv, PTL

(* The client's iterator never stands on a pair that is no longer linked.  *)
THEOREM IteratorSafe == Spec => []IteratorLinked
<1>1. Inv => IteratorLinked
  BY DEF Inv
<1> QED
  BY <1>1, AlwaysInv, PTL


-----------------------------------------------------------------------------
(***************************************************************************)
(* The traversal.  While it runs, the entries it owes a visit are ahead of *)
(* the iterator, those it has stood on are not, and never come back there: *)
(* their chain is the iterator's or an earlier one, and a new pair goes to *)
(* the head of its chain.                                                  *)
(***************************************************************************)
Trav ==
  IF Ended(it)
    THEN seen = {} /\ must = {}
    ELSE /\ must \subseteq Ahead(table, it)
         /\ seen \cap Ahead(table, it) = {}
         /\ it.pair.key \in seen
         /\ \A k \in seen : CalHash(k) \in 0 .. it.cursor

(* Nothing is ever answered about keys if there are none.                  *)
Silent == Key = {} => answer = 0

LEMMA OnPair ==
  ASSUME Inv
  PROVE  /\ table \in Tables(Pair) /\ it \in Iters(Pair) /\ OnEntry(table, it)
         /\ WellPlaced(table) /\ NoDuplicate(table)
BY TableFacts DEF Inv, WellFormed, IteratorLinked, OnEntry

LEMMA SameTrav ==
  ASSUME Trav, UNCHANGED <<table, it, seen, must>>
  PROVE  Trav'
BY DEF Trav

(* A pair with a new key.                                                  *)
LEMMA GrownTrav ==
  ASSUME NEW t \in Tables(Pair), WellPlaced(t), NoDuplicate(t),
         NEW j \in Iters(Pair), ~Ended(j), OnEntry(t, j),
         NEW p \in Pair, Available(p.key), ~HasKey(t, p.key),
         NEW m, m \subseteq Ahead(t, j), NEW s, s \cap Ahead(t, j) = {},
         \A k \in s : CalHash(k) \in 0 .. j.cursor
  PROVE  /\ m \subseteq Ahead(WithPair(t, p), j)
         /\ s \cap Ahead(WithPair(t, p), j) = {}
<1>1. /\ Ahead(t, j) \subseteq Ahead(WithPair(t, p), j)
      /\ \A x \in Ahead(WithPair(t, p), j) :
           x \in Ahead(t, j) \/ (x = p.key /\ CalHash(x) >= j.cursor + 1)
  BY AheadGrows
<1>2. j.cursor \in Nat
  BY UnderCursor
<1>3. \A k \in s : ~(CalHash(k) >= j.cursor + 1)
  BY <1>2
<1> QED
  BY <1>1, <1>3

LEMMA InsertSafeTrav ==
  ASSUME Inv, Trav, NEW k \in Key, NEW v \in Val, InsertSafe(k, v) PROVE Trav'
<1>1. CASE Refused
  BY <1>1, SameTrav DEF Refused, walk
<1>2. CASE ~Refused
  <2>1. PICK p : p = [key |-> k, val |-> v]
    OBVIOUS
  <2>2. /\ Available(k) /\ ~HasKey(table, k) /\ table' = WithPair(table, p)
        /\ UNCHANGED <<it, seen, must>>
    BY <1>2, <2>1 DEF InsertSafe, walk
  <2>3. p \in Pair /\ p.key = k
    BY <2>1 DEF Pair
  <2>4. CASE Ended(it)
    BY <2>2, <2>4 DEF Trav
  <2>5. CASE ~Ended(it)
    <3>1. /\ must \subseteq Ahead(WithPair(table, p), it)
          /\ seen \cap Ahead(WithPair(table, p), it) = {}
      BY <2>2, <2>3, <2>5, OnPair, GrownTrav DEF Trav
    <3> QED
      BY <2>2, <2>5, <3>1 DEF Trav
  <2> QED
    BY <2>4, <2>5
<1> QED
  BY <1>1, <1>2

LEMMA DeleteTrav ==
  ASSUME Inv, Trav, NEW k \in Key, NEW f \in BOOLEAN, Delete(k, f) PROVE Trav'
<1>1. CASE ~HasKey(table, k)
  BY <1>1, SameTrav DEF Delete, Refused, walk
<1>2. CASE HasKey(table, k)
  <2>1. /\ MayRemove(k) /\ table' = Without(table, k) /\ must' = must \ {k}
        /\ UNCHANGED <<it, seen>>
    BY <1>2 DEF Delete
  <2>2. CASE Ended(it)
    BY <2>1, <2>2 DEF Trav
  <2>3. CASE ~Ended(it)
    <3>1. Ahead(Without(table, k), it) = Ahead(table, it) \ {k}
      BY <1>2, <2>1, <2>3, OnPair, AheadShrinks DEF MayRemove
    <3> QED
      BY <2>1, <2>3, <3>1 DEF Trav
  <2> QED
    BY <2>2, <2>3
<1> QED
  BY <1>1, <1>2

LEMMA ReplaceTrav ==
  ASSUME Inv, Trav, NEW k \in Key, NEW v \in Val, NEW f \in BOOLEAN, Replace(k, v, f)
  PROVE  Trav'
<1>1. PICK p : p = [key |-> k, val |-> v]
  OBVIOUS
<1>2. PICK t : t = Without(table, k)
  OBVIOUS
<1>3. /\ HasKey(table, k) /\ MayRemove(k) /\ table' = WithPair(t, p)
      /\ must' = must \ {k} /\ UNCHANGED <<it, seen>>
  BY <1>1, <1>2 DEF Replace
<1>4. p \in Pair /\ p.key = k
  BY <1>1 DEF Pair
<1>5. CASE Ended(it)
  BY <1>3, <1>5 DEF Trav
<1>6. CASE ~Ended(it)
  <2>1. it.pair.key # k
    BY <1>3, <1>6 DEF MayRemove
  <2>2. /\ t \in Tables(Pair) /\ WellPlaced(t) /\ NoDuplicate(t)
        /\ Entries(t) = Entries(table) \ {Lookup(table, k)}
        /\ Lookup(table, k).key = k
        /\ \A q \in Entries(table) : q.key = k => q = Lookup(table, k)
    BY <1>2, <1>3, OnPair, WithoutRemoves
  <2>3. ~HasKey(t, k) /\ Available(k)
    BY <1>3, <2>2, HasKeyIsEntry DEF HasKey
  <2>4. it \in Iters(Pair) /\ OnEntry(t, it)
    BY <1>6, <2>1, <2>2, OnPair DEF OnEntry
  <2>5. Ahead(t, it) = Ahead(table, it) \ {k}
    BY <1>2, <1>3, <1>6, <2>1, OnPair, AheadShrinks
  <2>6. must' \subseteq Ahead(t, it) /\ seen \cap Ahead(t, it) = {}
    BY <1>3, <1>6, <2>5 DEF Trav
  <2>7. \A x \in seen : CalHash(x) \in 0 .. it.cursor
    BY <1>6 DEF Trav
  <2>8. PICK m : m = must'
    OBVIOUS
  <2>9. /\ m \subseteq Ahead(WithPair(t, p), it)
        /\ seen \cap Ahead(WithPair(t, p), it) = {}
    BY <1>4, <1>6, <2>2, <2>3, <2>4, <2>6, <2>7, <2>8, GrownTrav
  <2> QED
    BY <1>3, <1>6, <2>8, <2>9 DEF Trav
<1> QED
  BY <1>5, <1>6

LEMMA ClearedTrav ==
  ASSUME Trav, NEW f \in BOOLEAN, Clean(f) \/ DestroyAndNew(f) PROVE Trav'
BY DEF Clean, DestroyAndNew, Trav

LEMMA FirstTrav ==
  ASSUME Inv, First PROVE Trav'
<1>1. PICK j : j = IterHead(table)
  OBVIOUS
<1>2. StandOn(j, {}, Keys(table)) /\ table' = table
  BY <1>1 DEF First
<1>3. IF Ended(j) THEN Keys(table) = {}
                  ELSE Ahead(table, j) = Keys(table) \ {j.pair.key}
  BY <1>1, OnPair, AheadOfHead
<1>4. CASE Ended(j)
  BY <1>2, <1>3, <1>4 DEF Trav, StandOn
<1>5. CASE ~Ended(j)
  <2>1. j \in Iters(Pair) /\ OnEntry(table, j)
    BY <1>1, IterFacts
  <2>2. CalHash(j.pair.key) = j.cursor /\ j.cursor \in Nat
    BY <1>5, <2>1, OnPair, UnderCursor DEF OnEntry
  <2>3. it' = j /\ seen' = {j.pair.key} /\ must' = Keys(table) \ {j.pair.key}
    BY <1>2, <1>5 DEF StandOn
  <2> QED
    BY <1>2, <1>3, <1>5, <2>2, <2>3 DEF Trav
<1> QED
  BY <1>4, <1>5

(* The step of the iterator, before anything is unlinked.                  *)
LEMMA SteppedTrav ==
  ASSUME Inv, Trav, ~Ended(it), NEW j, j = IterNext(table, it), ~Ended(j),
         StandOn(j, seen, must)
  PROVE  /\ must' \subseteq Ahead(table, j)
         /\ seen' \cap Ahead(table, j) = {}
         /\ j.pair.key \in seen' /\ it' = j
         /\ \A k \in seen' : CalHash(k) \in 0 .. j.cursor
<1>1. /\ j.pair.key \in Ahead(table, it)
      /\ Ahead(table, j) = Ahead(table, it) \ {j.pair.key}
      /\ j.cursor >= it.cursor
  BY OnPair, AheadOfNext
<1>2. j \in Iters(Pair) /\ OnEntry(table, j)
  BY IterFacts
<1>3. /\ CalHash(j.pair.key) = j.cursor /\ j.cursor \in Nat
  BY <1>2, OnPair, UnderCursor DEF OnEntry
<1>4. it.cursor \in Nat
  BY OnPair, UnderCursor
<1>5. it' = j /\ seen' = seen \cup {j.pair.key} /\ must' = must \ {j.pair.key}
  BY DEF StandOn
<1>6. \A k \in seen : CalHash(k) \in 0 .. j.cursor
  BY <1>1, <1>3, <1>4 DEF Trav
<1> QED
  BY <1>1, <1>3, <1>5, <1>6 DEF Trav

LEMMA MoveTrav ==
  ASSUME Inv, Trav, Move PROVE Trav'
<1>1. PICK j : j = IterNext(table, it)
  OBVIOUS
<1>2. ~Ended(it) /\ StandOn(j, seen, must) /\ table' = table
  BY <1>1 DEF Move
<1>3. CASE Ended(j)
  <2>1. Ahead(table, it) = {}
    BY <1>1, <1>2, <1>3, OnPair, AheadOfNext
  <2> QED
    BY <1>2, <1>3, <2>1 DEF Trav, StandOn
<1>4. CASE ~Ended(j)
  BY <1>1, <1>2, <1>4, SteppedTrav DEF Trav
<1> QED
  BY <1>3, <1>4

LEMMA EraseTrav ==
  ASSUME Inv, Trav, Erase PROVE Trav'
<1>1. PICK j : j = IterNext(table, it)
  OBVIOUS
<1>2. PICK k : k = it.pair.key
  OBVIOUS
<1>3. ~Ended(it) /\ StandOn(j, seen, must) /\ table' = Without(table, k)
  BY <1>1, <1>2 DEF Erase
<1>4. CASE Ended(j)
  <2>1. Ahead(table, it) = {}
    BY <1>1, <1>3, <1>4, OnPair, AheadOfNext
  <2> QED
    BY <1>3, <1>4, <2>1 DEF Trav, StandOn
<1>5. CASE ~Ended(j)
  <2>1. /\ j \in Iters(Pair) /\ OnEntry(table, j) /\ j.pair.key # k
    BY <1>1, <1>2, <1>3, <1>5, IterFacts
  <2>2. HasKey(table, k)
    BY <1>2, <1>3, OnPair, HasKeyIsEntry DEF OnEntry
  <2>3. Ahead(table', j) = Ahead(table, j) \ {k}
    BY <1>3, <1>5, <2>1, <2>2, OnPair, AheadShrinks
  <2>4. /\ must' \subseteq Ahead(table, j)
        /\ seen' \cap Ahead(table, j) = {}
        /\ j.pair.key \in seen' /\ it' = j
        /\ \A x \in seen' : CalHash(x) \in 0 .. j.cursor
    BY <1>1, <1>3, <1>5, SteppedTrav
  <2>5. k \notin must'
    BY <1>2, <1>3, <1>5 DEF Trav, StandOn
  <2> QED
    BY <1>5, <2>3, <2>4, <2>5 DEF Trav
<1> QED
  BY <1>4, <1>5

LEMMA NextTrav == Inv /\ Trav /\ [Next]_vars => Trav'
<1> SUFFICES ASSUME Inv, Trav, [Next]_vars PROVE Trav'
  OBVIOUS
<1>1. CASE \E v \in Val : Malloc(v)
  BY <1>1, SameTrav DEF Malloc, walk
<1>2. CASE InsertNull
  BY <1>2, SameTrav DEF InsertNull, Refused, walk
<1>3. CASE \E k \in Key, v \in Val : InsertSafe(k, v)
  BY <1>3, InsertSafeTrav
<1>4. CASE \E k \in Key, v \in Val, f \in BOOLEAN : Insert(k, v, f)
  BY <1>4, InsertSafeTrav, ReplaceTrav DEF Insert
<1>5. CASE \E k \in Key, f \in BOOLEAN : Delete(k, f)
  BY <1>5, DeleteTrav
<1>6. CASE \E k \in Key : Find(k)
  BY <1>6, SameTrav DEF Find, walk
<1>7. CASE \E f \in BOOLEAN : Clean(f) \/ DestroyAndNew(f) \/ Ctrl(f)
  BY <1>7, ClearedTrav, SameTrav DEF Ctrl, walk
<1>8. CASE First
  BY <1>8, FirstTrav
<1>9. CASE Move
  BY <1>9, MoveTrav
<1>10. CASE Erase
  BY <1>10, EraseTrav
<1>11. CASE UNCHANGED vars
  BY <1>11, SameTrav DEF vars
<1> QED
  BY <1>1, <1>2, <1>3, <1>4, <1>5, <1>6, <1>7, <1>8, <1>9, <1>10, <1>11 DEF Next, Calls


-----------------------------------------------------------------------------
(***************************************************************************)
(* The table as a map: what MapOf is after a pair was added or removed.    *)
(***************************************************************************)
LEMMA MapOfTable ==
  ASSUME NEW t \in Tables(Pair), WellPlaced(t), NoDuplicate(t)
  PROVE  /\ MapOf(t) \in [Key -> Val \cup {None}]
         /\ \A k \in Key : MapOf(t)[k] # None <=> HasKey(t, k)
         /\ \A k \in Key : MapOf(t)[k] # None <=> k \in Keys(t)
         /\ \A p \in Entries(t) : p.key \in Key /\ MapOf(t)[p.key] = p.val
         /\ Keys(t) \subseteq Key
<1>1. \A p \in Entries(t) : p \in Pair /\ p.key \in Key /\ p.val \in Val
  <2>1. \A h \in Buckets : \A i \in 1 .. Len(t[h]) : t[h][i] \in Pair
    BY DEF Tables
  <2> QED
    BY <2>1, EntryHasPlace DEF Pair
<1>2. ASSUME NEW k \in Key, HasKey(t, k)
      PROVE  /\ Lookup(t, k) \in Entries(t) /\ Lookup(t, k).key = k
             /\ \A p \in Entries(t) : p.key = k => p = Lookup(t, k)
  BY <1>2, WithoutRemoves
<1>3. \A k \in Key : HasKey(t, k) <=> \E p \in Entries(t) : p.key = k
  BY HasKeyIsEntry
<1>4. \A k \in Key : MapOf(t)[k] = IF HasKey(t, k) THEN Lookup(t, k).val ELSE None
  BY DEF MapOf
<1>5. ASSUME NEW k \in Key
      PROVE  /\ MapOf(t)[k] \in Val \cup {None}
             /\ MapOf(t)[k] # None <=> HasKey(t, k)
  BY <1>1, <1>2, <1>4, ClientAssumption
<1>6. MapOf(t) \in [Key -> Val \cup {None}]
  BY <1>4, <1>5 DEF MapOf
<1>7. ASSUME NEW p \in Entries(t) PROVE MapOf(t)[p.key] = p.val
  BY <1>1, <1>2, <1>3, <1>4
<1>8. \A k \in Key : HasKey(t, k) <=> k \in Keys(t)
  BY <1>3 DEF Keys
<1>9. Keys(t) \subseteq Key
  BY <1>1 DEF Keys
<1> QED
  BY <1>1, <1>5, <1>6, <1>7, <1>8, <1>9

LEMMA MapOfEntries ==
  ASSUME NEW t \in Tables(Pair), WellPlaced(t), NoDuplicate(t),
         NEW m \in [Key -> Val \cup {None}],
         \A p \in Entries(t) : m[p.key] = p.val,
         \A k \in Key : (\A p \in Entries(t) : p.key # k) => m[k] = None
  PROVE  MapOf(t) = m
<1>1. ASSUME NEW k \in Key PROVE MapOf(t)[k] = m[k]
  <2>1. CASE HasKey(t, k)
    <3>1. PICK p \in Entries(t) : p.key = k
      BY <2>1, HasKeyIsEntry
    <3> QED
      BY <3>1, MapOfTable
  <2>2. CASE ~HasKey(t, k)
    <3>1. MapOf(t)[k] = None
      BY <2>2, MapOfTable
    <3>2. \A p \in Entries(t) : p.key # k
      BY <2>2, HasKeyIsEntry
    <3> QED
      BY <3>1, <3>2
  <2> QED
    BY <2>1, <2>2
<1>2. MapOf(t) \in [Key -> Val \cup {None}]
  BY MapOfTable
<1>3. PICK f : f = MapOf(t)
  OBVIOUS
<1>4. f \in [Key -> Val \cup {None}] /\ \A k \in Key : f[k] = m[k]
  BY <1>1, <1>2, <1>3
<1>5. f = m
  BY <1>4
<1> QED
  BY <1>3, <1>5

LEMMA MapOfEmpty == MapOf(EmptyTable) = [k \in Key |-> None]
<1>1. EmptyTable \in Tables(Pair) /\ Entries(EmptyTable) = {}
  BY EmptyTableIsEmpty
<1>2. \A k \in Key : ~HasKey(EmptyTable, k)
  BY DEF HasKey, Available, ChainHas, EmptyTable
<1> QED
  BY <1>2 DEF MapOf

LEMMA MapOfAdded ==
  ASSUME NEW t \in Tables(Pair), WellPlaced(t), NoDuplicate(t),
         NEW u \in Tables(Pair), WellPlaced(u), NoDuplicate(u),
         NEW k \in Key, NEW v \in Val, ~HasKey(t, k),
         Entries(u) = Entries(t) \cup {[key |-> k, val |-> v]}
  PROVE  MapOf(u) = [MapOf(t) EXCEPT ![k] = v]
<1>1. PICK m : m = [MapOf(t) EXCEPT ![k] = v]
  OBVIOUS
<1>2. /\ MapOf(t) \in [Key -> Val \cup {None}]
      /\ \A l \in Key : MapOf(t)[l] # None <=> HasKey(t, l)
      /\ \A p \in Entries(t) : p.key \in Key /\ MapOf(t)[p.key] = p.val
  BY MapOfTable
<1>3. /\ m \in [Key -> Val \cup {None}] /\ m[k] = v
      /\ \A l \in Key : l # k => m[l] = MapOf(t)[l]
  BY <1>1, <1>2
<1>4. PICK q : q = [key |-> k, val |-> v]
  OBVIOUS
<1>5. q.key = k /\ q.val = v /\ Entries(u) = Entries(t) \cup {q}
  BY <1>4
<1>6. \A p \in Entries(t) : p.key # k
  BY HasKeyIsEntry
<1>7. \A p \in Entries(u) : m[p.key] = p.val
  BY <1>2, <1>3, <1>5, <1>6
<1>8. ASSUME NEW l \in Key, \A p \in Entries(u) : p.key # l PROVE m[l] = None
  <2>1. l # k /\ \A p \in Entries(t) : p.key # l
    BY <1>5, <1>8
  <2>2. ~HasKey(t, l)
    BY <2>1, HasKeyIsEntry
  <2> QED
    BY <1>2, <1>3, <2>1, <2>2
<1>9. MapOf(u) = m
  BY <1>3, <1>7, <1>8, MapOfEntries
<1> QED
  BY <1>1, <1>9

LEMMA MapOfRemoved ==
  ASSUME NEW t \in Tables(Pair), WellPlaced(t), NoDuplicate(t),
         NEW u \in Tables(Pair), WellPlaced(u), NoDuplicate(u),
         NEW k \in Key, NEW q \in Entries(t), q.key = k,
         Entries(u) = Entries(t) \ {q}
  PROVE  MapOf(u) = [MapOf(t) EXCEPT ![k] = None]
<1>1. PICK m : m = [MapOf(t) EXCEPT ![k] = None]
  OBVIOUS
<1>2. /\ MapOf(t) \in [Key -> Val \cup {None}]
      /\ \A l \in Key : MapOf(t)[l] # None <=> HasKey(t, l)
      /\ \A p \in Entries(t) : p.key \in Key /\ MapOf(t)[p.key] = p.val
  BY MapOfTable
<1>3. /\ m \in [Key -> Val \cup {None}] /\ m[k] = None
      /\ \A l \in Key : l # k => m[l] = MapOf(t)[l]
  BY <1>1, <1>2
<1>4. \A p \in Entries(t) : p.key = k => p = q
  <2>1. HasKey(t, k)
    BY HasKeyIsEntry
  <2> QED
    BY <2>1, WithoutRemoves
<1>5. \A p \in Entries(u) : m[p.key] = p.val
  BY <1>2, <1>3, <1>4
<1>6. ASSUME NEW l \in Key, \A p \in Entries(u) : p.key # l PROVE m[l] = None
  <2>1. CASE l # k
    <3>1. \A p \in Entries(t) : p.key # l
      BY <1>6, <2>1
    <3>2. ~HasKey(t, l)
      BY <3>1, HasKeyIsEntry
    <3> QED
      BY <1>2, <1>3, <2>1, <3>2
  <2> QED
    BY <1>3, <2>1
<1>7. MapOf(u) = m
  BY <1>3, <1>5, <1>6, MapOfEntries
<1> QED
  BY <1>1, <1>7


(* A chain that is full: as many keys are present as the limit says.       *)
LEMMA FullChain ==
  ASSUME Inv, NEW k \in Key, Available(k), ~HasRoom(table, k)
  PROVE  Cardinality(Keys(table)) >= MaxListSize
<1> DEFINE b == table[CalHash(k)]
           D == 1 .. Len(b)
           f == [i \in D |-> b[i].key]
           places == Buckets \X (1 .. MaxListSize)
           g == [x \in Keys(table) |-> <<CalHash(x), Place(table[CalHash(x)], x)>>]
<1>1. table \in Tables(Pair) /\ WellPlaced(table) /\ NoDuplicate(table)
  BY OnPair
<1>2. /\ CalHash(k) \in Buckets /\ b \in Seq(Pair) /\ Len(b) \in Nat /\ DOMAIN b = D
  BY <1>1 DEF Available, Tables
<1>3. Len(b) >= MaxListSize
  BY <1>2, HashAssumption DEF HasRoom
<1>4. IsFiniteSet(places)
  <2>1. IsFiniteSet(Buckets) /\ IsFiniteSet(1 .. MaxListSize)
    BY HashAssumption, FS_Interval DEF Buckets
  <2> QED
    BY <2>1, FS_Product
<1>5. ASSUME NEW x \in Keys(table)
      PROVE  /\ CalHash(x) \in Buckets
             /\ Place(table[CalHash(x)], x) \in 1 .. MaxListSize
             /\ table[CalHash(x)][Place(table[CalHash(x)], x)].key = x
  <2>1. PICK c : c = table[CalHash(x)]
    OBVIOUS
  <2>2. CalHash(x) \in Buckets /\ \E i \in 1 .. Len(c) : c[i].key = x
    BY <1>1, <2>1, KeyInChain
  <2>3. c \in Seq(Pair) /\ KeysDiffer(c)
    BY <1>1, <2>1, <2>2 DEF Tables, NoDuplicate, KeysDiffer
  <2>4. Len(c) \in Nat /\ Len(c) <= MaxListSize
    BY <2>1, <2>2, <2>3 DEF Inv, WellFormed, ChainsBounded
  <2>5. PICK i \in 1 .. Len(c) : c[i].key = x
    BY <2>2
  <2>6. Place(c, x) = i
    BY <2>3, <2>5, PlaceIs
  <2>7. i \in 1 .. MaxListSize
    BY <2>4, HashAssumption
  <2> QED
    BY <2>1, <2>2, <2>5, <2>6, <2>7
<1>6. g \in [Keys(table) -> places]
  BY <1>5
<1>7. ASSUME NEW x \in Keys(table), NEW y \in Keys(table), g[x] = g[y] PROVE x = y
  <2>1. CalHash(x) = CalHash(y) /\ Place(table[CalHash(x)], x) = Place(table[CalHash(y)], y)
    BY <1>7
  <2> QED
    BY <1>5, <2>1
<1>8. g \in Injection(Keys(table), places)
  BY <1>6, <1>7 DEF Injection, IsInjective
<1>9. IsFiniteSet(Keys(table))
  <2> HIDE DEF g, places
  <2> QED
    BY <1>4, <1>8, FS_Injection
<1>10. \A i \in D : b[i].key \in Keys(table)
  <2> SUFFICES ASSUME NEW i \in D PROVE b[i].key \in Keys(table)
    OBVIOUS
  <2>1. CalHash(b[i].key) = CalHash(k)
    BY <1>1, <1>2 DEF WellPlaced
  <2> QED
    BY <1>1, <1>2, <2>1, KeyInChain
<1>11. f \in [D -> Keys(table)]
  BY <1>10
<1>12. \A i, j \in D : f[i] = f[j] => i = j
  BY <1>1, <1>2 DEF NoDuplicate
<1>13. f \in Injection(D, Keys(table))
  BY <1>11, <1>12 DEF Injection, IsInjective
<1> HIDE DEF f
<1>14. Cardinality(D) <= Cardinality(Keys(table))
  BY <1>9, <1>13, FS_Injection
<1>15. Cardinality(D) = Len(b)
  BY <1>2, FS_Interval
<1>16. Cardinality(Keys(table)) \in Nat
  BY <1>9, FS_CardinalityType
<1> QED
  BY <1>2, <1>3, <1>14, <1>15, <1>16, HashAssumption

-----------------------------------------------------------------------------
(***************************************************************************)
(* Each call is the call of HashMap with its name.                         *)
(***************************************************************************)
LEMMA MapFacts ==
  ASSUME Inv
  PROVE  /\ MapOf(table) \in [Key -> Val \cup {None}]
         /\ \A k \in Key : MapOf(table)[k] # None <=> HasKey(table, k)
         /\ Map!Present = Keys(table)
         /\ \A k \in Key : MayRemove(k) => KeyAt(it) # k
         /\ ~Ended(it) => KeyAt(it) = it.pair.key /\ KeyAt(it) \in Key /\ KeyAt(it) # None
<1>1. /\ MapOf(table) \in [Key -> Val \cup {None}]
      /\ \A k \in Key : MapOf(table)[k] # None <=> HasKey(table, k)
      /\ \A k \in Key : MapOf(table)[k] # None <=> k \in Keys(table)
      /\ Keys(table) \subseteq Key
  BY OnPair, MapOfTable
<1>2. Map!Present = Keys(table)
  BY <1>1 DEF Map!Present
<1>3. ~Ended(it) => it.pair.key \in Key
  BY OnPair DEF Iters, Ended, NoIter, Pair
<1>4. \A k \in Key : k # None
  BY ClientAssumption
<1> QED
  BY <1>1, <1>2, <1>3, <1>4 DEF KeyAt, MayRemove

(* HashMap counts keys with the operator of the standard module.           *)
LEMMA SameCardinality == \A S : Map!Cardinality(S) = Cardinality(S)
BY DEF Map!Cardinality, Cardinality

LEMMA RefusedRefines ==
  ASSUME Refused PROVE Map!Refuse
BY DEF Refused, walk, Map!Refuse

LEMMA InsertSafeRefines ==
  ASSUME Inv, NEW k \in Key, NEW v \in Val, InsertSafe(k, v)
  PROVE  IF HasKey(table, k) THEN MapOf(table)[k] # None /\ Map!Refuse
                             ELSE Map!Add(k, v) \/ Map!RefuseNew(k)
<1>1. CASE HasKey(table, k)
  BY <1>1, MapFacts, RefusedRefines DEF InsertSafe
<1>2. CASE ~HasKey(table, k) /\ Available(k) /\ HasRoom(table, k)
  <2>1. /\ table' = WithPair(table, [key |-> k, val |-> v]) /\ answer' = 1
        /\ UNCHANGED <<it, seen, must>>
    BY <1>2 DEF InsertSafe, walk
  <2>2. /\ table' \in Tables(Pair) /\ WellPlaced(table') /\ NoDuplicate(table')
        /\ Entries(table') = Entries(table) \cup {[key |-> k, val |-> v]}
    BY <1>2, <2>1, AddedInv DEF Inv, Tables
  <2>3. MapOf(table') = [MapOf(table) EXCEPT ![k] = v]
    BY <1>2, <2>2, OnPair, MapOfAdded
  <2>4. MapOf(table)[k] = None /\ k \in {l \in Key : Available(l)}
    BY <1>2, MapFacts
  <2>5. Map!Add(k, v)
    BY <2>1, <2>3, <2>4 DEF Map!Add
  <2> QED
    BY <1>2, <2>5
<1>3. CASE ~HasKey(table, k) /\ ~(Available(k) /\ HasRoom(table, k))
  <2>1. Refused
    BY <1>3 DEF InsertSafe
  <2>2. MapOf(table)[k] = None
    BY <1>3, MapFacts
  <2>3. k \notin {l \in Key : Available(l)} \/ Cardinality(Map!Present) >= MaxListSize
    BY <1>3, MapFacts, FullChain
  <2>4. k \notin {l \in Key : Available(l)} \/ Map!Cardinality(Map!Present) >= MaxListSize
    BY <2>3, SameCardinality
  <2>5. Map!RefuseNew(k)
    BY <2>1, <2>2, <2>4, RefusedRefines DEF Map!RefuseNew
  <2> QED
    BY <1>3, <2>5
<1> QED
  BY <1>1, <1>2, <1>3

LEMMA ReplaceRefines ==
  ASSUME Inv, NEW k \in Key, NEW v \in Val, NEW f \in BOOLEAN, Replace(k, v, f)
  PROVE  Map!Replace(k, v)
<1>1. PICK p : p = [key |-> k, val |-> v]
  OBVIOUS
<1>2. PICK t : t = Without(table, k)
  OBVIOUS
<1>3. /\ HasKey(table, k) /\ MayRemove(k) /\ table' = WithPair(t, p)
      /\ answer' = 1 /\ must' = must \ {k} /\ UNCHANGED <<it, seen>>
  BY <1>1, <1>2 DEF Replace
<1>4. p \in Pair /\ p.key = k
  BY <1>1 DEF Pair
<1>5. /\ t \in Tables(Pair) /\ WellPlaced(t) /\ NoDuplicate(t)
      /\ Lookup(table, k) \in Entries(table) /\ Lookup(table, k).key = k
      /\ Entries(t) = Entries(table) \ {Lookup(table, k)}
      /\ \A q \in Entries(table) : q.key = k => q = Lookup(table, k)
  BY <1>2, <1>3, OnPair, WithoutRemoves
<1>6. MapOf(t) = [MapOf(table) EXCEPT ![k] = None]
  BY <1>5, OnPair, MapOfRemoved
<1>7. ~HasKey(t, k) /\ Available(k)
  BY <1>3, <1>5, HasKeyIsEntry DEF HasKey
<1>8. /\ table' \in Tables(Pair) /\ WellPlaced(table') /\ NoDuplicate(table')
      /\ Entries(table') = Entries(t) \cup {p}
  BY <1>3, <1>4, <1>5, <1>7, WithPairAdds, WithPairKeeps
<1>9. MapOf(table') = [MapOf(t) EXCEPT ![k] = v]
  BY <1>1, <1>5, <1>7, <1>8, MapOfAdded
<1>10. MapOf(table') = [MapOf(table) EXCEPT ![k] = v]
  <2>1. PICK m \in [Key -> Val \cup {None}] : m = MapOf(table)
    BY MapFacts
  <2>2. MapOf(table') = [[m EXCEPT ![k] = None] EXCEPT ![k] = v]
    BY <1>6, <1>9, <2>1
  <2>3. [[m EXCEPT ![k] = None] EXCEPT ![k] = v] = [m EXCEPT ![k] = v]
    OBVIOUS
  <2> QED
    BY <2>1, <2>2, <2>3
<1> QED
  BY <1>3, <1>10, MapFacts DEF Map!Replace

LEMMA InsertRefines ==
  ASSUME Inv, NEW k \in Key, NEW v \in Val, NEW f \in BOOLEAN, Insert(k, v, f)
  PROVE  Map!Insert(k, v)
BY InsertSafeRefines, ReplaceRefines DEF Insert, Map!Insert

(* must names present keys only.                                           *)
LEMMA MustPresent ==
  ASSUME Inv, Trav PROVE must \subseteq Keys(table)
BY OnPair, AheadPresent DEF Trav

LEMMA DeleteRefines ==
  ASSUME Inv, Trav, NEW k \in Key, NEW f \in BOOLEAN, Delete(k, f)
  PROVE  Map!Delete(k)
<1>1. KeyAt(it) # k
  BY MapFacts DEF Delete
<1>2. CASE ~HasKey(table, k)
  <2>1. answer' = 0 /\ UNCHANGED <<table, it, seen, must>>
    BY <1>2 DEF Delete, Refused, walk
  <2>2. MapOf(table)[k] = None /\ MapOf(table) \in [Key -> Val \cup {None}]
    BY <1>2, MapFacts
  <2>3. MapOf(table) = [MapOf(table) EXCEPT ![k] = None]
    BY <2>2
  <2>4. k \notin must
    <3>1. k \notin Keys(table)
      BY <1>2, OnPair, MapOfTable
    <3> QED
      BY <3>1, MustPresent
  <2> QED
    BY <1>1, <2>1, <2>2, <2>3, <2>4 DEF Map!Delete
<1>3. CASE HasKey(table, k)
  <2>1. /\ table' = Without(table, k) /\ answer' = 1 /\ must' = must \ {k}
        /\ UNCHANGED <<it, seen>>
    BY <1>3 DEF Delete
  <2>2. /\ table' \in Tables(Pair) /\ WellPlaced(table') /\ NoDuplicate(table')
        /\ Lookup(table, k) \in Entries(table) /\ Lookup(table, k).key = k
        /\ Entries(table') = Entries(table) \ {Lookup(table, k)}
    BY <1>3, <2>1, OnPair, WithoutRemoves
  <2>3. MapOf(table') = [MapOf(table) EXCEPT ![k] = None]
    BY <2>2, OnPair, MapOfRemoved
  <2>4. MapOf(table)[k] # None
    BY <1>3, MapFacts
  <2> QED
    BY <1>1, <2>1, <2>3, <2>4 DEF Map!Delete
<1> QED
  BY <1>2, <1>3

LEMMA FindRefines ==
  ASSUME NEW k \in Key, Find(k) PROVE Map!Find(k)
<1>1. answer' = MapOf(table)[k] /\ UNCHANGED <<table, it, seen, must>>
  BY DEF Find, walk, MapOf
<1> QED
  BY <1>1 DEF Map!Find

LEMMA CleanRefines ==
  ASSUME NEW f \in BOOLEAN, Clean(f) \/ DestroyAndNew(f) PROVE Map!Clean
<1>1. Ended(it) /\ table' = EmptyTable /\ must' = {} /\ UNCHANGED <<it, seen, answer>>
  BY DEF Clean, DestroyAndNew
<1>2. KeyAt(it) = None
  BY <1>1 DEF KeyAt
<1>3. MapOf(table') = [k \in Key |-> None]
  BY <1>1, MapOfEmpty
<1> QED
  BY <1>1, <1>2, <1>3 DEF Map!Clean

LEMMA FirstRefines ==
  ASSUME Inv, First PROVE Map!First
<1>1. PICK j : j = IterHead(table)
  OBVIOUS
<1>2. Ended(it) /\ StandOn(j, {}, Keys(table)) /\ UNCHANGED <<table, answer>>
  BY <1>1 DEF First
<1>3. KeyAt(it) = None /\ Map!Present = Keys(table)
  BY <1>2, MapFacts DEF KeyAt
<1>4. CASE Ended(j)
  <2>1. Keys(table) = {}
    BY <1>1, <1>4, OnPair, AheadOfHead
  <2>2. it' = j /\ seen' = {} /\ must' = {}
    BY <1>2, <1>4, <2>1 DEF StandOn
  <2>3. KeyAt(it') = None
    BY <1>4, <2>2 DEF KeyAt
  <2>4. Map!GoTo(None, Map!Present, {}, Map!Present)
    BY <1>3, <2>1, <2>2, <2>3 DEF Map!GoTo
  <2> QED
    BY <1>2, <1>3, <2>4 DEF Map!First
<1>5. CASE ~Ended(j)
  <2>1. PICK k : k = j.pair.key
    OBVIOUS
  <2>2. k \in Keys(table)
    BY <1>1, <1>5, <2>1, OnPair, AheadOfHead
  <2>3. it' = j /\ seen' = {} \cup {k} /\ must' = Keys(table) \ {k}
    BY <1>2, <1>5, <2>1 DEF StandOn
  <2>4. KeyAt(it') = k
    BY <1>5, <2>1, <2>3 DEF KeyAt
  <2>5. Map!GoTo(k, Map!Present, {}, Map!Present)
    BY <1>3, <2>2, <2>3, <2>4 DEF Map!GoTo
  <2> QED
    BY <1>2, <1>3, <2>2, <2>5 DEF Map!First
<1> QED
  BY <1>4, <1>5

(* The traversal goes to a key it has not stood on, or ends with nothing   *)
(* owed.                                                                   *)
LEMMA GoesOn ==
  ASSUME Inv, Trav, ~Ended(it), StandOn(IterNext(table, it), seen, must)
  PROVE  \E k \in Map!Present \cup {None} : Map!GoTo(k, Map!Present, seen, must)
<1>1. PICK j : j = IterNext(table, it)
  OBVIOUS
<1>2. Map!Present = Keys(table)
  BY MapFacts
<1>3. CASE Ended(j)
  <2>1. must = {}
    BY <1>1, <1>3, OnPair, AheadOfNext DEF Trav
  <2>2. it' = j /\ seen' = {} /\ must' = {}
    BY <1>1, <1>3, <2>1 DEF StandOn
  <2>3. KeyAt(it') = None
    BY <1>3, <2>2 DEF KeyAt
  <2>4. Map!GoTo(None, Map!Present, seen, must)
    BY <2>1, <2>2, <2>3 DEF Map!GoTo
  <2> QED
    BY <2>4
<1>4. CASE ~Ended(j)
  <2>1. PICK k : k = j.pair.key
    OBVIOUS
  <2>2. k \in Ahead(table, it)
    BY <1>1, <1>4, <2>1, OnPair, AheadOfNext
  <2>3. k \in Keys(table) /\ k \notin seen
    BY <2>2, OnPair, AheadPresent DEF Trav
  <2>4. it' = j /\ seen' = seen \cup {k} /\ must' = must \ {k}
    BY <1>1, <1>4, <2>1 DEF StandOn
  <2>5. KeyAt(it') = k
    BY <1>4, <2>1, <2>4 DEF KeyAt
  <2>6. Map!GoTo(k, Map!Present, seen, must)
    BY <1>2, <2>3, <2>4, <2>5 DEF Map!GoTo
  <2> QED
    BY <1>2, <2>3, <2>6
<1> QED
  BY <1>3, <1>4

LEMMA MoveRefines ==
  ASSUME Inv, Trav, Move PROVE Map!Move
<1>1. ~Ended(it) /\ StandOn(IterNext(table, it), seen, must) /\ UNCHANGED <<table, answer>>
  BY DEF Move
<1>2. \E k \in Map!Present \cup {None} : Map!GoTo(k, Map!Present, seen, must)
  BY <1>1, GoesOn
<1> QED
  BY <1>1, <1>2, MapFacts DEF Map!Move

LEMMA EraseRefines ==
  ASSUME Inv, Trav, Erase PROVE Map!Erase
<1>1. PICK k : k = it.pair.key
  OBVIOUS
<1>2. /\ ~Ended(it) /\ StandOn(IterNext(table, it), seen, must)
      /\ table' = Without(table, k) /\ answer' = answer
  BY <1>1 DEF Erase
<1>3. \E x \in Map!Present \cup {None} : Map!GoTo(x, Map!Present, seen, must)
  BY <1>2, GoesOn
<1>4. KeyAt(it) = k /\ k \in Key /\ KeyAt(it) # None
  BY <1>1, <1>2, MapFacts
<1>5. HasKey(table, k)
  BY <1>1, <1>2, OnPair, HasKeyIsEntry DEF OnEntry
<1>6. /\ table' \in Tables(Pair) /\ WellPlaced(table') /\ NoDuplicate(table')
      /\ Lookup(table, k) \in Entries(table) /\ Lookup(table, k).key = k
      /\ Entries(table') = Entries(table) \ {Lookup(table, k)}
  BY <1>2, <1>5, OnPair, WithoutRemoves
<1>7. MapOf(table') = [MapOf(table) EXCEPT ![k] = None]
  BY <1>4, <1>6, OnPair, MapOfRemoved
<1> QED
  BY <1>2, <1>3, <1>4, <1>7 DEF Map!Erase


(* mcl_hash_insert of NULL answers 0, as a delete of an absent key does.   *)
LEMMA RefusalRefines ==
  ASSUME Inv, Trav, Silent, Refused
  PROVE  Map!Next \/ UNCHANGED Map!vars
<1>1. answer' = 0 /\ UNCHANGED <<table, it, seen, must>>
  BY DEF Refused, walk
<1>2. CASE Key = {}
  BY <1>1, <1>2 DEF Silent, Map!vars
<1>3. CASE Key # {}
  <2>1. PICK k \in Key : TRUE
    BY <1>3
  <2>2. CASE HasKey(table, k)
    <3>1. PICK p \in Entries(table) : p.key = k
      BY <2>2, OnPair, HasKeyIsEntry
    <3>2. p.val \in Val
      BY <3>1, TableFacts DEF Inv, Pair
    <3>3. Map!InsertSafe(k, p.val)
      BY <2>2, MapFacts, RefusedRefines DEF Map!InsertSafe
    <3> QED
      BY <2>1, <3>2, <3>3 DEF Map!Next
  <2>3. CASE ~HasKey(table, k)
    <3>1. MayRemove(k)
      BY <2>3, OnPair, HasKeyIsEntry DEF MayRemove, OnEntry
    <3>2. Delete(k, TRUE)
      BY <2>3, <3>1 DEF Delete
    <3>3. Map!Delete(k)
      BY <2>1, <3>2, DeleteRefines
    <3> QED
      BY <2>1, <3>3 DEF Map!Next
  <2> QED
    BY <2>2, <2>3
<1> QED
  BY <1>2, <1>3

LEMMA SameMap ==
  ASSUME UNCHANGED <<table, it, seen, must, answer>>
  PROVE  UNCHANGED Map!vars
BY DEF Map!vars

LEMMA StepRefines ==
  ASSUME Inv, Trav, Silent, [Next]_vars PROVE [Map!Next]_(Map!vars)
<1>1. CASE \E v \in Val : Malloc(v)
  BY <1>1, SameMap DEF Malloc, walk
<1>2. CASE InsertNull
  BY <1>2, RefusalRefines DEF InsertNull
<1>3. CASE \E k \in Key, v \in Val : InsertSafe(k, v)
  <2>1. PICK k \in Key, v \in Val : InsertSafe(k, v)
    BY <1>3
  <2>2. Map!InsertSafe(k, v)
    BY <2>1, InsertSafeRefines DEF Map!InsertSafe
  <2> QED
    BY <2>2 DEF Map!Next
<1>4. CASE \E k \in Key, v \in Val, f \in BOOLEAN : Insert(k, v, f)
  <2>1. PICK k \in Key, v \in Val, f \in BOOLEAN : Insert(k, v, f)
    BY <1>4
  <2>2. Map!Insert(k, v)
    BY <2>1, InsertRefines
  <2> QED
    BY <2>2 DEF Map!Next
<1>5. CASE \E k \in Key, f \in BOOLEAN : Delete(k, f)
  BY <1>5, DeleteRefines DEF Map!Next
<1>6. CASE \E k \in Key : Find(k)
  BY <1>6, FindRefines DEF Map!Next
<1>7. CASE \E f \in BOOLEAN : Clean(f) \/ DestroyAndNew(f) \/ Ctrl(f)
  <2>1. CASE \E f \in BOOLEAN : Clean(f) \/ DestroyAndNew(f)
    BY <2>1, CleanRefines DEF Map!Next
  <2>2. CASE \E f \in BOOLEAN : Ctrl(f)
    BY <2>2, SameMap DEF Ctrl, walk
  <2> QED
    BY <1>7, <2>1, <2>2
<1>8. CASE First
  BY <1>8, FirstRefines DEF Map!Next
<1>9. CASE Move
  BY <1>9, MoveRefines DEF Map!Next
<1>10. CASE Erase
  BY <1>10, EraseRefines DEF Map!Next
<1>11. CASE UNCHANGED vars
  BY <1>11, SameMap DEF vars
<1> QED
  BY <1>1, <1>2, <1>3, <1>4, <1>5, <1>6, <1>7, <1>8, <1>9, <1>10, <1>11 DEF Next, Calls

LEMMA InitRefines == Init => Map!Init
<1> SUFFICES ASSUME Init PROVE Map!Init
  OBVIOUS
<1>1. KeyAt(it) = None
  BY DEF Init, KeyAt, Ended, NoIter
<1>2. MapOf(table) = [k \in Key |-> None]
  BY MapOfEmpty DEF Init
<1> QED
  BY <1>1, <1>2 DEF Init, Map!Init

LEMMA NextSilent == Inv /\ Silent /\ [Next]_vars => Silent'
<1> SUFFICES ASSUME Inv, Silent, [Next]_vars, Key = {} PROVE answer' = 0
  BY DEF Silent
<1>1. answer = 0
  BY DEF Silent
<1>2. CASE Calls
  BY <1>1, <1>2 DEF Calls, Malloc, InsertNull, Refused, Clean, DestroyAndNew, Ctrl
<1>3. CASE First \/ Move \/ Erase
  BY <1>1, <1>3 DEF First, Move, Erase
<1>4. CASE UNCHANGED vars
  BY <1>1, <1>4 DEF vars
<1> QED
  BY <1>2, <1>3, <1>4 DEF Next

LEMMA AlwaysTrav == Spec => [](Inv /\ Trav /\ Silent)
<1>1. Init => Inv /\ Trav /\ Silent
  BY InitInv DEF Init, Trav, Silent, Ended, NoIter
<1>2. Inv /\ Trav /\ Silent /\ [Next]_vars => (Inv /\ Trav /\ Silent)'
  BY NextInv, NextTrav, NextSilent
<1> QED
  BY <1>1, <1>2, PTL DEF Spec

(* mcl_hash.h: buckets, chains and the place of new pairs cannot be told   *)
(* from outside: the table is the map of HashMap, a new key is refused     *)
(* only when that says so, and a traversal stands on every entry that      *)
(* stays, on none twice, whatever is inserted and removed under way.       *)
THEOREM TableImplementsMap == Spec => ImplementsMap
<1>1. Inv /\ Trav /\ Silent /\ [Next]_vars => [Map!Next]_(Map!vars)
  BY StepRefines
<1> QED
  BY <1>1, InitRefines, AlwaysTrav, PTL DEF Spec, ImplementsMap, Map!Spec

(* mcl_hash.c: each call does to the map, and answers, what its namesake   *)
(* there does for the key it was given.                                    *)
THEOREM EachCallAgrees == Spec => CallsAgree
<1> DEFINE Agreed ==
  /\ answer' \in {0, 1} /\ it' = it =>
       \A k \in Key :
         /\ \A v \in {u \in Val : owner[u] = "client"} :
              /\ InsertSafe(k, v) => Map!InsertSafe(k, v)
              /\ \A f \in BOOLEAN : Insert(k, v, f) => Map!Insert(k, v)
         /\ \A f \in BOOLEAN : Delete(k, f) => Map!Delete(k)
  /\ table' = table => \A k \in Key : Find(k) => Map!Find(k)
<1>1. ASSUME Inv, Trav, NEW k \in Key PROVE Find(k) => Map!Find(k)
  BY FindRefines
<1>2. ASSUME Inv, Trav, NEW k \in Key, NEW v \in Val
      PROVE  /\ InsertSafe(k, v) => Map!InsertSafe(k, v)
             /\ \A f \in BOOLEAN : Insert(k, v, f) => Map!Insert(k, v)
  BY <1>2, InsertSafeRefines, InsertRefines DEF Map!InsertSafe
<1>3. ASSUME Inv, Trav, NEW k \in Key, NEW f \in BOOLEAN
      PROVE  Delete(k, f) => Map!Delete(k)
  BY <1>3, DeleteRefines
<1>4. Inv /\ Trav => Agreed
  BY <1>1, <1>2, <1>3
<1>5. Inv /\ Trav /\ [Next]_vars => [Agreed]_vars
  BY <1>4
<1>6. CallsAgree <=> [][Agreed]_vars
  BY DEF CallsAgree
<1> HIDE DEF Agreed
<1> QED
  BY <1>5, <1>6, AlwaysTrav, PTL DEF Spec
=============================================================================
