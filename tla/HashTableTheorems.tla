------------------------- MODULE HashTableTheorems -------------------------
(***************************************************************************)
(* What the table operators of HashTable return and preserve, for every    *)
(* number of buckets, multiplier and chain limit.                          *)
(***************************************************************************)
EXTENDS HashTable, SequenceFacts

Tables(P) == [Buckets -> Seq(P)]

(* In a chain without duplicates the search finds the pair of the key.     *)
LEMMA PlaceFound ==
  ASSUME NEW P, NEW b \in Seq(P), NEW k, ChainHas(b, k),
         \A i, j \in DOMAIN b : b[i].key = b[j].key => i = j
  PROVE  Place(b, k) \in 1 .. Len(b) /\ b[Place(b, k)].key = k
<1>1. PICK i \in DOMAIN b : b[i].key = k
  BY DEF ChainHas
<1>2. \A j \in 1 .. i - 1 : b[j].key # k
  BY <1>1
<1> QED
  BY <1>1, <1>2 DEF Place

-----------------------------------------------------------------------------
(* The entries of a table, place by place.                                 *)
LEMMA EntryHasPlace ==
  ASSUME NEW P, NEW t \in Tables(P), NEW p
  PROVE  p \in Entries(t) <=> \E h \in Buckets : \E i \in 1 .. Len(t[h]) : t[h][i] = p
<1>1. \A h \in Buckets : t[h] \in Seq(P) /\ DOMAIN t[h] = 1 .. Len(t[h])
  BY DEF Tables
<1> QED
  BY <1>1 DEF Entries, ToSet

LEMMA EmptyTableIsEmpty ==
  ASSUME NEW P
  PROVE  EmptyTable \in Tables(P) /\ Entries(EmptyTable) = {}
<1>1. EmptyTable \in Tables(P)
  BY DEF EmptyTable, Tables
<1>2. \A h \in Buckets : Len(EmptyTable[h]) = 0
  BY DEF EmptyTable
<1> QED
  BY <1>1, <1>2, EntryHasPlace

(* An available key is in the table if and only if some entry has it.      *)
LEMMA HasKeyIsEntry ==
  ASSUME NEW P, NEW t \in Tables(P), WellPlaced(t), NEW k
  PROVE  HasKey(t, k) <=> \E p \in Entries(t) : p.key = k
<1>1. \A h \in Buckets : t[h] \in Seq(P) /\ DOMAIN t[h] = 1 .. Len(t[h])
  BY DEF Tables
<1>2. ASSUME HasKey(t, k)
      PROVE  \E p \in Entries(t) : p.key = k
  <2>1. PICK i \in 1 .. Len(t[CalHash(k)]) : t[CalHash(k)][i].key = k
    BY <1>1, <1>2 DEF HasKey, ChainHas, Available
  <2> QED
    BY <1>2, <2>1, EntryHasPlace DEF HasKey, Available
<1>3. ASSUME NEW p \in Entries(t), p.key = k
      PROVE  HasKey(t, k)
  <2>1. PICK h \in Buckets : \E i \in 1 .. Len(t[h]) : t[h][i] = p
    BY <1>3, EntryHasPlace
  <2>2. PICK i \in 1 .. Len(t[h]) : t[h][i] = p
    BY <2>1
  <2>3. CalHash(k) = h
    BY <1>1, <1>3, <2>2 DEF WellPlaced
  <2> QED
    BY <1>1, <1>3, <2>2, <2>3 DEF HasKey, ChainHas, Available
<1> QED
  BY <1>2, <1>3

(* mcl_list_insert at the head of the chain of an available key.           *)
LEMMA WithPairAdds ==
  ASSUME NEW P, NEW t \in Tables(P), NEW p \in P, Available(p.key)
  PROVE  /\ WithPair(t, p) \in Tables(P)
         /\ Entries(WithPair(t, p)) = Entries(t) \cup {p}
         /\ Len(WithPair(t, p)[CalHash(p.key)]) = Len(t[CalHash(p.key)]) + 1
         /\ \A h \in Buckets : h # CalHash(p.key) => WithPair(t, p)[h] = t[h]
<1> DEFINE c == CalHash(p.key)
           u == WithPair(t, p)
<1>1. c \in Buckets
  BY DEF Available
<1>2. \A h \in Buckets : t[h] \in Seq(P)
  BY DEF Tables
<1>3. u \in Tables(P) /\ u[c] = <<p>> \o t[c] /\ \A h \in Buckets : h # c => u[h] = t[h]
  BY <1>1, <1>2, ConsPlaces DEF Tables, WithPair
<1>4. /\ Len(u[c]) = Len(t[c]) + 1 /\ u[c][1] = p
      /\ \A j \in 1 .. Len(t[c]) : u[c][j + 1] = t[c][j]
  BY <1>1, <1>2, <1>3, ConsPlaces
<1> HIDE DEF c, u
<1>5. ASSUME NEW q \in Entries(t) PROVE q \in Entries(u)
  <2>1. PICK h \in Buckets : \E i \in 1 .. Len(t[h]) : t[h][i] = q
    BY EntryHasPlace
  <2>2. PICK i \in 1 .. Len(t[h]) : t[h][i] = q
    BY <2>1
  <2>3. CASE h = c
    <3>1. i + 1 \in 1 .. Len(u[c]) /\ u[c][i + 1] = q
      BY <1>1, <1>2, <1>4, <2>2, <2>3
    <3> QED
      BY <1>1, <1>3, <3>1, EntryHasPlace
  <2>4. CASE h # c
    BY <1>3, <2>2, <2>4, EntryHasPlace
  <2> QED
    BY <2>3, <2>4
<1>6. p \in Entries(u)
  <2>1. 1 \in 1 .. Len(u[c])
    BY <1>1, <1>2, <1>4
  <2> QED
    BY <1>1, <1>3, <1>4, <2>1, EntryHasPlace
<1>7. ASSUME NEW q \in Entries(u), q # p PROVE q \in Entries(t)
  <2>1. PICK h \in Buckets : \E i \in 1 .. Len(u[h]) : u[h][i] = q
    BY <1>3, EntryHasPlace
  <2>2. PICK i \in 1 .. Len(u[h]) : u[h][i] = q
    BY <2>1
  <2>3. CASE h = c
    <3>1. i - 1 \in 1 .. Len(t[c])
      BY <1>1, <1>2, <1>4, <1>7, <2>2, <2>3
    <3>2. u[c][(i - 1) + 1] = t[c][i - 1] /\ (i - 1) + 1 = i
      BY <1>4, <3>1
    <3> QED
      BY <1>1, <2>2, <2>3, <3>1, <3>2, EntryHasPlace
  <2>4. CASE h # c
    BY <1>3, <2>2, <2>4, EntryHasPlace
  <2> QED
    BY <2>3, <2>4
<1> QED
  BY <1>3, <1>4, <1>5, <1>6, <1>7 DEF u, c

(* list_del of the pair of a key that is in the table.                     *)
LEMMA WithoutRemoves ==
  ASSUME NEW P, NEW t \in Tables(P), NEW k, HasKey(t, k),
         WellPlaced(t), NoDuplicate(t)
  PROVE  /\ Without(t, k) \in Tables(P)
         /\ Lookup(t, k) \in Entries(t) /\ Lookup(t, k) \in P
         /\ Lookup(t, k).key = k
         /\ \A p \in Entries(t) : p.key = k => p = Lookup(t, k)
         /\ Entries(Without(t, k)) = Entries(t) \ {Lookup(t, k)}
         /\ WellPlaced(Without(t, k)) /\ NoDuplicate(Without(t, k))
         /\ Len(Without(t, k)[CalHash(k)]) = Len(t[CalHash(k)]) - 1
         /\ \A h \in Buckets : h # CalHash(k) => Without(t, k)[h] = t[h]
<1> DEFINE c == CalHash(k)
           n == Place(t[c], k)
           u == Without(t, k)
<1>1. c \in Buckets /\ ChainHas(t[c], k)
  BY DEF Available, HasKey
<1>2. \A h \in Buckets : t[h] \in Seq(P) /\ DOMAIN t[h] = 1 .. Len(t[h])
  BY DEF Tables
<1>3. n \in 1 .. Len(t[c]) /\ t[c][n].key = k
  BY <1>1, <1>2, PlaceFound DEF NoDuplicate
<1>4. /\ RemoveAt(t[c], n) \in Seq(P) /\ Len(RemoveAt(t[c], n)) = Len(t[c]) - 1
      /\ \A j \in 1 .. Len(t[c]) - 1 :
           RemoveAt(t[c], n)[j] = IF j < n THEN t[c][j] ELSE t[c][j + 1]
  BY <1>1, <1>2, <1>3, RemoveAtPlaces
<1>5. /\ u \in Tables(P)
      /\ u[c] = RemoveAt(t[c], n) /\ \A h \in Buckets : h # c => u[h] = t[h]
  BY <1>1, <1>2, <1>4 DEF Tables, Without
<1>6. Lookup(t, k) = t[c][n]
  BY DEF Lookup
<1>7. Lookup(t, k) \in Entries(t) /\ Lookup(t, k) \in P /\ Lookup(t, k).key = k
  BY <1>1, <1>2, <1>3, <1>6, EntryHasPlace
<1> HIDE DEF n, u
<1>8. ASSUME NEW p \in Entries(t), p.key = k PROVE p = t[c][n]
  <2>1. PICK h \in Buckets : \E i \in 1 .. Len(t[h]) : t[h][i] = p
    BY EntryHasPlace
  <2>2. PICK i \in 1 .. Len(t[h]) : t[h][i] = p
    BY <2>1
  <2>3. h = c
    BY <1>2, <1>8, <2>2 DEF WellPlaced
  <2>4. i = n
    BY <1>2, <1>3, <1>8, <2>2, <2>3 DEF NoDuplicate
  <2> QED
    BY <2>2, <2>3, <2>4
<1>9. \A j \in 1 .. Len(t[c]) - 1 : u[c][j] = IF j < n THEN t[c][j] ELSE t[c][j + 1]
  BY <1>4, <1>5
<1>10. \A h \in Buckets : u[h] \in Seq(P) /\ DOMAIN u[h] = 1 .. Len(u[h])
  BY <1>5 DEF Tables
<1>11. Len(u[c]) = Len(t[c]) - 1 /\ Len(t[c]) \in Nat /\ n \in Nat
  BY <1>1, <1>2, <1>3, <1>4, <1>5
<1>12. ASSUME NEW p \in Entries(u) PROVE p \in Entries(t) /\ p # t[c][n]
  <2>1. PICK h \in Buckets : \E i \in 1 .. Len(u[h]) : u[h][i] = p
    BY <1>5, EntryHasPlace
  <2>2. PICK i \in 1 .. Len(u[h]) : u[h][i] = p
    BY <2>1
  <2>3. CASE h = c
    <3>1. PICK j \in 1 .. Len(t[c]) : j # n /\ p = t[c][j]
      <4>1. CASE i < n
        BY <1>3, <1>9, <1>11, <2>2, <2>3, <4>1
      <4>2. CASE ~(i < n)
        BY <1>3, <1>9, <1>11, <2>2, <2>3, <4>2
      <4> QED
        BY <4>1, <4>2
    <3>2. p # t[c][n]
      BY <1>1, <1>2, <1>3, <3>1 DEF NoDuplicate
    <3> QED
      BY <1>1, <3>1, <3>2, EntryHasPlace
  <2>4. CASE h # c
    <3>1. i \in 1 .. Len(t[h]) /\ t[h][i] = p
      BY <1>5, <2>2, <2>4
    <3>2. CalHash(p.key) = h
      BY <1>2, <3>1 DEF WellPlaced
    <3> QED
      BY <1>3, <2>4, <3>1, <3>2, EntryHasPlace
  <2> QED
    BY <2>3, <2>4
<1>13. ASSUME NEW p \in Entries(t), p # t[c][n] PROVE p \in Entries(u)
  <2>1. PICK h \in Buckets : \E i \in 1 .. Len(t[h]) : t[h][i] = p
    BY EntryHasPlace
  <2>2. PICK i \in 1 .. Len(t[h]) : t[h][i] = p
    BY <2>1
  <2>3. CASE h = c
    <3>1. \E j \in 1 .. Len(u[c]) : u[c][j] = p
      <4>1. CASE i < n
        <5>1. i \in 1 .. Len(t[c]) - 1 /\ u[c][i] = t[c][i]
          BY <1>3, <1>9, <1>11, <2>2, <2>3, <4>1
        <5> QED
          BY <1>11, <2>2, <2>3, <5>1
      <4>2. CASE ~(i < n)
        <5>1. i > n
          BY <1>11, <1>13, <2>2, <2>3, <4>2
        <5>2. i - 1 \in 1 .. Len(t[c]) - 1 /\ ~(i - 1 < n) /\ (i - 1) + 1 = i
          BY <1>3, <1>11, <2>2, <2>3, <5>1
        <5>3. u[c][i - 1] = t[c][i]
          BY <1>9, <5>2
        <5> QED
          BY <1>11, <2>2, <2>3, <5>2, <5>3
      <4> QED
        BY <4>1, <4>2
    <3> QED
      BY <1>1, <1>5, <3>1, EntryHasPlace
  <2>4. CASE h # c
    BY <1>5, <2>2, <2>4, EntryHasPlace
  <2> QED
    BY <2>3, <2>4
<1>14. WellPlaced(u)
  <2> SUFFICES ASSUME NEW h \in Buckets, NEW i \in 1 .. Len(u[h])
               PROVE  CalHash(u[h][i].key) = h
    BY <1>10 DEF WellPlaced
  <2>1. CASE h = c
    <3>1. CASE i < n
      <4>1. i \in 1 .. Len(t[c]) /\ u[c][i] = t[c][i]
        BY <1>3, <1>9, <1>11, <2>1, <3>1
      <4> QED
        BY <1>1, <1>2, <2>1, <4>1 DEF WellPlaced
    <3>2. CASE ~(i < n)
      <4>1. i + 1 \in 1 .. Len(t[c]) /\ u[c][i] = t[c][i + 1]
        BY <1>3, <1>9, <1>11, <2>1, <3>2
      <4> QED
        BY <1>1, <1>2, <2>1, <4>1 DEF WellPlaced
    <3> QED
      BY <3>1, <3>2
  <2>2. CASE h # c
    BY <1>2, <1>5, <2>2 DEF WellPlaced
  <2> QED
    BY <2>1, <2>2
<1>15. NoDuplicate(u)
  <2> SUFFICES ASSUME NEW h \in Buckets, NEW i \in 1 .. Len(u[h]), NEW j \in 1 .. Len(u[h]),
                      u[h][i].key = u[h][j].key
               PROVE  i = j
    BY <1>10 DEF NoDuplicate
  <2>1. CASE h = c
    <3> DEFINE a == IF i < n THEN i ELSE i + 1
               b == IF j < n THEN j ELSE j + 1
    <3>1. a \in 1 .. Len(t[c]) /\ b \in 1 .. Len(t[c])
      BY <1>3, <1>11, <2>1
    <3>2. u[c][i] = t[c][a] /\ u[c][j] = t[c][b]
      BY <1>9, <1>11, <2>1
    <3>3. a = b
      BY <1>1, <1>2, <2>1, <3>1, <3>2 DEF NoDuplicate
    <3> QED
      BY <1>11, <3>3
  <2>2. CASE h # c
    BY <1>2, <1>5, <2>2 DEF NoDuplicate
  <2> QED
    BY <2>1, <2>2
<1> QED
  BY <1>5, <1>6, <1>7, <1>8, <1>11, <1>12, <1>13, <1>14, <1>15 DEF u

(* A key that is not in the table is put there by WithPair, in its place.  *)
LEMMA WithPairKeeps ==
  ASSUME NEW P, NEW t \in Tables(P), NEW p \in P, Available(p.key),
         ~HasKey(t, p.key), WellPlaced(t), NoDuplicate(t)
  PROVE  WellPlaced(WithPair(t, p)) /\ NoDuplicate(WithPair(t, p))
<1> DEFINE c == CalHash(p.key)
           u == WithPair(t, p)
<1>1. c \in Buckets /\ \A i \in DOMAIN t[c] : t[c][i].key # p.key
  BY DEF Available, HasKey, ChainHas
<1>2. \A h \in Buckets : t[h] \in Seq(P) /\ DOMAIN t[h] = 1 .. Len(t[h])
  BY DEF Tables
<1>3. u \in Tables(P)
  BY WithPairAdds
<1>4. u[c] = <<p>> \o t[c] /\ \A h \in Buckets : h # c => u[h] = t[h]
  BY <1>1, <1>2 DEF Tables, WithPair
<1>5. /\ Len(u[c]) = Len(t[c]) + 1 /\ u[c][1] = p
      /\ \A j \in 1 .. Len(t[c]) : u[c][j + 1] = t[c][j]
  BY <1>1, <1>2, <1>4, ConsPlaces
<1>6. \A h \in Buckets : u[h] \in Seq(P) /\ DOMAIN u[h] = 1 .. Len(u[h])
  BY <1>3 DEF Tables
<1> HIDE DEF u
<1>7. ASSUME NEW i \in 1 .. Len(u[c]), i # 1
      PROVE  i - 1 \in 1 .. Len(t[c]) /\ u[c][i] = t[c][i - 1]
  <2>1. i - 1 \in 1 .. Len(t[c]) /\ (i - 1) + 1 = i
    BY <1>1, <1>2, <1>5, <1>7
  <2> QED
    BY <1>5, <2>1
<1>8. WellPlaced(u)
  <2> SUFFICES ASSUME NEW h \in Buckets, NEW i \in 1 .. Len(u[h])
               PROVE  CalHash(u[h][i].key) = h
    BY <1>6 DEF WellPlaced
  <2>1. CASE h # c
    BY <1>2, <1>4, <2>1 DEF WellPlaced
  <2>2. CASE h = c /\ i = 1
    BY <1>5, <2>2
  <2>3. CASE h = c /\ i # 1
    BY <1>1, <1>2, <1>7, <2>3 DEF WellPlaced
  <2> QED
    BY <2>1, <2>2, <2>3
<1>9. NoDuplicate(u)
  <2> SUFFICES ASSUME NEW h \in Buckets, NEW i \in 1 .. Len(u[h]), NEW j \in 1 .. Len(u[h]),
                      u[h][i].key = u[h][j].key
               PROVE  i = j
    BY <1>6 DEF NoDuplicate
  <2>1. CASE h # c
    BY <1>2, <1>4, <2>1 DEF NoDuplicate
  <2>2. CASE h = c /\ i # 1 /\ j # 1
    <3> DEFINE a == i - 1
               b == j - 1
    <3>2. a \in DOMAIN t[c] /\ u[c][i] = t[c][a]
      BY <1>1, <1>2, <1>7, <2>2
    <3>3. b \in DOMAIN t[c] /\ u[c][j] = t[c][b]
      BY <1>1, <1>2, <1>7, <2>2
    <3>4. t[c][a].key = t[c][b].key
      BY <2>2, <3>2, <3>3
    <3> HIDE DEF a, b
    <3>5. a = b
      BY <1>1, <3>2, <3>3, <3>4 DEF NoDuplicate
    <3>6. i - 1 = j - 1
      BY <3>5 DEF a, b
    <3> QED
      BY <1>6, <3>6
  <2>3. CASE h = c /\ i = 1 /\ j # 1
    BY <1>1, <1>2, <1>5, <1>7, <2>3
  <2>4. CASE h = c /\ i # 1 /\ j = 1
    BY <1>1, <1>2, <1>5, <1>7, <2>4
  <2> QED
    BY <2>1, <2>2, <2>3, <2>4
<1> QED
  BY <1>8, <1>9 DEF u

-----------------------------------------------------------------------------
(* An iterator between two calls: over, or on a linked pair.               *)
OnEntry(t, j) ==
  ~Ended(j) => j.pair \in Entries(t) /\ j.cursor = CalHash(j.pair.key)

Iters(P) == {NoIter} \cup [cursor : Buckets, pair : P]

(* def_hash_iter_head, and the search for the next chain in iter_next.     *)
LEMMA FirstFromLinked ==
  ASSUME NEW P, NEW t \in Tables(P), WellPlaced(t), NEW h \in Nat
  PROVE  /\ FirstFrom(t, h) \in Iters(P) /\ OnEntry(t, FirstFrom(t, h))
         /\ ~Ended(FirstFrom(t, h)) => FirstFrom(t, h).cursor >= h
<1> DEFINE full == {i \in Buckets : i >= h /\ t[i] # <<>>}
           low  == CHOOSE i \in full : \A j \in full : i <= j
<1>1. CASE full = {}
  BY <1>1 DEF FirstFrom, Iters, OnEntry, Ended, NoIter
<1>2. CASE full # {}
  <2>1. full \in SUBSET Nat
    BY HashAssumption DEF Buckets
  <2>2. \E i \in full : \A j \in full : i <= j
    BY <1>2, <2>1, LeastNatural
  <2>3. low \in full
    BY <2>2
  <2>4. low \in Buckets /\ low >= h /\ t[low] \in Seq(P) /\ t[low] # <<>>
    BY <2>3 DEF Tables
  <2>5. 1 \in DOMAIN t[low] /\ t[low][1] \in P
    BY <2>4
  <2>6. FirstFrom(t, h) = [cursor |-> low, pair |-> t[low][1]]
    BY <1>2 DEF FirstFrom
  <2> HIDE DEF low
  <2>7. t[low][1] \in Entries(t)
    BY <2>4, <2>5, EntryHasPlace
  <2>8. CalHash(t[low][1].key) = low
    BY <2>4, <2>5 DEF WellPlaced
  <2> QED
    BY <2>4, <2>5, <2>6, <2>7, <2>8 DEF Iters, OnEntry
<1> QED
  BY <1>1, <1>2

(* def_hash_iter_next from a linked pair: to another linked pair, or over. *)
LEMMA IterNextLinked ==
  ASSUME NEW P, NEW t \in Tables(P), WellPlaced(t), NoDuplicate(t),
         NEW j \in Iters(P), ~Ended(j), OnEntry(t, j)
  PROVE  /\ IterNext(t, j) \in Iters(P) /\ OnEntry(t, IterNext(t, j))
         /\ ~Ended(IterNext(t, j)) => IterNext(t, j).pair.key # j.pair.key
<1> DEFINE b == t[j.cursor]
           n == Place(b, j.pair.key)
<1>1. j \in [cursor : Buckets, pair : P]
  BY DEF Iters, Ended, NoIter
<1>2. j.cursor \in Buckets /\ b \in Seq(P) /\ \E i \in DOMAIN b : b[i] = j.pair
  <2>1. j.cursor \in Buckets /\ j.cursor = CalHash(j.pair.key)
    BY <1>1 DEF OnEntry
  <2>2. PICK h \in Buckets : \E i \in 1 .. Len(t[h]) : t[h][i] = j.pair
    BY EntryHasPlace DEF OnEntry
  <2>3. PICK i \in 1 .. Len(t[h]) : t[h][i] = j.pair
    BY <2>2
  <2>4. t[h] \in Seq(P) /\ DOMAIN t[h] = 1 .. Len(t[h])
    BY DEF Tables
  <2>5. h = j.cursor
    BY <2>1, <2>3, <2>4 DEF WellPlaced
  <2> QED
    BY <2>1, <2>3, <2>4, <2>5
<1>3. n \in 1 .. Len(b) /\ b[n].key = j.pair.key
  <2>1. ChainHas(b, j.pair.key)
    BY <1>2 DEF ChainHas
  <2> QED
    BY <1>2, <2>1, PlaceFound DEF NoDuplicate
<1>4. CASE n < Len(b)
  <2> DEFINE m == n + 1
  <2>1. m \in DOMAIN b /\ b[m] \in P /\ n \in DOMAIN b /\ m # n
    BY <1>2, <1>3, <1>4
  <2>2. IterNext(t, j) = [j EXCEPT !.pair = b[m]]
    BY <1>4 DEF IterNext
  <2> HIDE DEF m, n
  <2>3. IterNext(t, j) = [cursor |-> j.cursor, pair |-> b[m]]
    BY <1>1, <2>2
  <2>4. CalHash(b[m].key) = j.cursor
    BY <1>2, <2>1 DEF WellPlaced
  <2>5. b[m] \in Entries(t)
    BY <1>2, <2>1, EntryHasPlace
  <2>6. b[m].key # j.pair.key
    BY <1>2, <1>3, <2>1 DEF NoDuplicate
  <2> QED
    BY <1>2, <2>1, <2>3, <2>4, <2>5, <2>6 DEF Iters, OnEntry
<1>5. CASE ~(n < Len(b))
  <2> DEFINE f == FirstFrom(t, j.cursor + 1)
  <2>1. IterNext(t, j) = f
    BY <1>5 DEF IterNext
  <2>2. j.cursor + 1 \in Nat /\ j.cursor \in Nat
    BY <1>2, HashAssumption DEF Buckets
  <2>3. f \in Iters(P) /\ OnEntry(t, f) /\ (~Ended(f) => f.cursor >= j.cursor + 1)
    BY <2>2, FirstFromLinked
  <2> HIDE DEF f
  <2>4. ASSUME ~Ended(f) PROVE f.pair.key # j.pair.key
    <3>1. f.cursor \in Buckets /\ f.cursor >= j.cursor + 1
      BY <2>3, <2>4 DEF Iters, Ended, NoIter
    <3>2. f.cursor # j.cursor
      BY <2>2, <3>1, HashAssumption DEF Buckets
    <3> QED
      BY <2>3, <2>4, <3>2 DEF OnEntry
  <2> QED
    BY <2>1, <2>3, <2>4
<1> QED
  BY <1>4, <1>5

-----------------------------------------------------------------------------
(***************************************************************************)
(* A chain that is not named by an int key: string keys hash to it by      *)
(* their text.                                                             *)
(***************************************************************************)

Onto(t, h, p) == [t EXCEPT ![h] = <<p>> \o @]
OutOf(t, h, p) == [t EXCEPT ![h] = RemoveAt(@, Place(@, p.key))]

(* A set-wise view of an insertion at the head of a chain.                 *)
LEMMA ChainGrows ==
  ASSUME NEW P, NEW t \in Tables(P), NEW h \in Buckets, NEW p \in P
  PROVE  /\ Onto(t, h, p) \in Tables(P)
         /\ Len(Onto(t, h, p)[h]) = Len(t[h]) + 1
         /\ \A g \in Buckets : g # h => Onto(t, h, p)[g] = t[g]
         /\ ToSet(Onto(t, h, p)[h]) = ToSet(t[h]) \cup {p}
         /\ Entries(Onto(t, h, p)) = Entries(t) \cup {p}
         /\ (NoDuplicate(t) /\ \A q \in ToSet(t[h]) : q.key # p.key)
               => NoDuplicate(Onto(t, h, p))
         /\ (ChainsBounded(t) /\ Len(t[h]) < MaxListSize) => ChainsBounded(Onto(t, h, p))
<1> DEFINE u == Onto(t, h, p)
           b == t[h]
           c == u[h]
<1>1. /\ b \in Seq(P) /\ DOMAIN b = 1 .. Len(b) /\ Len(b) \in Nat
      /\ \A g \in Buckets : t[g] \in Seq(P)
  BY DEF Tables
<1>2. /\ c = <<p>> \o b /\ u \in Tables(P)
      /\ \A g \in Buckets : g # h => u[g] = t[g]
  BY <1>1, ConsPlaces DEF Tables, Onto
<1> HIDE DEF u
<1>3. /\ c \in Seq(P) /\ Len(c) = Len(b) + 1 /\ c[1] = p
      /\ \A j \in 1 .. Len(b) : c[j + 1] = b[j]
  BY <1>1, <1>2, ConsPlaces
<1> HIDE DEF b, c
<1>4. DOMAIN c = 1 .. Len(b) + 1
  BY <1>1, <1>3
<1>5. \A i \in 1 .. Len(b) + 1 : (i = 1 /\ c[i] = p) \/ (i - 1 \in 1 .. Len(b) /\ c[i] = b[i - 1])
  <2>1. ASSUME NEW i \in 1 .. Len(b) + 1, i # 1
        PROVE  i - 1 \in 1 .. Len(b) /\ c[i] = b[i - 1]
    <3>1. i - 1 \in 1 .. Len(b) /\ (i - 1) + 1 = i
      BY <1>1, <2>1
    <3> QED
      BY <1>3, <3>1
  <2> QED
    BY <1>3, <2>1
<1>6. \A x : x \in ToSet(b) <=> \E i \in 1 .. Len(b) : b[i] = x
  BY <1>1, ToSetPlaces
<1>7. \A x : x \in ToSet(c) <=> \E i \in 1 .. Len(b) + 1 : c[i] = x
  BY <1>3, ToSetPlaces
<1>8. ToSet(c) = ToSet(b) \cup {p}
  <2>1. ASSUME NEW x \in ToSet(b) PROVE x \in ToSet(c)
    <3>1. PICK i \in 1 .. Len(b) : b[i] = x
      BY <1>6, <2>1
    <3>2. i + 1 \in 1 .. Len(b) + 1 /\ c[i + 1] = x
      BY <1>1, <1>3, <3>1
    <3> QED
      BY <1>7, <3>2
  <2>2. 1 \in 1 .. Len(b) + 1
    BY <1>1
  <2>3. p \in ToSet(c)
    BY <1>3, <1>7, <2>2
  <2>4. ASSUME NEW x \in ToSet(c) PROVE x = p \/ x \in ToSet(b)
    BY <1>5, <1>6, <1>7, <2>4
  <2> QED
    BY <2>1, <2>3, <2>4
<1>9. Entries(u) = Entries(t) \cup {p}
  BY <1>2, <1>8 DEF Entries, b, c
<1>10. ASSUME NoDuplicate(t), \A q \in ToSet(t[h]) : q.key # p.key
       PROVE  NoDuplicate(u)
  <2>1. ASSUME NEW i \in 1 .. Len(b) + 1, NEW j \in 1 .. Len(b) + 1, c[i].key = c[j].key
        PROVE  i = j
    <3>1. \A m \in 1 .. Len(b) : b[m].key # p.key
      BY <1>6, <1>10 DEF b
    <3>2. \A m, n \in 1 .. Len(b) : b[m].key = b[n].key => m = n
      BY <1>1, <1>10 DEF NoDuplicate, b
    <3>3. i \in Int /\ j \in Int
      BY <1>1
    <3>4. CASE i = 1 \/ j = 1
      BY <1>5, <2>1, <3>1, <3>4
    <3>5. CASE i # 1 /\ j # 1
      <4>1. i - 1 = j - 1
        BY <1>5, <2>1, <3>2, <3>5
      <4> QED
        BY <3>3, <4>1
    <3> QED
      BY <3>4, <3>5
  <2>2. \A i, j \in DOMAIN c : c[i].key = c[j].key => i = j
    BY <1>4, <2>1
  <2> QED
    BY <1>2, <1>10, <2>2 DEF NoDuplicate, c
<1>11. ASSUME ChainsBounded(t), Len(t[h]) < MaxListSize
       PROVE  ChainsBounded(u)
  <2>1. Len(u[h]) <= MaxListSize
    BY <1>1, <1>3, <1>11, HashAssumption DEF b, c
  <2> QED
    BY <1>2, <1>11, <2>1 DEF ChainsBounded
<1> QED
  BY <1>2, <1>3, <1>8, <1>9, <1>10, <1>11 DEF u, b, c

(* A set-wise view of a removal.                                           *)
LEMMA ChainShrinks ==
  ASSUME NEW P, NEW t \in Tables(P), NEW h \in Buckets, NEW p \in ToSet(t[h]),
         NoDuplicate(t)
  PROVE  /\ OutOf(t, h, p) \in Tables(P) /\ p \in P
         /\ Len(OutOf(t, h, p)[h]) = Len(t[h]) - 1
         /\ \A g \in Buckets : g # h => OutOf(t, h, p)[g] = t[g]
         /\ ToSet(OutOf(t, h, p)[h]) = ToSet(t[h]) \ {p}
         /\ \A q \in ToSet(OutOf(t, h, p)[h]) : q.key # p.key
         /\ NoDuplicate(OutOf(t, h, p))
         /\ ChainsBounded(t) => ChainsBounded(OutOf(t, h, p))
<1> DEFINE u == OutOf(t, h, p)
           b == t[h]
           n == Place(b, p.key)
           c == u[h]
<1>1. /\ b \in Seq(P) /\ DOMAIN b = 1 .. Len(b) /\ Len(b) \in Nat
      /\ \A g \in Buckets : t[g] \in Seq(P)
  BY DEF Tables
<1>2. \A i, j \in 1 .. Len(b) : b[i].key = b[j].key => i = j
  BY <1>1 DEF NoDuplicate
<1>3. \A x : x \in ToSet(b) <=> \E i \in 1 .. Len(b) : b[i] = x
  BY <1>1, ToSetPlaces
<1>4. n \in 1 .. Len(b) /\ b[n] = p
  <2>1. PICK i \in 1 .. Len(b) : b[i] = p
    BY <1>3
  <2>2. ChainHas(b, p.key)
    BY <1>1, <2>1 DEF ChainHas
  <2>3. n \in 1 .. Len(b) /\ b[n].key = p.key
    BY <1>1, <1>2, <2>2, PlaceFound
  <2> HIDE DEF n, b
  <2> QED
    BY <1>2, <2>1, <2>3
<1>5. p \in P
  BY <1>1, <1>4
<1>6. /\ c = RemoveAt(b, n) /\ u \in Tables(P)
      /\ \A g \in Buckets : g # h => u[g] = t[g]
  BY <1>1, <1>4, RemoveAtPlaces DEF Tables, OutOf
<1> HIDE DEF u
<1>7. /\ c \in Seq(P) /\ Len(c) = Len(b) - 1
      /\ \A j \in 1 .. Len(b) - 1 : c[j] = IF j < n THEN b[j] ELSE b[j + 1]
  <2> HIDE DEF b, c, n
  <2>1. \A i \in 1 .. Len(b) :
          /\ RemoveAt(b, i) \in Seq(P) /\ Len(RemoveAt(b, i)) = Len(b) - 1
          /\ \A j \in 1 .. Len(b) - 1 : RemoveAt(b, i)[j] = IF j < i THEN b[j] ELSE b[j + 1]
    BY <1>1, RemoveAtPlaces
  <2> QED
    BY <1>4, <1>6, <2>1
<1> HIDE DEF b, c, n
<1>8. DOMAIN c = 1 .. Len(b) - 1
  BY <1>1, <1>7
<1>9. \A x : x \in ToSet(c) <=> \E i \in 1 .. Len(b) - 1 : c[i] = x
  <2>1. \A x : x \in ToSet(c) <=> \E i \in 1 .. Len(c) : c[i] = x
    BY <1>7, ToSetPlaces
  <2> QED
    BY <1>7, <2>1
<1>10. ASSUME NEW j \in 1 .. Len(b) - 1
       PROVE  \E i \in 1 .. Len(b) : i # n /\ c[j] = b[i] /\ i = (IF j < n THEN j ELSE j + 1)
  BY <1>1, <1>4, <1>7
<1>11. ASSUME NEW i \in 1 .. Len(b), i # n
       PROVE  \E j \in 1 .. Len(b) - 1 : c[j] = b[i]
  <2>1. CASE i < n
    BY <1>1, <1>4, <1>7, <2>1
  <2>2. CASE i > n
    <3>1. i - 1 \in 1 .. Len(b) - 1 /\ ~(i - 1 < n) /\ (i - 1) + 1 = i
      BY <1>1, <1>4, <2>2
    <3>2. c[i - 1] = b[(i - 1) + 1]
      BY <1>7, <3>1
    <3> QED
      BY <3>1, <3>2
  <2> QED
    BY <1>1, <1>4, <1>11, <2>1, <2>2
<1>12. \A j \in 1 .. Len(b) - 1 : c[j].key # p.key
  BY <1>2, <1>4, <1>10
<1>13. ToSet(c) = ToSet(b) \ {p}
  <2>1. ASSUME NEW x \in ToSet(c) PROVE x \in ToSet(b) /\ x # p
    BY <1>3, <1>9, <1>10, <1>12, <2>1
  <2>2. ASSUME NEW x \in ToSet(b), x # p PROVE x \in ToSet(c)
    <3>1. PICK i \in 1 .. Len(b) : b[i] = x
      BY <1>3, <2>2
    <3> QED
      BY <1>4, <1>9, <1>11, <2>2, <3>1
  <2> QED
    BY <2>1, <2>2
<1>14. \A q \in ToSet(c) : q.key # p.key
  BY <1>9, <1>12
<1>15. NoDuplicate(u)
  <2>1. ASSUME NEW i \in 1 .. Len(b) - 1, NEW j \in 1 .. Len(b) - 1, c[i].key = c[j].key
        PROVE  i = j
    <3>1. PICK k \in 1 .. Len(b) : c[i] = b[k] /\ k = (IF i < n THEN i ELSE i + 1)
      BY <1>10
    <3>2. PICK l \in 1 .. Len(b) : c[j] = b[l] /\ l = (IF j < n THEN j ELSE j + 1)
      BY <1>10
    <3>3. k = l
      BY <1>2, <2>1, <3>1, <3>2
    <3> QED
      BY <1>1, <1>4, <3>1, <3>2, <3>3
  <2>2. \A i, j \in DOMAIN c : c[i].key = c[j].key => i = j
    BY <1>8, <2>1
  <2> QED
    BY <1>6, <2>2 DEF NoDuplicate, c
<1>16. ASSUME ChainsBounded(t) PROVE ChainsBounded(u)
  <2>1. Len(t[h]) <= MaxListSize
    BY <1>16 DEF ChainsBounded
  <2>2. Len(u[h]) <= MaxListSize
    BY <1>1, <1>7, <2>1, HashAssumption DEF b, c
  <2> QED
    BY <1>6, <1>16, <2>2 DEF ChainsBounded
<1> QED
  BY <1>5, <1>6, <1>7, <1>13, <1>14, <1>15, <1>16 DEF u, b, c

(* An iterator, over or on a pair of the chain it is in.                   *)
InChain(t, j) == ~Ended(j) => j.pair \in ToSet(t[j.cursor])

LEMMA FirstFromInChain ==
  ASSUME NEW P, NEW t \in Tables(P), NEW h \in Nat
  PROVE  /\ FirstFrom(t, h) \in Iters(P) /\ InChain(t, FirstFrom(t, h))
         /\ ~Ended(FirstFrom(t, h)) => FirstFrom(t, h).cursor >= h
<1> DEFINE full == {i \in Buckets : i >= h /\ t[i] # <<>>}
           low  == CHOOSE i \in full : \A j \in full : i <= j
<1>1. CASE full = {}
  BY <1>1 DEF FirstFrom, Iters, InChain, Ended, NoIter
<1>2. CASE full # {}
  <2>1. full \in SUBSET Nat
    BY HashAssumption DEF Buckets
  <2>2. \E i \in full : \A j \in full : i <= j
    BY <1>2, <2>1, LeastNatural
  <2>3. low \in full
    BY <2>2
  <2>4. low \in Buckets /\ low >= h /\ t[low] \in Seq(P) /\ t[low] # <<>>
    BY <2>3 DEF Tables
  <2>5. 1 \in 1 .. Len(t[low]) /\ t[low][1] \in P
    BY <2>4
  <2>6. FirstFrom(t, h) = [cursor |-> low, pair |-> t[low][1]]
    BY <1>2 DEF FirstFrom
  <2> HIDE DEF low
  <2>7. t[low][1] \in ToSet(t[low])
    BY <2>4, <2>5, ToSetPlaces
  <2> QED
    BY <2>4, <2>5, <2>6, <2>7 DEF Iters, InChain
<1> QED
  BY <1>1, <1>2

(* The iterator moves on to another pair, or is over; it does not come     *)
(* back to a chain it has left.                                            *)
LEMMA IterNextInChain ==
  ASSUME NEW P, NEW t \in Tables(P), NoDuplicate(t),
         NEW j \in Iters(P), ~Ended(j), InChain(t, j)
  PROVE  /\ IterNext(t, j) \in Iters(P) /\ InChain(t, IterNext(t, j))
         /\ ~Ended(IterNext(t, j)) => \/ IterNext(t, j).cursor # j.cursor
                                      \/ IterNext(t, j).pair.key # j.pair.key
<1> DEFINE b == t[j.cursor]
           n == Place(b, j.pair.key)
<1>1. j \in [cursor : Buckets, pair : P] /\ j.cursor \in Nat
  BY HashAssumption DEF Iters, Ended, NoIter, Buckets
<1>2. b \in Seq(P) /\ DOMAIN b = 1 .. Len(b) /\ \E i \in 1 .. Len(b) : b[i] = j.pair
  <2>1. b \in Seq(P) /\ j.pair \in ToSet(b)
    BY <1>1 DEF Tables, InChain
  <2> QED
    BY <2>1, ToSetPlaces
<1>3. n \in 1 .. Len(b) /\ b[n].key = j.pair.key
  <2>1. ChainHas(b, j.pair.key)
    BY <1>2 DEF ChainHas
  <2>2. \A i, k \in DOMAIN b : b[i].key = b[k].key => i = k
    BY <1>1 DEF NoDuplicate
  <2> QED
    BY <1>2, <2>1, <2>2, PlaceFound
<1>4. CASE n < Len(b)
  <2> DEFINE m == n + 1
  <2>1. m \in 1 .. Len(b) /\ b[m] \in P /\ m # n
    BY <1>2, <1>3, <1>4
  <2>2. IterNext(t, j) = [j EXCEPT !.pair = b[m]]
    BY <1>4 DEF IterNext
  <2>3. b[m] \in ToSet(b)
    BY <1>2, <2>1, ToSetPlaces
  <2>4. b[m].key # b[n].key
    BY <1>1, <1>2, <1>3, <2>1 DEF NoDuplicate
  <2> HIDE DEF m, n
  <2>5. IterNext(t, j) = [cursor |-> j.cursor, pair |-> b[m]]
    BY <1>1, <2>2
  <2> QED
    BY <1>1, <1>3, <2>1, <2>3, <2>4, <2>5 DEF Iters, InChain
<1>5. CASE ~(n < Len(b))
  <2> DEFINE f == FirstFrom(t, j.cursor + 1)
  <2>1. IterNext(t, j) = f
    BY <1>5 DEF IterNext
  <2>2. \A k \in Nat : k + 1 \in Nat /\ \A m : m = k => ~(m >= k + 1)
    OBVIOUS
  <2>3. f \in Iters(P) /\ InChain(t, f) /\ (~Ended(f) => f.cursor >= j.cursor + 1)
    BY <1>1, <2>2, FirstFromInChain
  <2> HIDE DEF f
  <2> QED
    BY <1>1, <2>1, <2>2, <2>3
<1> QED
  BY <1>4, <1>5


-----------------------------------------------------------------------------
(***************************************************************************)
(* What a traversal still has before it: the rest of the chain it is in    *)
(* and the chains after it.                                                *)
(***************************************************************************)

ChainAfter(b, n) == {b[i].key : i \in n + 1 .. Len(b)}
KeysFrom(t, h) == {k \in Keys(t) : CalHash(k) >= h}
Ahead(t, j) ==
  ChainAfter(t[j.cursor], Place(t[j.cursor], j.pair.key)) \cup KeysFrom(t, j.cursor + 1)

KeysDiffer(b) == \A i, j \in DOMAIN b : b[i].key = b[j].key => i = j

(* Where keys are unique a key has one place.                              *)
LEMMA PlaceIs ==
  ASSUME NEW P, NEW b \in Seq(P), KeysDiffer(b), NEW i \in 1 .. Len(b), NEW k, b[i].key = k
  PROVE  Place(b, k) = i
<1>1. DOMAIN b = 1 .. Len(b) /\ Len(b) \in Nat
  OBVIOUS
<1>2. ChainHas(b, k)
  BY <1>1 DEF ChainHas
<1>3. Place(b, k) \in 1 .. Len(b) /\ b[Place(b, k)].key = k
  BY <1>1, <1>2, PlaceFound DEF KeysDiffer
<1> QED
  BY <1>1, <1>3 DEF KeysDiffer

(* A pair at the head does not change what comes after another.            *)
LEMMA ConsAfter ==
  ASSUME NEW P, NEW b \in Seq(P), NEW p \in P, NEW c \in Seq(P), c = <<p>> \o b,
         KeysDiffer(b), KeysDiffer(c), NEW i \in 1 .. Len(b), NEW k, b[i].key = k
  PROVE  ChainAfter(c, Place(c, k)) = ChainAfter(b, Place(b, k))
<1>1. /\ Len(b) \in Nat /\ Len(c) = Len(b) + 1
      /\ \A j \in 1 .. Len(b) : c[j + 1] = b[j]
  BY ConsPlaces
<1>2. i + 1 \in 1 .. Len(c) /\ c[i + 1].key = k
  BY <1>1
<1>3. Place(b, k) = i /\ Place(c, k) = i + 1
  BY <1>2, PlaceIs
<1>4. ASSUME NEW x \in ChainAfter(c, i + 1) PROVE x \in ChainAfter(b, i)
  <2>1. PICK m \in (i + 1) + 1 .. Len(c) : x = c[m].key
    BY DEF ChainAfter
  <2>2. m - 1 \in i + 1 .. Len(b) /\ m - 1 \in 1 .. Len(b) /\ (m - 1) + 1 = m
    BY <1>1
  <2>3. x = b[m - 1].key
    BY <1>1, <2>1, <2>2
  <2> QED
    BY <2>2, <2>3 DEF ChainAfter
<1>5. ASSUME NEW x \in ChainAfter(b, i) PROVE x \in ChainAfter(c, i + 1)
  <2>1. PICK m \in i + 1 .. Len(b) : x = b[m].key
    BY DEF ChainAfter
  <2>2. m + 1 \in (i + 1) + 1 .. Len(c) /\ m \in 1 .. Len(b)
    BY <1>1
  <2>3. x = c[m + 1].key
    BY <1>1, <2>1, <2>2
  <2> QED
    BY <2>2, <2>3 DEF ChainAfter
<1>6. ChainAfter(c, i + 1) = ChainAfter(b, i)
  BY <1>4, <1>5
<1> QED
  BY <1>3, <1>6

(* The chain c is b without the pair at m; b has k at another place, i.     *)
KeyRemoved(P, b, m, c) ==
  /\ b \in Seq(P) /\ KeysDiffer(b) /\ m \in 1 .. Len(b)
  /\ c \in Seq(P) /\ c = RemoveAt(b, m) /\ KeysDiffer(c)
KeyStays(b, m, i, k) == i \in 1 .. Len(b) /\ i # m /\ b[i].key = k

(* A removal takes one key away, from what comes after or from before.     *)
LEMMA RemovedAfter ==
  ASSUME NEW P, NEW b, NEW m, NEW c, NEW i, NEW k, KeyRemoved(P, b, m, c), KeyStays(b, m, i, k)
  PROVE  ChainAfter(c, Place(c, k)) = ChainAfter(b, Place(b, k)) \ {b[m].key}
<1>0. /\ b \in Seq(P) /\ KeysDiffer(b) /\ m \in 1 .. Len(b)
      /\ c \in Seq(P) /\ c = RemoveAt(b, m) /\ KeysDiffer(c)
      /\ i \in 1 .. Len(b) /\ i # m /\ b[i].key = k
  BY DEF KeyRemoved, KeyStays
<1> USE <1>0
<1>1. /\ Len(b) \in Nat /\ Len(c) = Len(b) - 1
      /\ \A j \in 1 .. Len(b) - 1 : c[j] = IF j < m THEN b[j] ELSE b[j + 1]
  <2>1. /\ Len(RemoveAt(b, m)) = Len(b) - 1
        /\ \A j \in 1 .. Len(b) - 1 :
             RemoveAt(b, m)[j] = IF j < m THEN b[j] ELSE b[j + 1]
    BY RemoveAtPlaces
  <2> QED
    BY <2>1
<1>2. Place(b, k) = i
  BY PlaceIs
<1>3. \A j \in 1 .. Len(b) : b[j].key = b[m].key => j = m
  BY <1>1 DEF KeysDiffer
<1> DEFINE n == IF i < m THEN i ELSE i - 1
<1>4. n \in 1 .. Len(c) /\ c[n].key = k
  <2>1. CASE i < m
    BY <1>1, <2>1
  <2>2. CASE ~(i < m)
    <3>1. i - 1 \in 1 .. Len(b) - 1 /\ ~(i - 1 < m) /\ (i - 1) + 1 = i
      BY <1>1, <2>2
    <3> QED
      BY <1>1, <2>2, <3>1
  <2> QED
    BY <2>1, <2>2
<1>5. Place(c, k) = n
  BY <1>4, PlaceIs
<1>6. ASSUME NEW x \in ChainAfter(c, n) PROVE x \in ChainAfter(b, i) /\ x # b[m].key
  <2>1. PICK j \in n + 1 .. Len(c) : x = c[j].key
    BY DEF ChainAfter
  <2>2. j \in 1 .. Len(b) - 1
    BY <1>1, <1>4
  <2>3. CASE j < m
    <3>1. j \in i + 1 .. Len(b) /\ j \in 1 .. Len(b) /\ j # m
      BY <1>1, <2>2, <2>3
    <3>2. x = b[j].key
      BY <1>1, <2>1, <2>2, <2>3
    <3> QED
      BY <1>3, <3>1, <3>2 DEF ChainAfter
  <2>4. CASE ~(j < m)
    <3>1. j + 1 \in i + 1 .. Len(b) /\ j + 1 \in 1 .. Len(b) /\ j + 1 # m
      BY <1>1, <2>2, <2>4
    <3>2. x = b[j + 1].key
      BY <1>1, <2>1, <2>2, <2>4
    <3> QED
      BY <1>3, <3>1, <3>2 DEF ChainAfter
  <2> QED
    BY <2>3, <2>4
<1>7. ASSUME NEW x \in ChainAfter(b, i), x # b[m].key PROVE x \in ChainAfter(c, n)
  <2>1. PICK j \in i + 1 .. Len(b) : x = b[j].key
    BY DEF ChainAfter
  <2>2. j # m /\ j \in 1 .. Len(b)
    BY <1>1, <1>7, <2>1
  <2>3. CASE j < m
    <3>1. j \in n + 1 .. Len(c) /\ j \in 1 .. Len(b) - 1
      BY <1>1, <2>2, <2>3
    <3>2. x = c[j].key
      BY <1>1, <2>1, <2>3, <3>1
    <3> QED
      BY <3>1, <3>2 DEF ChainAfter
  <2>4. CASE ~(j < m)
    <3>1. j - 1 \in n + 1 .. Len(c) /\ j - 1 \in 1 .. Len(b) - 1 /\ ~(j - 1 < m) /\ (j - 1) + 1 = j
      BY <1>1, <2>2, <2>4
    <3>2. x = c[j - 1].key
      BY <1>1, <2>1, <2>4, <3>1
    <3> QED
      BY <3>1, <3>2 DEF ChainAfter
  <2> QED
    BY <2>3, <2>4
<1> QED
  BY <1>2, <1>5, <1>6, <1>7


(* A key of the table is in the chain it hashes to.                        *)
LEMMA KeyInChain ==
  ASSUME NEW P, NEW t \in Tables(P), WellPlaced(t), NEW k
  PROVE  k \in Keys(t) <=> /\ CalHash(k) \in Buckets
                           /\ \E i \in 1 .. Len(t[CalHash(k)]) : t[CalHash(k)][i].key = k
<1>1. \A h \in Buckets : t[h] \in Seq(P) /\ DOMAIN t[h] = 1 .. Len(t[h])
  BY DEF Tables
<1>2. ASSUME k \in Keys(t)
      PROVE  /\ CalHash(k) \in Buckets
             /\ \E i \in 1 .. Len(t[CalHash(k)]) : t[CalHash(k)][i].key = k
  <2>1. PICK p \in Entries(t) : p.key = k
    BY <1>2 DEF Keys
  <2>2. PICK h \in Buckets : \E i \in 1 .. Len(t[h]) : t[h][i] = p
    BY EntryHasPlace
  <2>3. PICK i \in 1 .. Len(t[h]) : t[h][i] = p
    BY <2>2
  <2>4. CalHash(k) = h
    BY <1>1, <2>1, <2>3 DEF WellPlaced
  <2> QED
    BY <2>1, <2>3, <2>4
<1>3. ASSUME CalHash(k) \in Buckets,
             NEW i \in 1 .. Len(t[CalHash(k)]), t[CalHash(k)][i].key = k
      PROVE  k \in Keys(t)
  <2>1. t[CalHash(k)][i] \in Entries(t)
    BY <1>3, EntryHasPlace
  <2> QED
    BY <1>3, <2>1 DEF Keys
<1> QED
  BY <1>2, <1>3

(* The pair under an iterator has a place in the chain of the cursor.      *)
LEMMA UnderCursor ==
  ASSUME NEW P, NEW t \in Tables(P), WellPlaced(t), NoDuplicate(t),
         NEW j \in Iters(P), ~Ended(j), OnEntry(t, j)
  PROVE  /\ j.cursor \in Buckets /\ j.cursor \in Nat
         /\ j = [cursor |-> j.cursor, pair |-> j.pair] /\ j.pair \in P
         /\ t[j.cursor] \in Seq(P) /\ KeysDiffer(t[j.cursor])
         /\ \E i \in 1 .. Len(t[j.cursor]) : t[j.cursor][i].key = j.pair.key
<1>1. j \in [cursor : Buckets, pair : P]
  BY DEF Iters, Ended, NoIter
<1>2. j.pair.key \in Keys(t) /\ j.cursor = CalHash(j.pair.key)
  BY DEF OnEntry, Keys
<1>3. \E i \in 1 .. Len(t[j.cursor]) : t[j.cursor][i].key = j.pair.key
  BY <1>2, KeyInChain
<1>4. j.cursor \in Buckets /\ j.cursor \in Nat
  BY <1>1, HashAssumption DEF Buckets
<1>5. t[j.cursor] \in Seq(P) /\ KeysDiffer(t[j.cursor])
  BY <1>4 DEF Tables, NoDuplicate, KeysDiffer
<1> QED
  BY <1>1, <1>3, <1>4, <1>5

(* do_hash_insert of a new key: nothing ahead is lost, and the new pair is *)
(* ahead only if it went to a later chain.                                 *)
LEMMA AheadGrows ==
  ASSUME NEW P, NEW t \in Tables(P), WellPlaced(t), NoDuplicate(t),
         NEW p \in P, Available(p.key), ~HasKey(t, p.key),
         NEW j \in Iters(P), ~Ended(j), OnEntry(t, j)
  PROVE  /\ Ahead(t, j) \subseteq Ahead(WithPair(t, p), j)
         /\ \A x \in Ahead(WithPair(t, p), j) :
              x \in Ahead(t, j) \/ (x = p.key /\ CalHash(x) >= j.cursor + 1)
<1> DEFINE u == WithPair(t, p)
           h == j.cursor
           c == CalHash(p.key)
           k == j.pair.key
<1>1. /\ u \in Tables(P) /\ Entries(u) = Entries(t) \cup {p}
      /\ \A g \in Buckets : g # c => u[g] = t[g]
      /\ WellPlaced(u) /\ NoDuplicate(u)
  BY WithPairAdds, WithPairKeeps
<1>2. u[c] = <<p>> \o t[c]
  BY DEF WithPair, Available, Tables
<1>3. /\ h \in Buckets /\ h \in Nat /\ t[h] \in Seq(P) /\ KeysDiffer(t[h])
      /\ \E i \in 1 .. Len(t[h]) : t[h][i].key = k
  BY UnderCursor
<1> HIDE DEF u, c
<1>4. u[h] \in Seq(P) /\ KeysDiffer(u[h])
  BY <1>1, <1>3 DEF Tables, NoDuplicate, KeysDiffer
<1>5. ChainAfter(u[h], Place(u[h], k)) = ChainAfter(t[h], Place(t[h], k))
  <2>1. CASE h = c
    <3>1. PICK i \in 1 .. Len(t[h]) : t[h][i].key = k
      BY <1>3
    <3>2. PICK b : b = t[h]
      OBVIOUS
    <3>3. PICK d : d = u[h]
      OBVIOUS
    <3>4. b \in Seq(P) /\ d \in Seq(P) /\ d = <<p>> \o b /\ KeysDiffer(b) /\ KeysDiffer(d)
      BY <1>2, <1>3, <1>4, <2>1, <3>2, <3>3
    <3>5. i \in 1 .. Len(b) /\ b[i].key = k
      BY <3>1, <3>2
    <3>6. ChainAfter(d, Place(d, k)) = ChainAfter(b, Place(b, k))
      BY <3>4, <3>5, ConsAfter
    <3> QED
      BY <3>2, <3>3, <3>6
  <2>2. CASE h # c
    BY <1>1, <1>3, <2>2
  <2> QED
    BY <2>1, <2>2
<1>6. Keys(u) = Keys(t) \cup {p.key}
  BY <1>1 DEF Keys
<1>7. Ahead(t, j) = ChainAfter(t[h], Place(t[h], k)) \cup KeysFrom(t, h + 1)
  BY DEF Ahead
<1>8. Ahead(u, j) = ChainAfter(t[h], Place(t[h], k)) \cup KeysFrom(u, h + 1)
  BY <1>5 DEF Ahead
<1>9. KeysFrom(t, h + 1) \subseteq KeysFrom(u, h + 1)
  BY <1>6 DEF KeysFrom
<1>10. \A x \in KeysFrom(u, h + 1) :
         x \in KeysFrom(t, h + 1) \/ (x = p.key /\ CalHash(x) >= h + 1)
  BY <1>6 DEF KeysFrom
<1>11. Ahead(t, j) \subseteq Ahead(u, j)
  BY <1>7, <1>8, <1>9
<1>12. \A x \in Ahead(u, j) : x \in Ahead(t, j) \/ (x = p.key /\ CalHash(x) >= h + 1)
  BY <1>7, <1>8, <1>10
<1> QED
  BY <1>11, <1>12 DEF u

(* hash_delete of another key takes that key away and no other.            *)
LEMMA AheadShrinks ==
  ASSUME NEW P, NEW t \in Tables(P), WellPlaced(t), NoDuplicate(t),
         NEW x, HasKey(t, x),
         NEW j \in Iters(P), ~Ended(j), OnEntry(t, j), j.pair.key # x
  PROVE  Ahead(Without(t, x), j) = Ahead(t, j) \ {x}
<1> DEFINE u == Without(t, x)
           h == j.cursor
           c == CalHash(x)
           k == j.pair.key
<1>1. /\ u \in Tables(P) /\ Entries(u) = Entries(t) \ {Lookup(t, x)}
      /\ Lookup(t, x).key = x
      /\ \A p \in Entries(t) : p.key = x => p = Lookup(t, x)
      /\ \A g \in Buckets : g # c => u[g] = t[g]
      /\ WellPlaced(u) /\ NoDuplicate(u)
  BY WithoutRemoves
<1>2. u[c] = RemoveAt(t[c], Place(t[c], x)) /\ c \in Buckets /\ ChainHas(t[c], x)
  BY DEF Without, HasKey, Available, Tables
<1>3. /\ h \in Buckets /\ h \in Nat /\ t[h] \in Seq(P) /\ KeysDiffer(t[h])
      /\ \E i \in 1 .. Len(t[h]) : t[h][i].key = k
  BY UnderCursor
<1> HIDE DEF u, c
<1>4. u[h] \in Seq(P) /\ KeysDiffer(u[h])
  BY <1>1, <1>3 DEF Tables, NoDuplicate, KeysDiffer
<1>5. ChainAfter(u[h], Place(u[h], k)) = ChainAfter(t[h], Place(t[h], k)) \ {x}
  <2>1. CASE h = c
    <3>1. PICK i \in 1 .. Len(t[h]) : t[h][i].key = k
      BY <1>3
    <3>2. PICK b : b = t[h]
      OBVIOUS
    <3>3. PICK d : d = u[h]
      OBVIOUS
    <3>4. PICK m : m = Place(b, x)
      OBVIOUS
    <3>5. /\ b \in Seq(P) /\ d \in Seq(P) /\ KeysDiffer(b) /\ KeysDiffer(d)
          /\ d = RemoveAt(b, m) /\ ChainHas(b, x)
      BY <1>2, <1>3, <1>4, <2>1, <3>2, <3>3, <3>4
    <3>6. m \in 1 .. Len(b) /\ b[m].key = x
      BY <3>4, <3>5, PlaceFound DEF KeysDiffer
    <3>7. i \in 1 .. Len(b) /\ b[i].key = k /\ i # m
      BY <3>1, <3>2, <3>6
    <3>8. PICK y : y = k
      OBVIOUS
    <3>9. b[i].key = y
      BY <3>7, <3>8
    <3>10. KeyRemoved(P, b, m, d) /\ KeyStays(b, m, i, y)
      BY <3>5, <3>6, <3>7, <3>9 DEF KeyRemoved, KeyStays
    <3>11. ChainAfter(d, Place(d, y)) = ChainAfter(b, Place(b, y)) \ {b[m].key}
      BY <3>10, RemovedAfter
    <3> QED
      BY <3>2, <3>3, <3>6, <3>8, <3>11
  <2>2. CASE h # c
    <3>1. \A i \in 1 .. Len(t[h]) : CalHash(t[h][i].key) = h
      BY <1>3 DEF WellPlaced
    <3>2. Place(t[h], k) \in 1 .. Len(t[h])
      BY <1>3, PlaceIs
    <3>3. x \notin ChainAfter(t[h], Place(t[h], k))
      BY <2>2, <3>1, <3>2 DEF ChainAfter, c
    <3> QED
      BY <1>1, <1>3, <2>2, <3>3
  <2> QED
    BY <2>1, <2>2
<1>6. Keys(u) = Keys(t) \ {x}
  BY <1>1 DEF Keys
<1>7. KeysFrom(u, h + 1) = KeysFrom(t, h + 1) \ {x}
  BY <1>6 DEF KeysFrom
<1> QED
  BY <1>5, <1>7 DEF Ahead, u

(* What is ahead is in the table.                                          *)
LEMMA AheadPresent ==
  ASSUME NEW P, NEW t \in Tables(P), WellPlaced(t), NoDuplicate(t),
         NEW j \in Iters(P), ~Ended(j), OnEntry(t, j)
  PROVE  Ahead(t, j) \subseteq Keys(t)
<1>1. PICK b : b = t[j.cursor]
  OBVIOUS
<1>2. PICK n : n = Place(b, j.pair.key)
  OBVIOUS
<1>3. /\ j.cursor \in Buckets /\ b \in Seq(P) /\ KeysDiffer(b) /\ Len(b) \in Nat
      /\ \E i \in 1 .. Len(b) : b[i].key = j.pair.key
  BY <1>1, UnderCursor
<1>4. n \in 1 .. Len(b)
  BY <1>2, <1>3, PlaceIs
<1>5. ASSUME NEW k \in ChainAfter(b, n) PROVE k \in Keys(t)
  <2>1. PICK i \in n + 1 .. Len(b) : k = b[i].key
    BY DEF ChainAfter
  <2>2. i \in 1 .. Len(b)
    BY <1>3, <1>4
  <2>3. CalHash(k) = j.cursor
    BY <1>1, <1>3, <2>1, <2>2 DEF WellPlaced
  <2> QED
    BY <1>1, <1>3, <2>1, <2>2, <2>3, KeyInChain
<1> QED
  BY <1>1, <1>2, <1>5 DEF Ahead, KeysFrom

(* The search for the next chain skips nothing: it ends when no key is     *)
(* left, and what is ahead of where it stops is the rest.                  *)
LEMMA AheadOfFirst ==
  ASSUME NEW P, NEW t \in Tables(P), WellPlaced(t), NoDuplicate(t), NEW h \in Nat
  PROVE  IF Ended(FirstFrom(t, h))
           THEN KeysFrom(t, h) = {}
           ELSE /\ FirstFrom(t, h).pair.key \in KeysFrom(t, h)
                /\ Ahead(t, FirstFrom(t, h)) = KeysFrom(t, h) \ {FirstFrom(t, h).pair.key}
<1> DEFINE full == {i \in Buckets : i >= h /\ t[i] # <<>>}
           low  == CHOOSE i \in full : \A j \in full : i <= j
<1>1. \A k \in KeysFrom(t, h) :
        /\ CalHash(k) \in Buckets /\ CalHash(k) >= h
        /\ \E i \in 1 .. Len(t[CalHash(k)]) : t[CalHash(k)][i].key = k
  BY KeyInChain DEF KeysFrom
<1>2. \A k \in KeysFrom(t, h) : CalHash(k) \in full
  <2> SUFFICES ASSUME NEW k \in KeysFrom(t, h) PROVE t[CalHash(k)] # <<>>
    BY <1>1
  <2> QED
    BY <1>1
<1>3. CASE full = {}
  <2>1. Ended(FirstFrom(t, h))
    BY <1>3 DEF FirstFrom, Ended, NoIter
  <2> QED
    BY <1>2, <1>3, <2>1
<1>4. CASE full # {}
  <2>1. full \in SUBSET Nat
    BY HashAssumption DEF Buckets
  <2>2. \E i \in full : \A j \in full : i <= j
    BY <1>4, <2>1, LeastNatural
  <2>3. low \in full /\ \A j \in full : low <= j
    BY <2>2
  <2>4. /\ low \in Buckets /\ low \in Nat /\ low >= h
        /\ t[low] \in Seq(P) /\ t[low] # <<>>
    BY <2>1, <2>3 DEF Tables
  <2>5. FirstFrom(t, h) = [cursor |-> low, pair |-> t[low][1]]
    BY <1>4 DEF FirstFrom
  <2>6. \A k \in KeysFrom(t, h) : low <= CalHash(k)
    BY <1>2, <2>3
  <2> HIDE DEF low, full
  <2>7. PICK b : b = t[low]
    OBVIOUS
  <2>8. /\ b \in Seq(P) /\ Len(b) \in Nat /\ 1 \in 1 .. Len(b) /\ KeysDiffer(b)
        /\ \A i \in 1 .. Len(b) : CalHash(b[i].key) = low
    BY <2>4, <2>7 DEF NoDuplicate, KeysDiffer, WellPlaced
  <2>9. PICK k : k = b[1].key
    OBVIOUS
  <2>10. Place(b, k) = 1
    BY <2>8, <2>9, PlaceIs
  <2>11. ~Ended(FirstFrom(t, h))
    BY <2>4, <2>5 DEF Ended
  <2>12. \A i \in 1 .. Len(b) : b[i].key \in Keys(t)
    BY <2>4, <2>7, <2>8, KeyInChain
  <2>13. k \in KeysFrom(t, h)
    BY <2>4, <2>8, <2>9, <2>12 DEF KeysFrom
  <2>14. Ahead(t, FirstFrom(t, h)) = ChainAfter(b, 1) \cup KeysFrom(t, low + 1)
    BY <2>5, <2>7, <2>9, <2>10 DEF Ahead
  <2>15. ASSUME NEW x \in ChainAfter(b, 1) PROVE x \in KeysFrom(t, h) /\ x # k
    <3>1. PICK i \in 1 + 1 .. Len(b) : x = b[i].key
      BY DEF ChainAfter
    <3>2. i \in 1 .. Len(b) /\ i # 1
      BY <2>8
    <3>3. x # k
      BY <2>8, <2>9, <3>1, <3>2 DEF KeysDiffer
    <3> QED
      BY <2>4, <2>8, <2>12, <3>1, <3>2, <3>3 DEF KeysFrom
  <2>16. ASSUME NEW x \in KeysFrom(t, low + 1) PROVE x \in KeysFrom(t, h) /\ x # k
    <3>1. x \in Keys(t) /\ CalHash(x) >= low + 1 /\ CalHash(x) \in Buckets
      BY KeyInChain DEF KeysFrom
    <3>2. CalHash(x) \in Nat
      BY <3>1, HashAssumption DEF Buckets
    <3>3. CalHash(x) >= h /\ CalHash(x) # low
      BY <2>4, <3>1, <3>2
    <3> QED
      BY <2>8, <2>9, <3>1, <3>3 DEF KeysFrom
  <2>17. ASSUME NEW x \in KeysFrom(t, h), x # k
         PROVE  x \in ChainAfter(b, 1) \/ x \in KeysFrom(t, low + 1)
    <3>1. CASE CalHash(x) = low
      <4>1. PICK i \in 1 .. Len(b) : b[i].key = x
        BY <1>1, <2>7, <3>1
      <4>2. i # 1
        BY <2>9, <2>17, <4>1
      <4>3. i \in 1 + 1 .. Len(b)
        BY <2>8, <4>2
      <4> QED
        BY <4>1, <4>3 DEF ChainAfter
    <3>2. CASE CalHash(x) # low
      <4>1. CalHash(x) \in Nat /\ low <= CalHash(x)
        BY <1>1, <2>6, HashAssumption DEF Buckets
      <4>2. CalHash(x) >= low + 1
        BY <2>4, <3>2, <4>1
      <4> QED
        BY <4>2 DEF KeysFrom
    <3> QED
      BY <3>1, <3>2
  <2>18. Ahead(t, FirstFrom(t, h)) = KeysFrom(t, h) \ {k}
    BY <2>14, <2>15, <2>16, <2>17
  <2> QED
    BY <2>5, <2>7, <2>9, <2>11, <2>13, <2>18
<1> QED
  BY <1>3, <1>4

(* def_hash_iter_head has every key ahead or under it.                     *)
LEMMA AheadOfHead ==
  ASSUME NEW P, NEW t \in Tables(P), WellPlaced(t), NoDuplicate(t)
  PROVE  IF Ended(IterHead(t))
           THEN Keys(t) = {}
           ELSE /\ IterHead(t).pair.key \in Keys(t)
                /\ Ahead(t, IterHead(t)) = Keys(t) \ {IterHead(t).pair.key}
<1>1. \A k \in Keys(t) : CalHash(k) >= 0
  BY KeyInChain, HashAssumption DEF Buckets
<1>2. KeysFrom(t, 0) = Keys(t)
  BY <1>1 DEF KeysFrom
<1> QED
  BY <1>2, AheadOfFirst DEF IterHead

(* def_hash_iter_next goes to a key that was ahead; the others stay ahead. *)
LEMMA AheadOfNext ==
  ASSUME NEW P, NEW t \in Tables(P), WellPlaced(t), NoDuplicate(t),
         NEW j \in Iters(P), ~Ended(j), OnEntry(t, j)
  PROVE  IF Ended(IterNext(t, j))
           THEN Ahead(t, j) = {}
           ELSE /\ IterNext(t, j).pair.key \in Ahead(t, j)
                /\ Ahead(t, IterNext(t, j)) = Ahead(t, j) \ {IterNext(t, j).pair.key}
                /\ IterNext(t, j).cursor >= j.cursor
<1>1. /\ j.cursor \in Buckets /\ j.cursor \in Nat
      /\ j = [cursor |-> j.cursor, pair |-> j.pair]
      /\ t[j.cursor] \in Seq(P) /\ KeysDiffer(t[j.cursor])
      /\ \E i \in 1 .. Len(t[j.cursor]) : t[j.cursor][i].key = j.pair.key
  BY UnderCursor
<1>2. PICK h : h = j.cursor
  OBVIOUS
<1>3. PICK b : b = t[h]
  OBVIOUS
<1>4. PICK n \in 1 .. Len(b) : b[n].key = j.pair.key
  BY <1>1, <1>2, <1>3
<1>5. /\ h \in Buckets /\ h \in Nat /\ b \in Seq(P) /\ KeysDiffer(b) /\ Len(b) \in Nat
      /\ \A i \in 1 .. Len(b) : CalHash(b[i].key) = h
  BY <1>1, <1>2, <1>3 DEF WellPlaced
<1>6. Place(b, j.pair.key) = n
  BY <1>4, <1>5, PlaceIs
<1>7. Ahead(t, j) = ChainAfter(b, n) \cup KeysFrom(t, h + 1)
  BY <1>2, <1>3, <1>6 DEF Ahead
<1>8. CASE n < Len(b)
  <2>1. PICK k : k = b[n + 1].key
    OBVIOUS
  <2>2. n + 1 \in 1 .. Len(b)
    BY <1>5, <1>8
  <2>3. IterNext(t, j) = [cursor |-> h, pair |-> b[n + 1]]
    <3>1. IterNext(t, j) = [j EXCEPT !.pair = b[n + 1]]
      BY <1>2, <1>3, <1>6, <1>8 DEF IterNext
    <3> QED
      BY <1>1, <1>2, <3>1
  <2>4. Place(b, k) = n + 1
    BY <1>5, <2>1, <2>2, PlaceIs
  <2>5. Ahead(t, IterNext(t, j)) = ChainAfter(b, n + 1) \cup KeysFrom(t, h + 1)
    BY <1>3, <2>1, <2>3, <2>4 DEF Ahead
  <2>6. k \notin KeysFrom(t, h + 1)
    BY <1>5, <2>1, <2>2 DEF KeysFrom
  <2>7. k \in ChainAfter(b, n)
    BY <1>5, <2>1, <2>2 DEF ChainAfter
  <2>8. ASSUME NEW x \in ChainAfter(b, n + 1) PROVE x \in ChainAfter(b, n) /\ x # k
    <3>1. PICK i \in (n + 1) + 1 .. Len(b) : x = b[i].key
      BY DEF ChainAfter
    <3>2. i \in n + 1 .. Len(b) /\ i \in 1 .. Len(b) /\ i # n + 1
      BY <1>5
    <3>3. x # k
      BY <1>5, <2>1, <2>2, <3>1, <3>2 DEF KeysDiffer
    <3> QED
      BY <3>1, <3>2, <3>3 DEF ChainAfter
  <2>9. ASSUME NEW x \in ChainAfter(b, n), x # k PROVE x \in ChainAfter(b, n + 1)
    <3>1. PICK i \in n + 1 .. Len(b) : x = b[i].key
      BY DEF ChainAfter
    <3>2. i # n + 1
      BY <2>1, <2>9, <3>1
    <3>3. i \in (n + 1) + 1 .. Len(b)
      BY <1>5, <3>2
    <3> QED
      BY <3>1, <3>3 DEF ChainAfter
  <2>10. ChainAfter(b, n + 1) = ChainAfter(b, n) \ {k}
    BY <2>8, <2>9
  <2>11. Ahead(t, IterNext(t, j)) = Ahead(t, j) \ {k}
    BY <1>7, <2>5, <2>6, <2>10
  <2>12. ~Ended(IterNext(t, j))
    BY <1>5, <2>3 DEF Ended
  <2>13. IterNext(t, j).pair.key = k /\ IterNext(t, j).cursor = h
    BY <2>1, <2>3
  <2>14. h >= h
    BY <1>5
  <2> QED
    BY <1>2, <1>7, <2>7, <2>11, <2>12, <2>13, <2>14
<1>9. CASE ~(n < Len(b))
  <2>1. IterNext(t, j) = FirstFrom(t, h + 1)
    BY <1>2, <1>3, <1>6, <1>9 DEF IterNext
  <2>2. ChainAfter(b, n) = {}
    BY <1>5, <1>9 DEF ChainAfter
  <2>3. Ahead(t, j) = KeysFrom(t, h + 1)
    BY <1>7, <2>2
  <2>4. PICK f : f = FirstFrom(t, h + 1)
    OBVIOUS
  <2>5. h + 1 \in Nat
    BY <1>5
  <2>6. IF Ended(f) THEN KeysFrom(t, h + 1) = {}
                    ELSE /\ f.pair.key \in KeysFrom(t, h + 1)
                         /\ Ahead(t, f) = KeysFrom(t, h + 1) \ {f.pair.key}
    BY <2>4, <2>5, AheadOfFirst
  <2>7. f \in Iters(P) /\ (~Ended(f) => f.cursor >= h + 1)
    BY <2>4, <2>5, FirstFromLinked
  <2>8. ~Ended(f) => f.cursor >= h
    <3> SUFFICES ASSUME ~Ended(f) PROVE f.cursor >= h
      OBVIOUS
    <3>1. f.cursor \in Nat
      BY <2>7, HashAssumption DEF Iters, Ended, NoIter, Buckets
    <3> QED
      BY <1>5, <2>7, <3>1
  <2> QED
    BY <1>2, <2>1, <2>3, <2>4, <2>6, <2>8
<1> QED
  BY <1>8, <1>9
=============================================================================
