-------------------------- MODULE MclStrHashProofs --------------------------
(***************************************************************************)
(* The safety of MclStrHash for every set of texts, number of buckets,     *)
(* strings, values and limits.                                             *)
(***************************************************************************)
EXTENDS MclStrHash, HashTableTheorems, FiniteSetTheorems

-----------------------------------------------------------------------------
(***************************************************************************)
(* Hashes and trimming.                                                    *)
(***************************************************************************)

(* A bounded set of naturals has a greatest element.                       *)
LEMMA GreatestNatural ==
  ASSUME NEW n \in Nat, NEW T \in SUBSET (1 .. n), T # {}
  PROVE  \E m \in T : \A k \in T : m >= k
<1> DEFINE D == {n - i : i \in T}
<1>1. D \in SUBSET Nat /\ D # {}
  <2>1. \A i \in 1 .. n : n - i \in Nat
    OBVIOUS
  <2>2. D \in SUBSET Nat
    BY <2>1
  <2>3. PICK i \in T : TRUE
    OBVIOUS
  <2>4. n - i \in D
    BY <2>3
  <2> QED
    BY <2>2, <2>4
<1>2. PICK d \in D : \A e \in D : d <= e
  BY <1>1, LeastNatural
<1>3. PICK m \in T : d = n - m
  OBVIOUS
<1>4. \A k \in T : n - m <= n - k
  BY <1>2, <1>3
<1> QED
  BY <1>4

(* A step of the hash stays a natural number.                              *)
LEMMA ElfStepNat ==
  ASSUME NEW hash \in Nat, NEW c \in Nat
  PROVE  ElfStep(hash, c) \in Nat
<1>1. \A a \in Nat : /\ a % 16 \in Nat /\ a \div 16 \in Nat /\ a \div 256 \in Nat
  OBVIOUS
<1>0. \A a, d \in Nat : d # 0 => a % d \in Nat /\ a \div d \in Nat
  OBVIOUS
<1> DEFINE all == 2^28
<1>9. all \in Nat /\ all # 0
  OBVIOUS
<1>2. \A a \in Nat : /\ a \div 1 \in Nat /\ a \div 2 \in Nat /\ a \div 4 \in Nat
                     /\ a \div 8 \in Nat /\ a % 2 \in Nat
  OBVIOUS
<1>3. \A a, b \in Nat : a + b \in Nat /\ a * 256 \in Nat /\ a * 16 \in Nat
  OBVIOUS
<1>4. ASSUME NEW a \in Nat, NEW b \in Nat PROVE NibbleXor(a, b) \in Nat
  <2>1. /\ ((a \div 1 + b \div 1) % 2) * 1 \in Nat
        /\ ((a \div 2 + b \div 2) % 2) * 2 \in Nat
        /\ ((a \div 4 + b \div 4) % 2) * 4 \in Nat
        /\ ((a \div 8 + b \div 8) % 2) * 8 \in Nat
    BY <1>2
  <2> QED
    BY <2>1 DEF NibbleXor
<1> DEFINE sum == hash * 16 + c
           low == sum % all
           x   == NibbleXor((low \div 16) % 16, (sum \div all) % 16)
<1> HIDE DEF all
<1>5. sum \in Nat
  BY <1>3
<1>6. low \in Nat /\ sum \div all \in Nat
  BY <1>0, <1>5, <1>9
<1> HIDE DEF sum, low
<1>7. x \in Nat
  BY <1>1, <1>4, <1>6
<1>8. ElfStep(hash, c) = (low \div 256) * 256 + x * 16 + (low % 16)
  BY DEF ElfStep, sum, low, all
<1> HIDE DEF x
<1> QED
  BY <1>1, <1>3, <1>6, <1>7, <1>8

(* What the hash of the first n characters is, given those of fewer.       *)
Upto(f, t, n) == IF n = 0 THEN 0 ELSE ElfStep(f[n - 1], t[n])
HashedBy(f, t) == f = [n \in 0 .. Len(t) |-> Upto(f, t, n)]

(* cal_hash_str computes a natural number.                                 *)
LEMMA ElfNat ==
  ASSUME NEW t \in Seq(Char)
  PROVE  ElfHash(t) \in Nat
<1> DEFINE Good(n) == \E f \in [0 .. n -> Nat] : \A i \in 0 .. n : f[i] = Upto(f, t, i)
           S == {n \in Nat : n <= Len(t) => Good(n)}
<1>0. Len(t) \in Nat /\ \A i \in 1 .. Len(t) : t[i] \in Nat
  <2>1. \A i \in 1 .. Len(t) : t[i] \in Char
    OBVIOUS
  <2>2. Char \subseteq Nat
    BY DEF Char
  <2>3. Len(t) \in Nat
    OBVIOUS
  <2> QED
    BY <2>1, <2>2, <2>3
<1>1. 0 \in S
  <2> DEFINE g == [i \in 0 .. 0 |-> 0]
  <2>1. g \in [0 .. 0 -> Nat]
    OBVIOUS
  <2>2. \A i \in 0 .. 0 : g[i] = Upto(g, t, i)
    BY DEF Upto
  <2> HIDE DEF g
  <2>3. Good(0)
    BY <2>1, <2>2
  <2> HIDE DEF Good
  <2> QED BY <2>3
<1>2. ASSUME NEW n \in S PROVE n + 1 \in S
  <2> SUFFICES ASSUME n + 1 <= Len(t) PROVE Good(n + 1)
    <3> HIDE DEF Good
    <3> QED OBVIOUS
  <2>1. n \in Nat /\ Good(n)
    <3> HIDE DEF Good
    <3> QED BY <1>0, <1>2
  <2>2. PICK f \in [0 .. n -> Nat] : \A i \in 0 .. n : f[i] = Upto(f, t, i)
    BY <2>1
  <2>3. t[n + 1] \in Nat /\ f[n] \in Nat
    BY <1>0, <2>1
  <2> DEFINE last == ElfStep(f[n], t[n + 1])
             g == [i \in 0 .. n + 1 |-> IF i = n + 1 THEN last ELSE f[i]]
  <2>4. last \in Nat
    BY <2>3, ElfStepNat
  <2> HIDE DEF last
  <2>5. g \in [0 .. n + 1 -> Nat]
    BY <2>1, <2>4
  <2>6. ASSUME NEW i \in 0 .. n + 1 PROVE g[i] = Upto(g, t, i)
    <3>1. CASE i = n + 1
      BY <2>1, <3>1 DEF Upto, last
    <3>2. CASE i \in 0 .. n
      <4>1. g[i] = f[i] /\ (i # 0 => g[i - 1] = f[i - 1])
        BY <2>1, <3>2
      <4> QED BY <3>2, <4>1, <2>2 DEF Upto
    <3> QED BY <2>1, <3>1, <3>2
  <2> HIDE DEF g
  <2> QED BY <2>5, <2>6
<1>3. S = Nat
  <2> HIDE DEF S
  <2>1. S \in SUBSET Nat BY DEF S
  <2> QED BY <1>1, <1>2, <2>1, SetInduction
<1>4. PICK f \in [0 .. Len(t) -> Nat] : \A i \in 0 .. Len(t) : f[i] = Upto(f, t, i)
  <2>1. Good(Len(t))
    <3> HIDE DEF Good
    <3> QED BY <1>0, <1>3
  <2> QED BY <2>1
<1>5. HashedBy(f, t)
  BY <1>4 DEF HashedBy
<1> DEFINE hash == CHOOSE g : HashedBy(g, t)
<1>6. ElfHash(t) = hash[Len(t)]
  BY DEF ElfHash, HashedBy, Upto
<1>7. HashedBy(hash, t)
  BY <1>5
<1> HIDE DEF hash
<1>8. \A n \in 0 .. Len(t) : hash[n] = Upto(hash, t, n)
  BY <1>7 DEF HashedBy
<1> DEFINE R == {n \in Nat : n <= Len(t) => hash[n] \in Nat}
<1>9. 0 \in R
  BY <1>0, <1>8 DEF Upto
<1>10. ASSUME NEW n \in R PROVE n + 1 \in R
  <2> SUFFICES ASSUME n + 1 <= Len(t) PROVE hash[n + 1] \in Nat
    OBVIOUS
  <2>1. hash[n] \in Nat /\ t[n + 1] \in Nat /\ n + 1 # 0 /\ (n + 1) - 1 = n
    BY <1>0, <1>10
  <2>2. hash[n + 1] = ElfStep(hash[n], t[n + 1])
    BY <1>0, <1>8, <2>1 DEF Upto
  <2> QED BY <2>1, <2>2, ElfStepNat
<1>11. R = Nat
  <2> HIDE DEF R
  <2>1. R \in SUBSET Nat BY DEF R
  <2> QED BY <1>9, <1>10, <2>1, SetInduction
<1> QED BY <1>0, <1>6, <1>11

(* The multiplicative hash of a natural number is a bucket.                *)
LEMMA NatHasBucket ==
  ASSUME NEW k \in Nat
  PROVE  CalHash(k) \in Buckets
<1>1. k * Multiplier \in Nat
  BY HashAssumption
<1>2. \A a, d \in Nat : d # 0 => a % d \in 0 .. d - 1
  OBVIOUS
<1>3. (k * Multiplier) % MaxHash \in 0 .. MaxHash - 1
  BY <1>1, <1>2, HashAssumption
<1> QED
  BY <1>1, <1>3 DEF CalHash, TruncRem, Buckets

(* Where mcl_trim finds the first and the last character that stays.       *)
FirstInk(t) == SelectInSeq(Append(t, Nul), LAMBDA c : c \notin Blank)
LastInk(t) == SelectLastInSeq(t, LAMBDA c : c \notin Blank)

LEMMA FirstInkFound ==
  ASSUME NEW t \in Seq(Char)
  PROVE  /\ FirstInk(t) \in 1 .. Len(t) + 1
         /\ FirstInk(t) <= Len(t) => t[FirstInk(t)] \notin Blank
         /\ \A i \in 1 .. Len(t) : t[i] \notin Blank => FirstInk(t) <= i
<1> DEFINE a == Append(t, Nul)
           I == {i \in 1 .. Len(a) : a[i] \notin Blank}
<1>1. /\ Len(t) \in Nat /\ Len(a) = Len(t) + 1 /\ a[Len(t) + 1] = Nul
      /\ \A i \in 1 .. Len(t) : a[i] = t[i]
  OBVIOUS
<1>2. FirstInk(t) = IF I # {} THEN Min(I) ELSE 0
  BY DEF FirstInk, SelectInSeq
<1> HIDE DEF a
<1>3. Nul \notin Blank
  BY DEF Nul, Blank
<1>4. Len(t) + 1 \in I /\ I \in SUBSET Nat
  BY <1>1, <1>3
<1>5. \E m \in I : \A n \in I : m <= n
  BY <1>4, LeastNatural
<1>6. Min(I) \in I /\ \A n \in I : Min(I) <= n
  BY <1>5 DEF Min
<1>7. FirstInk(t) = Min(I)
  BY <1>2, <1>4
<1> QED
  BY <1>1, <1>6, <1>7

LEMMA LastInkFound ==
  ASSUME NEW t \in Seq(Char)
  PROVE  /\ LastInk(t) \in 0 .. Len(t)
         /\ LastInk(t) # 0 => t[LastInk(t)] \notin Blank
         /\ \A i \in 1 .. Len(t) : t[i] \notin Blank => i <= LastInk(t)
<1> DEFINE I == {i \in 1 .. Len(t) : t[i] \notin Blank}
<1>1. LastInk(t) = IF I # {} THEN Max(I) ELSE 0
  BY DEF LastInk, SelectLastInSeq
<1>2. Len(t) \in Nat
  OBVIOUS
<1>3. CASE I = {}
  BY <1>1, <1>2, <1>3
<1>4. CASE I # {}
  <2>1. \E m \in I : \A n \in I : m >= n
    BY <1>2, <1>4, GreatestNatural
  <2>2. Max(I) \in I /\ \A n \in I : Max(I) >= n
    BY <2>1 DEF Max
  <2> QED
    BY <1>1, <1>2, <1>4, <2>2
<1> QED
  BY <1>3, <1>4

LEMMA TrimmedBetween ==
  ASSUME NEW t
  PROVE  Trimmed(t) = SubSeq(t, FirstInk(t), LastInk(t))
BY DEF Trimmed, FirstInk, LastInk

(* A text that neither begins nor ends with a blank.                       *)
Clipped(t) == Len(t) = 0 \/ (t[1] \notin Blank /\ t[Len(t)] \notin Blank)

(* mcl_trim leaves such a text, and changes it no more.                    *)
LEMMA TrimmedIsClipped ==
  ASSUME NEW t \in Seq(Char)
  PROVE  Trimmed(t) \in Seq(Char) /\ Clipped(Trimmed(t))
<1> DEFINE h == FirstInk(t)
           l == LastInk(t)
           r == SubSeq(t, h, l)
<1>1. /\ Len(t) \in Nat
      /\ h \in 1 .. Len(t) + 1 /\ (h <= Len(t) => t[h] \notin Blank)
      /\ l \in 0 .. Len(t) /\ (l # 0 => t[l] \notin Blank)
  BY FirstInkFound, LastInkFound
<1>2. Trimmed(t) = r
  BY TrimmedBetween
<1> HIDE DEF h, l
<1>3. /\ r \in Seq(Char) /\ Len(r) = IF h <= l THEN l - h + 1 ELSE 0
      /\ \A i \in 1 .. l - h + 1 : r[i] = t[h + i - 1]
  BY <1>1
<1>4. CASE h <= l
  <2>1. l - h + 1 \in 1 .. l - h + 1 /\ 1 \in 1 .. l - h + 1
    BY <1>1, <1>4
  <2>2. h + 1 - 1 = h /\ h + (l - h + 1) - 1 = l /\ h <= Len(t) /\ l # 0
    BY <1>1, <1>4
  <2>3. r[1] = t[h] /\ r[l - h + 1] = t[l]
    BY <1>3, <2>1, <2>2
  <2> QED
    BY <1>1, <1>2, <1>3, <1>4, <2>2, <2>3 DEF Clipped
<1>5. CASE ~(h <= l)
  BY <1>2, <1>3, <1>5 DEF Clipped
<1> QED
  BY <1>4, <1>5

LEMMA ClippedIsTrimmed ==
  ASSUME NEW t \in Seq(Char), Clipped(t)
  PROVE  Trimmed(t) = t
<1> DEFINE h == FirstInk(t)
           l == LastInk(t)
           r == SubSeq(t, h, l)
<1>1. /\ Len(t) \in Nat
      /\ h \in 1 .. Len(t) + 1 /\ \A i \in 1 .. Len(t) : t[i] \notin Blank => h <= i
      /\ l \in 0 .. Len(t) /\ \A i \in 1 .. Len(t) : t[i] \notin Blank => i <= l
  BY FirstInkFound, LastInkFound
<1>2. Trimmed(t) = r
  BY TrimmedBetween
<1> HIDE DEF h, l
<1>3. h = 1 /\ l = Len(t)
  <2>1. CASE Len(t) = 0
    BY <1>1, <2>1
  <2>2. CASE Len(t) # 0
    <3>1. 1 \in 1 .. Len(t) /\ Len(t) \in 1 .. Len(t)
      BY <1>1, <2>2
    <3>2. h <= 1 /\ Len(t) <= l
      BY <1>1, <2>2, <3>1 DEF Clipped
    <3> QED
      BY <1>1, <3>2
  <2> QED
    BY <2>1, <2>2
<1>4. r \in Seq(Char) /\ Len(r) = Len(t) /\ \A i \in 1 .. Len(t) : r[i] = t[i]
  BY <1>1, <1>3
<1> HIDE DEF r
<1> QED
  BY <1>2, <1>4, SeqEqual

(* The known texts are closed under trimming, and each has a bucket.       *)
LEMMA KnownTexts ==
  ASSUME NEW t \in Known
  PROVE  t \in Seq(Char) /\ Trimmed(t) \in Known /\ Bucket(t) \in Buckets
<1>1. Text \subseteq Seq(Char)
  <2>1. Char \ {Nul} \subseteq Char
    OBVIOUS
  <2>2. ASSUME NEW u \in Seq(Char \ {Nul}) PROVE u \in Seq(Char)
    <3>1. \A i \in 1 .. Len(u) : u[i] \in Char
      BY ElementOfSeq
    <3> QED
      BY <3>1
  <2> QED
    BY <2>2, StrAssumption
<1>2. t \in Seq(Char)
  BY <1>1, TrimmedIsClipped DEF Known
<1>3. Trimmed(t) \in Known
  <2>1. CASE t \in Text
    BY <2>1 DEF Known
  <2>2. CASE t \notin Text
    <3>1. PICK u \in Text : t = Trimmed(u)
      BY <2>2 DEF Known
    <3>2. Clipped(t)
      BY <1>1, <3>1, TrimmedIsClipped
    <3> QED
      BY <1>2, <3>2, ClippedIsTrimmed
  <2> QED
    BY <2>1, <2>2
<1>4. Bucket(t) \in Buckets
  BY <1>2, ElfNat, NatHasBucket DEF Bucket, Elf
<1> QED
  BY <1>2, <1>3, <1>4

-----------------------------------------------------------------------------
(***************************************************************************)
(* The inductive invariant.  Lookups go by text and removals by key, so    *)
(* the two must agree: a key is the block of one pair, in a table or       *)
(* waiting in a replace, its text is the text of no other, and the pair's  *)
(* string is one the client does not trim.                                 *)
(***************************************************************************)
Entry == [key : Str, val : Val]
Frame == [op : {"remove"}, val : Val] \cup [op : {"replace"}, val : Val, pair : Entry]

Frames == ToSet(frees)
Waiting == {f \in Frames : f.op = "replace"}
Due == {f.pair : f \in Waiting}
TextOf(p) == strs[p.key].text

TextsKnown == \A s \in Str : Live(s) => strs[s].text \in Known

TableSound ==
  /\ NoDuplicate(table) /\ ChainsBounded(table)
  /\ \A h \in Buckets : \A p \in ToSet(table[h]) : Bucket(TextOf(p)) = h

KeysKept == \A p \in Entries(table) \cup Due : Live(p.key) /\ strs[p.key].by = "pair"

TextsDiffer == \A p, q \in Entries(table) \cup Due : TextOf(p) = TextOf(q) => p = q

RefsCounted ==
  \A s \in Str :
    strs[s].ref = mine[s] + IF \E p \in Entries(table) \cup Due : p.key = s THEN 1 ELSE 0

ValuesKept ==
  /\ \A p \in Entries(table) : owner[p.val] = "table"
  /\ \A v \in Val : owner[v] = "table" => \E p \in Entries(table) : p.val = v
  /\ \A p, q \in Entries(table) : p.val = q.val => p = q

FramesKept ==
  /\ \A f \in Frames : owner[f.val] = "freeing"
  /\ \A f \in Waiting : owner[f.pair.val] = "inserting"
  /\ \A f, g \in Waiting : f.pair.val = g.pair.val => f = g

Apart(s) == \A i, j \in DOMAIN s : s[i].val = s[j].val => i = j

IterKept == InChain(table, it)

Inv ==
  /\ TypeOK
  /\ TextsKnown
  /\ TableSound
  /\ KeysKept
  /\ TextsDiffer
  /\ RefsCounted
  /\ ValuesKept
  /\ FramesKept
  /\ Apart(frees)
  /\ IterKept

-----------------------------------------------------------------------------
(***************************************************************************)
(* What the invariant says of single states.                               *)
(***************************************************************************)
Counted == [text : Seq(Char), ref : 1 .. MaxRef, by : {"client", "pair"}]

(* The fields of pairs and of calls in progress.                           *)
LEMMA Fields ==
  /\ \A e \in Entry : e.key \in Str /\ e.val \in Val
  /\ \A f \in Frame : /\ f.val \in Val
                      /\ f.op \in {"remove", "replace"}
                      /\ f.op = "replace" => f.pair \in Entry
BY DEF Entry, Frame

(* A string record is free or counts from 1.                               *)
LEMMA CountedFields ==
  /\ \A r \in Counted : /\ r.text \in Seq(Char) /\ r.ref \in 1 .. MaxRef
                        /\ r.by \in {"client", "pair"}
                        /\ r # Gone
  /\ Gone.ref = 0
BY DEF Counted, Gone

(* The count tells which.                                                  *)
LEMMA RecordCounts ==
  ASSUME NEW r \in {Gone} \cup Counted
  PROVE  /\ r.ref \in Nat /\ r.ref \in 0 .. MaxRef
         /\ (r # Gone) <=> (r.ref # 0)
         /\ r # Gone => r \in Counted
<1>1. MaxRef \in Nat
  BY StrAssumption
<1> QED
  BY <1>1, CountedFields

(* The types of the state's parts, as sets.                                *)
LEMMA StateFacts ==
  ASSUME TypeOK
  PROVE  /\ table \in Tables(Entry) /\ Entries(table) \subseteq Entry
         /\ frees \in Seq(Frame) /\ Frames \subseteq Frame /\ Due \subseteq Entry
         /\ \A s \in Str : strs[s] \in {Gone} \cup Counted /\ mine[s] \in 0 .. MaxRef
         /\ it \in Iters(Entry)
<1>1. table \in Tables(Entry)
  BY DEF TypeOK, Tables, Entry
<1>2. \A h \in Buckets : ToSet(table[h]) \subseteq Entry
  BY <1>1, ToSetPlaces DEF Tables
<1>3. Entries(table) \subseteq Entry
  BY <1>2 DEF Entries
<1>4. frees \in Seq(Frame)
  BY DEF TypeOK, Frame, Entry
<1>5. Frames \subseteq Frame
  BY <1>4, ToSetPlaces DEF Frames
<1>6. Due \subseteq Entry
  BY <1>5, Fields DEF Due, Waiting
<1>7. \A s \in Str : strs[s] \in {Gone} \cup Counted /\ mine[s] \in 0 .. MaxRef
  BY DEF TypeOK, Counted
<1>8. it \in Iters(Entry)
  BY DEF TypeOK, Iters, Entry
<1> QED
  BY <1>1, <1>3, <1>4, <1>5, <1>6, <1>7, <1>8

(* The reference count of a string tells whether it is there.              *)
LEMMA LiveIsCounted ==
  ASSUME TypeOK, NEW s \in Str
  PROVE  /\ Live(s) <=> strs[s] \in Counted
         /\ Live(s) <=> strs[s].ref # 0
         /\ Live(s) <=> strs[s].ref \in 1 .. MaxRef
         /\ strs[s].ref \in 0 .. MaxRef /\ mine[s] \in 0 .. MaxRef
<1>1. strs[s] \in {Gone} \cup Counted /\ mine[s] \in 0 .. MaxRef
  BY StateFacts
<1>2. MaxRef \in Nat
  BY StrAssumption
<1> QED
  BY <1>1, <1>2, CountedFields DEF Live

(* An entry is in some chain.                                              *)
LEMMA InEntries ==
  \A t, p : p \in Entries(t) <=> \E h \in Buckets : p \in ToSet(t[h])
BY DEF Entries

(* A key is the block of one pair only.                                    *)
LEMMA KeysApart ==
  ASSUME Inv, NEW p \in Entries(table) \cup Due, NEW q \in Entries(table) \cup Due, p.key = q.key
  PROVE  p = q
BY DEF Inv, TextsDiffer, TextOf

(* A pair of the table does not wait in a replace.                         *)
LEMMA EntriesNotDue ==
  ASSUME Inv, NEW p \in Entries(table)
  PROVE  p \notin Due
<1>1. \A q \in Due : owner[q.val] = "inserting"
  BY DEF Inv, FramesKept, Due
<1> QED
  BY <1>1 DEF Inv, ValuesKept

(* The string of a key has one reference more than the client holds.       *)
LEMMA KeyCounts ==
  ASSUME Inv, NEW p \in Entries(table) \cup Due
  PROVE  /\ p.key \in Str /\ Live(p.key) /\ TextOf(p) \in Known
         /\ strs[p.key].ref = mine[p.key] + 1
<1>1. p.key \in Str
  BY StateFacts, Fields DEF Inv
<1>2. Live(p.key) /\ TextOf(p) \in Known
  BY <1>1 DEF Inv, KeysKept, TextsKnown, TextOf
<1> QED
  BY <1>1, <1>2 DEF Inv, RefsCounted

(* A string that is no key has the references of the client only.          *)
LEMMA OthersCount ==
  ASSUME Inv, NEW s \in Str, \A p \in Entries(table) \cup Due : p.key # s
  PROVE  strs[s].ref = mine[s]
<1>1. strs[s].ref = mine[s] + 0
  BY DEF Inv, RefsCounted
<1> QED
  BY <1>1, LiveIsCounted DEF Inv

(* The iterator is over or on an entry.                                    *)
LEMMA IterOnEntry ==
  ASSUME Inv, ~Ended(it)
  PROVE  /\ it.cursor \in Buckets /\ it.pair \in ToSet(table[it.cursor])
         /\ it.pair \in Entries(table) /\ it.pair \in Entry
<1>1. it.cursor \in Buckets /\ it.pair \in Entry
  BY StateFacts DEF Inv, Iters, Ended, NoIter
<1>2. it.pair \in ToSet(table[it.cursor])
  BY DEF Inv, IterKept, InChain
<1> QED
  BY <1>1, <1>2, InEntries

(* What client code reaches is there, and hashes to a bucket.              *)
LEMMA Reached ==
  ASSUME Inv, NEW s \in Str, Reaches(s)
  PROVE  /\ Live(s) /\ strs[s].text \in Known
         /\ Bucket(strs[s].text) \in Buckets
<1>1. CASE mine[s] > 0
  <2>1. strs[s].ref # 0
    BY <1>1, LiveIsCounted DEF Inv, RefsCounted
  <2> QED
    BY <2>1, LiveIsCounted, KnownTexts DEF Inv, TextsKnown
<1>2. CASE ~Ended(it) /\ it.pair.key = s
  BY <1>2, IterOnEntry, KeyCounts, KnownTexts DEF TextOf
<1> QED
  BY <1>1, <1>2 DEF Reaches

(* The pairs a lookup can find are the entries with the text.              *)
LEMMA MatchesFound ==
  ASSUME Inv, NEW t \in Known
  PROVE  /\ Bucket(t) \in Buckets
         /\ \A p : p \in Matches(t) <=> p \in Entries(table) /\ TextOf(p) = t
         /\ \A p \in Matches(t) : p \in ToSet(table[Bucket(t)])
<1>1. Bucket(t) \in Buckets
  BY KnownTexts
<1>2. ASSUME NEW p \in Matches(t) PROVE p \in Entries(table) /\ TextOf(p) = t
  BY <1>1, <1>2, InEntries DEF Matches, Chain, TextOf
<1>3. ASSUME NEW p \in Entries(table), TextOf(p) = t PROVE p \in Matches(t)
  <2>1. PICK h \in Buckets : p \in ToSet(table[h])
    BY InEntries
  <2>2. h = Bucket(t)
    BY <1>3, <2>1 DEF Inv, TableSound
  <2> QED
    BY <1>3, <2>1, <2>2 DEF Matches, Chain, TextOf
<1>4. \A p \in Matches(t) : p \in ToSet(table[Bucket(t)])
  BY DEF Matches, Chain
<1> QED
  BY <1>1, <1>2, <1>3, <1>4

-----------------------------------------------------------------------------
(***************************************************************************)
(* What the calls do to chains, strings and calls in progress.             *)
(***************************************************************************)

(* A pair that is taken out of its chain is in no other.                   *)
LEMMA EntryRemoved ==
  ASSUME Inv, NEW h \in Buckets, NEW p \in ToSet(table[h])
  PROVE  /\ Unlinked(h, p) \in Tables(Entry) /\ p \in Entry
         /\ Entries(Unlinked(h, p)) = Entries(table) \ {p}
         /\ ToSet(Unlinked(h, p)[h]) = ToSet(table[h]) \ {p}
         /\ Len(Unlinked(h, p)[h]) < MaxListSize
         /\ \A q \in ToSet(Unlinked(h, p)[h]) : q.key # p.key
         /\ \A g \in Buckets : g # h => Unlinked(h, p)[g] = table[g]
         /\ NoDuplicate(Unlinked(h, p)) /\ ChainsBounded(Unlinked(h, p))
<1> DEFINE u == Unlinked(h, p)
<1>1. table \in Tables(Entry) /\ NoDuplicate(table) /\ ChainsBounded(table)
  BY StateFacts DEF Inv, TableSound
<1>2. u = OutOf(table, h, p)
  BY DEF Unlinked, OutOf
<1> HIDE DEF u
<1>3. /\ u \in Tables(Entry) /\ Len(u[h]) = Len(table[h]) - 1 /\ p \in Entry
      /\ \A g \in Buckets : g # h => u[g] = table[g]
      /\ ToSet(u[h]) = ToSet(table[h]) \ {p}
      /\ \A q \in ToSet(u[h]) : q.key # p.key
      /\ NoDuplicate(u) /\ ChainsBounded(u)
  BY <1>1, <1>2, ChainShrinks
<1>4. \A g \in Buckets : p \in ToSet(table[g]) => g = h
  BY DEF Inv, TableSound
<1>5. \A g \in Buckets : ToSet(u[g]) = ToSet(table[g]) \ {p}
  BY <1>3, <1>4
<1>6. Entries(u) = Entries(table) \ {p}
  BY <1>5 DEF Entries
<1>7. Len(u[h]) < MaxListSize
  <2>1. table[h] \in Seq(Entry) /\ Len(table[h]) \in Nat /\ Len(table[h]) <= MaxListSize
    BY <1>1 DEF Tables, ChainsBounded
  <2> QED
    BY <1>3, <2>1, HashAssumption
<1> QED
  BY <1>3, <1>6, <1>7 DEF u

(* A call that begins is one more frame.                                   *)
LEMMA FramePushed ==
  ASSUME NEW s \in Seq(Frame), Apart(s), NEW f \in Frame, \A g \in ToSet(s) : g.val # f.val
  PROVE  /\ <<f>> \o s \in Seq(Frame) /\ ToSet(<<f>> \o s) = ToSet(s) \cup {f}
         /\ Apart(<<f>> \o s)
<1> DEFINE t == <<f>> \o s
<1>1. /\ t \in Seq(Frame) /\ Len(t) = Len(s) + 1 /\ t[1] = f
      /\ \A j \in 1 .. Len(s) : t[j + 1] = s[j]
  BY ConsPlaces
<1>2. Len(s) \in Nat /\ DOMAIN s = 1 .. Len(s)
  OBVIOUS
<1> HIDE DEF t
<1>3. DOMAIN t = 1 .. Len(s) + 1
  BY <1>1
<1>4. \A x : x \in ToSet(s) <=> \E i \in 1 .. Len(s) : s[i] = x
  BY ToSetPlaces
<1>5. \A x : x \in ToSet(t) <=> \E i \in 1 .. Len(s) + 1 : t[i] = x
  <2>1. \A x : x \in ToSet(t) <=> \E i \in 1 .. Len(t) : t[i] = x
    BY <1>1, ToSetPlaces
  <2> QED
    BY <1>1, <2>1
<1>6. ASSUME NEW i \in 1 .. Len(s) + 1, i # 1
      PROVE  i - 1 \in 1 .. Len(s) /\ t[i] = s[i - 1]
  <2>1. i - 1 \in 1 .. Len(s) /\ (i - 1) + 1 = i
    BY <1>2, <1>6
  <2> QED
    BY <1>1, <2>1
<1>7. \A i \in 1 .. Len(s) : i + 1 \in 1 .. Len(s) + 1
  BY <1>2
<1>8. 1 \in 1 .. Len(s) + 1
  BY <1>2
<1>9. ToSet(t) = ToSet(s) \cup {f}
  <2>1. \A x \in ToSet(s) : x \in ToSet(t)
    BY <1>1, <1>4, <1>5, <1>7
  <2>2. \A x \in ToSet(t) : x = f \/ x \in ToSet(s)
    BY <1>1, <1>4, <1>5, <1>6
  <2> QED
    BY <1>1, <1>5, <1>8, <2>1, <2>2
<1>10. ASSUME NEW i \in 1 .. Len(s) + 1, NEW j \in 1 .. Len(s) + 1, t[i].val = t[j].val
       PROVE  i = j
  <2>1. \A m \in 1 .. Len(s) : s[m].val # f.val
    BY <1>4
  <2>2. CASE i = 1 \/ j = 1
    BY <1>1, <1>6, <1>10, <2>1, <2>2
  <2>3. CASE i # 1 /\ j # 1
    <3>1. i - 1 = j - 1
      BY <1>2, <1>6, <1>10, <2>3 DEF Apart
    <3> QED
      BY <1>2, <3>1
  <2> QED
    BY <2>2, <2>3
<1> QED
  BY <1>1, <1>3, <1>9, <1>10 DEF Apart, t

(* A call that returns is one less.                                        *)
LEMMA FramePopped ==
  ASSUME NEW s \in Seq(Frame), Apart(s), s # <<>>
  PROVE  /\ Tail(s) \in Seq(Frame) /\ ToSet(Tail(s)) = ToSet(s) \ {Head(s)}
         /\ Head(s) \in ToSet(s) /\ Apart(Tail(s))
         /\ \A g \in ToSet(Tail(s)) : g.val # Head(s).val
<1>1. \A i, j \in DOMAIN s : s[i] = s[j] => i = j
  BY DEF Apart
<1>2. ToSet(Tail(s)) = ToSet(s) \ {Head(s)} /\ Head(s) \in ToSet(s)
  BY <1>1, TailSet
<1>3. /\ Tail(s) \in Seq(Frame) /\ Len(Tail(s)) = Len(s) - 1
      /\ Head(s) = s[1] /\ 1 \in 1 .. Len(s)
      /\ \A i \in 1 .. Len(s) - 1 : Tail(s)[i] = s[i + 1]
  BY TailPlaces
<1> DEFINE t == Tail(s)
<1>4. Len(s) \in Nat /\ DOMAIN s = 1 .. Len(s) /\ DOMAIN t = 1 .. Len(s) - 1
  BY <1>3
<1> HIDE DEF t
<1>5. \A i \in 1 .. Len(s) - 1 : i + 1 \in 1 .. Len(s)
  BY <1>4
<1>6. ASSUME NEW i \in 1 .. Len(s) - 1, NEW j \in 1 .. Len(s) - 1, t[i].val = t[j].val
      PROVE  i = j
  <2>1. s[i + 1].val = s[j + 1].val
    BY <1>3, <1>6 DEF t
  <2>2. i + 1 = j + 1
    BY <1>4, <1>5, <2>1 DEF Apart
  <2> QED
    BY <1>4, <2>2
<1>7. \A i, j \in DOMAIN s : s[i].val = s[j].val => i = j
  BY DEF Apart
<1>8. \A g \in ToSet(s) : g.val = Head(s).val => g = Head(s)
  <2>1. \A x : x \in ToSet(s) <=> \E i \in 1 .. Len(s) : s[i] = x
    BY ToSetPlaces
  <2> QED
    BY <1>3, <1>4, <1>7, <2>1
<1> QED
  BY <1>2, <1>3, <1>4, <1>6, <1>8 DEF Apart, t

(* mcl_string_free gives one reference back, or the string to malloc.      *)
LEMMA StringDropped ==
  ASSUME TypeOK, NEW s \in Str, Live(s)
  PROVE  /\ \A u \in Str : Dropped(s)[u] \in {Gone} \cup Counted
         /\ DOMAIN Dropped(s) = Str
         /\ \A u \in Str : u # s => Dropped(s)[u] = strs[u]
         /\ Dropped(s)[s].ref = strs[s].ref - 1
         /\ Dropped(s)[s] # Gone => /\ Dropped(s)[s].text = strs[s].text
                                    /\ Dropped(s)[s].by = strs[s].by
         /\ strs[s].ref > 1 => Dropped(s)[s] \in Counted
<1>1. strs \in [Str -> {Gone} \cup Counted]
  BY DEF TypeOK, Counted
<1>2. strs[s] \in Counted /\ strs[s].ref \in 1 .. MaxRef /\ MaxRef \in Nat
  BY LiveIsCounted, CountedFields, StrAssumption
<1>3. CASE strs[s].ref = 1
  <2>1. Dropped(s) = [strs EXCEPT ![s] = Gone]
    BY <1>3 DEF Dropped
  <2> QED
    BY <1>1, <1>2, <1>3, <2>1, CountedFields
<1>4. CASE strs[s].ref # 1
  <2> DEFINE r == [strs[s] EXCEPT !.ref = @ - 1]
  <2>1. Dropped(s) = [strs EXCEPT ![s] = r]
    BY <1>1, <1>4 DEF Dropped
  <2>2. strs[s].ref - 1 \in 1 .. MaxRef
    BY <1>2, <1>4
  <2>3. /\ r \in Counted /\ r.ref = strs[s].ref - 1
        /\ r.text = strs[s].text /\ r.by = strs[s].by
    BY <1>2, <2>2 DEF Counted
  <2> HIDE DEF r
  <2> QED
    BY <1>1, <1>2, <1>4, <2>1, <2>3
<1> QED
  BY <1>3, <1>4

(* A new string.                                                           *)
LEMMA StringMade ==
  ASSUME NEW t \in Seq(Char), NEW by \in {"client", "pair"}
  PROVE  /\ String(t, by) \in Counted /\ String(t, by).ref = 1
         /\ String(t, by).text = t /\ String(t, by).by = by
<1>1. 1 \in 1 .. MaxRef
  BY StrAssumption
<1> QED
  BY <1>1 DEF String, Counted


-----------------------------------------------------------------------------
(***************************************************************************)
(* The strings alone: what a client does to those it has.                  *)
(***************************************************************************)

(* The count of a string and the client's share of it move together, and   *)
(* the text of a key stays.                                                *)
LEMMA StringsMove ==
  ASSUME Inv, TypeOK', UNCHANGED <<table, owner, it, frees>>, TextsKnown',
         \A s \in Str : strs'[s].ref - mine'[s] = strs[s].ref - mine[s],
         \A p \in Entries(table) \cup Due :
           strs'[p.key].text = strs[p.key].text /\ strs'[p.key].by = strs[p.key].by
  PROVE  Inv'
<1>1. Entries(table)' = Entries(table) /\ Due' = Due /\ Frames' = Frames /\ Waiting' = Waiting
  BY DEF Due, Waiting, Frames
<1>2. \A p \in Entries(table) \cup Due : TextOf(p)' = TextOf(p) /\ p.key \in Str
  BY KeyCounts DEF TextOf
<1>3. RefsCounted'
  <2>1. ASSUME NEW s \in Str
        PROVE  strs'[s].ref = mine'[s] + IF \E p \in Entries(table) \cup Due : p.key = s THEN 1 ELSE 0
    <3>1. strs[s].ref = mine[s] + IF \E p \in Entries(table) \cup Due : p.key = s THEN 1 ELSE 0
      BY DEF Inv, RefsCounted
    <3>2. strs[s].ref \in Nat /\ mine[s] \in Nat /\ strs'[s].ref \in Nat /\ mine'[s] \in Nat
      <4>1. strs[s] \in {Gone} \cup Counted /\ strs'[s] \in {Gone} \cup Counted
        BY DEF Inv, TypeOK, Counted
      <4>2. mine[s] \in 0 .. MaxRef /\ mine'[s] \in 0 .. MaxRef
        BY DEF Inv, TypeOK
      <4> QED
        BY <4>1, <4>2, RecordCounts, StrAssumption
    <3>3. strs'[s].ref - mine'[s] = strs[s].ref - mine[s]
      OBVIOUS
    <3> QED
      BY <3>1, <3>2, <3>3
  <2> QED
    BY <1>1, <2>1 DEF RefsCounted
<1>4. KeysKept'
  <2>1. ASSUME NEW p \in Entries(table) \cup Due PROVE Live(p.key)' /\ strs'[p.key].by = "pair"
    <3>1. /\ p.key \in Str /\ strs'[p.key].by = "pair"
          /\ strs[p.key].ref = mine[p.key] + 1
          /\ strs'[p.key].ref - mine'[p.key] = strs[p.key].ref - mine[p.key]
      BY KeyCounts DEF Inv, KeysKept
    <3>2. strs[p.key] \in {Gone} \cup Counted /\ strs'[p.key] \in {Gone} \cup Counted
      BY <3>1 DEF Inv, TypeOK, Counted
    <3>3. mine[p.key] \in 0 .. MaxRef /\ mine'[p.key] \in 0 .. MaxRef
      BY <3>1 DEF Inv, TypeOK
    <3>4. strs'[p.key].ref # 0
      BY <3>1, <3>2, <3>3, RecordCounts, StrAssumption
    <3> QED
      BY <3>1, <3>4, CountedFields DEF Live
  <2> QED
    BY <1>1, <2>1 DEF KeysKept
<1>5. TableSound'
  <2>1. \A h \in Buckets : \A p \in ToSet(table[h]) : strs'[p.key].text = strs[p.key].text
    BY InEntries
  <2> QED
    BY <2>1 DEF Inv, TableSound, TextOf, NoDuplicate, ChainsBounded
<1>6. TextsDiffer'
  BY <1>1, <1>2 DEF Inv, TextsDiffer
<1>7. ValuesKept' /\ FramesKept' /\ Apart(frees)' /\ IterKept'
  BY <1>1 DEF Inv, ValuesKept, FramesKept, Apart, IterKept, InChain, Ended
<1> QED
  BY <1>3, <1>4, <1>5, <1>6, <1>7 DEF Inv


(* Allocation of a string.                                                 *)
LEMMA AllocKeeps ==
  ASSUME Inv, NEW s \in Str, NEW t \in Text, Alloc(s, t)
  PROVE  Inv'
<1>1. /\ t \in Known /\ t \in Seq(Char)
      /\ strs \in [Str -> {Gone} \cup Counted] /\ mine \in [Str -> 0 .. MaxRef]
      /\ 1 \in 0 .. MaxRef
  BY KnownTexts, StrAssumption DEF Inv, TypeOK, Counted, Known
<1>2. /\ String(t, "client") \in Counted /\ String(t, "client").ref = 1
      /\ String(t, "client").text = t
  BY <1>1, StringMade
<1>3. strs' \in [Str -> {Gone} \cup Counted] /\ mine' \in [Str -> 0 .. MaxRef]
  BY <1>1, <1>2 DEF Alloc
<1>4. UNCHANGED <<table, owner, it, frees>>
  BY DEF Alloc
<1>5. TypeOK'
  BY <1>3, <1>4 DEF Inv, TypeOK, Counted
<1>6. /\ strs'[s] = String(t, "client") /\ mine'[s] = 1
      /\ \A u \in Str : u # s => strs'[u] = strs[u] /\ mine'[u] = mine[u]
  BY <1>1 DEF Alloc
<1>7. strs[s] = Gone
  BY DEF Alloc, Live
<1>8. \A p \in Entries(table) \cup Due : p.key # s /\ p.key \in Str
  BY <1>7, KeyCounts DEF Live
<1>9. strs[s].ref = 0 /\ mine[s] = 0
  BY <1>7, <1>8, CountedFields, OthersCount
<1>10. TextsKnown'
  BY <1>1, <1>2, <1>6 DEF Inv, TextsKnown, Live
<1>11. \A u \in Str : strs'[u].ref - mine'[u] = strs[u].ref - mine[u]
  BY <1>2, <1>6, <1>9
<1> QED
  BY <1>4, <1>5, <1>6, <1>8, <1>10, <1>11, StringsMove

(* A reference more, to a string or to a key the client reaches.           *)
LEMMA RefKeeps ==
  ASSUME Inv, NEW s \in Str, Ref(s)
  PROVE  Inv'
<1> DEFINE r == [strs[s] EXCEPT !.ref = @ + 1]
<1>1. /\ strs \in [Str -> {Gone} \cup Counted] /\ mine \in [Str -> 0 .. MaxRef]
      /\ MaxRef \in Nat /\ strs[s] \in Counted
  BY Reached, LiveIsCounted, StrAssumption DEF Inv, TypeOK, Counted, Ref
<1>2. /\ UNCHANGED <<table, owner, it, frees>> /\ strs[s].ref < MaxRef
      /\ strs' = [strs EXCEPT ![s] = r] /\ mine' = [mine EXCEPT ![s] = @ + 1]
  BY <1>1 DEF Ref
<1>3. strs[s].ref \in 1 .. MaxRef /\ mine[s] \in 0 .. MaxRef /\ mine[s] <= strs[s].ref
  BY <1>1, CountedFields DEF Inv, RefsCounted
<1>4. strs[s].ref + 1 \in 1 .. MaxRef /\ mine[s] + 1 \in 0 .. MaxRef
  BY <1>1, <1>2, <1>3
<1>5. /\ r \in Counted /\ r.ref = strs[s].ref + 1
      /\ r.text = strs[s].text /\ r.by = strs[s].by
  BY <1>1, <1>4 DEF Counted
<1> HIDE DEF r
<1>6. /\ strs'[s] = r /\ mine'[s] = mine[s] + 1
      /\ \A u \in Str : u # s => strs'[u] = strs[u] /\ mine'[u] = mine[u]
  BY <1>1, <1>2
<1>7. strs' \in [Str -> {Gone} \cup Counted] /\ mine' \in [Str -> 0 .. MaxRef]
  BY <1>1, <1>2, <1>4, <1>5
<1>8. TypeOK'
  BY <1>2, <1>7 DEF Inv, TypeOK, Counted
<1>9. TextsKnown'
  BY <1>1, <1>5, <1>6, CountedFields DEF Inv, TextsKnown, Live
<1>10. \A u \in Str : strs'[u].ref - mine'[u] = strs[u].ref - mine[u]
  BY <1>3, <1>5, <1>6
<1>11. \A p \in Entries(table) \cup Due :
         strs'[p.key].text = strs[p.key].text /\ strs'[p.key].by = strs[p.key].by
  BY <1>5, <1>6, KeyCounts
<1> QED
  BY <1>2, <1>8, <1>9, <1>10, <1>11, StringsMove

(* A reference given back; the key of a pair has one more.                 *)
LEMMA FreeKeeps ==
  ASSUME Inv, NEW s \in Str, Free(s)
  PROVE  Inv'
<1>1. /\ strs \in [Str -> {Gone} \cup Counted] /\ mine \in [Str -> 0 .. MaxRef]
      /\ MaxRef \in Nat /\ Live(s) /\ mine[s] > 0
  BY Reached, LiveIsCounted, StrAssumption DEF Inv, TypeOK, Counted, Free, Reaches
<1>2. /\ UNCHANGED <<table, owner, it, frees>>
      /\ strs' = Dropped(s) /\ mine' = [mine EXCEPT ![s] = @ - 1]
  BY DEF Free
<1>3. /\ \A u \in Str : Dropped(s)[u] \in {Gone} \cup Counted
      /\ DOMAIN Dropped(s) = Str
      /\ \A u \in Str : u # s => Dropped(s)[u] = strs[u]
      /\ Dropped(s)[s].ref = strs[s].ref - 1
      /\ Dropped(s)[s] # Gone => /\ Dropped(s)[s].text = strs[s].text
                                 /\ Dropped(s)[s].by = strs[s].by
      /\ strs[s].ref > 1 => Dropped(s)[s] \in Counted
  BY <1>1, StringDropped DEF Inv
<1>4. strs[s].ref \in 1 .. MaxRef /\ mine[s] \in 0 .. MaxRef /\ mine[s] - 1 \in 0 .. MaxRef
  BY <1>1, LiveIsCounted DEF Inv
<1>5. /\ mine'[s] = mine[s] - 1
      /\ \A u \in Str : u # s => strs'[u] = strs[u] /\ mine'[u] = mine[u]
      /\ mine' \in [Str -> 0 .. MaxRef]
  BY <1>1, <1>2, <1>3, <1>4
<1>6. TypeOK'
  <2>1. strs' \in [Str -> {Gone} \cup Counted]
    <3>1. strs' = [u \in Str |-> Dropped(s)[u]]
      BY <1>1, <1>2 DEF Dropped
    <3> QED
      BY <1>3, <3>1
  <2> QED
    BY <1>2, <1>5, <2>1 DEF Inv, TypeOK, Counted
<1>7. TextsKnown'
  BY <1>1, <1>2, <1>3 DEF Inv, TextsKnown, Live
<1>8. \A u \in Str : strs'[u].ref - mine'[u] = strs[u].ref - mine[u]
  BY <1>2, <1>3, <1>4, <1>5
<1>9. ASSUME NEW p \in Entries(table) \cup Due
      PROVE  strs'[p.key].text = strs[p.key].text /\ strs'[p.key].by = strs[p.key].by
  <2>1. CASE p.key = s
    <3>1. strs[s].ref > 1
      BY <1>1, <1>4, <2>1, KeyCounts
    <3> QED
      BY <1>2, <1>3, <2>1, <3>1, CountedFields
  <2>2. CASE p.key # s
    BY <1>5, <2>2, KeyCounts
  <2> QED
    BY <2>1, <2>2
<1> QED
  BY <1>2, <1>6, <1>7, <1>8, <1>9, StringsMove

(* No pair has a key that its client trims.                                *)
LEMMA TrimKeeps ==
  ASSUME Inv, NEW s \in Str, Trim(s)
  PROVE  Inv'
<1> DEFINE r == [strs[s] EXCEPT !.text = Trimmed(@)]
<1>1. /\ strs \in [Str -> {Gone} \cup Counted] /\ mine \in [Str -> 0 .. MaxRef]
      /\ strs[s] \in Counted /\ strs[s].text \in Known /\ strs[s].by = "client"
  BY Reached, LiveIsCounted DEF Inv, TypeOK, Counted, Trim, Reaches
<1>2. /\ UNCHANGED <<table, owner, it, frees, mine>> /\ strs' = [strs EXCEPT ![s] = r]
  BY <1>1 DEF Trim
<1>3. Trimmed(strs[s].text) \in Known /\ Trimmed(strs[s].text) \in Seq(Char)
  BY <1>1, KnownTexts
<1>4. /\ r \in Counted /\ r.ref = strs[s].ref /\ r.text = Trimmed(strs[s].text)
  BY <1>1, <1>3 DEF Counted
<1> HIDE DEF r
<1>5. strs'[s] = r /\ \A u \in Str : u # s => strs'[u] = strs[u]
  BY <1>1, <1>2
<1>6. strs' \in [Str -> {Gone} \cup Counted]
  BY <1>1, <1>2, <1>4
<1>7. TypeOK'
  BY <1>2, <1>6 DEF Inv, TypeOK, Counted
<1>8. TextsKnown'
  BY <1>3, <1>4, <1>5 DEF Inv, TextsKnown, Live
<1>9. \A u \in Str : strs'[u].ref - mine'[u] = strs[u].ref - mine[u]
  BY <1>2, <1>4, <1>5
<1>10. \A p \in Entries(table) \cup Due : p.key \in Str /\ p.key # s
  BY <1>1, KeyCounts DEF Inv, KeysKept
<1> QED
  BY <1>2, <1>5, <1>7, <1>8, <1>9, <1>10, StringsMove


-----------------------------------------------------------------------------
(***************************************************************************)
(* The calls on the table.                                                 *)
(***************************************************************************)

(* How strings change: the keys of other pairs not at all, a key given     *)
(* back counts one less, and a pair gets a copy that no other has.         *)
OthersStay(pairs) == \A s \in Str : (\A p \in pairs : p.key # s) => strs'[s] = strs[s]
Released(pairs) ==
  \A p \in pairs : /\ strs'[p.key].ref = strs[p.key].ref - 1
                   /\ Live(p.key)' => strs'[p.key].text = strs[p.key].text
Copied(pairs, others) ==
  /\ \A p \in pairs : /\ ~Live(p.key) /\ strs'[p.key].ref = 1
                      /\ strs'[p.key].by = "pair" /\ strs'[p.key].text \in Known
                      /\ \A q \in others : strs'[p.key].text # strs[q.key].text
  /\ \A p, q \in pairs : p = q

(* The pairs out lose the table's reference to their key, those in get a   *)
(* new string, all other strings stay as they are.                         *)
LEMMA CallsMove ==
  ASSUME Inv, TypeOK', mine' = mine,
         NEW out \in SUBSET (Entries(table) \cup Due), NEW in \in SUBSET Entry,
         (Entries(table) \cup Due)' = ((Entries(table) \cup Due) \ out) \cup in,
         OthersStay(out \cup in), Released(out), Copied(in, (Entries(table) \cup Due) \ out)
  PROVE  /\ TextsKnown' /\ KeysKept' /\ TextsDiffer' /\ RefsCounted'
         /\ \A p \in (Entries(table) \cup Due) \ out : TextOf(p)' = TextOf(p)
<1> USE DEF OthersStay, Released, Copied
<1> DEFINE old == Entries(table) \cup Due
<1>1. /\ \A p \in old : /\ p.key \in Str /\ Live(p.key) /\ strs[p.key].by = "pair"
                        /\ strs[p.key].text \in Known /\ strs[p.key].ref = mine[p.key] + 1
      /\ \A p, q \in old : p.key = q.key => p = q
      /\ \A p, q \in old : strs[p.key].text = strs[q.key].text => p = q
  BY KeyCounts, KeysApart DEF Inv, KeysKept, TextsDiffer, TextOf
<1>2. \A p \in in : p.key \in Str /\ strs[p.key] = Gone /\ mine[p.key] = 0
  <2>1. ASSUME NEW p \in in PROVE p.key \in Str /\ strs[p.key] = Gone
    BY Fields DEF Live
  <2>2. ASSUME NEW p \in in PROVE mine[p.key] = 0
    <3>1. \A q \in Entries(table) \cup Due : q.key # p.key
      BY <1>1, <2>1 DEF Live
    <3> QED
      BY <2>1, <3>1, CountedFields, OthersCount
  <2> QED
    BY <2>1, <2>2
<1>3. \A p \in old \ out : strs'[p.key] = strs[p.key]
  BY <1>1, <1>2 DEF Live
<1> DEFINE new == (old \ out) \cup in
<1>4. Entries(table)' \cup Due' = new
  OBVIOUS
<1>5. \A s \in Str : /\ strs[s] \in {Gone} \cup Counted /\ strs'[s] \in {Gone} \cup Counted
                     /\ mine[s] \in Nat
  BY StrAssumption DEF Inv, TypeOK, Counted
<1>6. \A s \in Str : (Live(s) <=> strs[s] # Gone) /\ (Live(s)' <=> strs'[s] # Gone)
  BY DEF Live
<1>7. KeysKept'
  <2>1. ASSUME NEW p \in new PROVE Live(p.key)' /\ strs'[p.key].by = "pair"
    <3>1. CASE p \in in
      BY <1>2, <1>6, <3>1, CountedFields
    <3>2. CASE p \in old \ out
      BY <1>1, <1>3, <1>6, <3>2
    <3> QED
      BY <3>1, <3>2
  <2> HIDE DEF new
  <2> QED
    BY <1>4, <2>1 DEF KeysKept
<1>8. TextsDiffer'
  <2>1. ASSUME NEW p \in new, NEW q \in new, strs'[p.key].text = strs'[q.key].text
        PROVE  p = q
    BY <1>1, <1>3, <2>1
  <2> HIDE DEF new
  <2> QED
    BY <1>4, <2>1 DEF TextsDiffer, TextOf
<1>9. TextsKnown'
  <2>1. ASSUME NEW s \in Str, strs'[s] # Gone PROVE strs'[s].text \in Known
    <3>1. CASE \E p \in in : p.key = s
      BY <3>1
    <3>2. CASE \E p \in out : p.key = s
      BY <1>1, <1>6, <2>1, <3>2
    <3>3. CASE \A p \in out \cup in : p.key # s
      BY <1>6, <2>1, <3>3 DEF Inv, TextsKnown
    <3> QED
      BY <3>1, <3>2, <3>3
  <2> QED
    BY <1>6, <2>1 DEF TextsKnown
<1>10. RefsCounted'
  <2>1. ASSUME NEW s \in Str
        PROVE  strs'[s].ref = mine[s] + IF \E p \in new : p.key = s THEN 1 ELSE 0
    <3>1. CASE \E p \in in : p.key = s
      <4>1. PICK p \in in : p.key = s
        BY <3>1
      <4>2. strs'[s].ref = 1 /\ mine[s] = 0
        BY <1>2, <4>1
      <4> QED
        BY <4>1, <4>2
    <3>2. CASE \E p \in out : p.key = s
      <4>1. PICK p \in out : p.key = s
        BY <3>2
      <4>2. strs'[s].ref = strs[s].ref - 1 /\ strs[s].ref = mine[s] + 1
        BY <1>1, <4>1
      <4>3. \A q \in old \ out : q.key # s
        BY <1>1, <4>1
      <4>4. \A q \in in : q.key # s
        BY <1>1, <1>2, <4>1 DEF Live
      <4>5. strs'[s].ref = mine[s]
        BY <1>5, <4>2
      <4>6. ~ \E q \in new : q.key = s
        BY <4>3, <4>4
      <4> HIDE DEF new
      <4> QED
        BY <1>5, <4>5, <4>6
    <3>3. CASE \A p \in out \cup in : p.key # s
      <4>1. (\E p \in new : p.key = s) <=> (\E p \in old : p.key = s)
        BY <3>3
      <4>2. strs[s].ref = mine[s] + IF \E p \in old : p.key = s THEN 1 ELSE 0
        BY DEF Inv, RefsCounted
      <4>3. strs'[s] = strs[s]
        BY <3>3
      <4> HIDE DEF new, old
      <4> QED
        BY <4>1, <4>2, <4>3
    <3> QED
      BY <3>1, <3>2, <3>3
  <2> HIDE DEF new
  <2> QED
    BY <1>4, <2>1 DEF RefsCounted
<1>11. \A p \in old \ out : TextOf(p)' = TextOf(p)
  BY <1>3 DEF TextOf
<1> QED
  BY <1>7, <1>8, <1>9, <1>10, <1>11

(* What waits when a call begins to wait for a free function, and when one *)
(* has returned.                                                           *)
LEMMA WaitingMore ==
  ASSUME NEW f, Frames' = Frames \cup {f}
  PROVE  /\ f.op = "remove" => Waiting' = Waiting /\ Due' = Due
         /\ f.op = "replace" => Waiting' = Waiting \cup {f} /\ Due' = Due \cup {f.pair}
<1>1. Waiting' = {g \in Frames \cup {f} : g.op = "replace"}
  BY DEF Waiting
<1>2. Due' = {g.pair : g \in Waiting'}
  BY DEF Due
<1>3. /\ f.op = "remove" => Waiting' = Waiting
      /\ f.op = "replace" => Waiting' = Waiting \cup {f}
  BY <1>1 DEF Waiting
<1> QED
  BY <1>2, <1>3 DEF Due

(* As above.                                                               *)
LEMMA WaitingLess ==
  ASSUME Inv, NEW f \in Frames, Frames' = Frames \ {f}
  PROVE  /\ f.op = "remove" => Waiting' = Waiting /\ Due' = Due
         /\ f.op = "replace" => /\ Waiting' = Waiting \ {f} /\ Due' = Due \ {f.pair}
                                /\ f \in Waiting /\ f.pair \in Due
<1>1. Waiting' = {g \in Frames \ {f} : g.op = "replace"}
  BY DEF Waiting
<1>2. Due' = {g.pair : g \in Waiting'}
  BY DEF Due
<1>3. /\ f.op = "remove" => Waiting' = Waiting
      /\ f.op = "replace" => Waiting' = Waiting \ {f} /\ f \in Waiting
  BY <1>1 DEF Waiting
<1>4. \A g, h \in Waiting : g.pair = h.pair => g = h
  BY DEF Inv, FramesKept
<1> QED
  BY <1>2, <1>3, <1>4 DEF Due


(* What waits, by frame.                                                   *)
LEMMA DueIsReplacing ==
  ASSUME TypeOK
  PROVE  /\ Due = {frees[i].pair : i \in Replacing}
         /\ \A i \in Replacing : frees[i] \in Waiting
         /\ \A f \in Waiting : \E i \in Replacing : frees[i] = f
<1>1. frees \in Seq(Frame) /\ DOMAIN frees = 1 .. Len(frees)
  BY StateFacts
<1>2. \A x : x \in Frames <=> \E i \in 1 .. Len(frees) : frees[i] = x
  BY <1>1, ToSetPlaces DEF Frames
<1>3. \A i \in Replacing : frees[i] \in Waiting
  BY <1>1, <1>2 DEF Replacing, Waiting
<1>4. \A f \in Waiting : \E i \in Replacing : frees[i] = f
  BY <1>1, <1>2 DEF Replacing, Waiting
<1> QED
  BY <1>3, <1>4 DEF Due

(* u is t with p in chain h.                                               *)
Joined(u, t, h, p) ==
  /\ u \in Tables(Entry) /\ Entries(u) = Entries(t) \cup {p}
  /\ ToSet(u[h]) = ToSet(t[h]) \cup {p}
  /\ \A g \in Buckets : g # h => u[g] = t[g]
  /\ NoDuplicate(u) /\ ChainsBounded(u)

(* A pair joins the head of its chain.                                     *)
LEMMA EntryAdded ==
  ASSUME NEW t \in Tables(Entry), NoDuplicate(t), ChainsBounded(t),
         NEW h \in Buckets, NEW p \in Entry, \A q \in ToSet(t[h]) : q.key # p.key,
         Len(t[h]) < MaxListSize
  PROVE  Joined(Onto(t, h, p), t, h, p)
<1> DEFINE u == Onto(t, h, p)
<1>1. /\ u \in Tables(Entry) /\ Entries(u) = Entries(t) \cup {p}
      /\ ToSet(u[h]) = ToSet(t[h]) \cup {p}
      /\ \A g \in Buckets : g # h => u[g] = t[g]
      /\ NoDuplicate(u) /\ ChainsBounded(u)
  BY ChainGrows
<1> HIDE DEF u
<1>2. Joined(u, t, h, p)
  BY <1>1 DEF Joined
<1> QED
  BY <1>2 DEF u

(* A pair with a copy of a key that is neither in the table nor awaited.   *)
LEMMA InsertKeeps ==
  ASSUME Inv, NEW s \in Str, NEW v \in Val, NEW k \in Str, Insert(s, v, k)
  PROVE  Inv'
<1> DEFINE t == strs[s].text
           h == Bucket(t)
           p == Pair(k, v)
           r == String(t, "pair")
<1>1. /\ Reaches(s) /\ owner[v] = "client" /\ ~Live(k) /\ Matches(t) = {}
      /\ Len(table[h]) < MaxListSize /\ ~Awaited(t)
      /\ table' = Onto(table, h, p) /\ strs' = [strs EXCEPT ![k] = r]
      /\ owner' = [owner EXCEPT ![v] = "table"]
      /\ mine' = mine /\ it' = it /\ frees' = frees
  BY DEF Insert, Linked, Onto, WithKey, Chain
<1>2. t \in Known /\ h \in Buckets /\ t \in Seq(Char)
  BY <1>1, Reached, KnownTexts
<1>3. r \in Counted /\ r.ref = 1 /\ r.text = t /\ r.by = "pair"
  BY <1>2, StringMade
<1>4. p \in Entry /\ p.key = k /\ p.val = v
  BY DEF Pair, Entry
<1>5. \A q \in Entries(table) : TextOf(q) # t
  BY <1>1, <1>2, MatchesFound
<1>6. \A q \in Due : TextOf(q) # t
  BY <1>1, DueIsReplacing DEF Inv, Awaited, TextOf
<1> HIDE DEF t, h, p, r
<1>7. /\ table \in Tables(Entry) /\ NoDuplicate(table) /\ ChainsBounded(table)
      /\ strs \in [Str -> {Gone} \cup Counted]
      /\ owner \in [Val -> {"client", "table", "inserting", "freeing"}]
  BY StateFacts DEF Inv, TableSound, TypeOK, Counted
<1>8. \A q \in Entries(table) \cup Due : q.key # k /\ q \in Entry
  BY <1>1, KeyCounts, StateFacts DEF Inv
<1>9. \A q \in ToSet(table[h]) : q.key # p.key
  BY <1>2, <1>4, <1>8, InEntries
<1>10. /\ table' \in Tables(Entry) /\ Entries(table') = Entries(table) \cup {p}
       /\ ToSet(table'[h]) = ToSet(table[h]) \cup {p}
       /\ \A g \in Buckets : g # h => table'[g] = table[g]
       /\ NoDuplicate(table') /\ ChainsBounded(table')
  <2>1. Len(table[h]) < MaxListSize
    BY <1>1
  <2>2. Joined(Onto(table, h, p), table, h, p)
    BY <1>2, <1>4, <1>7, <1>9, <2>1, EntryAdded
  <2>3. Joined(table', table, h, p)
    BY <1>1, <2>2
  <2> QED
    BY <2>3 DEF Joined
<1>11. Frames' = Frames /\ Waiting' = Waiting /\ Due' = Due
  BY <1>1 DEF Frames, Waiting, Due
<1>12. /\ strs'[k] = r /\ \A u \in Str : u # k => strs'[u] = strs[u]
       /\ strs' \in [Str -> {Gone} \cup Counted]
  BY <1>1, <1>3, <1>7
<1>13. /\ owner'[v] = "table" /\ \A w \in Val : w # v => owner'[w] = owner[w]
       /\ owner' \in [Val -> {"client", "table", "inserting", "freeing"}]
  BY <1>1, <1>7
<1>14. TypeOK'
  BY <1>1, <1>10, <1>12, <1>13 DEF Inv, TypeOK, Tables, Entry, Counted
<1>15. /\ TextsKnown' /\ KeysKept' /\ TextsDiffer' /\ RefsCounted'
       /\ \A q \in Entries(table) \cup Due : TextOf(q)' = TextOf(q)
  <2>1. (Entries(table) \cup Due)' = ((Entries(table) \cup Due) \ {}) \cup {p}
    BY <1>10, <1>11
  <2>2. /\ ~Live(p.key) /\ strs'[p.key].ref = 1 /\ strs'[p.key].by = "pair"
        /\ strs'[p.key].text = t
    BY <1>1, <1>3, <1>4, <1>12
  <2>3. \A q \in Entries(table) \cup Due : t # strs[q.key].text
    BY <1>5, <1>6 DEF TextOf
  <2>4. OthersStay({} \cup {p}) /\ Released({}) /\ {p} \in SUBSET Entry
    BY <1>4, <1>12 DEF OthersStay, Released
  <2>5. Copied({p}, (Entries(table) \cup Due) \ {})
    BY <1>2, <2>2, <2>3 DEF Copied
  <2>6. /\ TextsKnown' /\ KeysKept' /\ TextsDiffer' /\ RefsCounted'
        /\ \A q \in (Entries(table) \cup Due) \ {} : TextOf(q)' = TextOf(q)
    BY <1>1, <1>14, <2>1, <2>4, <2>5, CallsMove
  <2> QED
    BY <2>6
<1>16. TableSound'
  <2>1. ASSUME NEW g \in Buckets, NEW q \in ToSet(table'[g]) PROVE Bucket(TextOf(q)') = g
    <3>1. CASE q \in ToSet(table[g])
      BY <1>15, <3>1, InEntries DEF Inv, TableSound
    <3>2. CASE q \notin ToSet(table[g])
      <4>1. q = p /\ g = h
        BY <1>10, <2>1, <3>2
      <4> QED
        BY <1>3, <1>4, <1>12, <4>1 DEF TextOf, h
    <3> QED
      BY <3>1, <3>2
  <2> QED
    BY <1>10, <2>1 DEF TableSound
<1>17. ValuesKept'
  <2>1. \A q \in Entries(table) : q.val # v /\ q.val \in Val
    BY <1>1, <1>8, Fields DEF Inv, ValuesKept
  <2> QED
    BY <1>4, <1>10, <1>13, <2>1 DEF Inv, ValuesKept
<1>18. FramesKept'
  <2>1. /\ \A f \in Frames : f.val # v /\ f.val \in Val
        /\ \A f \in Waiting : f.pair.val # v /\ f.pair.val \in Val
    <3>1. Frames \subseteq Frame /\ Waiting \subseteq Frames /\ \A f \in Waiting : f.pair \in Entry
      BY StateFacts, Fields DEF Inv, Waiting
    <3> QED
      BY <1>1, <3>1, Fields DEF Inv, FramesKept
  <2> QED
    BY <1>11, <1>13, <2>1 DEF Inv, FramesKept
<1>19. Apart(frees)' /\ IterKept'
  <2>1. IterKept'
    <3>1. ~Ended(it) => it.cursor \in Buckets /\ it.pair \in ToSet(table[it.cursor])
      BY IterOnEntry
    <3> QED
      BY <1>1, <1>10, <3>1 DEF IterKept, InChain
  <2> QED
    BY <1>1, <2>1 DEF Inv, Apart
<1> QED
  BY <1>14, <1>15, <1>16, <1>17, <1>18, <1>19 DEF Inv


(* The values of frames and of waiting pairs.                              *)
LEMMA FrameVals ==
  ASSUME Inv
  PROVE  /\ \A f \in Frames : f.val \in Val /\ f \in Frame
         /\ \A f \in Waiting : f \in Frames /\ f.pair \in Entry /\ f.pair.val \in Val
                               /\ f.pair \in Due
         /\ \A f \in Frames : \A g \in Waiting : f.val # g.pair.val
<1>1. Frames \subseteq Frame /\ Waiting \subseteq Frames
  BY StateFacts DEF Inv, Waiting
<1> QED
  BY <1>1, Fields DEF Inv, FramesKept, Waiting, Due

(* A pair is taken out; its free function, if any, begins.                 *)
LEMMA TakeOutKeeps ==
  ASSUME Inv, NEW h \in Buckets, NEW p \in ToSet(table[h]), NEW freeFn \in BOOLEAN,
         TakeOut(h, p, freeFn), mine' = mine, it' \in Iters(Entry), InChain(table', it')
  PROVE  Inv'
<1> DEFINE f == [op |-> "remove", val |-> p.val]
           w == IF freeFn THEN "freeing" ELSE "client"
<1>1. /\ table' = Unlinked(h, p) /\ strs' = Dropped(p.key)
      /\ owner' = [owner EXCEPT ![p.val] = w]
      /\ frees' = IF freeFn THEN <<f>> \o frees ELSE frees
      /\ w \in {"client", "freeing"} /\ (freeFn => w = "freeing")
  BY DEF TakeOut
<1>2. /\ table' \in Tables(Entry) /\ p \in Entry
      /\ Entries(table') = Entries(table) \ {p}
      /\ ToSet(table'[h]) = ToSet(table[h]) \ {p}
      /\ \A g \in Buckets : g # h => table'[g] = table[g]
      /\ NoDuplicate(table') /\ ChainsBounded(table')
  BY <1>1, EntryRemoved
<1>3. p \in Entries(table) /\ p.key \in Str /\ p.val \in Val /\ Live(p.key) /\ p \notin Due
  BY <1>2, InEntries, KeyCounts, Fields, EntriesNotDue
<1>4. /\ \A u \in Str : strs'[u] \in {Gone} \cup Counted
      /\ DOMAIN strs' = Str
      /\ \A u \in Str : u # p.key => strs'[u] = strs[u]
      /\ strs'[p.key].ref = strs[p.key].ref - 1
      /\ strs'[p.key] # Gone => strs'[p.key].text = strs[p.key].text
  BY <1>1, <1>3, StringDropped DEF Inv
<1>5. owner[p.val] = "table"
  BY <1>3 DEF Inv, ValuesKept
<1>6. f \in Frame /\ f.op = "remove" /\ f.val = p.val
  BY <1>3 DEF Frame
<1>7. frees \in Seq(Frame) /\ Apart(frees) /\ \A g \in ToSet(frees) : g.val # p.val
  BY <1>5, StateFacts DEF Inv, FramesKept, Frames
<1> HIDE DEF f, w
<1>8. /\ frees' \in Seq(Frame) /\ Apart(frees)' /\ Waiting' = Waiting /\ Due' = Due
      /\ \A g \in Frames' : g \in Frames \/ (g = f /\ freeFn)
  <2>1. CASE freeFn
    <3>1. /\ frees' \in Seq(Frame) /\ ToSet(frees') = ToSet(frees) \cup {f} /\ Apart(frees')
      BY <1>1, <1>6, <1>7, <2>1, FramePushed
    <3>2. Frames' = Frames \cup {f}
      BY <3>1 DEF Frames
    <3> QED
      BY <1>6, <2>1, <3>1, <3>2, WaitingMore DEF Apart
  <2>2. CASE ~freeFn
    BY <1>1, <1>7, <2>2 DEF Apart, Frames, Waiting, Due
  <2> QED
    BY <2>1, <2>2
<1>9. /\ owner'[p.val] = w /\ \A x \in Val : x # p.val => owner'[x] = owner[x]
      /\ owner' \in [Val -> {"client", "table", "inserting", "freeing"}]
  BY <1>1, <1>3 DEF Inv, TypeOK
<1>10. TypeOK'
  <2>1. strs' \in [Str -> {Gone} \cup Counted]
    <3>1. strs' = [u \in Str |-> strs'[u]]
      BY <1>1 DEF Dropped, Inv, TypeOK
    <3> QED
      BY <1>4, <3>1
  <2> QED
    BY <1>2, <1>8, <1>9, <2>1 DEF Inv, TypeOK, Tables, Entry, Frame, Counted, Iters
<1>11. /\ TextsKnown' /\ KeysKept' /\ TextsDiffer' /\ RefsCounted'
       /\ \A q \in (Entries(table) \cup Due) \ {p} : TextOf(q)' = TextOf(q)
  <2>1. (Entries(table) \cup Due)' = ((Entries(table) \cup Due) \ {p}) \cup {}
    BY <1>2, <1>3, <1>8
  <2>2. OthersStay({p} \cup {})
    BY <1>4 DEF OthersStay
  <2>3. Released({p}) /\ Copied({}, (Entries(table) \cup Due) \ {p})
    BY <1>4 DEF Released, Copied, Live
  <2>4. {p} \in SUBSET (Entries(table) \cup Due) /\ {} \in SUBSET Entry
    BY <1>3
  <2> QED
    BY <1>10, <2>1, <2>2, <2>3, <2>4, CallsMove
<1>12. TableSound'
  <2>1. ASSUME NEW g \in Buckets, NEW q \in ToSet(table'[g]) PROVE Bucket(TextOf(q)') = g
    <3>1. q \in ToSet(table[g]) /\ q \in Entries(table')
      BY <1>2, InEntries
    <3>2. TextOf(q)' = TextOf(q)
      BY <1>2, <1>11, <3>1
    <3> QED
      BY <3>1, <3>2 DEF Inv, TableSound
  <2> QED
    BY <1>2, <2>1 DEF TableSound
<1>13. ValuesKept'
  <2>1. /\ \A q \in Entries(table') : q.val # p.val /\ q.val \in Val /\ q \in Entries(table)
    BY <1>2, <1>3, StateFacts, Fields DEF Inv, ValuesKept
  <2>2. \A x \in Val : owner'[x] = "table" => \E q \in Entries(table') : q.val = x
    <3>1. ASSUME NEW x \in Val, owner'[x] = "table" PROVE \E q \in Entries(table') : q.val = x
      <4>1. x # p.val
        BY <1>1, <1>9, <3>1
      <4>2. PICK q \in Entries(table) : q.val = x
        BY <1>9, <3>1, <4>1 DEF Inv, ValuesKept
      <4> QED
        BY <1>2, <4>1, <4>2
    <3> QED
      BY <3>1
  <2> QED
    BY <1>9, <2>1, <2>2 DEF Inv, ValuesKept
<1>14. FramesKept'
  <2>1. \A g \in Waiting : g.pair.val # p.val /\ g.pair.val \in Val
    BY <1>5, FrameVals DEF Inv, FramesKept
  <2>2. \A g \in Frames : g.val # p.val /\ g.val \in Val
    BY <1>7, FrameVals DEF Frames
  <2> QED
    BY <1>1, <1>6, <1>8, <1>9, <2>1, <2>2 DEF Inv, FramesKept
<1>15. IterKept'
  BY DEF IterKept
<1> QED
  BY <1>8, <1>10, <1>11, <1>12, <1>13, <1>14, <1>15 DEF Inv

(* mcl_str_hash_delete: any pair but the one under the iterator.           *)
LEMMA DeleteKeeps ==
  ASSUME Inv, NEW s \in Str, NEW freeFn \in BOOLEAN, Delete(s, freeFn)
  PROVE  Inv'
<1> DEFINE t == strs[s].text
           h == Bucket(t)
<1>1. /\ t \in Known /\ h \in Buckets
  BY Reached DEF Delete
<1>2. PICK p \in Matches(t) : MayRemove(p) /\ TakeOut(h, p, freeFn)
  BY DEF Delete
<1>3. p \in ToSet(table[h])
  BY <1>1, <1>2, MatchesFound
<1>4. mine' = mine /\ it' = it
  BY DEF Delete
<1> HIDE DEF h, t
<1>5. table' = Unlinked(h, p)
  BY <1>2 DEF TakeOut
<1>6. /\ ToSet(table'[h]) = ToSet(table[h]) \ {p}
      /\ \A g \in Buckets : g # h => table'[g] = table[g]
  BY <1>1, <1>3, <1>5, EntryRemoved
<1>7. ~Ended(it) => /\ it.cursor \in Buckets /\ it.pair \in ToSet(table[it.cursor])
                    /\ it.pair # p
  BY <1>2, IterOnEntry DEF MayRemove
<1>8. it' \in Iters(Entry) /\ InChain(table', it')
  BY <1>4, <1>6, <1>7, StateFacts DEF Inv, InChain
<1> QED
  BY <1>1, <1>2, <1>3, <1>4, <1>8, TakeOutKeeps

(* mcl_hash_iter_erase: the iterator has moved on when the pair goes.      *)
LEMMA EraseKeeps ==
  ASSUME Inv, NEW freeFn \in BOOLEAN, Erase(freeFn)
  PROVE  Inv'
<1> DEFINE h == it.cursor
           p == it.pair
           j == IterNext(table, it)
<1>1. ~Ended(it) /\ it' = j /\ TakeOut(h, p, freeFn) /\ mine' = mine
  BY DEF Erase
<1>2. h \in Buckets /\ p \in ToSet(table[h])
  BY <1>1, IterOnEntry
<1>3. table \in Tables(Entry) /\ NoDuplicate(table) /\ it \in Iters(Entry) /\ InChain(table, it)
  BY StateFacts DEF Inv, TableSound, IterKept
<1>4. /\ j \in Iters(Entry) /\ InChain(table, j)
      /\ ~Ended(j) => j.cursor # h \/ j.pair.key # p.key
  BY <1>1, <1>3, IterNextInChain
<1> HIDE DEF h, p, j
<1>5. table' = Unlinked(h, p)
  BY <1>1 DEF TakeOut
<1>6. /\ ToSet(table'[h]) = ToSet(table[h]) \ {p}
      /\ \A g \in Buckets : g # h => table'[g] = table[g]
  BY <1>2, <1>5, EntryRemoved
<1>7. ~Ended(j) => j.cursor \in Buckets
  BY <1>4 DEF Iters, Ended, NoIter
<1>8. InChain(table', j)
  BY <1>4, <1>6, <1>7 DEF InChain
<1> QED
  BY <1>1, <1>2, <1>4, <1>8, TakeOutKeeps


(* The strings of a replace: the old key loses its reference, the new one  *)
(* is a copy with the same text.                                           *)
LEMMA KeyReplaced ==
  ASSUME Inv, NEW old \in Entries(table), NEW k \in Str, ~Live(k)
  PROVE  LET new == WithKey(Dropped(old.key), k, TextOf(old))
         IN  /\ new \in [Str -> {Gone} \cup Counted]
             /\ old.key \in Str /\ k # old.key
             /\ new[k].ref = 1 /\ new[k].text = TextOf(old) /\ new[k].by = "pair"
             /\ new[old.key].ref = strs[old.key].ref - 1
             /\ new[old.key] # Gone => new[old.key].text = strs[old.key].text
             /\ \A u \in Str : u # k /\ u # old.key => new[u] = strs[u]
<1> DEFINE d == Dropped(old.key)
           r == String(TextOf(old), "pair")
           new == WithKey(Dropped(old.key), k, TextOf(old))
<1>1. old.key \in Str /\ Live(old.key) /\ TextOf(old) \in Known /\ TextOf(old) \in Seq(Char)
  BY KeyCounts, KnownTexts
<1>2. k # old.key
  BY <1>1
<1>3. r \in Counted /\ r.ref = 1 /\ r.text = TextOf(old) /\ r.by = "pair"
  BY <1>1, StringMade
<1>4. /\ \A u \in Str : d[u] \in {Gone} \cup Counted
      /\ DOMAIN d = Str
      /\ \A u \in Str : u # old.key => d[u] = strs[u]
      /\ d[old.key].ref = strs[old.key].ref - 1
      /\ d[old.key] # Gone => d[old.key].text = strs[old.key].text
  BY <1>1, StringDropped DEF Inv
<1>5. d = [u \in Str |-> d[u]]
  BY DEF Dropped, Inv, TypeOK
<1>6. new = [d EXCEPT ![k] = r]
  BY DEF WithKey
<1> HIDE DEF d, r, new
<1>7. new[k] = r /\ \A u \in Str : u # k => new[u] = d[u]
  BY <1>4, <1>5, <1>6
<1>8. new \in [Str -> {Gone} \cup Counted]
  BY <1>3, <1>4, <1>5, <1>6
<1> QED
  BY <1>1, <1>2, <1>3, <1>4, <1>7, <1>8 DEF new

(* The pairs of a replace, linked already or waiting for the free function.*)
LEMMA PairReplaced ==
  ASSUME Inv, TypeOK', mine' = mine,
         NEW old \in Entries(table), NEW p \in Entry, ~Live(p.key),
         strs' = WithKey(Dropped(old.key), p.key, TextOf(old)),
         (Entries(table) \cup Due)' = ((Entries(table) \cup Due) \ {old}) \cup {p}
  PROVE  /\ TextsKnown' /\ KeysKept' /\ TextsDiffer' /\ RefsCounted'
         /\ \A q \in (Entries(table) \cup Due) \ {old} : TextOf(q)' = TextOf(q)
         /\ TextOf(p)' = TextOf(old)
<1>1. p.key \in Str
  BY Fields
<1>2. /\ old.key \in Str /\ p.key # old.key
      /\ strs'[p.key].ref = 1 /\ strs'[p.key].text = TextOf(old) /\ strs'[p.key].by = "pair"
      /\ strs'[old.key].ref = strs[old.key].ref - 1
      /\ strs'[old.key] # Gone => strs'[old.key].text = strs[old.key].text
      /\ \A u \in Str : u # p.key /\ u # old.key => strs'[u] = strs[u]
  BY <1>1, KeyReplaced
<1>3. OthersStay({old} \cup {p})
  BY <1>2 DEF OthersStay
<1>4. Released({old})
  BY <1>2 DEF Released, Live
<1>5. Copied({p}, (Entries(table) \cup Due) \ {old})
  <2>1. \A q \in (Entries(table) \cup Due) \ {old} : TextOf(q) # TextOf(old)
    BY DEF Inv, TextsDiffer
  <2>2. TextOf(old) \in Known
    BY KeyCounts
  <2> QED
    BY <1>2, <2>1, <2>2 DEF TextOf, Copied
<1>6. {old} \in SUBSET (Entries(table) \cup Due) /\ {p} \in SUBSET Entry
  OBVIOUS
<1>7. /\ TextsKnown' /\ KeysKept' /\ TextsDiffer' /\ RefsCounted'
      /\ \A q \in (Entries(table) \cup Due) \ {old} : TextOf(q)' = TextOf(q)
  BY <1>3, <1>4, <1>5, <1>6, CallsMove
<1> QED
  BY <1>2, <1>7 DEF TextOf

(* What either form of a replace starts from.                              *)
LEMMA ReplaceFacts ==
  ASSUME Inv, NEW s \in Str, Reaches(s), NEW old \in Matches(strs[s].text), MayRemove(old)
  PROVE  /\ old \in Entries(table) /\ TextOf(old) = strs[s].text
         /\ Bucket(TextOf(old)) \in Buckets
         /\ old \in ToSet(table[Bucket(TextOf(old))])
         /\ old.val \in Val /\ owner[old.val] = "table" /\ old \notin Due
         /\ \A f \in Frames : f.val # old.val
         /\ \A f \in Waiting : f.pair.val # old.val
         /\ ~Ended(it) => /\ it.cursor \in Buckets /\ it.pair \in ToSet(table[it.cursor])
                          /\ it.pair # old
<1>1. /\ old \in Entries(table) /\ TextOf(old) = strs[s].text
      /\ Bucket(TextOf(old)) \in Buckets /\ old \in ToSet(table[Bucket(TextOf(old))])
  BY Reached, MatchesFound
<1>2. old.val \in Val /\ owner[old.val] = "table" /\ old \notin Due
  BY <1>1, StateFacts, Fields, EntriesNotDue DEF Inv, ValuesKept
<1>3. /\ \A f \in Frames : f.val # old.val
      /\ \A f \in Waiting : f.pair.val # old.val
  BY <1>2 DEF Inv, FramesKept
<1> QED
  BY <1>1, <1>2, <1>3, IterOnEntry DEF MayRemove

(* mcl_str_hash_insert finds the key and there is no free function.        *)
LEMMA ReplaceInPlaceKeeps ==
  ASSUME Inv, NEW s \in Str, NEW v \in Val, NEW k \in Str, Replace(s, v, k, FALSE)
  PROVE  Inv'
<1> DEFINE t == strs[s].text
           h == Bucket(t)
           p == Pair(k, v)
<1>1. PICK old \in Matches(t) :
         /\ Reaches(s) /\ owner[v] = "client" /\ ~Live(k) /\ MayRemove(old)
         /\ strs' = WithKey(Dropped(old.key), k, t)
         /\ table' = Onto(Unlinked(h, old), h, p)
         /\ owner' = [owner EXCEPT ![old.val] = "client", ![v] = "table"]
         /\ frees' = frees /\ mine' = mine /\ it' = it
  BY DEF Replace, Onto
<1>2. p \in Entry /\ p.key = k /\ p.val = v
  BY DEF Pair, Entry
<1>3. /\ old \in Entries(table) /\ TextOf(old) = t
      /\ h \in Buckets /\ old \in ToSet(table[h])
      /\ old.val \in Val /\ owner[old.val] = "table" /\ old \notin Due
      /\ \A f \in Frames : f.val # old.val
      /\ \A f \in Waiting : f.pair.val # old.val
      /\ ~Ended(it) => /\ it.cursor \in Buckets /\ it.pair \in ToSet(table[it.cursor])
                       /\ it.pair # old
  BY <1>1, ReplaceFacts
<1> HIDE DEF h, t, p
<1> DEFINE u == Unlinked(h, old)
<1>4. /\ u \in Tables(Entry) /\ Entries(u) = Entries(table) \ {old}
      /\ ToSet(u[h]) = ToSet(table[h]) \ {old} /\ Len(u[h]) < MaxListSize
      /\ \A g \in Buckets : g # h => u[g] = table[g]
      /\ NoDuplicate(u) /\ ChainsBounded(u)
  BY <1>3, EntryRemoved
<1>5. table' = Onto(u, h, p)
  BY <1>1
<1> HIDE DEF u
<1>6. \A q \in Entries(table) \cup Due : q.key # k /\ q \in Entry
  BY <1>1, KeyCounts, StateFacts DEF Inv
<1>7. \A q \in ToSet(u[h]) : q.key # p.key
  BY <1>2, <1>3, <1>4, <1>6, InEntries
<1>8. /\ table' \in Tables(Entry) /\ Entries(table') = (Entries(table) \ {old}) \cup {p}
      /\ ToSet(table'[h]) = (ToSet(table[h]) \ {old}) \cup {p}
      /\ \A g \in Buckets : g # h => table'[g] = table[g]
      /\ NoDuplicate(table') /\ ChainsBounded(table')
  <2>1. Joined(Onto(u, h, p), u, h, p)
    BY <1>2, <1>3, <1>4, <1>7, EntryAdded
  <2>2. Joined(table', u, h, p)
    BY <1>5, <2>1
  <2> QED
    BY <1>4, <2>2 DEF Joined
<1>9. Frames' = Frames /\ Waiting' = Waiting /\ Due' = Due
  BY <1>1 DEF Frames, Waiting, Due
<1>10. v # old.val
  BY <1>1, <1>3
<1>11. /\ owner'[v] = "table" /\ owner'[old.val] = "client"
       /\ \A x \in Val : x # v /\ x # old.val => owner'[x] = owner[x]
       /\ owner' \in [Val -> {"client", "table", "inserting", "freeing"}]
  BY <1>1, <1>3, <1>10 DEF Inv, TypeOK
<1>12. strs' \in [Str -> {Gone} \cup Counted]
  BY <1>1, <1>3, KeyReplaced
<1>13. TypeOK'
  BY <1>1, <1>8, <1>11, <1>12 DEF Inv, TypeOK, Tables, Entry, Counted
<1>14. /\ TextsKnown' /\ KeysKept' /\ TextsDiffer' /\ RefsCounted'
       /\ \A q \in (Entries(table) \cup Due) \ {old} : TextOf(q)' = TextOf(q)
       /\ TextOf(p)' = TextOf(old)
  <2>1. (Entries(table) \cup Due)' = ((Entries(table) \cup Due) \ {old}) \cup {p}
    BY <1>3, <1>8, <1>9
  <2> QED
    BY <1>1, <1>2, <1>3, <1>13, <2>1, PairReplaced
<1>15. TableSound'
  <2>1. ASSUME NEW g \in Buckets, NEW q \in ToSet(table'[g]) PROVE Bucket(TextOf(q)') = g
    <3>1. CASE q = p
      <4>1. q \notin ToSet(table[g])
        BY <1>2, <1>6, <3>1, InEntries
      <4>2. g = h
        BY <1>8, <2>1, <4>1
      <4> QED
        BY <1>3, <1>14, <3>1, <4>2 DEF h
    <3>2. CASE q # p
      <4>1. q \in ToSet(table[g]) /\ q # old
        BY <1>3, <1>8, <2>1, <3>2, InEntries
      <4>2. TextOf(q)' = TextOf(q)
        BY <1>14, <4>1, InEntries
      <4> QED
        BY <4>1, <4>2 DEF Inv, TableSound
    <3> QED
      BY <3>1, <3>2
  <2> QED
    BY <1>8, <2>1 DEF TableSound
<1>16. ValuesKept'
  <2>1. \A q \in Entries(table) : q.val # v /\ q.val \in Val /\ (q # old => q.val # old.val)
    BY <1>1, <1>3, <1>6, Fields DEF Inv, ValuesKept
  <2>2. ASSUME NEW x \in Val, owner'[x] = "table" PROVE \E q \in Entries(table') : q.val = x
    <3>1. CASE x = v
      BY <1>2, <1>8, <3>1
    <3>2. CASE x # v
      <4>1. x # old.val /\ owner[x] = "table"
        BY <1>11, <2>2, <3>2
      <4>2. PICK q \in Entries(table) : q.val = x
        BY <4>1 DEF Inv, ValuesKept
      <4> QED
        BY <1>8, <4>1, <4>2
    <3> QED
      BY <3>1, <3>2
  <2>3. \A q \in Entries(table') : owner'[q.val] = "table"
    BY <1>2, <1>8, <1>11, <2>1 DEF Inv, ValuesKept
  <2>4. \A q, o \in Entries(table') : q.val = o.val => q = o
    BY <1>2, <1>8, <2>1 DEF Inv, ValuesKept
  <2> QED
    BY <2>2, <2>3, <2>4 DEF ValuesKept
<1>17. FramesKept'
  <2>1. /\ \A f \in Frames : f.val # v /\ f.val \in Val
        /\ \A f \in Waiting : f.pair.val # v /\ f.pair.val \in Val
    BY <1>1, FrameVals DEF Inv, FramesKept
  <2> QED
    BY <1>3, <1>9, <1>11, <2>1 DEF Inv, FramesKept
<1>18. Apart(frees)' /\ IterKept'
  <2>1. IterKept'
    BY <1>1, <1>3, <1>8 DEF IterKept, InChain
  <2> QED
    BY <1>1, <2>1 DEF Inv, Apart
<1> QED
  BY <1>13, <1>14, <1>15, <1>16, <1>17, <1>18 DEF Inv


(* mcl_str_hash_insert finds the key and waits for the free function of    *)
(* the old value with the new pair out of the table.                       *)
LEMMA ReplaceWaitsKeeps ==
  ASSUME Inv, NEW s \in Str, NEW v \in Val, NEW k \in Str, Replace(s, v, k, TRUE)
  PROVE  Inv'
<1> DEFINE t == strs[s].text
           h == Bucket(t)
           p == Pair(k, v)
<1>1. PICK old \in Matches(t) :
         /\ Reaches(s) /\ owner[v] = "client" /\ ~Live(k) /\ MayRemove(old)
         /\ strs' = WithKey(Dropped(old.key), k, t)
         /\ table' = Unlinked(h, old)
         /\ owner' = [owner EXCEPT ![old.val] = "freeing", ![v] = "inserting"]
         /\ frees' = <<[op |-> "replace", val |-> old.val, pair |-> p]>> \o frees
         /\ mine' = mine /\ it' = it
  BY DEF Replace
<1>2. p \in Entry /\ p.key = k /\ p.val = v
  BY DEF Pair, Entry
<1>3. /\ old \in Entries(table) /\ TextOf(old) = t
      /\ h \in Buckets /\ old \in ToSet(table[h])
      /\ old.val \in Val /\ owner[old.val] = "table" /\ old \notin Due
      /\ \A f \in Frames : f.val # old.val
      /\ \A f \in Waiting : f.pair.val # old.val
      /\ ~Ended(it) => /\ it.cursor \in Buckets /\ it.pair \in ToSet(table[it.cursor])
                       /\ it.pair # old
  BY <1>1, ReplaceFacts
<1> HIDE DEF h, t, p
<1> DEFINE f == [op |-> "replace", val |-> old.val, pair |-> p]
<1>4. /\ table' \in Tables(Entry) /\ Entries(table') = Entries(table) \ {old}
      /\ ToSet(table'[h]) = ToSet(table[h]) \ {old}
      /\ \A g \in Buckets : g # h => table'[g] = table[g]
      /\ NoDuplicate(table') /\ ChainsBounded(table')
  BY <1>1, <1>3, EntryRemoved
<1>5. f \in Frame /\ f.op = "replace" /\ f.val = old.val /\ f.pair = p
  BY <1>2, <1>3 DEF Frame
<1>6. frees \in Seq(Frame) /\ Apart(frees) /\ \A g \in ToSet(frees) : g.val # f.val
  BY <1>3, <1>5, StateFacts DEF Inv, Frames
<1>7. frees' = <<f>> \o frees
  BY <1>1
<1> HIDE DEF f
<1>8. /\ frees' \in Seq(Frame) /\ ToSet(frees') = ToSet(frees) \cup {f} /\ Apart(frees')
  BY <1>5, <1>6, <1>7, FramePushed
<1>9. Frames' = Frames \cup {f} /\ Waiting' = Waiting \cup {f} /\ Due' = Due \cup {p}
  BY <1>5, <1>8, WaitingMore DEF Frames
<1>10. v # old.val
  BY <1>1, <1>3
<1>11. /\ owner'[v] = "inserting" /\ owner'[old.val] = "freeing"
       /\ \A x \in Val : x # v /\ x # old.val => owner'[x] = owner[x]
       /\ owner' \in [Val -> {"client", "table", "inserting", "freeing"}]
  BY <1>1, <1>3, <1>10 DEF Inv, TypeOK
<1>12. strs' \in [Str -> {Gone} \cup Counted]
  BY <1>1, <1>3, KeyReplaced
<1>13. TypeOK'
  BY <1>1, <1>4, <1>8, <1>11, <1>12 DEF Inv, TypeOK, Tables, Entry, Frame, Counted
<1>14. /\ TextsKnown' /\ KeysKept' /\ TextsDiffer' /\ RefsCounted'
       /\ \A q \in (Entries(table) \cup Due) \ {old} : TextOf(q)' = TextOf(q)
  <2>1. (Entries(table) \cup Due)' = ((Entries(table) \cup Due) \ {old}) \cup {p}
    BY <1>3, <1>4, <1>9
  <2> QED
    BY <1>1, <1>2, <1>3, <1>13, <2>1, PairReplaced
<1>15. TableSound'
  <2>1. ASSUME NEW g \in Buckets, NEW q \in ToSet(table'[g]) PROVE Bucket(TextOf(q)') = g
    <3>1. q \in ToSet(table[g]) /\ q \in Entries(table')
      BY <1>4, <2>1, InEntries
    <3>2. q \in (Entries(table) \cup Due) \ {old}
      BY <1>4, <3>1
    <3>3. TextOf(q)' = TextOf(q)
      BY <1>14, <3>2
    <3> QED
      BY <3>1, <3>3 DEF Inv, TableSound
  <2> QED
    BY <1>4, <2>1 DEF TableSound
<1>16. \A q \in Entries(table) : q.val # v /\ q.val \in Val /\ (q # old => q.val # old.val)
  BY <1>1, <1>3, StateFacts, Fields DEF Inv, ValuesKept
<1>17. ValuesKept'
  <2>1. ASSUME NEW x \in Val, owner'[x] = "table" PROVE \E q \in Entries(table') : q.val = x
    <3>1. x # v /\ x # old.val /\ owner[x] = "table"
      BY <1>11, <2>1
    <3>2. PICK q \in Entries(table) : q.val = x
      BY <3>1 DEF Inv, ValuesKept
    <3> QED
      BY <1>4, <3>1, <3>2
  <2>2. \A q \in Entries(table') : owner'[q.val] = "table"
    BY <1>4, <1>11, <1>16 DEF Inv, ValuesKept
  <2>3. \A q, o \in Entries(table') : q.val = o.val => q = o
    BY <1>4 DEF Inv, ValuesKept
  <2> QED
    BY <2>1, <2>2, <2>3 DEF ValuesKept
<1>18. FramesKept'
  <2>1. /\ \A g \in Frames : g.val # v /\ g.val \in Val
        /\ \A g \in Waiting : g.pair.val # v /\ g.pair.val \in Val
    BY <1>1, FrameVals DEF Inv, FramesKept
  <2> QED
    BY <1>2, <1>3, <1>5, <1>9, <1>11, <2>1 DEF Inv, FramesKept
<1>19. Apart(frees)' /\ IterKept'
  <2>1. IterKept'
    BY <1>1, <1>3, <1>4 DEF IterKept, InChain
  <2> QED
    BY <1>8, <2>1 DEF Apart
<1> QED
  BY <1>13, <1>14, <1>15, <1>17, <1>18, <1>19 DEF Inv

(* The free function of a removal returns.                                 *)
LEMMA RemovalReturnsKeeps ==
  ASSUME Inv, FreeReturns, Head(frees).op = "remove"
  PROVE  Inv'
<1> DEFINE f == Head(frees)
<1>1. /\ frees # <<>> /\ frees' = Tail(frees) /\ owner' = [owner EXCEPT ![f.val] = "client"]
      /\ table' = table /\ strs' = strs /\ mine' = mine /\ it' = it /\ f.op = "remove"
  BY DEF FreeReturns
<1> HIDE DEF f
<1>2. /\ frees' \in Seq(Frame) /\ ToSet(frees') = ToSet(frees) \ {f} /\ Apart(frees')
      /\ f \in ToSet(frees) /\ \A g \in ToSet(frees') : g.val # f.val
  BY <1>1, FramePopped, StateFacts DEF Inv, f
<1>3. Frames' = Frames \ {f} /\ f \in Frames
  BY <1>2 DEF Frames
<1>4. Waiting' = Waiting /\ Due' = Due
  BY <1>1, <1>3, WaitingLess
<1>5. f.val \in Val /\ owner[f.val] = "freeing"
  BY <1>3, FrameVals DEF Inv, FramesKept
<1>6. /\ owner'[f.val] = "client" /\ \A x \in Val : x # f.val => owner'[x] = owner[x]
      /\ owner' \in [Val -> {"client", "table", "inserting", "freeing"}]
  BY <1>1, <1>5 DEF Inv, TypeOK
<1>7. TypeOK'
  BY <1>1, <1>2, <1>6 DEF Inv, TypeOK, Frame, Entry
<1>8. TextsKnown' /\ TableSound' /\ KeysKept' /\ TextsDiffer' /\ RefsCounted' /\ IterKept'
  BY <1>1, <1>4 DEF Inv, TextsKnown, TableSound, KeysKept, TextsDiffer, RefsCounted, IterKept,
                    TextOf, Live
<1>9. ValuesKept'
  BY <1>1, <1>5, <1>6, StateFacts, Fields DEF Inv, ValuesKept
<1>10. FramesKept'
  BY <1>2, <1>3, <1>4, <1>5, <1>6, FrameVals DEF Inv, FramesKept, Frames
<1> QED
  BY <1>2, <1>7, <1>8, <1>9, <1>10 DEF Inv, Apart

(* The free function of a replace returns and there is room.               *)
LEMMA ReplaceLinksKeeps ==
  ASSUME Inv, FreeReturns, Head(frees).op = "replace",
         Len(table[Bucket(strs[Head(frees).pair.key].text)]) < MaxListSize
  PROVE  Inv'
<1> DEFINE f == Head(frees)
           p == f.pair
           h == Bucket(TextOf(p))
<1>0. /\ frees \in Seq(Frame) /\ frees # <<>> /\ Apart(frees)
      /\ table[h] \in Seq(Entry) \/ h \notin Buckets
  BY StateFacts DEF Inv, FreeReturns, Tables
<1>1. f \in Frames /\ f.op = "replace"
  BY <1>0, FramePopped DEF Frames
<1>2. f \in Waiting /\ p \in Due /\ p \in Entry /\ f.val \in Val /\ p.val \in Val
  BY <1>1, FrameVals DEF Waiting
<1>3. h \in Buckets /\ p.key \in Str /\ Live(p.key) /\ TextOf(p) \in Known
  BY <1>2, KeyCounts, KnownTexts
<1>4. Len(table[h]) \in Nat /\ MaxListSize \in Nat /\ Len(table[h]) < MaxListSize
  BY <1>0, <1>3, HashAssumption DEF TextOf
<1>5. /\ frees' = Tail(frees) /\ table' = Onto(table, h, p)
      /\ owner' = [owner EXCEPT ![f.val] = "client", ![p.val] = "table"]
      /\ strs' = strs /\ mine' = mine /\ it' = it
  <2>1. f.op # "remove" /\ ~(Len(table[h]) >= MaxListSize)
    BY <1>1, <1>4
  <2> QED
    BY <2>1 DEF FreeReturns, Linked, Onto, TextOf
<1>6. /\ frees' \in Seq(Frame) /\ ToSet(frees') = ToSet(frees) \ {f} /\ Apart(frees')
      /\ \A g \in ToSet(frees') : g.val # f.val
  BY <1>0, <1>5, FramePopped
<1> HIDE DEF f, p, h
<1>7. Frames' = Frames \ {f} /\ \A g \in Frames' : g.val # f.val
  BY <1>6 DEF Frames
<1>8. Waiting' = Waiting \ {f} /\ Due' = Due \ {p} /\ \A g \in Waiting' : g.pair.val # p.val
  <2>1. Waiting' = Waiting \ {f} /\ Due' = Due \ {p}
    BY <1>1, <1>7, WaitingLess DEF p
  <2>2. \A g \in Waiting : g.pair.val = p.val => g = f
    BY <1>2 DEF Inv, FramesKept, p
  <2> QED
    BY <2>1, <2>2
<1>9. owner[f.val] = "freeing" /\ owner[p.val] = "inserting"
  BY <1>1, <1>2 DEF Inv, FramesKept, p
<1>10. p \notin Entries(table) /\ \A q \in Entries(table) : q.key # p.key
  BY <1>2, EntriesNotDue, KeysApart
<1>11. \A q \in ToSet(table[h]) : q.key # p.key
  BY <1>3, <1>10, InEntries
<1>12. table \in Tables(Entry) /\ NoDuplicate(table) /\ ChainsBounded(table)
  BY StateFacts DEF Inv, TableSound
<1>13. /\ table' \in Tables(Entry) /\ Entries(table') = Entries(table) \cup {p}
       /\ ToSet(table'[h]) = ToSet(table[h]) \cup {p}
       /\ \A g \in Buckets : g # h => table'[g] = table[g]
       /\ NoDuplicate(table') /\ ChainsBounded(table')
  <2>1. Joined(Onto(table, h, p), table, h, p)
    BY <1>2, <1>3, <1>4, <1>11, <1>12, EntryAdded
  <2>2. Joined(table', table, h, p)
    BY <1>5, <2>1
  <2> QED
    BY <2>2 DEF Joined
<1>14. /\ owner'[p.val] = "table" /\ owner'[f.val] = "client"
       /\ \A x \in Val : x # f.val /\ x # p.val => owner'[x] = owner[x]
       /\ owner' \in [Val -> {"client", "table", "inserting", "freeing"}]
  BY <1>2, <1>5, <1>9 DEF Inv, TypeOK
<1>15. TypeOK'
  BY <1>5, <1>6, <1>13, <1>14 DEF Inv, TypeOK, Tables, Entry, Frame
<1>16. Entries(table') \cup Due' = Entries(table) \cup Due
  BY <1>2, <1>8, <1>13
<1>17. TextsKnown' /\ KeysKept' /\ TextsDiffer' /\ RefsCounted'
  BY <1>5, <1>16 DEF Inv, TextsKnown, KeysKept, TextsDiffer, RefsCounted, TextOf, Live
<1>18. TableSound'
  <2>1. ASSUME NEW g \in Buckets, NEW q \in ToSet(table'[g]) PROVE Bucket(TextOf(q)) = g
    <3>1. CASE q = p
      <4>1. g = h
        BY <1>10, <1>13, <2>1, <3>1, InEntries
      <4> QED
        BY <3>1, <4>1 DEF h
    <3>2. CASE q # p
      <4>1. q \in ToSet(table[g])
        BY <1>13, <2>1, <3>2
      <4> QED
        BY <4>1 DEF Inv, TableSound
    <3> QED
      BY <3>1, <3>2
  <2> QED
    BY <1>5, <1>13, <2>1 DEF TableSound, TextOf
<1>19. ValuesKept'
  <2>1. \A q \in Entries(table) : q.val # f.val /\ q.val # p.val /\ q.val \in Val
    BY <1>9, StateFacts, Fields DEF Inv, ValuesKept
  <2>2. ASSUME NEW x \in Val, owner'[x] = "table" PROVE \E q \in Entries(table') : q.val = x
    <3>1. CASE x = p.val
      BY <1>13, <3>1
    <3>2. CASE x # p.val
      <4>1. owner[x] = "table"
        BY <1>14, <2>2, <3>2
      <4> QED
        BY <1>13, <4>1 DEF Inv, ValuesKept
    <3> QED
      BY <3>1, <3>2
  <2>3. \A q \in Entries(table') : owner'[q.val] = "table"
    BY <1>13, <1>14, <2>1 DEF Inv, ValuesKept
  <2>4. \A q, o \in Entries(table') : q.val = o.val => q = o
    BY <1>13, <2>1 DEF Inv, ValuesKept
  <2> QED
    BY <2>2, <2>3, <2>4 DEF ValuesKept
<1>20. FramesKept'
  <2>1. /\ \A g \in Frames : g.val \in Val /\ g.val # p.val
        /\ \A g \in Waiting : g.pair.val \in Val /\ g.pair.val # f.val
    BY <1>9, FrameVals DEF Inv, FramesKept
  <2> QED
    BY <1>7, <1>8, <1>14, <2>1 DEF Inv, FramesKept
<1>21. IterKept'
  <2>1. ~Ended(it) => it.cursor \in Buckets /\ it.pair \in ToSet(table[it.cursor])
    BY IterOnEntry
  <2> QED
    BY <1>5, <1>13, <2>1 DEF IterKept, InChain
<1> QED
  BY <1>6, <1>15, <1>17, <1>18, <1>19, <1>20, <1>21 DEF Inv, Apart


(* The free function of a replace returns and the chain is full: the pair  *)
(* is destroyed with its key.                                              *)
LEMMA ReplaceRefusedKeeps ==
  ASSUME Inv, FreeReturns, Head(frees).op = "replace",
         Len(table[Bucket(strs[Head(frees).pair.key].text)]) >= MaxListSize
  PROVE  Inv'
<1> DEFINE f == Head(frees)
           p == f.pair
           h == Bucket(TextOf(p))
<1>0. /\ frees \in Seq(Frame) /\ frees # <<>> /\ Apart(frees)
      /\ table[h] \in Seq(Entry) \/ h \notin Buckets
  BY StateFacts DEF Inv, FreeReturns, Tables
<1>1. f \in Frames /\ f.op = "replace"
  BY <1>0, FramePopped DEF Frames
<1>2. f \in Waiting /\ p \in Due /\ p \in Entry /\ f.val \in Val /\ p.val \in Val
  BY <1>1, FrameVals DEF Waiting
<1>3. h \in Buckets /\ p.key \in Str /\ Live(p.key) /\ TextOf(p) \in Known
  BY <1>2, KeyCounts, KnownTexts
<1>4. Len(table[h]) \in Nat /\ MaxListSize \in Nat /\ Len(table[h]) >= MaxListSize
  BY <1>0, <1>3, HashAssumption DEF TextOf
<1>5. /\ frees' = Tail(frees) /\ table' = table /\ strs' = Dropped(p.key)
      /\ owner' = [owner EXCEPT ![f.val] = "client", ![p.val] = "client"]
      /\ mine' = mine /\ it' = it
  BY <1>1, <1>4 DEF FreeReturns, TextOf
<1>6. /\ frees' \in Seq(Frame) /\ ToSet(frees') = ToSet(frees) \ {f} /\ Apart(frees')
      /\ \A g \in ToSet(frees') : g.val # f.val
  BY <1>0, <1>5, FramePopped
<1> HIDE DEF f, p, h
<1>7. Frames' = Frames \ {f} /\ \A g \in Frames' : g.val # f.val
  BY <1>6 DEF Frames
<1>8. Waiting' = Waiting \ {f} /\ Due' = Due \ {p} /\ \A g \in Waiting' : g.pair.val # p.val
  <2>1. Waiting' = Waiting \ {f} /\ Due' = Due \ {p}
    BY <1>1, <1>7, WaitingLess DEF p
  <2>2. \A g \in Waiting : g.pair.val = p.val => g = f
    BY <1>2 DEF Inv, FramesKept, p
  <2> QED
    BY <2>1, <2>2
<1>9. owner[f.val] = "freeing" /\ owner[p.val] = "inserting"
  BY <1>1, <1>2 DEF Inv, FramesKept, p
<1>10. p \notin Entries(table)
  BY <1>2, EntriesNotDue
<1>11. /\ \A u \in Str : strs'[u] \in {Gone} \cup Counted
       /\ DOMAIN strs' = Str
       /\ \A u \in Str : u # p.key => strs'[u] = strs[u]
       /\ strs'[p.key].ref = strs[p.key].ref - 1
       /\ strs'[p.key] # Gone => strs'[p.key].text = strs[p.key].text
  BY <1>3, <1>5, StringDropped DEF Inv
<1>12. /\ owner'[p.val] = "client" /\ owner'[f.val] = "client"
       /\ \A x \in Val : x # f.val /\ x # p.val => owner'[x] = owner[x]
       /\ owner' \in [Val -> {"client", "table", "inserting", "freeing"}]
  BY <1>2, <1>5, <1>9 DEF Inv, TypeOK
<1>13. TypeOK'
  <2>1. strs' \in [Str -> {Gone} \cup Counted]
    <3>1. strs' = [u \in Str |-> strs'[u]]
      BY <1>5 DEF Dropped, Inv, TypeOK
    <3> QED
      BY <1>11, <3>1
  <2> QED
    BY <1>5, <1>6, <1>12, <2>1 DEF Inv, TypeOK, Entry, Frame, Counted
<1>14. /\ TextsKnown' /\ KeysKept' /\ TextsDiffer' /\ RefsCounted'
       /\ \A q \in (Entries(table) \cup Due) \ {p} : TextOf(q)' = TextOf(q)
  <2>1. (Entries(table) \cup Due)' = ((Entries(table) \cup Due) \ {p}) \cup {}
    BY <1>5, <1>8, <1>10
  <2>2. OthersStay({p} \cup {})
    BY <1>11 DEF OthersStay
  <2>3. Released({p}) /\ Copied({}, (Entries(table) \cup Due) \ {p})
    BY <1>11 DEF Released, Copied, Live
  <2>4. {p} \in SUBSET (Entries(table) \cup Due) /\ {} \in SUBSET Entry
    BY <1>2
  <2> QED
    BY <1>5, <1>13, <2>1, <2>2, <2>3, <2>4, CallsMove
<1>15. TableSound'
  <2>1. \A g \in Buckets : \A q \in ToSet(table[g]) : TextOf(q)' = TextOf(q)
    BY <1>10, <1>14, InEntries
  <2> QED
    BY <1>5, <2>1 DEF Inv, TableSound
<1>16. ValuesKept'
  BY <1>5, <1>9, <1>12, StateFacts, Fields DEF Inv, ValuesKept
<1>17. FramesKept'
  <2>1. /\ \A g \in Frames : g.val \in Val /\ g.val # p.val
        /\ \A g \in Waiting : g.pair.val \in Val /\ g.pair.val # f.val
    BY <1>9, FrameVals DEF Inv, FramesKept
  <2> QED
    BY <1>7, <1>8, <1>12, <2>1 DEF Inv, FramesKept
<1>18. IterKept'
  BY <1>5 DEF Inv, IterKept
<1> QED
  BY <1>6, <1>13, <1>14, <1>15, <1>16, <1>17, <1>18 DEF Inv, Apart

(* mcl_hash_clean: every key of the table loses its reference.             *)
LEMMA CleanKeeps ==
  ASSUME Inv, Clean
  PROVE  Inv'
<1>1. /\ Ended(it) /\ Replacing = {} /\ table' = EmptyTable /\ strs' = KeysDropped
      /\ owner' = [v \in Val |-> IF owner[v] = "table" THEN "client" ELSE owner[v]]
      /\ mine' = mine /\ it' = it /\ frees' = frees
  BY DEF Clean
<1>2. Waiting = {} /\ Due = {} /\ Frames' = Frames /\ Waiting' = Waiting /\ Due' = Due
  BY <1>1, DueIsReplacing DEF Inv, Frames, Waiting, Due
<1>3. /\ \A h \in Buckets : table'[h] = <<>>
      /\ Entries(table') = {}
      /\ NoDuplicate(table') /\ ChainsBounded(table')
  <2>1. \A h \in Buckets : table'[h] = <<>> /\ ToSet(table'[h]) = {}
    BY <1>1 DEF EmptyTable, ToSet
  <2> QED
    BY <1>1, <2>1, HashAssumption DEF EmptyTable, Entries, NoDuplicate, ChainsBounded
<1>4. \A p \in Entries(table) : p.key \in Str /\ Live(p.key) /\ p.key \in Keys(table)
  BY KeyCounts DEF Keys
<1>5. ASSUME NEW s \in Str
      PROVE  /\ s \in Keys(table) => /\ Live(s) /\ strs'[s] \in {Gone} \cup Counted
                                     /\ strs'[s].ref = strs[s].ref - 1
                                     /\ strs'[s] # Gone => strs'[s].text = strs[s].text
             /\ s \notin Keys(table) => strs'[s] = strs[s]
  <2>1. CASE s \in Keys(table)
    <3>1. Live(s)
      BY <1>4, <2>1 DEF Keys
    <3>2. strs'[s] = Dropped(s)[s]
      BY <1>1, <2>1 DEF KeysDropped
    <3>3. /\ Dropped(s)[s] \in {Gone} \cup Counted /\ Dropped(s)[s].ref = strs[s].ref - 1
          /\ Dropped(s)[s] # Gone => Dropped(s)[s].text = strs[s].text
      BY <3>1, StringDropped DEF Inv
    <3>4. PICK x : x = strs'[s]
      OBVIOUS
    <3>5. /\ x \in {Gone} \cup Counted /\ x.ref = strs[s].ref - 1
          /\ x # Gone => x.text = strs[s].text
      BY <3>2, <3>3, <3>4
    <3> QED
      BY <2>1, <3>1, <3>4, <3>5
  <2>2. CASE s \notin Keys(table)
    BY <1>1, <2>2 DEF KeysDropped
  <2> QED
    BY <2>1, <2>2
<1>6. TypeOK'
  <2>1. strs' \in [Str -> {Gone} \cup Counted]
    <3>1. strs' = [s \in Str |-> strs'[s]]
      BY <1>1 DEF KeysDropped
    <3>2. \A s \in Str : strs'[s] \in {Gone} \cup Counted
      BY <1>5 DEF Inv, TypeOK, Counted
    <3> QED
      BY <3>1, <3>2
  <2>2. owner' \in [Val -> {"client", "table", "inserting", "freeing"}]
    BY <1>1 DEF Inv, TypeOK
  <2>3. table' \in [Buckets -> Seq(Entry)]
    <3>1. EmptyTable \in Tables(Entry)
      BY EmptyTableIsEmpty
    <3> QED
      BY <1>1, <3>1 DEF Tables
  <2> QED
    BY <1>1, <2>1, <2>2, <2>3 DEF Inv, TypeOK, Entry, Counted
<1>7. TextsKnown' /\ KeysKept' /\ TextsDiffer' /\ RefsCounted'
  <2>1. (Entries(table) \cup Due)' = ((Entries(table) \cup Due) \ Entries(table)) \cup {}
    BY <1>2, <1>3
  <2>2. OthersStay(Entries(table) \cup {})
    BY <1>5 DEF Keys, OthersStay
  <2>3. Released(Entries(table)) /\ Copied({}, (Entries(table) \cup Due) \ Entries(table))
    BY <1>4, <1>5 DEF Live, Released, Copied
  <2>4. Entries(table) \in SUBSET (Entries(table) \cup Due) /\ {} \in SUBSET Entry
    OBVIOUS
  <2> QED
    BY <1>1, <1>6, <2>1, <2>2, <2>3, <2>4, CallsMove
<1>8. TableSound'
  <2>1. \A g \in Buckets : ToSet(table'[g]) = {}
    BY <1>3 DEF ToSet
  <2> QED
    BY <1>3, <2>1 DEF TableSound
<1>9. ValuesKept'
  BY <1>1, <1>3 DEF ValuesKept
<1>10. FramesKept'
  BY <1>1, <1>2, FrameVals DEF Inv, FramesKept
<1>11. IterKept' /\ Apart(frees)'
  BY <1>1 DEF Inv, IterKept, InChain, Apart
<1> QED
  BY <1>6, <1>7, <1>8, <1>9, <1>10, <1>11 DEF Inv

(* The iterator alone.                                                     *)
LEMMA IterMoves ==
  ASSUME Inv, UNCHANGED <<table, heap, owner, frees>>, it' \in Iters(Entry), InChain(table, it')
  PROVE  Inv'
<1>1. TypeOK'
  BY DEF Inv, TypeOK, heap, Iters, Entry
<1>2. TextsKnown' /\ TableSound' /\ KeysKept' /\ TextsDiffer' /\ RefsCounted'
  BY DEF Inv, TextsKnown, TableSound, KeysKept, TextsDiffer, RefsCounted, TextOf, Live, Due,
         Waiting, Frames, heap
<1>3. ValuesKept' /\ FramesKept' /\ Apart(frees)' /\ IterKept'
  BY DEF Inv, ValuesKept, FramesKept, Apart, IterKept, Waiting, Frames
<1> QED
  BY <1>1, <1>2, <1>3 DEF Inv

(* mcl_hash_iter_init and mcl_hash_iter_next.                              *)
LEMMA TraversalKeeps ==
  ASSUME Inv, First \/ Move
  PROVE  Inv'
<1>1. table \in Tables(Entry) /\ NoDuplicate(table) /\ it \in Iters(Entry) /\ InChain(table, it)
  BY StateFacts DEF Inv, TableSound, IterKept
<1>2. CASE First
  <2>1. it' = FirstFrom(table, 0) /\ 0 \in Nat
    BY <1>2 DEF First, IterHead
  <2>2. it' \in Iters(Entry) /\ InChain(table, it')
    BY <1>1, <2>1, FirstFromInChain
  <2> QED
    BY <1>2, <2>2, IterMoves DEF First
<1>3. CASE Move
  <2>1. it' \in Iters(Entry) /\ InChain(table, it')
    BY <1>1, <1>3, IterNextInChain DEF Move
  <2> QED
    BY <1>3, <2>1, IterMoves DEF Move
<1> QED
  BY <1>2, <1>3

-----------------------------------------------------------------------------
(* A new table holds nothing and the client has no string.                 *)
LEMMA InitInv == Init => Inv
<1> SUFFICES ASSUME Init PROVE Inv
  OBVIOUS
<1>1. /\ Entries(table) = {}
      /\ NoDuplicate(table) /\ ChainsBounded(table)
      /\ \A h \in Buckets : ToSet(table[h]) = {}
  <2>1. \A h \in Buckets : table[h] = <<>> /\ ToSet(table[h]) = {}
    BY DEF Init, EmptyTable, ToSet
  <2> QED
    BY <2>1, HashAssumption DEF Init, EmptyTable, Entries, NoDuplicate, ChainsBounded
<1>2. frees = <<>> /\ Frames = {} /\ Waiting = {} /\ Due = {}
  <2>1. frees = <<>> /\ Frames = {}
    BY DEF Init, Frames, ToSet
  <2> QED
    BY <2>1 DEF Waiting, Due
<1>3. TypeOK
  <2>1. table \in Tables(Entry)
    BY EmptyTableIsEmpty DEF Init
  <2>2. strs \in [Str -> {Gone} \cup Counted] /\ mine \in [Str -> 0 .. MaxRef]
    BY StrAssumption DEF Init
  <2>3. owner \in [Val -> {"client", "table", "inserting", "freeing"}] /\ it = NoIter
    BY DEF Init
  <2>4. frees \in Seq(Frame)
    BY <1>2
  <2> QED
    BY <2>1, <2>2, <2>3, <2>4 DEF TypeOK, Tables, Entry, Frame, Counted
<1>4. \A s \in Str : strs[s] = Gone /\ mine[s] = 0
  BY DEF Init
<1>5. TextsKnown /\ TableSound /\ KeysKept /\ TextsDiffer
  BY <1>1, <1>2, <1>4 DEF TextsKnown, TableSound, KeysKept, TextsDiffer, Live
<1>6. RefsCounted
  BY <1>1, <1>2, <1>4, CountedFields DEF RefsCounted
<1>7. ValuesKept /\ FramesKept
  BY <1>1, <1>2 DEF ValuesKept, FramesKept, Init
<1>8. Apart(frees) /\ IterKept
  BY <1>2 DEF Apart, IterKept, InChain, Init, Ended, NoIter
<1> QED
  BY <1>3, <1>5, <1>6, <1>7, <1>8 DEF Inv

(* Every step keeps it.                                                    *)
LEMMA NextInv == Inv /\ [Next]_vars => Inv'
<1> SUFFICES ASSUME Inv, [Next]_vars PROVE Inv'
  OBVIOUS
<1>1. CASE Strings
  BY <1>1, AllocKeeps, RefKeeps, FreeKeeps, TrimKeeps DEF Strings
<1>2. ASSUME NEW s \in Str, NEW k \in Str, NEW v \in Val, Insert(s, v, k) PROVE Inv'
  BY <1>2, InsertKeeps
<1>3. ASSUME NEW s \in Str, NEW k \in Str, NEW v \in Val, NEW f \in BOOLEAN, Replace(s, v, k, f)
      PROVE  Inv'
  BY <1>3, ReplaceInPlaceKeeps, ReplaceWaitsKeeps
<1>4. ASSUME NEW s \in Str, NEW f \in BOOLEAN, Delete(s, f) PROVE Inv'
  BY <1>4, DeleteKeeps
<1>5. CASE Clean
  BY <1>5, CleanKeeps
<1>6. CASE First \/ Move
  BY <1>6, TraversalKeeps
<1>7. ASSUME NEW f \in BOOLEAN, Erase(f) PROVE Inv'
  BY <1>7, EraseKeeps
<1>8. CASE FreeReturns
  <2>1. \/ Head(frees).op = "remove"
        \/ Head(frees).op = "replace" /\ Len(table[Bucket(strs[Head(frees).pair.key].text)]) < MaxListSize
        \/ Head(frees).op = "replace" /\ Len(table[Bucket(strs[Head(frees).pair.key].text)]) >= MaxListSize
    BY <1>8 DEF FreeReturns
  <2> QED
    BY <1>8, <2>1, RemovalReturnsKeeps, ReplaceLinksKeeps, ReplaceRefusedKeeps
<1>9. CASE UNCHANGED vars
  <2>1. UNCHANGED <<table, strs, mine, owner, it, frees>>
    BY <1>9 DEF vars, heap
  <2> QED
    BY <2>1 DEF Inv, TypeOK, TextsKnown, TableSound, KeysKept, TextsDiffer, RefsCounted, ValuesKept,
                FramesKept, Apart, IterKept, TextOf, Live, Due, Waiting, Frames, InChain
<1>10. ASSUME NEW s \in Str, InsertRefused(s) PROVE Inv'
  BY <1>9, <1>10 DEF InsertRefused
<1> QED
  BY <1>1, <1>2, <1>3, <1>4, <1>5, <1>6, <1>7, <1>8, <1>9, <1>10 DEF Next, Calls

(* The invariant holds in every state.                                    *)
LEMMA AlwaysInv == Spec => []Inv
BY InitInv, NextInv, PTL DEF Spec


-----------------------------------------------------------------------------
(***************************************************************************)
(* The theorems.                                                           *)
(***************************************************************************)

(* At most one pair holds a reference to a key.                            *)
LEMMA InvCounts == Inv => RefsExact
<1> SUFFICES ASSUME Inv, NEW s \in Str
             PROVE  strs[s].ref = mine[s] + Cardinality({p \in PairsOf(s) : p.key = s})
  BY DEF RefsExact
<1> DEFINE A == {p \in PairsOf(s) : p.key = s}
<1>1. \A p : p \in A <=> p \in Entries(table) \cup Due /\ p.key = s
  BY DueIsReplacing DEF Inv, PairsOf
<1>2. CASE \E p \in Entries(table) \cup Due : p.key = s
  <2>1. PICK p \in Entries(table) \cup Due : p.key = s
    BY <1>2
  <2>2. A = {p}
    BY <1>1, <2>1, KeysApart
  <2>3. Cardinality(A) = 1
    BY <2>2, FS_Singleton
  <2>4. strs[s].ref = mine[s] + 1
    BY <1>2 DEF Inv, RefsCounted
  <2> QED
    BY <2>3, <2>4
<1>3. CASE ~ \E p \in Entries(table) \cup Due : p.key = s
  <2>1. A = {}
    BY <1>1, <1>3
  <2>2. Cardinality(A) = 0
    BY <2>1, FS_EmptySet
  <2>3. strs[s].ref = mine[s] + 0
    BY <1>3 DEF Inv, RefsCounted
  <2> QED
    BY <2>2, <2>3
<1> QED
  BY <1>2, <1>3

(* The places of chains and of frames, for the properties stated by place. *)
LEMMA InvWellFormed == Inv => WellFormed
<1> SUFFICES ASSUME Inv, NEW h \in Buckets
             PROVE  /\ \A i \in DOMAIN table[h] : Bucket(strs[table[h][i].key].text) = h
                    /\ \A i, j \in DOMAIN table[h] :
                         strs[table[h][i].key].text = strs[table[h][j].key].text => i = j
                    /\ Len(table[h]) <= MaxListSize
  BY DEF WellFormed
<1>1. table[h] \in Seq(Entry)
  BY StateFacts DEF Inv, Tables
<1>2. \A i \in DOMAIN table[h] : table[h][i] \in ToSet(table[h]) /\ table[h][i] \in Entries(table)
  BY <1>1, ToSetPlaces, InEntries
<1>3. \A i \in DOMAIN table[h] : Bucket(strs[table[h][i].key].text) = h
  BY <1>2 DEF Inv, TableSound, TextOf
<1>4. ASSUME NEW i \in DOMAIN table[h], NEW j \in DOMAIN table[h],
             strs[table[h][i].key].text = strs[table[h][j].key].text
      PROVE  i = j
  <2>1. table[h][i] = table[h][j]
    BY <1>2, <1>4 DEF Inv, TextsDiffer, TextOf
  <2> QED
    BY <2>1 DEF Inv, TableSound, NoDuplicate
<1> QED
  BY <1>3, <1>4 DEF Inv, TableSound, ChainsBounded

(* As above, of values and frames.                                        *)
LEMMA InvOwned == Inv => Ownership
<1> SUFFICES ASSUME Inv PROVE Ownership
  OBVIOUS
<1>1. \A i \in DOMAIN frees : frees[i] \in Frames
  <2>1. frees \in Seq(Frame) /\ DOMAIN frees = 1 .. Len(frees)
    BY StateFacts DEF Inv
  <2> QED
    BY <2>1, ToSetPlaces DEF Frames
<1>2. \A i \in DOMAIN frees : owner[frees[i].val] = "freeing"
  BY <1>1 DEF Inv, FramesKept
<1>3. \A i \in Replacing : owner[frees[i].pair.val] = "inserting"
  BY DueIsReplacing DEF Inv, FramesKept
<1>4. \A i, j \in DOMAIN frees : frees[i].val = frees[j].val => i = j
  BY DEF Inv, Apart
<1> QED
  BY <1>2, <1>3, <1>4 DEF Inv, Ownership, ValuesKept

(* Every variable of the table and of its strings keeps its type.          *)
THEOREM StrTypeCorrect == Spec => []TypeOK
<1>1. Inv => TypeOK
  BY DEF Inv
<1> QED
  BY <1>1, AlwaysInv, PTL

(* mcl_string_free and free_hash_key: the count of every string is the     *)
(* number of references that will be given back, however calls nest.       *)
THEOREM RefsAreExact == Spec => []RefsExact
BY InvCounts, AlwaysInv, PTL

(* Every text is found in the chain it hashes to and once, however the     *)
(* table changes in the middle of a replace.                               *)
THEOREM TableWellFormed == Spec => []WellFormed
BY InvWellFormed, AlwaysInv, PTL

(* Every value has one owner, and the table frees none twice.              *)
THEOREM ValuesOwned == Spec => []Ownership
BY InvOwned, AlwaysInv, PTL

(* The client's iterator never stands on a pair that is gone.              *)
THEOREM StrIteratorSafe == Spec => []IteratorLinked
<1>1. Inv => IteratorLinked
  BY IterOnEntry, KeyCounts DEF IteratorLinked
<1> QED
  BY <1>1, AlwaysInv, PTL
=============================================================================
