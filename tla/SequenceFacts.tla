--------------------------- MODULE SequenceFacts ---------------------------
(***************************************************************************)
(* What the proofs use again and again: induction over sets of naturals,   *)
(* and the places of sequences after insertions and removals.              *)
(***************************************************************************)
EXTENDS Integers, SequencesExt, SequenceTheorems, WellFoundedInduction, TLAPS

(* Every non-empty set of naturals has a least element.                    *)
LEMMA LeastNatural ==
  ASSUME NEW T \in SUBSET Nat, T # {}
  PROVE  \E m \in T : \A n \in T : m <= n
<1>1. PICK m \in T : \A n \in T : ~(<<n, m>> \in OpToRel(<, Nat))
  BY NatLessThanWellFounded, WFMin
<1>2. ASSUME NEW n \in T PROVE ~(n < m)
  BY <1>1 DEF OpToRel
<1> QED
  BY <1>2

(* A set of naturals with 0 and the successors of its members is Nat.      *)
LEMMA SetInduction ==
  ASSUME NEW S \in SUBSET Nat, 0 \in S, \A n \in S : n + 1 \in S
  PROVE  S = Nat
<1> SUFFICES ASSUME Nat \ S # {} PROVE FALSE
  OBVIOUS
<1>1. PICK x \in Nat \ S : \A y \in Nat \ S : <<y, x>> \notin OpToRel(<, Nat)
  BY WFMin, NatLessThanWellFounded
<1>2. x # 0 /\ x - 1 \in Nat
  OBVIOUS
<1>3. <<x - 1, x>> \in OpToRel(<, Nat)
  BY <1>2 DEF OpToRel
<1>4. x - 1 \in S
  BY <1>1, <1>2, <1>3
<1> QED
  BY <1>4

(* The places of a sequence after its i-th element is removed.             *)
LEMMA RemoveAtPlaces ==
  ASSUME NEW P, NEW s \in Seq(P), NEW i \in 1 .. Len(s)
  PROVE  /\ RemoveAt(s, i) \in Seq(P)
         /\ Len(RemoveAt(s, i)) = Len(s) - 1
         /\ \A j \in 1 .. Len(s) - 1 :
              RemoveAt(s, i)[j] = IF j < i THEN s[j] ELSE s[j + 1]
<1> DEFINE a == SubSeq(s, 1, i - 1)
           b == SubSeq(s, i + 1, Len(s))
<1>1. /\ a \in Seq(P) /\ Len(a) = i - 1
      /\ \A j \in 1 .. i - 1 : a[j] = s[j]
  OBVIOUS
<1>2. /\ b \in Seq(P) /\ Len(b) = Len(s) - i
      /\ \A j \in 1 .. Len(s) - i : b[j] = s[i + j]
  OBVIOUS
<1>3. RemoveAt(s, i) = a \o b
  BY DEF RemoveAt
<1> HIDE DEF a, b
<1>4. /\ a \o b \in Seq(P)
      /\ Len(a \o b) = Len(s) - 1
      /\ \A j \in 1 .. Len(s) - 1 :
           (a \o b)[j] = IF j <= i - 1 THEN a[j] ELSE b[j - (i - 1)]
  <2>1. /\ a \o b \in Seq(P)
        /\ Len(a \o b) = Len(a) + Len(b)
        /\ \A j \in 1 .. Len(a) + Len(b) :
             (a \o b)[j] = IF j <= Len(a) THEN a[j] ELSE b[j - Len(a)]
    BY <1>1, <1>2, ConcatProperties, Zenon
  <2>2. Len(a) + Len(b) = Len(s) - 1
    BY <1>1, <1>2, Len(s) \in Nat
  <2> QED
    BY <1>1, <2>1, <2>2
<1>5. ASSUME NEW j \in 1 .. Len(s) - 1
      PROVE  (a \o b)[j] = IF j < i THEN s[j] ELSE s[j + 1]
  <2>1. CASE j < i
    BY <2>1, <1>1, <1>4
  <2>2. CASE ~(j < i)
    <3>1. j - (i - 1) \in 1 .. Len(s) - i
      BY <2>2
    <3>2. b[j - (i - 1)] = s[i + (j - (i - 1))]
      BY <3>1, <1>2
    <3>3. i + (j - (i - 1)) = j + 1
      OBVIOUS
    <3> QED
      BY <2>2, <3>2, <3>3, <1>4
  <2> QED
    BY <2>1, <2>2
<1> QED
  BY <1>3, <1>4, <1>5

(* The places of a sequence after an element is put at its head.           *)
LEMMA ConsPlaces ==
  ASSUME NEW P, NEW s \in Seq(P), NEW p \in P
  PROVE  /\ <<p>> \o s \in Seq(P)
         /\ Len(<<p>> \o s) = Len(s) + 1
         /\ (<<p>> \o s)[1] = p
         /\ \A j \in 1 .. Len(s) : (<<p>> \o s)[j + 1] = s[j]
  OBVIOUS

(* r is s with e put at place i, the later elements one place further on.  *)
IsInsertion(r, s, i, e) ==
  /\ Len(r) = Len(s) + 1
  /\ \A j \in 1 .. Len(s) + 1 :
       r[j] = IF j < i THEN s[j] ELSE IF j = i THEN e ELSE s[j - 1]

(* The places of a sequence after an element is inserted before the i-th.  *)
LEMMA InsertAtIs ==
  ASSUME NEW P, NEW s \in Seq(P), NEW i \in 1 .. Len(s) + 1, NEW e \in P
  PROVE  InsertAt(s, i, e) \in Seq(P) /\ IsInsertion(InsertAt(s, i, e), s, i, e)
<1> DEFINE a == SubSeq(s, 1, i - 1)
           b == SubSeq(s, i, Len(s))
           c == a \o <<e>>
<1>1. /\ a \in Seq(P) /\ Len(a) = i - 1
      /\ \A j \in 1 .. i - 1 : a[j] = s[j]
  OBVIOUS
<1>2. /\ b \in Seq(P) /\ Len(b) = Len(s) - i + 1
      /\ \A j \in 1 .. Len(s) - i + 1 : b[j] = s[i + j - 1]
  OBVIOUS
<1>3. InsertAt(s, i, e) = c \o b
  BY DEF InsertAt
<1> HIDE DEF a, b
<1>4. /\ c \in Seq(P) /\ Len(c) = i
      /\ \A j \in 1 .. i - 1 : c[j] = s[j]
      /\ c[i] = e
  BY <1>1
<1> HIDE DEF c
<1>5. /\ c \o b \in Seq(P)
      /\ Len(c \o b) = Len(c) + Len(b)
      /\ \A j \in 1 .. Len(c) + Len(b) :
           (c \o b)[j] = IF j <= Len(c) THEN c[j] ELSE b[j - Len(c)]
  BY <1>2, <1>4, ConcatProperties, Zenon
<1>6. Len(c) + Len(b) = Len(s) + 1
  BY <1>2, <1>4, Len(s) \in Nat
<1>7. ASSUME NEW j \in 1 .. Len(s) + 1
      PROVE  (c \o b)[j] = IF j < i THEN s[j] ELSE IF j = i THEN e ELSE s[j - 1]
  <2>1. CASE j <= i
    BY <2>1, <1>4, <1>5, <1>6
  <2>2. CASE ~(j <= i)
    <3>1. j - i \in 1 .. Len(s) - i + 1
      BY <2>2
    <3>2. b[j - i] = s[i + (j - i) - 1]
      BY <3>1, <1>2
    <3>3. i + (j - i) - 1 = j - 1
      OBVIOUS
    <3> QED
      BY <2>2, <3>2, <3>3, <1>4, <1>5, <1>6
  <2> QED
    BY <2>1, <2>2
<1> QED
  BY <1>3, <1>5, <1>6, <1>7 DEF IsInsertion

(* The same with every place written out.                                  *)
LEMMA InsertAtPlaces ==
  ASSUME NEW P, NEW s \in Seq(P), NEW i \in 1 .. Len(s) + 1, NEW e \in P
  PROVE  /\ InsertAt(s, i, e) \in Seq(P)
         /\ Len(InsertAt(s, i, e)) = Len(s) + 1
         /\ \A j \in 1 .. Len(s) + 1 :
              InsertAt(s, i, e)[j] = IF j < i THEN s[j] ELSE IF j = i THEN e ELSE s[j - 1]
BY InsertAtIs DEF IsInsertion

(* The places of a sequence after the ones from b + 1 to e are removed.    *)
LEMMA RemoveRangePlaces ==
  ASSUME NEW P, NEW s \in Seq(P), NEW b \in 0 .. Len(s), NEW e \in b .. Len(s)
  PROVE  LET t == SubSeq(s, 1, b) \o SubSeq(s, e + 1, Len(s))
         IN  /\ t \in Seq(P)
             /\ Len(t) = Len(s) - (e - b)
             /\ \A j \in 1 .. Len(s) - (e - b) :
                  t[j] = IF j <= b THEN s[j] ELSE s[j + (e - b)]
<1> DEFINE a == SubSeq(s, 1, b)
           c == SubSeq(s, e + 1, Len(s))
<1>1. /\ a \in Seq(P) /\ Len(a) = b
      /\ \A j \in 1 .. b : a[j] = s[j]
  OBVIOUS
<1>2. /\ c \in Seq(P) /\ Len(c) = Len(s) - e
      /\ \A j \in 1 .. Len(s) - e : c[j] = s[e + j]
  OBVIOUS
<1> HIDE DEF a, c
<1>3. /\ a \o c \in Seq(P)
      /\ Len(a \o c) = Len(a) + Len(c)
      /\ \A j \in 1 .. Len(a) + Len(c) :
           (a \o c)[j] = IF j <= Len(a) THEN a[j] ELSE c[j - Len(a)]
  BY <1>1, <1>2, ConcatProperties, Zenon
<1>4. Len(a) + Len(c) = Len(s) - (e - b)
  BY <1>1, <1>2, Len(s) \in Nat
<1>5. ASSUME NEW j \in 1 .. Len(s) - (e - b)
      PROVE  (a \o c)[j] = IF j <= b THEN s[j] ELSE s[j + (e - b)]
  <2>1. CASE j <= b
    BY <2>1, <1>1, <1>3, <1>4
  <2>2. CASE ~(j <= b)
    <3>1. j - b \in 1 .. Len(s) - e
      BY <2>2
    <3>2. c[j - b] = s[e + (j - b)]
      BY <3>1, <1>2
    <3>3. e + (j - b) = j + (e - b)
      OBVIOUS
    <3> QED
      BY <2>2, <3>2, <3>3, <1>1, <1>3, <1>4
  <2> QED
    BY <2>1, <2>2
<1>6. (a \o c) \in Seq(P) /\ Len(a \o c) = Len(s) - (e - b)
  BY <1>3, <1>4
<1> QED
  BY <1>5, <1>6 DEF a, c

(* The subsequence of one place.                                           *)
LEMMA SubSeqOne ==
  ASSUME NEW P, NEW s \in Seq(P), NEW i \in 1 .. Len(s)
  PROVE  SubSeq(s, i, i) = <<s[i]>>
<1>1. SubSeq(s, i, i) \in Seq(P) /\ Len(SubSeq(s, i, i)) = 1
  OBVIOUS
<1>2. SubSeq(s, i, i)[1] = s[i]
  OBVIOUS
<1>3. <<s[i]>> \in Seq(P) /\ Len(<<s[i]>>) = 1 /\ <<s[i]>>[1] = s[i]
  OBVIOUS
<1>4. ASSUME NEW j \in 1 .. 1 PROVE SubSeq(s, i, i)[j] = <<s[i]>>[j]
  <2>1. j = 1
    OBVIOUS
  <2> QED
    BY <1>2, <1>3, <2>1
<1> QED
  BY <1>1, <1>3, <1>4, SeqEqual

(* In a sequence without duplicates the first place with an element is the *)
(* one it has.                                                             *)
LEMMA RemoveFirstPlace ==
  ASSUME NEW P, NEW s \in Seq(P), NEW i \in 1 .. Len(s),
         \A j, k \in DOMAIN s : s[j] = s[k] => j = k
  PROVE  RemoveFirst(s, s[i]) = RemoveAt(s, i)
<1> DEFINE I == {j \in 1 .. Len(s) : s[j] = s[i]}
<1>1. I = {i}
  OBVIOUS
<1>2. Min(I) = i
  <2>1. \A x \in {i} : x = i
    OBVIOUS
  <2>2. i <= i
    OBVIOUS
  <2> QED
    BY <1>1, <2>1, <2>2 DEF Min
<1>3. SelectInSeq(s, LAMBDA v : v = s[i]) = Min(I)
  BY <1>1 DEF SelectInSeq
<1> QED
  BY <1>2, <1>3 DEF RemoveFirst

(* The elements of a sequence are those at its places.                     *)
LEMMA ToSetPlaces ==
  ASSUME NEW P, NEW s \in Seq(P)
  PROVE  /\ ToSet(s) \subseteq P
         /\ \A x : x \in ToSet(s) <=> \E i \in 1 .. Len(s) : s[i] = x
<1>1. DOMAIN s = 1 .. Len(s) /\ \A i \in 1 .. Len(s) : s[i] \in P
  OBVIOUS
<1> QED
  BY <1>1 DEF ToSet

(* An insertion adds its element.                                          *)
LEMMA InsertAtSet ==
  ASSUME NEW P, NEW s \in Seq(P), NEW i \in 1 .. Len(s) + 1, NEW e \in P
  PROVE  ToSet(InsertAt(s, i, e)) = ToSet(s) \cup {e}
<1> DEFINE t == InsertAt(s, i, e)
<1>1. /\ t \in Seq(P) /\ Len(t) = Len(s) + 1
      /\ \A j \in 1 .. Len(s) + 1 :
           t[j] = IF j < i THEN s[j] ELSE IF j = i THEN e ELSE s[j - 1]
  BY InsertAtPlaces
<1>2. Len(s) \in Nat /\ Len(t) = Len(s) + 1
  BY <1>1
<1> HIDE DEF t
<1>3. \A x : x \in ToSet(t) <=> \E j \in 1 .. Len(s) + 1 : t[j] = x
  BY <1>1, <1>2, ToSetPlaces
<1>4. \A x : x \in ToSet(s) <=> \E j \in 1 .. Len(s) : s[j] = x
  BY ToSetPlaces
<1>5. ASSUME NEW x \in ToSet(t) PROVE x \in ToSet(s) \cup {e}
  <2>1. PICK j \in 1 .. Len(s) + 1 : t[j] = x
    BY <1>3
  <2>2. CASE j < i
    <3>1. j \in 1 .. Len(s)
      BY <1>2, <2>2
    <3> QED BY <1>1, <1>4, <2>1, <2>2, <3>1
  <2>3. CASE j = i
    BY <1>1, <2>1, <2>3
  <2>4. CASE j > i
    <3>1. j - 1 \in 1 .. Len(s) /\ ~(j < i) /\ j # i
      BY <1>2, <2>4
    <3> QED BY <1>1, <1>4, <2>1, <3>1
  <2> QED BY <2>2, <2>3, <2>4
<1>6. ASSUME NEW x \in ToSet(s) PROVE x \in ToSet(t)
  <2>1. PICK j \in 1 .. Len(s) : s[j] = x
    BY <1>4
  <2>2. CASE j < i
    <3>1. j \in 1 .. Len(s) + 1
      BY <1>2
    <3> QED BY <1>1, <1>3, <2>1, <2>2, <3>1
  <2>3. CASE ~(j < i)
    <3>1. j + 1 \in 1 .. Len(s) + 1 /\ ~(j + 1 < i) /\ j + 1 # i /\ (j + 1) - 1 = j
      BY <1>2, <2>3
    <3>2. t[j + 1] = s[j]
      BY <1>1, <3>1
    <3> QED BY <1>3, <2>1, <3>1, <3>2
  <2> QED BY <2>2, <2>3
<1>7. t[i] = e
  BY <1>1
<1> QED BY <1>2, <1>3, <1>5, <1>6, <1>7 DEF t

(* Insertions at the two ends.                                             *)
LEMMA InsertAtEnds ==
  ASSUME NEW P, NEW s \in Seq(P), NEW e \in P
  PROVE  <<e>> \o s = InsertAt(s, 1, e) /\ Append(s, e) = InsertAt(s, Len(s) + 1, e)
<1>1. 1 \in 1 .. Len(s) + 1 /\ Len(s) + 1 \in 1 .. Len(s) + 1 /\ Len(s) \in Nat
  OBVIOUS
<1> DEFINE a == InsertAt(s, 1, e)
           b == InsertAt(s, Len(s) + 1, e)
<1>2. /\ a \in Seq(P) /\ Len(a) = Len(s) + 1
      /\ \A j \in 1 .. Len(s) + 1 :
           a[j] = IF j < 1 THEN s[j] ELSE IF j = 1 THEN e ELSE s[j - 1]
  BY <1>1, InsertAtPlaces
<1>3. \A i \in 1 .. Len(s) + 1 :
        /\ InsertAt(s, i, e) \in Seq(P) /\ Len(InsertAt(s, i, e)) = Len(s) + 1
        /\ \A j \in 1 .. Len(s) + 1 :
             InsertAt(s, i, e)[j] = IF j < i THEN s[j] ELSE IF j = i THEN e ELSE s[j - 1]
  BY InsertAtPlaces
<1>4. /\ b \in Seq(P) /\ Len(b) = Len(s) + 1
      /\ \A j \in 1 .. Len(s) + 1 :
           b[j] = IF j < Len(s) + 1 THEN s[j] ELSE IF j = Len(s) + 1 THEN e ELSE s[j - 1]
  BY <1>1, <1>3
<1> HIDE DEF a, b
<1>5. /\ <<e>> \o s \in Seq(P) /\ Len(<<e>> \o s) = Len(s) + 1 /\ (<<e>> \o s)[1] = e
      /\ \A j \in 1 .. Len(s) : (<<e>> \o s)[j + 1] = s[j]
  BY ConsPlaces
<1>6. /\ Append(s, e) \in Seq(P) /\ Len(Append(s, e)) = Len(s) + 1
      /\ Append(s, e)[Len(s) + 1] = e
      /\ \A j \in 1 .. Len(s) : Append(s, e)[j] = s[j]
  OBVIOUS
<1>7. <<e>> \o s = a
  <2> DEFINE c == <<e>> \o s
  <2>1. c \in Seq(P) /\ Len(c) = Len(a)
    BY <1>2, <1>5
  <2>2. ASSUME NEW j \in 1 .. Len(c) PROVE c[j] = a[j]
    <3>1. CASE j = 1
      BY <1>1, <1>2, <1>5, <3>1
    <3>2. CASE j # 1
      <4>1. j - 1 \in 1 .. Len(s) /\ (j - 1) + 1 = j /\ ~(j < 1) /\ j \in 1 .. Len(s) + 1
        BY <1>1, <1>5, <3>2
      <4>2. c[(j - 1) + 1] = s[j - 1]
        BY <1>5, <4>1
      <4> QED BY <1>2, <3>2, <4>1, <4>2
    <3> QED BY <3>1, <3>2
  <2> HIDE DEF c
  <2>3. c = a
    BY <1>2, <2>1, <2>2, SeqEqual
  <2> QED BY <2>3 DEF c
<1>8. Append(s, e) = b
  <2> DEFINE c == Append(s, e)
  <2>1. c \in Seq(P) /\ Len(c) = Len(b)
    BY <1>4, <1>6
  <2>2. ASSUME NEW j \in 1 .. Len(c) PROVE c[j] = b[j]
    <3>1. CASE j = Len(s) + 1
      BY <1>1, <1>4, <1>6, <3>1
    <3>2. CASE j # Len(s) + 1
      <4>1. j \in 1 .. Len(s) /\ j < Len(s) + 1 /\ j \in 1 .. Len(s) + 1
        BY <1>1, <1>6, <3>2
      <4> QED BY <1>4, <1>6, <4>1
    <3> QED BY <3>1, <3>2
  <2> HIDE DEF c
  <2>3. c = b
    BY <1>4, <2>1, <2>2, SeqEqual
  <2> QED BY <2>3 DEF c
<1> QED BY <1>7, <1>8 DEF a, b

(* The rest of a sequence after its first element.                         *)
LEMMA TailPlaces ==
  ASSUME NEW P, NEW s \in Seq(P), s # <<>>
  PROVE  /\ Tail(s) \in Seq(P) /\ Len(Tail(s)) = Len(s) - 1
         /\ Head(s) = s[1] /\ 1 \in 1 .. Len(s)
         /\ \A i \in 1 .. Len(s) - 1 : Tail(s)[i] = s[i + 1]
  OBVIOUS

(* Without duplicates the rest has all but the first.                      *)
LEMMA TailSet ==
  ASSUME NEW P, NEW s \in Seq(P), s # <<>>,
         \A i, j \in DOMAIN s : s[i] = s[j] => i = j
  PROVE  /\ ToSet(Tail(s)) = ToSet(s) \ {Head(s)} /\ Head(s) \in ToSet(s)
         /\ \A i, j \in DOMAIN Tail(s) : Tail(s)[i] = Tail(s)[j] => i = j
<1> DEFINE t == Tail(s)
<1>1. /\ t \in Seq(P) /\ Len(t) = Len(s) - 1
      /\ Head(s) = s[1] /\ 1 \in 1 .. Len(s)
      /\ \A i \in 1 .. Len(s) - 1 : t[i] = s[i + 1]
  BY TailPlaces
<1>2. Len(s) \in Nat /\ Len(t) = Len(s) - 1 /\ DOMAIN s = 1 .. Len(s)
  BY <1>1
<1> HIDE DEF t
<1>3. DOMAIN t = 1 .. Len(s) - 1
  BY <1>1
<1>4. \A x : x \in ToSet(t) <=> \E i \in 1 .. Len(s) - 1 : t[i] = x
  BY <1>1, <1>2, ToSetPlaces
<1>5. \A x : x \in ToSet(s) <=> \E i \in 1 .. Len(s) : s[i] = x
  BY ToSetPlaces
<1>6. ASSUME NEW i \in 1 .. Len(s) - 1 PROVE i + 1 \in 1 .. Len(s) /\ i + 1 # 1
  BY <1>2
<1>7. \A i \in 1 .. Len(s) - 1 : t[i] \in ToSet(s) /\ t[i] # s[1]
  BY <1>1, <1>2, <1>5, <1>6
<1>8. ASSUME NEW x \in ToSet(s), x # s[1] PROVE x \in ToSet(t)
  <2>1. PICK i \in 1 .. Len(s) : s[i] = x
    BY <1>5
  <2>2. i - 1 \in 1 .. Len(s) - 1 /\ (i - 1) + 1 = i
    BY <1>2, <1>8, <2>1
  <2>3. t[i - 1] = s[(i - 1) + 1]
    BY <1>1, <2>2
  <2> QED BY <1>4, <2>1, <2>2, <2>3
<1>9. ToSet(t) = ToSet(s) \ {s[1]}
  BY <1>4, <1>7, <1>8
<1>10. ASSUME NEW i \in 1 .. Len(s) - 1, NEW j \in 1 .. Len(s) - 1, t[i] = t[j]
       PROVE  i = j
  <2>1. i + 1 = j + 1
    BY <1>1, <1>2, <1>6, <1>10, SMTT(40)
  <2> QED BY <2>1
<1> QED BY <1>1, <1>3, <1>5, <1>9, <1>10 DEF t

=============================================================================
