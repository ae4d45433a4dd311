--------------------------- MODULE MclListProofs ----------------------------
(***************************************************************************)
(* Proofs about the list (MclList): its types, the soundness of its ring,  *)
(* the count of its blocks and the places of its cursors, and that it      *)
(* implements the sequence of ListSeq.                                     *)
(***************************************************************************)
EXTENDS MclList, SequenceFacts

-----------------------------------------------------------------------------
(***************************************************************************)
(* Rings, for any links and any order of nodes.                            *)
(***************************************************************************)
AtOf(s, i) == IF i \in DOMAIN s THEN s[i] ELSE Entries
Distinct(s) == \A i, j \in DOMAIN s : s[i] = s[j] => i = j

RingOf(nx, pv, s) ==
  /\ \A i \in 0 .. Len(s) : nx[AtOf(s, i)] = AtOf(s, i + 1) /\ pv[AtOf(s, i + 1)] = AtOf(s, i)
  /\ Distinct(s)

Links == [Place -> Place \cup {Null}]

LEMMA RingSoundIsRing == RingSound <=> RingOf(next, prev, order)
<1> QED BY DEF RingSound, RingOf, At, AtOf, Distinct

(* The places of the ring: the head is before the first and after the last.*)
LEMMA Places ==
  ASSUME NEW s \in Seq(Node)
  PROVE  /\ Len(s) \in Nat /\ DOMAIN s = 1 .. Len(s)
         /\ AtOf(s, 0) = Entries /\ AtOf(s, Len(s) + 1) = Entries
         /\ \A i \in 1 .. Len(s) : AtOf(s, i) = s[i] /\ s[i] \in Node /\ s[i] # Entries
         /\ \A i \in 0 .. Len(s) + 1 : AtOf(s, i) \in Place
<1> QED BY ListAssumption DEF AtOf, Place

(* Nodes out of the ring do not matter to it.                              *)
LEMMA RingElsewhere ==
  ASSUME NEW s \in Seq(Node), NEW nx, NEW pv, NEW nx2, NEW pv2,
         RingOf(nx, pv, s),
         \A i \in 0 .. Len(s) + 1 : /\ nx2[AtOf(s, i)] = nx[AtOf(s, i)]
                                    /\ pv2[AtOf(s, i)] = pv[AtOf(s, i)]
  PROVE  RingOf(nx2, pv2, s)
<1>1. Len(s) \in Nat
  OBVIOUS
<1>2. ASSUME NEW i \in 0 .. Len(s)
      PROVE  nx2[AtOf(s, i)] = AtOf(s, i + 1) /\ pv2[AtOf(s, i + 1)] = AtOf(s, i)
  <2>1. i \in 0 .. Len(s) + 1 /\ i + 1 \in 0 .. Len(s) + 1
    BY <1>1
  <2> QED BY <2>1 DEF RingOf
<1> QED BY <1>2 DEF RingOf

(* Two places of the ring are the same only if they hold the same.         *)
LEMMA PlacesDiffer ==
  ASSUME NEW s \in Seq(Node), Distinct(s),
         NEW i \in 0 .. Len(s) + 1, NEW j \in 0 .. Len(s) + 1,
         AtOf(s, i) = AtOf(s, j)
  PROVE  \/ i = j
         \/ i \in {0, Len(s) + 1} /\ j \in {0, Len(s) + 1}
<1>1. Len(s) \in Nat
  OBVIOUS
<1>2. i \in 1 .. Len(s) \/ i \in {0, Len(s) + 1}
  BY <1>1
<1>3. j \in 1 .. Len(s) \/ j \in {0, Len(s) + 1}
  BY <1>1
<1> QED BY <1>2, <1>3, Places DEF Distinct

(* _LIST_INSERT between two neighbours.                                    *)
LEMMA RingInsert ==
  ASSUME NEW s \in Seq(Node), NEW nx \in Links, NEW pv \in Links, RingOf(nx, pv, s),
         NEW n \in Node, n \notin ToSet(s), NEW k \in 0 .. Len(s)
  PROVE  LET p == AtOf(s, k)
             q == AtOf(s, k + 1)
         IN  RingOf([nx EXCEPT ![n] = q, ![p] = n], [pv EXCEPT ![n] = p, ![q] = n],
                    InsertAt(s, k + 1, n))
<1> DEFINE p == AtOf(s, k)
           q == AtOf(s, k + 1)
           nx2 == [nx EXCEPT ![n] = q, ![p] = n]
           pv2 == [pv EXCEPT ![n] = p, ![q] = n]
           t == InsertAt(s, k + 1, n)
<1>1. Len(s) \in Nat /\ k + 1 \in 1 .. Len(s) + 1
  OBVIOUS
<1>2. /\ t \in Seq(Node) /\ Len(t) = Len(s) + 1
      /\ \A j \in 1 .. Len(s) + 1 :
           t[j] = IF j < k + 1 THEN s[j] ELSE IF j = k + 1 THEN n ELSE s[j - 1]
  <2>1. t \in Seq(Node) /\ IsInsertion(t, s, k + 1, n)
    BY <1>1, InsertAtIs
  <2> HIDE DEF t
  <2> QED BY <2>1 DEF IsInsertion
<1>2a. Len(t) = Len(s) + 1
  BY <1>2
<1> HIDE DEF t
<1>3. DOMAIN nx = Place /\ DOMAIN pv = Place /\ n \in Place /\ p \in Place /\ q \in Place
  BY <1>1, Places DEF Links, Place
<1>4. \A i \in 0 .. Len(s) + 1 : AtOf(s, i) # n
  BY <1>1, Places, ToSetPlaces, ListAssumption
<1>5. n # p /\ n # q
  BY <1>1, <1>4
<1>6. /\ nx2[n] = q /\ nx2[p] = n /\ \A x \in Place \ {n, p} : nx2[x] = nx[x]
      /\ pv2[n] = p /\ pv2[q] = n /\ \A x \in Place \ {n, q} : pv2[x] = pv[x]
  BY <1>3, <1>5
<1> HIDE DEF nx2, pv2
<1>7. /\ \A j \in 0 .. k : AtOf(t, j) = AtOf(s, j)
      /\ AtOf(t, k + 1) = n
      /\ \A j \in k + 2 .. Len(s) + 2 : AtOf(t, j) = AtOf(s, j - 1)
  <2>1. \A j \in 1 .. Len(t) : AtOf(t, j) = t[j]
    BY <1>2, Places
  <2>2. AtOf(t, 0) = Entries /\ AtOf(t, Len(s) + 2) = Entries
    BY <1>1, <1>2, Places
  <2>3. AtOf(s, 0) = Entries /\ AtOf(s, Len(s) + 1) = Entries
        /\ \A j \in 1 .. Len(s) : AtOf(s, j) = s[j]
    BY Places
  <2>4. ASSUME NEW j \in 0 .. k PROVE AtOf(t, j) = AtOf(s, j)
    BY <1>1, <1>2, <2>1, <2>2, <2>3, SMTT(40)
  <2>5. AtOf(t, k + 1) = n
    BY <1>1, <1>2, <2>1
  <2>6. ASSUME NEW j \in k + 2 .. Len(s) + 2 PROVE AtOf(t, j) = AtOf(s, j - 1)
    <3>1. CASE j = Len(s) + 2
      BY <1>1, <2>2, <2>3, <3>1
    <3>2. CASE j # Len(s) + 2
      <4>1. j \in 1 .. Len(s) + 1 /\ ~(j < k + 1) /\ j # k + 1 /\ j - 1 \in 1 .. Len(s)
        BY <1>1, <3>2
      <4>2. j \in 1 .. Len(t)
        BY <1>2a, <4>1
      <4> QED BY <1>2, <2>1, <2>3, <4>1, <4>2
    <3> QED BY <3>1, <3>2
  <2> QED BY <2>4, <2>5, <2>6
<1>8. ASSUME NEW j \in 0 .. Len(t)
      PROVE  nx2[AtOf(t, j)] = AtOf(t, j + 1) /\ pv2[AtOf(t, j + 1)] = AtOf(t, j)
  <2>1. CASE j < k
    <3>1. j \in 0 .. k /\ j + 1 \in 0 .. k /\ j \in 0 .. Len(s) /\ j + 1 \in 0 .. Len(s) + 1
          /\ j \in 0 .. Len(s) + 1 /\ k \in 0 .. Len(s) + 1 /\ k + 1 \in 0 .. Len(s) + 1
      BY <1>1, <2>1
    <3>2. AtOf(s, j) # p
      BY <1>1, <2>1, <3>1, PlacesDiffer DEF RingOf
    <3>3. AtOf(s, j + 1) # q
      BY <1>1, <2>1, <3>1, PlacesDiffer DEF RingOf
    <3>4. nx2[AtOf(s, j)] = nx[AtOf(s, j)] /\ pv2[AtOf(s, j + 1)] = pv[AtOf(s, j + 1)]
      BY <1>4, <1>6, <3>1, <3>2, <3>3, Places
    <3> QED BY <1>7, <3>1, <3>4 DEF RingOf
  <2>2. CASE j = k
    BY <1>1, <1>6, <1>7, <2>2
  <2>3. CASE j = k + 1
    <3>1. (k + 1) + 1 \in k + 2 .. Len(s) + 2 /\ ((k + 1) + 1) - 1 = k + 1
      BY <1>1
    <3> QED BY <1>6, <1>7, <2>3, <3>1
  <2>4. CASE j > k + 1
    <3>1. j \in k + 2 .. Len(s) + 2 /\ j + 1 \in k + 2 .. Len(s) + 2 /\ (j + 1) - 1 = j
          /\ j - 1 \in 0 .. Len(s) /\ (j - 1) + 1 = j /\ j - 1 \in 0 .. Len(s) + 1
          /\ j \in 0 .. Len(s) + 1 /\ k \in 0 .. Len(s) + 1 /\ k + 1 \in 0 .. Len(s) + 1
      BY <1>1, <1>2, <2>4
    <3>2. AtOf(s, j - 1) # p
      BY <1>1, <2>4, <3>1, PlacesDiffer DEF RingOf
    <3>3. AtOf(s, j) # q
      BY <1>1, <2>4, <3>1, PlacesDiffer DEF RingOf
    <3>4. nx2[AtOf(s, j - 1)] = nx[AtOf(s, j - 1)] /\ pv2[AtOf(s, j)] = pv[AtOf(s, j)]
      BY <1>4, <1>6, <3>1, <3>2, <3>3, Places
    <3>5. nx[AtOf(s, j - 1)] = AtOf(s, j) /\ pv[AtOf(s, j)] = AtOf(s, j - 1)
      BY <3>1 DEF RingOf
    <3> QED BY <1>7, <3>1, <3>4, <3>5
  <2> QED BY <1>1, <1>2, <2>1, <2>2, <2>3, <2>4
<1>9. Distinct(t)
  <2>1. \A i \in 1 .. Len(s) : s[i] # n
    BY ToSetPlaces
  <2>2. \A i, j \in 1 .. Len(s) : s[i] = s[j] => i = j
    BY Places DEF RingOf, Distinct
  <2>3. ASSUME NEW i \in 1 .. Len(s) + 1, NEW j \in 1 .. Len(s) + 1, t[i] = t[j]
        PROVE  i = j
    <3>1. /\ (i < k + 1 => i \in 1 .. Len(s)) /\ (i > k + 1 => i - 1 \in 1 .. Len(s))
          /\ (j < k + 1 => j \in 1 .. Len(s)) /\ (j > k + 1 => j - 1 \in 1 .. Len(s))
      BY <1>1
    <3>2. t[i] # n <=> i # k + 1
      BY <1>1, <1>2, <2>1, <3>1
    <3>3. t[j] # n <=> j # k + 1
      BY <1>1, <1>2, <2>1, <3>1, SMTT(40)
    <3>4. CASE i = k + 1 \/ j = k + 1
      BY <2>3, <3>2, <3>3, <3>4
    <3>5. CASE i # k + 1 /\ j # k + 1
      <4>1. PICK a \in 1 .. Len(s) : t[i] = s[a] /\ ((a = i /\ i < k + 1) \/ (a = i - 1 /\ i > k + 1))
        BY <1>1, <1>2, <3>1, <3>5
      <4>2. PICK b \in 1 .. Len(s) : t[j] = s[b] /\ ((b = j /\ j < k + 1) \/ (b = j - 1 /\ j > k + 1))
        BY <1>1, <1>2, <3>1, <3>5
      <4>3. a = b
        BY <2>2, <2>3, <4>1, <4>2
      <4> QED BY <4>1, <4>2, <4>3
    <3> QED BY <3>4, <3>5
  <2> QED BY <1>2, <2>3 DEF Distinct
<1>10. RingOf(nx2, pv2, t)
  BY <1>8, <1>9 DEF RingOf
<1> QED BY <1>10 DEF nx2, pv2, t

(* The unlinking of HANDLE_ELEM.                                           *)
LEMMA RingRemove ==
  ASSUME NEW s \in Seq(Node), NEW nx \in Links, NEW pv \in Links, RingOf(nx, pv, s),
         NEW k \in 1 .. Len(s)
  PROVE  RingOf(Bypassed(nx, pv[s[k]], nx[s[k]]), Bypassed(pv, nx[s[k]], pv[s[k]]),
                RemoveAt(s, k))
<1> DEFINE p == AtOf(s, k - 1)
           q == AtOf(s, k + 1)
           nx2 == [nx EXCEPT ![p] = q]
           pv2 == [pv EXCEPT ![q] = p]
           t == RemoveAt(s, k)
<1>1. Len(s) \in Nat /\ k - 1 \in 0 .. Len(s) + 1 /\ k + 1 \in 0 .. Len(s) + 1
  OBVIOUS
<1>2. /\ t \in Seq(Node) /\ Len(t) = Len(s) - 1
      /\ \A j \in 1 .. Len(s) - 1 : t[j] = IF j < k THEN s[j] ELSE s[j + 1]
  BY RemoveAtPlaces
<1>2a. Len(t) = Len(s) - 1
  BY <1>2
<1> HIDE DEF t
<1>3. nx[s[k]] = q /\ pv[s[k]] = p
  <2>1. /\ k \in 0 .. Len(s) /\ k - 1 \in 0 .. Len(s) /\ (k - 1) + 1 = k
    BY <1>1
  <2>2. AtOf(s, k) = s[k]
    BY Places
  <2>3. nx[AtOf(s, k)] = AtOf(s, k + 1)
    BY <2>1 DEF RingOf
  <2>4. pv[AtOf(s, (k - 1) + 1)] = AtOf(s, k - 1)
    BY <2>1 DEF RingOf
  <2> QED BY <2>1, <2>2, <2>3, <2>4
<1>4. DOMAIN nx = Place /\ DOMAIN pv = Place /\ p \in Place /\ q \in Place
  BY <1>1, Places DEF Links
<1>6. /\ nx2[p] = q /\ \A x \in Place \ {p} : nx2[x] = nx[x]
      /\ pv2[q] = p /\ \A x \in Place \ {q} : pv2[x] = pv[x]
  BY <1>4
<1> HIDE DEF nx2, pv2
<1>7. /\ \A j \in 0 .. k - 1 : AtOf(t, j) = AtOf(s, j)
      /\ \A j \in k .. Len(s) : AtOf(t, j) = AtOf(s, j + 1)
  <2>1. \A j \in 1 .. Len(t) : AtOf(t, j) = t[j]
    BY <1>2, Places
  <2>2. AtOf(t, 0) = Entries /\ AtOf(t, Len(s)) = Entries
    BY <1>1, <1>2, Places
  <2>3. AtOf(s, 0) = Entries /\ AtOf(s, Len(s) + 1) = Entries
        /\ \A j \in 1 .. Len(s) : AtOf(s, j) = s[j]
    BY Places
  <2>4. ASSUME NEW j \in 0 .. k - 1 PROVE AtOf(t, j) = AtOf(s, j)
    <3>1. CASE j = 0
      BY <2>2, <2>3, <3>1
    <3>2. CASE j # 0
      <4>1. j \in 1 .. Len(s) - 1 /\ j < k /\ j \in 1 .. Len(s)
        BY <1>1, <3>2
      <4>2. j \in 1 .. Len(t)
        BY <1>2a, <4>1
      <4> QED BY <1>2, <2>1, <2>3, <4>1, <4>2
    <3> QED BY <3>1, <3>2
  <2>6. ASSUME NEW j \in k .. Len(s) PROVE AtOf(t, j) = AtOf(s, j + 1)
    <3>1. CASE j = Len(s)
      BY <1>1, <2>2, <2>3, <3>1
    <3>2. CASE j # Len(s)
      <4>1. j \in 1 .. Len(s) - 1 /\ ~(j < k) /\ j + 1 \in 1 .. Len(s)
        BY <1>1, <3>2
      <4>2. j \in 1 .. Len(t)
        BY <1>2a, <4>1
      <4> QED BY <1>2, <2>1, <2>3, <4>1, <4>2
    <3> QED BY <3>1, <3>2
  <2> QED BY <2>4, <2>6
<1>8. ASSUME NEW j \in 0 .. Len(t)
      PROVE  nx2[AtOf(t, j)] = AtOf(t, j + 1) /\ pv2[AtOf(t, j + 1)] = AtOf(t, j)
  <2>0. j \in 0 .. Len(s) - 1
    BY <1>2a
  <2>1. CASE j < k - 1
    <3>1. j \in 0 .. k - 1 /\ j + 1 \in 0 .. k - 1 /\ j \in 0 .. Len(s) /\ j + 1 \in 0 .. Len(s) + 1
          /\ j \in 0 .. Len(s) + 1
      BY <1>1, <2>0, <2>1
    <3>2. AtOf(s, j) # p
      BY <1>1, <2>0, <2>1, <3>1, PlacesDiffer DEF RingOf
    <3>3. AtOf(s, j + 1) # q
      BY <1>1, <2>0, <2>1, <3>1, PlacesDiffer DEF RingOf
    <3>4. nx2[AtOf(s, j)] = nx[AtOf(s, j)] /\ pv2[AtOf(s, j + 1)] = pv[AtOf(s, j + 1)]
      BY <1>6, <3>1, <3>2, <3>3, Places
    <3> QED BY <1>7, <3>1, <3>4 DEF RingOf
  <2>2. CASE j = k - 1
    <3>1. j + 1 = k /\ j \in 0 .. k - 1 /\ k \in k .. Len(s)
      BY <1>1, <2>2
    <3>2. AtOf(t, j) = p /\ AtOf(t, j + 1) = q
      BY <1>7, <2>2, <3>1
    <3> QED BY <1>6, <3>2
  <2>4. CASE j > k - 1
    <3>1. j \in k .. Len(s) /\ j + 1 \in k .. Len(s) /\ j + 1 \in 0 .. Len(s)
          /\ j + 1 \in 0 .. Len(s) + 1 /\ (j + 1) + 1 \in 0 .. Len(s) + 1
      BY <1>1, <2>0, <2>4
    <3>2. AtOf(s, j + 1) # p
      BY <1>1, <2>0, <2>4, <3>1, PlacesDiffer DEF RingOf
    <3>3. AtOf(s, (j + 1) + 1) # q
      BY <1>1, <2>0, <2>4, <3>1, PlacesDiffer DEF RingOf
    <3>4. nx2[AtOf(s, j + 1)] = nx[AtOf(s, j + 1)]
          /\ pv2[AtOf(s, (j + 1) + 1)] = pv[AtOf(s, (j + 1) + 1)]
      BY <1>6, <3>1, <3>2, <3>3, Places
    <3>5. nx[AtOf(s, j + 1)] = AtOf(s, (j + 1) + 1) /\ pv[AtOf(s, (j + 1) + 1)] = AtOf(s, j + 1)
      BY <3>1 DEF RingOf
    <3> QED BY <1>7, <3>1, <3>4, <3>5
  <2> QED BY <1>1, <2>0, <2>1, <2>2, <2>4
<1>9. Distinct(t)
  <2>1. \A i, j \in 1 .. Len(s) : s[i] = s[j] => i = j
    BY Places DEF RingOf, Distinct
  <2>2. ASSUME NEW i \in 1 .. Len(s) - 1, NEW j \in 1 .. Len(s) - 1, t[i] = t[j]
        PROVE  i = j
    <3>0. ASSUME NEW m \in 1 .. Len(s) - 1
          PROVE  \E a \in 1 .. Len(s) : t[m] = s[a] /\ ((a = m /\ m < k) \/ (a = m + 1 /\ m >= k))
      <4>1. m \in 1 .. Len(s) /\ m + 1 \in 1 .. Len(s)
        BY <1>1
      <4>2. CASE m < k
        BY <1>2, <4>1, <4>2
      <4>3. CASE m >= k
        <5>1. ~(m < k)
          BY <4>3
        <5> QED BY <1>2, <4>1, <4>3, <5>1
      <4> QED BY <4>2, <4>3
    <3>1. PICK a \in 1 .. Len(s) : t[i] = s[a] /\ ((a = i /\ i < k) \/ (a = i + 1 /\ i >= k))
      BY <3>0
    <3>2. PICK b \in 1 .. Len(s) : t[j] = s[b] /\ ((b = j /\ j < k) \/ (b = j + 1 /\ j >= k))
      BY <3>0
    <3>3. a = b
      BY <2>1, <2>2, <3>1, <3>2
    <3> QED BY <3>1, <3>2, <3>3
  <2> QED BY <1>2, <2>2 DEF Distinct
<1>10. RingOf(nx2, pv2, t)
  BY <1>8, <1>9 DEF RingOf
<1> QED BY <1>3, <1>10 DEF nx2, pv2, t, Bypassed

(* Without its k-th node the order has the other nodes.                    *)
LEMMA RemovedNodes ==
  ASSUME NEW s \in Seq(Node), Distinct(s), NEW k \in 1 .. Len(s)
  PROVE  /\ RemoveFirst(s, s[k]) = RemoveAt(s, k)
         /\ RemoveAt(s, k) \in Seq(Node)
         /\ Len(RemoveAt(s, k)) = Len(s) - 1
         /\ ToSet(RemoveAt(s, k)) = ToSet(s) \ {s[k]}
<1> DEFINE t == RemoveAt(s, k)
<1>1. RemoveFirst(s, s[k]) = t
  BY RemoveFirstPlace DEF Distinct
<1>2. /\ t \in Seq(Node) /\ Len(t) = Len(s) - 1
      /\ \A j \in 1 .. Len(s) - 1 : t[j] = IF j < k THEN s[j] ELSE s[j + 1]
  BY RemoveAtPlaces
<1>2a. Len(t) = Len(s) - 1 /\ Len(s) \in Nat
  BY <1>2
<1> HIDE DEF t
<1>3. \A i, j \in 1 .. Len(s) : s[i] = s[j] => i = j
  BY Places DEF Distinct
<1>4. \A x : x \in ToSet(t) <=> \E i \in 1 .. Len(s) - 1 : t[i] = x
  BY <1>2, <1>2a, ToSetPlaces
<1>5. \A x : x \in ToSet(s) <=> \E i \in 1 .. Len(s) : s[i] = x
  BY ToSetPlaces
<1>6. ASSUME NEW x \in ToSet(t) PROVE x \in ToSet(s) \ {s[k]}
  <2>1. PICK i \in 1 .. Len(s) - 1 : t[i] = x
    BY <1>4
  <2>2. PICK a \in 1 .. Len(s) : t[i] = s[a] /\ a # k
    <3>1. CASE i < k
      <4>1. i \in 1 .. Len(s) /\ i # k
        BY <1>2a, <3>1
      <4> QED BY <1>2, <3>1, <4>1
    <3>2. CASE ~(i < k)
      <4>1. i + 1 \in 1 .. Len(s) /\ i + 1 # k
        BY <1>2a, <3>2
      <4> QED BY <1>2, <3>2, <4>1
    <3> QED BY <3>1, <3>2
  <2> QED BY <1>3, <1>5, <2>1, <2>2
<1>7. ASSUME NEW x \in ToSet(s) \ {s[k]} PROVE x \in ToSet(t)
  <2>1. PICK a \in 1 .. Len(s) : s[a] = x
    BY <1>5
  <2>2. a # k
    BY <2>1
  <2>3. CASE a < k
    <3>1. a \in 1 .. Len(s) - 1
      BY <1>2a, <2>3
    <3>2. t[a] = s[a]
      BY <1>2, <2>3, <3>1
    <3> QED BY <1>4, <2>1, <3>1, <3>2
  <2>4. CASE a > k
    <3>1. a - 1 \in 1 .. Len(s) - 1 /\ ~(a - 1 < k) /\ (a - 1) + 1 = a
      BY <1>2a, <2>4
    <3>2. t[a - 1] = s[a]
      BY <1>2, <3>1
    <3> QED BY <1>4, <2>1, <3>1, <3>2
  <2> QED BY <2>2, <2>3, <2>4
<1>8. ToSet(t) = ToSet(s) \ {s[k]}
  BY <1>6, <1>7
<1> QED BY <1>1, <1>2, <1>8 DEF t

-----------------------------------------------------------------------------
(***************************************************************************)
(* The inductive invariant.  A search has passed what it would have stopped*)
(* at, and an erasure has its iterator behind the node it will find.       *)
(***************************************************************************)
Passes(s, d) ==
  IF s.op = "del"
    THEN ~Hit(s.arg, d, s.cmp)
    ELSE d # Null /\ ~(IF s.cmp THEN <<s.arg, d>> \in Like ELSE s.arg = d)

Scan ==
  search # NoSearch =>
    \E j \in 1 .. Len(order) + 1 :
      search.ent = At(j) /\ \A i \in 1 .. j - 1 : Passes(search, data[order[i]])

Erasing ==
  Searching("del") =>
    IF search.erased = Null
      THEN iter # Null => ~Hit(search.arg, data[iter], search.cmp)
      ELSE /\ search.erased \in ToSet(order) /\ search.arg = data[search.erased]
           /\ iter = Step(next[search.erased])

Shape == TypeOK /\ RingSound /\ BlocksCounted
Cursor == iter # Null => iter \in ToSet(order)
Inv == Shape /\ Cursor /\ Scan /\ Erasing

Searches ==
  [op : {"del", "find"}, ent : Place, arg : Data \cup {Null},
   cmp : BOOLEAN, free : BOOLEAN, erased : Node \cup {Null}]

(* The links of the ring by position.                                      *)
LEMMA Positions ==
  ASSUME Shape
  PROVE  /\ order \in Seq(Node) /\ Len(order) \in Nat /\ DOMAIN order = 1 .. Len(order)
         /\ At(0) = Entries /\ At(Len(order) + 1) = Entries
         /\ next[Entries] = At(1) /\ prev[Entries] = At(Len(order))
         /\ \A i \in 1 .. Len(order) :
              /\ At(i) = order[i] /\ order[i] \in Node /\ order[i] # Entries
              /\ order[i] # Null /\ order[i] \in ToSet(order)
              /\ next[order[i]] = At(i + 1) /\ prev[order[i]] = At(i - 1)
         /\ \A i \in 0 .. Len(order) + 1 : At(i) \in Place
         /\ \A i, j \in 1 .. Len(order) : order[i] = order[j] => i = j
<1>1. order \in Seq(Node) /\ Len(order) \in Nat
  BY DEF Shape, TypeOK
<1>2. \A i : At(i) = AtOf(order, i)
  BY DEF At, AtOf
<1>3. /\ DOMAIN order = 1 .. Len(order)
      /\ At(0) = Entries /\ At(Len(order) + 1) = Entries
      /\ \A i \in 1 .. Len(order) : At(i) = order[i] /\ order[i] \in Node /\ order[i] # Entries
      /\ \A i \in 0 .. Len(order) + 1 : At(i) \in Place
  BY <1>1, <1>2, Places
<1>4. \A i \in 0 .. Len(order) : next[At(i)] = At(i + 1) /\ prev[At(i + 1)] = At(i)
  BY DEF Shape, RingSound
<1>5. next[Entries] = At(1) /\ prev[Entries] = At(Len(order))
  <2>1. 0 \in 0 .. Len(order) /\ Len(order) \in 0 .. Len(order) /\ 0 + 1 = 1
    BY <1>1
  <2> QED BY <1>3, <1>4, <2>1
<1>6. ASSUME NEW i \in 1 .. Len(order)
      PROVE  /\ next[order[i]] = At(i + 1) /\ prev[order[i]] = At(i - 1)
             /\ order[i] # Null /\ order[i] \in ToSet(order)
  <2>1. i \in 0 .. Len(order) /\ i - 1 \in 0 .. Len(order) /\ (i - 1) + 1 = i
    BY <1>1
  <2>2. prev[At((i - 1) + 1)] = At(i - 1)
    BY <1>4, <2>1
  <2>3. order[i] # Null
    BY <1>3, ListAssumption
  <2>4. order[i] \in ToSet(order)
    BY <1>1, ToSetPlaces
  <2> QED BY <1>3, <1>4, <2>1, <2>2, <2>3, <2>4
<1>7. \A i, j \in 1 .. Len(order) : order[i] = order[j] => i = j
  BY <1>3 DEF Shape, RingSound
<1> QED BY <1>1, <1>3, <1>5, <1>6, <1>7

(* Every node of the ring has a position.                                  *)
LEMMA Position ==
  ASSUME Shape, NEW n \in ToSet(order)
  PROVE  \E i \in 1 .. Len(order) : order[i] = n /\ At(i) = n
<1>1. order \in Seq(Node)
  BY DEF Shape, TypeOK
<1>2. PICK i \in 1 .. Len(order) : order[i] = n
  BY <1>1, ToSetPlaces
<1> QED BY <1>2, Positions

(* A step from a place of the ring leads to a node of it or nowhere.       *)
LEMMA StepStays ==
  ASSUME Shape, NEW p \in ToSet(order) \cup {Entries}
  PROVE  /\ next[p] \in ToSet(order) \cup {Entries}
         /\ prev[p] \in ToSet(order) \cup {Entries}
<1>1. Len(order) \in Nat
  BY Positions
<1>2. \A i \in 0 .. Len(order) + 1 : At(i) \in ToSet(order) \cup {Entries}
  <2> SUFFICES ASSUME NEW i \in 0 .. Len(order) + 1
               PROVE  At(i) \in ToSet(order) \cup {Entries}
    OBVIOUS
  <2>1. i = 0 \/ i = Len(order) + 1 \/ i \in 1 .. Len(order)
    BY <1>1
  <2> QED BY <2>1, Positions
<1>3. CASE p = Entries
  <2>1. 1 \in 0 .. Len(order) + 1 /\ Len(order) \in 0 .. Len(order) + 1
    BY <1>1
  <2> QED BY <1>2, <1>3, <2>1, Positions
<1>4. CASE p \in ToSet(order)
  <2>1. PICK i \in 1 .. Len(order) : order[i] = p
    BY <1>4, Position
  <2>2. i - 1 \in 0 .. Len(order) + 1 /\ i + 1 \in 0 .. Len(order) + 1
    BY <1>1
  <2> QED BY <1>2, <2>1, <2>2, Positions
<1> QED BY <1>3, <1>4

(* Steps that leave the ring and the blocks alone keep the shape.          *)
LEMMA ShapeKept ==
  ASSUME Shape, UNCHANGED <<ring, heap, freeing>>,
         eraseFn' \in BOOLEAN, iter' \in Node \cup {Null},
         search' \in {NoSearch} \cup Searches,
         answer' \in {0, 1, Null} \cup Data
  PROVE  Shape'
<1>1. TypeOK'
  BY DEF Shape, TypeOK, ring, heap, Searches
<1>2. RingSound'
  BY DEF Shape, RingSound, At, ring
<1>3. BlocksCounted'
  BY DEF Shape, BlocksCounted, ring, heap
<1> QED BY <1>1, <1>2, <1>3 DEF Shape

(* Without a search there is nothing to say of one.                        *)
LEMMA Idle ==
  ASSUME search' = NoSearch
  PROVE  Scan' /\ Erasing'
BY DEF Scan, Erasing, Searching

LEMMA InsertRefusedKeeps == Inv /\ InsertRefused => Inv'
<1> SUFFICES ASSUME Inv, InsertRefused PROVE Inv'
  OBVIOUS
<1>1. Shape'
  BY ShapeKept DEF Inv, Shape, TypeOK, InsertRefused, Searches
<1>2. Cursor'
  BY DEF Inv, Cursor, InsertRefused, ring
<1> QED BY <1>1, <1>2, Idle DEF Inv, InsertRefused, ClientRuns

LEMMA CtrlKeeps == ASSUME NEW on \in BOOLEAN PROVE Inv /\ Ctrl(on) => Inv'
<1> SUFFICES ASSUME Inv, Ctrl(on) PROVE Inv'
  OBVIOUS
<1>1. Shape'
  BY ShapeKept DEF Inv, Shape, TypeOK, Ctrl, Searches
<1>2. Cursor'
  BY DEF Inv, Cursor, Ctrl, ring
<1> QED BY <1>1, <1>2, Idle DEF Inv, Ctrl, ClientRuns

(* The iterator moves along the ring.                                      *)
LEMMA MoveToKeeps ==
  ASSUME NEW p \in ToSet(order) \cup {Entries}
  PROVE  Inv /\ MoveTo(p) => Inv'
<1> SUFFICES ASSUME Inv, MoveTo(p) PROVE Inv'
  OBVIOUS
<1>1. order \in Seq(Node) /\ ToSet(order) \subseteq Node
  BY ToSetPlaces DEF Inv, Shape, TypeOK
<1>2. iter' \in ToSet(order) \cup {Null}
  BY DEF MoveTo, Step
<1>3. Shape'
  BY <1>1, <1>2, ShapeKept DEF Inv, Shape, TypeOK, MoveTo, Searches
<1>4. Cursor'
  BY <1>2 DEF Cursor, MoveTo, ring
<1> QED BY <1>3, <1>4, Idle DEF Inv, MoveTo, ClientRuns

-----------------------------------------------------------------------------
(* Searches.                                                               *)

(* A search begins at the head of the ring.                                *)
LEMMA SearchStarts ==
  ASSUME Inv, UNCHANGED ring, search' \in Searches, search'.ent = next[Entries]
  PROVE  Scan'
<1>1. next[Entries] = At(1) /\ Len(order) \in Nat
  BY Positions DEF Inv
<1>2. 1 \in 1 .. Len(order) + 1
  BY <1>1
<1>3. \A i \in 1 .. 1 - 1 : FALSE
  OBVIOUS
<1>4. At(1)' = At(1) /\ order' = order
  BY DEF At, ring
<1>5. search'.ent = At(1)'
  BY <1>1, <1>4
<1>6. 1 \in 1 .. Len(order') + 1
  BY <1>2, <1>4
<1> QED BY <1>3, <1>5, <1>6 DEF Scan

LEMMA DeleteKeeps ==
  ASSUME NEW arg \in Data \cup {Null}, NEW cmp \in BOOLEAN, NEW free \in BOOLEAN
  PROVE  Inv /\ Delete(arg, cmp, free) => Inv'
<1> SUFFICES ASSUME Inv, Delete(arg, cmp, free) PROVE Inv'
  OBVIOUS
<1>1. search' = [op |-> "del", ent |-> next[Entries], arg |-> arg, cmp |-> cmp,
                 free |-> free, erased |-> Null]
  BY DEF Delete, StartDel
<1>2. next[Entries] \in Place
  <2>1. Entries \in ToSet(order) \cup {Entries}
    OBVIOUS
  <2>2. next[Entries] \in ToSet(order) \cup {Entries}
    BY <2>1, StepStays DEF Inv
  <2>3. ToSet(order) \subseteq Node
    BY ToSetPlaces DEF Inv, Shape, TypeOK
  <2> QED BY <2>2, <2>3 DEF Place
<1>3. search' \in Searches
  BY <1>1, <1>2 DEF Searches
<1>4. Shape'
  BY <1>3, ShapeKept DEF Inv, Shape, TypeOK, Delete
<1>5. Cursor' /\ Scan'
  BY <1>1, <1>3, SearchStarts DEF Inv, Cursor, Delete, ring
<1>6. Erasing'
  BY <1>1 DEF Erasing, Delete, ring
<1> QED BY <1>4, <1>5, <1>6 DEF Inv

LEMMA FindKeeps ==
  ASSUME NEW arg \in Data, NEW cmp \in BOOLEAN
  PROVE  Inv /\ Find(arg, cmp) => Inv'
<1> SUFFICES ASSUME Inv, Find(arg, cmp) PROVE Inv'
  OBVIOUS
<1>1. search' = [op |-> "find", ent |-> next[Entries], arg |-> arg, cmp |-> cmp,
                 free |-> FALSE, erased |-> Null]
  BY DEF Find
<1>2. next[Entries] \in Place
  <2>1. Entries \in ToSet(order) \cup {Entries}
    OBVIOUS
  <2>2. next[Entries] \in ToSet(order) \cup {Entries}
    BY <2>1, StepStays DEF Inv
  <2>3. ToSet(order) \subseteq Node
    BY ToSetPlaces DEF Inv, Shape, TypeOK
  <2> QED BY <2>2, <2>3 DEF Place
<1>3. search' \in Searches
  BY <1>1, <1>2 DEF Searches
<1>4. Shape'
  BY <1>3, ShapeKept DEF Inv, Shape, TypeOK, Find
<1>5. Cursor' /\ Scan'
  BY <1>1, <1>3, SearchStarts DEF Inv, Cursor, Find, ring
<1>6. Erasing'
  BY <1>1 DEF Erasing, Searching
<1> QED BY <1>4, <1>5, <1>6 DEF Inv

(* mcl_def_list_iter_erase: the iterator is behind the node it erases.     *)
LEMMA IterEraseKeeps == Inv /\ IterErase => Inv'
<1> SUFFICES ASSUME Inv, IterErase PROVE Inv'
  OBVIOUS
<1>1. search' = [op |-> "del", ent |-> next[Entries], arg |-> data[iter], cmp |-> FALSE,
                 free |-> eraseFn, erased |-> iter]
  BY DEF IterErase, StartDel
<1>2. iter \in ToSet(order) /\ ToSet(order) \subseteq Node /\ iter # Null
  BY ToSetPlaces DEF Inv, Shape, TypeOK, Cursor, IterErase
<1>3. next[Entries] \in ToSet(order) \cup {Entries} /\ next[iter] \in ToSet(order) \cup {Entries}
  <2>1. Entries \in ToSet(order) \cup {Entries} /\ iter \in ToSet(order) \cup {Entries}
    BY <1>2
  <2> QED BY <2>1, StepStays DEF Inv
<1>4. search' \in Searches
  <2>1. next[Entries] \in Place
    BY <1>2, <1>3 DEF Place
  <2>2. data[iter] \in Data \cup {Null} /\ eraseFn \in BOOLEAN
    BY <1>2 DEF Inv, Shape, TypeOK
  <2> QED BY <1>1, <1>2, <2>1, <2>2 DEF Searches
<1>5. iter' = Step(next[iter]) /\ iter' \in ToSet(order) \cup {Null}
  BY <1>3 DEF IterErase, Step
<1>6. Shape'
  BY <1>2, <1>4, <1>5, ShapeKept DEF Inv, Shape, TypeOK, IterErase
<1>7. Cursor' /\ Scan'
  BY <1>1, <1>4, <1>5, SearchStarts DEF Cursor, IterErase, ring
<1>8. Erasing'
  <2>1. search'.erased = iter /\ search'.arg = data[iter]
    BY <1>1
  <2>2. data' = data /\ order' = order /\ next' = next
    BY DEF IterErase, ring
  <2> QED BY <1>2, <1>5, <2>1, <2>2 DEF Erasing, Step
<1> QED BY <1>6, <1>7, <1>8 DEF Inv

(* What a search asks for stays the same from node to node.                *)
LEMMA GoesOn ==
  ASSUME Inv, search # NoSearch, AtNode, Passes(search, data[search.ent]),
         search' = [search EXCEPT !.ent = next[@]], UNCHANGED <<ring, heap, eraseFn, iter, freeing, answer>>
  PROVE  Inv'
<1>1. search \in Searches
  BY DEF Inv, Shape, TypeOK, Searches
<1>2. PICK j \in 1 .. Len(order) + 1 :
        search.ent = At(j) /\ \A i \in 1 .. j - 1 : Passes(search, data[order[i]])
  BY DEF Inv, Scan
<1>3. j \in 1 .. Len(order) /\ Len(order) \in Nat /\ search.ent = order[j] /\ next[search.ent] = At(j + 1)
  <2>1. j # Len(order) + 1 /\ Len(order) \in Nat
    BY <1>2, Positions DEF Inv, AtNode
  <2>2. j \in 1 .. Len(order)
    BY <2>1
  <2> QED BY <1>2, <2>1, <2>2, Positions DEF Inv
<1>4. At(j + 1) \in Place
  <2>1. j + 1 \in 0 .. Len(order) + 1
    BY <1>3
  <2> QED BY <2>1, Positions DEF Inv
<1>5. /\ search'.op = search.op /\ search'.arg = search.arg /\ search'.cmp = search.cmp
      /\ search'.erased = search.erased /\ search'.ent = At(j + 1)
  BY <1>1, <1>3 DEF Searches
<1>6. search' \in Searches
  BY <1>1, <1>3, <1>4 DEF Searches
<1>7. Shape'
  BY <1>6, ShapeKept DEF Inv, Shape, TypeOK
<1>8. Cursor'
  BY DEF Inv, Cursor, ring
<1>9. Scan'
  <2>1. order' = order /\ data' = data /\ At(j + 1)' = At(j + 1)
    BY DEF ring, At
  <2>2. j + 1 \in 1 .. Len(order) + 1
    BY <1>3
  <2>3. ASSUME NEW i \in 1 .. (j + 1) - 1 PROVE Passes(search, data[order[i]])
    <3>1. i \in 1 .. j - 1 \/ i = j
      BY <1>3
    <3> QED BY <1>2, <1>3, <3>1
  <2>4. ASSUME NEW i \in 1 .. (j + 1) - 1 PROVE Passes(search, data[order[i]])'
    <3>1. Passes(search, data[order[i]])
      BY <2>3
    <3> QED BY <1>5, <2>1, <3>1 DEF Passes
  <2>5. search'.ent = At(j + 1)' /\ j + 1 \in 1 .. Len(order') + 1
    BY <1>5, <2>1, <2>2
  <2> QED BY <2>4, <2>5 DEF Scan
<1>10. Erasing'
  <2>1. order' = order /\ data' = data /\ next' = next
    BY DEF ring
  <2>2. Searching("del")' => Searching("del")
    BY <1>5 DEF Searching
  <2> QED BY <1>5, <2>1, <2>2 DEF Inv, Erasing, Step
<1> QED BY <1>7, <1>8, <1>9, <1>10 DEF Inv

LEMMA DelNextKeeps == Inv /\ DelNext => Inv'
<1> SUFFICES ASSUME Inv, DelNext PROVE Inv'
  OBVIOUS
<1>1. search # NoSearch /\ Passes(search, data[search.ent])
  BY DEF DelNext, Searching, DelHit, Passes
<1> QED BY <1>1, GoesOn DEF DelNext

LEMMA FindNextKeeps == Inv /\ FindNext => Inv'
<1> SUFFICES ASSUME Inv, FindNext PROVE Inv'
  OBVIOUS
<1>1. search # NoSearch /\ Passes(search, data[search.ent])
  BY DEF FindNext, Searching, FindHit, Passes
<1> QED BY <1>1, GoesOn DEF FindNext

(* A search that ends leaves everything else as it was.                    *)
LEMMA EndKeeps ==
  ASSUME Inv, search' = NoSearch, answer' \in {0, Null} \cup Data,
         UNCHANGED <<ring, heap, eraseFn, iter, freeing>>
  PROVE  Inv'
<1>1. Shape'
  BY ShapeKept DEF Inv, Shape, TypeOK
<1>2. Cursor'
  BY DEF Inv, Cursor, ring
<1> QED BY <1>1, <1>2, Idle DEF Inv

(* The node a search stands on.                                            *)
LEMMA EntryOfSearch ==
  ASSUME Inv, search # NoSearch
  PROVE  /\ search \in Searches
         /\ \E j \in 1 .. Len(order) + 1 :
              /\ search.ent = At(j)
              /\ AtNode <=> j \in 1 .. Len(order)
              /\ AtNode => search.ent = order[j]
              /\ \A i \in 1 .. j - 1 : Passes(search, data[order[i]])
<1>1. search \in Searches
  BY DEF Inv, Shape, TypeOK, Searches
<1>2. PICK j \in 1 .. Len(order) + 1 :
        search.ent = At(j) /\ \A i \in 1 .. j - 1 : Passes(search, data[order[i]])
  BY DEF Inv, Scan
<1>3. j = Len(order) + 1 \/ j \in 1 .. Len(order)
  BY Positions DEF Inv
<1>4. j \in 1 .. Len(order) => j # Len(order) + 1
  BY Positions DEF Inv
<1>5. AtNode <=> j \in 1 .. Len(order)
  BY <1>2, <1>3, <1>4, Positions DEF Inv, AtNode
<1>6. AtNode => search.ent = order[j]
  BY <1>2, <1>5, Positions DEF Inv
<1> QED BY <1>1, <1>2, <1>5, <1>6

LEMMA EndsKeep == Inv /\ (DelFails \/ FindEnds \/ FindStops) => Inv'
<1> SUFFICES ASSUME Inv, DelFails \/ FindEnds \/ FindStops PROVE Inv'
  OBVIOUS
<1>1. CASE DelFails
  BY <1>1, EndKeeps DEF DelFails
<1>2. CASE FindEnds
  BY <1>2, EndKeeps DEF FindEnds, FindReturns
<1>3. CASE FindStops
  <2>1. search # NoSearch /\ AtNode
    BY <1>3 DEF FindStops, Searching
  <2>2. search.ent \in Node
    BY <2>1, EntryOfSearch DEF Searches, Place, AtNode
  <2>3. data[search.ent] \in Data \cup {Null}
    BY <2>2 DEF Inv, Shape, TypeOK
  <2> QED BY <1>3, <2>3, EndKeeps DEF FindStops, FindReturns
<1> QED BY <1>1, <1>2, <1>3

-----------------------------------------------------------------------------
(* Insertions, deletions and the free functions.                           *)

LEMMA InsertionKeeps ==
  ASSUME Inv, ClientRuns, size < MaxListSize,
         NEW n \in Node, n \notin alive, NEW d \in Data \cup {Null},
         NEW k \in 0 .. Len(order),
         Link(n, At(k), At(k + 1)), order' = InsertAt(order, k + 1, n), Created(n, d)
  PROVE  Inv'
<1>1. /\ order \in Seq(Node) /\ Len(order) \in Nat /\ next \in Links /\ prev \in Links
      /\ n \notin ToSet(order) /\ n \notin ToSet(freeing) /\ k + 1 \in 1 .. Len(order) + 1
      /\ RingOf(next, prev, order)
  BY RingSoundIsRing, Positions DEF Inv, Shape, TypeOK, Links, BlocksCounted
<1>2. At(k) = AtOf(order, k) /\ At(k + 1) = AtOf(order, k + 1)
      /\ At(k) \in Place /\ At(k + 1) \in Place
  <2>1. k \in 0 .. Len(order) + 1 /\ k + 1 \in 0 .. Len(order) + 1
    BY <1>1
  <2> QED BY <2>1, Positions DEF Inv, At, AtOf
<1>3. RingOf(next', prev', order')
  BY <1>1, <1>2, RingInsert DEF Link
<1>4. \A i \in 1 .. Len(order) + 1 :
        /\ InsertAt(order, i, n) \in Seq(Node) /\ Len(InsertAt(order, i, n)) = Len(order) + 1
        /\ ToSet(InsertAt(order, i, n)) = ToSet(order) \cup {n}
  <2>1. \A i \in 1 .. Len(order) + 1 :
          InsertAt(order, i, n) \in Seq(Node) /\ IsInsertion(InsertAt(order, i, n), order, i, n)
    BY <1>1, InsertAtIs
  <2> QED BY <1>1, <2>1, InsertAtSet DEF IsInsertion
<1>5. /\ order' \in Seq(Node) /\ Len(order') = Len(order) + 1
      /\ ToSet(order') = ToSet(order) \cup {n}
  BY <1>1, <1>4
<1>6. TypeOK'
  <2>1. next' \in Links /\ prev' \in Links
    BY <1>1, <1>2 DEF Link, Links, Place
  <2>2. data' \in [Node -> Data \cup {Null}] /\ alive' \subseteq Node
    BY DEF Inv, Shape, TypeOK, Created
  <2>3. size' \in 0 .. MaxListSize
    <3>1. \A t \in Nat, m \in Nat : t < m => t + 1 \in 0 .. m
      OBVIOUS
    <3>2. size \in Nat /\ MaxListSize \in Nat /\ size' = size + 1
      BY ListAssumption DEF Inv, Shape, TypeOK, Created
    <3> QED BY <3>1, <3>2
  <2>4. answer' = 1 /\ UNCHANGED <<eraseFn, iter, search, freeing>>
    BY DEF Created
  <2> QED BY <1>5, <2>1, <2>2, <2>3, <2>4 DEF Inv, Shape, TypeOK, Links
<1>7. RingSound'
  BY <1>3 DEF RingSound, RingOf, At, AtOf, Distinct
<1>8. BlocksCounted'
  <2>1. alive' = alive \cup {n} /\ size' = size + 1 /\ freeing' = freeing
    BY DEF Created
  <2>2. Len(freeing) \in Nat
    BY DEF Inv, Shape, TypeOK
  <2>3. /\ alive = ToSet(order) \cup ToSet(freeing) /\ size = Len(order) + Len(freeing)
        /\ \A i, j \in DOMAIN freeing : freeing[i] = freeing[j] => i = j
        /\ \A i \in DOMAIN freeing : freeing[i] \notin ToSet(order)
    BY DEF Inv, Shape, BlocksCounted
  <2>4. \A i \in DOMAIN freeing : freeing[i] \in ToSet(freeing)
    BY DEF ToSet
  <2>5. size' = Len(order') + Len(freeing')
    BY <1>1, <1>5, <2>1, <2>2, <2>3
  <2>6. alive' = ToSet(order') \cup ToSet(freeing')
    BY <1>5, <2>1, <2>3
  <2>7. \A i \in DOMAIN freeing : freeing[i] \notin ToSet(order')
    BY <1>1, <1>5, <2>3, <2>4
  <2> QED BY <2>1, <2>3, <2>5, <2>6, <2>7 DEF BlocksCounted
<1>9. Cursor'
  BY <1>5 DEF Inv, Cursor, Created
<1> QED BY <1>6, <1>7, <1>8, <1>9, Idle DEF Inv, Shape, Created, ClientRuns

LEMMA InsertKeeps ==
  ASSUME NEW n \in Node, NEW d \in Data \cup {Null}
  PROVE  Inv /\ (Insert(n, d) \/ InsertTail(n, d)) => Inv'
<1> SUFFICES ASSUME Inv, Insert(n, d) \/ InsertTail(n, d) PROVE Inv'
  OBVIOUS
<1>1. /\ order \in Seq(Node) /\ Len(order) \in Nat
      /\ At(0) = Entries /\ next[Entries] = At(1)
      /\ At(Len(order) + 1) = Entries /\ prev[Entries] = At(Len(order))
  BY Positions DEF Inv
<1>2. /\ <<n>> \o order = InsertAt(order, 1, n)
      /\ Append(order, n) = InsertAt(order, Len(order) + 1, n)
  BY <1>1, InsertAtEnds
<1>3. CASE Insert(n, d)
  <2>1. 0 \in 0 .. Len(order) /\ 0 + 1 = 1
    BY <1>1
  <2>2. Link(n, At(0), At(0 + 1)) /\ order' = InsertAt(order, 0 + 1, n)
    BY <1>1, <1>2, <1>3, <2>1 DEF Insert
  <2> QED BY <1>3, <2>1, <2>2, InsertionKeeps DEF Insert
<1>4. CASE InsertTail(n, d)
  <2>1. Len(order) \in 0 .. Len(order)
    BY <1>1
  <2>2. Link(n, At(Len(order)), At(Len(order) + 1)) /\ order' = InsertAt(order, Len(order) + 1, n)
    BY <1>1, <1>2, <1>4 DEF InsertTail
  <2> QED BY <1>4, <2>1, <2>2, InsertionKeeps DEF InsertTail
<1> QED BY <1>3, <1>4

(* A deletion never finds the node of the iterator.                        *)
LEMMA HitElsewhere ==
  ASSUME Inv, Searching("del"), AtNode, DelHit
  PROVE  search.ent # iter
<1>1. PICK j \in 1 .. Len(order) :
        search.ent = order[j] /\ \A i \in 1 .. j - 1 : Passes(search, data[order[i]])
  BY EntryOfSearch DEF Searching
<1>2. CASE search.erased = Null
  <2>1. iter # Null => ~Hit(search.arg, data[iter], search.cmp)
    BY <1>2 DEF Inv, Erasing
  <2>2. search.ent # Null
    BY <1>1, Positions DEF Inv
  <2> QED BY <2>1, <2>2 DEF DelHit
<1>3. CASE search.erased # Null
  <2>1. /\ search.erased \in ToSet(order) /\ search.arg = data[search.erased]
        /\ iter = Step(next[search.erased])
    BY <1>3 DEF Inv, Erasing
  <2>2. PICK m \in 1 .. Len(order) : order[m] = search.erased
    BY <2>1, Position DEF Inv
  <2>3. ~Passes(search, data[order[m]])
    BY <2>1, <2>2 DEF Passes, Hit, Searching
  <2>4. Len(order) \in Nat
    BY Positions DEF Inv
  <2>5. j <= m
    BY <1>1, <2>3, <2>4
  <2>6. next[search.erased] = At(m + 1)
    BY <2>2, Positions DEF Inv
  <2>7. CASE m = Len(order)
    <3>1. iter = Null
      BY <2>1, <2>6, <2>7, Positions DEF Inv, Step
    <3> QED BY <1>1, <3>1, Positions DEF Inv
  <2>8. CASE m # Len(order)
    <3>1. m + 1 \in 1 .. Len(order) /\ m + 1 # j
      BY <2>4, <2>5, <2>8
    <3>2. iter = order[m + 1]
      BY <2>1, <2>6, <3>1, Positions DEF Inv, Step
    <3> QED BY <1>1, <3>1, <3>2, Positions DEF Inv
  <2> QED BY <2>7, <2>8
<1> QED BY <1>2, <1>3

(* HANDLE_ELEM takes one node out of the ring and of the order.            *)
LEMMA UnlinkedRing ==
  ASSUME Inv, Unlink
  PROVE  LET n == search.ent IN
         /\ n \in ToSet(order) /\ n # iter /\ n \in Node
         /\ order' \in Seq(Node) /\ Len(order') = Len(order) - 1
         /\ ToSet(order') = ToSet(order) \ {n}
         /\ \E k \in 1 .. Len(order) : order[k] = n /\ order' = RemoveAt(order, k)
         /\ RingOf(next', prev', order') /\ next' \in Links /\ prev' \in Links
<1> DEFINE n == search.ent
           forward == Bypassed(next, prev[n], next[n])
           back == Bypassed(prev, next[n], prev[n])
<1>1. PICK k \in 1 .. Len(order) : n = order[k]
  BY EntryOfSearch DEF Unlink, Searching
<1>2. /\ order \in Seq(Node) /\ Len(order) \in Nat /\ next \in Links /\ prev \in Links
      /\ RingOf(next, prev, order) /\ Distinct(order)
      /\ order[k] \in Node /\ order[k] \in ToSet(order) /\ order[k] # Entries
  BY RingSoundIsRing, Positions DEF Inv, Shape, TypeOK, Links, RingOf
<1>3. order' = RemoveAt(order, k)
  <2>1. RemoveFirst(order, order[k]) = RemoveAt(order, k)
    BY <1>2, RemovedNodes
  <2> QED BY <1>1, <2>1 DEF Unlink, Dropped
<1>4. /\ order' \in Seq(Node) /\ Len(order') = Len(order) - 1
      /\ ToSet(order') = ToSet(order) \ {n}
  BY <1>1, <1>2, <1>3, RemovedNodes
<1>5. RingOf(forward, back, order')
  <2>1. RingOf(Bypassed(next, prev[order[k]], next[order[k]]),
               Bypassed(prev, next[order[k]], prev[order[k]]), RemoveAt(order, k))
    BY <1>2, RingRemove
  <2> QED BY <1>1, <1>3, <2>1
<1>6. next[n] \in Place /\ prev[n] \in Place
  <2>1. k + 1 \in 0 .. Len(order) + 1 /\ k - 1 \in 0 .. Len(order) + 1
    BY <1>2
  <2> QED BY <1>1, <2>1, Positions DEF Inv
<1>7. forward \in Links /\ back \in Links
  BY <1>2, <1>6 DEF Links, Bypassed
<1> HIDE DEF forward, back
<1>8. RingOf(next', prev', order') /\ next' \in Links /\ prev' \in Links
  <2>1. CASE search.free /\ data[n] # Null
    <3>1. next' = forward /\ prev' = back
      BY <2>1 DEF Unlink, forward, back
    <3> QED BY <1>5, <1>7, <3>1
  <2>2. CASE ~(search.free /\ data[n] # Null)
    <3>1. next' = Wiped(forward, n) /\ prev' = Wiped(back, n)
      BY <2>2 DEF Unlink, forward, back
    <3>2. \A i \in 0 .. Len(order') + 1 : AtOf(order', i) # n
      <4>1. n # Entries /\ n \notin ToSet(order')
        BY <1>1, <1>2, <1>4
      <4>2. DOMAIN order' = 1 .. Len(order')
        BY <1>4
      <4> QED BY <1>4, <4>1, <4>2, ToSetPlaces DEF AtOf
    <3>3. \A x \in Place : x # n => Wiped(forward, n)[x] = forward[x] /\ Wiped(back, n)[x] = back[x]
      BY <1>7 DEF Links, Wiped
    <3>4. \A i \in 0 .. Len(order') + 1 : AtOf(order', i) \in Place
      BY <1>4, Places
    <3>5. RingOf(Wiped(forward, n), Wiped(back, n), order')
      BY <1>4, <1>5, <3>2, <3>3, <3>4, RingElsewhere
    <3>6. Wiped(forward, n) \in Links /\ Wiped(back, n) \in Links
      BY <1>7 DEF Links, Wiped
    <3> QED BY <3>1, <3>5, <3>6
  <2> QED BY <2>1, <2>2
<1>9. n # iter
  BY HitElsewhere DEF Unlink
<1> QED BY <1>1, <1>2, <1>3, <1>4, <1>8, <1>9

LEMMA UnlinkKeeps == Inv /\ Unlink => Inv'
<1> SUFFICES ASSUME Inv, Unlink PROVE Inv'
  OBVIOUS
<1> DEFINE n == search.ent
           calls == search.free /\ data[n] # Null
<1>1. /\ n \in ToSet(order) /\ n # iter /\ n \in Node
      /\ order' \in Seq(Node) /\ Len(order') = Len(order) - 1
      /\ ToSet(order') = ToSet(order) \ {n}
      /\ RingOf(next', prev', order') /\ next' \in Links /\ prev' \in Links
  BY UnlinkedRing
<1>2. /\ order \in Seq(Node) /\ Len(order) \in Nat /\ freeing \in Seq(Node)
      /\ Len(freeing) \in Nat /\ Len(order') \in Nat
  BY <1>1 DEF Inv, Shape, TypeOK
<1>3. /\ alive = ToSet(order) \cup ToSet(freeing) /\ size = Len(order) + Len(freeing)
      /\ \A i, j \in DOMAIN freeing : freeing[i] = freeing[j] => i = j
      /\ \A i \in DOMAIN freeing : freeing[i] \notin ToSet(order)
  BY DEF Inv, Shape, BlocksCounted
<1>4. n \notin ToSet(freeing) /\ \A i \in DOMAIN freeing : freeing[i] # n
  BY <1>1, <1>3 DEF ToSet
<1>5. search' = NoSearch /\ UNCHANGED <<eraseFn, iter>>
  BY DEF Unlink
<1>6. ASSUME calls PROVE TypeOK' /\ BlocksCounted'
  <2>1. freeing' = <<n>> \o freeing /\ UNCHANGED <<data, alive, size, answer>>
    BY <1>6 DEF Unlink, heap
  <2>2. /\ freeing' \in Seq(Node) /\ Len(freeing') = Len(freeing) + 1
        /\ freeing'[1] = n /\ \A j \in 1 .. Len(freeing) : freeing'[j + 1] = freeing[j]
    BY <1>1, <1>2, <2>1, ConsPlaces
  <2>3. ToSet(freeing') = ToSet(freeing) \cup {n}
    <3>1. 1 \in 1 .. Len(freeing) + 1
      BY <1>2
    <3>2. ToSet(InsertAt(freeing, 1, n)) = ToSet(freeing) \cup {n}
      BY <1>1, <1>2, <3>1, InsertAtSet
    <3>3. <<n>> \o freeing = InsertAt(freeing, 1, n)
      BY <1>1, <1>2, InsertAtEnds
    <3> QED BY <2>1, <3>2, <3>3
  <2>4. TypeOK'
    BY <1>1, <1>5, <2>1, <2>2 DEF Inv, Shape, TypeOK, Links
  <2>5. \A i \in DOMAIN freeing' : i = 1 \/ (i - 1 \in DOMAIN freeing /\ freeing'[i] = freeing[i - 1])
    <3>1. ASSUME NEW i \in DOMAIN freeing', i # 1
          PROVE  i - 1 \in DOMAIN freeing /\ freeing'[i] = freeing[i - 1]
      <4>1. i - 1 \in 1 .. Len(freeing) /\ (i - 1) + 1 = i
        BY <1>2, <2>2, <3>1
      <4>2. freeing'[(i - 1) + 1] = freeing[i - 1]
        BY <2>2, <4>1
      <4> QED BY <1>2, <4>1, <4>2
    <3> QED BY <3>1
  <2>6. \A i, j \in DOMAIN freeing' : freeing'[i] = freeing'[j] => i = j
    <3>1. ASSUME NEW i \in DOMAIN freeing', NEW j \in DOMAIN freeing', freeing'[i] = freeing'[j]
          PROVE  i = j
      <4>0. i \in Nat /\ j \in Nat
        BY <2>2
      <4>1. CASE i = 1 \/ j = 1
        BY <1>4, <2>2, <2>5, <3>1, <4>1
      <4>2. CASE i # 1 /\ j # 1
        <5>1. i - 1 = j - 1
          BY <1>3, <2>5, <3>1, <4>2
        <5> QED BY <4>0, <5>1
      <4> QED BY <4>1, <4>2
    <3> QED BY <3>1
  <2>7. \A i \in DOMAIN freeing' : freeing'[i] \notin ToSet(order')
    BY <1>1, <1>3, <2>2, <2>5
  <2>8. alive' = ToSet(order') \cup ToSet(freeing') /\ size' = Len(order') + Len(freeing')
    <3>1. alive' = ToSet(order') \cup ToSet(freeing')
      BY <1>1, <1>3, <2>1, <2>3
    <3>2. size' = Len(order') + Len(freeing')
      BY <1>1, <1>2, <1>3, <2>1, <2>2
    <3> QED BY <3>1, <3>2
  <2>9. BlocksCounted'
    BY <2>6, <2>7, <2>8 DEF BlocksCounted
  <2> QED BY <2>4, <2>9
<1>7. ASSUME ~calls PROVE TypeOK' /\ BlocksCounted'
  <2>1. /\ data' = Wiped(data, n) /\ alive' = alive \ {n} /\ size' = size - 1
        /\ answer' = 1 /\ freeing' = freeing
    BY <1>7 DEF Unlink, FreeNode
  <2>2. size' = Len(order') + Len(freeing')
    BY <1>1, <1>2, <1>3, <2>1
  <2>3. size' \in 0 .. MaxListSize
    <3>1. size' \in Nat /\ size' <= size
      BY <1>1, <1>2, <1>3, <2>1, <2>2
    <3>2. size \in 0 .. MaxListSize
      BY DEF Inv, Shape, TypeOK
    <3> QED BY <3>1, <3>2, ListAssumption
  <2>4. data' \in [Node -> Data \cup {Null}]
    BY <2>1 DEF Inv, Shape, TypeOK, Wiped
  <2>5. TypeOK'
    BY <1>1, <1>5, <2>1, <2>3, <2>4 DEF Inv, Shape, TypeOK, Links
  <2>6. alive' = ToSet(order') \cup ToSet(freeing')
    BY <1>1, <1>3, <1>4, <2>1
  <2>7. BlocksCounted'
    BY <1>1, <1>3, <2>1, <2>2, <2>6 DEF BlocksCounted
  <2> QED BY <2>5, <2>7
<1>8. RingSound'
  BY <1>1 DEF RingSound, RingOf, At, AtOf, Distinct
<1>9. Cursor'
  BY <1>1, <1>5 DEF Inv, Cursor
<1> QED BY <1>5, <1>6, <1>7, <1>8, <1>9, Idle DEF Inv, Shape

(* The node whose free function returns is in no link of the ring.         *)
LEMMA FreeReturnsKeeps == Inv /\ FreeReturns => Inv'
<1> SUFFICES ASSUME Inv, FreeReturns PROVE Inv'
  OBVIOUS
<1> DEFINE n == Head(freeing)
<1>1. /\ order \in Seq(Node) /\ Len(order) \in Nat /\ freeing \in Seq(Node) /\ freeing # <<>>
      /\ next \in Links /\ prev \in Links /\ data \in [Node -> Data \cup {Null}]
      /\ Len(freeing) \in Nat
  BY DEF Inv, Shape, TypeOK, FreeReturns, Links
<1>2. /\ alive = ToSet(order) \cup ToSet(freeing) /\ size = Len(order) + Len(freeing)
      /\ \A i, j \in DOMAIN freeing : freeing[i] = freeing[j] => i = j
      /\ \A i \in DOMAIN freeing : freeing[i] \notin ToSet(order)
  BY DEF Inv, Shape, BlocksCounted
<1>3. /\ Tail(freeing) \in Seq(Node) /\ Len(Tail(freeing)) = Len(freeing) - 1
      /\ n = freeing[1] /\ 1 \in DOMAIN freeing
      /\ \A i \in 1 .. Len(freeing) - 1 : Tail(freeing)[i] = freeing[i + 1]
  BY <1>1, TailPlaces
<1>4. /\ ToSet(Tail(freeing)) = ToSet(freeing) \ {n} /\ n \in ToSet(freeing)
      /\ \A i, j \in DOMAIN Tail(freeing) : Tail(freeing)[i] = Tail(freeing)[j] => i = j
  BY <1>1, <1>2, TailSet
<1>5. n \in Node /\ n \notin ToSet(order)
  BY <1>1, <1>2, <1>3
<1>6. /\ freeing' = Tail(freeing) /\ order' = order
      /\ next' = Wiped(next, n) /\ prev' = Wiped(prev, n) /\ data' = Wiped(data, n)
      /\ alive' = alive \ {n} /\ size' = size - 1 /\ answer' = 1
      /\ UNCHANGED <<eraseFn, iter, search>> /\ search = NoSearch
  BY DEF FreeReturns, FreeNode, ClientRuns
<1> HIDE DEF n
<1>7. size' = Len(order') + Len(freeing') /\ size' \in 0 .. MaxListSize
  <2>1. size' = Len(order') + Len(freeing')
    BY <1>1, <1>2, <1>3, <1>6
  <2>2. size' \in Nat /\ size' <= size
    BY <1>1, <1>2, <1>3, <1>6, <2>1
  <2>3. size \in 0 .. MaxListSize
    BY DEF Inv, Shape, TypeOK
  <2> QED BY <2>1, <2>2, <2>3, ListAssumption
<1>8. TypeOK'
  <2>1. next' \in Links /\ prev' \in Links /\ data' \in [Node -> Data \cup {Null}]
    BY <1>1, <1>6 DEF Wiped, Links
  <2> QED BY <1>3, <1>6, <1>7, <2>1 DEF Inv, Shape, TypeOK, Links
<1>9. RingSound'
  <2>1. RingOf(next, prev, order)
    BY RingSoundIsRing DEF Inv, Shape
  <2>2. \A i \in 0 .. Len(order) + 1 : AtOf(order, i) \in Place /\ AtOf(order, i) # n
    <3>1. \A i \in 0 .. Len(order) + 1 : AtOf(order, i) \in Place
      BY <1>1, Places
    <3>2. DOMAIN order = 1 .. Len(order) /\ n # Entries
      BY <1>1, <1>5, ListAssumption
    <3>3. \A i \in 1 .. Len(order) : order[i] \in ToSet(order)
      BY <1>1, ToSetPlaces
    <3> QED BY <1>5, <3>1, <3>2, <3>3 DEF AtOf
  <2>3. \A x \in Place : x # n => next'[x] = next[x] /\ prev'[x] = prev[x]
    BY <1>1, <1>6 DEF Wiped, Links
  <2>4. RingOf(next', prev', order)
    BY <1>1, <2>1, <2>2, <2>3, RingElsewhere
  <2> QED BY <1>6, <2>4 DEF RingSound, RingOf, At, AtOf, Distinct
<1>10. BlocksCounted'
  <2>1. alive' = ToSet(order') \cup ToSet(freeing')
    BY <1>2, <1>4, <1>5, <1>6
  <2>2. \A i \in DOMAIN freeing' : freeing'[i] \notin ToSet(order')
    <3>1. \A i \in DOMAIN freeing' : freeing'[i] \in ToSet(freeing)
      BY <1>3, <1>4, <1>6 DEF ToSet
    <3>2. \A x \in ToSet(freeing) : x \notin ToSet(order)
      BY <1>2 DEF ToSet
    <3> QED BY <1>6, <3>1, <3>2
  <2> QED BY <1>4, <1>6, <1>7, <2>1, <2>2 DEF BlocksCounted
<1>11. Cursor'
  BY <1>6 DEF Inv, Cursor
<1> QED BY <1>6, <1>8, <1>9, <1>10, <1>11, Idle DEF Inv, Shape

(* A list that is empty, new or after mcl_list_destroy.                    *)
Empty ==
  /\ next = [p \in Place |-> IF p = Entries THEN Entries ELSE Null] /\ prev = next
  /\ data = [n \in Node |-> Null] /\ alive = {} /\ size = 0 /\ eraseFn = FALSE
  /\ order = <<>> /\ freeing = <<>> /\ iter = Null /\ search = NoSearch
  /\ answer \in {0, 1, Null} \cup Data

LEMMA EmptyInv == Empty => Inv
<1> SUFFICES ASSUME Empty PROVE Inv
  OBVIOUS
<1> USE DEF Empty
<1>1. Len(order) = 0 /\ DOMAIN order = {} /\ order \in Seq(Node) /\ freeing \in Seq(Node)
      /\ Len(freeing) = 0 /\ DOMAIN freeing = {}
  OBVIOUS
<1>2. TypeOK
  <2>1. size \in 0 .. MaxListSize
    <3>1. \A m \in Nat : 0 \in 0 .. m
      OBVIOUS
    <3> QED BY <3>1, ListAssumption
  <2>2. next \in Links /\ prev \in Links /\ data \in [Node -> Data \cup {Null}]
    BY DEF Links, Place
  <2> QED BY <1>1, <2>1, <2>2 DEF TypeOK, Links
<1>3. RingSound
  <2>1. next[Entries] = Entries /\ prev[Entries] = Entries
    BY DEF Place
  <2>2. \A i : At(i) = Entries
    BY <1>1 DEF At
  <2> QED BY <1>1, <2>1, <2>2 DEF RingSound
<1>4. BlocksCounted
  <2>1. ToSet(order) = {} /\ ToSet(freeing) = {}
    BY <1>1 DEF ToSet
  <2> QED BY <1>1, <2>1 DEF BlocksCounted
<1>5. Cursor /\ Scan /\ Erasing
  BY DEF Cursor, Scan, Erasing, Searching
<1> QED BY <1>2, <1>3, <1>4, <1>5 DEF Inv, Shape

LEMMA DestroyAndNewKeeps == Inv /\ DestroyAndNew => Inv'
<1> SUFFICES ASSUME Inv, DestroyAndNew PROVE Inv'
  OBVIOUS
<1>1. Empty'
  BY DEF Empty, DestroyAndNew, ClientRuns, Inv, Shape, TypeOK
<1>2. Empty' => Inv'
  BY EmptyInv, PTL
<1> QED BY <1>1, <1>2

-----------------------------------------------------------------------------
LEMMA InitInv == Init => Inv
BY EmptyInv DEF Init, Empty

LEMMA NextInv == Inv /\ [Next]_vars => Inv'
<1> SUFFICES ASSUME Inv, [Next]_vars PROVE Inv'
  OBVIOUS
<1>1. CASE UNCHANGED vars
  <2>1. Shape'
    BY <1>1, ShapeKept DEF Inv, Shape, TypeOK, vars, ring, heap, Searches
  <2>2. Cursor' /\ Erasing'
    BY <1>1 DEF Inv, Cursor, Erasing, Searching, Step, vars, ring
  <2>3. Scan'
    BY <1>1 DEF Inv, Scan, Passes, At, vars, ring
  <2> QED BY <2>1, <2>2, <2>3 DEF Inv
<1>2. CASE \E n \in Node, d \in Data \cup {Null} : Insert(n, d) \/ InsertTail(n, d)
  BY <1>2, InsertKeeps
<1>3. CASE InsertRefused
  BY <1>3, InsertRefusedKeeps
<1>4. CASE \E on \in BOOLEAN : Ctrl(on)
  BY <1>4, CtrlKeeps
<1>5. CASE \E arg \in Data \cup {Null}, cmp, free \in BOOLEAN : Delete(arg, cmp, free)
  BY <1>5, DeleteKeeps
<1>6. CASE \E arg \in Data, cmp \in BOOLEAN : Find(arg, cmp)
  BY <1>6, FindKeeps
<1>7. CASE DestroyAndNew
  BY <1>7, DestroyAndNewKeeps
<1>8. CASE IterHead \/ IterTail \/ IterNext \/ IterPrev
  <2>1. \A p \in ToSet(order) \cup {Entries} :
          /\ next[p] \in ToSet(order) \cup {Entries}
          /\ prev[p] \in ToSet(order) \cup {Entries}
    BY StepStays DEF Inv
  <2>2. iter # Null => iter \in ToSet(order) \cup {Entries}
    BY DEF Inv, Cursor
  <2>3. \E p \in ToSet(order) \cup {Entries} : MoveTo(p)
    BY <1>8, <2>1, <2>2 DEF IterHead, IterTail, IterNext, IterPrev
  <2> QED BY <2>3, MoveToKeeps
<1>9. CASE IterErase
  BY <1>9, IterEraseKeeps
<1>10. CASE DelNext \/ FindNext
  BY <1>10, DelNextKeeps, FindNextKeeps
<1>11. CASE DelFails \/ FindEnds \/ FindStops
  BY <1>11, EndsKeep
<1>12. CASE Unlink
  BY <1>12, UnlinkKeeps
<1>13. CASE FreeReturns
  BY <1>13, FreeReturnsKeeps
<1> QED BY <1>1, <1>2, <1>3, <1>4, <1>5, <1>6, <1>7, <1>8, <1>9, <1>10, <1>11, <1>12,
           <1>13 DEF Next, Calls, Steps

LEMMA AlwaysInv == Spec => []Inv
BY InitInv, NextInv, PTL DEF Spec

(* The types of the list.                                                  *)
THEOREM TypeCorrect == Spec => []TypeOK
<1>1. Inv => TypeOK
  BY DEF Inv, Shape
<1> QED BY <1>1, AlwaysInv, PTL

(* mcl_list.c: every insertion and every unlinking leaves a ring that is   *)
(* the same forward and backward, in calls from free functions as well.    *)
THEOREM RingIsSound == Spec => []RingSound
<1>1. Inv => RingSound
  BY DEF Inv, Shape
<1> QED BY <1>1, AlwaysInv, PTL

(* mcl_list.c: list->_list_sz counts the nodes of the ring and those whose *)
(* free function runs, and no other block is allocated.                    *)
THEOREM BlocksAreCounted == Spec => []BlocksCounted
<1>1. Inv => BlocksCounted
  BY DEF Inv, Shape
<1> QED BY <1>1, AlwaysInv, PTL

(* mcl_list.c: the iterator and the searches stand on nodes of the ring,   *)
(* and a deletion never frees the node of the iterator.                    *)
THEOREM CursorsAreLinked == Spec => []CursorsLinked
<1>1. Inv => CursorsLinked
  <2> SUFFICES ASSUME Inv PROVE CursorsLinked
    OBVIOUS
  <2>1. search # NoSearch => search.ent \in ToSet(order) \cup {Entries}
    <3> SUFFICES ASSUME search # NoSearch PROVE search.ent \in ToSet(order) \cup {Entries}
      OBVIOUS
    <3>1. PICK j \in 1 .. Len(order) + 1 :
            (AtNode <=> j \in 1 .. Len(order)) /\ (AtNode => search.ent = order[j])
      BY EntryOfSearch
    <3> QED BY <3>1, Positions DEF Inv, AtNode
  <2> QED BY <2>1, HitElsewhere DEF CursorsLinked, Inv, Cursor
<1> QED BY <1>1, AlwaysInv, PTL

-----------------------------------------------------------------------------
(***************************************************************************)
(* The list is the sequence of ListSeq: what that one sees of the state.   *)
(***************************************************************************)
ItemsOf(s, d) == [i \in DOMAIN s |-> d[s[i]]]
PlaceOf(s, n) == IF n \in ToSet(s) THEN CHOOSE i \in DOMAIN s : s[i] = n ELSE 0
AskedOf(q) == Restrict(q, {"op", "arg", "cmp", "free"} \cap DOMAIN q)

Contents == [Node -> Data \cup {Null}]

LEMMA ItemsPlaces ==
  ASSUME NEW s \in Seq(Node), NEW d \in Contents
  PROVE  /\ ItemsOf(s, d) \in Seq(Data \cup {Null}) /\ Len(ItemsOf(s, d)) = Len(s)
         /\ DOMAIN ItemsOf(s, d) = 1 .. Len(s)
         /\ \A i \in 1 .. Len(s) : ItemsOf(s, d)[i] = d[s[i]]
<1>1. DOMAIN s = 1 .. Len(s) /\ Len(s) \in Nat /\ \A i \in 1 .. Len(s) : s[i] \in Node
  OBVIOUS
<1> DEFINE t == ItemsOf(s, d)
<1>2. t = [i \in 1 .. Len(s) |-> d[s[i]]]
  BY <1>1 DEF ItemsOf
<1>3. t \in [1 .. Len(s) -> Data \cup {Null}]
  BY <1>1, <1>2 DEF Contents
<1>4. t \in Seq(Data \cup {Null}) /\ Len(t) = Len(s)
  BY <1>1, <1>3
<1> QED BY <1>2, <1>4

(* Two equal sequences of items, place by place.                           *)
LEMMA SameItems ==
  ASSUME NEW s \in Seq(Node), NEW d \in Contents, NEW t \in Seq(Data \cup {Null}),
         Len(t) = Len(s), \A i \in 1 .. Len(s) : t[i] = d[s[i]]
  PROVE  ItemsOf(s, d) = t
BY ItemsPlaces, SeqEqual

LEMMA PlaceUnique ==
  ASSUME NEW s \in Seq(Node), Distinct(s), NEW k \in 1 .. Len(s)
  PROVE  PlaceOf(s, s[k]) = k
<1>1. DOMAIN s = 1 .. Len(s) /\ s[k] \in ToSet(s)
  BY ToSetPlaces
<1>2. \A i \in DOMAIN s : s[i] = s[k] => i = k
  BY <1>1 DEF Distinct
<1> QED BY <1>1, <1>2 DEF PlaceOf

LEMMA PlaceNowhere ==
  ASSUME NEW s \in Seq(Node)
  PROVE  PlaceOf(s, Null) = 0
BY ToSetPlaces, ListAssumption DEF PlaceOf

LEMMA NothingAsked == AskedOf(NoSearch) = Abstract!Nothing
<1>1. DOMAIN NoSearch = {"op"}
  BY DEF NoSearch
<1>2. {"op", "arg", "cmp", "free"} \cap DOMAIN NoSearch = {"op"}
  BY <1>1
<1> QED BY <1>2 DEF AskedOf, Restrict, Abstract!Nothing, NoSearch

LEMMA SomethingAsked ==
  ASSUME NEW q \in Searches
  PROVE  /\ AskedOf(q) = [op |-> q.op, arg |-> q.arg, cmp |-> q.cmp, free |-> q.free]
         /\ AskedOf(q).op = q.op /\ AskedOf(q).arg = q.arg
         /\ AskedOf(q).cmp = q.cmp /\ AskedOf(q).free = q.free
<1>1. DOMAIN q = {"op", "ent", "arg", "cmp", "free", "erased"}
  BY DEF Searches
<1>2. {"op", "arg", "cmp", "free"} \cap DOMAIN q = {"op", "arg", "cmp", "free"}
  BY <1>1
<1> QED BY <1>2 DEF AskedOf, Restrict

(* An insertion into the order is one into the items.                      *)
LEMMA ItemsInsert ==
  ASSUME NEW s \in Seq(Node), NEW d \in Contents, NEW n \in Node, n \notin ToSet(s),
         NEW v \in Data \cup {Null}, NEW i \in 1 .. Len(s) + 1
  PROVE  ItemsOf(InsertAt(s, i, n), [d EXCEPT ![n] = v]) = InsertAt(ItemsOf(s, d), i, v)
<1> DEFINE t == InsertAt(s, i, n)
           d2 == [d EXCEPT ![n] = v]
           u == InsertAt(ItemsOf(s, d), i, v)
<1>1. /\ ItemsOf(s, d) \in Seq(Data \cup {Null}) /\ Len(ItemsOf(s, d)) = Len(s)
      /\ \A j \in 1 .. Len(s) : ItemsOf(s, d)[j] = d[s[j]]
  BY ItemsPlaces
<1>2. /\ t \in Seq(Node) /\ Len(t) = Len(s) + 1
      /\ \A j \in 1 .. Len(s) + 1 :
           t[j] = IF j < i THEN s[j] ELSE IF j = i THEN n ELSE s[j - 1]
  <2>1. t \in Seq(Node) /\ IsInsertion(t, s, i, n)
    BY InsertAtIs
  <2> HIDE DEF t
  <2> QED BY <2>1 DEF IsInsertion
<1>3. u \in Seq(Data \cup {Null}) /\ IsInsertion(u, ItemsOf(s, d), i, v)
  <2>1. i \in 1 .. Len(ItemsOf(s, d)) + 1
    BY <1>1
  <2> QED BY <1>1, <2>1, InsertAtIs
<1>4. /\ u \in Seq(Data \cup {Null}) /\ Len(u) = Len(s) + 1
      /\ \A j \in 1 .. Len(s) + 1 :
           u[j] = IF j < i THEN ItemsOf(s, d)[j] ELSE IF j = i THEN v ELSE ItemsOf(s, d)[j - 1]
  <2> HIDE DEF u
  <2> QED BY <1>1, <1>3 DEF IsInsertion
<1>5. d2 \in Contents /\ d2[n] = v /\ \A m \in Node : m # n => d2[m] = d[m]
  BY DEF Contents
<1>6. \A j \in 1 .. Len(s) : s[j] # n /\ s[j] \in Node
  BY ToSetPlaces
<1>7. Len(s) \in Nat
  OBVIOUS
<1>7a. Len(t) = Len(u) /\ Len(t) = Len(s) + 1
  BY <1>2, <1>4
<1> HIDE DEF t, u, d2
<1>8. ASSUME NEW j \in 1 .. Len(t) PROVE u[j] = d2[t[j]]
  <2>1. CASE j < i
    <3>1. j \in 1 .. Len(s) /\ j \in 1 .. Len(s) + 1
      BY <1>7, <1>7a, <2>1
    <3>2. u[j] = ItemsOf(s, d)[j] /\ t[j] = s[j]
      BY <1>2, <1>4, <2>1, <3>1
    <3>3. s[j] \in Node /\ s[j] # n /\ ItemsOf(s, d)[j] = d[s[j]]
      BY <1>1, <1>6, <3>1
    <3> QED BY <1>5, <3>2, <3>3
  <2>2. CASE j = i
    <3>1. j \in 1 .. Len(s) + 1 /\ ~(j < i)
      BY <1>7, <1>7a, <2>2
    <3>2. u[j] = v /\ t[j] = n
      BY <1>2, <1>4, <2>2, <3>1
    <3> QED BY <1>5, <3>2
  <2>3. CASE j > i
    <3>1. j - 1 \in 1 .. Len(s) /\ ~(j < i) /\ j # i /\ j \in 1 .. Len(s) + 1
      BY <1>7, <1>7a, <2>3
    <3>2. u[j] = ItemsOf(s, d)[j - 1] /\ t[j] = s[j - 1]
      BY <1>2, <1>4, <3>1
    <3>3. s[j - 1] \in Node /\ s[j - 1] # n /\ ItemsOf(s, d)[j - 1] = d[s[j - 1]]
      BY <1>1, <1>6, <3>1
    <3> QED BY <1>5, <3>2, <3>3
  <2> QED BY <1>7, <2>1, <2>2, <2>3
<1>9. ItemsOf(t, d2) = u
  BY <1>2, <1>4, <1>5, <1>7a, <1>8, SameItems
<1> QED BY <1>9 DEF t, u, d2

(* A removal from the order is one from the items.                         *)
LEMMA ItemsRemove ==
  ASSUME NEW s \in Seq(Node), NEW d \in Contents, NEW d2 \in Contents,
         NEW i \in 1 .. Len(s), Distinct(s), \A m \in Node : m # s[i] => d2[m] = d[m]
  PROVE  ItemsOf(RemoveAt(s, i), d2) = RemoveAt(ItemsOf(s, d), i)
<1> DEFINE t == RemoveAt(s, i)
           u == RemoveAt(ItemsOf(s, d), i)
<1>1. /\ ItemsOf(s, d) \in Seq(Data \cup {Null}) /\ Len(ItemsOf(s, d)) = Len(s)
      /\ \A j \in 1 .. Len(s) : ItemsOf(s, d)[j] = d[s[j]]
  BY ItemsPlaces
<1>2. /\ t \in Seq(Node) /\ Len(t) = Len(s) - 1
      /\ \A j \in 1 .. Len(s) - 1 : t[j] = IF j < i THEN s[j] ELSE s[j + 1]
  BY RemoveAtPlaces
<1>3. \A x \in Seq(Data \cup {Null}) : Len(x) = Len(s) =>
        /\ RemoveAt(x, i) \in Seq(Data \cup {Null}) /\ Len(RemoveAt(x, i)) = Len(s) - 1
        /\ \A j \in 1 .. Len(s) - 1 : RemoveAt(x, i)[j] = IF j < i THEN x[j] ELSE x[j + 1]
  BY RemoveAtPlaces
<1>4. /\ u \in Seq(Data \cup {Null}) /\ Len(u) = Len(s) - 1
      /\ \A j \in 1 .. Len(s) - 1 :
           u[j] = IF j < i THEN ItemsOf(s, d)[j] ELSE ItemsOf(s, d)[j + 1]
  BY <1>1, <1>3
<1>5. \A j, k \in 1 .. Len(s) : s[j] = s[k] => j = k
  BY Places DEF Distinct
<1>6. \A j \in 1 .. Len(s) : s[j] \in Node
  OBVIOUS
<1>7. Len(s) \in Nat
  OBVIOUS
<1>7a. Len(t) = Len(u) /\ Len(t) = Len(s) - 1
  BY <1>2, <1>4
<1> HIDE DEF t, u
<1>8. ASSUME NEW j \in 1 .. Len(t) PROVE u[j] = d2[t[j]]
  <2>0. j \in 1 .. Len(s) - 1
    BY <1>7a
  <2>1. CASE j < i
    <3>1. j \in 1 .. Len(s) /\ j # i
      BY <1>7, <2>0, <2>1
    <3>2. s[j] # s[i]
      BY <1>5, <3>1
    <3> QED BY <1>1, <1>2, <1>4, <1>6, <2>0, <2>1, <3>1, <3>2
  <2>2. CASE ~(j < i)
    <3>1. j + 1 \in 1 .. Len(s) /\ j + 1 # i
      BY <1>7, <2>0, <2>2
    <3>2. s[j + 1] # s[i]
      BY <1>5, <3>1
    <3> QED BY <1>1, <1>2, <1>4, <1>6, <2>0, <2>2, <3>1, <3>2
  <2> QED BY <2>1, <2>2
<1>9. ItemsOf(t, d2) = u
  BY <1>2, <1>4, <1>7a, <1>8, SameItems
<1> QED BY <1>9 DEF t, u

(* Where the cursor is after an insertion and after a removal.             *)
LEMMA PlaceAfterInsert ==
  ASSUME NEW s \in Seq(Node), Distinct(s), NEW n \in Node, n \notin ToSet(s),
         NEW i \in 1 .. Len(s) + 1, NEW k \in 1 .. Len(s), Distinct(InsertAt(s, i, n))
  PROVE  PlaceOf(InsertAt(s, i, n), s[k]) = IF i <= k THEN k + 1 ELSE k
<1> DEFINE t == InsertAt(s, i, n)
<1>1. /\ t \in Seq(Node) /\ Len(t) = Len(s) + 1
      /\ \A j \in 1 .. Len(s) + 1 :
           t[j] = IF j < i THEN s[j] ELSE IF j = i THEN n ELSE s[j - 1]
  <2>1. t \in Seq(Node) /\ IsInsertion(t, s, i, n)
    BY InsertAtIs
  <2> HIDE DEF t
  <2> QED BY <2>1 DEF IsInsertion
<1>2. Len(s) \in Nat /\ Len(t) = Len(s) + 1
  BY <1>1
<1>3. \A j \in 1 .. Len(t) : PlaceOf(t, t[j]) = j
  BY <1>1, PlaceUnique
<1> HIDE DEF t
<1>4. CASE i <= k
  <2>1. k + 1 \in 1 .. Len(s) + 1 /\ ~(k + 1 < i) /\ k + 1 # i /\ (k + 1) - 1 = k
    BY <1>2, <1>4
  <2>2. t[k + 1] = s[k]
    BY <1>1, <2>1
  <2>3. PlaceOf(t, t[k + 1]) = k + 1
    BY <1>2, <1>3, <2>1
  <2> QED BY <1>4, <2>2, <2>3 DEF t
<1>5. CASE ~(i <= k)
  <2>1. k \in 1 .. Len(s) + 1 /\ k < i
    BY <1>2, <1>5
  <2>2. t[k] = s[k]
    BY <1>1, <2>1
  <2>3. PlaceOf(t, t[k]) = k
    BY <1>2, <1>3, <2>1
  <2> QED BY <1>5, <2>2, <2>3 DEF t
<1> QED BY <1>4, <1>5

LEMMA PlaceAfterRemove ==
  ASSUME NEW s \in Seq(Node), Distinct(s), NEW i \in 1 .. Len(s), NEW k \in 1 .. Len(s),
         i # k, Distinct(RemoveAt(s, i))
  PROVE  PlaceOf(RemoveAt(s, i), s[k]) = IF i < k THEN k - 1 ELSE k
<1> DEFINE t == RemoveAt(s, i)
<1>1. /\ t \in Seq(Node) /\ Len(t) = Len(s) - 1
      /\ \A j \in 1 .. Len(s) - 1 : t[j] = IF j < i THEN s[j] ELSE s[j + 1]
  BY RemoveAtPlaces
<1>2. Len(s) \in Nat /\ Len(t) = Len(s) - 1
  BY <1>1
<1>3. \A j \in 1 .. Len(t) : PlaceOf(t, t[j]) = j
  BY <1>1, PlaceUnique
<1> HIDE DEF t
<1>4. CASE i < k
  <2>1. k - 1 \in 1 .. Len(s) - 1 /\ ~(k - 1 < i) /\ (k - 1) + 1 = k
    BY <1>2, <1>4
  <2>2. t[k - 1] = s[k]
    BY <1>1, <2>1
  <2>3. PlaceOf(t, t[k - 1]) = k - 1
    BY <1>2, <1>3, <2>1
  <2> QED BY <1>4, <2>2, <2>3 DEF t
<1>5. CASE ~(i < k)
  <2>1. k \in 1 .. Len(s) - 1 /\ k < i
    BY <1>2, <1>5
  <2>2. t[k] = s[k]
    BY <1>1, <2>1
  <2>3. PlaceOf(t, t[k]) = k
    BY <1>2, <1>3, <2>1
  <2> QED BY <1>5, <2>2, <2>3 DEF t
<1> QED BY <1>4, <1>5

Items == ItemsOf(order, data)
Cur == PlaceOf(order, iter)
Asked == AskedOf(search)
Open == Len(freeing)

LEMMA Mapped ==
  ASSUME Inv
  PROVE  /\ Items \in Seq(Data \cup {Null}) /\ Len(Items) = Len(order) /\ Len(order) \in Nat
         /\ DOMAIN Items = 1 .. Len(order)
         /\ \A i \in 1 .. Len(order) : Items[i] = data[order[i]]
         /\ iter = Null => Cur = 0
         /\ iter # Null => Cur \in 1 .. Len(order) /\ order[Cur] = iter /\ Cur # 0
         /\ \A k \in 1 .. Len(order) : PlaceOf(order, order[k]) = k
         /\ PlaceOf(order, Null) = 0
         /\ size = Len(Items) + Open /\ Open \in Nat
         /\ search = NoSearch => Asked = Abstract!Nothing
         /\ search # NoSearch =>
              /\ Asked = [op |-> search.op, arg |-> search.arg,
                          cmp |-> search.cmp, free |-> search.free]
              /\ Asked.op = search.op /\ Asked.arg = search.arg
              /\ Asked.cmp = search.cmp /\ Asked.free = search.free
<1>1. /\ order \in Seq(Node) /\ Distinct(order) /\ data \in Contents /\ Len(order) \in Nat
  BY RingSoundIsRing DEF Inv, Shape, TypeOK, RingOf, Contents
<1>2. /\ Items \in Seq(Data \cup {Null}) /\ Len(Items) = Len(order)
      /\ DOMAIN Items = 1 .. Len(order)
      /\ \A i \in 1 .. Len(order) : Items[i] = data[order[i]]
  BY <1>1, ItemsPlaces DEF Items
<1>3. \A k \in 1 .. Len(order) : PlaceOf(order, order[k]) = k
  BY <1>1, PlaceUnique
<1>4. PlaceOf(order, Null) = 0
  BY <1>1, PlaceNowhere
<1>5. ASSUME iter # Null PROVE Cur \in 1 .. Len(order) /\ order[Cur] = iter /\ Cur # 0
  <2>1. PICK k \in 1 .. Len(order) : order[k] = iter
    BY <1>5, Position DEF Inv, Cursor
  <2>2. Cur = k
    BY <1>3, <2>1 DEF Cur
  <2> QED BY <1>1, <2>1, <2>2
<1>6. size = Len(Items) + Open /\ Open \in Nat
  BY <1>2 DEF Inv, Shape, TypeOK, BlocksCounted, Open
<1>7. search = NoSearch => Asked = Abstract!Nothing
  BY NothingAsked DEF Asked
<1>8. search # NoSearch => search \in Searches
  BY DEF Inv, Shape, TypeOK, Searches
<1>9. search # NoSearch =>
        /\ Asked = [op |-> search.op, arg |-> search.arg,
                    cmp |-> search.cmp, free |-> search.free]
        /\ Asked.op = search.op /\ Asked.arg = search.arg
        /\ Asked.cmp = search.cmp /\ Asked.free = search.free
  BY <1>8, SomethingAsked DEF Asked
<1> QED BY <1>1, <1>2, <1>3, <1>4, <1>5, <1>6, <1>7, <1>9 DEF Cur

(* A step that leaves the ring and the cursor alone.                       *)
LEMMA SameView ==
  ASSUME UNCHANGED <<ring, freeing>>
  PROVE  /\ Items' = Items /\ Open' = Open
         /\ iter' = iter => Cur' = Cur
         /\ search' = search => Asked' = Asked
BY DEF Items, Open, Cur, Asked, ring

LEMMA InsertRefines ==
  ASSUME Inv, NEW n \in Node, NEW d \in Data \cup {Null}
  PROVE  /\ Insert(n, d) => Abstract!Insert(d)
         /\ InsertTail(n, d) => Abstract!InsertTail(d)
<1> SUFFICES ASSUME Insert(n, d) \/ InsertTail(n, d)
             PROVE  /\ Insert(n, d) => Abstract!Insert(d)
                    /\ InsertTail(n, d) => Abstract!InsertTail(d)
  OBVIOUS
<1>1. /\ order \in Seq(Node) /\ data \in Contents /\ n \notin ToSet(order)
      /\ Distinct(order) /\ Len(order) \in Nat
  BY RingSoundIsRing DEF Inv, Shape, TypeOK, RingOf, Contents, BlocksCounted, Insert, InsertTail
<1>2. Distinct(order')
  BY InsertKeeps, RingSoundIsRing DEF Inv, Shape, RingSound, Distinct
<1>3. /\ search = NoSearch /\ search' = search /\ size < MaxListSize /\ answer' = 1
      /\ iter' = iter /\ freeing' = freeing /\ data' = [data EXCEPT ![n] = d]
  BY DEF Insert, InsertTail, Created, ClientRuns
<1>4. Asked = Abstract!Nothing /\ Asked' = Asked /\ Open' = Open /\ Len(Items) + Open < MaxListSize
  BY <1>3, Mapped DEF Asked, Open
<1>5. ASSUME NEW i \in 1 .. Len(order) + 1, order' = InsertAt(order, i, n)
      PROVE  /\ Items' = InsertAt(Items, i, d)
             /\ Cur = 0 => Cur' = 0
             /\ Cur # 0 => Cur' = IF i <= Cur THEN Cur + 1 ELSE Cur
  <2>1. Items' = InsertAt(Items, i, d)
    BY <1>1, <1>3, <1>5, ItemsInsert DEF Items
  <2>2. order' \in Seq(Node)
    <3>1. \A k \in 1 .. Len(order) + 1 : InsertAt(order, k, n) \in Seq(Node)
      BY <1>1, InsertAtIs
    <3> QED BY <1>5, <3>1
  <2>3. CASE iter = Null
    <3>1. Cur' = PlaceOf(order', Null)
      BY <1>3, <2>3 DEF Cur
    <3>2. PlaceOf(order', Null) = 0
      BY <2>2, PlaceNowhere
    <3> QED BY <2>1, <2>3, <3>1, <3>2, Mapped
  <2>4. CASE iter # Null
    <3>1. Cur \in 1 .. Len(order) /\ order[Cur] = iter /\ Cur # 0
      BY <2>4, Mapped
    <3>2. \A k \in 1 .. Len(order) :
            PlaceOf(InsertAt(order, i, n), order[k]) = IF i <= k THEN k + 1 ELSE k
      BY <1>1, <1>2, <1>5, PlaceAfterInsert
    <3>3. Cur' = PlaceOf(InsertAt(order, i, n), order[Cur])
      BY <1>3, <1>5, <3>1 DEF Cur
    <3> QED BY <2>1, <3>1, <3>2, <3>3
  <2> QED BY <2>3, <2>4
<1>6. ASSUME Insert(n, d) PROVE Abstract!Insert(d)
  <2>1. order' = InsertAt(order, 1, n)
    <3>1. <<n>> \o order = InsertAt(order, 1, n)
      BY <1>1, InsertAtEnds
    <3> QED BY <1>6, <3>1 DEF Insert
  <2>2. 1 \in 1 .. Len(order) + 1
    BY <1>1
  <2>3. /\ Items' = InsertAt(Items, 1, d)
        /\ Cur = 0 => Cur' = 0
        /\ Cur # 0 => Cur' = IF 1 <= Cur THEN Cur + 1 ELSE Cur
    BY <1>5, <2>1, <2>2
  <2>4. Items' = <<d>> \o Items
    <3>1. <<d>> \o Items = InsertAt(Items, 1, d)
      BY Mapped, InsertAtEnds
    <3> QED BY <2>3, <3>1
  <2>5. Cur' = IF Cur = 0 THEN 0 ELSE Cur + 1
    <3>1. Cur # 0 => 1 <= Cur
      BY Mapped
    <3> QED BY <2>3, <3>1
  <2> QED BY <1>3, <1>4, <2>4, <2>5
          DEF Items, Cur, Asked, Open, ItemsOf, PlaceOf, AskedOf,
              Abstract!Insert, Abstract!Answered, Abstract!Size
<1>7. ASSUME InsertTail(n, d) PROVE Abstract!InsertTail(d)
  <2>1. order' = InsertAt(order, Len(order) + 1, n)
    <3>1. Append(order, n) = InsertAt(order, Len(order) + 1, n)
      BY <1>1, InsertAtEnds
    <3> QED BY <1>7, <3>1 DEF InsertTail
  <2>2. Len(order) + 1 \in 1 .. Len(order) + 1
    BY <1>1
  <2>3. /\ Items' = InsertAt(Items, Len(order) + 1, d)
        /\ Cur = 0 => Cur' = 0
        /\ Cur # 0 => Cur' = IF Len(order) + 1 <= Cur THEN Cur + 1 ELSE Cur
    BY <1>5, <2>1, <2>2
  <2>4. Items' = Append(Items, d)
    <3>1. Append(Items, d) = InsertAt(Items, Len(Items) + 1, d)
      BY Mapped, InsertAtEnds
    <3> QED BY <2>3, <3>1, Mapped
  <2>5. Cur' = Cur
    <3>1. Cur # 0 => ~(Len(order) + 1 <= Cur)
      BY <1>1, Mapped
    <3> QED BY <2>3, <3>1
  <2> QED BY <1>3, <1>4, <2>4, <2>5
          DEF Items, Cur, Asked, Open, ItemsOf, PlaceOf, AskedOf,
              Abstract!InsertTail, Abstract!Answered, Abstract!Size
<1> QED BY <1>6, <1>7

LEMMA StillRefines ==
  ASSUME Inv
  PROVE  /\ InsertRefused => Abstract!Refuse
         /\ \A on \in BOOLEAN : Ctrl(on) => UNCHANGED Abstract!vars
         /\ DelNext \/ FindNext => UNCHANGED Abstract!vars
         /\ UNCHANGED vars => UNCHANGED Abstract!vars
<1>1. ASSUME InsertRefused PROVE Abstract!Refuse
  <2>1. Items' = Items /\ Open' = Open /\ Cur' = Cur /\ Asked' = Asked
    BY <1>1, SameView DEF InsertRefused
  <2>2. Asked = Abstract!Nothing /\ Len(Items) + Open >= MaxListSize /\ answer' = 0
    BY <1>1, Mapped DEF InsertRefused, ClientRuns
  <2> QED BY <2>1, <2>2 DEF Items, Cur, Asked, Open, ItemsOf, PlaceOf, AskedOf,
              Abstract!Refuse, Abstract!Answered, Abstract!Size
<1>2. ASSUME NEW on \in BOOLEAN, Ctrl(on) PROVE UNCHANGED Abstract!vars
  <2>1. Items' = Items /\ Open' = Open /\ Cur' = Cur /\ Asked' = Asked /\ answer' = answer
    BY <1>2, SameView DEF Ctrl
  <2> QED BY <2>1 DEF Items, Cur, Asked, Open, ItemsOf, PlaceOf, AskedOf, Abstract!vars
<1>3. ASSUME DelNext \/ FindNext PROVE UNCHANGED Abstract!vars
  <2>1. Items' = Items /\ Open' = Open /\ Cur' = Cur /\ answer' = answer
    BY <1>3, SameView DEF DelNext, FindNext
  <2>2. Asked' = Asked
    <3>1. search \in Searches /\ search # NoSearch
      BY <1>3 DEF Inv, Shape, TypeOK, Searches, DelNext, FindNext, Searching
    <3>2. /\ search'.op = search.op /\ search'.arg = search.arg
          /\ search'.cmp = search.cmp /\ search'.free = search.free
      BY <1>3, <3>1 DEF DelNext, FindNext, Searches
    <3>3. search' # NoSearch
      BY <3>1, <3>2 DEF Searches, NoSearch
    <3>4. Inv'
      BY <1>3, DelNextKeeps, FindNextKeeps
    <3>5. search' \in Searches
      BY <3>3, <3>4 DEF Inv, Shape, TypeOK, Searches
    <3>6. /\ AskedOf(search') = [op |-> search'.op, arg |-> search'.arg,
                                 cmp |-> search'.cmp, free |-> search'.free]
          /\ AskedOf(search) = [op |-> search.op, arg |-> search.arg,
                                cmp |-> search.cmp, free |-> search.free]
      BY <3>1, <3>5, SomethingAsked
    <3> QED BY <3>2, <3>6 DEF Asked
  <2> QED BY <2>1, <2>2 DEF Items, Cur, Asked, Open, ItemsOf, PlaceOf, AskedOf, Abstract!vars
<1>4. ASSUME UNCHANGED vars PROVE UNCHANGED Abstract!vars
  <2>1. Items' = Items /\ Open' = Open /\ Cur' = Cur /\ Asked' = Asked /\ answer' = answer
    BY <1>4, SameView DEF vars
  <2> QED BY <2>1 DEF Items, Cur, Asked, Open, ItemsOf, PlaceOf, AskedOf, Abstract!vars
<1> QED BY <1>1, <1>2, <1>3, <1>4

(* The iterator's moves are those of the cursor.                           *)
LEMMA MoveRefines ==
  ASSUME Inv, NEW p, MoveTo(p)
  PROVE  /\ Items' = Items /\ Open' = Open /\ Asked' = Asked /\ answer' = answer
         /\ Asked = Abstract!Nothing /\ Cur' = PlaceOf(order, Step(p))
<1>1. Items' = Items /\ Open' = Open /\ Asked' = Asked /\ answer' = answer
      /\ Asked = Abstract!Nothing
  BY SameView, Mapped DEF MoveTo, ClientRuns
<1>2. Cur' = PlaceOf(order, Step(p))
  BY DEF MoveTo, Cur, ring
<1> QED BY <1>1, <1>2

LEMMA PlaceOfStep ==
  ASSUME Inv, NEW i \in 0 .. Len(order) + 1
  PROVE  PlaceOf(order, Step(At(i))) = IF i = Len(order) + 1 THEN 0 ELSE i
<1>1. i = 0 \/ i = Len(order) + 1 \/ i \in 1 .. Len(order)
  BY Mapped
<1>2. CASE i \in 1 .. Len(order)
  <2>1. Step(At(i)) = order[i] /\ i # Len(order) + 1
    BY <1>2, Positions DEF Inv, Step
  <2> QED BY <1>2, <2>1, Mapped
<1>3. CASE i = 0 \/ i = Len(order) + 1
  <2>1. Step(At(i)) = Null
    BY <1>3, Positions DEF Inv, Step
  <2> QED BY <1>3, <2>1, Mapped
<1> QED BY <1>1, <1>2, <1>3

(* The nodes next to the iterator's.                                       *)
LEMMA BesideCursor ==
  ASSUME Inv, iter # Null
  PROVE  /\ Cur \in 1 .. Len(order) /\ order[Cur] = iter
         /\ PlaceOf(order, Step(next[iter])) = Abstract!After(Cur)
         /\ PlaceOf(order, Step(prev[iter])) = Cur - 1
<1>1. Cur \in 1 .. Len(order) /\ order[Cur] = iter /\ Len(order) \in Nat
  BY Mapped
<1>2. next[iter] = At(Cur + 1) /\ prev[iter] = At(Cur - 1)
  BY <1>1, Positions DEF Inv
<1>3. \A i \in 0 .. Len(order) + 1 :
        PlaceOf(order, Step(At(i))) = IF i = Len(order) + 1 THEN 0 ELSE i
  BY PlaceOfStep
<1>4. Cur + 1 \in 0 .. Len(order) + 1 /\ Cur - 1 \in 0 .. Len(order) + 1 /\ Cur - 1 # Len(order) + 1
  BY <1>1
<1>5. PlaceOf(order, Step(next[iter])) = IF Cur + 1 = Len(order) + 1 THEN 0 ELSE Cur + 1
  BY <1>2, <1>3, <1>4
<1>6. Abstract!After(Cur) = IF Cur = Len(order) THEN 0 ELSE Cur + 1
  BY Mapped DEF Abstract!After, Items, ItemsOf
<1>7. (Cur + 1 = Len(order) + 1) <=> (Cur = Len(order))
  BY <1>1
<1> QED BY <1>1, <1>2, <1>3, <1>4, <1>5, <1>6, <1>7

LEMMA MovesRefine ==
  ASSUME Inv
  PROVE  /\ IterHead => Abstract!ToFirst
         /\ IterTail => Abstract!ToLast
         /\ IterNext => Abstract!Forward
         /\ IterPrev => Abstract!Backward
<1>1. /\ next[Entries] = At(1) /\ prev[Entries] = At(Len(order)) /\ Len(order) \in Nat
      /\ order \in Seq(Node)
  BY Positions DEF Inv
<1>2. \A i \in 0 .. Len(order) + 1 :
        PlaceOf(order, Step(At(i))) = IF i = Len(order) + 1 THEN 0 ELSE i
  BY PlaceOfStep
<1>3. ASSUME IterHead PROVE Abstract!ToFirst
  <2>1. (Items = <<>>) <=> (1 = Len(order) + 1)
    BY <1>1, Mapped
  <2>2. 1 \in 0 .. Len(order) + 1
    BY <1>1
  <2>3. PlaceOf(order, Step(At(1))) = IF Items = <<>> THEN 0 ELSE 1
    BY <1>2, <2>1, <2>2
  <2>4. /\ Items' = Items /\ Open' = Open /\ Asked' = Asked /\ answer' = answer
        /\ Asked = Abstract!Nothing /\ Cur' = IF Items = <<>> THEN 0 ELSE 1
    BY <1>1, <1>3, <2>3, MoveRefines DEF IterHead
  <2> QED BY <2>4 DEF Items, Cur, Asked, Open, ItemsOf, PlaceOf, AskedOf,
          Abstract!MoveTo, Abstract!Answered, Abstract!ToFirst
<1>4. ASSUME IterTail PROVE Abstract!ToLast
  <2>1. Len(order) \in 0 .. Len(order) + 1 /\ Len(order) # Len(order) + 1
    BY <1>1
  <2>2. PlaceOf(order, Step(At(Len(order)))) = Len(Items)
    BY <1>2, <2>1, Mapped
  <2>3. /\ Items' = Items /\ Open' = Open /\ Asked' = Asked /\ answer' = answer
        /\ Asked = Abstract!Nothing /\ Cur' = Len(Items)
    BY <1>1, <1>4, <2>2, MoveRefines DEF IterTail
  <2> QED BY <2>3 DEF Items, Cur, Asked, Open, ItemsOf, PlaceOf, AskedOf,
          Abstract!MoveTo, Abstract!Answered, Abstract!ToLast
<1>5. ASSUME IterNext PROVE Abstract!Forward
  <2>0. Cur # 0
    BY <1>5, Mapped DEF IterNext
  <2>1. /\ Items' = Items /\ Open' = Open /\ Asked' = Asked /\ answer' = answer
        /\ Asked = Abstract!Nothing /\ Cur' = Abstract!After(Cur)
    BY <1>5, BesideCursor, MoveRefines DEF IterNext
  <2> QED BY <2>0, <2>1 DEF Items, Cur, Asked, Open, ItemsOf, PlaceOf, AskedOf,
          Abstract!MoveTo, Abstract!Answered, Abstract!Forward
<1>6. ASSUME IterPrev PROVE Abstract!Backward
  <2>0. Cur # 0
    BY <1>6, Mapped DEF IterPrev
  <2>1. /\ Items' = Items /\ Open' = Open /\ Asked' = Asked /\ answer' = answer
        /\ Asked = Abstract!Nothing /\ Cur' = Cur - 1
    BY <1>6, BesideCursor, MoveRefines DEF IterPrev
  <2> QED BY <2>0, <2>1 DEF Items, Cur, Asked, Open, ItemsOf, PlaceOf, AskedOf,
          Abstract!MoveTo, Abstract!Answered, Abstract!Backward
<1> QED BY <1>3, <1>4, <1>5, <1>6

(* What the code's test and that of the sequence find is the same.         *)
LEMMA SameHit ==
  \A a, d, c : Hit(a, d, c) <=> Abstract!Hit(a, d, c)
BY DEF Hit, Abstract!Hit

LEMMA AskRefines ==
  ASSUME Inv
  PROVE  /\ \A arg \in Data \cup {Null}, cmp, free \in BOOLEAN :
              Delete(arg, cmp, free) => Abstract!Delete(arg, cmp, free)
         /\ \A arg \in Data, cmp \in BOOLEAN : Find(arg, cmp) => Abstract!Find(arg, cmp)
         /\ IterErase => \E free \in BOOLEAN : Abstract!Erase(free)
<1> DEFINE Query(op, arg, cmp, free, erased) ==
             [op |-> op, ent |-> next[Entries], arg |-> arg, cmp |-> cmp,
              free |-> free, erased |-> erased]
<1>1. ASSUME NEW op \in {"del", "find"}, NEW arg \in Data \cup {Null}, NEW cmp \in BOOLEAN,
             NEW free \in BOOLEAN, NEW erased \in Node \cup {Null},
             search' = Query(op, arg, cmp, free, erased)
      PROVE  Asked' = [op |-> op, arg |-> arg, cmp |-> cmp, free |-> free]
  <2>1. next[Entries] \in Place
    <3>1. Entries \in ToSet(order) \cup {Entries}
      OBVIOUS
    <3>2. next[Entries] \in ToSet(order) \cup {Entries}
      BY <3>1, StepStays DEF Inv
    <3>3. ToSet(order) \subseteq Node
      BY ToSetPlaces DEF Inv, Shape, TypeOK
    <3> QED BY <3>2, <3>3 DEF Place
  <2>2. Query(op, arg, cmp, free, erased) \in Searches
    BY <2>1 DEF Searches
  <2>3. AskedOf(Query(op, arg, cmp, free, erased))
          = [op |-> op, arg |-> arg, cmp |-> cmp, free |-> free]
    BY <2>2, SomethingAsked
  <2> QED BY <1>1, <2>3 DEF Asked
<1>2. ASSUME NEW arg \in Data \cup {Null}, NEW cmp \in BOOLEAN, NEW free \in BOOLEAN,
             Delete(arg, cmp, free)
      PROVE  Abstract!Delete(arg, cmp, free)
  <2>1. /\ Asked' = [op |-> "del", arg |-> arg, cmp |-> cmp, free |-> free]
        /\ Asked = Abstract!Nothing
    BY <1>1, <1>2, Mapped DEF Delete, StartDel, ClientRuns
  <2>2. Items' = Items /\ Open' = Open /\ Cur' = Cur /\ answer' = answer
    BY <1>2, SameView DEF Delete
  <2>3. Cur # 0 => ~Abstract!Hit(arg, Items[Cur], cmp)
    BY <1>2, Mapped, SameHit DEF Delete
  <2> QED BY <2>1, <2>2, <2>3
          DEF Items, Cur, Asked, Open, ItemsOf, PlaceOf, AskedOf, Abstract!Delete, Abstract!Ask
<1>3. ASSUME NEW arg \in Data, NEW cmp \in BOOLEAN, Find(arg, cmp)
      PROVE  Abstract!Find(arg, cmp)
  <2>1. /\ Asked' = [op |-> "find", arg |-> arg, cmp |-> cmp, free |-> FALSE]
        /\ Asked = Abstract!Nothing
    BY <1>1, <1>3, Mapped DEF Find, ClientRuns
  <2>2. Items' = Items /\ Open' = Open /\ Cur' = Cur /\ answer' = answer
    BY <1>3, SameView DEF Find
  <2> QED BY <2>1, <2>2
          DEF Items, Cur, Asked, Open, ItemsOf, PlaceOf, AskedOf, Abstract!Find, Abstract!Ask
<1>4. ASSUME IterErase PROVE \E free \in BOOLEAN : Abstract!Erase(free)
  <2>1. /\ Cur \in 1 .. Len(order) /\ order[Cur] = iter /\ Cur # 0
        /\ Items[Cur] = data[iter] /\ data[iter] \in Data \cup {Null}
        /\ iter \in Node /\ eraseFn \in BOOLEAN
    BY <1>4, Mapped DEF IterErase, Inv, Shape, TypeOK
  <2>2. /\ Asked' = [op |-> "del", arg |-> data[iter], cmp |-> FALSE, free |-> eraseFn]
        /\ Asked = Abstract!Nothing
    BY <1>1, <1>4, <2>1, Mapped DEF IterErase, StartDel, ClientRuns
  <2>3. Items' = Items /\ Open' = Open /\ answer' = answer
    BY <1>4, SameView DEF IterErase
  <2>4. Cur' = Abstract!After(Cur)
    <3>1. Cur' = PlaceOf(order, Step(next[iter]))
      BY <1>4 DEF Cur, IterErase, ring
    <3> QED BY <1>4, <3>1, BesideCursor DEF IterErase
  <2> QED BY <2>1, <2>2, <2>3, <2>4
          DEF Items, Cur, Asked, Open, ItemsOf, PlaceOf, AskedOf, Abstract!Erase, Abstract!Ask
<1> QED BY <1>2, <1>3, <1>4

(* The answers of searches.                                                *)
LEMMA EndsRefine ==
  ASSUME Inv
  PROVE  /\ DelFails => Abstract!NotThere
         /\ FindEnds \/ FindStops => Abstract!Found
<1> SUFFICES ASSUME DelFails \/ FindEnds \/ FindStops
             PROVE  /\ DelFails => Abstract!NotThere
                    /\ FindEnds \/ FindStops => Abstract!Found
  OBVIOUS
<1>1. search # NoSearch /\ search' = NoSearch
  BY DEF DelFails, FindEnds, FindStops, FindReturns, Searching
<1>2. /\ Items' = Items /\ Open' = Open /\ Cur' = Cur
      /\ Asked' = Abstract!Nothing
  <2>1. Asked' = AskedOf(NoSearch)
    BY <1>1 DEF Asked
  <2> QED BY <2>1, SameView, NothingAsked DEF DelFails, FindEnds, FindStops, FindReturns
<1>3. PICK j \in 1 .. Len(order) + 1 :
        /\ AtNode <=> j \in 1 .. Len(order)
        /\ AtNode => search.ent = order[j]
        /\ \A i \in 1 .. j - 1 : Passes(search, data[order[i]])
  BY <1>1, EntryOfSearch
<1>4. /\ Asked.op = search.op /\ Asked.arg = search.arg /\ Asked.cmp = search.cmp
      /\ DOMAIN Items = 1 .. Len(order) /\ Len(order) \in Nat
      /\ \A i \in 1 .. Len(order) : Items[i] = data[order[i]]
  BY <1>1, Mapped
<1>5. ASSUME ~AtNode PROVE \A i \in 1 .. Len(order) : Passes(search, data[order[i]])
  <2>1. j - 1 = Len(order)
    BY <1>3, <1>4, <1>5
  <2> QED BY <1>3, <2>1
<1>6. ASSUME DelFails PROVE Abstract!NotThere
  <2>1. search.op = "del" /\ ~AtNode /\ answer' = 0
    BY <1>6 DEF DelFails, Searching
  <2>2. \A i \in DOMAIN Items : ~Abstract!Hit(Asked.arg, Items[i], Asked.cmp)
    BY <1>4, <1>5, <2>1, SameHit DEF Passes
  <2> QED BY <1>2, <1>4, <2>1, <2>2
          DEF Items, Cur, Asked, Open, ItemsOf, PlaceOf, AskedOf,
              Abstract!NotThere, Abstract!AskedHit
<1> DEFINE Stop(i) ==
  \/ Items[i] = Null
  \/ IF Asked.cmp THEN <<Asked.arg, Items[i]>> \in Like ELSE Asked.arg = Items[i]
<1>7. \A i \in 1 .. Len(order) : search.op = "find" /\ Passes(search, data[order[i]]) => ~Stop(i)
  BY <1>4 DEF Passes
<1>8. ASSUME FindEnds
      PROVE  Asked.op = "find" /\ answer' = Null /\ \A i \in DOMAIN Items : ~Stop(i)
  <2>1. search.op = "find" /\ ~AtNode /\ answer' = Null
    BY <1>8 DEF FindEnds, FindReturns, Searching
  <2> QED BY <1>4, <1>5, <1>7, <2>1
<1>9. ASSUME FindStops
      PROVE  /\ Asked.op = "find"
             /\ \E i \in DOMAIN Items :
                  Stop(i) /\ answer' = Items[i] /\ \A k \in 1 .. i - 1 : ~Stop(k)
  <2>1. /\ search.op = "find" /\ AtNode /\ answer' = data[search.ent]
        /\ data[search.ent] = Null \/ FindHit
    BY <1>9 DEF FindStops, FindReturns, Searching
  <2>2. j \in 1 .. Len(order) /\ search.ent = order[j] /\ Items[j] = data[order[j]]
    BY <1>3, <1>4, <2>1
  <2>3. Stop(j)
    BY <1>4, <2>1, <2>2 DEF FindHit
  <2>4. ASSUME NEW k \in 1 .. j - 1 PROVE ~Stop(k)
    <3>1. k \in 1 .. Len(order)
      BY <1>4, <2>2
    <3> QED BY <1>3, <1>7, <2>1, <3>1
  <2> QED BY <1>4, <2>1, <2>2, <2>3, <2>4
<1>10. ASSUME FindEnds \/ FindStops PROVE Abstract!Found
  <2>1. /\ Asked.op = "find"
        /\ \/ \E i \in DOMAIN Items :
                 Stop(i) /\ answer' = Items[i] /\ \A k \in 1 .. i - 1 : ~Stop(k)
           \/ answer' = Null /\ \A i \in DOMAIN Items : ~Stop(i)
    BY <1>8, <1>9, <1>10
  <2> QED BY <1>2, <2>1
          DEF Items, Cur, Asked, Open, ItemsOf, PlaceOf, AskedOf,
              Abstract!Found, Abstract!Stops
<1> QED BY <1>6, <1>10

LEMMA UnlinkRefines ==
  ASSUME Inv, Unlink
  PROVE  \E i \in DOMAIN Items : Abstract!TakeOut(i)
<1> DEFINE n == search.ent
           calls == search.free /\ data[n] # Null
<1>1. /\ n \in ToSet(order) /\ n # iter /\ n \in Node
      /\ order' \in Seq(Node) /\ RingOf(next', prev', order')
  BY UnlinkedRing
<1>2. PICK k \in 1 .. Len(order) : order[k] = n /\ order' = RemoveAt(order, k)
  BY UnlinkedRing
<1>3. /\ order \in Seq(Node) /\ Distinct(order) /\ Distinct(order') /\ data \in Contents
      /\ Len(order) \in Nat
  BY <1>1, RingSoundIsRing DEF Inv, Shape, TypeOK, RingOf, Contents
<1>4. /\ search # NoSearch /\ search.op = "del" /\ Hit(search.arg, data[n], search.cmp)
      /\ search' = NoSearch /\ iter' = iter
  BY DEF Unlink, Searching, DelHit
<1>5. /\ Asked.op = "del" /\ Asked.arg = search.arg /\ Asked.cmp = search.cmp
      /\ Asked.free = search.free /\ Asked' = Abstract!Nothing
      /\ DOMAIN Items = 1 .. Len(order) /\ Items[k] = data[n]
      /\ \A i \in 1 .. Len(order) : Items[i] = data[order[i]]
  <2>1. Asked' = AskedOf(NoSearch)
    BY <1>4 DEF Asked
  <2> QED BY <1>2, <1>4, <2>1, NothingAsked, Mapped
<1>6. data' \in Contents /\ \A m \in Node : m # order[k] => data'[m] = data[m]
  <2>1. data' = data \/ data' = Wiped(data, n)
    BY DEF Unlink
  <2> QED BY <1>2, <1>3, <2>1 DEF Wiped, Contents
<1>7. Items' = RemoveAt(Items, k)
  <2>1. ItemsOf(RemoveAt(order, k), data') = RemoveAt(ItemsOf(order, data), k)
    BY <1>3, <1>6, ItemsRemove
  <2> QED BY <1>2, <2>1 DEF Items
<1>8. Cur # k /\ Cur' = IF k < Cur THEN Cur - 1 ELSE Cur
  <2>1. CASE iter = Null
    <3>1. Cur = 0
      BY <2>1, Mapped
    <3>2. Cur' = PlaceOf(order', Null)
      BY <1>4, <2>1 DEF Cur
    <3>3. Cur' = 0
      BY <1>1, <3>2, PlaceNowhere
    <3>4. k # 0 /\ ~(k < 0)
      BY <1>3
    <3> QED BY <3>1, <3>3, <3>4
  <2>2. CASE iter # Null
    <3>1. Cur \in 1 .. Len(order) /\ order[Cur] = iter
      BY <2>2, Mapped
    <3>2. Cur # k
      BY <1>1, <1>2, <3>1
    <3>3. \A c \in 1 .. Len(order) : c # k =>
            PlaceOf(RemoveAt(order, k), order[c]) = IF k < c THEN c - 1 ELSE c
      BY <1>2, <1>3, PlaceAfterRemove
    <3>4. Cur' = PlaceOf(RemoveAt(order, k), order[Cur])
      BY <1>2, <1>4, <3>1 DEF Cur
    <3> QED BY <3>1, <3>2, <3>3, <3>4
  <2> QED BY <2>1, <2>2
<1>9. \A i \in 1 .. k - 1 : ~Abstract!Hit(Asked.arg, Items[i], Asked.cmp)
  <2>1. PICK j \in 1 .. Len(order) :
          n = order[j] /\ \A i \in 1 .. j - 1 : Passes(search, data[order[i]])
    BY EntryOfSearch DEF Unlink, Searching
  <2>2. j = k
    BY <1>2, <2>1, Positions DEF Inv
  <2>3. ASSUME NEW i \in 1 .. k - 1 PROVE ~Abstract!Hit(Asked.arg, Items[i], Asked.cmp)
    <3>1. i \in 1 .. Len(order)
      BY <1>3
    <3>2. Passes(search, data[order[i]])
      BY <2>1, <2>2
    <3> QED BY <1>4, <1>5, <3>1, <3>2, SameHit DEF Passes
  <2> QED BY <2>3
<1>10. Abstract!Hit(Asked.arg, Items[k], Asked.cmp)
  BY <1>4, <1>5, SameHit
<1>11. IF Asked.free /\ Items[k] # Null
         THEN Open' = Open + 1 /\ UNCHANGED answer
         ELSE answer' = 1 /\ UNCHANGED Open
  <2>1. CASE calls
    <3>1. freeing' = <<n>> \o freeing /\ answer' = answer /\ freeing \in Seq(Node)
      BY <2>1 DEF Unlink, Inv, Shape, TypeOK
    <3>2. Len(freeing') = Len(freeing) + 1
      BY <1>1, <3>1, ConsPlaces
    <3> QED BY <1>5, <2>1, <3>1, <3>2 DEF Open
  <2>2. CASE ~calls
    <3>1. freeing' = freeing /\ answer' = 1
      BY <2>2 DEF Unlink, FreeNode
    <3> QED BY <1>5, <2>2, <3>1 DEF Open
  <2> QED BY <2>1, <2>2
<1>12. Abstract!TakeOut(k)
  BY <1>5, <1>7, <1>8, <1>9, <1>10, <1>11
  DEF Items, Cur, Asked, Open, ItemsOf, PlaceOf, AskedOf,
      Abstract!TakeOut, Abstract!AskedHit, RemoveAt, Abstract!RemoveAt
<1> QED BY <1>5, <1>12

LEMMA FreeReturnsRefines ==
  ASSUME Inv, FreeReturns
  PROVE  Abstract!FreeReturns
<1> DEFINE n == Head(freeing)
<1>1. /\ order \in Seq(Node) /\ freeing \in Seq(Node) /\ freeing # <<>> /\ data \in Contents
      /\ Len(freeing) \in Nat
  BY DEF Inv, Shape, TypeOK, FreeReturns, Contents
<1>2. /\ search = NoSearch /\ search' = search /\ iter' = iter /\ order' = order
      /\ freeing' = Tail(freeing) /\ data' = Wiped(data, n) /\ answer' = 1
  BY DEF FreeReturns, FreeNode, ClientRuns
<1>3. n = freeing[1] /\ 1 \in 1 .. Len(freeing) /\ Len(Tail(freeing)) = Len(freeing) - 1
  BY <1>1, TailPlaces
<1>4. n \in Node /\ n \notin ToSet(order)
  BY <1>1, <1>3 DEF Inv, Shape, BlocksCounted
<1> HIDE DEF n
<1>5. Items' = Items
  <2>1. Items \in Seq(Data \cup {Null}) /\ Len(Items) = Len(order)
    BY Mapped
  <2>2. data' \in Contents
    BY <1>1, <1>2 DEF Wiped, Contents
  <2>3. ASSUME NEW i \in 1 .. Len(order) PROVE Items[i] = data'[order[i]]
    <3>1. order[i] \in Node /\ order[i] # n
      BY <1>1, <1>4, ToSetPlaces
    <3> QED BY <1>1, <1>2, <3>1, Mapped DEF Wiped, Contents
  <2>4. ItemsOf(order, data') = Items
    BY <1>1, <2>1, <2>2, <2>3, SameItems
  <2> QED BY <1>2, <2>4 DEF Items
<1>6. Cur' = Cur /\ Asked' = Asked /\ Asked = Abstract!Nothing
  BY <1>2, Mapped DEF Cur, Asked
<1>7. Open > 0 /\ Open' = Open - 1
  BY <1>1, <1>2, <1>3 DEF Open
<1> QED BY <1>2, <1>5, <1>6, <1>7
    DEF Items, Cur, Asked, Open, ItemsOf, PlaceOf, AskedOf,
        Abstract!FreeReturns, Abstract!Answered

LEMMA ClearRefines ==
  ASSUME Inv, DestroyAndNew
  PROVE  Abstract!Clear
<1>1. /\ order' = <<>> /\ freeing = <<>> /\ freeing' = freeing /\ iter = Null /\ iter' = iter
      /\ search = NoSearch /\ search' = search /\ answer' = answer
  BY DEF DestroyAndNew, ClientRuns
<1>2. Items' = <<>> /\ Cur' = 0
  <2>1. Inv'
    BY DestroyAndNewKeeps
  <2>2. data' \in Contents
    BY <2>1 DEF Inv, Shape, TypeOK, Contents
  <2>3. ItemsOf(<<>>, data') = <<>> /\ PlaceOf(<<>>, Null) = 0
    <3>1. <<>> \in Seq(Node) /\ <<>> \in Seq(Data \cup {Null}) /\ Len(<<>>) = 0
      OBVIOUS
    <3>2. \A i \in 1 .. 0 : FALSE
      OBVIOUS
    <3> QED BY <2>2, <3>1, <3>2, SameItems, PlaceNowhere
  <2> QED BY <1>1, <2>3 DEF Items, Cur
<1>3. Open = 0 /\ Open' = Open /\ Cur = 0 /\ Asked = Abstract!Nothing /\ Asked' = Asked
  BY <1>1, Mapped DEF Open, Asked
<1> QED BY <1>1, <1>2, <1>3
    DEF Items, Cur, Asked, Open, ItemsOf, PlaceOf, AskedOf,
        Abstract!Clear, Abstract!Answered

LEMMA InitRefines == ASSUME Init PROVE Abstract!Init
<1>1. Inv /\ iter = Null /\ search = NoSearch /\ Len(order) = 0 /\ freeing = <<>> /\ answer = 0
  BY InitInv DEF Init
<1>2. Items = <<>> /\ Cur = 0 /\ Asked = Abstract!Nothing /\ Open = 0
  BY <1>1, Mapped DEF Open
<1> QED BY <1>1, <1>2
    DEF Items, Cur, Asked, Open, ItemsOf, PlaceOf, AskedOf, Abstract!Init

LEMMA StepsRefine == ASSUME Inv, [Next]_vars PROVE [Abstract!Next]_(Abstract!vars)
<1>1. CASE UNCHANGED vars
  BY <1>1, StillRefines
<1>2. CASE \E n \in Node, d \in Data \cup {Null} : Insert(n, d) \/ InsertTail(n, d)
  BY <1>2, InsertRefines DEF Abstract!Next
<1>3. CASE InsertRefused
  BY <1>3, StillRefines DEF Abstract!Next
<1>4. CASE \E on \in BOOLEAN : Ctrl(on)
  BY <1>4, StillRefines
<1>5. CASE \E arg \in Data \cup {Null}, cmp, free \in BOOLEAN : Delete(arg, cmp, free)
  <2>1. \E arg \in Data \cup {Null}, cmp, free \in BOOLEAN : Abstract!Delete(arg, cmp, free)
    BY <1>5, AskRefines
  <2> QED BY <2>1 DEF Abstract!Next
<1>6. CASE \E arg \in Data, cmp \in BOOLEAN : Find(arg, cmp)
  <2>1. \E arg \in Data, cmp \in BOOLEAN : Abstract!Find(arg, cmp)
    BY <1>6, AskRefines
  <2> QED BY <2>1 DEF Abstract!Next
<1>7. CASE DestroyAndNew
  BY <1>7, ClearRefines DEF Abstract!Next
<1>8. CASE IterHead \/ IterTail \/ IterNext \/ IterPrev
  <2>1. Abstract!ToFirst \/ Abstract!ToLast \/ Abstract!Forward \/ Abstract!Backward
    BY <1>8, MovesRefine
  <2> QED BY <2>1 DEF Abstract!Next
<1>9. CASE IterErase
  <2>1. \E free \in BOOLEAN : Abstract!Erase(free)
    BY <1>9, AskRefines
  <2> QED BY <2>1 DEF Abstract!Next
<1>10. CASE DelNext \/ FindNext
  BY <1>10, StillRefines
<1>11. CASE DelFails \/ FindEnds \/ FindStops
  BY <1>11, EndsRefine DEF Abstract!Next
<1>12. CASE Unlink
  <2>1. \E i \in DOMAIN Items : Abstract!TakeOut(i)
    BY <1>12, UnlinkRefines
  <2> QED BY <2>1 DEF Abstract!Next, Items, ItemsOf
<1>13. CASE FreeReturns
  BY <1>13, FreeReturnsRefines DEF Abstract!Next
<1> QED BY <1>1, <1>2, <1>3, <1>4, <1>5, <1>6, <1>7, <1>8, <1>9, <1>10, <1>11, <1>12,
           <1>13 DEF Next, Calls, Steps

(* mcl_list.h: nodes, links and nested free functions cannot be told from  *)
(* outside: the list is the sequence of ListSeq with its cursor, and every *)
(* insertion, deletion and search is answered as the sequence has it.      *)
THEOREM ListImplementsSeq == Spec => ImplementsSeq
<1>1. Init => Abstract!Init
  BY InitRefines
<1>2. Inv /\ [Next]_vars => [Abstract!Next]_(Abstract!vars)
  BY StepsRefine
<1> QED BY <1>1, <1>2, AlwaysInv, PTL DEF Spec, ImplementsSeq, Abstract!Spec

=============================================================================
