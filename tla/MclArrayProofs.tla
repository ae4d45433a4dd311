--------------------------- MODULE MclArrayProofs ---------------------------
(***************************************************************************)
(* Proofs about the array (MclArray): its types, that every element is in  *)
(* a cell that exists and was written, and that it implements the sequence *)
(* of ArraySeq.                                                            *)
(***************************************************************************)
EXTENDS MclArray, SequenceFacts

-----------------------------------------------------------------------------
(* What NonNull keeps.                                                     *)

(* One step of NonNull's function.                                         *)
KeptUpTo(f, s, n) ==
  IF n = 0 THEN <<>>
  ELSE IF s[n] = Null THEN f[n - 1] ELSE Append(f[n - 1], s[n])

KeptBy(f, s) == f = [n \in 0 .. Len(s) |-> KeptUpTo(f, s, n)]

(* The function that NonNull computes exists.                              *)
LEMMA KeptExists ==
  ASSUME NEW s \in Seq(Values)
  PROVE  \E f : KeptBy(f, s)
<1> DEFINE Good(n) == \E f \in [0 .. n -> Seq(Data)] :
                        \A i \in 0 .. n : f[i] = KeptUpTo(f, s, i)
           S == {n \in Nat : n <= Len(s) => Good(n)}
<1>1. 0 \in S
  <2> DEFINE g == [i \in 0 .. 0 |-> <<>>]
  <2>1. g \in [0 .. 0 -> Seq(Data)]
    OBVIOUS
  <2>2. \A i \in 0 .. 0 : g[i] = KeptUpTo(g, s, i)
    BY DEF KeptUpTo
  <2> HIDE DEF g
  <2>3. Good(0)
    BY <2>1, <2>2
  <2> HIDE DEF Good
  <2> QED BY <2>3
<1>2. ASSUME NEW n \in S PROVE n + 1 \in S
  <2> SUFFICES ASSUME n + 1 <= Len(s) PROVE Good(n + 1)
    <3> HIDE DEF Good
    <3> QED OBVIOUS
  <2>1. n \in Nat /\ Good(n)
    <3> HIDE DEF Good
    <3> QED BY <1>2
  <2>2. PICK f \in [0 .. n -> Seq(Data)] : \A i \in 0 .. n : f[i] = KeptUpTo(f, s, i)
    BY <2>1
  <2>3. s[n + 1] \in Values
    BY ElementOfSeq
  <2> DEFINE last == IF s[n + 1] = Null THEN f[n] ELSE Append(f[n], s[n + 1])
             g == [i \in 0 .. n + 1 |-> IF i = n + 1 THEN last ELSE f[i]]
  <2>4. last \in Seq(Data)
    BY <2>3 DEF Values
  <2>5. g \in [0 .. n + 1 -> Seq(Data)]
    BY <2>1, <2>4
  <2>6. ASSUME NEW i \in 0 .. n + 1 PROVE g[i] = KeptUpTo(g, s, i)
    <3>1. CASE i = n + 1
      BY <2>1, <3>1 DEF KeptUpTo
    <3>2. CASE i \in 0 .. n
      <4>1. g[i] = f[i] /\ (i # 0 => g[i - 1] = f[i - 1])
        BY <2>1, <3>2
      <4> QED BY <3>2, <4>1, <2>2 DEF KeptUpTo
    <3> QED BY <2>1, <3>1, <3>2
  <2> HIDE DEF g
  <2> QED BY <2>5, <2>6
<1>3. S = Nat
  <2> HIDE DEF S
  <2>1. S \in SUBSET Nat BY DEF S
  <2> QED BY <1>1, <1>2, <2>1, SetInduction
<1>4. Good(Len(s))
  <2> HIDE DEF Good
  <2> QED BY <1>3, LenProperties
<1>5. PICK f \in [0 .. Len(s) -> Seq(Data)] :
               \A i \in 0 .. Len(s) : f[i] = KeptUpTo(f, s, i)
  BY <1>4
<1>6. KeptBy(f, s)
  BY <1>5 DEF KeptBy
<1> QED BY <1>6

(* NonNull of a sequence of pointers has data only.                        *)
LEMMA NonNullType ==
  ASSUME NEW s \in Seq(Values)
  PROVE  NonNull(s) \in Seq(Data)
<1> DEFINE kept == CHOOSE f : KeptBy(f, s)
<1>1. NonNull(s) = kept[Len(s)]
  BY DEF NonNull, KeptBy, KeptUpTo
<1>2. KeptBy(kept, s)
  BY KeptExists
<1> HIDE DEF kept
<1> DEFINE S == {n \in Nat : n <= Len(s) => kept[n] \in Seq(Data)}
<1>3. ASSUME NEW n \in 0 .. Len(s) PROVE kept[n] = KeptUpTo(kept, s, n)
  BY <1>2 DEF KeptBy
<1>4. 0 \in S
  <2>1. kept[0] = <<>>
    BY <1>3, LenProperties DEF KeptUpTo
  <2> QED BY <2>1, EmptySeq
<1>5. ASSUME NEW n \in S PROVE n + 1 \in S
  <2> SUFFICES ASSUME n + 1 <= Len(s) PROVE kept[n + 1] \in Seq(Data)
    OBVIOUS
  <2>1. kept[n] \in Seq(Data) /\ s[n + 1] \in Values
    BY <1>5, ElementOfSeq
  <2>2. kept[n + 1] = IF s[n + 1] = Null THEN kept[n] ELSE Append(kept[n], s[n + 1])
    BY <1>3 DEF KeptUpTo
  <2> QED BY <2>1, <2>2 DEF Values
<1>6. S = Nat
  <2> HIDE DEF S
  <2>1. S \in SUBSET Nat BY DEF S
  <2> QED BY <1>4, <1>5, <2>1, SetInduction
<1> QED BY <1>1, <1>6

-----------------------------------------------------------------------------
(***************************************************************************)
(* The invariant: the types, the soundness of the cells, and a buffer that *)
(* is never without room for two (mcl_array_new and tighten see to that),  *)
(* so that index 0 of an empty array and the index 1 that an insertion     *)
(* after it writes are in the buffer.                                      *)
(***************************************************************************)
Roomy == total >= 2

Inv == TypeOK /\ CellsSound /\ Roomy

LEMMA InitInv == Init => Inv
<1> SUFFICES ASSUME Init PROVE Inv
  OBVIOUS
<1> USE ArrayAssumption
<1>1. PICK n \in InitSizes :
        LET capacity == IF n > DefaultSize THEN 2 * n ELSE DefaultSize
        IN  /\ cells = [i \in 0 .. capacity - 1 |-> Null]
            /\ total = capacity
            /\ size = 0
            /\ erase_fn = "wild"
            /\ index = -1 /\ ptr = Null
            /\ ret = 0 /\ released = <<>>
  BY DEF Init
<1>2. total \in Nat /\ total >= 2 /\ cells = [i \in 0 .. total - 1 |-> Null] /\ size = 0
  BY <1>1
<1>3. TypeOK
  BY <1>1, <1>2 DEF TypeOK, Values
<1>4. CellsSound
  BY <1>2 DEF CellsSound
<1> QED BY <1>2, <1>3, <1>4 DEF Inv, Roomy

(* In an array with elements every index in bounds is one of them.         *)
LEMMA Bounds ==
  ASSUME Inv, NEW i \in Int, ~OutOfBounds(i)
  PROVE  /\ i \in 0 .. size
         /\ size > 0 => i \in 0 .. size - 1
         /\ i \in DOMAIN cells /\ cells[i] \in Values
<1>1. CASE size = 0
  <2>1. i = 0 /\ cells[0] = Null /\ 0 \in 0 .. total - 1
    BY <1>1 DEF OutOfBounds, Inv, CellsSound, Roomy, TypeOK
  <2> QED BY <1>1, <2>1 DEF Inv, TypeOK, Values
<1>2. CASE size # 0
  <2>1. i \in 0 .. size - 1 /\ i \in 0 .. total - 1
    BY <1>2 DEF OutOfBounds, Inv, TypeOK, CellsSound
  <2>2. cells[i] \in Values \cup {Junk} /\ cells[i] # Junk
    BY <2>1 DEF Inv, TypeOK, CellsSound
  <2> QED BY <1>2, <2>1, <2>2 DEF Inv, TypeOK
<1> QED BY <1>1, <1>2

(* The pointers between two indices.                                       *)
LEMMA SliceType ==
  ASSUME Inv, NEW b \in 0 .. size, NEW e \in 0 .. size
  PROVE  Slice(b, e) \in Seq(Values)
<1>1. CASE b <= e
  <2>1. e - b \in Nat
    BY <1>1
  <2>2. \A i \in 1 .. e - b : cells[b + i - 1] \in Values
    BY <1>1 DEF Inv, TypeOK, CellsSound
  <2> QED BY <2>1, <2>2 DEF Slice
<1>2. CASE b > e
  <2>1. 1 .. e - b = 1 .. 0
    BY <1>2
  <2>2. Slice(b, e) = [i \in 1 .. 0 |-> cells[b + i - 1]]
    BY <2>1 DEF Slice
  <2> QED BY <2>2
<1> QED BY <1>1, <1>2 DEF Inv, TypeOK

(* A call that leaves the elements where they are.                         *)
LEMMA StillInv ==
  ASSUME Inv, UNCHANGED array,
         erase_fn' \in {"none", "free", "wild"}, index' \in -1 .. MaxSize, ptr' \in Values,
         ret' \in -1 .. MaxSize, released' \in Seq(Data)
  PROVE  Inv'
<1> QED BY DEF Inv, Roomy, TypeOK, CellsSound, array

LEMMA AnswerInv ==
  ASSUME Inv, NEW r \in -1 .. MaxSize, Answer(r), UNCHANGED <<array, iter>>,
         erase_fn' \in {"none", "free", "wild"}
  PROVE  Inv'
<1>1. released' = <<>> /\ released' \in Seq(Data)
  BY EmptySeq DEF Answer
<1>2. ret' = r /\ UNCHANGED array
  BY DEF Answer
<1>3. index' \in -1 .. MaxSize /\ ptr' \in Values
  BY DEF Inv, TypeOK, iter
<1> QED BY <1>1, <1>2, <1>3, StillInv

(* What a buffer with room for one more looks like.                        *)
LEMMA GrownFacts ==
  ASSUME Inv
  PROVE  /\ Grown \in [0 .. (IF Grows THEN 2 * total ELSE total) - 1 -> Values \cup {Junk}]
         /\ size < (IF Grows THEN 2 * total ELSE total)
         /\ \A i \in 0 .. total - 1 : Grown[i] = cells[i]
<1>2. CASE Grows
  BY <1>2 DEF Inv, Roomy, TypeOK, CellsSound, Grown, Grows
<1>3. CASE ~Grows
  BY <1>3 DEF Inv, Roomy, TypeOK, CellsSound, Grown, Grows
<1> QED BY <1>2, <1>3

(* Every insertion, also the one after index 0 of an empty array.          *)
LEMMA PutInv ==
  ASSUME Inv, NEW d \in Values, NEW i \in Nat, i <= size \/ (size = 0 /\ i = 1),
         Put(d, i)
  PROVE  Inv'
<1> USE ArrayAssumption
<1> DEFINE room == IF Grows THEN 2 * total ELSE total
<1>1. /\ size < MaxSize /\ total' = room /\ size' = size + 1
      /\ cells' = [j \in DOMAIN Grown |->
                     IF j = i THEN d
                     ELSE IF i < j /\ j <= size THEN Grown[j - 1] ELSE Grown[j]]
      /\ ret' = i /\ released' = <<>> /\ UNCHANGED <<erase_fn, index, ptr>>
  BY DEF Put, Answer, iter
<1>2. /\ room \in Nat /\ size < room /\ room >= 2
      /\ Grown \in [0 .. room - 1 -> Values \cup {Junk}]
      /\ \A j \in 0 .. total - 1 : Grown[j] = cells[j]
  BY GrownFacts DEF Inv, TypeOK, Roomy
<1> HIDE DEF room
<1>3. DOMAIN cells' = 0 .. total' - 1
  BY <1>1, <1>2
<1>4. ASSUME NEW j \in DOMAIN cells' PROVE cells'[j] \in Values \cup {Junk}
  BY <1>1, <1>2 DEF Inv, TypeOK
<1>5. TypeOK'
  BY <1>1, <1>2, <1>3, <1>4, EmptySeq DEF Inv, TypeOK
<1>6. ASSUME NEW j \in 0 .. size' - 1 PROVE cells'[j] # Junk
  <2>1. j \in 0 .. size /\ j \in 0 .. room - 1
    BY <1>1, <1>2 DEF Inv, TypeOK
  <2>2. CASE j = i
    BY <1>1, <1>2, <2>1, <2>2 DEF Values
  <2>3. CASE i < j
    <3>1. j - 1 \in 0 .. size - 1 /\ j - 1 \in 0 .. total - 1
      BY <2>1, <2>3 DEF Inv, TypeOK, CellsSound
    <3>2. cells'[j] = Grown[j - 1]
      BY <1>1, <1>2, <2>1, <2>3
    <3> QED BY <1>2, <3>1, <3>2 DEF Inv, CellsSound
  <2>4. CASE j < i
    <3>1. cells'[j] = Grown[j]
      BY <1>1, <1>2, <2>1, <2>4
    <3>2. j \in 0 .. size - 1 \/ (size = 0 /\ j = 0)
      BY <2>1, <2>4 DEF Inv, TypeOK
    <3>3. j \in 0 .. total - 1
      BY <3>2 DEF Inv, TypeOK, CellsSound, Roomy
    <3>4. cells[j] # Junk
      BY <3>2 DEF Inv, CellsSound
    <3> QED BY <1>2, <3>1, <3>3, <3>4
  <2> QED BY <2>1, <2>2, <2>3, <2>4
<1>7. CellsSound'
  <2>1. size' <= total' /\ size' # 0
    BY <1>1, <1>2 DEF Inv, TypeOK
  <2> QED BY <2>1, <1>6 DEF CellsSound
<1> QED BY <1>1, <1>2, <1>5, <1>7 DEF Inv, Roomy

-----------------------------------------------------------------------------
(* Whatever a call releases is data.                                       *)
LEMMA ReleasesType ==
  ASSUME NEW s \in Seq(Values), NEW free \in BOOLEAN, Releases(s, free)
  PROVE  released' \in Seq(Data)
<1> QED BY NonNullType, EmptySeq DEF Releases

(* A call that takes elements away and leaves the buffer.                  *)
LEMMA FewerInv ==
  ASSUME Inv, total' = total, cells' \in [0 .. total - 1 -> Values \cup {Junk}],
         size' \in 0 .. size,
         \A j \in 0 .. size' - 1 : cells'[j] # Junk,
         size' = 0 => cells'[0] = Null,
         erase_fn' = erase_fn, index' \in -1 .. MaxSize, ptr' \in Values,
         ret' \in -1 .. MaxSize, released' \in Seq(Data)
  PROVE  Inv'
<1>1. TypeOK'
  BY ArrayAssumption DEF Inv, TypeOK
<1>2. size' <= total'
  BY DEF Inv, TypeOK, CellsSound
<1>3. CellsSound'
  BY <1>2 DEF CellsSound
<1> QED BY <1>1, <1>3 DEF Inv, Roomy

(* One element goes and the ones after it move down.                       *)
LEMMA ShiftFacts ==
  ASSUME Inv, NEW i \in 0 .. size - 1, Shift(i)
  PROVE  /\ cells' \in [0 .. total - 1 -> Values \cup {Junk}]
         /\ \A j \in 0 .. size - 1 : cells'[j] \in Values
         /\ cells'[size - 1] = Null
<1> USE ArrayAssumption
<1>1. size \in Nat /\ total \in Nat /\ size <= total /\ DOMAIN cells = 0 .. total - 1
  BY DEF Inv, TypeOK, CellsSound
<1>2. \A j \in 0 .. size - 1 : cells[j] \in Values
  BY <1>1 DEF Inv, TypeOK, CellsSound
<1>3. \A j \in 0 .. total - 1 : cells[j] \in Values \cup {Junk}
  BY DEF Inv, TypeOK
<1>4. cells' = [j \in 0 .. total - 1 |->
                  IF j = size - 1 THEN Null
                  ELSE IF i <= j /\ j < size - 1 THEN cells[j + 1] ELSE cells[j]]
  BY <1>1 DEF Shift
<1>5. ASSUME NEW j \in 0 .. total - 1 PROVE cells'[j] \in Values \cup {Junk}
  <2>1. j < size - 1 => j + 1 \in 0 .. total - 1
    BY <1>1
  <2> QED BY <1>3, <1>4, <2>1 DEF Values
<1>6. ASSUME NEW j \in 0 .. size - 1 PROVE cells'[j] \in Values
  <2>1. j \in 0 .. total - 1 /\ (j < size - 1 => j + 1 \in 0 .. size - 1)
    BY <1>1
  <2> QED BY <1>2, <1>4, <2>1 DEF Values
<1>7. cells'[size - 1] = Null
  BY <1>1, <1>4
<1> QED BY <1>4, <1>5, <1>6, <1>7

LEMMA ShiftInv ==
  ASSUME Inv, NEW i \in 0 .. size - 1, NEW free \in BOOLEAN,
         Shift(i), Shrinks(i, free), size > 0,
         index' \in -1 .. MaxSize, ptr' \in Values, ret' \in -1 .. MaxSize
  PROVE  Inv'
<1> USE ArrayAssumption
<1>1. /\ size' = size - 1 /\ total' = total /\ erase_fn' = erase_fn
      /\ Releases(<<cells[i]>>, free)
  BY DEF Shrinks
<1>2. cells[i] \in Values
  BY DEF Inv, TypeOK, CellsSound
<1>3. <<cells[i]>> \in Seq(Values)
  BY <1>2
<1>4. released' \in Seq(Data)
  BY <1>1, <1>3, ReleasesType
<1>5. size \in Nat /\ size' \in 0 .. size
  BY <1>1 DEF Inv, TypeOK
<1>6. \A j \in 0 .. size' - 1 : cells'[j] # Junk
  BY <1>1, <1>5, ShiftFacts DEF Values
<1>7. size' = 0 => cells'[0] = Null
  BY <1>1, <1>5, ShiftFacts
<1> QED BY <1>1, <1>4, <1>5, <1>6, <1>7, ShiftFacts, FewerInv

(* The last element takes the place of the one that goes.                  *)
LEMMA DeleteInv ==
  ASSUME Inv, NEW i \in Nat, NEW free \in BOOLEAN, Delete(i, free)
  PROVE  Inv'
<1> USE ArrayAssumption
<1>1. /\ size > 0 /\ ~OutOfBounds(i) /\ ret' = i
      /\ cells' = [[cells EXCEPT ![i] = cells[size - 1]] EXCEPT ![size - 1] = Null]
      /\ size' = size - 1 /\ total' = total /\ erase_fn' = erase_fn
      /\ Releases(<<cells[i]>>, free) /\ index' = index /\ ptr' = ptr
  BY DEF Delete, Shrinks, iter
<1>2. size \in Nat /\ size <= MaxSize /\ total \in Nat /\ size <= total
  BY DEF Inv, TypeOK, CellsSound
<1>3. i \in 0 .. size - 1 /\ cells[i] \in Values
  BY <1>1, Bounds
<1>4. cells[size - 1] \in Values
  BY <1>1, <1>2 DEF Inv, TypeOK, CellsSound
<1>5. cells' \in [0 .. total - 1 -> Values \cup {Junk}]
  BY <1>1, <1>4 DEF Inv, TypeOK, Values
<1>6. size' \in 0 .. size
  BY <1>1, <1>2
<1>7. ASSUME NEW j \in 0 .. size' - 1 PROVE cells'[j] # Junk
  <2>1. j \in 0 .. size - 1 /\ j # size - 1 /\ j \in DOMAIN cells
    BY <1>1, <1>2 DEF Inv, TypeOK
  <2>2. cells'[j] = IF j = i THEN cells[size - 1] ELSE cells[j]
    BY <1>1, <1>3, <2>1
  <2> QED BY <1>4, <2>1, <2>2 DEF Inv, CellsSound, Values
<1>8. size' = 0 => cells'[0] = Null
  BY <1>1, <1>2, <1>3 DEF Inv, TypeOK
<1>9. released' \in Seq(Data)
  <2>1. <<cells[i]>> \in Seq(Values)
    BY <1>3
  <2> QED BY <1>1, <2>1, ReleasesType
<1>10. index' \in -1 .. MaxSize /\ ptr' \in Values /\ ret' \in -1 .. MaxSize
  BY <1>1, <1>2, <1>3 DEF Inv, TypeOK
<1> QED BY <1>1, <1>5, <1>6, <1>7, <1>8, <1>9, <1>10, FewerInv

LEMMA DeleteCellsInv ==
  ASSUME Inv, NEW b \in Nat, NEW e \in Nat, NEW free \in BOOLEAN,
         DeleteCells(b, e, free)
  PROVE  Inv'
<1> USE ArrayAssumption
<1> DEFINE cnt == e - b
           gone(j) == IF free THEN Null ELSE cells[j]
<1>1. /\ ~OutOfBounds(b) /\ ~OutOfBounds(e) /\ b < e
      /\ cells' = [j \in DOMAIN cells |->
                     IF b <= j /\ j + cnt < size THEN cells[j + cnt]
                     ELSE IF b <= j /\ j < e THEN gone(j)
                     ELSE IF e <= j /\ j < size THEN Null
                     ELSE cells[j]]
      /\ size' = size - cnt /\ ret' = cnt
      /\ Releases(Slice(b, e), free)
      /\ total' = total /\ erase_fn' = erase_fn /\ index' = index /\ ptr' = ptr
  BY DEF DeleteCells, iter
<1>2. size \in Nat /\ size <= MaxSize /\ total \in Nat /\ size <= total
  BY DEF Inv, TypeOK, CellsSound
<1>3. size > 0 /\ b \in 0 .. size - 1 /\ e \in 0 .. size - 1
  BY <1>1, <1>2 DEF OutOfBounds
<1>4. DOMAIN cells = 0 .. total - 1 /\ \A j \in 0 .. total - 1 : cells[j] \in Values \cup {Junk}
  BY DEF Inv, TypeOK
<1>5. \A j \in 0 .. size - 1 : cells[j] # Junk
  BY DEF Inv, CellsSound
<1>6. ASSUME NEW j \in 0 .. total - 1 PROVE cells'[j] \in Values \cup {Junk}
  <2>1. j + cnt < size => j + cnt \in 0 .. total - 1
    BY <1>1, <1>2, <1>3
  <2> QED BY <1>1, <1>4, <2>1 DEF Values
<1>7. cells' \in [0 .. total - 1 -> Values \cup {Junk}]
  BY <1>1, <1>4, <1>6
<1>8. size' \in 0 .. size /\ size' > 0
  BY <1>1, <1>2, <1>3
<1>9. ASSUME NEW j \in 0 .. size' - 1 PROVE cells'[j] # Junk
  <2>1. j \in 0 .. size - 1 /\ j \in DOMAIN cells /\ j + cnt \in 0 .. size - 1
    BY <1>1, <1>2, <1>3, <1>4
  <2>2. j + cnt < size /\ (e <= j => b <= j)
    BY <1>1, <1>2, <1>3, <2>1
  <2>3. CASE b <= j
    <3>1. cells'[j] = cells[j + cnt]
      BY <1>1, <2>1, <2>2, <2>3
    <3> QED BY <1>5, <2>1, <3>1
  <2>4. CASE ~(b <= j)
    <3>1. cells'[j] = cells[j]
      BY <1>1, <2>1, <2>2, <2>4
    <3> QED BY <1>5, <2>1, <3>1
  <2> QED BY <2>3, <2>4
<1>10. released' \in Seq(Data)
  <2>1. b \in 0 .. size /\ e \in 0 .. size
    BY <1>2, <1>3
  <2>2. Slice(b, e) \in Seq(Values)
    BY <2>1, SliceType
  <2> QED BY <1>1, <2>2, ReleasesType
<1>11. index' \in -1 .. MaxSize /\ ptr' \in Values /\ ret' \in -1 .. MaxSize
  BY <1>1, <1>2, <1>3 DEF Inv, TypeOK
<1>12. total' = total /\ erase_fn' = erase_fn /\ (size' = 0 => cells'[0] = Null)
  BY <1>1, <1>8
<1> HIDE DEF cnt, gone
<1> QED BY <1>7, <1>8, <1>9, <1>10, <1>11, <1>12, FewerInv

LEMMA DeleteOneInv ==
  ASSUME Inv, NEW b \in Nat, NEW free \in BOOLEAN, DeleteOne(b, free)
  PROVE  Inv'
<1>1. /\ size > 0 /\ ~OutOfBounds(b) /\ Shift(b) /\ Shrinks(b, free)
      /\ ret' = 1 /\ index' = index /\ ptr' = ptr
  BY DEF DeleteOne, iter
<1>2. /\ b \in 0 .. size - 1 /\ index' \in -1 .. MaxSize /\ ptr' \in Values
      /\ size \in Nat /\ size <= MaxSize
  BY <1>1, Bounds DEF Inv, TypeOK
<1>3. ret' \in -1 .. MaxSize
  BY <1>1, ArrayAssumption
<1> QED BY <1>1, <1>2, <1>3, ShiftInv

LEMMA DeleteRangeInv ==
  ASSUME Inv, NEW b \in Nat, NEW e \in Nat, NEW free \in BOOLEAN,
         DeleteRange(b, e, free)
  PROVE  Inv'
<1> QED BY DeleteOneInv, DeleteCellsInv DEF DeleteRange

LEMMA CleanInv ==
  ASSUME Inv, NEW free \in BOOLEAN, Clean(free)
  PROVE  Inv'
<1> USE ArrayAssumption
<1>1. /\ cells' = [j \in DOMAIN cells |-> IF j < size THEN Null ELSE cells[j]]
      /\ size' = 0 /\ ret' = 0 /\ Releases(Slice(0, size), free)
      /\ total' = total /\ erase_fn' = erase_fn /\ index' = index /\ ptr' = ptr
  BY DEF Clean, iter
<1>2. size \in Nat /\ total \in Nat /\ total >= 2
  BY DEF Inv, TypeOK, Roomy
<1>3. cells' \in [0 .. total - 1 -> Values \cup {Junk}]
  BY <1>1 DEF Inv, TypeOK, Values
<1>4. cells'[0] = Null
  BY <1>1, <1>2 DEF Inv, TypeOK, CellsSound
<1>5. released' \in Seq(Data)
  <2>1. 0 \in 0 .. size /\ size \in 0 .. size
    BY <1>2
  <2>2. Slice(0, size) \in Seq(Values)
    BY <2>1, SliceType
  <2> QED BY <1>1, <2>2, ReleasesType
<1>6. size' \in 0 .. size /\ \A j \in 0 .. size' - 1 : cells'[j] # Junk
  BY <1>1, <1>2
<1>7. index' \in -1 .. MaxSize /\ ptr' \in Values /\ ret' \in -1 .. MaxSize
  BY <1>1 DEF Inv, TypeOK
<1> QED BY <1>1, <1>3, <1>4, <1>5, <1>6, <1>7, FewerInv

(* tighten copies the elements only, into a buffer twice their number.     *)
LEMMA TightenInv == ASSUME Inv, Tighten PROVE Inv'
<1> USE ArrayAssumption
<1>1. /\ size > 0 /\ ret' = 0 /\ released' = <<>>
      /\ size' = size /\ erase_fn' = erase_fn /\ index' = index /\ ptr' = ptr
  BY DEF Tighten, Answer, iter, array
<1>2. CASE total <= 2 * size
  <2>1. UNCHANGED <<array, iter>> /\ Answer(0) /\ 0 \in -1 .. MaxSize
    BY <1>2 DEF Tighten
  <2> QED BY <1>1, <2>1, AnswerInv DEF Inv, TypeOK
<1>3. CASE ~(total <= 2 * size)
  <2>1. cells' = [i \in 0 .. 2 * size - 1 |-> cells[i]] /\ total' = 2 * size
    BY <1>3 DEF Tighten
  <2>2. size \in Nat /\ total \in Nat /\ total' \in Nat /\ total' >= 2 /\ total' < total
    BY <1>1, <1>3, <2>1 DEF Inv, TypeOK
  <2>3. cells' \in [0 .. total' - 1 -> Values \cup {Junk}]
    BY <2>1, <2>2 DEF Inv, TypeOK
  <2>4. TypeOK'
    <3>1. released' \in Seq(Data)
      BY <1>1, EmptySeq
    <3>2. /\ size \in 0 .. MaxSize /\ erase_fn \in {"none", "free", "wild"}
          /\ index \in -1 .. MaxSize /\ ptr \in Values
      BY DEF Inv, TypeOK
    <3>3. ret' \in -1 .. MaxSize
      BY <1>1
    <3> QED BY <1>1, <2>2, <2>3, <3>1, <3>2, <3>3 DEF TypeOK, Values
  <2>5. \A j \in 0 .. size - 1 : cells'[j] = cells[j]
    BY <2>1, <2>2
  <2>6. CellsSound'
    <3>1. size' <= total' /\ size' # 0
      BY <1>1, <2>1, <2>2 DEF Inv, TypeOK
    <3>2. \A j \in 0 .. size' - 1 : cells'[j] # Junk
      BY <1>1, <2>5 DEF Inv, CellsSound
    <3> QED BY <3>1, <3>2 DEF CellsSound
  <2> QED BY <2>2, <2>4, <2>6 DEF Inv, Roomy
<1> QED BY <1>2, <1>3

LEMMA DestroyAndNewInv ==
  ASSUME Inv, NEW n \in InitSizes, NEW free \in BOOLEAN, DestroyAndNew(n, free)
  PROVE  Inv'
<1>1. /\ Fresh(n) /\ size' = 0 /\ erase_fn' = "wild" /\ index' = -1 /\ ptr' = Null
      /\ ret' = 0 /\ Releases(Slice(0, size), free)
  BY DEF DestroyAndNew
<1>2. total' \in Nat /\ total' >= 2
  BY <1>1, ArrayAssumption DEF Fresh
<1>2a. cells' = [i \in 0 .. total' - 1 |-> Null]
  BY <1>1, ArrayAssumption DEF Fresh
<1>3. released' \in Seq(Data)
  <2>1. size \in Nat /\ 0 \in 0 .. size /\ size \in 0 .. size
    BY DEF Inv, TypeOK
  <2>2. Slice(0, size) \in Seq(Values)
    BY <2>1, SliceType
  <2> QED BY <1>1, <2>2, ReleasesType
<1>4. TypeOK'
  BY <1>1, <1>2, <1>2a, <1>3, ArrayAssumption DEF TypeOK, Values
<1>5. CellsSound'
  <2>0. 0 \in 0 .. total' - 1
    <3>1. \A t \in Nat : t >= 2 => 0 \in 0 .. t - 1
      OBVIOUS
    <3> QED BY <1>2, <3>1
  <2>1. cells'[0] = Null /\ size' <= total'
    BY <1>1, <1>2, <1>2a, <2>0
  <2>2. 0 .. size' - 1 = {}
    BY <1>1
  <2> QED BY <2>1, <2>2 DEF CellsSound
<1> QED BY <1>2, <1>4, <1>5 DEF Inv, Roomy

-----------------------------------------------------------------------------
(* The calls, by kind.                                                     *)
LEMMA AddingInv == ASSUME Inv, Adding PROVE Inv'
<1>0. size \in Nat
  BY DEF Inv, TypeOK
<1>1. PICK d \in Values :
        \/ ArrayAppend(d) \/ Preappend(d)
        \/ \E i \in 0 .. MaxSize : Insert(d, i) \/ Preinsert(d, i)
  BY DEF Adding
<1>2. CASE ArrayAppend(d)
  BY <1>0, <1>2, PutInv DEF ArrayAppend
<1>3. CASE Preappend(d)
  BY <1>0, <1>3, PutInv DEF Preappend
<1>4. ASSUME NEW i \in 0 .. MaxSize, Insert(d, i) PROVE Inv'
  <2>1. ~OutOfBounds(i) /\ Put(d, i + 1)
    BY <1>4 DEF Insert
  <2>2. i + 1 \in Nat /\ (i + 1 <= size \/ (size = 0 /\ i + 1 = 1))
    BY <1>0, <2>1 DEF OutOfBounds
  <2> QED BY <2>1, <2>2, PutInv
<1>5. ASSUME NEW i \in 0 .. MaxSize, Preinsert(d, i) PROVE Inv'
  <2>1. ~OutOfBounds(i) /\ Put(d, i)
    BY <1>5 DEF Preinsert
  <2>2. i \in Nat /\ i <= size
    BY <1>0, <2>1 DEF OutOfBounds
  <2> QED BY <2>1, <2>2, PutInv
<1> QED BY <1>1, <1>2, <1>3, <1>4, <1>5

LEMMA RemovingInv == ASSUME Inv, Removing PROVE Inv'
<1> USE ArrayAssumption
<1>0. size \in Nat /\ size <= MaxSize /\ index \in -1 .. MaxSize /\ ptr \in Values
  BY DEF Inv, TypeOK
<1>1. PICK free \in BOOLEAN :
        \/ \E i \in 0 .. MaxSize : DeleteIndx(i, free) \/ Delete(i, free)
        \/ \E b, e \in 0 .. MaxSize : DeleteRange(b, e, free)
        \/ \E d \in Values : DeleteObj(d, free)
        \/ Clean(free)
        \/ \E n \in InitSizes : DestroyAndNew(n, free)
  BY DEF Removing
<1>2. ASSUME NEW i \in 0 .. MaxSize, DeleteIndx(i, free) PROVE Inv'
  <2>1. /\ size > 0 /\ ~OutOfBounds(i) /\ Shift(i) /\ Shrinks(i, free)
        /\ ret' = i /\ index' = index /\ ptr' = ptr
    BY <1>2 DEF DeleteIndx, iter
  <2>2. i \in 0 .. size - 1
    BY <2>1, Bounds
  <2> QED BY <1>0, <2>1, <2>2, ShiftInv
<1>3. ASSUME NEW i \in 0 .. MaxSize, Delete(i, free) PROVE Inv'
  BY <1>3, DeleteInv
<1>4. ASSUME NEW b \in 0 .. MaxSize, NEW e \in 0 .. MaxSize, DeleteRange(b, e, free)
      PROVE Inv'
  BY <1>4, DeleteRangeInv
<1>5. ASSUME NEW d \in Values, DeleteObj(d, free) PROVE Inv'
  <2>1. ASSUME NEW i \in 0 .. size - 1, Delete(i, free) PROVE Inv'
    BY <1>0, <2>1, DeleteInv
  <2>2. CASE Answer(-1) /\ UNCHANGED <<array, erase_fn, iter>>
    BY <1>0, <2>2, AnswerInv DEF Inv, TypeOK
  <2> QED BY <1>5, <2>1, <2>2 DEF DeleteObj
<1>6. CASE Clean(free)
  BY <1>6, CleanInv
<1>7. ASSUME NEW n \in InitSizes, DestroyAndNew(n, free) PROVE Inv'
  BY <1>7, DestroyAndNewInv
<1> QED BY <1>1, <1>2, <1>3, <1>4, <1>5, <1>6, <1>7

LEMMA RefusalsInv == ASSUME Inv, Refusals PROVE Inv'
<1>1. Answer(-1) /\ UNCHANGED <<array, erase_fn, iter>>
  BY DEF Refusals, Refused, DeleteRangeRefused
<1>2. -1 \in -1 .. MaxSize
  BY ArrayAssumption
<1> QED BY <1>1, <1>2, AnswerInv DEF Inv, TypeOK

(* The iterator stands on cells in bounds, or is unset.                    *)
LEMMA StandInv ==
  ASSUME Inv, UNCHANGED <<array, erase_fn, ret, released>>,
         \/ Unset
         \/ UNCHANGED iter
         \/ \E i \in Int : ~OutOfBounds(i) /\ StandAt(i)
  PROVE  Inv'
<1> USE ArrayAssumption
<1>1. index' \in -1 .. MaxSize /\ ptr' \in Values
  <2>1. CASE Unset
    BY <2>1 DEF Unset, Values
  <2>2. CASE UNCHANGED iter
    BY <2>2 DEF iter, Inv, TypeOK
  <2>3. ASSUME NEW i \in Int, ~OutOfBounds(i), StandAt(i)
        PROVE index' \in -1 .. MaxSize /\ ptr' \in Values
    BY <2>3, Bounds DEF StandAt, Inv, TypeOK
  <2> QED BY <2>1, <2>2, <2>3
<1>2. UNCHANGED array /\ ret' \in -1 .. MaxSize /\ released' \in Seq(Data)
      /\ erase_fn' \in {"none", "free", "wild"}
  BY DEF Inv, TypeOK
<1> QED BY <1>1, <1>2, StillInv

LEMMA IteratingInv == ASSUME Inv, Iterating PROVE Inv'
<1> USE ArrayAssumption
<1>0. size \in Nat /\ size <= MaxSize /\ index \in -1 .. MaxSize
  BY DEF Inv, TypeOK
<1>1. CASE IterHead
  BY <1>0, <1>1, StandInv DEF IterHead, Only, OutOfBounds
<1>2. CASE IterTail
  <2>1. size # 0 => ~OutOfBounds(size - 1)
    BY <1>0 DEF OutOfBounds
  <2> QED BY <1>0, <1>2, <2>1, StandInv DEF IterTail, Only
<1>3. ASSUME NEW i \in Int, IterMove(i) PROVE Inv'
  BY <1>3, StandInv DEF IterMove, Only
<1>4. CASE IterNext
  BY <1>0, <1>3, <1>4 DEF IterNext
<1>5. CASE IterPrev
  BY <1>0, <1>3, <1>5 DEF IterPrev
<1>6. CASE IterInfo
  BY <1>6, StandInv DEF IterInfo, Only
<1>7. CASE IterErase
  <2>1. /\ size > 0 /\ ~OutOfBounds(index)
        /\ Shift(index) /\ Shrinks(index, erase_fn = "free")
        /\ ret' = 0 /\ index' = index /\ ptr' = cells'[index]
    BY <1>7 DEF IterErase
  <2>2. index \in 0 .. size - 1
    BY <1>0, <2>1, Bounds
  <2>3. ptr' \in Values
    BY <2>1, <2>2, ShiftFacts
  <2>4. (erase_fn = "free") \in BOOLEAN /\ ret' \in -1 .. MaxSize
    BY <2>1
  <2> QED BY <1>0, <2>1, <2>2, <2>3, <2>4, ShiftInv
<1>8. CASE IterEraseEnd
  BY <1>8, StandInv DEF IterEraseEnd, Only
<1> QED BY <1>1, <1>2, <1>4, <1>5, <1>6, <1>7, <1>8 DEF Iterating

LEMMA NextInv == ASSUME Inv, [Next]_vars PROVE Inv'
<1>0. 0 \in -1 .. MaxSize
  BY ArrayAssumption
<1>1. CASE Ctrl
  <2>1. 1 \in -1 .. MaxSize
    BY ArrayAssumption
  <2>2. erase_fn' \in {"none", "free", "wild"} /\ Answer(1) /\ UNCHANGED <<array, iter>>
    BY <1>1 DEF Ctrl
  <2> QED BY <2>1, <2>2, AnswerInv
<1>2. CASE CtrlRefused
  BY <1>0, <1>2, AnswerInv DEF CtrlRefused, Inv, TypeOK
<1>3. CASE UNCHANGED vars
  BY <1>3 DEF vars, array, iter, Inv, TypeOK, CellsSound, Roomy
<1> QED BY <1>1, <1>2, <1>3, AddingInv, RemovingInv, RefusalsInv, TightenInv, IteratingInv
        DEF Next

LEMMA AlwaysInv == Spec => []Inv
<1> QED BY InitInv, NextInv, PTL DEF Spec

(* mcl_array.c: every variable keeps its type: the buffer has exactly the  *)
(* cells of its capacity, the iterator an index that fits the array, and   *)
(* what a free function gets is data and never NULL.                       *)
THEOREM TypeCorrect == Spec => []TypeOK
<1> QED BY AlwaysInv, PTL DEF Inv

(* mcl_array.c: through growth, shifts, tightening and the call that       *)
(* inserts after index 0 of an empty array, every element is in a cell     *)
(* that exists and was written.                                            *)
THEOREM CellsAreSound == Spec => []CellsSound
<1> QED BY AlwaysInv, PTL DEF Inv

-----------------------------------------------------------------------------
(***************************************************************************)
(* The array is a sequence.  Under the refinement mapping the items are    *)
(* the pointers of the cells below size; each call is compared place by    *)
(* place with its namesake of ArraySeq.                                    *)
(***************************************************************************)
(* ArraySeq is the array for clients that keep both contracts.             *)
Careful == Contracts = {"Occupied", "Inner"}

Items == Slice(0, size)

ItemsIn(c, n) == [i \in 1 .. n - 0 |-> c[0 + i - 1]]

LEMMA ItemsOf ==
  ASSUME NEW c, NEW n \in Nat, NEW m \in Nat, n <= m,
         c \in [0 .. m - 1 -> Values \cup {Junk}], \A i \in 0 .. n - 1 : c[i] # Junk
  PROVE  /\ ItemsIn(c, n) \in Seq(Values) /\ Len(ItemsIn(c, n)) = n
         /\ \A i \in 1 .. n : ItemsIn(c, n)[i] = c[i - 1]
         /\ \A i \in 0 .. n - 1 : ItemsIn(c, n)[i + 1] = c[i]
<1>1. ItemsIn(c, n) = [i \in 1 .. n |-> c[i - 1]]
  BY DEF ItemsIn
<1>2. ASSUME NEW i \in 1 .. n PROVE c[i - 1] \in Values
  <2>1. i - 1 \in 0 .. n - 1 /\ i - 1 \in 0 .. m - 1
    OBVIOUS
  <2> QED BY <2>1
<1> QED BY <1>1, <1>2

LEMMA ItemsNow ==
  ASSUME Inv
  PROVE  /\ Items \in Seq(Values) /\ Len(Items) = size /\ size \in Nat
         /\ \A i \in 1 .. size : Items[i] = cells[i - 1]
         /\ \A i \in 0 .. size - 1 : Items[i + 1] = cells[i]
<1>1. Items = ItemsIn(cells, size)
  BY DEF Items, Slice, ItemsIn
<1>2. size \in Nat
  BY ArrayAssumption DEF Inv, TypeOK
<1>3. /\ total \in Nat /\ size <= total
      /\ cells \in [0 .. total - 1 -> Values \cup {Junk}]
      /\ \A i \in 0 .. size - 1 : cells[i] # Junk
  BY DEF Inv, TypeOK, CellsSound
<1> QED BY <1>1, <1>2, <1>3, ItemsOf, Zenon

(* A sequence with the right pointers is what the items become.            *)
LEMMA ItemsBecome ==
  ASSUME Inv', NEW t \in Seq(Values), Len(t) = size',
         \A i \in 1 .. size' : t[i] = cells'[i - 1]
  PROVE  Items' = t
<1>1. Items' = ItemsIn(cells', size')
  BY DEF Items, Slice, ItemsIn
<1>2. size' \in Nat
  BY ArrayAssumption DEF Inv, TypeOK
<1>3. /\ total' \in Nat /\ size' <= total'
      /\ cells' \in [0 .. total' - 1 -> Values \cup {Junk}]
      /\ \A i \in 0 .. size' - 1 : cells'[i] # Junk
  BY DEF Inv, TypeOK, CellsSound
<1>4. /\ Items' \in Seq(Values) /\ Len(Items') = size'
      /\ \A i \in 1 .. size' : Items'[i] = cells'[i - 1]
  BY <1>1, <1>2, <1>3, ItemsOf, Zenon
<1> QED BY <1>4, SeqEqual, Zenon

LEMMA ItemsStay == ASSUME UNCHANGED array PROVE Items' = Items
<1> QED BY DEF array, Items, Slice

LEMMA SamePlaces == ASSUME Inv PROVE Sequence!Places = 0 .. size - 1
<1> QED BY ItemsNow DEF Sequence!Places, Items

LEMMA SameBounds ==
  ASSUME Inv, NEW i \in Int
  PROVE  Sequence!InBounds(i) <=> ~OutOfBounds(i)
<1>1. size \in Nat /\ (Items = <<>> <=> size = 0)
  BY ItemsNow
<1> QED BY <1>1, SamePlaces DEF Sequence!InBounds, Items, OutOfBounds

(***************************************************************************)
(* Adding.                                                                 *)
(***************************************************************************)

(* What an insertion into a sequence of pointers makes of it.              *)
LEMMA ValuesInserted ==
  ASSUME NEW d \in Values
  PROVE  \A q \in Seq(Values) : \A m \in 1 .. Len(q) + 1 :
           /\ InsertAt(q, m, d) \in Seq(Values) /\ Len(InsertAt(q, m, d)) = Len(q) + 1
           /\ \A j \in 1 .. Len(q) + 1 :
                InsertAt(q, m, d)[j] = IF j < m THEN q[j] ELSE IF j = m THEN d ELSE q[j - 1]
<1> SUFFICES ASSUME NEW q \in Seq(Values), NEW m \in 1 .. Len(q) + 1
             PROVE  /\ InsertAt(q, m, d) \in Seq(Values) /\ Len(InsertAt(q, m, d)) = Len(q) + 1
                    /\ \A j \in 1 .. Len(q) + 1 :
                         InsertAt(q, m, d)[j] = IF j < m THEN q[j] ELSE IF j = m THEN d ELSE q[j - 1]
  OBVIOUS
<1>1. PICK r : r = InsertAt(q, m, d)
  OBVIOUS
<1>2. r \in Seq(Values) /\ IsInsertion(r, q, m, d)
  BY <1>1, InsertAtIs
<1>3. /\ r \in Seq(Values) /\ Len(r) = Len(q) + 1
      /\ \A j \in 1 .. Len(q) + 1 : r[j] = IF j < m THEN q[j] ELSE IF j = m THEN d ELSE q[j - 1]
  BY <1>2 DEF IsInsertion
<1> QED BY <1>1, <1>3

(* An insertion into the cells is one into the items.                      *)
LEMMA PutRefines ==
  ASSUME Inv, NEW d \in Values, NEW i \in 0 .. size, Put(d, i)
  PROVE  Sequence!Put(d, i)
<1>1. size \in Nat /\ size <= total /\ total \in Nat
  BY DEF Inv, TypeOK, CellsSound
<1>2. Inv'
  BY <1>1, PutInv
<1>3. /\ size < MaxSize /\ size' = size + 1
      /\ cells' = [j \in DOMAIN Grown |->
                     IF j = i THEN d
                     ELSE IF i < j /\ j <= size THEN Grown[j - 1] ELSE Grown[j]]
  BY DEF Put
<1>4. /\ size < (IF Grows THEN 2 * total ELSE total)
      /\ DOMAIN Grown = 0 .. (IF Grows THEN 2 * total ELSE total) - 1
      /\ \A j \in 0 .. total - 1 : Grown[j] = cells[j]
  BY GrownFacts
<1> DEFINE t == InsertAt(Items, i + 1, d)
<1>5. /\ Items \in Seq(Values) /\ Len(Items) = size
      /\ \A j \in 1 .. size : Items[j] = cells[j - 1]
  BY ItemsNow
<1>6. /\ t \in Seq(Values) /\ Len(t) = size + 1
      /\ \A j \in 1 .. size + 1 :
           t[j] = IF j < i + 1 THEN Items[j] ELSE IF j = i + 1 THEN d ELSE Items[j - 1]
  <2> HIDE DEF Items
  <2>1. i + 1 \in 1 .. Len(Items) + 1
    BY <1>1, <1>5
  <2>3. /\ t \in Seq(Values) /\ Len(t) = Len(Items) + 1
        /\ \A j \in 1 .. Len(Items) + 1 :
             t[j] = IF j < i + 1 THEN Items[j] ELSE IF j = i + 1 THEN d ELSE Items[j - 1]
    <3>1. \A q \in Seq(Values) : \A m \in 1 .. Len(q) + 1 :
            /\ InsertAt(q, m, d) \in Seq(Values) /\ Len(InsertAt(q, m, d)) = Len(q) + 1
            /\ \A j \in 1 .. Len(q) + 1 :
                 InsertAt(q, m, d)[j] = IF j < m THEN q[j] ELSE IF j = m THEN d ELSE q[j - 1]
      BY ValuesInserted
    <3> QED BY <1>5, <2>1, <3>1
  <2> QED BY <1>5, <2>3
<1> HIDE DEF t
<1>7. ASSUME NEW j \in 1 .. size' PROVE t[j] = cells'[j - 1]
  <2>1. j \in 1 .. size + 1 /\ j - 1 \in 0 .. size /\ j - 1 \in DOMAIN Grown
    BY <1>1, <1>3, <1>4
  <2>2. CASE j - 1 = i
    BY <1>3, <1>6, <2>1, <2>2
  <2>3. CASE j - 1 < i
    <3>1. j \in 1 .. size /\ j - 1 \in 0 .. total - 1 /\ j < i + 1
      BY <1>1, <2>1, <2>3
    <3>2. cells'[j - 1] = Grown[j - 1]
      BY <1>3, <2>1, <2>3
    <3> QED BY <1>4, <1>5, <1>6, <2>1, <3>1, <3>2
  <2>4. CASE i < j - 1
    <3>1. j - 1 \in 1 .. size /\ (j - 1) - 1 \in 0 .. total - 1 /\ ~(j < i + 1) /\ j # i + 1
      BY <1>1, <2>1, <2>4
    <3>2. cells'[j - 1] = Grown[(j - 1) - 1]
      BY <1>3, <2>1, <2>4, <3>1
    <3> QED BY <1>4, <1>5, <1>6, <2>1, <3>1, <3>2
  <2> QED BY <1>1, <2>1, <2>2, <2>3, <2>4
<1>8. Items' = t
  BY <1>2, <1>3, <1>6, <1>7, ItemsBecome
<1>9. Len(Items) < MaxSize /\ Answer(i) /\ UNCHANGED <<erase_fn, index, ptr>>
  BY <1>3, <1>5 DEF Put, iter
<1>10. Items' = InsertAt(Items, i + 1, d)
  BY <1>8 DEF t
<1> QED BY <1>9, <1>10 DEF Items, Answer, Sequence!Put, Sequence!Answer, Sequence!iter,
                             InsertAt, Sequence!InsertAt

LEMMA AddsRefine ==
  ASSUME Careful, Inv, NEW d \in Values, NEW i \in Nat
  PROVE  AddsAgree(d, i)
<1>1. size \in Nat /\ Items \in Seq(Values) /\ Len(Items) = size
  BY ItemsNow
<1>2. ASSUME ArrayAppend(d) PROVE Sequence!ArrayAppend(d)
  <2>1. Sequence!Put(d, size)
    BY <1>1, <1>2, PutRefines DEF ArrayAppend
  <2> QED BY <1>1, <2>1 DEF Sequence!ArrayAppend, Items
<1>3. ASSUME Preappend(d) PROVE Sequence!Preappend(d)
  BY <1>1, <1>3, PutRefines DEF Preappend, Sequence!Preappend
<1>4. ASSUME Insert(d, i) PROVE Sequence!Insert(d, i)
  <2>1. size > 0 /\ ~OutOfBounds(i) /\ Put(d, i + 1)
    BY <1>4 DEF Insert, Occupied, Careful
  <2>2. i \in 0 .. size - 1 /\ i + 1 \in 0 .. size
    BY <1>1, <2>1 DEF OutOfBounds
  <2>3. Sequence!Put(d, i + 1)
    BY <2>1, <2>2, PutRefines
  <2> QED BY <2>2, <2>3, SamePlaces DEF Sequence!Insert
<1>5. ASSUME Preinsert(d, i) PROVE Sequence!Preinsert(d, i)
  <2>1. ~OutOfBounds(i) /\ Put(d, i)
    BY <1>5 DEF Preinsert
  <2>2. i \in 0 .. size
    BY <1>1, <2>1 DEF OutOfBounds
  <2> QED BY <2>1, <2>2, PutRefines, SameBounds DEF Sequence!Preinsert
<1> QED BY <1>2, <1>3, <1>4, <1>5 DEF AddsAgree

(***************************************************************************)
(* Removing.                                                               *)
(***************************************************************************)
LEMMA SameNonNull == \A s : NonNull(s) = Sequence!NonNull(s)
<1> QED BY DEF NonNull, Sequence!NonNull

LEMMA ReleasesSame ==
  ASSUME NEW s, NEW free, Releases(s, free)
  PROVE  released' = IF free THEN Sequence!NonNull(s) ELSE <<>>
<1> QED BY SameNonNull DEF Releases

LEMMA ShiftRefines ==
  ASSUME Inv, Inv', NEW i \in 0 .. size - 1, Shift(i), size' = size - 1
  PROVE  Items' = RemoveAt(Items, i + 1)
<1> DEFINE t == RemoveAt(Items, i + 1)
<1>1. /\ Items \in Seq(Values) /\ Len(Items) = size /\ size \in Nat
      /\ \A j \in 1 .. size : Items[j] = cells[j - 1]
  BY ItemsNow
<1>2. i + 1 \in 1 .. Len(Items)
  BY <1>1
<1>3. /\ t \in Seq(Values) /\ Len(t) = size - 1
      /\ \A j \in 1 .. size - 1 : t[j] = IF j < i + 1 THEN Items[j] ELSE Items[j + 1]
  BY <1>1, <1>2, RemoveAtPlaces
<1> HIDE DEF t
<1>4. /\ cells' = [j \in DOMAIN cells |->
                     IF j = size - 1 THEN Null
                     ELSE IF i <= j /\ j < size - 1 THEN cells[j + 1] ELSE cells[j]]
      /\ DOMAIN cells = 0 .. total - 1 /\ total \in Nat /\ size <= total
  BY DEF Shift, Inv, TypeOK, CellsSound
<1>5. ASSUME NEW j \in 1 .. size' PROVE t[j] = cells'[j - 1]
  <2>1. /\ j \in 1 .. size - 1 /\ j - 1 \in 0 .. total - 1 /\ j - 1 < size - 1
        /\ j \in 1 .. size /\ j + 1 \in 1 .. size
    BY <1>1, <1>4
  <2>2. cells'[j - 1] = IF i <= j - 1 THEN cells[(j - 1) + 1] ELSE cells[j - 1]
    BY <1>4, <2>1
  <2>3. (j - 1) + 1 = j /\ (j + 1) - 1 = j
    BY <2>1
  <2>4. t[j] = IF j < i + 1 THEN cells[j - 1] ELSE cells[j]
    BY <1>1, <1>3, <2>1, <2>3
  <2> QED BY <1>1, <2>1, <2>2, <2>3, <2>4
<1>6. Items' = t
  BY <1>1, <1>3, <1>5, ItemsBecome
<1> QED BY <1>6 DEF t

LEMMA DeleteIndxRefines ==
  ASSUME Inv, NEW i \in Int, NEW free \in BOOLEAN, DeleteIndx(i, free)
  PROVE  Sequence!DeleteIndx(i, free)
<1>1. /\ size > 0 /\ ~OutOfBounds(i) /\ Shift(i) /\ Shrinks(i, free)
      /\ ret' = i /\ index' = index /\ ptr' = ptr
  BY DEF DeleteIndx, iter
<1>2. i \in 0 .. size - 1 /\ size \in Nat /\ size <= MaxSize /\ index' \in -1 .. MaxSize /\ ptr' \in Values
  BY <1>1, Bounds DEF Inv, TypeOK
<1>3. ret' \in -1 .. MaxSize
  BY <1>1, <1>2, ArrayAssumption
<1>4. Inv'
  BY <1>1, <1>2, <1>3, ShiftInv
<1>5. Items' = RemoveAt(Items, i + 1) /\ Items[i + 1] = cells[i]
  BY <1>1, <1>2, <1>4, ShiftRefines, ItemsNow DEF Shrinks
<1>6. released' = IF free THEN Sequence!NonNull(<<cells[i]>>) ELSE <<>>
  BY <1>1, ReleasesSame DEF Shrinks
<1>7. i \in Sequence!Places
  BY <1>2, SamePlaces
<1> QED BY <1>1, <1>5, <1>6, <1>7
        DEF Items, Shrinks, Sequence!DeleteIndx, Sequence!AnswerFreeing, Sequence!At,
            Sequence!iter, RemoveAt, Sequence!RemoveAt

LEMMA DeleteRefines ==
  ASSUME Inv, NEW i \in Nat, NEW free \in BOOLEAN, Delete(i, free)
  PROVE  Sequence!Delete(i, free)
<1>1. /\ size > 0 /\ ~OutOfBounds(i) /\ ret' = i
      /\ cells' = [[cells EXCEPT ![i] = cells[size - 1]] EXCEPT ![size - 1] = Null]
      /\ size' = size - 1 /\ erase_fn' = erase_fn
      /\ Releases(<<cells[i]>>, free) /\ index' = index /\ ptr' = ptr
  BY DEF Delete, Shrinks, iter
<1>2. /\ i \in 0 .. size - 1 /\ size \in Nat /\ total \in Nat /\ size <= total
      /\ DOMAIN cells = 0 .. total - 1
  BY <1>1, Bounds DEF Inv, TypeOK, CellsSound
<1>3. Inv'
  BY DeleteInv
<1>4. /\ Items \in Seq(Values) /\ Len(Items) = size
      /\ \A j \in 1 .. size : Items[j] = cells[j - 1]
  BY ItemsNow
<1> HIDE DEF Items
<1> DEFINE u == [Items EXCEPT ![i + 1] = Items[size]]
           t == SubSeq(u, 1, size - 1)
<1>5. /\ u \in Seq(Values) /\ Len(u) = size
      /\ \A j \in 1 .. size : u[j] = IF j = i + 1 THEN Items[size] ELSE Items[j]
  <2>1. i + 1 \in 1 .. Len(Items) /\ Items[size] \in Values
    BY <1>1, <1>2, <1>4
  <2> QED BY <1>4, <2>1, ExceptSeq
<1> HIDE DEF u
<1>6. /\ t \in Seq(Values) /\ Len(t) = size - 1
      /\ \A j \in 1 .. size - 1 : t[j] = u[j]
  BY <1>1, <1>2, <1>5
<1> HIDE DEF t
<1>7. ASSUME NEW j \in 1 .. size' PROVE t[j] = cells'[j - 1]
  <2>1. /\ j \in 1 .. size - 1 /\ j \in 1 .. size /\ j - 1 \in DOMAIN cells
        /\ j - 1 # size - 1 /\ i \in DOMAIN cells /\ size \in 1 .. size
    BY <1>1, <1>2
  <2>2. cells'[j - 1] = IF j - 1 = i THEN cells[size - 1] ELSE cells[j - 1]
    BY <1>1, <2>1
  <2>3. t[j] = IF j = i + 1 THEN cells[size - 1] ELSE cells[j - 1]
    BY <1>4, <1>5, <1>6, <2>1
  <2>4. j = i + 1 <=> j - 1 = i
    BY <1>2, <2>1
  <2> QED BY <2>2, <2>3, <2>4
<1>8. Items' = t
  BY <1>1, <1>3, <1>6, <1>7, ItemsBecome
<1>9. Items' = SubSeq(u, 1, Len(u) - 1) /\ u = [Items EXCEPT ![i + 1] = Items[Len(Items)]]
  BY <1>4, <1>5, <1>8 DEF t, u
<1>10. Items[i + 1] = cells[i]
  BY <1>2, ItemsNow
<1>11. released' = IF free THEN Sequence!NonNull(<<Items[i + 1]>>) ELSE <<>>
  BY <1>1, <1>10, ReleasesSame
<1>12. i \in Sequence!Places
  BY <1>2, SamePlaces
<1>13. total' = total
  BY DEF Delete, Shrinks
<1> QED BY <1>1, <1>9, <1>11, <1>12
        DEF Items, Sequence!Delete, Sequence!AnswerFreeing, Sequence!At,
            Sequence!iter, Sequence!Front, Sequence!Last

LEMMA SliceIsSubSeq ==
  ASSUME Inv, NEW b \in 0 .. size, NEW e \in b .. size
  PROVE  Slice(b, e) = SubSeq(Items, b + 1, e)
<1>1. /\ Items \in Seq(Values) /\ Len(Items) = size /\ size \in Nat
      /\ \A j \in 1 .. size : Items[j] = cells[j - 1]
  BY ItemsNow
<1> HIDE DEF Items
<1> DEFINE t == SubSeq(Items, b + 1, e)
<1>2. /\ t \in Seq(Values) /\ Len(t) = e - b
      /\ \A j \in 1 .. e - b : t[j] = Items[b + j]
  BY <1>1
<1> HIDE DEF t
<1>3. Slice(b, e) \in Seq(Values)
  BY <1>1, SliceType
<1>4. Len(Slice(b, e)) = e - b /\ \A j \in 1 .. e - b : Slice(b, e)[j] = cells[b + j - 1]
  BY <1>1 DEF Slice
<1>5. ASSUME NEW j \in 1 .. e - b PROVE Slice(b, e)[j] = t[j]
  <2>1. b + j \in 1 .. size /\ b + j - 1 = (b + j) - 1
    BY <1>1
  <2>2. Items[b + j] = cells[(b + j) - 1]
    BY <1>1, <2>1
  <2> QED BY <1>2, <1>4, <2>1, <2>2, Zenon
<1>6. Slice(b, e) = t
  BY <1>2, <1>3, <1>4, <1>5, SeqEqual
<1> QED BY <1>6 DEF t

LEMMA DeleteRangeRefines ==
  ASSUME Careful, Inv, NEW b \in Nat, NEW e \in Nat, NEW free \in BOOLEAN,
         DeleteRange(b, e, free)
  PROVE  Sequence!DeleteRange(b, e, free)
<1> DEFINE cnt == e - b
           gone(j) == IF free THEN Null ELSE cells[j]
           t == SubSeq(Items, 1, b) \o SubSeq(Items, e + 1, Len(Items))
<1>0. DeleteCells(b, e, free)
  BY DEF DeleteRange, Inner, Careful
<1>1. /\ ~OutOfBounds(b) /\ ~OutOfBounds(e) /\ b < e
      /\ cells' = [j \in DOMAIN cells |->
                     IF b <= j /\ j + cnt < size THEN cells[j + cnt]
                     ELSE IF b <= j /\ j < e THEN gone(j)
                     ELSE IF e <= j /\ j < size THEN Null
                     ELSE cells[j]]
      /\ size' = size - cnt /\ ret' = cnt
      /\ Releases(Slice(b, e), free)
      /\ erase_fn' = erase_fn /\ index' = index /\ ptr' = ptr
  BY <1>0 DEF DeleteCells, iter
<1>2. /\ Items \in Seq(Values) /\ Len(Items) = size /\ size \in Nat
      /\ \A j \in 1 .. size : Items[j] = cells[j - 1]
  BY ItemsNow
<1> HIDE DEF Items
<1>3. b \in 0 .. size - 1 /\ e \in 0 .. size - 1 /\ b \in 0 .. size /\ e \in b .. size
  BY <1>1, <1>2 DEF OutOfBounds
<1>4. total \in Nat /\ size <= total /\ DOMAIN cells = 0 .. total - 1
  BY DEF Inv, TypeOK, CellsSound
<1>5. Inv'
  BY DeleteRangeInv
<1>6. /\ t \in Seq(Values) /\ Len(t) = size - (e - b)
      /\ \A j \in 1 .. size - (e - b) : t[j] = IF j <= b THEN Items[j] ELSE Items[j + (e - b)]
  <2>1. b \in 0 .. Len(Items) /\ e \in b .. Len(Items)
    BY <1>2, <1>3
  <2>2. /\ t \in Seq(Values) /\ Len(t) = Len(Items) - (e - b)
        /\ \A j \in 1 .. Len(Items) - (e - b) :
             t[j] = IF j <= b THEN Items[j] ELSE Items[j + (e - b)]
    BY <1>2, <2>1, RemoveRangePlaces
  <2> QED BY <1>2, <2>2
<1> HIDE DEF t
<1>7. ASSUME NEW j \in 1 .. size' PROVE t[j] = cells'[j - 1]
  <2>1. /\ j \in 1 .. size - (e - b) /\ j - 1 \in DOMAIN cells /\ j \in 1 .. size
        /\ j + (e - b) \in 1 .. size
        /\ (j - 1) + (e - b) < size /\ (e <= j - 1 => b <= j - 1)
    BY <1>1, <1>2, <1>3, <1>4
  <2>2. CASE b <= j - 1
    <3>1. cells'[j - 1] = cells[(j - 1) + (e - b)]
      BY <1>1, <2>1, <2>2
    <3>2. t[j] = cells[(j + (e - b)) - 1]
      BY <1>2, <1>3, <1>6, <2>1, <2>2
    <3>3. (j + (e - b)) - 1 = (j - 1) + (e - b)
      BY <1>3, <2>1
    <3> QED BY <3>1, <3>2, <3>3
  <2>3. CASE ~(b <= j - 1)
    <3>1. cells'[j - 1] = cells[j - 1]
      BY <1>1, <2>1, <2>3
    <3>2. t[j] = cells[j - 1]
      BY <1>2, <1>3, <1>6, <2>1, <2>3
    <3> QED BY <3>1, <3>2
  <2> QED BY <2>2, <2>3
<1>8. Items' = t
  BY <1>1, <1>5, <1>6, <1>7, ItemsBecome
<1>9. released' = IF free THEN Sequence!NonNull(SubSeq(Items, b + 1, e)) ELSE <<>>
  BY <1>1, <1>3, SliceIsSubSeq, ReleasesSame
<1>10. 0 <= b /\ b <= e /\ e <= Len(Items)
  BY <1>1, <1>2, <1>3
<1> QED BY <1>1, <1>8, <1>9, <1>10
        DEF t, Items, Sequence!DeleteRange, Sequence!AnswerFreeing, Sequence!iter

LEMMA DeleteFoundRefines ==
  ASSUME Inv, NEW d, NEW free \in BOOLEAN, NEW i \in 0 .. size - 1,
         Finds(d, i), Delete(i, free)
  PROVE  Sequence!DeleteObj(d, free)
<1>1. size \in Nat /\ \A j \in 0 .. size - 1 : Items[j + 1] = cells[j]
  BY ItemsNow
<1>2. Sequence!Delete(i, free)
  BY DeleteRefines
<1>3. i \in Sequence!Places /\ cells[i] = d /\ \A j \in 0 .. i - 1 : cells[j] # d
  BY SamePlaces DEF Finds
<1>4. Sequence!At(i) = d /\ \A j \in 0 .. i - 1 : Sequence!At(j) # d
  <2>1. \A j \in 0 .. i - 1 : j \in 0 .. size - 1
    BY <1>1
  <2>2. \A j \in 0 .. size - 1 : Sequence!At(j) = cells[j]
    BY <1>1 DEF Sequence!At, Items
  <2> QED BY <1>3, <2>1, <2>2
<1> QED BY <1>2, <1>3, <1>4 DEF Sequence!DeleteObj

LEMMA RefusalRefines ==
  ASSUME Answer(-1), UNCHANGED <<array, erase_fn, iter>>
  PROVE  Sequence!Refusal
<1> QED BY ItemsStay DEF Answer, iter, Items, Sequence!Refusal, Sequence!Answer, Sequence!iter

LEMMA ObjRefusalRefines ==
  ASSUME Inv, NEW d \in Values, NEW free \in BOOLEAN, DeleteObj(d, free), size' = size
  PROVE  Sequence!ObjRefused(d)
<1>1. size \in Nat /\ \A i \in 0 .. size - 1 : Items[i + 1] = cells[i]
  BY ItemsNow
<1>2. ASSUME NEW i \in 0 .. size - 1, Delete(i, free) PROVE FALSE
  BY <1>1, <1>2 DEF Delete, Shrinks
<1>3. /\ \A i \in 0 .. size - 1 : cells[i] # d
      /\ Answer(-1) /\ UNCHANGED <<array, erase_fn, iter>>
  BY <1>2 DEF DeleteObj
<1>4. \A i \in Sequence!Places : Sequence!At(i) # d
  BY <1>1, <1>3, SamePlaces DEF Sequence!At, Items
<1> QED BY <1>3, <1>4, RefusalRefines DEF Sequence!ObjRefused

LEMMA RefusedRefines ==
  ASSUME Inv, NEW i \in Int, Refused(i)
  PROVE  Sequence!Refused(i)
<1>1. size \in Nat
  BY ItemsNow
<1>2. i \notin 0 .. size - 1
  BY <1>1 DEF Refused, OutOfBounds
<1> QED BY <1>2, SamePlaces, RefusalRefines DEF Refused, Sequence!Refused

LEMMA RangeRefusedRefines ==
  ASSUME Careful, Inv, NEW b \in Int, NEW e \in Int, DeleteRangeRefused(b, e)
  PROVE  Sequence!RangeRefused(b, e)
<1>1. /\ OutOfBounds(b) \/ OutOfBounds(e) \/ b > e
      /\ b # e /\ e # size
      /\ Answer(-1) /\ UNCHANGED <<array, erase_fn, iter>>
  BY DEF DeleteRangeRefused, Inner, Careful
<1>2. size \in Nat /\ Len(Items) = size
  BY ItemsNow
<1>3. ~(0 <= b /\ b <= e /\ e <= size)
  BY <1>1, <1>2 DEF OutOfBounds
<1>4. Sequence!Refusal
  BY <1>1, RefusalRefines
<1> QED BY <1>2, <1>3, <1>4 DEF Sequence!RangeRefused, Items

LEMMA RefusalsRefine == ASSUME Careful, Inv, size' = size PROVE RefusalsAgree
<1>1. \A i \in -1 .. MaxSize : i \in Int
  OBVIOUS
<1>2. \A b \in -1 .. MaxSize + 1 : b \in Int
  OBVIOUS
<1> QED BY <1>1, <1>2, RefusedRefines, RangeRefusedRefines, ObjRefusalRefines DEF RefusalsAgree

LEMMA NoItemsLeft == ASSUME Inv', size' = 0 PROVE Items' = <<>>
<1>1. <<>> \in Seq(Values) /\ Len(<<>>) = size'
  BY EmptySeq
<1>2. \A i \in 1 .. size' : <<>>[i] = cells'[i - 1]
  OBVIOUS
<1> QED BY <1>1, <1>2, ItemsBecome

LEMMA CleanRefines ==
  ASSUME Inv, NEW free \in BOOLEAN, Clean(free)
  PROVE  Sequence!Clean(free)
<1>1. /\ size' = 0 /\ ret' = 0 /\ Releases(Items, free)
      /\ erase_fn' = erase_fn /\ index' = index /\ ptr' = ptr
  BY DEF Clean, iter, Items
<1>2. Items' = <<>>
  BY <1>1, CleanInv, NoItemsLeft
<1>3. released' = IF free THEN Sequence!NonNull(Items) ELSE <<>>
  BY <1>1, ReleasesSame
<1> QED BY <1>1, <1>2, <1>3 DEF Items, Sequence!Clean, Sequence!AnswerFreeing, Sequence!iter

LEMMA DestroyAndNewRefines ==
  ASSUME Inv, NEW n \in InitSizes, NEW free \in BOOLEAN, DestroyAndNew(n, free)
  PROVE  Sequence!DestroyAndNew(free)
<1>1. /\ size' = 0 /\ ret' = 0 /\ Releases(Items, free)
      /\ erase_fn' = "wild" /\ index' = -1 /\ ptr' = Null
  BY DEF DestroyAndNew, Items
<1>2. Items' = <<>>
  BY <1>1, DestroyAndNewInv, NoItemsLeft
<1>3. released' = IF free THEN Sequence!NonNull(Items) ELSE <<>>
  BY <1>1, ReleasesSame
<1> QED BY <1>1, <1>2, <1>3 DEF Items, Sequence!DestroyAndNew, Sequence!AnswerFreeing

LEMMA DeletesRefine ==
  ASSUME Careful, Inv, NEW i \in Nat, NEW j \in Nat, NEW free \in BOOLEAN
  PROVE  DeletesAgree(i, j, free)
<1> QED BY DeleteIndxRefines, DeleteRefines, DeleteRangeRefines, CleanRefines
        DEF DeletesAgree

(***************************************************************************)
(* The iterator.                                                           *)
(***************************************************************************)
LEMMA OnlyFacts ==
  ASSUME NEW move, Only(move)
  PROVE  /\ move /\ Items' = Items
         /\ UNCHANGED <<erase_fn, ret, released>>
<1> QED BY ItemsStay DEF Only

LEMMA StandRefines ==
  ASSUME Inv, NEW i \in Int,
         IF i \in 0 .. size - 1 THEN StandAt(i) ELSE Unset
  PROVE  Sequence!StandAt(i)
<1>1. i \in 0 .. size - 1 => Items[i + 1] = cells[i]
  BY ItemsNow
<1> QED BY <1>1, SamePlaces DEF StandAt, Unset, Items, Sequence!StandAt, Sequence!At

LEMMA IterMoveRefines ==
  ASSUME Inv, NEW i \in Int, IterMove(i)
  PROVE  Sequence!IterMove(i)
<1>1. /\ (IF OutOfBounds(i) THEN Unset ELSE StandAt(i))
      /\ Items' = Items /\ UNCHANGED <<erase_fn, ret, released>>
  BY OnlyFacts DEF IterMove
<1>2. size \in Nat /\ (Items = <<>> <=> size = 0)
  BY ItemsNow
<1>3. CASE size = 0 /\ i = 0
  <2>1. cells[0] = Null /\ ~OutOfBounds(i)
    BY <1>3 DEF Inv, CellsSound, OutOfBounds
  <2>2. index' = 0 /\ ptr' = Null
    BY <1>1, <1>3, <2>1 DEF StandAt
  <2> QED BY <1>1, <1>2, <1>3, <2>2 DEF Items, Sequence!IterMove
<1>4. CASE ~(size = 0 /\ i = 0)
  <2>1. OutOfBounds(i) <=> i \notin 0 .. size - 1
    BY <1>2, <1>4 DEF OutOfBounds
  <2>2. Sequence!StandAt(i)
    BY <1>1, <2>1, StandRefines
  <2> QED BY <1>1, <1>2, <1>4, <2>2 DEF Items, Sequence!IterMove
<1> QED BY <1>3, <1>4

LEMMA IteratorRefines == ASSUME Inv PROVE IteratorAgrees
<1>1. size \in Nat /\ Len(Items) = size /\ index \in Int
  BY ItemsNow DEF Inv, TypeOK
<1>2. ASSUME IterHead PROVE Sequence!IterHead
  <2>1. /\ (IF size = 0 THEN Unset ELSE StandAt(0))
        /\ Items' = Items /\ UNCHANGED <<erase_fn, ret, released>>
    BY <1>2, OnlyFacts DEF IterHead
  <2>2. size # 0 <=> 0 \in 0 .. size - 1
    BY <1>1
  <2>3. Sequence!StandAt(0)
    BY <2>1, <2>2, StandRefines
  <2> QED BY <2>1, <2>3 DEF Items, Sequence!IterHead
<1>3. ASSUME IterTail PROVE Sequence!IterTail
  <2>1. /\ (IF size = 0 THEN Unset ELSE StandAt(size - 1))
        /\ Items' = Items /\ UNCHANGED <<erase_fn, ret, released>>
    BY <1>3, OnlyFacts DEF IterTail
  <2>2. size # 0 <=> size - 1 \in 0 .. size - 1
    BY <1>1
  <2>3. Sequence!StandAt(size - 1)
    BY <1>1, <2>1, <2>2, StandRefines
  <2>4. Sequence!StandAt(Len(Items) - 1)
    BY <1>1, <2>3, Zenon
  <2> QED BY <2>1, <2>4 DEF Items, Sequence!IterTail
<1>4. ASSUME IterNext PROVE Sequence!IterNext
  BY <1>1, <1>4, IterMoveRefines DEF IterNext, Sequence!IterNext
<1>5. ASSUME IterPrev PROVE Sequence!IterPrev
  BY <1>1, <1>5, IterMoveRefines DEF IterPrev, Sequence!IterPrev
<1> QED BY <1>2, <1>3, <1>4, <1>5 DEF IteratorAgrees

LEMMA IterEraseRefines == ASSUME Inv, IterErase PROVE Sequence!IterErase
<1>1. /\ size > 0 /\ ~OutOfBounds(index)
      /\ Shift(index) /\ Shrinks(index, erase_fn = "free")
      /\ ret' = 0 /\ index' = index /\ ptr' = cells'[index]
  BY DEF IterErase
<1>2. index \in 0 .. size - 1 /\ size \in Nat
  BY <1>1, Bounds DEF Inv, TypeOK
<1>3. Inv'
  BY IteratingInv DEF Iterating
<1>4. /\ Items' = RemoveAt(Items, index + 1) /\ Items[index + 1] = cells[index]
  BY <1>1, <1>2, <1>3, ShiftRefines, ItemsNow DEF Shrinks
<1>5. released' = IF erase_fn = "free" THEN Sequence!NonNull(<<cells[index]>>) ELSE <<>>
  BY <1>1, ReleasesSame DEF Shrinks
<1>6. index \in Sequence!Places /\ (index + 1 \in Sequence!Places <=> index < size - 1)
  BY <1>2, SamePlaces
<1>7. ptr' = IF index < size - 1 THEN cells[index + 1] ELSE Null
  <2>1. index \in DOMAIN cells
    BY <1>2 DEF Inv, TypeOK, CellsSound
  <2> QED BY <1>1, <1>2, <2>1 DEF Shift
<1>8. index < size - 1 => Items[(index + 1) + 1] = cells[index + 1]
  <2>1. index < size - 1 => index + 1 \in 0 .. size - 1
    BY <1>2
  <2> QED BY <2>1, ItemsNow
<1>9. ptr' = IF index + 1 \in Sequence!Places THEN Items[(index + 1) + 1] ELSE Null
  BY <1>6, <1>7, <1>8
<1>10. erase_fn' = erase_fn
  BY <1>1 DEF Shrinks
<1> QED BY <1>1, <1>4, <1>5, <1>6, <1>9, <1>10
        DEF Items, Sequence!IterErase, Sequence!At, RemoveAt, Sequence!RemoveAt

(***************************************************************************)
(* Every step is one of the sequence, or leaves it as it is.               *)
(***************************************************************************)
LEMMA AddingRefines == ASSUME Careful, Inv, Adding PROVE Sequence!Next
<1>1. PICK d \in Values :
        \/ ArrayAppend(d) \/ Preappend(d)
        \/ \E i \in 0 .. MaxSize : Insert(d, i) \/ Preinsert(d, i)
  BY DEF Adding
<1>2. CASE ArrayAppend(d) \/ Preappend(d)
  <2>1. AddsAgree(d, 0)
    BY AddsRefine
  <2> QED BY <1>2, <2>1 DEF AddsAgree, Values, Sequence!Next
<1>3. ASSUME NEW i \in 0 .. MaxSize, Insert(d, i) \/ Preinsert(d, i)
      PROVE  Sequence!Next
  <2>1. AddsAgree(d, i)
    BY AddsRefine
  <2> QED BY <1>3, <2>1 DEF AddsAgree, Values, Sequence!Next
<1> QED BY <1>1, <1>2, <1>3

LEMMA RemovingRefines == ASSUME Careful, Inv, Removing PROVE Sequence!Next
<1>1. PICK free \in BOOLEAN :
        \/ \E i \in 0 .. MaxSize : DeleteIndx(i, free) \/ Delete(i, free)
        \/ \E b, e \in 0 .. MaxSize : DeleteRange(b, e, free)
        \/ \E d \in Values : DeleteObj(d, free)
        \/ Clean(free)
        \/ \E n \in InitSizes : DestroyAndNew(n, free)
  BY DEF Removing
<1>2. ASSUME NEW i \in 0 .. MaxSize, DeleteIndx(i, free) \/ Delete(i, free)
      PROVE  Sequence!Next
  <2>1. CASE DeleteIndx(i, free)
    <3>1. Sequence!DeleteIndx(i, free) /\ i \in Sequence!Places
      BY <2>1, DeleteIndxRefines DEF Sequence!DeleteIndx
    <3> QED BY <3>1 DEF Sequence!Next
  <2>2. CASE Delete(i, free)
    <3>1. Sequence!Delete(i, free) /\ i \in Sequence!Places
      BY <2>2, DeleteRefines DEF Sequence!Delete
    <3> QED BY <3>1 DEF Sequence!Next
  <2> QED BY <1>2, <2>1, <2>2
<1>3. ASSUME NEW b \in 0 .. MaxSize, NEW e \in 0 .. MaxSize, DeleteRange(b, e, free)
      PROVE  Sequence!Next
  <2>1. Sequence!DeleteRange(b, e, free)
    BY <1>3, DeleteRangeRefines
  <2>2. b \in 0 .. Len(Items) /\ e \in 0 .. Len(Items)
    BY <2>1, ItemsNow DEF Sequence!DeleteRange, Items
  <2> QED BY <2>1, <2>2 DEF Items, Sequence!Next
<1>4. ASSUME NEW d \in Values, DeleteObj(d, free) PROVE Sequence!Next
  <2>1. CASE size' = size
    BY <1>4, <2>1, ObjRefusalRefines DEF Values, Sequence!Next
  <2>2. CASE size' # size
    <3>1. PICK i \in 0 .. size - 1 : Finds(d, i) /\ Delete(i, free)
      BY <1>4, <2>2 DEF DeleteObj, array
    <3> QED BY <3>1, DeleteFoundRefines DEF Values, Sequence!Next
  <2> QED BY <2>1, <2>2
<1>5. CASE Clean(free)
  BY <1>5, CleanRefines DEF Sequence!Next
<1>6. ASSUME NEW n \in InitSizes, DestroyAndNew(n, free) PROVE Sequence!Next
  BY <1>6, DestroyAndNewRefines DEF Sequence!Next
<1> QED BY <1>1, <1>2, <1>3, <1>4, <1>5, <1>6

LEMMA IteratingRefines == ASSUME Inv, Iterating PROVE Sequence!Next
<1>1. CASE IterHead \/ IterTail \/ IterNext \/ IterPrev
  BY <1>1, IteratorRefines DEF IteratorAgrees, Sequence!Next
<1>2. CASE IterInfo
  <2>1. /\ (IF OutOfBounds(index) THEN Unset ELSE UNCHANGED iter)
        /\ Items' = Items /\ UNCHANGED <<erase_fn, ret, released>>
    BY <1>2, ItemsStay DEF IterInfo, Only
  <2>2. Sequence!InBounds(index) <=> ~OutOfBounds(index)
    BY SameBounds DEF Inv, TypeOK
  <2>3. Sequence!IterInfo
    BY <2>1, <2>2 DEF Items, Unset, iter, Sequence!IterInfo, Sequence!iter
  <2> QED BY <2>3 DEF Sequence!Next
<1>3. CASE IterErase
  BY <1>3, IterEraseRefines DEF Sequence!Next
<1>4. CASE IterEraseEnd
  <2>1. Unset /\ Items' = Items /\ UNCHANGED <<erase_fn, ret, released>> /\ OutOfBounds(index)
    BY <1>4, OnlyFacts DEF IterEraseEnd
  <2>2. ~Sequence!InBounds(index)
    BY <2>1, SameBounds DEF Inv, TypeOK
  <2>3. Sequence!IterEraseEnd
    BY <2>1, <2>2 DEF Items, Unset, Sequence!IterEraseEnd
  <2> QED BY <2>3 DEF Sequence!Next
<1> QED BY <1>1, <1>2, <1>3, <1>4 DEF Iterating

LEMMA OthersRefine ==
  ASSUME Careful, Inv, Refusals \/ Tighten \/ Ctrl \/ CtrlRefused
  PROVE  Sequence!Next
<1>1. CASE Refusals
  <2>1. size' = size
    BY <1>1 DEF Refusals, Refused, DeleteRangeRefused, array
  <2>2. RefusalsAgree
    BY <2>1, RefusalsRefine
  <2> QED BY <1>1, <2>2 DEF Refusals, RefusalsAgree, Sequence!Next
<1>2. CASE Tighten
  <2>1. Answer(0) /\ UNCHANGED <<erase_fn, index, ptr>> /\ size > 0 /\ size' = size
    BY <1>2 DEF Tighten, iter, array
  <2>2. Items' = Items
    <3>1. /\ Items \in Seq(Values) /\ Len(Items) = size /\ size \in Nat
          /\ \A i \in 1 .. size : Items[i] = cells[i - 1]
      BY ItemsNow
    <3>2. ASSUME NEW i \in 1 .. size PROVE cells'[i - 1] = cells[i - 1]
      <4>1. CASE UNCHANGED array
        BY <4>1 DEF array
      <4>2. CASE cells' = [j \in 0 .. 2 * size - 1 |-> cells[j]]
        <5>1. i - 1 \in 0 .. 2 * size - 1
          BY <3>1
        <5> QED BY <4>2, <5>1
      <4> QED BY <1>2, <4>1, <4>2 DEF Tighten
    <3> QED BY <1>2, <2>1, <3>1, <3>2, TightenInv, ItemsBecome
  <2>3. Items # <<>>
    BY <2>1, ItemsNow
  <2>4. Sequence!Tighten
    BY <2>1, <2>2, <2>3 DEF Items, Answer, Sequence!Tighten, Sequence!Answer, Sequence!iter
  <2> QED BY <2>4 DEF Sequence!Next
<1>3. CASE Ctrl
  <2>1. erase_fn' \in {"none", "free"} /\ Answer(1) /\ UNCHANGED <<index, ptr>> /\ Items' = Items
    BY <1>3, ItemsStay DEF Ctrl, iter
  <2>2. Sequence!Ctrl
    BY <2>1 DEF Items, Answer, Sequence!Ctrl, Sequence!Answer, Sequence!iter
  <2> QED BY <2>2 DEF Sequence!Next
<1>4. CASE CtrlRefused
  <2>1. Answer(0) /\ UNCHANGED <<erase_fn, index, ptr>> /\ Items' = Items
    BY <1>4, ItemsStay DEF CtrlRefused, iter
  <2>2. Sequence!CtrlRefused
    BY <2>1 DEF Items, Answer, Sequence!CtrlRefused, Sequence!Answer, Sequence!iter
  <2> QED BY <2>2 DEF Sequence!Next
<1> QED BY <1>1, <1>2, <1>3, <1>4

LEMMA StepsRefine == ASSUME Careful, Inv, [Next]_vars PROVE [Sequence!Next]_(Sequence!vars)
<1>1. CASE UNCHANGED vars
  BY <1>1, ItemsStay DEF vars, iter, array, Items, Sequence!vars
<1> QED BY <1>1, AddingRefines, RemovingRefines, IteratingRefines, OthersRefine DEF Next

LEMMA InitRefines == ASSUME Init PROVE Sequence!Init
<1>1. /\ size = 0 /\ erase_fn = "wild" /\ index = -1 /\ ptr = Null
      /\ ret = 0 /\ released = <<>>
  BY DEF Init
<1>2. Items = <<>>
  BY <1>1, InitInv, ItemsNow
<1> QED BY <1>1, <1>2 DEF Items, Sequence!Init

(* mcl_array.h: growth, shifts, tightening, the capacity and what is left  *)
(* in cells out of use cannot be told from outside: for clients that keep  *)
(* both contracts the array is the sequence that its header promises.      *)
THEOREM ArrayImplementsSeq ==
  ASSUME Careful
  PROVE  Spec => ImplementsSeq
<1>1. Init => Sequence!Init
  BY InitRefines
<1>2. Inv /\ [Next]_vars => [Sequence!Next]_(Sequence!vars)
  BY StepsRefine
<1> QED BY <1>1, <1>2, AlwaysInv, PTL DEF Spec, ImplementsSeq, Sequence!Spec

(* mcl_array.c: under both contracts each call does to the sequence, and   *)
(* returns, what its namesake there does and not what another call might,  *)
(* and is refused only for what the sequence does not have.                *)
THEOREM EachCallAgrees ==
  ASSUME Careful
  PROVE  Spec => CallsAgree
<1> DEFINE Agreed ==
  /\ size' > size =>
       \A d \in Values, i \in 0 .. size : AddsAgree(d, i)
  /\ size' < size =>
       /\ \A i, j \in 0 .. size - 1, free \in BOOLEAN : DeletesAgree(i, j, free)
       /\ IterErase => Sequence!IterErase
       /\ \A d \in Values, free \in BOOLEAN :
            DeleteObj(d, free) => Sequence!DeleteObj(d, free)
  /\ size' = size => IteratorAgrees /\ RefusalsAgree
<1>1. ASSUME Inv, [Next]_vars PROVE [Agreed]_vars
  <2>1. ASSUME NEW d \in Values, NEW i \in 0 .. size PROVE AddsAgree(d, i)
    BY <1>1, AddsRefine
  <2>2. ASSUME NEW i \in 0 .. size - 1, NEW j \in 0 .. size - 1, NEW free \in BOOLEAN
        PROVE  DeletesAgree(i, j, free)
    BY <1>1, DeletesRefine
  <2>3. IterErase => Sequence!IterErase
    BY <1>1, IterEraseRefines
  <2>4. ASSUME NEW d \in Values, NEW free \in BOOLEAN, DeleteObj(d, free), size' < size
        PROVE  Sequence!DeleteObj(d, free)
    <3>1. CASE Answer(-1) /\ UNCHANGED <<array, erase_fn, iter>>
      BY <1>1, <2>4, <3>1 DEF array, Inv, TypeOK
    <3> QED BY <1>1, <2>4, <3>1, DeleteFoundRefines DEF DeleteObj
  <2>5. IteratorAgrees /\ (size' = size => RefusalsAgree)
    BY <1>1, IteratorRefines, RefusalsRefine
  <2> QED BY <2>1, <2>2, <2>3, <2>4, <2>5
<1>2. Inv /\ [Next]_vars => [Agreed]_vars
  BY <1>1
<1>3. CallsAgree <=> [][Agreed]_vars
  BY DEF CallsAgree
<1> QED BY <1>2, <1>3, AlwaysInv, PTL DEF Spec

=============================================================================
