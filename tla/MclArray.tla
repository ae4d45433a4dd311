------------------------------ MODULE MclArray ------------------------------
(***************************************************************************)
(* util/mcl_array.c: a buffer of pointers with a size and a capacity, its  *)
(* calls, and the iterator by index.  A client makes the calls one after   *)
(* the other, and its free functions make none.                            *)
(***************************************************************************)
EXTENDS Integers, SequencesExt

CONSTANTS
  Data,         (* the pointers clients store                               *)
  Null,
  Junk,         (* what realloc leaves in new cells                         *)
  DefaultSize,  (* MCL_ARR_DEFAULT_SIZE (64)                                *)
  InitSizes,    (* the arguments of mcl_array_new                           *)
  MaxSize,      (* bound: clients add to arrays with fewer elements         *)
  Contracts     (* what clients keep to: of "Occupied" and "Inner"          *)

ASSUME ArrayAssumption ==
  /\ DefaultSize \in Nat \ {0, 1}
  /\ InitSizes \subseteq Nat /\ InitSizes # {}
  /\ MaxSize \in Nat \ {0}
  /\ Null \notin Data /\ Junk \notin Data \cup {Null}
  /\ Contracts \subseteq {"Occupied", "Inner"}

VARIABLES
  cells,      (* _all_data                                                  *)
  size,       (* _cur_size                                                  *)
  total,      (* _total_size                                                *)
  erase_fn,   (* none, the client's, or what malloc left there              *)
  index,      (* the iterator's _index                                      *)
  ptr,        (* and its _ptr, the same as its _data                        *)
  ret,        (* what the last call returned                                *)
  released    (* history: what it gave to the free function, in order       *)

array == <<cells, size, total>>
iter == <<index, ptr>>
vars == <<array, erase_fn, iter, ret, released>>

Values == Data \cup {Null}

TypeOK ==
  /\ total \in Nat
  /\ cells \in [0 .. total - 1 -> Values \cup {Junk}]
  /\ size \in 0 .. MaxSize
  /\ erase_fn \in {"none", "free", "wild"}
  /\ index \in -1 .. MaxSize
  /\ ptr \in Values
  /\ ret \in -1 .. MaxSize
  /\ released \in Seq(Data)

(* mcl_array_new: twice the size asked for, or the default.                *)
Fresh(n) ==
  LET capacity == IF n > DefaultSize THEN 2 * n ELSE DefaultSize
  IN  /\ cells' = [i \in 0 .. capacity - 1 |-> Null]
      /\ total' = capacity

Init ==
  \E n \in InitSizes :
    LET capacity == IF n > DefaultSize THEN 2 * n ELSE DefaultSize
    IN  /\ cells = [i \in 0 .. capacity - 1 |-> Null]
        /\ total = capacity
        /\ size = 0
        /\ erase_fn = "wild"
        /\ index = -1 /\ ptr = Null
        /\ ret = 0 /\ released = <<>>

(* check_out_of_bounds.                                                    *)
OutOfBounds(i) == IF size = 0 THEN i # 0 ELSE i < 0 \/ i >= size

Answer(r) == ret' = r /\ released' = <<>>

(* The pointers of a sequence that are not NULL, in their order.           *)
NonNull(s) ==
  LET kept[n \in 0 .. Len(s)] ==
        IF n = 0 THEN <<>>
        ELSE IF s[n] = Null THEN kept[n - 1] ELSE Append(kept[n - 1], s[n])
  IN  kept[Len(s)]

(* The pointers of the cells from b up to but not including e.             *)
Slice(b, e) == [i \in 1 .. e - b |-> cells[b + i - 1]]

Releases(s, free) == released' = IF free THEN NonNull(s) ELSE <<>>

-----------------------------------------------------------------------------
(***************************************************************************)
(* Adding.                                                                 *)
(***************************************************************************)

(* Broken: makes room only when there is one element too many.             *)
GrowsLate == total < size

Grows == total <= size

(* try_extend_array doubles a full buffer.                                 *)
Grown ==
  IF Grows
  THEN [i \in 0 .. 2 * total - 1 |-> IF i < total THEN cells[i] ELSE Junk]
  ELSE cells

(* Broken: moves the cells from the front, each over the next.             *)
PutForward(d, i) ==
  /\ size < MaxSize
  /\ cells' = [j \in DOMAIN Grown |->
                 IF j = i THEN d
                 ELSE IF i < j /\ j <= size THEN Grown[i] ELSE Grown[j]]
  /\ total' = IF Grows THEN 2 * total ELSE total
  /\ size' = size + 1
  /\ Answer(i)
  /\ UNCHANGED <<erase_fn, iter>>

(* The cells from i on move up by one, from the back.                      *)
Put(d, i) ==
  /\ size < MaxSize
  /\ cells' = [j \in DOMAIN Grown |->
                 IF j = i THEN d
                 ELSE IF i < j /\ j <= size THEN Grown[j - 1] ELSE Grown[j]]
  /\ total' = IF Grows THEN 2 * total ELSE total
  /\ size' = size + 1
  /\ Answer(i)
  /\ UNCHANGED <<erase_fn, iter>>

ArrayAppend(d) == Put(d, size)
Preappend(d) == Put(d, 0)

(* Contract "Occupied": clients insert only after an element.  In an empty *)
(* array index 0 passes for one, and what is put after it is out of reach. *)
Occupied == "Occupied" \in Contracts => size > 0

(* Broken: before the element instead of after it.                         *)
InsertBefore(d, i) == Occupied /\ ~OutOfBounds(i) /\ Put(d, i)

Insert(d, i) == Occupied /\ ~OutOfBounds(i) /\ Put(d, i + 1)
Preinsert(d, i) == ~OutOfBounds(i) /\ Put(d, i)

(* insert, preinsert and the deletions, out of bounds.                     *)
Refused(i) ==
  /\ OutOfBounds(i)
  /\ Answer(-1)
  /\ UNCHANGED <<array, erase_fn, iter>>

-----------------------------------------------------------------------------
(***************************************************************************)
(* Removing.  In an empty array index 0 passes for an element, and the     *)
(* unsigned size - 1 wraps: clients delete only from arrays with elements. *)
(***************************************************************************)

(* Broken: the last element stays in its old cell too.                     *)
ShiftStale(i) ==
  cells' = [j \in DOMAIN cells |->
              IF i <= j /\ j < size - 1 THEN cells[j + 1] ELSE cells[j]]

Shift(i) ==
  cells' = [j \in DOMAIN cells |->
              IF j = size - 1 THEN Null
              ELSE IF i <= j /\ j < size - 1 THEN cells[j + 1] ELSE cells[j]]

Shrinks(i, free) ==
  /\ size' = size - 1
  /\ Releases(<<cells[i]>>, free)
  /\ UNCHANGED <<total, erase_fn>>

DeleteIndx(i, free) ==
  /\ size > 0 /\ ~OutOfBounds(i)
  /\ Shift(i) /\ Shrinks(i, free)
  /\ ret' = i
  /\ UNCHANGED iter

Delete(i, free) ==
  /\ size > 0 /\ ~OutOfBounds(i)
  /\ cells' = [[cells EXCEPT ![i] = cells[size - 1]] EXCEPT ![size - 1] = Null]
  /\ Shrinks(i, free)
  /\ ret' = i
  /\ UNCHANGED iter

Finds(d, i) ==
  /\ i \in 0 .. size - 1
  /\ cells[i] = d /\ \A j \in 0 .. i - 1 : cells[j] # d

DeleteObj(d, free) ==
  \/ \E i \in 0 .. size - 1 : Finds(d, i) /\ Delete(i, free)
  \/ /\ \A i \in 0 .. size - 1 : cells[i] # d
     /\ Answer(-1)
     /\ UNCHANGED <<array, erase_fn, iter>>

(* The range of nothing deletes one element.                               *)
DeleteOne(b, free) ==
  /\ size > 0 /\ ~OutOfBounds(b)
  /\ Shift(b) /\ Shrinks(b, free)
  /\ ret' = 1
  /\ UNCHANGED iter

(* The cells of a range that was not released keep their pointers unless   *)
(* others move into them; past the new size they are out of use.           *)
DeleteCells(b, e, free) ==
  LET cnt == e - b
      gone(j) == IF free THEN Null ELSE cells[j]
  IN  /\ ~OutOfBounds(b) /\ ~OutOfBounds(e) /\ b < e
      /\ cells' = [j \in DOMAIN cells |->
                     IF b <= j /\ j + cnt < size THEN cells[j + cnt]
                     ELSE IF b <= j /\ j < e THEN gone(j)
                     ELSE IF e <= j /\ j < size THEN Null
                     ELSE cells[j]]
      /\ size' = size - cnt
      /\ ret' = cnt
      /\ Releases(Slice(b, e), free)
      /\ UNCHANGED <<total, erase_fn, iter>>

(* Contract "Inner": clients delete only ranges [b, e) of one element or   *)
(* more that stop before the last.                                         *)
Inner(b, e) == "Inner" \in Contracts => b # e /\ e # size

DeleteRange(b, e, free) ==
  /\ Inner(b, e)
  /\ IF b = e THEN DeleteOne(b, free) ELSE DeleteCells(b, e, free)

DeleteRangeRefused(b, e) ==
  /\ Inner(b, e)
  /\ OutOfBounds(b) \/ OutOfBounds(e) \/ b > e
  /\ Answer(-1)
  /\ UNCHANGED <<array, erase_fn, iter>>

Clean(free) ==
  /\ cells' = [j \in DOMAIN cells |-> IF j < size THEN Null ELSE cells[j]]
  /\ size' = 0
  /\ ret' = 0
  /\ Releases(Slice(0, size), free)
  /\ UNCHANGED <<total, erase_fn, iter>>

(* Of an empty array tighten makes a buffer without room that doubling     *)
(* does not extend: clients tighten only arrays with elements.             *)
Tighten ==
  /\ size > 0
  /\ IF total <= 2 * size
       THEN UNCHANGED array
       ELSE /\ cells' = [i \in 0 .. 2 * size - 1 |-> cells[i]]
            /\ total' = 2 * size
            /\ UNCHANGED size
  /\ Answer(0)
  /\ UNCHANGED <<erase_fn, iter>>

(* mcl_array_new leaves erase_fn as malloc found it; the client's iterator *)
(* starts anew.                                                            *)
DestroyAndNew(n, free) ==
  /\ Fresh(n)
  /\ size' = 0
  /\ erase_fn' = "wild"
  /\ index' = -1 /\ ptr' = Null
  /\ ret' = 0
  /\ Releases(Slice(0, size), free)

Ctrl ==
  /\ erase_fn' \in {"none", "free"}
  /\ Answer(1)
  /\ UNCHANGED <<array, iter>>

(* mcl_array_ctrl without data does nothing, also for UNREGIST.            *)
CtrlRefused ==
  /\ Answer(0)
  /\ UNCHANGED <<array, erase_fn, iter>>

-----------------------------------------------------------------------------
(***************************************************************************)
(* The iterator.                                                           *)
(***************************************************************************)
Unset == index' = -1 /\ ptr' = Null
StandAt(i) == index' = i /\ ptr' = cells[i]
Only(move) == move /\ UNCHANGED <<array, erase_fn, ret, released>>

IterHead == Only(IF size = 0 THEN Unset ELSE StandAt(0))
IterTail == Only(IF size = 0 THEN Unset ELSE StandAt(size - 1))

(* Broken: no test of the bounds.                                          *)
IterMoveOn(i) == Only(IF i \in DOMAIN cells THEN StandAt(i) ELSE Unset)

IterMove(i) == Only(IF OutOfBounds(i) THEN Unset ELSE StandAt(i))

IterNext == IterMove(index + 1)
IterPrev == IterMove(index - 1)
IterInfo == Only(IF OutOfBounds(index) THEN Unset ELSE UNCHANGED iter)

(* Clients erase when they have registered or unregistered an erase        *)
(* function, and not in an empty array.                                    *)
IterErase ==
  /\ size > 0 /\ ~OutOfBounds(index)
  /\ erase_fn # "wild"
  /\ Shift(index) /\ Shrinks(index, erase_fn = "free")
  /\ ret' = 0
  /\ index' = index /\ ptr' = cells'[index]

IterEraseEnd ==
  /\ OutOfBounds(index)
  /\ Only(Unset)

Adding ==
  \E d \in Values :
    \/ ArrayAppend(d) \/ Preappend(d)
    \/ \E i \in 0 .. MaxSize : Insert(d, i) \/ Preinsert(d, i)

Removing ==
  \E free \in BOOLEAN :
    \/ \E i \in 0 .. MaxSize : DeleteIndx(i, free) \/ Delete(i, free)
    \/ \E b, e \in 0 .. MaxSize : DeleteRange(b, e, free)
    \/ \E d \in Values : DeleteObj(d, free)
    \/ Clean(free)
    \/ \E n \in InitSizes : DestroyAndNew(n, free)

Refusals ==
  \/ \E i \in -1 .. MaxSize : Refused(i)
  \/ \E b, e \in -1 .. MaxSize + 1 : DeleteRangeRefused(b, e)

Iterating ==
  IterHead \/ IterTail \/ IterNext \/ IterPrev \/ IterInfo
    \/ IterErase \/ IterEraseEnd

Next == Adding \/ Removing \/ Refusals \/ Tighten \/ Ctrl \/ CtrlRefused \/ Iterating

Spec == Init /\ [][Next]_vars

-----------------------------------------------------------------------------
(***************************************************************************)
(* Properties.                                                             *)
(***************************************************************************)

(* The arithmetic of size and capacity: elements are in cells that exist   *)
(* and were written (not what realloc left there), and the empty array has *)
(* NULL in the cell that index 0 passes for.                               *)
CellsSound ==
  /\ size <= total
  /\ \A i \in 0 .. size - 1 : cells[i] # Junk
  /\ size = 0 => cells[0] = Null

Sequence == INSTANCE ArraySeq
  WITH items <- Slice(0, size), eraser <- erase_fn, seen <- ptr

(* mcl_array.h: for clients that keep both contracts the array, behind     *)
(* shifts, growth, tightening and stale cells, is the sequence of its      *)
(* header, and a call releases exactly what it takes out.                  *)
ImplementsSeq == Sequence!Spec

(* Each call does to the sequence, and returns, what its namesake there    *)
(* does, and not what another call might; and none is refused but for what *)
(* the sequence does not have.                                             *)
AddsAgree(d, i) ==
  /\ ArrayAppend(d) => Sequence!ArrayAppend(d)
  /\ Preappend(d) => Sequence!Preappend(d)
  /\ Insert(d, i) => Sequence!Insert(d, i)
  /\ Preinsert(d, i) => Sequence!Preinsert(d, i)

DeletesAgree(i, j, free) ==
  /\ DeleteIndx(i, free) => Sequence!DeleteIndx(i, free)
  /\ Delete(i, free) => Sequence!Delete(i, free)
  /\ DeleteRange(i, j, free) => Sequence!DeleteRange(i, j, free)
  /\ Clean(free) => Sequence!Clean(free)

IteratorAgrees ==
  /\ IterHead => Sequence!IterHead
  /\ IterTail => Sequence!IterTail
  /\ IterNext => Sequence!IterNext
  /\ IterPrev => Sequence!IterPrev

RefusalsAgree ==
  /\ \A i \in -1 .. MaxSize : Refused(i) => Sequence!Refused(i)
  /\ \A d \in Values, free \in BOOLEAN : DeleteObj(d, free) => Sequence!ObjRefused(d)
  /\ \A b, e \in -1 .. MaxSize + 1 : DeleteRangeRefused(b, e) => Sequence!RangeRefused(b, e)

CallsAgree ==
  [][/\ size' > size =>
          \A d \in Values, i \in 0 .. size : AddsAgree(d, i)
     /\ size' < size =>
          /\ \A i, j \in 0 .. size - 1, free \in BOOLEAN : DeletesAgree(i, j, free)
          /\ IterErase => Sequence!IterErase
          /\ \A d \in Values, free \in BOOLEAN :
               DeleteObj(d, free) => Sequence!DeleteObj(d, free)
     /\ size' = size => IteratorAgrees /\ RefusalsAgree]_vars
=============================================================================
