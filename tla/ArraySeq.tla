------------------------------ MODULE ArraySeq ------------------------------
(***************************************************************************)
(* What util/mcl_array.h promises: a sequence of pointers addressed from   *)
(* 0, whose calls answer with an index or a count and release what they    *)
(* remove when they are given a free function; and an iterator that        *)
(* remembers an index and the pointer it saw there.  The answers and the   *)
(* iterator, of which the header says nothing, are as in mcl_array.c.      *)
(***************************************************************************)
EXTENDS Integers, SequencesExt

CONSTANTS Data, Null, MaxSize

VARIABLES
  items,
  eraser,    (* iter_erase has been told whether to release, and how        *)
  index,     (* the iterator: -1 when unset                                 *)
  seen,      (* the pointer it saw last, NULL at an end                     *)
  ret,       (* what the last call returned                                 *)
  released   (* what it gave to the free function, in order                 *)

vars == <<items, eraser, index, seen, ret, released>>
iter == <<index, seen>>

Init ==
  /\ items = <<>>
  /\ eraser = "wild"
  /\ index = -1 /\ seen = Null
  /\ ret = 0 /\ released = <<>>

Places == 0 .. Len(items) - 1
At(i) == items[i + 1]

(* The pointers of a sequence that are not NULL, in their order.           *)
NonNull(s) ==
  LET kept[n \in 0 .. Len(s)] ==
        IF n = 0 THEN <<>>
        ELSE IF s[n] = Null THEN kept[n - 1] ELSE Append(kept[n - 1], s[n])
  IN  kept[Len(s)]
Answer(r) == ret' = r /\ released' = <<>>
AnswerFreeing(r, s, free) ==
  ret' = r /\ released' = IF free THEN NonNull(s) ELSE <<>>

(* Index 0 is a position of an empty array, though nothing is there.       *)
InBounds(i) == i \in Places \/ (items = <<>> /\ i = 0)

Put(d, i) ==
  /\ Len(items) < MaxSize
  /\ items' = InsertAt(items, i + 1, d)
  /\ Answer(i)
  /\ UNCHANGED <<eraser, iter>>

ArrayAppend(d) == Put(d, Len(items))
Preappend(d) == Put(d, 0)
Preinsert(d, i) == InBounds(i) /\ Put(d, i)
Insert(d, i) == i \in Places /\ Put(d, i + 1)

(* A call is refused only for a position, an element or a range that the   *)
(* array does not have.                                                    *)
Refusal ==
  /\ Answer(-1)
  /\ UNCHANGED <<items, eraser, iter>>

Refused(i) == i \notin Places /\ Refusal
ObjRefused(d) == (\A i \in Places : At(i) # d) /\ Refusal
RangeRefused(b, e) == ~(0 <= b /\ b <= e /\ e <= Len(items)) /\ Refusal

DeleteIndx(i, free) ==
  /\ i \in Places
  /\ items' = RemoveAt(items, i + 1)
  /\ AnswerFreeing(i, <<At(i)>>, free)
  /\ UNCHANGED <<eraser, iter>>

(* Its place is taken by the last element.                                 *)
Delete(i, free) ==
  /\ i \in Places
  /\ items' = Front([items EXCEPT ![i + 1] = Last(items)])
  /\ AnswerFreeing(i, <<At(i)>>, free)
  /\ UNCHANGED <<eraser, iter>>

DeleteObj(d, free) ==
  \E i \in Places :
    /\ At(i) = d /\ \A j \in 0 .. i - 1 : At(j) # d
    /\ Delete(i, free)

(* The range [b, e), which may be empty or reach the end.                  *)
DeleteRange(b, e, free) ==
  /\ 0 <= b /\ b <= e /\ e <= Len(items)
  /\ items' = SubSeq(items, 1, b) \o SubSeq(items, e + 1, Len(items))
  /\ AnswerFreeing(e - b, SubSeq(items, b + 1, e), free)
  /\ UNCHANGED <<eraser, iter>>

Tighten ==
  /\ items # <<>>
  /\ Answer(0)
  /\ UNCHANGED <<items, eraser, iter>>

Clean(free) ==
  /\ items' = <<>>
  /\ AnswerFreeing(0, items, free)
  /\ UNCHANGED <<eraser, iter>>

DestroyAndNew(free) ==
  /\ items' = <<>>
  /\ eraser' = "wild"
  /\ index' = -1 /\ seen' = Null
  /\ AnswerFreeing(0, items, free)

Ctrl ==
  /\ eraser' \in {"none", "free"}
  /\ Answer(1)
  /\ UNCHANGED <<items, iter>>

CtrlRefused ==
  /\ Answer(0)
  /\ UNCHANGED <<items, eraser, iter>>

StandAt(i) ==
  IF i \in Places THEN index' = i /\ seen' = At(i)
                  ELSE index' = -1 /\ seen' = Null

IterHead == StandAt(0) /\ UNCHANGED <<items, eraser, ret, released>>
IterTail == StandAt(Len(items) - 1) /\ UNCHANGED <<items, eraser, ret, released>>

(* In an empty array the iterator goes to index 0 and sees NULL there.     *)
IterMove(i) ==
  /\ IF items = <<>> /\ i = 0 THEN index' = 0 /\ seen' = Null ELSE StandAt(i)
  /\ UNCHANGED <<items, eraser, ret, released>>

IterNext == IterMove(index + 1)
IterPrev == IterMove(index - 1)

(* The pointer is the one seen, though the array may have changed.         *)
IterInfo ==
  /\ IF InBounds(index) THEN UNCHANGED iter ELSE index' = -1 /\ seen' = Null
  /\ UNCHANGED <<items, eraser, ret, released>>

(* The iterator stays at the index, and so moves to the next element; past *)
(* the last one it sees NULL.                                              *)
IterErase ==
  /\ index \in Places
  /\ items' = RemoveAt(items, index + 1)
  /\ released' = IF eraser = "free" THEN NonNull(<<At(index)>>) ELSE <<>>
  /\ ret' = 0
  /\ seen' = IF index + 1 \in Places THEN At(index + 1) ELSE Null
  /\ UNCHANGED <<eraser, index>>

IterEraseEnd ==
  /\ ~InBounds(index)
  /\ index' = -1 /\ seen' = Null
  /\ UNCHANGED <<items, eraser, ret, released>>

Next ==
  \/ \E d \in Data \cup {Null} :
       \/ ArrayAppend(d) \/ Preappend(d)
       \/ \E i \in 0 .. MaxSize : Preinsert(d, i) \/ Insert(d, i)
       \/ \E free \in BOOLEAN : DeleteObj(d, free)
       \/ ObjRefused(d)
  \/ \E i \in -1 .. MaxSize : Refused(i)
  \/ \E b, e \in -1 .. MaxSize + 1 : RangeRefused(b, e)
  \/ \E free \in BOOLEAN :
       \/ \E i \in Places : DeleteIndx(i, free) \/ Delete(i, free)
       \/ \E b, e \in 0 .. Len(items) : DeleteRange(b, e, free)
       \/ Clean(free) \/ DestroyAndNew(free)
  \/ Tighten \/ Ctrl \/ CtrlRefused
  \/ IterHead \/ IterTail \/ IterNext \/ IterPrev \/ IterInfo
  \/ IterErase \/ IterEraseEnd

Spec == Init /\ [][Next]_vars
=============================================================================
