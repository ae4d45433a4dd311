------------------------------ MODULE ListSeq ------------------------------
(***************************************************************************)
(* What a caller of util/mcl_list.h may rely on: a sequence of data        *)
(* pointers with a cursor.  Nothing here knows of nodes and links.  While  *)
(* the free function of a removed entry runs, the entry is out of the      *)
(* sequence but still counts against the limit of the size.                *)
(***************************************************************************)
EXTENDS SequencesExt

CONSTANTS Data, Null, Like, MaxListSize

VARIABLES
  items,     (* the data pointers, in order                                *)
  at,        (* the index of the cursor, 0 when it is at no entry          *)
  asked,     (* the deletion or search in progress                         *)
  open,      (* the number of removals whose free function is running      *)
  answer     (* what the last insertion, removal or search returned        *)

vars == <<items, at, asked, open, answer>>

Nothing == [op |-> "none"]
Size == Len(items) + open

Init == items = <<>> /\ at = 0 /\ asked = Nothing /\ open = 0 /\ answer = 0

-----------------------------------------------------------------------------
(* Calls that are answered at once.                                        *)
Answered(a) == asked = Nothing /\ answer' = a /\ UNCHANGED asked

Refuse == Size >= MaxListSize /\ Answered(0) /\ UNCHANGED <<items, at, open>>

Insert(d) ==
  /\ Size < MaxListSize /\ Answered(1)
  /\ items' = <<d>> \o items
  /\ at' = IF at = 0 THEN 0 ELSE at + 1
  /\ UNCHANGED open

InsertTail(d) ==
  /\ Size < MaxListSize /\ Answered(1)
  /\ items' = Append(items, d)
  /\ UNCHANGED <<at, open>>

MoveTo(i) == at' = i /\ Answered(answer) /\ UNCHANGED <<items, open>>

After(i) == IF i = Len(items) THEN 0 ELSE i + 1
ToFirst == MoveTo(IF items = <<>> THEN 0 ELSE 1)
ToLast == MoveTo(Len(items))
Forward == at # 0 /\ MoveTo(After(at))
Backward == at # 0 /\ MoveTo(at - 1)

Clear ==
  /\ open = 0 /\ at = 0 /\ Answered(answer)
  /\ items' = <<>>
  /\ UNCHANGED <<at, open>>

-----------------------------------------------------------------------------
(* Deletions, by pointer or also by comparison, and erasures, which move   *)
(* the cursor on and delete by the pointer it was at.  Neither takes the   *)
(* entry under the cursor.                                                 *)
Hit(arg, d, cmp) == arg = d \/ (cmp /\ <<arg, d>> \in Like)
AskedHit(i) == Hit(asked.arg, items[i], asked.cmp)

Ask(op, arg, cmp, free) ==
  /\ asked = Nothing
  /\ asked' = [op |-> op, arg |-> arg, cmp |-> cmp, free |-> free]
  /\ UNCHANGED <<items, open, answer>>

Delete(arg, cmp, free) ==
  /\ at # 0 => ~Hit(arg, items[at], cmp)
  /\ Ask("del", arg, cmp, free) /\ UNCHANGED at

Erase(free) ==
  /\ at # 0 /\ at' = After(at)
  /\ Ask("del", items[at], FALSE, free)

TakeOut(i) ==
  /\ asked.op = "del" /\ asked' = Nothing
  /\ at # i /\ AskedHit(i) /\ \A j \in 1 .. i - 1 : ~AskedHit(j)
  /\ items' = RemoveAt(items, i)
  /\ at' = IF i < at THEN at - 1 ELSE at
  /\ IF asked.free /\ items[i] # Null
       THEN open' = open + 1 /\ UNCHANGED answer
       ELSE answer' = 1 /\ UNCHANGED open

NotThere ==
  /\ asked.op = "del" /\ asked' = Nothing
  /\ \A i \in DOMAIN items : ~AskedHit(i)
  /\ answer' = 0
  /\ UNCHANGED <<items, at, open>>

FreeReturns ==
  /\ open > 0 /\ open' = open - 1
  /\ Answered(1) /\ UNCHANGED <<items, at>>

(* A search stops at the first entry that fits or has no data.             *)
Find(arg, cmp) == Ask("find", arg, cmp, FALSE) /\ UNCHANGED at

Stops(i) ==
  \/ items[i] = Null
  \/ IF asked.cmp THEN <<asked.arg, items[i]>> \in Like ELSE asked.arg = items[i]

Found ==
  /\ asked.op = "find" /\ asked' = Nothing
  /\ \/ \E i \in DOMAIN items :
          Stops(i) /\ answer' = items[i] /\ \A j \in 1 .. i - 1 : ~Stops(j)
     \/ answer' = Null /\ \A i \in DOMAIN items : ~Stops(i)
  /\ UNCHANGED <<items, at, open>>

Next ==
  \/ \E d \in Data \cup {Null} : Insert(d) \/ InsertTail(d)
  \/ Refuse \/ FreeReturns \/ Clear
  \/ ToFirst \/ ToLast \/ Forward \/ Backward
  \/ \E arg \in Data \cup {Null}, cmp, free \in BOOLEAN : Delete(arg, cmp, free)
  \/ \E free \in BOOLEAN : Erase(free)
  \/ \E arg \in Data, cmp \in BOOLEAN : Find(arg, cmp)
  \/ (\E i \in DOMAIN items : TakeOut(i)) \/ NotThere \/ Found

Spec == Init /\ [][Next]_vars
=============================================================================
