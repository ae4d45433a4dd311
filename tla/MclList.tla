------------------------------ MODULE MclList ------------------------------
(***************************************************************************)
(* A list of util/mcl_list.c: nodes on the heap in a ring with the list's  *)
(* own head, searches that walk the ring node by node, an iterator, and    *)
(* free functions that may call back into the list they are called from.   *)
(***************************************************************************)
EXTENDS Integers, SequencesExt

CONSTANTS
  Node,        (* heap blocks for nodes                                    *)
  Data,        (* the pointers clients store; one may be stored twice      *)
  Null,
  Entries,     (* list->_entries, the head of the ring                     *)
  Like,        (* the pairs of data for which the client's cmp_func says 1 *)
  MaxListSize  (* MCL_LIST_MAX_SIZE (1024*1024)                            *)

ASSUME ListAssumption ==
  /\ Entries \notin Node /\ Null \notin Node /\ Null # Entries
  /\ Null \notin Data
  /\ Like \subseteq Data \X Data
  /\ MaxListSize \in Nat \ {0}

VARIABLES
  next, prev,  (* the links of the nodes and of the head                   *)
  data,        (* node->_data                                              *)
  alive,       (* the nodes that are allocated                             *)
  size,        (* list->_list_sz                                           *)
  eraseFn,     (* is list->erase_fn registered?                            *)
  iter,        (* the node of the client's iterator, Null at the end       *)
  search,      (* the search in progress, in list_del or mcl_list_find     *)
  freeing,     (* the nodes whose free function runs, innermost first      *)
  answer,      (* what the last insert, delete or find returned            *)
  order        (* history: the nodes in the order of the ring              *)

ring == <<next, prev, data, order>>
heap == <<alive, size>>
vars == <<ring, heap, eraseFn, iter, search, freeing, answer>>

NoSearch == [op |-> "none"]
Place == Node \cup {Entries}

TypeOK ==
  /\ next \in [Place -> Place \cup {Null}] /\ prev \in [Place -> Place \cup {Null}]
  /\ data \in [Node -> Data \cup {Null}]
  /\ alive \subseteq Node
  /\ size \in 0 .. MaxListSize
  /\ eraseFn \in BOOLEAN
  /\ iter \in Node \cup {Null}
  /\ search \in {NoSearch} \cup
       [op : {"del", "find"}, ent : Place, arg : Data \cup {Null},
        cmp : BOOLEAN, free : BOOLEAN, erased : Node \cup {Null}]
  /\ freeing \in Seq(Node)
  /\ answer \in {0, 1, Null} \cup Data
  /\ order \in Seq(Node)

Init ==
  /\ next = [p \in Place |-> IF p = Entries THEN Entries ELSE Null]
  /\ prev = next
  /\ data = [n \in Node |-> Null]
  /\ alive = {} /\ size = 0
  /\ eraseFn = FALSE
  /\ iter = Null /\ search = NoSearch /\ freeing = <<>>
  /\ answer = 0 /\ order = <<>>

(* Client code runs, in a free function or outside of all calls.           *)
ClientRuns == search = NoSearch

-----------------------------------------------------------------------------
(* Broken: forgets the link back to the new node.                          *)
LinkForward(n, p, q) ==
  /\ next' = [next EXCEPT ![n] = q, ![p] = n]
  /\ prev' = [prev EXCEPT ![n] = p]

(* _LIST_INSERT: the new node between two neighbours.                      *)
Link(n, p, q) ==
  /\ next' = [next EXCEPT ![n] = q, ![p] = n]
  /\ prev' = [prev EXCEPT ![n] = p, ![q] = n]

Created(n, d) ==
  /\ data' = [data EXCEPT ![n] = d]
  /\ alive' = alive \cup {n} /\ size' = size + 1
  /\ answer' = 1
  /\ UNCHANGED <<eraseFn, iter, search, freeing>>

Insert(n, d) ==
  /\ ClientRuns /\ size < MaxListSize /\ n \notin alive
  /\ Link(n, Entries, next[Entries])
  /\ order' = <<n>> \o order
  /\ Created(n, d)

InsertTail(n, d) ==
  /\ ClientRuns /\ size < MaxListSize /\ n \notin alive
  /\ Link(n, prev[Entries], Entries)
  /\ order' = Append(order, n)
  /\ Created(n, d)

InsertRefused ==
  /\ ClientRuns /\ size >= MaxListSize
  /\ answer' = 0
  /\ UNCHANGED <<ring, heap, eraseFn, iter, search, freeing>>

Ctrl(on) ==
  /\ ClientRuns
  /\ eraseFn' = on
  /\ UNCHANGED <<ring, heap, iter, search, freeing, answer>>

-----------------------------------------------------------------------------
(***************************************************************************)
(* list_del, for mcl_list_delete, mcl_list_del_cmp and iter_erase.  The    *)
(* client does not delete the node its iterator stands on.                 *)
(***************************************************************************)
(* Broken: with a cmp_func, pointers are not compared any more.            *)
HitCmpOnly(arg, d, cmp) == IF cmp THEN <<arg, d>> \in Like ELSE d = arg

Hit(arg, d, cmp) == (cmp /\ <<arg, d>> \in Like) \/ d = arg

StartDel(arg, cmp, free, erased) ==
  search' = [op |-> "del", ent |-> next[Entries], arg |-> arg, cmp |-> cmp,
             free |-> free, erased |-> erased]

Delete(arg, cmp, free) ==
  /\ ClientRuns
  /\ iter # Null => ~Hit(arg, data[iter], cmp)
  /\ StartDel(arg, cmp, free, Null)
  /\ UNCHANGED <<ring, heap, eraseFn, iter, freeing, answer>>

Searching(op) == search # NoSearch /\ search.op = op
AtNode == search.ent # Entries
DelHit == Hit(search.arg, data[search.ent], search.cmp)

DelNext ==
  /\ Searching("del") /\ AtNode /\ ~DelHit
  /\ search' = [search EXCEPT !.ent = next[@]]
  /\ UNCHANGED <<ring, heap, eraseFn, iter, freeing, answer>>

DelFails ==
  /\ Searching("del") /\ ~AtNode
  /\ search' = NoSearch /\ answer' = 0
  /\ UNCHANGED <<ring, heap, eraseFn, iter, freeing>>

(* Broken: the size still counts the node.                                 *)
FreeUncounted(n) == alive' = alive \ {n} /\ answer' = 1 /\ UNCHANGED size

(* free(node): what the block held is gone with it.                        *)
FreeNode(n) ==
  /\ alive' = alive \ {n} /\ size' = size - 1
  /\ answer' = 1

Wiped(f, n) == [f EXCEPT ![n] = Null]
Bypassed(f, p, q) == [f EXCEPT ![p] = q]
Dropped(n) == RemoveFirst(order, n)

(* HANDLE_ELEM up to the call of the free function.                        *)
Unlink ==
  LET n == search.ent
      calls == search.free /\ data[n] # Null
      forward == Bypassed(next, prev[n], next[n])
      back == Bypassed(prev, next[n], prev[n])
  IN  /\ Searching("del") /\ AtNode /\ DelHit
      /\ search' = NoSearch
      /\ order' = Dropped(n)
      /\ IF calls
           THEN /\ next' = forward /\ prev' = back
                /\ freeing' = <<n>> \o freeing
                /\ UNCHANGED <<data, heap, answer>>
           ELSE /\ next' = Wiped(forward, n) /\ prev' = Wiped(back, n)
                /\ data' = Wiped(data, n)
                /\ FreeNode(n)
                /\ UNCHANGED freeing
      /\ UNCHANGED <<eraseFn, iter>>

FreeReturns ==
  LET n == Head(freeing)
  IN  /\ ClientRuns /\ freeing # <<>>
      /\ freeing' = Tail(freeing)
      /\ next' = Wiped(next, n) /\ prev' = Wiped(prev, n) /\ data' = Wiped(data, n)
      /\ FreeNode(n)
      /\ UNCHANGED <<eraseFn, iter, search, order>>

(* mcl_list_destroy, with free functions that make no calls on the list,   *)
(* and the mcl_list_new that has to follow before the next use.            *)
DestroyAndNew ==
  /\ ClientRuns /\ freeing = <<>> /\ iter = Null
  /\ next' = [p \in Place |-> IF p = Entries THEN Entries ELSE Null]
  /\ prev' = next'
  /\ data' = [n \in Node |-> Null]
  /\ alive' = {} /\ size' = 0
  /\ eraseFn' = FALSE /\ order' = <<>>
  /\ UNCHANGED <<iter, search, freeing, answer>>

-----------------------------------------------------------------------------
(* mcl_list_find.  Without an argument it searches nothing.                *)
Find(arg, cmp) ==
  /\ ClientRuns /\ arg # Null
  /\ search' = [op |-> "find", ent |-> next[Entries], arg |-> arg, cmp |-> cmp,
                free |-> FALSE, erased |-> Null]
  /\ UNCHANGED <<ring, heap, eraseFn, iter, freeing, answer>>

FindHit ==
  IF search.cmp THEN <<search.arg, data[search.ent]>> \in Like
                ELSE search.arg = data[search.ent]

FindNext ==
  /\ Searching("find") /\ AtNode
  /\ data[search.ent] # Null /\ ~FindHit
  /\ search' = [search EXCEPT !.ent = next[@]]
  /\ UNCHANGED <<ring, heap, eraseFn, iter, freeing, answer>>

FindReturns(d) ==
  /\ answer' = d /\ search' = NoSearch
  /\ UNCHANGED <<ring, heap, eraseFn, iter, freeing>>

FindEnds == Searching("find") /\ ~AtNode /\ FindReturns(Null)

(* An entry without data ends the search as a hit does.                    *)
FindStops ==
  /\ Searching("find") /\ AtNode
  /\ data[search.ent] = Null \/ FindHit
  /\ FindReturns(data[search.ent])

-----------------------------------------------------------------------------
(***************************************************************************)
(* The iterator.                                                           *)
(***************************************************************************)
(* Broken: goes on to the head of the ring.                                *)
StepAround(p) == p

Step(p) == IF p = Entries THEN Null ELSE p

MoveTo(p) ==
  /\ ClientRuns
  /\ iter' = Step(p)
  /\ UNCHANGED <<ring, heap, eraseFn, search, freeing, answer>>

IterHead == MoveTo(next[Entries])
IterTail == MoveTo(prev[Entries])
IterNext == iter # Null /\ MoveTo(next[iter])
IterPrev == iter # Null /\ MoveTo(prev[iter])

(* Broken: leaves the iterator on the node that list_del frees.            *)
IterEraseInPlace ==
  /\ ClientRuns /\ iter # Null
  /\ StartDel(data[iter], FALSE, eraseFn, iter)
  /\ UNCHANGED <<ring, heap, eraseFn, iter, freeing, answer>>

(* mcl_def_list_iter_erase moves on, then deletes by the data it had.      *)
IterErase ==
  /\ ClientRuns /\ iter # Null
  /\ iter' = Step(next[iter])
  /\ StartDel(data[iter], FALSE, eraseFn, iter)
  /\ UNCHANGED <<ring, heap, eraseFn, freeing, answer>>

Calls ==
  \/ \E n \in Node, d \in Data \cup {Null} : Insert(n, d) \/ InsertTail(n, d)
  \/ InsertRefused
  \/ \E on \in BOOLEAN : Ctrl(on)
  \/ \E arg \in Data \cup {Null}, cmp, free \in BOOLEAN : Delete(arg, cmp, free)
  \/ \E arg \in Data, cmp \in BOOLEAN : Find(arg, cmp)
  \/ DestroyAndNew
  \/ IterHead \/ IterTail \/ IterNext \/ IterPrev \/ IterErase

Steps == DelNext \/ DelFails \/ Unlink \/ FreeReturns \/ FindNext \/ FindEnds \/ FindStops

Next == Calls \/ Steps

Spec == Init /\ [][Next]_vars

-----------------------------------------------------------------------------
(***************************************************************************)
(* The ring: forward it visits the nodes in order, backward in reverse,    *)
(* and it closes at the head.  Every insertion and unlinking changes four  *)
(* or two pointers, at the ends of the ring and in nested calls alike.     *)
(***************************************************************************)
At(i) == IF i \in DOMAIN order THEN order[i] ELSE Entries

RingSound ==
  /\ \A i \in 0 .. Len(order) : next[At(i)] = At(i + 1) /\ prev[At(i + 1)] = At(i)
  /\ \A i, j \in DOMAIN order : order[i] = order[j] => i = j

(* Every allocated node is in the ring or waits for its free function,     *)
(* never both, and list->_list_sz counts them: no node is leaked or freed  *)
(* twice, and the limit of the size is kept, however free functions nest.  *)
BlocksCounted ==
  /\ alive = ToSet(order) \cup ToSet(freeing)
  /\ size = Len(order) + Len(freeing)
  /\ \A i, j \in DOMAIN freeing : freeing[i] = freeing[j] => i = j
  /\ \A i \in DOMAIN freeing : freeing[i] \notin ToSet(order)

(* The iterator stands on a node of the ring, and so does a search: no     *)
(* call reads a node after its free.  While iter_erase deletes the node it *)
(* has left, the iterator stands on another one already.                   *)
CursorsLinked ==
  /\ iter # Null => iter \in ToSet(order)
  /\ search # NoSearch => search.ent \in ToSet(order) \cup {Entries}
  /\ Searching("del") /\ AtNode /\ DelHit => search.ent # iter

(* The list is a sequence with a cursor, and every deletion and search is  *)
(* answered as the sequence has it (ListSeq).                              *)
Abstract == INSTANCE ListSeq WITH
  items <- [i \in DOMAIN order |-> data[order[i]]],
  at <- IF iter \in ToSet(order) THEN CHOOSE i \in DOMAIN order : order[i] = iter ELSE 0,
  asked <- Restrict(search, {"op", "arg", "cmp", "free"} \cap DOMAIN search),
  open <- Len(freeing)
ImplementsSeq == Abstract!Spec

(* mcl_list.c:192 "delete node from list", where node is the one under the *)
(* iterator: erase removes the node the iterator stood on.                 *)
ErasesItsNode == [][Unlink => search.erased \in {Null, search.ent}]_vars
=============================================================================
