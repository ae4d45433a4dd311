------------------------------ MODULE HashMap ------------------------------
(***************************************************************************)
(* What a caller of util/mcl_hash.h may rely on: a map from keys to        *)
(* values, and one traversal of it that tolerates changes.  Nothing here   *)
(* knows of buckets, chains or the order of the traversal.                 *)
(***************************************************************************)
EXTENDS Naturals, FiniteSets

CONSTANTS
  Key, Val, None,
  Storable,   (* the keys the table can hold at all                        *)
  Limit       (* a new key can be refused only if Limit keys are present   *)

VARIABLES
  map,        (* the value of every key, None if the key is absent         *)
  at,         (* the key the traversal stands on, None if there is none    *)
  seen,       (* the keys the traversal has stood on                       *)
  must,       (* the keys it still has to stand on                         *)
  answer      (* what the last call returned                               *)

vars == <<map, at, seen, must, answer>>

Present == {k \in Key : map[k] # None}

Init ==
  /\ map = [k \in Key |-> None]
  /\ at = None /\ seen = {} /\ must = {}
  /\ answer = 0

Refuse ==
  answer' = 0 /\ UNCHANGED <<map, at, seen, must>>

Add(k, v) ==
  /\ map[k] = None /\ k \in Storable
  /\ map' = [map EXCEPT ![k] = v] /\ answer' = 1
  /\ UNCHANGED <<at, seen, must>>

RefuseNew(k) ==
  /\ map[k] = None
  /\ k \notin Storable \/ Cardinality(Present) >= Limit
  /\ Refuse

(* A replaced entry loses its claim to be visited.                         *)
Replace(k, v) ==
  /\ map[k] # None /\ at # k
  /\ map' = [map EXCEPT ![k] = v] /\ answer' = 1
  /\ must' = must \ {k}
  /\ UNCHANGED <<at, seen>>

InsertSafe(k, v) == Add(k, v) \/ RefuseNew(k) \/ (map[k] # None /\ Refuse)
Insert(k, v) == Add(k, v) \/ RefuseNew(k) \/ Replace(k, v)

Delete(k) ==
  /\ at # k
  /\ map' = [map EXCEPT ![k] = None]
  /\ answer' = IF map[k] = None THEN 0 ELSE 1
  /\ must' = must \ {k}
  /\ UNCHANGED <<at, seen>>

Find(k) == answer' = map[k] /\ UNCHANGED <<map, at, seen, must>>

Clean ==
  /\ at = None
  /\ map' = [k \in Key |-> None] /\ must' = {}
  /\ UNCHANGED <<at, seen, answer>>

(* The traversal goes to any present key it has not stood on, and may end  *)
(* only when no key that was there all along is left out.                  *)
GoTo(k, present, before, left) ==
  \/ /\ k \in present \ before
     /\ at' = k /\ seen' = before \cup {k} /\ must' = left \ {k}
  \/ /\ k = None /\ left = {}
     /\ at' = None /\ seen' = {} /\ must' = {}

First ==
  /\ at = None
  /\ \E k \in Present \cup {None} : GoTo(k, Present, {}, Present)
  /\ UNCHANGED <<map, answer>>

Move ==
  /\ at # None
  /\ \E k \in Present \cup {None} : GoTo(k, Present, seen, must)
  /\ UNCHANGED <<map, answer>>

Erase ==
  /\ at # None
  /\ map' = [map EXCEPT ![at] = None]
  /\ \E k \in Present \cup {None} : GoTo(k, Present, seen, must)
  /\ UNCHANGED answer

Next ==
  \/ \E k \in Key, v \in Val : InsertSafe(k, v) \/ Insert(k, v)
  \/ \E k \in Key : Delete(k) \/ Find(k)
  \/ Clean \/ First \/ Move \/ Erase

Spec == Init /\ [][Next]_vars
=============================================================================
