------------------------------ MODULE MclHash ------------------------------
(***************************************************************************)
(* One table of util/mcl_hash.c with int keys in the hands of a client:    *)
(* the calls of mcl_hash.h in any order, between the steps of a traversal  *)
(* (MCL_FOREACH, ITER_NEXT, MCL_ITERATOR_ERASE), and the heap blocks the   *)
(* client stores as values.                                                *)
(***************************************************************************)
EXTENDS HashTable

CONSTANTS
  Key,     (* the int keys the client uses                                 *)
  Val,     (* the heap blocks it stores                                    *)
  None     (* the NULL pointer                                             *)

ASSUME ClientAssumption ==
  /\ Key \subseteq Int
  /\ None \notin Val /\ None \notin Int

VARIABLES
  table,     (* ht->_tables                                                *)
  eraseFn,   (* is ht->erase_fn registered?                                *)
  owner,     (* who must release a block: the client, the table, nobody    *)
  it,        (* the client's iterator                                      *)
  answer,    (* what the last insert, delete or find returned              *)
  seen,      (* history: keys the traversal has stood on                   *)
  must       (* history: entries present since its start, not yet reached  *)

vars == <<table, eraseFn, owner, it, answer, seen, must>>
walk == <<it, seen, must>>

TypeOK ==
  /\ table \in [Buckets -> Seq([key : Key, val : Val])]
  /\ eraseFn \in BOOLEAN
  /\ owner \in [Val -> {"client", "table", "freed"}]
  /\ it \in {NoIter} \cup [cursor : Buckets, pair : [key : Key, val : Val]]
  /\ answer \in {0, 1, None} \cup Val
  /\ seen \subseteq Key /\ must \subseteq Key

Init ==
  /\ table = EmptyTable
  /\ eraseFn = FALSE
  /\ owner = [v \in Val |-> "client"]
  /\ it = NoIter /\ seen = {} /\ must = {}
  /\ answer = 0

(* destroy_pair: the value goes to the free function, or back to the       *)
(* client when there is none.                                              *)
Released(freeFn) == IF freeFn THEN "freed" ELSE "client"

(* The contract of the iterator: the pair it stands on is removed through  *)
(* the iterator only.                                                      *)
MayRemove(k) == ~Ended(it) => it.pair.key # k

(* malloc may hand out a block that was freed.                             *)
Malloc(v) ==
  /\ owner[v] = "freed"
  /\ owner' = [owner EXCEPT ![v] = "client"]
  /\ UNCHANGED <<table, eraseFn, answer, walk>>

(***************************************************************************)
(* mcl_int_hash_insert_safe and mcl_int_hash_insert.  A refused pair is    *)
(* destroyed with a NULL free function: the value stays the client's.      *)
(* The chain has room for the new pair once the old one is out of it.      *)
(***************************************************************************)
Refused ==
  answer' = 0 /\ UNCHANGED <<table, eraseFn, owner, walk>>

InsertNull == Refused

InsertSafe(k, v) ==
  /\ owner[v] = "client"
  /\ IF Available(k) /\ ~HasKey(table, k) /\ HasRoom(table, k)
       THEN /\ table' = WithPair(table, [key |-> k, val |-> v])
            /\ owner' = [owner EXCEPT ![v] = "table"]
            /\ answer' = 1
            /\ UNCHANGED <<eraseFn, walk>>
       ELSE Refused

Replace(k, v, freeFn) ==
  LET old  == Lookup(table, k).val
      rest == Without(table, k)
  IN  /\ HasKey(table, k) /\ MayRemove(k)
      /\ table' = WithPair(rest, [key |-> k, val |-> v])
      /\ owner' = [owner EXCEPT ![v] = "table", ![old] = Released(freeFn)]
      /\ answer' = 1
      /\ must' = must \ {k}
      /\ UNCHANGED <<eraseFn, it, seen>>

Insert(k, v, freeFn) ==
  \/ ~HasKey(table, k) /\ InsertSafe(k, v)
  \/ owner[v] = "client" /\ Replace(k, v, freeFn)

Delete(k, freeFn) ==
  /\ MayRemove(k)
  /\ IF HasKey(table, k)
       THEN /\ table' = Without(table, k)
            /\ owner' = [owner EXCEPT ![Lookup(table, k).val] = Released(freeFn)]
            /\ answer' = 1
            /\ must' = must \ {k}
            /\ UNCHANGED <<eraseFn, it, seen>>
       ELSE Refused

(* Broken: returns the key of the pair rather than its value.              *)
FindKey(k) ==
  /\ answer' = IF HasKey(table, k) THEN Lookup(table, k).key ELSE None
  /\ UNCHANGED <<table, eraseFn, owner, walk>>

(* Broken: the first pair of the chain, whatever its key.                  *)
FindFirst(k) ==
  /\ answer' = IF HasKey(table, k) THEN table[CalHash(k)][1].val ELSE None
  /\ UNCHANGED <<table, eraseFn, owner, walk>>

Find(k) ==
  /\ answer' = IF HasKey(table, k) THEN Lookup(table, k).val ELSE None
  /\ UNCHANGED <<table, eraseFn, owner, walk>>

(***************************************************************************)
(* mcl_hash_clean and, with the mcl_int_hash_new that has to follow before *)
(* the next use, mcl_hash_destroy.  No iterator survives either.           *)
(* (CleanLeaks is broken: it drops the chains and releases no value.)      *)
(***************************************************************************)
CleanLeaks(freeFn) ==
  /\ Ended(it)
  /\ table' = EmptyTable
  /\ must' = {}
  /\ UNCHANGED <<eraseFn, owner, it, answer, seen>>

Clean(freeFn) ==
  /\ Ended(it)
  /\ table' = EmptyTable
  /\ owner' = [v \in Val |-> IF owner[v] = "table" THEN Released(freeFn) ELSE owner[v]]
  /\ must' = {}
  /\ UNCHANGED <<eraseFn, it, answer, seen>>

DestroyAndNew(freeFn) ==
  /\ Ended(it)
  /\ table' = EmptyTable
  /\ owner' = [v \in Val |-> IF owner[v] = "table" THEN Released(freeFn) ELSE owner[v]]
  /\ eraseFn' = FALSE
  /\ must' = {}
  /\ UNCHANGED <<it, answer, seen>>

(* mcl_hash_ctrl, with MCL_REGIST_ERASE_FN or MCL_UNREGIST_ERASE_FN.       *)
Ctrl(on) ==
  eraseFn' = on /\ UNCHANGED <<table, owner, answer, walk>>

(***************************************************************************)
(* The traversal.  seen and must only record it.                           *)
(***************************************************************************)
StandOn(j, before, left) ==
  /\ it' = j
  /\ seen' = IF Ended(j) THEN {} ELSE before \cup {j.pair.key}
  /\ must' = IF Ended(j) THEN left ELSE left \ {j.pair.key}

First ==
  /\ Ended(it)
  /\ StandOn(IterHead(table), {}, Keys(table))
  /\ UNCHANGED <<table, eraseFn, owner, answer>>

Move ==
  /\ ~Ended(it)
  /\ StandOn(IterNext(table, it), seen, must)
  /\ UNCHANGED <<table, eraseFn, owner, answer>>

(* Broken: unlinks the pair and leaves the iterator on it.                 *)
EraseInPlace ==
  /\ ~Ended(it)
  /\ StandOn(it, seen, must)
  /\ table' = Without(table, it.pair.key)
  /\ owner' = [owner EXCEPT ![it.pair.val] = Released(eraseFn)]
  /\ UNCHANGED <<eraseFn, answer>>

(* def_hash_iter_erase moves the iterator before it unlinks the pair.      *)
Erase ==
  /\ ~Ended(it)
  /\ StandOn(IterNext(table, it), seen, must)
  /\ table' = Without(table, it.pair.key)
  /\ owner' = [owner EXCEPT ![it.pair.val] = Released(eraseFn)]
  /\ UNCHANGED <<eraseFn, answer>>

Calls ==
  \/ \E v \in Val : Malloc(v)
  \/ InsertNull
  \/ \E k \in Key, v \in Val : InsertSafe(k, v)
  \/ \E k \in Key, v \in Val, f \in BOOLEAN : Insert(k, v, f)
  \/ \E k \in Key, f \in BOOLEAN : Delete(k, f)
  \/ \E k \in Key : Find(k)
  \/ \E f \in BOOLEAN : Clean(f) \/ DestroyAndNew(f) \/ Ctrl(f)

Next == Calls \/ First \/ Move \/ Erase

(* A client that has started a traversal goes on with it.                  *)
Fairness == WF_vars(Move \/ Erase)

Spec == Init /\ [][Next]_vars /\ Fairness

-----------------------------------------------------------------------------
(***************************************************************************)
(* Every block the table has to release is stored in it exactly once, and  *)
(* nothing stored was released: no call frees twice, leaks or leaves a     *)
(* freed block reachable (do_hash_insert, hash_delete, def_hash_iter_erase *)
(* and mcl_hash_clean each release blocks on their own).                   *)
(***************************************************************************)
Ownership ==
  /\ \A p \in Entries(table) : owner[p.val] = "table"
  /\ \A v \in Val : owner[v] = "table" => \E p \in Entries(table) : p.val = v
  /\ \A p, q \in Entries(table) : p.val = q.val => p = q

(* A pair is found where its key hashes, once, in chains within the limit: *)
(* what hash_find and hash_delete rely on after any series of calls.       *)
WellFormed == WellPlaced(table) /\ NoDuplicate(table) /\ ChainsBounded(table)

(* The iterator between two calls stands on a pair that is still linked.   *)
IteratorLinked ==
  ~Ended(it) => /\ it.cursor = CalHash(it.pair.key)
                /\ it.pair \in Entries(table)

(* A traversal ends, though the client inserts all the time: new pairs go  *)
(* to the head of their chain.                                             *)
TraversalEnds == ~Ended(it) ~> Ended(it)

(* The table as a map, and the key its iterator stands on (HashMap).       *)
MapOf(t) == [k \in Key |-> IF HasKey(t, k) THEN Lookup(t, k).val ELSE None]
KeyAt(j) == IF Ended(j) THEN None ELSE j.pair.key

Map == INSTANCE HashMap WITH
  map <- MapOf(table),
  at  <- KeyAt(it),
  Storable <- {k \in Key : Available(k)},
  Limit <- MaxListSize

(* mcl_hash.h: the table is a map, and its traversal misses no entry that  *)
(* stays and stands on none twice.                                         *)
ImplementsMap == Map!Spec

(* hash_insert, hash_delete, hash_find: each call does to the map, and     *)
(* answers, what its namesake there does for the key it was given, and not *)
(* for another key of the same chain.                                      *)
CallsAgree ==
  [][/\ answer' \in {0, 1} /\ it' = it =>
          \A k \in Key :
            /\ \A v \in {u \in Val : owner[u] = "client"} :
                 /\ InsertSafe(k, v) => Map!InsertSafe(k, v)
                 /\ \A f \in BOOLEAN : Insert(k, v, f) => Map!Insert(k, v)
            /\ \A f \in BOOLEAN : Delete(k, f) => Map!Delete(k)
     /\ table' = table => \A k \in Key : Find(k) => Map!Find(k)]_vars
=============================================================================
