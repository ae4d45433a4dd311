----------------------------- MODULE HashTable -----------------------------
(***************************************************************************)
(* The chained hash table of util/mcl_hash.c as a value: a function from   *)
(* buckets to lists of <key, value> pairs, the newest pair of a bucket     *)
(* first, because do_hash_insert uses mcl_list_insert (at the head).  A    *)
(* bucket whose list was never created and one whose list is empty behave  *)
(* alike, so both are <<>>.  The operators are the halves of the API calls *)
(* and of the iterator; MclHash and MclSelect build their actions of them. *)
(***************************************************************************)
EXTENDS Integers, SequencesExt

CONSTANTS
  MaxHash,      (* MCL_HASH_MAX_SIZE, the number of buckets (1021)          *)
  Multiplier,   (* the factor of the multiplicative hash (2654435761)       *)
  MaxListSize   (* MCL_LIST_MAX_SIZE, pairs one bucket can hold (1024*1024) *)

ASSUME HashAssumption ==
  /\ MaxHash \in Nat \ {0}
  /\ Multiplier \in Nat
  /\ MaxListSize \in Nat \ {0}

Buckets == 0 .. MaxHash - 1

(* The remainder of C, which has the sign of the dividend.                 *)
TruncRem(a, n) == IF a >= 0 THEN a % n ELSE -((-a) % n)

(* The bucket of an int key; negative, hence no bucket, for most negative  *)
(* keys.  The product is computed in 64 bits and cannot overflow there.    *)
CalHash(k) == TruncRem(k * Multiplier, MaxHash)

Available(k) == CalHash(k) \in Buckets

EmptyTable == [h \in Buckets |-> <<>>]

Entries(t) == UNION {ToSet(t[h]) : h \in Buckets}
Keys(t) == {p.key : p \in Entries(t)}

(* mcl_list_find: the place of the first pair of a chain with this key.    *)
ChainHas(b, k) == \E i \in DOMAIN b : b[i].key = k
Place(b, k) ==
  CHOOSE i \in DOMAIN b : b[i].key = k /\ \A j \in 1 .. i - 1 : b[j].key # k

HasKey(t, k) == Available(k) /\ ChainHas(t[CalHash(k)], k)
Lookup(t, k) == LET b == t[CalHash(k)] IN b[Place(b, k)]

(* Broken: the limit is tested as if the new pair were already counted.    *)
HasRoomOneMore(t, k) == Len(t[CalHash(k)]) <= MaxListSize

HasRoom(t, k) == Len(t[CalHash(k)]) < MaxListSize

(* Broken: new pairs at the end of the chain, as mcl_list_insert_tail does.*)
WithPairLast(t, p) == [t EXCEPT ![CalHash(p.key)] = @ \o <<p>>]

WithPair(t, p) == [t EXCEPT ![CalHash(p.key)] = <<p>> \o @]

(* Broken: unlinks the head of the chain whatever the key.                 *)
WithoutHead(t, k) == [t EXCEPT ![CalHash(k)] = RemoveAt(@, 1)]

Without(t, k) == [t EXCEPT ![CalHash(k)] = RemoveAt(@, Place(@, k))]

(***************************************************************************)
(* The iterator: the bucket it is in and the pair it stands on.  The       *)
(* cursor is -1 and _ptr is NULL once the traversal is over.               *)
(***************************************************************************)
NoIter == [cursor |-> -1, pair |-> <<>>]
Ended(it) == it.cursor = -1

(* The first pair of the first non-empty bucket from bucket h on.          *)
FirstFrom(t, h) ==
  LET full == {i \in Buckets : i >= h /\ t[i] # <<>>}
      low  == CHOOSE i \in full : \A j \in full : i <= j
  IN  IF full = {} THEN NoIter ELSE [cursor |-> low, pair |-> t[low][1]]

IterHead(t) == FirstFrom(t, 0)

(* Broken: goes to the next chain with the rest of this one unvisited.     *)
IterNextChain(t, it) == FirstFrom(t, it.cursor + 1)

(* def_hash_iter_next: the successor in the chain, else the next chain.    *)
IterNext(t, it) ==
  LET b == t[it.cursor]
      i == Place(b, it.pair.key)
  IN  IF i < Len(b) THEN [it EXCEPT !.pair = b[i + 1]]
                    ELSE FirstFrom(t, it.cursor + 1)

(***************************************************************************)
(* What every operation must preserve: a pair is in the chain its key      *)
(* hashes to, a key occurs once, a chain is within its limit.              *)
(***************************************************************************)
WellPlaced(t) == \A h \in Buckets : \A i \in DOMAIN t[h] : CalHash(t[h][i].key) = h
NoDuplicate(t) ==
  \A h \in Buckets : \A i, j \in DOMAIN t[h] : t[h][i].key = t[h][j].key => i = j
ChainsBounded(t) == \A h \in Buckets : Len(t[h]) <= MaxListSize
=============================================================================
