----------------------------- MODULE MclStrHash -----------------------------
(***************************************************************************)
(* A table of util/mcl_hash.c with string keys, the strings of             *)
(* util/mcl_string.c it is used with, and free functions that call back    *)
(* into the table they are called from.  MclHash has what is common to     *)
(* both kinds of keys (return values, the completeness of a traversal).    *)
(***************************************************************************)
EXTENDS HashTable

CONSTANTS
  Text,    (* the byte strings clients use, as sequences of char codes     *)
  Str,     (* the heap blocks that hold an mcl_string                      *)
  Val,     (* the heap blocks the client stores                            *)
  MaxRef   (* bound: the reference count of one string                     *)

Nul == 0
Char == 0 .. 127
Blank == {9, 32}

(* No text has a NUL inside: keys are hashed by length and compared by     *)
(* strcmp, so such a key and its prefix may or may not be the same key.    *)
ASSUME StrAssumption ==
  /\ Text \subseteq Seq(Char \ {Nul})
  /\ MaxRef \in Nat \ {0}

(***************************************************************************)
(* The ELF hash of cal_hash_str for the strings a client can have.  A step *)
(* leaves 28 bits of what cal_hash_int takes as an int, so each text has a *)
(* bucket, which not every int key has.                                    *)
(***************************************************************************)
NibbleXor(a, b) ==
  LET bit(i) == ((a \div i + b \div i) % 2) * i
  IN  bit(1) + bit(2) + bit(4) + bit(8)

(* The bits above the 28 are folded into bits 4 to 7.                      *)
ElfStep(hash, c) ==
  LET sum == hash * 16 + c
      low == sum % 2^28
  IN  (low \div 256) * 256
        + NibbleXor((low \div 16) % 16, (sum \div 2^28) % 16) * 16 + (low % 16)

(* mcl_trim; a string of blanks becomes empty.                             *)
Trimmed(t) ==
  LET head == SelectInSeq(Append(t, Nul), LAMBDA c : c \notin Blank)
      tail == SelectLastInSeq(t, LAMBDA c : c \notin Blank)
  IN  SubSeq(t, head, tail)

ElfHash(t) ==
  LET hash[n \in 0 .. Len(t)] == IF n = 0 THEN 0 ELSE ElfStep(hash[n - 1], t[n])
  IN  hash[Len(t)]

(* The texts there can be, and what they hash to.                          *)
Known == Text \cup {Trimmed(t) : t \in Text}
Elf == [t \in Known |-> ElfHash(t)]
Bucket(t) == CalHash(Elf[t])

VARIABLES
  table,     (* ht->_tables; the key of a pair is the block of its string  *)
  strs,      (* the strings; by: who allocated it, the client or make_pair *)
  mine,      (* the references the client has to give back, per string     *)
  owner,     (* where a value is; "client" is also what is free to malloc  *)
  it,        (* the client's iterator                                      *)
  frees      (* the free functions in progress, innermost first, each with *)
             (* what the call it was called from has left to do            *)

heap == <<strs, mine>>
vars == <<table, heap, owner, it, frees>>

Gone == [ref |-> 0]
Live(s) == strs[s] # Gone

TypeOK ==
  /\ table \in [Buckets -> Seq([key : Str, val : Val])]
  /\ strs \in [Str -> {Gone} \cup
                 [text : Seq(Char), ref : 1 .. MaxRef, by : {"client", "pair"}]]
  /\ mine \in [Str -> 0 .. MaxRef]
  /\ owner \in [Val -> {"client", "table", "inserting", "freeing"}]
  /\ it \in {NoIter} \cup [cursor : Buckets, pair : [key : Str, val : Val]]
  /\ frees \in Seq([op : {"remove"}, val : Val]
                   \cup [op : {"replace"}, val : Val, pair : [key : Str, val : Val]])

Init ==
  /\ table = EmptyTable
  /\ strs = [s \in Str |-> Gone] /\ mine = [s \in Str |-> 0]
  /\ owner = [v \in Val |-> "client"]
  /\ it = NoIter /\ frees = <<>>

-----------------------------------------------------------------------------
(***************************************************************************)
(* The strings.  Client code, in a free function or not, can reach the     *)
(* strings it has a reference to and the key under its iterator            *)
(* (mcl_hash_iter_key).                                                    *)
(***************************************************************************)
Reaches(s) == mine[s] > 0 \/ (~Ended(it) /\ it.pair.key = s)

String(t, by) == [text |-> t, ref |-> 1, by |-> by]

(* Broken: counts down and keeps the block.                                *)
DroppedKeep(s) == [strs EXCEPT ![s].ref = @ - 1]

(* mcl_string_free and mcl_string_deref.                                   *)
Dropped(s) ==
  IF strs[s].ref = 1 THEN [strs EXCEPT ![s] = Gone] ELSE [strs EXCEPT ![s].ref = @ - 1]

(* mcl_string_alloc, and mcl_string_copy of a string with that text.       *)
Alloc(s, t) ==
  /\ ~Live(s)
  /\ strs' = [strs EXCEPT ![s] = String(t, "client")]
  /\ mine' = [mine EXCEPT ![s] = 1]
  /\ UNCHANGED <<table, owner, it, frees>>

Ref(s) ==
  /\ Reaches(s) /\ strs[s].ref < MaxRef
  /\ strs' = [strs EXCEPT ![s].ref = @ + 1]
  /\ mine' = [mine EXCEPT ![s] = @ + 1]
  /\ UNCHANGED <<table, owner, it, frees>>

Free(s) ==
  /\ mine[s] > 0
  /\ strs' = Dropped(s)
  /\ mine' = [mine EXCEPT ![s] = @ - 1]
  /\ UNCHANGED <<table, owner, it, frees>>

(* The key that make_pair made belongs in its bucket: the client does not  *)
(* trim it.  Its own strings it may trim at any time.                      *)
Trim(s) ==
  /\ mine[s] > 0 /\ strs[s].by = "client"
  /\ strs' = [strs EXCEPT ![s].text = Trimmed(@)]
  /\ UNCHANGED <<table, mine, owner, it, frees>>

-----------------------------------------------------------------------------
(***************************************************************************)
(* The calls on the table.  A call that removes a pair destroys the key,   *)
(* then calls the free function; the call goes on in FreeReturns.          *)
(***************************************************************************)
Chain(t) == table[Bucket(t)]
Matches(t) == {p \in ToSet(Chain(t)) : strs[p.key].text = t}
Linked(h, p) == [table EXCEPT ![h] = <<p>> \o @]

(* Broken: takes the head of the chain out, whatever was asked for.        *)
UnlinkedHead(h, p) == [table EXCEPT ![h] = RemoveAt(@, 1)]

Unlinked(h, p) == [table EXCEPT ![h] = RemoveAt(@, Place(@, p.key))]

(* Contracts: the pair under the iterator is removed by the iterator only, *)
(* and the free function of a replace does not insert the same key, which  *)
(* is out of the table then, nor drops the chain the new pair goes to.     *)
MayRemove(p) == ~Ended(it) => it.pair.key # p.key
Replacing == {i \in DOMAIN frees : frees[i].op = "replace"}
Awaited(t) == \E i \in Replacing : strs[frees[i].pair.key].text = t

(* make_pair: the key of the table is a copy.                              *)
Pair(k, v) == [key |-> k, val |-> v]
WithKey(f, k, t) == [f EXCEPT ![k] = String(t, "pair")]

Insert(s, v, k) ==
  LET t == strs[s].text
  IN  /\ Reaches(s) /\ owner[v] = "client" /\ ~Live(k)
      /\ Matches(t) = {} /\ Len(Chain(t)) < MaxListSize
      /\ ~Awaited(t)
      /\ table' = Linked(Bucket(t), Pair(k, v))
      /\ strs' = WithKey(strs, k, t)
      /\ owner' = [owner EXCEPT ![v] = "table"]
      /\ UNCHANGED <<mine, it, frees>>

(* mcl_str_hash_insert_safe finds the key, either insert finds no room:    *)
(* the new pair is destroyed with its copy of the key.                     *)
InsertRefused(s) ==
  /\ Reaches(s)
  /\ Matches(strs[s].text) # {} \/ Len(Chain(strs[s].text)) >= MaxListSize
  /\ UNCHANGED vars

(* mcl_str_hash_insert finds the key.                                      *)
Replace(s, v, k, freeFn) ==
  LET t == strs[s].text
      h == Bucket(t)
  IN  /\ Reaches(s) /\ owner[v] = "client" /\ ~Live(k)
      /\ \E old \in Matches(t) :
           /\ MayRemove(old)
           /\ strs' = WithKey(Dropped(old.key), k, t)
           /\ IF freeFn
                THEN /\ table' = Unlinked(h, old)
                     /\ owner' = [owner EXCEPT ![old.val] = "freeing", ![v] = "inserting"]
                     /\ frees' = <<[op |-> "replace", val |-> old.val, pair |-> Pair(k, v)]>>
                                   \o frees
                ELSE /\ table' = [Unlinked(h, old) EXCEPT ![h] = <<Pair(k, v)>> \o @]
                     /\ owner' = [owner EXCEPT ![old.val] = "client", ![v] = "table"]
                     /\ UNCHANGED frees
      /\ UNCHANGED <<mine, it>>

(* What mcl_str_hash_delete and iter_erase do to the pair they take out.   *)
TakeOut(h, p, freeFn) ==
  /\ table' = Unlinked(h, p)
  /\ strs' = Dropped(p.key)
  /\ owner' = [owner EXCEPT ![p.val] = IF freeFn THEN "freeing" ELSE "client"]
  /\ frees' = IF freeFn THEN <<[op |-> "remove", val |-> p.val]>> \o frees ELSE frees

Delete(s, freeFn) ==
  /\ Reaches(s)
  /\ \E p \in Matches(strs[s].text) :
       MayRemove(p) /\ TakeOut(Bucket(strs[s].text), p, freeFn)
  /\ UNCHANGED <<mine, it>>

(* Broken: the list of do_hash_insert is not asked for room again.         *)
FreeReturnsUnasked ==
  LET call == Head(frees)
      h == Bucket(strs[call.pair.key].text)
      done == [owner EXCEPT ![call.val] = "client"]
  IN  /\ frees # <<>> /\ frees' = Tail(frees)
      /\ IF call.op = "remove"
           THEN owner' = done /\ UNCHANGED <<table, strs>>
           ELSE /\ table' = Linked(h, call.pair)
                /\ owner' = [done EXCEPT ![call.pair.val] = "table"]
                /\ UNCHANGED strs
      /\ UNCHANGED <<mine, it>>

(* A replace links its pair, or finds that there is no room any more.      *)
FreeReturns ==
  LET call == Head(frees)
      h == Bucket(strs[call.pair.key].text)
      done == [owner EXCEPT ![call.val] = "client"]
  IN  /\ frees # <<>> /\ frees' = Tail(frees)
      /\ \/ /\ call.op = "remove"
            /\ owner' = done /\ UNCHANGED <<table, strs>>
         \/ /\ call.op = "replace" /\ Len(table[h]) < MaxListSize
            /\ table' = Linked(h, call.pair)
            /\ owner' = [done EXCEPT ![call.pair.val] = "table"]
            /\ UNCHANGED strs
         \/ /\ call.op = "replace" /\ Len(table[h]) >= MaxListSize
            /\ strs' = Dropped(call.pair.key)
            /\ owner' = [done EXCEPT ![call.pair.val] = "client"]
            /\ UNCHANGED table
      /\ UNCHANGED <<mine, it>>

(* Broken: frees the keys of a chain with free, not with free_hash_key.    *)
KeysLeft == strs

KeysDropped == [s \in Str |-> IF s \in Keys(table) THEN Dropped(s)[s] ELSE strs[s]]

(* mcl_hash_clean and mcl_hash_destroy with the mcl_str_hash_new that has  *)
(* to follow: the pairs are still linked while the free function runs, so  *)
(* it makes no calls on the table.                                         *)
Clean ==
  /\ Ended(it) /\ Replacing = {}
  /\ table' = EmptyTable
  /\ strs' = KeysDropped
  /\ owner' = [v \in Val |-> IF owner[v] = "table" THEN "client" ELSE owner[v]]
  /\ UNCHANGED <<mine, it, frees>>

-----------------------------------------------------------------------------
First ==
  /\ Ended(it)
  /\ it' = IterHead(table)
  /\ UNCHANGED <<table, heap, owner, frees>>

Move ==
  /\ ~Ended(it)
  /\ it' = IterNext(table, it)
  /\ UNCHANGED <<table, heap, owner, frees>>

(* Broken: moves on after the free function, from the pair that is gone.   *)
EraseInPlace(freeFn) ==
  /\ ~Ended(it)
  /\ TakeOut(it.cursor, it.pair, freeFn)
  /\ UNCHANGED <<mine, it>>

(* Whether an erase function is registered is the matter of MclHash.       *)
Erase(freeFn) ==
  /\ ~Ended(it)
  /\ it' = IterNext(table, it)
  /\ TakeOut(it.cursor, it.pair, freeFn)
  /\ UNCHANGED mine

Strings ==
  \E s \in Str : (\E t \in Text : Alloc(s, t)) \/ Ref(s) \/ Free(s) \/ Trim(s)

Calls ==
  \/ \E s, k \in Str, v \in Val : Insert(s, v, k) \/ (\E f \in BOOLEAN : Replace(s, v, k, f))
  \/ \E s \in Str : InsertRefused(s) \/ (\E f \in BOOLEAN : Delete(s, f))
  \/ Clean
  \/ First \/ Move \/ \E f \in BOOLEAN : Erase(f)

Next == Strings \/ Calls \/ FreeReturns

Spec == Init /\ [][Next]_vars

-----------------------------------------------------------------------------
(***************************************************************************)
(* The reference count of a string (mcl_string_free, free_hash_key) is     *)
(* the number of those who will give one back: the client, a pair of the   *)
(* table, a replace in progress.  No key is freed under the client that    *)
(* keeps it beyond its pair, none is leaked, whatever is nested in what.   *)
(***************************************************************************)
PairsOf(s) == {p \in Entries(table) : p.key = s} \cup {frees[i].pair : i \in Replacing}
RefsExact ==
  \A s \in Str :
    strs[s].ref = mine[s] + Cardinality({p \in PairsOf(s) : p.key = s})

(* Lookups rely on it (do_hash_insert, hash_delete, hash_find): a string   *)
(* with the text of a key hashes to the chain of its pair, a text is there *)
(* once, also when a free function has changed the table in the middle of  *)
(* a replace, and no chain outgrows the limit.                             *)
WellFormed ==
  \A h \in Buckets :
    LET text(i) == strs[table[h][i].key].text
    IN  /\ \A i \in DOMAIN table[h] : Bucket(text(i)) = h
        /\ \A i, j \in DOMAIN table[h] : text(i) = text(j) => i = j
        /\ Len(table[h]) <= MaxListSize

(* A value is in the table, on its way into it, in its free function, or   *)
(* not the table's business, and there once: do_hash_insert, hash_delete,  *)
(* iter_erase and hash_insert after a late refusal agree on who frees it.  *)
Ownership ==
  /\ \A p \in Entries(table) : owner[p.val] = "table"
  /\ \A v \in Val : owner[v] = "table" => \E p \in Entries(table) : p.val = v
  /\ \A p, q \in Entries(table) : p.val = q.val => p = q
  /\ \A i \in DOMAIN frees : owner[frees[i].val] = "freeing"
  /\ \A i, j \in DOMAIN frees : frees[i].val = frees[j].val => i = j
  /\ \A i \in Replacing : owner[frees[i].pair.val] = "inserting"

(* The iterator stands on a linked pair, so mcl_hash_iter_key returns a    *)
(* live string, also in the free function of iter_erase.                   *)
IteratorLinked ==
  ~Ended(it) => /\ it.pair \in ToSet(table[it.cursor])
                /\ Live(it.pair.key)
=============================================================================
