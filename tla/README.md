# MCL in TLA+

A verification development for MCL, a small C library with a reactor event
loop (`src/net`) and the containers it is built on (`src/util`).  The modules
are translated from the source; line numbers are those of the `.c` and `.h`
files in this repository.  TLC checks the models on small instances; TLAPS
proves every property of the passing runs that is not a liveness property, the
refinements included, for every value of the constants; where a result needs
clients that keep a contract, the theorem assumes it.

## 1. The system

| Component | State | Operations | Talks to |
|---|---|---|---|
| hash table, `util/mcl_hash.c` | `_tables` (one list of key/value pairs per bucket, created on demand), the key kind, `erase_fn` | insert, insert_safe, delete, find, clean, destroy, ctrl; iterator head/next/info/erase | list (chains), client free functions |
| list, `util/mcl_list.c` | the head `_entries` of a ring of nodes, `_list_sz`, `erase_fn` | insert, insert_tail, delete, del_cmp, find, size, ctrl, destroy; iterator head/tail/next/prev/erase | client compare and free functions |
| event base, `net/mcl_event.c` | backend operations and data, `term_flag`, `tval` | evbase_new/destroy, event_set, add, del, loop, loopexit | one backend |
| select backend, `net/mcl_select.c` | three sets (in, out, exception), each an `fd_set` and a hash table from socket to event; `n_maxfdn` | init, add, del, dispatch, cleanup | hash table, `select(2)`, client callbacks and cleanup callbacks |
| kqueue backend, `net/mcl_kqueue.c` | two hash tables, the kernel queue, a batch of kevents | the same five | hash table, `kevent(2)`, client callbacks |
| raw sockets, `net/mcl_net_raw.c` | none of its own | listen, accept, connect with retries, send/recv loops | system calls |
| array, `util/mcl_array.c` | buffer, size, capacity | append, insert, delete, delete_range, tighten, iterator | client free functions |
| string, `util/mcl_string.c` | buffer, length, reference count | alloc, copy, ref, deref, free, trim, cmp | hash table (string keys) |
| log, `util/mcl_log.c` | level, file | log | stdio |

`net/mcl_epoll.c` is an empty file; `src/include` holds copies of headers;
`src/test` shows how clients use the library (`test/net_kq/server.c` adds and
deletes events, and closes sockets, inside callbacks).

The library has no threads.  What makes it hard is **reentrancy**: every
container calls client functions (free, cleanup, event callbacks) in the middle
of its operations, and they may call back into the same container.  A callback
of the event loop runs while `handle_events` iterates over a hash table, and
what it adds and deletes changes that table under the iterator; deleting an
event calls its cleanup callback, which may delete the next.  The second
difficulty is **the `fd_set`**, which is at once the input of `select`, its
answer and the loop's list of registered sockets.  The third is **ownership**:
which call frees a value or an event, and whether that happens exactly once.

What makes each component correct:

* hash table: a key is in one chain at most and once at most; a stored value
  is owned by the table and released once; a traversal survives changes, misses
  no entry that stays and ends;
* list: the ring is closed in both directions at every nesting depth of free
  functions; the count is right; no cursor stands on freed memory; together, it
  is a sequence;
* event base and select backend: tables, bits and `n_maxfdn` agree with the
  registered events; an event is freed once and not while a callback of it
  runs; one round serves every event `select` reported; the loop ends after
  `mcl_event_loopexit`;
* kqueue backend: kernel, tables and batch point to the same live events; a
  deletion with its two cleanup calls frees its event and no other;
* both backends promise their clients the same: an event is kept until it is
  deleted, called back only while it is kept, and freed once;
* raw sockets: every byte is sent once and in order; retries stay in budget;
* array: it is a sequence within its capacity, and each call does what it does
  on a sequence; string: it is freed with its last reference.

## 2. The modules

    HashTable        operators of a chained table and its iterator
      MclHash        one table, its client, ownership      -- implements HashMap
      MclStrHash     one table with string keys, the strings, nested free functions
      MclSelect      event base + select backend + client callbacks (three tables)
                                                           -- implements EventBase
      MclKqueue      event base + kqueue backend + client callbacks (two tables)
                                                           -- implements EventBase
    EventTypes       the bits of an event type, for both backends
    MclList          ring of nodes, searches, nested free functions
                                                           -- implements ListSeq
    MclArray         buffer, size, capacity, iterator      -- implements ArraySeq
    MclNetRaw        mcl_send on a stream
    SequenceFacts, HashTableTheorems                       -- lemmas
    MclHashProofs, MclStrHashProofs, MclSelectProofs, MclKqueueProofs,
    MclListProofs, MclArrayProofs                          -- proofs
    MCHash, MCStrHash, MCSelect, MCKqueue, MCList, MCArray, MCNetRaw
                                                           -- instances for TLC

**HashTable** is the table as a value: a function from buckets to sequences of
pairs, newest first.  `CalHash` is `cal_hash_int` with C's signed remainder:
for most negative keys it is negative, and `Available`
(`available_hash_value`) refuses them.  `WithPair`, `Without`, `Place` are what
`mcl_list_insert`, `mcl_list_delete` and `mcl_list_find` do to a chain;
`FirstFrom` and `IterNext` are the loops of `def_hash_iter_next`.  A bucket
whose list was never created and one with an empty list are both `<<>>`.
Nothing is `RECURSIVE`, so the module can be proved about.

**MclHash** has one action per call of `mcl_hash.h` plus `First`, `Move` and
`Erase` for the iterator.  `owner` says for each heap block whether the client
or the table must release it; `Malloc` lets a freed block come back.  `seen` and
`must` are history variables of the traversal.  Where the code has several steps
(a replace deletes the old pair, frees its value, then inserts), the action does
them all; the free function itself is passive here and active in MclStrHash.

**MclStrHash** is the table with string keys.  A key is a heap block with a text
and a reference count; `make_pair` gives each pair a copy of its own, which
`mcl_hash_iter_key` hands to the client, who may keep it with `mcl_string_ref`
beyond its pair.  `mine` counts the references of the client.  `frees` is the
stack of free functions in progress with what their calls have left to do: a
delete or erase has nothing left, a replace has taken the old pair out, holds the
new one and finds on return whether the chain has room still.  `ElfHash`
is the hash of `cal_hash_str`, a recursive function over the characters whose
exclusive or is arithmetic on half bytes, `Elf` the same for the texts of the
instance, `Trimmed` what `mcl_trim` leaves.  What is the same for both kinds of keys is left to MclHash: return
values (so `find` is not an action here), `mcl_hash_ctrl` (an erase has a free
function or not) and the completeness of a traversal.

**HashMap** is what a caller may rely on: a map and one traversal in no
particular order.  An insert may be refused only for a key the table cannot
store or when at least `Limit` keys are present; the traversal ends only when
`must` is empty.  `MclHash!ImplementsMap` is the refinement.  It says that each
step of the table is a step of some call on the map; `CallsAgree` says it is a
step of the same call with the same key.

**MclSelect** is `mcl_event.c` on `mcl_select.c`.  `ht` and `fds` are the tables
and `fd_set`s of the three sets; `pc`, `phase` and `it` are where
`select_dispatch` and `handle_events` are; `stack` holds the calls in progress
that have handed control to the client: `"call"` is an event callback, `"del"` a
cleanup callback under `mcl_event_del`, `"erase"` one under the erase of a
one-shot event.  Client calls are possible in `main` and whenever `stack` is not
empty, so callbacks nest as deep as there are events.  A call is one action up
to the point where client code runs, and a second action from its return
(`CallbackReturns`, `CleanupReturns`); in between anything may happen.
`select(2)` is `SelectReady`, `SelectTimeout` or `SelectError`, with an
arbitrary answer within what was asked and below `n_maxfdn + 1`.  `pending` and
`quiet` are history variables: what `select` reported and what it did not.

**MclList** models nodes and links: `next`, `prev`, `data`, `alive` are the heap,
`search` the walk of `list_del` or `mcl_list_find`, one node per step, `freeing`
the stack of nodes whose free function is running.  `order` is a history
variable, the nodes in ring order; `search.erased`, also history, is the node
`iter_erase` started from.  The client calls anything, from anywhere, free
functions included.  **ListSeq** is the sequence with a cursor that the list
implements; `asked` is the deletion or search in progress with its arguments, so
its answer is held against the whole sequence, and `open` counts the removals
whose free function runs, because the size still counts their nodes.

**EventBase** is what `mcl_event.h` promises of a base whatever its backend: an
event is the client's, held, or being deleted; the loop is off, in a round or
waiting; at most one event's callback runs, and it is one that is held, not one
in deletion; a deletion ends by giving the block back; the loop does not wait
after an exit.  It says nothing of sockets, tables, sets or batches.  Both
backends map to it in the same way: the state of the events, the event of the
`"call"` frame, and `pc`.

**MclKqueue** is `mcl_event.c` on `mcl_kqueue.c`.  `knotes` is what the kernel
watches, a pointer to an event per socket and filter; `ht` the two tables;
`batch` the kevents of the round still to be handled, again pointers.  `Table`
compares the whole type and `Filter` looks at one bit, as the code does, so a
persistent reader has the filter of a reader and is in the table of the writers.
`kq_del` is `Deleting` up to its cleanup callback (frame `"del"`, the event
unregistered from the kernel and still in its table), then `DelReturns`, which
unlinks whatever event the table holds for the socket and starts the second
cleanup callback, of `event_ht_free` (frame `"free"`), then `FreeReturns`.
An event that `kq_del` was called for and did not find in the table is `"lost"`:
nobody frees it.  `kevent(2)` reports any of the knotes, each once, in any order.

**MclArray** keeps `cells`, `size` and `total` as the code does; `Junk` is what
`realloc` leaves in new cells.  The loops that shift are one function each, and
`Put` is the shift that `append`, `preappend`, `insert` and `preinsert` share.
`released` is a history variable, what the call gave to its free function.
**ArraySeq** is what `mcl_array.h` says: an insert is after or before an element,
`delete_range` deletes `[bindex, eindex)` for any `0 <= bindex <= eindex <= size`,
and a call is refused only for a position, a pointer or a range that the array
does not have.  What the header leaves open is taken from the code: the values
returned, that inserting before index 0 of an empty array adds an element, and
the iterator, which remembers an index and a pointer.  The code departs from the
header in two places (section 5); the contracts `Occupied` and `Inner`, members
of the constant `Contracts`, keep clients away from them.

**MclNetRaw** is `mcl_send` with a client that sends a head and a content, as
`test/net_kq/client.c` does; `stream` is what the kernel took.

Operators commented "Broken:" are plausible bugs (an erase that leaves the
iterator in place, a cleanup called before the unlinking, a bit left on, a
chain skipped).  No specification uses them; each property is known to fail
when one of them replaces the definition next to it.

## 3. What clients must not do

The properties hold under these contracts.  The library states none of them;
each is where the code would otherwise read or write memory that is not its own,
or do something else than what was asked of it.

* `MayRemove` (both hash modules) and the guard of `Delete` (MclList): the entry under an
  iterator is removed through that iterator only.  For the list this includes
  entries that compare equal.
* `UnderIterator` (MclSelect): no callback deletes the event `handle_events`
  stands on.  In an event callback that is the event being called back
  (`mcl_select.c:291` reads it afterwards); in the cleanup of a one-shot event
  it is the event the iterator has just moved to.
* `mcl_hash_clean`, `mcl_hash_destroy` and `mcl_list_destroy` are not called
  during a traversal; cleanup and free functions make no calls on a container
  that is being destroyed.
* `Awaited` (MclStrHash): the free function of a replace does not insert the key
  that is being replaced, or the table holds it twice afterwards; the chain the
  new pair goes to is not dropped (`Clean`).  A client does not trim a key it got
  from the iterator.  Keys have no NUL inside (`StrAssumption`).
* An event that is registered is not registered again, and is set again only
  after its cleanup callback has returned.
* `Vacant` (MclKqueue): one event per socket and filter, and one per socket and
  table.  A persistent reader and a writer of the same socket share a table, so
  they are excluded although their filters differ.  `test/net_kq/server.c`
  breaks this contract: line 74 closes the socket in the callback, the deletion
  of its event is commented out (line 78), and the event stays in its table.  The
  next socket that `accept` returns with the same number is then added while the
  table still has an event for it, and the table refuses the new one, which
  `kq_add` does not notice.  Nothing is proved of such a server.
* `Unbatched` (MclKqueue): a callback deletes no event that the batch still
  points to; and `EventDel` is not called for the event whose callback runs,
  nor with another type than the event was added with.
* MclArray: no deletion from an empty array and no `tighten` of one (the
  unsigned `size - 1` wraps; a capacity of 0 never grows), no `iter_erase` before
  `mcl_array_ctrl` has set `erase_fn`, which `mcl_array_new` leaves as `malloc`
  found it; free functions make no calls on the array.
* `Occupied` (MclArray): no `mcl_array_insert` into an empty array.  `Inner`
  (MclArray): no `mcl_array_delete_range` of an empty range, and none whose end
  index is the size.  Section 5 says what happens otherwise.
* No event callback or cleanup callback calls `mcl_event_loop` or
  `mcl_evbase_destroy` of the base that called it: a second loop would iterate in
  the tables of the first, rewrite its `fd_set`s or delete events its batch still
  points to, and a destroyed base is read when the callback returns.  In the models both calls are
  made from `main`.
* No socket at or above `FD_SETSIZE` is given to the select backend, which calls
  `FD_SET` without a test (`mcl_select.c:166`, `:318`) and would write behind the
  set.
* A NULL callback behaves as one that returns at once.

## 4. The runs

| Run | Instance | Distinct states | Shows |
|---|---|---|---|
| `hash` | 2 buckets, keys -2..2, 3 values, chains of 2 | 19 824 | ownership, well-formedness, the iterator, the end of traversals, refinement of HashMap |
| `list` | 3 nodes, 2 data pointers and NULL, limit 3 | 238 644 | ring, count, cursors, refinement of ListSeq |
| `str_hash` | 2 buckets, 4 texts, 4 strings counted to 2, 4 values, chains of 2 | 186 017 | reference counts, keys, ownership and the iterator under nested free functions |
| `select` | 2 buckets, sockets -1..2, 3 events, two types | 144 489 | safety of the loop, refinement of EventBase, the loop returns after `mcl_event_loopexit` |
| `kqueue` | 1 bucket per table, sockets -1..1, 3 events, three types, batches of 3 | 163 867 | tables, knotes, batch and events agree; refinement of EventBase; the loop returns |
| `array` | 2 pointers and NULL, up to 3 elements, buffers of 2, 4 and 6 cells, both contracts | 14 514 | the buffer is sound; refinement of ArraySeq, call by call, refusals included |
| `list_erase`, `select_del`, `select_spurious`, `select_tval` | as above | | the counterexamples of section 5 |
| `kqueue_kept` | as `kqueue`, 2 events, no contract | | counterexample, section 5 |
| `send` | two buffers of two bytes, sizes mod 16, 8 bytes in the stream | | counterexample, section 5 |

Why these bounds suffice for the interesting cases.  In `hash`, key -1 hashes to
no bucket, keys -2, 0 and 2 compete for a chain of two: refused keys, full
chains, replacing in a full chain, and successors in the chain and across chains
all occur.  In `select`, sockets 0 and 2 are chained and 1 is alone, so the
iterator crosses chains and stays in one; socket -1 is the failed `socket()`;
three events let a callback run with a cleanup inside it and another inside
that; a one-shot read type and a persistent write type reach both sets that can
be filled and both ends of a callback.  In `str_hash`, three texts compete for
a chain of two and a fourth moves from one bucket to the other when it is
trimmed, seven letters carry the hash over its 28 bits, and four values are the
fewest with which a replace (one out, one waiting) finds its chain filled again
by its own free function and fails.  In `list`, three nodes let a deletion nest in a deletion
with a node left to stand on, and two pointers in three nodes make duplicates
unavoidable; all pairs of data are alike, so a deletion by comparison differs
from one by pointer.  In `kqueue`, the two sockets share a bucket of each table,
three events allow a callback, a cleanup in it and a third event in the batch or
in a nested cleanup, and a block is freed and added again within one round.  In
`array`, the third element does not fit the first buffer, so growth, shifts in a
full buffer, tightening below and above twice the size and stale cells past the
end all occur; 3 elements are the fewest for a range with cells before and
behind it.

Symmetry is over what is interchangeable (`Node`, `Str`, `Val`, the pointers of
an array), in runs without liveness only.  `MCHash`, `MCSelect` and `MCKqueue`
use none.

**Fairness.**  `MclHash`: `WF(Move \/ Erase)`, a client that has started a
traversal goes on with it, however often it inserts in between; calls and
`First` have none.  `MclSelect`: `WF(LoopSteps)`, the loop is sequential code
that runs when no callback does; and for each stack depth `SF(Returns at that
depth)`, a callback returns in the end although calls nested in it disable its
return for a while.  That a callback terminates is the only thing asked of the
client.  `MclKqueue` has the same.  `select` and `kevent` have no fairness: they may block for ever, and `main`
need not call anything.

The properties, by the hazard they are for:

* `Ownership`, `WellFormed`, `ImplementsMap`: any series of calls, each with its
  own releases, frees no value twice, loses none, leaves no freed one reachable.
* `RefsExact`, with `WellFormed`, `Ownership` and `IteratorLinked` of MclStrHash:
  keys and values of a table whose calls nest, strings kept beyond their pair.
* `IteratorLinked` (all modules), `TraversalEnds`: the iterator amid changes.
* `TablesHoldEvents`, `FramesSound`: nested deletions through cleanup callbacks.
* `BitsBacked`, `MaxFdCovers`: tables against `fd_set` and `nfds`.
* `RoundServesAll`, `QuietNotDispatched`: a round calls back what `select`
  reported (`EndSet` happens only when nothing of the set is pending) and
  nothing that was registered and not reported.
* `ExitNeverWaits`, `ExitEndsLoop`: `mcl_event_loopexit`.
* `ImplementsBase` (both backends): the same promise to clients from two
  different bookkeepings.
* `KnotesBacked`, `BatchLive`: the kernel's pointers and the batch's.
* `CellsSound`, `ImplementsSeq`, `CallsAgree` of MclArray: index arithmetic; an
  insert that is a correct preinsert satisfies the refinement and not
  `CallsAgree`, and neither does a call that is refused for a position or range
  the array has.  MclHash has its own `CallsAgree` for the same reason.
* `RingSound`, `BlocksCounted`, `CursorsLinked`, `ImplementsSeq`: the list under
  nested free functions.

## 5. Where the code does something else

Six runs have a counterexample, each against a statement of the repository.

* `DelHonoured`: `del_event` (`mcl_select.c:184`) takes a socket whose bit is off
  for not registered.  During a round and after the loop the bits are what
  `select` reported, so deleting a quiet, registered socket from another event's
  callback does nothing (`mcl_event.h:106`).
* `DispatchOnlyReported`: `add_event` sets the bit of a new socket in `select`'s
  answer, so an event added in a callback may be called back in the same round
  though nothing happened on it (`mcl_event.h:37`).
* `WaitsTval`: Linux's `select` updates the timeout it is given, and the loop
  gives it the same one again (`mcl_event.h:71`): after one timeout it spins.
* `CalledIsKept`: `kq_add` returns 1 although the table refused the event
  (`mcl_event.h:103` says the event "will be kept"), and a deletion frees the
  event the table holds for the socket.  With a persistent reader and a writer
  on one socket, deleting one frees the other, and the loop calls it back.  The
  contract `Vacant` excludes this.  With `Contracts = {"Vacant"}` the same
  property fails for the other reason, a callback that deletes an event of the
  batch: `Unbatched` is needed as well.
* `SentOnce`: after a partial `send`, `mcl_send` sends the buffer from its start
  again (`mcl_net_raw.c:140`) and reports success (`mcl_net_raw.h:50`).
* `ErasesItsNode`: `iter_erase` of the list deletes the first node with the data
  of the node it stands on (`mcl_list.c:192`), another node if a pointer was
  stored twice.

No event ever gets into the exception set of the select backend, although the
comment at `mcl_select.c:229` says that all do: `MCL_EV_EXP` is `READ|WRITE`, so
the test before the comment is false for each type that has a set.  Adding the
event there as well would put one event into two tables that both free it in
`select_cleanup`.

The array departs from its header twice.  The contracts of section 3 exclude
both, so the run `array` and the theorems say nothing of them; each has a short
counterexample when its contract is dropped from `Contracts` in `MCArray.cfg`.

* `mcl_array.h:41` says that `mcl_array_insert` puts data "after the specific
  position".  `check_out_of_bounds` (`mcl_array.c:34`) takes index 0 of an empty
  array for a position, so insert writes to cell 1, returns 1 and counts one
  element (`mcl_array.c:297-303`).  The array is then one NULL that nobody
  inserted, and the pointer handed over is out of reach, though the call reports
  success.  Without `Occupied`, `ImplementsSeq` fails at `Insert(d, 0)` in the
  initial state.
* `mcl_array.h:53` gives the range of `mcl_array_delete_range` as
  `[bindex, eindex)`.  For `bindex = eindex` the code deletes the element at
  `bindex` and returns 1 (`mcl_array.c:400-402`), where the range is empty.
  Without `Inner`, `CallsAgree` fails at `DeleteRange(0, 0)` of an array with one
  element.  And `eindex = size`, the only way to name a range that includes the
  last element, is out of bounds and refused with -1 (`mcl_array.c:392`): with
  `Inner` excluding empty ranges only, `CallsAgree` fails by `RefusalsAgree`.

Where documents are silent the abstract specification records the code:
ListSeq says that `mcl_list_find` gives up at an entry with a NULL pointer
(`Stops` and `Found`), so `ImplementsSeq` of MclList holds with it.

## 6. What is proved

Each component has its proofs in a module of its own, from the named assumptions
on its constants (`HashAssumption`, `ClientAssumption`, `LoopAssumption`, ...),
which TLC evaluates in the runs.  Every theorem is `Spec => ...`; those of the
kqueue backend and the last two of the array have a hypothesis besides, `Careful`,
that its clients keep the contracts.

| Module | Theorems |
|---|---|
| `MclHashProofs` | `TypeCorrect`, `TableWellFormed`, `ValuesOwned`, `IteratorSafe`, `TableImplementsMap`, `EachCallAgrees` |
| `MclStrHashProofs` | `StrTypeCorrect`, `TableWellFormed`, `RefsAreExact`, `ValuesOwned`, `StrIteratorSafe` |
| `MclSelectProofs` | `LoopTypeCorrect`, `EventsInTables`, `EventsFreedOnce`, `RoundIteratorSafe`, `BitsAreBacked`, `SelectSeesAll`, `ExitIsHeard`, `QuietIsLeftAlone`, `EverySetIsServed`, `SelectIsEventBase` |
| `MclKqueueProofs` | `TypeCorrect`, `EventsInTables`, `KernelSeesLive`, `EventsFreedOnce`, `BatchIsLive`, `KqueueIsEventBase` |
| `MclListProofs` | `TypeCorrect`, `RingIsSound`, `BlocksAreCounted`, `CursorsAreLinked`, `ListImplementsSeq` |
| `MclArrayProofs` | `TypeCorrect`, `CellsAreSound`, `ArrayImplementsSeq`, `EachCallAgrees` |

Proofs have one step per action and under it one per part of the invariant that
the action can disturb.  TLC had found each strengthening true on the instance of
the component's run before it was proved.

**The lemmas.**  `SequenceFacts` has what inserting into a sequence and removing
from it does to its places and its set of elements, and an induction over sets of
naturals.  `HashTableTheorems` states for every table what the operators of
HashTable do: `WithPair` and `Without` keep well-formedness and add or remove
exactly one pair, `IterNext` stays linked and moves on.  Its last part is about
`Ahead(t, j)`, the keys a traversal at `j` still has before it: `Ahead` of where
`IterNext` moves to is what was ahead less the key it moves to, a new pair joins
it only in a later chain, and what is removed leaves it.  The modules of the hash
tables and of both event loops use its lemmas by name.

**Hash table.**  The first four theorems are one inductive invariant.  They need each
other: a deletion releases the value of *the* pair with the key, which is one
pair by `WellFormed`; the value it leaves owned by the client is in no other
pair by `Ownership`; an erase unlinks the pair under the iterator, which is in
the table by `IteratorLinked`.  That the table implements the map needs `Trav`
besides: the keys a traversal owes a visit are ahead of the iterator, those it
has stood on are not and cannot come back, because their chain is the
iterator's or an earlier one and a new pair goes to the head of its chain.
When the iterator ends nothing is ahead, so nothing is owed.  `Silent` says that
a table with no possible key has answered nothing; without it a call could not
name a key of the map.  A refused insert finds its chain full, and distinct
keys make a full chain `Limit` keys of the map (`FullChain`).

**String keys.**  The invariant counts references by strings and not by pairs:
a live string in the table or in a pair waiting in a replace has the client's
references and one more.  Texts differ in the table *and* among the pairs that
wait (`TextsDiffer`), which is what `Awaited` is for; a value has one place only
(`ValuesKept`, `FramesKept`, `Apart`).  `ElfHash` is shown to be a natural number
for every text, by induction over its length, so every text has a bucket.

**The select loop.**  None of its invariants is inductive alone.  `Inv` adds three
facts:

* `TablesSound`: each of the three tables is well-formed;
* `StackPlaced`: no callback is in progress before or inside `select`, and a
  cleanup under an erase exists only while `handle_events` runs;
* `QuietKept`: a socket that was registered and not reported when `select` ran
  stays registered with its bit off to the end of the round (`del_event` does
  not see it, `add_event` refuses it), so it is never the one called back.

The central argument is that an event in deletion is out of its table, so no
other deletion finds it, and that the event of a `"call"` frame is under the
iterator, which `UnderIterator` protects: hence each event has one frame at most
and the accesses after a callback are to live memory.  `EverySetIsServed` rests
on two more: `PendingAhead`, what is still to be called back in a set is
registered there with its bit on, and in the set being handled it is under the
iterator or ahead of it; and `Served`, no callback or erase in progress is of a
socket still to be called back, so no return clears a pending bit.
`ExitNeverWaits` needs none of this and has its own short proof.

**The kqueue loop.**  Its theorems are `Careful => (Spec => ...)`: the clients
keep both contracts of section 3, without which `CalledIsKept` has the
counterexample of section 5, and there are no more sockets than a chain holds.
The latter is no contract: a chain holds `MCL_LIST_MAX_SIZE` (1024 * 1024) events,
and a process is given no more descriptors than that.  With more, a chain could
refuse an event whose addition `kq_add` reports as done (section 5).  `Careful`
names these conditions, and they hold in the run.  `Inv` states what the tables,
the stack and the batch hold by membership and not by place: a table lists an event exactly if it is
held, or in its first cleanup, and routed there (`TablesAgree`); the stack has
one frame per event, the callback of `handle_events` outermost (`Apart`,
`CallsLast`); no event is lost (`NoneLost`), which is where the contracts enter.

**The list.**  Ring, count and cursors are one invariant, with two facts about
searches in progress: `Scan`, all nodes before the one a walk stands on failed its
test, and `Erasing`, the iterator of an erase has already moved past its node.
The refinement needs both: a deletion that ends without a hit has seen the whole
sequence, nested removals included.

**The array.**  `CellsSound` needs `Roomy`, a capacity of two at least: below it
doubling could leave no room for the new element.  The refinement then shows shift
by shift that the buffer is the sequence; `NonNull`, the pointers a call gives to
its free function, is a recursive function that is shown to exist and to return
a sequence of pointers.  `ArrayImplementsSeq` and `EachCallAgrees` assume
`Careful`, both contracts; where they are needed is one case each, an insert with
no element (`Insert`) and the ends of a range (`DeleteRange`,
`DeleteRangeRefused`), and without either the theorem is false (section 5).
`TypeCorrect` and `CellsAreSound` hold for every client.

**The event base.**  Both backends are shown to implement `EventBase` by the same
mapping, from their invariants.

Only model-checked: the liveness properties `TraversalEnds` and `ExitEndsLoop`,
which rest on fairness, hence on `ENABLED`, and are beyond the prover; and the
runs of section 5, which have counterexamples.  What the recursive
functions compute is not compared with a second definition: `ElfHash` is proved
a natural number, `NonNull` a sequence of pointers, no more.

## 7. What is not modelled

* String keys with a NUL inside or bytes above 127: they are hashed by length and
  compared by `strcmp`, so "a" and "a\0b" are one key or two, by their buckets.
* Calls on a table from the free function of its own `mcl_hash_clean`.
* `mcl_connect`: what a second `connect` on a socket returns while the first is
  in progress depends on the platform.  The other functions of `mcl_net_raw.c`
  wrap one system call each.
* The type that the kqueue backend hands to a callback (`filter & EVFILT_READ` is
  true for every filter, `mcl_kqueue.c:182`) and the queue descriptor, which
  `kq_cleanup` does not close.
* The log (formatting and output), the empty epoll backend, copied headers.
* Failure of `malloc`, which the code does not test for, and `mcl_event_new`,
  which has no return statement (`mcl_event.c:96`).
* The value `mcl_event_add` returns: it is the socket number, so adding socket
  0 succeeds and reports 0.
* Misuse excluded in section 3, a loop or a destruction inside a callback and
  sockets at or above `FD_SETSIZE` among it.

## 8. Plan

1. Done: HashTable, MclHash, HashMap; MclStrHash; MclSelect; MclList, ListSeq;
   EventBase and both backends; MclArray, ArraySeq; MclNetRaw.
2. Done: proofs of the invariants, action properties and refinements of the hash
   tables, the list, the array and both event loops.
3. Left: for `mcl_send`, that a transfer in which `send` takes each buffer whole
   sends every byte once, which needs a model of its own to be worth a theorem;
   the kqueue backend for sockets that share a table, once the code says which
   of two events a deletion is for; strings with a NUL inside.
