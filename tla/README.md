# Verification of mnemonist-rs

mnemonist-rs is a port of the JavaScript library *mnemonist* to Rust: some forty
data structures that must behave, bug for bug, as the original does. This
directory holds TLA+ models of its core, the TLC configurations that check them
on small instances, and TLAPS proofs of what holds for every instance.

The contract makes the code unusual to verify. What a structure promises is
what upstream does, mistakes included; the documents (`docs/BUGS.md`,
`docs/modules/*.md`) say which mistakes were kept on purpose. So each model is
written from the Rust code, and its properties say what still holds *around*
the mistakes: what the structure refines, under which calls, and what is left
when those calls are interrupted, re-entered or made in an order nobody tested.

## The system

Four crates:

* `mnemonist-core`: the product. No dependencies, no unsafe code, no threads.
* `mnemonist-napi`: the bridge to Node. Each class holds a core structure in a
  `RefCell`, translates keys and values, and dispatches callbacks. The deletions
  of the two LRU variants that have them live here.
* `difffuzz` and `fuzz`: run random programs against the port and upstream.
* `bench`: measurements.

There is no concurrency between threads. What interleaves is *the caller with
itself*: an iterator or a `forEach` is open while other calls are made on the
structure it walks; a comparator or a factory runs in the middle of a call and
may throw or call the same structure again. Rust borrows are released before
each of those points, and state read before them is used after them.

### Components, their state, and what makes them correct

| component | state | operations | correct when | here |
|---|---|---|---|---|
| LRU caches (`lru_cache.rs`, `lru_cache_with_delete.rs`) | recency list in two pointer arrays, index, stack of freed slots, size | set, setpop, get, peek, has, delete, remove, clear; walks | the index, the freed slots and the untouched slots partition the pointers; without deletes, exactly an LRU cache | `LruCache`, `LruProofs` |
| Ordered map (`map/mod.rs`) | vector of slots with tombstones, index, next id; cursors with a hint | set, delete, clear, cursor step | ECMAScript `Map`, iterators included | `OrderedMap`, `OrderedMapProofs` |
| Fibonacci heap (`fibonacci_heap.rs`) | arena of nodes in circular lists, minimum, size | push, pop, peek, clear, with a caller's comparator | a priority queue; its rings survive what the comparator does | `FibonacciHeap`, `FibonacciHeapProofs` |
| Binary heap (`heap.rs`) | an array held by reference, size | push, pop, replace, pushpop, consume, clear, from; comparator | the same | `Heap`, `HeapProofs` |
| Linear structures (`fixed_deque.rs`, `circular_buffer.rs`, `queue.rs`, `stack.rs`, `fixed_stack.rs`, `linked_list.rs`) | array or arena, positions, size; detached cursors | push, unshift, pop, shift, clear, reads, cursor step | a list with two ends; walks lose and repeat nothing | `Ring`, `Queue`, `Stack`, `LinkedList`, `SequencesProofs` |
| Vector, HashedArrayTree | storage, length, capacity, growth policy | set, get, push, pop, grow, reallocate, resize | contents survive growth; length within capacity | `Vector`, `HashedArrayTree`, `SequencesProofs` |
| Sparse sets, queue set, sparse map | dense and sparse arrays that point at each other | add, delete, enqueue, dequeue, set; cursors | the arrays are inverse on the members | `SparseSet`, `SparseQueueSet`, `IntegerSetsProofs` |
| Disjoint sets | parents, ranks in a byte | union, find, connected, compile, mapping | a partition, whatever the ranks wrap to | `DisjointSet`, `IntegerSetsProofs` |
| Bit set, bit vector | words, cached size, length | set, reset, flip, rank, select, push, pop, resize; cursors | rank and select inverse; size the number of bits, while it is | `BitSet`, `IntegerSetsProofs` |
| Bi-map, default maps, multisets, multimaps, inverted index | ordered maps and counts cached beside them | set, delete, edit, get with a factory | the two directions inverse; counts equal what they count | `BiMap`, `DefaultMap`, `MultiSet`, `MultiMap`, `InvertedIndex`, `OrderedMapProofs` |
| Multi-array | items of all containers in one array, chained by pointers | set, push, clear, reads | each container has its items in order | `MultiArray`, `OrderedMapProofs` |
| Tries, critbit trees | nodes and pointers; a fixed array of inner nodes | set, update, delete, find, walks | an ordered map of strings | `TrieMap`, `CritBit` |
| Searches, merges, set operations | none: sorted arrays and sets are given | bounds, intersections, unions, merges; set algebra in place | what a scan finds | `SortedArrays` |
| Fixed reverse heap; nsmallest, nlargest; sorts | an array and a count | push, consume, clear; select | the least items, in order | `Selection` |
| BK, VP, k-d and interval trees | built once, then read (the BK tree grows) | build, add, query | the answer of a scan | `SearchTrees` |
| Suffix arrays, symspell, passjoin | indexes from pieces of words to words | build, add, clear, search | the answer of a scan | `StringIndexes` |
| Linear probing, Bloom filter, bits | table of slots, bits | set, get, add, test | found when there is room; no false negatives | `Hashing` |
| Node bridge, fuzzers, benchmarks | | | | out of scope |

How they interact: the ordered map is under every map-backed structure; the
detached cursor (`cursor/mod.rs`) is the iterator of every array-backed one;
`CircularBuffer` is a `FixedDeque` with other rules; the heaps share the
comparator trait; pointer arrays choose their width from a capacity and serve
the caches, the sparse sets and the disjoint sets.

## The modules

The numbers of lines in `PROJECT.json` ("map") lead from every definition to the
code it stands for. In every model an action is one call, or the stretch of a
call between two points where foreign code may run.

### LRU caches

`LruSpec` is the promise: keys in order of recency, and their values.
`LruCache` is the engine: `forward`, `backward`, `head`, `tail` (the list),
`keys`, `values` (the slots), `index`, `size`, and `holes`, `holes_len` (slots
freed by delete). `InsertNew` takes a slot from below `size`, from the freed
ones, or the tail's, exactly as `insert_new` decides. Keys have two images:
`IndexOf`, what the index is keyed by (a property string, or the key itself),
and `Coerce`, what a typed Keys array stores; they differ when the array class
is narrow. `walk` holds open iterators with a pointer and a countdown of their
own. `LruLockstep` runs the engine and the promise side by side.

* `lru_base` (no delete): the engine's list, followed from its head, is an
  LRU order; every answer is that of the promise; walks over a cache nothing
  was called on report it in order.
* `lru_delete`: what survives deletes: `IndexConsistent`,
  `PointersPartitioned`, `SizeIsLiveCount`, `WalksNeverPanic` (the lookups an
  open walk makes, whatever was deleted or cleared under it).
* `lru_eviction` (counterexample): after a delete the list still threads the
  freed slots, and a full cache evicts a key that is not the least recent.
* `lru_narrow` (counterexample): with a Keys array that narrows, the evicted
  entry is removed under another index key, and the size leaves the capacity.

Bounds: three slots, four keys (one more than fits), two values where values
matter, one walk. Three slots are the least at which the list has a first, a
middle and a last element, all of which `splay_on_top` treats differently, and
at which a freed slot and a live one can be told from a third. Keys are
symmetric.

### Ordered map

`MapSpec` is the specification's `Map`: a list that only grows, whose deleted
entries become empty, and iterators that are positions in it. `OrderedMap` is
the code: a vector with tombstones that is compacted when mostly dead. The
refinement mapping reads the list off the ids (`data`), although the slots that
held most of it are gone. Run `ordered_map`, without symmetry because it checks
`WalksEnd` as well, the one promise about what must come: a walk over a map that
grows while it is walked ends once the map stops growing. Seven insertions allow several
compactions with the cursor before, among and after what moves; the floor under
which nothing is compacted is two slots instead of eight, so that it matters.
`HintsSound` is the delicate one: a cursor's hint that merely looks right *is*
right.

### Heaps

`PriorityQueue` is the promise of both. In `FibonacciHeap` and in `Heap` an
operation is a *frame*, suspended at each comparison; `frames` is the call
stack. At a comparison the comparator answers (the `Answer...` actions),
throws (`Throw`, the `?` of the code), or starts another operation of the same
heap (`MayCall`). Frame fields are the locals of the Rust functions: what the
code keeps across a comparison is in the frame, what it reads again is not.
`Heap` also models the identity of the array: `clear` gives the heap another
one and the frames keep the one they were handed.

* `fib_heap`: rings, heap order and degrees between any two comparisons, also
  with pushes made inside a pop (`Shape`); the count (`SizeCounts`); the scan
  that stops at the size finds the least root (`PeekIsLeast`); and, for a
  comparator that only answers, `ImplementsPriorityQueue`. One push may be cut
  short by a throw and these hold still. After two the size is so far behind
  that the scan can stop short of a root; `min` then stays on a node that has
  become a child, and items are lost.
* `fib_throw` (counterexample): one throw inside a pop can make a later pop
  walk for ever.
* `heap`: order once no operation is under way, whatever is cleared meanwhile;
  how far the size is from the array after throws, pushes and clears;
  `ImplementsPriorityQueue`.

`fib_heap` checks liveness too: `CallsReturn`, that a call ends although the
comparator calls the heap in its midst.

`Selection` is what keeps the least or greatest items of many:
`FixedReverseHeap`, whose array and count are its state, and as operators
`nsmallest` and `nlargest` with their special case for one item, the merge sort
they finish with, and the quick and insertion sorts of `sort/`, of items and of
indices. It is the kind `FixedReverseHeap` of run `maps`, where `SelectionExact`
compares each with a definition by rank; with a negative `n`, what is before the
end of the slice is offered twice, and the definition counts it twice. Values have
ties (two share a rank) and include the infinities the special case starts from.

Bounds: five nodes or items (three levels, a node with one child; Fibonacci
trees of degree two and three consolidations), ties, one nested call, one throw;
up to three items kept of five.
The comparators that pop from or clear a Fibonacci heap can be expressed and are
not run: the damage they do is upstream's and documented.

### Linear structures

`ListSpec` is the promise of all eight: a list, the answer of each call, and
what a full list does. `CursorState` is the cursor protocol as operators. `Ring`
is `FixedDeque` and `CircularBuffer`, which share their storage; `Stack` is
`Stack` and `FixedStack`; `Queue`, `LinkedList`, `Vector` and `HashedArrayTree`
stand alone. `MCSequences` puts them under one roof: `kind` says which structure
a behaviour is about. Items are numbered as they arrive, which makes them
distinct and lets walks be judged.

Arrays held by reference (`Rc` in the code) are modelled by what can be told
apart: a walk either still shares the structure's array or holds the one it was
left with (`LeftBehind`).

* `sequences`: layouts, agreement of the ways to read, walks (complete when
  undisturbed; never an item twice; consecutive arrivals for a queue), and
  `ImplementsList`. A pop of a `HashedArrayTree` answers from its last block,
  wherever the element is (kept from upstream on purpose); `CallMeant` is the
  call with the answer it should have, so that the refinement still says which
  element goes and that nothing else changes, and demands the exact answer
  whenever the last block is the right one.
* `vector_gap` (counterexample): the iterator of a vector does meet gaps, when
  the vector is reallocated to less under it.

Bounds: three slots and five arrivals, so that the ring wraps, overwrites and is
emptied in the middle, and the queue compacts with a walk open on either array.
A vector grows from nothing to one, two and three slots; the tree has two blocks
of two slots, the least at which an element is not in the last block. Both start
with up to two zeros, and two values are written to them, at any position.
`from_array_like` takes more values than the capacity (up to two more here, both
in arrays that grow and in those that drop what does not fit) and sets the size
past it. The full test is an equality and never holds again until enough is
taken out, so `Overfilled` rings and stacks are initial states of their own. What
is promised of them is less, and `PastPromise` names the calls it does not reach:
a push or unshift, which lands on another item, and pops whose position is past
two capacities, which one subtraction does not bring back into the ring. A walk
over an overfilled ring goes round and reports items twice. All else is held to
the list. Of growth policies there are the default one and one that is refused.

### Sets of small integers

`MCIntegerSets`, run `integer_sets`. No call of these structures checks its
argument, as upstream does not, so their promise depends on the caller.
`MembersFound` is what the two stale reads of a sparse structure are worth;
`QueriesExact` is about ranks, selects and roots.

* `SparseSet` is `SparseSet` and (`HoldsValues`) `SparseMap`; `SparseQueueSet`
  has a start besides. A member past the end (there is one in the models of the
  map and the queue) is stored in the dense array, cut to the width of the
  array, and nowhere else. `spoilt` records that this has happened since the
  last clear. `SetSpec` promises a set in order while not `spoilt`, and promises
  it again after a clear: `ImplementsSet` shows that what was left in the two
  arrays never matters then. A queue is also checked with exactly as many slots
  as its pointers have values (256 or 65536 in the code, two here), where the
  wrap of a pointer and that of the ring coincide, and with none.
* Walks capture the size and read the slots. `since` is the history a walk is
  judged by: the members that were there all the time and have not been reported
  (`missing`), and whether a member was added after a deletion (`refilled`),
  which is the one way to lose a member of a set.
* A `SparseMap` moves the last key into the hole a deletion leaves, and not its
  value (upstream's). `moved` holds the keys this has happened to; the values of
  all others are found.
* `DisjointSet` against `PartitionSpec`: classes merge, are counted and numbered
  as those of a partition, with ranks that wrap (`RankWidth`: two here, 256 in
  the code) and paths compressed by every climb.
* `BitSet` is `BitSet` and (`Grows`) `BitVector`. The cached size follows a
  comparison of words that are signed in one place and not in another; `drift`
  is a ledger of what each kind of call puts between the size and the bits, and
  `SizeAccounted` says that nothing else does. Walks: `WalksHonest`.

Bounds: three members (two and one past the end where that is modelled), four
items (two trees of rank one can be merged), words of two bits of which one is
the sign, four bits in a vector, one unit of drift (for a vector, upwards).

The refinements are written `[][IsSparse => Set!Next]_setVars`: the promise of
one kind of structure says nothing of the behaviours of the others.

### Structures over the ordered map

`MCMaps`, run `maps`. `Entries` is the ordered map as these structures see it:
live entries in order of insertion, and iterators that stand between two of them
and come to everything that stays. Run `ordered_map` shows the real one to do
that, so slots and tombstones need not be carried along here.

* `BiMap`: two maps edited one after the other. `BijectionSpec` is one relation,
  one to one, with the order of each side (who comes before whom: those who stay
  keep it, and whoever is new comes last) and the sizes; a `clear` through one
  side leaves the other's size, which the specification says as well. `Converse`
  and `SizesExact` say what holds of the maps and the two counters at any time.
* `DefaultMap`: `get` runs the caller's factory between the lookup and the
  insertion, with nothing borrowed. `factories` is the stack of those at work,
  each with its key and the size it was told; at any time the innermost answers,
  throws, or makes any call, `get` included. An insertion that finds the entry
  there is counted all the same: `overwrites` is the ledger, and the size is off
  by that and nothing else.
* `MultiSet`: counts from JavaScript, which may be negative, zero or NaN; the
  `drift` of size and dimension since the last clear; the walk that gives an
  item as often as it counts (`RepeatCursor`, with an iterator inside);
  `IsSubset` against the comparison of counts, as long as the dimension is not
  too high for its shortcut.
* `MultiMap`: lists or sets of values under a key, emptied containers that go
  away, and the walk that flattens them while they change.
* `MultiArray`: containers as chains in one array; `arrivals` is the history the
  containers are read off and compared with.
* `InvertedIndex`: a query intersects ascending lists of positions
  (`MeetFrom` of `SortedArrays`, with the bounds that narrow it), and `GetExact`
  compares with a scan of all documents. Documents and lists are held by reference, and
  iterators outlive a clear: one of documents gives those there were when it was
  opened, one of tokens also those that came before it ended or the index was
  cleared (`WalkExact`).

Bounds: three keys, values 1 and 2, counts from -2 to 2 and NaN, sums to four,
drift to one, sizes to five, three factories at once; four containers, four
items; three documents of up to two of three tokens (repetitions included).
Members and tokens are symmetric: no operator orders them or chooses among them
otherwise than by their place.

### Tries, trees, indexes and algorithms

They live under the same roof, run `maps`, as further values of `kind`. Those
that keep a state are actions; those that do not are operators, and `past` is
what they are given: every input of a kind is an initial state (`Inputs`) and
`AnswersExact` compares the answer with that of a scan.

* `TrieMap`: nodes are the paths to them, each a list of slots in order of
  arrival; a walk keeps the paths it has still to look at and finds them again
  at every step, whatever was pruned, and comes to every word that stays or is set
  on a path still ahead of it, a pruned one included (`WalkExact`, with the history
  `ahead`). `update` is the bridge's: its
  callback runs between the lookup and the write, may make any call and may
  throw; whether the write counts a word is decided afterwards, so the size
  stays exact and no branch without words is left (`CountsExact`). `FindExact`:
  lookups and searches by prefix against the words last written.
* `CritBit` is both maps, the fixed one with `next_internal`, which a clear
  leaves where it was. While the fixed map is `Sound` (every inner node had a
  slot, no two keys differ by a NUL at the end) it answers what was last set, in
  order; past that a key may be missing, and what is answered is right.
* `Hashing`: linear probing in tables of one to three slots, with hashes that
  collide at will, until a table is full and probing gives up, and with the key
  zero, which leaves its slot empty; the Bloom filter with arbitrary hashes for
  two seeds (nothing that was added is denied, and a bit is set for no other
  reason); counts, highest and critical bits of words without a sign against
  their binary notation (`BitsExact`).
* `SearchTrees`: the BK tree, grown item by item, also where the distance
  throws; the VP tree and the k-d tree over every list of up to four of five
  points, with duplicates and ties; the interval tree over up to four of six
  intervals, points included. Each search leaves out branches, and must leave
  out nothing that belongs to the answer, and the stack of the interval search
  must hold what its size promises.
* `StringIndexes`: suffix arrays by sampling two positions in three, with the
  recursion, for all texts of two symbols up to length eight and of symbols
  wider than a byte up to five. The two known defects of the original
  (BUG-SUFFIX-ARRAY-1 and -2) are in the model, and the property leaves out
  exactly the lengths and widths at which they bite. The longest common
  subsequence of a generalized array with two members. `SymSpell` (distance one
  and two, verbosity 0 to 2) and `PassjoinIndex` (k one and two), with add,
  clear and search, against the balls of the edit distance around every query.
* `SortedArrays`: the five searches, merges, unions and intersections, of two
  and of more; repetitions, empty arrays and arrays that only touch. Where the
  last of one is the first of the other the unique intersection of several
  answers without looking (`Touching`).
* `SortedArrays`, sets: the functions of `set.rs` on up to three sets in all orders
  and overlaps; those that change a set do it by a list of steps made up before
  the first of them, also with that set as the argument.

Bounds: four prefixes of depth two of which three have words, a callback at a
time; four keys in a growing map and three in a fixed one of capacity two (one
more than fits); three words or strings in the string indexes; sorted arrays of
up to three values, up to three of them and some of four. A text of eleven equal
symbols is the least whose reduced string has itself halves that run together.
All this is one run and not several because each kind is small; what they have
in common is the form of the question, an answer against that of a scan.

### Fairness

Two specifications state it, each on the steps of one party only.

* `OrderedMap`'s `FairSpec`: weak fairness of `Step` for each cursor. A
  `forEach` or a `for ... of` asks for the next entry until there is none,
  whatever its body does to the map. Nothing is assumed of set, delete and
  clear. `WalksEnd` follows because insertions are bounded, as they are in any
  program whose body adds finitely often; and deletions and compactions, which
  are not, never throw the cursor back.
* `FibonacciHeap`'s `FairSpec`: weak fairness of `Progress`, the stretches of a
  call and the answers of the comparator. The library runs on one thread and a
  call that is not waiting runs; a comparator may call the heap first
  (`MayCall` is not fair, and is bounded by the depth) and answers in the end.
  `CallsReturn` is then that every loop of a pop ends, also after one throw out
  of a push. After a throw out of a pop it does not: `fib_throw`.

The other runs state safety only. `maps` has none: its members are symmetric,
which TLC does not allow beside liveness, and its loops are operators that TLC
evaluates to the end.

Deadlock is checked in every run that passes except `fib_heap`: once a walk of
the lists does not come round nothing runs any more, and the model stops there.

## What is proved

Six modules hold the theorems; each speaks of every value of the constants of
the module it extends, and each theorem that states a property of a run cites
it by name. (Those of the structures over the ordered map are of the invariants
that `MCMaps` gathers in `CountsAgree` and `AnswersExact` under a name of its own,
and of the specification of each structure.) The bounds that TLC needs (`MaxIds`, `MaxItems`, `MaxDepth`, ...) are
constants too, so a theorem holds however large they are.

| module | about | theorems |
|---|---|---|
| `LruProofs` | `LruCache` | `TypeCorrect`, `IndexCorrect`, `PartitionCorrect`, `SizeCorrect`, `WalksSafe`; without delete `ListCorrect`, `WalksReportCached`, `EngineImplements`, `EngineAgrees` |
| `OrderedMapProofs` | `OrderedMap` | `TypeCorrect`, `IdsAscend`, `IndexCorrect`, `MemoryBounded`, `HintsCorrect`, `MapImplemented` |
| `OrderedMapProofs` | `BiMap`, `DefaultMap`, `MultiMap`, `MultiSet`, `MultiArray` | `ViewsAgree`, `BijectionImplemented`; `DefaultSizeCorrect`; `BucketsCounted`; `MultiCounted`, `MultiCompared`; `ArrayCounted`, `ArrayContains` |
| `FibonacciHeapProofs` | `FibonacciHeap` | `ShapeHolds`, `SizeCountsHolds`, `PeekHolds`, `CalmNeverFails`, `QueueImplemented` |
| `HeapProofs` | `Heap` | `OrderHolds`, `SizeCorrect`, `QueueImplemented` |
| `SequencesProofs` | `MCSequences` | `LayoutCorrect`, `ReadsCorrect`, `FreshWalksCorrect`, `WalksCorrect`, `ListImplemented` |
| `IntegerSetsProofs` | `MCIntegerSets` | `MembersCorrect`, `WalksCorrect`, `SizeCorrect`, `QueriesCorrect`, `SetImplemented`, `PartitionImplemented` |

Eight of them are refinements: `EngineImplements` (of `LruSpec`),
`MapImplemented` (`MapSpec`), `BijectionImplemented` (`BijectionSpec`), the
`QueueImplemented` of either heap (`PriorityQueue`), `ListImplemented`
(`ListSpec`), `SetImplemented` (`SetSpec`) and `PartitionImplemented`
(`PartitionSpec`). Each is proved step by step:
initial states map to initial states, and under the inductive invariant an action
maps to an action of the abstract specification or to a stutter.

### LRU caches

Assumptions: the capacity is positive and below the largest `usize`, the key
maps are functions, and `Coherent`: an entry is evicted under the index key it
was inserted under. `lru_narrow` shows that the last cannot be dropped.

With and without delete, the invariants are not inductive as they stand. A walk
reads through a pointer it took from a list that deletes have made meaningless,
so one must know that *every* pointer anywhere in the arrays leads to a slot that
was written at some time, or is the initial zero: that is `PointersWritten`, and
the inductive invariant is

    IInv == TypeOK /\ IndexConsistent /\ PointersPartitioned
            /\ SizeIsLiveCount /\ PointersWritten

The partition carries the induction: `size` and the freed slots say where the
next pointer comes from, it is not live, hence the index stays injective. When
the cache is full nothing is freed, so all pointers are live and whatever `tail`
holds can be evicted, although the list itself may be wrong.

Without delete the list is not wrong. `LInv` adds to `IInv` that *some* sequence
of the live pointers, each once, is what `forward` spells from `head` to `tail`
and `backward` spells the other way. A promotion takes one element of that
sequence to its front, an eviction its last one, and the lemmas say what the
five assignments of `splay_on_top` do to it in each of its cases (first, last,
between). `RecencyList`, which follows `forward` by a recursive function, is then
equal to that sequence by uniqueness of the function, and the refinement reads
the order of recency off it.

### Ordered map

Assumptions: the floor is positive, `None` is neither a number nor an entry. The
inductive invariant is the conjunction of the four invariants that the run
checks, `TypeOK`, `SlotsSorted`, `IndexExact` and `TombstonesBounded`. What makes
a compaction preserve them is a fact about counting (`Ranks`): a live slot moves
to the position that is its rank among the live ones, and ranks keep the order
and leave no gap. `HintsSound` and the refinement then need no history of
cursors: the ids alone say which entries are ahead of one, before and after the
slots have moved (`MapImplemented`).

### Structures over the ordered map

`Stores` says once what a map is after a key is set, in three views: its keys,
what they are related to, and who precedes whom; `DroppedIs` says the same of a
deletion. Every proof uses those and not positions.

* `BiMap`: the maps are `Mirror` images. Their counters are not their lengths after
  a clear, which resets one of the two and leaves the other (bi_map.rs says so);
  `ViewsAgree` states that the maps are equally long, that both counters are that
  length while there are entries (`BiSized`), and that of empty maps at least one
  counter is zero. A call goes
  through states in which neither holds, so `LinkIs` and `UnlinkIs` follow it to
  its end, with each early return, and come to one pair related or unrelated;
  both sides keep their order because a key that is set again keeps its place.
  That the two maps are equally long is a bijection of either with the pairs.
* `DefaultMap`: nothing is said of what the factories do. Every one of them is told
  the size there was, none writes it, and an insertion adds one to what the size
  is by then and to `overwrites` or to the entries.
* `MultiMap` and `MultiSet`: the number of values is the number of `Copies`, pairs
  of a key and a number up to its count, and `Recounted` says what one count that
  changes does to it. Of a MultiSet, assumed is only that counts are integers or
  NaN and that NaN is not an integer; for `MultiCompared` also that items are
  finitely many, since dimensions are numbers.
* `MultiArray`: the tail of a container is its last item, and the pointer of an
  item, if there was one before it in its container, is the last of those. The
  pointer of a container's first item is whatever it is: `get` stops by the
  length, which is the number of its items, and what it follows has the ranks of
  those items from the last to the first (`ChainIs`, with `Ranks` again).

### Binary heap

Assumptions: items are numbers, `None` is none of them. The theorems are about
*tame* comparators, those that only push into the heap they compare for or only
clear it; `IInv == Tame => Kept`. Between two comparisons an array is not a
heap, so `Kept` follows the hole of every sift that is under way: around the
hole parents are not greater than their children, also across it
(`HoleOrdered`); what is below it is not less than the item when it comes back
up; while `from_items` orders the array from its end, all this from the root of
the sift on, which the hole does not leave (`Descends`). A frame under another
one has an array that nobody else sorts, or that a clear has left to it.
`QueueImplemented` needs more: the bag of the array with its hole filled changes
only when an operation returns, and what an operation hands out was a least
element when it began and is one still (`Handed`, `Hands`).

### Fibonacci heap

Assumptions (`BoundsAssumption`): items are integers, and what comparators call
are operations of the heap. The theorems are about *calm* comparators, those
that call nothing but push and throw out of one push at most (`Calm`); each
property says so itself, and needs it, as the counterexample of `fib_throw` and
two throws out of pushes show. The inductive invariant is

    Calm => /\ failures = {} /\ Forest(nodes, root, Reached)
            /\ FramesFit, PopFits          \* the frames, and the pop among them
            /\ MinFits, SizeFits, PureFits \* min and size in the midst of a pop

* A `Forest` has for each parent a `Cycle` of children, which is stated without
  a walk: the pointers stay inside, undo one another, and no proper part of the
  cycle is closed under them. That a walk of at most as many steps as there are
  nodes comes round, and visits each of the cycle once, is a counting argument
  (`RingOfCycle`), from which `Ring`, `ComesRound` and `Reached` of the model are
  what they should be (`ReachedIs`).
* `PushForest`, `LinkForest` and `WithoutForest` say what an insertion, a link and
  the removal of a root do to any forest; the last is an induction over
  the children that join the roots.
* A pop is the only frame that is not a push, and has below it pushes of its
  comparator only. The roots of its snapshot are those it has still to place, the
  one in hand and those in the buckets, each in the bucket of its degree; pushes
  made meanwhile add roots that no bucket has.
* The scan stops at the size. A child has a degree below that of its parent, and
  a tree of degree *d* has more than *d* nodes (`ForestSize`); the size is behind
  the nodes by one at most. So the buckets below the size hold every root of the
  snapshot, and the scan misses none. A second push cut short would spoil this.
* For the refinement, the bag of the items in the queue is a sum over the nodes
  in use without the one a push has not counted, with the one a pop has taken
  out and not returned yet; only a return changes it.

### Linear structures

Assumptions (`SequencesAssumption`): the capacity and the block size are
positive, `None` is neither a number nor an array, and the bounds leave room
for what a structure is made of. `SeqInv` is the invariant of the structure the
behaviour is about:

* `RingInv`, for both rings, overfilled or not: the window of `size` slots from
  `first` on has been stored to, in a store where no two slots have the same
  item (`Numbered`); and no slot ahead of a walk holds what the walk has seen
  (`Once`), as an item is stored only once and only slots behind it are met again.
* `QueueInv`: the array holds consecutive arrivals, and so does the one that a
  compaction or a clear has left to an open walk.
* `StackInv`: every slot below the size has been stored to unless the stack was
  overfilled in an array that dropped it; `Once` again, downwards.
* `VecInv`, `TreeInv`: the length is within the capacity, which is that of the
  storage, block by block for the tree; elements are copied to the same place.
  The loops of `grow` are recursive functions: they end, because the default
  policy grows (`GrowthExists`), and at no less than was asked (`GrowthBounds`).
* `LinkedInv`: some sequence of nodes is the way from the head to the tail
  (`Way`), and the links of the arena, those of removed nodes included, go up in
  some `rank` of the nodes: a node that is pushed ranks above the tail, one that
  is unshifted below the head. The rank is what keeps a walk that has left the
  list from ever meeting a node again (`Climbs`).

Remainders by a capacity that is not a number but a constant are where the
provers need help: `DivMod` and `ModSmall` say what the single subtraction of
the code and the remainder of the iterator have in common.

### Sets of small integers

Assumptions (`IntegerSetsAssumption`): the length and the bits of a word are
positive, the nodes of a disjoint set are any number, `None` is neither a number
nor a word nor an array of words. The sparse modules are instantiated once for any length (`P`, `Q`), and the five
structures of the run are cases of that. `SetsInv` is the invariant of the
structure the behaviour is about:

* `SetInv`: while the set is not spoilt, `Paired`: each of the first `size` slots
  of `dense` has a member, and `sparse` leads back from it. So a stale slot in
  `sparse` that happens to be below the size belongs to somebody else, and the
  second read says so. `SetWalk` follows what a walk has missed: it is in a slot
  that is left, unless a member was added after a deletion.
* `QueueInv`: `Queued` says the same around the ring, and besides that of those
  who are left over from before a clear none is behind the start, beyond the end
  of a window that does not wrap: the test of the wrapped part is made there too,
  and would say yes. This is not in the run's properties, and without it
  `MembersFound` is not inductive.
* `BitInv`: `Honest` says of every index that a walk has yet to come to that the
  array it holds has a bit that was there since the walk opened, and so does the
  word it is in the midst of, which may be older. A growing vector leaves the
  walk the array it was opened on; `VectorInv` knows besides that the capacity
  is that of the words, so that the words a push stores to are there.
* `Sized` is the ledger of `SizeAccounted`, kept for both bit sets, and `Fits`
  keeps the length within the words. A store looks at two numbers and not at the
  bits, so the ledger needs to know what words come to as numbers:
  `ReadingOrder` says that a word with more bits is the greater number, also when
  the lesser is read with a sign and the greater without, as a reset does, and
  that a common sign bit then makes it greater whether or not a bit has gone. A
  resize splits the marks of the old array into those kept and those lost.
* `PartitionInv`: the parents are `Rooted` (no nodes without a root among them
  are closed under parents), and the size is the number of classes. Nothing is
  said of the ranks, and nothing needs to be: a link of two roots leaves the
  parents rooted in either direction, and so does a compression, since a node is
  moved up to where its climb ends. That a climb ends within `Size` steps is the
  pigeonhole principle. A union merges two classes and so takes one from the
  count; a numbering gives each root the count of those before it.
* `QueriesExact` needs the types only. The positions that `select` counts are all
  those before the bit but those in zero words, and `ZeroPositions` maps these
  one to one to the pairs of a zero word and a place in it.

What these say of functions that are defined by recursion (a climb, a word read
as a number, a numbering) is proved by `Least`: what fails of some number fails of
a least one.

### Only model-checked

* Liveness (`WalksEnd`, `CallsReturn`): the prover reaches neither fairness nor
  ENABLED.
* What a recursive definition computes for every input, which needs an induction
  that the prover cannot instantiate: `SelectionExact`, and the operators behind
  `AnswersExact` (`SortedArrays`, `Selection`, `SearchTrees`, `StringIndexes`).
* `CountsAgree`, `AnswersExact` and `ImplementsBijection` of run `maps` as such: their
  module reaches recursive operators. What is proved of the structures one by one
  is above; of `InvertedIndex`, the tries and trees and the hash tables nothing is.
* The walks over those structures (`WalksExact`).

## Disagreements between the code and what is said of it

Four, each with a run that shows it: the eviction order after a delete
(`capacity()` promises the least recently used), the size beyond the capacity
with narrow keys (`len()` promises the two never diverge), the lists of the
Fibonacci heap after a throw ("always valid"), and the gaps of a vector's
iterator ("never yields"). `PROJECT.json` quotes the lines.

More were met and have no run; the models do what the code does, and their
properties say so where it matters:

* The comment in `FibonacciHeap::push` says the minimum is read afresh after the
  comparison; the decision is taken on the one read before. It only shows with a
  comparator that pushes.
* A `FixedCritBitTreeMap` loses the shorter of two keys that differ by a final
  NUL, of which `docs/modules/critbit-tree-map.md` speaks for the growing map;
  and since clear does not take `next_internal` back, a set can fail, with the
  tree already changed, when fewer keys than the capacity were ever in it at
  once.
* `SymSpell` documents a verbosity as the closest word, or all words at the
  least distance. A word that is farther can come first (words "1" and "1121",
  query "12"); words that have no character in common with the query are missed
  at verbosity two ("b" does not find "a"); and below it a shorter word resets
  the count of an entry, so that an added word can vanish ("ab", "abcd", "abc").
  `WordsExact` says what is left: suggestions are added words at their distance,
  verbosity two gives every word within it that has a character of the query,
  and below that something is found if there is such a word.
* The longest common subsequence of a generalized suffix array with three
  members or more may run across a separator ("a", "a", "a" gives one with the
  separator in it).
* A comparator that throws out of two pushes of a Fibonacci heap, and never
  again, makes a later pop lose items: see run `fib_heap` above.
* A pop of an overfilled ring reads behind the array once start and size pass
  two capacities.

## Not modelled

The bridge's value coercion and error wording, the fuzzers and the benchmarks,
formatting. `FuzzyMap` and `FuzzyMultiMap`, which hash a key and call the map
that is modelled. `DefaultWeakMap`. `MultiSet.top`, a reverse heap (modelled in
`Selection`) over the entries. murmurhash3 and jenkins_int32 multiply words of 32
bits, past the integers of TLC, and the sizing of a Bloom filter is arithmetic on
floats; the tables and the filter are checked over arbitrary hash functions
instead. The sign bit in `utils/bitwise.rs`. Element widths of vectors other
than by the values they drop. Values that do not compare (NaN) in searches,
sorts and trees. Bounds of `usize` other than the LRU size are out of reach of
any program.

## The plan

Done, in this order: the LRU caches and their proofs, the ordered map, the two
heaps, the linear structures, the sets of small integers, the structures over
the ordered map, the two growing arrays; then selections and sorts, searches,
merges and set operations, tries, trees, string indexes, hashing, the overfilled
arrays, liveness of walks and of calls; then the proofs of the ordered map, the
binary heap, the linear structures, the recency list, the sparse sets and the
walks over bits, the refinements of `LruSpec`, `MapSpec`, `PriorityQueue`,
`ListSpec`, `SetSpec` and `PartitionSpec`, the rings and the count of the
Fibonacci heap, the size, rank and select of the bit sets, and bi-maps, default
maps, multimaps, multisets and multi-arrays. Left, most important first:

1. *Proofs*. That the postings of an `InvertedIndex` are the documents that have
   the token; that the walks over the maps come to everything that stays.
2. What is left of the components: `DefaultWeakMap`, `FuzzyMap`, `MultiSet.top`,
   values that do not compare, generalized suffix arrays of more members.
3. The `forEach` walks of the bridge over the structures that copy before they
   walk, and those that do not.

No module to be proved about declares a RECURSIVE operator; recursion is by
functions or folds.
