# TLA+ models of the IP lookup structures of poptrie_project

The repository holds four forwarding table structures that are compared with each
other: **poptrie** (`src/modified_poptrie`), a plain **radix tree**
(`src/modified_radix_tree`), **SAIL** (`src/modified_sail`) and the **tree bitmap**
(`src/modified_tree_bitmap`). Poptrie carries most of the state that is hard to get
right: a compressed trie that is rebuilt incrementally, over two buddy systems and a
reference counted next hop table. All four structures are modelled, poptrie in most detail.

## 1. Inventory

| Component | State | Operations | What makes it correct |
|---|---|---|---|
| buddy system (`buddy.c`) | free list per block size, one flag per allocated block at its last cell | `buddy_alloc2`, `buddy_free2` (`_split_buddy`, `_merge`) | blocks partition the memory; the size of a block can be recovered from one flag; free buddies are merged; an allocation fails only when nothing fits |
| FIB mapping table (`poptrie_private.h:1146-1198`) | `entries[i] = (next hop, refs)` | `poptrie_fib_ref`, `poptrie_fib_deref`, `refs--` in the route operations | a slot in use is never recycled; a slot is counted only while it is used; overflow is reported |
| RIB (`poptrie4.c`, `poptrie_private.h:89-166`) | binary radix tree: `valid`, `nexthop`, `len`, `ext` (inherited route), `mark` | route add / change / update / del, the three propagations, `_clear_mark`, `_rib_lookup` | `ext` is the nearest valid route; the marks cover what changed and are cleared |
| poptrie (`poptrie4.c`, `poptrie_private.h`) | `nodes`, `leaves`, `dir`, `altdir` | `_update_subtree` and all it calls, clean-up, `poptrie_lookup` | every lookup is the longest match of the RIB; exactly the memory in use is allocated; nothing live is freed; a failed update changes nothing |
| `poptrie_init`, `poptrie_release` (`poptrie.c`) | all of the above | set-up and tear-down | the error paths free what was allocated, once |
| poptrie for IPv6 (`poptrie6.c`) | as above | the same with 128-bit keys | as above; the shift of line 454 |
| radix tree (`radix.c`) | binary tree of `valid`, `data` | add, delete with `_shrink`, lookup | longest match; no node with a route below it is freed |
| SAIL (`Fib.cpp`) | trie with leaves pushed to the levels 16/24/32, level tables, chunk numbers | `Update` (announce, withdraw), `subTrieLevelPushing`, `subTrieUpdate`, `sailLookup` | the trie is complete and a longest match table; chunk numbers agree and are not shared; level tables answer as the trie does, after updates too |
| tree bitmap (`bitmap_v4.c`, `bitmap_v6.c`, `mb_node.c`) | direct table with length, flags and a next hop or a node; multibit nodes with two bitmaps and one block of rules and children; the auxiliary trie of all routes | `insert_prefix`, `delete_prefix`, `destroy_trie`, `search` | longest match; positions by population count; the table follows from the routes alone; a next hop is destroyed once |
| drivers, data, vendored containers | - | file input, timing | not modelled |

Interaction: a route operation references a FIB slot, changes the RIB and marks the
nodes whose route changed, rebuilds the marked part of the trie (taking arrays from
the buddy systems), hangs it into the trie by a single store (a direct pointer, a
`base1`, or the switch of `dir` and `altdir`), gives the replaced arrays back, clears the
marks and dereferences a slot. All calls are direct; nothing in the repository runs
concurrently with an update, there are no timeouts, no messages and no persistence.
What is hard is therefore long sequences of legal calls, the sharing of arrays between
the old and the new part, stale caches (`ext`, `mark`, copied children), resources at
their limit (pools, FIB table) and partial failure. `PROJECT.json` lists the hazards
line by line.

## 2. Modules

```
BuddySpec  <---refines---  Buddy  --EXTENDS-->  BuddyOps
                                                   ^
RouteMap  <---refines---  RouteTable               | two instances (nodes, leaves)
    ^                         ^                PoptrieOps
    |                         |                    ^
    |                         +----- Poptrie ------+   (EXTENDS both)
    +---refines---  RadixTree

Sail --EXTENDS--> BitStrings        TreeBitmap --EXTENDS--> BitStrings, MbNode

RouteTable and RadixTree extend BitStrings too.
Proofs: BuddySpecProofs <--INSTANCE-- BuddyProofs
        BitStringProofs <-- RouteTableProofs
                        <-- RadixTreeProofs
                        <-- SailProofs
                        <-- MbNodeProofs <-- TreeBitmapProofs
```

* **BuddySpec** - what the buddy system promises: blocks `<<level, index>>`, the free
  lists as a set, one recursion frame per step, the block a call works on in `hand`.
  Which free block of a level is taken is left open.
* **BuddyOps** - the functions of `buddy.c` on a pool: ordered lists and the bitmap.
  The links inside free blocks are the order of a sequence. `buddy_alloc2` and
  `buddy_free2` compose the frames into whole calls with folds.
* **Buddy** - a client of `BuddyOps`; `pc` is the running call (`split` = inside
  `_split_buddy` or about to return from `buddy_alloc2`, `merge` = inside `_merge`).
* **BitStrings** - prefixes as bit sequences: which covers which, and the nodes a descent passes.
* **RouteMap** - the promise of the route operations: a map from prefixes to next hops.
* **RadixTree** - `radix.c`. A node is its bit sequence; `valid` and `data` are its fields.
  `radix_tree_add`, `radix_tree_delete` and `AddFails` (the add whose allocation fails at some
  depth and leaves what it created above) are the actions. `_shrink` is the set `Freed`; the
  property `ShrinkIsRecursive` compares it with the recursion the code is. A lookup tests a bit
  even at a node of full length, so an `Address` has one bit more than a key.
* **RouteTable** - RIB and FIB table. A radix node is its bit sequence, `node` the set
  of those allocated (never freed: the `free` at `poptrie4.c:711-715` needs a node without
  children on a path that has one). One action per exported operation; each covers the
  descent that creates nodes, the propagation, the marks, and every `refs` change, in the
  branches of the code. `ok` is the result of `_update_subtree`.
* **PoptrieOps** - the trie and its update as functions from memory to memory, one
  operator per function of the C code under its name (`_update_inode` is `UpdateInode`,
  `_update_part_loop1` is `Loop1`, ...). Freed cells are blanked, so that a lookup or an
  update that reads freed memory does not see plausible data.
* **Poptrie** - the composition: each route operation is the `RouteTable` action with the
  outcome of `UpdateSubtree` on the memory. The same modules describe `poptrie6.c`: the constant
  operator `RightOf` is the expression that moves a prefix to its right half, `SetBit` for IPv4 and
  `SetIntBit`, a shift of a 32-bit int, for IPv6.
* **Sail** - `Fib.cpp`. A trie node is its bit sequence; `old` and `new` are `oldPort` and `newPort`,
  `element`, `nexthop24`, `offset24` and `nexthop32` the level tables. `Update` is one action per case:
  an announcement that creates nodes, one at a leaf, at an inner node, of another port, a withdrawal, and
  what is ignored. `touched` (history) names the prefixes whose cells in the tables are older than the trie.
* **MbNode** - the multibit nodes of `mb_node.c` and the loops of `bitmap_v4.c` over them: bitmaps as sets of
  positions, the block of a node as two sequences found by counting bits. A trie is a function from
  addresses to nodes, where a node's address is the bit string that led to it when it was made, and a child cell holds an
  address. A walk goes where the cells lead (`Walk`), so that it follows the address is a result (`BlocksExact`) and not
  built in. A block that moves keeps its nodes' addresses: its cells are what `extend_*` and `reduce_*` move.
* **TreeBitmap** - `bitmap_v4.c`: the direct table `init`, the auxiliary trie `up_aux`, insertion, deletion,
  destruction, search. `rib` is what the caller inserted and `destroyed` how often the last call handed
  each next hop to the caller's `destroy_nhi` (both history). Deleting a prefix that is not there is
  undefined in the code and left out, as `prefix_exist` is there to ask first.
* **BuddySpecProofs, BuddyProofs, RouteTableProofs, RadixTreeProofs, SailProofs, TreeBitmapProofs** - theorems about the
  modules of that name (in `RouteTableProofs` first for any FIB table, then for one that is large enough; in `SailProofs`
  first the trie alone, then the tables and their chunk numbers);
  **MbNodeProofs** - the lemmas about multibit nodes and tries of them;
  **BitStringProofs** - the lemmas on bit sequences that all but the two on the buddy system share.
* **MCBuddySpec, MCRouteTable, MCRadixTree, MCPoptrie, MCSail, MCTreeBitmap** - values of the constants for TLC.

State correspondence: `mem.nodes[i]` has `vector` and `leafvec` as sets of positions and
`base0`, `base1` as indices (-1: none); `mem.dir[r] = [leaf, val]` is bit 31 of the word and
the rest; `mem.exhausted` is a history variable (some allocation failed) and `failed`
records that some operation has returned -1 from an update. A FIB slot stored in a leaf is
taken modulo 2^16 as `poptrie_leaf_t` does. `altdir` is kept equal to `dir` between updates: every update
of a short prefix copies `dir` to it first. The numbers of chunks of SAIL's `levelTable24` and
`levelTable32` are constants; an announcement that would need one more has no step, where the code prints a message and writes
behind the table.

## 3. Runs and what they show

| Run | Question | Bounds |
|---|---|---|
| `buddy_spec` | Do split and merge keep a partition, and never leave two free buddies? | 3 sizes, 2 top blocks (8 cells) |
| `buddy` | Do lists and bitmap implement `BuddySpec`? Is the size always recovered, is a failing allocation justified, and does every call end? | 8 cells, 3 levels |
| `route_table` | Are `ext`, marks and reference counts right in every order of operations, and do the operations behave as a map? | 5 prefixes (nested, with a branch and inner nodes), 2 next hops, 3 slots, 5 references per slot |
| `radix_tree` | Is a lookup in the reference tree the longest match, with failing adds and shrinking deletes? Does `_shrink` free exactly what it should? | keys of 3 bits, 6 prefixes (a chain of four, two other full-length ones), 2 data |
| `poptrie` | Under all four operations: is a lookup the longest match, is exactly the referenced memory allocated, is no array shared, what does an update that runs out of memory leave behind? | `S = 1`, `K = 2`, keys of 6 bits, 4 prefixes, 8 node and 8 leaf cells, the calls of `MixedCalls` |
| `poptrie_stale` | (violation) is a lookup the longest match after every add and change? | `S = K = 1`, 5 prefixes |
| `poptrie_full` | (violation) is an operation that returned 0 always done? | small leaf pool |
| `poptrie_six` | (violation) is a lookup the longest match with the shift of `poptrie6.c`? | `S = 2`, `K = 1`, 2 prefixes, of which the longer lies deep in the right half of the shorter |
| `sail` | Is the trie complete and a longest match table, do the chunk numbers agree, and do the tables follow the trie wherever nothing has been left behind? | levels 2, 4 and 5 for 16, 24 and 32; a refused prefix, routes at level 16, between the levels, at level 24 and at level 32, and one with chunks of its own; one route changes its port |
| `sail_stale` | (violation) do the tables always follow the trie? | as `sail` |
| `tree_bitmap` | Does the direct table follow from the routes alone, are blocks exact, searches longest matches, next hops destroyed once? | 3 bits of direct table, strides of 2, keys of 6 bits (3 + 2 + 1 for 13 + 6 + 6 + 6 + 1); 10 prefixes, one with two next hops |
| `fib_orphan` | (violation) does a failed change leave the table alone? | as `route_table` |

Why the bounds are enough. The algorithms are uniform in the block size and treat a level
like any other: 3 sizes give a smallest, a middle and a largest one, splits and merges
over two levels, and two top blocks give a list with a neighbour at the top. In the
trie, `S = 1` gives two direct pointers and routes above, at and below the direct pointing
depth; `K = 2` with keys of 6 bits gives nested blocks whose nodes have several children and leaf
vectors with gaps, rebuilt at the top, in the middle and at the bottom, with vertical compression over
more than one level. Two next hops and "no route" give three leaf values, which is what leaf
compression can tell apart at a boundary. `MaxRefs` bounds the reference counts, which the model's
operations cannot exceed except by leaking; `KeyLength`, the prefix sets and `Calls` (which call is made
of which prefix) bound the tables. `GoesOn = FALSE` ends a behaviour of `poptrie` when memory has run out:
all routes fit into the pools, but some updates run out of cells for the part they build aside, so that the
failing update itself is checked, and what follows it is not (hence no deadlock check in that run).

In SAIL three levels, a chain of routes on and between them and a second chunk tree suffice to reach each
case of `Update`, the three ways nodes are born (`NB_16`, `NB_24`, `NB_BOTH`), and to share or confuse chunk
numbers. `LEVEL24_CHUNK_NUM` and `LEVEL32_CHUNK_NUM` bound the chunks (in the code only a message is printed): both chunks of
`levelTable24` that the prefixes can ask for are there. `OffsetRange` is the range of the unsigned short `offset`, and
`MinLength` is at least 1 because the root keeps the default port (the code refuses prefixes shorter than 8). In the tree bitmap the small strides keep the proportions of the code: the
direct table is not a multiple of the stride, so `detect_overlap` ends inside a node, and the last stride is
padded. Three nested routes within the direct table hide each other, and two longer ones share a block.

`LookupRightUnlessParted` carries its premise for two reasons: after memory ran out, and after a route is moved or
removed above a block bottom that leads to a longer one (`parted`), lookups *are* wrong (section 4).

`FailedUpdateChangesNothing` is about the first failure and about routes of at least `S` bits:
a shorter one rebuilds several direct pointers, and those done before the failure stay
(the arrays are switched at `poptrie4.c:212-215` before the result is looked at).

`FreshTables` says exactly how far the tables of SAIL can be trusted: for addresses below no touched prefix. A later
announcement that pushes the same segment writes its cells again and takes the prefix out of `touched`.

`DestroyedOnce` has an exception: a route of at most `INITIAL_BITS` bits all of whose entries belong to longer
routes leaves without its next hop being handed to `destroy_nhi`. Nor is a next hop handed over that a second insertion of its
route replaces.

Each property of a passing run has a mutant in `PROJECT.json`, a plausible mistake in one
of the mapped definitions that makes TLC find the property violated.

## 4. Disagreements found

* **Stale copy** (`poptrie_stale`). `_update_inode` copies the old child of a block bottom
  when neither of its two sons is marked (`poptrie_private.h:204-206`). Changing or deleting a
  route that ends at the block bottom (or above) marks only nodes that inherit it; if the sons
  carry or inherit routes of their own, the child block is copied although leaves between
  them hold the changed route. `add` marks the sons even where it stops, so adding is
  not affected.
* **Ignored failure** (`poptrie_full`). `_update_dp2` drops the result of the left half
  (`poptrie4.c:430`); the operation returns 0 with a trie that lacks the route.
* **Wrong half** (`poptrie_six`). `poptrie6.c:454` shifts an int by up to 127, which is undefined and modulo 32 on the usual
  build, so the bit that leads to the right half of a route shorter than the direct pointing depth is not set (`SetIntBit`). What is
  rebuilt for the right half overwrites the left half's direct pointer, and the right half keeps its old one. The run adds 011 and then
  0: addresses 0011 answer with the next hop of 011, and addresses 010x miss the route 0. With `SetBit`, the shift of
  `poptrie4.c`, the same calls leave every lookup right.
* **Stale tables** (`sail_stale`). `CFib::Update` returns at `Fib.cpp:988`, before the code that copies changed segments into the
  level tables. After a change, a withdrawal or an announcement at an inner node `sailLookup` returns the old
  port, which the driver would report as "Not Equal!!!" (`main.cpp:174-178`).
* **Orphan reference** (`fib_orphan`). A failed `poptrie_route_change` has already added the
  next hop to the table and never releases it.

Not a run of its own: no caller tests the -1 that `poptrie_fib_ref` returns when the FIB table is full, so the route is
installed with slot 65535. `RoutesHaveSlots` of `route_table` holds because its table is large enough; with
`FibSize = 2` TLC finds it violated.

## 5. Fairness and liveness

The code is a library: no operation is obliged to be called, so the specifications put no fairness on calls, and the four
tables are stated as safety. What must happen is that a call that has begun comes to its end. In `Buddy`, where a call
takes several steps (the frames of `_split_buddy` and `_merge`), `FairSpec` adds weak fairness of `Frame`, the steps inside a
running call: they are the program's own control flow, which nothing else interrupts. `CallsReturn` says that every call
returns; it is checked by `buddy`. The other operations are single steps of their models, and their recursions descend a key
or climb a stack.

## 6. What is proved

`BuddySpecProofs` proves, for every `Level`, `Tops` and `Size` that satisfy `SizeAssumption` (sizes
double from level to level, starting at 1):

* `TypeCorrect`: `Spec => []TypeOK`, by induction on the steps. `TypeOK` says also that the
  hand holds at most one block and none between calls; the other invariants need it.
* `BlocksDisjoint`: `Spec => []Disjoint`. `TypeOK /\ Disjoint` is inductive. The lemma `Halves`
  says that the halves of a block share its cells, `BuddyIsOtherHalf` that a block and its buddy
  are the halves of its parent; `ApartHalves` and `ApartParent` carry disjointness over a split
  and a merge.
* `BuddiesCoalesced`: `Spec => []Coalesced`. `Coalesced` alone is not inductive: when
  `_split_buddy` frees the right half, the left one must not be free, which holds because it
  overlaps the block in the hand, so `Disjoint` is part of the induction.
* `NothingLost`: `Spec => []Covered`, by the same lemmas.

The assumption gives of `2^lv` what the proofs need; `MCBuddySpec` and `Buddy` instantiate `Size` with `2^lv`, and
`BuddyProofs` proves that this satisfies it (`SetsAssumption`). `BuddySpecProofs` also holds the lemma `FreeRoom`: room in which
nothing is held and which the block in the hand does not touch lies in *one* free block. Otherwise take the smallest
free block in it; the cells of its buddy are free too, in no smaller block, so the buddy itself is free, against `Coalesced`.

`BuddyProofs` proves, for every `Level` and every `Sz >= Level` (`BuddyAssumption`), about the lists and the bitmap of `Buddy`:

* `TypeCorrect` (`TypeOK`), `SizesRecovered` (`SizeRecovered`), `FailureIsFragmentation` (`FailsOnlyWhenFull`) and `BuddyIsSpec`
  (`ImplementsBuddySpec`), each from one inductive invariant,
  `PoolInv == ListsOf(pool) /\ HeldRight /\ CallRight /\ SetsRight`. `ListsOf`: a list of level `lv` names aligned offsets, each
  once. `HeldRight`: the flags are the last cells of the held blocks and no others. `CallRight`: where the block of the
  running call is, and that the lists a split has yet to fill are empty, since `_split_buddy` overwrites them. `SetsRight`: the
  four invariants of `BuddySpec`, of the sets the lists stand for.
* The parts need each other, so the refinement is not a corollary of separately proved invariants. That the scan of
  `buddy_free2` finds the right size follows from disjointness: a flag met earlier would end another block inside this one.
  That `_merge` may trust the bitmap (`BitmapTest`) needs all four invariants: if no cell of the parent is flagged, no
  held block ends in it, no larger one covers it, so the buddy's room is free and, by `FreeRoom`, in one free block; a larger
  one than the buddy would hold the block in hand as well. Each frame is then an action of `BuddySpec`, which keeps `SetsRight`.
* `FailureIsFragmentation` is `FreeRoom` once more, with an empty hand.
* What the list operations do (`HeadTail`, `Push`, `InsertBlockOf`, `UnlinkedOf`) and that powers of two double, add up and are
  ordered (`PowNext`, `PowAdd`, `PowLess`, from counting subsets) are lemmas of their own.

`RouteTableProofs` proves, for every key length, every set of prefixes and next hops and every
`FibSize` up to 65535:

* `TypeCorrect`, `InheritanceCorrect` (`ExtIsNearest`) and `MarksAreCleared`. The inductive
  invariant is `Inv == RibInv /\ MarksCleared` with `RibInv == TypeOK /\ Linked /\ ExtIsNearest`. The parts need each other:
  `add_propagate` may stop at a node with a longer `ext` only because everything below that node has
  one at least as long (`ExtIsNearest` at the nodes between, which exist by `Linked`), and
  `_clear_mark`, which turns back at an unmarked node, reaches every mark because the marked nodes
  of one propagation hang together and there were none before.
* `NoSlotRecycledInUse` (`UsedSlotKept`), by counting: `Counted` says that the routes of a slot are at
  most its `refs`. It holds for any table size, also when the table is full and for
  references that a refused operation leaves behind (section 4). `SlotAssumption` keeps
  slot 65535, which is what -1 becomes in 16 bits, outside the table; `poptrie.h:22-24` asks for it.

`RouteTableProofs` proves further, when the table has more slots than there are next hops (`EnoughSlots`; slot 0 belongs to NULL):

* `TableNeverFull` (`RoutesHaveSlots`). References may leak (section 4), but a next hop never takes a second slot: a slot
  whose count dropped to zero keeps its entry, and `poptrie_fib_ref` looks for the next hop before it takes a
  free slot. So a table without a free slot would hold as many different next hops as it has slots but one, which
  `SlotFound` refutes by counting. The inductive invariant is `TableInv == RibInv /\ Counted /\ SlotsDistinct /\ RoutesHaveSlots`.
  The assumption is needed: with `FibSize = 2` TLC finds `RoutesHaveSlots` violated.
* `RouteTableIsMap` (`ImplementsRouteMap`): every action is a step of `RouteMap` or a stutter. An operation changes the slot
  of one route only, and no slot of another route changes its entry, which is what `Counted` and `SlotsDistinct` give.

`Spec` of `RouteTable` is about updates of the trie that succeed (`ok` is `TRUE`). What holds when they fail is proved too,
for `Init /\ [][AnyMayFail]_vars`, where `_update_subtree` may fail in any operation, and for `AddsSucceed`, where it may in any
but `poptrie_route_add`; neither bounds the reference counts:

* `InheritanceSurvivesFailures`: `ExtIsNearest` holds whatever fails, because it does not rest on the marks (`RibInv` is inductive
  without `MarksCleared`). `MarksCleared` itself does not survive: a failure leaves its marks.
* `SlotsSurviveFailures` (`UsedSlotKept`), `TableSurvivesFailures` (`RoutesHaveSlots`) and `MapSurvivesFailures` (`ImplementsRouteMap`, the
  last two with `EnoughSlots`), under `AddsSucceed`. A failed change or update keeps the count of the slot its route moved to, and a failed
  delete keeps a reference too many. A failed `poptrie_route_add` is the exception: it gives back the slot of a route that stays in the
  tree (`poptrie4.c:66-69`), and one such step violates `UsedSlotKept`. The theorems about `Spec` are corollaries (`SpecMayFail`).
  To the caller, who is told -1, the map has changed as asked; it is the compressed trie that has not.

`RadixTreeProofs` proves, for every key length and every set of prefixes and data:
`TypeCorrect`, `TreeLinked` and `LookupCorrect` (longest match, through adds that fail half-way),
`DeletesShrink`, `ShrinkAsRecursion` (`ShrinkIsRecursive`), and `RadixTreeIsMap`: the specification implements `RouteMap`, action by action; an add
that fails, and one of a route that exists, are stutters. The inductive invariant is
`TypeOK /\ Linked`: a delete frees only nodes without data at or below them, so what a remaining
node hangs from remains. The refinement also needs that exactly the valid nodes have data
(`RoutesHaveData`). `_shrink` is modelled as the set `Freed`, and `ShrinkAsRecursion` says that the recursion of the code frees that set:
`Leads` solves it (`LeadsByStep`), and two solutions cannot differ, since at a longest node where they would, their children agree
(`StaysIs`).

`SailProofs` proves, for any three levels, any prefixes and ports and any numbers of chunks
(`SailAssumption`), every invariant the run `sail` checks:

* `TrieIsCorrect` (`CorrectTrie`) and `TrieLooksUpLongest` (`TrieIsLongestMatch`), from the inductive invariant `TrieInv`:
  the set of nodes is closed under prefixes, complete, and its leaves lie on the three levels (`ShapeOf`); and `PortsOf`, a leaf
  has the port of the nearest route above it and an inner node has none. `PortsOf` is stronger than the longest match of an
  address: pushing and `subTrieUpdate` copy the port of one node to many leaves, which is right because none of the nodes
  between has a route of its own.
* `TypeCorrect`, `ChunksAlwaysAgree` (`ChunksAgree`), `ChunksCounted` and `TablesFreshUntilTouched` (`FreshTables`), from
  `SailInv == TrieInv /\ TableTypes /\ Numbers24 /\ Numbers32 /\ CellsRight`. `Numbers24` and `Numbers32` are `ChunksAgree` with what
  makes it inductive: every number in use is below the counter, so a new one has no other owner. `CellsRight` says that
  the cell of a leaf holds its port unless a touched prefix covers the leaf, and that the port field of a cell with a chunk is 0.
* An announcement that creates nodes is the hard case: it writes cells of up to three levels. The proof says which nodes
  it adds (`BornSegments`), what it writes (`BornWrites`), that it leaves every other leaf's cell alone (`BornSparesOld`) and
  that each new leaf has a cell of its own among those written (`BornPlaces`).
* `FreshTables` has the premise that the chunk numbers fit into `offset24`; beyond it two chunks share a number. The
  cell part of `CellsRight` has the same premise, the rest of `SailInv` has not.
* `ChunksCounted` is no property of a run: `currentChunkNum24` is the number of inner nodes of level 16 and so at most
  `2^Level16`; the table of the code has 25000 chunks for its 65536.

`TreeBitmapProofs` proves, for any stride, any number of bits of the direct table, any key length and any routes, every property
the run `tree_bitmap` checks. It assumes `STRIDE >= 1`, `INITIAL_BITS` between 1 and the key length, and that every next hop is made for
one prefix (`TreeBitmapAssumption`; the caller allocates one per route, as `load_fib` does, `main.c:224-225`; only `HandedOverOnce` uses this).

* The inductive invariant is `Follows` (`FollowsInvariant`). `AuxFollows`: the auxiliary trie is exact and has a rule for each
  of the caller's routes and no other. `EntryFollows`: an entry has the length of the longest route that covers it; if
  it has a trie, this is exact, not empty, and has the rules of the routes below the entry and, as the rule of the empty prefix,
  the covering route; if not, its pointer is that route's next hop. None of the run's invariants is inductive alone:
  a deletion writes into the table what it finds in the auxiliary trie, and which entries it writes to depends on the lengths that
  earlier calls left there.
* `BlocksStayExact` (`BlocksExact`), `AuxFollowsRib` (`AuxIsRib`), `EntriesStay` (`EntriesFollowRib`) and `TreeBitmapType` (`TypeOK`)
  are parts of `Follows` put into the words of the run.
* `SearchFindsLongest` (`SearchIsLongestMatch`) and `SearchesStayEqual` (`LazyAgrees`): the walk of a search passes exactly the nodes
  whose addresses are prefixes of the address, and a longer match never lies in a node further up; so the last hit on the way
  down and the first one on the way back are the same rule, that of the longest route.
* `HandedOverOnce` (`DestroyedOnce`): of the entries a route is spread over, those it still owns (`CoverOf`) are the ones that give it
  up, and one of them comes first in the table; if there is none, no entry knows the route. In `destroy_trie` the prefix of an entry's
  route tells it from the others.

The lemmas of `MbNodeProofs` carry this. Positions are injective (`PosInjective`: `2^n + value - 1` for prefixes shorter than a stride,
the value for strides), so a bitmap stands for a set of prefixes. Counting bits finds a cell, and inserting or removing the cell that the
count names keeps every other one in its place (`InsertCell`, `RemoveCell`, from `CellSet`). In an exact trie a walk is
at the address cut off at each stride (`WalkAlong`, `WayIsAlong`). So `insert_entry` changes the rule of its prefix and no other
(`InsertRules`) and `delete_entry` removes it and no other (`DeleteRules`), and both leave the trie exact (`InsertExact`, `DeleteExact`): what
`update_nodes` frees is closed downwards along the path and nothing else hangs from it. `DetectIs` says that `detect_overlap` returns the
longest route that is shorter than both the deleted one and the limit, in whichever node the limit falls.

Model-checked only:

* `CallsReturn`, which is liveness under fairness.
* Everything about the trie of `Poptrie`: `PoptrieTypeOK`, `LookupRightUnlessParted`, `MemoryExact`, `OwnedOnce` and
  `FailedUpdateChangesNothing`. `PoptrieOps` follows the mutual recursion of the C code with RECURSIVE operators, which the prover
  does not handle.
* The folds `buddy_alloc2` and `buddy_free2` of `BuddyOps`, which run a whole call at once for `Poptrie`: the run `poptrie` checks them,
  the proofs are about the frames they compose.

## 7. Plan

1. *Done*: BuddySpec, BuddyOps, Buddy; RouteMap, RouteTable; PoptrieOps, Poptrie (for IPv4 and the shift of IPv6); RadixTree; Sail;
   MbNode, TreeBitmap; the runs above; proofs about BuddySpec, Buddy, RouteTable, RadixTree, Sail and TreeBitmap: every safety property that
   the runs `buddy_spec`, `buddy`, `route_table`, `radix_tree`, `sail` and `tree_bitmap` check is a theorem.
2. *Open*: theorems about the compressed trie need `PoptrieOps` as functions on levels of the key, as `MbNode` does it for the
   tree bitmap; the first would be `OwnedOnce`, on which `MemoryExact` rests.

## 8. What is not modelled, and why

* Branches of the poptrie code that no call reaches: `stack->inode < 0` in
  `_update_part_loop1/2` (a stack entry is pushed only for an internal node), the
  recursion of `_update_inode_chunk_rec` for `r > 0` (always called with 0), the fill loops of
  `_update_dp1` (the node was just created) and of `_update_dp2` with `alt = 0`, the missing
  block in `_descend_and_update`, the `free` in `_route_del`, and `poptrie->root`, which no lookup
  uses.
* `malloc` failures (radix nodes, `poptrie_init`), and `buddy_init` with `sz < level`, which
  `poptrie_init` never asks for.
* The overflow of `refs` beyond `INT_MAX`, and offsets beyond 2^31 cells.
* `buddy_free2` on an offset the client does not hold: its scan has no bound.
* A lookup beside an update: nothing in the repository runs concurrently. Comments speak of an atomic store
  (`poptrie_private.h:864`, `886`), but the replaced arrays are freed at once, so the code makes no promise to a reader
  that could be stated.
* What a caller may expect of the compressed trie after an update that failed, and of the slot of a route whose `poptrie_route_add`
  failed (a hazard in `PROJECT.json`): no document says what should hold. What does hold of the RIB and the FIB table is proved (section 6).
* The error paths of `poptrie_init` and `poptrie_release`: they run before and after everything else.
* SAIL: the scratch arrays of `Update` and the checks behind its `return`, which have no effect; what happens once a
  table has no chunk left.
* Tree bitmap: the printing and statistics functions; page colouring (`mm_color.c`, compiled out); the 128-bit shifts of
  `bitmap_v6.c`.
* Everything listed as `not_modelled` in `PROJECT.json`: vendored code, drivers and data.
