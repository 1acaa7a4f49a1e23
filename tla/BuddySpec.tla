----------------------------- MODULE BuddySpec -----------------------------
(***************************************************************************)
(* What the buddy system of modified_poptrie/buddy.c promises its client:  *)
(* the memory is cut into blocks, every cell lies in exactly one block,    *)
(* and two free buddies never stay apart.                                  *)
(*                                                                         *)
(* A block is <<lv, i>>: the i-th block of 2^lv cells.  The free lists are *)
(* sets here, so an allocation may take any free block of the level where  *)
(* buddy.c takes the head.  A call runs one recursion frame at a time; the *)
(* block the call is working on is in `hand'.                              *)
(***************************************************************************)
EXTENDS Integers

CONSTANTS
    Level,    \* number of block sizes (bs->level)
    Tops,     \* number of blocks of the largest size
    Size      \* Size[lv] is the number of cells of a block of level lv

Levels == 0 .. Level - 1

\* Size is the function 2^lv, given by what the proofs need of it: it starts
\* at 1 and doubles.
ASSUME SizeAssumption ==
    /\ Level \in Nat \ {0}
    /\ Tops \in Nat \ {0}
    /\ Size \in [Levels -> Nat]
    /\ Size[0] = 1
    /\ \A k \in Levels : k + 1 \in Levels => Size[k + 1] = 2 * Size[k]
    /\ \A k \in Levels : Size[k] > 0

VARIABLES
    free,     \* the blocks on the free lists
    held,     \* the blocks the client holds
    hand,     \* the set of blocks in the running call's hand: none or one
    mode,     \* "idle", "split" (in buddy_alloc2) or "merge" (in buddy_free2)
    want      \* the level an allocation asked for

vars == <<free, held, hand, mode, want>>

Block == Levels \X Nat

\* First cell of a block and first cell after it.
Lo(b) == b[2] * Size[b[1]]
Hi(b) == Lo(b) + Size[b[1]]

MemSize == Tops * Size[Level - 1]

\* The other half of the block b is a half of, and the block itself.
Buddy(b)  == <<b[1], IF b[2] % 2 = 0 THEN b[2] + 1 ELSE b[2] - 1>>
Parent(b) == <<b[1] + 1, b[2] \div 2>>
LeftHalf(b)  == <<b[1] - 1, 2 * b[2]>>
\* Mutant: both halves start at the same cell.
RightHalfSame(b) == <<b[1] - 1, 2 * b[2]>>
RightHalf(b) == <<b[1] - 1, 2 * b[2] + 1>>

\* The types of the variables; the hand is empty between two calls and never
\* holds two blocks.
TypeOK ==
    /\ free \subseteq Block
    /\ held \subseteq Block
    /\ hand \subseteq Block
    /\ \A b, c \in hand : b = c
    /\ mode \in {"idle", "split", "merge"}
    /\ mode = "idle" => hand = {}
    /\ want \in Levels

Init ==
    /\ free = {<<Level - 1, i>> : i \in 0 .. Tops - 1}
    /\ held = {}
    /\ hand = {}
    /\ mode = "idle"
    /\ want = 0

----------------------------------------------------------------------------
(* Allocation *)

\* The smallest level at or above sz that has a free block is the one an
\* allocation starts from.
StartsFrom(sz, b) ==
    /\ b \in free
    /\ b[1] >= sz
    /\ \A c \in free : c[1] >= sz => b[1] <= c[1]

BeginAlloc(sz, b) ==
    /\ mode = "idle"
    /\ StartsFrom(sz, b)
    /\ free' = free \ {b}
    /\ hand' = {b}
    /\ mode' = "split"
    /\ want' = sz
    /\ UNCHANGED held

\* Mutant: the right half is forgotten.
SplitLosesHalf(b) ==
    /\ mode = "split" /\ b \in hand /\ b[1] > want
    /\ hand' = {LeftHalf(b)}
    /\ UNCHANGED <<free, held, mode, want>>

\* One level of splitting: the right half goes to the free list.
Split(b) ==
    /\ mode = "split"
    /\ b \in hand
    /\ b[1] > want
    /\ free' = free \cup {RightHalf(b)}
    /\ hand' = {LeftHalf(b)}
    /\ UNCHANGED <<held, mode, want>>

EndAlloc(b) ==
    /\ mode = "split"
    /\ b \in hand
    /\ b[1] = want
    /\ held' = held \cup {b}
    /\ hand' = {}
    /\ mode' = "idle"
    /\ want' = 0
    /\ UNCHANGED free

----------------------------------------------------------------------------
(* Release *)

BeginFree(b) ==
    /\ mode = "idle"
    /\ b \in held
    /\ held' = held \ {b}
    /\ hand' = {b}
    /\ mode' = "merge"
    /\ UNCHANGED <<free, want>>

\* Mutants: no test for the largest size; a left half is never merged.
MergeableAtTop(b) == Buddy(b) \in free
MergeableFromRight(b) == b[1] + 1 \in Levels /\ b[2] % 2 = 1 /\ Buddy(b) \in free
Mergeable(b) == b[1] + 1 \in Levels /\ Buddy(b) \in free

Merge(b) ==
    /\ mode = "merge"
    /\ b \in hand
    /\ Mergeable(b)
    /\ free' = free \ {Buddy(b)}
    /\ hand' = {Parent(b)}
    /\ UNCHANGED <<held, mode, want>>

EndFree(b) ==
    /\ mode = "merge"
    /\ b \in hand
    /\ ~ Mergeable(b)
    /\ free' = free \cup {b}
    /\ hand' = {}
    /\ mode' = "idle"
    /\ UNCHANGED <<held, want>>

Next ==
    \/ \E sz \in Levels, b \in free : BeginAlloc(sz, b)
    \/ \E b \in hand : Split(b) \/ EndAlloc(b) \/ Merge(b) \/ EndFree(b)
    \/ \E b \in held : BeginFree(b)

Spec == Init /\ [][Next]_vars

----------------------------------------------------------------------------
(* Properties *)

AllBlocks == free \cup held \cup hand

\* The cells of two blocks do not meet.
Apart(b, c) == Hi(b) <= Lo(c) \/ Hi(c) <= Lo(b)

\* No cell belongs to two blocks: the client never holds memory that is on a
\* free list or that another of its blocks covers (buddy_alloc2, _split_buddy
\* and _merge only ever exchange a block for its two halves).
Disjoint ==
    /\ \A b, c \in AllBlocks : b # c => Apart(b, c)
    /\ free \cap held = {} /\ free \cap hand = {} /\ held \cap hand = {}

\* x is a cell of b.
In(x, b) == Lo(b) <= x /\ x < Hi(b)

\* No memory is lost: every cell of the pool lies in a block, whatever the
\* sequence of buddy_alloc2 and buddy_free2 calls.
Covered ==
    \A x \in 0 .. MemSize - 1 : \E b \in AllBlocks : In(x, b)

\* Two free buddies are always merged (_merge): fragmentation is never due to
\* a missed merge.
Coalesced ==
    \A b \in free : b[1] + 1 \in Levels => Buddy(b) \notin free

=============================================================================
