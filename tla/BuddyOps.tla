----------------------------- MODULE BuddyOps -----------------------------
(***************************************************************************)
(* The buddy system of modified_poptrie/buddy.c: singly linked free lists, *)
(* one per block size, and a bitmap that flags the last cell of every      *)
(* allocated block and is the only record of its size.                     *)
(*                                                                         *)
(* A pool is a record: pool.list[lv] is the free list of level lv, in      *)
(* order, and pool.flag the set of flagged cells.  The links that buddy.c  *)
(* keeps inside the free blocks are the order of the sequence.             *)
(* Module Buddy runs these functions frame by frame; module Poptrie calls  *)
(* buddy_alloc2 and buddy_free2 as a whole.                                *)
(***************************************************************************)
EXTENDS Integers, Sequences, SequencesExt, FiniteSetsExt

CONSTANTS Sz,       \* the pool has 2^Sz cells (bs->sz)
          Level     \* number of block sizes (bs->level)

\* poptrie_init calls buddy_init with sz = level.
ASSUME BuddyAssumption == Level \in Nat \ {0} /\ Sz \in Nat /\ Sz >= Level

Levels == 0 .. Level - 1
Cells  == 0 .. 2^Sz - 1

----------------------------------------------------------------------------
(* The functions of buddy.c on a pool *)

buddy_init ==
    [list |-> [lv \in Levels |->
                 IF lv = Level - 1
                 THEN [i \in 1 .. 2^(Sz - Level + 1) |-> (i - 1) * 2^lv]
                 ELSE <<>>],
     flag |-> {}]

\* Mutant: only the next level up is looked at.
SourceOneUp(pool, lv) ==
    LET usable == {k \in lv .. Level - 1 : k <= lv + 1 /\ pool.list[k] # <<>>}
    IN  IF usable = {} THEN -1 ELSE Min(usable)

\* The level whose head _split_buddy(lv) finds first on its way up, or -1.
SourceLevel(pool, lv) ==
    LET usable == {k \in lv .. Level - 1 : pool.list[k] # <<>>}
    IN  IF usable = {} THEN -1 ELSE Min(usable)

\* Mutant: the second half is placed a whole block further.
SplitTooFar(pool, lv) ==
    LET h == Head(pool.list[lv + 1])
    IN  [pool EXCEPT !.list[lv] = <<h, h + 2^(lv + 1)>>, !.list[lv + 1] = Tail(@)]

\* One frame of _split_buddy: the head of level lv + 1 becomes two blocks.
SplitLevel(pool, lv) ==
    LET h == Head(pool.list[lv + 1])
    IN  [pool EXCEPT !.list[lv] = <<h, h + 2^lv>>,
                     !.list[lv + 1] = Tail(@)]

\* Mutant: the first cell is flagged instead of the last.
TakeFlagsFirst(pool, lv) ==
    LET a == Head(pool.list[lv])
    IN  [pool EXCEPT !.list[lv] = Tail(@), !.flag = @ \cup {a}]

\* The end of buddy_alloc2: take the head, flag its last cell.
TakeHead(pool, lv) ==
    LET a == Head(pool.list[lv])
    IN  [pool EXCEPT !.list[lv] = Tail(@), !.flag = @ \cup {a + 2^lv - 1}]

\* The scan of buddy_free2 for the size of the block at a.  The code's loop
\* has no bound; it ends because the client only frees what it holds.
FlaggedSize(pool, a) == Min({lv \in Levels : a + 2^lv - 1 \in pool.flag})

\* buddy_free2 puts the block before the first larger one of its level.
InsertBlock(list, a) ==
    LET larger == {i \in DOMAIN list : a < list[i]}
        at     == IF larger = {} THEN Len(list) + 1 ELSE Min(larger)
    IN  InsertAt(list, at, a)

ReturnBlock(pool, a, lv) ==
    [pool EXCEPT !.flag = @ \ {a + 2^lv - 1}, !.list[lv] = InsertBlock(@, a)]

\* _merge goes on while the block one level up has no flagged cell.
Start(off, lv) == (off \div 2^lv) * 2^lv

CanMerge(pool, off, lv) ==
    /\ lv + 1 < Level
    /\ LET s == Start(off, lv + 1)
       IN  \A i \in 0 .. 2^(lv + 1) - 1 : s + i \notin pool.flag

\* A list without the block at a, which is on it at most once.
Unlinked(list, a) ==
    LET at == {i \in DOMAIN list : list[i] = a}
    IN  IF at = {} THEN list ELSE RemoveAt(list, Min(at))

\* Mutant: the right half stays on its list.
MergeKeepsRight(pool, off, lv) ==
    LET s == Start(off, lv + 1)
    IN  [pool EXCEPT !.list[lv] = Unlinked(@, s), !.list[lv + 1] = <<s>> \o @]

\* One frame of _merge: unlink both halves, push the whole one level up.
MergeLevel(pool, off, lv) ==
    LET s == Start(off, lv + 1)
    IN  [pool EXCEPT !.list[lv] = Unlinked(Unlinked(@, s), s + 2^lv),
                     !.list[lv + 1] = <<s>> \o @]

----------------------------------------------------------------------------
(* Whole calls *)

\* The levels from hi - 1 down to lo, and from lo up to hi - 1.
Down(hi, lo) == [i \in 1 .. hi - lo |-> hi - i]
Up(lo, hi)   == [i \in 1 .. hi - lo |-> lo + i - 1]

\* buddy_alloc2: the offset (-1 on failure) and the pool it leaves.
buddy_alloc2(pool, sz) ==
    LET Taken(cut) == [ret |-> Head(cut.list[sz]), pool |-> TakeHead(cut, sz)]
        From(src)  == IF src = -1 THEN [ret |-> -1, pool |-> pool]
                      ELSE Taken(FoldLeft(SplitLevel, pool, Down(src, sz)))
    IN  From(IF sz \in Levels THEN SourceLevel(pool, sz) ELSE -1)

\* buddy_free2: _merge never changes a flag, so the levels it merges are known
\* when the block is back on its list.
buddy_free2(pool, a) ==
    LET MergeAt(q, k) == MergeLevel(q, a, k)
        Top(back, lv) == Min({k \in lv .. Level - 1 : ~ CanMerge(back, a, k)})
        Merged(back, lv) == FoldLeft(MergeAt, back, Up(lv, Top(back, lv)))
        Freed(lv) == Merged(ReturnBlock(pool, a, lv), lv)
    IN  Freed(FlaggedSize(pool, a))

=============================================================================
