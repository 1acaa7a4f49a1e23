------------------------------- MODULE Buddy -------------------------------
(***************************************************************************)
(* A client of the buddy system of modified_poptrie/buddy.c.  A call runs  *)
(* one recursion frame at a time (`pc'), as _split_buddy and _merge do, and*)
(* nothing else happens before it returns.                                 *)
(***************************************************************************)
EXTENDS BuddyOps

VARIABLES
    pool,     \* the allocator's state
    held,     \* the blocks <<lv, off>> the client holds
    pc        \* the running call: op, the level it is at, its argument

vars == <<pool, held, pc>>

Idle == [op |-> "idle", lv |-> 0, arg |-> 0]

TypeOK ==
    /\ pool \in [list : [Levels -> Seq(Cells)], flag : SUBSET Cells]
    /\ held \subseteq Levels \X Cells
    /\ pc \in [op : {"idle", "split", "merge"}, lv : Levels, arg : Cells]

Init ==
    /\ pool = buddy_init
    /\ held = {}
    /\ pc = Idle

\* buddy_alloc2 with a size out of range, or with no block large enough,
\* returns -1 and changes nothing.
AllocFails(sz) ==
    /\ pc.op = "idle"
    /\ sz < 0 \/ sz >= Level \/ (sz \in Levels /\ SourceLevel(pool, sz) = -1)
    /\ UNCHANGED vars

AllocBegins(sz) ==
    /\ pc.op = "idle"
    /\ sz \in Levels
    /\ SourceLevel(pool, sz) # -1
    /\ pc' = [op |-> "split", lv |-> SourceLevel(pool, sz), arg |-> sz]
    /\ UNCHANGED <<pool, held>>

SplitFrame ==
    /\ pc.op = "split"
    /\ pc.lv > pc.arg
    /\ pool' = SplitLevel(pool, pc.lv - 1)
    /\ pc' = [pc EXCEPT !.lv = @ - 1]
    /\ UNCHANGED held

AllocReturns ==
    /\ pc.op = "split"
    /\ pc.lv = pc.arg
    /\ pool' = TakeHead(pool, pc.lv)
    /\ held' = held \cup {<<pc.lv, Head(pool.list[pc.lv])>>}
    /\ pc' = Idle

FreeBegins(a) ==
    /\ pc.op = "idle"
    /\ LET lv == FlaggedSize(pool, a)
       IN  /\ pool' = ReturnBlock(pool, a, lv)
           /\ pc' = [op |-> "merge", lv |-> lv, arg |-> a]
    /\ held' = {b \in held : b[2] # a}

\* Mutant: a frame that holds a right half waits for the left one.
MergeFrameWaits ==
    /\ pc.op = "merge"
    /\ CanMerge(pool, pc.arg, pc.lv)
    /\ IF pc.arg = Start(pc.arg, pc.lv + 1)
       THEN /\ pool' = MergeLevel(pool, pc.arg, pc.lv)
            /\ pc' = [pc EXCEPT !.lv = @ + 1]
            /\ UNCHANGED held
       ELSE UNCHANGED vars

MergeFrame ==
    /\ pc.op = "merge"
    /\ CanMerge(pool, pc.arg, pc.lv)
    /\ pool' = MergeLevel(pool, pc.arg, pc.lv)
    /\ pc' = [pc EXCEPT !.lv = @ + 1, !.arg = Start(@, pc.lv + 1)]
    /\ UNCHANGED held

FreeReturns ==
    /\ pc.op = "merge"
    /\ ~ CanMerge(pool, pc.arg, pc.lv)
    /\ pc' = Idle
    /\ UNCHANGED <<pool, held>>

Next ==
    \/ \E sz \in -1 .. Level : AllocFails(sz) \/ AllocBegins(sz)
    \/ SplitFrame
    \/ AllocReturns
    \/ \E b \in held : FreeBegins(b[2])
    \/ MergeFrame
    \/ FreeReturns

Spec == Init /\ [][Next]_vars

\* A call that has begun keeps running; nobody has to call.
Frame == SplitFrame \/ AllocReturns \/ MergeFrame \/ FreeReturns
FairSpec == Spec /\ WF_vars(Frame)

----------------------------------------------------------------------------
(* Properties *)

\* The bitmap alone gives every held block its size back: the scan of
\* buddy_free2 from the smallest size meets no flag of another block first,
\* whatever was split, freed and merged around it.
SizeRecovered ==
    \A b \in held : /\ b[2] + 2^b[1] - 1 \in pool.flag
                    /\ FlaggedSize(pool, b[2]) = b[1]

\* buddy_alloc2 fails only when memory is really too fragmented: an idle pool
\* that has an aligned run of 2^sz cells outside every held block serves sz.
BlockCells(lv, off) == off .. off + 2^lv - 1
Occupied == UNION {BlockCells(b[1], b[2]) : b \in held}

FailsOnlyWhenFull ==
    pc.op = "idle" =>
      \A sz \in Levels :
        SourceLevel(pool, sz) = -1 =>
          \A i \in 0 .. 2^(Sz - sz) - 1 : BlockCells(sz, i * 2^sz) \cap Occupied # {}

\* Every call ends: an allocation that found a block large enough splits it down to
\* the size asked for and hands one of that size out, and a release that merges its
\* way up stops at the top or at the first buddy in use.
CallsReturn ==
    /\ \A sz \in Levels :
          (pc.op = "split" /\ pc.arg = sz) ~> (pc.op = "idle" /\ \E b \in held : b[1] = sz)
    /\ pc.op = "merge" ~> pc.op = "idle"

----------------------------------------------------------------------------
(* The lists implement the sets of BuddySpec.  While a call splits, the    *)
(* block in its hand is the head of the list it has reached; while it      *)
(* merges, it is the block it has just put on a list.                      *)

Indexed(lv, off) == <<lv, off \div 2^lv>>
Listed == UNION {{Indexed(lv, pool.list[lv][i]) : i \in DOMAIN pool.list[lv]} : lv \in Levels}
InHand ==
    CASE pc.op = "idle"  -> {}
      [] pc.op = "split" -> {Indexed(pc.lv, Head(pool.list[pc.lv]))}
      [] pc.op = "merge" -> {Indexed(pc.lv, pc.arg)}

Promise == INSTANCE BuddySpec WITH
    Tops <- 2^(Sz - Level + 1),
    Size <- [lv \in Levels |-> 2^lv],
    free <- Listed \ InHand,
    held <- {Indexed(b[1], b[2]) : b \in held},
    hand <- InHand,
    mode <- pc.op,
    want <- IF pc.op = "split" THEN pc.arg ELSE 0

\* Every call of buddy.c behaves as BuddySpec says: what the lists and the
\* bitmap do amounts to exchanging blocks for their halves and back, and the
\* bitmap test of _merge succeeds exactly when the buddy is on its free list.
ImplementsBuddySpec == Promise!Spec

=============================================================================
