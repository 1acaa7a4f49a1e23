-------------------------- MODULE BuddySpecProofs --------------------------
(***************************************************************************)
(* Proofs about BuddySpec, for every number of levels and of top blocks.   *)
(* The geometry of halves comes first (the only place where cells are      *)
(* multiplied); then each action is shown to exchange blocks for blocks    *)
(* with the same cells.                                                    *)
(***************************************************************************)
EXTENDS BuddySpec, WellFoundedInduction, TLAPS

----------------------------------------------------------------------------
(* Geometry *)

\* Doubling the index and halving the size name the same cell.
LEMMA Doubling ==
  ASSUME NEW i \in Nat, NEW s \in Nat
  PROVE  /\ (2 * i) * s = i * (2 * s)
         /\ (2 * i + 1) * s = i * (2 * s) + s
  OBVIOUS

\* The cells of a block are integers, and there is at least one.
LEMMA BlockBounds ==
  ASSUME NEW b \in Block
  PROVE  /\ Lo(b) \in Nat /\ Hi(b) \in Nat
         /\ Lo(b) < Hi(b)
<1>1. b[1] \in Levels /\ b[2] \in Nat
  BY DEF Block
<1>2. Size[b[1]] \in Nat /\ Size[b[1]] > 0
  BY <1>1, SizeAssumption
<1>3. b[2] * Size[b[1]] \in Nat
  BY <1>1, <1>2
<1> QED
  BY <1>2, <1>3 DEF Lo, Hi

\* The two halves of a block share its cells between them (_split_buddy).
LEMMA Halves ==
  ASSUME NEW b \in Block, b[1] > 0
  PROVE  /\ LeftHalf(b) \in Block /\ RightHalf(b) \in Block
         /\ Lo(LeftHalf(b)) = Lo(b)
         /\ Hi(LeftHalf(b)) = Lo(RightHalf(b))
         /\ Hi(RightHalf(b)) = Hi(b)
<1> DEFINE k == b[1] - 1
           s == Size[k]
<1>1. b[1] \in Levels /\ b[2] \in Nat /\ k \in Levels
  BY SizeAssumption DEF Block, Levels
<1>2. s \in Nat /\ Size[b[1]] = 2 * s
  <2>1. k + 1 = b[1]
    BY <1>1 DEF Levels
  <2> QED
    BY <1>1, <2>1, SizeAssumption
<1>3. LeftHalf(b) \in Block /\ RightHalf(b) \in Block
  BY <1>1 DEF LeftHalf, RightHalf, Block
<1>4. Lo(LeftHalf(b)) = (2 * b[2]) * s /\ Hi(LeftHalf(b)) = (2 * b[2]) * s + s
  BY DEF LeftHalf, Lo, Hi
<1>5. Lo(RightHalf(b)) = (2 * b[2] + 1) * s /\ Hi(RightHalf(b)) = (2 * b[2] + 1) * s + s
  BY DEF RightHalf, Lo, Hi
<1>6. Lo(b) = b[2] * (2 * s) /\ Hi(b) = b[2] * (2 * s) + 2 * s
  BY <1>2 DEF Lo, Hi
<1>7. (2 * b[2]) * s = b[2] * (2 * s) /\ (2 * b[2] + 1) * s = b[2] * (2 * s) + s
  BY <1>1, <1>2, Doubling
<1>8. b[2] * (2 * s) \in Nat
  BY <1>1, <1>2
<1> HIDE DEF s
<1> QED
  BY <1>2, <1>3, <1>4, <1>5, <1>6, <1>7, <1>8

\* A block and its buddy are the halves of its parent, in one order or the
\* other (_merge).
LEMMA BuddyIsOtherHalf ==
  ASSUME NEW b \in Block, b[1] + 1 \in Levels
  PROVE  /\ Parent(b) \in Block /\ Parent(b)[1] > 0
         /\ \/ b = LeftHalf(Parent(b)) /\ Buddy(b) = RightHalf(Parent(b))
            \/ b = RightHalf(Parent(b)) /\ Buddy(b) = LeftHalf(Parent(b))
<1> DEFINE h == b[2] \div 2
<1>1. b[1] \in Levels /\ b[2] \in Nat /\ b = <<b[1], b[2]>> /\ b[1] \in Nat
  BY DEF Block, Levels
<1>2. h \in Nat /\ (b[2] % 2 = 0 => b[2] = 2 * h) /\ (b[2] % 2 # 0 => b[2] = 2 * h + 1)
  BY <1>1
<1> HIDE DEF h
<1>3. Parent(b) = <<b[1] + 1, h>>
  BY DEF Parent, h
<1>4. Parent(b) \in Block /\ Parent(b)[1] > 0
  BY <1>1, <1>2, <1>3 DEF Block
<1>5. LeftHalf(Parent(b)) = <<b[1], 2 * h>> /\ RightHalf(Parent(b)) = <<b[1], 2 * h + 1>>
  BY <1>1, <1>3 DEF LeftHalf, RightHalf
<1>6. CASE b[2] % 2 = 0
  <2>1. b = <<b[1], 2 * h>> /\ Buddy(b) = <<b[1], 2 * h + 1>>
    BY <1>1, <1>2, <1>6 DEF Buddy
  <2> QED
    BY <2>1, <1>4, <1>5
<1>7. CASE b[2] % 2 # 0
  <2>1. b = <<b[1], 2 * h + 1>> /\ Buddy(b) = <<b[1], 2 * h>>
    BY <1>1, <1>2, <1>7 DEF Buddy
  <2> QED
    BY <2>1, <1>4, <1>5
<1> QED
  BY <1>6, <1>7

\* Being the buddy is symmetric, and no block is its own buddy.
LEMMA BuddyOfBuddy ==
  ASSUME NEW b \in Block
  PROVE  Buddy(b) \in Block /\ Buddy(b)[1] = b[1] /\ Buddy(Buddy(b)) = b /\ Buddy(b) # b
<1>1. b[1] \in Levels /\ b[2] \in Nat /\ b = <<b[1], b[2]>>
  BY DEF Block
<1>2. CASE b[2] % 2 = 0
  <2>1. Buddy(b) = <<b[1], b[2] + 1>> /\ (b[2] + 1) % 2 # 0
    BY <1>1, <1>2 DEF Buddy
  <2>2. Buddy(<<b[1], b[2] + 1>>) = <<b[1], (b[2] + 1) - 1>>
    BY <1>1, <2>1 DEF Buddy
  <2> QED
    BY <1>1, <2>1, <2>2 DEF Block
<1>3. CASE b[2] % 2 # 0
  <2>1. Buddy(b) = <<b[1], b[2] - 1>> /\ (b[2] - 1) % 2 = 0 /\ b[2] - 1 \in Nat
    BY <1>1, <1>3 DEF Buddy
  <2>2. Buddy(<<b[1], b[2] - 1>>) = <<b[1], (b[2] - 1) + 1>>
    BY <1>1, <2>1 DEF Buddy
  <2> QED
    BY <1>1, <2>1, <2>2 DEF Block
<1> QED
  BY <1>2, <1>3

----------------------------------------------------------------------------
(* Type correctness *)

LEMMA TypeOK_Init == Init => TypeOK
<1> SUFFICES ASSUME Init PROVE TypeOK
  OBVIOUS
<1>1. free \subseteq Block
  BY SizeAssumption DEF Init, Block, Levels
<1>2. 0 \in Levels
  BY SizeAssumption DEF Levels
<1> QED
  BY <1>1, <1>2 DEF Init, TypeOK

LEMMA TypeOK_Next == TypeOK /\ [Next]_vars => TypeOK'
<1> SUFFICES ASSUME TypeOK, [Next]_vars PROVE TypeOK'
  OBVIOUS
<1> USE DEF TypeOK
<1>1. ASSUME NEW sz \in Levels, NEW b \in free, BeginAlloc(sz, b) PROVE TypeOK'
  BY <1>1 DEF BeginAlloc
<1>2. ASSUME NEW b \in hand, Split(b) PROVE TypeOK'
  <2>1. b \in Block /\ b[1] > 0
    BY <1>2 DEF Split, Block, Levels
  <2>2. LeftHalf(b) \in Block /\ RightHalf(b) \in Block
    BY <2>1, Halves
  <2> QED
    BY <1>2, <2>2 DEF Split
<1>3. ASSUME NEW b \in hand, EndAlloc(b) PROVE TypeOK'
  <2>1. 0 \in Levels
    BY SizeAssumption DEF Levels
  <2> QED
    BY <1>3, <2>1 DEF EndAlloc
<1>4. ASSUME NEW b \in hand, Merge(b) PROVE TypeOK'
  <2>1. b \in Block /\ b[1] + 1 \in Levels
    BY <1>4 DEF Merge, Mergeable
  <2>2. Parent(b) \in Block
    BY <2>1, BuddyIsOtherHalf
  <2> QED
    BY <1>4, <2>2 DEF Merge
<1>5. ASSUME NEW b \in hand, EndFree(b) PROVE TypeOK'
  BY <1>5 DEF EndFree
<1>6. ASSUME NEW b \in held, BeginFree(b) PROVE TypeOK'
  BY <1>6 DEF BeginFree
<1>7. CASE UNCHANGED vars
  BY <1>7 DEF vars
<1> QED
  BY <1>1, <1>2, <1>3, <1>4, <1>5, <1>6, <1>7 DEF Next

\* Every variable keeps its type, and the hand never holds two blocks
\* (buddy_alloc2, _split_buddy, buddy_free2, _merge).
THEOREM TypeCorrect == Spec => []TypeOK
<1> QED
  BY TypeOK_Init, TypeOK_Next, PTL DEF Spec

----------------------------------------------------------------------------
(* Disjointness.  Disjoint is inductive once the types are known: every     *)
(* action moves a block or exchanges it for blocks that fill its cells.     *)

\* Apart is symmetric, and no block is apart from itself.
LEMMA ApartFacts ==
  ASSUME NEW b \in Block, NEW c \in Block
  PROVE  /\ Apart(b, c) => Apart(c, b) /\ b # c
  BY BlockBounds DEF Apart

\* What lies apart from a block lies apart from its halves, and these from
\* each other.
LEMMA ApartHalves ==
  ASSUME NEW b \in Block, b[1] > 0
  PROVE  /\ Apart(LeftHalf(b), RightHalf(b))
         /\ \A c \in Block : Apart(b, c) => Apart(LeftHalf(b), c) /\ Apart(RightHalf(b), c)
         /\ ~ Apart(b, RightHalf(b)) /\ ~ Apart(b, LeftHalf(b))
<1>1. /\ LeftHalf(b) \in Block /\ RightHalf(b) \in Block
      /\ Lo(LeftHalf(b)) = Lo(b)
      /\ Hi(LeftHalf(b)) = Lo(RightHalf(b))
      /\ Hi(RightHalf(b)) = Hi(b)
  BY Halves
<1>2. \A c \in Block : Lo(c) \in Nat /\ Hi(c) \in Nat /\ Lo(c) < Hi(c)
  BY BlockBounds
<1>3. /\ Lo(LeftHalf(b)) < Hi(LeftHalf(b)) /\ Lo(RightHalf(b)) < Hi(RightHalf(b))
      /\ Lo(b) \in Nat /\ Hi(b) \in Nat /\ Lo(RightHalf(b)) \in Nat /\ Lo(b) < Hi(b)
  BY <1>1, <1>2
<1> QED
  BY <1>1, <1>2, <1>3 DEF Apart

\* What lies apart from both halves lies apart from the whole.
LEMMA ApartParent ==
  ASSUME NEW b \in Block, b[1] > 0, NEW c \in Block,
         Apart(LeftHalf(b), c), Apart(RightHalf(b), c)
  PROVE  Apart(b, c)
<1>1. /\ LeftHalf(b) \in Block /\ RightHalf(b) \in Block
      /\ Lo(LeftHalf(b)) = Lo(b)
      /\ Hi(LeftHalf(b)) = Lo(RightHalf(b))
      /\ Hi(RightHalf(b)) = Hi(b)
  BY Halves
<1>2. /\ Lo(c) \in Nat /\ Hi(c) \in Nat /\ Lo(c) < Hi(c)
      /\ Lo(b) \in Nat /\ Hi(b) \in Nat /\ Lo(RightHalf(b)) \in Nat
      /\ Lo(b) < Lo(RightHalf(b)) /\ Lo(RightHalf(b)) < Hi(b)
  BY <1>1, BlockBounds
<1> QED
  BY <1>1, <1>2 DEF Apart

LEMMA Disjoint_Init == Init => Disjoint
<1> SUFFICES ASSUME Init, NEW b \in AllBlocks, NEW c \in AllBlocks, b # c
             PROVE  Apart(b, c)
  BY DEF Init, Disjoint
<1>1. PICK i \in 0 .. Tops - 1, j \in 0 .. Tops - 1 :
        b = <<Level - 1, i>> /\ c = <<Level - 1, j>> /\ i # j
  BY DEF Init, AllBlocks
<1> DEFINE s == Size[Level - 1]
<1>2. s \in Nat /\ i \in Nat /\ j \in Nat
  BY SizeAssumption DEF Levels
<1>3. Lo(b) = i * s /\ Hi(b) = i * s + s /\ Lo(c) = j * s /\ Hi(c) = j * s + s
  BY <1>1 DEF Lo, Hi
<1> HIDE DEF s
<1>4. CASE i + 1 <= j
  <2>1. (i + 1) * s <= j * s
    BY <1>2, <1>4
  <2> QED
    BY <1>2, <1>3, <2>1 DEF Apart
<1>5. CASE j + 1 <= i
  <2>1. (j + 1) * s <= i * s
    BY <1>2, <1>5
  <2> QED
    BY <1>2, <1>3, <2>1 DEF Apart
<1> QED
  BY <1>1, <1>2, <1>4, <1>5

\* A step that only moves blocks between the three sets.
LEMMA Disjoint_Move ==
  ASSUME Disjoint, AllBlocks' = AllBlocks,
         free' \cap held' = {}, free' \cap hand' = {}, held' \cap hand' = {}
  PROVE  Disjoint'
  BY DEF Disjoint, Apart, Lo, Hi

\* _split_buddy: the halves are apart from each other and from the rest.
LEMMA Disjoint_Split ==
  ASSUME TypeOK, Disjoint, NEW b \in hand, Split(b)
  PROVE  Disjoint'
<1> DEFINE L == LeftHalf(b)
           R == RightHalf(b)
           Rest == AllBlocks \ {b}
<1>1. b \in Block /\ b[1] > 0 /\ hand = {b} /\ AllBlocks \subseteq Block
  BY DEF TypeOK, Split, Block, Levels, AllBlocks
<1>2. free' = free \cup {R} /\ held' = held /\ hand' = {L}
  BY DEF Split
<1>3. AllBlocks' = Rest \cup {L, R} /\ free \subseteq Rest /\ held \subseteq Rest
  BY <1>1, <1>2 DEF AllBlocks, Disjoint
<1>4. \A c \in Rest : Apart(b, c)
  BY <1>1 DEF Disjoint, AllBlocks
<1>5. L \in Block /\ R \in Block
  BY <1>1, Halves
<1>6. /\ Apart(L, R) /\ Apart(R, L)
      /\ \A c \in Rest : Apart(L, c) /\ Apart(c, L) /\ Apart(R, c) /\ Apart(c, R)
  BY <1>1, <1>4, <1>5, ApartHalves, ApartFacts
<1>7. L # R /\ L \notin Rest /\ R \notin Rest
  BY <1>1, <1>5, <1>6, ApartFacts
<1> HIDE DEF L, R, Rest
<1>8. \A c, d \in AllBlocks' : c # d => Apart(c, d)
  <2>1. \A c, d \in Rest : c # d => Apart(c, d)
    BY DEF Rest, Disjoint
  <2> QED
    BY <2>1, <1>3, <1>6
<1>9. free' \cap held' = {} /\ free' \cap hand' = {} /\ held' \cap hand' = {}
  BY <1>2, <1>3, <1>7 DEF Disjoint
<1> QED
  BY <1>8, <1>9 DEF Disjoint, Apart, Lo, Hi

\* _merge: what is apart from both buddies is apart from their parent.
LEMMA Disjoint_Merge ==
  ASSUME TypeOK, Disjoint, NEW b \in hand, Merge(b)
  PROVE  Disjoint'
<1> DEFINE B == Buddy(b)
           P == Parent(b)
           Rest == AllBlocks \ {b, B}
<1>1. b \in Block /\ b[1] + 1 \in Levels /\ hand = {b} /\ B \in free /\ AllBlocks \subseteq Block
  BY DEF TypeOK, Merge, Mergeable, AllBlocks
<1>2. free' = free \ {B} /\ held' = held /\ hand' = {P}
  BY DEF Merge
<1>3. /\ P \in Block /\ P[1] > 0
      /\ \/ b = LeftHalf(P) /\ B = RightHalf(P)
         \/ b = RightHalf(P) /\ B = LeftHalf(P)
  BY <1>1, BuddyIsOtherHalf
<1>4. AllBlocks' = Rest \cup {P} /\ free \ {B} \subseteq Rest /\ held \subseteq Rest
  BY <1>1, <1>2 DEF AllBlocks, Disjoint
<1>5. \A c \in Rest : c \in Block /\ Apart(b, c) /\ Apart(B, c)
  BY <1>1 DEF Disjoint, AllBlocks
<1> HIDE DEF B, P, Rest
<1>6. \A c \in Rest : Apart(P, c) /\ Apart(c, P)
  <2> TAKE c \in Rest
  <2>1. c \in Block /\ Apart(LeftHalf(P), c) /\ Apart(RightHalf(P), c)
    BY <1>3, <1>5
  <2> QED
    BY <1>3, <2>1, ApartParent, ApartFacts
<1>7. P \notin Rest
  BY <1>3, <1>6, ApartFacts
<1>8. \A c, d \in AllBlocks' : c # d => Apart(c, d)
  <2>1. \A c, d \in Rest : c # d => Apart(c, d)
    BY DEF Rest, Disjoint
  <2> QED
    BY <2>1, <1>4, <1>6
<1>9. free' \cap held' = {} /\ free' \cap hand' = {} /\ held' \cap hand' = {}
  BY <1>2, <1>4, <1>7 DEF Disjoint
<1> QED
  BY <1>8, <1>9 DEF Disjoint, Apart, Lo, Hi

LEMMA Disjoint_Next == TypeOK /\ Disjoint /\ [Next]_vars => Disjoint'
<1> SUFFICES ASSUME TypeOK, Disjoint, [Next]_vars PROVE Disjoint'
  OBVIOUS
<1>1. ASSUME NEW sz \in Levels, NEW b \in free, BeginAlloc(sz, b) PROVE Disjoint'
  BY <1>1, Disjoint_Move DEF BeginAlloc, TypeOK, AllBlocks, Disjoint
<1>2. ASSUME NEW b \in hand, Split(b) PROVE Disjoint'
  BY <1>2, Disjoint_Split
<1>3. ASSUME NEW b \in hand, EndAlloc(b) PROVE Disjoint'
  BY <1>3, Disjoint_Move DEF EndAlloc, TypeOK, AllBlocks, Disjoint
<1>4. ASSUME NEW b \in hand, Merge(b) PROVE Disjoint'
  BY <1>4, Disjoint_Merge
<1>5. ASSUME NEW b \in hand, EndFree(b) PROVE Disjoint'
  BY <1>5, Disjoint_Move DEF EndFree, TypeOK, AllBlocks, Disjoint
<1>6. ASSUME NEW b \in held, BeginFree(b) PROVE Disjoint'
  BY <1>6, Disjoint_Move DEF BeginFree, TypeOK, AllBlocks, Disjoint
<1>7. CASE UNCHANGED vars
  BY <1>7 DEF vars, Disjoint, AllBlocks, Apart, Lo, Hi
<1> QED
  BY <1>1, <1>2, <1>3, <1>4, <1>5, <1>6, <1>7 DEF Next

\* No cell belongs to two blocks, whatever is allocated and freed
\* (buddy_alloc2, buddy_free2).
THEOREM BlocksDisjoint == Spec => []Disjoint
<1>1. TypeOK /\ Disjoint /\ [Next]_vars => (TypeOK /\ Disjoint)'
  BY TypeOK_Next, Disjoint_Next
<1> QED
  BY <1>1, TypeOK_Init, Disjoint_Init, PTL DEF Spec

----------------------------------------------------------------------------
(* Coalescing.  A split never creates two free buddies because the other    *)
(* half is in the hand, and so not free: this is where Disjoint is needed.  *)

LEMMA Coalesced_Init == Init => Coalesced
<1> SUFFICES ASSUME Init, NEW b \in free, b[1] + 1 \in Levels PROVE FALSE
  BY DEF Coalesced
<1>1. b[1] = Level - 1
  BY DEF Init
<1> QED
  BY <1>1, SizeAssumption DEF Levels

\* A free list that only shrinks.
LEMMA Coalesced_Shrink ==
  ASSUME Coalesced, free' \subseteq free
  PROVE  Coalesced'
  BY DEF Coalesced, Levels, Buddy

\* A block joins the free blocks and its buddy is not one of them.
LEMMA Coalesced_Grow ==
  ASSUME TypeOK, Coalesced, NEW b \in Block, free' = free \cup {b},
         b[1] + 1 \in Levels => Buddy(b) \notin free
  PROVE  Coalesced'
<1> SUFFICES ASSUME NEW c \in free', c[1] + 1 \in Levels, Buddy(c) \in free'
             PROVE  FALSE
  BY DEF Coalesced, Levels, Buddy
<1>1. c \in Block
  BY DEF TypeOK
<1>2. Buddy(c)[1] = c[1] /\ Buddy(Buddy(c)) = c /\ Buddy(c) # c
  BY <1>1, BuddyOfBuddy
<1>3. CASE c \in free /\ Buddy(c) \in free
  BY <1>3 DEF Coalesced
<1>4. CASE c \in free /\ Buddy(c) = b
  BY <1>2, <1>4
<1>5. CASE c = b
  BY <1>2, <1>5
<1> QED
  BY <1>3, <1>4, <1>5

\* _split_buddy puts the right half on its list while the left half is in the
\* hand.
LEMMA Coalesced_Split ==
  ASSUME TypeOK, Disjoint, Coalesced, NEW b \in hand, Split(b)
  PROVE  Coalesced'
<1> DEFINE L == LeftHalf(b)
           R == RightHalf(b)
<1>1. b \in Block /\ b[1] > 0
  BY DEF TypeOK, Split, Block, Levels
<1>2. L \in Block /\ R \in Block
  BY <1>1, Halves
<1>3. Buddy(R) = L
  BY <1>1, SizeAssumption DEF LeftHalf, RightHalf, Buddy, Block
<1>4. ~ Apart(b, L)
  BY <1>1, ApartHalves
<1>5. L # b
  BY <1>1 DEF LeftHalf, Block, Levels
<1>6. L \notin free
  BY <1>4, <1>5 DEF Disjoint, AllBlocks
<1>7. free' = free \cup {R}
  BY DEF Split
<1> HIDE DEF L, R
<1> QED
  BY <1>2, <1>3, <1>6, <1>7, Coalesced_Grow

LEMMA Coalesced_Next == TypeOK /\ Disjoint /\ Coalesced /\ [Next]_vars => Coalesced'
<1> SUFFICES ASSUME TypeOK, Disjoint, Coalesced, [Next]_vars PROVE Coalesced'
  OBVIOUS
<1>1. ASSUME NEW sz \in Levels, NEW b \in free, BeginAlloc(sz, b) PROVE Coalesced'
  BY <1>1, Coalesced_Shrink DEF BeginAlloc
<1>2. ASSUME NEW b \in hand, Split(b) PROVE Coalesced'
  BY <1>2, Coalesced_Split
<1>3. ASSUME NEW b \in hand, EndAlloc(b) PROVE Coalesced'
  BY <1>3, Coalesced_Shrink DEF EndAlloc
<1>4. ASSUME NEW b \in hand, Merge(b) PROVE Coalesced'
  BY <1>4, Coalesced_Shrink DEF Merge
<1>5. ASSUME NEW b \in hand, EndFree(b) PROVE Coalesced'
  BY <1>5, Coalesced_Grow DEF EndFree, Mergeable, TypeOK
<1>6. ASSUME NEW b \in held, BeginFree(b) PROVE Coalesced'
  BY <1>6, Coalesced_Shrink DEF BeginFree
<1>7. CASE UNCHANGED vars
  BY <1>7, Coalesced_Shrink DEF vars
<1> QED
  BY <1>1, <1>2, <1>3, <1>4, <1>5, <1>6, <1>7 DEF Next

\* Two free buddies never stay apart (_merge goes as far as it can, and
\* _split_buddy never leaves both halves on a list).
THEOREM BuddiesCoalesced == Spec => []Coalesced
<1>1. TypeOK /\ Disjoint /\ Coalesced /\ [Next]_vars => (TypeOK /\ Disjoint /\ Coalesced)'
  BY TypeOK_Next, Disjoint_Next, Coalesced_Next
<1> QED
  BY <1>1, TypeOK_Init, Disjoint_Init, Coalesced_Init, PTL DEF Spec

----------------------------------------------------------------------------
(* No memory is lost                                                        *)

\* Every cell of the pool is in one of the initial blocks (buddy_init).
LEMMA Covered_Init == Init => Covered
<1> SUFFICES ASSUME Init, NEW x \in 0 .. MemSize - 1
             PROVE  \E b \in free : In(x, b)
  BY DEF Covered, AllBlocks
<1> DEFINE s == Size[Level - 1]
           i == x \div s
<1>1. s \in Nat /\ s > 0 /\ Tops \in Nat
  BY SizeAssumption DEF Levels
<1>2. x \in Nat /\ x < Tops * s
  <2>1. Tops * s \in Nat
    BY <1>1
  <2> QED
    BY <2>1 DEF MemSize
<1> HIDE DEF s
<1>3. i \in Nat /\ i * s <= x /\ x < i * s + s
  BY <1>1, <1>2, Z3
<1>4. i < Tops
  <2>1. SUFFICES ASSUME Tops <= i PROVE FALSE
    BY <1>1, <1>3
  <2>2. Tops * s <= i * s
    BY <1>1, <1>3, <2>1
  <2> QED
    BY <1>2, <1>3, <2>2, <1>1
<1>5. <<Level - 1, i>> \in free
  BY <1>1, <1>3, <1>4 DEF Init
<1>6. Lo(<<Level - 1, i>>) = i * s /\ Hi(<<Level - 1, i>>) = i * s + s
  BY DEF Lo, Hi, s
<1> QED
  BY <1>3, <1>5, <1>6 DEF In

\* Every block is replaced by blocks that have all its cells.
LEMMA Covered_Step ==
  ASSUME Covered,
         \A b \in AllBlocks : \A x \in Int : In(x, b) => \E c \in AllBlocks' : In(x, c)
  PROVE  Covered'
  BY DEF Covered, In, Lo, Hi, MemSize

LEMMA Covered_Next == TypeOK /\ Covered /\ [Next]_vars => Covered'
<1> SUFFICES ASSUME TypeOK, Covered, [Next]_vars PROVE Covered'
  OBVIOUS
<1>1. ASSUME NEW sz \in Levels, NEW b \in free, BeginAlloc(sz, b) PROVE Covered'
  <2>1. AllBlocks' = AllBlocks
    BY <1>1 DEF BeginAlloc, AllBlocks, TypeOK
  <2> QED
    BY <2>1, Covered_Step
<1>2. ASSUME NEW b \in hand, Split(b) PROVE Covered'
  <2>1. b \in Block /\ b[1] > 0 /\ hand = {b}
    BY <1>2 DEF TypeOK, Split, Block, Levels
  <2>2. AllBlocks \ {b} \subseteq AllBlocks' /\ LeftHalf(b) \in AllBlocks' /\ RightHalf(b) \in AllBlocks'
    BY <1>2, <2>1 DEF Split, AllBlocks
  <2>3. \A x \in Int : In(x, b) => In(x, LeftHalf(b)) \/ In(x, RightHalf(b))
    <3>1. /\ LeftHalf(b) \in Block /\ RightHalf(b) \in Block
          /\ Lo(LeftHalf(b)) = Lo(b)
          /\ Hi(LeftHalf(b)) = Lo(RightHalf(b))
          /\ Hi(RightHalf(b)) = Hi(b)
      BY <2>1, Halves
    <3>2. Lo(RightHalf(b)) \in Nat /\ Lo(b) \in Nat /\ Hi(b) \in Nat
      BY <2>1, <3>1, BlockBounds
    <3> QED
      BY <3>1, <3>2 DEF In
  <2> QED
    BY <2>2, <2>3, Covered_Step
<1>3. ASSUME NEW b \in hand, EndAlloc(b) PROVE Covered'
  <2>1. AllBlocks' = AllBlocks
    BY <1>3 DEF EndAlloc, AllBlocks, TypeOK
  <2> QED
    BY <2>1, Covered_Step
<1>4. ASSUME NEW b \in hand, Merge(b) PROVE Covered'
  <2> DEFINE B == Buddy(b)
             P == Parent(b)
  <2>1. b \in Block /\ b[1] + 1 \in Levels /\ hand = {b}
    BY <1>4 DEF TypeOK, Merge, Mergeable
  <2>2. AllBlocks \ {b, B} \subseteq AllBlocks' /\ P \in AllBlocks'
    BY <1>4, <2>1 DEF Merge, AllBlocks
  <2>3. /\ P \in Block /\ P[1] > 0
        /\ \/ b = LeftHalf(P) /\ B = RightHalf(P)
           \/ b = RightHalf(P) /\ B = LeftHalf(P)
    BY <2>1, BuddyIsOtherHalf
  <2> HIDE DEF B, P
  <2>4. \A x \in Int : In(x, LeftHalf(P)) \/ In(x, RightHalf(P)) => In(x, P)
    <3>1. /\ LeftHalf(P) \in Block /\ RightHalf(P) \in Block
          /\ Lo(LeftHalf(P)) = Lo(P)
          /\ Hi(LeftHalf(P)) = Lo(RightHalf(P))
          /\ Hi(RightHalf(P)) = Hi(P)
      BY <2>3, Halves
    <3>2. /\ Lo(RightHalf(P)) \in Nat /\ Lo(P) \in Nat /\ Hi(P) \in Nat
          /\ Lo(P) < Lo(RightHalf(P)) /\ Lo(RightHalf(P)) < Hi(P)
      BY <2>3, <3>1, BlockBounds
    <3> QED
      BY <3>1, <3>2 DEF In
  <2>5. \A x \in Int : In(x, b) \/ In(x, B) => In(x, P)
    BY <2>3, <2>4
  <2> QED
    BY <2>2, <2>5, Covered_Step
<1>5. ASSUME NEW b \in hand, EndFree(b) PROVE Covered'
  <2>1. AllBlocks' = AllBlocks
    BY <1>5 DEF EndFree, AllBlocks, TypeOK
  <2> QED
    BY <2>1, Covered_Step
<1>6. ASSUME NEW b \in held, BeginFree(b) PROVE Covered'
  <2>1. AllBlocks' = AllBlocks
    BY <1>6 DEF BeginFree, AllBlocks, TypeOK
  <2> QED
    BY <2>1, Covered_Step
<1>7. CASE UNCHANGED vars
  <2>1. AllBlocks' = AllBlocks
    BY <1>7 DEF vars, AllBlocks
  <2> QED
    BY <2>1, Covered_Step
<1> QED
  BY <1>1, <1>2, <1>3, <1>4, <1>5, <1>6, <1>7 DEF Next

\* Every cell of the pool stays in some block: nothing is lost between
\* buddy_alloc2 and buddy_free2.
THEOREM NothingLost == Spec => []Covered
<1>1. TypeOK /\ Covered /\ [Next]_vars => (TypeOK /\ Covered)'
  BY TypeOK_Next, Covered_Next
<1> QED
  BY <1>1, TypeOK_Init, Covered_Init, PTL DEF Spec

----------------------------------------------------------------------------
(* Blocks of different sizes are nested or apart                            *)

LEMMA TimesOrder ==
  ASSUME NEW i \in Nat, NEW j \in Nat, NEW s \in Nat, s > 0
  PROVE  /\ i * s \in Nat /\ j * s \in Nat
         /\ i * s < j * s <=> i < j
         /\ i <= j => i * s <= j * s
<1>1. i * s \in Nat /\ j * s \in Nat
  OBVIOUS
<1>2. ASSUME i <= j PROVE i * s <= j * s
  BY <1>2
<1>3. ASSUME j <= i PROVE j * s <= i * s
  BY <1>3
<1>4. ASSUME i < j PROVE i * s < j * s
  <2>1. (i + 1) * s <= j * s /\ (i + 1) * s = i * s + s
    BY <1>4
  <2> QED
    BY <1>1, <2>1
<1> QED
  BY <1>1, <1>2, <1>3, <1>4

\* A set of numbers that is not empty has a least one.
LEMMA LeastExists ==
  ASSUME NEW T \in SUBSET Nat, T # {}
  PROVE  \E x \in T : \A y \in T : x <= y
<1>1. PICK x \in T : \A y \in T : ~ (<<y, x>> \in OpToRel(<, Nat))
  BY NatLessThanWellFounded, WFMin
<1>2. \A y \in T : ~ (y < x)
  BY <1>1 DEF OpToRel
<1> QED
  BY <1>2

\* The size of a level divides the sizes of those above.
LEMMA SizesDivide ==
  ASSUME NEW j \in Levels, NEW k \in Levels, j <= k
  PROVE  \E m \in Nat : m > 0 /\ Size[k] = m * Size[j]
<1> DEFINE Divides(n) == \E m \in Nat : m > 0 /\ Size[n] = m * Size[j]
           Bad == {n \in Levels : j <= n /\ ~ Divides(n)}
<1>1. SUFFICES ASSUME Bad # {} PROVE FALSE
  OBVIOUS
<1>2. PICK n \in Bad : \A y \in Bad : n <= y
  <2>1. Bad \in SUBSET Nat
    BY DEF Levels
  <2> HIDE DEF Bad
  <2> QED
    BY <1>1, <2>1, LeastExists
<1>3. n \in Levels /\ j <= n /\ ~ Divides(n) /\ n \in Nat /\ j \in Nat
  BY <1>2 DEF Levels
<1>4. Size[j] \in Nat /\ Size[n] \in Nat
  BY <1>3, SizeAssumption
<1>5. n # j
  <2>1. Size[j] = 1 * Size[j]
    BY <1>4
  <2> QED
    BY <1>3, <2>1
<1>6. n - 1 \in Levels /\ j <= n - 1 /\ n - 1 \notin Bad
  BY <1>2, <1>3, <1>5, SizeAssumption DEF Levels
<1>7. PICK m \in Nat : m > 0 /\ Size[n - 1] = m * Size[j]
  BY <1>6
<1>8. Size[n] = 2 * Size[n - 1]
  <2>1. (n - 1) + 1 = n
    BY <1>3
  <2> QED
    BY <1>3, <1>6, <2>1, SizeAssumption
<1>9. Size[n] = (2 * m) * Size[j]
  BY <1>4, <1>7, <1>8
<1> QED
  BY <1>3, <1>7, <1>9

\* A block that shares a cell with one at least as large lies in it.
LEMMA Nested ==
  ASSUME NEW b \in Block, NEW c \in Block, b[1] <= c[1], ~ Apart(b, c)
  PROVE  Lo(c) <= Lo(b) /\ Hi(b) <= Hi(c)
<1> DEFINE s == Size[b[1]]
           i == b[2]
           j == c[2]
<1>1. b[1] \in Levels /\ c[1] \in Levels /\ i \in Nat /\ j \in Nat
  BY DEF Block
<1>2. s \in Nat /\ s > 0
  BY <1>1, SizeAssumption
<1>3. PICK m \in Nat : m > 0 /\ Size[c[1]] = m * s
  BY <1>1, SizesDivide
<1>4. Lo(b) = i * s /\ Hi(b) = (i + 1) * s
  BY <1>1, <1>2 DEF Lo, Hi
<1>5. Lo(c) = (j * m) * s /\ Hi(c) = ((j + 1) * m) * s
  <2>1. Lo(c) = j * (m * s) /\ Hi(c) = j * (m * s) + m * s
    BY <1>3 DEF Lo, Hi
  <2> HIDE DEF s, i, j
  <2>2. j * (m * s) = (j * m) * s /\ j * (m * s) + m * s = ((j + 1) * m) * s
    BY <1>1, <1>2, <1>3
  <2> QED
    BY <2>1, <2>2
<1>6. i * s < ((j + 1) * m) * s /\ (j * m) * s < (i + 1) * s
  BY <1>1, <1>4, <1>5, BlockBounds DEF Apart
<1> HIDE DEF s, i, j
<1>7. j * m \in Nat /\ (j + 1) * m \in Nat /\ i + 1 \in Nat
  BY <1>1, <1>3
<1>8. i < (j + 1) * m /\ j * m < i + 1
  BY <1>1, <1>2, <1>6, <1>7, TimesOrder
<1>9. i + 1 <= (j + 1) * m /\ j * m <= i
  BY <1>1, <1>7, <1>8
<1> QED
  BY <1>1, <1>2, <1>4, <1>5, <1>7, <1>9, TimesOrder

\* The first cell of a block is its own.
LEMMA FirstCell ==
  ASSUME NEW b \in Block, NEW c \in Block, In(Lo(b), c)
  PROVE  ~ Apart(b, c)
  BY BlockBounds DEF In, Apart

\* Two blocks of one size are apart or the same.
LEMMA SameSize ==
  ASSUME NEW b \in Block, NEW c \in Block, b[1] = c[1], ~ Apart(b, c)
  PROVE  b = c
<1> DEFINE z == Size[b[1]]
           i == b[2]
           j == c[2]
<1>1. Lo(b) = Lo(c)
  <2>1. b[1] <= c[1] /\ c[1] <= b[1] /\ ~ Apart(c, b)
    BY ApartFacts DEF Block, Levels
  <2>2. Lo(c) <= Lo(b) /\ Lo(b) <= Lo(c)
    BY <2>1, Nested
  <2> QED
    BY <2>2, BlockBounds
<1>2. i \in Nat /\ j \in Nat /\ z \in Nat /\ z > 0 /\ i * z = j * z
  BY <1>1, SizeAssumption DEF Lo, Block
<1> HIDE DEF z, i, j
<1>3. ~ (i < j) /\ ~ (j < i)
  BY <1>2, TimesOrder
<1>4. i = j
  BY <1>2, <1>3
<1> QED
  BY <1>4 DEF Block, i, j

\* A block and its buddy lie in their parent.
LEMMA InParent ==
  ASSUME NEW b \in Block, b[1] + 1 \in Levels
  PROVE  /\ Lo(Parent(b)) <= Lo(b) /\ Hi(b) <= Hi(Parent(b))
         /\ Lo(Parent(b)) <= Lo(Buddy(b)) /\ Hi(Buddy(b)) <= Hi(Parent(b))
<1> DEFINE p == Parent(b)
<1>1. /\ p \in Block /\ p[1] > 0
      /\ \/ b = LeftHalf(p) /\ Buddy(b) = RightHalf(p)
         \/ b = RightHalf(p) /\ Buddy(b) = LeftHalf(p)
  BY BuddyIsOtherHalf
<1> HIDE DEF p
<1>2. /\ LeftHalf(p) \in Block /\ RightHalf(p) \in Block
      /\ Lo(LeftHalf(p)) = Lo(p) /\ Hi(LeftHalf(p)) = Lo(RightHalf(p)) /\ Hi(RightHalf(p)) = Hi(p)
  BY <1>1, Halves
<1>3. /\ Lo(p) \in Nat /\ Hi(p) \in Nat /\ Lo(RightHalf(p)) \in Nat
      /\ Lo(p) <= Lo(RightHalf(p)) /\ Lo(RightHalf(p)) <= Hi(p)
  BY <1>1, <1>2, BlockBounds
<1> QED
  BY <1>1, <1>2, <1>3 DEF p

\* A larger block that shares a cell with the buddy of b shares one with b: it holds
\* their parent.
LEMMA LargerHoldsBoth ==
  ASSUME NEW b \in Block, b[1] + 1 \in Levels, NEW c \in Block, b[1] < c[1],
         ~ Apart(Buddy(b), c)
  PROVE  ~ Apart(b, c)
<1> DEFINE p == Parent(b)
           g == Buddy(b)
<1>1. p \in Block /\ p[1] = b[1] + 1 /\ g \in Block
  BY BuddyIsOtherHalf, BuddyOfBuddy DEF Parent
<1>2. Lo(p) <= Lo(b) /\ Hi(b) <= Hi(p) /\ Lo(p) <= Lo(g) /\ Hi(g) <= Hi(p)
  BY InParent
<1>3. ~ Apart(g, c)
  OBVIOUS
<1> HIDE DEF p, g
<1>4. ~ Apart(p, c)
  BY <1>1, <1>2, <1>3, BlockBounds DEF Apart
<1>5. p[1] <= c[1]
  BY <1>1 DEF Block, Levels
<1>6. Lo(c) <= Lo(p) /\ Hi(p) <= Hi(c)
  BY <1>1, <1>4, <1>5, Nested
<1> QED
  BY <1>1, <1>2, <1>6, BlockBounds DEF Apart

\* No free memory is hidden: a block's room of which nothing is held, and nothing is
\* in the hand, lies in one free block.  Otherwise the smallest free block in
\* it would have a buddy whose cells are free as well, and coalescing forbids that.
LEMMA FreeRoom ==
  ASSUME TypeOK, Disjoint, Covered, Coalesced,
         NEW r \in Block, Hi(r) <= MemSize,
         \A b \in held \cup hand : Apart(r, b)
  PROVE  \E f \in free : r[1] <= f[1] /\ ~ Apart(r, f)
<1> SUFFICES ASSUME \A f \in free : f[1] < r[1] \/ Apart(r, f)
             PROVE  FALSE
  <2>1. ASSUME NEW f \in free
        PROVE  f[1] \in Int /\ r[1] \in Int
    BY DEF TypeOK, Block, Levels
  <2> QED
    BY <2>1
<1> DEFINE Within == {f \in free : ~ Apart(r, f)}
           Sizes == {f[1] : f \in Within}
<1>0. AllBlocks \subseteq Block /\ free \subseteq AllBlocks
  BY DEF TypeOK, AllBlocks
<1>1. ASSUME NEW x \in Nat, Lo(r) <= x, x < Hi(r)
      PROVE  \E f \in Within : In(x, f)
  <2>1. MemSize \in Int /\ x \in 0 .. MemSize - 1
    <3>1. MemSize \in Nat
      BY SizeAssumption DEF MemSize, Levels
    <3> QED
      BY <1>1, <3>1, BlockBounds
  <2>2. PICK f \in AllBlocks : In(x, f)
    BY <2>1 DEF Covered
  <2>3. f \in Block /\ ~ Apart(r, f)
    BY <1>0, <1>1, <2>2, BlockBounds DEF In, Apart
  <2> QED
    BY <2>2, <2>3 DEF AllBlocks
<1>2. PICK f \in Within : \A g \in Within : f[1] <= g[1]
  <2>1. Within # {}
    BY <1>1, BlockBounds
  <2>2. Sizes \in SUBSET Nat /\ Sizes # {}
    BY <1>0, <2>1 DEF Block, Levels
  <2>3. PICK n \in Sizes : \A y \in Sizes : n <= y
    <3> HIDE DEF Sizes
    <3> QED
      BY <2>2, LeastExists
  <2> QED
    BY <2>3
<1>3. f \in Block /\ f \in free /\ ~ Apart(r, f) /\ f[1] < r[1] /\ f[1] \in Nat /\ r[1] \in Levels
  BY <1>0 DEF Block, Levels
<1>4. f[1] + 1 \in Levels /\ f[1] + 1 <= r[1]
  BY <1>3, SizeAssumption DEF Levels
<1> DEFINE p == Parent(f)
           g == Buddy(f)
<1>5. /\ p \in Block /\ p[1] > 0 /\ p[1] = f[1] + 1
      /\ \/ f = LeftHalf(p) /\ g = RightHalf(p)
         \/ f = RightHalf(p) /\ g = LeftHalf(p)
  BY <1>3, <1>4, BuddyIsOtherHalf DEF Parent
<1>6. g \in Block /\ g[1] = f[1] /\ g # f
  BY <1>3, BuddyOfBuddy
<1> HIDE DEF p, g
<1>8. ~ Apart(p, r)
  BY <1>3, <1>5, <1>6, ApartHalves, ApartFacts
<1>9. Lo(r) <= Lo(p) /\ Hi(p) <= Hi(r)
  BY <1>4, <1>5, <1>8, Nested
<1>10. Lo(p) <= Lo(g) /\ Hi(g) <= Hi(p)
  BY <1>3, <1>4, InParent DEF p, g
<1>11. PICK h \in Within : In(Lo(g), h)
  BY <1>1, <1>5, <1>6, <1>9, <1>10, BlockBounds
<1>12. h \in Block /\ h \in free /\ ~ Apart(g, h) /\ f[1] <= h[1]
  BY <1>0, <1>2, <1>6, <1>11, FirstCell
<1>13. CASE h[1] = f[1]
  <2>1. g = h
    BY <1>6, <1>12, <1>13, SameSize
  <2> QED
    BY <1>3, <1>4, <1>12, <2>1 DEF Coalesced, g
<1>14. CASE h[1] # f[1]
  <2>1. f[1] < h[1] /\ h # f
    BY <1>3, <1>12, <1>14 DEF Block, Levels
  <2>2. ~ Apart(f, h)
    BY <1>3, <1>4, <1>12, <2>1, LargerHoldsBoth DEF g
  <2>3. Apart(f, h)
    BY <1>0, <1>3, <1>12, <2>1 DEF Disjoint
  <2> QED
    BY <2>2, <2>3
<1> QED
  BY <1>13, <1>14

=============================================================================
