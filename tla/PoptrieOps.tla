----------------------------- MODULE PoptrieOps -----------------------------
(***************************************************************************)
(* The poptrie data structure and its incremental update                   *)
(* (modified_poptrie/poptrie_private.h and poptrie4.c), as functions from  *)
(* memory to memory.                                                       *)
(*                                                                         *)
(* The memory is a record m: m.nodes and m.leaves are the two arrays,      *)
(* m.cnodes and m.cleaves their buddy systems, m.dir and m.altdir the      *)
(* direct pointing arrays.  A direct pointer is [leaf, val]: bit 31 of the *)
(* word and the rest.  A bit vector is the set of its positions.  The cells*)
(* of a freed block are Blank, so a read of freed memory never looks right.*)
(* m.exhausted records that some allocation has failed.                    *)
(*                                                                         *)
(* The radix tree is a record t: t.node are its nodes, t.mark the marked   *)
(* ones and t.slot[d] is EXT_NH of node d.                                 *)
(***************************************************************************)
EXTENDS Integers, Sequences, SequencesExt, FiniteSetsExt

CONSTANTS
    S,      \* POPTRIE_S: key bits resolved by the direct pointing array
    K,      \* key bits resolved by an internal node (6 in the code)
    Sz1,    \* 2^Sz1 cells for internal nodes
    Sz0,    \* 2^Sz0 cells for leaves
    RightOf(_, _)   \* SetBit for IPv4, SetIntBit for IPv6

ASSUME PoptrieAssumption == {S, K, Sz1, Sz0} \subseteq Nat \ {0}

NodeBuddy == INSTANCE BuddyOps WITH Sz <- Sz1, Level <- Sz1
LeafBuddy == INSTANCE BuddyOps WITH Sz <- Sz0, Level <- Sz0

Pos    == 0 .. 2^K - 1
DirPos == 0 .. 2^S - 1

BlankNode == [vector |-> {}, leafvec |-> {}, base0 |-> -2, base1 |-> -2]
BlankLeaf == -1

LeafEntry(n) == [leaf |-> TRUE, val |-> n]
NodeEntry(i) == [leaf |-> FALSE, val |-> i]

\* poptrie_init: every direct pointer is the leaf of slot 0.
poptrie_init ==
    [nodes   |-> [i \in 0 .. 2^Sz1 - 1 |-> BlankNode],
     leaves  |-> [i \in 0 .. 2^Sz0 - 1 |-> BlankLeaf],
     cnodes  |-> NodeBuddy!buddy_init,
     cleaves |-> LeafBuddy!buddy_init,
     dir     |-> [i \in DirPos |-> LeafEntry(0)],
     altdir  |-> [i \in DirPos |-> LeafEntry(0)],
     exhausted |-> FALSE]

----------------------------------------------------------------------------
(* Memory *)

\* The size class of an array of n: bsr(n - 1) + 1.
bsr(x) == IF x = 0 THEN 0 ELSE Max({k \in 0 .. K : 2^k <= x})
Order(n) == bsr(n - 1) + 1

Write(array, base, seq) ==
    [i \in DOMAIN array |-> IF i - base + 1 \in DOMAIN seq THEN seq[i - base + 1] ELSE array[i]]

Wipe(array, base, n, blank) ==
    [i \in DOMAIN array |-> IF i \in base .. base + n - 1 THEN blank ELSE array[i]]

\* Allocate an array of the given size class and store a sequence in it.
PutNodes(m, order, seq) ==
    LET Store(a) ==
          [base |-> a.ret,
           m |-> IF a.ret < 0 THEN [m EXCEPT !.exhausted = TRUE]
                 ELSE [m EXCEPT !.cnodes = a.pool, !.nodes = Write(@, a.ret, seq)]]
    IN  Store(NodeBuddy!buddy_alloc2(m.cnodes, order))
PutLeaves(m, order, seq) ==
    LET Store(a) ==
          [base |-> a.ret,
           m |-> IF a.ret < 0 THEN [m EXCEPT !.exhausted = TRUE]
                 ELSE [m EXCEPT !.cleaves = a.pool, !.leaves = Write(@, a.ret, seq)]]
    IN  Store(LeafBuddy!buddy_alloc2(m.cleaves, order))

\* Nothing to store: no array, base -1.
PutNodesIfAny(m, seq)  == IF seq = <<>> THEN [base |-> -1, m |-> m] ELSE PutNodes(m, Order(Len(seq)), seq)
PutLeavesIfAny(m, seq) == IF seq = <<>> THEN [base |-> -1, m |-> m] ELSE PutLeaves(m, Order(Len(seq)), seq)

FreeNodes(m, base) ==
    [m EXCEPT !.cnodes = NodeBuddy!buddy_free2(@, base),
              !.nodes = Wipe(@, base, 2^NodeBuddy!FlaggedSize(m.cnodes, base), BlankNode)]
FreeLeaves(m, base) ==
    [m EXCEPT !.cleaves = LeafBuddy!buddy_free2(@, base),
              !.leaves = Wipe(@, base, 2^LeafBuddy!FlaggedSize(m.cleaves, base), BlankLeaf)]

\* A stored base is a 32-bit word; -1 says there is no array.
FreeNodesIfAny(m, base)  == IF base < 0 THEN m ELSE FreeNodes(m, base)
FreeLeavesIfAny(m, base) == IF base < 0 THEN m ELSE FreeLeaves(m, base)

\* Free an old array unless the new part still has it.
FreeOldNodes(m, base, kept)  == IF base = kept THEN m ELSE FreeNodesIfAny(m, base)
FreeOldLeaves(m, base, kept) == IF base = kept THEN m ELSE FreeLeavesIfAny(m, base)

----------------------------------------------------------------------------
(* Internal nodes *)

POPCNT_LS(v, i) == Cardinality({j \in v : j <= i})

ChildAt(n, i)   == n.base1 + POPCNT_LS(n.vector, i) - 1
LeafAt(m, n, i) == m.leaves[n.base0 + POPCNT_LS(n.leafvec, i) - 1]

\* A set of positions as an ascending sequence.
InOrder(s) == [k \in 1 .. Cardinality(s) |-> CHOOSE i \in s : POPCNT_LS(s, i) = k]
PosSeq == InOrder(Pos)

\* Mutant: a child counts as a leaf.
LeafVecAll(value, vector) ==
    {i \in Pos : \A j \in Pos : j < i => \E k \in j .. i - 1 : value[k] # value[i]}

\* Leaf compression: of the positions without a child, those whose value
\* differs from the one before.
LeafVec(value, vector) ==
    {i \in Pos \ vector :
        LET before == {j \in Pos \ vector : j < i}
        IN  before = {} \/ value[Max(before)] # value[i]}
LeafSeq(value, leafvec) ==
    LET pos == InOrder(leafvec) IN [k \in DOMAIN pos |-> value[pos[k]]]

\* The children of node n as a sequence, at the positions of v.
Children(m, n, v) ==
    LET pos == InOrder(v) IN [k \in DOMAIN pos |-> m.nodes[ChildAt(n, pos[k])]]

----------------------------------------------------------------------------
(* Reading the radix tree *)

Bits(i, w) == [k \in 1 .. w |-> (i \div 2^(w - k)) % 2]

\* INDEX: w bits of p after the first from bits (p is padded with zeros).
INDEX(p, from, w) ==
    LET bit(k) == IF from + k <= Len(p) THEN p[from + k] ELSE 0
    IN  FoldLeft(LAMBDA x, k : 2 * x + bit(k), 0, [k \in 1 .. w |-> k])

\* _parse_triangle: the node that stands for position i below d, the deepest
\* one on the way to d \o Bits(i, K).
Bottom(t, d, i) ==
    LET path == {k \in 0 .. K : d \o Bits(i \div 2^(K - k), k) \in t.node}
    IN  d \o Bits(i \div 2^(K - Max(path)), Max(path))

Sons(t, d) == {d \o <<b>> : b \in {0, 1}} \cap t.node

----------------------------------------------------------------------------
(* Building internal nodes *)

RECURSIVE UpdateInode(_, _, _, _)

\* _update_inode_chunk: a node that came out as a single leaf gives its leaf
\* array back.
UpdateInodeChunk(m, t, d, inode) ==
    LET Compressed(r) ==
          IF r.ok /\ r.single THEN [r EXCEPT !.m = FreeLeaves(@, r.n.base0), !.n.base0 = -1]
          ELSE r
    IN  Compressed(UpdateInode(m, t, d, inode))

\* The old child of inode at position i, or -1.
OldChild(m, inode, i) ==
    IF inode >= 0 /\ i \in m.nodes[inode].vector THEN ChildAt(m.nodes[inode], i) ELSE -1

\* Position i of the node under construction is a leaf, or has a child.
LeafPosition(acc, i, v)  == [acc EXCEPT !.value[i] = v]
InnerPosition(acc, i, n) == [acc EXCEPT !.vector = @ \cup {i}, !.child = Append(@, n)]

\* Below position i the part is rebuilt, or copied from the old node.
Rebuilt(acc, t, b, inode, i) ==
    LET Placed(r) ==
          CASE ~ r.ok -> [acc EXCEPT !.m = r.m, !.ok = FALSE]
            [] r.ok /\ r.single -> LeafPosition([acc EXCEPT !.m = r.m], i, r.leaf)
            [] r.ok /\ ~ r.single -> InnerPosition([acc EXCEPT !.m = r.m], i, r.n)
    IN  Placed(UpdateInodeChunk(acc.m, t, b, OldChild(acc.m, inode, i)))

\* Mutant: the first child is copied to all positions.
CopiedFirst(acc, inode, i) ==
    LET old == acc.m.nodes[inode]
    IN  IF i \in old.vector THEN InnerPosition(acc, i, acc.m.nodes[old.base1])
        ELSE LeafPosition(acc, i, LeafAt(acc.m, old, i))

Copied(acc, inode, i) ==
    LET old == acc.m.nodes[inode]
    IN  IF i \in old.vector THEN InnerPosition(acc, i, acc.m.nodes[ChildAt(old, i)])
        ELSE LeafPosition(acc, i, LeafAt(acc.m, old, i))

\* The old part is kept when the position has sons in the radix tree and none
\* of them is marked.
UpdateBelow(acc, t, b, sons, inode, i) ==
    CASE sons = {} -> LeafPosition(acc, i, t.slot[b])
      [] sons # {} /\ (sons \cap t.mark # {} \/ inode < 0) -> Rebuilt(acc, t, b, inode, i)
      [] OTHER -> Copied(acc, inode, i)

\* One position of the loop of _update_inode, b being its node.
UpdatePosition(acc, t, d, b, inode, i) ==
    IF ~ acc.ok THEN acc
    ELSE UpdateBelow(acc, t, b, IF Len(b) = Len(d) + K THEN Sons(t, b) ELSE {}, inode, i)

\* The result of building a node or of replacing a child in one: whether it
\* succeeded, whether the walk up goes on (more), the memory, and the part
\* that comes out: the leaf if single, else the node n.
Part(ok, more, m, n, single, leaf) ==
    [ok |-> ok, more |-> more, m |-> m, n |-> n, single |-> single, leaf |-> leaf]
Broken(m) == Part(FALSE, FALSE, m, BlankNode, FALSE, 0)
Settled(m) == Part(TRUE, FALSE, m, BlankNode, FALSE, 0)
NodePart(m, vector, leafvec, base0, base1) ==
    Part(TRUE, TRUE, m,
         [vector |-> vector, leafvec |-> leafvec, base0 |-> base0, base1 |-> base1], FALSE, 0)

\* The end of _update_inode: the arrays of the new node g are allocated, the
\* children first.  single says that it has one leaf and no child.
Complete(g, leafvec) ==
    LET Node(c, l) ==
          IF leafvec # {} /\ l.base < 0 THEN Broken(FreeNodesIfAny(l.m, c.base))
          ELSE [NodePart(l.m, g.vector, leafvec, l.base, c.base) EXCEPT
                  !.single = g.vector = {} /\ Cardinality(leafvec) = 1, !.leaf = g.value[0]]
        Leaves(c) ==
          IF g.vector # {} /\ c.base < 0 THEN Broken(c.m)
          ELSE Node(c, PutLeavesIfAny(c.m, LeafSeq(g.value, leafvec)))
    IN  IF g.ok THEN Leaves(PutNodesIfAny(g.m, g.child)) ELSE Broken(g.m)

\* _update_inode: the new node for the triangle below d, inode being the old
\* one (-1: none).
UpdateInode(m, t, d, inode) ==
    LET Step(acc, i) == UpdatePosition(acc, t, d, Bottom(t, d, i), inode, i)
        Built(g) == Complete(g, LeafVec(g.value, g.vector))
    IN  Built(FoldLeft(Step,
                       [ok |-> TRUE, m |-> m, vector |-> {}, child |-> <<>>,
                        value |-> [i \in Pos |-> 0]],
                       PosSeq))

----------------------------------------------------------------------------
(* Cleaning up: free what the old part has and the new part has not *)

RECURSIVE CleanInode(_, _, _)

\* _update_clean_inode(ninode, oinode), ninode = -1 when the new part has no
\* such node.
CleanInode(m, ninode, oinode) ==
    LET old == m.nodes[oinode]
        new == IF ninode >= 0 THEN m.nodes[ninode] ELSE BlankNode
        NewChild(i) == IF i \in new.vector THEN ChildAt(new, i) ELSE -1
        Step(mm, i) == CleanInode(mm, NewChild(i), ChildAt(old, i))
    IN  IF ninode = oinode THEN m
        ELSE FreeOldLeaves(FreeOldNodes(FoldLeft(Step, m, InOrder(old.vector)),
                                        old.base1, new.base1),
                           old.base0, new.base0)

\* Mutant: the replaced children are compared with nothing.
CleanNodeNot(m, node, oinode) ==
    IF oinode < 0 THEN m ELSE FreeOldNodes(m, oinode, node.base1)

\* _update_clean_node: node has the vector it had, its old children are at
\* oinode.
CleanNode(m, node, oinode) ==
    LET Step(mm, k) == CleanInode(mm, node.base1 + k - 1, oinode + k - 1)
    IN  IF oinode < 0 THEN m
        ELSE FreeOldNodes(FoldLeft(Step, m, [k \in 1 .. Cardinality(node.vector) |-> k]),
                          oinode, node.base1)

\* _update_clean_root frees as _update_clean_inode does, and then the old
\* root itself.
CleanRoot(m, nroot, oroot) == FreeOldNodes(CleanInode(m, nroot, oroot), oroot, nroot)

\* The direct pointer old has become new.  When new is a leaf everything below
\* the old root goes (_update_clean_subtree), and the old root too.
CleanPointer(m, new, old) ==
    IF old.leaf THEN m ELSE CleanRoot(m, IF new.leaf THEN -1 ELSE new.val, old.val)

----------------------------------------------------------------------------
(* Replacing a part of the trie *)

Done(m)   == [ok |-> TRUE, m |-> m]
Failed(m) == [ok |-> FALSE, m |-> m]

\* A direct pointer, in the array the update works on.
Entry(m, r, alt) == IF alt THEN m.altdir[r] ELSE m.dir[r]
SetEntry(m, r, alt, e) ==
    IF alt THEN [m EXCEPT !.altdir[r] = e] ELSE [m EXCEPT !.dir[r] = e]

\* Let the direct pointer r be e, and free what it led to; what altdir led to
\* stays, the old dir leads there.
Redirect(m, r, alt, e) ==
    IF alt THEN SetEntry(m, r, alt, e)
    ELSE CleanPointer(SetEntry(m, r, alt, e), e, Entry(m, r, alt))

\* Store node n in a cell of its own and let the direct pointer r lead to it.
ReplaceRoot(m, n, r, alt) ==
    LET Hang(a) == IF a.base < 0 THEN Failed(a.m)
                   ELSE Done(Redirect(a.m, r, alt, NodeEntry(a.base)))
    IN  Hang(PutNodes(m, 0, <<n>>))

\* _update_part_loop1 at one entry e of the stack: the part below position
\* e.idx has become the single leaf sleaf.
Loop1(m, e, sleaf, last) ==
    LET n      == m.nodes[e.inode]
        vector == n.vector \ {e.idx}
        value  == [i \in Pos |-> IF i = e.idx THEN sleaf
                                 ELSE IF i \in vector THEN 0 ELSE LeafAt(m, n, i)]
        Inner(leafvec, l, c) ==
            IF vector # {} /\ c.base < 0 THEN Broken(c.m)
            ELSE NodePart(c.m, vector, leafvec, l.base, c.base)
        Node(leafvec, l) ==
            CASE l.base < 0 -> Broken(l.m)
              [] l.base >= 0 /\ e.idx \notin n.vector ->
                   NodePart(l.m, n.vector, leafvec, l.base, n.base1)
              [] l.base >= 0 /\ e.idx \in n.vector ->
                   Inner(leafvec, l, PutNodesIfAny(l.m, Children(m, n, vector)))
        Change(leafvec) ==
            IF Cardinality(leafvec) = 1 /\ vector = {} /\ ~ last
            THEN Part(TRUE, TRUE, m, BlankNode, TRUE, sleaf)
            ELSE IF e.idx \notin n.vector /\ n.leafvec = leafvec
            THEN Settled(m)                                   \* "Nothing has changed"
            ELSE Node(leafvec, PutLeaves(m, Order(Cardinality(leafvec)), LeafSeq(value, leafvec)))
    IN  Change(LeafVec(value, vector))

\* Node inode gets new children, in place.
ReplaceChildren(m, inode, n) ==
    Settled(CleanNode([m EXCEPT !.nodes[inode] = n], n, m.nodes[inode].base1))

\* _update_part_loop2 at one entry of the stack: the part below e.idx is the
\* node cn.  In a node that has a child there only the array of children is
\* replaced, in place; otherwise the node itself changes and the walk goes on.
Loop2(m, e, cn) ==
    LET n      == m.nodes[e.inode]
        vector == n.vector \cup {e.idx}
        pos    == InOrder(vector)
        seq    == [k \in DOMAIN pos |->
                     IF pos[k] = e.idx THEN cn ELSE m.nodes[ChildAt(n, pos[k])]]
        value  == [i \in Pos |-> IF i \in vector THEN 0 ELSE LeafAt(m, n, i)]
        Node(c, leafvec, l) ==
            IF leafvec # {} /\ l.base < 0 THEN Broken(l.m)
            ELSE NodePart(l.m, vector, leafvec, l.base, c.base)
        Leaves(c, leafvec) == Node(c, leafvec, PutLeavesIfAny(c.m, LeafSeq(value, leafvec)))
        Change(c) ==
            CASE c.base < 0 -> Broken(c.m)
              [] c.base >= 0 /\ e.idx \in n.vector ->
                   ReplaceChildren(c.m, e.inode, [n EXCEPT !.base1 = c.base])
              [] c.base >= 0 /\ e.idx \notin n.vector -> Leaves(c, LeafVec(value, vector))
    IN  Change(PutNodes(m, Order(Cardinality(vector)), seq))

\* The top of the walk: the part hangs directly from the direct pointer r
\* (_update_part_dp, and the end of _update_part).
HangPart(u, r, alt) ==
    IF u.single THEN Done(Redirect(u.m, r, alt, LeafEntry(u.leaf)))
    ELSE ReplaceRoot(u.m, u.n, r, alt)

RECURSIVE Walk(_, _, _, _)

\* The loops of _update_part: up the stack with the part u, a leaf or a node.
Walk(u, stack, r, alt) ==
    CASE ~ u.ok -> Failed(u.m)
      [] u.ok /\ ~ u.more -> Done(u.m)
      [] u.ok /\ u.more /\ stack = <<>> -> HangPart(u, r, alt)
      [] OTHER -> Walk(IF u.single THEN Loop1(u.m, Last(stack), u.leaf, Len(stack) = 1)
                       ELSE Loop2(u.m, Last(stack), u.n),
                       Front(stack), r, alt)

\* Mutant: the direct pointer is parked on a leaf while the part is built.
UpdatePartParked(m, t, d, inode, stack, r, alt) ==
    Walk(UpdateInodeChunk(SetEntry(m, r, alt, LeafEntry(0)), t, d, inode), stack, r, alt)

\* _update_part, and _update_part_dp when the stack is empty: rebuild the part
\* below d and hang it into the trie.
UpdatePart(m, t, d, inode, stack, r, alt) == Walk(UpdateInodeChunk(m, t, d, inode), stack, r, alt)

----------------------------------------------------------------------------
(* From the direct pointing array down *)

RECURSIVE DescendAndUpdate(_, _, _, _, _, _), UpdateDp2(_, _, _, _)

\* _descend_and_update: to the block that holds the end of p, or to the last
\* block the old trie has on the way.
DescendAndUpdate(m, t, d, inode, stack, p) ==
    LET idx == INDEX(p, Len(d), K)
    IN  IF Len(p) <= Len(d) + K \/ inode < 0
        THEN UpdatePart(m, t, d, inode, stack, INDEX(p, 0, S), FALSE)
        ELSE DescendAndUpdate(m, t, SubSeq(p, 1, Len(d) + K), OldChild(m, inode, idx),
                              Append(stack, [inode |-> inode, idx |-> idx]), p)

\* prefix |= 1 << (KEYLENGTH - depth - 1), on the first S bits at of prefix.
\* With a 32-bit prefix it sets the bit that leads to the right half.
SetBit(at, depth) == [at EXCEPT ![depth + 1] = 1]

\* With a 128-bit prefix the shift of the int 1 is undefined.  The build shifts
\* by the count modulo 32: 1 << 31 is negative and becomes all ones, any smaller
\* power lies below the first S bits.
SetIntBit(at, depth) == IF depth = 0 THEN [k \in DOMAIN at |-> 1] ELSE at

\* _update_dp2 with alt = 1: rebuild every direct pointer below d in altdir;
\* where the radix tree has no node the pointer is a leaf.  at are the bits that
\* choose the direct pointer, for IPv4 those of d.  The outcome on the left is
\* ignored when there is a left subtree.
Padded(d) == [k \in 1 .. S |-> IF k <= Len(d) THEN d[k] ELSE 0]
DirRange(d) == {i \in DirPos : i \div 2^(S - Len(d)) = INDEX(d, 0, Len(d))}
FillAlt(m, d, slot) ==
    [m EXCEPT !.altdir = [i \in DirPos |-> IF i \in DirRange(d) THEN LeafEntry(slot) ELSE @[i]]]
OldRoot(m, r) == IF m.dir[r].leaf THEN -1 ELSE m.dir[r].val

UpdateSide(m, t, d, at, b) ==
    IF d \o <<b>> \in t.node
    THEN UpdateDp2(m, t, d \o <<b>>, IF b = 1 THEN RightOf(at, Len(d)) ELSE at)
    ELSE Done(FillAlt(m, SubSeq(at, 1, Len(d)) \o <<b>>, t.slot[d]))

UpdateDp2(m, t, d, at) ==
    IF Len(d) = S
    THEN UpdatePart(m, t, d, OldRoot(m, INDEX(at, 0, S)), <<>>, INDEX(at, 0, S), TRUE)
    ELSE UpdateSide(UpdateSide(m, t, d, at, 0).m, t, d, at, 1)

\* After the switch of the two arrays: free what the old pointers led to.
CleanDir(m, d) ==
    LET Step(mm, i) == CleanPointer(mm, mm.dir[i], mm.altdir[i])
    IN  FoldLeft(Step, m, InOrder(DirRange(d)))

\* _update_subtree for the route p that changed.  A short route's update starts
\* with a copy of dir to altdir, so what altdir holds between two updates is never
\* read: here it is that copy already.
UpdateSubtree(m, t, p) ==
    LET Switch(mm) == [mm EXCEPT !.dir = mm.altdir, !.altdir = mm.dir]
        Clean(u) == [ok |-> u.ok, m |-> CleanDir(Switch(u.m), p)]
        Copy(u)  == [u EXCEPT !.m.altdir = u.m.dir]
    IN  Copy(IF Len(p) < S THEN Clean(UpdateDp2(m, t, p, Padded(p)))
             ELSE DescendAndUpdate(m, t, SubSeq(p, 1, S), OldRoot(m, INDEX(p, 0, S)), <<>>, p))

----------------------------------------------------------------------------
(* Lookup *)

RECURSIVE LookupNode(_, _, _, _)
LookupNode(m, inode, addr, pos) ==
    LET n == m.nodes[inode]
        i == INDEX(addr, pos, K)
    IN  IF i \in n.vector THEN LookupNode(m, ChildAt(n, i), addr, pos + K)
        ELSE LeafAt(m, n, i)

\* poptrie_lookup, up to the FIB slot it reads.
poptrie_lookup(m, addr) ==
    LET e == m.dir[INDEX(addr, 0, S)]
    IN  IF e.leaf THEN e.val ELSE LookupNode(m, e.val, addr, S)

=============================================================================
