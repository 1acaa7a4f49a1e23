-------------------------- MODULE RouteTableProofs --------------------------
(***************************************************************************)
(* Theorems about RouteTable, for every key length, every set of prefixes  *)
(* and next hops and every size of the FIB table.  The inherited routes are*)
(* right and the marks are cleared; the inductive invariant adds that the  *)
(* radix tree is linked.  A table with a slot for every next hop never runs*)
(* out, and then tree and table behave as module RouteMap says.            *)
(* Most of it holds as well when updates of the trie fail.                 *)
(***************************************************************************)
EXTENDS RouteTable, BitStringProofs, FiniteSetTheorems

\* Every node hangs from the root.
Linked == \A d \in node : PathTo(d) \subseteq node

\* What holds of the tree whatever updates of the trie fail, and what holds besides
\* when they all succeed.
RibInv == TypeOK /\ Linked /\ ExtIsNearest
Inv    == RibInv /\ MarksCleared

\* Every node is a key, and every prefix and what leads to it is a node of Tree.
LEMMA TreeKeys ==
    /\ Tree \subseteq Keys
    /\ Prefix \subseteq Tree
    /\ \A d \in Tree : PathTo(d) \subseteq Tree
PROOF
    <1>1. \A p \in Prefix : p \in Keys /\ p \in PathTo(p) /\ \A d \in PathTo(p) : d \in Keys
        BY RouteTableAssumption, EndOnPath, PathToLinked
    <1>2. \A p \in Prefix : \A d \in PathTo(p) : PathTo(d) \subseteq PathTo(p)
        BY <1>1, PathToLinked
    <1> QED
        BY <1>1, <1>2 DEF Tree

LEMMA LeafIsInt == \A n \in Leaf : n \in Int
PROOF
    BY SMT DEF Leaf

LEMMA AsLeafType == \A n \in Int : AsLeaf(n) \in Leaf
PROOF
    BY SMT DEF AsLeaf, Leaf

----------------------------------------------------------------------------
(* The FIB table *)

Entries == [entry : NextHop \cup {NULL}, refs : Int]

LEMMA FirstIn ==
    ASSUME NEW T \in SUBSET Nat, T # {}
    PROVE  First(T) \in T
PROOF
    <1>1. PICK x \in T : \A y \in T : ~ (<<y, x>> \in OpToRel(<, Nat))
        BY NatLessThanWellFounded, WFMin
    <1>2. ASSUME NEW y \in T
          PROVE  x <= y
        <2>1. x \in Nat /\ y \in Nat /\ ~ (y < x)
            BY <1>1 DEF OpToRel
        <2> QED
            BY <2>1
    <1> QED
        BY <1>2 DEF First

LEMMA FibRefType ==
    ASSUME TypeOK, NEW h \in NextHop
    PROVE  fib_ref(h) \in Slot \cup {-1}
PROOF
    <1>1. Slot \in SUBSET Nat
        BY RouteTableAssumption DEF Slot
    <1>2. Matching(h) \in SUBSET Slot /\ Available \in SUBSET Slot
        BY DEF Matching, Available
    <1> QED
        BY <1>1, <1>2, FirstIn DEF fib_ref

LEMMA ReferencedType ==
    ASSUME TypeOK, NEW h \in NextHop
    PROVE  Referenced(h) \in [Slot -> Entries]
PROOF
    <1>1. Slot \in SUBSET Nat
        BY RouteTableAssumption DEF Slot
    <1>2. Matching(h) \in SUBSET Slot /\ Available \in SUBSET Slot
        BY DEF Matching, Available
    <1>3. fib \in [Slot -> Entries]
        BY DEF TypeOK, Entries
    <1>4. CASE Matching(h) # {}
        <2> DEFINE i == First(Matching(h))
        <2>1. i \in Slot
            BY <1>1, <1>2, <1>4, FirstIn
        <2>2. fib[i] \in Entries
            BY <1>3, <2>1
        <2>3. [fib[i] EXCEPT !.refs = @ + 1] \in Entries
            BY <2>2 DEF Entries
        <2>4. Referenced(h) = [fib EXCEPT ![i] = [fib[i] EXCEPT !.refs = @ + 1]]
            BY <1>4 DEF Referenced
        <2> QED
            BY <1>3, <2>3, <2>4
    <1>5. CASE Matching(h) = {} /\ Available # {}
        <2>1. [entry |-> h, refs |-> 1] \in Entries
            BY DEF Entries
        <2> QED
            BY <1>3, <1>5, <2>1 DEF Referenced
    <1>6. CASE Matching(h) = {} /\ Available = {}
        BY <1>3, <1>6 DEF Referenced
    <1> QED
        BY <1>4, <1>5, <1>6

LEMMA ReleasedType ==
    ASSUME NEW f \in [Slot -> Entries], NEW n \in Int
    PROVE  Released(f, n) \in [Slot -> Entries]
PROOF
    <1>1. CASE n \in Slot
        <2>1. f[n] \in Entries
            BY <1>1
        <2>2. [f[n] EXCEPT !.refs = @ - 1] \in Entries
            BY <2>1 DEF Entries
        <2>3. Released(f, n) = [f EXCEPT ![n] = [f[n] EXCEPT !.refs = @ - 1]]
            BY <1>1 DEF Released
        <2> QED
            BY <2>2, <2>3
    <1>2. CASE n \notin Slot
        BY <1>2 DEF Released
    <1> QED
        BY <1>1, <1>2

----------------------------------------------------------------------------
(* The inherited route *)

\* Inherited(d) is the longest route above d.
LEMMA InheritedIsNearest ==
    ASSUME TypeOK, NEW d \in Keys
    PROVE  \/ Inherited(d) = NULL /\ \A v \in valid : ~ Above(v, d)
           \/ /\ Inherited(d) \in valid /\ Above(Inherited(d), d)
              /\ \A v \in valid : Above(v, d) => Len(v) <= Len(Inherited(d))
PROOF
    <1> DEFINE above == {v \in valid : Above(v, d)}
               best  == CHOOSE v \in above : \A w \in above : Len(w) <= Len(v)
    <1>1. CASE above = {}
        BY <1>1 DEF Inherited
    <1>2. CASE above # {}
        <2>1. above \in SUBSET Keys
            BY TreeKeys DEF TypeOK
        <2>2. \E v \in above : \A w \in above : Len(w) <= Len(v)
            BY <1>2, <2>1, LongestExists
        <2>3. best \in above /\ \A w \in above : Len(w) <= Len(best)
            BY <2>2
        <2>4. Inherited(d) = best
            BY <1>2 DEF Inherited
        <2> QED
            BY <2>3, <2>4
    <1> QED
        BY <1>1, <1>2

\* The longest route above a node that is not a route itself is its nearest.
LEMMA InheritedServes ==
    ASSUME TypeOK, NEW d \in Keys, d \notin valid
    PROVE  IsNearest(Inherited(d), d)
PROOF
    <1>1. \A v \in valid : Covers(v, d) <=> Above(v, d)
        BY DEF Above
    <1>2. NULL \notin valid
        BY RouteTableAssumption DEF TypeOK
    <1> QED
        BY <1>1, <1>2, InheritedIsNearest DEF IsNearest

LEMMA InheritedType ==
    ASSUME TypeOK, NEW d \in Keys
    PROVE  Inherited(d) \in Tree \cup {NULL}
PROOF
    BY InheritedIsNearest, TreeKeys DEF TypeOK

----------------------------------------------------------------------------
(* Adding a route *)

LEMMA GrownLinked ==
    ASSUME RibInv, NEW p \in Prefix
    PROVE  /\ Grown(p) \subseteq Tree /\ p \in Grown(p)
           /\ \A d \in Grown(p) : PathTo(d) \subseteq Grown(p)
PROOF
    <1>1. p \in Keys /\ p \in PathTo(p) /\ PathTo(p) \subseteq Tree
        BY TreeKeys, EndOnPath
    <1> QED
        BY <1>1, PathToLinked DEF RibInv, TypeOK, Linked, Grown

\* The descent gives every node it creates its nearest route.
LEMMA GrownNearest ==
    ASSUME RibInv, NEW p \in Prefix, NEW d \in Grown(p)
    PROVE  IsNearest(GrownExt(p)[d], d)
PROOF
    <1>1. d \in Tree /\ d \in Keys
        BY GrownLinked, TreeKeys
    <1>2. CASE d \in node
        BY <1>1, <1>2 DEF GrownExt, RibInv, ExtIsNearest
    <1>3. CASE d \notin node
        <2>1. d \in PathTo(p) \ node /\ d \notin valid
            BY <1>3 DEF Grown, RibInv, TypeOK
        <2>2. GrownExt(p)[d] = Inherited(d)
            BY <1>1, <2>1 DEF GrownExt
        <2> QED
            BY <1>1, <2>1, <2>2, InheritedServes DEF RibInv
    <1> QED
        BY <1>2, <1>3

\* The propagation stops only where the route is at least as long as p, and so
\* are then all routes below: every node that p serves is reached.
LEMMA ReachedWhereNeeded ==
    ASSUME RibInv, NEW p \in Prefix,
           NEW d \in Grown(p), Covers(p, d), ~ Stops(GrownExt(p)[d], p)
    PROVE  d \in Reached(p)
PROOF
    <1> DEFINE grown == GrownExt(p)
    <1>1. SUFFICES ASSUME NEW a \in Grown(p), Covers(p, a), Stops(grown[a], p), Above(a, d)
                   PROVE  FALSE
        BY DEF Reached
    <1>2. p \in Keys /\ a \in Keys /\ d \in Keys
        BY GrownLinked, TreeKeys
    <1>3. grown[a] \in valid /\ grown[a] \in Keys /\ Covers(grown[a], a) /\ Len(p) <= Len(grown[a])
        BY <1>1, GrownNearest, TreeKeys DEF IsNearest, Stops, RibInv, TypeOK
    <1>4. Covers(grown[a], d)
        BY <1>1, <1>2, <1>3, CoversTransitive, KeyIsSeq DEF Above
    <1>5. IsNearest(grown[d], d)
        BY GrownNearest
    <1>6. grown[d] \in valid /\ grown[d] \in Keys /\ grown[d] # NULL /\ Len(grown[a]) <= Len(grown[d])
        BY <1>3, <1>4, <1>5, TreeKeys, RouteTableAssumption DEF IsNearest, RibInv, TypeOK
    <1>7. Len(p) <= Len(grown[d])
        BY <1>2, <1>3, <1>6, KeyIsSeq
    <1> QED
        BY <1>6, <1>7 DEF Stops

\* After an add every node has its nearest route.
LEMMA AddNearest ==
    ASSUME RibInv, NEW p \in Prefix, p \notin valid, NEW d \in Grown(p),
           NEW e, e = AddExt(p)[d]
    PROVE  /\ e # NULL => e \in valid \cup {p} /\ Covers(e, d)
           /\ e # NULL => \A v \in valid \cup {p} : Covers(v, d) => Len(v) <= Len(e)
           /\ e = NULL => \A v \in valid \cup {p} : ~ Covers(v, d)
PROOF
    <1> DEFINE g == GrownExt(p)[d]
    <1>1. p \in Keys /\ d \in Keys /\ d \in Tree /\ p # NULL /\ valid \subseteq Keys
        BY GrownLinked, TreeKeys, RouteTableAssumption DEF RibInv, TypeOK
    <1>2. IsNearest(g, d)
        BY GrownNearest
    <1>3. CASE ~ Covers(p, d)
        <2>1. d \notin Reached(p)
            BY <1>3 DEF Reached
        <2>2. e = g
            BY <1>1, <2>1 DEF AddExt
        <2> QED
            BY <1>2, <1>3, <2>2 DEF IsNearest
    <1>4. CASE Covers(p, d) /\ Stops(g, p)
        <2>1. e = g
            BY <1>1, <1>4 DEF AddExt
        <2> QED
            BY <1>2, <1>4, <2>1 DEF IsNearest, Stops
    <1>5. CASE Covers(p, d) /\ ~ Stops(g, p)
        <2>1. e = p
            BY <1>1, <1>5, ReachedWhereNeeded DEF AddExt
        <2>2. ASSUME NEW v \in valid, Covers(v, d)
              PROVE  Len(v) <= Len(p)
            <3>1. g # NULL /\ Len(v) <= Len(g) /\ g \in Keys
                BY <1>1, <1>2, <2>2 DEF IsNearest
            <3> QED
                BY <1>1, <1>5, <3>1, KeyIsSeq DEF Stops
        <2>3. Len(p) <= Len(p)
            BY <1>1, KeyIsSeq
        <2> QED
            BY <1>1, <1>5, <2>1, <2>2, <2>3
    <1> QED
        BY <1>3, <1>4, <1>5

\* _clear_mark undoes the marks of an add: what leads from p to a reached node
\* is reached.
LEMMA AddCleared ==
    ASSUME Inv, NEW p \in Prefix
    PROVE  Cleared(AddMark(p), p) = {}
PROOF
    <1>0. RibInv
        BY DEF Inv
    <1>1. AddMark(p) = Reached(p)
        BY DEF AddMark, Inv, MarksCleared
    <1>2. SUFFICES ASSUME NEW d \in Reached(p), NEW a \in PathTo(d), Covers(p, a)
                   PROVE  a \in Reached(p)
        BY <1>1 DEF Cleared, Reached
    <1>3. d \in Grown(p) /\ d \in Keys
        BY <1>0, GrownLinked, TreeKeys DEF Reached
    <1>4. a \in Grown(p) /\ a \in Keys /\ Covers(a, d)
        BY <1>0, <1>3, GrownLinked, PathToLinked, PathToCovers
    <1>5. ASSUME NEW b \in Grown(p), Above(b, a)
          PROVE  Above(b, d)
        <2>1. b \in Keys
            BY <1>0, GrownLinked, TreeKeys
        <2>2. Covers(b, d)
            BY <1>3, <1>4, <1>5, <2>1, CoversTransitive, KeyIsSeq DEF Above
        <2>3. Len(b) < Len(a) /\ Len(a) <= Len(d)
            BY <1>4, <1>5, <2>1, AboveShorter DEF Covers
        <2>4. b # d
            BY <1>3, <1>4, <2>1, <2>3, KeyIsSeq
        <2> QED
            BY <2>2, <2>4 DEF Above
    <1> QED
        BY <1>2, <1>4, <1>5 DEF Reached

----------------------------------------------------------------------------
(* Changing and deleting a route *)

\* The marks of a change or a delete lead back to p without a gap.
LEMMA InheritCleared ==
    ASSUME Inv, NEW p \in Prefix
    PROVE  Cleared(InheritMark(p), p) = {}
PROOF
    <1> DEFINE sub == {e \in node : Covers(p, e)}
               hit == {e \in sub : ext[e] = p \/ e \in mark}
    <1>1. InheritMark(p) = {d \in sub : \E e \in hit : Covers(d, e)}
        BY DEF InheritMark, Inv, MarksCleared
    <1>2. SUFFICES ASSUME NEW d \in InheritMark(p), NEW a \in PathTo(d), Covers(p, a)
                   PROVE  a \in InheritMark(p)
        BY <1>1 DEF Cleared
    <1>3. d \in node /\ d \in Keys
        BY <1>1, TreeKeys DEF Inv, RibInv, TypeOK
    <1>4. a \in node /\ a \in Keys /\ Covers(a, d)
        BY <1>3, PathToLinked, PathToCovers DEF Inv, RibInv, Linked
    <1>5. PICK e \in hit : Covers(d, e)
        BY <1>1, <1>2
    <1>6. e \in Keys
        BY TreeKeys DEF Inv, RibInv, TypeOK
    <1>7. Covers(a, e)
        BY <1>3, <1>4, <1>5, <1>6, CoversTransitive, KeyIsSeq
    <1> QED
        BY <1>1, <1>2, <1>4, <1>5, <1>7

\* After a delete every node has its nearest route.
LEMMA DelNearest ==
    ASSUME RibInv, NEW p \in Prefix, p \in valid, NEW d \in node,
           NEW e, e = DelExt(p)[d]
    PROVE  /\ e # NULL => e \in valid \ {p} /\ Covers(e, d)
           /\ e # NULL => \A v \in valid \ {p} : Covers(v, d) => Len(v) <= Len(e)
           /\ e = NULL => \A v \in valid \ {p} : ~ Covers(v, d)
PROOF
    <1>1. p \in Keys /\ d \in Keys /\ d \in Tree /\ valid \subseteq Keys
        BY TreeKeys DEF RibInv, TypeOK
    <1>2. IsNearest(ext[d], d)
        BY DEF RibInv, ExtIsNearest
    <1>3. CASE ext[d] # p
        <2>1. e = ext[d]
            BY <1>1, <1>3 DEF DelExt
        <2> QED
            BY <1>2, <1>3, <2>1 DEF IsNearest
    <1>4. CASE ext[d] = p
        <2>1. Covers(p, d) /\ \A v \in valid : Covers(v, d) => Len(v) <= Len(p)
            BY <1>2, <1>4, RouteTableAssumption DEF IsNearest, RibInv, TypeOK
        <2>2. e = Inherited(p)
            BY <1>1, <1>4, <2>1 DEF DelExt
        <2>3. ASSUME NEW v \in valid \ {p}, Covers(v, d)
              PROVE  Above(v, p)
            BY <1>1, <2>1, <2>3, Comparable, KeyIsSeq DEF Above
        <2>4. ASSUME NEW v \in valid, Above(v, p)
              PROVE  Covers(v, d)
            BY <1>1, <2>1, <2>4, CoversTransitive, KeyIsSeq DEF Above
        <2>5. \/ e = NULL /\ \A v \in valid : ~ Above(v, p)
              \/ /\ e \in valid /\ Above(e, p)
                 /\ \A v \in valid : Above(v, p) => Len(v) <= Len(e)
            BY <1>1, <2>2, InheritedIsNearest DEF RibInv
        <2>6. NULL \notin valid
            BY RouteTableAssumption DEF RibInv, TypeOK
        <2> QED
            BY <2>3, <2>4, <2>5, <2>6 DEF Above
    <1> QED
        BY <1>3, <1>4

----------------------------------------------------------------------------
(* The invariant *)

LEMMA InitInv == Init => Inv
PROOF
    <1> SUFFICES ASSUME Init
                 PROVE  Inv
        OBVIOUS
    <1>1. TypeOK
        <2>1. 0 \in Leaf
            BY DEF Leaf
        <2> QED
            BY <2>1 DEF Init, TypeOK
    <1> QED
        BY <1>1 DEF Init, Inv, RibInv, Linked, MarksCleared, ExtIsNearest

\* A new route (add, or update of a prefix that is not there).
LEMMA InstallInv ==
    ASSUME RibInv, NEW p \in Prefix, p \notin valid, NEW h \in NextHop,
           NEW ok \in BOOLEAN, Install(p, h, ok), fib' \in [Slot -> Entries]
    PROVE  RibInv'
PROOF
    <1>1. /\ node' = Grown(p)
          /\ valid' = valid \cup {p}
          /\ nexthop' = [nexthop EXCEPT ![p] = AsLeaf(fib_ref(h))]
          /\ ext' = AddExt(p)
          /\ mark' \subseteq AddMark(p)
        BY DEF Install, Cleared
    <1>2. p \in Tree /\ Tree \subseteq Keys
        BY TreeKeys
    <1>3. AsLeaf(fib_ref(h)) \in Leaf
        <2>1. fib_ref(h) \in Int
            BY FibRefType, RouteTableAssumption DEF RibInv, Slot
        <2> QED
            BY <2>1, AsLeafType
    <1>4. AddExt(p) \in [Tree -> Tree \cup {NULL}]
        <2>1. GrownExt(p) \in [Tree -> Tree \cup {NULL}]
            BY <1>2, InheritedType DEF GrownExt, RibInv, TypeOK
        <2> QED
            BY <1>2, <2>1 DEF AddExt
    <1>8. mark' \subseteq Grown(p)
        BY <1>1 DEF RibInv, TypeOK, AddMark, Reached, Grown
    <1>5. TypeOK'
        BY <1>1, <1>2, <1>3, <1>4, <1>8, GrownLinked DEF RibInv, TypeOK, Entries, Grown
    <1>6. Linked'
        BY <1>1, GrownLinked DEF Linked
    <1>7. ExtIsNearest'
        BY <1>1, AddNearest DEF ExtIsNearest, IsNearest
    <1> QED
        BY <1>5, <1>6, <1>7 DEF RibInv

\* A changed route keeps its place in the tree.
LEMMA ReplaceInv ==
    ASSUME RibInv, NEW p \in Prefix, p \in valid, NEW h \in NextHop,
           NEW ok \in BOOLEAN, Replace(p, h, ok)
    PROVE  RibInv'
PROOF
    <1>1. p \in Tree
        BY TreeKeys
    <1>2. fib' \in [Slot -> Entries]
        <2>1. nexthop[p] \in Leaf
            BY <1>1 DEF RibInv, TypeOK
        <2>2. nexthop[p] \in Int
            BY <2>1, LeafIsInt
        <2> QED
            BY <2>2, ReferencedType, ReleasedType DEF Replace, RibInv
    <1>3. AsLeaf(fib_ref(h)) \in Leaf
        <2>1. fib_ref(h) \in Int
            BY FibRefType, RouteTableAssumption DEF RibInv, Slot
        <2> QED
            BY <2>1, AsLeafType
    <1>4. /\ node' = node /\ valid' = valid /\ ext' = ext
          /\ mark' \subseteq mark \cup InheritMark(p)
          /\ nexthop' \in [Tree -> Leaf]
        BY <1>1, <1>3 DEF Replace, RibInv, TypeOK, Cleared, ribVars
    <1>5. mark' \subseteq node
        BY <1>4 DEF RibInv, TypeOK, InheritMark
    <1> QED
        BY <1>2, <1>4, <1>5 DEF RibInv, TypeOK, Linked, ExtIsNearest, IsNearest, Entries

LEMMA DelInv ==
    ASSUME RibInv, NEW p \in Prefix, p \in valid, NEW ok \in BOOLEAN, poptrie_route_del(p, ok)
    PROVE  RibInv'
PROOF
    <1>1. /\ ext' = DelExt(p) /\ valid' = valid \ {p} /\ node' = node
          /\ nexthop' = [nexthop EXCEPT ![p] = 0]
          /\ mark' \subseteq InheritMark(p)
          /\ fib' = Released(fib, nexthop[p]) \/ fib' = fib
        BY DEF poptrie_route_del, Cleared
    <1>2. p \in Tree /\ p \in Keys
        BY TreeKeys
    <1>3. fib' \in [Slot -> Entries]
        <2>1. nexthop[p] \in Leaf
            BY <1>2 DEF RibInv, TypeOK
        <2>2. nexthop[p] \in Int
            BY <2>1, LeafIsInt
        <2> QED
            BY <1>1, <2>2, ReleasedType DEF RibInv, TypeOK, Entries
    <1>4. DelExt(p) \in [Tree -> Tree \cup {NULL}]
        BY <1>2, InheritedType DEF DelExt, RibInv, TypeOK
    <1>5. 0 \in Leaf
        BY DEF Leaf
    <1>8. mark' \subseteq node
        BY <1>1 DEF RibInv, TypeOK, InheritMark
    <1>6. TypeOK'
        BY <1>1, <1>3, <1>4, <1>5, <1>8 DEF RibInv, TypeOK, Entries
    <1>7. ExtIsNearest'
        BY <1>1, DelNearest DEF ExtIsNearest, IsNearest
    <1> QED
        BY <1>1, <1>6, <1>7 DEF RibInv, Linked

\* An operation that is refused changes the table at most.
LEMMA RefusedInv ==
    ASSUME RibInv, UNCHANGED ribVars, fib' \in [Slot -> Entries]
    PROVE  RibInv'
PROOF
    BY DEF RibInv, TypeOK, Linked, ExtIsNearest, IsNearest, ribVars, Entries

LEMMA UnreferencedType ==
    ASSUME TypeOK, NEW h \in NextHop
    PROVE  Unreferenced(h) \in [Slot -> Entries]
PROOF
    <1>1. fib_ref(h) \in Int
        BY FibRefType, RouteTableAssumption DEF Slot
    <1> QED
        BY <1>1, ReferencedType, ReleasedType DEF Unreferenced

\* Every operation keeps the tree right, whether or not the update of the trie
\* succeeds.
LEMMA NextInv == RibInv /\ [AnyMayFail]_vars => RibInv'
PROOF
    <1> SUFFICES ASSUME RibInv, [AnyMayFail]_vars
                 PROVE  RibInv'
        OBVIOUS
    <1>1. TypeOK
        BY DEF RibInv
    <1>2. ASSUME UNCHANGED vars
          PROVE  RibInv'
        BY <1>1, <1>2, RefusedInv DEF vars, ribVars, TypeOK, Entries
    <1>3. ASSUME NEW p \in Prefix, NEW h \in NextHop, NEW ok \in BOOLEAN,
                 poptrie_route_add(p, h, ok)
          PROVE  RibInv'
        <2>1. CASE p \in valid
            BY <1>1, <1>3, <2>1, UnreferencedType, RefusedInv DEF poptrie_route_add
        <2>2. CASE p \notin valid
            BY <1>1, <1>3, <2>2, ReferencedType, UnreferencedType, InstallInv DEF poptrie_route_add
        <2> QED
            BY <2>1, <2>2
    <1>4. ASSUME NEW p \in Prefix, NEW h \in NextHop, NEW ok \in BOOLEAN,
                 poptrie_route_change(p, h, ok)
          PROVE  RibInv'
        <2>1. CASE p \in valid
            BY <1>4, <2>1, ReplaceInv DEF poptrie_route_change
        <2>2. CASE p \notin valid
            BY <1>1, <1>4, <2>2, ReferencedType, RefusedInv DEF poptrie_route_change
        <2> QED
            BY <2>1, <2>2
    <1>5. ASSUME NEW p \in Prefix, NEW h \in NextHop, NEW ok \in BOOLEAN,
                 poptrie_route_update(p, h, ok)
          PROVE  RibInv'
        <2>1. CASE p \in valid
            BY <1>5, <2>1, ReplaceInv DEF poptrie_route_update
        <2>2. CASE p \notin valid
            BY <1>1, <1>5, <2>2, ReferencedType, InstallInv DEF poptrie_route_update
        <2> QED
            BY <2>1, <2>2
    <1>6. ASSUME NEW p \in Prefix, NEW ok \in BOOLEAN, poptrie_route_del(p, ok)
          PROVE  RibInv'
        <2>1. CASE p \in valid
            BY <1>6, <2>1, DelInv
        <2>2. CASE p \notin valid
            BY <1>2, <1>6, <2>2 DEF poptrie_route_del
        <2> QED
            BY <2>1, <2>2
    <1> QED
        BY <1>2, <1>3, <1>4, <1>5, <1>6 DEF AnyMayFail, MayFail

\* When the update succeeds, the operation leaves no mark behind.
LEMMA NextCleared == Inv /\ [Next]_vars => MarksCleared'
PROOF
    <1> SUFFICES ASSUME Inv, [Next]_vars
                 PROVE  mark' = {}
        BY DEF MarksCleared
    <1>1. CASE UNCHANGED ribVars \/ UNCHANGED vars
        BY <1>1 DEF ribVars, vars, Inv, MarksCleared
    <1>2. ASSUME NEW p \in Prefix, NEW h \in NextHop, Install(p, h, TRUE)
          PROVE  mark' = {}
        BY <1>2, AddCleared DEF Install
    <1>3. ASSUME NEW p \in Prefix, NEW h \in NextHop, Replace(p, h, TRUE)
          PROVE  mark' = {}
        BY <1>1, <1>3, InheritCleared DEF Replace
    <1>4. ASSUME NEW p \in Prefix, poptrie_route_del(p, TRUE)
          PROVE  mark' = {}
        BY <1>1, <1>4, InheritCleared DEF poptrie_route_del
    <1>5. ASSUME NEW p \in Prefix, NEW h \in NextHop,
                 \/ poptrie_route_add(p, h, TRUE)
                 \/ poptrie_route_change(p, h, TRUE)
                 \/ poptrie_route_update(p, h, TRUE)
          PROVE  mark' = {}
        BY <1>1, <1>2, <1>3, <1>5 DEF poptrie_route_add, poptrie_route_change, poptrie_route_update
    <1> QED
        BY <1>1, <1>4, <1>5 DEF Next

\* Next is the case in which no update fails.
LEMMA NextMayFail == ([Next]_vars => [AddsSucceed]_vars) /\ ([AddsSucceed]_vars => [AnyMayFail]_vars)
PROOF
    <1>1. Next => AddsSucceed
        BY DEF Next, AddsSucceed, MayFail
    <1>2. AddsSucceed => AnyMayFail
        BY DEF AnyMayFail, AddsSucceed, MayFail
    <1> QED
        BY <1>1, <1>2

LEMMA AnyInvariant == Init /\ [][AnyMayFail]_vars => []RibInv
PROOF
    <1>1. Inv => RibInv
        BY DEF Inv
    <1> QED
        BY <1>1, InitInv, NextInv, PTL

LEMMA Invariant == Spec => []Inv
PROOF
    <1>1. Inv /\ [Next]_vars => Inv'
        BY NextInv, NextCleared, NextMayFail DEF Inv
    <1> QED
        BY <1>1, InitInv, PTL DEF Spec

\* Tree and table have their types; every route has a node.
THEOREM TypeCorrect == Spec => []TypeOK
PROOF
    <1>1. Inv => TypeOK
        BY DEF Inv, RibInv
    <1> QED
        BY <1>1, Invariant, PTL

\* The route every node caches is its longest matching one, whatever the order of
\* the operations.
THEOREM InheritanceCorrect == Spec => []ExtIsNearest
PROOF
    <1>1. Inv => ExtIsNearest
        BY DEF Inv, RibInv
    <1> QED
        BY <1>1, Invariant, PTL

\* The cached routes stay right when updates of the trie fail: the propagation is
\* done before the update, and no failure takes a part of it back.
THEOREM InheritanceSurvivesFailures == Init /\ [][AnyMayFail]_vars => []ExtIsNearest
PROOF
    <1>1. RibInv => ExtIsNearest
        BY DEF RibInv
    <1> QED
        BY <1>1, AnyInvariant, PTL

\* _clear_mark undoes every mark an operation has set.
THEOREM MarksAreCleared == Spec => []MarksCleared
PROOF
    <1>1. Inv => MarksCleared
        BY DEF Inv, RibInv
    <1> QED
        BY <1>1, Invariant, PTL

----------------------------------------------------------------------------
(* The reference counts *)

\* A slot is counted at least once for every route that uses it.
Counted ==
    /\ IsFiniteSet(valid)
    /\ \A i \in Slot : Cardinality(Users(i)) <= fib[i].refs

LEMMA UsersFinite ==
    ASSUME IsFiniteSet(valid), NEW i
    PROVE  IsFiniteSet(Users(i)) /\ Cardinality(Users(i)) \in Nat
PROOF
    BY FS_Subset, FS_CardinalityType DEF Users

LEMMA SlotAsLeaf ==
    ASSUME NEW n \in Slot \cup {-1}, NEW i \in Slot
    PROVE  AsLeaf(n) = i <=> n = i
PROOF
    <1>1. FibSize \in Int /\ FibSize <= 65535 /\ i \in Int /\ 0 <= i /\ i < FibSize
        BY RouteTableAssumption, SlotAssumption DEF Slot
    <1>2. \A m \in Int : 0 <= m /\ m < 65536 => m % 65536 = m
        BY SMT
    <1>3. \A m \in Int : m + 65536 >= 0 /\ m < 0 => m % 65536 = m + 65536
        BY SMT
    <1>4. CASE n = -1
        <2>1. n \in Int /\ n + 65536 >= 0 /\ n < 0
            BY <1>4
        <2>2. AsLeaf(n) = n + 65536
            BY <1>3, <2>1 DEF AsLeaf
        <2> QED
            BY <1>1, <1>4, <2>2
    <1>5. CASE n \in Slot
        <2>1. n \in Int /\ 0 <= n /\ n < 65536
            BY <1>5, RouteTableAssumption, SlotAssumption DEF Slot
        <2> QED
            BY <1>2, <2>1 DEF AsLeaf
    <1> QED
        BY <1>4, <1>5

\* poptrie_fib_ref counts the slot it returns once more, also when it recycles it.
LEMMA ReferencedCounts ==
    ASSUME TypeOK, Counted, NEW h \in NextHop, NEW j \in Slot
    PROVE  /\ j = fib_ref(h) => Cardinality(Users(j)) + 1 <= Referenced(h)[j].refs
           /\ j # fib_ref(h) => Cardinality(Users(j)) <= Referenced(h)[j].refs
PROOF
    <1>1. Slot \in SUBSET Nat
        BY RouteTableAssumption DEF Slot
    <1>2. Matching(h) \in SUBSET Slot /\ Available \in SUBSET Slot
        BY DEF Matching, Available
    <1>3. fib \in [Slot -> Entries] /\ fib[j] \in Entries
        BY DEF TypeOK, Entries
    <1>4. Cardinality(Users(j)) \in Nat /\ Cardinality(Users(j)) <= fib[j].refs /\ fib[j].refs \in Int
        BY <1>3, UsersFinite DEF Counted, Entries
    <1>5. CASE Matching(h) # {}
        <2> DEFINE i == First(Matching(h))
        <2>1. i \in Slot /\ fib_ref(h) = i
            BY <1>1, <1>2, <1>5, FirstIn DEF fib_ref
        <2>2. Referenced(h) = [fib EXCEPT ![i] = [fib[i] EXCEPT !.refs = @ + 1]]
            BY <1>5 DEF Referenced
        <2>3. CASE j = i
            <3>1. Referenced(h)[j] = [fib[j] EXCEPT !.refs = @ + 1]
                BY <1>3, <2>1, <2>2, <2>3
            <3>2. Referenced(h)[j].refs = fib[j].refs + 1
                BY <1>3, <3>1 DEF Entries
            <3> QED
                BY <1>4, <2>1, <2>3, <3>2
        <2>4. CASE j # i
            <3>1. Referenced(h)[j] = fib[j]
                BY <1>3, <2>1, <2>2, <2>4
            <3> QED
                BY <1>4, <2>1, <2>4, <3>1
        <2> QED
            BY <2>3, <2>4
    <1>6. CASE Matching(h) = {} /\ Available # {}
        <2> DEFINE i == First(Available)
        <2>1. i \in Slot /\ i \in Available /\ fib_ref(h) = i
            BY <1>1, <1>2, <1>6, FirstIn DEF fib_ref
        <2>2. Referenced(h) = [fib EXCEPT ![i] = [entry |-> h, refs |-> 1]]
            BY <1>6 DEF Referenced
        <2>3. CASE j = i
            <3>1. Referenced(h)[j].refs = 1 /\ fib[j].refs <= 0
                BY <1>3, <2>1, <2>2, <2>3 DEF Available
            <3>2. Cardinality(Users(j)) = 0
                BY <1>4, <3>1
            <3> QED
                BY <2>1, <2>3, <3>1, <3>2
        <2>4. CASE j # i
            <3>1. Referenced(h)[j] = fib[j]
                BY <1>3, <2>1, <2>2, <2>4
            <3> QED
                BY <1>4, <2>1, <2>4, <3>1
        <2> QED
            BY <2>3, <2>4
    <1>7. CASE Matching(h) = {} /\ Available = {}
        <2>1. fib_ref(h) = -1 /\ Referenced(h) = fib
            BY <1>7 DEF fib_ref, Referenced
        <2> QED
            BY <1>1, <1>4, <2>1
    <1> QED
        BY <1>5, <1>6, <1>7

LEMMA ReleasedRefs ==
    ASSUME NEW f \in [Slot -> Entries], NEW n, NEW j \in Slot
    PROVE  /\ f[j].refs \in Int
           /\ j = n => Released(f, n)[j].refs = f[j].refs - 1
           /\ j # n => Released(f, n)[j].refs = f[j].refs
PROOF
    <1>1. f[j] \in Entries /\ f[j].refs \in Int
        BY DEF Entries
    <1>2. CASE n \in Slot
        <2>1. Released(f, n) = [f EXCEPT ![n] = [f[n] EXCEPT !.refs = @ - 1]]
            BY <1>2 DEF Released
        <2>2. CASE j = n
            <3>1. Released(f, n)[j] = [f[j] EXCEPT !.refs = @ - 1]
                BY <1>2, <2>1, <2>2
            <3> QED
                BY <1>1, <2>2, <3>1 DEF Entries
        <2>3. CASE j # n
            BY <1>1, <1>2, <2>1, <2>3
        <2> QED
            BY <2>2, <2>3
    <1>3. CASE n \notin Slot
        BY <1>1, <1>3 DEF Released
    <1> QED
        BY <1>2, <1>3

\* A new route uses one slot more.
LEMMA InstallUsers ==
    ASSUME RibInv, NEW p \in Prefix, p \notin valid, NEW h \in NextHop,
           NEW ok \in BOOLEAN, Install(p, h, ok),
           NEW j \in Slot
    PROVE  /\ j = fib_ref(h) => Users(j)' = Users(j) \cup {p}
           /\ j # fib_ref(h) => Users(j)' = Users(j)
PROOF
    <1>1. valid' = valid \cup {p} /\ nexthop' = [nexthop EXCEPT ![p] = AsLeaf(fib_ref(h))]
        BY DEF Install
    <1>2. p \in Tree /\ nexthop \in [Tree -> Leaf] /\ valid \subseteq Tree
        BY TreeKeys DEF RibInv, TypeOK
    <1>3. AsLeaf(fib_ref(h)) = j <=> fib_ref(h) = j
        BY FibRefType, SlotAsLeaf DEF RibInv
    <1> QED
        BY <1>1, <1>2, <1>3 DEF Users

LEMMA InstallCounted ==
    ASSUME RibInv, Counted, NEW p \in Prefix, p \notin valid, NEW h \in NextHop,
           NEW ok \in BOOLEAN, Install(p, h, ok), fib' = Referenced(h)
    PROVE  Counted'
PROOF
    <1>1. IsFiniteSet(valid')
        BY FS_AddElement DEF Install, Counted
    <1>2. ASSUME NEW j \in Slot
          PROVE  Cardinality(Users(j)') <= fib'[j].refs
        <2>1. p \notin Users(j) /\ IsFiniteSet(Users(j))
            BY UsersFinite DEF Users, Counted
        <2>2. CASE j = fib_ref(h)
            <3>1. Users(j)' = Users(j) \cup {p}
                BY <2>2, InstallUsers
            <3>2. Cardinality(Users(j) \cup {p}) = Cardinality(Users(j)) + 1
                BY <2>1, FS_AddElement
            <3>3. Cardinality(Users(j)') = Cardinality(Users(j)) + 1
                BY <3>1, <3>2
            <3> QED
                BY <2>2, <3>3, ReferencedCounts DEF RibInv
        <2>3. CASE j # fib_ref(h)
            BY <2>3, InstallUsers, ReferencedCounts DEF RibInv
        <2> QED
            BY <2>2, <2>3
    <1> QED
        BY <1>1, <1>2 DEF Counted

\* A route that moves leaves the slot that is released afterwards.
LEMMA ReplaceCounted ==
    ASSUME RibInv, Counted, NEW p \in Prefix, p \in valid, NEW h \in NextHop,
           NEW ok \in BOOLEAN, Replace(p, h, ok)
    PROVE  Counted'
PROOF
    <1> DEFINE i == fib_ref(h)
               o == nexthop[p]
    <1>1. /\ fib' = Released(Referenced(h), o)
          /\ valid' = valid
          /\ nexthop' = [nexthop EXCEPT ![p] = AsLeaf(i)]
        <2>1. p \in Tree /\ nexthop \in [Tree -> Leaf]
            BY TreeKeys DEF RibInv, TypeOK
        <2>2. CASE nexthop[p] # AsLeaf(i)
            BY <2>2 DEF Replace
        <2>3. CASE nexthop[p] = AsLeaf(i)
            <3>1. nexthop' = nexthop /\ valid' = valid /\ fib' = Released(Referenced(h), o)
                BY <2>3 DEF Replace, ribVars
            <3> QED
                BY <2>1, <2>3, <3>1
        <2> QED
            BY <2>2, <2>3
    <1>2. p \in Tree /\ nexthop \in [Tree -> Leaf] /\ valid \subseteq Tree
        BY TreeKeys DEF RibInv, TypeOK
    <1>3. ASSUME NEW j \in Slot
          PROVE  Cardinality(Users(j)') <= fib'[j].refs
        <2> DEFINE f == Referenced(h)
        <2>1. AsLeaf(i) = j <=> i = j
            BY FibRefType, SlotAsLeaf DEF RibInv
        <2>2. f \in [Slot -> Entries]
            BY ReferencedType DEF RibInv
        <2>3. /\ f[j].refs \in Int
              /\ j = o => fib'[j].refs = f[j].refs - 1
              /\ j # o => fib'[j].refs = f[j].refs
            BY <1>1, <2>2, ReleasedRefs
        <2>4. /\ j = i => Cardinality(Users(j)) + 1 <= f[j].refs
              /\ j # i => Cardinality(Users(j)) <= f[j].refs
            BY ReferencedCounts DEF RibInv
        <2>5. IsFiniteSet(Users(j)) /\ Cardinality(Users(j)) \in Nat
            BY UsersFinite DEF Counted
        <2>6. CASE j = i /\ j = o
            <3>1. Users(j)' = Users(j)
                BY <1>1, <1>2, <2>1, <2>6 DEF Users
            <3> QED
                BY <2>3, <2>4, <2>5, <2>6, <3>1
        <2>7. CASE j = i /\ j # o
            <3>1. Users(j)' = Users(j) \cup {p} /\ p \notin Users(j)
                BY <1>1, <1>2, <2>1, <2>7 DEF Users
            <3>2. Cardinality(Users(j) \cup {p}) = Cardinality(Users(j)) + 1
                BY <2>5, <3>1, FS_AddElement
            <3>3. Cardinality(Users(j)') = Cardinality(Users(j)) + 1
                BY <3>1, <3>2
            <3> QED
                BY <2>3, <2>4, <2>5, <2>7, <3>3
        <2>8. CASE j # i /\ j = o
            <3>1. Users(j)' = Users(j) \ {p} /\ p \in Users(j)
                BY <1>1, <1>2, <2>1, <2>8 DEF Users
            <3>2. Cardinality(Users(j)') = Cardinality(Users(j)) - 1
                BY <2>5, <3>1, FS_RemoveElement
            <3> QED
                BY <2>3, <2>4, <2>5, <2>8, <3>2
        <2>9. CASE j # i /\ j # o
            <3>1. Users(j)' = Users(j)
                BY <1>1, <1>2, <2>1, <2>9 DEF Users
            <3> QED
                BY <2>3, <2>4, <2>5, <2>9, <3>1
        <2> QED
            BY <2>6, <2>7, <2>8, <2>9
    <1> QED
        BY <1>1, <1>3 DEF Counted

LEMMA DelCounted ==
    ASSUME RibInv, Counted, NEW p \in Prefix, p \in valid,
           NEW ok \in BOOLEAN, poptrie_route_del(p, ok)
    PROVE  Counted'
PROOF
    <1>1. /\ valid' = valid \ {p}
          /\ nexthop' = [nexthop EXCEPT ![p] = 0]
          /\ fib' = Released(fib, nexthop[p]) \/ fib' = fib
        BY DEF poptrie_route_del
    <1>2. p \in Tree /\ nexthop \in [Tree -> Leaf] /\ valid \subseteq Tree
        BY TreeKeys DEF RibInv, TypeOK
    <1>3. fib \in [Slot -> Entries]
        BY DEF RibInv, TypeOK, Entries
    <1>4. IsFiniteSet(valid')
        BY <1>1, FS_RemoveElement DEF Counted
    <1>5. ASSUME NEW j \in Slot
          PROVE  Cardinality(Users(j)') <= fib'[j].refs
        <2>1. /\ fib[j].refs \in Int
              /\ j = nexthop[p] => fib'[j].refs \in {fib[j].refs, fib[j].refs - 1}
              /\ j # nexthop[p] => fib'[j].refs = fib[j].refs
            BY <1>1, <1>3, ReleasedRefs
        <2>2. /\ IsFiniteSet(Users(j)) /\ Cardinality(Users(j)) \in Nat
              /\ Cardinality(Users(j)) <= fib[j].refs
            BY UsersFinite DEF Counted
        <2>3. CASE j = nexthop[p]
            <3>1. Users(j)' = Users(j) \ {p} /\ p \in Users(j)
                BY <1>1, <1>2, <2>3 DEF Users
            <3>2. Cardinality(Users(j)') = Cardinality(Users(j)) - 1
                BY <2>2, <3>1, FS_RemoveElement
            <3> QED
                BY <2>1, <2>2, <2>3, <3>2
        <2>4. CASE j # nexthop[p]
            <3>1. Users(j)' = Users(j)
                BY <1>1, <1>2, <2>4 DEF Users
            <3> QED
                BY <2>1, <2>2, <2>4, <3>1
        <2> QED
            BY <2>3, <2>4
    <1> QED
        BY <1>4, <1>5 DEF Counted

\* An operation that is refused keeps the counts, or raises one.
LEMMA RefusedCounted ==
    ASSUME RibInv, Counted, UNCHANGED ribVars, NEW h \in NextHop,
           fib' = Referenced(h) \/ fib' = Unreferenced(h)
    PROVE  Counted'
PROOF
    <1>1. valid' = valid /\ \A j \in Slot : Users(j)' = Users(j)
        BY DEF ribVars, Users
    <1>2. ASSUME NEW j \in Slot
          PROVE  Cardinality(Users(j)) <= fib'[j].refs
        <2> DEFINE f == Referenced(h)
        <2>1. f \in [Slot -> Entries]
            BY ReferencedType DEF RibInv
        <2>2. Cardinality(Users(j)) \in Nat
            BY UsersFinite DEF Counted
        <2>3. /\ j = fib_ref(h) => Cardinality(Users(j)) + 1 <= f[j].refs
              /\ j # fib_ref(h) => Cardinality(Users(j)) <= f[j].refs
            BY ReferencedCounts DEF RibInv
        <2>4. /\ f[j].refs \in Int
              /\ j = fib_ref(h) => Unreferenced(h)[j].refs = f[j].refs - 1
              /\ j # fib_ref(h) => Unreferenced(h)[j].refs = f[j].refs
            BY <2>1, ReleasedRefs DEF Unreferenced
        <2> QED
            BY <2>2, <2>3, <2>4
    <1> QED
        BY <1>1, <1>2 DEF Counted

LEMMA NextCounted == RibInv /\ Counted /\ [AddsSucceed]_vars => Counted'
PROOF
    <1> SUFFICES ASSUME RibInv, Counted, [AddsSucceed]_vars
                 PROVE  Counted'
        OBVIOUS
    <1>1. ASSUME UNCHANGED vars
          PROVE  Counted'
        BY <1>1 DEF vars, Counted, Users
    <1>2. ASSUME NEW p \in Prefix, NEW h \in NextHop, poptrie_route_add(p, h, TRUE)
          PROVE  Counted'
        BY <1>2, RefusedCounted, InstallCounted DEF poptrie_route_add
    <1>3. ASSUME NEW p \in Prefix, NEW h \in NextHop, NEW ok \in BOOLEAN,
                 poptrie_route_change(p, h, ok)
          PROVE  Counted'
        BY <1>3, RefusedCounted, ReplaceCounted DEF poptrie_route_change
    <1>4. ASSUME NEW p \in Prefix, NEW h \in NextHop, NEW ok \in BOOLEAN,
                 poptrie_route_update(p, h, ok)
          PROVE  Counted'
        BY <1>4, InstallCounted, ReplaceCounted DEF poptrie_route_update
    <1>5. ASSUME NEW p \in Prefix, NEW ok \in BOOLEAN, poptrie_route_del(p, ok)
          PROVE  Counted'
        BY <1>1, <1>5, DelCounted DEF poptrie_route_del
    <1> QED
        BY <1>1, <1>2, <1>3, <1>4, <1>5 DEF AddsSucceed, MayFail

LEMMA InitCounted == Init => Counted
PROOF
    <1> SUFFICES ASSUME Init
                 PROVE  Counted
        OBVIOUS
    <1>1. IsFiniteSet(valid) /\ \A i \in Slot : Users(i) = {}
        BY FS_EmptySet DEF Init, Users
    <1>2. \A i \in Slot : fib[i].refs >= 0
        BY DEF Init
    <1> QED
        BY <1>1, <1>2, FS_EmptySet DEF Counted

\* A slot that a route uses is counted.
LEMMA CountedKeeps == RibInv /\ Counted => UsedSlotKept
PROOF
    <1> SUFFICES ASSUME RibInv, Counted, NEW p \in valid, nexthop[p] \in Slot
                 PROVE  fib[nexthop[p]].refs > 0
        BY DEF UsedSlotKept
    <1> DEFINE j == nexthop[p]
    <1>1. IsFiniteSet(Users(j)) /\ Cardinality(Users(j)) \in Nat /\ p \in Users(j)
        BY UsersFinite DEF Counted, Users
    <1>2. Cardinality(Users(j)) # 0
        BY <1>1, FS_EmptySet
    <1>3. Cardinality(Users(j)) <= fib[j].refs /\ fib[j].refs \in Int
        BY DEF Counted, RibInv, TypeOK
    <1> QED
        BY <1>1, <1>2, <1>3

\* Whatever holds when updates may fail holds when none does.
LEMMA SpecMayFail ==
    /\ Spec => Init /\ [][AddsSucceed]_vars
    /\ Init /\ [][AddsSucceed]_vars => Init /\ [][AnyMayFail]_vars
PROOF
    BY NextMayFail, PTL DEF Spec

LEMMA CountedInvariant == Init /\ [][AddsSucceed]_vars => []Counted
PROOF
    BY InitCounted, NextCounted, AnyInvariant, SpecMayFail, PTL

\* No slot is recycled in use either when updates of the trie fail, unless it is
\* that of poptrie_route_add: a route that could not be changed keeps the new slot and
\* gives up the old one, and one that could not be deleted leaves its slot counted.
THEOREM SlotsSurviveFailures == Init /\ [][AddsSucceed]_vars => []UsedSlotKept
PROOF
    BY CountedKeeps, CountedInvariant, AnyInvariant, SpecMayFail, PTL

\* poptrie_fib_ref never recycles a slot that a route uses, however the table
\* fills up and whatever references the refused operations leave behind.
THEOREM NoSlotRecycledInUse == Spec => []UsedSlotKept
PROOF
    BY SlotsSurviveFailures, SpecMayFail, PTL

----------------------------------------------------------------------------
(* The refinement of RouteMap *)

\* The table has a slot for every next hop and one for NULL: the callers' side of
\* "new entries exceeding this size will result in an error" (poptrie.h:22-24).
EnoughSlots == IsFiniteSet(NextHop) /\ Cardinality(NextHop) < FibSize

\* No next hop has two slots, a counted slot has a next hop, and slot 0, which
\* poptrie_init gives to NULL, belongs to no route.
SlotsDistinct ==
    /\ \A i, j \in Slot : fib[i].entry # NULL /\ fib[i].entry = fib[j].entry => i = j
    /\ fib[0] = [entry |-> NULL, refs |-> 1]
    /\ \A i \in Slot \ {0} : fib[i].refs > 0 => fib[i].entry # NULL
    /\ \A p \in valid : nexthop[p] # 0

\* The inductive invariant of this module.
TableInv == RibInv /\ Counted /\ SlotsDistinct /\ RoutesHaveSlots

----------------------------------------------------------------------------
(* poptrie_fib_ref *)

\* If no slot is free and none holds h, all slots but slot 0 hold other next hops.
LEMMA SlotFound ==
    ASSUME EnoughSlots, TypeOK, SlotsDistinct, NEW h \in NextHop, Matching(h) = {}
    PROVE  Available # {}
PROOF
    <1> SUFFICES ASSUME Available = {}
                 PROVE  FALSE
        OBVIOUS
    <1> DEFINE S == 1 .. FibSize - 1
               T == NextHop \ {h}
               f == [i \in S |-> fib[i].entry]
    <1>1. FibSize \in Nat /\ FibSize > 0 /\ S = Slot \ {0}
        BY RouteTableAssumption DEF Slot
    <1>2. IsFiniteSet(S) /\ Cardinality(S) = FibSize - 1
        BY <1>1, FS_Interval
    <1>3. IsFiniteSet(T) /\ Cardinality(T) = Cardinality(NextHop) - 1
        BY FS_RemoveElement DEF EnoughSlots
    <1>4. Cardinality(NextHop) \in Nat /\ Cardinality(NextHop) < FibSize
        BY FS_CardinalityType DEF EnoughSlots
    <1>5. Cardinality(T) < Cardinality(S)
        BY <1>1, <1>2, <1>3, <1>4
    <1>6. ASSUME NEW i \in S
          PROVE  fib[i].entry \in T
        <2>1. i \in Slot /\ i # 0 /\ fib[i].entry \in NextHop \cup {NULL} /\ fib[i].refs \in Int
            BY <1>1 DEF TypeOK
        <2>2. fib[i].refs > 0
            BY <2>1 DEF Available
        <2> QED
            BY <2>1, <2>2 DEF SlotsDistinct, Matching
    <1>7. f \in [S -> T]
        BY <1>6
    <1>8. \E x, y \in S : x # y /\ f[x] = f[y]
        <2> HIDE DEF S, T, f
        <2> QED
            BY <1>2, <1>3, <1>5, <1>7, FS_PigeonHole
    <1>9. PICK x \in S, y \in S : x # y /\ fib[x].entry = fib[y].entry
        BY <1>8
    <1> QED
        BY <1>1, <1>6, <1>9, RouteTableAssumption DEF SlotsDistinct

\* The slot of h, and what the table then holds: h is in that slot and in no other,
\* and only a slot without references has lost its entry.
LEMMA ReferencedEntries ==
    ASSUME EnoughSlots, TableInv, NEW h \in NextHop
    PROVE  /\ fib_ref(h) \in Slot \ {0}
           /\ \A j \in Slot : fib[j].entry = h => j = fib_ref(h)
           /\ fib[fib_ref(h)].refs <= 0 \/ fib[fib_ref(h)].entry = h
           /\ Referenced(h) \in [Slot -> Entries]
           /\ Referenced(h)[fib_ref(h)].entry = h
           /\ Referenced(h)[fib_ref(h)].refs > 0
           /\ \A j \in Slot \ {fib_ref(h)} : Referenced(h)[j] = fib[j]
PROOF
    <1> DEFINE n == fib_ref(h)
    <1>1. TypeOK /\ SlotsDistinct
        BY DEF TableInv, RibInv
    <1>2. Slot \in SUBSET Nat /\ 0 \in Slot /\ h # NULL /\ Referenced(h) \in [Slot -> Entries]
        BY <1>1, ReferencedType, RouteTableAssumption DEF Slot
    <1>3. fib \in [Slot -> Entries]
        BY <1>1 DEF TypeOK, Entries
    <1>4. 0 \notin Matching(h) /\ 0 \notin Available
        BY <1>1, <1>2 DEF SlotsDistinct, Matching, Available
    <1>5. CASE Matching(h) # {}
        <2>1. n \in Matching(h) /\ n = First(Matching(h))
            BY <1>2, <1>5, FirstIn DEF fib_ref, Matching
        <2>2. n \in Slot \ {0} /\ fib[n].entry = h
            BY <1>4, <2>1 DEF Matching
        <2>3. Referenced(h) = [fib EXCEPT ![n].refs = @ + 1]
            BY <1>5, <2>1 DEF Referenced
        <2>4. \A j \in Slot : fib[j].entry = h => j = n
            BY <1>1, <1>2, <2>2 DEF SlotsDistinct
        <2>5. Cardinality(Users(n)) \in Nat /\ Cardinality(Users(n)) <= fib[n].refs /\ fib[n].refs \in Int
            BY <1>3, <2>2, UsersFinite DEF TableInv, Counted, Entries
        <2>6. Referenced(h)[n].entry = h /\ Referenced(h)[n].refs = fib[n].refs + 1
            BY <1>3, <2>2, <2>3 DEF Entries
        <2>7. \A j \in Slot \ {n} : Referenced(h)[j] = fib[j]
            BY <1>3, <2>3
        <2> QED
            BY <1>2, <2>2, <2>4, <2>5, <2>6, <2>7
    <1>6. CASE Matching(h) = {}
        <2>1. Available # {}
            BY <1>1, <1>6, SlotFound
        <2>2. n \in Available /\ n = First(Available)
            BY <1>2, <1>6, <2>1, FirstIn DEF fib_ref, Available
        <2>3. n \in Slot \ {0} /\ fib[n].refs <= 0
            BY <1>4, <2>2 DEF Available
        <2>4. Referenced(h) = [fib EXCEPT ![n] = [entry |-> h, refs |-> 1]]
            BY <1>6, <2>1, <2>2 DEF Referenced
        <2>5. \A j \in Slot : fib[j].entry # h
            BY <1>6 DEF Matching
        <2> QED
            BY <1>2, <1>3, <2>3, <2>4, <2>5
    <1> QED
        BY <1>5, <1>6

\* The slot is a leaf as it is.
LEMMA SlotKept ==
    ASSUME EnoughSlots, TableInv, NEW h \in NextHop
    PROVE  AsLeaf(fib_ref(h)) = fib_ref(h)
PROOF
    BY ReferencedEntries, SlotAsLeaf

----------------------------------------------------------------------------
(* The inductive invariant *)

\* A table whose entries are those of Referenced(h), whatever was released since.
LEMMA DistinctAfter ==
    ASSUME EnoughSlots, TableInv, NEW h \in NextHop, NEW f \in [Slot -> Entries],
           \A j \in Slot : f[j].entry = Referenced(h)[j].entry,
           \A j \in Slot : f[j].refs <= Referenced(h)[j].refs,
           f[0] = fib[0]
    PROVE  /\ \A i, j \in Slot : f[i].entry # NULL /\ f[i].entry = f[j].entry => i = j
           /\ f[0] = [entry |-> NULL, refs |-> 1]
           /\ \A i \in Slot \ {0} : f[i].refs > 0 => f[i].entry # NULL
PROOF
    <1> DEFINE n == fib_ref(h)
               g == Referenced(h)
    <1>1. n \in Slot \ {0} /\ g[n].entry = h /\ \A j \in Slot \ {n} : g[j] = fib[j]
        BY ReferencedEntries
    <1>2. \A j \in Slot \ {n} : fib[j].entry # h
        BY ReferencedEntries
    <1>3. SlotsDistinct /\ h # NULL
        BY RouteTableAssumption DEF TableInv
    <1>4. ASSUME NEW i \in Slot, NEW j \in Slot, g[i].entry # NULL, g[i].entry = g[j].entry
          PROVE  i = j
        BY <1>1, <1>2, <1>3, <1>4 DEF SlotsDistinct
    <1>5. ASSUME NEW i \in Slot \ {0}, f[i].refs > 0
          PROVE  g[i].entry # NULL
        <2>1. f[i].refs \in Int /\ g[i].refs \in Int /\ f[i].refs <= g[i].refs
            BY ReferencedEntries DEF Entries
        <2>2. g[i].refs > 0
            BY <1>5, <2>1
        <2> QED
            BY <1>1, <1>3, <2>2 DEF SlotsDistinct
    <1> QED
        BY <1>3, <1>4, <1>5 DEF SlotsDistinct

\* Releasing changes no entry and raises no count.
LEMMA ReleasedEntries ==
    ASSUME NEW f \in [Slot -> Entries], NEW n
    PROVE  /\ \A j \in Slot : /\ Released(f, n)[j].entry = f[j].entry
                             /\ Released(f, n)[j].refs <= f[j].refs
           /\ \A j \in Slot \ {n} : Released(f, n)[j] = f[j]
PROOF
    <1>1. \A j \in Slot : f[j].refs \in Int
        BY DEF Entries
    <1>2. CASE n \in Slot
        <2>1. Released(f, n) = [f EXCEPT ![n].refs = @ - 1]
            BY <1>2 DEF Released
        <2>2. \A j \in Slot : Released(f, n)[j].entry = f[j].entry
            BY <1>2, <2>1 DEF Entries
        <2>3. Released(f, n)[n].refs = f[n].refs - 1 /\ \A j \in Slot \ {n} : Released(f, n)[j] = f[j]
            BY <1>2, <2>1 DEF Entries
        <2> QED
            BY <1>1, <2>2, <2>3
    <1>3. CASE n \notin Slot
        BY <1>1, <1>3 DEF Released
    <1> QED
        BY <1>2, <1>3

\* The routes lead to slots of the table, and only the route of p has changed.
LEMMA TableKept ==
    ASSUME EnoughSlots, TableInv, RibInv', Counted', NEW h \in NextHop,
           fib' = Referenced(h) \/ fib' = Unreferenced(h)
             \/ \E p \in valid : fib' = Released(Referenced(h), nexthop[p]),
           \A q \in valid' : \/ q \in valid /\ nexthop'[q] = nexthop[q]
                            \/ nexthop'[q] = AsLeaf(fib_ref(h))
    PROVE  TableInv'
PROOF
    <1> DEFINE n == fib_ref(h)
               g == Referenced(h)
    <1>1. n \in Slot \ {0} /\ AsLeaf(n) = n /\ g \in [Slot -> Entries] /\ g[0] = fib[0]
        BY ReferencedEntries, SlotKept, RouteTableAssumption DEF Slot
    <1>2. 0 \in Slot /\ \A p \in valid : nexthop[p] \in Slot \ {0}
        BY RouteTableAssumption DEF Slot, TableInv, RoutesHaveSlots, SlotsDistinct
    <1>3. \A j \in Slot : g[j].refs \in Int
        BY <1>1 DEF Entries
    <1>4. /\ \A j \in Slot : fib'[j].entry = g[j].entry /\ fib'[j].refs <= g[j].refs
          /\ fib'[0] = fib[0]
        <2>1. CASE fib' = g
            BY <1>1, <1>3, <2>1
        <2>2. ASSUME NEW k \in Slot \ {0}, fib' = Released(g, k)
              PROVE  /\ \A j \in Slot : fib'[j].entry = g[j].entry /\ fib'[j].refs <= g[j].refs
                     /\ fib'[0] = fib[0]
            BY <1>1, <1>2, <2>2, ReleasedEntries
        <2> QED
            BY <1>1, <1>2, <2>1, <2>2 DEF Unreferenced
    <1>5. fib' \in [Slot -> Entries]
        BY DEF RibInv, TypeOK, Entries
    <1>6. \A q \in valid' : nexthop'[q] \in Slot \ {0}
        BY <1>1, <1>2
    <1>7. SlotsDistinct'
        BY <1>4, <1>5, <1>6, DistinctAfter DEF SlotsDistinct
    <1> QED
        BY <1>6, <1>7 DEF TableInv, RoutesHaveSlots

LEMMA InitTableInv == Init => TableInv
PROOF
    <1> SUFFICES ASSUME Init
                 PROVE  SlotsDistinct /\ RoutesHaveSlots
        BY InitInv, InitCounted DEF TableInv, Inv
    <1>1. 0 \in Slot /\ valid = {}
        BY RouteTableAssumption DEF Slot, Init
    <1>2. \A i \in Slot : fib[i].entry = NULL /\ (i # 0 => fib[i].refs = 0)
        BY DEF Init
    <1>3. fib[0] = [entry |-> NULL, refs |-> 1]
        BY <1>1 DEF Init
    <1> QED
        BY <1>1, <1>2, <1>3 DEF SlotsDistinct, RoutesHaveSlots

LEMMA NextTableInv == EnoughSlots /\ TableInv /\ [AddsSucceed]_vars => TableInv'
PROOF
    <1> SUFFICES ASSUME EnoughSlots, TableInv, [AddsSucceed]_vars
                 PROVE  TableInv'
        OBVIOUS
    <1>1. RibInv /\ RibInv' /\ Counted /\ Counted'
        BY NextInv, NextMayFail, NextCounted DEF TableInv
    <1>2. CASE UNCHANGED vars
        BY <1>1, <1>2 DEF vars, TableInv, SlotsDistinct, RoutesHaveSlots
    <1>3. valid \subseteq Tree /\ nexthop \in [Tree -> Leaf]
        BY <1>1, TreeKeys DEF RibInv, TypeOK
    <1>4. ASSUME NEW p \in Prefix, NEW h \in NextHop, poptrie_route_add(p, h, TRUE)
          PROVE  TableInv'
        <2>1. \A q \in valid' : \/ q \in valid /\ nexthop'[q] = nexthop[q]
                                \/ nexthop'[q] = AsLeaf(fib_ref(h))
            BY <1>3, <1>4, TreeKeys DEF poptrie_route_add, Install, ribVars
        <2> QED
            BY <1>1, <1>4, <2>1, TableKept DEF poptrie_route_add
    <1>5. ASSUME NEW p \in Prefix, NEW h \in NextHop,
                 NEW ok \in BOOLEAN, Replace(p, h, ok), p \in valid
          PROVE  TableInv'
        <2>1. \A q \in valid' : \/ q \in valid /\ nexthop'[q] = nexthop[q]
                                \/ nexthop'[q] = AsLeaf(fib_ref(h))
            BY <1>3, <1>5, TreeKeys DEF Replace, ribVars
        <2> QED
            BY <1>1, <1>5, <2>1, TableKept DEF Replace
    <1>6. ASSUME NEW p \in Prefix, NEW h \in NextHop, NEW ok \in BOOLEAN,
                 poptrie_route_change(p, h, ok)
          PROVE  TableInv'
        <2>1. CASE p \in valid
            BY <1>5, <1>6, <2>1 DEF poptrie_route_change
        <2>2. CASE p \notin valid
            BY <1>1, <1>6, <2>2, TableKept DEF poptrie_route_change, ribVars
        <2> QED
            BY <2>1, <2>2
    <1>7. ASSUME NEW p \in Prefix, NEW h \in NextHop, NEW ok \in BOOLEAN,
                 poptrie_route_update(p, h, ok)
          PROVE  TableInv'
        <2>1. CASE p \in valid
            BY <1>5, <1>7, <2>1 DEF poptrie_route_update
        <2>2. CASE p \notin valid
            <3>1. \A q \in valid' : \/ q \in valid /\ nexthop'[q] = nexthop[q]
                                    \/ nexthop'[q] = AsLeaf(fib_ref(h))
                BY <1>3, <1>7, <2>2, TreeKeys DEF poptrie_route_update, Install
            <3> QED
                BY <1>1, <1>7, <2>2, <3>1, TableKept DEF poptrie_route_update
        <2> QED
            BY <2>1, <2>2
    <1>8. ASSUME NEW p \in Prefix, NEW ok \in BOOLEAN, poptrie_route_del(p, ok)
          PROVE  TableInv'
        <2>1. CASE p \notin valid
            BY <1>2, <1>8, <2>1 DEF poptrie_route_del
        <2>2. CASE p \in valid
            <3>1. valid' = valid \ {p} /\ \A q \in valid' : nexthop'[q] = nexthop[q]
                BY <1>3, <1>8, <2>2, TreeKeys DEF poptrie_route_del
            <3>2. /\ fib \in [Slot -> Entries] /\ nexthop[p] # 0
                  /\ fib' = Released(fib, nexthop[p]) \/ fib' = fib
                BY <1>1, <1>8, <2>2 DEF poptrie_route_del, RibInv, TypeOK, Entries, TableInv, SlotsDistinct
            <3>3. /\ \A j \in Slot : fib'[j].entry = fib[j].entry /\ fib'[j].refs <= fib[j].refs
                  /\ fib'[0] = fib[0]
                <4>1. 0 \in Slot /\ \A j \in Slot : fib[j].refs \in Int
                    BY <3>2, RouteTableAssumption DEF Slot, Entries
                <4> QED
                    BY <3>2, <4>1, ReleasedEntries
            <3>4. \A j \in Slot : fib[j].refs \in Int /\ fib'[j].refs \in Int
                BY <1>1, <3>2 DEF RibInv, TypeOK, Entries
            <3>5. \A i \in Slot : fib'[i].refs > 0 => fib[i].refs > 0
                BY <3>3, <3>4
            <3> QED
                BY <1>1, <3>1, <3>3, <3>5 DEF TableInv, SlotsDistinct, RoutesHaveSlots
        <2> QED
            BY <2>1, <2>2
    <1> QED
        BY <1>2, <1>4, <1>6, <1>7, <1>8 DEF AddsSucceed, MayFail

LEMMA TableInvariant ==
    ASSUME EnoughSlots
    PROVE  Init /\ [][AddsSucceed]_vars => []TableInv
PROOF
    <1>1. TableInv /\ [AddsSucceed]_vars => TableInv'
        BY NextTableInv
    <1> QED
        BY <1>1, InitTableInv, PTL

\* A table with a slot for every next hop and for NULL never runs out, whatever
\* references the refused operations and the failed deletes leave behind:
\* poptrie_fib_ref always finds a slot.
THEOREM TableSurvivesFailures ==
    ASSUME EnoughSlots
    PROVE  Init /\ [][AddsSucceed]_vars => []RoutesHaveSlots
PROOF
    <1>1. TableInv => RoutesHaveSlots
        BY DEF TableInv
    <1> QED
        BY <1>1, TableInvariant, PTL

\* In particular when no update fails.
THEOREM TableNeverFull ==
    ASSUME EnoughSlots
    PROVE  Spec => []RoutesHaveSlots
PROOF
    BY TableSurvivesFailures, SpecMayFail, PTL

----------------------------------------------------------------------------
(* Tree and table as a map *)

\* The map of the refinement: the next hop of a prefix, or NULL.
RouteOf == [p \in Prefix |-> IF p \in valid THEN Resolved(nexthop[p]) ELSE NULL]

\* The next hop of every route is the entry of its slot.
LEMMA RouteOfEntry ==
    ASSUME TableInv, NEW p \in Prefix
    PROVE  /\ p \in valid => /\ nexthop[p] \in Slot \ {0} /\ fib[nexthop[p]].refs > 0
                            /\ RouteOf[p] = fib[nexthop[p]].entry /\ RouteOf[p] # NULL
           /\ p \notin valid => RouteOf[p] = NULL
PROOF
    <1>1. CASE p \in valid
        <2>1. nexthop[p] \in Slot \ {0}
            BY <1>1 DEF TableInv, RoutesHaveSlots, SlotsDistinct
        <2>2. fib[nexthop[p]].refs > 0
            BY <1>1, <2>1, CountedKeeps DEF TableInv, UsedSlotKept
        <2> QED
            BY <1>1, <2>1, <2>2 DEF TableInv, SlotsDistinct, RouteOf, Resolved
    <1> QED
        BY <1>1 DEF RouteOf

\* A table change that keeps the entries of the slots in use keeps the routes.
LEMMA RoutesKept ==
    ASSUME TableInv, UNCHANGED <<valid, nexthop>>,
           \A j \in Slot : fib[j].refs > 0 => fib'[j].entry = fib[j].entry
    PROVE  RouteOf' = RouteOf
PROOF
    <1>1. ASSUME NEW p \in Prefix, p \in valid
          PROVE  Resolved(nexthop[p])' = Resolved(nexthop[p])
        BY <1>1, RouteOfEntry DEF Resolved
    <1> QED
        BY <1>1 DEF RouteOf

\* What poptrie_fib_ref and a release do to the entries of the slots in use.
LEMMA UsedEntriesKept ==
    ASSUME EnoughSlots, TableInv, NEW h \in NextHop,
           fib' = Referenced(h) \/ fib' = Unreferenced(h)
             \/ \E p \in valid : fib' = Released(Referenced(h), nexthop[p])
    PROVE  /\ \A j \in Slot : fib[j].refs > 0 => fib'[j].entry = fib[j].entry
           /\ fib'[fib_ref(h)].entry = h
PROOF
    <1> DEFINE n == fib_ref(h)
               g == Referenced(h)
    <1>1. /\ n \in Slot \ {0} /\ g \in [Slot -> Entries] /\ g[n].entry = h
          /\ fib[n].refs <= 0 \/ fib[n].entry = h
          /\ \A j \in Slot \ {n} : g[j] = fib[j]
        BY ReferencedEntries
    <1>2. \A j \in Slot : fib'[j].entry = g[j].entry
        BY <1>1, ReleasedEntries DEF Unreferenced
    <1>3. \A j \in Slot : fib[j].refs \in Int
        BY DEF TableInv, RibInv, TypeOK
    <1> QED
        BY <1>1, <1>2, <1>3

\* A route that gets the slot of h leads to h, and no other route changes.
LEMMA RouteSet ==
    ASSUME EnoughSlots, TableInv, TableInv', NEW p \in Prefix, NEW h \in NextHop,
           valid' = valid \cup {p}, nexthop' = [nexthop EXCEPT ![p] = AsLeaf(fib_ref(h))],
           fib' = Referenced(h) \/ \E q \in valid : fib' = Released(Referenced(h), nexthop[q])
    PROVE  RouteOf' = [RouteOf EXCEPT ![p] = h]
PROOF
    <1>1. fib_ref(h) \in Slot /\ AsLeaf(fib_ref(h)) = fib_ref(h)
        BY ReferencedEntries, SlotKept
    <1>2. nexthop \in [Tree -> Leaf] /\ p \in Tree /\ Prefix \subseteq Tree
        BY TreeKeys DEF TableInv, RibInv, TypeOK
    <1>3. /\ \A j \in Slot : fib[j].refs > 0 => fib'[j].entry = fib[j].entry
          /\ fib'[fib_ref(h)].entry = h
        BY UsedEntriesKept
    <1>4. (IF p \in valid' THEN Resolved(nexthop[p])' ELSE NULL) = h
        BY <1>1, <1>2, <1>3 DEF Resolved
    <1>5. ASSUME NEW q \in Prefix, q # p, q \in valid
          PROVE  Resolved(nexthop[q])' = Resolved(nexthop[q])
        <2>1. nexthop'[q] = nexthop[q] /\ nexthop[q] \in Slot /\ fib[nexthop[q]].refs > 0
            BY <1>2, <1>5, RouteOfEntry
        <2> QED
            BY <1>3, <2>1 DEF Resolved
    <1> QED
        BY <1>4, <1>5 DEF RouteOf

LEMMA InitRefines == Init => RouteOf = [p \in Prefix |-> NULL]
PROOF
    BY DEF Init, RouteOf

LEMMA NextRefines ==
    ASSUME EnoughSlots, TableInv, TableInv', [AddsSucceed]_vars
    PROVE  [Map!Next]_RouteOf
PROOF
    <1>1. CASE UNCHANGED vars
        BY <1>1 DEF vars, RouteOf, Resolved
    <1>2. valid \subseteq Tree /\ nexthop \in [Tree -> Leaf] /\ fib \in [Slot -> Entries]
        BY TreeKeys DEF TableInv, RibInv, TypeOK, Entries
    <1>3. ASSUME NEW p \in Prefix, NEW h \in NextHop, poptrie_route_add(p, h, TRUE)
          PROVE  Map!Next \/ RouteOf' = RouteOf
        <2>1. CASE p \in valid
            BY <1>3, <2>1, UsedEntriesKept, RoutesKept DEF poptrie_route_add, ribVars
        <2>2. CASE p \notin valid
            <3>1. RouteOf' = [RouteOf EXCEPT ![p] = h] /\ RouteOf[p] = NULL
                BY <1>3, <2>2, RouteSet, RouteOfEntry DEF poptrie_route_add, Install
            <3>2. Map!Add(p, h)
                BY <3>1 DEF Map!Add, RouteOf
            <3> QED
                BY <3>2 DEF Map!Next
        <2> QED
            BY <2>1, <2>2
    <1>4. ASSUME NEW p \in Prefix, NEW h \in NextHop, p \in valid,
                 NEW ok \in BOOLEAN, Replace(p, h, ok)
          PROVE  Map!Next
        <2>1. /\ valid' = valid \cup {p} /\ fib' = Released(Referenced(h), nexthop[p])
              /\ nexthop' = [nexthop EXCEPT ![p] = AsLeaf(fib_ref(h))]
            BY <1>2, <1>4, TreeKeys DEF Replace, ribVars
        <2>2. RouteOf' = [RouteOf EXCEPT ![p] = h] /\ RouteOf[p] # NULL
            BY <1>4, <2>1, RouteSet, RouteOfEntry
        <2>3. Map!Change(p, h)
            BY <2>2 DEF Map!Change, RouteOf
        <2> QED
            BY <2>3 DEF Map!Next
    <1>5. ASSUME NEW p \in Prefix, NEW h \in NextHop, NEW ok \in BOOLEAN,
                 poptrie_route_change(p, h, ok)
          PROVE  Map!Next \/ RouteOf' = RouteOf
        <2>1. CASE p \in valid
            BY <1>4, <1>5, <2>1 DEF poptrie_route_change
        <2>2. CASE p \notin valid
            BY <1>5, <2>2, UsedEntriesKept, RoutesKept DEF poptrie_route_change, ribVars
        <2> QED
            BY <2>1, <2>2
    <1>6. ASSUME NEW p \in Prefix, NEW h \in NextHop, NEW ok \in BOOLEAN,
                 poptrie_route_update(p, h, ok)
          PROVE  Map!Next
        <2>1. CASE p \in valid
            BY <1>4, <1>6, <2>1 DEF poptrie_route_update
        <2>2. CASE p \notin valid
            <3>1. RouteOf' = [RouteOf EXCEPT ![p] = h]
                BY <1>6, <2>2, RouteSet DEF poptrie_route_update, Install
            <3>2. Map!Update(p, h)
                BY <3>1 DEF Map!Update, RouteOf
            <3> QED
                BY <3>2 DEF Map!Next
        <2> QED
            BY <2>1, <2>2
    <1>7. ASSUME NEW p \in Prefix, NEW ok \in BOOLEAN, poptrie_route_del(p, ok)
          PROVE  Map!Next \/ UNCHANGED vars
        <2>1. CASE p \notin valid
            BY <1>7, <2>1 DEF poptrie_route_del
        <2>2. CASE p \in valid
            <3>1. /\ valid' = valid \ {p} /\ nexthop' = [nexthop EXCEPT ![p] = 0]
                  /\ fib' = Released(fib, nexthop[p]) \/ fib' = fib
                BY <1>7, <2>2 DEF poptrie_route_del
            <3>2. \A j \in Slot : fib'[j].entry = fib[j].entry
                BY <1>2, <3>1, ReleasedEntries
            <3>3. ASSUME NEW q \in Prefix, q # p, q \in valid
                  PROVE  Resolved(nexthop[q])' = Resolved(nexthop[q])
                BY <1>2, <3>1, <3>2, <3>3, TreeKeys DEF Resolved
            <3>4. RouteOf' = [RouteOf EXCEPT ![p] = NULL] /\ RouteOf[p] # NULL
                BY <2>2, <3>1, <3>3, RouteOfEntry DEF RouteOf
            <3>5. Map!Delete(p)
                BY <3>4 DEF Map!Delete, RouteOf
            <3> QED
                BY <3>5 DEF Map!Next
        <2> QED
            BY <2>1, <2>2
    <1> QED
        BY <1>1, <1>3, <1>5, <1>6, <1>7 DEF AddsSucceed, MayFail

\* Tree and reference counted table behave as the map from prefixes to next hops
\* that the caller sees: recycling a slot never redirects another route, a refused
\* operation, which leaves a reference behind, changes no route, and one whose update
\* of the trie fails (a change, an update or a delete) changes the map as asked.
THEOREM MapSurvivesFailures ==
    ASSUME EnoughSlots
    PROVE  Init /\ [][AddsSucceed]_vars => ImplementsRouteMap
PROOF
    <1>1. TableInv /\ TableInv' /\ [AddsSucceed]_vars => [Map!Next]_RouteOf
        BY NextRefines
    <1>2. Init => Map!Init
        BY InitRefines DEF Map!Init, RouteOf
    <1> QED
        BY <1>1, <1>2, TableInvariant, PTL DEF ImplementsRouteMap, Map!Spec, RouteOf

\* In particular when no update fails.
THEOREM RouteTableIsMap ==
    ASSUME EnoughSlots
    PROVE  Spec => ImplementsRouteMap
PROOF
    BY MapSurvivesFailures, SpecMayFail, PTL

=============================================================================
