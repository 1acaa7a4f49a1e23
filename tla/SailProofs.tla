----------------------------- MODULE SailProofs -----------------------------
(***************************************************************************)
(* Proofs about module Sail.  The trie: level pushing and the subtree      *)
(* updates keep it correct, and its leaves are a longest prefix match.     *)
(* The tables: chunks are given out once and are never too few, and a cell *)
(* is right until an update of the trie passes it by.                      *)
(***************************************************************************)
EXTENDS Sail, BitStringProofs, FiniteSets, FiniteSetTheorems

----------------------------------------------------------------------------
(* Levels and segments *)

LEMMA Levels ==
    /\ Level16 \in Nat /\ Level24 \in Nat /\ KeyLength \in Nat /\ MinLength \in Nat
    /\ 0 < Level16 /\ Level16 < Level24 /\ Level24 < KeyLength /\ 0 < MinLength
    /\ PORT_MAX \in Nat /\ 0 < PORT_MAX
    /\ LEVEL24_CHUNK_NUM \in Nat /\ LEVEL32_CHUNK_NUM \in Nat
    /\ OffsetRange \in Nat /\ 0 < OffsetRange
PROOF
    BY SailAssumption, KeyLengthAssumption

LEMMA RootKey ==
    /\ <<>> \in Keys /\ Len(<<>>) = 0
    /\ \A d \in Keys : <<>> \in PathTo(d) /\ Covers(<<>>, d)
PROOF
    <1>1. <<>> \in [1 .. 0 -> Bit] /\ 0 \in 0 .. KeyLength
        BY Levels
    <1>2. <<>> \in Keys /\ Len(<<>>) = 0
        BY <1>1, KeysOfLength
    <1>3. ASSUME NEW d \in Keys
          PROVE  Covers(<<>>, d)
        <2>1. Len(d) \in Nat
            BY KeyIsSeq, KeyLengthAssumption
        <2> QED
            BY <1>2, <2>1 DEF Covers
    <1> QED
        BY <1>2, <1>3, PathToCovers

\* The node of a level above a key, and the indexes of the tables.
LEMMA At16Of ==
    ASSUME NEW d \in Keys, Len(d) >= Level16
    PROVE  /\ At16(d) \in Keys /\ Len(At16(d)) = Level16 /\ Covers(At16(d), d)
           /\ At16(d) \in Index16
           /\ \A x \in Keys : Len(x) = Level16 /\ Covers(x, d) => x = At16(d)
PROOF
    <1>1. Level16 \in Nat /\ Level16 <= Len(d) /\ Level16 \in 0 .. KeyLength
        BY Levels, KeyIsSeq
    <1>2. /\ At16(d) \in Keys /\ Len(At16(d)) = Level16 /\ Covers(At16(d), d)
          /\ \A x \in Keys : Len(x) = Level16 /\ Covers(x, d) => x = At16(d)
        BY <1>1, Beginning DEF At16
    <1> QED
        BY <1>1, <1>2, KeysOfLength DEF Index16

LEMMA At24Of ==
    ASSUME NEW d \in Keys, Len(d) >= Level24
    PROVE  /\ At24(d) \in Keys /\ Len(At24(d)) = Level24 /\ Covers(At24(d), d)
           /\ At16(At24(d)) = At16(d)
           /\ \A x \in Keys : Len(x) = Level24 /\ Covers(x, d) => x = At24(d)
PROOF
    <1>1. Level24 \in Nat /\ Level24 <= Len(d) /\ Len(d) \in Nat /\ Level16 < Level24 /\ Level16 \in Nat
        BY Levels, KeyIsSeq
    <1>2. /\ At24(d) \in Keys /\ Len(At24(d)) = Level24 /\ Covers(At24(d), d)
          /\ \A x \in Keys : Len(x) = Level24 /\ Covers(x, d) => x = At24(d)
        BY <1>1, Beginning DEF At24
    <1>3. At16(At24(d)) \in Keys /\ Len(At16(At24(d))) = Level16 /\ Covers(At16(At24(d)), At24(d))
        BY <1>1, <1>2, At16Of
    <1>4. Covers(At16(At24(d)), d)
        BY <1>1, <1>2, <1>3, CoversTransitive
    <1> QED
        BY <1>1, <1>2, <1>3, <1>4, At16Of

LEMMA Index16Keys == \A i : i \in Index16 <=> i \in Keys /\ Len(i) = Level16
PROOF
    <1>1. Level16 \in 0 .. KeyLength
        BY Levels
    <1> QED
        BY <1>1, KeysOfLength DEF Index16

LEMMA AddressKeys == \A a : a \in Address <=> a \in Keys /\ Len(a) = KeyLength
PROOF
    <1>1. KeyLength \in 0 .. KeyLength
        BY Levels
    <1> QED
        BY <1>1, KeysOfLength DEF Address

\* What lies on the way to one key lies on the way to every key below.
LEMMA At16Inherited ==
    ASSUME NEW d \in Keys, NEW e \in Keys, Covers(d, e), Len(d) >= Level16
    PROVE  At16(e) = At16(d) /\ Len(e) >= Level16
PROOF
    <1>1. Len(d) \in Nat /\ Len(e) \in Nat /\ Len(d) <= Len(e) /\ Level16 \in Nat
        BY Levels, KeyIsSeq DEF Covers
    <1>2. At16(d) \in Keys /\ Len(At16(d)) = Level16 /\ Covers(At16(d), d)
        BY At16Of
    <1>3. Covers(At16(d), e)
        BY <1>1, <1>2, CoversTransitive
    <1> QED
        BY <1>1, <1>2, <1>3, At16Of

LEMMA At24Inherited ==
    ASSUME NEW d \in Keys, NEW e \in Keys, Covers(d, e), Len(d) >= Level24
    PROVE  At24(e) = At24(d) /\ Len(e) >= Level24
PROOF
    <1>1. Len(d) \in Nat /\ Len(e) \in Nat /\ Len(d) <= Len(e) /\ Level24 \in Nat
        BY Levels, KeyIsSeq DEF Covers
    <1>2. At24(d) \in Keys /\ Len(At24(d)) = Level24 /\ Covers(At24(d), d)
        BY At24Of
    <1>3. Covers(At24(d), e)
        BY <1>1, <1>2, CoversTransitive
    <1> QED
        BY <1>1, <1>2, <1>3, At24Of

\* x and y lie between the same nodes of two levels.
SameSegment(x, y) ==
    /\ Len(x) > Level16 /\ Len(y) > Level16 /\ At16(x) = At16(y)
    /\ Len(x) > Level24 <=> Len(y) > Level24
    /\ Len(x) > Level24 => At24(x) = At24(y)

\* A child of a node lies in the node's segment, or begins one.
LEMMA ChildSegment ==
    ASSUME NEW d \in Keys, NEW b \in Bit, d \o <<b>> \in Keys
    PROVE  /\ Above(d, d \o <<b>>) /\ Len(d \o <<b>>) = Len(d) + 1
           /\ Len(d) > Level16 /\ Len(d) # Level24 => SameSegment(d \o <<b>>, d)
           /\ \A c \in Bit : Len(d) >= Level16 /\ d \o <<c>> \in Keys
                                 => SameSegment(d \o <<b>>, d \o <<c>>)
PROOF
    <1>1. /\ Len(d) \in Nat /\ Level16 \in Nat /\ Level24 \in Nat
          /\ \A c \in Bit : /\ Len(d \o <<c>>) = Len(d) + 1
                            /\ d \o <<c>> \in Keys => Above(d, d \o <<c>>)
        BY KeyIsSeq, Levels, ChildKey
    <1>2. ASSUME NEW c \in Bit, d \o <<c>> \in Keys, Len(d) >= Level16
          PROVE  /\ At16(d \o <<c>>) = At16(d)
                 /\ Len(d) >= Level24 => At24(d \o <<c>>) = At24(d)
        BY <1>1, <1>2, At16Inherited, At24Inherited DEF Above
    <1>3. ASSUME Len(d) > Level16, Len(d) # Level24
          PROVE  SameSegment(d \o <<b>>, d)
        BY <1>1, <1>2, <1>3 DEF SameSegment
    <1>4. ASSUME NEW c \in Bit, d \o <<c>> \in Keys, Len(d) >= Level16
          PROVE  SameSegment(d \o <<b>>, d \o <<c>>)
        BY <1>1, <1>2, <1>4 DEF SameSegment
    <1> QED
        BY <1>1, <1>3, <1>4

----------------------------------------------------------------------------
(* The shape of the trie *)

\* The upper levels are full, every node hangs from the root, and a segment that
\* has a node has all its nodes.
ShapeOf(nodes) ==
    /\ nodes \subseteq Keys
    /\ \A d \in Keys : Len(d) <= Level16 => d \in nodes
    /\ \A d \in nodes : PathTo(d) \subseteq nodes
    /\ \A y \in nodes, x \in Keys : SameSegment(x, y) => x \in nodes

\* Below a leaf there is nothing.
LEMMA NothingBelowLeaf ==
    ASSUME NEW nodes, ShapeOf(nodes), NEW d \in nodes, IsLeaf(d, nodes),
           NEW y \in nodes, Covers(d, y)
    PROVE  y = d
PROOF
    <1> SUFFICES ASSUME y # d
                 PROVE  FALSE
        OBVIOUS
    <1>1. d \in Keys /\ y \in Keys /\ Above(d, y)
        BY DEF ShapeOf, Above
    <1>2. PICK b \in Bit : d \o <<b>> \in Keys /\ Covers(d \o <<b>>, y)
        BY <1>1, ChildOnWay
    <1>3. d \o <<b>> \in nodes
        BY <1>1, <1>2, PathToCovers DEF ShapeOf
    <1> QED
        BY <1>2, <1>3 DEF IsLeaf, Bit

\* Two leaves on the way to a key are one.
LEMMA LeafUnique ==
    ASSUME NEW nodes, ShapeOf(nodes), NEW d \in nodes, IsLeaf(d, nodes),
           NEW z \in nodes, NEW x \in Keys, Covers(d, x), Covers(z, x)
    PROVE  Covers(z, d) /\ (IsLeaf(z, nodes) => z = d)
PROOF
    <1>1. d \in Keys /\ z \in Keys /\ Len(d) \in Nat /\ Len(z) \in Nat /\ Len(x) \in Nat
        BY KeyIsSeq, KeyLengthAssumption DEF ShapeOf
    <1>2. CASE Len(d) <= Len(z)
        <2>1. z = d
            BY <1>1, <1>2, Comparable, NothingBelowLeaf
        <2> QED
            BY <1>1, <2>1, CoversSelf
    <1>3. CASE Len(z) <= Len(d)
        BY <1>1, <1>3, Comparable, NothingBelowLeaf
    <1> QED
        BY <1>1, <1>2, <1>3

\* The leaves lie on the three levels, every other node has both children.
LEMMA LeafLevels ==
    ASSUME NEW nodes, ShapeOf(nodes), NEW d \in nodes
    PROVE  /\ IsLeaf(d, nodes) => Len(d) \in {Level16, Level24, KeyLength}
           /\ ~ IsLeaf(d, nodes) => /\ d \o <<0>> \in nodes /\ d \o <<1>> \in nodes
                                    /\ Len(d) < KeyLength
PROOF
    <1>1. /\ d \in Keys /\ Len(d) \in Nat /\ Len(d) <= KeyLength
          /\ Level16 \in Nat /\ Level24 \in Nat /\ KeyLength \in Nat /\ Level16 < Level24 /\ Level24 < KeyLength
        BY KeyIsSeq, Levels DEF ShapeOf
    <1>2. ASSUME Len(d) < KeyLength
          PROVE  d \o <<0>> \in Keys /\ d \o <<1>> \in Keys /\ Len(d \o <<0>>) = Len(d) + 1
        BY <1>1, <1>2, ChildKey DEF Bit
    <1>3. ASSUME IsLeaf(d, nodes)
          PROVE  Len(d) \in {Level16, Level24, KeyLength}
        <2> SUFFICES ASSUME Len(d) \notin {Level16, Level24, KeyLength}
                     PROVE  FALSE
            OBVIOUS
        <2>1. d \o <<0>> \in Keys /\ Len(d \o <<0>>) = Len(d) + 1 /\ 0 \in Bit
            BY <1>1, <1>2 DEF Bit
        <2>2. CASE Len(d) < Level16
            <3>1. Len(d \o <<0>>) <= Level16
                BY <1>1, <2>1, <2>2
            <3>2. d \o <<0>> \in nodes
                BY <2>1, <3>1 DEF ShapeOf
            <3> QED
                BY <1>3, <3>2 DEF IsLeaf
        <2>3. CASE Len(d) > Level16
            <3>1. SameSegment(d \o <<0>>, d)
                BY <1>1, <2>1, <2>3, ChildSegment
            <3>2. d \o <<0>> \in nodes
                BY <2>1, <3>1 DEF ShapeOf
            <3> QED
                BY <1>3, <3>2 DEF IsLeaf
        <2> QED
            BY <1>1, <2>2, <2>3
    <1>4. ASSUME ~ IsLeaf(d, nodes)
          PROVE  d \o <<0>> \in nodes /\ d \o <<1>> \in nodes /\ Len(d) < KeyLength
        <2>1. PICK b \in Bit : d \o <<b>> \in nodes
            BY <1>4 DEF IsLeaf, Bit
        <2>2. d \o <<b>> \in Keys /\ Len(d) < KeyLength
            BY <1>1, <2>1, ChildKey DEF ShapeOf
        <2>3. d \o <<0>> \in Keys /\ d \o <<1>> \in Keys /\ 0 \in Bit /\ 1 \in Bit
            BY <1>2, <2>2 DEF Bit
        <2>4. CASE Len(d) < Level16
            <3>1. \A c \in Bit : Len(d \o <<c>>) <= Level16
                BY <1>1, <2>4, ChildKey
            <3> QED
                BY <2>2, <2>3, <3>1 DEF ShapeOf
        <2>5. CASE Len(d) >= Level16
            <3>1. SameSegment(d \o <<0>>, d \o <<b>>) /\ SameSegment(d \o <<1>>, d \o <<b>>)
                BY <1>1, <2>2, <2>3, <2>5, ChildSegment
            <3> QED
                BY <2>1, <2>2, <2>3, <3>1 DEF ShapeOf
        <2> QED
            BY <1>1, <2>4, <2>5
    <1> QED
        BY <1>3, <1>4

\* On the way to a key that is no inner node there is a leaf.
LEMMA LeafOnWay ==
    ASSUME NEW nodes, ShapeOf(nodes), NEW x \in Keys, x \notin nodes \/ Len(x) = KeyLength
    PROVE  \E d \in nodes : IsLeaf(d, nodes) /\ Covers(d, x)
PROOF
    <1> DEFINE T == {d \in nodes : Covers(d, x)}
    <1>1. T \in SUBSET Keys /\ <<>> \in T
        <2>1. <<>> \in nodes /\ Covers(<<>>, x)
            BY RootKey, Levels DEF ShapeOf
        <2> QED
            BY <2>1 DEF ShapeOf
    <1>2. PICK d \in T : \A w \in T : Len(w) <= Len(d)
        BY <1>1, LongestExists
    <1>3. IsLeaf(d, nodes)
        <2> SUFFICES ASSUME ~ IsLeaf(d, nodes)
                     PROVE  FALSE
            OBVIOUS
        <2>1. d \in nodes /\ d \in Keys /\ Covers(d, x) /\ Len(d) \in Nat
            BY <1>1, <1>2, KeyIsSeq, KeyLengthAssumption
        <2>2. d \o <<0>> \in nodes /\ d \o <<1>> \in nodes /\ Len(d) < KeyLength
            BY <2>1, LeafLevels
        <2>3. d # x
            BY <2>1, <2>2, KeyLengthAssumption
        <2>4. PICK b \in Bit : d \o <<b>> \in Keys /\ Covers(d \o <<b>>, x)
            BY <2>1, <2>3, ChildOnWay DEF Above
        <2>5. d \o <<b>> \in T /\ Len(d \o <<b>>) = Len(d) + 1
            BY <2>1, <2>2, <2>4, ChildKey DEF Bit
        <2>6. Len(d \o <<b>>) <= Len(d)
            BY <1>2, <2>5
        <2> QED
            BY <2>1, <2>5, <2>6
    <1> QED
        BY <1>3

----------------------------------------------------------------------------
(* The nearest port *)

\* y is the last node on the way to d that has a port in f.
IsNearestPort(y, d, f) ==
    /\ y \in Keys /\ Covers(y, d) /\ f[y] # 0
    /\ \A z \in Keys : Covers(z, d) /\ f[z] # 0 => Len(z) <= Len(y)

LEMMA NearestIs ==
    ASSUME NEW d \in Keys, NEW f, NEW y, IsNearestPort(y, d, f)
    PROVE  Nearest(d, f) = y
PROOF
    <1> DEFINE P(x) == f[x] # 0 /\ \A z \in PathTo(d) : f[z] # 0 => Len(z) <= Len(x)
    <1>1. y \in PathTo(d) /\ P(y)
        BY PathToCovers DEF IsNearestPort
    <1>2. ASSUME NEW x \in PathTo(d), P(x)
          PROVE  x = y
        <2>1. /\ x \in Keys /\ Covers(x, d) /\ y \in Keys /\ Covers(y, d)
              /\ Len(x) \in Nat /\ Len(y) \in Nat /\ Len(d) \in Nat
            BY PathToCovers, KeyIsSeq, KeyLengthAssumption DEF IsNearestPort
        <2>2. Len(x) <= Len(y) /\ Len(y) <= Len(x)
            BY <1>1, <1>2, <2>1 DEF IsNearestPort
        <2>3. Covers(x, y)
            BY <2>1, <2>2, Comparable
        <2> QED
            BY <2>1, <2>2, <2>3, SameLengthSame
    <1> QED
        BY <1>1, <1>2 DEF Nearest

LEMMA NearestExists ==
    ASSUME NEW d \in Keys, NEW f, NEW x \in Keys, Covers(x, d), f[x] # 0
    PROVE  IsNearestPort(Nearest(d, f), d, f)
PROOF
    <1> DEFINE T == {z \in Keys : Covers(z, d) /\ f[z] # 0}
    <1>1. PICK y \in T : \A z \in T : Len(z) <= Len(y)
        BY LongestExists
    <1>2. IsNearestPort(y, d, f)
        BY <1>1 DEF IsNearestPort
    <1> QED
        BY <1>2, NearestIs

----------------------------------------------------------------------------
(* The invariant *)

\* The root always has a route; only nodes have routes and only leaves have ports;
\* the port of a leaf is the one of the nearest route above.
PortsOf(nodes, routes, ports) ==
    /\ routes[<<>>] # 0
    /\ \A d \in Keys : routes[d] # 0 => d \in nodes
    /\ \A d \in Keys : ports[d] # 0 => d \in nodes /\ IsLeaf(d, nodes)
    /\ \A d \in nodes : IsLeaf(d, nodes) => ports[d] = routes[Nearest(d, routes)]

PortTypes == old \in [Keys -> PortOrNone] /\ new \in [Keys -> PortOrNone]

TrieInv == ShapeOf(node) /\ PortTypes /\ PortsOf(node, old, new)

\* The route a node inherits is a route of a node.
LEMMA NearestRoute ==
    ASSUME TrieInv, NEW d \in Keys
    PROVE  /\ IsNearestPort(Nearest(d, old), d, old)
           /\ Nearest(d, old) \in node /\ old[Nearest(d, old)] # 0
PROOF
    <1>1. <<>> \in Keys /\ Covers(<<>>, d) /\ old[<<>>] # 0
        BY RootKey DEF TrieInv, PortsOf
    <1>2. IsNearestPort(Nearest(d, old), d, old)
        BY <1>1, NearestExists
    <1> QED
        BY <1>2 DEF IsNearestPort, TrieInv, PortsOf

\* A key has the routes of the leaf above it.
LEMMA NearestOfLeaf ==
    ASSUME TrieInv, NEW d \in node, IsLeaf(d, node), NEW x \in Keys, Covers(d, x)
    PROVE  /\ Nearest(x, old) = Nearest(d, old)
           /\ new[d] = old[Nearest(d, old)] /\ new[d] # 0
PROOF
    <1>1. ShapeOf(node) /\ d \in Keys /\ Len(x) \in Nat
        BY KeyIsSeq, KeyLengthAssumption DEF TrieInv, ShapeOf
    <1> DEFINE y == Nearest(d, old)
    <1>2. IsNearestPort(y, d, old) /\ old[y] # 0
        BY <1>1, NearestRoute
    <1>3. ASSUME NEW z \in Keys, Covers(z, x), old[z] # 0
          PROVE  Len(z) <= Len(y)
        <2>1. z \in node
            BY <1>3 DEF TrieInv, PortsOf
        <2>2. Covers(z, d)
            BY <1>1, <1>3, <2>1, LeafUnique
        <2> QED
            BY <1>2, <1>3, <2>2 DEF IsNearestPort
    <1>4. y \in Keys /\ Covers(y, x)
        BY <1>1, <1>2, CoversTransitive DEF IsNearestPort
    <1>5. IsNearestPort(y, x, old)
        BY <1>2, <1>3, <1>4 DEF IsNearestPort
    <1>6. Nearest(x, old) = y
        BY <1>5, NearestIs
    <1>7. new[d] = old[y]
        BY DEF TrieInv, PortsOf
    <1> QED
        BY <1>2, <1>6, <1>7

LEMMA InitTrie == Init => TrieInv
PROOF
    <1> SUFFICES ASSUME Init
                 PROVE  TrieInv
        OBVIOUS
    <1>1. /\ node = {d \in Keys : Len(d) <= Level16}
          /\ old = [d \in Keys |-> IF d = <<>> THEN PORT_MAX ELSE 0]
          /\ new = [d \in Keys |-> IF Len(d) = Level16 THEN PORT_MAX ELSE 0]
        BY DEF Init
    <1>2. \A d \in Keys : Len(d) \in Nat /\ Len(d) <= KeyLength
        BY KeyIsSeq, KeyLengthAssumption
    <1>3. ShapeOf(node)
        <2>1. ASSUME NEW d \in node, NEW a \in PathTo(d)
              PROVE  a \in node
            <3>1. a \in Keys /\ Covers(a, d) /\ d \in Keys /\ Len(d) <= Level16
                BY <1>1, <2>1, PathToCovers
            <3> QED
                BY <1>1, <1>2, <3>1, Levels DEF Covers
        <2>2. ASSUME NEW y \in node, NEW x \in Keys, SameSegment(x, y)
              PROVE  FALSE
            BY <1>1, <1>2, <2>2, Levels DEF SameSegment
        <2> QED
            BY <1>1, <2>1, <2>2 DEF ShapeOf
    <1>4. PortTypes
        <2>1. PORT_MAX \in PortOrNone /\ 0 \in PortOrNone
            BY Levels DEF PortOrNone
        <2> QED
            BY <1>1, <2>1 DEF PortTypes
    <1>5. ASSUME NEW d \in Keys, Len(d) = Level16
          PROVE  IsLeaf(d, node)
        <2>1. Len(d \o <<0>>) = Len(d) + 1 /\ Len(d \o <<1>>) = Len(d) + 1
            BY <1>5, ChildKey DEF Bit
        <2>2. ~ (Len(d \o <<0>>) <= Level16) /\ ~ (Len(d \o <<1>>) <= Level16)
            BY <1>5, <2>1, Levels
        <2> QED
            BY <1>1, <2>2 DEF IsLeaf
    <1>6. ASSUME NEW d \in node, IsLeaf(d, node)
          PROVE  new[d] = old[Nearest(d, old)]
        <2>1. Len(d) \in {Level16, Level24, KeyLength} /\ d \in Keys /\ Len(d) <= Level16
            BY <1>1, <1>3, <1>6, LeafLevels
        <2>2. new[d] = PORT_MAX
            BY <1>1, <2>1, Levels
        <2>3. IsNearestPort(<<>>, d, old)
            <3>1. <<>> \in Keys /\ Covers(<<>>, d) /\ old[<<>>] # 0
                BY <1>1, <2>1, RootKey, Levels
            <3>2. \A z \in Keys : old[z] # 0 => z = <<>>
                BY <1>1
            <3>3. Len(<<>>) <= Len(<<>>)
                BY RootKey
            <3> QED
                BY <3>1, <3>2, <3>3 DEF IsNearestPort
        <2> QED
            BY <1>1, <2>1, <2>2, <2>3, NearestIs, RootKey
    <1>7. PortsOf(node, old, new)
        <2>1. old[<<>>] # 0 /\ <<>> \in node
            BY <1>1, RootKey, Levels
        <2>2. \A d \in Keys : old[d] # 0 => d \in node
            BY <1>1, <2>1
        <2>3. \A d \in Keys : new[d] # 0 => d \in node /\ IsLeaf(d, node)
            BY <1>1, <1>2, <1>5, Levels
        <2> QED
            BY <1>6, <2>1, <2>2, <2>3 DEF PortsOf
    <1> QED
        BY <1>3, <1>4, <1>7 DEF TrieInv

----------------------------------------------------------------------------
(* An announcement that creates nodes *)

BornSeed(p, port)  == [new EXCEPT ![p] = port]
BornRoot(p, port)  == PushRoot(p, BornSeed(p, port))
BornNodes(p, port) == Completed(node \cup PathTo(p), BornRoot(p, port))
BornPorts(p, port) == Pushed(BornNodes(p, port), BornRoot(p, port), BornSeed(p, port))

\* Pushing starts at the leaf above p, which lies on level 16 or 24.
LEMMA BornRootIsLeaf ==
    ASSUME TrieInv, NEW p \in Keys, p \notin node, NEW port
    PROVE  LET r == BornRoot(p, port)
           IN  /\ r \in node /\ r \in Keys /\ IsLeaf(r, node) /\ Above(r, p) /\ new[r] # 0
               /\ Len(p) > Level16
               /\ \/ Len(r) = Level16 /\ r = At16(p)
                  \/ /\ Len(r) = Level24 /\ r = At24(p) /\ Len(p) > Level24
                     /\ At16(p) \in node /\ ~ IsLeaf(At16(p), node)
PROOF
    <1> DEFINE f == BornSeed(p, port)
    <1>1. ShapeOf(node) /\ PortsOf(node, old, new) /\ new \in [Keys -> PortOrNone]
        BY DEF TrieInv, PortTypes
    <1>2. /\ Len(p) \in Nat /\ Len(p) <= KeyLength /\ Level16 \in Nat /\ Level24 \in Nat
          /\ Level16 < Level24 /\ Level24 < KeyLength
        BY KeyIsSeq, Levels
    <1>3. Len(p) > Level16
        BY <1>1, <1>2 DEF ShapeOf
    <1>4. \A d \in Keys : d # p => f[d] = new[d]
        BY <1>1 DEF BornSeed
    <1>5. PICK d \in node : IsLeaf(d, node) /\ Covers(d, p)
        BY <1>1, LeafOnWay
    <1>6. d \in Keys /\ Above(d, p) /\ Len(d) < Len(p) /\ Len(d) \in Nat /\ Len(p) <= KeyLength
        BY <1>1, <1>2, <1>5, AboveShorter, KeyIsSeq DEF ShapeOf, Above
    <1>7. new[d] # 0
        BY <1>1, <1>5, <1>6, NearestOfLeaf, CoversSelf
    <1>8. Len(d) \in {Level16, Level24}
        BY <1>1, <1>2, <1>5, <1>6, LeafLevels
    <1>9. At16(p) \in Keys /\ At16(p) # p /\ f[At16(p)] = new[At16(p)] /\ At16(p) \in node
          /\ Covers(At16(p), p) /\ Len(At16(p)) = Level16
        BY <1>1, <1>2, <1>3, <1>4, At16Of DEF ShapeOf
    <1>10. CASE Len(d) = Level16
        <2>1. d = At16(p)
            BY <1>2, <1>3, <1>5, <1>6, <1>10, At16Of
        <2>2. BornRoot(p, port) = d
            BY <1>7, <1>9, <2>1 DEF BornRoot, PushRoot
        <2> QED
            BY <1>3, <1>5, <1>6, <1>7, <1>10, <2>1, <2>2
    <1>11. CASE Len(d) = Level24
        <2>1. d = At24(p) /\ Len(p) > Level24
            BY <1>2, <1>5, <1>6, <1>11, At24Of
        <2>2. ~ IsLeaf(At16(p), node)
            BY <1>1, <1>2, <1>5, <1>9, <1>11, LeafUnique
        <2>3. new[At16(p)] = 0
            BY <1>1, <1>9, <2>2 DEF PortsOf
        <2>4. f[d] = new[d]
            BY <1>4, <1>6 DEF Above
        <2>5. BornRoot(p, port) = d
            BY <1>2, <1>7, <1>9, <2>1, <2>3, <2>4 DEF BornRoot, PushRoot
        <2> QED
            BY <1>3, <1>5, <1>6, <1>7, <1>9, <1>11, <2>1, <2>2, <2>5
    <1> QED
        BY <1>8, <1>10, <1>11

\* The new nodes are the segments below the leaf that the descent to p enters.
LEMMA BornNodesAre ==
    ASSUME TrieInv, NEW p \in Keys, p \notin node, NEW port,
           NEW r, r = BornRoot(p, port), NEW x
    PROVE  x \in BornNodes(p, port) <=>
              \/ x \in node
              \/ /\ x \in Keys /\ Above(r, x)
                 /\ Len(x) > Level24 => Len(p) > Level24 /\ At24(x) = At24(p)
PROOF
    <1>1. /\ r \in node /\ r \in Keys /\ IsLeaf(r, node) /\ Above(r, p) /\ Covers(r, p)
          /\ Len(r) \in {Level16, Level24}
          /\ Len(r) = Level24 => Len(p) > Level24
        BY BornRootIsLeaf DEF Above
    <1>2. ShapeOf(node) /\ node \subseteq Keys
        BY DEF TrieInv, ShapeOf
    <1>3. /\ Len(p) \in Nat /\ Len(r) \in Nat /\ Level16 \in Nat /\ Level24 \in Nat
          /\ Level16 < Level24 /\ Len(r) < Len(p) /\ Len(p) <= KeyLength
        BY <1>1, AboveShorter, KeyIsSeq, Levels
    <1>4. \A y \in node : ~ Above(r, y)
        BY <1>1, <1>2, NothingBelowLeaf DEF Above
    <1>5. ASSUME NEW y \in PathTo(p)
          PROVE  /\ y \in Keys /\ Covers(y, p)
                 /\ y \in node \/ Above(r, y)
                 /\ Len(y) > Level24 => Len(p) > Level24 /\ At24(y) = At24(p)
        <2>1. y \in Keys /\ Covers(y, p) /\ Len(y) \in Nat
            BY PathToCovers, KeyIsSeq
        <2>2. y \in node \/ Above(r, y)
            <3>1. CASE Len(r) <= Len(y)
                <4>1. Covers(r, y)
                    BY <1>1, <1>3, <2>1, <3>1, Comparable
                <4> QED
                    BY <1>1, <4>1 DEF Above
            <3>2. CASE Len(y) <= Len(r)
                <4>1. Covers(y, r)
                    BY <1>1, <1>3, <2>1, <3>2, Comparable
                <4>2. y \in PathTo(r)
                    BY <1>1, <2>1, <4>1, PathToCovers
                <4> QED
                    BY <1>1, <1>2, <4>2 DEF ShapeOf
            <3> QED
                BY <1>3, <2>1, <3>1, <3>2
        <2>3. ASSUME Len(y) > Level24
              PROVE  Len(p) > Level24 /\ At24(y) = At24(p)
            BY <1>3, <2>1, <2>3, At24Inherited DEF Covers
        <2> QED
            BY <2>1, <2>2, <2>3
    <1>6. ASSUME NEW z \in Keys, Above(r, z)
          PROVE  (\E y \in node \cup PathTo(p) :
                     /\ Above(r, y)
                     /\ Len(y) > Level24 <=> Len(z) > Level24
                     /\ Len(z) > Level24 => Covers(At24(z), y))
                 <=> (Len(z) > Level24 => Len(p) > Level24 /\ At24(z) = At24(p))
        <2>1. Len(z) \in Nat /\ Len(r) < Len(z)
            BY <1>1, <1>6, AboveShorter, KeyIsSeq
        <2>2. ASSUME NEW y \in node \cup PathTo(p), Above(r, y), Len(y) > Level24,
                     Len(z) > Level24, Covers(At24(z), y)
              PROVE  Len(p) > Level24 /\ At24(z) = At24(p)
            <3>1. y \in Keys /\ Len(y) \in Nat /\ Len(p) > Level24 /\ At24(y) = At24(p)
                BY <1>4, <1>5, <2>2, KeyIsSeq
            <3>2. At24(z) \in Keys /\ Len(At24(z)) = Level24
                BY <1>3, <2>1, <2>2, At24Of
            <3>3. At24(z) = At24(y)
                BY <1>3, <2>2, <3>1, <3>2, At24Of
            <3> QED
                BY <3>1, <3>3
        <2>3. ASSUME Len(z) > Level24, Len(p) > Level24, At24(z) = At24(p)
              PROVE  p \in PathTo(p) /\ Above(r, p) /\ Covers(At24(z), p)
            BY <1>1, <1>3, <2>3, EndOnPath, At24Of
        <2>4. ASSUME ~ (Len(z) > Level24)
              PROVE  \E y \in PathTo(p) : Above(r, y) /\ ~ (Len(y) > Level24)
            <3>1. Len(r) = Level16
                BY <1>1, <1>3, <2>1, <2>4
            <3> DEFINE y == SubSeq(p, 1, Level16 + 1)
            <3>2. Level16 + 1 \in Nat /\ Level16 + 1 <= Len(p)
                BY <1>3, <3>1
            <3>3. y \in Keys /\ Len(y) = Level16 + 1 /\ Covers(y, p)
                BY <3>2, Beginning
            <3> HIDE DEF y
            <3>4. Covers(r, y)
                BY <1>1, <1>3, <3>1, <3>3, Comparable
            <3>5. y # r /\ y \in PathTo(p)
                BY <1>3, <3>1, <3>3, PathToCovers
            <3>6. ~ (Len(y) > Level24)
                BY <1>3, <3>3
            <3> QED
                BY <3>4, <3>5, <3>6 DEF Above
        <2> QED
            BY <2>2, <2>3, <2>4
    <1>7. x \in BornNodes(p, port) <=>
              \/ x \in node \cup PathTo(p)
              \/ /\ x \in Keys /\ Above(r, x)
                 /\ \E y \in node \cup PathTo(p) :
                        /\ Above(r, y)
                        /\ Len(y) > Level24 <=> Len(x) > Level24
                        /\ Len(x) > Level24 => Covers(At24(x), y)
        BY DEF BornNodes, Completed
    <1> QED
        BY <1>5, <1>6, <1>7

\* The trie with the new segments has its shape, its old leaves and inner nodes
\* are what they were, and only the leaf they hang from is a leaf no more.
LEMMA BornShape ==
    ASSUME TrieInv, NEW p \in Keys, p \notin node, NEW port,
           NEW r, r = BornRoot(p, port), NEW nodes, nodes = BornNodes(p, port)
    PROVE  /\ ShapeOf(nodes) /\ node \subseteq nodes /\ p \in nodes
           /\ \A d \in node : IsLeaf(d, nodes) <=> IsLeaf(d, node) /\ d # r
           /\ \A d \in nodes : Covers(r, d) /\ d \in node => d = r
           /\ \A d \in nodes \ node : Above(r, d)
PROOF
    <1>1. /\ r \in node /\ r \in Keys /\ IsLeaf(r, node) /\ Above(r, p) /\ Covers(r, p)
          /\ \/ Len(r) = Level16 /\ r = At16(p)
             \/ Len(r) = Level24 /\ r = At24(p) /\ Len(p) > Level24
        BY BornRootIsLeaf DEF Above
    <1>2. ShapeOf(node) /\ node \subseteq Keys
        BY DEF TrieInv, ShapeOf
    <1>3. /\ Len(p) \in Nat /\ Len(r) \in Nat /\ Level16 \in Nat /\ Level24 \in Nat
          /\ Level16 < Level24 /\ Len(r) < Len(p)
          /\ \A d \in Keys : Len(d) \in Nat
        BY <1>1, AboveShorter, KeyIsSeq, Levels
    <1>4. \A x : x \in nodes <=> \/ x \in node
                                 \/ /\ x \in Keys /\ Above(r, x)
                                    /\ Len(x) > Level24 => Len(p) > Level24 /\ At24(x) = At24(p)
        BY BornNodesAre
    <1>5. node \subseteq nodes /\ nodes \subseteq Keys /\ p \in nodes
        BY <1>1, <1>2, <1>4
    <1>6. \A d \in nodes : Covers(r, d) /\ d \in node => d = r
        BY <1>1, <1>2, NothingBelowLeaf
    <1>7. \A d \in nodes \ node : Above(r, d)
        BY <1>4
    <1>8. ASSUME NEW d \in nodes, NEW a \in PathTo(d)
          PROVE  a \in nodes
        <2>1. a \in Keys /\ Covers(a, d) /\ d \in Keys /\ Len(a) \in Nat /\ Len(d) \in Nat
              /\ Len(a) <= Len(d)
            BY <1>3, <1>5, <1>8, PathToCovers DEF Covers
        <2>2. CASE d \in node
            BY <1>2, <1>5, <1>8, <2>2 DEF ShapeOf
        <2>3. CASE d \notin node /\ Len(a) <= Len(r)
            <3>1. Covers(a, r)
                BY <1>1, <1>3, <1>7, <2>1, <2>3, Comparable DEF Above
            <3> QED
                BY <1>1, <1>2, <1>5, <2>1, <3>1, PathToCovers DEF ShapeOf
        <2>4. CASE d \notin node /\ Len(r) < Len(a)
            <3>1. Above(r, a)
                BY <1>1, <1>3, <1>7, <2>1, <2>4, Comparable DEF Above
            <3>2. ASSUME Len(a) > Level24
                  PROVE  Len(p) > Level24 /\ At24(a) = At24(p)
                <4>1. Len(d) > Level24 /\ At24(a) = At24(d)
                    BY <1>3, <2>1, <3>2, At24Inherited
                <4> QED
                    BY <1>4, <2>4, <4>1
            <3> QED
                BY <1>4, <2>1, <3>1, <3>2
        <2> QED
            BY <1>3, <2>1, <2>2, <2>3, <2>4
    <1>9. ASSUME NEW y \in nodes, NEW x \in Keys, SameSegment(x, y)
          PROVE  x \in nodes
        <2>1. CASE y \in node
            BY <1>2, <1>5, <1>9, <2>1 DEF ShapeOf
        <2>2. CASE y \notin node
            <3>1. Above(r, y) /\ Covers(r, y) /\ y \in Keys /\ Len(r) < Len(y)
                BY <1>1, <1>4, <1>7, <2>2, AboveShorter DEF Above
            <3>2. Covers(r, x) /\ Len(r) < Len(x)
                <4>1. CASE Len(r) = Level16
                    <5>1. r = At16(y) /\ Len(x) > Level16 /\ At16(x) = At16(y)
                        BY <1>1, <1>3, <1>9, <3>1, <4>1, At16Of DEF SameSegment
                    <5> QED
                        BY <1>3, <4>1, <5>1, At16Of
                <4>2. CASE Len(r) = Level24
                    <5>1. r = At24(y) /\ Len(x) > Level24 /\ At24(x) = At24(y)
                        BY <1>1, <1>3, <1>9, <3>1, <4>2, At24Of DEF SameSegment
                    <5> QED
                        BY <1>3, <4>2, <5>1, At24Of
                <4> QED
                    BY <1>1, <4>1, <4>2
            <3>3. Above(r, x)
                BY <1>3, <3>2 DEF Above
            <3>4. ASSUME Len(x) > Level24
                  PROVE  Len(p) > Level24 /\ At24(x) = At24(p)
                BY <1>4, <1>9, <2>2, <3>4 DEF SameSegment
            <3> QED
                BY <1>4, <3>3, <3>4
        <2> QED
            BY <2>1, <2>2
    <1>10. ShapeOf(nodes)
        BY <1>2, <1>5, <1>8, <1>9 DEF ShapeOf
    <1>11. ASSUME NEW d \in node, NEW b \in Bit, d \o <<b>> \in nodes, d \o <<b>> \notin node
           PROVE  d = r
        <2> DEFINE c == d \o <<b>>
        <2>1. c \in Keys /\ Above(r, c) /\ d \in Keys
            BY <1>2, <1>4, <1>11
        <2>2. Above(d, c) /\ Len(c) = Len(d) + 1
            BY <2>1, ChildSegment
        <2> HIDE DEF c
        <2>3. Len(r) < Len(c) /\ Len(d) \in Nat /\ Len(c) \in Nat
            BY <1>1, <1>3, <2>1, AboveShorter
        <2>4. Len(r) <= Len(d)
            BY <1>3, <2>2, <2>3
        <2>5. Covers(r, d)
            BY <1>1, <2>1, <2>2, <2>3, <2>4, Comparable DEF Above
        <2> QED
            BY <1>1, <1>2, <2>5, NothingBelowLeaf
    <1>12. ~ IsLeaf(r, nodes)
        BY <1>1, <1>5, <1>10, NothingBelowLeaf DEF Above
    <1>13. ASSUME NEW d \in node
           PROVE  IsLeaf(d, nodes) <=> IsLeaf(d, node) /\ d # r
        <2>1. 0 \in Bit /\ 1 \in Bit
            BY DEF Bit
        <2> QED
            BY <1>5, <1>11, <1>12, <2>1 DEF IsLeaf
    <1> QED
        BY <1>5, <1>6, <1>7, <1>10, <1>13

\* On the way to a new leaf only the leaf it hangs from and p have a port.
LEMMA BornNearest ==
    ASSUME TrieInv, NEW p \in Keys, p \notin node, NEW port, port # 0,
           NEW r, r = BornRoot(p, port), NEW f, f = BornSeed(p, port),
           NEW d \in Keys, Covers(r, d)
    PROVE  /\ Covers(p, d) => Nearest(d, f) = p /\ f[p] = port
           /\ ~ Covers(p, d) => Nearest(d, f) = r /\ f[r] = new[r]
           /\ Nearest(d, f) \in Keys
PROOF
    <1>1. /\ r \in node /\ r \in Keys /\ IsLeaf(r, node) /\ Above(r, p) /\ new[r] # 0
          /\ p # r /\ Len(r) < Len(p)
        BY BornRootIsLeaf, AboveShorter DEF Above
    <1>2. ShapeOf(node) /\ PortsOf(node, old, new) /\ new \in [Keys -> PortOrNone]
        BY DEF TrieInv, PortTypes
    <1>3. f[p] = port /\ \A z \in Keys : z # p => f[z] = new[z]
        BY <1>2 DEF BornSeed
    <1>4. ASSUME NEW z \in Keys, Covers(z, d), f[z] # 0
          PROVE  z = p \/ z = r
        <2>1. CASE z # p
            <3>1. z \in node /\ IsLeaf(z, node)
                BY <1>2, <1>3, <1>4, <2>1 DEF PortsOf
            <3> QED
                BY <1>1, <1>2, <1>4, <3>1, LeafUnique
        <2> QED
            BY <2>1
    <1>5. Len(p) \in Nat /\ Len(r) \in Nat
        BY <1>1, KeyIsSeq
    <1>6. CASE Covers(p, d)
        <2>1. IsNearestPort(p, d, f)
            BY <1>1, <1>3, <1>4, <1>5, <1>6 DEF IsNearestPort
        <2> QED
            BY <1>3, <1>6, <2>1, NearestIs
    <1>7. CASE ~ Covers(p, d)
        <2>1. IsNearestPort(r, d, f)
            BY <1>1, <1>3, <1>4, <1>5, <1>7 DEF IsNearestPort
        <2> QED
            BY <1>1, <1>3, <1>7, <2>1, NearestIs
    <1> QED
        BY <1>6, <1>7

LEMMA BornPortsOf ==
    ASSUME TrieInv, NEW p \in Keys, p \notin node, NEW port \in Port,
           NEW nodes, nodes = BornNodes(p, port), NEW ports, ports = BornPorts(p, port)
    PROVE  /\ PortsOf(nodes, [old EXCEPT ![p] = port], ports)
           /\ ports \in [Keys -> PortOrNone]
           /\ \A d \in node : IsLeaf(d, node) /\ d # BornRoot(p, port) => ports[d] = new[d]
PROOF
    <1> DEFINE r == BornRoot(p, port)
               f == BornSeed(p, port)
               routes == [old EXCEPT ![p] = port]
    <1>1. /\ r \in node /\ r \in Keys /\ IsLeaf(r, node) /\ Above(r, p) /\ new[r] # 0
          /\ Covers(r, p) /\ p # r /\ Len(r) < Len(p)
        BY BornRootIsLeaf, AboveShorter DEF Above
    <1>2. /\ ShapeOf(node) /\ PortsOf(node, old, new) /\ node \subseteq Keys
          /\ new \in [Keys -> PortOrNone] /\ old \in [Keys -> PortOrNone]
        BY DEF TrieInv, PortTypes, ShapeOf
    <1>3. /\ ShapeOf(nodes) /\ nodes \subseteq Keys /\ node \subseteq nodes /\ p \in nodes
          /\ \A d \in node : IsLeaf(d, nodes) <=> IsLeaf(d, node) /\ d # r
          /\ \A d \in nodes : Covers(r, d) /\ d \in node => d = r
          /\ \A d \in nodes \ node : Above(r, d)
        BY BornShape DEF ShapeOf
    <1>4. port # 0 /\ port \in PortOrNone /\ 0 \in PortOrNone
        BY SailAssumption, Levels DEF PortOrNone
    <1>5. /\ f[p] = port /\ \A z \in Keys : z # p => f[z] = new[z]
          /\ f \in [Keys -> PortOrNone]
        BY <1>2, <1>4 DEF BornSeed
    <1>6. \A d \in Keys : ports[d] = IF d \notin nodes \/ ~ Covers(r, d) THEN f[d]
                                     ELSE IF IsLeaf(d, nodes) THEN f[Nearest(d, f)] ELSE 0
        BY DEF BornPorts, Pushed
    <1>7. routes[p] = port /\ (\A z \in Keys : z # p => routes[z] = old[z])
        BY <1>2
    <1>8. <<>> \in Keys /\ <<>> # p /\ routes[<<>>] # 0
        <2>1. <<>> \in Keys /\ <<>> \in node
            BY RootKey, Levels, <1>2 DEF ShapeOf
        <2> QED
            BY <1>2, <1>7, <2>1 DEF PortsOf
    <1>9. \A d \in Keys : routes[d] # 0 => d \in nodes
        BY <1>2, <1>3, <1>7 DEF PortsOf
    <1> HIDE DEF routes, r, f
    <1>10. ASSUME NEW d \in Keys, ports[d] # 0
           PROVE  d \in nodes /\ IsLeaf(d, nodes)
        <2>1. CASE d \notin nodes \/ ~ Covers(r, d)
            <3>1. d # p
                BY <1>1, <1>3, <2>1
            <3>2. d \in node /\ IsLeaf(d, node)
                BY <1>2, <1>5, <1>6, <1>10, <2>1, <3>1 DEF PortsOf
            <3>3. d # r
                BY <1>1, <1>3, <2>1, <3>2, CoversSelf
            <3> QED
                BY <1>3, <3>2, <3>3
        <2> QED
            BY <1>6, <1>10, <2>1
    <1>11. ASSUME NEW d \in node, IsLeaf(d, node), d # r
           PROVE  /\ ports[d] = new[d] /\ ~ Covers(p, d)
        <2>1. d \in Keys /\ d \in nodes /\ ~ Covers(r, d) /\ d # p
            BY <1>2, <1>3, <1>11
        <2>2. ~ Covers(p, d)
            <3>1. Len(d) \in Nat
                BY <2>1, KeyIsSeq
            <3> QED
                BY <1>1, <2>1, <3>1, CoversTransitive
        <2> QED
            BY <1>5, <1>6, <2>1, <2>2
    <1>12. ASSUME NEW d \in nodes, IsLeaf(d, nodes)
           PROVE  ports[d] = routes[Nearest(d, routes)]
        <2>1. d \in Keys /\ Len(d) \in Nat /\ Len(p) \in Nat /\ Len(r) \in Nat
            BY <1>1, <1>3, KeyIsSeq
        <2>2. CASE d \in node
            <3>1. IsLeaf(d, node) /\ d # r
                BY <1>3, <1>12, <2>2
            <3> DEFINE y == Nearest(d, old)
            <3>2. IsNearestPort(y, d, old) /\ new[d] = old[y]
                BY <1>2, <2>1, <2>2, <3>1, NearestRoute DEF PortsOf
            <3> HIDE DEF y
            <3>3. IsNearestPort(y, d, routes) /\ routes[y] = old[y]
                BY <1>7, <1>11, <2>2, <3>1, <3>2 DEF IsNearestPort
            <3>4. Nearest(d, routes) = y
                BY <2>1, <3>3, NearestIs
            <3> QED
                BY <1>11, <2>2, <3>1, <3>2, <3>3, <3>4
        <2>3. CASE d \notin node
            <3>1. Above(r, d) /\ Covers(r, d) /\ Len(r) < Len(d)
                BY <1>1, <1>3, <2>1, <2>3, AboveShorter DEF Above
            <3>2. ports[d] = f[Nearest(d, f)]
                BY <1>6, <1>12, <2>1, <3>1
            <3>3. ASSUME NEW z \in Keys, Covers(z, d), z # p, routes[z] # 0
                  PROVE  Covers(z, r) /\ old[z] # 0
                <4>1. z \in node /\ old[z] # 0
                    BY <1>2, <1>7, <3>3 DEF PortsOf
                <4> QED
                    BY <1>1, <1>2, <2>1, <3>1, <3>3, <4>1, LeafUnique
            <3>4. CASE Covers(p, d)
                <4>1. ports[d] = port
                    BY <1>4, <2>1, <3>1, <3>2, <3>4, BornNearest DEF r, f
                <4>2. ASSUME NEW z \in Keys, Covers(z, d), routes[z] # 0
                      PROVE  Len(z) <= Len(p)
                    <5>1. z # p => Len(z) <= Len(r)
                        BY <3>3, <4>2 DEF Covers
                    <5>2. Len(z) \in Nat
                        BY KeyIsSeq
                    <5> QED
                        BY <1>1, <2>1, <5>1, <5>2
                <4>3. IsNearestPort(p, d, routes)
                    BY <1>4, <1>7, <3>4, <4>2 DEF IsNearestPort
                <4>4. Nearest(d, routes) = p
                    BY <2>1, <4>3, NearestIs
                <4> QED
                    BY <1>7, <4>1, <4>4
            <3>5. CASE ~ Covers(p, d)
                <4> DEFINE y == Nearest(r, old)
                <4>1. ports[d] = new[r] /\ new[r] = old[y]
                    <5>1. ports[d] = new[r]
                        BY <1>4, <2>1, <3>1, <3>2, <3>5, BornNearest DEF r, f
                    <5> QED
                        BY <1>1, <1>2, <5>1 DEF PortsOf
                <4>2. IsNearestPort(y, r, old)
                    BY <1>1, NearestRoute
                <4> HIDE DEF y
                <4>3. y \in Keys /\ Covers(y, d) /\ old[y] # 0 /\ y # p
                    BY <1>1, <2>1, <3>1, <3>5, <4>2, CoversTransitive DEF IsNearestPort
                <4>4. IsNearestPort(y, d, routes)
                    BY <1>7, <3>3, <3>5, <4>2, <4>3 DEF IsNearestPort
                <4>5. Nearest(d, routes) = y
                    BY <2>1, <4>4, NearestIs
                <4> QED
                    BY <1>7, <4>1, <4>3, <4>5
            <3> QED
                BY <3>4, <3>5
        <2> QED
            BY <2>2, <2>3
    <1>13. ports \in [Keys -> PortOrNone]
        <2>1. ports = [d \in Keys |-> IF d \notin nodes \/ ~ Covers(r, d) THEN f[d]
                                     ELSE IF IsLeaf(d, nodes) THEN f[Nearest(d, f)] ELSE 0]
            BY DEF BornPorts, Pushed, r, f
        <2>2. ASSUME NEW d \in Keys, Covers(r, d)
              PROVE  f[Nearest(d, f)] \in PortOrNone
            <3>1. Nearest(d, f) \in Keys
                BY <1>4, <2>2, BornNearest DEF r, f
            <3> QED
                BY <1>5, <3>1
        <2>3. \A d \in Keys : f[d] \in PortOrNone
            BY <1>5
        <2> QED
            BY <1>4, <2>1, <2>2, <2>3
    <1> QED
        BY <1>8, <1>9, <1>10, <1>11, <1>12, <1>13 DEF PortsOf, routes, r

LEMMA BornKeepsTrie ==
    ASSUME TrieInv, NEW p \in Keys, NEW port \in Port, AnnounceBorn(p, port)
    PROVE  TrieInv'
PROOF
    <1>1. /\ p \notin node
          /\ node' = BornNodes(p, port)
          /\ old' = [old EXCEPT ![p] = port]
          /\ new' = BornPorts(p, port)
        BY DEF AnnounceBorn, BornNodes, BornPorts, BornRoot, BornSeed
    <1>2. ShapeOf(node')
        BY <1>1, BornShape
    <1>3. PortsOf(node', old', new') /\ new' \in [Keys -> PortOrNone]
        BY <1>1, BornPortsOf
    <1>4. old' \in [Keys -> PortOrNone]
        <2>1. port \in PortOrNone
            BY SailAssumption, Levels DEF PortOrNone
        <2> QED
            BY <1>1, <2>1 DEF TrieInv, PortTypes
    <1> QED
        BY <1>2, <1>3, <1>4 DEF TrieInv, PortTypes

----------------------------------------------------------------------------
(* Announcements and withdrawals at a node *)

\* A route that is new at a leaf is the nearest one of that leaf only.
LEMMA LeafKeepsTrie ==
    ASSUME TrieInv, NEW p \in Keys, NEW port \in Port, AnnounceLeaf(p, port)
    PROVE  TrieInv'
PROOF
    <1>1. /\ p \in node /\ IsLeaf(p, node) /\ node' = node
          /\ old' = [old EXCEPT ![p] = port] /\ new' = [new EXCEPT ![p] = port]
        BY DEF AnnounceLeaf
    <1>2. /\ ShapeOf(node) /\ PortsOf(node, old, new) /\ node \subseteq Keys
          /\ new \in [Keys -> PortOrNone] /\ old \in [Keys -> PortOrNone]
        BY DEF TrieInv, PortTypes, ShapeOf
    <1>3. port # 0 /\ port \in PortOrNone
        BY SailAssumption, Levels DEF PortOrNone
    <1>4. /\ old'[p] = port /\ new'[p] = port
          /\ \A z \in Keys : z # p => old'[z] = old[z] /\ new'[z] = new[z]
        BY <1>1, <1>2
    <1>5. ASSUME NEW d \in node, IsLeaf(d, node)
          PROVE  new'[d] = old'[Nearest(d, old')]
        <2>1. d \in Keys /\ Len(d) \in Nat
            BY <1>2, KeyIsSeq
        <2>2. CASE d = p
            <3>1. IsNearestPort(p, d, old')
                BY <1>3, <1>4, <2>1, <2>2, CoversSelf DEF IsNearestPort, Covers
            <3> QED
                BY <1>4, <2>1, <2>2, <3>1, NearestIs
        <2>3. CASE d # p
            <3> DEFINE y == Nearest(d, old)
            <3>1. ~ Covers(p, d)
                BY <1>1, <1>2, <2>3, NothingBelowLeaf
            <3>2. IsNearestPort(y, d, old) /\ new[d] = old[y]
                BY <1>2, <1>5, <2>1, NearestRoute DEF PortsOf
            <3> HIDE DEF y
            <3>3. IsNearestPort(y, d, old') /\ old'[y] = old[y]
                BY <1>4, <3>1, <3>2 DEF IsNearestPort
            <3> QED
                BY <1>4, <2>1, <2>3, <3>2, <3>3, NearestIs
        <2> QED
            BY <2>2, <2>3
    <1>6. PortsOf(node', old', new')
        <2>1. old'[<<>>] # 0
            BY <1>2, <1>3, <1>4, RootKey DEF PortsOf
        <2>2. \A d \in Keys : old'[d] # 0 => d \in node
            BY <1>1, <1>2, <1>4 DEF PortsOf
        <2>3. \A d \in Keys : new'[d] # 0 => d \in node /\ IsLeaf(d, node)
            BY <1>1, <1>2, <1>4 DEF PortsOf
        <2> QED
            BY <1>1, <1>5, <2>1, <2>2, <2>3 DEF PortsOf
    <1>7. ShapeOf(node') /\ PortTypes'
        BY <1>1, <1>2, <1>3 DEF PortTypes
    <1> QED
        BY <1>6, <1>7 DEF TrieInv

\* An update at p gives the leaves below it, as far as no longer route stops it,
\* the port of w, which is the nearest route of p afterwards.
LEMMA SubtreeKeepsTrie ==
    ASSUME TrieInv, NEW p \in node, NEW port \in PortOrNone, NEW route \in PortOrNone,
           Subtree(p, port, route), old'[<<>>] # 0,
           NEW w, IsNearestPort(w, p, old'), old'[w] = port
    PROVE  TrieInv'
PROOF
    <1>1. /\ node' = node /\ old' = [old EXCEPT ![p] = route]
          /\ new' = SubTrieUpdate(p, port, old')
        BY DEF Subtree
    <1>2. /\ ShapeOf(node) /\ PortsOf(node, old, new) /\ node \subseteq Keys
          /\ new \in [Keys -> PortOrNone] /\ old \in [Keys -> PortOrNone]
        BY DEF TrieInv, PortTypes, ShapeOf
    <1>3. p \in Keys /\ Len(p) \in Nat /\ (\A z \in Keys : Len(z) \in Nat /\ (z # p => old'[z] = old[z]))
        BY <1>1, <1>2, KeyIsSeq
    <1> DEFINE Reached(x) == \A y \in PathTo(x) : Above(p, y) => old'[y] = 0
    <1>4. /\ \A x \in Keys :
                new'[x] = IF x \in node /\ Covers(p, x) /\ Reached(x)
                          THEN IF IsLeaf(x, node) THEN port ELSE 0
                          ELSE new[x]
          /\ new' \in [Keys -> PortOrNone]
        <2>1. new' = [x \in Keys |-> IF x \in node /\ Covers(p, x) /\ Reached(x)
                                     THEN IF IsLeaf(x, node) THEN port ELSE 0
                                     ELSE new[x]]
            BY <1>1 DEF SubTrieUpdate
        <2>2. 0 \in PortOrNone
            BY Levels DEF PortOrNone
        <2> HIDE DEF Reached
        <2> QED
            BY <1>2, <2>1, <2>2
    <1>5. ASSUME NEW d \in node, IsLeaf(d, node)
          PROVE  new'[d] = old'[Nearest(d, old')]
        <2> DEFINE y == Nearest(d, old)
        <2>1. /\ d \in Keys /\ Len(d) \in Nat
              /\ IsNearestPort(y, d, old) /\ new[d] = old[y]
              /\ y \in Keys /\ Len(y) \in Nat
            BY <1>2, <1>3, <1>5, NearestRoute DEF PortsOf, IsNearestPort
        <2> HIDE DEF y
        <2>2. CASE Covers(p, d) /\ Reached(d)
            <3>1. ASSUME NEW z \in Keys, Covers(z, d), old'[z] # 0
                  PROVE  Len(z) <= Len(w)
                <4>1. CASE Len(z) <= Len(p)
                    <5>1. Covers(z, p)
                        BY <1>3, <2>1, <2>2, <3>1, <4>1, Comparable
                    <5> QED
                        BY <3>1, <5>1 DEF IsNearestPort
                <4>2. CASE Len(p) < Len(z)
                    <5>1. Above(p, z)
                        BY <1>3, <2>1, <2>2, <3>1, <4>2, Comparable DEF Above
                    <5>2. z \in PathTo(d)
                        BY <2>1, <3>1, PathToCovers
                    <5> QED
                        BY <2>2, <3>1, <5>1, <5>2
                <4> QED
                    BY <1>3, <4>1, <4>2
            <3>2. w \in Keys /\ Covers(w, d) /\ old'[w] # 0
                BY <1>3, <2>1, <2>2, CoversTransitive DEF IsNearestPort
            <3>3. Nearest(d, old') = w
                BY <2>1, <3>1, <3>2, NearestIs DEF IsNearestPort
            <3>4. new'[d] = port
                BY <1>4, <1>5, <2>1, <2>2
            <3> QED
                BY <3>3, <3>4
        <2>3. CASE ~ Covers(p, d) \/ ~ Reached(d)
            <3>1. y # p /\ (Covers(p, d) => Len(p) <= Len(y))
                <4>1. CASE ~ Covers(p, d)
                    BY <2>1, <4>1 DEF IsNearestPort
                <4>2. CASE ~ Reached(d)
                    <5>1. PICK u \in PathTo(d) : Above(p, u) /\ old'[u] # 0
                        BY <4>2
                    <5>2. u \in Keys /\ Covers(u, d) /\ Len(p) < Len(u) /\ u # p
                        BY <1>3, <2>1, <5>1, PathToCovers, AboveShorter DEF Above
                    <5>3. Len(u) <= Len(y) /\ Len(u) \in Nat
                        BY <1>3, <2>1, <5>1, <5>2 DEF IsNearestPort
                    <5> QED
                        BY <1>3, <2>1, <5>2, <5>3
                <4> QED
                    BY <2>3, <4>1, <4>2
            <3>2. ASSUME NEW z \in Keys, Covers(z, d), old'[z] # 0
                  PROVE  Len(z) <= Len(y)
                <4>1. CASE z = p
                    BY <3>1, <3>2, <4>1
                <4>2. CASE z # p
                    BY <1>3, <2>1, <3>2, <4>2 DEF IsNearestPort
                <4> QED
                    BY <4>1, <4>2
            <3>3. IsNearestPort(y, d, old') /\ old'[y] = old[y]
                BY <1>3, <2>1, <3>1, <3>2 DEF IsNearestPort
            <3>4. Nearest(d, old') = y
                BY <2>1, <3>3, NearestIs
            <3>5. new'[d] = new[d]
                BY <1>4, <2>1, <2>3
            <3> QED
                BY <2>1, <3>3, <3>4, <3>5
        <2> QED
            BY <2>2, <2>3
    <1>6. PortsOf(node', old', new')
        <2>1. \A d \in Keys : old'[d] # 0 => d \in node
            BY <1>2, <1>3 DEF PortsOf
        <2> HIDE DEF Reached
        <2>2. \A d \in Keys : new'[d] # 0 => d \in node /\ IsLeaf(d, node)
            BY <1>2, <1>4 DEF PortsOf
        <2> QED
            BY <1>1, <1>5, <2>1, <2>2 DEF PortsOf
    <1>7. old' \in [Keys -> PortOrNone]
        BY <1>1, <1>2
    <1> QED
        BY <1>1, <1>2, <1>4, <1>6, <1>7 DEF TrieInv, PortTypes

\* An announced route is itself the nearest of its prefix.
LEMMA ChangeKeepsTrie ==
    ASSUME TrieInv, NEW p \in node, NEW port \in Port, Subtree(p, port, port)
    PROVE  TrieInv'
PROOF
    <1>1. p \in Keys /\ Len(p) \in Nat /\ old \in [Keys -> PortOrNone] /\ old[<<>>] # 0
        BY KeyIsSeq DEF TrieInv, ShapeOf, PortTypes, PortsOf
    <1>2. port # 0 /\ port \in PortOrNone
        BY SailAssumption, Levels DEF PortOrNone
    <1>3. old' = [old EXCEPT ![p] = port]
        BY DEF Subtree
    <1>4. old'[p] = port /\ old'[<<>>] # 0
        BY <1>1, <1>2, <1>3, RootKey
    <1>5. IsNearestPort(p, p, old')
        BY <1>1, <1>2, <1>4, CoversSelf DEF IsNearestPort, Covers
    <1> QED
        BY <1>2, <1>4, <1>5, SubtreeKeepsTrie

\* A withdrawn one leaves that to the nearest route above.
LEMMA WithdrawKeepsTrie ==
    ASSUME TrieInv, NEW p \in Keys, Withdraw(p)
    PROVE  TrieInv'
PROOF
    <1>1. /\ Len(p) \in Nat /\ Len(p) <= KeyLength /\ old \in [Keys -> PortOrNone] /\ old[<<>>] # 0
          /\ \A z \in Keys : Len(z) \in Nat
        BY KeyIsSeq, KeyLengthAssumption DEF TrieInv, PortTypes, PortsOf
    <1> DEFINE q == SubSeq(p, 1, Len(p) - 1)
               w == Nearest(q, old)
    <1>2. /\ p \in node /\ Len(p) > 0 /\ Subtree(p, old[w], 0)
        BY <1>1, Levels DEF Withdraw
    <1>3. q \in Keys /\ Len(q) = Len(p) - 1 /\ Covers(q, p)
        <2>1. Len(p) - 1 \in Nat /\ Len(p) - 1 <= Len(p)
            BY <1>1, <1>2
        <2> QED
            BY <2>1, Beginning
    <1> HIDE DEF q
    <1>4. IsNearestPort(w, q, old) /\ old[w] # 0
        BY <1>3, NearestRoute
    <1> HIDE DEF w
    <1>5. w \in Keys /\ Covers(w, q) /\ Covers(w, p) /\ Len(w) < Len(p)
        <2>1. w \in Keys /\ Covers(w, q)
            BY <1>4 DEF IsNearestPort
        <2>2. Len(w) \in Nat /\ Len(w) <= Len(q)
            BY <1>1, <2>1 DEF Covers
        <2> QED
            BY <1>1, <1>3, <2>1, <2>2, CoversTransitive
    <1>6. /\ old' = [old EXCEPT ![p] = 0] /\ w # p /\ <<>> # p
        BY <1>1, <1>2, <1>5, RootKey DEF Subtree
    <1>7. /\ old'[w] = old[w] /\ old'[<<>>] # 0 /\ old'[p] = 0
          /\ \A z \in Keys : old'[z] # 0 => z # p /\ old[z] # 0
        BY <1>1, <1>2, <1>5, <1>6, RootKey
    <1>8. ASSUME NEW z \in Keys, Covers(z, p), old'[z] # 0
          PROVE  Len(z) <= Len(w)
        <2>1. Above(z, p) /\ Len(z) < Len(p)
            BY <1>7, <1>8, AboveShorter DEF Above
        <2>2. Len(z) <= Len(q)
            BY <1>1, <1>3, <2>1
        <2>3. Covers(z, q)
            BY <1>1, <1>3, <1>8, <2>2, Comparable
        <2> QED
            BY <1>4, <1>7, <1>8, <2>3 DEF IsNearestPort
    <1>9. IsNearestPort(w, p, old')
        BY <1>4, <1>5, <1>7, <1>8 DEF IsNearestPort
    <1>10. old[w] \in PortOrNone /\ 0 \in PortOrNone
        BY <1>1, <1>5, Levels DEF PortOrNone
    <1> QED
        BY <1>2, <1>7, <1>9, <1>10, SubtreeKeepsTrie

----------------------------------------------------------------------------
(* The trie of every behaviour *)

LEMMA NextTrie == TrieInv /\ [Next]_vars => TrieInv'
PROOF
    <1> SUFFICES ASSUME TrieInv, [Next]_vars
                 PROVE  TrieInv'
        OBVIOUS
    <1>1. CASE UNCHANGED vars
        BY <1>1 DEF vars, trie, TrieInv, PortTypes
    <1>2. ASSUME NEW a \in Announced, AnnounceBorn(a[1], a[2])
          PROVE  TrieInv'
        BY <1>2, BornKeepsTrie, SailAssumption
    <1>3. ASSUME NEW a \in Announced, AnnounceLeaf(a[1], a[2])
          PROVE  TrieInv'
        BY <1>3, LeafKeepsTrie, SailAssumption
    <1>4. ASSUME NEW a \in Announced, AnnounceInner(a[1], a[2]) \/ AnnounceChange(a[1], a[2])
          PROVE  TrieInv'
        <2>1. a[1] \in node /\ a[2] \in Port /\ Subtree(a[1], a[2], a[2])
            BY <1>4, SailAssumption DEF AnnounceInner, AnnounceChange
        <2> QED
            BY <2>1, ChangeKeepsTrie
    <1>5. ASSUME NEW p \in Prefix, Withdraw(p)
          PROVE  TrieInv'
        BY <1>5, WithdrawKeepsTrie, SailAssumption
    <1>6. ASSUME NEW p \in Prefix, Ignored(p)
          PROVE  TrieInv'
        BY <1>1, <1>6 DEF Ignored
    <1> QED
        BY <1>1, <1>2, <1>3, <1>4, <1>5, <1>6 DEF Next

LEMMA TrieInvariant == Spec => []TrieInv
PROOF
    BY InitTrie, NextTrie, PTL DEF Spec

\* The checks the driver runs after each stage (isCorrectTrie and ytTriePortTest,
\* Fib.cpp:1073-1126) succeed after every update, whatever the levels.
THEOREM TrieIsCorrect == Spec => []CorrectTrie
PROOF
    <1>1. ASSUME TrieInv
          PROVE  CorrectTrie
        <2> SUFFICES ASSUME NEW d \in node
                     PROVE  IF IsLeaf(d, node)
                            THEN /\ Len(d) \in {Level16, Level24, KeyLength}
                                 /\ new[d] # 0 /\ (old[d] # 0 => old[d] = new[d])
                            ELSE {d \o <<0>>, d \o <<1>>} \subseteq node /\ new[d] = 0
            BY DEF CorrectTrie
        <2>1. ShapeOf(node) /\ PortsOf(node, old, new) /\ d \in Keys /\ Len(d) \in Nat
            BY <1>1, KeyIsSeq DEF TrieInv, ShapeOf
        <2>2. CASE IsLeaf(d, node)
            <3>1. /\ new[d] = old[Nearest(d, old)] /\ new[d] # 0
                  /\ IsNearestPort(Nearest(d, old), d, old)
                BY <1>1, <2>1, <2>2, NearestOfLeaf, NearestRoute, CoversSelf
            <3>2. ASSUME old[d] # 0
                  PROVE  old[d] = new[d]
                <4>1. IsNearestPort(d, d, old)
                    BY <2>1, <3>2, CoversSelf DEF IsNearestPort, Covers
                <4> QED
                    BY <2>1, <3>1, <4>1, NearestIs
            <3> QED
                BY <2>1, <2>2, <3>1, <3>2, LeafLevels
        <2>3. CASE ~ IsLeaf(d, node)
            BY <2>1, <2>3, LeafLevels DEF PortsOf
        <2> QED
            BY <2>2, <2>3
    <1> QED
        BY <1>1, TrieInvariant, PTL

\* A lookup in the trie ends at the leaf above the address.
LEMMA LookupEndsAtLeaf ==
    ASSUME TrieInv, NEW a \in Address, NEW d \in node, IsLeaf(d, node), Covers(d, a)
    PROVE  FindFibTrieNextHop(a) = new[d] /\ new[d] = old[Nearest(a, old)] /\ new[d] # 0
PROOF
    <1>1. a \in Keys /\ Len(a) = KeyLength /\ ShapeOf(node) /\ PortsOf(node, old, new)
        BY AddressKeys DEF TrieInv
    <1>2. /\ new[d] = old[Nearest(d, old)] /\ new[d] # 0
          /\ Nearest(a, old) = Nearest(d, old)
        BY <1>1, NearestOfLeaf
    <1>3. d \in Keys /\ d # <<>> /\ Len(d) \in Nat
        <2>1. d \in Keys /\ Len(d) \in {Level16, Level24, KeyLength}
            BY <1>1, LeafLevels DEF ShapeOf
        <2> QED
            BY <2>1, RootKey, Levels
    <1> DEFINE seen == {y \in PathTo(a) : y \in node /\ y # <<>> /\ new[y] # 0}
    <1>4. d \in seen
        BY <1>1, <1>2, <1>3, PathToCovers
    <1>5. ASSUME NEW y \in seen
          PROVE  y = d
        <2>1. y \in node /\ y \in Keys /\ Covers(y, a) /\ IsLeaf(y, node)
            BY <1>1, <1>5, PathToCovers DEF PortsOf
        <2> QED
            BY <1>1, <2>1, LeafUnique
    <1>6. (CHOOSE y \in seen : \A z \in seen : Len(z) <= Len(y)) = d
        <2> HIDE DEF seen
        <2>1. Len(d) <= Len(d)
            BY <1>3
        <2> QED
            BY <1>4, <1>5, <2>1
    <1>7. FindFibTrieNextHop(a) = new[d]
        BY <1>4, <1>6 DEF FindFibTrieNextHop
    <1> QED
        BY <1>2, <1>7

\* Whatever the order of announcements and withdrawals, a lookup in the trie
\* (FindFibTrieNextHop, main.cpp) returns the port of the longest route of the
\* address.
THEOREM TrieLooksUpLongest == Spec => []TrieIsLongestMatch
PROOF
    <1>1. ASSUME TrieInv, NEW a \in Address
          PROVE  FindFibTrieNextHop(a) = old[Nearest(a, old)]
        <2>1. a \in Keys /\ Len(a) = KeyLength /\ ShapeOf(node)
            BY <1>1, AddressKeys DEF TrieInv
        <2>2. PICK d \in node : IsLeaf(d, node) /\ Covers(d, a)
            BY <2>1, LeafOnWay
        <2> QED
            BY <1>1, <2>2, LookupEndsAtLeaf
    <1>2. TrieInv => TrieIsLongestMatch
        BY <1>1 DEF TrieIsLongestMatch
    <1> QED
        BY <1>2, TrieInvariant, PTL

----------------------------------------------------------------------------
(* Cells *)

LEMMA Cell24Of ==
    ASSUME NEW d \in Keys, Len(d) >= Level24
    PROVE  /\ At16(d) \in Index16 /\ Cell24(d) \in Index24
           /\ Cell24(At24(d)) = Cell24(d)
           /\ \A e \in Keys : /\ Len(e) >= Level24
                              /\ At16(e) = At16(d)
                              /\ Cell24(e) = Cell24(d)
                              => At24(e) = At24(d)
PROOF
    <1>1. /\ Level16 \in Nat /\ Level24 \in Nat /\ Level16 < Level24
          /\ Len(d) \in Nat /\ Level16 <= Len(d) /\ Level24 <= Len(d)
        BY Levels, KeyIsSeq
    <1>2. ASSUME NEW e \in Keys, Len(e) >= Level24
          PROVE  /\ Cell24(e) \in Index24
                 /\ \A i \in 1 .. Level24 - Level16 : Cell24(e)[i] = e[Level16 + i]
        BY <1>1, <1>2, PieceBits DEF Cell24, Index24
    <1>3. Cell24(At24(d)) = Cell24(d)
        <2>1. At24(d) \in Keys /\ Len(At24(d)) = Level24 /\ Covers(At24(d), d)
            BY <1>1, At24Of
        <2>2. \A i \in 1 .. Level24 - Level16 : At24(d)[Level16 + i] = d[Level16 + i]
            <3>1. ASSUME NEW i \in 1 .. Level24 - Level16
                  PROVE  Level16 + i \in 1 .. Level24
                BY <1>1
            <3> QED
                BY <2>1, <3>1 DEF Covers
        <2>3. \A i \in 1 .. Level24 - Level16 : Cell24(At24(d))[i] = Cell24(d)[i]
            <3>1. Len(At24(d)) >= Level24
                BY <1>1, <2>1
            <3>2. \A i \in 1 .. Level24 - Level16 : Cell24(At24(d))[i] = At24(d)[Level16 + i]
                BY <1>2, <2>1, <3>1
            <3>3. \A i \in 1 .. Level24 - Level16 : Cell24(d)[i] = d[Level16 + i]
                BY <1>2
            <3> QED
                BY <2>2, <3>2, <3>3
        <2>4. Cell24(At24(d)) \in Index24 /\ Cell24(d) \in Index24
            BY <1>1, <1>2, <2>1
        <2> DEFINE P == 1 .. Level24 - Level16
        <2>5. Index24 = [P -> Bit]
            BY DEF Index24
        <2> HIDE DEF P
        <2>6. \A u, v \in [P -> Bit] : (\A i \in P : u[i] = v[i]) => u = v
            OBVIOUS
        <2> QED
            BY <2>3, <2>4, <2>5, <2>6 DEF P
    <1>4. ASSUME NEW e \in Keys, Len(e) >= Level24, At16(e) = At16(d), Cell24(e) = Cell24(d)
          PROVE  At24(e) = At24(d)
        BY <1>1, <1>4, PiecesJoin DEF At16, At24, Cell24
    <1>5. At16(d) \in Index16
        BY <1>1, At16Of
    <1> QED
        BY <1>1, <1>2, <1>3, <1>4, <1>5

LEMMA Cell32Of ==
    ASSUME NEW d \in Keys, Len(d) = KeyLength
    PROVE  /\ Len(d) >= Level24 /\ Cell32(d) \in Index32
           /\ \A e \in Keys : /\ Len(e) = KeyLength
                              /\ At24(e) = At24(d)
                              /\ Cell32(e) = Cell32(d)
                              => e = d
PROOF
    <1>1. /\ Level24 \in Nat /\ KeyLength \in Nat /\ Level24 < KeyLength
          /\ Level24 <= Len(d) /\ KeyLength <= Len(d)
        BY Levels
    <1>2. Cell32(d) \in Index32
        BY <1>1, PieceBits DEF Cell32, Index32
    <1>3. ASSUME NEW e \in Keys, Len(e) = KeyLength, At24(e) = At24(d), Cell32(e) = Cell32(d)
          PROVE  e = d
        <2>1. SubSeq(e, 1, KeyLength) = SubSeq(d, 1, KeyLength)
            BY <1>1, <1>3, PiecesJoin DEF At24, Cell32
        <2>2. e = SubSeq(e, 1, KeyLength) /\ d = SubSeq(d, 1, KeyLength)
            BY <1>1, <1>3, Beginning, CoversSelf
        <2> QED
            BY <2>1, <2>2
    <1> QED
        BY <1>1, <1>2, <1>3

\* The cell behind a node is the cell of one node.
LEMMA Row24Of ==
    ASSUME NEW x \in Keys, Len(x) = Level16, NEW i \in Index24
    PROVE  /\ x \o i \in Keys /\ Len(x \o i) = Level24 /\ At16(x \o i) = x /\ Cell24(x \o i) = i
           /\ \A d \in Keys : Len(d) = Level24 /\ At16(d) = x /\ Cell24(d) = i => x \o i = d
PROOF
    <1> DEFINE e == x \o i
    <1>1. /\ Level16 \in Nat /\ Level24 \in 0 .. KeyLength /\ Level24 \in Nat /\ Level16 < Level24
          /\ Len(x) <= Level24 /\ i \in [1 .. Level24 - Len(x) -> Bit]
        BY Levels DEF Index24
    <1>2. e \in Keys /\ Len(e) = Level24 /\ Covers(x, e) /\ Cell24(e) = i
        BY <1>1, PieceBehind DEF Cell24
    <1> HIDE DEF e
    <1>3. At16(e) = x
        BY <1>1, <1>2, At16Of
    <1>4. ASSUME NEW d \in Keys, Len(d) = Level24, At16(d) = x, Cell24(d) = i
          PROVE  e = d
        <2>1. At24(e) = At24(d)
            BY <1>1, <1>2, <1>3, <1>4, Cell24Of
        <2>2. At24(e) = e /\ At24(d) = d
            BY <1>1, <1>2, <1>4, At24Of, CoversSelf
        <2> QED
            BY <2>1, <2>2
    <1> QED
        BY <1>2, <1>3, <1>4 DEF e

LEMMA Row32Of ==
    ASSUME NEW x \in Keys, Len(x) = Level24, NEW i \in Index32
    PROVE  /\ x \o i \in Keys
           /\ \A d \in Keys : Len(d) = KeyLength /\ At24(d) = x /\ Cell32(d) = i => x \o i = d
PROOF
    <1> DEFINE e == x \o i
    <1>1. /\ Level24 \in Nat /\ KeyLength \in 0 .. KeyLength /\ KeyLength \in Nat /\ Level24 < KeyLength
          /\ Len(x) <= KeyLength /\ i \in [1 .. KeyLength - Len(x) -> Bit]
        BY Levels DEF Index32
    <1>2. e \in Keys /\ Len(e) = KeyLength /\ Covers(x, e) /\ Cell32(e) = i
        BY <1>1, PieceBehind DEF Cell32
    <1> HIDE DEF e
    <1>3. At24(e) = x
        BY <1>1, <1>2, At24Of
    <1> QED
        BY <1>2, <1>3, Cell32Of DEF e

----------------------------------------------------------------------------
(* Numbers of chunks *)

\* levelTable16 has 2^Level16 cells.
LEMMA CellsOfLevel16 == IsFiniteSet(Index16) /\ Cardinality(Index16) = 2^Level16
PROOF
    <1> DEFINE P == 1 .. Level16
               T == SUBSET P
               g == [s \in T |-> [k \in P |-> IF k \in s THEN 1 ELSE 0]]
    <1>1. IsFiniteSet(P) /\ Cardinality(P) = Level16
        BY Levels, FS_Interval
    <1>2. IsFiniteSet(T) /\ Cardinality(T) = 2^Cardinality(P)
        <2> HIDE DEF P
        <2> QED
            BY <1>1, FS_SUBSET
    <1>3. g \in [T -> Index16]
        BY DEF Index16, Bit
    <1>4. ASSUME NEW s \in T, NEW t \in T, g[s] = g[t]
          PROVE  s = t
        <2>1. \A k \in P : k \in s <=> g[s][k] = 1
            OBVIOUS
        <2>2. \A k \in P : k \in t <=> g[t][k] = 1
            OBVIOUS
        <2> QED
            BY <1>4, <2>1, <2>2
    <1>5. ASSUME NEW i \in Index16
          PROVE  \E s \in T : g[s] = i
        <2> DEFINE s == {k \in P : i[k] = 1}
        <2>1. s \in T /\ \A k \in P : g[s][k] = i[k]
            BY DEF Index16, Bit
        <2>2. g[s] = i
            BY <2>1 DEF Index16
        <2> QED
            BY <2>1, <2>2
    <1>6. g \in Bijection(T, Index16)
        <2> HIDE DEF T, g
        <2> QED
            BY <1>3, <1>4, <1>5 DEF Bijection, Injection, IsInjective, Surjection
    <1>7. IsFiniteSet(Index16) /\ Cardinality(Index16) = Cardinality(T)
        <2> HIDE DEF T, g
        <2> QED
            BY <1>2, <1>6, FS_Bijection DEF ExistsBijection
    <1>8. Cardinality(T) = 2^Level16
        BY <1>1, <1>2
    <1> QED
        BY <1>7, <1>8

\* What an unsigned short keeps of a chunk number.
LEMMA Truncated ==
    ASSUME NEW c \in Nat
    PROVE  c % OffsetRange \in 0 .. OffsetRange - 1 /\ (c < OffsetRange => c % OffsetRange = c)
PROOF
    <1>1. OffsetRange \in Nat /\ OffsetRange > 0
        BY Levels
    <1>2. c % OffsetRange \in 0 .. OffsetRange - 1
        BY <1>1
    <1>3. ASSUME c < OffsetRange
          PROVE  c % OffsetRange = c
        BY <1>1, <1>3
    <1> QED
        BY <1>2, <1>3

----------------------------------------------------------------------------
(* The invariant *)

TableTypes ==
    /\ element \in [Index16 -> Int] /\ \A i \in Index16 : - PORT_MAX <= element[i]
    /\ nexthop24 \in [0 .. LEVEL24_CHUNK_NUM - 1 -> [Index24 -> PortOrNone]]
    /\ offset24 \in [0 .. LEVEL24_CHUNK_NUM - 1 -> [Index24 -> 0 .. OffsetRange - 1]]
    /\ nexthop32 \in [0 .. LEVEL32_CHUNK_NUM - 1 -> [Index32 -> PortOrNone]]
    /\ currentChunkNum24 \in Nat /\ currentChunkNum24 <= LEVEL24_CHUNK_NUM
    /\ currentChunkNum32 \in 0 .. LEVEL32_CHUNK_NUM
    /\ chunk \in [Keys -> Int]
    /\ \A d \in Keys : /\ chunk[d] >= -1
                       /\ Len(d) = KeyLength => chunk[d] < currentChunkNum32
                       /\ Len(d) # KeyLength => chunk[d] < currentChunkNum24

\* The cells of levelTable16 that have a chunk.
Used == {i \in Index16 : element[i] >= 0}

\* The chunks given out are exactly the used ones.
Numbers24 ==
    /\ \A i \in Index16 : element[i] < 0 <=> IsLeaf(i, node)
    /\ \A i, j \in Index16 : element[i] = element[j] /\ element[i] >= 0 => i = j
    /\ \A i \in Index16 : element[i] < currentChunkNum24
    /\ currentChunkNum24 = Cardinality(Used)
    /\ \A d \in node : Len(d) = Level24 => chunk[d] = element[At16(d)]

Numbers32 ==
    /\ \A d \in node : Len(d) = KeyLength =>
            /\ chunk[d] \in 0 .. currentChunkNum32 - 1
            /\ chunk[d] % OffsetRange = offset24[element[At16(d)]][Cell24(d)]
    /\ \A d, e \in node : Len(d) = KeyLength /\ Len(e) = KeyLength /\ chunk[d] = chunk[e]
                          => At24(d) = At24(e)

\* What a table holds for a leaf.
CellOf(d) ==
    IF Len(d) = Level16 THEN - element[d]
    ELSE IF Len(d) = Level24 THEN nexthop24[element[At16(d)]][Cell24(d)]
    ELSE nexthop32[offset24[element[At16(d)]][Cell24(d)]][Cell32(d)]

CellsRight ==
    /\ touched \subseteq node /\ touched \subseteq Prefix
    /\ \A d \in node : Len(d) = Level24 /\ ~ IsLeaf(d, node)
                       => nexthop24[element[At16(d)]][Cell24(d)] = 0
    /\ currentChunkNum32 <= OffsetRange =>
          \A d \in node : IsLeaf(d, node) /\ (\A q \in touched : ~ Covers(q, d))
                          => CellOf(d) = new[d]

\* The inductive invariant of this module.
SailInv == TrieInv /\ TableTypes /\ Numbers24 /\ Numbers32 /\ CellsRight

----------------------------------------------------------------------------
(* What the invariant says of a node *)

LEMMA ChunkInTable ==
    ASSUME TableTypes, Numbers24, NEW i \in Index16
    PROVE  element[i] \in Int /\ element[i] < LEVEL24_CHUNK_NUM
PROOF
    <1>1. /\ element[i] \in Int /\ element[i] < currentChunkNum24
          /\ currentChunkNum24 \in Nat /\ currentChunkNum24 <= LEVEL24_CHUNK_NUM
        BY DEF TableTypes, Numbers24
    <1> QED
        BY <1>1, Levels

\* A node below level 16 has a chunk of levelTable24.
LEMMA NodeBelow16 ==
    ASSUME SailInv, NEW d \in node, Len(d) > Level16
    PROVE  /\ d \in Keys /\ At16(d) \in Index16 /\ At16(d) \in node /\ ~ IsLeaf(At16(d), node)
           /\ Covers(At16(d), d)
           /\ element[At16(d)] \in 0 .. LEVEL24_CHUNK_NUM - 1
PROOF
    <1>1. /\ ShapeOf(node) /\ d \in Keys /\ Len(d) \in Nat /\ Level16 \in Nat /\ Level16 <= Len(d)
          /\ TableTypes /\ Numbers24
        BY KeyIsSeq, Levels DEF SailInv, TrieInv, ShapeOf
    <1>2. /\ At16(d) \in Keys /\ Len(At16(d)) = Level16 /\ Covers(At16(d), d)
          /\ At16(d) \in Index16
        BY <1>1, At16Of
    <1>3. At16(d) \in node
        BY <1>1, <1>2, PathToCovers DEF ShapeOf
    <1>4. ~ IsLeaf(At16(d), node)
        BY <1>1, <1>2, <1>3, NothingBelowLeaf
    <1>5. element[At16(d)] \in Int /\ element[At16(d)] < LEVEL24_CHUNK_NUM /\ LEVEL24_CHUNK_NUM \in Nat
        BY <1>1, <1>2, ChunkInTable, Levels
    <1>6. ~ (element[At16(d)] < 0)
        BY <1>1, <1>2, <1>4 DEF Numbers24
    <1> QED
        BY <1>1, <1>2, <1>3, <1>4, <1>5, <1>6

\* And a node below level 24 hangs from an inner node of level 24.
LEMMA NodeBelow24 ==
    ASSUME SailInv, NEW d \in node, Len(d) > Level24
    PROVE  /\ Len(d) > Level16 /\ At24(d) \in Keys /\ At24(d) \in node /\ ~ IsLeaf(At24(d), node)
           /\ Len(At24(d)) = Level24 /\ Covers(At24(d), d)
           /\ At16(At24(d)) = At16(d) /\ Cell24(At24(d)) = Cell24(d)
PROOF
    <1>1. /\ ShapeOf(node) /\ d \in Keys /\ Len(d) \in Nat /\ Level24 \in Nat /\ Level24 <= Len(d)
          /\ Len(d) > Level16
        BY KeyIsSeq, Levels DEF SailInv, TrieInv, ShapeOf
    <1>2. /\ At24(d) \in Keys /\ Len(At24(d)) = Level24 /\ Covers(At24(d), d)
          /\ At16(At24(d)) = At16(d) /\ Cell24(At24(d)) = Cell24(d)
        BY <1>1, At24Of, Cell24Of
    <1>3. At24(d) \in node
        BY <1>1, <1>2, PathToCovers DEF ShapeOf
    <1>4. ~ IsLeaf(At24(d), node)
        BY <1>1, <1>2, <1>3, NothingBelowLeaf
    <1> QED
        BY <1>1, <1>2, <1>3, <1>4

LEMMA InitTables == Init => SailInv
PROOF
    <1> SUFFICES ASSUME Init
                 PROVE  SailInv
        OBVIOUS
    <1>1. /\ node = {d \in Keys : Len(d) <= Level16}
          /\ new = [d \in Keys |-> IF Len(d) = Level16 THEN PORT_MAX ELSE 0]
          /\ chunk = [d \in Keys |-> -1]
          /\ element = [i \in Index16 |-> - PORT_MAX]
          /\ nexthop24 = [c \in 0 .. LEVEL24_CHUNK_NUM - 1 |-> [i \in Index24 |-> 0]]
          /\ offset24 = [c \in 0 .. LEVEL24_CHUNK_NUM - 1 |-> [i \in Index24 |-> 0]]
          /\ nexthop32 = [c \in 0 .. LEVEL32_CHUNK_NUM - 1 |-> [i \in Index32 |-> 0]]
          /\ currentChunkNum24 = 0 /\ currentChunkNum32 = 0 /\ touched = {}
        BY DEF Init
    <1>2. /\ PORT_MAX \in Nat /\ 0 < PORT_MAX /\ LEVEL32_CHUNK_NUM \in Nat
          /\ OffsetRange \in Nat /\ 0 < OffsetRange
          /\ Level16 \in Nat /\ Level24 \in Nat /\ KeyLength \in Nat
          /\ Level16 < Level24 /\ Level24 < KeyLength
          /\ \A d \in Keys : Len(d) \in Nat
        BY Levels, KeyIsSeq
    <1>3. TrieInv
        BY InitTrie
    <1>4. TableTypes
        <2>1. 0 \in PortOrNone /\ 0 \in 0 .. OffsetRange - 1 /\ 0 \in 0 .. LEVEL32_CHUNK_NUM
            BY <1>2 DEF PortOrNone
        <2>2. element \in [Index16 -> Int] /\ \A i \in Index16 : - PORT_MAX <= element[i]
            BY <1>1, <1>2
        <2>3. /\ nexthop24 \in [0 .. LEVEL24_CHUNK_NUM - 1 -> [Index24 -> PortOrNone]]
              /\ offset24 \in [0 .. LEVEL24_CHUNK_NUM - 1 -> [Index24 -> 0 .. OffsetRange - 1]]
              /\ nexthop32 \in [0 .. LEVEL32_CHUNK_NUM - 1 -> [Index32 -> PortOrNone]]
            BY <1>1, <2>1
        <2>4. /\ chunk \in [Keys -> Int]
              /\ \A d \in Keys : chunk[d] = -1
            BY <1>1
        <2> QED
            BY <1>1, <2>1, <2>2, <2>3, <2>4, Levels DEF TableTypes
    <1>5. \A i \in Index16 : element[i] = - PORT_MAX /\ element[i] < 0
        BY <1>1, <1>2
    <1>6. ASSUME NEW d \in node
          PROVE  /\ d \in Keys /\ Len(d) # Level24 /\ Len(d) # KeyLength
                 /\ Len(d) = Level16 => IsLeaf(d, node)
        <2>1. d \in Keys /\ Len(d) \in Nat /\ Len(d) <= Level16
            BY <1>1, <1>2
        <2>2. ASSUME Len(d) = Level16
              PROVE  IsLeaf(d, node)
            <3>1. \A b \in Bit : d \o <<b>> \notin node
                <4> SUFFICES ASSUME NEW b \in Bit, d \o <<b>> \in node
                             PROVE  FALSE
                    OBVIOUS
                <4>1. Len(d \o <<b>>) = Len(d) + 1
                    BY <2>1, ChildKey
                <4>2. Len(d \o <<b>>) <= Level16
                    BY <1>1
                <4> QED
                    BY <1>2, <2>2, <4>1, <4>2
            <3> QED
                BY <3>1 DEF IsLeaf, Bit
        <2> QED
            BY <1>2, <2>1, <2>2
    <1>7. \A i \in Index16 : i \in Keys /\ Len(i) = Level16 /\ i \in node /\ IsLeaf(i, node)
        BY <1>1, <1>2, <1>6, Index16Keys
    <1>8. Numbers24
        <2>1. Used = {}
            BY <1>2, <1>5 DEF Used
        <2>2. \A i \in Index16 : ~ (element[i] >= 0) /\ element[i] < currentChunkNum24
            BY <1>1, <1>2, <1>5
        <2> QED
            BY <1>1, <1>5, <1>6, <1>7, <2>1, <2>2, FS_EmptySet DEF Numbers24
    <1>9. Numbers32
        BY <1>6 DEF Numbers32
    <1>10. CellsRight
        <2>1. ASSUME NEW d \in node, IsLeaf(d, node)
              PROVE  CellOf(d) = new[d]
            <3>1. Len(d) = Level16 /\ d \in Keys
                BY <1>3, <1>6, <2>1, LeafLevels DEF TrieInv
            <3>2. d \in Index16
                BY <3>1, Index16Keys
            <3> QED
                BY <1>1, <1>2, <1>5, <3>1, <3>2 DEF CellOf
        <2> QED
            BY <1>1, <1>6, <2>1 DEF CellsRight
    <1> QED
        BY <1>3, <1>4, <1>8, <1>9, <1>10 DEF SailInv

\* A cell of levelTable24 belongs to one node, a chunk of levelTable32 as well.
LEMMA CellOfOne24 ==
    ASSUME SailInv, NEW d \in node, NEW e \in node, Len(d) >= Level24, Len(e) >= Level24,
           element[At16(d)] = element[At16(e)], Cell24(d) = Cell24(e)
    PROVE  At24(d) = At24(e)
PROOF
    <1>1. Len(d) > Level16 /\ Len(e) > Level16
        BY Levels, KeyIsSeq DEF SailInv, TrieInv, ShapeOf
    <1>2. /\ d \in Keys /\ At16(d) \in Index16 /\ element[At16(d)] \in 0 .. LEVEL24_CHUNK_NUM - 1
          /\ e \in Keys /\ At16(e) \in Index16
        BY <1>1, NodeBelow16
    <1>3. element[At16(d)] >= 0
        BY <1>2, Levels
    <1>4. At16(d) = At16(e)
        BY <1>2, <1>3 DEF SailInv, Numbers24
    <1> QED
        BY <1>2, <1>4, Cell24Of

LEMMA ChunkOf32 ==
    ASSUME SailInv, NEW d \in node, Len(d) = KeyLength
    PROVE  LET k == offset24[element[At16(d)]][Cell24(d)]
           IN  /\ k \in 0 .. LEVEL32_CHUNK_NUM - 1
               /\ chunk[d] \in 0 .. currentChunkNum32 - 1
               /\ currentChunkNum32 <= OffsetRange => k = chunk[d]
PROOF
    <1> DEFINE k == offset24[element[At16(d)]][Cell24(d)]
    <1>1. k = chunk[d] % OffsetRange /\ chunk[d] \in 0 .. currentChunkNum32 - 1
        BY DEF SailInv, Numbers32
    <1>2. currentChunkNum32 \in 0 .. LEVEL32_CHUNK_NUM
        BY DEF SailInv, TableTypes
    <1>3. OffsetRange \in Nat /\ LEVEL32_CHUNK_NUM \in Nat
        BY Levels
    <1> HIDE DEF k
    <1>4. chunk[d] \in Nat /\ chunk[d] < currentChunkNum32
        BY <1>1, <1>2, <1>3
    <1>5. k \in 0 .. OffsetRange - 1 /\ (chunk[d] < OffsetRange => k = chunk[d])
        BY <1>1, <1>4, Truncated
    <1> QED
        BY <1>1, <1>2, <1>3, <1>4, <1>5 DEF k

----------------------------------------------------------------------------
(* A cell written in place *)

LEMMA LeafKeepsTables ==
    ASSUME SailInv, NEW p \in Keys, NEW port \in Port, AnnounceLeaf(p, port)
    PROVE  SailInv'
PROOF
    <1> DEFINE c == element[At16(p)]
               k == offset24[c][Cell24(p)]
    <1>1. /\ p \in node /\ IsLeaf(p, node) /\ node' = node /\ new' = [new EXCEPT ![p] = port]
          /\ chunk' = chunk /\ touched' = touched \ {p}
          /\ currentChunkNum24' = currentChunkNum24 /\ currentChunkNum32' = currentChunkNum32
          /\ WriteCell(p, port)
        BY DEF AnnounceLeaf, counts
    <1>2. /\ TrieInv /\ ShapeOf(node) /\ TableTypes /\ Numbers24 /\ Numbers32 /\ CellsRight
          /\ node \subseteq Keys /\ new \in [Keys -> PortOrNone]
        BY DEF SailInv, TrieInv, PortTypes, ShapeOf
    <1>3. /\ Level16 \in Nat /\ Level24 \in Nat /\ KeyLength \in Nat
          /\ Level16 < Level24 /\ Level24 < KeyLength /\ PORT_MAX \in Nat
          /\ LEVEL24_CHUNK_NUM \in Nat /\ LEVEL32_CHUNK_NUM \in Nat
          /\ \A d \in Keys : Len(d) \in Nat
        BY Levels, KeyIsSeq
    <1>4. port \in PortOrNone /\ port \in Nat /\ port > 0 /\ port <= PORT_MAX
        BY <1>3, SailAssumption DEF PortOrNone
    <1>5. Len(p) \in {Level16, Level24, KeyLength}
        BY <1>1, <1>2, LeafLevels
    <1>6. TrieInv'
        BY <1>2, LeafKeepsTrie
    \* The cells of other leaves stay.
    <1>7. ASSUME currentChunkNum32 <= OffsetRange => CellOf(p)' = port,
                 ASSUME NEW d \in node, IsLeaf(d, node), d # p, currentChunkNum32 <= OffsetRange
                 PROVE  CellOf(d)' = CellOf(d),
                 ASSUME NEW d \in node, Len(d) = Level24, ~ IsLeaf(d, node)
                 PROVE  nexthop24'[element'[At16(d)]][Cell24(d)]
                            = nexthop24[element[At16(d)]][Cell24(d)]
          PROVE  CellsRight'
        <2>1. touched' \subseteq node /\ touched' \subseteq Prefix
            BY <1>1, <1>2 DEF CellsRight
        <2>2. ASSUME NEW d \in node, Len(d) = Level24, ~ IsLeaf(d, node)
              PROVE  nexthop24'[element'[At16(d)]][Cell24(d)] = 0
            BY <1>2, <1>7, <2>2 DEF CellsRight
        <2>3. ASSUME NEW d \in node, IsLeaf(d, node), \A q \in touched' : ~ Covers(q, d),
                     currentChunkNum32 <= OffsetRange
              PROVE  CellOf(d)' = new'[d]
            <3>1. CASE d = p
                BY <1>1, <1>2, <1>7, <2>3, <3>1
            <3>2. CASE d # p
                <4>1. ~ Covers(p, d)
                    BY <1>1, <1>2, <3>2, NothingBelowLeaf
                <4>2. \A q \in touched : ~ Covers(q, d)
                    BY <1>1, <2>3, <4>1
                <4>3. CellOf(d) = new[d]
                    BY <1>2, <2>3, <4>2 DEF CellsRight
                <4> QED
                    BY <1>1, <1>2, <1>7, <2>3, <3>2, <4>3
            <3> QED
                BY <3>1, <3>2
        <2> QED
            BY <1>1, <2>1, <2>2, <2>3 DEF CellsRight
    <1>8. CASE Len(p) = Level16
        <2>1. /\ element' = [element EXCEPT ![p] = - port]
              /\ nexthop24' = nexthop24 /\ offset24' = offset24 /\ nexthop32' = nexthop32
            <3>1. Len(p) # Level24 /\ Len(p) # KeyLength
                BY <1>3, <1>8
            <3> QED
                BY <1>1, <1>8, <3>1 DEF WriteCell
        <2>2. p \in Index16 /\ element[p] < 0 /\ element \in [Index16 -> Int]
            BY <1>1, <1>2, <1>8, Index16Keys DEF Numbers24, TableTypes
        <2>3. element'[p] = - port /\ \A i \in Index16 : i # p => element'[i] = element[i]
            BY <2>1, <2>2
        <2>4. - port \in Int /\ - port < 0 /\ - PORT_MAX <= - port
            BY <1>3, <1>4
        <2>5. TableTypes'
            <3>1. element' \in [Index16 -> Int] /\ \A i \in Index16 : - PORT_MAX <= element'[i]
                BY <1>2, <2>1, <2>2, <2>3, <2>4 DEF TableTypes
            <3> QED
                BY <1>1, <1>2, <2>1, <3>1 DEF TableTypes
        <2>6. \A d \in node : Len(d) > Level16 => element'[At16(d)] = element[At16(d)]
            BY <1>1, <2>3, NodeBelow16
        <2>7. Numbers24'
            <3>1. Used' = Used
                BY <2>2, <2>3, <2>4 DEF Used
            <3>2. \A i \in Index16 : element'[i] < 0 <=> IsLeaf(i, node)
                BY <1>2, <2>2, <2>3, <2>4 DEF Numbers24
            <3>3. ASSUME NEW i \in Index16, NEW j \in Index16, element'[i] = element'[j], element'[i] >= 0
                  PROVE  i = j
                <4>1. i # p /\ j # p
                    BY <2>2, <2>3, <2>4, <3>3
                <4> QED
                    BY <1>2, <2>3, <3>3, <4>1 DEF Numbers24
            <3>4. \A i \in Index16 : element'[i] < currentChunkNum24
                BY <1>2, <2>2, <2>3, <2>4 DEF Numbers24, TableTypes
            <3>5. \A d \in node : Len(d) = Level24 => chunk[d] = element'[At16(d)]
                BY <1>2, <1>3, <2>6 DEF Numbers24
            <3> QED
                BY <1>1, <1>2, <3>1, <3>2, <3>3, <3>4, <3>5 DEF Numbers24
        <2>8. Numbers32'
            BY <1>1, <1>2, <1>3, <2>1, <2>6 DEF Numbers32
        <2>9. CellOf(p)' = port
            BY <1>3, <1>4, <1>8, <2>3 DEF CellOf
        <2>10. ASSUME NEW d \in node, IsLeaf(d, node), d # p
               PROVE  CellOf(d)' = CellOf(d)
            <3>1. CASE Len(d) = Level16
                BY <1>2, <2>3, <2>10, <3>1, Index16Keys DEF CellOf
            <3>2. CASE Len(d) # Level16
                <4>1. Len(d) > Level16
                    BY <1>2, <1>3, <2>10, <3>2, LeafLevels
                <4> QED
                    BY <2>1, <2>6, <3>2, <4>1 DEF CellOf
            <3> QED
                BY <3>1, <3>2
        <2>11. CellsRight'
            BY <1>3, <1>7, <2>1, <2>6, <2>9, <2>10
        <2> QED
            BY <1>6, <2>5, <2>7, <2>8, <2>11 DEF SailInv
    <1>9. CASE Len(p) = Level24
        <2>1. /\ nexthop24' = [nexthop24 EXCEPT ![c][Cell24(p)] = port]
              /\ element' = element /\ offset24' = offset24 /\ nexthop32' = nexthop32
            <3>1. Len(p) # Level16 /\ Len(p) # KeyLength
                BY <1>3, <1>9
            <3> QED
                BY <1>1, <1>9, <3>1 DEF WriteCell
        <2>2. c \in 0 .. LEVEL24_CHUNK_NUM - 1 /\ Cell24(p) \in Index24
            BY <1>1, <1>3, <1>9, NodeBelow16, Cell24Of
        <2>3. nexthop24 \in [0 .. LEVEL24_CHUNK_NUM - 1 -> [Index24 -> PortOrNone]]
            BY <1>2 DEF TableTypes
        <2> HIDE DEF c
        <2>4. /\ nexthop24' \in [0 .. LEVEL24_CHUNK_NUM - 1 -> [Index24 -> PortOrNone]]
              /\ nexthop24'[c][Cell24(p)] = port
              /\ \A m \in 0 .. LEVEL24_CHUNK_NUM - 1, i \in Index24 :
                    m # c \/ i # Cell24(p) => nexthop24'[m][i] = nexthop24[m][i]
            BY <1>4, <2>1, <2>2, <2>3
        <2>5. ASSUME NEW d \in node, Len(d) = Level24, d # p
              PROVE  nexthop24'[element[At16(d)]][Cell24(d)] = nexthop24[element[At16(d)]][Cell24(d)]
            <3>1. /\ d \in Keys /\ p \in Keys /\ Len(d) >= Level24 /\ Len(p) >= Level24
                  /\ Len(d) > Level16
                BY <1>2, <1>3, <1>9, <2>5
            <3>2. element[At16(d)] \in 0 .. LEVEL24_CHUNK_NUM - 1 /\ Cell24(d) \in Index24
                BY <3>1, NodeBelow16, Cell24Of
            <3>3. At24(d) = d /\ At24(p) = p
                BY <1>9, <2>5, <3>1, At24Of, CoversSelf
            <3>4. element[At16(d)] # c \/ Cell24(d) # Cell24(p)
                BY <1>1, <2>5, <3>1, <3>3, CellOfOne24 DEF c
            <3> QED
                BY <2>4, <3>2, <3>4
        <2>6. TableTypes' /\ Numbers24' /\ Numbers32'
            <3>1. Used' = Used
                BY <2>1 DEF Used
            <3> QED
                BY <1>1, <1>2, <2>1, <2>4, <3>1 DEF TableTypes, Numbers24, Numbers32
        <2>7. CellOf(p)' = port
            BY <1>3, <1>9, <2>1, <2>4 DEF CellOf, c
        <2>8. ASSUME NEW d \in node, d # p
              PROVE  CellOf(d)' = CellOf(d)
            BY <2>1, <2>5, <2>8 DEF CellOf
        <2>9. CellsRight'
            BY <1>1, <1>7, <2>1, <2>5, <2>7, <2>8
        <2> QED
            BY <1>6, <2>6, <2>9 DEF SailInv
    <1>10. CASE Len(p) = KeyLength
        <2>1. /\ nexthop32' = [nexthop32 EXCEPT ![k][Cell32(p)] = port]
              /\ element' = element /\ offset24' = offset24 /\ nexthop24' = nexthop24
            BY <1>1, <1>3, <1>10 DEF WriteCell
        <2>2. /\ k \in 0 .. LEVEL32_CHUNK_NUM - 1 /\ Cell32(p) \in Index32
              /\ currentChunkNum32 <= OffsetRange => k = chunk[p]
            BY <1>1, <1>10, ChunkOf32, Cell32Of
        <2>3. nexthop32 \in [0 .. LEVEL32_CHUNK_NUM - 1 -> [Index32 -> PortOrNone]]
            BY <1>2 DEF TableTypes
        <2>4. CellOf(p)' = nexthop32'[k][Cell32(p)]
            BY <1>3, <1>10, <2>1 DEF CellOf
        <2> HIDE DEF c, k
        <2>5. /\ nexthop32' \in [0 .. LEVEL32_CHUNK_NUM - 1 -> [Index32 -> PortOrNone]]
              /\ nexthop32'[k][Cell32(p)] = port
              /\ \A m \in 0 .. LEVEL32_CHUNK_NUM - 1, i \in Index32 :
                    m # k \/ i # Cell32(p) => nexthop32'[m][i] = nexthop32[m][i]
            BY <1>4, <2>1, <2>2, <2>3
        <2>6. TableTypes' /\ Numbers24' /\ Numbers32'
            <3>1. Used' = Used
                BY <2>1 DEF Used
            <3> QED
                BY <1>1, <1>2, <2>1, <2>5, <3>1 DEF TableTypes, Numbers24, Numbers32
        <2>7. ASSUME NEW d \in node, IsLeaf(d, node), d # p, currentChunkNum32 <= OffsetRange
              PROVE  CellOf(d)' = CellOf(d)
            <3>1. CASE Len(d) # KeyLength
                <4>1. Len(d) \in {Level16, Level24}
                    BY <1>2, <2>7, <3>1, LeafLevels
                <4> QED
                    BY <1>3, <2>1, <4>1 DEF CellOf
            <3>2. CASE Len(d) = KeyLength
                <4> DEFINE m == offset24[element[At16(d)]][Cell24(d)]
                <4>1. /\ m \in 0 .. LEVEL32_CHUNK_NUM - 1 /\ Cell32(d) \in Index32 /\ m = chunk[d]
                    BY <1>2, <2>7, <3>2, ChunkOf32, Cell32Of
                <4>2. CellOf(d) = nexthop32[m][Cell32(d)] /\ CellOf(d)' = nexthop32'[m][Cell32(d)]
                    BY <1>3, <2>1, <3>2 DEF CellOf
                <4> HIDE DEF m
                <4>3. m = k => At24(d) = At24(p)
                    BY <1>1, <1>2, <1>10, <2>2, <2>7, <3>2, <4>1 DEF Numbers32
                <4>4. m # k \/ Cell32(d) # Cell32(p)
                    BY <1>1, <1>2, <1>10, <2>7, <3>2, <4>3, Cell32Of
                <4> QED
                    BY <2>5, <4>1, <4>2, <4>4
            <3> QED
                BY <3>1, <3>2
        <2>8. CellsRight'
            BY <1>7, <2>1, <2>4, <2>5, <2>7
        <2> QED
            BY <1>6, <2>6, <2>8 DEF SailInv
    <1> QED
        BY <1>5, <1>8, <1>9, <1>10

----------------------------------------------------------------------------
(* An update that leaves the tables behind *)

\* It changes no port outside the subtree of p, and p covers what it disturbs.
LEMMA SubtreeKeepsTables ==
    ASSUME SailInv, TrieInv', NEW p \in Prefix, p \in node, NEW port, NEW route,
           Subtree(p, port, route)
    PROVE  SailInv'
PROOF
    <1>1. /\ node' = node /\ new' = SubTrieUpdate(p, port, old')
          /\ touched' = {q \in touched : ~ Covers(p, q)} \cup {p}
          /\ chunk' = chunk /\ element' = element /\ nexthop24' = nexthop24
          /\ offset24' = offset24 /\ nexthop32' = nexthop32
          /\ currentChunkNum24' = currentChunkNum24 /\ currentChunkNum32' = currentChunkNum32
        BY DEF Subtree, tables, counts
    <1>2. /\ TableTypes /\ Numbers24 /\ Numbers32 /\ CellsRight /\ node \subseteq Keys
          /\ \A d \in Keys : Len(d) \in Nat
        BY KeyIsSeq, KeyLengthAssumption DEF SailInv, TrieInv, ShapeOf
    <1>3. TableTypes' /\ Numbers24' /\ Numbers32'
        <2>1. Used' = Used
            BY <1>1 DEF Used
        <2> QED
            BY <1>1, <1>2, <2>1 DEF TableTypes, Numbers24, Numbers32
    <1>4. touched' \subseteq node /\ touched' \subseteq Prefix
        BY <1>1, <1>2 DEF CellsRight
    <1>5. ASSUME NEW d \in node, IsLeaf(d, node), \A q \in touched' : ~ Covers(q, d),
                 currentChunkNum32 <= OffsetRange
          PROVE  CellOf(d)' = new'[d]
        <2>1. d \in Keys /\ p \in Keys /\ ~ Covers(p, d)
            BY <1>1, <1>2, <1>5
        <2>2. new'[d] = new[d]
            BY <1>1, <2>1 DEF SubTrieUpdate
        <2>3. ASSUME NEW q \in touched, Covers(q, d)
              PROVE  FALSE
            <3>1. q \in Keys /\ Covers(p, q)
                BY <1>1, <1>2, <1>5, <2>3 DEF CellsRight
            <3> QED
                BY <1>2, <2>1, <2>3, <3>1, CoversTransitive
        <2>4. CellOf(d) = new[d]
            BY <1>2, <1>5, <2>3 DEF CellsRight
        <2> QED
            BY <1>1, <2>2, <2>4 DEF CellOf
    <1>6. CellsRight'
        BY <1>1, <1>2, <1>4, <1>5 DEF CellsRight
    <1> QED
        BY <1>3, <1>6 DEF SailInv

----------------------------------------------------------------------------
(* Tables for new nodes *)

\* The tables that AnnounceBorn leaves, cell by cell.  r is the leaf that the new
\* nodes hang from, nodes and ports are the new trie.  Either r is on level 16 and
\* gets the next chunk of levelTable24, or it is on level 24 and has its cell
\* linked; in both cases a prefix below level 24 takes the next chunk of
\* levelTable32.
Given24(p, r, nodes, ports) ==
    /\ Len(r) = Level16 /\ r = At16(p)
    /\ element[r] < 0 /\ Chunk24(p) = currentChunkNum24
    /\ currentChunkNum24' = currentChunkNum24 + 1
    /\ \A m \in 0 .. LEVEL24_CHUNK_NUM - 1, i \in Index24 :
          nexthop24'[m][i] = IF m = Chunk24(p) THEN Row24(p, nodes, ports)[i] ELSE nexthop24[m][i]

Linked24(p, r) ==
    /\ Len(r) = Level24 /\ r = At24(p) /\ Len(p) > Level24
    /\ element[At16(p)] >= 0 /\ Chunk24(p) = element[At16(p)]
    /\ currentChunkNum24' = currentChunkNum24
    /\ \A m \in 0 .. LEVEL24_CHUNK_NUM - 1, i \in Index24 :
          nexthop24'[m][i] = IF m = Chunk24(p) /\ i = Cell24(p) THEN 0 ELSE nexthop24[m][i]

Given32(p, ports) ==
    /\ currentChunkNum32 < LEVEL32_CHUNK_NUM
    /\ currentChunkNum32' = currentChunkNum32 + 1
    /\ \A m \in 0 .. LEVEL24_CHUNK_NUM - 1, i \in Index24 :
          offset24'[m][i] = IF m = Chunk24(p) /\ i = Cell24(p) THEN currentChunkNum32 % OffsetRange
                            ELSE offset24[m][i]
    /\ \A m \in 0 .. LEVEL32_CHUNK_NUM - 1 :
          nexthop32'[m] = IF m = currentChunkNum32 THEN Row32(p, ports) ELSE nexthop32[m]

BornTables(p, r, nodes, ports) ==
    /\ Given24(p, r, nodes, ports) \/ Linked24(p, r)
    /\ Len(p) > Level24 => Given32(p, ports)
    /\ Len(p) <= Level24 => UNCHANGED <<offset24, nexthop32, currentChunkNum32>>
    /\ Chunk24(p) \in 0 .. LEVEL24_CHUNK_NUM - 1
    /\ At16(p) \in Index16
    /\ \A i \in Index16 : element'[i] = IF i = At16(p) THEN Chunk24(p) ELSE element[i]
    /\ \A d \in Keys :
          chunk'[d] = IF d \in node \/ d \notin nodes THEN chunk[d]
                      ELSE IF Len(d) = Level24 THEN Chunk24(p)
                      ELSE IF Len(d) = KeyLength THEN currentChunkNum32 ELSE -1
    /\ touched' = {q \in touched : ~ Covers(r, q)}

\* Where a segment begins, and whether p enters it.
LEMMA BornSegments ==
    ASSUME TrieInv, NEW p \in Keys, p \notin node, NEW port, NEW r, r = BornRoot(p, port)
    PROVE  /\ SubSeq(p, 1, Level16 + 1) \notin node <=> Len(r) = Level16
           /\ Len(p) > Level24 => SubSeq(p, 1, Level24 + 1) \notin node
PROOF
    <1>1. /\ r \in node /\ r \in Keys /\ IsLeaf(r, node) /\ Above(r, p) /\ Covers(r, p)
          /\ Len(r) \in {Level16, Level24} /\ Len(p) > Level16
          /\ ShapeOf(node)
        BY BornRootIsLeaf DEF Above, TrieInv
    <1>2. /\ Len(p) \in Nat /\ Len(r) \in Nat /\ Level16 \in Nat /\ Level24 \in Nat /\ Level16 < Level24
        BY <1>1, KeyIsSeq, Levels
    <1>3. ASSUME NEW n \in Nat, n + 1 <= Len(p), Len(r) <= n
          PROVE  SubSeq(p, 1, n + 1) \notin node
        <2> DEFINE y == SubSeq(p, 1, n + 1)
        <2>1. n + 1 \in Nat
            BY <1>3
        <2>2. y \in Keys /\ Len(y) = n + 1 /\ Covers(y, p)
            BY <1>3, <2>1, Beginning
        <2> HIDE DEF y
        <2>3. Covers(r, y)
            BY <1>1, <1>2, <1>3, <2>1, <2>2, Comparable
        <2>4. y # r
            BY <1>2, <1>3, <2>2
        <2>5. y \notin node
            BY <1>1, <2>3, <2>4, NothingBelowLeaf
        <2> QED
            BY <2>5 DEF y
    <1>4. ASSUME Len(r) = Level24
          PROVE  SubSeq(p, 1, Level16 + 1) \in node
        <2> DEFINE y == SubSeq(p, 1, Level16 + 1)
        <2>1. Level16 + 1 \in Nat /\ Level16 + 1 <= Len(p) /\ Level16 + 1 <= Len(r)
            BY <1>1, <1>2, <1>4
        <2>2. y \in Keys /\ Len(y) = Level16 + 1 /\ Covers(y, p)
            BY <2>1, Beginning
        <2> HIDE DEF y
        <2>3. Covers(y, r)
            BY <1>1, <1>2, <2>1, <2>2, Comparable
        <2>4. y \in node
            BY <1>1, <2>2, <2>3, PathToCovers DEF ShapeOf
        <2> QED
            BY <2>4 DEF y
    <1>5. Len(r) = Level16 => SubSeq(p, 1, Level16 + 1) \notin node
        BY <1>1, <1>2, <1>3
    <1>6. Len(p) > Level24 => SubSeq(p, 1, Level24 + 1) \notin node
        BY <1>1, <1>2, <1>3
    <1> QED
        BY <1>1, <1>2, <1>4, <1>5, <1>6

LEMMA BornWrites ==
    ASSUME SailInv, NEW p \in Keys, NEW port \in Port, AnnounceBorn(p, port),
           NEW r, r = BornRoot(p, port), NEW nodes, nodes = BornNodes(p, port),
           NEW ports, ports = BornPorts(p, port)
    PROVE  BornTables(p, r, nodes, ports) /\ TableTypes'
PROOF
    <1> DEFINE c24 == Chunk24(p)
               c32 == currentChunkNum32
               born16 == SubSeq(p, 1, Level16 + 1) \notin node
               born24 == Len(p) > Level24 /\ SubSeq(p, 1, Level24 + 1) \notin node
               linked == IF born24 THEN Linked(p, c24, nexthop24) ELSE nexthop24
    <1>1. /\ p \notin node
          /\ element[At16(p)] < 0 => c24 < LEVEL24_CHUNK_NUM
          /\ born24 => c32 < LEVEL32_CHUNK_NUM
          /\ chunk' = Numbered(nodes, c24, c32)
          /\ element' = [element EXCEPT ![At16(p)] = c24]
          /\ nexthop24' = IF born16 THEN [linked EXCEPT ![c24] = Row24(p, nodes, ports)] ELSE linked
          /\ offset24' = IF born24 THEN [offset24 EXCEPT ![c24][Cell24(p)] = c32 % OffsetRange]
                         ELSE offset24
          /\ nexthop32' = IF born24 THEN [nexthop32 EXCEPT ![c32] = Row32(p, ports)] ELSE nexthop32
          /\ currentChunkNum24' = NextChunk(currentChunkNum24, element[At16(p)] < 0)
          /\ currentChunkNum32' = NextChunk(currentChunkNum32, born24)
          /\ touched' = {q \in touched : ~ Covers(r, q)}
        BY DEF AnnounceBorn, BornNodes, BornPorts, BornRoot, BornSeed
    <1>2. /\ TrieInv /\ ShapeOf(node) /\ TableTypes /\ Numbers24
          /\ node \subseteq Keys
        BY DEF SailInv, TrieInv, ShapeOf
    <1>3. /\ r \in node /\ r \in Keys /\ IsLeaf(r, node) /\ Above(r, p) /\ Len(p) > Level16
          /\ \/ Len(r) = Level16 /\ r = At16(p)
             \/ /\ Len(r) = Level24 /\ r = At24(p) /\ Len(p) > Level24
                /\ At16(p) \in node /\ ~ IsLeaf(At16(p), node)
        BY <1>1, <1>2, BornRootIsLeaf
    <1>4. /\ Level16 \in Nat /\ Level24 \in Nat /\ KeyLength \in Nat /\ OffsetRange \in Nat
          /\ Level16 < Level24 /\ Level24 < KeyLength /\ PORT_MAX \in Nat
          /\ LEVEL24_CHUNK_NUM \in Nat /\ LEVEL32_CHUNK_NUM \in Nat
          /\ Len(p) \in Nat /\ Len(p) <= KeyLength
        BY Levels, KeyIsSeq
    <1>5. born16 <=> Len(r) = Level16
        BY <1>1, <1>2, BornSegments
    <1>6. born24 <=> Len(p) > Level24
        BY <1>1, <1>2, BornSegments
    <1>7. At16(p) \in Index16 /\ At16(p) \in Keys /\ Len(At16(p)) = Level16
        BY <1>3, <1>4, At16Of
    <1>8. element[At16(p)] < 0 <=> Len(r) = Level16
        BY <1>2, <1>3, <1>4, <1>7 DEF Numbers24
    <1>9. /\ element[At16(p)] \in Int /\ element[At16(p)] < LEVEL24_CHUNK_NUM
          /\ element[At16(p)] < 0 => currentChunkNum24 < LEVEL24_CHUNK_NUM
          /\ currentChunkNum24 \in Nat /\ c32 \in 0 .. LEVEL32_CHUNK_NUM
        BY <1>1, <1>2, <1>7, ChunkInTable DEF TableTypes, Chunk24
    <1>10. /\ c24 \in 0 .. LEVEL24_CHUNK_NUM - 1
           /\ element[At16(p)] < 0 => c24 = currentChunkNum24
           /\ ~ (element[At16(p)] < 0) => c24 = element[At16(p)]
        BY <1>4, <1>9 DEF Chunk24
    <1>11. Len(p) > Level24 => Cell24(p) \in Index24
        BY <1>4, Cell24Of
    <1>12. /\ element \in [Index16 -> Int] /\ \A i \in Index16 : - PORT_MAX <= element[i]
           /\ nexthop24 \in [0 .. LEVEL24_CHUNK_NUM - 1 -> [Index24 -> PortOrNone]]
           /\ offset24 \in [0 .. LEVEL24_CHUNK_NUM - 1 -> [Index24 -> 0 .. OffsetRange - 1]]
           /\ nexthop32 \in [0 .. LEVEL32_CHUNK_NUM - 1 -> [Index32 -> PortOrNone]]
           /\ chunk \in [Keys -> Int]
           /\ \A d \in Keys : /\ chunk[d] >= -1
                              /\ Len(d) = KeyLength => chunk[d] < currentChunkNum32
                              /\ Len(d) # KeyLength => chunk[d] < currentChunkNum24
        BY <1>2 DEF TableTypes
    <1>13. ports \in [Keys -> PortOrNone]
        BY <1>1, <1>2, BornPortsOf
    <1>14. Row24(p, nodes, ports) \in [Index24 -> PortOrNone]
        <2>1. \A i \in Index24 : At16(p) \o i \in Keys
            BY <1>7, Row24Of
        <2>2. 0 \in PortOrNone
            BY <1>4 DEF PortOrNone
        <2>3. \A i \in Index24 : (IF IsLeaf(At16(p) \o i, nodes) THEN ports[At16(p) \o i] ELSE 0)
                                 \in PortOrNone
            BY <1>13, <2>1, <2>2
        <2> QED
            BY <2>3 DEF Row24
    <1>15. Len(p) > Level24 => Row32(p, ports) \in [Index32 -> PortOrNone]
        <2>1. Len(p) > Level24 => \A i \in Index32 : At24(p) \o i \in Keys
            BY <1>4, At24Of, Row32Of
        <2>2. Len(p) > Level24 => \A i \in Index32 : ports[At24(p) \o i] \in PortOrNone
            BY <1>13, <2>1
        <2> QED
            BY <2>2 DEF Row32
    <1>16. c32 % OffsetRange \in 0 .. OffsetRange - 1
        BY <1>9, Truncated
    <1>17. /\ currentChunkNum24' = IF Len(r) = Level16 THEN currentChunkNum24 + 1 ELSE currentChunkNum24
           /\ currentChunkNum32' = IF Len(p) > Level24 THEN c32 + 1 ELSE c32
        BY <1>1, <1>6, <1>8 DEF NextChunk
    <1> HIDE DEF c24, c32, born16, born24
    <1>18. /\ element' \in [Index16 -> Int]
           /\ \A i \in Index16 : element'[i] = IF i = At16(p) THEN c24 ELSE element[i]
        BY <1>1, <1>7, <1>10, <1>12
    <1>19. /\ linked \in [0 .. LEVEL24_CHUNK_NUM - 1 -> [Index24 -> PortOrNone]]
           /\ \A m \in 0 .. LEVEL24_CHUNK_NUM - 1, i \in Index24 :
                 linked[m][i] = IF Len(p) > Level24 /\ m = c24 /\ i = Cell24(p) THEN 0
                                ELSE nexthop24[m][i]
        <2>1. 0 \in PortOrNone
            BY <1>4 DEF PortOrNone
        <2>2. linked = IF Len(p) > Level24 THEN [nexthop24 EXCEPT ![c24][Cell24(p)] = 0] ELSE nexthop24
            BY <1>6 DEF Linked
        <2> HIDE DEF linked
        <2> QED
            BY <1>10, <1>11, <1>12, <2>1, <2>2
    <1> HIDE DEF linked
    <1>20. /\ nexthop24' \in [0 .. LEVEL24_CHUNK_NUM - 1 -> [Index24 -> PortOrNone]]
           /\ \A m \in 0 .. LEVEL24_CHUNK_NUM - 1, i \in Index24 :
                 nexthop24'[m][i] = IF Len(r) = Level16 /\ m = c24 THEN Row24(p, nodes, ports)[i]
                                    ELSE linked[m][i]
        BY <1>1, <1>5, <1>10, <1>14, <1>19
    <1>21. /\ offset24' \in [0 .. LEVEL24_CHUNK_NUM - 1 -> [Index24 -> 0 .. OffsetRange - 1]]
           /\ \A m \in 0 .. LEVEL24_CHUNK_NUM - 1, i \in Index24 :
                 offset24'[m][i] = IF Len(p) > Level24 /\ m = c24 /\ i = Cell24(p)
                                   THEN c32 % OffsetRange ELSE offset24[m][i]
        <2>1. offset24' = IF Len(p) > Level24 THEN [offset24 EXCEPT ![c24][Cell24(p)] = c32 % OffsetRange]
                          ELSE offset24
            BY <1>1, <1>6
        <2> DEFINE v == c32 % OffsetRange
        <2> HIDE DEF v
        <2>2. v \in 0 .. OffsetRange - 1
            BY <1>16 DEF v
        <2>3. offset24' = IF Len(p) > Level24 THEN [offset24 EXCEPT ![c24][Cell24(p)] = v]
                          ELSE offset24
            BY <2>1 DEF v
        <2>4. /\ offset24' \in [0 .. LEVEL24_CHUNK_NUM - 1 -> [Index24 -> 0 .. OffsetRange - 1]]
              /\ \A m \in 0 .. LEVEL24_CHUNK_NUM - 1, i \in Index24 :
                    offset24'[m][i] = IF Len(p) > Level24 /\ m = c24 /\ i = Cell24(p)
                                      THEN v ELSE offset24[m][i]
            BY <1>10, <1>11, <1>12, <2>2, <2>3
        <2> QED
            BY <2>4 DEF v
    <1>22. /\ nexthop32' \in [0 .. LEVEL32_CHUNK_NUM - 1 -> [Index32 -> PortOrNone]]
           /\ \A m \in 0 .. LEVEL32_CHUNK_NUM - 1 :
                 nexthop32'[m] = IF Len(p) > Level24 /\ m = c32 THEN Row32(p, ports) ELSE nexthop32[m]
        BY <1>1, <1>6, <1>12, <1>15
    <1>23. /\ chunk' \in [Keys -> Int]
           /\ \A d \in Keys :
                 chunk'[d] = IF d \in node \/ d \notin nodes THEN chunk[d]
                             ELSE IF Len(d) = Level24 THEN c24
                             ELSE IF Len(d) = KeyLength THEN c32 ELSE -1
        <2>1. ASSUME NEW d \in Keys
              PROVE  (CASE Len(d) = Level24 -> c24
                        [] Len(d) = KeyLength -> c32
                        [] OTHER -> -1)
                     = IF Len(d) = Level24 THEN c24 ELSE IF Len(d) = KeyLength THEN c32 ELSE -1
            BY <1>4
        <2>2. c24 \in Int /\ c32 \in Int /\ -1 \in Int
            BY <1>4, <1>9, <1>10 DEF c32
        <2>3. chunk' = [d \in Keys |-> IF d \in node \/ d \notin nodes THEN chunk[d]
                                       ELSE IF Len(d) = Level24 THEN c24
                                       ELSE IF Len(d) = KeyLength THEN c32 ELSE -1]
            BY <1>1, <2>1 DEF Numbered
        <2> QED
            BY <1>12, <2>2, <2>3
    <1>24. BornTables(p, r, nodes, ports)
        <2>1. Len(p) > Level24 => Given32(p, ports)
            <3>1. Len(p) > Level24 => /\ c32 < LEVEL32_CHUNK_NUM /\ currentChunkNum32' = c32 + 1
                BY <1>1, <1>6, <1>17
            <3> QED
                BY <1>21, <1>22, <3>1 DEF Given32, c24, c32
        <2>2. Len(p) <= Level24 => UNCHANGED <<offset24, nexthop32, currentChunkNum32>>
            <3>1. Len(p) <= Level24 => ~ born24
                BY <1>4, <1>6
            <3> QED
                BY <1>1, <1>4, <1>17, <3>1 DEF c32
        <2>3. ASSUME Len(r) = Level16
              PROVE  Given24(p, r, nodes, ports)
            <3>1. \A m \in 0 .. LEVEL24_CHUNK_NUM - 1, i \in Index24 :
                      nexthop24'[m][i] = IF m = c24 THEN Row24(p, nodes, ports)[i] ELSE nexthop24[m][i]
                BY <1>19, <1>20, <2>3
            <3>2. r = At16(p) /\ element[r] < 0 /\ c24 = currentChunkNum24
                BY <1>3, <1>4, <1>8, <1>10, <2>3
            <3> QED
                BY <1>17, <2>3, <3>1, <3>2 DEF Given24, c24
        <2>4. ASSUME Len(r) # Level16
              PROVE  Linked24(p, r)
            <3>1. Len(r) = Level24 /\ r = At24(p) /\ Len(p) > Level24
                BY <1>3, <2>4
            <3>2. \A m \in 0 .. LEVEL24_CHUNK_NUM - 1, i \in Index24 :
                      nexthop24'[m][i] = IF m = c24 /\ i = Cell24(p) THEN 0 ELSE nexthop24[m][i]
                BY <1>19, <1>20, <2>4, <3>1
            <3>3. element[At16(p)] >= 0 /\ c24 = element[At16(p)]
                BY <1>8, <1>9, <1>10, <2>4
            <3> QED
                BY <1>17, <2>4, <3>1, <3>2, <3>3 DEF Linked24, c24
        <2> QED
            BY <1>1, <1>7, <1>10, <1>18, <1>23, <2>1, <2>2, <2>3, <2>4 DEF BornTables, c24, c32
    <1>25. TableTypes'
        <2>1. /\ currentChunkNum24' \in Nat /\ currentChunkNum24' >= currentChunkNum24
              /\ currentChunkNum24' <= LEVEL24_CHUNK_NUM
            BY <1>2, <1>4, <1>8, <1>9, <1>17 DEF TableTypes
        <2>2. currentChunkNum32' \in 0 .. LEVEL32_CHUNK_NUM /\ currentChunkNum32' >= currentChunkNum32
            BY <1>1, <1>4, <1>6, <1>9, <1>17 DEF c32
        <2>3. \A i \in Index16 : - PORT_MAX <= element'[i]
            <3>1. - PORT_MAX <= c24
                BY <1>4, <1>10
            <3> QED
                BY <1>12, <1>18, <3>1
        <2>4. c24 < currentChunkNum24'
            <3>1. CASE Len(r) = Level16
                BY <1>8, <1>9, <1>10, <1>17, <3>1
            <3>2. CASE Len(r) # Level16
                BY <1>2, <1>7, <1>8, <1>9, <1>10, <1>17, <3>2 DEF Numbers24
            <3> QED
                BY <3>1, <3>2
        <2>5. ASSUME NEW d \in Keys
              PROVE  /\ chunk'[d] >= -1
                     /\ Len(d) = KeyLength => chunk'[d] < currentChunkNum32'
                     /\ Len(d) # KeyLength => chunk'[d] < currentChunkNum24'
            <3>1. CASE d \in node \/ d \notin nodes
                BY <1>9, <1>12, <1>23, <2>1, <2>2, <3>1 DEF c32
            <3>2. CASE d \notin node /\ d \in nodes
                <4>1. Len(d) = KeyLength => Len(p) > Level24
                    BY <1>1, <1>2, <1>4, <3>2, BornNodesAre
                <4> QED
                    BY <1>4, <1>9, <1>10, <1>17, <1>23, <2>1, <2>4, <3>2, <4>1
            <3> QED
                BY <3>1, <3>2
        <2> QED
            BY <1>18, <1>20, <1>21, <1>22, <1>23, <2>1, <2>2, <2>3, <2>5 DEF TableTypes
    <1> QED
        BY <1>24, <1>25

BornStep(p, port, r, nodes, ports) ==
    /\ p \notin node /\ port # 0
    /\ r = BornRoot(p, port) /\ nodes = BornNodes(p, port) /\ ports = BornPorts(p, port)
    /\ node' = nodes /\ new' = ports
    /\ BornTables(p, r, nodes, ports)

\* The cells of the nodes there were, but for r, are not written.
LEMMA BornSparesOld ==
    ASSUME SailInv, NEW p \in Keys, NEW port, NEW r, NEW nodes, NEW ports,
           BornStep(p, port, r, nodes, ports), NEW d \in node
    PROVE  /\ d \in nodes /\ Covers(r, d) => d = r
           /\ IsLeaf(d, nodes) <=> IsLeaf(d, node) /\ d # r
           /\ Len(d) = Level16 /\ d # r => element'[d] = element[d]
           /\ Len(d) > Level16 => element'[At16(d)] = element[At16(d)]
           /\ Len(d) = Level24 /\ d # r => nexthop24'[element[At16(d)]][Cell24(d)]
                                               = nexthop24[element[At16(d)]][Cell24(d)]
           /\ Len(d) = KeyLength => offset24'[element[At16(d)]][Cell24(d)]
                                        = offset24[element[At16(d)]][Cell24(d)]
PROOF
    <1>1. /\ TrieInv /\ ShapeOf(node) /\ TableTypes /\ Numbers24 /\ d \in Keys /\ Len(d) \in Nat
          /\ Level16 \in Nat /\ Level24 \in Nat /\ KeyLength \in Nat
          /\ Level16 < Level24 /\ Level24 < KeyLength
        BY KeyIsSeq, Levels DEF SailInv, TrieInv, ShapeOf
    <1>2. /\ r \in node /\ r \in Keys
          /\ \/ Len(r) = Level16 /\ r = At16(p)
             \/ Len(r) = Level24 /\ r = At24(p) /\ Len(p) > Level24
          /\ Len(p) > Level16
        BY <1>1, BornRootIsLeaf DEF BornStep
    <1>3. /\ d \in nodes /\ (Covers(r, d) => d = r)
          /\ IsLeaf(d, nodes) <=> IsLeaf(d, node) /\ d # r
        BY <1>1, BornShape DEF BornStep
    <1>4. /\ Given24(p, r, nodes, ports) \/ Linked24(p, r)
          /\ Chunk24(p) \in 0 .. LEVEL24_CHUNK_NUM - 1
          /\ At16(p) \in Index16
          /\ \A i \in Index16 : element'[i] = IF i = At16(p) THEN Chunk24(p) ELSE element[i]
        BY DEF BornStep, BornTables
    <1>5. CASE Given24(p, r, nodes, ports)
        <2>1. /\ Len(r) = Level16 /\ r = At16(p) /\ Chunk24(p) = currentChunkNum24
              /\ \A m \in 0 .. LEVEL24_CHUNK_NUM - 1, i \in Index24 :
                    m # Chunk24(p) => nexthop24'[m][i] = nexthop24[m][i]
            BY <1>5 DEF Given24
        <2>2. Len(d) = Level16 /\ d # r => element'[d] = element[d]
            BY <1>1, <1>4, <2>1, Index16Keys
        <2>3. ASSUME Len(d) > Level16
              PROVE  /\ element'[At16(d)] = element[At16(d)]
                     /\ element[At16(d)] \in 0 .. LEVEL24_CHUNK_NUM - 1
                     /\ element[At16(d)] # Chunk24(p)
            <3>1. /\ At16(d) \in Index16 /\ Covers(At16(d), d)
                  /\ element[At16(d)] \in 0 .. LEVEL24_CHUNK_NUM - 1
                BY <2>3, NodeBelow16
            <3>2. At16(d) # r
                BY <1>1, <1>3, <2>1, <2>3, <3>1
            <3>3. element[At16(d)] < currentChunkNum24 /\ element[At16(d)] \in Int
                BY <1>1, <3>1 DEF Numbers24, TableTypes
            <3>4. currentChunkNum24 \in Nat
                BY <1>1 DEF TableTypes
            <3> QED
                BY <1>4, <2>1, <3>1, <3>2, <3>3, <3>4
        <2>4. ASSUME Len(d) = Level24
              PROVE  nexthop24'[element[At16(d)]][Cell24(d)] = nexthop24[element[At16(d)]][Cell24(d)]
            <3>1. Cell24(d) \in Index24 /\ Len(d) > Level16
                BY <1>1, <2>4, Cell24Of
            <3> QED
                BY <2>1, <2>3, <3>1
        <2>5. ASSUME Len(d) = KeyLength
              PROVE  offset24'[element[At16(d)]][Cell24(d)] = offset24[element[At16(d)]][Cell24(d)]
            <3>1. Cell24(d) \in Index24 /\ Len(d) > Level16
                BY <1>1, <2>5, Cell24Of
            <3>2. CASE Len(p) > Level24
                <4>1. Given32(p, ports)
                    BY <3>2 DEF BornStep, BornTables
                <4> QED
                    BY <2>3, <3>1, <4>1 DEF Given32
            <3>3. CASE ~ (Len(p) > Level24)
                <4>1. Len(p) <= Level24
                    BY <1>1, <3>3, KeyIsSeq
                <4> QED
                    BY <4>1 DEF BornStep, BornTables
            <3> QED
                BY <3>2, <3>3
        <2> QED
            BY <1>3, <2>1, <2>2, <2>3, <2>4, <2>5
    <1>6. CASE Linked24(p, r)
        <2>1. /\ Len(r) = Level24 /\ r = At24(p) /\ Len(p) > Level24
              /\ element[At16(p)] >= 0 /\ Chunk24(p) = element[At16(p)]
              /\ \A m \in 0 .. LEVEL24_CHUNK_NUM - 1, i \in Index24 :
                    m # Chunk24(p) \/ i # Cell24(p) => nexthop24'[m][i] = nexthop24[m][i]
            BY <1>6 DEF Linked24
        <2>2. /\ Len(p) \in Nat /\ Len(p) >= Level24
              /\ At16(At24(p)) = At16(p) /\ Cell24(At24(p)) = Cell24(p)
              /\ At24(r) = r
            BY <1>1, <1>2, <2>1, KeyIsSeq, At24Of, Cell24Of, CoversSelf
        <2>3. ASSUME NEW i \in Index16
              PROVE  element'[i] = element[i]
            BY <1>4, <2>1
        <2>4. Len(d) = Level16 => element'[d] = element[d]
            BY <1>1, <2>3, Index16Keys
        <2>5. Len(d) > Level16 => element'[At16(d)] = element[At16(d)]
            BY <2>3, NodeBelow16
        <2>6. ASSUME Len(d) >= Level24, d # r
              PROVE  /\ element[At16(d)] \in 0 .. LEVEL24_CHUNK_NUM - 1 /\ Cell24(d) \in Index24
                     /\ element[At16(d)] # Chunk24(p) \/ Cell24(d) # Cell24(p)
            <3>1. element[At16(d)] \in 0 .. LEVEL24_CHUNK_NUM - 1 /\ Cell24(d) \in Index24
                BY <1>1, <2>6, NodeBelow16, Cell24Of
            <3>2. ASSUME element[At16(d)] = Chunk24(p), Cell24(d) = Cell24(p)
                  PROVE  FALSE
                <4>1. element[At16(d)] = element[At16(r)] /\ Cell24(d) = Cell24(r)
                    BY <2>1, <2>2, <3>2
                <4>2. Len(r) >= Level24
                    BY <1>1, <2>1
                <4>3. At24(d) = r
                    BY <1>2, <2>2, <2>6, <4>1, <4>2, CellOfOne24
                <4>4. Covers(r, d)
                    BY <1>1, <2>6, <4>3, At24Of
                <4> QED
                    BY <1>3, <2>6, <4>4
            <3> QED
                BY <3>1, <3>2
        <2>7. ASSUME Len(d) = Level24, d # r
              PROVE  nexthop24'[element[At16(d)]][Cell24(d)] = nexthop24[element[At16(d)]][Cell24(d)]
            BY <1>1, <2>1, <2>6, <2>7
        <2>8. ASSUME Len(d) = KeyLength
              PROVE  offset24'[element[At16(d)]][Cell24(d)] = offset24[element[At16(d)]][Cell24(d)]
            <3>1. Len(d) >= Level24 /\ d # r
                BY <1>1, <2>1, <2>8
            <3>2. Given32(p, ports)
                BY <2>1 DEF BornStep, BornTables
            <3> QED
                BY <2>6, <3>1, <3>2 DEF Given32
        <2> QED
            BY <1>3, <2>4, <2>5, <2>7, <2>8
    <1> QED
        BY <1>4, <1>5, <1>6

\* The new nodes are in the chunks that p leads to.
LEMMA BornPlaces ==
    ASSUME SailInv, NEW p \in Keys, NEW port, NEW r, NEW nodes, NEW ports,
           BornStep(p, port, r, nodes, ports), NEW d \in nodes, d \notin node
    PROVE  /\ d \in Keys /\ Above(r, d) /\ Len(d) > Level16
           /\ At16(d) = At16(p) /\ element'[At16(d)] = Chunk24(p)
           /\ Len(d) = Level24 => Given24(p, r, nodes, ports) /\ Cell24(d) \in Index24
           /\ Len(d) > Level24 => /\ Len(p) > Level24 /\ Given32(p, ports)
                                  /\ At24(d) = At24(p) /\ Cell24(d) = Cell24(p)
                                  /\ Cell24(p) \in Index24
PROOF
    <1>1. /\ TrieInv /\ Len(p) \in Nat /\ \A x \in Keys : Len(x) \in Nat
          /\ Level16 \in Nat /\ Level24 \in Nat /\ Level16 < Level24
        BY KeyIsSeq, Levels DEF SailInv
    <1>2. /\ r \in Keys
          /\ \/ Len(r) = Level16 /\ r = At16(p)
             \/ Len(r) = Level24 /\ r = At24(p) /\ Len(p) > Level24
          /\ Len(p) > Level16
        BY <1>1, BornRootIsLeaf DEF BornStep
    <1>3. /\ d \in Keys /\ Above(r, d) /\ Covers(r, d)
          /\ Len(d) > Level24 => Len(p) > Level24 /\ At24(d) = At24(p)
        BY <1>1, BornNodesAre DEF BornStep, Above
    <1>4. Len(r) < Len(d) /\ Len(d) \in Nat /\ Len(r) \in Nat
        BY <1>1, <1>2, <1>3, AboveShorter
    <1>5. Len(d) > Level16 /\ At16(d) = At16(p)
        <2>1. Len(d) > Level16 /\ Len(r) >= Level16
            BY <1>1, <1>2, <1>4
        <2>2. At16(d) = At16(r)
            BY <1>2, <1>3, <2>1, At16Inherited
        <2>3. At16(r) = At16(p)
            BY <1>1, <1>2, At16Of, At24Of, CoversSelf
        <2> QED
            BY <2>1, <2>2, <2>3
    <1>6. element'[At16(d)] = Chunk24(p)
        BY <1>5 DEF BornStep, BornTables
    <1>7. ASSUME Len(d) = Level24
          PROVE  Given24(p, r, nodes, ports) /\ Cell24(d) \in Index24
        BY <1>1, <1>3, <1>4, <1>7, Cell24Of DEF BornStep, BornTables, Linked24
    <1>8. ASSUME Len(d) > Level24
          PROVE  Given32(p, ports) /\ Cell24(d) = Cell24(p) /\ Cell24(p) \in Index24
        BY <1>1, <1>3, <1>8, Cell24Of DEF BornStep, BornTables
    <1> QED
        BY <1>3, <1>5, <1>6, <1>7, <1>8

LEMMA BornNumbers ==
    ASSUME SailInv, NEW p \in Keys, NEW port, NEW r, NEW nodes, NEW ports,
           BornStep(p, port, r, nodes, ports), TrieInv', TableTypes'
    PROVE  Numbers24' /\ Numbers32'
PROOF
    <1>1. /\ TrieInv /\ ShapeOf(node) /\ TableTypes /\ Numbers24 /\ Numbers32 /\ node' = nodes
          /\ Level16 \in Nat /\ Level24 \in Nat /\ KeyLength \in Nat /\ OffsetRange \in Nat
          /\ Level16 < Level24 /\ Level24 < KeyLength /\ LEVEL24_CHUNK_NUM \in Nat
          /\ nodes \subseteq Keys /\ \A d \in Keys : Len(d) \in Nat
        BY KeyIsSeq, Levels DEF SailInv, TrieInv, ShapeOf, BornStep
    <1> DEFINE c24 == Chunk24(p)
               c32 == currentChunkNum32
    <1>2. /\ Given24(p, r, nodes, ports) \/ Linked24(p, r)
          /\ Len(p) > Level24 => Given32(p, ports)
          /\ Len(p) <= Level24 => UNCHANGED <<offset24, nexthop32, currentChunkNum32>>
          /\ c24 \in 0 .. LEVEL24_CHUNK_NUM - 1
          /\ At16(p) \in Index16
          /\ \A i \in Index16 : element'[i] = IF i = At16(p) THEN c24 ELSE element[i]
          /\ \A d \in Keys :
                chunk'[d] = IF d \in node \/ d \notin nodes THEN chunk[d]
                            ELSE IF Len(d) = Level24 THEN c24
                            ELSE IF Len(d) = KeyLength THEN c32 ELSE -1
        BY DEF BornStep, BornTables
    <1> HIDE DEF c24, c32
    <1>3. /\ \A i \in Index16 : element[i] \in Int /\ element[i] < currentChunkNum24
          /\ currentChunkNum24 \in Nat /\ c32 \in Nat
          /\ currentChunkNum32' = c32 + 1 \/ currentChunkNum32' = c32
        <2>1. c32 \in Nat /\ currentChunkNum24 \in Nat /\ element \in [Index16 -> Int]
            BY <1>1, Levels DEF TableTypes, c32
        <2>2. currentChunkNum32' = c32 + 1 \/ currentChunkNum32' = c32
            <3>1. CASE Len(p) > Level24
                BY <1>2, <3>1 DEF Given32, c32
            <3>2. CASE ~ (Len(p) > Level24)
                <4>1. Len(p) <= Level24
                    BY <1>1, <3>2
                <4> QED
                    BY <1>2, <4>1 DEF c32
            <3> QED
                BY <3>1, <3>2
        <2> QED
            BY <1>1, <2>1, <2>2 DEF Numbers24
    <1>4. ASSUME NEW i \in Index16
          PROVE  /\ i \in node
                 /\ IsLeaf(i, nodes) <=> IsLeaf(i, node) /\ i # r
        BY <1>1, Index16Keys, BornSparesOld DEF ShapeOf
    <1>5. Numbers24'
        <2>1. ASSUME NEW d \in nodes, Len(d) = Level24
              PROVE  chunk'[d] = element'[At16(d)]
            <3>1. CASE d \in node
                BY <1>1, <1>2, <2>1, <3>1, BornSparesOld DEF Numbers24
            <3>2. CASE d \notin node
                BY <1>1, <1>2, <2>1, <3>2, BornPlaces DEF c24
            <3> QED
                BY <3>1, <3>2
        <2>2. CASE Given24(p, r, nodes, ports)
            <3>1. /\ Len(r) = Level16 /\ r = At16(p) /\ element[r] < 0
                  /\ c24 = currentChunkNum24 /\ currentChunkNum24' = currentChunkNum24 + 1
                BY <2>2 DEF Given24, c24
            <3>2. \A i \in Index16 : element'[i] < 0 <=> IsLeaf(i, nodes)
                BY <1>1, <1>2, <1>3, <1>4, <3>1 DEF Numbers24
            <3>3. ASSUME NEW i \in Index16, NEW j \in Index16, element'[i] = element'[j], element'[i] >= 0
                  PROVE  i = j
                <4>1. \A m \in Index16 : element[m] < c24 /\ element[m] \in Int
                    BY <1>3, <3>1
                <4>2. CASE i # At16(p) /\ j # At16(p)
                    BY <1>1, <1>2, <3>3, <4>2 DEF Numbers24
                <4>3. CASE i = At16(p) \/ j = At16(p)
                    BY <1>2, <1>3, <3>1, <3>3, <4>1, <4>3
                <4> QED
                    BY <4>2, <4>3
            <3>4. \A i \in Index16 : element'[i] < currentChunkNum24'
                BY <1>2, <1>3, <3>1
            <3>5. currentChunkNum24' = Cardinality(Used')
                <4>1. Used' = Used \cup {At16(p)} /\ At16(p) \notin Used
                    BY <1>2, <1>3, <3>1 DEF Used
                <4>2. IsFiniteSet(Used)
                    <5>1. Used \subseteq Index16
                        BY DEF Used
                    <5> QED
                        BY <5>1, CellsOfLevel16, FS_Subset
                <4>3. Cardinality(Used \cup {At16(p)}) = Cardinality(Used) + 1
                    BY <4>1, <4>2, FS_AddElement
                <4> QED
                    BY <1>1, <3>1, <4>1, <4>3 DEF Numbers24
            <3> QED
                BY <1>1, <2>1, <3>2, <3>3, <3>4, <3>5 DEF Numbers24
        <2>3. CASE Linked24(p, r)
            <3>1. /\ Len(r) = Level24 /\ c24 = element[At16(p)]
                  /\ currentChunkNum24' = currentChunkNum24
                BY <2>3 DEF Linked24, c24
            <3>2. \A i \in Index16 : element'[i] = element[i]
                BY <1>2, <3>1
            <3>3. \A i \in Index16 : i # r
                BY <1>1, <3>1, Index16Keys
            <3>4. Used' = Used
                BY <3>2 DEF Used
            <3> QED
                BY <1>1, <1>4, <2>1, <3>1, <3>2, <3>3, <3>4 DEF Numbers24
        <2> QED
            BY <1>2, <2>2, <2>3
    <1>6. ASSUME NEW d \in nodes, Len(d) = KeyLength
          PROVE  /\ chunk'[d] \in 0 .. currentChunkNum32' - 1
                 /\ chunk'[d] % OffsetRange = offset24'[element'[At16(d)]][Cell24(d)]
                 /\ d \in node => chunk'[d] = chunk[d] /\ chunk[d] < c32
                 /\ d \notin node => chunk'[d] = c32 /\ At24(d) = At24(p)
        <2>1. d \in Keys /\ Len(d) > Level16 /\ Len(d) > Level24 /\ Len(d) # Level24
            BY <1>1, <1>6
        <2>2. CASE d \in node
            <3>1. /\ chunk[d] \in 0 .. c32 - 1
                  /\ chunk[d] % OffsetRange = offset24[element[At16(d)]][Cell24(d)]
                BY <1>1, <1>6, <2>2 DEF Numbers32, c32
            <3>2. /\ element'[At16(d)] = element[At16(d)]
                  /\ offset24'[element[At16(d)]][Cell24(d)] = offset24[element[At16(d)]][Cell24(d)]
                BY <1>6, <2>1, <2>2, BornSparesOld
            <3>3. chunk'[d] = chunk[d]
                BY <1>2, <2>1, <2>2
            <3> QED
                BY <1>3, <2>2, <3>1, <3>2, <3>3
        <2>3. CASE d \notin node
            <3>1. /\ element'[At16(d)] = c24 /\ Given32(p, ports) /\ At24(d) = At24(p)
                  /\ Cell24(d) = Cell24(p) /\ Cell24(p) \in Index24
                BY <2>1, <2>3, BornPlaces DEF c24
            <3>2. chunk'[d] = c32
                BY <1>2, <1>6, <2>1, <2>3
            <3>3. /\ offset24'[c24][Cell24(p)] = c32 % OffsetRange
                  /\ currentChunkNum32' = c32 + 1
                BY <1>2, <3>1 DEF Given32, c24, c32
            <3> QED
                BY <1>3, <2>3, <3>1, <3>2, <3>3
        <2> QED
            BY <2>2, <2>3
    <1>7. ASSUME NEW d \in nodes, NEW e \in nodes, Len(d) = KeyLength, Len(e) = KeyLength,
                 chunk'[d] = chunk'[e]
          PROVE  At24(d) = At24(e)
        <2>1. \A x \in node : Len(x) = KeyLength => chunk[x] \in Int
            BY <1>1, <1>3 DEF Numbers32, c32
        <2>2. CASE d \in node /\ e \in node
            BY <1>1, <1>6, <1>7, <2>2 DEF Numbers32
        <2>3. CASE ~ (d \in node /\ e \in node)
            BY <1>3, <1>6, <1>7, <2>1, <2>3
        <2> QED
            BY <2>2, <2>3
    <1>8. Numbers32'
        BY <1>1, <1>6, <1>7 DEF Numbers32
    <1> QED
        BY <1>5, <1>8

LEMMA BornCells ==
    ASSUME SailInv, NEW p \in Keys, NEW port \in Port, NEW r, NEW nodes, NEW ports,
           BornStep(p, port, r, nodes, ports), TrieInv', TableTypes'
    PROVE  CellsRight'
PROOF
    <1>1. /\ TrieInv /\ ShapeOf(node) /\ ShapeOf(nodes) /\ TableTypes /\ Numbers32 /\ CellsRight
          /\ node' = nodes /\ new' = ports /\ r \in node /\ r \in Keys
          /\ Level16 \in Nat /\ Level24 \in Nat /\ KeyLength \in Nat
          /\ Level16 < Level24 /\ Level24 < KeyLength
          /\ nodes \subseteq Keys /\ node \subseteq nodes /\ \A d \in Keys : Len(d) \in Nat
        <2>1. /\ node' = nodes /\ new' = ports /\ p \notin node
              /\ r = BornRoot(p, port) /\ nodes = BornNodes(p, port)
            BY DEF BornStep
        <2>2. TrieInv /\ ShapeOf(node) /\ TableTypes /\ Numbers32 /\ CellsRight
            BY DEF SailInv, TrieInv
        <2>3. ShapeOf(nodes) /\ node \subseteq nodes /\ r \in node /\ r \in Keys
            BY <2>1, <2>2, BornShape, BornRootIsLeaf
        <2> QED
            BY <2>1, <2>2, <2>3, KeyIsSeq, Levels DEF ShapeOf
    <1>2. ASSUME NEW d \in node, IsLeaf(d, node), d # r
          PROVE  ports[d] = new[d]
        <2>1. /\ p \notin node /\ r = BornRoot(p, port)
              /\ nodes = BornNodes(p, port) /\ ports = BornPorts(p, port)
            BY DEF BornStep
        <2>2. TrieInv /\ p \notin node
            BY <1>1, <2>1
        <2>3. \A x \in node : IsLeaf(x, node) /\ x # BornRoot(p, port)
                              => BornPorts(p, port)[x] = new[x]
            BY <2>2, BornPortsOf, Zenon
        <2> QED
            BY <1>2, <2>1, <2>3
    <1>3. /\ Given24(p, r, nodes, ports) \/ Linked24(p, r)
          /\ Chunk24(p) \in 0 .. LEVEL24_CHUNK_NUM - 1
          /\ At16(p) \in Index16
          /\ element'[At16(p)] = Chunk24(p)
          /\ touched' = {q \in touched : ~ Covers(r, q)}
        BY DEF BornStep, BornTables
    <1>4. /\ currentChunkNum32 \in 0 .. LEVEL32_CHUNK_NUM /\ LEVEL32_CHUNK_NUM \in Nat
          /\ currentChunkNum32 <= currentChunkNum32'
        <2>1. currentChunkNum32 \in 0 .. LEVEL32_CHUNK_NUM /\ LEVEL32_CHUNK_NUM \in Nat
            BY <1>1, Levels DEF TableTypes
        <2>2. CASE Len(p) > Level24
            BY <2>1, <2>2 DEF BornStep, BornTables, Given32
        <2>3. CASE ~ (Len(p) > Level24)
            <3>1. Len(p) <= Level24
                BY <1>1, <2>3
            <3> QED
                BY <2>1, <3>1 DEF BornStep, BornTables
        <2> QED
            BY <2>1, <2>2, <2>3
    <1>5. touched' \subseteq nodes /\ touched' \subseteq Prefix
        BY <1>1, <1>3 DEF CellsRight
    \* A new node of level 24 has its cell in the chunk that Row24 fills.
    <1>6. ASSUME NEW d \in nodes, d \notin node, Len(d) = Level24
          PROVE  nexthop24'[element'[At16(d)]][Cell24(d)] = IF IsLeaf(d, nodes) THEN ports[d] ELSE 0
        <2>1. /\ d \in Keys /\ At16(d) = At16(p) /\ element'[At16(d)] = Chunk24(p)
              /\ Given24(p, r, nodes, ports) /\ Cell24(d) \in Index24
            BY <1>6, BornPlaces
        <2>2. nexthop24'[Chunk24(p)][Cell24(d)] = Row24(p, nodes, ports)[Cell24(d)]
            BY <1>3, <2>1 DEF Given24
        <2>3. At16(p) \in Keys /\ Len(At16(p)) = Level16
            BY <1>3, Index16Keys
        <2>4. At16(p) \o Cell24(d) = d
            BY <1>6, <2>1, <2>3, Row24Of
        <2> QED
            BY <2>1, <2>2, <2>4 DEF Row24
    <1>7. ASSUME NEW d \in nodes, Len(d) = Level24, ~ IsLeaf(d, nodes)
          PROVE  nexthop24'[element'[At16(d)]][Cell24(d)] = 0
        <2>1. CASE d \notin node
            BY <1>6, <1>7, <2>1
        <2>2. CASE d \in node /\ d # r
            <3>1. /\ element'[At16(d)] = element[At16(d)] /\ ~ IsLeaf(d, node)
                  /\ nexthop24'[element[At16(d)]][Cell24(d)] = nexthop24[element[At16(d)]][Cell24(d)]
                BY <1>1, <1>7, <2>2, BornSparesOld
            <3> QED
                BY <1>1, <1>7, <2>2, <3>1 DEF CellsRight
        <2>3. CASE d = r
            <3>1. /\ Linked24(p, r)
                BY <1>1, <1>3, <1>7, <2>3 DEF Given24
            <3>2. r = At24(p) /\ Len(p) > Level24 /\ Len(p) \in Nat
                BY <1>1, <3>1 DEF Linked24
            <3>3. At16(r) = At16(p) /\ Cell24(r) = Cell24(p) /\ Cell24(p) \in Index24
                BY <1>1, <3>2, At24Of, Cell24Of
            <3> QED
                BY <1>3, <2>3, <3>1, <3>3 DEF Linked24
        <2> QED
            BY <2>1, <2>2, <2>3
    <1>8. ASSUME NEW d \in nodes, IsLeaf(d, nodes), \A q \in touched' : ~ Covers(q, d),
                 currentChunkNum32' <= OffsetRange
          PROVE  CellOf(d)' = ports[d]
        <2>1. /\ Len(d) \in {Level16, Level24, KeyLength} /\ d \in Keys
              /\ currentChunkNum32 <= OffsetRange
            <3>1. Len(d) \in {Level16, Level24, KeyLength} /\ d \in Keys
                BY <1>1, <1>8, LeafLevels
            <3>2. currentChunkNum32' \in Nat /\ OffsetRange \in Nat
                BY Levels DEF TableTypes
            <3> QED
                BY <1>4, <1>8, <3>1, <3>2
        <2>2. CASE d \in node
            <3>1. IsLeaf(d, node) /\ d # r
                BY <1>8, <2>2, BornSparesOld
            <3>2. ASSUME NEW q \in touched, Covers(q, d)
                  PROVE  FALSE
                <4>1. Covers(r, q) /\ q \in Keys
                    BY <1>1, <1>3, <1>8, <3>2 DEF CellsRight
                <4>2. Covers(r, d)
                    BY <1>1, <2>1, <3>2, <4>1, CoversTransitive
                <4> QED
                    BY <2>2, <3>1, <4>2, BornSparesOld
            <3>3. CellOf(d) = ports[d]
                <4>1. CellOf(d) = new[d]
                    BY <1>1, <2>1, <2>2, <3>1, <3>2 DEF CellsRight
                <4> QED
                    BY <1>2, <2>2, <3>1, <4>1
            <3>4. CASE Len(d) = Level16
                <4>1. element'[d] = element[d]
                    BY <2>2, <3>1, <3>4, BornSparesOld
                <4> QED
                    BY <3>3, <3>4, <4>1 DEF CellOf
            <3>5. CASE Len(d) = Level24
                <4>1. /\ Len(d) # Level16 /\ Len(d) > Level16
                    BY <1>1, <3>5
                <4>2. /\ element'[At16(d)] = element[At16(d)]
                      /\ nexthop24'[element[At16(d)]][Cell24(d)] = nexthop24[element[At16(d)]][Cell24(d)]
                    BY <2>2, <3>1, <3>5, <4>1, BornSparesOld
                <4> QED
                    BY <3>3, <3>5, <4>1, <4>2 DEF CellOf
            <3>6. CASE Len(d) = KeyLength
                <4>1. Len(d) # Level16 /\ Len(d) # Level24 /\ Len(d) > Level16
                    BY <1>1, <3>6
                <4> DEFINE k == offset24[element[At16(d)]][Cell24(d)]
                <4>2. offset24'[element'[At16(d)]][Cell24(d)] = k
                    BY <2>2, <3>6, <4>1, BornSparesOld
                <4>3. /\ k \in 0 .. LEVEL32_CHUNK_NUM - 1
                      /\ k = chunk[d] /\ chunk[d] \in 0 .. currentChunkNum32 - 1
                    BY <2>1, <2>2, <3>6, ChunkOf32
                <4>4. CellOf(d) = nexthop32[k][Cell32(d)] /\ CellOf(d)' = nexthop32'[k][Cell32(d)]
                    BY <4>1, <4>2 DEF CellOf
                <4> HIDE DEF k
                <4>5. k # currentChunkNum32
                    BY <1>4, <4>3
                <4>6. nexthop32'[k] = nexthop32[k]
                    <5>1. CASE Len(p) > Level24
                        BY <4>3, <4>5, <5>1 DEF BornStep, BornTables, Given32
                    <5>2. CASE ~ (Len(p) > Level24)
                        <6>1. Len(p) <= Level24
                            BY <1>1, <5>2
                        <6> QED
                            BY <6>1 DEF BornStep, BornTables
                    <5> QED
                        BY <5>1, <5>2
                <4> QED
                    BY <3>3, <4>4, <4>6
            <3> QED
                BY <2>1, <3>4, <3>5, <3>6
        <2>3. CASE d \notin node
            <3>1. Len(d) > Level16 /\ Len(d) # Level16
                BY <1>1, <1>8, <2>1, <2>3, BornPlaces
            <3>2. CASE Len(d) = Level24
                BY <1>6, <1>8, <2>3, <3>1, <3>2 DEF CellOf
            <3>3. CASE Len(d) = KeyLength
                <4>1. Len(d) > Level24 /\ Len(d) # Level24
                    BY <1>1, <3>3
                <4>2. /\ element'[At16(d)] = Chunk24(p) /\ Len(p) > Level24 /\ Given32(p, ports)
                      /\ At24(d) = At24(p) /\ Cell24(d) = Cell24(p) /\ Cell24(p) \in Index24
                    BY <1>8, <2>3, <4>1, BornPlaces
                <4>3. offset24'[Chunk24(p)][Cell24(p)] = currentChunkNum32 % OffsetRange
                    BY <1>3, <4>2 DEF Given32
                <4>4. /\ currentChunkNum32 \in Nat /\ currentChunkNum32 < OffsetRange
                      /\ currentChunkNum32 \in 0 .. LEVEL32_CHUNK_NUM - 1
                    BY <1>4, <1>8, <4>2, Levels DEF Given32
                <4>5. currentChunkNum32 % OffsetRange = currentChunkNum32
                    BY <4>4, Truncated
                <4>6. nexthop32'[currentChunkNum32] = Row32(p, ports)
                    BY <4>2, <4>4 DEF Given32
                <4>7. CellOf(d)' = Row32(p, ports)[Cell32(d)]
                    BY <3>1, <4>1, <4>2, <4>3, <4>5, <4>6 DEF CellOf
                <4>8. Cell32(d) \in Index32
                    BY <2>1, <3>3, Cell32Of
                <4>9. At24(p) \o Cell32(d) = d
                    <5>1. At24(d) \in Keys /\ Len(At24(d)) = Level24
                        BY <1>1, <2>1, <4>1, At24Of
                    <5> QED
                        BY <2>1, <3>3, <4>2, <4>8, <5>1, Row32Of
                <4> QED
                    BY <4>7, <4>8, <4>9 DEF Row32
            <3> QED
                BY <2>1, <3>1, <3>2, <3>3
        <2> QED
            BY <2>2, <2>3
    <1> QED
        BY <1>1, <1>5, <1>7, <1>8 DEF CellsRight

LEMMA BornKeepsTables ==
    ASSUME SailInv, NEW p \in Keys, NEW port \in Port, AnnounceBorn(p, port)
    PROVE  SailInv'
PROOF
    <1> DEFINE r     == BornRoot(p, port)
               nodes == BornNodes(p, port)
               ports == BornPorts(p, port)
    <1>1. TrieInv'
        BY BornKeepsTrie DEF SailInv
    <1>2. BornTables(p, r, nodes, ports) /\ TableTypes'
        BY BornWrites
    <1>3. BornStep(p, port, r, nodes, ports)
        <2>1. p \notin node /\ node' = nodes /\ new' = ports
            BY DEF AnnounceBorn, BornNodes, BornPorts, BornRoot, BornSeed
        <2>2. port # 0
            BY SailAssumption, Levels
        <2> QED
            BY <1>2, <2>1, <2>2 DEF BornStep
    <1> HIDE DEF r, nodes, ports
    <1> QED
        BY <1>1, <1>2, <1>3, BornNumbers, BornCells DEF SailInv

----------------------------------------------------------------------------
(* The tables of every behaviour *)

LEMMA NextTables == SailInv /\ [Next]_vars => SailInv'
PROOF
    <1> SUFFICES ASSUME SailInv, [Next]_vars
                 PROVE  SailInv'
        OBVIOUS
    <1>1. CASE UNCHANGED vars
        <2>1. /\ node' = node /\ old' = old /\ new' = new /\ chunk' = chunk /\ touched' = touched
              /\ element' = element /\ nexthop24' = nexthop24 /\ offset24' = offset24
              /\ nexthop32' = nexthop32
              /\ currentChunkNum24' = currentChunkNum24 /\ currentChunkNum32' = currentChunkNum32
            BY <1>1 DEF vars, trie, tables, counts
        <2>2. TrieInv'
            BY <2>1 DEF SailInv, TrieInv, PortTypes
        <2>3. Used' = Used /\ (TableTypes /\ Numbers24 /\ Numbers32 /\ CellsRight)
            BY <2>1 DEF Used, SailInv
        <2>4. TableTypes' /\ Numbers24' /\ Numbers32'
            BY <2>1, <2>3 DEF TableTypes, Numbers24, Numbers32
        <2>5. CellsRight'
            BY <2>1, <2>3 DEF CellsRight, CellOf
        <2> QED
            BY <2>2, <2>4, <2>5 DEF SailInv
    <1>2. ASSUME NEW a \in Announced, AnnounceBorn(a[1], a[2])
          PROVE  SailInv'
        BY <1>2, BornKeepsTables, SailAssumption
    <1>3. ASSUME NEW a \in Announced, AnnounceLeaf(a[1], a[2])
          PROVE  SailInv'
        BY <1>3, LeafKeepsTables, SailAssumption
    <1>4. ASSUME NEW a \in Announced, AnnounceInner(a[1], a[2]) \/ AnnounceChange(a[1], a[2])
          PROVE  SailInv'
        <2>1. /\ a[1] \in node /\ a[1] \in Prefix /\ a[2] \in Port /\ Subtree(a[1], a[2], a[2])
            BY <1>4, SailAssumption DEF AnnounceInner, AnnounceChange
        <2>2. TrieInv'
            BY <2>1, ChangeKeepsTrie DEF SailInv
        <2> QED
            BY <2>1, <2>2, SubtreeKeepsTables
    <1>5. ASSUME NEW p \in Prefix, Withdraw(p)
          PROVE  SailInv'
        <2>1. TrieInv'
            BY <1>5, WithdrawKeepsTrie, SailAssumption DEF SailInv
        <2>2. PICK port, route : p \in node /\ Subtree(p, port, route)
            BY <1>5 DEF Withdraw
        <2> QED
            BY <2>1, <2>2, SubtreeKeepsTables
    <1>6. ASSUME NEW p \in Prefix, Ignored(p)
          PROVE  SailInv'
        BY <1>1, <1>6 DEF Ignored
    <1> QED
        BY <1>1, <1>2, <1>3, <1>4, <1>5, <1>6 DEF Next

LEMMA SailInvariant == Spec => []SailInv
PROOF
    BY InitTables, NextTables, PTL DEF Spec

\* Ports and cells keep their types, and the trie and the tables hold only chunk
\* numbers that have been given out.
THEOREM TypeCorrect == Spec => []TypeOK
PROOF
    <1>1. ASSUME SailInv
          PROVE  TypeOK
        <2>1. /\ node \subseteq Keys /\ old \in [Keys -> PortOrNone] /\ new \in [Keys -> PortOrNone]
              /\ TableTypes /\ Numbers24 /\ touched \subseteq Prefix
            BY <1>1 DEF SailInv, TrieInv, ShapeOf, PortTypes, CellsRight
        <2>2. ASSUME NEW d \in Keys
              PROVE  chunk[d] \in -1 .. IF Len(d) = KeyLength THEN currentChunkNum32 - 1
                                        ELSE currentChunkNum24 - 1
            <3>1. /\ chunk[d] \in Int /\ chunk[d] >= -1
                  /\ Len(d) = KeyLength => chunk[d] < currentChunkNum32
                  /\ Len(d) # KeyLength => chunk[d] < currentChunkNum24
                  /\ currentChunkNum24 \in Int
                BY <2>1 DEF TableTypes
            <3>2. currentChunkNum32 \in Int
                BY <2>1, Levels DEF TableTypes
            <3> QED
                BY <3>1, <3>2
        <2>3. element \in [Index16 -> -PORT_MAX .. LEVEL24_CHUNK_NUM - 1]
            <3>1. element \in [Index16 -> Int] /\ LEVEL24_CHUNK_NUM \in Nat /\ PORT_MAX \in Nat
                BY <2>1, Levels DEF TableTypes
            <3>2. \A i \in Index16 : - PORT_MAX <= element[i] /\ element[i] < LEVEL24_CHUNK_NUM
                BY <2>1, ChunkInTable DEF TableTypes
            <3> QED
                BY <3>1, <3>2
        <2>4. /\ \A c \in DOMAIN nexthop24 : /\ nexthop24[c] \in [Index24 -> PortOrNone]
                                             /\ offset24[c] \in [Index24 -> 0 .. OffsetRange - 1]
              /\ \A c \in DOMAIN nexthop32 : nexthop32[c] \in [Index32 -> PortOrNone]
            BY <2>1 DEF TableTypes
        <2> QED
            BY <2>1, <2>2, <2>3, <2>4 DEF TypeOK
    <1> QED
        BY <1>1, SailInvariant, PTL

\* The chunk tests of checkTable (Fib.cpp:1145-1187) succeed after every update:
\* trie and tables name the same chunks, no chunk has two owners, and a node of
\* level 16 has one exactly if it is inner.
THEOREM ChunksAlwaysAgree == Spec => []ChunksAgree
PROOF
    <1>1. ASSUME SailInv
          PROVE  ChunksAgree
        BY <1>1 DEF SailInv, Numbers24, Numbers32, ChunksAgree
    <1> QED
        BY <1>1, SailInvariant, PTL

\* No chunk of levelTable24 is lost: as many are given out as level 16 has inner
\* nodes.  So the chunks last if there are 2^Level16 of them (the code has 25000 for
\* 2^16 nodes, and a test, Fib.cpp:907, that only prints).
THEOREM ChunksCounted ==
    Spec => [](/\ currentChunkNum24 = Cardinality({i \in Index16 : ~ IsLeaf(i, node)})
               /\ currentChunkNum24 <= 2^Level16)
PROOF
    <1>1. ASSUME SailInv
          PROVE  /\ currentChunkNum24 = Cardinality({i \in Index16 : ~ IsLeaf(i, node)})
                 /\ currentChunkNum24 <= 2^Level16
        <2>1. /\ currentChunkNum24 = Cardinality(Used) /\ element \in [Index16 -> Int]
              /\ \A i \in Index16 : element[i] < 0 <=> IsLeaf(i, node)
            BY <1>1 DEF SailInv, Numbers24, TableTypes
        <2>2. Used = {i \in Index16 : ~ IsLeaf(i, node)}
            BY <2>1 DEF Used
        <2>3. Cardinality(Used) <= Cardinality(Index16)
            <3>1. Used \in SUBSET Index16
                BY DEF Used
            <3> QED
                BY <3>1, CellsOfLevel16, FS_Subset
        <2>4. Cardinality(Used) <= 2^Level16
            BY <2>3, CellsOfLevel16
        <2> QED
            BY <2>1, <2>2, <2>4
    <1> QED
        BY <1>1, SailInvariant, PTL

\* As long as the chunk numbers of levelTable32 fit into offset24, sailLookup gives
\* every address the trie's port, unless the prefix of an update that did not write
\* its cell covers it.
THEOREM TablesFreshUntilTouched == Spec => []FreshTables
PROOF
    <1>1. ASSUME SailInv
          PROVE  FreshTables
        <2> SUFFICES ASSUME currentChunkNum32 <= OffsetRange,
                            NEW a \in Address, \A p \in touched : ~ Covers(p, a)
                     PROVE  sailLookup(a) = FindFibTrieNextHop(a)
            BY DEF FreshTables
        <2>1. /\ a \in Keys /\ Len(a) = KeyLength /\ TrieInv /\ ShapeOf(node) /\ node \subseteq Keys
              /\ Numbers24 /\ CellsRight /\ TableTypes
              /\ Level16 \in Nat /\ Level24 \in Nat /\ KeyLength \in Nat
              /\ Level16 < Level24 /\ Level24 < KeyLength
              /\ Len(a) >= Level16 /\ Len(a) >= Level24
            BY <1>1, AddressKeys, Levels DEF SailInv, TrieInv, ShapeOf
        <2>2. PICK d \in node : IsLeaf(d, node) /\ Covers(d, a)
            BY <2>1, LeafOnWay
        <2>3. FindFibTrieNextHop(a) = new[d] /\ new[d] # 0
            BY <2>1, <2>2, LookupEndsAtLeaf
        <2>4. /\ d \in Keys /\ Len(d) \in {Level16, Level24, KeyLength}
              /\ CellOf(d) = new[d]
            <3>1. d \in Keys /\ Len(d) \in {Level16, Level24, KeyLength}
                BY <2>1, <2>2, LeafLevels
            <3>2. \A q \in touched : ~ Covers(q, d)
                <4>1. \A q \in touched : q \in Keys
                    BY <2>1 DEF CellsRight
                <4> QED
                    BY <2>1, <2>2, <3>1, <4>1, CoversTransitive
            <3> QED
                BY <2>1, <2>2, <3>1, <3>2 DEF CellsRight
        <2>5. CASE Len(d) = Level16
            <3>1. d = At16(a) /\ d \in Index16
                BY <2>1, <2>2, <2>4, <2>5, At16Of, Index16Keys
            <3>2. element[d] < 0
                BY <2>1, <2>2, <3>1 DEF Numbers24
            <3>3. CellOf(d) = - element[d]
                BY <2>5 DEF CellOf
            <3> QED
                BY <2>3, <2>4, <3>1, <3>2, <3>3 DEF sailLookup
        <2>6. ASSUME Len(d) > Level16
              PROVE  /\ ~ (element[At16(a)] < 0) /\ At16(d) = At16(a)
            <3>1. At16(d) = At16(a)
                BY <2>1, <2>2, <2>4, <2>6, At16Inherited
            <3>2. element[At16(d)] \in 0 .. LEVEL24_CHUNK_NUM - 1
                BY <1>1, <2>6, NodeBelow16
            <3> QED
                BY <3>1, <3>2, Levels
        <2>7. CASE Len(d) = Level24
            <3>1. d = At24(a) /\ Cell24(d) = Cell24(a)
                BY <2>1, <2>2, <2>4, <2>7, At24Of, Cell24Of
            <3>2. ~ (element[At16(a)] < 0) /\ At16(d) = At16(a) /\ Len(d) # Level16
                BY <2>1, <2>6, <2>7
            <3>3. new[d] = nexthop24[element[At16(a)]][Cell24(a)]
                BY <2>4, <2>7, <3>1, <3>2 DEF CellOf
            <3> QED
                BY <2>3, <3>2, <3>3 DEF sailLookup
        <2>8. CASE Len(d) = KeyLength
            <3>1. d = a
                BY <2>1, <2>2, <2>4, <2>8, SameLengthSame
            <3>2. /\ ~ (element[At16(a)] < 0) /\ Len(d) > Level24 /\ Len(d) # Level16 /\ Len(d) # Level24
                BY <2>1, <2>6, <2>8
            <3>3. /\ At24(d) \in node /\ ~ IsLeaf(At24(d), node) /\ Len(At24(d)) = Level24
                  /\ At16(At24(d)) = At16(d) /\ Cell24(At24(d)) = Cell24(d)
                BY <1>1, <3>2, NodeBelow24
            <3>4. nexthop24[element[At16(a)]][Cell24(a)] = 0
                BY <2>1, <3>1, <3>3 DEF CellsRight
            <3>5. new[d] = nexthop32[offset24[element[At16(a)]][Cell24(a)]][Cell32(a)]
                BY <2>4, <3>1, <3>2 DEF CellOf
            <3> QED
                BY <2>3, <3>2, <3>4, <3>5 DEF sailLookup
        <2> QED
            BY <2>4, <2>5, <2>7, <2>8
    <1> QED
        BY <1>1, SailInvariant, PTL

=============================================================================
