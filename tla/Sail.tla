-------------------------------- MODULE Sail --------------------------------
(***************************************************************************)
(* The SAIL forwarding table (modified_sail/Fib.cpp): a binary trie whose  *)
(* leaves are pushed down to three levels (16, 24 and 32 in the code), and *)
(* the tables of those levels that sailLookup reads instead of the trie.   *)
(*                                                                         *)
(* A trie node is its bit sequence.  old[d] is oldPort, the route set at d *)
(* (0: none), new[d] is newPort, the port a lookup that ends at d returns  *)
(* (0: none), chunk[d] is chunkID, kept for the nodes of the two lower     *)
(* levels; at level 16 it only repeats the upper bits of the prefix.       *)
(* levelTable16 holds a negated port or the number of a chunk of           *)
(* levelTable24, whose cells are a port (nexthop24), or 0 and the number of*)
(* a chunk of levelTable32 (offset24).                                     *)
(*                                                                         *)
(* The scratch arrays of Update are left out: subTrieChunkUpdate fills     *)
(* them, and Update returns before the code that would copy them back.     *)
(***************************************************************************)
EXTENDS BitStrings

CONSTANTS
    Level16, Level24,     \* the upper two levels; the lowest is KeyLength
    MinLength,            \* shorter prefixes are refused (8 in the code)
    Prefix,               \* the prefixes of the updates
    Port,                 \* the ports of the updates
    Announced,            \* the pairs <<p, port>> that may be announced
    PORT_MAX,             \* the port of the root (255)
    LEVEL24_CHUNK_NUM,    \* chunks of levelTable24 (25000)
    LEVEL32_CHUNK_NUM,    \* chunks of levelTable32 (1000000)
    OffsetRange           \* values of an unsigned short, the type of offset24

ASSUME SailAssumption ==
    /\ {Level16, Level24, MinLength, PORT_MAX, OffsetRange} \subseteq Nat
    /\ {LEVEL24_CHUNK_NUM, LEVEL32_CHUNK_NUM} \subseteq Nat
    /\ 0 < Level16 /\ Level16 < Level24 /\ Level24 < KeyLength
    /\ MinLength > 0
    /\ Prefix \subseteq Keys
    /\ Port \subseteq 1 .. PORT_MAX /\ PORT_MAX > 0
    /\ Announced \subseteq Prefix \X Port
    /\ OffsetRange > 0

VARIABLES
    node,                                    \* the nodes of the trie
    old, new, chunk,
    element,                                 \* levelTable16
    nexthop24, offset24,                     \* levelTable24
    nexthop32,                               \* levelTable32
    currentChunkNum24, currentChunkNum32,    \* chunks given out
    touched                                  \* prefixes whose cells are older than the trie (history)

trie   == <<node, old, new, chunk>>
tables == <<element, nexthop24, offset24, nexthop32>>
counts == <<currentChunkNum24, currentChunkNum32>>
vars   == <<trie, tables, counts, touched>>

Address == [1 .. KeyLength -> Bit]
Index16 == [1 .. Level16 -> Bit]
Index24 == [1 .. Level24 - Level16 -> Bit]
Index32 == [1 .. KeyLength - Level24 -> Bit]
PortOrNone == 0 .. PORT_MAX

At16(d)   == SubSeq(d, 1, Level16)
At24(d)   == SubSeq(d, 1, Level24)
Cell24(d) == SubSeq(d, Level16 + 1, Level24)
Cell32(d) == SubSeq(d, Level24 + 1, KeyLength)

IsLeaf(d, nodes) == d \o <<0>> \notin nodes /\ d \o <<1>> \notin nodes

\* The last node on the way to d that has a port in f.  The root always has a route.
Nearest(d, f) ==
    CHOOSE y \in PathTo(d) : f[y] # 0 /\ \A z \in PathTo(d) : f[z] # 0 => Len(z) <= Len(y)

----------------------------------------------------------------------------
(* Level pushing *)

\* Mutant: only left children are filled in.
CompletedLeft(nodes, r) ==
    nodes \cup {x \in Keys : /\ Above(r, x) /\ x[Len(x)] = 0
                             /\ \E y \in nodes : Above(r, y) /\ (Len(y) > Level24 <=> Len(x) > Level24)
                                                 /\ (Len(x) > Level24 => Covers(At24(x), y))}

\* subTrieLevelPushing below r fills every segment between two levels that it
\* enters: a segment is entered where its top node has a child.
Completed(nodes, r) ==
    nodes \cup {x \in Keys : /\ Above(r, x)
                             /\ \E y \in nodes : /\ Above(r, y)
                                                 /\ Len(y) > Level24 <=> Len(x) > Level24
                                                 /\ Len(x) > Level24 => Covers(At24(x), y)}

\* It moves the ports of the inner nodes to the leaves below them.
Pushed(nodes, r, f) ==
    [x \in Keys |-> IF x \notin nodes \/ ~ Covers(r, x) THEN f[x]
                    ELSE IF IsLeaf(x, nodes) THEN f[Nearest(x, f)] ELSE 0]

\* The chunk numbers of the new nodes of the two lower levels.
Numbered(nodes, c24, c32) ==
    [x \in Keys |-> IF x \in node \/ x \notin nodes THEN chunk[x]
                    ELSE CASE Len(x) = Level24 -> c24
                           [] Len(x) = KeyLength -> c32
                           [] OTHER -> -1]

----------------------------------------------------------------------------
(* Updating the subtree of an existing node *)

\* Mutant: longer routes below are overwritten.
SubTrieUpdateAll(p, port, f) ==
    [x \in Keys |-> IF x \in node /\ Covers(p, x)
                    THEN IF IsLeaf(x, node) THEN port ELSE 0
                    ELSE new[x]]

\* subTrieUpdate: the leaves below p that no longer route of f lies above get
\* the port.
SubTrieUpdate(p, port, f) ==
    [x \in Keys |->
        IF x \in node /\ Covers(p, x) /\ \A y \in PathTo(x) : Above(p, y) => f[y] = 0
        THEN IF IsLeaf(x, node) THEN port ELSE 0
        ELSE new[x]]

----------------------------------------------------------------------------
(* Update *)

Init ==
    /\ node = {d \in Keys : Len(d) <= Level16}
    /\ old = [d \in Keys |-> IF d = <<>> THEN PORT_MAX ELSE 0]
    /\ new = [d \in Keys |-> IF Len(d) = Level16 THEN PORT_MAX ELSE 0]
    /\ chunk = [d \in Keys |-> -1]
    /\ element = [i \in Index16 |-> - PORT_MAX]
    /\ nexthop24 = [c \in 0 .. LEVEL24_CHUNK_NUM - 1 |-> [i \in Index24 |-> 0]]
    /\ offset24 = [c \in 0 .. LEVEL24_CHUNK_NUM - 1 |-> [i \in Index24 |-> 0]]
    /\ nexthop32 = [c \in 0 .. LEVEL32_CHUNK_NUM - 1 |-> [i \in Index32 |-> 0]]
    /\ currentChunkNum24 = 0
    /\ currentChunkNum32 = 0
    /\ touched = {}

\* touched are the prefixes that were changed, withdrawn or inserted at an inner
\* node, and whose cells nothing has written since.

\* A prefix that is too short, an announcement of the port the route has, or a
\* withdrawal of a route that does not exist.
Ignored(p) ==
    /\ \/ Len(p) < MinLength
       \/ p \in node /\ old[p] \in Port
       \/ old[p] = 0
    /\ UNCHANGED vars

\* Where the pushing of a new node starts: the leaf of level 16 or 24 above it.
PushRoot(p, f) ==
    CASE f[At16(p)] # 0 -> At16(p)
      [] f[At16(p)] = 0 /\ Len(p) >= Level24 /\ f[At24(p)] # 0 -> At24(p)
      [] OTHER -> p

\* The cells that pushing writes to the scratch chunk of a level.
Row24(p, nodes, f) ==
    [i \in Index24 |-> IF IsLeaf(At16(p) \o i, nodes) THEN f[At16(p) \o i] ELSE 0]
Row32(p, f) == [i \in Index32 |-> f[At24(p) \o i]]

\* Mutant: the chunk is not counted.
NextChunkSame(n, given) == n
\* A chunk number given out is counted.
NextChunk(n, given) == IF given THEN n + 1 ELSE n

\* Mutant: a node of level 16 always gets a chunk of its own.
Chunk24New(p) == currentChunkNum24
Chunk24(p) == IF element[At16(p)] < 0 THEN currentChunkNum24 ELSE element[At16(p)]

\* Mutant: the old port of the cell stays.
LinkedOver(p, c24, t) == t
\* The cell of p in levelTable24 leads to a chunk of levelTable32.
Linked(p, c24, t) == [t EXCEPT ![c24][Cell24(p)] = 0]

\* An announcement that creates nodes below level 16 (IfNewBornNode).  born16 and
\* born24 say in which segments: NB_16, NB_24 or NB_BOTH.  Beyond the last chunk of a
\* table, where the code prints a message and goes on, the model has no step.
AnnounceBorn(p, port) ==
    /\ Len(p) >= MinLength
    /\ p \notin node
    /\ LET born16 == SubSeq(p, 1, Level16 + 1) \notin node
           born24 == Len(p) > Level24 /\ SubSeq(p, 1, Level24 + 1) \notin node
           c24    == Chunk24(p)
           c32    == currentChunkNum32
           f      == [new EXCEPT ![p] = port]
           r      == PushRoot(p, f)
           nodes  == Completed(node \cup PathTo(p), r)
           ports  == Pushed(nodes, r, f)
           linked == IF born24 THEN Linked(p, c24, nexthop24) ELSE nexthop24
       IN  /\ element[At16(p)] < 0 => c24 < LEVEL24_CHUNK_NUM
           /\ born24 => c32 < LEVEL32_CHUNK_NUM
           /\ node' = nodes
           /\ old' = [old EXCEPT ![p] = port]
           /\ new' = ports
           /\ chunk' = Numbered(nodes, c24, c32)
           /\ element' = [element EXCEPT ![At16(p)] = c24]
           /\ nexthop24' = IF born16 THEN [linked EXCEPT ![c24] = Row24(p, nodes, ports)] ELSE linked
           /\ offset24' = IF born24 THEN [offset24 EXCEPT ![c24][Cell24(p)] = c32 % OffsetRange]
                          ELSE offset24
           /\ nexthop32' = IF born24 THEN [nexthop32 EXCEPT ![c32] = Row32(p, ports)] ELSE nexthop32
           /\ currentChunkNum24' = NextChunk(currentChunkNum24, element[At16(p)] < 0)
           /\ currentChunkNum32' = NextChunk(currentChunkNum32, born24)
           /\ touched' = {q \in touched : ~ Covers(r, q)}

\* The cell of levelTable16, 24 or 32 of a leaf is written in place.
WriteCell(p, port) ==
    LET c24 == element[At16(p)]
        c32 == offset24[c24][Cell24(p)]
    IN  CASE Len(p) = Level16 ->
               /\ element' = [element EXCEPT ![p] = - port]
               /\ UNCHANGED <<nexthop24, offset24, nexthop32>>
          [] Len(p) = Level24 ->
               /\ nexthop24' = [nexthop24 EXCEPT ![c24][Cell24(p)] = port]
               /\ UNCHANGED <<element, offset24, nexthop32>>
          [] Len(p) = KeyLength ->
               /\ nexthop32' = [nexthop32 EXCEPT ![c32][Cell32(p)] = port]
               /\ UNCHANGED <<element, nexthop24, offset24>>

AnnounceLeaf(p, port) ==
    /\ Len(p) >= MinLength
    /\ p \in node /\ old[p] = 0 /\ IsLeaf(p, node)
    /\ old' = [old EXCEPT ![p] = port]
    /\ new' = [new EXCEPT ![p] = port]
    /\ WriteCell(p, port)
    /\ touched' = touched \ {p}
    /\ UNCHANGED <<node, chunk, counts>>

\* The subtree of p gets a port; the tables stay as they are.
Subtree(p, port, route) ==
    /\ old' = [old EXCEPT ![p] = route]
    /\ new' = SubTrieUpdate(p, port, old')
    /\ touched' = {q \in touched : ~ Covers(p, q)} \cup {p}
    /\ UNCHANGED <<node, chunk, tables, counts>>

AnnounceInner(p, port) ==
    /\ Len(p) >= MinLength
    /\ p \in node /\ old[p] = 0 /\ ~ IsLeaf(p, node)
    /\ Subtree(p, port, port)

AnnounceChange(p, port) ==
    /\ Len(p) >= MinLength
    /\ p \in node /\ old[p] \notin {0, port}
    /\ Subtree(p, port, port)

\* The port of the nearest route above p takes over; the nodes stay.
Withdraw(p) ==
    /\ Len(p) >= MinLength
    /\ p \in node /\ old[p] # 0
    /\ Subtree(p, old[Nearest(SubSeq(p, 1, Len(p) - 1), old)], 0)

Next ==
    \/ \E a \in Announced :
          AnnounceBorn(a[1], a[2]) \/ AnnounceLeaf(a[1], a[2])
          \/ AnnounceInner(a[1], a[2]) \/ AnnounceChange(a[1], a[2])
    \/ \E p \in Prefix : Withdraw(p) \/ Ignored(p)

Spec == Init /\ [][Next]_vars

----------------------------------------------------------------------------
(* Lookups *)

\* FindFibTrieNextHop of modified_sail/main.cpp: the last port on the way down.
FindFibTrieNextHop(a) ==
    LET seen == {y \in PathTo(a) : y \in node /\ y # <<>> /\ new[y] # 0}
    IN  IF seen = {} THEN old[<<>>]
        ELSE new[CHOOSE y \in seen : \A z \in seen : Len(z) <= Len(y)]

sailLookup(a) ==
    LET e == element[At16(a)]
    IN  IF e < 0 THEN - e
        ELSE IF nexthop24[e][Cell24(a)] # 0 THEN nexthop24[e][Cell24(a)]
        ELSE nexthop32[offset24[e][Cell24(a)]][Cell32(a)]

----------------------------------------------------------------------------
(* Properties *)

\* The ports and table cells have their types, and the chunk numbers in the trie
\* are ones that have been given out.
TypeOK ==
    /\ node \subseteq Keys
    /\ old \in [Keys -> PortOrNone] /\ new \in [Keys -> PortOrNone]
    /\ \A d \in Keys : chunk[d] \in -1 .. IF Len(d) = KeyLength THEN currentChunkNum32 - 1
                                          ELSE currentChunkNum24 - 1
    /\ element \in [Index16 -> -PORT_MAX .. LEVEL24_CHUNK_NUM - 1]
    /\ \A c \in DOMAIN nexthop24 : /\ nexthop24[c] \in [Index24 -> PortOrNone]
                                   /\ offset24[c] \in [Index24 -> 0 .. OffsetRange - 1]
    /\ \A c \in DOMAIN nexthop32 : nexthop32[c] \in [Index32 -> PortOrNone]
    /\ touched \subseteq Prefix

\* After every update the leaves lie exactly on the three levels, every inner node
\* has both children, and only the leaves have a port that lookups see
\* (isCorrectTrie and ytTriePortTest, Fib.cpp:1073-1126, which the driver runs
\* after each stage).
CorrectTrie ==
    \A d \in node :
        IF IsLeaf(d, node)
        THEN /\ Len(d) \in {Level16, Level24, KeyLength}
             /\ new[d] # 0 /\ (old[d] # 0 => old[d] = new[d])
        ELSE {d \o <<0>>, d \o <<1>>} \subseteq node /\ new[d] = 0

\* What pushing and the subtree updates spread to the leaves is for every address
\* the port of its longest route, in any order of announcements and withdrawals,
\* although withdrawn nodes stay and longer routes stop the spreading.
TrieIsLongestMatch ==
    \A a \in Address : FindFibTrieNextHop(a) = old[Nearest(a, old)]

\* The chunk numbers of the trie and of the tables agree, a node of level 16 or 24
\* has a chunk exactly if it is inner, and no two of them share one (the chunk
\* tests of checkTable, Fib.cpp:1145-1187).
ChunksAgree ==
    /\ \A i \in Index16 : element[i] < 0 <=> IsLeaf(i, node)
    /\ \A i, j \in Index16 : element[i] = element[j] /\ element[i] >= 0 => i = j
    /\ \A d \in node :
          /\ Len(d) = Level24 => chunk[d] = element[At16(d)]
          /\ Len(d) = KeyLength =>
                chunk[d] % OffsetRange = offset24[element[At16(d)]][Cell24(d)]
    /\ \A d, e \in node : Len(d) = KeyLength /\ Len(e) = KeyLength /\ chunk[d] = chunk[e]
                          => At24(d) = At24(e)

\* As long as the chunk numbers fit into offset24, the tables give every address
\* the trie's port, unless a route above it has been changed, withdrawn or inserted
\* at an inner node and its cell was not written since.
FreshTables ==
    currentChunkNum32 <= OffsetRange =>
        \A a \in Address : (\A p \in touched : ~ Covers(p, a)) => sailLookup(a) = FindFibTrieNextHop(a)

\* sailLookup and the trie agree for every address: the comparison of
\* sailDetectForFullIp ("Not Equal!!!", main.cpp:174-178).
TablesFollowTrie ==
    \A a \in Address : sailLookup(a) = FindFibTrieNextHop(a)

=============================================================================
