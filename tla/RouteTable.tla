----------------------------- MODULE RouteTable -----------------------------
(***************************************************************************)
(* The control plane of poptrie (modified_poptrie/poptrie4.c and           *)
(* poptrie_private.h): the RIB, a binary radix tree whose every node caches*)
(* the route it inherits (ext), and the FIB mapping table, whose slots are *)
(* reference counted and recycled.                                         *)
(*                                                                         *)
(* A radix node is the bit sequence that leads to it.  The update of the   *)
(* poptrie itself (_update_subtree) is the parameter ok of an operation:   *)
(* whether it succeeded.  Here the pools never run out and ok is TRUE;     *)
(* module Poptrie passes the real outcome.                                 *)
(***************************************************************************)
EXTENDS BitStrings

CONSTANTS
    Prefix,       \* the prefixes the callers use
    NextHop,      \* the callers' next hops (void * values other than NULL)
    NULL,         \* the null pointer
    FibSize,      \* POPTRIE_INIT_FIB_SIZE
    MaxRefs       \* bound on a reference count (INT_MAX in the code)

\* Every node the radix tree may get.
Tree == UNION {PathTo(p) : p \in Prefix}

ASSUME RouteTableAssumption ==
    /\ Prefix \subseteq Keys
    /\ NULL \notin Tree
    /\ NULL \notin NextHop
    /\ FibSize \in Nat \ {0}
    /\ MaxRefs \in Nat

\* Slots fit into 16 bits and leave 65535 free (the code has 4096 slots).
ASSUME SlotAssumption == FibSize <= 65535

VARIABLES
    node,       \* the radix nodes that exist (they are never freed)
    valid,      \* the nodes that carry a route
    nexthop,    \* the FIB slot of a node's route
    ext,        \* the node whose route a node inherits, or NULL
    mark,       \* the nodes marked as changed
    fib         \* the FIB mapping table

ribVars == <<node, valid, nexthop, ext, mark>>
vars    == <<node, valid, nexthop, ext, mark, fib>>

Slot == 0 .. FibSize - 1
Leaf == 0 .. 65535           \* poptrie_leaf_t is 16 bits wide

TypeOK ==
    /\ node \subseteq Tree
    /\ valid \subseteq node \cap Prefix
    /\ nexthop \in [Tree -> Leaf]
    /\ ext \in [Tree -> Tree \cup {NULL}]
    /\ mark \subseteq node
    /\ fib \in [Slot -> [entry : NextHop \cup {NULL}, refs : Int]]

\* poptrie_init: the NULL next hop owns slot 0.
Init ==
    /\ node = {}
    /\ valid = {}
    /\ nexthop = [d \in Tree |-> 0]
    /\ ext = [d \in Tree |-> NULL]
    /\ mark = {}
    /\ fib = [i \in Slot |-> [entry |-> NULL, refs |-> IF i = 0 THEN 1 ELSE 0]]

----------------------------------------------------------------------------
(* The FIB mapping table *)

First(S) == CHOOSE i \in S : \A j \in S : i <= j

\* Mutants of the test refs <= 0 of poptrie_fib_ref.
AvailableNegative == {i \in Slot : fib[i].refs < 0}
AvailableLast     == {i \in Slot : fib[i].refs <= 1}

Matching(h) == {i \in Slot : fib[i].entry = h}
Available   == {i \in Slot : fib[i].refs <= 0}

\* The slot poptrie_fib_ref gives h, or -1 when the table is full.
fib_ref(h) ==
    IF Matching(h) # {} THEN First(Matching(h))
    ELSE IF Available # {} THEN First(Available) ELSE -1

\* Mutant: a slot that is there already is not counted again.
ReferencedOnce(h) ==
    IF Matching(h) # {} THEN fib
    ELSE IF Available # {}
    THEN [fib EXCEPT ![First(Available)] = [entry |-> h, refs |-> 1]]
    ELSE fib

\* The table after poptrie_fib_ref.
Referenced(h) ==
    IF Matching(h) # {}
    THEN [fib EXCEPT ![First(Matching(h))].refs = @ + 1]
    ELSE IF Available # {}
    THEN [fib EXCEPT ![First(Available)] = [entry |-> h, refs |-> 1]]
    ELSE fib

\* fib.entries[n].refs-- (a slot outside the table is not the table's).
Released(f, n) == IF n \in Slot THEN [f EXCEPT ![n].refs = @ - 1] ELSE f

\* poptrie_fib_deref on the table that poptrie_fib_ref(h) left.
Unreferenced(h) == Released(Referenced(h), fib_ref(h))

\* The slot number as poptrie_leaf_t stores it.
AsLeaf(n) == n % 65536

----------------------------------------------------------------------------
(* The radix tree *)

\* The last valid node the descent to d has passed, d itself left out.
Inherited(d) ==
    LET above == {v \in valid : Above(v, d)}
    IN  IF above = {} THEN NULL
        ELSE CHOOSE v \in above : \A w \in above : Len(w) <= Len(v)

\* Mutant: the created nodes are not linked.
GrownNot(p) == node

\* The nodes and their ext once the descent to p has created the path.
Grown(p)    == node \cup PathTo(p)
GrownExt(p) ==
    LET created == PathTo(p) \ node
    IN  [d \in Tree |-> IF d \in created THEN Inherited(d) ELSE ext[d]]

\* poptrie_route_add_propagate(p, p) stops at a node that inherits from a
\* node as long as p or longer; it marks every node it reaches.
Stops(e, p) == e # NULL /\ Len(p) <= Len(e)
Reached(p) ==
    LET grown == GrownExt(p)
        sub   == {d \in Grown(p) : Covers(p, d)}
        end   == {d \in sub : Stops(grown[d], p)}
    IN  {d \in sub : \A a \in end : ~ Above(a, d)}
AddExt(p) ==
    LET grown   == GrownExt(p)
        reached == Reached(p)
    IN  [d \in Tree |-> IF d \in reached /\ ~ Stops(grown[d], p) THEN p ELSE grown[d]]
\* Mutant: the descendants are not marked.
AddMarkSelf(p) == mark \cup {p}
AddMark(p) == mark \cup Reached(p)

\* poptrie_route_change_propagate and poptrie_route_del_propagate mark the
\* nodes that inherit from p and pass the marks up to p.
InheritMark(p) ==
    LET sub == {e \in node : Covers(p, e)}
        hit == {e \in sub : ext[e] = p \/ e \in mark}
    IN  mark \cup {d \in sub : \E e \in hit : Covers(d, e)}
\* Mutant: the descendants keep the deleted route.
DelExtSelf(p) == [ext EXCEPT ![p] = Inherited(p)]
DelExt(p) ==
    LET next == Inherited(p)
    IN  [d \in Tree |-> IF d \in node /\ Covers(p, d) /\ ext[d] = p THEN next ELSE ext[d]]

\* Mutant: only the node itself is cleared.
ClearedSelf(m, p) == m \ {p}

\* _clear_mark(p), called once _update_subtree has succeeded: it goes down
\* through marked nodes only.
Cleared(m, p) ==
    {d \in m : ~ (Covers(p, d) /\ \A a \in PathTo(d) : Covers(p, a) => a \in m)}

----------------------------------------------------------------------------
(* The operations.  h is the caller's next hop, ok the outcome of          *)
(* _update_subtree.                                                        *)

\* The node becomes a route of slot fib_ref(h) (the tail of _route_add).
Install(p, h, ok) ==
    /\ node' = Grown(p)
    /\ valid' = valid \cup {p}
    /\ nexthop' = [nexthop EXCEPT ![p] = AsLeaf(fib_ref(h))]
    /\ ext' = AddExt(p)
    /\ mark' = IF ok THEN Cleared(AddMark(p), p) ELSE AddMark(p)

\* The route moves to slot fib_ref(h) (_route_change on a valid node).
Replace(p, h, ok) ==
    \/ /\ nexthop[p] # AsLeaf(fib_ref(h))
       /\ nexthop' = [nexthop EXCEPT ![p] = AsLeaf(fib_ref(h))]
       /\ mark' = IF ok THEN Cleared(InheritMark(p), p) ELSE InheritMark(p)
       /\ fib' = Released(Referenced(h), nexthop[p])
       /\ UNCHANGED <<node, valid, ext>>
    \/ /\ nexthop[p] = AsLeaf(fib_ref(h))
       /\ fib' = Released(Referenced(h), nexthop[p])
       /\ UNCHANGED ribVars

poptrie_route_add(p, h, ok) ==
    \/ /\ p \in valid
       /\ fib' = Unreferenced(h)
       /\ UNCHANGED ribVars
    \/ /\ p \notin valid
       /\ Install(p, h, ok)
       /\ fib' = IF ok THEN Referenced(h) ELSE Unreferenced(h)

poptrie_route_change(p, h, ok) ==
    \/ /\ p \notin valid
       /\ fib' = Referenced(h)
       /\ UNCHANGED ribVars
    \/ /\ p \in valid
       /\ Replace(p, h, ok)

poptrie_route_update(p, h, ok) ==
    \/ /\ p \notin valid
       /\ Install(p, h, ok)
       /\ fib' = Referenced(h)
    \/ /\ p \in valid
       /\ Replace(p, h, ok)

\* A failed update returns before the slot is released.
poptrie_route_del(p, ok) ==
    \/ /\ p \notin valid
       /\ UNCHANGED vars
    \/ /\ p \in valid
       /\ ext' = DelExt(p)
       /\ valid' = valid \ {p}
       /\ nexthop' = [nexthop EXCEPT ![p] = 0]
       /\ mark' = IF ok THEN Cleared(InheritMark(p), p) ELSE InheritMark(p)
       /\ fib' = IF ok THEN Released(fib, nexthop[p]) ELSE fib
       /\ UNCHANGED node

RefsBounded == \A i \in Slot : fib'[i].refs <= MaxRefs

Next ==
    \E p \in Prefix :
        \/ \E h \in NextHop :
              /\ \/ poptrie_route_add(p, h, TRUE)
                 \/ poptrie_route_change(p, h, TRUE)
                 \/ poptrie_route_update(p, h, TRUE)
              /\ RefsBounded
        \/ poptrie_route_del(p, TRUE)

Spec == Init /\ [][Next]_vars

\* The operations when memory for the trie may run out: _update_subtree fails in
\* any of them, or in any but poptrie_route_add, the only one that takes back the
\* reference of a route it leaves in the tree.
MayFail(add) ==
    \E p \in Prefix :
        \/ \E h \in NextHop :
              \/ \E ok \in add : poptrie_route_add(p, h, ok)
              \/ \E ok \in BOOLEAN : poptrie_route_change(p, h, ok) \/ poptrie_route_update(p, h, ok)
        \/ \E ok \in BOOLEAN : poptrie_route_del(p, ok)
AnyMayFail   == MayFail(BOOLEAN)
AddsSucceed  == MayFail({TRUE})

\* _rib_lookup: follow the address through the nodes that exist.
rib_lookup(addr) ==
    LET passed == {v \in valid : Covers(v, addr)}
    IN  IF passed = {} THEN 0
        ELSE nexthop[CHOOSE v \in passed : \A w \in passed : Len(w) <= Len(v)]

\* EXT_NH: the slot of the route a node inherits.
EXT_NH(e, nh, d) == IF e[d] = NULL THEN 0 ELSE nh[e[d]]

----------------------------------------------------------------------------
(* Properties *)

\* e is where d's route comes from: the longest valid prefix of d, d included.
IsNearest(e, d) ==
    IF e = NULL THEN \A v \in valid : ~ Covers(v, d)
    ELSE /\ e \in valid /\ Covers(e, d)
         /\ \A v \in valid : Covers(v, d) => Len(v) <= Len(e)

\* The ext every node caches is its longest matching route, after any sequence
\* of operations: add_propagate stops early, del_propagate rewrites, and a new
\* node takes the ext of the descent, yet no cached pointer is ever stale.
ExtIsNearest == \A d \in node : IsNearest(ext[d], d)

\* The routes that use slot i.
Users(i) == {p \in valid : nexthop[p] = i}

\* A slot's count never falls below the number of routes on it, so
\* poptrie_fib_ref never recycles a slot that a route still uses.
UsedSlotKept == \A p \in valid : nexthop[p] \in Slot => fib[nexthop[p]].refs > 0

\* Every route has a slot of the table ("new entries exceeding this size will
\* result in an error", poptrie.h:22-24).
RoutesHaveSlots == \A p \in valid : nexthop[p] \in Slot

\* A counted slot belongs to a route: an operation that did not install a
\* route left no reference behind (README.md: "poptrie_route_change() function
\* does not add the next hop when the corresponding prefix does not exist").
NoOrphanReference == \A i \in Slot \ {0} : fib[i].refs > 0 => Users(i) # {}

\* _clear_mark undoes every mark of the propagation, although it goes no
\* further than the first unmarked node.
MarksCleared == mark = {}

\* What a caller sees: the route of p leads to the next hop it asked for.
Resolved(n) == IF n \in Slot THEN fib[n].entry ELSE NULL
Map == INSTANCE RouteMap WITH
    NoRoute <- NULL,
    route <- [p \in Prefix |-> IF p \in valid THEN Resolved(nexthop[p]) ELSE NULL]

\* The tree and the reference counted table together behave as a map from
\* prefixes to next hops: recycling a slot never redirects another route.
ImplementsRouteMap == Map!Spec

=============================================================================
