----------------------------- MODULE RadixTree -----------------------------
(***************************************************************************)
(* The reference radix tree (modified_radix_tree/radix.c): a binary tree   *)
(* whose nodes may carry data, with lookup of the longest matching prefix. *)
(*                                                                         *)
(* A node is the bit sequence that leads to it.  A call is one step: the   *)
(* library has no concurrency.  An allocation may fail at any depth.       *)
(***************************************************************************)
EXTENDS BitStrings

CONSTANTS
    Prefix,      \* the prefixes the caller uses
    Data,        \* the caller's data (void * values other than NULL)
    NULL         \* the null pointer

ASSUME RadixAssumption ==
    /\ Prefix \subseteq Keys
    /\ NULL \notin Data

VARIABLES
    node,     \* the nodes that are allocated and linked
    valid,    \* the nodes that carry data
    data      \* their data

vars == <<node, valid, data>>

TypeOK ==
    /\ node \subseteq Keys
    /\ valid \subseteq node \cap Prefix
    /\ data \in [Prefix -> Data \cup {NULL}]

Init ==
    /\ node = {}
    /\ valid = {}
    /\ data = [p \in Prefix |-> NULL]

\* radix_tree_add: the path to p is created; data that is there stays.
radix_tree_add(p, x) ==
    /\ node' = node \cup PathTo(p)
    /\ \/ /\ p \in valid
          /\ UNCHANGED <<valid, data>>
       \/ /\ p \notin valid
          /\ valid' = valid \cup {p}
          /\ data' = [data EXCEPT ![p] = x]

\* radix_tree_add returns -1: the node at d cannot be allocated, and what was
\* created above it stays.
AddFails(p, d) ==
    /\ d \in PathTo(p) \ node
    /\ node' = node \cup {a \in PathTo(p) : Len(a) < Len(d)}
    /\ UNCHANGED <<valid, data>>

\* Mutants: the right subtree is not looked at; the node's own data is not; only
\* the node itself is tried.
FreedByLeft(top, routes) ==
    {d \in node : Covers(top, d)
                 /\ \A e \in node : Covers(d, e) /\ ~ Covers(d \o <<1>>, e) => e \notin routes}
FreedByChildren(top, routes) ==
    {d \in node : Covers(top, d) /\ \A e \in node \ {d} : Covers(d, e) => e \notin routes}
FreedTop(top, routes) ==
    {d \in {top} : \A e \in node : Covers(d, e) => e \notin routes}

\* The nodes _shrink frees when it is called on node top: those whose subtree
\* carries no data.
Freed(top, routes) ==
    {d \in node : Covers(top, d) /\ \A e \in node : Covers(d, e) => e \notin routes}

\* radix_tree_delete: only the subtree of p is shrunk.
radix_tree_delete(p) ==
    \/ /\ p \notin valid
       /\ UNCHANGED vars
    \/ /\ p \in valid
       /\ valid' = valid \ {p}
       /\ data' = [data EXCEPT ![p] = NULL]
       /\ node' = node \ Freed(p, valid \ {p})

Next ==
    \E p \in Prefix :
        \/ \E x \in Data : radix_tree_add(p, x)
        \/ \E d \in PathTo(p) : AddFails(p, d)
        \/ radix_tree_delete(p)

Spec == Init /\ [][Next]_vars

----------------------------------------------------------------------------
(* Lookup *)

\* A key and the bit that lies behind it: at a node of KeyLength bits _lookup
\* tests that bit too, whatever it is.
Address == [1 .. KeyLength + 1 -> Bit]

\* The nodes _lookup visits: it stops at the first one that is missing.
Visited(addr) == {d \in node : Covers(d, addr) /\ PathTo(d) \subseteq node}

\* radix_tree_lookup: the data of the last valid node visited.
radix_tree_lookup(addr) ==
    LET cands == Visited(addr) \cap valid
    IN  IF cands = {} THEN NULL
        ELSE data[CHOOSE d \in cands : \A e \in cands : Len(e) <= Len(d)]

----------------------------------------------------------------------------
(* Properties *)

\* What the caller stored: a longest prefix match over the routes alone, for
\* every key and whatever bit follows it in memory.  A delete never cuts off a
\* longer route, and the walk past the end of the key changes nothing.
LookupIsLongestMatch ==
    \A addr \in Address :
        LET match == {v \in valid : Covers(v, addr)}
        IN  \/ match = {} /\ radix_tree_lookup(addr) = NULL
            \/ \E v \in match : /\ \A w \in match : Len(w) <= Len(v)
                                /\ radix_tree_lookup(addr) = data[v]

\* Every node hangs from the root: no call frees a node and keeps one below it,
\* and a failed add leaves no gap.
Linked == \A d \in node : PathTo(d) \subseteq node

\* A deleted node takes along what only it kept: after a delete that found p no
\* node at or below p is without data below it.  (Dead nodes above p stay.)
DeleteShrinks ==
    [][\A p \in valid \ valid' : \A d \in node' :
          Covers(p, d) => \E v \in valid' : Covers(d, v)]_vars

\* _shrink as the recursion it is, on a node d of the tree: whether d stays.
Stays(routes) ==
    LET stays[d \in node] ==
          \/ d \in routes
          \/ \E b \in Bit : d \o <<b>> \in node /\ stays[d \o <<b>>]
    IN  stays

\* Freed says what the recursion does, for every call of radix_tree_delete.
ShrinkIsRecursive ==
    \A p \in valid :
        Freed(p, valid \ {p}) = {d \in node : Covers(p, d) /\ ~ Stays(valid \ {p})[d]}

\* What a caller can still reach is a map from prefixes to data (module
\* RouteMap): no call changes the route of another prefix.
Map == INSTANCE RouteMap WITH
    NextHop <- Data,
    NoRoute <- NULL,
    route <- [p \in Prefix |-> IF p \in valid /\ PathTo(p) \subseteq node THEN data[p] ELSE NULL]
ImplementsRouteMap == Map!Spec

=============================================================================
