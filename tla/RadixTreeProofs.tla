-------------------------- MODULE RadixTreeProofs --------------------------
(***************************************************************************)
(* Theorems about RadixTree, for every key length and every set of prefixes*)
(* and data.  Linked and TypeOK together are inductive; that lookups are   *)
(* longest matches follows from them.                                      *)
(***************************************************************************)
EXTENDS RadixTree, BitStringProofs

Inv == TypeOK /\ Linked

\* The initial state satisfies the invariant.
LEMMA InitInv == Init => Inv
PROOF
    BY DEF Init, Inv, TypeOK, Linked

LEMMA AddInv ==
    ASSUME Inv, NEW p \in Prefix, NEW x \in Data, radix_tree_add(p, x)
    PROVE  Inv'
PROOF
    <1>1. p \in Keys
        BY RadixAssumption
    <1>2. p \in PathTo(p) /\ \A d \in PathTo(p) : d \in Keys /\ PathTo(d) \subseteq PathTo(p)
        BY <1>1, EndOnPath, PathToLinked
    <1>3. TypeOK'
        BY <1>2 DEF Inv, TypeOK, radix_tree_add
    <1>4. Linked'
        BY <1>2 DEF Inv, Linked, radix_tree_add
    <1> QED
        BY <1>3, <1>4 DEF Inv

LEMMA AddFailsInv ==
    ASSUME Inv, NEW p \in Prefix, NEW d \in PathTo(p), AddFails(p, d)
    PROVE  Inv'
PROOF
    <1> DEFINE New == {a \in PathTo(p) : Len(a) < Len(d)}
    <1>1. p \in Keys /\ d \in Keys
        BY RadixAssumption, PathToLinked
    <1>2. node' = node \cup New /\ valid' = valid /\ data' = data
        BY DEF AddFails
    <1>3. TypeOK'
        BY <1>1, <1>2, PathToLinked DEF Inv, TypeOK
    <1>4. ASSUME NEW a \in New, NEW b \in PathTo(a)
          PROVE  b \in New
        <2>1. a \in Keys /\ b \in Keys /\ b \in PathTo(p)
            BY <1>1, <1>4, PathToLinked
        <2>2. Len(b) <= Len(a)
            BY <1>4, <2>1, PathToCovers DEF Covers
        <2>3. Len(b) < Len(d)
            BY <1>1, <2>1, <2>2, KeyIsSeq
        <2> QED
            BY <2>1, <2>3
    <1>5. Linked'
        BY <1>2, <1>4 DEF Inv, Linked
    <1> QED
        BY <1>3, <1>5 DEF Inv

\* _shrink frees no node that leads to one it keeps.
LEMMA DeleteInv ==
    ASSUME Inv, NEW p \in Prefix, radix_tree_delete(p)
    PROVE  Inv'
PROOF
    <1>1. CASE UNCHANGED vars
        BY <1>1 DEF Inv, TypeOK, Linked, vars
    <1>2. CASE /\ p \in valid
               /\ valid' = valid \ {p}
               /\ data' = [data EXCEPT ![p] = NULL]
               /\ node' = node \ Freed(p, valid \ {p})
        <2>1. ASSUME NEW v \in valid'
              PROVE  v \in node'
            <3>1. v \in valid /\ v # p /\ v \in node /\ v \in Keys
                BY <1>2, <2>1 DEF Inv, TypeOK
            <3>2. Covers(v, v)
                BY <3>1, CoversSelf
            <3> QED
                BY <1>2, <3>1, <3>2 DEF Freed
        <2>2. TypeOK'
            BY <1>2, <2>1 DEF Inv, TypeOK
        <2>3. ASSUME NEW d \in node', NEW a \in PathTo(d), a \in Freed(p, valid \ {p})
              PROVE  FALSE
            <3>1. d \in node /\ d \in Keys /\ a \in Keys /\ Covers(a, d)
                BY <1>2, <2>3, PathToLinked, PathToCovers DEF Inv, TypeOK
            <3>2. Covers(p, a) /\ p \in Keys
                BY <2>3, RadixAssumption DEF Freed
            <3>3. Covers(p, d)
                BY <3>1, <3>2, CoversTransitive, KeyIsSeq
            <3>4. PICK e \in node : Covers(d, e) /\ e \in valid \ {p}
                BY <1>2, <2>3, <3>1, <3>3 DEF Freed
            <3>5. e \in Keys
                BY <3>4 DEF Inv, TypeOK
            <3>6. Covers(a, e)
                BY <3>1, <3>4, <3>5, CoversTransitive, KeyIsSeq
            <3> QED
                BY <2>3, <3>4, <3>6 DEF Freed
        <2>4. Linked'
            BY <1>2, <2>3 DEF Inv, Linked
        <2> QED
            BY <2>2, <2>4 DEF Inv
    <1> QED
        BY <1>1, <1>2 DEF radix_tree_delete

LEMMA NextInv == Inv /\ [Next]_vars => Inv'
PROOF
    <1> SUFFICES ASSUME Inv, [Next]_vars
                 PROVE  Inv'
        OBVIOUS
    <1>1. CASE UNCHANGED vars
        BY <1>1 DEF Inv, TypeOK, Linked, vars
    <1>2. CASE Next
        BY <1>2, AddInv, AddFailsInv, DeleteInv DEF Next
    <1> QED
        BY <1>1, <1>2

LEMMA Invariant == Spec => []Inv
PROOF
    BY InitInv, NextInv, PTL DEF Spec

\* The nodes, routes and data have their types: a route always has its node.
THEOREM TypeCorrect == Spec => []TypeOK
PROOF
    <1>1. Inv => TypeOK
        BY DEF Inv
    <1> QED
        BY <1>1, Invariant, PTL

\* Every node hangs from the root, through failed adds and deletes that shrink.
THEOREM TreeLinked == Spec => []Linked
PROOF
    <1>1. Inv => Linked
        BY DEF Inv
    <1> QED
        BY <1>1, Invariant, PTL

----------------------------------------------------------------------------
(* Lookup *)

\* In a linked tree the walk meets exactly the routes that match.
LEMMA VisitedAreMatches ==
    ASSUME Inv, NEW addr
    PROVE  Visited(addr) \cap valid = {v \in valid : Covers(v, addr)}
PROOF
    BY DEF Inv, TypeOK, Linked, Visited

LEMMA LookupInv == Inv => LookupIsLongestMatch
PROOF
    <1> SUFFICES ASSUME Inv, NEW addr \in Address
                 PROVE  LET match == {v \in valid : Covers(v, addr)}
                        IN  \/ match = {} /\ radix_tree_lookup(addr) = NULL
                            \/ \E v \in match : /\ \A w \in match : Len(w) <= Len(v)
                                                /\ radix_tree_lookup(addr) = data[v]
        BY DEF LookupIsLongestMatch
    <1> DEFINE match == {v \in valid : Covers(v, addr)}
    <1>1. Visited(addr) \cap valid = match
        BY VisitedAreMatches
    <1>2. CASE match = {}
        BY <1>1, <1>2 DEF radix_tree_lookup
    <1>3. CASE match # {}
        <2> DEFINE best == CHOOSE d \in match : \A e \in match : Len(e) <= Len(d)
        <2>1. match \in SUBSET Keys
            BY DEF Inv, TypeOK
        <2>2. \E v \in match : \A w \in match : Len(w) <= Len(v)
            BY <1>3, <2>1, LongestExists
        <2>3. best \in match /\ \A w \in match : Len(w) <= Len(best)
            BY <2>2
        <2>4. radix_tree_lookup(addr) = data[best]
            BY <1>1, <1>3 DEF radix_tree_lookup
        <2> QED
            BY <2>3, <2>4
    <1> QED
        BY <1>2, <1>3

\* Every lookup returns the longest matching route, whatever bit follows the key
\* in memory.
THEOREM LookupCorrect == Spec => []LookupIsLongestMatch
PROOF
    BY LookupInv, Invariant, PTL

----------------------------------------------------------------------------
(* Deleting *)

LEMMA NextShrinks ==
    ASSUME Inv, [Next]_vars,
           NEW p \in valid \ valid', NEW d \in node', Covers(p, d)
    PROVE  \E v \in valid' : Covers(d, v)
PROOF
    <1>1. PICK q \in Prefix : radix_tree_delete(q)
        BY DEF Next, vars, radix_tree_add, AddFails
    <1>2. /\ q = p
          /\ valid' = valid \ {p}
          /\ node' = node \ Freed(p, valid \ {p})
        BY <1>1 DEF radix_tree_delete, vars
    <1>3. d \in node /\ d \notin Freed(p, valid \ {p})
        BY <1>2
    <1>4. PICK e \in node : Covers(d, e) /\ e \in valid \ {p}
        BY <1>3 DEF Freed
    <1> QED
        BY <1>2, <1>4

\* A successful delete leaves no node at or below the deleted one that does not
\* lead to a route.
THEOREM DeletesShrink == Spec => DeleteShrinks
PROOF
    <1>1. Inv /\ [Next]_vars =>
            [\A p \in valid \ valid' : \A d \in node' :
                Covers(p, d) => \E v \in valid' : Covers(d, v)]_vars
        BY NextShrinks
    <1> QED
        BY <1>1, Invariant, PTL DEF Spec, DeleteShrinks

----------------------------------------------------------------------------
(* The tree as a map *)

\* Exactly the valid nodes have data.
RoutesHaveData == \A p \in Prefix : p \in valid <=> data[p] # NULL

\* The map of the refinement, as the invariant lets it be read.
Stored == [p \in Prefix |-> data[p]]

LEMMA DataInv == Spec => []RoutesHaveData
PROOF
    <1>1. Init => RoutesHaveData
        BY DEF Init, RoutesHaveData
    <1>2. Inv /\ RoutesHaveData /\ [Next]_vars => RoutesHaveData'
        <2> SUFFICES ASSUME Inv, RoutesHaveData, [Next]_vars
                     PROVE  RoutesHaveData'
            OBVIOUS
        <2>1. CASE UNCHANGED vars
            BY <2>1 DEF RoutesHaveData, vars
        <2>2. ASSUME NEW p \in Prefix, NEW x \in Data, radix_tree_add(p, x)
              PROVE  RoutesHaveData'
            BY <2>2, RadixAssumption DEF RoutesHaveData, radix_tree_add, Inv, TypeOK
        <2>3. ASSUME NEW p \in Prefix, NEW d \in PathTo(p), AddFails(p, d)
              PROVE  RoutesHaveData'
            BY <2>3 DEF RoutesHaveData, AddFails
        <2>4. ASSUME NEW p \in Prefix, radix_tree_delete(p)
              PROVE  RoutesHaveData'
            BY <2>4 DEF RoutesHaveData, radix_tree_delete, vars, Inv, TypeOK
        <2> QED
            BY <2>1, <2>2, <2>3, <2>4 DEF Next
    <1> QED
        BY <1>1, <1>2, Invariant, PTL DEF Spec

\* The mapped route of a prefix is its data: a valid node is always reachable.
RouteOf == [p \in Prefix |-> IF p \in valid /\ PathTo(p) \subseteq node THEN data[p] ELSE NULL]

AllReachable == RouteOf = Stored

LEMMA RouteOfIsData == Inv /\ RoutesHaveData => AllReachable
PROOF
    <1> SUFFICES ASSUME Inv, RoutesHaveData, NEW p \in Prefix
                 PROVE  (IF p \in valid /\ PathTo(p) \subseteq node THEN data[p] ELSE NULL) = data[p]
        BY DEF AllReachable, RouteOf, Stored
    <1>1. CASE p \in valid
        BY <1>1 DEF Inv, TypeOK, Linked
    <1>2. CASE p \notin valid
        BY <1>2 DEF RoutesHaveData
    <1> QED
        BY <1>1, <1>2

LEMMA InitRefines == Init => Map!Init
PROOF
    BY DEF Init, Map!Init

LEMMA NextRefines ==
    ASSUME Inv, Inv', RoutesHaveData, AllReachable, AllReachable', [Next]_vars
    PROVE  [Map!Next]_RouteOf
PROOF
    <1>1. RouteOf = Stored /\ RouteOf' = Stored'
        BY DEF AllReachable
    <1>2. data \in [Prefix -> Data \cup {NULL}] /\ data' \in [Prefix -> Data \cup {NULL}]
        BY DEF Inv, TypeOK
    <1>3. RouteOf = data /\ RouteOf' = data'
        BY <1>1, <1>2 DEF Stored
    <1>4. CASE UNCHANGED vars
        BY <1>3, <1>4 DEF vars
    <1>5. ASSUME NEW p \in Prefix, NEW x \in Data, radix_tree_add(p, x)
          PROVE  Map!Next \/ UNCHANGED data
        <2>1. CASE p \in valid
            BY <1>5, <2>1 DEF radix_tree_add
        <2>2. CASE p \notin valid
            <3>1. data[p] = NULL /\ data' = [data EXCEPT ![p] = x]
                BY <1>5, <2>2 DEF radix_tree_add, RoutesHaveData
            <3>2. Map!Add(p, x)
                BY <1>3, <3>1 DEF Map!Add, RouteOf
            <3> QED
                BY <3>2 DEF Map!Next
        <2> QED
            BY <2>1, <2>2
    <1>6. ASSUME NEW p \in Prefix, NEW d \in PathTo(p), AddFails(p, d)
          PROVE  UNCHANGED data
        BY <1>6 DEF AddFails
    <1>7. ASSUME NEW p \in Prefix, radix_tree_delete(p)
          PROVE  Map!Next \/ UNCHANGED data
        <2>1. CASE p \notin valid
            BY <1>7, <2>1 DEF radix_tree_delete, vars
        <2>2. CASE p \in valid
            <3>1. data[p] # NULL /\ data' = [data EXCEPT ![p] = NULL]
                BY <1>7, <2>2 DEF radix_tree_delete, RoutesHaveData
            <3>2. Map!Delete(p)
                BY <1>3, <3>1 DEF Map!Delete, RouteOf
            <3> QED
                BY <3>2 DEF Map!Next
        <2> QED
            BY <2>1, <2>2
    <1>8. CASE Next
        BY <1>3, <1>5, <1>6, <1>7, <1>8 DEF Next
    <1> QED
        BY <1>4, <1>8

\* The tree implements a map from prefixes to data: no call, a failing one
\* included, changes or cuts off the route of another prefix.
THEOREM RadixTreeIsMap == Spec => ImplementsRouteMap
PROOF
    <1>1. Inv /\ Inv' /\ RoutesHaveData /\ AllReachable /\ AllReachable' /\ [Next]_vars
            => [Map!Next]_RouteOf
        BY NextRefines
    <1> QED
        BY <1>1, InitRefines, RouteOfIsData, Invariant, DataInv, PTL DEF Spec, ImplementsRouteMap, Map!Spec, RouteOf

----------------------------------------------------------------------------
(* The recursion of _shrink *)

\* A node that leads to a route.
Leads(routes, d) == \E e \in node : Covers(d, e) /\ e \in routes

\* What a node of the tree leads to lies on it or leads through a child.
LEMMA LeadsByStep ==
    ASSUME Inv, NEW routes, NEW d \in node
    PROVE  Leads(routes, d) <=> \/ d \in routes
                                \/ \E b \in Bit : d \o <<b>> \in node /\ Leads(routes, d \o <<b>>)
PROOF
    <1>1. node \subseteq Keys /\ \A e \in node : PathTo(e) \subseteq node
        BY DEF Inv, TypeOK, Linked
    <1>2. ASSUME NEW e \in node, Covers(d, e), e \in routes, d \notin routes
          PROVE  \E b \in Bit : d \o <<b>> \in node /\ Leads(routes, d \o <<b>>)
        <2>1. Above(d, e)
            BY <1>2 DEF Above
        <2>2. PICK b \in Bit : d \o <<b>> \in Keys /\ Covers(d \o <<b>>, e)
            BY <1>1, <2>1, ChildOnWay
        <2>3. d \o <<b>> \in node
            BY <1>1, <2>2, PathToCovers
        <2> QED
            BY <1>2, <2>2, <2>3 DEF Leads
    <1>3. ASSUME NEW b \in Bit, d \o <<b>> \in node, NEW e \in node,
                 Covers(d \o <<b>>, e), e \in routes
          PROVE  Covers(d, e)
        <2>1. d \in Keys /\ d \o <<b>> \in Keys /\ e \in Keys
            BY <1>1, <1>3
        <2>2. Covers(d, d \o <<b>>)
            BY <2>1, ChildKey DEF Above
        <2>3. Len(e) \in Nat
            BY <2>1, KeyIsSeq
        <2> QED
            BY <1>3, <2>1, <2>2, <2>3, CoversTransitive
    <1>4. Covers(d, d)
        BY <1>1, CoversSelf
    <1> QED
        BY <1>2, <1>3, <1>4 DEF Leads

\* The recursion that _shrink is has one solution: it keeps what leads to a route.
LEMMA StaysIs ==
    ASSUME Inv, NEW routes
    PROVE  \A d \in node : Stays(routes)[d] <=> Leads(routes, d)
PROOF
    <1> DEFINE Step(f, d) == d \in routes \/ \E b \in Bit : d \o <<b>> \in node /\ f[d \o <<b>>]
               P(f)  == f = [d \in node |-> Step(f, d)]
               leads == [d \in node |-> Leads(routes, d)]
               stays == CHOOSE f : P(f)
    <1>1. P(leads)
        <2>1. ASSUME NEW d \in node
              PROVE  Leads(routes, d) <=> Step(leads, d)
            <3>1. \A b \in Bit : d \o <<b>> \in node =>
                      (leads[d \o <<b>>] <=> Leads(routes, d \o <<b>>))
                BY Zenon
            <3> HIDE DEF leads
            <3> QED
                BY <3>1, LeadsByStep, Zenon
        <2>2. \A d \in node : Leads(routes, d) \in BOOLEAN /\ Step(leads, d) \in BOOLEAN
            BY Zenon DEF Leads
        <2>3. [d \in node |-> Leads(routes, d)] = [d \in node |-> Step(leads, d)]
            <3> HIDE DEF Step, leads
            <3> QED
                BY <2>1, <2>2
        <2> QED
            BY <2>3, Zenon
    <1>2. P(stays)
        <2> HIDE DEF P
        <2> QED
            BY <1>1, Zenon
    <1>3. Stays(routes) = stays
        BY Zenon DEF Stays
    <1> HIDE DEF stays
    <1>4. ASSUME NEW d \in node
          PROVE  stays[d] <=> Step(stays, d)
        BY <1>2, <1>4, Zenon
    <1>5. \A d \in node : stays[d] <=> Leads(routes, d)
        <2> DEFINE Wrong == {d \in node : ~ (stays[d] <=> Leads(routes, d))}
        <2>1. SUFFICES ASSUME Wrong # {} PROVE FALSE
            BY Zenon
        <2>2. node \subseteq Keys
            BY DEF Inv, TypeOK
        <2>3. Wrong \in SUBSET Keys
            BY <2>2
        <2>4. PICK d \in Wrong : \A e \in Wrong : Len(e) <= Len(d)
            <3> HIDE DEF Wrong
            <3> QED
                BY <2>1, <2>3, LongestExists
        <2>5. d \in node /\ ~ (stays[d] <=> Leads(routes, d))
            BY <2>4, Zenon
        <2>6. ASSUME NEW b \in Bit, d \o <<b>> \in node
              PROVE  stays[d \o <<b>>] <=> Leads(routes, d \o <<b>>)
            <3>1. Len(d \o <<b>>) = Len(d) + 1 /\ Len(d) \in Nat
                BY <2>2, <2>5, ChildKey, KeyIsSeq
            <3>2. d \o <<b>> \notin Wrong
                <4> HIDE DEF Wrong
                <4>1. ASSUME d \o <<b>> \in Wrong PROVE FALSE
                    <5> DEFINE n == Len(d \o <<b>>)
                    <5>1. n <= Len(d)
                        BY <2>4, <4>1, Zenon
                    <5>2. n = Len(d) + 1 /\ Len(d) \in Nat
                        BY <3>1
                    <5> HIDE DEF n
                    <5> QED
                        BY <5>1, <5>2
                <4> QED
                    BY <4>1
            <3> QED
                BY <2>6, <3>2, Zenon
        <2>7. stays[d] <=> Leads(routes, d)
            BY <1>4, <2>5, <2>6, LeadsByStep, Zenon
        <2> QED
            BY <2>5, <2>7, Zenon
    <1> QED
        BY <1>3, <1>5, Zenon

\* _shrink, run as the recursion it is on the tree below a deleted route, frees
\* exactly the nodes whose subtrees carry no data.
THEOREM ShrinkAsRecursion == Spec => []ShrinkIsRecursive
PROOF
    <1>1. ASSUME Inv PROVE ShrinkIsRecursive
        <2>1. ASSUME NEW p \in valid
              PROVE  Freed(p, valid \ {p}) = {d \in node : Covers(p, d) /\ ~ Stays(valid \ {p})[d]}
            <3> DEFINE routes == valid \ {p}
            <3>1. \A d \in node : Stays(routes)[d] <=> Leads(routes, d)
                <4> HIDE DEF routes
                <4> QED
                    BY <1>1, StaysIs
            <3>2. {d \in node : Covers(p, d) /\ ~ Stays(routes)[d]}
                    = {d \in node : Covers(p, d) /\ ~ Leads(routes, d)}
                BY <3>1, Zenon
            <3> HIDE DEF routes
            <3>3. Freed(p, routes) = {d \in node : Covers(p, d) /\ ~ Leads(routes, d)}
                BY DEF Freed, Leads
            <3> QED
                BY <3>2, <3>3, Zenon DEF routes
        <2> QED
            BY <2>1 DEF ShrinkIsRecursive
    <1>2. Inv => ShrinkIsRecursive
        BY <1>1
    <1> QED
        BY <1>2, Invariant, PTL

=============================================================================
