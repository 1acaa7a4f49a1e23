------------------------------ MODULE Poptrie ------------------------------
(***************************************************************************)
(* Poptrie as a whole: the route operations of poptrie4.c change the RIB   *)
(* and the FIB mapping table (module RouteTable), rebuild the part of the  *)
(* poptrie the changed route reaches (module PoptrieOps), and take and give*)
(* back arrays of the two buddy systems (module BuddyOps).                 *)
(***************************************************************************)
EXTENDS RouteTable, PoptrieOps

CONSTANTS
    Calls,    \* the calls the program makes: [op, p, h]
    GoesOn    \* whether it goes on after memory has run out (a bound)

ASSUME CallsAssumption ==
    /\ Calls \subseteq [op : {"add", "change", "update", "del"}, p : Prefix, h : NextHop]
    /\ GoesOn \in BOOLEAN

VARIABLES
    mem,       \* the memory of the poptrie
    failed,    \* some update has reported a failure
    parted     \* some route was moved or removed while a block bottom below it
               \* led to a longer one (history)

allVars == <<vars, mem, failed, parted>>

\* The radix tree as the update sees it.
View(nodes, marks, exts, nexthops) ==
    [node |-> nodes, mark |-> marks,
     slot |-> [d \in nodes |-> EXT_NH(exts, nexthops, d)]]

TreeAfterAdd(p, h) ==
    View(Grown(p), AddMark(p), AddExt(p), [nexthop EXCEPT ![p] = AsLeaf(fib_ref(h))])
TreeAfterChange(p, h) ==
    View(node, InheritMark(p), ext, [nexthop EXCEPT ![p] = AsLeaf(fib_ref(h))])
TreeAfterDel(p) ==
    View(node, InheritMark(p), DelExt(p), [nexthop EXCEPT ![p] = 0])

PoptrieInit == Init /\ mem = poptrie_init /\ failed = FALSE /\ parted = FALSE

\* What _update_subtree does to the memory, u being its result.
Updated(u) == mem' = u.m /\ failed' = (failed \/ ~ u.ok)

Untouched == UNCHANGED <<mem, failed>>

\* The block bottoms, and whether one lies between p and a longer route.
Bottoms == {b \in Tree : Len(b) > S /\ (Len(b) - S) % K = 0}
Parts(p) == \E b \in Bottoms, q \in valid : Covers(p, b) /\ Above(b, q)

RouteAdd(p, h) ==
    LET Apply(u) == /\ poptrie_route_add(p, h, u.ok)
                    /\ IF p \notin valid THEN Updated(u) ELSE Untouched
                    /\ UNCHANGED parted
    IN  Apply(UpdateSubtree(mem, TreeAfterAdd(p, h), p))

RouteChange(p, h) ==
    LET Apply(u) == /\ poptrie_route_change(p, h, u.ok)
                    /\ IF p \in valid /\ nexthop[p] # AsLeaf(fib_ref(h)) THEN Updated(u) ELSE Untouched
                    /\ parted' = (parted \/ (p \in valid /\ Parts(p)))
    IN  Apply(UpdateSubtree(mem, TreeAfterChange(p, h), p))

RouteUpdate(p, h) ==
    LET Apply(u) == /\ poptrie_route_update(p, h, u.ok)
                    /\ IF p \in valid /\ nexthop[p] = AsLeaf(fib_ref(h)) THEN Untouched ELSE Updated(u)
                    /\ parted' = (parted \/ (p \in valid /\ Parts(p)))
        t == IF p \in valid THEN TreeAfterChange(p, h) ELSE TreeAfterAdd(p, h)
    IN  Apply(UpdateSubtree(mem, t, p))

RouteDel(p) ==
    LET Apply(u) == /\ poptrie_route_del(p, u.ok)
                    /\ IF p \in valid THEN Updated(u) ELSE Untouched
                    /\ parted' = (parted \/ (p \in valid /\ Parts(p)))
    IN  Apply(UpdateSubtree(mem, TreeAfterDel(p), p))

PoptrieNext ==
    /\ mem.exhausted => GoesOn
    /\ \E c \in Calls :
           \/ /\ \/ c.op = "add" /\ RouteAdd(c.p, c.h)
                 \/ c.op = "change" /\ RouteChange(c.p, c.h)
                 \/ c.op = "update" /\ RouteUpdate(c.p, c.h)
              /\ RefsBounded
           \/ c.op = "del" /\ RouteDel(c.p)

PoptrieSpec == PoptrieInit /\ [][PoptrieNext]_allVars

----------------------------------------------------------------------------
(* Properties *)

\* Internal nodes are well formed: a position is a child or a leaf, and the
\* direct pointers and bases are cells of the arrays.
PoptrieTypeOK ==
    /\ \A i \in DOMAIN mem.nodes :
          LET n == mem.nodes[i]
          IN  /\ n.vector \subseteq Pos /\ n.leafvec \subseteq Pos \ n.vector
              /\ n.vector # {} => n.base1 \in DOMAIN mem.nodes
              /\ n.leafvec # {} /\ n.base0 # -1 => n.base0 \in DOMAIN mem.leaves
    /\ \A r \in DirPos :
          LET e == mem.dir[r] IN IF e.leaf THEN e.val \in Leaf ELSE e.val \in DOMAIN mem.nodes
    /\ failed => mem.exhausted

Address == [1 .. KeyLength -> Bit]

\* Every address finds in the compressed trie what the longest matching prefix
\* of the RIB says ("The poptrie_lookup() function returns a next hop
\* corresponding to the addr argument.  If no matching entry is found, a NULL
\* value is returned.", README.md:122-124).
LookupIsLongestMatch ==
    \A a \in Address : Resolved(poptrie_lookup(mem, a)) = Resolved(rib_lookup(a))

\* What holds of all four operations, whatever parts were copied, rebuilt,
\* compressed or replaced: lookups are right until memory runs out or a route is
\* moved or removed above a block bottom that leads to a longer one.
LookupRightUnlessParted == ~ mem.exhausted /\ ~ parted => LookupIsLongestMatch

\* The arrays the trie refers to, as <<base, order>> read off the trie: one
\* per direct pointer that is a node, and those of the nodes.
Lasting(e) == IF e.leaf THEN {} ELSE {e.val}
RECURSIVE Below(_)
Below(inode) ==
    LET n == mem.nodes[inode]
    IN  {inode} \cup UNION {Below(ChildAt(n, i)) : i \in n.vector}
Reachable == UNION {Below(i) : i \in UNION {Lasting(mem.dir[r]) : r \in DirPos}}

NodeArrays ==
    {<<e.val, 0>> : e \in {mem.dir[r] : r \in {q \in DirPos : ~ mem.dir[q].leaf}}}
    \cup {<<n.base1, Order(Cardinality(n.vector))>> :
             n \in {mem.nodes[i] : i \in {j \in Reachable : mem.nodes[j].vector # {}}}}
LeafArrays ==
    {<<n.base0, Order(Cardinality(n.leafvec))>> :
        n \in {mem.nodes[i] : i \in {j \in Reachable : mem.nodes[j].leafvec # {}}}}

LastCells(arrays) == {a[1] + 2^a[2] - 1 : a \in arrays}

\* No use after free and no leak: the arrays the trie refers to are exactly the
\* ones the buddy systems have given out, each with its size, whatever mix of
\* copied, rebuilt, compressed and replaced parts the operations left.  A
\* failed allocation may leak, but never leaves a reference to freed memory.
MemoryExact ==
    /\ LastCells(NodeArrays) \subseteq mem.cnodes.flag
    /\ LastCells(LeafArrays) \subseteq mem.cleaves.flag
    /\ ~ mem.exhausted => /\ LastCells(NodeArrays) = mem.cnodes.flag
                   /\ LastCells(LeafArrays) = mem.cleaves.flag

\* No array is shared: two nodes never refer to the same children or leaves.
OwnedOnce ==
    \A i, j \in Reachable :
        i # j => /\ mem.nodes[i].base1 = mem.nodes[j].base1 => mem.nodes[i].base1 = -1
                 /\ mem.nodes[i].base0 = mem.nodes[j].base0 => mem.nodes[i].base0 = -1

\* The routes a step installs, moves or removes.
Touched == {p \in Prefix : nexthop'[p] # nexthop[p] \/ (p \in valid') # (p \in valid)}

\* An update that runs out of memory leaves every lookup as it was: the new
\* part is built aside, and nothing the trie refers to is written before the
\* last allocation has succeeded.  (Stated for routes of at least S bits; a
\* shorter one rebuilds several direct pointers one after the other.)
FailedUpdateChangesNothing ==
    [][~ failed /\ failed' /\ (\A p \in Touched : Len(p) >= S) =>
         \A a \in Address : poptrie_lookup(mem', a) = poptrie_lookup(mem, a)]_allVars

\* As long as every operation has returned 0, the trie follows the RIB even
\* when memory is short ("On successful, the poptrie_route_add() [...]
\* functions return a value of 0.  Otherwise, they return a value of -1.",
\* README.md:118-120).
SuccessMeansUpdated == ~ failed => LookupIsLongestMatch

=============================================================================
