------------------------------- MODULE MbNode -------------------------------
(***************************************************************************)
(* The multibit nodes of the tree bitmap (modified_tree_bitmap/mb_node.c)  *)
(* and the operations on a trie of them (bitmap_v4.c).                     *)
(* A node has two bitmaps, here the sets of the positions that are set, and*)
(* one block of memory that holds the next hops of the internal bitmap     *)
(* (rules) and the nodes of the external one (children), both in the order *)
(* of falling positions.  The tables have no holes: a position is found by *)
(* counting bits.                                                          *)
(*                                                                         *)
(* A trie is a function from the addresses of its nodes to the nodes; a    *)
(* node's address is the bit string that led to it when it was made, the   *)
(* root's is <<>>.                                                         *)
(***************************************************************************)
EXTENDS BitStrings, SequencesExt

CONSTANTS STRIDE,    \* the bits a node consumes (6 in the code)
          NULL

ASSUME StrideAssumption == STRIDE \in Nat \ {0}

\* calloc: a node with both bitmaps empty.
EmptyNode  == [internal |-> {}, external |-> {}, rules |-> <<>>, children |-> <<>>]
IsEmpty(n) == n.internal = {} /\ n.external = {}
EmptyTrie  == [d \in {<<>>} |-> EmptyNode]

Value(bits) ==
    LET value[k \in 0 .. Len(bits)] == IF k = 0 THEN 0 ELSE 2 * value[k - 1] + bits[k]
    IN  value[Len(bits)]

\* ip << n, then ip >> (LENGTH - STRIDE); the bits behind a prefix are zero.
StrideAt(p, n) == [k \in 1 .. STRIDE |-> IF n + k <= Len(p) THEN p[n + k] ELSE 0]
RestAt(p, n)   == SubSeq(p, n + 1, Len(p))

Strides == [1 .. STRIDE -> Bit]
Shorts  == UNION {[1 .. n -> Bit] : n \in 0 .. STRIDE - 1}

\* The positions of a prefix shorter than a stride and of a stride.
count_inl_bitmap(bits) == 2^Len(bits) + Value(bits) - 1
count_enl_bitmap(stride) == Value(stride)

\* The set bits above pos, if pos is set.
count_ones(bitmap, pos) == Cardinality({b \in bitmap : b >= pos}) - 1

Rule(n, pos)  == n.rules[count_ones(n.internal, pos) + 1]
Child(n, pos) == n.children[count_ones(n.external, pos) + 1]

----------------------------------------------------------------------------
(* The block of a node grows and shrinks.  Rules are counted from 1, children *)
(* from 0.                                                                 *)

\* Mutant: a new rule always goes to the end of the table.
ExtendRuleLast(node, pos, nhi) == [node EXCEPT !.rules = Append(@, nhi)]
extend_rule(node, pos, nhi)   == [node EXCEPT !.rules = InsertAt(@, pos, nhi)]
extend_child(node, pos, next) == [node EXCEPT !.children = InsertAt(@, pos + 1, next)]
reduce_rule(node, pos)        == [node EXCEPT !.rules = RemoveAt(@, pos)]
reduce_child(node, pos)       == [node EXCEPT !.children = RemoveAt(@, pos + 1)]

----------------------------------------------------------------------------
(* Searching one node *)

\* fast_table_init: the positions of all prefixes of a stride (fct).
fct(stride) == {count_inl_bitmap(SubSeq(stride, 1, j)) : j \in 0 .. STRIDE - 1}

\* The position of the longest prefix of the stride, or -1.
tree_function(bitmap, stride) ==
    LET hits == fct(stride) \cap bitmap
    IN  IF hits = {} THEN -1 ELSE Max(hits)

\* The length (mask) of the longest prefix of the stride that is shorter than
\* limit_inside, or -1.
find_overlap_in_node(bitmap, stride, limit_inside) ==
    LET hits == {j \in 0 .. limit_inside - 1 : count_inl_bitmap(SubSeq(stride, 1, j)) \in bitmap}
    IN  IF hits = {} THEN -1 ELSE Max(hits)

----------------------------------------------------------------------------
(* Walking down a trie *)

\* The node (one or none) a walk along p is at after k steps: a step goes to the
\* child of the next stride, if its bit is set and at most limit bits are used.
Walk(t, p, limit) ==
    LET pos(d) == count_enl_bitmap(StrideAt(p, Len(d)))
        at[k \in 0 .. limit] ==
            IF k = 0 THEN {<<>>}
            ELSE {Child(t[d], pos(d)) :
                     d \in {d \in at[k - 1] : Len(d) + STRIDE <= limit /\ pos(d) \in t[d].external}}
    IN  at

\* The nodes a walk passes.
Way(t, p, limit) == UNION {Walk(t, p, limit)[k] : k \in 0 .. limit}

\* p ends in node d, at this position of its internal bitmap.
EndsIn(p, d) == Len(p) < Len(d) + STRIDE
RulePos(p, d)  == count_inl_bitmap(RestAt(p, Len(d)))
ChildPos(p, d) == count_enl_bitmap(StrideAt(p, Len(d)))

\* The addresses along p.
Aligned(n) == \E step \in 0 .. n : n = step * STRIDE
Stops(p)   == {SubSeq(p, 1, n) : n \in {n \in 0 .. Len(p) : Aligned(n)}}

\* The node furthest down.
Deepest(S) == CHOOSE d \in S : \A e \in S : Len(e) <= Len(d)

----------------------------------------------------------------------------
(* The operations on a trie *)

\* The last node on the way to a prefix gets its rule, or a new next hop for it.
with_rule(node, pos, nhi) ==
    LET set == [node EXCEPT !.internal = @ \cup {pos}]
    IN  IF pos \in node.internal
        THEN [node EXCEPT !.rules[count_ones(node.internal, pos) + 1] = nhi]
        ELSE extend_rule(set, count_ones(set.internal, pos) + 1, nhi)

\* The others get a child, unless they have it.
with_child(node, pos, next) ==
    LET set == [node EXCEPT !.external = @ \cup {pos}]
    IN  IF pos \in node.external THEN node
        ELSE extend_child(set, count_ones(set.external, pos), next)

insert_entry(t, p, nhi) ==
    LET made    == Stops(p) \ DOMAIN t
        way     == Way(t, p, Len(p)) \cup made
        node(d) == IF d \in made THEN EmptyNode ELSE t[d]
    IN  [d \in DOMAIN t \cup made |->
            IF d \notin way THEN t[d]
            ELSE IF EndsIn(p, d) THEN with_rule(node(d), RulePos(p, d), nhi)
            ELSE with_child(node(d), ChildPos(p, d), d \o StrideAt(p, Len(d)))]

without_rule(node, pos) ==
    LET n == reduce_rule(node, count_ones(node.internal, pos) + 1)
    IN  [n EXCEPT !.internal = @ \ {pos}]

\* Mutant: a node that has become empty stays.
PrunedNot(node, pos) == node
\* update_nodes above the deleted rule: a child that has become empty goes.
Pruned(node, pos) ==
    LET n == reduce_child(node, count_ones(node.external, pos))
    IN  [n EXCEPT !.external = @ \ {pos}]

\* A node of the way to p that is empty if the rule or the child on the way goes.
Spent(t, p, d) ==
    IF EndsIn(p, d)
    THEN t[d].internal \subseteq {RulePos(p, d)} /\ t[d].external = {}
    ELSE t[d].internal = {} /\ t[d].external \subseteq {ChildPos(p, d)}

\* The nodes update_nodes gives back, from the last one up to the first that is
\* not empty; the root stays.
Freed(t, p) ==
    LET way == Way(t, p, Len(p))
    IN  {d \in way : d # <<>> /\ \A e \in way : Len(d) <= Len(e) => Spent(t, p, e)}

\* delete_entry and update_nodes; the prefix is there.
delete_entry(t, p) ==
    LET way   == Way(t, p, Len(p))
        freed == Freed(t, p)
    IN  [d \in DOMAIN t \ freed |->
            IF d \notin way THEN t[d]
            ELSE IF EndsIn(p, d) THEN without_rule(t[d], RulePos(p, d))
            ELSE IF Child(t[d], ChildPos(p, d)) \in freed THEN Pruned(t[d], ChildPos(p, d))
            ELSE t[d]]

\* The next hop of prefix p, or NULL (prefix_exist walks the same way).
NhiOf(t, p) ==
    LET found == {d \in Way(t, p, Len(p)) : EndsIn(p, d) /\ RulePos(p, d) \in t[d].internal}
    IN  IF found = {} THEN NULL
        ELSE LET d == Deepest(found) IN Rule(t[d], RulePos(p, d))

\* The next hops of a trie with their prefixes.
RulesOf(t) ==
    {<<x[1] \o x[2], Rule(t[x[1]], count_inl_bitmap(x[2]))>> :
        x \in {x \in (DOMAIN t) \X Shorts : count_inl_bitmap(x[2]) \in t[x[1]].internal}}

----------------------------------------------------------------------------
(* Searching a trie *)

\* A search may look at a last stride that is padded.
Reach(ip) == Len(ip) + STRIDE

HitPos(t, ip, d) == tree_function(t[d].internal, StrideAt(ip, Len(d)))
Hits(t, ip, S)   == {d \in S : HitPos(t, ip, d) # -1}
Hit(t, ip, d)    == Rule(t[d], HitPos(t, ip, d))

\* do_search: every node on the way is searched, the last hit counts.
do_search(t, ip) ==
    LET hits(k) == Hits(t, ip, Walk(t, ip, Reach(ip))[k])
        longest[k \in 0 .. Reach(ip)] ==
            IF hits(k) # {} THEN Hit(t, ip, Deepest(hits(k)))
            ELSE IF k = 0 THEN NULL ELSE longest[k - 1]
    IN  longest[Reach(ip)]

\* Mutant: the nodes are not searched on the way back.
LazyLast(t, ip) ==
    LET last == Deepest(Way(t, ip, Reach(ip)))
    IN  IF HitPos(t, ip, last) = -1 THEN NULL ELSE Hit(t, ip, last)
\* do_search_lazy: down as far as the external bitmaps lead, then back up
\* (lazy_mark) to the first node with a hit.
do_search_lazy(t, ip) ==
    LET hits == Hits(t, ip, Way(t, ip, Reach(ip)))
    IN  IF hits = {} THEN NULL ELSE Hit(t, ip, Deepest(hits))

----------------------------------------------------------------------------
(* What holds of every node *)

\* The address of the node above and the stride that leads down from it.
Up(d)         == SubSeq(d, 1, Len(d) - STRIDE)
LastStride(d) == StrideAt(d, Len(d) - STRIDE)

\* A block has one cell for every bit that is set, and counting bits leads to
\* the node of the stride.
NodeExact(t, d) ==
    /\ t[d].internal \subseteq {count_inl_bitmap(b) : b \in Shorts}
    /\ t[d].external \subseteq {count_enl_bitmap(s) : s \in Strides}
    /\ Len(t[d].rules) = Cardinality(t[d].internal)
    /\ Len(t[d].children) = Cardinality(t[d].external)
    /\ \A s \in Strides : count_enl_bitmap(s) \in t[d].external =>
          d \o s \in DOMAIN t /\ Child(t[d], count_enl_bitmap(s)) = d \o s

\* Every node but the root is a child of the one above and not empty.
TrieExact(t) ==
    /\ <<>> \in DOMAIN t
    /\ \A d \in DOMAIN t : d \in Keys /\ Aligned(Len(d)) /\ NodeExact(t, d)
    /\ \A d \in DOMAIN t \ {<<>>} :
          /\ ~ IsEmpty(t[d])
          /\ Up(d) \in DOMAIN t /\ count_enl_bitmap(LastStride(d)) \in t[Up(d)].external

=============================================================================
