----------------------------- MODULE TreeBitmap -----------------------------
(***************************************************************************)
(* The tree bitmap (modified_tree_bitmap/bitmap_v4.c): a table indexed by  *)
(* the first INITIAL_BITS bits of an address, whose entries hold a next hop*)
(* or a trie of multibit nodes, and an auxiliary trie up_aux with every    *)
(* route as it was inserted.  Routes of at most INITIAL_BITS bits are      *)
(* spread over the entries they cover; when one is deleted, the nearest    *)
(* shorter one is taken from up_aux.                                       *)
(*                                                                         *)
(* An entry is a union in the code: ptr counts if the entry has no child,  *)
(* node if it has one.  hi is the upper half of the flags, the length of   *)
(* the route of at most INITIAL_BITS bits the entry stands for.            *)
(***************************************************************************)
EXTENDS MbNode

CONSTANTS INITIAL_BITS,
          Route      \* the pairs <<p, nhi>> that may be inserted

Prefix == {r[1] : r \in Route}
Nhi    == {r[2] : r \in Route}

\* Keys are LENGTH bits long; every next hop is made for one prefix.
ASSUME TreeBitmapAssumption ==
    /\ INITIAL_BITS \in 1 .. KeyLength
    /\ \A r \in Route : r = <<r[1], r[2]>>
    /\ Prefix \subseteq Keys
    /\ \A q, r \in Route : q[2] = r[2] => q = r
    /\ NULL \notin Nhi

VARIABLES init, up_aux,
          rib,          \* the routes the caller has inserted (history)
          destroyed     \* how often the last call handed a next hop to destroy_nhi (history)

vars == <<init, up_aux, rib, destroyed>>

Index == [1 .. INITIAL_BITS -> Bit]

\* calloc, and an entry that is cleared.
Blank == [hi |-> 0, flags |-> {}, ptr |-> NULL, node |-> EmptyTrie]

HasChild(e) == "CHILD" \in e.flags

\* The rest of a prefix below its entry.
Rest(p) == SubSeq(p, INITIAL_BITS + 1, Len(p))

None == [n \in Nhi |-> 0]

\* init_lookup_trie
Init ==
    /\ init = [i \in Index |-> Blank]
    /\ up_aux = EmptyTrie
    /\ rib = [p \in Prefix |-> NULL]
    /\ destroyed = None

----------------------------------------------------------------------------
(* Inserting *)

\* An entry covered by a route of at most INITIAL_BITS bits.
InsertedShort(e, p, nhi) ==
    IF e.hi > Len(p) THEN e
    ELSE IF HasChild(e)
    THEN [e EXCEPT !.hi = Len(p), !.flags = {"CHILD"}, !.node = insert_entry(@, <<>>, nhi)]
    ELSE [e EXCEPT !.hi = Len(p), !.flags = {"NEXT"}, !.ptr = nhi]

\* Mutant: INIT_HAS_A_NEXT stays set.
WithChildNext(e) ==
    [e EXCEPT !.flags = @ \cup {"CHILD"}, !.ptr = NULL,
              !.node = IF e.hi > 0 THEN insert_entry(@, <<>>, e.ptr) ELSE @]
\* An entry gets a trie; its next hop becomes the rule of the empty prefix.
WithChild(e) ==
    [e EXCEPT !.flags = (@ \ {"NEXT"}) \cup {"CHILD"}, !.ptr = NULL,
              !.node = IF e.hi > 0 THEN insert_entry(@, <<>>, e.ptr) ELSE @]

InsertedLong(e, p, nhi) ==
    [IF HasChild(e) THEN e ELSE WithChild(e) EXCEPT !.node = insert_entry(@, Rest(p), nhi)]

insert_prefix(p, nhi) ==
    /\ p # <<>>
    /\ init' = [i \in Index |->
                   IF Covers(p, i) THEN InsertedShort(init[i], p, nhi)
                   ELSE IF Covers(i, p) THEN InsertedLong(init[i], p, nhi)
                   ELSE init[i]]
    /\ up_aux' = insert_entry(up_aux, p, nhi)
    /\ rib' = [rib EXCEPT ![p] = nhi]
    /\ destroyed' = None

\* A default route is neither inserted nor deleted.
Ignored(p) ==
    /\ p = <<>>
    /\ UNCHANGED vars

----------------------------------------------------------------------------
(* Deleting *)

\* The longest rule shorter than org_limit on the way to p, from the nodes of S;
\* mask is its length, 0 if there is none.
Nearest(p, org_limit, S) ==
    LET mask(d) == find_overlap_in_node(up_aux[d].internal, StrideAt(p, Len(d)),
                                        Min({org_limit - Len(d), STRIDE}))
        hits    == {d \in S : mask(d) # -1}
        near    == Deepest(hits)
        prefix  == SubSeq(StrideAt(p, Len(near)), 1, mask(near))
    IN  IF hits = {} THEN [mask |-> 0, nhi |-> NULL]
        ELSE [mask |-> Len(near) + mask(near),
              nhi  |-> Rule(up_aux[near], count_inl_bitmap(prefix))]

\* Mutant: the node of the auxiliary trie at which the search starts is not left.
DetectOverlapRoot(p, leaf_pushing_bits) ==
    Nearest(p, Min({Len(p), leaf_pushing_bits}), {<<>>})
\* The longest route shorter than p and than leaf_pushing_bits: the nodes that
\* begin above this limit are searched, the last one with a hit counts.
detect_overlap(p, leaf_pushing_bits) ==
    LET org_limit == Min({Len(p), leaf_pushing_bits})
    IN  Nearest(p, org_limit, Way(up_aux, p, org_limit - 1))

\* An entry without a trie takes over the next route above, if there is one.
Leaf(near) ==
    IF near.mask = 0 THEN Blank
    ELSE [Blank EXCEPT !.hi = near.mask, !.flags = {"NEXT"}, !.ptr = near.nhi]

\* Mutant: the length of the deleted route stays in the flags.
WithoutRouteHi(e) ==
    LET n == delete_entry(e.node, <<>>)
    IN  IF IsEmpty(n[<<>>]) THEN Blank ELSE [e EXCEPT !.node = n]
\* The rule of the empty prefix goes (delete_entry, overlapping nothing).
WithoutRoute(e) ==
    LET n == delete_entry(e.node, <<>>)
    IN  IF IsEmpty(n[<<>>]) THEN Blank ELSE [e EXCEPT !.hi = 0, !.node = n]

\* The rule of the empty prefix is overwritten (overlap_nhi).
Overlapped(e, near) ==
    LET pos == count_inl_bitmap(<<>>)
    IN  [e EXCEPT !.hi = near.mask,
                  !.node[<<>>].rules[count_ones(e.node[<<>>].internal, pos) + 1] = near.nhi]

DeletedShort(e, p, near) ==
    IF e.hi > Len(p) THEN e
    ELSE IF ~ HasChild(e) THEN Leaf(near)
    ELSE IF near.mask = 0 THEN WithoutRoute(e)
    ELSE Overlapped(e, near)

DeletedLong(e, p, near) ==
    LET n == delete_entry(e.node, Rest(p))
    IN  IF IsEmpty(n[<<>>]) THEN Leaf(near) ELSE [e EXCEPT !.node = n]

\* The next hop an entry has for its route of at most INITIAL_BITS bits.
HandedBy(e) == IF HasChild(e) THEN NhiOf(e.node, <<>>) ELSE e.ptr

\* The entries that give up the next hop of p.
Leaving(p) == {i \in Index : Covers(p, i) /\ init[i].hi <= Len(p)}

\* Mutant: every entry hands the next hop over.
HandingAll(p) == Leaving(p)
\* The first entry hands the next hop over; then destroy_nhi is forgotten.
Handing(p) == {i \in Leaving(p) : \A j \in Leaving(p) : Value(i) <= Value(j)}

\* How often delete_prefix hands each next hop to destroy_nhi.
Handed(p) ==
    [n \in Nhi |->
        IF Len(p) <= INITIAL_BITS
        THEN Cardinality({i \in Handing(p) : HandedBy(init[i]) = n})
        ELSE Cardinality({i \in Index : Covers(i, p) /\ NhiOf(init[i].node, Rest(p)) = n})]

\* Deleting a prefix that is not there is undefined in the code: the caller's duty.
delete_prefix(p) ==
    /\ p # <<>>
    /\ rib[p] # NULL
    /\ LET near == detect_overlap(p, INITIAL_BITS)
       IN  init' = [i \in Index |->
                       IF Covers(p, i) THEN DeletedShort(init[i], p, near)
                       ELSE IF Covers(i, p) /\ HasChild(init[i]) THEN DeletedLong(init[i], p, near)
                       ELSE init[i]]
    /\ up_aux' = delete_entry(up_aux, p)
    /\ rib' = [rib EXCEPT ![p] = NULL]
    /\ destroyed' = Handed(p)

\* destroy_trie, and init_lookup_trie for the next table.  A route that is spread
\* over several entries is told apart by its prefix (nhi_ht); the other rules of
\* the tries are handed over one by one, those of up_aux are not.
destroy_trie ==
    LET key(i)   == SubSeq(i, 1, init[i].hi)
        first(i) == \A j \in Index : key(j) = key(i) => Value(i) <= Value(j)
    IN  /\ init' = [i \in Index |-> Blank]
        /\ up_aux' = EmptyTrie
        /\ rib' = [p \in Prefix |-> NULL]
        /\ destroyed' =
              [n \in Nhi |->
                  Cardinality({i \in Index : init[i].hi > 0 /\ first(i) /\ HandedBy(init[i]) = n})
                  + Cardinality({x \in UNION {{i} \X RulesOf(init[i].node) : i \in Index} :
                                    x[2][1] # <<>> /\ x[2][2] = n})]

Next ==
    \/ \E r \in Route : insert_prefix(r[1], r[2])
    \/ \E p \in Prefix : delete_prefix(p) \/ Ignored(p)
    \/ destroy_trie

Spec == Init /\ [][Next]_vars

----------------------------------------------------------------------------
(* Lookup *)

Address == [1 .. KeyLength -> Bit]

search(ip) ==
    LET e == init[SubSeq(ip, 1, INITIAL_BITS)]
    IN  IF HasChild(e) THEN do_search_lazy(e.node, Rest(ip))
        ELSE IF "NEXT" \in e.flags THEN e.ptr
        ELSE NULL

----------------------------------------------------------------------------
(* Properties *)

Routes == {p \in Prefix : rib[p] # NULL}

\* The longest route in S, or the empty prefix if there is none.
Longest(S) == IF S = {} THEN <<>> ELSE CHOOSE p \in S : \A q \in S : Len(q) <= Len(p)

\* An entry has at most one of its two flags and a length that fits into four
\* bits, and the next hops in use are ones a caller has made.
TypeOK ==
    /\ \A i \in Index : LET e == init[i]
                        IN  /\ e.flags \in {{}, {"CHILD"}, {"NEXT"}}
                            /\ e.hi \in 0 .. INITIAL_BITS
                            /\ e.ptr \in Nhi \cup {NULL}
                            /\ "NEXT" \in e.flags => e.hi > 0 /\ e.ptr # NULL
    /\ rib \in [Prefix -> Nhi \cup {NULL}]
    /\ destroyed \in [Nhi -> Nat]

\* Every block of every trie has exactly the cells its bitmaps say, so counting
\* bits finds them, and no call leaves an empty node behind: an entry has a trie
\* only if there is something in it.
BlocksExact ==
    /\ TrieExact(up_aux)
    /\ \A i \in Index : TrieExact(init[i].node) /\ (HasChild(init[i]) <=> ~ IsEmpty(init[i].node[<<>>]))

\* The auxiliary trie, from which deletions take the next shorter route, holds
\* exactly the caller's routes, whatever growing and shrinking of blocks led to it.
AuxIsRib == RulesOf(up_aux) = {<<p, rib[p]>> : p \in Routes}

\* Every entry follows from the routes alone, not from the order in which they
\* came and went: its length and next hop are those of the longest route that
\* covers it, and its trie holds the longer routes below it.  (A trie stays when
\* the last longer route goes, as long as a route covers the entry.)
EntriesFollowRib ==
    \A i \in Index :
        LET e     == init[i]
            cover == Longest({p \in Routes : Covers(p, i)})
            below == {p \in Routes : Above(i, p)}
        IN  /\ e.hi = Len(cover)
            /\ below # {} => HasChild(e)
            /\ HasChild(e) => below # {} \/ cover # <<>>
            /\ e.hi > 0 => HandedBy(e) = rib[cover]
            /\ {r \in RulesOf(e.node) : r[1] # <<>>} = {<<Rest(p), rib[p]>> : p \in below}

\* A search returns the next hop of the longest matching route, and so it does
\* when it looks at the internal bitmaps only on the way back (USE_LAZY).
SearchIsLongestMatch ==
    \A ip \in Address :
        LET best == Longest({p \in Routes : Covers(p, ip)})
        IN  search(ip) = IF best = <<>> THEN NULL ELSE rib[best]

\* Both variants of the search return the same, on every trie the program builds.
LazyAgrees ==
    \A i \in Index, ip \in [1 .. KeyLength - INITIAL_BITS -> Bit] :
        do_search_lazy(init[i].node, ip) = do_search(init[i].node, ip)

\* A route that some entry knows of: longer than INITIAL_BITS, or not hidden by
\* longer ones of at most INITIAL_BITS bits.
Known(p) ==
    \/ Len(p) > INITIAL_BITS
    \/ \E i \in Index : Covers(p, i) /\ \A q \in Routes : Above(p, q) => ~ Covers(q, i)

\* A next hop is handed to destroy_nhi exactly once, by the call that takes its
\* route away, however many entries the route is spread over.  Never handed over
\* are the next hop of a route that no entry knows of, and one that is replaced
\* when its route is inserted again with another.
DestroyedOnce ==
    [][\A r \in Route :
          destroyed'[r[2]] = IF rib[r[1]] = r[2] /\ rib'[r[1]] = NULL /\ Known(r[1]) THEN 1 ELSE 0]_vars

=============================================================================
