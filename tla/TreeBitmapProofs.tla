-------------------------- MODULE TreeBitmapProofs --------------------------
(***************************************************************************)
(* Proofs about the tree bitmap: after every call the table follows from   *)
(* the caller's routes alone, both searches return the next hop of the     *)
(* longest matching route, and every next hop is handed over exactly once. *)
(***************************************************************************)
EXTENDS TreeBitmap, MbNodeProofs

----------------------------------------------------------------------------
(* The invariant *)

\* The routes of a table R of the caller's next hops.
RoutesOf(R) == {p \in Prefix : R[p] # NULL}

\* The route of at most INITIAL_BITS bits that entry i stands for, <<>> if there
\* is none, and the routes below it.
CoverOf(i, R) == Longest({p \in RoutesOf(R) : Covers(p, i)})
BelowOf(i, R) == {p \in RoutesOf(R) : Above(i, p)}

RibFollows(R) ==
    /\ R \in [Prefix -> Nhi \cup {NULL}]
    /\ \A p \in RoutesOf(R) : <<p, R[p]>> \in Route /\ p # <<>>

\* The auxiliary trie has the rules R and no others.
AuxFollows(t, R) ==
    /\ Exact(Nhi, t)
    /\ \A q \in Seq(Bit) : \A x : RuleAt(t, q, x) <=> q \in RoutesOf(R) /\ x = R[q]

\* Trie t of entry i has the routes below i, and if own holds the route the
\* entry stands for as the rule of the empty prefix.
TrieFollows(t, i, R, own) ==
    /\ Exact(Nhi, t) /\ \A d \in DOMAIN t : Len(d) <= KeyLength - INITIAL_BITS
    /\ \A q \in Seq(Bit) : \A x :
          RuleAt(t, q, x) <=> \/ q = <<>> /\ own /\ x = R[CoverOf(i, R)]
                              \/ \E p \in BelowOf(i, R) : q = Rest(p) /\ x = R[p]

EntryFollows(e, i, R) ==
    /\ e = [hi |-> e.hi, flags |-> e.flags, ptr |-> e.ptr, node |-> e.node]
    /\ e.hi = Len(CoverOf(i, R))
    /\ TrieFollows(e.node, i, R, HasChild(e) /\ e.hi > 0)
    /\ HasChild(e) => e.flags = {"CHILD"} /\ e.ptr = NULL /\ ~ IsEmpty(e.node[<<>>])
    /\ ~ HasChild(e) => /\ e.node = EmptyTrie
                        /\ IF e.hi > 0 THEN e.flags = {"NEXT"} /\ e.ptr = R[CoverOf(i, R)]
                           ELSE e.flags = {} /\ e.ptr = NULL

\* Everything follows from the caller's routes.
Follows ==
    /\ RibFollows(rib)
    /\ AuxFollows(up_aux, rib)
    /\ init = [i \in Index |-> init[i]]
    /\ \A i \in Index : EntryFollows(init[i], i, rib)

----------------------------------------------------------------------------
(* Keys, entries and routes *)

\* A bit sequence that is not too long is a key.
LEMMA BitsAreKeys ==
    ASSUME NEW s \in Seq(Bit), Len(s) <= KeyLength
    PROVE  s \in Keys
PROOF
    <1>1. Len(s) \in 0 .. KeyLength /\ s \in [1 .. Len(s) -> Bit]
        BY KeyLengthAssumption
    <1> QED
        BY <1>1 DEF Keys

\* The first table takes some bits of a key, or all of them.
LEMMA Initial == INITIAL_BITS \in Nat /\ 0 < INITIAL_BITS /\ INITIAL_BITS <= KeyLength /\ KeyLength \in Nat
PROOF
    BY TreeBitmapAssumption, KeyLengthAssumption

\* The empty prefix is a key.
LEMMA EmptyKey == <<>> \in Keys /\ <<>> \in Seq(Bit) /\ Len(<<>>) = 0
PROOF
    <1>1. <<>> \in Seq(Bit) /\ Len(<<>>) = 0
        BY EmptyLength
    <1>2. Len(<<>>) <= KeyLength
        BY <1>1, KeyLengthAssumption
    <1>3. <<>> \in Keys
        BY <1>1, <1>2, BitsAreKeys
    <1> QED
        BY <1>1, <1>3

\* An entry is indexed by a key of INITIAL_BITS bits.
LEMMA IndexIsKey ==
    ASSUME NEW i \in Index
    PROVE  i \in Keys /\ i \in Seq(Bit) /\ Len(i) = INITIAL_BITS
PROOF
    <1>1. INITIAL_BITS \in 0 .. KeyLength
        BY Initial
    <1>2. i \in Keys /\ Len(i) = INITIAL_BITS
        BY <1>1, KeysOfLength DEF Index
    <1> QED
        BY <1>2, KeyIsSeq

\* The routes are keys with next hops of their own.
LEMMA RouteIs ==
    ASSUME NEW R, RibFollows(R), NEW p \in RoutesOf(R)
    PROVE  /\ p \in Prefix /\ p \in Keys /\ p \in Seq(Bit) /\ p # <<>> /\ Len(p) \in Nat /\ Len(p) > 0
           /\ Len(p) <= KeyLength
           /\ R[p] \in Nhi /\ R[p] # NULL /\ <<p, R[p]>> \in Route
PROOF
    <1>1. p \in Prefix /\ R[p] # NULL /\ R[p] \in Nhi /\ p # <<>> /\ <<p, R[p]>> \in Route
        BY DEF RibFollows, RoutesOf
    <1>2. p \in Keys
        BY <1>1, TreeBitmapAssumption
    <1>3. p \in Seq(Bit) /\ Len(p) \in Nat /\ Len(p) <= KeyLength
        BY <1>2, KeyIsSeq, KeyLengthAssumption
    <1>4. Len(p) # 0
        BY <1>1, <1>3, EmptyLength
    <1> QED
        BY <1>1, <1>2, <1>3, <1>4

\* A next hop belongs to one route.
LEMMA OneNhi ==
    ASSUME NEW R, RibFollows(R), NEW p \in RoutesOf(R), NEW r \in Route, R[p] = r[2]
    PROVE  p = r[1]
PROOF
    <1>1. <<p, R[p]>> \in Route
        BY RouteIs
    <1>2. <<p, R[p]>> = r
        <2>1. <<p, R[p]>>[2] = r[2]
            OBVIOUS
        <2> QED
            BY <1>1, <2>1, TreeBitmapAssumption
    <1> QED
        BY <1>2

\* The rest of a prefix below entry i.
LEMMA RestIs ==
    ASSUME NEW i \in Index, NEW p \in Keys, Covers(i, p)
    PROVE  /\ Rest(p) \in Keys /\ Rest(p) \in Seq(Bit) /\ Len(Rest(p)) = Len(p) - INITIAL_BITS
           /\ Len(Rest(p)) <= KeyLength - INITIAL_BITS
           /\ i \o Rest(p) = p
           /\ Rest(p) = <<>> <=> p = i
PROOF
    <1>1. /\ i \in Keys /\ i \in Seq(Bit) /\ Len(i) = INITIAL_BITS /\ p \in Seq(Bit) /\ Len(p) \in Nat
          /\ Len(p) <= KeyLength /\ INITIAL_BITS \in Nat /\ KeyLength \in Nat
        BY IndexIsKey, KeyIsSeq, Initial
    <1>2. Rest(p) = RestAt(p, Len(i))
        BY <1>1 DEF Rest, RestAt
    <1>3. Rest(p) \in Seq(Bit) /\ Len(Rest(p)) = Len(p) - INITIAL_BITS /\ i \o Rest(p) = p
        BY <1>1, <1>2, RestIsShort
    <1>4. Rest(p) \in Keys
        BY <1>1, <1>3, BitsAreKeys
    <1>5. ASSUME Rest(p) = <<>> PROVE p = i
        <2>1. Len(i) >= Len(p)
            BY <1>1, <1>3, <1>5, EmptyLength
        <2> QED
            BY <1>1, <2>1, SameLengthSame
    <1>6. ASSUME p = i PROVE Rest(p) = <<>>
        <2>1. Len(Rest(p)) = 0
            BY <1>1, <1>3, <1>6
        <2> QED
            BY <1>3, <2>1, EmptyLength
    <1> QED
        BY <1>1, <1>3, <1>4, <1>5, <1>6

\* A prefix below an entry is longer than INITIAL_BITS; it is told from its rest.
LEMMA BelowIs ==
    ASSUME NEW R, RibFollows(R), NEW i \in Index, NEW p \in BelowOf(i, R)
    PROVE  /\ p \in RoutesOf(R) /\ p \in Keys /\ Covers(i, p) /\ ~ Covers(p, i)
           /\ Len(p) > INITIAL_BITS /\ Rest(p) # <<>> /\ Rest(p) \in Seq(Bit) /\ Rest(p) \in Keys
           /\ \A q \in Keys : Covers(i, q) /\ Rest(q) = Rest(p) => q = p
PROOF
    <1>1. p \in RoutesOf(R) /\ p \in Keys /\ Covers(i, p) /\ p # i
        BY RouteIs DEF BelowOf, Above
    <1>2. i \in Keys /\ Len(i) = INITIAL_BITS /\ Len(p) \in Nat /\ INITIAL_BITS \in Nat
        BY <1>1, IndexIsKey, KeyIsSeq, Initial
    <1>3. Len(p) > INITIAL_BITS
        <2>1. Len(i) < Len(p)
            BY <1>1, <1>2, AboveShorter DEF Above
        <2> QED
            BY <1>2, <2>1
    <1>4. ~ Covers(p, i)
        BY <1>2, <1>3 DEF Covers
    <1>5. Rest(p) # <<>> /\ Rest(p) \in Seq(Bit) /\ Rest(p) \in Keys /\ i \o Rest(p) = p
        BY <1>1, RestIs
    <1>6. ASSUME NEW q \in Keys, Covers(i, q), Rest(q) = Rest(p) PROVE q = p
        BY <1>5, <1>6, RestIs
    <1> QED
        BY <1>1, <1>3, <1>4, <1>5, <1>6

\* c is the longest route that covers i, <<>> if there is none.
IsCover(i, R, c) ==
    /\ \A q \in RoutesOf(R) : Covers(q, i) => c \in RoutesOf(R) /\ Len(q) <= Len(c)
    /\ c \in RoutesOf(R) => Covers(c, i)
    /\ c \notin RoutesOf(R) => c = <<>>

\* CoverOf is such a route.
LEMMA CoverIs ==
    ASSUME NEW R, RibFollows(R), NEW i
    PROVE  IsCover(i, R, CoverOf(i, R))
PROOF
    <1> DEFINE S == {p \in RoutesOf(R) : Covers(p, i)}
               c == CHOOSE p \in S : \A q \in S : Len(q) <= Len(p)
    <1>1. CoverOf(i, R) = IF S = {} THEN <<>> ELSE c
        BY DEF CoverOf, Longest
    <1>2. CASE S = {}
        <2>1. CoverOf(i, R) = <<>> /\ <<>> \notin RoutesOf(R)
            BY <1>1, <1>2, RouteIs
        <2> QED
            BY <1>2, <2>1 DEF IsCover
    <1>3. CASE S # {}
        <2>1. S \in SUBSET Keys
            BY RouteIs
        <2>2. \E p \in S : \A q \in S : Len(q) <= Len(p)
            <3> HIDE DEF S
            <3> QED
                BY <1>3, <2>1, LongestExists
        <2>3. c \in S /\ \A q \in S : Len(q) <= Len(c)
            <3> HIDE DEF S
            <3> QED
                BY <2>2, Zenon
        <2> HIDE DEF c
        <2>4. CoverOf(i, R) = c
            BY <1>1, <1>3
        <2> QED
            BY <2>3, <2>4 DEF IsCover
    <1> QED
        BY <1>2, <1>3

\* There is only one.
LEMMA CoverUnique ==
    ASSUME NEW R, RibFollows(R), NEW i \in Keys, NEW c, IsCover(i, R, c)
    PROVE  CoverOf(i, R) = c
PROOF
    <1> DEFINE b == CoverOf(i, R)
    <1>1. IsCover(i, R, b)
        BY CoverIs
    <1> HIDE DEF b
    <1>2. CASE c \in RoutesOf(R)
        <2>1. Covers(c, i) /\ b \in RoutesOf(R) /\ Covers(b, i)
            BY <1>1, <1>2 DEF IsCover
        <2>2. Len(b) <= Len(c) /\ Len(c) <= Len(b)
            BY <1>1, <2>1, <1>2 DEF IsCover
        <2>3. b \in Keys /\ c \in Keys /\ Len(b) \in Nat /\ Len(c) \in Nat /\ Len(i) \in Nat
            <3>1. b \in Keys /\ c \in Keys
                BY <1>2, <2>1, RouteIs
            <3> QED
                BY <3>1, KeyIsSeq
        <2>4. Covers(b, c) /\ Len(b) >= Len(c)
            BY <2>1, <2>2, <2>3, Comparable
        <2>5. b = c
            BY <2>3, <2>4, SameLengthSame
        <2> QED
            BY <2>5 DEF b
    <1>3. CASE c \notin RoutesOf(R)
        <2>1. c = <<>> /\ \A q \in RoutesOf(R) : ~ Covers(q, i)
            BY <1>3 DEF IsCover
        <2>2. b = <<>>
            BY <1>1, <2>1 DEF IsCover
        <2> QED
            BY <2>1, <2>2 DEF b
    <1> QED
        BY <1>2, <1>3

\* The length of the route tells whether there is one.
LEMMA CoverLength ==
    ASSUME NEW R, RibFollows(R), NEW i \in Index, NEW c, c = CoverOf(i, R)
    PROVE  /\ Len(c) \in 0 .. INITIAL_BITS /\ c \in Keys
           /\ Len(c) > 0 <=> c \in RoutesOf(R)
           /\ c \in RoutesOf(R) => Covers(c, i)
           /\ c \notin RoutesOf(R) => c = <<>> /\ \A q \in RoutesOf(R) : ~ Covers(q, i)
           /\ \A q \in RoutesOf(R) : Covers(q, i) => c \in RoutesOf(R) /\ Len(q) <= Len(c)
PROOF
    <1>1. IsCover(i, R, c)
        BY CoverIs
    <1>2. Len(i) = INITIAL_BITS /\ INITIAL_BITS \in Nat
        BY IndexIsKey, Initial
    <1>3. CASE c \in RoutesOf(R)
        <2>1. Covers(c, i) /\ c \in Keys /\ Len(c) \in Nat /\ Len(c) > 0
            BY <1>1, <1>3, RouteIs DEF IsCover
        <2>2. Len(c) <= INITIAL_BITS
            BY <1>2, <2>1 DEF Covers
        <2> QED
            BY <1>1, <1>2, <1>3, <2>1, <2>2 DEF IsCover
    <1>4. CASE c \notin RoutesOf(R)
        <2>1. c = <<>> /\ \A q \in RoutesOf(R) : ~ Covers(q, i)
            BY <1>1, <1>4 DEF IsCover
        <2>2. Len(c) = 0 /\ c \in Keys
            BY <2>1, EmptyKey
        <2> QED
            BY <1>1, <1>2, <1>4, <2>1, <2>2 DEF IsCover
    <1> QED
        BY <1>3, <1>4

----------------------------------------------------------------------------
(* A route comes or goes *)

\* R2 has the route p with the next hop nhi, and the other routes of R.
RibWith(R, p, nhi, R2) ==
    /\ RibFollows(R2) /\ RoutesOf(R2) = RoutesOf(R) \cup {p} /\ R2[p] = nhi
    /\ \A q \in RoutesOf(R) : q # p => R2[q] = R[q]
    /\ nhi \in Nhi /\ p \in Keys

\* R2 is R after the route p was inserted with nhi.
LEMMA RibSet ==
    ASSUME NEW R, RibFollows(R), NEW p, NEW nhi, <<p, nhi>> \in Route, p # <<>>,
           NEW R2, R2 = [R EXCEPT ![p] = nhi]
    PROVE  RibWith(R, p, nhi, R2)
PROOF
    <1>1. p \in Prefix /\ nhi \in Nhi
        <2>1. <<p, nhi>>[1] = p /\ <<p, nhi>>[2] = nhi
            OBVIOUS
        <2> QED
            BY <2>1 DEF Prefix, Nhi
    <1>2. nhi # NULL /\ p \in Keys
        BY <1>1, TreeBitmapAssumption
    <1>3. R \in [Prefix -> Nhi \cup {NULL}]
        BY DEF RibFollows
    <1>4. R2 \in [Prefix -> Nhi \cup {NULL}] /\ R2[p] = nhi /\ \A q \in Prefix : q # p => R2[q] = R[q]
        BY <1>1, <1>3
    <1>5. RoutesOf(R2) = RoutesOf(R) \cup {p}
        BY <1>1, <1>2, <1>4 DEF RoutesOf
    <1>6. \A q \in RoutesOf(R) : q # p => R2[q] = R[q]
        BY <1>4 DEF RoutesOf
    <1>7. \A q \in RoutesOf(R2) : <<q, R2[q]>> \in Route /\ q # <<>>
        BY <1>4, <1>5, <1>6 DEF RibFollows
    <1> QED
        BY <1>1, <1>2, <1>4, <1>5, <1>6, <1>7 DEF RibFollows, RibWith

\* R2 has the routes of R but p.
RibWithout(R, p, R2) ==
    /\ RibFollows(R2) /\ RoutesOf(R2) = RoutesOf(R) \ {p} /\ R2[p] = NULL
    /\ \A q \in RoutesOf(R2) : R2[q] = R[q]

\* R2 is R after the route p was deleted.
LEMMA RibCleared ==
    ASSUME NEW R, RibFollows(R), NEW p \in RoutesOf(R), NEW R2, R2 = [R EXCEPT ![p] = NULL]
    PROVE  RibWithout(R, p, R2)
PROOF
    <1>1. R \in [Prefix -> Nhi \cup {NULL}] /\ p \in Prefix
        BY DEF RibFollows, RoutesOf
    <1>2. R2 \in [Prefix -> Nhi \cup {NULL}] /\ R2[p] = NULL /\ \A q \in Prefix : q # p => R2[q] = R[q]
        BY <1>1
    <1>3. RoutesOf(R2) = RoutesOf(R) \ {p}
        BY <1>2 DEF RoutesOf
    <1>4. \A q \in RoutesOf(R2) : R2[q] = R[q]
        BY <1>2, <1>3 DEF RoutesOf
    <1>5. \A q \in RoutesOf(R2) : <<q, R2[q]>> \in Route /\ q # <<>>
        BY <1>3, <1>4 DEF RibFollows
    <1> QED
        BY <1>2, <1>3, <1>4, <1>5 DEF RibFollows, RibWithout

\* The auxiliary trie follows an insertion and a deletion.
LEMMA AuxInserted ==
    ASSUME NEW R, NEW p, NEW nhi, NEW R2, RibWith(R, p, nhi, R2), NEW t, AuxFollows(t, R)
    PROVE  AuxFollows(insert_entry(t, p, nhi), R2)
PROOF
    <1> DEFINE u == insert_entry(t, p, nhi)
    <1>1. /\ RoutesOf(R2) = RoutesOf(R) \cup {p} /\ R2[p] = nhi
          /\ \A q \in RoutesOf(R) : q # p => R2[q] = R[q]
          /\ nhi \in Nhi /\ p \in Keys
        BY DEF RibWith
    <1>2. Exact(Nhi, t)
        BY DEF AuxFollows
    <1>3. Inserted(Nhi, t, p, nhi, u)
        BY <1>1, <1>2, InsertWrites
    <1> HIDE DEF u
    <1>4. Exact(Nhi, u)
        BY <1>1, <1>2, <1>3, InsertExact
    <1>5. ASSUME NEW q \in Seq(Bit), NEW x
          PROVE  RuleAt(u, q, x) <=> q \in RoutesOf(R2) /\ x = R2[q]
        <2>1. RuleAt(u, q, x) <=> IF q = p THEN x = nhi ELSE RuleAt(t, q, x)
            BY <1>1, <1>2, <1>3, InsertRules
        <2>2. RuleAt(t, q, x) <=> q \in RoutesOf(R) /\ x = R[q]
            BY DEF AuxFollows
        <2> QED
            BY <1>1, <2>1, <2>2
    <1> QED
        BY <1>4, <1>5 DEF AuxFollows, u

\* The same for a deletion.
LEMMA AuxDeleted ==
    ASSUME NEW R, RibFollows(R), NEW p \in RoutesOf(R), NEW R2, RibWithout(R, p, R2),
           NEW t, AuxFollows(t, R)
    PROVE  AuxFollows(delete_entry(t, p), R2)
PROOF
    <1> DEFINE u == delete_entry(t, p)
    <1>1. RoutesOf(R2) = RoutesOf(R) \ {p} /\ \A q \in RoutesOf(R2) : R2[q] = R[q]
        BY DEF RibWithout
    <1>2. Exact(Nhi, t) /\ p \in Keys /\ p \in Seq(Bit)
        BY RouteIs DEF AuxFollows
    <1>3. RuleAt(t, p, R[p])
        BY <1>2 DEF AuxFollows
    <1>4. Deleted(Nhi, t, p, u)
        BY <1>2, <1>3, DeleteWrites
    <1> HIDE DEF u
    <1>5. Exact(Nhi, u)
        BY <1>2, <1>4, DeleteExact
    <1>6. ASSUME NEW q \in Seq(Bit), NEW x
          PROVE  RuleAt(u, q, x) <=> q \in RoutesOf(R2) /\ x = R2[q]
        <2>1. RuleAt(u, q, x) <=> q # p /\ RuleAt(t, q, x)
            BY <1>2, <1>4, DeleteRules
        <2>2. RuleAt(t, q, x) <=> q \in RoutesOf(R) /\ x = R[q]
            BY DEF AuxFollows
        <2> QED
            BY <1>1, <2>1, <2>2
    <1> QED
        BY <1>5, <1>6 DEF AuxFollows, u

\* The routes below i have not changed.
SameBelow(i, R, R2) == BelowOf(i, R2) = BelowOf(i, R) /\ \A q \in BelowOf(i, R) : R2[q] = R[q]

\* insert_entry with the empty prefix gives a trie its own rule.
LEMMA TrieOwned ==
    ASSUME NEW R, RibFollows(R), NEW R2, NEW i \in Index, NEW own, NEW t, TrieFollows(t, i, R, own),
           SameBelow(i, R, R2), NEW x, x = R2[CoverOf(i, R2)],
           NEW u, Inserted(Nhi, t, <<>>, x, u)
    PROVE  TrieFollows(u, i, R2, TRUE) /\ ~ IsEmpty(u[<<>>])
PROOF
    <1>1. Exact(Nhi, t) /\ <<>> \in Keys /\ <<>> \in Seq(Bit) /\ Len(<<>>) = 0
        BY EmptyKey DEF TrieFollows
    <1>2. Exact(Nhi, u)
        BY <1>1, InsertExact
    <1>3. ASSUME NEW d \in DOMAIN u PROVE Len(d) <= KeyLength - INITIAL_BITS
        <2>1. CASE d \in DOMAIN t
            BY <2>1 DEF TrieFollows
        <2>2. CASE d \in Stops(<<>>)
            <3>1. Covers(d, <<>>) /\ d \in Keys
                BY <1>1, <2>2, StopsAre
            <3>2. Len(d) <= 0 /\ Len(d) \in Nat
                BY <1>1, <3>1, KeyIsSeq DEF Covers
            <3> QED
                BY <3>2, Initial
        <2> QED
            BY <2>1, <2>2 DEF Inserted
    <1>4. ASSUME NEW q \in Seq(Bit), NEW y
          PROVE  RuleAt(u, q, y) <=> \/ q = <<>> /\ TRUE /\ y = R2[CoverOf(i, R2)]
                                     \/ \E p \in BelowOf(i, R2) : q = Rest(p) /\ y = R2[p]
        <2>1. RuleAt(u, q, y) <=> IF q = <<>> THEN y = x ELSE RuleAt(t, q, y)
            BY <1>1, InsertRules
        <2>2. RuleAt(t, q, y) <=> \/ q = <<>> /\ own /\ y = R[CoverOf(i, R)]
                                  \/ \E p \in BelowOf(i, R) : q = Rest(p) /\ y = R[p]
            BY DEF TrieFollows
        <2>3. \A p \in BelowOf(i, R) : Rest(p) # <<>>
            BY BelowIs
        <2>4. (\E p \in BelowOf(i, R) : q = Rest(p) /\ y = R[p])
              <=> \E p \in BelowOf(i, R2) : q = Rest(p) /\ y = R2[p]
            BY DEF SameBelow
        <2> QED
            BY <2>1, <2>2, <2>3, <2>4
    <1>5. ~ IsEmpty(u[<<>>])
        <2>1. Covers(<<>>, <<>>) /\ Aligned(Len(<<>>))
            BY <1>1, CoversSelf, AlignedZero
        <2>2. <<>> \in Stops(<<>>)
            BY <1>1, <2>1, StopsAre
        <2>3. <<>> \in DOMAIN u
            BY <1>2, ExactNodes
        <2> QED
            BY <1>1, <2>2, <2>3, InsertedNode
    <1> QED
        BY <1>2, <1>3, <1>4, <1>5 DEF TrieFollows

\* delete_entry with the empty prefix takes a trie's own rule away.
LEMMA TrieDisowned ==
    ASSUME NEW R, RibFollows(R), NEW R2, NEW i \in Index, NEW t, TrieFollows(t, i, R, TRUE),
           SameBelow(i, R, R2)
    PROVE  TrieFollows(delete_entry(t, <<>>), i, R2, FALSE)
PROOF
    <1> DEFINE u == delete_entry(t, <<>>)
    <1>1. Exact(Nhi, t) /\ <<>> \in Keys /\ <<>> \in Seq(Bit)
        BY EmptyKey DEF TrieFollows
    <1>2. RuleAt(t, <<>>, R[CoverOf(i, R)])
        BY <1>1 DEF TrieFollows
    <1>3. Deleted(Nhi, t, <<>>, u)
        BY <1>1, <1>2, DeleteWrites
    <1> HIDE DEF u
    <1>4. Exact(Nhi, u)
        BY <1>1, <1>3, DeleteExact
    <1>5. \A d \in DOMAIN u : Len(d) <= KeyLength - INITIAL_BITS
        BY <1>3 DEF TrieFollows, Deleted
    <1>6. ASSUME NEW q \in Seq(Bit), NEW y
          PROVE  RuleAt(u, q, y) <=> \/ q = <<>> /\ FALSE /\ y = R2[CoverOf(i, R2)]
                                     \/ \E p \in BelowOf(i, R2) : q = Rest(p) /\ y = R2[p]
        <2>1. RuleAt(u, q, y) <=> q # <<>> /\ RuleAt(t, q, y)
            BY <1>1, <1>3, DeleteRules
        <2>2. RuleAt(t, q, y) <=> \/ q = <<>> /\ TRUE /\ y = R[CoverOf(i, R)]
                                  \/ \E p \in BelowOf(i, R) : q = Rest(p) /\ y = R[p]
            BY DEF TrieFollows
        <2>3. \A p \in BelowOf(i, R) : Rest(p) # <<>>
            BY BelowIs
        <2>4. (\E p \in BelowOf(i, R) : q = Rest(p) /\ y = R[p])
              <=> \E p \in BelowOf(i, R2) : q = Rest(p) /\ y = R2[p]
            BY DEF SameBelow
        <2> QED
            BY <2>1, <2>2, <2>3, <2>4
    <1> QED
        BY <1>4, <1>5, <1>6 DEF TrieFollows, u

\* A trie that is left alone follows routes that do not concern it.
LEMMA TrieKept ==
    ASSUME NEW R, NEW R2, NEW i, NEW own, NEW t, TrieFollows(t, i, R, own), SameBelow(i, R, R2),
           own => R2[CoverOf(i, R2)] = R[CoverOf(i, R)]
    PROVE  TrieFollows(t, i, R2, own)
PROOF
    <1>1. ASSUME NEW q \in Seq(Bit), NEW y
          PROVE  RuleAt(t, q, y) <=> \/ q = <<>> /\ own /\ y = R2[CoverOf(i, R2)]
                                     \/ \E p \in BelowOf(i, R2) : q = Rest(p) /\ y = R2[p]
        <2>1. RuleAt(t, q, y) <=> \/ q = <<>> /\ own /\ y = R[CoverOf(i, R)]
                                  \/ \E p \in BelowOf(i, R) : q = Rest(p) /\ y = R[p]
            BY DEF TrieFollows
        <2>2. (\E p \in BelowOf(i, R) : q = Rest(p) /\ y = R[p])
              <=> \E p \in BelowOf(i, R2) : q = Rest(p) /\ y = R2[p]
            BY DEF SameBelow
        <2> QED
            BY <2>1, <2>2
    <1> QED
        BY <1>1 DEF TrieFollows

\* The same for a route below the entry.
LEMMA TrieInserted ==
    ASSUME NEW R, RibFollows(R), NEW i \in Index, NEW p, NEW nhi, Above(i, p),
           NEW R2, RibWith(R, p, nhi, R2),
           NEW own, NEW t, TrieFollows(t, i, R, own),
           own => R2[CoverOf(i, R2)] = R[CoverOf(i, R)],
           NEW u, u = insert_entry(t, Rest(p), nhi)
    PROVE  TrieFollows(u, i, R2, own) /\ ~ IsEmpty(u[<<>>])
PROOF
    <1>1. /\ RibFollows(R2) /\ RoutesOf(R2) = RoutesOf(R) \cup {p} /\ R2[p] = nhi
          /\ \A q \in RoutesOf(R) : q # p => R2[q] = R[q]
          /\ nhi \in Nhi /\ p \in Keys
        BY DEF RibWith
    <1> DEFINE r == Rest(p)
    <1>2. Exact(Nhi, t)
        BY DEF TrieFollows
    <1>3. p \in BelowOf(i, R2)
        BY <1>1 DEF BelowOf
    <1>4. Covers(i, p) /\ r # <<>> /\ r \in Seq(Bit) /\ r \in Keys
        BY <1>1, <1>3, BelowIs
    <1>5. Len(r) <= KeyLength - INITIAL_BITS
        BY <1>1, <1>4, RestIs
    <1>6. BelowOf(i, R2) = BelowOf(i, R) \cup {p}
        BY <1>1, <1>3 DEF BelowOf
    <1>7. \A q \in BelowOf(i, R2) : q \in Keys /\ Covers(i, q) /\ (Rest(q) = r => q = p)
        BY <1>1, <1>3, BelowIs
    <1>8. \A q \in BelowOf(i, R) : q # p => R2[q] = R[q]
        BY <1>1 DEF BelowOf
    <1>9. Inserted(Nhi, t, r, nhi, u)
        BY <1>1, <1>2, <1>4, InsertWrites
    <1> HIDE DEF r
    <1>10. Exact(Nhi, u)
        BY <1>2, <1>4, <1>9, InsertExact
    <1>11. ASSUME NEW d \in DOMAIN u PROVE Len(d) <= KeyLength - INITIAL_BITS
        <2>1. CASE d \in DOMAIN t
            BY <2>1 DEF TrieFollows
        <2>2. CASE d \in Stops(r)
            <3>1. Covers(d, r) /\ d \in Keys
                BY <1>4, <2>2, StopsAre
            <3>2. Len(d) <= Len(r) /\ Len(d) \in Nat /\ Len(r) \in Nat
                BY <1>4, <3>1, KeyIsSeq DEF Covers
            <3> QED
                BY <1>5, <3>2, Initial
        <2> QED
            BY <1>9, <2>1, <2>2 DEF Inserted
    <1>12. ASSUME NEW q \in Seq(Bit), NEW y
           PROVE  RuleAt(u, q, y) <=> \/ q = <<>> /\ own /\ y = R2[CoverOf(i, R2)]
                                      \/ \E s \in BelowOf(i, R2) : q = Rest(s) /\ y = R2[s]
        <2>1. RuleAt(u, q, y) <=> IF q = r THEN y = nhi ELSE RuleAt(t, q, y)
            BY <1>2, <1>4, <1>9, InsertRules
        <2>2. RuleAt(t, q, y) <=> \/ q = <<>> /\ own /\ y = R[CoverOf(i, R)]
                                  \/ \E s \in BelowOf(i, R) : q = Rest(s) /\ y = R[s]
            BY DEF TrieFollows
        <2>3. CASE q = r
            <3>1. (\E s \in BelowOf(i, R2) : q = Rest(s) /\ y = R2[s]) <=> y = nhi
                BY <1>1, <1>3, <1>7, <2>3 DEF r
            <3> QED
                BY <1>4, <2>1, <2>3, <3>1
        <2>4. CASE q # r
            <3>1. (\E s \in BelowOf(i, R2) : q = Rest(s) /\ y = R2[s])
                  <=> \E s \in BelowOf(i, R) : q = Rest(s) /\ y = R[s]
                BY <1>6, <1>8, <2>4 DEF r
            <3> QED
                BY <2>1, <2>2, <2>4, <3>1
        <2> QED
            BY <2>3, <2>4
    <1>13. ~ IsEmpty(u[<<>>])
        <2>1. /\ <<>> \in Keys /\ Len(<<>>) = 0 /\ Covers(<<>>, r) /\ Aligned(Len(<<>>))
            BY <1>4, EmptyKey, AlignedZero DEF Covers
        <2>2. <<>> \in Stops(r)
            BY <1>4, <2>1, StopsAre
        <2>3. <<>> \in DOMAIN u
            BY <1>10, ExactNodes
        <2> QED
            BY <1>2, <1>4, <1>9, <2>2, <2>3, InsertedNode
    <1> QED
        BY <1>10, <1>11, <1>12, <1>13 DEF TrieFollows

\* And for the deletion of a route below the entry.
LEMMA TrieDeleted ==
    ASSUME NEW R, RibFollows(R), NEW i \in Index, NEW p \in BelowOf(i, R),
           NEW R2, RibWithout(R, p, R2), NEW own, NEW t, TrieFollows(t, i, R, own),
           own => R2[CoverOf(i, R2)] = R[CoverOf(i, R)]
    PROVE  TrieFollows(delete_entry(t, Rest(p)), i, R2, own)
PROOF
    <1> DEFINE u == delete_entry(t, Rest(p))
               r == Rest(p)
    <1>1. p \in RoutesOf(R) /\ Covers(i, p) /\ r # <<>> /\ r \in Seq(Bit) /\ r \in Keys
        BY BelowIs
    <1>2. RoutesOf(R2) = RoutesOf(R) \ {p} /\ \A q \in RoutesOf(R2) : R2[q] = R[q]
        BY DEF RibWithout
    <1>3. Exact(Nhi, t)
        BY DEF TrieFollows
    <1>4. RuleAt(t, r, R[p])
        BY <1>1 DEF TrieFollows
    <1>5. Deleted(Nhi, t, r, u)
        BY <1>1, <1>3, <1>4, DeleteWrites
    <1>6. BelowOf(i, R2) = BelowOf(i, R) \ {p} /\ \A q \in BelowOf(i, R2) : R2[q] = R[q]
        BY <1>2 DEF BelowOf
    <1>7. \A q \in BelowOf(i, R) : Rest(q) = r => q = p
        BY BelowIs
    <1> HIDE DEF u, r
    <1>8. Exact(Nhi, u)
        BY <1>1, <1>3, <1>5, DeleteExact
    <1>9. \A d \in DOMAIN u : Len(d) <= KeyLength - INITIAL_BITS
        BY <1>5 DEF TrieFollows, Deleted
    <1>10. ASSUME NEW q \in Seq(Bit), NEW y
           PROVE  RuleAt(u, q, y) <=> \/ q = <<>> /\ own /\ y = R2[CoverOf(i, R2)]
                                      \/ \E s \in BelowOf(i, R2) : q = Rest(s) /\ y = R2[s]
        <2>1. RuleAt(u, q, y) <=> q # r /\ RuleAt(t, q, y)
            BY <1>1, <1>3, <1>5, DeleteRules
        <2>2. RuleAt(t, q, y) <=> \/ q = <<>> /\ own /\ y = R[CoverOf(i, R)]
                                  \/ \E s \in BelowOf(i, R) : q = Rest(s) /\ y = R[s]
            BY DEF TrieFollows
        <2>3. (\E s \in BelowOf(i, R2) : q = Rest(s) /\ y = R2[s])
              <=> q # r /\ \E s \in BelowOf(i, R) : q = Rest(s) /\ y = R[s]
            BY <1>6, <1>7 DEF r
        <2> QED
            BY <1>1, <2>1, <2>2, <2>3
    <1> QED
        BY <1>8, <1>9, <1>10 DEF TrieFollows, u

----------------------------------------------------------------------------
(* The next shorter route *)

\* near is the longest route that covers p and is shorter than limit; its mask
\* is 0 if there is none.
IsNear(near, p, limit, R) ==
    \/ /\ near = [mask |-> 0, nhi |-> NULL]
       /\ \A q \in RoutesOf(R) : ~ (Covers(q, p) /\ Len(q) < limit)
    \/ \E q \in RoutesOf(R) :
          /\ near = [mask |-> Len(q), nhi |-> R[q]]
          /\ Covers(q, p) /\ Len(q) < limit
          /\ \A r \in RoutesOf(R) : Covers(r, p) /\ Len(r) < limit => Len(r) <= Len(q)

\* The smaller one of two numbers.
LEMMA MinOf ==
    ASSUME NEW a \in Int, NEW b \in Int
    PROVE  Min({a, b}) = IF a <= b THEN a ELSE b
PROOF
    <1> DEFINE m == IF a <= b THEN a ELSE b
    <1>1. m \in {a, b} /\ \A y \in {a, b} : m =< y
        OBVIOUS
    <1>2. \A x \in {a, b} : (\A y \in {a, b} : x =< y) => x = m
        OBVIOUS
    <1> HIDE DEF m
    <1>3. (CHOOSE x \in {a, b} : \A y \in {a, b} : x =< y) = m
        BY <1>1, <1>2
    <1> QED
        BY <1>3 DEF Min, m

\* The length below node d of the longest prefix of p in d that is shorter than limit.
LEMMA MaskIs ==
    ASSUME NEW V, NEW t, Exact(V, t), NEW p \in Seq(Bit), NEW limit \in Nat, limit <= Len(p),
           NEW d \in DOMAIN t, Covers(d, p), Len(d) < limit,
           NEW mask, mask = find_overlap_in_node(t[d].internal, StrideAt(p, Len(d)),
                                                 Min({limit - Len(d), STRIDE}))
    PROVE  \/ mask = -1 /\ \A q \in Seq(Bit) : ~ Cand(t, p, limit, q, d)
           \/ /\ mask # -1 /\ mask \in 0 .. STRIDE - 1
              /\ Best(t, p, limit, d \o Part(p, d, mask), d)
              /\ d \o Part(p, d, mask) \in Seq(Bit) /\ Len(d \o Part(p, d, mask)) = Len(d) + mask
              /\ RulePos(d \o Part(p, d, mask), d) = count_inl_bitmap(Part(p, d, mask))
PROOF
    <1> DEFINE m == Min({limit - Len(d), STRIDE})
               hits == {j \in 0 .. m - 1 : count_inl_bitmap(Part(p, d, j)) \in t[d].internal}
    <1>1. d \in Seq(Bit) /\ Len(d) \in Nat /\ Len(p) \in Nat /\ STRIDE \in Nat /\ STRIDE > 0
        BY ExactNodes, StrideAssumption
    <1>2. m \in Nat /\ m <= limit - Len(d) /\ m <= STRIDE /\ m > 0 /\ (m = STRIDE \/ m = limit - Len(d))
        BY <1>1, MinOf
    <1>3. mask = IF hits = {} THEN -1 ELSE Max(hits)
        BY DEF find_overlap_in_node, Part
    <1> HIDE DEF m
    <1>4. ASSUME NEW j \in hits
          PROVE  /\ j \in 0 .. STRIDE - 1 /\ Cand(t, p, limit, d \o Part(p, d, j), d)
                 /\ d \o Part(p, d, j) \in Seq(Bit) /\ Len(d \o Part(p, d, j)) = Len(d) + j
                 /\ RulePos(d \o Part(p, d, j), d) = count_inl_bitmap(Part(p, d, j))
        <2>1. /\ j \in 0 .. STRIDE - 1 /\ Len(d) + j < limit /\ Len(d) + j <= Len(p)
              /\ count_inl_bitmap(Part(p, d, j)) \in t[d].internal
            BY <1>1, <1>2
        <2> DEFINE q == d \o Part(p, d, j)
        <2>2. /\ q \in Seq(Bit) /\ Len(q) = Len(d) + j /\ Covers(d, q) /\ Covers(q, p) /\ EndsIn(q, d)
              /\ RestAt(q, Len(d)) = Part(p, d, j)
            BY <1>1, <2>1, PartWithin
        <2> HIDE DEF q
        <2>3. RulePos(q, d) = count_inl_bitmap(Part(p, d, j))
            BY <2>2 DEF RulePos
        <2>4. Cand(t, p, limit, q, d)
            BY <2>1, <2>2, <2>3 DEF Cand, Holds
        <2> QED
            BY <2>1, <2>2, <2>3, <2>4 DEF q
    <1>5. ASSUME NEW q \in Seq(Bit), Cand(t, p, limit, q, d)
          PROVE  Len(q) - Len(d) \in hits /\ Len(q) = Len(d) + (Len(q) - Len(d))
        <2>1. /\ Covers(d, q) /\ Covers(q, p) /\ EndsIn(q, d) /\ RulePos(q, d) \in t[d].internal
              /\ Len(q) < limit /\ Len(q) \in Nat
            BY <1>5 DEF Cand, Holds
        <2> DEFINE j == Len(q) - Len(d)
        <2>2. j \in 0 .. STRIDE - 1 /\ RestAt(q, Len(d)) = Part(p, d, j)
            BY <1>1, <2>1, PartOfPrefix
        <2>3. count_inl_bitmap(Part(p, d, j)) \in t[d].internal
            BY <2>1, <2>2 DEF RulePos
        <2>4. j \in 0 .. m - 1 /\ Len(q) = Len(d) + j
            BY <1>1, <1>2, <2>1, <2>2
        <2> HIDE DEF j
        <2>5. j \in hits
            BY <2>3, <2>4
        <2> QED
            BY <2>4, <2>5 DEF j
    <1>6. CASE hits = {}
        <2>1. mask = -1
            BY <1>3, <1>6
        <2> QED
            BY <1>5, <1>6, <2>1
    <1>7. CASE hits # {}
        <2>0. \A j \in hits : j \in 0 .. STRIDE - 1
            BY <1>4
        <2> HIDE DEF hits
        <2>1. hits \in SUBSET (0 .. STRIDE)
            BY <1>1, <2>0
        <2>2. mask = Max(hits) /\ mask \in hits /\ \A y \in hits : y <= mask
            BY <1>1, <1>3, <1>7, <2>1, MaxOf
        <2> DEFINE b == d \o Part(p, d, mask)
        <2>3. /\ mask \in 0 .. STRIDE - 1 /\ Cand(t, p, limit, b, d)
              /\ b \in Seq(Bit) /\ Len(b) = Len(d) + mask
              /\ RulePos(b, d) = count_inl_bitmap(Part(p, d, mask))
            BY <1>4, <2>2
        <2> HIDE DEF b
        <2>4. ASSUME NEW r \in Seq(Bit), Cand(t, p, limit, r, d)
              PROVE  Len(r) <= Len(b)
            <3> DEFINE k == Len(r) - Len(d)
            <3>1. k \in hits /\ Len(r) = Len(d) + k
                BY <1>5, <2>4
            <3> HIDE DEF k
            <3>2. k <= mask /\ k \in 0 .. STRIDE
                BY <2>1, <2>2, <3>1
            <3> QED
                BY <1>1, <2>3, <3>1, <3>2
        <2>5. Best(t, p, limit, b, d)
            BY <2>3, <2>4 DEF Best
        <2>6. mask # -1
            BY <2>3
        <2> QED
            BY <2>3, <2>5, <2>6 DEF b
    <1> QED
        BY <1>6, <1>7

\* detect_overlap finds the next shorter route.
LEMMA DetectIs ==
    ASSUME NEW R, RibFollows(R), AuxFollows(up_aux, R), NEW p \in Keys, p # <<>>,
           NEW limit, limit = IF Len(p) <= INITIAL_BITS THEN Len(p) ELSE INITIAL_BITS
    PROVE  IsNear(detect_overlap(p, INITIAL_BITS), p, limit, R)
PROOF
    <1> DEFINE t == up_aux
    <1>1. /\ Exact(Nhi, t) /\ p \in Seq(Bit) /\ Len(p) \in Nat /\ INITIAL_BITS \in Nat /\ INITIAL_BITS > 0
          /\ limit \in Nat /\ limit <= Len(p) /\ limit - 1 \in Nat /\ STRIDE \in Nat
        <2>1. p \in Seq(Bit) /\ Len(p) \in Nat /\ Len(p) # 0
            BY KeyIsSeq, EmptyLength
        <2> QED
            BY <2>1, Initial, StrideAssumption DEF AuxFollows
    <1>2. \A q \in Seq(Bit) : \A x : RuleAt(t, q, x) <=> q \in RoutesOf(R) /\ x = R[q]
        BY DEF AuxFollows
    <1> DEFINE S == Way(t, p, limit - 1)
               mask(d) == find_overlap_in_node(t[d].internal, StrideAt(p, Len(d)),
                                               Min({limit - Len(d), STRIDE}))
               hits == {d \in S : mask(d) # -1}
               near == Deepest(hits)
               prefix == SubSeq(StrideAt(p, Len(near)), 1, mask(near))
               found == detect_overlap(p, INITIAL_BITS)
    <1>3. found = IF hits = {} THEN [mask |-> 0, nhi |-> NULL]
                  ELSE [mask |-> Len(near) + mask(near), nhi |-> Rule(t[near], count_inl_bitmap(prefix))]
        <2>1. Min({Len(p), INITIAL_BITS}) = limit
            BY <1>1, MinOf
        <2> QED
            BY <2>1 DEF detect_overlap, Nearest
    <1>4. \A d : d \in S <=> d \in DOMAIN t /\ Covers(d, p) /\ Len(d) < limit
        <2>1. \A d \in DOMAIN t : Len(d) <= limit - 1 => Len(d) <= Len(p)
            BY <1>1, ExactNodes
        <2>2. S = Along(t, p, limit - 1)
            BY <1>1, <2>1, WayIsAlong
        <2>3. \A d \in DOMAIN t : Len(d) <= limit - 1 <=> Len(d) < limit
            BY <1>1, ExactNodes
        <2> QED
            BY <2>2, <2>3 DEF Along
    <1>5. \A d : d \in hits <=> d \in S /\ mask(d) # -1
        OBVIOUS
    <1> HIDE DEF t, S, hits, found
    <1>6. ASSUME NEW e \in DOMAIN t, NEW r \in Seq(Bit), Cand(t, p, limit, r, e)
          PROVE  e \in hits
        <2>1. Covers(e, r) /\ Covers(r, p) /\ EndsIn(r, e) /\ e \in Seq(Bit) /\ Len(r) < limit
            BY <1>1, <1>6, ExactNodes DEF Cand, Holds
        <2>2. Covers(e, p)
            BY <1>1, <2>1, PartOfPrefix
        <2>3. Len(e) < limit
            BY <1>1, <2>1 DEF Covers
        <2>4. mask(e) # -1
            BY <1>1, <1>6, <2>2, <2>3, MaskIs
        <2> QED
            BY <1>4, <1>5, <2>2, <2>3, <2>4
    <1>7. CASE hits = {}
        <2>1. found = [mask |-> 0, nhi |-> NULL]
            BY <1>3, <1>7
        <2>2. ASSUME NEW q \in RoutesOf(R), Covers(q, p), Len(q) < limit PROVE FALSE
            <3>1. q \in Seq(Bit)
                BY RouteIs
            <3>2. RuleAt(t, q, R[q])
                BY <1>2, <3>1
            <3>3. PICK e \in DOMAIN t : Holds(t, q, e)
                BY <3>2 DEF RuleAt
            <3> QED
                BY <1>6, <1>7, <2>2, <3>1, <3>3 DEF Cand
        <2> QED
            BY <2>1, <2>2 DEF IsNear, found
    <1>8. CASE hits # {}
        <2>1. hits \in SUBSET Keys
            BY <1>1, <1>4, <1>5, ExactNodes
        <2>2. near \in hits /\ \A e \in hits : Len(e) <= Len(near)
            BY <1>8, <2>1, DeepestOf
        <2>3. found = [mask |-> Len(near) + mask(near), nhi |-> Rule(t[near], count_inl_bitmap(prefix))]
            BY <1>3, <1>8
        <2>4. prefix = Part(p, near, mask(near))
            BY DEF Part
        <2> HIDE DEF near, prefix
        <2>5. near \in DOMAIN t /\ Covers(near, p) /\ Len(near) < limit /\ mask(near) # -1
            BY <1>4, <1>5, <2>2
        <2> DEFINE n == mask(near)
                   q == near \o Part(p, near, n)
        <2>6. /\ Best(t, p, limit, q, near)
              /\ q \in Seq(Bit) /\ Len(q) = Len(near) + n
              /\ RulePos(q, near) = count_inl_bitmap(Part(p, near, n))
            BY <1>1, <2>5, MaskIs
        <2>7. found = [mask |-> Len(near) + n, nhi |-> Rule(t[near], count_inl_bitmap(Part(p, near, n)))]
            BY <2>3, <2>4
        <2> HIDE DEF q, n
        <2>8. \A e \in DOMAIN t : \A r \in Seq(Bit) : Cand(t, p, limit, r, e) => Len(e) <= Len(near)
            BY <1>6, <2>2
        <2>9. Nearby(t, p, limit, q, Rule(t[near], RulePos(q, near)))
            BY <1>1, <2>5, <2>6, <2>8, DeepestBest
        <2>10. found = [mask |-> Len(q), nhi |-> Rule(t[near], RulePos(q, near))]
            BY <2>6, <2>7 DEF q
        <2>11. q \in RoutesOf(R) /\ Rule(t[near], RulePos(q, near)) = R[q]
            BY <1>2, <2>6, <2>9 DEF Nearby
        <2>12. Covers(q, p) /\ Len(q) < limit
            BY <2>9 DEF Nearby
        <2>13. ASSUME NEW r \in RoutesOf(R), Covers(r, p), Len(r) < limit PROVE Len(r) <= Len(q)
            <3>1. r \in Seq(Bit)
                BY RouteIs
            <3>2. RuleAt(t, r, R[r])
                BY <1>2, <3>1
            <3> QED
                BY <2>9, <2>13, <3>1, <3>2 DEF Nearby
        <2> QED
            BY <2>10, <2>11, <2>12, <2>13 DEF IsNear, found
    <1> QED
        BY <1>7, <1>8

----------------------------------------------------------------------------
(* Which route an entry stands for *)

\* A route that covers an entry is not below it.
LEMMA NotBoth ==
    ASSUME NEW i \in Index, NEW p \in Keys, Covers(p, i)
    PROVE  ~ Above(i, p)
PROOF
    <1>1. i \in Keys /\ Len(i) \in Nat /\ Len(p) \in Nat
        BY IndexIsKey, KeyIsSeq
    <1>2. Len(p) <= Len(i)
        BY DEF Covers
    <1> QED
        BY <1>1, <1>2, AboveShorter

\* The routes below an entry change only with a route below it.
LEMMA BelowKept ==
    ASSUME NEW R, RibFollows(R), NEW i \in Index, NEW p, ~ Above(i, p), NEW R2,
           (\E nhi : RibWith(R, p, nhi, R2)) \/ RibWithout(R, p, R2)
    PROVE  SameBelow(i, R, R2)
PROOF
    <1>1. \A q : q # p => /\ q \in RoutesOf(R2) <=> q \in RoutesOf(R)
                          /\ q \in RoutesOf(R) => R2[q] = R[q]
        BY DEF RibWith, RibWithout
    <1>2. \A q \in RoutesOf(R) \cup RoutesOf(R2) : Above(i, q) => q # p
        OBVIOUS
    <1> QED
        BY <1>1, <1>2 DEF SameBelow, BelowOf

\* An entry stands for the same route, with the same next hop.
SameCover(i, R, R2) ==
    /\ CoverOf(i, R2) = CoverOf(i, R)
    /\ Len(CoverOf(i, R)) > 0 => R2[CoverOf(i, R2)] = R[CoverOf(i, R)]

\* It does, unless the route that comes or goes covers it and is no shorter.
LEMMA CoverKept ==
    ASSUME NEW R, RibFollows(R), NEW i \in Index, NEW p \in Keys, NEW R2,
           (\E nhi : RibWith(R, p, nhi, R2)) \/ RibWithout(R, p, R2),
           ~ Covers(p, i) \/ Len(CoverOf(i, R)) > Len(p)
    PROVE  SameCover(i, R, R2)
PROOF
    <1> DEFINE c == CoverOf(i, R)
    <1>1. /\ Len(c) > 0 <=> c \in RoutesOf(R)
          /\ c \in RoutesOf(R) => Covers(c, i)
          /\ c \notin RoutesOf(R) => c = <<>> /\ \A q \in RoutesOf(R) : ~ Covers(q, i)
          /\ \A q \in RoutesOf(R) : Covers(q, i) => c \in RoutesOf(R) /\ Len(q) <= Len(c)
          /\ Len(c) \in 0 .. INITIAL_BITS /\ c \in Keys
        BY CoverLength
    <1>2. \A q : q # p => /\ q \in RoutesOf(R2) <=> q \in RoutesOf(R)
                          /\ q \in RoutesOf(R) => R2[q] = R[q]
        BY DEF RibWith, RibWithout
    <1>3. RibFollows(R2) /\ i \in Keys /\ Len(p) \in Nat /\ Len(c) \in Nat /\ INITIAL_BITS \in Nat
        BY <1>1, IndexIsKey, KeyIsSeq, Initial DEF RibWith, RibWithout
    <1>4. ASSUME ~ Covers(p, i) \/ Len(c) > Len(p)
          PROVE  IsCover(i, R2, c) /\ (Len(c) > 0 => R2[c] = R[c])
        <2>1. c \in RoutesOf(R) => c # p
            BY <1>1, <1>3, <1>4
        <2>2. c \in RoutesOf(R) <=> c \in RoutesOf(R2)
            <3>1. CASE c = p
                <4>1. c \notin RoutesOf(R) /\ c = <<>>
                    BY <1>1, <2>1, <3>1
                <4>2. c \notin RoutesOf(R2)
                    BY <1>3, <4>1, RouteIs
                <4> QED
                    BY <4>1, <4>2
            <3>2. CASE c # p
                BY <1>2, <3>2
            <3> QED
                BY <3>1, <3>2
        <2>3. ASSUME NEW q \in RoutesOf(R2), Covers(q, i)
              PROVE  c \in RoutesOf(R2) /\ Len(q) <= Len(c)
            <3>1. CASE q = p
                BY <1>1, <1>3, <1>4, <2>2, <2>3, <3>1
            <3>2. CASE q # p
                BY <1>1, <1>2, <2>2, <2>3, <3>2
            <3> QED
                BY <3>1, <3>2
        <2>4. IsCover(i, R2, c)
            BY <1>1, <2>2, <2>3 DEF IsCover
        <2>5. Len(c) > 0 => R2[c] = R[c]
            BY <1>1, <1>2, <2>1
        <2> QED
            BY <2>4, <2>5
    <1>5. IsCover(i, R2, c) /\ (Len(c) > 0 => R2[c] = R[c])
        BY <1>4
    <1> HIDE DEF c
    <1>6. CoverOf(i, R2) = c
        BY <1>3, <1>5, CoverUnique
    <1> QED
        BY <1>5, <1>6 DEF SameCover, c

\* A new route takes over the entries it covers, but for those of longer routes.
LEMMA CoverTaken ==
    ASSUME NEW R, RibFollows(R), NEW i \in Index, NEW p, NEW nhi, NEW R2, RibWith(R, p, nhi, R2),
           Covers(p, i), ~ (Len(CoverOf(i, R)) > Len(p))
    PROVE  CoverOf(i, R2) = p /\ R2[p] = nhi
PROOF
    <1>1. /\ RibFollows(R2) /\ RoutesOf(R2) = RoutesOf(R) \cup {p} /\ R2[p] = nhi /\ p \in Keys
          /\ i \in Keys /\ Len(p) \in Nat
        BY IndexIsKey, KeyIsSeq DEF RibWith
    <1>2. \A q \in RoutesOf(R) : Covers(q, i) => Len(q) <= Len(CoverOf(i, R))
        BY CoverLength
    <1>3. Len(CoverOf(i, R)) \in Nat
        BY CoverLength
    <1>4. \A q \in RoutesOf(R2) : Covers(q, i) => Len(q) <= Len(p)
        <2>1. ASSUME NEW q \in RoutesOf(R2), Covers(q, i) PROVE Len(q) <= Len(p)
            <3>1. Len(q) \in Nat
                BY <1>1, RouteIs
            <3> QED
                BY <1>1, <1>2, <1>3, <2>1, <3>1
        <2> QED
            BY <2>1
    <1>5. IsCover(i, R2, p)
        BY <1>1, <1>4 DEF IsCover
    <1> QED
        BY <1>1, <1>5, CoverUnique

\* What the entry of a deleted route stands for then: the next shorter route.
CoverNear(i, R, R2, near) ==
    /\ near = [mask |-> near.mask, nhi |-> near.nhi]
    /\ near.mask = Len(CoverOf(i, R2)) /\ near.mask \in Nat
    /\ near.mask > 0 => near.nhi = R2[CoverOf(i, R2)] /\ near.nhi \in Nhi

\* The next shorter route takes the entries of the deleted one over.
LEMMA CoverLost ==
    ASSUME NEW R, RibFollows(R), NEW i \in Index, NEW p \in RoutesOf(R), NEW R2, RibWithout(R, p, R2),
           Covers(p, i), ~ (Len(CoverOf(i, R)) > Len(p)), NEW near, IsNear(near, p, Len(p), R)
    PROVE  CoverNear(i, R, R2, near)
PROOF
    <1>1. /\ RibFollows(R2) /\ RoutesOf(R2) = RoutesOf(R) \ {p}
          /\ \A q \in RoutesOf(R2) : R2[q] = R[q]
        BY DEF RibWithout
    <1>2. /\ p \in Keys /\ i \in Keys /\ Len(p) \in Nat /\ p \in Seq(Bit) /\ i \in Seq(Bit)
          /\ Len(i) \in Nat /\ Len(p) <= Len(i)
        <2>1. p \in Keys /\ p \in Seq(Bit) /\ Len(p) \in Nat
            BY RouteIs
        <2>2. i \in Keys /\ i \in Seq(Bit)
            BY IndexIsKey
        <2> QED
            BY <2>1, <2>2 DEF Covers
    <1>3. Len(CoverOf(i, R)) \in Nat /\ \A q \in RoutesOf(R) : Covers(q, i) => Len(q) <= Len(CoverOf(i, R))
        BY CoverLength
    <1>4. ASSUME NEW q \in RoutesOf(R2)
          PROVE  Covers(q, i) <=> Covers(q, p) /\ Len(q) < Len(p)
        <2>1. q \in RoutesOf(R) /\ q # p /\ q \in Keys /\ Len(q) \in Nat
            BY <1>1, RouteIs
        <2>2. ASSUME Covers(q, i) PROVE Covers(q, p) /\ Len(q) < Len(p)
            <3>1. Len(q) <= Len(p)
                BY <1>2, <1>3, <2>1, <2>2
            <3>2. Covers(q, p)
                BY <1>2, <2>1, <2>2, <3>1, Comparable
            <3>3. Len(q) < Len(p)
                BY <1>2, <2>1, <3>2, AboveShorter DEF Above
            <3> QED
                BY <3>2, <3>3
        <2>3. ASSUME Covers(q, p) PROVE Covers(q, i)
            BY <1>2, <2>1, <2>3, CoversTransitive
        <2> QED
            BY <2>2, <2>3
    <1>5. CASE /\ near = [mask |-> 0, nhi |-> NULL]
               /\ \A q \in RoutesOf(R) : ~ (Covers(q, p) /\ Len(q) < Len(p))
        <2>1. \A q \in RoutesOf(R2) : ~ Covers(q, i)
            BY <1>1, <1>4, <1>5
        <2>2. <<>> \notin RoutesOf(R2)
            BY <1>1, RouteIs
        <2>3. IsCover(i, R2, <<>>)
            BY <2>1, <2>2 DEF IsCover
        <2>4. CoverOf(i, R2) = <<>>
            BY <1>1, <1>2, <2>3, CoverUnique
        <2> QED
            BY <1>5, <2>4 DEF CoverNear
    <1>6. CASE \E q \in RoutesOf(R) :
                  /\ near = [mask |-> Len(q), nhi |-> R[q]]
                  /\ Covers(q, p) /\ Len(q) < Len(p)
                  /\ \A r \in RoutesOf(R) : Covers(r, p) /\ Len(r) < Len(p) => Len(r) <= Len(q)
        <2>1. PICK q \in RoutesOf(R) :
                  /\ near = [mask |-> Len(q), nhi |-> R[q]]
                  /\ Covers(q, p) /\ Len(q) < Len(p)
                  /\ \A r \in RoutesOf(R) : Covers(r, p) /\ Len(r) < Len(p) => Len(r) <= Len(q)
            BY <1>6
        <2>2. q \in RoutesOf(R2) /\ R2[q] = R[q] /\ Len(q) \in Nat /\ R[q] \in Nhi
            <3>1. q \in RoutesOf(R) /\ q # p
                BY <1>2, <2>1
            <3>2. Len(q) \in Nat /\ R[q] \in Nhi
                BY <3>1, RouteIs
            <3> QED
                BY <1>1, <3>1, <3>2
        <2>3. IsCover(i, R2, q)
            BY <1>1, <1>4, <2>1, <2>2 DEF IsCover
        <2>4. CoverOf(i, R2) = q
            BY <1>1, <1>2, <2>3, CoverUnique
        <2> QED
            BY <2>1, <2>2, <2>4 DEF CoverNear
    <1> QED
        BY <1>5, <1>6 DEF IsNear

----------------------------------------------------------------------------
(* Each call leaves the entries in order *)

\* An entry without a child and without a route.
LEMMA BlankFollows ==
    ASSUME NEW R, RibFollows(R), NEW i \in Index, CoverOf(i, R) = <<>>, BelowOf(i, R) = {},
           NEW e, e = Blank
    PROVE  EntryFollows(e, i, R)
PROOF
    <1>1. e = [hi |-> 0, flags |-> {}, ptr |-> NULL, node |-> EmptyTrie]
        BY DEF Blank
    <1>2. TrieFollows(EmptyTrie, i, R, FALSE)
        <2>1. Exact(Nhi, EmptyTrie) /\ DOMAIN EmptyTrie = {<<>>} /\ \A q, x : ~ RuleAt(EmptyTrie, q, x)
            BY EmptyTrieExact
        <2>2. \A d \in DOMAIN EmptyTrie : Len(d) <= KeyLength - INITIAL_BITS
            BY <2>1, EmptyLength, Initial
        <2> QED
            BY <2>1, <2>2 DEF TrieFollows
    <1>3. e.hi = 0 /\ e.flags = {} /\ e.ptr = NULL /\ e.node = EmptyTrie
        BY <1>1
    <1>4. ~ HasChild(e) /\ e.hi = Len(CoverOf(i, R)) /\ ~ (e.hi > 0)
        BY <1>3, EmptyLength DEF HasChild
    <1>5. (HasChild(e) /\ e.hi > 0) = FALSE
        BY <1>4
    <1>6. e = [hi |-> e.hi, flags |-> e.flags, ptr |-> e.ptr, node |-> e.node]
        BY <1>1
    <1> QED
        BY <1>2, <1>3, <1>4, <1>5, <1>6 DEF EntryFollows

\* An entry without a child has no routes below.
LEMMA NothingBelow ==
    ASSUME NEW R, RibFollows(R), NEW i \in Index, NEW own, NEW t, TrieFollows(t, i, R, own), t = EmptyTrie
    PROVE  BelowOf(i, R) = {}
PROOF
    <1>1. SUFFICES ASSUME NEW p \in BelowOf(i, R) PROVE FALSE
        OBVIOUS
    <1>2. Rest(p) \in Seq(Bit)
        BY BelowIs
    <1>3. RuleAt(t, Rest(p), R[p])
        BY <1>2 DEF TrieFollows
    <1> QED
        BY <1>3, EmptyTrieExact

\* An entry without a child that stands for a route.
LEMMA NextFollows ==
    ASSUME NEW R, RibFollows(R), NEW i \in Index, BelowOf(i, R) = {}, NEW nhi,
           NEW n, n > 0, n = Len(CoverOf(i, R)), nhi = R[CoverOf(i, R)],
           NEW e, e = [hi |-> n, flags |-> {"NEXT"}, ptr |-> nhi, node |-> EmptyTrie]
    PROVE  EntryFollows(e, i, R)
PROOF
    <1>1. Exact(Nhi, EmptyTrie) /\ DOMAIN EmptyTrie = {<<>>} /\ \A q, x : ~ RuleAt(EmptyTrie, q, x)
        BY EmptyTrieExact
    <1>2. \A d \in DOMAIN EmptyTrie : Len(d) <= KeyLength - INITIAL_BITS
        BY <1>1, EmptyLength, Initial
    <1>3. TrieFollows(EmptyTrie, i, R, FALSE)
        BY <1>1, <1>2 DEF TrieFollows
    <1>4. e.hi = n /\ e.flags = {"NEXT"} /\ e.ptr = nhi /\ e.node = EmptyTrie
        OBVIOUS
    <1>5. ~ HasChild(e)
        BY <1>4 DEF HasChild
    <1>6. (HasChild(e) /\ e.hi > 0) = FALSE
        BY <1>5
    <1> QED
        BY <1>3, <1>4, <1>5, <1>6 DEF EntryFollows

\* An entry with a child.
LEMMA ChildFollows ==
    ASSUME NEW R, NEW i, NEW t, NEW n, n = Len(CoverOf(i, R)),
           TrieFollows(t, i, R, n > 0), ~ IsEmpty(t[<<>>]),
           NEW e, e = [hi |-> n, flags |-> {"CHILD"}, ptr |-> NULL, node |-> t]
    PROVE  EntryFollows(e, i, R)
PROOF
    <1>1. e.hi = n /\ e.flags = {"CHILD"} /\ e.ptr = NULL /\ e.node = t
        OBVIOUS
    <1>2. HasChild(e)
        BY <1>1 DEF HasChild
    <1>3. (HasChild(e) /\ e.hi > 0) = (n > 0)
        BY <1>1, <1>2
    <1> QED
        BY <1>1, <1>2, <1>3 DEF EntryFollows

\* What an entry has.
LEMMA EntryIs ==
    ASSUME NEW R, RibFollows(R), NEW i \in Index, NEW e, EntryFollows(e, i, R)
    PROVE  /\ e = [hi |-> e.hi, flags |-> e.flags, ptr |-> e.ptr, node |-> e.node]
           /\ e.hi = Len(CoverOf(i, R)) /\ e.hi \in 0 .. INITIAL_BITS
           /\ HasChild(e) => /\ e.flags = {"CHILD"} /\ e.ptr = NULL /\ ~ IsEmpty(e.node[<<>>])
                             /\ TrieFollows(e.node, i, R, e.hi > 0)
           /\ ~ HasChild(e) => /\ e.node = EmptyTrie /\ BelowOf(i, R) = {}
                               /\ IF e.hi > 0 THEN e.flags = {"NEXT"} /\ e.ptr = R[CoverOf(i, R)]
                                  ELSE e.flags = {} /\ e.ptr = NULL
PROOF
    <1>1. e.hi = Len(CoverOf(i, R)) /\ TrieFollows(e.node, i, R, HasChild(e) /\ e.hi > 0)
        BY DEF EntryFollows
    <1>2. e.hi \in 0 .. INITIAL_BITS
        BY <1>1, CoverLength
    <1>3. ASSUME HasChild(e) PROVE TrieFollows(e.node, i, R, e.hi > 0)
        <2>1. (HasChild(e) /\ e.hi > 0) = (e.hi > 0)
            BY <1>3
        <2> QED
            BY <1>1, <2>1
    <1>4. ASSUME ~ HasChild(e) PROVE BelowOf(i, R) = {}
        <2>1. e.node = EmptyTrie
            BY <1>4 DEF EntryFollows
        <2> QED
            BY <1>1, <2>1, NothingBelow
    <1> QED
        BY <1>1, <1>2, <1>3, <1>4 DEF EntryFollows

\* A call that changes nothing the entry is about leaves it in order.
LEMMA EntryKept ==
    ASSUME NEW R, RibFollows(R), NEW R2, RibFollows(R2), NEW i \in Index,
           NEW e, EntryFollows(e, i, R), SameBelow(i, R, R2), SameCover(i, R, R2)
    PROVE  EntryFollows(e, i, R2)
PROOF
    <1> DEFINE own == HasChild(e) /\ e.hi > 0
    <1>1. TrieFollows(e.node, i, R, own) /\ e.hi = Len(CoverOf(i, R))
        BY DEF EntryFollows
    <1>2. e.hi = Len(CoverOf(i, R2)) /\ (e.hi > 0 => R2[CoverOf(i, R2)] = R[CoverOf(i, R)])
        BY <1>1 DEF SameCover
    <1>3. own => R2[CoverOf(i, R2)] = R[CoverOf(i, R)]
        BY <1>2
    <1> HIDE DEF own
    <1>4. TrieFollows(e.node, i, R2, own)
        BY <1>1, <1>3, TrieKept
    <1> QED
        BY <1>2, <1>4 DEF EntryFollows, own

\* insert_prefix, in the entries the route covers.
LEMMA InsertedShortFollows ==
    ASSUME NEW R, RibFollows(R), NEW p, NEW nhi, NEW R2, RibWith(R, p, nhi, R2),
           NEW i \in Index, Covers(p, i), NEW e, EntryFollows(e, i, R)
    PROVE  EntryFollows(InsertedShort(e, p, nhi), i, R2)
PROOF
    <1> DEFINE f == InsertedShort(e, p, nhi)
    <1>1. RibFollows(R2) /\ p \in Keys /\ nhi \in Nhi /\ Len(p) \in Nat /\ p \in RoutesOf(R2)
        BY KeyIsSeq DEF RibWith
    <1>2. SameBelow(i, R, R2)
        BY <1>1, NotBoth, BelowKept
    <1>3. /\ e = [hi |-> e.hi, flags |-> e.flags, ptr |-> e.ptr, node |-> e.node]
          /\ e.hi = Len(CoverOf(i, R)) /\ e.hi \in 0 .. INITIAL_BITS
          /\ HasChild(e) => /\ e.ptr = NULL /\ TrieFollows(e.node, i, R, e.hi > 0)
          /\ ~ HasChild(e) => e.node = EmptyTrie /\ BelowOf(i, R) = {}
        BY EntryIs
    <1>4. CASE e.hi > Len(p)
        <2>1. f = e
            BY <1>4 DEF InsertedShort
        <2>2. SameCover(i, R, R2)
            BY <1>1, <1>3, <1>4, CoverKept
        <2> QED
            BY <1>1, <1>2, <2>1, <2>2, EntryKept
    <1>5. CASE ~ (e.hi > Len(p))
        <2>1. CoverOf(i, R2) = p /\ R2[p] = nhi
            BY <1>3, <1>5, CoverTaken
        <2>2. Len(p) > 0
            BY <1>1, RouteIs
        <2>3. CASE HasChild(e)
            <3> DEFINE t == insert_entry(e.node, <<>>, nhi)
            <3>1. f = [e EXCEPT !.hi = Len(p), !.flags = {"CHILD"}, !.node = t]
                BY <1>5, <2>3 DEF InsertedShort
            <3>2. Inserted(Nhi, e.node, <<>>, nhi, t)
                BY <1>1, <1>3, <2>3, EmptyKey, InsertWrites DEF TrieFollows
            <3> HIDE DEF t
            <3>3. f = [hi |-> Len(p), flags |-> {"CHILD"}, ptr |-> NULL, node |-> t]
                BY <1>3, <2>3, <3>1
            <3>4. TrieFollows(t, i, R2, TRUE) /\ ~ IsEmpty(t[<<>>])
                BY <1>2, <1>3, <2>1, <2>3, <3>2, TrieOwned
            <3>5. (Len(p) > 0) = TRUE
                BY <2>2
            <3> QED
                BY <2>1, <3>3, <3>4, <3>5, ChildFollows
        <2>4. CASE ~ HasChild(e)
            <3>1. f = [e EXCEPT !.hi = Len(p), !.flags = {"NEXT"}, !.ptr = nhi]
                BY <1>5, <2>4 DEF InsertedShort
            <3>2. f = [hi |-> Len(p), flags |-> {"NEXT"}, ptr |-> nhi, node |-> EmptyTrie]
                BY <1>3, <2>4, <3>1
            <3>3. BelowOf(i, R2) = {}
                BY <1>2, <1>3, <2>4 DEF SameBelow
            <3> HIDE DEF f
            <3> QED
                BY <1>1, <2>1, <2>2, <3>2, <3>3, NextFollows DEF f
        <2> QED
            BY <2>3, <2>4
    <1> QED
        BY <1>4, <1>5

\* insert_prefix, in the entry above the route.
LEMMA InsertedLongFollows ==
    ASSUME NEW R, RibFollows(R), NEW p, NEW nhi, NEW R2, RibWith(R, p, nhi, R2),
           NEW i \in Index, Covers(i, p), ~ Covers(p, i), NEW e, EntryFollows(e, i, R)
    PROVE  EntryFollows(InsertedLong(e, p, nhi), i, R2)
PROOF
    <1> DEFINE g == IF HasChild(e) THEN e ELSE WithChild(e)
               u == insert_entry(g.node, Rest(p), nhi)
    <1>1. RibFollows(R2) /\ p \in Keys
        BY DEF RibWith
    <1>2. SameCover(i, R, R2)
        BY <1>1, CoverKept
    <1>3. /\ e = [hi |-> e.hi, flags |-> e.flags, ptr |-> e.ptr, node |-> e.node]
          /\ e.hi = Len(CoverOf(i, R)) /\ e.hi \in 0 .. INITIAL_BITS
          /\ HasChild(e) => /\ e.flags = {"CHILD"} /\ e.ptr = NULL
                            /\ TrieFollows(e.node, i, R, e.hi > 0)
          /\ ~ HasChild(e) => /\ e.node = EmptyTrie /\ BelowOf(i, R) = {}
                              /\ IF e.hi > 0 THEN e.flags = {"NEXT"} /\ e.ptr = R[CoverOf(i, R)]
                                 ELSE e.flags = {} /\ e.ptr = NULL
        BY EntryIs
    <1>4. Above(i, p)
        <2>1. i # p
            BY DEF Covers
        <2> QED
            BY <2>1 DEF Above
    <1>5. g = [hi |-> e.hi, flags |-> {"CHILD"}, ptr |-> NULL, node |-> g.node]
          /\ TrieFollows(g.node, i, R, e.hi > 0)
        <2>1. CASE HasChild(e)
            BY <1>3, <2>1
        <2>2. CASE ~ HasChild(e)
            <3>1. g = [e EXCEPT !.flags = (@ \ {"NEXT"}) \cup {"CHILD"}, !.ptr = NULL,
                                !.node = IF e.hi > 0 THEN insert_entry(@, <<>>, e.ptr) ELSE @]
                BY <2>2 DEF WithChild
            <3> DEFINE t == IF e.hi > 0 THEN insert_entry(e.node, <<>>, e.ptr) ELSE e.node
            <3>2. (e.flags \ {"NEXT"}) \cup {"CHILD"} = {"CHILD"}
                BY <1>3, <2>2
            <3>3. g = [hi |-> e.hi, flags |-> {"CHILD"}, ptr |-> NULL, node |-> t]
                <4> HIDE DEF g
                <4> QED
                    BY <1>3, <3>1, <3>2
            <3>4. TrieFollows(e.node, i, R, FALSE)
                <4>1. (HasChild(e) /\ e.hi > 0) = FALSE
                    BY <2>2
                <4> QED
                    BY <4>1 DEF EntryFollows
            <3>5. TrieFollows(t, i, R, e.hi > 0)
                <4>1. CASE e.hi > 0
                    <5>1. e.ptr = R[CoverOf(i, R)] /\ CoverOf(i, R) \in RoutesOf(R)
                        BY <1>3, <2>2, <4>1, CoverLength
                    <5>2. e.ptr \in Nhi
                        BY <5>1, RouteIs
                    <5>3. t = insert_entry(e.node, <<>>, e.ptr)
                        BY <4>1
                    <5>4. Inserted(Nhi, e.node, <<>>, e.ptr, t)
                        BY <3>4, <5>2, <5>3, EmptyKey, InsertWrites DEF TrieFollows
                    <5>5. SameBelow(i, R, R)
                        BY DEF SameBelow
                    <5> HIDE DEF t
                    <5>6. TrieFollows(t, i, R, TRUE)
                        BY <3>4, <5>1, <5>4, <5>5, TrieOwned
                    <5>7. (e.hi > 0) = TRUE
                        BY <4>1
                    <5> QED
                        BY <5>6, <5>7
                <4>2. CASE ~ (e.hi > 0)
                    <5>1. t = e.node /\ (e.hi > 0) = FALSE
                        BY <4>2
                    <5> QED
                        BY <3>4, <5>1
                <4> QED
                    BY <4>1, <4>2
            <3> HIDE DEF t, g
            <3>6. g.node = t
                BY <3>3
            <3> QED
                BY <3>3, <3>5, <3>6
        <2> QED
            BY <2>1, <2>2
    <1>6. InsertedLong(e, p, nhi) = [g EXCEPT !.node = u]
        BY DEF InsertedLong
    <1> DEFINE own == e.hi > 0
    <1>7. own => R2[CoverOf(i, R2)] = R[CoverOf(i, R)]
        BY <1>2, <1>3 DEF SameCover
    <1> HIDE DEF g
    <1>8. InsertedLong(e, p, nhi) = [hi |-> e.hi, flags |-> {"CHILD"}, ptr |-> NULL, node |-> u]
        BY <1>5, <1>6
    <1>81. TrieFollows(g.node, i, R, own)
        BY <1>5
    <1>82. u = insert_entry(g.node, Rest(p), nhi)
        OBVIOUS
    <1> HIDE DEF own, u
    <1>9. TrieFollows(u, i, R2, own) /\ ~ IsEmpty(u[<<>>])
        BY <1>4, <1>7, <1>81, <1>82, TrieInserted
    <1>10. e.hi = Len(CoverOf(i, R2))
        BY <1>2, <1>3 DEF SameCover
    <1>11. TrieFollows(u, i, R2, e.hi > 0)
        BY <1>9 DEF own
    <1> QED
        BY <1>8, <1>9, <1>10, <1>11, ChildFollows

\* The empty prefix ends in the root.
LEMMA RootRule ==
    /\ Stops(<<>>) = {<<>>} /\ EndsIn(<<>>, <<>>) /\ <<>> \in Shorts
    /\ RulePos(<<>>, <<>>) = count_inl_bitmap(<<>>)
PROOF
    <1>1. <<>> \in Keys /\ <<>> \in Seq(Bit) /\ Len(<<>>) = 0 /\ STRIDE \in Nat /\ STRIDE > 0
        BY EmptyKey, StrideAssumption
    <1>2. Covers(<<>>, <<>>) /\ Aligned(Len(<<>>))
        BY <1>1, CoversSelf, AlignedZero
    <1>3. EndsIn(<<>>, <<>>)
        BY <1>1 DEF EndsIn
    <1>4. RestAt(<<>>, Len(<<>>)) \in Seq(Bit) /\ Len(RestAt(<<>>, Len(<<>>))) = Len(<<>>) - Len(<<>>)
          /\ RestAt(<<>>, Len(<<>>)) \in Shorts
        BY <1>1, <1>2, <1>3, RestIsShort
    <1>5. RestAt(<<>>, Len(<<>>)) = <<>>
        BY <1>1, <1>4, EmptyLength
    <1>6. ASSUME NEW d PROVE d \in Stops(<<>>) <=> d = <<>>
        <2>1. d \in Stops(<<>>) <=> d \in Keys /\ Covers(d, <<>>) /\ Aligned(Len(d))
            BY <1>1, StopsAre
        <2>2. ASSUME d \in Keys, Covers(d, <<>>) PROVE d = <<>>
            <3>1. d \in Seq(Bit) /\ Len(d) \in Nat /\ Len(d) <= 0
                BY <1>1, <2>2, KeyIsSeq DEF Covers
            <3> QED
                BY <3>1, EmptyLength
        <2> QED
            BY <1>1, <1>2, <2>1, <2>2
    <1> QED
        BY <1>3, <1>4, <1>5, <1>6 DEF RulePos

\* Overwriting the rule of the empty prefix is what insert_entry does to it.
LEMMA OverlapWrites ==
    ASSUME NEW t, Exact(Nhi, t), NEW x \in Nhi, NEW y, RuleAt(t, <<>>, y),
           NEW u, u = [t EXCEPT ![<<>>].rules[count_ones(t[<<>>].internal, count_inl_bitmap(<<>>)) + 1] = x]
    PROVE  Inserted(Nhi, t, <<>>, x, u)
PROOF
    <1> DEFINE n == t[<<>>]
               pos == count_inl_bitmap(<<>>)
               m == with_rule(n, pos, x)
    <1>1. /\ Stops(<<>>) = {<<>>} /\ EndsIn(<<>>, <<>>) /\ <<>> \in Shorts
          /\ RulePos(<<>>, <<>>) = pos
        BY RootRule
    <1>2. <<>> \in DOMAIN t /\ Shape(Nhi, n) /\ \A d \in DOMAIN t : d \in Keys
        BY ExactNodes
    <1>3. pos \in n.internal
        <2>1. PICK d \in DOMAIN t : Covers(d, <<>>) /\ RulePos(<<>>, d) \in t[d].internal
            BY DEF RuleAt, Holds
        <2>2. d \in Seq(Bit) /\ Len(d) \in Nat /\ Len(d) <= 0
            BY <1>2, <2>1, KeyIsSeq, EmptyLength DEF Covers
        <2>3. d = <<>>
            BY <2>2, EmptyLength
        <2> QED
            BY <1>1, <2>1, <2>3
    <1>4. m = [n EXCEPT !.rules[count_ones(n.internal, pos) + 1] = x]
        BY <1>3 DEF with_rule
    <1>5. RuleSet(Nhi, n, pos, x, m)
        BY <1>1, <1>2, WithRuleCells
    <1>6. u = [t EXCEPT ![<<>>] = m]
        BY <1>4
    <1> HIDE DEF m, pos
    <1>7. t = [d \in DOMAIN t |-> t[d]]
        BY DEF Exact
    <1>8. u = [d \in DOMAIN u |-> u[d]] /\ DOMAIN u = DOMAIN t /\ u[<<>>] = m
          /\ \A d \in DOMAIN t : d # <<>> => u[d] = t[d]
        BY <1>2, <1>6, <1>7
    <1>9. Base(t, <<>>) = n
        BY <1>2 DEF Base
    <1> HIDE DEF n
    <1>10. \A d \in Stops(<<>>) : d = <<>>
        BY <1>1
    <1>11. DOMAIN u = DOMAIN t \cup Stops(<<>>)
        BY <1>1, <1>2, <1>8
    <1> QED
        BY <1>1, <1>5, <1>8, <1>9, <1>10, <1>11 DEF Inserted

\* A trie that is empty has no rules: no own one, and none of routes below.
LEMMA EmptyNothing ==
    ASSUME NEW R, RibFollows(R), NEW i \in Index, NEW own, NEW t, TrieFollows(t, i, R, own),
           IsEmpty(t[<<>>])
    PROVE  BelowOf(i, R) = {} /\ ~ own
PROOF
    <1>1. t = EmptyTrie
        BY EmptyRoot DEF TrieFollows
    <1>2. BelowOf(i, R) = {}
        BY <1>1, NothingBelow
    <1>3. ASSUME own PROVE FALSE
        <2>1. RuleAt(t, <<>>, R[CoverOf(i, R)])
            BY <1>3, EmptyLength DEF TrieFollows
        <2> QED
            BY <1>1, <2>1, EmptyTrieExact
    <1> QED
        BY <1>2, <1>3

\* An entry that is left without a trie.
LEMMA LeafFollows ==
    ASSUME NEW R, NEW R2, RibFollows(R2), NEW i \in Index, NEW near, CoverNear(i, R, R2, near),
           BelowOf(i, R2) = {}
    PROVE  EntryFollows(Leaf(near), i, R2)
PROOF
    <1> DEFINE c == CoverOf(i, R2)
    <1>1. /\ near.mask = Len(c) /\ near.mask \in Nat
          /\ near.mask > 0 => near.nhi = R2[c]
        BY DEF CoverNear
    <1>2. CASE near.mask = 0
        <2>1. c \in Seq(Bit)
            BY CoverLength, KeyIsSeq
        <2>2. CoverOf(i, R2) = <<>>
            BY <1>1, <1>2, <2>1, EmptyLength
        <2>3. Leaf(near) = Blank
            BY <1>2 DEF Leaf
        <2> QED
            BY <2>2, <2>3, BlankFollows
    <1>3. CASE near.mask # 0
        <2> DEFINE e == Leaf(near)
        <2>1. e = [hi |-> near.mask, flags |-> {"NEXT"}, ptr |-> near.nhi, node |-> EmptyTrie]
            BY <1>3 DEF Leaf, Blank
        <2>2. near.mask > 0
            BY <1>1, <1>3
        <2> HIDE DEF e
        <2>3. EntryFollows(e, i, R2)
            BY <1>1, <2>1, <2>2, NextFollows
        <2> QED
            BY <2>3 DEF e
    <1> QED
        BY <1>2, <1>3

\* delete_prefix, in the entries the route covers.
LEMMA DeletedShortFollows ==
    ASSUME NEW R, RibFollows(R), NEW p \in RoutesOf(R), NEW R2, RibWithout(R, p, R2),
           NEW i \in Index, Covers(p, i), NEW e, EntryFollows(e, i, R),
           NEW near, IsNear(near, p, Len(p), R)
    PROVE  EntryFollows(DeletedShort(e, p, near), i, R2)
PROOF
    <1> DEFINE f == DeletedShort(e, p, near)
    <1>1. RibFollows(R2) /\ p \in Keys /\ Len(p) \in Nat /\ Len(p) > 0
        BY RouteIs DEF RibWithout
    <1>2. SameBelow(i, R, R2)
        BY <1>1, NotBoth, BelowKept
    <1>3. /\ e = [hi |-> e.hi, flags |-> e.flags, ptr |-> e.ptr, node |-> e.node]
          /\ e.hi = Len(CoverOf(i, R)) /\ e.hi \in 0 .. INITIAL_BITS
          /\ HasChild(e) => /\ e.flags = {"CHILD"} /\ e.ptr = NULL
                            /\ TrieFollows(e.node, i, R, e.hi > 0)
          /\ ~ HasChild(e) => e.node = EmptyTrie /\ BelowOf(i, R) = {}
        BY EntryIs
    <1>4. CASE e.hi > Len(p)
        <2>1. f = e
            BY <1>4 DEF DeletedShort
        <2>2. SameCover(i, R, R2)
            BY <1>1, <1>3, <1>4, CoverKept
        <2> QED
            BY <1>1, <1>2, <2>1, <2>2, EntryKept
    <1>5. CASE ~ (e.hi > Len(p))
        <2>1. CoverNear(i, R, R2, near)
            BY <1>3, <1>5, CoverLost
        <2>2. /\ near = [mask |-> near.mask, nhi |-> near.nhi]
              /\ near.mask = Len(CoverOf(i, R2)) /\ near.mask \in Nat
              /\ near.mask > 0 => near.nhi = R2[CoverOf(i, R2)] /\ near.nhi \in Nhi
            BY <2>1 DEF CoverNear
        <2>3. CASE ~ HasChild(e)
            <3>1. f = Leaf(near)
                BY <1>5, <2>3 DEF DeletedShort
            <3>2. BelowOf(i, R2) = {}
                BY <1>2, <1>3, <2>3 DEF SameBelow
            <3> QED
                BY <1>1, <2>1, <3>1, <3>2, LeafFollows
        <2>4. CASE HasChild(e)
            <3>1. TrieFollows(e.node, i, R, TRUE)
                <4>1. p \in RoutesOf(R) /\ Len(p) <= Len(CoverOf(i, R))
                    BY CoverLength
                <4>2. (e.hi > 0) = TRUE
                    BY <1>1, <1>3, <4>1
                <4> QED
                    BY <1>3, <2>4, <4>2
            <3>2. CASE near.mask = 0
                <4> DEFINE n == delete_entry(e.node, <<>>)
                <4>1. f = IF IsEmpty(n[<<>>]) THEN Blank ELSE [e EXCEPT !.hi = 0, !.node = n]
                    BY <1>5, <2>4, <3>2 DEF DeletedShort, WithoutRoute
                <4>2. TrieFollows(n, i, R2, FALSE)
                    BY <1>2, <3>1, TrieDisowned
                <4> HIDE DEF n
                <4>3. CASE IsEmpty(n[<<>>])
                    <5>1. BelowOf(i, R2) = {}
                        BY <1>1, <4>2, <4>3, EmptyNothing
                    <5>2. f = Leaf(near)
                        BY <3>2, <4>1, <4>3 DEF Leaf
                    <5> QED
                        BY <1>1, <2>1, <5>1, <5>2, LeafFollows
                <4>4. CASE ~ IsEmpty(n[<<>>])
                    <5>1. f = [e EXCEPT !.hi = 0, !.node = n]
                        BY <4>1, <4>4
                    <5> HIDE DEF f
                    <5>2. f = [hi |-> 0, flags |-> {"CHILD"}, ptr |-> NULL, node |-> n]
                        BY <1>3, <2>4, <5>1
                    <5>3. 0 = Len(CoverOf(i, R2)) /\ (0 > 0) = FALSE
                        BY <2>2, <3>2
                    <5>4. TrieFollows(n, i, R2, 0 > 0)
                        BY <4>2, <5>3
                    <5>5. EntryFollows(f, i, R2)
                        BY <4>4, <5>2, <5>3, <5>4, ChildFollows
                    <5> QED
                        BY <5>5 DEF f
                <4> QED
                    BY <4>3, <4>4
            <3>3. CASE near.mask # 0
                <4> DEFINE u == [e.node EXCEPT ![<<>>].rules[count_ones(e.node[<<>>].internal,
                                                                    count_inl_bitmap(<<>>)) + 1] = near.nhi]
                <4>1. f = [e EXCEPT !.hi = near.mask,
                                    !.node[<<>>].rules[count_ones(e.node[<<>>].internal,
                                                             count_inl_bitmap(<<>>)) + 1] = near.nhi]
                    BY <1>5, <2>4, <3>3 DEF DeletedShort, Overlapped
                <4>2. f = [e EXCEPT !.hi = near.mask, !.node = u]
                    BY <4>1
                <4>3. near.mask > 0 /\ near.nhi \in Nhi /\ near.nhi = R2[CoverOf(i, R2)]
                    BY <2>2, <3>3
                <4>4. Exact(Nhi, e.node) /\ RuleAt(e.node, <<>>, R[CoverOf(i, R)])
                    BY <3>1, EmptyLength DEF TrieFollows
                <4>5. Inserted(Nhi, e.node, <<>>, near.nhi, u)
                    BY <4>3, <4>4, OverlapWrites
                <4> HIDE DEF u, f
                <4>6. TrieFollows(u, i, R2, TRUE) /\ ~ IsEmpty(u[<<>>])
                    BY <1>2, <3>1, <4>3, <4>5, TrieOwned
                <4>7. f = [hi |-> near.mask, flags |-> {"CHILD"}, ptr |-> NULL, node |-> u]
                    BY <1>3, <2>4, <4>2
                <4>8. (near.mask > 0) = TRUE
                    BY <4>3
                <4>9. TrieFollows(u, i, R2, near.mask > 0)
                    BY <4>6, <4>8
                <4>10. EntryFollows(f, i, R2)
                    BY <2>2, <4>6, <4>7, <4>9, ChildFollows
                <4> QED
                    BY <4>10 DEF f
            <3> QED
                BY <3>2, <3>3
        <2> QED
            BY <2>3, <2>4
    <1> QED
        BY <1>4, <1>5

\* delete_prefix, in the entry above the route.
LEMMA DeletedLongFollows ==
    ASSUME NEW R, RibFollows(R), NEW p \in RoutesOf(R), NEW R2, RibWithout(R, p, R2),
           NEW i \in Index, Covers(i, p), ~ Covers(p, i), NEW e, EntryFollows(e, i, R),
           NEW near, IsNear(near, p, INITIAL_BITS, R)
    PROVE  HasChild(e) /\ EntryFollows(DeletedLong(e, p, near), i, R2)
PROOF
    <1> DEFINE n == delete_entry(e.node, Rest(p))
               f == DeletedLong(e, p, near)
               own == e.hi > 0
    <1>1. RibFollows(R2) /\ p \in Keys /\ Len(p) \in Nat
        BY RouteIs DEF RibWithout
    <1>2. SameCover(i, R, R2)
        BY <1>1, CoverKept
    <1>3. p \in BelowOf(i, R)
        <2>1. i # p
            BY DEF Covers
        <2> QED
            BY <2>1 DEF Above, BelowOf
    <1>4. HasChild(e)
        BY <1>3, EntryIs
    <1>5. /\ e = [hi |-> e.hi, flags |-> e.flags, ptr |-> e.ptr, node |-> e.node]
          /\ e.hi = Len(CoverOf(i, R)) /\ e.hi \in 0 .. INITIAL_BITS
          /\ e.flags = {"CHILD"} /\ e.ptr = NULL
          /\ TrieFollows(e.node, i, R, own)
        BY <1>4, EntryIs
    <1>6. e.hi = Len(CoverOf(i, R2)) /\ (own => R2[CoverOf(i, R2)] = R[CoverOf(i, R)])
        BY <1>2, <1>5 DEF SameCover
    <1>7. f = IF IsEmpty(n[<<>>]) THEN Leaf(near) ELSE [e EXCEPT !.node = n]
        BY DEF DeletedLong
    <1> HIDE DEF own
    <1>8. TrieFollows(n, i, R2, own)
        BY <1>3, <1>5, <1>6, TrieDeleted
    <1> HIDE DEF n, f
    <1>9. CASE IsEmpty(n[<<>>])
        <2>1. BelowOf(i, R2) = {} /\ ~ own
            BY <1>1, <1>8, <1>9, EmptyNothing
        <2>2. e.hi = 0 /\ CoverOf(i, R) \in Seq(Bit) /\ CoverOf(i, R2) \in Seq(Bit)
            <3>1. CoverOf(i, R) \in Keys /\ CoverOf(i, R2) \in Keys
                BY <1>1, CoverLength
            <3>2. e.hi = 0
                BY <1>5, <2>1 DEF own
            <3> QED
                BY <3>1, <3>2, KeyIsSeq
        <2>3. CoverOf(i, R) = <<>> /\ CoverOf(i, R2) = <<>>
            BY <1>5, <1>6, <2>2, EmptyLength
        <2>4. \A q \in RoutesOf(R) : ~ Covers(q, i)
            <3>1. <<>> \notin RoutesOf(R)
                BY RouteIs
            <3> QED
                BY <2>3, <3>1, CoverLength
        <2>5. \A q \in RoutesOf(R) : ~ (Covers(q, p) /\ Len(q) < INITIAL_BITS)
            <3>1. ASSUME NEW q \in RoutesOf(R), Covers(q, p), Len(q) < INITIAL_BITS PROVE Covers(q, i)
                <4>1. q \in Keys /\ i \in Keys /\ Len(i) = INITIAL_BITS /\ Len(q) \in Nat /\ INITIAL_BITS \in Nat
                    <5>1. q \in Keys /\ Len(q) \in Nat
                        BY RouteIs
                    <5> QED
                        BY <5>1, IndexIsKey, Initial
                <4>2. Len(q) <= Len(i)
                    BY <3>1, <4>1
                <4> QED
                    BY <1>1, <3>1, <4>1, <4>2, Comparable
            <3> QED
                BY <2>4, <3>1
        <2>6. near = [mask |-> 0, nhi |-> NULL]
            BY <2>5 DEF IsNear
        <2>7. Leaf(near) = Blank
            BY <2>6 DEF Leaf
        <2>8. EntryFollows(Leaf(near), i, R2)
            BY <1>1, <2>1, <2>3, <2>7, BlankFollows
        <2> QED
            BY <1>4, <1>7, <1>9, <2>8 DEF f
    <1>10. CASE ~ IsEmpty(n[<<>>])
        <2>1. f = [e EXCEPT !.node = n]
            BY <1>7, <1>10
        <2>2. f = [hi |-> e.hi, flags |-> {"CHILD"}, ptr |-> NULL, node |-> n]
            BY <1>5, <2>1
        <2>3. TrieFollows(n, i, R2, e.hi > 0)
            BY <1>8 DEF own
        <2>4. EntryFollows(f, i, R2)
            BY <1>6, <1>10, <2>2, <2>3, ChildFollows
        <2> QED
            BY <1>4, <2>4 DEF f
    <1> QED
        BY <1>9, <1>10

----------------------------------------------------------------------------
(* The invariant holds *)

\* A table without routes: every entry is blank, every trie empty.
LEMMA EmptyFollows ==
    ASSUME NEW R, R = [p \in Prefix |-> NULL]
    PROVE  /\ RibFollows(R) /\ AuxFollows(EmptyTrie, R)
           /\ \A i \in Index : EntryFollows(Blank, i, R)
PROOF
    <1>1. RoutesOf(R) = {}
        BY DEF RoutesOf
    <1>2. RibFollows(R)
        BY <1>1 DEF RibFollows
    <1>3. Exact(Nhi, EmptyTrie) /\ \A q, x : ~ RuleAt(EmptyTrie, q, x)
        BY EmptyTrieExact
    <1>4. AuxFollows(EmptyTrie, R)
        BY <1>1, <1>3 DEF AuxFollows
    <1>5. ASSUME NEW i \in Index PROVE EntryFollows(Blank, i, R)
        <2>1. {p \in RoutesOf(R) : Covers(p, i)} = {} /\ BelowOf(i, R) = {}
            BY <1>1 DEF BelowOf
        <2>2. CoverOf(i, R) = <<>>
            BY <2>1 DEF CoverOf, Longest
        <2> QED
            BY <1>2, <2>1, <2>2, BlankFollows
    <1> QED
        BY <1>2, <1>4, <1>5

\* An entry that is neither covered by a route nor above it is left alone.
LEMMA OtherFollows ==
    ASSUME NEW R, RibFollows(R), NEW p \in Keys, NEW R2, RibFollows(R2),
           (\E nhi : RibWith(R, p, nhi, R2)) \/ RibWithout(R, p, R2),
           NEW i \in Index, ~ Covers(p, i), ~ Covers(i, p), NEW e, EntryFollows(e, i, R)
    PROVE  EntryFollows(e, i, R2)
PROOF
    <1>1. SameCover(i, R, R2)
        BY CoverKept
    <1>2. ~ Above(i, p)
        BY DEF Above
    <1>3. SameBelow(i, R, R2)
        BY <1>2, BelowKept
    <1> QED
        BY <1>1, <1>3, EntryKept

\* An entry on the way to a prefix it is not covered by is above it.
LEMMA LengthTells ==
    ASSUME NEW i \in Index, NEW p \in Keys
    PROVE  /\ Covers(p, i) => Len(p) <= INITIAL_BITS
           /\ Covers(i, p) /\ ~ Covers(p, i) => ~ (Len(p) <= INITIAL_BITS)
PROOF
    <1>1. i \in Keys /\ Len(i) = INITIAL_BITS /\ Len(p) \in Nat /\ INITIAL_BITS \in Nat
        BY IndexIsKey, KeyIsSeq, Initial
    <1>2. ASSUME Covers(i, p), Len(p) <= INITIAL_BITS PROVE Covers(p, i)
        <2>1. i = p
            BY <1>1, <1>2, SameLengthSame
        <2> QED
            BY <1>1, <2>1, CoversSelf
    <1> QED
        BY <1>1, <1>2 DEF Covers

\* The table is empty at first.
LEMMA InitFollows ==
    ASSUME Init
    PROVE  Follows
PROOF
    <1>1. /\ init = [i \in Index |-> Blank] /\ up_aux = EmptyTrie
          /\ rib = [p \in Prefix |-> NULL]
        BY DEF Init
    <1>2. RibFollows(rib) /\ AuxFollows(EmptyTrie, rib) /\ \A i \in Index : EntryFollows(Blank, i, rib)
        BY <1>1, EmptyFollows
    <1>3. init = [i \in Index |-> init[i]] /\ \A i \in Index : init[i] = Blank
        BY <1>1
    <1> QED
        BY <1>1, <1>2, <1>3 DEF Follows

\* The table after a call, as a function of the table before.
FollowsAt(t, u, R) ==
    /\ RibFollows(R) /\ AuxFollows(u, R)
    /\ t = [i \in Index |-> t[i]]
    /\ \A i \in Index : EntryFollows(t[i], i, R)

\* insert_prefix keeps the invariant, entry by entry.
LEMMA InsertFollows ==
    ASSUME Follows, NEW r \in Route, insert_prefix(r[1], r[2])
    PROVE  FollowsAt(init', up_aux', rib')
PROOF
    <1> DEFINE p == r[1]
               nhi == r[2]
    <1>1. RibFollows(rib) /\ AuxFollows(up_aux, rib) /\ \A i \in Index : EntryFollows(init[i], i, rib)
        BY DEF Follows
    <1>2. /\ p # <<>>
          /\ init' = [i \in Index |->
                         IF Covers(p, i) THEN InsertedShort(init[i], p, nhi)
                         ELSE IF Covers(i, p) THEN InsertedLong(init[i], p, nhi)
                         ELSE init[i]]
          /\ up_aux' = insert_entry(up_aux, p, nhi) /\ rib' = [rib EXCEPT ![p] = nhi]
        BY DEF insert_prefix
    <1>3. <<p, nhi>> \in Route
        BY TreeBitmapAssumption
    <1> HIDE DEF p, nhi
    <1>4. RibWith(rib, p, nhi, rib')
        BY <1>1, <1>2, <1>3, RibSet, Zenon
    <1>5. RibFollows(rib') /\ p \in Keys
        BY <1>4 DEF RibWith
    <1>6. AuxFollows(up_aux', rib')
        <2>1. AuxFollows(insert_entry(up_aux, p, nhi), rib')
            BY <1>1, <1>4, AuxInserted
        <2> QED
            BY <1>2, <2>1
    <1>7. ASSUME NEW i \in Index PROVE EntryFollows(init'[i], i, rib')
        <2>1. EntryFollows(init[i], i, rib)
            BY <1>1
        <2>2. CASE Covers(p, i)
            <3>1. init'[i] = InsertedShort(init[i], p, nhi)
                BY <1>2, <2>2
            <3>2. EntryFollows(InsertedShort(init[i], p, nhi), i, rib')
                BY <1>1, <1>4, <2>1, <2>2, InsertedShortFollows
            <3> QED
                BY <3>1, <3>2
        <2>3. CASE Covers(i, p) /\ ~ Covers(p, i)
            <3>1. init'[i] = InsertedLong(init[i], p, nhi)
                BY <1>2, <2>3
            <3>2. EntryFollows(InsertedLong(init[i], p, nhi), i, rib')
                BY <1>1, <1>4, <2>1, <2>3, InsertedLongFollows
            <3> QED
                BY <3>1, <3>2
        <2>4. CASE ~ Covers(i, p) /\ ~ Covers(p, i)
            <3>1. init'[i] = init[i]
                BY <1>2, <2>4
            <3>2. EntryFollows(init[i], i, rib')
                BY <1>1, <1>4, <1>5, <2>1, <2>4, OtherFollows
            <3> QED
                BY <3>1, <3>2
        <2> QED
            BY <2>2, <2>3, <2>4
    <1>8. init' = [i \in Index |-> init'[i]]
        BY <1>2
    <1> QED
        BY <1>5, <1>6, <1>7, <1>8 DEF FollowsAt

\* So does delete_prefix, which asks detect_overlap for the next shorter route
\* first.
LEMMA DeleteFollows ==
    ASSUME Follows, NEW p \in Prefix, delete_prefix(p)
    PROVE  FollowsAt(init', up_aux', rib')
PROOF
    <1> DEFINE near == detect_overlap(p, INITIAL_BITS)
               limit == IF Len(p) <= INITIAL_BITS THEN Len(p) ELSE INITIAL_BITS
    <1>1. RibFollows(rib) /\ AuxFollows(up_aux, rib) /\ \A i \in Index : EntryFollows(init[i], i, rib)
        BY DEF Follows
    <1>2. /\ p # <<>> /\ p \in RoutesOf(rib)
          /\ init' = [i \in Index |->
                         IF Covers(p, i) THEN DeletedShort(init[i], p, near)
                         ELSE IF Covers(i, p) /\ HasChild(init[i]) THEN DeletedLong(init[i], p, near)
                         ELSE init[i]]
          /\ up_aux' = delete_entry(up_aux, p) /\ rib' = [rib EXCEPT ![p] = NULL]
        BY DEF delete_prefix, RoutesOf
    <1>3. p \in Keys
        BY <1>1, <1>2, RouteIs
    <1>4. IsNear(near, p, limit, rib)
        BY <1>1, <1>2, <1>3, DetectIs
    <1>5. RibWithout(rib, p, rib')
        BY <1>1, <1>2, RibCleared, Zenon
    <1> HIDE DEF near
    <1>6. RibFollows(rib')
        BY <1>5 DEF RibWithout
    <1>7. AuxFollows(up_aux', rib')
        <2>1. AuxFollows(delete_entry(up_aux, p), rib')
            BY <1>1, <1>2, <1>5, AuxDeleted
        <2> QED
            BY <1>2, <2>1
    <1>8. ASSUME NEW i \in Index PROVE EntryFollows(init'[i], i, rib')
        <2>1. EntryFollows(init[i], i, rib)
            BY <1>1
        <2>2. CASE Covers(p, i)
            <3>1. init'[i] = DeletedShort(init[i], p, near)
                BY <1>2, <2>2
            <3>2. IsNear(near, p, Len(p), rib)
                BY <1>3, <1>4, <2>2, LengthTells
            <3>3. EntryFollows(DeletedShort(init[i], p, near), i, rib')
                BY <1>1, <1>2, <1>5, <2>1, <2>2, <3>2, DeletedShortFollows
            <3> QED
                BY <3>1, <3>3
        <2>3. CASE Covers(i, p) /\ ~ Covers(p, i)
            <3>1. IsNear(near, p, INITIAL_BITS, rib)
                BY <1>3, <1>4, <2>3, LengthTells
            <3>2. HasChild(init[i]) /\ EntryFollows(DeletedLong(init[i], p, near), i, rib')
                BY <1>1, <1>2, <1>5, <2>1, <2>3, <3>1, DeletedLongFollows
            <3>3. init'[i] = DeletedLong(init[i], p, near)
                BY <1>2, <2>3, <3>2
            <3> QED
                BY <3>2, <3>3
        <2>4. CASE ~ Covers(i, p) /\ ~ Covers(p, i)
            <3>1. init'[i] = init[i]
                BY <1>2, <2>4
            <3>2. EntryFollows(init[i], i, rib')
                BY <1>1, <1>3, <1>5, <1>6, <2>1, <2>4, OtherFollows
            <3> QED
                BY <3>1, <3>2
        <2> QED
            BY <2>2, <2>3, <2>4
    <1>9. init' = [i \in Index |-> init'[i]]
        BY <1>2
    <1> QED
        BY <1>6, <1>7, <1>8, <1>9 DEF FollowsAt

\* Every call leaves the table as the routes demand.
THEOREM FollowsInvariant == Spec => []Follows
PROOF
    <1>1. Init => Follows
        BY InitFollows
    <1>2. ASSUME Follows, [Next]_vars
          PROVE  Follows'
        <2>1. CASE \E r \in Route : insert_prefix(r[1], r[2])
            <3>1. FollowsAt(init', up_aux', rib')
                BY <1>2, <2>1, InsertFollows
            <3> QED
                BY <3>1 DEF FollowsAt, Follows
        <2>2. CASE \E p \in Prefix : delete_prefix(p)
            <3>1. FollowsAt(init', up_aux', rib')
                BY <1>2, <2>2, DeleteFollows
            <3> QED
                BY <3>1 DEF FollowsAt, Follows
        <2>3. CASE destroy_trie
            <3>1. /\ init' = [i \in Index |-> Blank] /\ up_aux' = EmptyTrie
                  /\ rib' = [p \in Prefix |-> NULL]
                BY <2>3 DEF destroy_trie
            <3>2. RibFollows(rib') /\ AuxFollows(EmptyTrie, rib') /\ \A i \in Index : EntryFollows(Blank, i, rib')
                BY <3>1, EmptyFollows
            <3>3. init' = [i \in Index |-> init'[i]] /\ \A i \in Index : init'[i] = Blank
                BY <3>1
            <3> QED
                BY <3>1, <3>2, <3>3 DEF Follows
        <2>4. CASE UNCHANGED vars \/ \E p \in Prefix : Ignored(p)
            BY <1>2, <2>4 DEF Follows, Ignored, vars
        <2> QED
            BY <1>2, <2>1, <2>2, <2>3, <2>4 DEF Next
    <1> QED
        BY <1>1, <1>2, PTL DEF Spec

----------------------------------------------------------------------------
(* What the caller sees *)

\* The auxiliary trie holds exactly the caller's routes.
LEMMA AuxRules ==
    ASSUME Follows
    PROVE  AuxIsRib
PROOF
    <1> DEFINE S == {<<p, rib[p]>> : p \in Routes}
    <1>1. RibFollows(rib) /\ AuxFollows(up_aux, rib) /\ Routes = RoutesOf(rib)
        BY DEF Follows, Routes, RoutesOf
    <1>2. Exact(Nhi, up_aux)
        BY <1>1 DEF AuxFollows
    <1>3. ASSUME NEW r \in RulesOf(up_aux) PROVE r \in S
        <2>1. r = <<r[1], r[2]>> /\ r[1] \in Seq(Bit)
            BY <1>2, RulesAre
        <2>2. RuleAt(up_aux, r[1], r[2])
            BY <1>2, <2>1, RulesAre
        <2>3. r[1] \in Routes /\ r[2] = rib[r[1]]
            BY <1>1, <2>1, <2>2 DEF AuxFollows
        <2> QED
            BY <2>1, <2>3
    <1>4. ASSUME NEW p \in Routes PROVE <<p, rib[p]>> \in RulesOf(up_aux)
        <2>1. p \in Seq(Bit)
            BY <1>1, RouteIs
        <2>2. RuleAt(up_aux, p, rib[p])
            BY <1>1, <2>1 DEF AuxFollows
        <2> QED
            BY <1>2, <2>1, <2>2, RulesAre
    <1> QED
        BY <1>3, <1>4 DEF AuxIsRib

\* The auxiliary trie holds exactly the routes the caller has, after every call.
THEOREM AuxFollowsRib == Spec => []AuxIsRib
PROOF
    <1>1. Follows => AuxIsRib
        BY AuxRules
    <1> QED
        BY <1>1, FollowsInvariant, PTL

\* Every block of every trie has the cells its bitmaps say, and only tries with
\* something in them are kept.
THEOREM BlocksStayExact == Spec => []BlocksExact
PROOF
    <1>1. ASSUME Follows PROVE BlocksExact
        <2>1. TrieExact(up_aux)
            BY <1>1 DEF Follows, AuxFollows, Exact
        <2>2. ASSUME NEW i \in Index
              PROVE  TrieExact(init[i].node) /\ (HasChild(init[i]) <=> ~ IsEmpty(init[i].node[<<>>]))
            <3> DEFINE e == init[i]
            <3>1. EntryFollows(e, i, rib) /\ RibFollows(rib)
                BY <1>1 DEF Follows
            <3> HIDE DEF e
            <3>2. TrieExact(e.node)
                BY <3>1 DEF EntryFollows, TrieFollows, Exact
            <3>3. HasChild(e) => ~ IsEmpty(e.node[<<>>])
                BY <3>1 DEF EntryFollows
            <3>4. ~ HasChild(e) => e.node = EmptyTrie
                BY <3>1 DEF EntryFollows
            <3>5. IsEmpty(EmptyTrie[<<>>])
                BY EmptyTrieExact
            <3> QED
                BY <3>2, <3>3, <3>4, <3>5 DEF e
        <2> QED
            BY <2>1, <2>2 DEF BlocksExact
    <1> QED
        BY <1>1, FollowsInvariant, PTL

\* The next hop an entry has for its route.
LEMMA HandedIs ==
    ASSUME NEW R, RibFollows(R), NEW i \in Index, NEW e, EntryFollows(e, i, R), e.hi > 0
    PROVE  HandedBy(e) = R[CoverOf(i, R)]
PROOF
    <1>1. CASE HasChild(e)
        <2>1. TrieFollows(e.node, i, R, e.hi > 0) /\ <<>> \in Keys /\ <<>> \in Seq(Bit)
            BY <1>1, EntryIs, EmptyKey
        <2>2. Exact(Nhi, e.node) /\ RuleAt(e.node, <<>>, R[CoverOf(i, R)])
            BY <2>1 DEF TrieFollows
        <2>3. NhiOf(e.node, <<>>) = R[CoverOf(i, R)]
            BY <2>1, <2>2, NhiOfRule
        <2> QED
            BY <1>1, <2>3 DEF HandedBy
    <1>2. CASE ~ HasChild(e)
        BY <1>2, EntryIs DEF HandedBy
    <1> QED
        BY <1>1, <1>2

\* The rules of an entry's trie but its own one: those of the routes below.
LEMMA LowerRules ==
    ASSUME NEW R, RibFollows(R), NEW i \in Index, NEW own, NEW t, TrieFollows(t, i, R, own)
    PROVE  /\ \A r \in RulesOf(t) : r[1] # <<>> => \E p \in BelowOf(i, R) : r = <<Rest(p), R[p]>>
           /\ \A p \in BelowOf(i, R) : <<Rest(p), R[p]>> \in RulesOf(t) /\ Rest(p) # <<>>
PROOF
    <1>1. Exact(Nhi, t)
        BY DEF TrieFollows
    <1>2. ASSUME NEW r \in RulesOf(t), r[1] # <<>>
          PROVE  \E p \in BelowOf(i, R) : r = <<Rest(p), R[p]>>
        <2>1. r = <<r[1], r[2]>> /\ r[1] \in Seq(Bit)
            BY <1>1, RulesAre
        <2>2. RuleAt(t, r[1], r[2])
            BY <1>1, <2>1, RulesAre
        <2>3. \E p \in BelowOf(i, R) : r[1] = Rest(p) /\ r[2] = R[p]
            BY <1>2, <2>1, <2>2 DEF TrieFollows
        <2> QED
            BY <2>1, <2>3
    <1>3. ASSUME NEW p \in BelowOf(i, R)
          PROVE  <<Rest(p), R[p]>> \in RulesOf(t) /\ Rest(p) # <<>>
        <2>1. Rest(p) \in Seq(Bit) /\ Rest(p) # <<>>
            BY BelowIs
        <2>2. RuleAt(t, Rest(p), R[p])
            BY <2>1 DEF TrieFollows
        <2> QED
            BY <1>1, <2>1, <2>2, RulesAre
    <1> QED
        BY <1>2, <1>3

\* Every entry follows from the caller's routes.
THEOREM EntriesStay == Spec => []EntriesFollowRib
PROOF
    <1>1. ASSUME Follows PROVE EntriesFollowRib
        <2>1. RibFollows(rib) /\ Routes = RoutesOf(rib)
            BY <1>1 DEF Follows, Routes, RoutesOf
        <2>2. ASSUME NEW i \in Index, NEW e, e = init[i], NEW c, c = CoverOf(i, rib),
                     NEW B, B = BelowOf(i, rib)
              PROVE  /\ e.hi = Len(c)
                     /\ B # {} => HasChild(e)
                     /\ HasChild(e) => B # {} \/ c # <<>>
                     /\ e.hi > 0 => HandedBy(e) = rib[c]
                     /\ {r \in RulesOf(e.node) : r[1] # <<>>} = {<<Rest(p), rib[p]>> : p \in B}
            <3>1. EntryFollows(e, i, rib)
                BY <1>1, <2>2 DEF Follows
            <3>2. /\ e.hi = Len(c)
                  /\ HasChild(e) => ~ IsEmpty(e.node[<<>>])
                  /\ ~ HasChild(e) => B = {}
                BY <2>1, <2>2, <3>1, EntryIs
            <3> DEFINE own == HasChild(e) /\ e.hi > 0
            <3>3. TrieFollows(e.node, i, rib, own)
                BY <3>1 DEF EntryFollows
            <3> HIDE DEF own
            <3>4. ASSUME HasChild(e), B = {} PROVE c # <<>>
                <4>1. Exact(Nhi, e.node) /\ ~ IsEmpty(e.node[<<>>])
                    BY <3>2, <3>3, <3>4 DEF TrieFollows
                <4>2. \E q \in Seq(Bit) : \E x : RuleAt(e.node, q, x)
                    BY <4>1, NoRules
                <4>3. own
                    BY <2>2, <3>3, <3>4, <4>2 DEF TrieFollows
                <4> QED
                    BY <3>2, <4>3, EmptyLength DEF own
            <3>5. e.hi > 0 => HandedBy(e) = rib[c]
                BY <2>1, <2>2, <3>1, HandedIs
            <3>6. /\ \A r \in RulesOf(e.node) : r[1] # <<>> => \E p \in B : r = <<Rest(p), rib[p]>>
                  /\ \A p \in B : <<Rest(p), rib[p]>> \in RulesOf(e.node) /\ Rest(p) # <<>>
                BY <2>1, <2>2, <3>3, LowerRules
            <3>7. {r \in RulesOf(e.node) : r[1] # <<>>} = {<<Rest(p), rib[p]>> : p \in B}
                <4>1. \A p \in B : <<Rest(p), rib[p]>>[1] = Rest(p)
                    OBVIOUS
                <4> QED
                    BY <3>6, <4>1
            <3> QED
                BY <3>2, <3>4, <3>5, <3>7
        <2>3. ASSUME NEW i \in Index
              PROVE  /\ Longest({p \in Routes : Covers(p, i)}) = CoverOf(i, rib)
                     /\ {p \in Routes : Above(i, p)} = BelowOf(i, rib)
            BY <2>1 DEF CoverOf, BelowOf
        <2> QED
            BY <2>2, <2>3 DEF EntriesFollowRib
    <1> QED
        BY <1>1, FollowsInvariant, PTL

----------------------------------------------------------------------------
(* Searching the table *)

\* Below an entry, a prefix covers an address if its rest does.
LEMMA RestCovers ==
    ASSUME NEW i \in Index, NEW p \in Keys, NEW ip \in Keys, Covers(i, p), Covers(i, ip)
    PROVE  Covers(Rest(p), Rest(ip)) <=> Covers(p, ip)
PROOF
    <1> DEFINE n == INITIAL_BITS
    <1>1. /\ Rest(p) \in Seq(Bit) /\ Len(Rest(p)) = Len(p) - n
          /\ Rest(ip) \in Seq(Bit) /\ Len(Rest(ip)) = Len(ip) - n
        BY RestIs
    <1>2. Len(i) = n /\ n \in Nat /\ Len(p) \in Nat /\ Len(ip) \in Nat /\ n <= Len(p) /\ n <= Len(ip)
        BY IndexIsKey, Initial, KeyIsSeq DEF Covers
    <1>3. \A k \in 1 .. Len(p) - n : Rest(p)[k] = p[n + k]
        BY <1>2, PieceBits DEF Rest
    <1>4. \A k \in 1 .. Len(ip) - n : Rest(ip)[k] = ip[n + k]
        BY <1>2, PieceBits DEF Rest
    <1>5. \A k \in 1 .. n : p[k] = ip[k]
        BY <1>2 DEF Covers
    <1>6. ASSUME Covers(Rest(p), Rest(ip)) PROVE Covers(p, ip)
        <2>1. Len(p) <= Len(ip)
            BY <1>1, <1>2, <1>6 DEF Covers
        <2>2. ASSUME NEW k \in 1 .. Len(p), ~ (k <= n) PROVE p[k] = ip[k]
            <3>1. k - n \in 1 .. Len(p) - n /\ k - n \in 1 .. Len(ip) - n /\ n + (k - n) = k
                BY <1>2, <2>1, <2>2
            <3>2. Rest(p)[k - n] = Rest(ip)[k - n]
                BY <1>1, <1>6, <3>1 DEF Covers
            <3> QED
                BY <1>3, <1>4, <3>1, <3>2
        <2>3. ASSUME NEW k \in 1 .. Len(p) PROVE p[k] = ip[k]
            BY <1>2, <1>5, <2>2
        <2> QED
            BY <2>1, <2>3 DEF Covers
    <1>7. ASSUME Covers(p, ip) PROVE Covers(Rest(p), Rest(ip))
        <2>1. Len(p) <= Len(ip) /\ \A k \in 1 .. Len(p) : p[k] = ip[k]
            BY <1>7 DEF Covers
        <2>2. ASSUME NEW k \in 1 .. Len(p) - n PROVE Rest(p)[k] = Rest(ip)[k]
            <3>1. n + k \in 1 .. Len(p) /\ k \in 1 .. Len(ip) - n
                BY <1>2, <2>1
            <3> QED
                BY <1>3, <1>4, <2>1, <3>1
        <2> QED
            BY <1>1, <1>2, <2>1, <2>2 DEF Covers
    <1> QED
        BY <1>6, <1>7

\* A route covers an address if it covers the entry of the address, or it is below
\* the entry and its rest covers the rest of the address.
LEMMA RouteCovers ==
    ASSUME NEW R, RibFollows(R), NEW i \in Index, NEW ip \in Keys, Covers(i, ip),
           NEW q \in RoutesOf(R)
    PROVE  /\ Covers(q, ip) <=> Covers(q, i) \/ (q \in BelowOf(i, R) /\ Covers(Rest(q), Rest(ip)))
           /\ Covers(q, i) => Len(q) <= INITIAL_BITS
PROOF
    <1>1. q \in Keys /\ Len(q) \in Nat
        BY RouteIs
    <1>2. i \in Keys /\ Len(i) = INITIAL_BITS /\ INITIAL_BITS \in Nat /\ Len(ip) \in Nat
        BY IndexIsKey, KeyIsSeq, Initial
    <1>3. Covers(q, i) => Covers(q, ip) /\ Len(q) <= INITIAL_BITS
        BY <1>1, <1>2, CoversTransitive, LengthTells
    <1>4. ASSUME Covers(q, ip), ~ Covers(q, i)
          PROVE  q \in BelowOf(i, R) /\ Covers(Rest(q), Rest(ip))
        <2>1. Len(i) <= Len(q)
            <3>1. ~ (Len(q) <= Len(i))
                BY <1>1, <1>2, <1>4, Comparable
            <3> QED
                BY <1>1, <1>2, <3>1
        <2>2. Covers(i, q)
            BY <1>1, <1>2, <1>4, <2>1, Comparable
        <2>3. i # q
            BY <1>1, <1>4, CoversSelf
        <2>4. Covers(Rest(q), Rest(ip))
            BY <1>1, <1>4, <2>2, RestCovers
        <2> QED
            BY <2>2, <2>3, <2>4 DEF BelowOf, Above
    <1>5. ASSUME q \in BelowOf(i, R), Covers(Rest(q), Rest(ip)) PROVE Covers(q, ip)
        <2>1. Covers(i, q)
            BY <1>5 DEF BelowOf, Above
        <2> QED
            BY <1>1, <1>5, <2>1, RestCovers
    <1> QED
        BY <1>3, <1>4, <1>5

\* A search fits the tries of the entries: their prefixes are not longer than what
\* is left of an address.
LEMMA TrieFits ==
    ASSUME NEW R, RibFollows(R), NEW i \in Index, NEW own, NEW t, TrieFollows(t, i, R, own),
           NEW ip \in Seq(Bit), Len(ip) = KeyLength - INITIAL_BITS
    PROVE  Fits(t, ip)
PROOF
    <1>1. \A d \in DOMAIN t : Len(d) <= Len(ip)
        BY DEF TrieFollows
    <1>2. ASSUME NEW q \in Seq(Bit), NEW x, RuleAt(t, q, x) PROVE Len(q) <= Len(ip)
        <2>1. q = <<>> \/ \E p \in BelowOf(i, R) : q = Rest(p)
            BY <1>2 DEF TrieFollows
        <2>2. CASE q = <<>>
            BY <2>2, EmptyLength, Initial
        <2>3. CASE \E p \in BelowOf(i, R) : q = Rest(p)
            <3>1. PICK p \in BelowOf(i, R) : q = Rest(p)
                BY <2>3
            <3>2. p \in Keys /\ Covers(i, p)
                BY BelowIs
            <3> QED
                BY <3>1, <3>2, RestIs
        <2> QED
            BY <2>1, <2>2, <2>3
    <1> QED
        BY <1>1, <1>2 DEF Fits

\* What a search returns below entry i.
Searched(e, ip) ==
    IF HasChild(e) THEN do_search_lazy(e.node, Rest(ip))
    ELSE IF "NEXT" \in e.flags THEN e.ptr
    ELSE NULL

\* The next hop of the longest route that covers the address.
LEMMA EntryFinds ==
    ASSUME NEW R, RibFollows(R), NEW i \in Index, NEW e, EntryFollows(e, i, R),
           NEW ip \in Keys, Covers(i, ip), Len(ip) = KeyLength
    PROVE  \E c : /\ IsCover(ip, R, c)
                  /\ Searched(e, ip) = IF c = <<>> THEN NULL ELSE R[c]
PROOF
    <1> DEFINE b == CoverOf(i, R)
               r == Rest(ip)
               x == do_search_lazy(e.node, r)
    <1>1. /\ r \in Keys /\ r \in Seq(Bit) /\ Len(r) = KeyLength - INITIAL_BITS
          /\ Len(r) \in Nat /\ INITIAL_BITS \in Nat
        BY RestIs, KeyIsSeq, Initial
    <1>2. ASSUME NEW q \in RoutesOf(R)
          PROVE  /\ Covers(q, ip) <=> Covers(q, i) \/ (q \in BelowOf(i, R) /\ Covers(Rest(q), r))
                 /\ Covers(q, i) => Len(q) <= INITIAL_BITS
                 /\ Len(q) \in Nat /\ q # <<>>
        BY RouteCovers, RouteIs
    <1>3. /\ Len(b) \in Nat
          /\ Len(b) > 0 <=> b \in RoutesOf(R)
          /\ b \in RoutesOf(R) => Covers(b, i)
          /\ b \notin RoutesOf(R) => b = <<>> /\ \A q \in RoutesOf(R) : ~ Covers(q, i)
          /\ \A q \in RoutesOf(R) : Covers(q, i) => b \in RoutesOf(R) /\ Len(q) <= Len(b)
          /\ b \in RoutesOf(R) <=> b # <<>>
        BY <1>2, CoverLength
    <1>4. /\ e.hi = Len(b)
          /\ HasChild(e) => TrieFollows(e.node, i, R, e.hi > 0)
          /\ ~ HasChild(e) => /\ BelowOf(i, R) = {}
                              /\ IF e.hi > 0 THEN e.flags = {"NEXT"} /\ e.ptr = R[b]
                                 ELSE e.flags = {} /\ e.ptr = NULL
        BY EntryIs
    <1>5. ASSUME NEW q \in BelowOf(i, R)
          PROVE  /\ q \in RoutesOf(R) /\ Len(q) > INITIAL_BITS /\ Len(Rest(q)) = Len(q) - INITIAL_BITS
                 /\ Rest(q) \in Seq(Bit) /\ Rest(q) # <<>> /\ Len(Rest(q)) \in Nat
        <2>1. q \in RoutesOf(R) /\ q \in Keys /\ Covers(i, q) /\ Len(q) > INITIAL_BITS /\ Rest(q) # <<>>
            BY BelowIs
        <2> QED
            BY <2>1, RestIs
    <1> HIDE DEF b, r
    <1>6. ASSUME \A q \in BelowOf(i, R) : ~ Covers(Rest(q), r)
          PROVE  IsCover(ip, R, b)
        BY <1>2, <1>3, <1>6 DEF IsCover
    <1>7. CASE ~ HasChild(e)
        <2>1. IsCover(ip, R, b)
            BY <1>4, <1>6, <1>7
        <2>2. Searched(e, ip) = IF b = <<>> THEN NULL ELSE R[b]
            BY <1>3, <1>4, <1>7 DEF Searched
        <2> QED
            BY <2>1, <2>2
    <1>8. CASE HasChild(e)
        <2> DEFINE own == e.hi > 0
        <2>1. TrieFollows(e.node, i, R, own)
            BY <1>4, <1>8
        <2>2. own <=> b # <<>>
            BY <1>3, <1>4
        <2>3. Searched(e, ip) = x
            BY <1>8 DEF Searched, r
        <2> HIDE DEF own
        <2>4. Fits(e.node, r) /\ Exact(Nhi, e.node)
            <3>1. Fits(e.node, r)
                BY <1>1, <2>1, TrieFits
            <3> QED
                BY <2>1, <3>1 DEF TrieFollows
        <2>5. Found(e.node, r, Len(r) + 1, x)
            BY <1>1, <2>4, LazyFinds
        <2>6. \A q \in Seq(Bit) : \A y :
                 RuleAt(e.node, q, y) <=> \/ q = <<>> /\ own /\ y = R[b]
                                          \/ \E p \in BelowOf(i, R) : q = Rest(p) /\ y = R[p]
            BY <2>1 DEF TrieFollows, b
        <2> HIDE DEF x
        <2>7. ASSUME NEW q \in BelowOf(i, R), Covers(Rest(q), r)
              PROVE  RuleAt(e.node, Rest(q), R[q]) /\ Len(Rest(q)) < Len(r) + 1
            <3>1. Len(Rest(q)) <= Len(r)
                BY <2>7 DEF Covers
            <3> QED
                BY <1>1, <1>5, <2>6, <3>1
        <2>8. CASE NoneNearby(e.node, r, Len(r) + 1) /\ x = NULL
            <3>1. \A q \in BelowOf(i, R) : ~ Covers(Rest(q), r)
                BY <1>5, <2>7, <2>8 DEF NoneNearby
            <3>2. ~ own
                <4>1. SUFFICES ASSUME own PROVE FALSE
                    OBVIOUS
                <4>2. RuleAt(e.node, <<>>, R[b])
                    BY <2>6, <4>1, EmptyLength
                <4>3. Covers(<<>>, r) /\ Len(<<>>) < Len(r) + 1
                    BY <1>1, EmptyLength DEF Covers
                <4> QED
                    BY <2>8, <4>2, <4>3, EmptyLength DEF NoneNearby
            <3>3. IsCover(ip, R, b) /\ b = <<>>
                BY <1>6, <2>2, <3>1, <3>2
            <3> QED
                BY <2>3, <2>8, <3>3
        <2>9. CASE \E q \in Seq(Bit) : Nearby(e.node, r, Len(r) + 1, q, x)
            <3>1. PICK q \in Seq(Bit) : Nearby(e.node, r, Len(r) + 1, q, x)
                BY <2>9
            <3>2. RuleAt(e.node, q, x) /\ Covers(q, r)
                BY <3>1 DEF Nearby
            <3>3. ASSUME NEW s \in BelowOf(i, R), Covers(Rest(s), r)
                  PROVE  Len(Rest(s)) <= Len(q)
                BY <1>5, <2>7, <3>1, <3>3 DEF Nearby
            <3>4. CASE q = <<>> /\ own /\ x = R[b]
                <4>1. \A s \in BelowOf(i, R) : ~ Covers(Rest(s), r)
                    <5>1. ASSUME NEW s \in BelowOf(i, R), Covers(Rest(s), r) PROVE FALSE
                        <6>1. Len(Rest(s)) <= 0
                            BY <3>3, <3>4, <5>1, EmptyLength
                        <6> QED
                            BY <1>1, <1>5, <6>1
                    <5> QED
                        BY <5>1
                <4>2. IsCover(ip, R, b)
                    BY <1>6, <4>1
                <4> QED
                    BY <2>2, <2>3, <3>4, <4>2
            <3>5. CASE \E p \in BelowOf(i, R) : q = Rest(p) /\ x = R[p]
                <4>1. PICK p \in BelowOf(i, R) : q = Rest(p) /\ x = R[p]
                    BY <3>5
                <4>2. p \in RoutesOf(R) /\ Covers(p, ip) /\ p # <<>> /\ Len(p) > INITIAL_BITS /\ Len(p) \in Nat
                    BY <1>2, <1>5, <3>2, <4>1
                <4>3. ASSUME NEW s \in RoutesOf(R), Covers(s, ip) PROVE Len(s) <= Len(p)
                    <5>1. CASE Covers(s, i)
                        BY <1>1, <1>2, <4>2, <5>1
                    <5>2. CASE s \in BelowOf(i, R) /\ Covers(Rest(s), r)
                        <6>1. Len(Rest(s)) <= Len(Rest(p))
                            BY <3>3, <4>1, <5>2
                        <6>2. Len(Rest(s)) = Len(s) - INITIAL_BITS /\ Len(Rest(p)) = Len(p) - INITIAL_BITS
                            BY <1>5, <4>1, <5>2
                        <6> QED
                            BY <1>1, <1>2, <4>2, <6>1, <6>2
                    <5> QED
                        BY <1>2, <4>3, <5>1, <5>2
                <4>4. IsCover(ip, R, p)
                    BY <4>2, <4>3 DEF IsCover
                <4> QED
                    BY <2>3, <4>1, <4>2, <4>4
            <3> QED
                BY <2>6, <3>2, <3>4, <3>5
        <2> QED
            BY <2>5, <2>8, <2>9 DEF Found
    <1> QED
        BY <1>7, <1>8

\* An address and its entry.
LEMMA AddressIs ==
    ASSUME NEW ip \in Address
    PROVE  /\ ip \in Keys /\ Len(ip) = KeyLength
           /\ SubSeq(ip, 1, INITIAL_BITS) \in Index /\ Covers(SubSeq(ip, 1, INITIAL_BITS), ip)
PROOF
    <1>1. KeyLength \in 0 .. KeyLength /\ INITIAL_BITS \in 0 .. KeyLength /\ INITIAL_BITS \in Nat
        BY Initial
    <1>2. ip \in Keys /\ Len(ip) = KeyLength
        BY <1>1, KeysOfLength DEF Address
    <1> DEFINE i == SubSeq(ip, 1, INITIAL_BITS)
    <1>3. i \in Keys /\ Len(i) = INITIAL_BITS /\ Covers(i, ip)
        BY <1>1, <1>2, Beginning, Initial
    <1> HIDE DEF i
    <1>4. i \in Index
        BY <1>1, <1>3, KeysOfLength DEF Index
    <1> QED
        BY <1>2, <1>3, <1>4 DEF i

\* A search returns the next hop of the longest matching route.
THEOREM SearchFindsLongest == Spec => []SearchIsLongestMatch
PROOF
    <1>1. ASSUME Follows PROVE SearchIsLongestMatch
        <2>1. RibFollows(rib) /\ Routes = RoutesOf(rib)
            BY <1>1 DEF Follows, Routes, RoutesOf
        <2>2. ASSUME NEW ip \in Address, NEW best, best = CoverOf(ip, rib)
              PROVE  search(ip) = IF best = <<>> THEN NULL ELSE rib[best]
            <3> DEFINE i == SubSeq(ip, 1, INITIAL_BITS)
            <3>1. ip \in Keys /\ Len(ip) = KeyLength /\ i \in Index /\ Covers(i, ip)
                BY AddressIs
            <3>2. search(ip) = Searched(init[i], ip)
                BY DEF search, Searched
            <3> HIDE DEF i
            <3>3. EntryFollows(init[i], i, rib)
                BY <1>1, <3>1 DEF Follows
            <3>4. PICK c : /\ IsCover(ip, rib, c)
                           /\ Searched(init[i], ip) = IF c = <<>> THEN NULL ELSE rib[c]
                BY <2>1, <3>1, <3>3, EntryFinds
            <3>5. best = c
                BY <2>1, <2>2, <3>1, <3>4, CoverUnique
            <3> QED
                BY <3>2, <3>4, <3>5
        <2>3. \A ip : Longest({p \in Routes : Covers(p, ip)}) = CoverOf(ip, rib)
            BY <2>1 DEF CoverOf
        <2> QED
            BY <2>2, <2>3 DEF SearchIsLongestMatch
    <1> QED
        BY <1>1, FollowsInvariant, PTL

\* Looking at the internal bitmaps only on the way back changes no answer.
THEOREM SearchesStayEqual == Spec => []LazyAgrees
PROOF
    <1>1. ASSUME Follows PROVE LazyAgrees
        <2>1. RibFollows(rib)
            BY <1>1 DEF Follows
        <2>2. ASSUME NEW i \in Index, NEW ip \in [1 .. KeyLength - INITIAL_BITS -> Bit]
              PROVE  do_search_lazy(init[i].node, ip) = do_search(init[i].node, ip)
            <3>1. KeyLength - INITIAL_BITS \in 0 .. KeyLength
                BY Initial
            <3>2. ip \in Keys /\ Len(ip) = KeyLength - INITIAL_BITS
                BY <3>1, KeysOfLength
            <3>3. ip \in Seq(Bit)
                BY <3>2, KeyIsSeq
            <3> DEFINE e == init[i]
                       own == HasChild(e) /\ e.hi > 0
            <3>4. TrieFollows(e.node, i, rib, own)
                BY <1>1 DEF Follows, EntryFollows
            <3> HIDE DEF own, e
            <3>5. Fits(e.node, ip)
                BY <2>1, <3>2, <3>3, <3>4, TrieFits
            <3>6. Exact(Nhi, e.node)
                BY <3>4 DEF TrieFollows
            <3> QED
                BY <3>2, <3>5, <3>6, SearchesAgree DEF e
        <2> QED
            BY <2>2 DEF LazyAgrees
    <1> QED
        BY <1>1, FollowsInvariant, PTL

----------------------------------------------------------------------------
(* Handing next hops over *)

\* The first one of a set of entries.
Firsts(S) == {i \in S : \A j \in S : Value(i) <= Value(j)}

\* Of a set of entries that is not empty, one is first.
LEMMA OneFirst ==
    ASSUME NEW S \in SUBSET Index
    PROVE  Cardinality(Firsts(S)) = IF S = {} THEN 0 ELSE 1
PROOF
    <1>1. CASE S = {}
        <2>1. Firsts(S) = {}
            BY <1>1 DEF Firsts
        <2> QED
            BY <1>1, <2>1, FS_EmptySet
    <1>2. CASE S # {}
        <2> DEFINE T == {Value(i) : i \in S}
        <2>1. \A i \in S : i \in Seq(Bit) /\ Len(i) = INITIAL_BITS /\ Value(i) \in Nat
            BY IndexIsKey, ValueBound
        <2>2. T \in SUBSET Nat /\ T # {}
            BY <1>2, <2>1
        <2>3. \E x \in T : \A y \in T : x <= y
            <3> HIDE DEF T
            <3> QED
                BY <2>2, LeastOf
        <2>4. PICK i \in S : \A j \in S : Value(i) <= Value(j)
            BY <2>3
        <2>5. ASSUME NEW k \in S, \A j \in S : Value(k) <= Value(j) PROVE k = i
            <3>1. Value(k) <= Value(i) /\ Value(i) <= Value(k)
                BY <2>4, <2>5
            <3>2. Value(k) = Value(i)
                BY <2>1, <3>1
            <3> QED
                BY <2>1, <3>2, ValueInjective
        <2>6. Firsts(S) = {i}
            BY <2>4, <2>5 DEF Firsts
        <2> QED
            BY <1>2, <2>6, FS_Singleton
    <1> QED
        BY <1>1, <1>2

\* The entries that stand for route p.
Holders(p) == {i \in Index : CoverOf(i, rib) = p}

\* A short route is known if an entry stands for it.
LEMMA KnownIs ==
    ASSUME RibFollows(rib), NEW p \in RoutesOf(rib)
    PROVE  /\ Len(p) <= INITIAL_BITS => (Known(p) <=> Holders(p) # {})
           /\ ~ (Len(p) <= INITIAL_BITS) => Known(p) /\ Holders(p) = {}
           /\ \A i \in Index : Covers(p, i) /\ Len(CoverOf(i, rib)) <= Len(p) <=> i \in Holders(p)
PROOF
    <1>1. p \in Keys /\ Len(p) \in Nat /\ INITIAL_BITS \in Nat /\ Routes = RoutesOf(rib)
        BY RouteIs, Initial DEF Routes, RoutesOf
    <1>2. ASSUME NEW i \in Index, CoverOf(i, rib) = p
          PROVE  /\ Covers(p, i) /\ Len(p) <= INITIAL_BITS
                 /\ \A q \in RoutesOf(rib) : Above(p, q) => ~ Covers(q, i)
        <2>1. /\ Len(p) <= INITIAL_BITS /\ Covers(p, i)
              /\ \A q \in RoutesOf(rib) : Covers(q, i) => Len(q) <= Len(p)
            BY <1>1, <1>2, CoverLength
        <2>2. ASSUME NEW q \in RoutesOf(rib), Above(p, q), Covers(q, i) PROVE FALSE
            <3>1. q \in Keys /\ Len(q) \in Nat
                BY RouteIs
            <3>2. Len(p) < Len(q) /\ Len(q) <= Len(p)
                BY <1>1, <2>1, <2>2, <3>1, AboveShorter
            <3> QED
                BY <1>1, <3>1, <3>2
        <2> QED
            BY <2>1, <2>2
    <1>3. ASSUME NEW i \in Index, Covers(p, i),
                 \A q \in RoutesOf(rib) : Above(p, q) => ~ Covers(q, i)
          PROVE  CoverOf(i, rib) = p
        <2>1. i \in Keys /\ Len(i) \in Nat
            BY IndexIsKey, KeyIsSeq
        <2>2. ASSUME NEW q \in RoutesOf(rib), Covers(q, i) PROVE Len(q) <= Len(p)
            <3>1. q \in Keys /\ Len(q) \in Nat
                BY RouteIs
            <3>2. ASSUME Len(p) < Len(q) PROVE FALSE
                <4>1. Covers(p, q)
                    BY <1>1, <1>3, <2>1, <2>2, <3>1, <3>2, Comparable
                <4>2. p # q
                    BY <1>1, <3>2
                <4> QED
                    BY <1>3, <2>2, <4>1, <4>2 DEF Above
            <3> QED
                BY <1>1, <3>1, <3>2
        <2>3. IsCover(i, rib, p)
            BY <1>3, <2>2 DEF IsCover
        <2> QED
            BY <2>1, <2>3, CoverUnique
    <1>4. ASSUME NEW i \in Index
          PROVE  Covers(p, i) /\ Len(CoverOf(i, rib)) <= Len(p) <=> i \in Holders(p)
        <2>1. ASSUME Covers(p, i), Len(CoverOf(i, rib)) <= Len(p) PROVE CoverOf(i, rib) = p
            <3>1. i \in Keys /\ \A q \in RoutesOf(rib) : Covers(q, i) => Len(q) <= Len(CoverOf(i, rib)) /\ Len(q) \in Nat
                BY CoverLength, RouteIs, IndexIsKey
            <3>2. Len(CoverOf(i, rib)) \in Nat
                BY CoverLength
            <3>3. \A q \in RoutesOf(rib) : Covers(q, i) => Len(q) <= Len(p)
                BY <1>1, <2>1, <3>1, <3>2
            <3>4. IsCover(i, rib, p)
                BY <2>1, <3>3 DEF IsCover
            <3> QED
                BY <3>1, <3>4, CoverUnique
        <2>2. ASSUME CoverOf(i, rib) = p PROVE Covers(p, i) /\ Len(CoverOf(i, rib)) <= Len(p)
            BY <1>1, <1>2, <2>2
        <2> QED
            BY <2>1, <2>2 DEF Holders
    <1>5. ASSUME Len(p) <= INITIAL_BITS PROVE Known(p) <=> Holders(p) # {}
        BY <1>1, <1>2, <1>3, <1>5 DEF Known, Holders
    <1>6. ASSUME ~ (Len(p) <= INITIAL_BITS) PROVE Known(p) /\ Holders(p) = {}
        <2>1. Len(p) > INITIAL_BITS
            BY <1>1, <1>6
        <2> QED
            BY <1>2, <1>6, <2>1 DEF Known, Holders
    <1> QED
        BY <1>4, <1>5, <1>6

\* d hands every next hop over once whose route goes from rib to R2 and is known.
HandsOver(d, R2) ==
    /\ d = [n \in Nhi |-> d[n]]
    /\ \A r \in Route :
          d[r[2]] = IF rib[r[1]] = r[2] /\ R2[r[1]] = NULL /\ Known(r[1]) THEN 1 ELSE 0

\* A route of the caller with the next hop of r is r.
LEMMA HopIs ==
    ASSUME RibFollows(rib), NEW r \in Route
    PROVE  /\ r[2] \in Nhi /\ r[2] # NULL /\ r[1] \in Prefix
           /\ \A p \in RoutesOf(rib) : rib[p] = r[2] => p = r[1]
           /\ rib[r[1]] = r[2] => r[1] \in RoutesOf(rib)
PROOF
    <1>1. r[2] \in Nhi /\ r[1] \in Prefix
        BY DEF Nhi, Prefix
    <1>2. r[2] # NULL
        BY <1>1, TreeBitmapAssumption
    <1> QED
        BY <1>1, <1>2, OneNhi DEF RoutesOf

\* insert_prefix hands nothing over.
LEMMA InsertHands ==
    ASSUME Follows, NEW s \in Route, insert_prefix(s[1], s[2])
    PROVE  HandsOver(destroyed', rib')
PROOF
    <1>1. RibFollows(rib) /\ destroyed' = None /\ rib' = [rib EXCEPT ![s[1]] = s[2]]
        BY DEF Follows, insert_prefix
    <1>2. rib \in [Prefix -> Nhi \cup {NULL}] /\ s[1] \in Prefix /\ s[2] # NULL
        BY <1>1, HopIs DEF RibFollows
    <1>3. ASSUME NEW r \in Route, rib[r[1]] = r[2] PROVE rib'[r[1]] # NULL
        <2>1. r[2] # NULL /\ r[1] \in Prefix
            BY <1>1, HopIs
        <2>2. rib'[r[1]] = IF r[1] = s[1] THEN s[2] ELSE rib[r[1]]
            BY <1>1, <1>2, <2>1
        <2> QED
            BY <1>2, <1>3, <2>1, <2>2
    <1>4. \A r \in Route : destroyed'[r[2]] = 0
        BY <1>1, HopIs DEF None
    <1>5. destroyed' = [n \in Nhi |-> destroyed'[n]]
        BY <1>1 DEF None
    <1> QED
        BY <1>3, <1>4, <1>5 DEF HandsOver

\* delete_prefix hands the next hop of its route over, if the route is known.
LEMMA DeleteHands ==
    ASSUME Follows, NEW p \in Prefix, delete_prefix(p)
    PROVE  HandsOver(destroyed', rib')
PROOF
    <1>1. /\ RibFollows(rib) /\ \A i \in Index : EntryFollows(init[i], i, rib)
          /\ p \in RoutesOf(rib) /\ rib' = [rib EXCEPT ![p] = NULL] /\ destroyed' = Handed(p)
        BY DEF Follows, delete_prefix, RoutesOf
    <1>2. p \in Keys /\ Len(p) \in Nat /\ rib[p] # NULL /\ Len(p) > 0
        BY <1>1, RouteIs
    <1>3. RibWithout(rib, p, rib')
        BY <1>1, RibCleared, Zenon
    <1>4. ASSUME NEW r \in Route
          PROVE  rib[r[1]] = r[2] /\ rib'[r[1]] = NULL <=> r[1] = p /\ rib[p] = r[2]
        <2>1. /\ r[2] # NULL /\ r[1] \in Prefix
              /\ rib[r[1]] = r[2] => r[1] \in RoutesOf(rib)
            BY <1>1, HopIs
        <2>2. rib'[p] = NULL /\ \A q \in RoutesOf(rib) : q # p => rib'[q] = rib[q]
            BY <1>3 DEF RibWithout
        <2> QED
            BY <2>1, <2>2
    <1>5. ASSUME NEW n \in Nhi
          PROVE  Handed(p)[n] = IF rib[p] = n /\ Known(p) THEN 1 ELSE 0
        <2>1. CASE Len(p) <= INITIAL_BITS
            <3> DEFINE S == {i \in Handing(p) : HandedBy(init[i]) = n}
            <3>1. Handed(p)[n] = Cardinality(S)
                BY <1>5, <2>1 DEF Handed
            <3>2. \A i \in Index : i \in Leaving(p) <=> i \in Holders(p)
                <4>1. \A i \in Index : init[i].hi = Len(CoverOf(i, rib))
                    BY <1>1 DEF EntryFollows
                <4> QED
                    BY <1>1, <4>1, KnownIs DEF Leaving
            <3>3. Leaving(p) = Holders(p) /\ Holders(p) \in SUBSET Index
                BY <3>2 DEF Leaving, Holders
            <3>4. Handing(p) = Firsts(Holders(p))
                BY <3>3 DEF Handing, Firsts
            <3>5. ASSUME NEW i \in Handing(p) PROVE HandedBy(init[i]) = rib[p]
                <4>1. i \in Index /\ CoverOf(i, rib) = p
                    BY <3>4, <3>5 DEF Firsts, Holders
                <4>2. EntryFollows(init[i], i, rib) /\ init[i].hi > 0
                    BY <1>1, <1>2, <4>1 DEF EntryFollows
                <4> QED
                    BY <1>1, <4>1, <4>2, HandedIs
            <3>6. S = IF rib[p] = n THEN Firsts(Holders(p)) ELSE {}
                BY <3>4, <3>5
            <3> HIDE DEF S
            <3>7. Cardinality(S) = IF rib[p] = n /\ Holders(p) # {} THEN 1 ELSE 0
                BY <3>3, <3>6, OneFirst, FS_EmptySet
            <3>8. Known(p) <=> Holders(p) # {}
                BY <1>1, <2>1, KnownIs
            <3> QED
                BY <3>1, <3>7, <3>8
        <2>2. CASE ~ (Len(p) <= INITIAL_BITS)
            <3> DEFINE S == {i \in Index : Covers(i, p) /\ NhiOf(init[i].node, Rest(p)) = n}
                       k == SubSeq(p, 1, INITIAL_BITS)
            <3>1. Handed(p)[n] = Cardinality(S)
                BY <1>5, <2>2 DEF Handed
            <3>2. /\ INITIAL_BITS \in Nat /\ INITIAL_BITS <= Len(p)
                  /\ INITIAL_BITS \in 0 .. KeyLength
                BY <1>2, <2>2, Initial
            <3>3. /\ k \in Keys /\ Len(k) = INITIAL_BITS /\ Covers(k, p)
                  /\ \A x \in Keys : Len(x) = INITIAL_BITS /\ Covers(x, p) => x = k
                BY <1>2, <3>2, Beginning
            <3> HIDE DEF k
            <3>4. k \in Index /\ \A i \in Index : Covers(i, p) => i = k
                <4>1. k \in Index
                    BY <3>2, <3>3, KeysOfLength DEF Index
                <4> QED
                    BY <3>3, <4>1, IndexIsKey
            <3>5. p \in BelowOf(k, rib)
                <4>1. k # p
                    BY <1>2, <2>2, <3>2, <3>3
                <4> QED
                    BY <1>1, <3>3, <4>1 DEF BelowOf, Above
            <3>6. NhiOf(init[k].node, Rest(p)) = rib[p]
                <4> DEFINE e == init[k]
                           own == HasChild(e) /\ e.hi > 0
                <4>1. TrieFollows(e.node, k, rib, own)
                    BY <1>1, <3>4 DEF EntryFollows
                <4> HIDE DEF own, e
                <4>2. Rest(p) \in Keys /\ Rest(p) \in Seq(Bit)
                    BY <1>1, <3>4, <3>5, BelowIs
                <4>3. RuleAt(e.node, Rest(p), rib[p]) /\ Exact(Nhi, e.node)
                    BY <3>5, <4>1, <4>2 DEF TrieFollows
                <4>4. NhiOf(e.node, Rest(p)) = rib[p]
                    BY <4>2, <4>3, NhiOfRule
                <4> QED
                    BY <4>4 DEF e
            <3>7. S = IF rib[p] = n THEN {k} ELSE {}
                BY <3>3, <3>4, <3>6
            <3> HIDE DEF S
            <3>8. Cardinality(S) = IF rib[p] = n THEN 1 ELSE 0
                BY <3>7, FS_EmptySet, FS_Singleton
            <3>9. Known(p)
                BY <1>1, <2>2, KnownIs
            <3> QED
                BY <3>1, <3>8, <3>9
        <2> QED
            BY <2>1, <2>2
    <1>6. destroyed' = [n \in Nhi |-> destroyed'[n]]
        BY <1>1 DEF Handed
    <1>7. ASSUME NEW r \in Route
          PROVE  destroyed'[r[2]] = IF rib[r[1]] = r[2] /\ rib'[r[1]] = NULL /\ Known(r[1]) THEN 1 ELSE 0
        <2>1. r[2] \in Nhi /\ (rib[p] = r[2] => p = r[1])
            BY <1>1, HopIs
        <2>2. destroyed'[r[2]] = IF rib[p] = r[2] /\ Known(p) THEN 1 ELSE 0
            BY <1>1, <1>5, <2>1
        <2> QED
            BY <1>4, <2>1, <2>2
    <1> QED
        BY <1>6, <1>7 DEF HandsOver

\* destroy_trie hands over the next hop of every route that is known.
LEMMA DestroyHands ==
    ASSUME Follows, destroy_trie
    PROVE  HandsOver(destroyed', rib')
PROOF
    <1> DEFINE key(i)   == SubSeq(i, 1, init[i].hi)
               first(i) == \A j \in Index : key(j) = key(i) => Value(i) <= Value(j)
               A(n) == {i \in Index : init[i].hi > 0 /\ first(i) /\ HandedBy(init[i]) = n}
               U == UNION {{i} \X RulesOf(init[i].node) : i \in Index}
               B(n) == {x \in U : x[2][1] # <<>> /\ x[2][2] = n}
    <1>1. /\ RibFollows(rib) /\ \A i \in Index : EntryFollows(init[i], i, rib)
          /\ rib' = [p \in Prefix |-> NULL]
          /\ destroyed' = [n \in Nhi |-> Cardinality(A(n)) + Cardinality(B(n))]
        BY DEF Follows, destroy_trie
    <1>2. ASSUME NEW i \in Index
          PROVE  /\ init[i].hi = Len(CoverOf(i, rib)) /\ key(i) = CoverOf(i, rib)
                 /\ init[i].hi > 0 <=> CoverOf(i, rib) \in RoutesOf(rib)
                 /\ init[i].hi > 0 => HandedBy(init[i]) = rib[CoverOf(i, rib)]
        <2> DEFINE c == CoverOf(i, rib)
        <2>1. EntryFollows(init[i], i, rib) /\ init[i].hi = Len(c)
            BY <1>1 DEF EntryFollows
        <2>2. /\ Len(c) \in 0 .. INITIAL_BITS /\ c \in Keys
              /\ Len(c) > 0 <=> c \in RoutesOf(rib)
              /\ c \in RoutesOf(rib) => Covers(c, i)
              /\ c \notin RoutesOf(rib) => c = <<>>
            BY <1>1, CoverLength
        <2>3. Covers(c, i)
            <3>1. CASE c = <<>>
                <4>1. Len(i) \in Nat
                    BY IndexIsKey, Initial
                <4> QED
                    BY <3>1, <4>1, EmptyLength DEF Covers
            <3> QED
                BY <2>2, <3>1
        <2>4. i \in Keys /\ Len(i) = INITIAL_BITS /\ Len(c) \in Nat /\ Len(c) <= Len(i)
            BY <2>2, IndexIsKey, Initial
        <2> HIDE DEF c
        <2>5. c = SubSeq(i, 1, Len(c))
            BY <2>2, <2>3, <2>4, Beginning
        <2>6. init[i].hi > 0 => HandedBy(init[i]) = rib[c]
            BY <1>1, <2>1, HandedIs DEF c
        <2> QED
            BY <2>1, <2>2, <2>5, <2>6 DEF c
    <1>3. ASSUME NEW x \in U, x[2][1] # <<>>
          PROVE  \E i \in Index : \E p \in BelowOf(i, rib) : x = <<i, <<Rest(p), rib[p]>>>>
        <2>1. PICK i \in Index : x \in {i} \X RulesOf(init[i].node)
            BY <1>3
        <2>2. x = <<i, x[2]>> /\ x[2] \in RulesOf(init[i].node)
            BY <2>1
        <2> DEFINE e == init[i]
                   own == HasChild(e) /\ e.hi > 0
        <2>3. TrieFollows(e.node, i, rib, own)
            BY <1>1 DEF EntryFollows
        <2> HIDE DEF own
        <2>4. \E p \in BelowOf(i, rib) : x[2] = <<Rest(p), rib[p]>>
            BY <1>1, <1>3, <2>2, <2>3, LowerRules
        <2> QED
            BY <2>2, <2>4
    <1>4. ASSUME NEW i \in Index, NEW p \in BelowOf(i, rib)
          PROVE  <<i, <<Rest(p), rib[p]>>>> \in U /\ Rest(p) # <<>>
        <2> DEFINE e == init[i]
                   own == HasChild(e) /\ e.hi > 0
        <2>1. TrieFollows(e.node, i, rib, own)
            BY <1>1 DEF EntryFollows
        <2> HIDE DEF own
        <2>2. <<Rest(p), rib[p]>> \in RulesOf(e.node) /\ Rest(p) # <<>>
            BY <1>1, <2>1, LowerRules
        <2> QED
            BY <2>2
    <1>5. \A i \in Index : first(i) <=> \A j \in Index : CoverOf(j, rib) = CoverOf(i, rib) => Value(i) <= Value(j)
        BY <1>2
    <1> HIDE DEF key, first, U
    <1>6. ASSUME NEW r \in Route
          PROVE  Cardinality(A(r[2])) + Cardinality(B(r[2]))
                 = IF rib[r[1]] = r[2] /\ Known(r[1]) THEN 1 ELSE 0
        <2> DEFINE n == r[2]
                   p == r[1]
                   AA == A(n)
                   BB == B(n)
        <2>1. /\ \A q \in RoutesOf(rib) : rib[q] = n => q = p
              /\ rib[p] = n => p \in RoutesOf(rib)
            BY <1>1, HopIs
        <2>2. AA = IF rib[p] = n THEN Firsts(Holders(p)) ELSE {}
            <3>1. ASSUME NEW i \in AA PROVE rib[p] = n /\ i \in Firsts(Holders(p))
                <4>1. i \in Index /\ init[i].hi > 0 /\ first(i) /\ HandedBy(init[i]) = n
                    OBVIOUS
                <4>2. rib[CoverOf(i, rib)] = n /\ CoverOf(i, rib) \in RoutesOf(rib)
                    BY <1>2, <4>1
                <4>3. CoverOf(i, rib) = p
                    BY <2>1, <4>2
                <4> HIDE DEF p, n
                <4> QED
                    BY <1>5, <4>1, <4>2, <4>3 DEF Firsts, Holders
            <3>2. ASSUME rib[p] = n, NEW i \in Firsts(Holders(p)) PROVE i \in AA
                <4>1. i \in Index /\ CoverOf(i, rib) = p /\ \A j \in Index : CoverOf(j, rib) = p => Value(i) <= Value(j)
                    BY <3>2 DEF Firsts, Holders
                <4>2. first(i)
                    BY <1>5, <4>1
                <4>3. init[i].hi > 0 /\ HandedBy(init[i]) = n
                    BY <1>2, <2>1, <3>2, <4>1
                <4> QED
                    BY <4>1, <4>2, <4>3
            <3> HIDE DEF AA, n, p
            <3> QED
                BY <3>1, <3>2
        <2>3. ASSUME NEW x \in BB
              PROVE  /\ rib[p] = n
                     /\ \E i \in Index : p \in BelowOf(i, rib) /\ x = <<i, <<Rest(p), n>>>>
            <3>1. x \in U /\ x[2][1] # <<>> /\ x[2][2] = n
                OBVIOUS
            <3>2. PICK i \in Index : \E q \in BelowOf(i, rib) : x = <<i, <<Rest(q), rib[q]>>>>
                BY <1>3, <3>1
            <3>3. PICK q \in BelowOf(i, rib) : x = <<i, <<Rest(q), rib[q]>>>>
                BY <3>2
            <3>4. x[2][2] = rib[q]
                BY <3>3
            <3>5. rib[q] = n /\ q \in RoutesOf(rib)
                BY <3>1, <3>4 DEF BelowOf
            <3>6. q = p
                BY <2>1, <3>5
            <3> QED
                BY <3>3, <3>5, <3>6
        <2>4. ASSUME NEW i \in Index, p \in BelowOf(i, rib), rib[p] = n
              PROVE  <<i, <<Rest(p), n>>>> \in BB
            <3> DEFINE x == <<i, <<Rest(p), n>>>>
            <3>1. x \in U /\ Rest(p) # <<>>
                BY <1>4, <2>4
            <3>2. x[2][1] = Rest(p) /\ x[2][2] = n
                OBVIOUS
            <3> QED
                BY <3>1, <3>2
        <2> HIDE DEF AA, BB
        <2>5. CASE rib[p] # n
            <3>1. AA = {} /\ BB = {}
                BY <2>2, <2>3, <2>5
            <3>2. Cardinality(AA) = 0 /\ Cardinality(BB) = 0
                BY <3>1, FS_EmptySet
            <3> QED
                BY <2>5, <3>2 DEF AA, BB
        <2>6. CASE rib[p] = n
            <3>1. p \in RoutesOf(rib) /\ p \in Keys /\ Len(p) \in Nat /\ INITIAL_BITS \in Nat
                  /\ INITIAL_BITS \in 0 .. KeyLength
                <4>1. p \in RoutesOf(rib)
                    BY <2>1, <2>6
                <4>2. p \in Keys /\ Len(p) \in Nat
                    BY <1>1, <4>1, RouteIs
                <4> QED
                    BY <4>1, <4>2, Initial
            <3> HIDE DEF p, n
            <3>2. AA = Firsts(Holders(p)) /\ Holders(p) \in SUBSET Index
                BY <2>2, <2>6 DEF Holders
            <3>3. Cardinality(AA) = IF Holders(p) = {} THEN 0 ELSE 1
                BY <3>2, OneFirst
            <3>4. CASE Len(p) <= INITIAL_BITS
                <4>1. ASSUME NEW x \in BB PROVE FALSE
                    <5>1. PICK i \in Index : p \in BelowOf(i, rib)
                        BY <2>3
                    <5>2. Len(p) > INITIAL_BITS
                        BY <1>1, <5>1, BelowIs
                    <5> QED
                        BY <3>1, <3>4, <5>2
                <4>2. Cardinality(BB) = 0
                    BY <4>1, FS_EmptySet
                <4>3. Known(p) <=> Holders(p) # {}
                    BY <1>1, <3>1, <3>4, KnownIs
                <4> QED
                    BY <2>6, <3>3, <4>2, <4>3 DEF AA, BB, p, n
            <3>5. CASE ~ (Len(p) <= INITIAL_BITS)
                <4>1. Known(p) /\ Holders(p) = {}
                    BY <1>1, <3>1, <3>5, KnownIs
                <4>2. Cardinality(AA) = 0
                    BY <3>3, <4>1
                <4> DEFINE k == SubSeq(p, 1, INITIAL_BITS)
                <4>3. INITIAL_BITS <= Len(p)
                    BY <3>1, <3>5
                <4>4. /\ k \in Keys /\ Len(k) = INITIAL_BITS /\ Covers(k, p)
                      /\ \A x \in Keys : Len(x) = INITIAL_BITS /\ Covers(x, p) => x = k
                    BY <3>1, <4>3, Beginning
                <4> HIDE DEF k
                <4>5. k \in Index
                    BY <3>1, <4>4, KeysOfLength DEF Index
                <4>6. p \in BelowOf(k, rib)
                    <5>1. k # p
                        BY <3>1, <3>5, <4>4
                    <5> QED
                        BY <3>1, <4>4, <5>1 DEF BelowOf, Above
                <4>7. <<k, <<Rest(p), n>>>> \in BB
                    BY <2>4, <2>6, <4>5, <4>6
                <4>8. ASSUME NEW x \in BB PROVE x = <<k, <<Rest(p), n>>>>
                    <5>1. PICK i \in Index : p \in BelowOf(i, rib) /\ x = <<i, <<Rest(p), n>>>>
                        BY <2>3
                    <5>2. Covers(i, p) /\ i \in Keys /\ Len(i) = INITIAL_BITS
                        BY <5>1, IndexIsKey DEF BelowOf, Above
                    <5>3. i = k
                        BY <4>4, <5>2
                    <5> QED
                        BY <5>1, <5>3
                <4>9. BB = {<<k, <<Rest(p), n>>>>}
                    BY <4>7, <4>8
                <4>10. Cardinality(BB) = 1
                    BY <4>9, FS_Singleton
                <4> QED
                    BY <2>6, <4>1, <4>2, <4>10 DEF AA, BB, p, n
            <3> QED
                BY <3>4, <3>5
        <2> QED
            BY <2>5, <2>6
    <1>7. ASSUME NEW r \in Route
          PROVE  destroyed'[r[2]] = IF rib[r[1]] = r[2] /\ rib'[r[1]] = NULL /\ Known(r[1]) THEN 1 ELSE 0
        <2>1. r[2] \in Nhi /\ r[1] \in Prefix
            BY <1>1, HopIs
        <2>2. destroyed'[r[2]] = Cardinality(A(r[2])) + Cardinality(B(r[2])) /\ rib'[r[1]] = NULL
            BY <1>1, <2>1
        <2> QED
            BY <1>6, <2>2
    <1>8. destroyed' = [n \in Nhi |-> destroyed'[n]]
        BY <1>1
    <1> QED
        BY <1>7, <1>8 DEF HandsOver

\* The step of any call.
LEMMA StepHands ==
    ASSUME Follows, Next
    PROVE  HandsOver(destroyed', rib') \/ UNCHANGED vars
PROOF
    <1>1. CASE \E r \in Route : insert_prefix(r[1], r[2])
        BY <1>1, InsertHands
    <1>2. CASE \E p \in Prefix : delete_prefix(p)
        BY <1>2, DeleteHands
    <1>3. CASE destroy_trie
        BY <1>3, DestroyHands
    <1>4. CASE \E p \in Prefix : Ignored(p)
        BY <1>4 DEF Ignored
    <1> QED
        BY <1>1, <1>2, <1>3, <1>4 DEF Next

\* A next hop is handed over exactly once, by the call that takes its route away.
THEOREM HandedOverOnce == Spec => DestroyedOnce
PROOF
    <1>1. ASSUME Follows, [Next]_vars
          PROVE  [\A r \in Route :
                     destroyed'[r[2]] = IF rib[r[1]] = r[2] /\ rib'[r[1]] = NULL /\ Known(r[1])
                                        THEN 1 ELSE 0]_vars
        BY <1>1, StepHands DEF HandsOver
    <1> QED
        BY <1>1, FollowsInvariant, PTL DEF Spec, DestroyedOnce

\* Type correctness: a call hands every next hop over at most once.
THEOREM TreeBitmapType == Spec => []TypeOK
PROOF
    <1> DEFINE Counted == destroyed \in [Nhi -> Nat]
    <1>1. Init => Counted
        BY DEF Init, None
    <1>2. ASSUME Follows, Counted, [Next]_vars
          PROVE  Counted'
        <2>1. CASE UNCHANGED vars
            BY <1>2, <2>1 DEF vars
        <2>2. CASE HandsOver(destroyed', rib')
            <3>1. \A r \in Route : destroyed'[r[2]] \in Nat
                BY <2>2 DEF HandsOver
            <3>2. \A n \in Nhi : destroyed'[n] \in Nat
                BY <3>1 DEF Nhi
            <3>3. destroyed' = [n \in Nhi |-> destroyed'[n]]
                BY <2>2 DEF HandsOver
            <3> QED
                BY <3>2, <3>3
        <2> QED
            BY <1>2, <2>1, <2>2, StepHands
    <1>3. ASSUME Follows, Counted PROVE TypeOK
        <2>1. RibFollows(rib) /\ rib \in [Prefix -> Nhi \cup {NULL}]
            BY <1>3 DEF Follows, RibFollows
        <2>2. ASSUME NEW i \in Index, NEW e, e = init[i]
              PROVE  /\ e.flags \in {{}, {"CHILD"}, {"NEXT"}}
                     /\ e.hi \in 0 .. INITIAL_BITS
                     /\ e.ptr \in Nhi \cup {NULL}
                     /\ "NEXT" \in e.flags => e.hi > 0 /\ e.ptr # NULL
            <3>1. EntryFollows(e, i, rib)
                BY <1>3, <2>2 DEF Follows
            <3>2. /\ e.hi = Len(CoverOf(i, rib)) /\ e.hi \in 0 .. INITIAL_BITS
                  /\ HasChild(e) => e.flags = {"CHILD"} /\ e.ptr = NULL
                  /\ ~ HasChild(e) => IF e.hi > 0 THEN e.flags = {"NEXT"} /\ e.ptr = rib[CoverOf(i, rib)]
                                      ELSE e.flags = {} /\ e.ptr = NULL
                BY <2>1, <3>1, EntryIs
            <3>3. e.hi > 0 => rib[CoverOf(i, rib)] \in Nhi /\ rib[CoverOf(i, rib)] # NULL
                <4>1. e.hi > 0 => CoverOf(i, rib) \in RoutesOf(rib)
                    BY <2>1, <3>2, CoverLength
                <4> QED
                    BY <2>1, <4>1, RouteIs
            <3>4. "NEXT" # "CHILD"
                OBVIOUS
            <3> QED
                BY <3>2, <3>3, <3>4
        <2> QED
            BY <1>3, <2>1, <2>2 DEF TypeOK
    <1> HIDE DEF Counted
    <1> QED
        BY <1>1, <1>2, <1>3, FollowsInvariant, PTL DEF Spec
=============================================================================
