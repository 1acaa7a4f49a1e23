-------------------------- MODULE BitStringProofs --------------------------
(***************************************************************************)
(* Lemmas about the prefix order on keys, for the proofs about the radix   *)
(* trees.                                                                  *)
(***************************************************************************)
EXTENDS BitStrings, SequenceTheorems, WellFoundedInduction, TLAPS

\* A key is a sequence of at most KeyLength bits.
LEMMA KeyIsSeq ==
    ASSUME NEW d \in Keys
    PROVE  d \in Seq(Bit) /\ Len(d) \in 0 .. KeyLength
PROOF
    <1>1. PICK n \in 0 .. KeyLength : d \in [1 .. n -> Bit]
        BY DEF Keys
    <1>2. n \in Nat
        BY <1>1, KeyLengthAssumption
    <1> QED
        BY <1>1, <1>2

\* Covers is a partial order on the keys.
LEMMA CoversSelf ==
    ASSUME NEW d \in Keys
    PROVE  Covers(d, d)
PROOF
    BY KeyIsSeq DEF Covers

LEMMA CoversTransitive ==
    ASSUME NEW a \in Keys, NEW b \in Keys, NEW c, Len(c) \in Nat,
           Covers(a, b), Covers(b, c)
    PROVE  Covers(a, c)
PROOF
    <1>1. Len(a) \in Nat /\ Len(b) \in Nat
        BY KeyIsSeq
    <1> QED
        BY <1>1 DEF Covers

LEMMA SameLengthSame ==
    ASSUME NEW a \in Keys, NEW b \in Keys, Covers(a, b), Len(a) >= Len(b)
    PROVE  a = b
PROOF
    <1>1. a \in Seq(Bit) /\ b \in Seq(Bit) /\ Len(a) = Len(b)
        BY KeyIsSeq DEF Covers
    <1> QED
        BY <1>1, SeqEqual DEF Covers

LEMMA AboveShorter ==
    ASSUME NEW a \in Keys, NEW b \in Keys, Above(a, b)
    PROVE  Len(a) < Len(b)
PROOF
    BY SameLengthSame, KeyIsSeq DEF Above, Covers

\* Of two prefixes of a key the shorter one covers the longer one.
LEMMA Comparable ==
    ASSUME NEW a \in Keys, NEW b \in Keys, NEW c, Len(c) \in Nat,
           Covers(a, c), Covers(b, c), Len(a) <= Len(b)
    PROVE  Covers(a, b)
PROOF
    <1>1. Len(a) \in Nat /\ Len(b) \in Nat
        BY KeyIsSeq
    <1> QED
        BY <1>1 DEF Covers

\* A descent passes the keys that cover its end.
LEMMA PathToCovers ==
    ASSUME NEW p \in Keys
    PROVE  PathTo(p) = {d \in Keys : Covers(d, p)}
PROOF
    <1>1. p \in Seq(Bit) /\ Len(p) \in Nat /\ Len(p) <= KeyLength
        BY KeyIsSeq, KeyLengthAssumption
    <1>2. ASSUME NEW k \in 0 .. Len(p)
          PROVE  SubSeq(p, 1, k) = [i \in 1 .. k |-> p[i]]
        BY <1>1
    <1>3. ASSUME NEW d \in PathTo(p)
          PROVE  d \in Keys /\ Covers(d, p)
        <2>1. PICK k \in 0 .. Len(p) : d = SubSeq(p, 1, k)
            BY <1>3 DEF PathTo
        <2>2. d = [i \in 1 .. k |-> p[i]] /\ k \in Nat
            BY <1>1, <1>2, <2>1
        <2>3. \A i \in 1 .. k : p[i] \in Bit
            BY <1>1
        <2>4. d \in [1 .. k -> Bit] /\ k \in 0 .. KeyLength
            BY <1>1, <2>2, <2>3, KeyLengthAssumption
        <2>5. Len(d) = k /\ \A i \in 1 .. k : d[i] = p[i]
            BY <2>2, <2>4
        <2> QED
            BY <1>1, <2>4, <2>5 DEF Keys, Covers
    <1>4. ASSUME NEW d \in Keys, Covers(d, p)
          PROVE  d \in PathTo(p)
        <2>1. d \in Seq(Bit) /\ Len(d) \in 0 .. Len(p)
            BY <1>1, <1>4, KeyIsSeq DEF Covers
        <2>2. SubSeq(p, 1, Len(d)) \in Keys /\ Covers(SubSeq(p, 1, Len(d)), p)
            BY <1>3, <2>1 DEF PathTo
        <2>3. SubSeq(p, 1, Len(d)) = [i \in 1 .. Len(d) |-> p[i]]
            BY <1>2, <2>1
        <2>4. d = [i \in 1 .. Len(d) |-> p[i]]
            BY <1>4, <2>1 DEF Covers
        <2> QED
            BY <2>1, <2>3, <2>4 DEF PathTo
    <1> QED
        BY <1>3, <1>4

\* What leads to a node of the path is on the path.
LEMMA PathToLinked ==
    ASSUME NEW p \in Keys, NEW d \in PathTo(p)
    PROVE  d \in Keys /\ PathTo(d) \subseteq PathTo(p)
PROOF
    <1>1. Len(p) \in Nat
        BY KeyIsSeq
    <1>2. d \in Keys /\ Covers(d, p)
        BY PathToCovers
    <1> QED
        BY <1>1, <1>2, PathToCovers, CoversTransitive

LEMMA EndOnPath ==
    ASSUME NEW p \in Keys
    PROVE  p \in PathTo(p)
PROOF
    BY PathToCovers, CoversSelf

\* Among keys there is a longest one.
LEMMA LongestExists ==
    ASSUME NEW T \in SUBSET Keys, T # {}
    PROVE  \E v \in T : \A w \in T : Len(w) <= Len(v)
PROOF
    <1> DEFINE Rest == {KeyLength - Len(v) : v \in T}
    <1>1. KeyLength \in Nat /\ \A v \in T : Len(v) \in 0 .. KeyLength
        BY KeyIsSeq, KeyLengthAssumption
    <1>2. Rest \subseteq Nat /\ Rest # {}
        BY <1>1
    <1>3. PICK x \in Rest : \A y \in Rest : ~ (<<y, x>> \in OpToRel(<, Nat))
        BY <1>2, NatLessThanWellFounded, WFMin
    <1>4. PICK v \in T : x = KeyLength - Len(v)
        BY <1>3
    <1>5. ASSUME NEW w \in T
          PROVE  Len(w) <= Len(v)
        <2> DEFINE y == KeyLength - Len(w)
        <2>1. y \in Rest /\ x \in Nat /\ y \in Nat
            BY <1>2
        <2>2. ~ (y < x)
            BY <1>3, <2>1 DEF OpToRel
        <2> QED
            BY <1>1, <1>4, <2>2
    <1> QED
        BY <1>5

----------------------------------------------------------------------------
(* Pieces of a key *)

\* A piece of a key has its bits in order.
LEMMA PieceBits ==
    ASSUME NEW d \in Keys, NEW m \in Nat, NEW n \in Nat, m <= n, n <= Len(d)
    PROVE  /\ SubSeq(d, m + 1, n) \in [1 .. n - m -> Bit]
           /\ \A i \in 1 .. n - m : SubSeq(d, m + 1, n)[i] = d[m + i]
PROOF
    <1>1. d \in Seq(Bit) /\ Len(d) \in Nat
        BY KeyIsSeq, KeyLengthAssumption
    <1>2. SubSeq(d, m + 1, n) = [i \in 1 .. n - m |-> d[m + i]]
        BY <1>1
    <1>3. \A i \in 1 .. n - m : d[m + i] \in Bit
        BY <1>1
    <1> QED
        BY <1>2, <1>3

LEMMA BeginningBits ==
    ASSUME NEW d \in Keys, NEW n \in Nat, n <= Len(d)
    PROVE  /\ SubSeq(d, 1, n) \in [1 .. n -> Bit]
           /\ \A i \in 1 .. n : SubSeq(d, 1, n)[i] = d[i]
PROOF
    <1>1. d \in Seq(Bit) /\ Len(d) \in Nat
        BY KeyIsSeq, KeyLengthAssumption
    <1>2. SubSeq(d, 1, n) = [i \in 1 .. n |-> d[i]]
        BY <1>1
    <1>3. \A i \in 1 .. n : d[i] \in Bit
        BY <1>1
    <1> QED
        BY <1>2, <1>3

\* The keys of a length are the bit functions of that length.
LEMMA KeysOfLength ==
    ASSUME NEW n \in 0 .. KeyLength
    PROVE  \A d : d \in [1 .. n -> Bit] <=> d \in Keys /\ Len(d) = n
PROOF
    <1>1. n \in Nat
        BY KeyLengthAssumption
    <1>2. ASSUME NEW d \in [1 .. n -> Bit]
          PROVE  d \in Keys /\ Len(d) = n
        BY <1>1 DEF Keys
    <1>3. ASSUME NEW d \in Keys, Len(d) = n
          PROVE  d \in [1 .. n -> Bit]
        BY <1>1, <1>3, KeyIsSeq
    <1> QED
        BY <1>2, <1>3

\* The beginning of a key is the node of its length on the way to it.
LEMMA Beginning ==
    ASSUME NEW d \in Keys, NEW k \in Nat, k <= Len(d)
    PROVE  /\ SubSeq(d, 1, k) \in Keys /\ Len(SubSeq(d, 1, k)) = k
           /\ Covers(SubSeq(d, 1, k), d)
           /\ \A x \in Keys : Len(x) = k /\ Covers(x, d) => x = SubSeq(d, 1, k)
PROOF
    <1> DEFINE b == SubSeq(d, 1, k)
    <1>1. Len(d) \in Nat /\ Len(d) <= KeyLength
        BY KeyIsSeq, KeyLengthAssumption
    <1>2. b \in [1 .. k -> Bit] /\ \A i \in 1 .. k : b[i] = d[i]
        BY BeginningBits
    <1> HIDE DEF b
    <1>3. b \in Keys /\ Len(b) = k
        BY <1>1, <1>2, KeysOfLength, KeyLengthAssumption
    <1>4. Covers(b, d)
        BY <1>1, <1>2, <1>3 DEF Covers
    <1>5. ASSUME NEW x \in Keys, Len(x) = k, Covers(x, d)
          PROVE  x = b
        <2> HIDE DEF b
        <2>1. Covers(x, b)
            BY <1>1, <1>3, <1>4, <1>5, Comparable
        <2> QED
            BY <1>3, <1>5, <2>1, SameLengthSame
    <1> QED
        BY <1>3, <1>4, <1>5 DEF b

\* A child of a node, and the child on the way to a key below.
LEMMA ChildKey ==
    ASSUME NEW d \in Keys, NEW b \in Bit
    PROVE  /\ Len(d \o <<b>>) = Len(d) + 1
           /\ Len(d) < KeyLength => d \o <<b>> \in Keys /\ Above(d, d \o <<b>>)
           /\ d \o <<b>> \in Keys => Len(d) < KeyLength
PROOF
    <1> DEFINE c == d \o <<b>>
    <1>1. d \in Seq(Bit) /\ Len(d) \in Nat /\ KeyLength \in Nat
        BY KeyIsSeq, KeyLengthAssumption
    <1>2. c \in Seq(Bit) /\ Len(c) = Len(d) + 1 /\ \A i \in 1 .. Len(d) : c[i] = d[i]
        BY <1>1
    <1> HIDE DEF c
    <1>3. c \in [1 .. Len(d) + 1 -> Bit] /\ Len(d) + 1 \in Nat
        BY <1>1, <1>2
    <1>4. ASSUME Len(d) < KeyLength
          PROVE  c \in Keys /\ Above(d, c)
        <2>1. Len(d) + 1 \in 0 .. KeyLength
            BY <1>1, <1>4
        <2>2. c \in Keys
            BY <1>3, <2>1, KeysOfLength
        <2> QED
            BY <1>1, <1>2, <2>2 DEF Above, Covers
    <1>5. ASSUME c \in Keys
          PROVE  Len(d) < KeyLength
        <2>1. Len(c) \in 0 .. KeyLength
            BY <1>5, KeyIsSeq
        <2> QED
            BY <1>1, <1>2, <2>1
    <1> QED
        BY <1>2, <1>4, <1>5 DEF c

LEMMA ChildOnWay ==
    ASSUME NEW d \in Keys, NEW y \in Keys, Above(d, y)
    PROVE  \E b \in Bit : d \o <<b>> \in Keys /\ Covers(d \o <<b>>, y)
PROOF
    <1> DEFINE b == y[Len(d) + 1]
               c == d \o <<b>>
    <1>1. /\ d \in Seq(Bit) /\ y \in Seq(Bit) /\ Len(d) \in Nat /\ Len(y) \in Nat
          /\ Len(d) < Len(y) /\ Len(y) <= KeyLength
        BY KeyIsSeq, AboveShorter, KeyLengthAssumption
    <1>2. b \in Bit
        BY <1>1
    <1>3. Len(c) = Len(d) + 1 /\ c \in Keys
        BY <1>1, <1>2, ChildKey, KeyLengthAssumption
    <1>4. \A i \in 1 .. Len(d) : c[i] = d[i] /\ d[i] = y[i]
        BY <1>1, <1>2 DEF Above, Covers
    <1>5. c[Len(d) + 1] = y[Len(d) + 1]
        BY <1>1, <1>2
    <1>6. Covers(c, y)
        BY <1>1, <1>3, <1>4, <1>5 DEF Covers
    <1> QED
        BY <1>2, <1>3, <1>6

\* A beginning and the piece behind it determine the next beginning, and a piece
\* can be put behind any beginning.
LEMMA PiecesJoin ==
    ASSUME NEW d \in Keys, NEW e \in Keys, NEW m \in Nat, NEW n \in Nat,
           m <= n, n <= Len(d), n <= Len(e),
           SubSeq(d, 1, m) = SubSeq(e, 1, m), SubSeq(d, m + 1, n) = SubSeq(e, m + 1, n)
    PROVE  SubSeq(d, 1, n) = SubSeq(e, 1, n)
PROOF
    <1>1. \A i \in 1 .. m : d[i] = e[i]
        BY PieceBits
    <1>2. \A i \in 1 .. n - m : d[m + i] = e[m + i]
        BY PieceBits
    <1>3. \A i \in 1 .. n : d[i] = e[i]
        <2>1. ASSUME NEW i \in 1 .. n, i > m
              PROVE  d[i] = e[i]
            <3>1. i - m \in 1 .. n - m /\ m + (i - m) = i
                BY <2>1
            <3> QED
                BY <1>2, <3>1
        <2> QED
            BY <1>1, <2>1
    <1>4. /\ SubSeq(d, 1, n) \in [1 .. n -> Bit] /\ SubSeq(e, 1, n) \in [1 .. n -> Bit]
          /\ \A i \in 1 .. n : SubSeq(d, 1, n)[i] = d[i] /\ SubSeq(e, 1, n)[i] = e[i]
        BY BeginningBits
    <1> QED
        BY <1>3, <1>4

LEMMA PieceBehind ==
    ASSUME NEW d \in Keys, NEW n \in 0 .. KeyLength, Len(d) <= n,
           NEW c \in [1 .. n - Len(d) -> Bit]
    PROVE  /\ d \o c \in Keys /\ Len(d \o c) = n /\ Covers(d, d \o c)
           /\ SubSeq(d \o c, Len(d) + 1, n) = c
PROOF
    <1>1. d \in Seq(Bit) /\ Len(d) \in Nat /\ n \in Nat
        BY KeyIsSeq, KeyLengthAssumption
    <1>2. c \in Seq(Bit) /\ Len(c) = n - Len(d)
        BY <1>1
    <1> DEFINE e == d \o c
    <1>3. /\ e \in Seq(Bit) /\ Len(e) = n
          /\ \A i \in 1 .. Len(d) : e[i] = d[i]
          /\ \A i \in 1 .. n - Len(d) : e[Len(d) + i] = c[i]
        BY <1>1, <1>2
    <1> HIDE DEF e
    <1>4. e \in Keys
        <2>1. e \in [1 .. n -> Bit]
            BY <1>1, <1>3
        <2> QED
            BY <2>1, KeysOfLength
    <1>5. Covers(d, e)
        BY <1>1, <1>3 DEF Covers
    <1>6. /\ SubSeq(e, Len(d) + 1, n) \in [1 .. n - Len(d) -> Bit]
          /\ \A i \in 1 .. n - Len(d) : SubSeq(e, Len(d) + 1, n)[i] = e[Len(d) + i]
        BY <1>1, <1>3, <1>4, PieceBits
    <1>7. SubSeq(e, Len(d) + 1, n) = c
        BY <1>3, <1>6
    <1> QED
        BY <1>3, <1>4, <1>5, <1>7 DEF e

=============================================================================
