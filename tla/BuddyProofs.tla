----------------------------- MODULE BuddyProofs -----------------------------
(***************************************************************************)
(* Proofs about Buddy, for pools of any size: the lists and the bitmap of  *)
(* buddy.c implement BuddySpec, and so its invariants, proved in           *)
(* BuddySpecProofs, are facts about the lists.  The powers of two that     *)
(* buddy.c shifts by come first, then what the list operations do, then    *)
(* one lemma per frame.                                                    *)
(***************************************************************************)
EXTENDS Buddy, FiniteSetTheorems, SequenceTheorems, WellFoundedInduction, TLAPS

\* The theorems about BuddySpec, of the sets that the lists stand for.
Sets == INSTANCE BuddySpecProofs WITH
    Tops <- 2^(Sz - Level + 1),
    Size <- [lv \in Levels |-> 2^lv],
    free <- Listed \ InHand,
    held <- {Indexed(b[1], b[2]) : b \in held},
    hand <- InHand,
    mode <- pc.op,
    want <- IF pc.op = "split" THEN pc.arg ELSE 0

----------------------------------------------------------------------------
(* Powers of two *)

\* 2^n counts the subsets of 1 .. n; those of 1 .. n + 1 are twice as many.
LEMMA PowNext ==
    ASSUME NEW n \in Nat
    PROVE  2^n \in Nat /\ 2^n > 0 /\ 2^(n + 1) = 2 * 2^n
PROOF
    <1> DEFINE A == 1 .. n
               B == 1 .. n + 1
               T == SUBSET A
               U == {u \in SUBSET B : n + 1 \in u}
               g == [s \in T |-> s \cup {n + 1}]
    <1>1. /\ IsFiniteSet(A) /\ Cardinality(A) = n
          /\ IsFiniteSet(B) /\ Cardinality(B) = n + 1
        BY FS_Interval
    <1>2. B = A \cup {n + 1} /\ n + 1 \notin A
        OBVIOUS
    <1> HIDE DEF A, B
    <1>3. /\ IsFiniteSet(T) /\ Cardinality(T) = 2^n
          /\ IsFiniteSet(SUBSET B) /\ Cardinality(SUBSET B) = 2^(n + 1)
        BY <1>1, FS_SUBSET
    <1>4. SUBSET B = T \cup U /\ T \cap U = {}
        BY <1>2
    <1>5. g \in [T -> U]
        BY <1>2
    <1>6. ASSUME NEW s \in T, NEW t \in T, g[s] = g[t]
          PROVE  s = t
        BY <1>2, <1>6
    <1>7. ASSUME NEW u \in U
          PROVE  \E s \in T : g[s] = u
        <2>1. u \ {n + 1} \in T /\ g[u \ {n + 1}] = u
            BY <1>2
        <2> QED
            BY <2>1
    <1>8. g \in Bijection(T, U)
        <2> HIDE DEF T, U, g
        <2> QED
            BY <1>5, <1>6, <1>7 DEF Bijection, Injection, IsInjective, Surjection
    <1>9. IsFiniteSet(U) /\ Cardinality(U) = Cardinality(T)
        <2> HIDE DEF T, U, g
        <2> QED
            BY <1>3, <1>8, FS_Bijection DEF ExistsBijection
    <1>10. T # {}
        OBVIOUS
    <1> HIDE DEF T, U, g
    <1>11. Cardinality(T) \in Nat /\ Cardinality(T) # 0
        BY <1>3, <1>10, FS_CardinalityType, FS_EmptySet
    <1>12. Cardinality(T \cup U) = Cardinality(T) + Cardinality(U) - Cardinality(T \cap U)
        BY <1>3, <1>9, FS_Union
    <1>13. Cardinality(T \cap U) = 0
        BY <1>4, FS_EmptySet
    <1>14. Cardinality(SUBSET B) = 2 * Cardinality(T)
        <2> DEFINE k == Cardinality(T)
        <2>1. Cardinality(SUBSET B) = k + k - 0
            BY <1>4, <1>9, <1>12, <1>13, Zenon
        <2> HIDE DEF k
        <2>2. k \in Nat
            BY <1>11 DEF k
        <2> QED
            BY <2>1, <2>2 DEF k
    <1> QED
        BY <1>3, <1>11, <1>14

\* A block of level 0 is one cell.
LEMMA PowZero == 2^0 = 1
PROOF
    <1>1. IsFiniteSet({}) /\ Cardinality({}) = 0
        BY FS_EmptySet
    <1>2. Cardinality(SUBSET {}) = 2^0
        BY <1>1, FS_SUBSET
    <1>3. SUBSET {} = {{}}
        OBVIOUS
    <1>4. Cardinality({{}}) = 1
        BY FS_Singleton
    <1> QED
        BY <1>2, <1>3, <1>4

\* A set of numbers that is not empty has a least one, which Min finds.
LEMMA MinOf ==
    ASSUME NEW T \in SUBSET Nat, T # {}
    PROVE  Min(T) \in T /\ \A y \in T : Min(T) <= y
PROOF
    <1>1. PICK x \in T : \A y \in T : ~ (<<y, x>> \in OpToRel(<, Nat))
        BY NatLessThanWellFounded, WFMin
    <1>2. \A y \in T : ~ (y < x)
        BY <1>1 DEF OpToRel
    <1>3. \A y \in T : x <= y
        BY <1>2
    <1> QED
        BY <1>3 DEF Min

\* The sizes of two levels multiply to that of their sum.
LEMMA PowAdd ==
    ASSUME NEW a \in Nat, NEW b \in Nat
    PROVE  2^(a + b) = 2^a * 2^b
PROOF
    <1> DEFINE Bad == {n \in Nat : 2^(a + n) # 2^a * 2^n}
    <1>1. SUFFICES ASSUME Bad # {}
                   PROVE  FALSE
        OBVIOUS
    <1>2. PICK n \in Bad : \A y \in Bad : n <= y
        <2>1. Bad \in SUBSET Nat
            OBVIOUS
        <2> HIDE DEF Bad
        <2> QED
            BY <1>1, <2>1, MinOf
    <1>3. 2^a \in Nat
        BY PowNext
    <1>4. CASE n = 0
        <2>1. a + 0 = a
            OBVIOUS
        <2> QED
            BY <1>2, <1>3, <1>4, <2>1, PowZero
    <1>5. CASE n # 0
        <2> DEFINE m == n - 1
        <2>1. m \in Nat /\ m \notin Bad /\ n = m + 1 /\ a + n = (a + m) + 1 /\ a + m \in Nat
            BY <1>2, <1>5
        <2> HIDE DEF m
        <2>2. 2^(a + m) = 2^a * 2^m /\ 2^m \in Nat
            BY <2>1, PowNext
        <2>3. 2^n = 2 * 2^m /\ 2^(a + n) = 2 * 2^(a + m)
            BY <2>1, PowNext
        <2>4. 2^(a + n) = 2^a * 2^n
            BY <1>3, <2>2, <2>3
        <2> QED
            BY <1>2, <2>4
    <1> QED
        BY <1>4, <1>5

\* The constants of BuddySpec, as buddy_init fixes them.
LEMMA PoolSizes ==
    /\ Level \in Nat /\ Level > 0 /\ Sz \in Nat /\ Sz >= Level
    /\ Sz - Level + 1 \in Nat /\ Level - 1 \in Levels
    /\ \A lv \in Levels : /\ lv \in Nat /\ lv < Level
                          /\ 2^lv \in Nat /\ 2^lv > 0 /\ 2^(lv + 1) = 2 * 2^lv
    /\ 2^Sz \in Nat /\ 2^Sz > 0
    /\ 2^(Sz - Level + 1) \in Nat /\ 2^(Sz - Level + 1) > 0
    /\ 2^Sz = 2^(Sz - Level + 1) * 2^(Level - 1)
PROOF
    <1>1. /\ Level \in Nat /\ Level > 0 /\ Sz \in Nat /\ Sz >= Level
          /\ Sz - Level + 1 \in Nat /\ Level - 1 \in Levels /\ Level - 1 \in Nat
        BY BuddyAssumption DEF Levels
    <1>2. \A lv \in Levels : lv \in Nat /\ lv < Level
        BY <1>1 DEF Levels
    <1>3. Sz = (Sz - Level + 1) + (Level - 1)
        BY <1>1
    <1> QED
        BY <1>1, <1>2, <1>3, PowNext, PowAdd

\* The powers of two satisfy what BuddySpec asks of its sizes.
LEMMA SetsAssumption == Sets!SizeAssumption
PROOF
    <1>1. Sets!Levels = Levels
        BY DEF Sets!Levels, Levels
    <1>2. 0 \in Levels
        BY PoolSizes DEF Levels
    <1> QED
        BY <1>1, <1>2, PoolSizes, PowZero DEF Sets!SizeAssumption

----------------------------------------------------------------------------
(* What the list operations of buddy.c do to the blocks of a list.  No     *)
(* block is on a list twice (IsInjective).                                 *)

\* A list as a sequence and as the set of its elements.
LEMMA ListFacts ==
    ASSUME NEW s \in Seq(Cells)
    PROVE  /\ Len(s) \in Nat /\ DOMAIN s = 1 .. Len(s)
           /\ \A i \in 1 .. Len(s) : s[i] \in Cells
           /\ Range(s) \subseteq Cells
           /\ \A x : x \in Range(s) <=> \E i \in 1 .. Len(s) : s[i] = x
           /\ IsInjective(s) <=> \A i, j \in 1 .. Len(s) : s[i] = s[j] => i = j
           /\ s = <<>> <=> Range(s) = {}
PROOF
    <1>1. Len(s) \in Nat /\ DOMAIN s = 1 .. Len(s) /\ \A i \in 1 .. Len(s) : s[i] \in Cells
        BY LenProperties, ElementOfSeq
    <1>2. \A x : x \in Range(s) <=> \E i \in 1 .. Len(s) : s[i] = x
        BY <1>1 DEF Range
    <1>3. IsInjective(s) <=> \A i, j \in 1 .. Len(s) : s[i] = s[j] => i = j
        BY <1>1 DEF IsInjective
    <1>4. ASSUME s # <<>>
          PROVE  Range(s) # {}
        <2>1. Len(s) \in Nat \ {0}
            BY <1>4, EmptySeq
        <2>2. 1 \in 1 .. Len(s)
            BY <2>1
        <2> QED
            BY <1>2, <2>2
    <1>5. ASSUME s = <<>>
          PROVE  Range(s) = {}
        BY <1>2, <1>5
    <1> QED
        BY <1>1, <1>2, <1>3, <1>4, <1>5

\* Taking the head of a list.
LEMMA HeadTail ==
    ASSUME NEW s \in Seq(Cells), s # <<>>, IsInjective(s)
    PROVE  /\ Head(s) \in Range(s) /\ Head(s) \in Cells
           /\ Tail(s) \in Seq(Cells) /\ IsInjective(Tail(s))
           /\ Range(Tail(s)) = Range(s) \ {Head(s)}
PROOF
    <1>1. /\ Tail(s) \in Seq(Cells) /\ Len(Tail(s)) = Len(s) - 1 /\ Len(s) \in Nat
          /\ \A i \in 1 .. Len(Tail(s)) : Tail(s)[i] = s[i + 1]
          /\ Head(s) = s[1] /\ 1 \in 1 .. Len(s)
        <2>1. Len(s) \in Nat \ {0}
            BY EmptySeq
        <2> QED
            BY <2>1, HeadTailProperties
    <1>2. \A i, j \in 1 .. Len(s) : s[i] = s[j] => i = j
        BY ListFacts
    <1>3. Head(s) \in Range(s) /\ Head(s) \in Cells
        BY <1>1, ListFacts
    <1>4. IsInjective(Tail(s))
        <2>1. \A i, j \in 1 .. Len(Tail(s)) : Tail(s)[i] = Tail(s)[j] => i = j
            BY <1>1, <1>2
        <2> QED
            BY <1>1, <2>1, ListFacts
    <1>5. ASSUME NEW x \in Range(Tail(s))
          PROVE  x \in Range(s) \ {Head(s)}
        <2>1. PICK i \in 1 .. Len(Tail(s)) : Tail(s)[i] = x
            BY <1>1, ListFacts
        <2>2. i + 1 \in 1 .. Len(s) /\ s[i + 1] = x /\ i + 1 # 1
            BY <1>1, <2>1
        <2>3. x # Head(s)
            BY <1>1, <1>2, <2>2
        <2> QED
            BY <2>2, <2>3, ListFacts
    <1>6. ASSUME NEW x \in Range(s), x # Head(s)
          PROVE  x \in Range(Tail(s))
        <2>1. PICK i \in 1 .. Len(s) : s[i] = x
            BY ListFacts
        <2>2. i # 1
            BY <1>1, <1>6, <2>1
        <2>3. i - 1 \in 1 .. Len(Tail(s)) /\ Tail(s)[i - 1] = x
            BY <1>1, <2>1, <2>2
        <2> QED
            BY <1>1, <2>3, ListFacts
    <1> QED
        BY <1>1, <1>3, <1>4, <1>5, <1>6

\* _split_buddy writes a list of the two halves.
LEMMA Pair ==
    ASSUME NEW a \in Cells, NEW b \in Cells, a # b
    PROVE  /\ <<a, b>> \in Seq(Cells) /\ IsInjective(<<a, b>>) /\ Range(<<a, b>>) = {a, b}
           /\ Head(<<a, b>>) = a /\ <<a, b>> # <<>>
PROOF
    <1>1. <<a, b>> \in Seq(Cells) /\ Len(<<a, b>>) = 2
        OBVIOUS
    <1> QED
        BY <1>1 DEF IsInjective, Range

\* _merge pushes the whole block.
LEMMA Push ==
    ASSUME NEW s \in Seq(Cells), IsInjective(s), NEW a \in Cells, a \notin Range(s)
    PROVE  /\ <<a>> \o s \in Seq(Cells) /\ IsInjective(<<a>> \o s)
           /\ Range(<<a>> \o s) = Range(s) \cup {a}
PROOF
    <1> DEFINE t == <<a>> \o s
    <1>1. /\ t \in Seq(Cells) /\ Len(t) = 1 + Len(s) /\ Len(s) \in Nat
          /\ \A i \in 1 .. Len(t) : t[i] = IF i <= 1 THEN a ELSE s[i - 1]
        <2>1. <<a>> \in Seq(Cells) /\ Len(<<a>>) = 1
            OBVIOUS
        <2> QED
            BY <2>1, ConcatProperties, ListFacts
    <1>2. /\ \A i, j \in 1 .. Len(s) : s[i] = s[j] => i = j
          /\ \A i \in 1 .. Len(s) : s[i] # a
        BY ListFacts
    <1> HIDE DEF t
    <1>3. ASSUME NEW i \in 1 .. Len(t), NEW j \in 1 .. Len(t), t[i] = t[j]
          PROVE  i = j
        <2>1. t[1] = a
            BY <1>1
        <2>2. /\ i # 1 => i - 1 \in 1 .. Len(s) /\ t[i] = s[i - 1]
              /\ j # 1 => j - 1 \in 1 .. Len(s) /\ t[j] = s[j - 1]
            BY <1>1
        <2>3. i # 1 /\ j # 1 => i - 1 = j - 1
            BY <1>2, <1>3, <2>2
        <2> QED
            BY <1>1, <1>2, <1>3, <2>1, <2>2, <2>3
    <1>4. ASSUME NEW x
          PROVE  x \in Range(t) <=> x \in Range(s) \cup {a}
        <2>1. ASSUME NEW i \in 1 .. Len(t), t[i] = x
              PROVE  x = a \/ \E k \in 1 .. Len(s) : s[k] = x
            <3>1. i # 1 => i - 1 \in 1 .. Len(s) /\ s[i - 1] = x
                BY <1>1, <2>1
            <3> QED
                BY <1>1, <2>1, <3>1
        <2>2. ASSUME NEW k \in 1 .. Len(s), s[k] = x
              PROVE  k + 1 \in 1 .. Len(t) /\ t[k + 1] = x
            BY <1>1, <2>2
        <2>3. 1 \in 1 .. Len(t) /\ t[1] = a
            BY <1>1
        <2> QED
            BY <1>1, <2>1, <2>2, <2>3, ListFacts
    <1> QED
        BY <1>1, <1>3, <1>4, ListFacts DEF t

\* buddy_free2 puts a block somewhere into a list.
LEMMA Inserted ==
    ASSUME NEW s \in Seq(Cells), IsInjective(s), NEW a \in Cells, a \notin Range(s),
           NEW n \in 1 .. Len(s) + 1
    PROVE  /\ InsertAt(s, n, a) \in Seq(Cells) /\ IsInjective(InsertAt(s, n, a))
           /\ Range(InsertAt(s, n, a)) = Range(s) \cup {a}
PROOF
    <1> DEFINE front == SubSeq(s, 1, n - 1)
               back  == SubSeq(s, n, Len(s))
               t     == InsertAt(s, n, a)
    <1>1. Len(s) \in Nat /\ n \in Int /\ \A i \in 1 .. Len(s) : s[i] \in Cells
        BY ListFacts
    <1>2. /\ front \in Seq(Cells) /\ Len(front) = n - 1
          /\ \A i \in 1 .. n - 1 : front[i] = s[i]
        <2>1. \A i \in 1 .. n - 1 : s[i] \in Cells
            BY <1>1
        <2>2. /\ front \in Seq(Cells) /\ Len(front) = IF 1 <= n - 1 THEN (n - 1) - 1 + 1 ELSE 0
              /\ \A i \in 1 .. (n - 1) - 1 + 1 : front[i] = s[1 + i - 1]
            BY <1>1, <2>1, SubSeqProperties
        <2> QED
            BY <1>1, <2>2
    <1>3. /\ back \in Seq(Cells) /\ Len(back) = Len(s) - n + 1
          /\ \A i \in 1 .. Len(s) - n + 1 : back[i] = s[n + i - 1]
        <2>1. \A i \in n .. Len(s) : s[i] \in Cells
            BY <1>1
        <2>2. /\ back \in Seq(Cells) /\ Len(back) = IF n <= Len(s) THEN Len(s) - n + 1 ELSE 0
              /\ \A i \in 1 .. Len(s) - n + 1 : back[i] = s[n + i - 1]
            BY <1>1, <2>1, SubSeqProperties
        <2> QED
            BY <1>1, <2>2
    <1>4. t = (front \o <<a>>) \o back
        BY DEF InsertAt
    <1>5. /\ front \o <<a>> \in Seq(Cells) /\ Len(front \o <<a>>) = n
          /\ \A i \in 1 .. n : (front \o <<a>>)[i] = IF i <= n - 1 THEN s[i] ELSE a
        <2>1. <<a>> \in Seq(Cells) /\ Len(<<a>>) = 1 /\ <<a>>[1] = a
            OBVIOUS
        <2> HIDE DEF front
        <2>2. /\ front \o <<a>> \in Seq(Cells) /\ Len(front \o <<a>>) = (n - 1) + 1
              /\ \A i \in 1 .. (n - 1) + 1 :
                    (front \o <<a>>)[i] = IF i <= n - 1 THEN front[i] ELSE <<a>>[i - (n - 1)]
            BY <1>2, <2>1, ConcatProperties
        <2> QED
            BY <1>1, <1>2, <2>1, <2>2
    <1>6. /\ t \in Seq(Cells) /\ Len(t) = Len(s) + 1
          /\ \A i \in 1 .. Len(s) + 1 :
                t[i] = IF i < n THEN s[i] ELSE IF i = n THEN a ELSE s[i - 1]
        <2> DEFINE head == front \o <<a>>
        <2>1. /\ t = head \o back /\ head \in Seq(Cells) /\ Len(head) = n
              /\ \A i \in 1 .. n : head[i] = IF i <= n - 1 THEN s[i] ELSE a
            BY <1>4, <1>5
        <2> HIDE DEF front, back, t, head
        <2>2. /\ t \in Seq(Cells) /\ Len(t) = Len(head) + Len(back)
              /\ \A i \in 1 .. Len(head) + Len(back) :
                    t[i] = IF i <= Len(head) THEN head[i] ELSE back[i - Len(head)]
            BY <1>3, <2>1, ConcatProperties
        <2>3. Len(head) + Len(back) = Len(s) + 1
            BY <1>1, <1>3, <2>1
        <2>4. ASSUME NEW i \in 1 .. Len(s) + 1
              PROVE  t[i] = IF i < n THEN s[i] ELSE IF i = n THEN a ELSE s[i - 1]
            <3>1. t[i] = IF i <= n THEN head[i] ELSE back[i - n]
                BY <2>1, <2>2, <2>3
            <3>2. i <= n => i \in 1 .. n
                BY <1>1
            <3>3. i > n => i - n \in 1 .. Len(s) - n + 1 /\ n + (i - n) - 1 = i - 1
                BY <1>1
            <3> QED
                BY <1>1, <1>3, <2>1, <3>1, <3>2, <3>3
        <2> QED
            BY <2>2, <2>3, <2>4
    <1>7. /\ \A i, j \in 1 .. Len(s) : s[i] = s[j] => i = j
          /\ \A i \in 1 .. Len(s) : s[i] # a
        BY ListFacts
    <1> HIDE DEF t
    <1>8. ASSUME NEW i \in 1 .. Len(t), NEW j \in 1 .. Len(t), t[i] = t[j]
          PROVE  i = j
        <2>1. /\ i < n => i \in 1 .. Len(s) /\ t[i] = s[i]
              /\ i > n => i - 1 \in 1 .. Len(s) /\ t[i] = s[i - 1]
              /\ i = n => t[i] = a
            BY <1>1, <1>6
        <2>2. /\ j < n => j \in 1 .. Len(s) /\ t[j] = s[j]
              /\ j > n => j - 1 \in 1 .. Len(s) /\ t[j] = s[j - 1]
              /\ j = n => t[j] = a
            BY <1>1, <1>6
        <2> QED
            BY <1>1, <1>7, <1>8, <2>1, <2>2
    <1>9. ASSUME NEW x
          PROVE  x \in Range(t) <=> x \in Range(s) \cup {a}
        <2>1. ASSUME NEW i \in 1 .. Len(t), t[i] = x
              PROVE  x = a \/ \E k \in 1 .. Len(s) : s[k] = x
            <3>1. /\ i < n => i \in 1 .. Len(s) /\ s[i] = x
                  /\ i > n => i - 1 \in 1 .. Len(s) /\ s[i - 1] = x
                BY <1>1, <1>6, <2>1
            <3> QED
                BY <1>1, <1>6, <2>1, <3>1
        <2>2. ASSUME NEW k \in 1 .. Len(s), s[k] = x
              PROVE  \E i \in 1 .. Len(t) : t[i] = x
            <3>1. k < n => k \in 1 .. Len(t) /\ t[k] = x
                BY <1>1, <1>6, <2>2
            <3>2. k >= n => k + 1 \in 1 .. Len(t) /\ t[k + 1] = x
                BY <1>1, <1>6, <2>2
            <3> QED
                BY <1>1, <3>1, <3>2
        <2>3. n \in 1 .. Len(t) /\ t[n] = a
            BY <1>1, <1>6
        <2> QED
            BY <1>6, <2>1, <2>2, <2>3, ListFacts
    <1> QED
        BY <1>6, <1>8, <1>9, ListFacts DEF t

\* A block is taken off a list.
LEMMA Removed ==
    ASSUME NEW s \in Seq(Cells), IsInjective(s), NEW n \in 1 .. Len(s)
    PROVE  /\ RemoveAt(s, n) \in Seq(Cells) /\ IsInjective(RemoveAt(s, n))
           /\ Range(RemoveAt(s, n)) = Range(s) \ {s[n]}
PROOF
    <1> DEFINE front == SubSeq(s, 1, n - 1)
               back  == SubSeq(s, n + 1, Len(s))
               t     == RemoveAt(s, n)
    <1>1. Len(s) \in Nat /\ n \in Int /\ \A i \in 1 .. Len(s) : s[i] \in Cells
        BY ListFacts
    <1>2. /\ front \in Seq(Cells) /\ Len(front) = n - 1
          /\ \A i \in 1 .. n - 1 : front[i] = s[i]
        <2>1. \A i \in 1 .. n - 1 : s[i] \in Cells
            BY <1>1
        <2>2. /\ front \in Seq(Cells) /\ Len(front) = IF 1 <= n - 1 THEN (n - 1) - 1 + 1 ELSE 0
              /\ \A i \in 1 .. (n - 1) - 1 + 1 : front[i] = s[1 + i - 1]
            BY <1>1, <2>1, SubSeqProperties
        <2> QED
            BY <1>1, <2>2
    <1>3. /\ back \in Seq(Cells) /\ Len(back) = Len(s) - n
          /\ \A i \in 1 .. Len(s) - n : back[i] = s[n + i]
        <2>1. \A i \in n + 1 .. Len(s) : s[i] \in Cells
            BY <1>1
        <2>2. /\ back \in Seq(Cells)
              /\ Len(back) = IF n + 1 <= Len(s) THEN Len(s) - (n + 1) + 1 ELSE 0
              /\ \A i \in 1 .. Len(s) - (n + 1) + 1 : back[i] = s[(n + 1) + i - 1]
            BY <1>1, <2>1, SubSeqProperties
        <2> QED
            BY <1>1, <2>2
    <1>4. t = front \o back
        BY DEF RemoveAt
    <1>5. /\ t \in Seq(Cells) /\ Len(t) = Len(s) - 1
          /\ \A i \in 1 .. Len(s) - 1 : t[i] = IF i < n THEN s[i] ELSE s[i + 1]
        <2> HIDE DEF front, back, t
        <2>1. /\ t \in Seq(Cells) /\ Len(t) = Len(front) + Len(back)
              /\ \A i \in 1 .. Len(front) + Len(back) :
                    t[i] = IF i <= Len(front) THEN front[i] ELSE back[i - Len(front)]
            BY <1>2, <1>3, <1>4, ConcatProperties
        <2>2. Len(front) + Len(back) = Len(s) - 1
            BY <1>1, <1>2, <1>3
        <2>3. ASSUME NEW i \in 1 .. Len(s) - 1
              PROVE  t[i] = IF i < n THEN s[i] ELSE s[i + 1]
            <3>1. t[i] = IF i <= n - 1 THEN front[i] ELSE back[i - (n - 1)]
                BY <1>2, <2>1, <2>2
            <3>2. i < n => i \in 1 .. n - 1
                BY <1>1
            <3>3. i >= n => i - (n - 1) \in 1 .. Len(s) - n /\ n + (i - (n - 1)) = i + 1
                BY <1>1
            <3> QED
                BY <1>1, <1>2, <1>3, <3>1, <3>2, <3>3
        <2> QED
            BY <2>1, <2>2, <2>3
    <1>6. \A i, j \in 1 .. Len(s) : s[i] = s[j] => i = j
        BY ListFacts
    <1> HIDE DEF t
    <1>7. \A i, j \in 1 .. Len(t) : t[i] = t[j] => i = j
        BY <1>1, <1>5, <1>6
    <1>8. ASSUME NEW x \in Range(t)
          PROVE  x \in Range(s) \ {s[n]}
        <2>1. PICK i \in 1 .. Len(t) : t[i] = x
            BY <1>5, ListFacts
        <2>2. \E k \in 1 .. Len(s) : k # n /\ s[k] = x
            <3>1. i < n => i \in 1 .. Len(s) /\ s[i] = x
                BY <1>1, <1>5, <2>1
            <3>2. i >= n => i + 1 \in 1 .. Len(s) /\ i + 1 # n /\ s[i + 1] = x
                BY <1>1, <1>5, <2>1
            <3> QED
                BY <1>1, <1>5, <3>1, <3>2
        <2> QED
            BY <1>6, <2>2, ListFacts
    <1>9. ASSUME NEW x \in Range(s), x # s[n]
          PROVE  x \in Range(t)
        <2>1. PICK k \in 1 .. Len(s) : s[k] = x
            BY ListFacts
        <2>2. k < n => k \in 1 .. Len(t) /\ t[k] = x
            BY <1>1, <1>5, <2>1
        <2>3. k > n => k - 1 \in 1 .. Len(t) /\ t[k - 1] = x
            BY <1>1, <1>5, <2>1
        <2>4. k < n \/ k > n
            BY <1>1, <1>9, <2>1
        <2> QED
            BY <1>5, <2>2, <2>3, <2>4, ListFacts
    <1> QED
        BY <1>5, <1>7, <1>8, <1>9, ListFacts DEF t

\* _merge's walk takes a block off its list.
LEMMA UnlinkedOf ==
    ASSUME NEW s \in Seq(Cells), IsInjective(s), NEW a
    PROVE  /\ Unlinked(s, a) \in Seq(Cells) /\ IsInjective(Unlinked(s, a))
           /\ Range(Unlinked(s, a)) = Range(s) \ {a}
PROOF
    <1> DEFINE at == {i \in DOMAIN s : s[i] = a}
    <1>1. Len(s) \in Nat /\ DOMAIN s = 1 .. Len(s)
        BY ListFacts
    <1>2. CASE at = {}
        <2>1. a \notin Range(s)
            BY <1>1, <1>2, ListFacts
        <2> QED
            BY <1>2, <2>1 DEF Unlinked
    <1>3. CASE at # {}
        <2>1. at \in SUBSET Nat
            BY <1>1
        <2>2. Min(at) \in at
            <3> HIDE DEF at
            <3> QED
                BY <1>3, <2>1, MinOf
        <2>3. Min(at) \in 1 .. Len(s) /\ s[Min(at)] = a
            BY <1>1, <2>2
        <2>4. Unlinked(s, a) = RemoveAt(s, Min(at))
            BY <1>3 DEF Unlinked
        <2> HIDE DEF at
        <2> QED
            BY <2>3, <2>4, Removed
    <1> QED
        BY <1>2, <1>3

\* buddy_free2 finds a place on the list and puts the block there.
LEMMA InsertBlockOf ==
    ASSUME NEW s \in Seq(Cells), IsInjective(s), NEW a \in Cells, a \notin Range(s)
    PROVE  /\ InsertBlock(s, a) \in Seq(Cells) /\ IsInjective(InsertBlock(s, a))
           /\ Range(InsertBlock(s, a)) = Range(s) \cup {a}
PROOF
    <1> DEFINE larger == {i \in DOMAIN s : a < s[i]}
               n == IF larger = {} THEN Len(s) + 1 ELSE Min(larger)
    <1>1. Len(s) \in Nat /\ DOMAIN s = 1 .. Len(s)
        BY ListFacts
    <1>2. larger \in SUBSET (1 .. Len(s))
        BY <1>1
    <1>3. n \in 1 .. Len(s) + 1
        <2> HIDE DEF larger
        <2>1. CASE larger = {}
            BY <1>1, <2>1
        <2>2. CASE larger # {}
            <3>1. larger \in SUBSET Nat
                BY <1>1, <1>2
            <3>2. Min(larger) \in 1 .. Len(s)
                BY <1>2, <2>2, <3>1, MinOf
            <3>3. n = Min(larger)
                BY <2>2
            <3> QED
                BY <1>1, <3>2, <3>3
        <2> QED
            BY <2>1, <2>2
    <1>4. InsertBlock(s, a) = InsertAt(s, n, a)
        BY DEF InsertBlock
    <1> HIDE DEF n
    <1> QED
        BY <1>3, <1>4, Inserted

----------------------------------------------------------------------------
(* Blocks and offsets                                                      *)

Block == Levels \X Nat

\* A block of level lv may start at off.
Aligned(lv, off) == \E i \in Nat : off = i * 2^lv

\* A list names only blocks of its level, and none of them twice.
ListsOf(p) ==
    /\ p \in [list : [Levels -> Seq(Cells)], flag : SUBSET Cells]
    /\ \A lv \in Levels : /\ IsInjective(p.list[lv])
                          /\ \A off \in Range(p.list[lv]) : Aligned(lv, off)

\* The blocks on the lists of p.
Blocks(p) == {b \in Block : b[2] * 2^b[1] \in Range(p.list[b[1]])}

\* Products of numbers are ordered as their factors.
LEMMA Times ==
    ASSUME NEW i \in Nat, NEW j \in Nat, NEW s \in Nat, s > 0
    PROVE  /\ i * s \in Nat /\ j * s \in Nat
           /\ i * s < j * s <=> i < j
           /\ i * s = j * s <=> i = j
           /\ (i + 1) * s = i * s + s
PROOF
    <1>1. i * s \in Nat /\ j * s \in Nat /\ (i + 1) * s = i * s + s /\ (j + 1) * s = j * s + s
        OBVIOUS
    <1>2. ASSUME i < j
          PROVE  i * s < j * s
        <2>1. (i + 1) * s <= j * s
            BY <1>2
        <2> QED
            BY <1>1, <2>1
    <1>3. ASSUME j < i
          PROVE  j * s < i * s
        <2>1. (j + 1) * s <= i * s
            BY <1>3
        <2> QED
            BY <1>1, <2>1
    <1> QED
        BY <1>1, <1>2, <1>3

\* Indexed undoes the shift that gave an offset.
LEMMA Divided ==
    ASSUME NEW i \in Nat, NEW s \in Nat, s > 0
    PROVE  (i * s) \div s = i
PROOF
    <1> DEFINE x == i * s
               q == x \div s
    <1>1. x \in Nat
        OBVIOUS
    <1> HIDE DEF x
    <1>2. q \in Nat /\ q * s <= x /\ x < q * s + s
        BY <1>1, Z3
    <1> HIDE DEF q
    <1>3. q * s <= i * s /\ i * s < (q + 1) * s
        BY <1>2, Times DEF x
    <1>4. ~ (i < q) /\ i < q + 1
        BY <1>2, <1>3, Times
    <1>5. q = i
        BY <1>2, <1>4
    <1> QED
        BY <1>5 DEF q, x

\* The block at an aligned offset, and its cells.
LEMMA BlockAt ==
    ASSUME NEW lv \in Levels, NEW off \in Cells, Aligned(lv, off)
    PROVE  /\ Indexed(lv, off) \in Block
           /\ Indexed(lv, off)[1] = lv /\ Indexed(lv, off)[2] \in Nat
           /\ Indexed(lv, off)[2] * 2^lv = off
           /\ Sets!Lo(Indexed(lv, off)) = off
           /\ Sets!Hi(Indexed(lv, off)) = off + 2^lv
           /\ off + 2^lv <= 2^Sz
PROOF
    <1>1. PICK i \in Nat : off = i * 2^lv
        BY DEF Aligned
    <1>2. 2^lv \in Nat /\ 2^lv > 0 /\ lv \in Nat /\ lv <= Sz /\ 2^Sz \in Nat
        BY PoolSizes
    <1>3. Indexed(lv, off) = <<lv, i>>
        BY <1>1, <1>2, Divided DEF Indexed
    <1>4. Sets!Lo(<<lv, i>>) = off /\ Sets!Hi(<<lv, i>>) = off + 2^lv
        BY <1>1 DEF Sets!Lo, Sets!Hi
    <1>5. off + 2^lv <= 2^Sz
        <2> DEFINE n == 2^(Sz - lv)
        <2>1. Sz - lv \in Nat /\ Sz = (Sz - lv) + lv
            BY <1>2, PoolSizes
        <2>2. n \in Nat /\ 2^Sz = n * 2^lv
            BY <1>2, <2>1, PowNext, PowAdd
        <2> HIDE DEF n
        <2>3. off < 2^Sz
            BY <1>2 DEF Cells
        <2>4. i < n
            BY <1>1, <1>2, <2>2, <2>3, Times
        <2>5. i + 1 \in Nat /\ ~ (n < i + 1)
            BY <2>2, <2>4
        <2>6. ~ (n * 2^lv < (i + 1) * 2^lv) /\ (i + 1) * 2^lv = i * 2^lv + 2^lv
            BY <1>2, <2>2, <2>5, Times
        <2> QED
            BY <1>1, <1>2, <2>2, <2>6
    <1> QED
        BY <1>1, <1>3, <1>4, <1>5 DEF Block

\* A pair is the block at off exactly if it has its level and its first cell.
LEMMA SameBlock ==
    ASSUME NEW lv \in Levels, NEW off \in Cells, Aligned(lv, off), NEW b \in Block
    PROVE  b = Indexed(lv, off) <=> b[1] = lv /\ b[2] * 2^b[1] = off
PROOF
    <1> DEFINE c == Indexed(lv, off)
    <1>1. c[1] = lv /\ c[2] \in Nat /\ c[2] * 2^lv = off /\ c \in Block
        BY BlockAt
    <1>2. 2^lv \in Nat /\ 2^lv > 0
        BY PoolSizes
    <1> HIDE DEF c
    <1>3. ASSUME b[1] = lv, b[2] * 2^b[1] = off
          PROVE  b = c
        <2>1. b[2] \in Nat /\ b[2] * 2^lv = c[2] * 2^lv
            BY <1>1, <1>3 DEF Block
        <2>2. b[2] = c[2]
            BY <1>1, <1>2, <2>1, Times
        <2> QED
            BY <1>1, <1>3, <2>2 DEF Block
    <1>4. b = c => b[1] = lv /\ b[2] * 2^b[1] = off
        BY <1>1
    <1> QED
        BY <1>3, <1>4 DEF c

\* The first cell of a block is aligned to its size.
LEMMA FirstCellOf ==
    ASSUME NEW b \in Block
    PROVE  /\ b[1] \in Levels /\ b[2] \in Nat /\ b[2] * 2^b[1] \in Nat
           /\ Aligned(b[1], b[2] * 2^b[1])
PROOF
    <1>1. b[1] \in Levels /\ b[2] \in Nat
        BY DEF Block
    <1>2. 2^b[1] \in Nat
        BY <1>1, PoolSizes
    <1> QED
        BY <1>1, <1>2 DEF Aligned

\* The set that Listed builds from the lists.
LEMMA ListedBlocks ==
    ASSUME NEW p, ListsOf(p)
    PROVE  UNION {{Indexed(lv, p.list[lv][i]) : i \in DOMAIN p.list[lv]} : lv \in Levels} = Blocks(p)
PROOF
    <1> DEFINE L == UNION {{Indexed(lv, p.list[lv][i]) : i \in DOMAIN p.list[lv]} : lv \in Levels}
    <1>1. ASSUME NEW lv \in Levels, NEW x \in Range(p.list[lv])
          PROVE  x \in Cells /\ Aligned(lv, x)
        BY ListFacts DEF ListsOf
    <1>2. ASSUME NEW b \in L
          PROVE  b \in Blocks(p)
        <2>0. PICK lv \in Levels : b \in {Indexed(lv, p.list[lv][i]) : i \in DOMAIN p.list[lv]}
            OBVIOUS
        <2>1. PICK i \in DOMAIN p.list[lv] : b = Indexed(lv, p.list[lv][i])
            BY <2>0
        <2>2. p.list[lv][i] \in Range(p.list[lv])
            BY DEF Range
        <2>3. b \in Block /\ b[1] = lv /\ b[2] * 2^lv = p.list[lv][i]
            BY <1>1, <2>1, <2>2, BlockAt
        <2> QED
            BY <2>2, <2>3 DEF Blocks
    <1>3. ASSUME NEW b \in Blocks(p)
          PROVE  b \in L
        <2>1. b \in Block /\ b[1] \in Levels /\ b[2] * 2^b[1] \in Range(p.list[b[1]])
            BY FirstCellOf DEF Blocks
        <2>2. PICK i \in DOMAIN p.list[b[1]] : b[2] * 2^b[1] = p.list[b[1]][i]
            BY <2>1 DEF Range
        <2>3. b = Indexed(b[1], p.list[b[1]][i])
            BY <1>1, <2>1, <2>2, SameBlock
        <2> QED
            BY <2>1, <2>3
    <1> QED
        BY <1>2, <1>3

\* A block is on the lists if its offset is on the list of its level.
LEMMA OnItsList ==
    ASSUME NEW p, ListsOf(p), NEW lv \in Levels
    PROVE  /\ p.list[lv] \in Seq(Cells) /\ IsInjective(p.list[lv])
           /\ \A off \in Range(p.list[lv]) : /\ off \in Cells /\ Aligned(lv, off)
                                             /\ Indexed(lv, off) \in Blocks(p)
           /\ \A off \in Cells : Aligned(lv, off) /\ Indexed(lv, off) \in Blocks(p)
                                 => off \in Range(p.list[lv])
PROOF
    <1>1. p.list[lv] \in Seq(Cells) /\ IsInjective(p.list[lv])
        BY DEF ListsOf
    <1>2. \A off \in Range(p.list[lv]) : off \in Cells /\ Aligned(lv, off)
        BY <1>1, ListFacts DEF ListsOf
    <1>3. ASSUME NEW off \in Cells, Aligned(lv, off)
          PROVE  Indexed(lv, off) \in Blocks(p) <=> off \in Range(p.list[lv])
        BY <1>3, BlockAt DEF Blocks
    <1> QED
        BY <1>1, <1>2, <1>3

----------------------------------------------------------------------------
(* What each frame does to the lists                                       *)

\* The halves of a block.
LEMMA HalvesAt ==
    ASSUME NEW l \in Levels, l + 1 \in Levels, NEW h \in Cells, Aligned(l + 1, h)
    PROVE  /\ Aligned(l, h) /\ h + 2^l \in Cells /\ Aligned(l, h + 2^l)
           /\ Sets!LeftHalf(Indexed(l + 1, h)) = Indexed(l, h)
           /\ Sets!RightHalf(Indexed(l + 1, h)) = Indexed(l, h + 2^l)
PROOF
    <1>1. PICK i \in Nat : h = i * 2^(l + 1)
        BY DEF Aligned
    <1>2. /\ 2^l \in Nat /\ 2^l > 0 /\ 2^(l + 1) = 2 * 2^l /\ 2^Sz \in Nat
          /\ l \in Nat /\ 2^(l + 1) \in Nat /\ 2^(l + 1) > 0
        BY PoolSizes
    <1> DEFINE s == 2^l
    <1>3. h = (2 * i) * s /\ h + s = (2 * i + 1) * s
        <2>1. h = i * (2 * s) /\ s \in Nat
            BY <1>1, <1>2
        <2> HIDE DEF s
        <2> QED
            BY <2>1
    <1>4. Aligned(l, h) /\ Aligned(l, h + s)
        BY <1>3 DEF Aligned
    <1>5. h + s \in Cells
        <2>1. h + 2^(l + 1) <= 2^Sz
            BY BlockAt
        <2> QED
            BY <1>2, <2>1 DEF Cells
    <1>6. /\ Indexed(l + 1, h) = <<l + 1, i>>
          /\ Indexed(l, h) = <<l, 2 * i>> /\ Indexed(l, h + s) = <<l, 2 * i + 1>>
        BY <1>1, <1>2, <1>3, Divided DEF Indexed
    <1> QED
        BY <1>2, <1>4, <1>5, <1>6 DEF Sets!LeftHalf, Sets!RightHalf

\* The block that Start finds is the parent, and its halves are the block and its buddy.
LEMMA ParentAt ==
    ASSUME NEW l \in Levels, l + 1 \in Levels, NEW off \in Cells, Aligned(l, off)
    PROVE  LET s == Start(off, l + 1)
               b == Indexed(l, off)
           IN  /\ s \in Cells /\ Aligned(l + 1, s) /\ Indexed(l + 1, s) = Sets!Parent(b)
               /\ {Indexed(l, s), Indexed(l, s + 2^l)} = {b, Sets!Buddy(b)}
               /\ off = s \/ off = s + 2^l
PROOF
    <1> DEFINE s == Start(off, l + 1)
               z == 2^l
    <1>1. PICK i \in Nat : off = i * z
        BY DEF Aligned
    <1>2. z \in Nat /\ z > 0 /\ 2^(l + 1) = 2 * z /\ l \in Nat
        BY PoolSizes
    <1> DEFINE h == i \div 2
    <1>3. h \in Nat /\ (i = 2 * h \/ i = 2 * h + 1)
        OBVIOUS
    <1>4. /\ i % 2 = 0 => i = 2 * h
          /\ i % 2 # 0 => i = 2 * h + 1
        OBVIOUS
    <1> HIDE DEF h
    <1>5. off \div (2 * z) = h
        <2> DEFINE q == off \div (2 * z)
                   y == 2 * z
        <2>1. y \in Nat /\ y > 0 /\ off \in Nat
            BY <1>1, <1>2
        <2>2. off = h * y \/ off = h * y + z
            <3>1. (2 * h) * z = h * (2 * z) /\ (2 * h + 1) * z = h * (2 * z) + z
                BY <1>2, <1>3
            <3> QED
                BY <1>1, <1>3, <3>1
        <2>3. z < y
            BY <1>2
        <2> HIDE DEF y, z
        <2>4. q \in Nat /\ q * y <= off /\ off < q * y + y
            BY <2>1, Z3 DEF y
        <2> HIDE DEF q
        <2>5. h * y \in Nat /\ q * y \in Nat /\ (h + 1) * y = h * y + y /\ (q + 1) * y = q * y + y
            BY <1>3, <2>1, <2>4, Times
        <2>6. q * y < (h + 1) * y /\ h * y < (q + 1) * y
            BY <1>2, <2>1, <2>2, <2>3, <2>4, <2>5
        <2>7. h + 1 \in Nat /\ q + 1 \in Nat
            BY <1>3, <2>4
        <2>8. q < h + 1 /\ h < q + 1
            BY <1>3, <2>1, <2>4, <2>6, <2>7, Times
        <2>9. q = h
            BY <1>3, <2>4, <2>8
        <2> QED
            BY <2>9 DEF q
    <1>6. s = h * 2^(l + 1)
        BY <1>2, <1>5 DEF Start
    <1>7. s = (2 * h) * z /\ s + z = (2 * h + 1) * z /\ s \in Nat
        <2>1. s = h * (2 * z)
            BY <1>2, <1>6
        <2> HIDE DEF s, z
        <2> QED
            BY <1>2, <1>3, <2>1
    <1>8. off = s \/ off = s + z
        BY <1>1, <1>3, <1>7
    <1>9. s \in Cells
        <2>1. s <= off
            <3> HIDE DEF s, z
            <3> QED
                BY <1>2, <1>7, <1>8
        <2> QED
            BY <1>7, <2>1, PoolSizes DEF Cells
    <1>10. Aligned(l + 1, s)
        BY <1>3, <1>6 DEF Aligned
    <1>11. /\ Indexed(l, off) = <<l, i>> /\ Indexed(l + 1, s) = <<l + 1, h>>
           /\ Indexed(l, s) = <<l, 2 * h>> /\ Indexed(l, s + z) = <<l, 2 * h + 1>>
        <2>1. 2^(l + 1) \in Nat /\ 2^(l + 1) > 0
            BY PoolSizes
        <2> QED
            BY <1>1, <1>2, <1>3, <1>6, <1>7, <2>1, Divided DEF Indexed
    <1>12. Indexed(l + 1, s) = Sets!Parent(Indexed(l, off))
        BY <1>11 DEF Sets!Parent, h
    <1>13. {Indexed(l, s), Indexed(l, s + z)} = {Indexed(l, off), Sets!Buddy(Indexed(l, off))}
        <2> DEFINE b == Indexed(l, off)
        <2>1. Sets!Buddy(b) = <<l, IF i % 2 = 0 THEN i + 1 ELSE i - 1>>
            BY <1>11 DEF Sets!Buddy
        <2>2. CASE i % 2 = 0
            <3>1. b = <<l, 2 * h>> /\ Sets!Buddy(b) = <<l, 2 * h + 1>>
                BY <1>4, <1>11, <2>1, <2>2
            <3> QED
                BY <1>11, <3>1
        <2>3. CASE i % 2 # 0
            <3>1. b = <<l, 2 * h + 1>> /\ Sets!Buddy(b) = <<l, 2 * h>>
                BY <1>3, <1>4, <1>11, <2>1, <2>3
            <3> QED
                BY <1>11, <3>1
        <2> QED
            BY <2>2, <2>3
    <1> QED
        BY <1>8, <1>9, <1>10, <1>12, <1>13

\* _split_buddy exchanges the head of a list for its two halves.
LEMMA SplitOf ==
    ASSUME NEW p, ListsOf(p), NEW l \in Levels, l + 1 \in Levels,
           p.list[l] = <<>>, p.list[l + 1] # <<>>
    PROVE  LET h == Head(p.list[l + 1])
               q == SplitLevel(p, l)
           IN  /\ h \in Cells /\ Aligned(l + 1, h) /\ Indexed(l + 1, h) \in Blocks(p)
               /\ ListsOf(q) /\ q.flag = p.flag
               /\ q.list[l] # <<>> /\ Head(q.list[l]) = h
               /\ \A k \in Levels : k # l /\ k # l + 1 => q.list[k] = p.list[k]
               /\ Blocks(q) = (Blocks(p) \ {Indexed(l + 1, h)})
                              \cup {Indexed(l, h), Indexed(l, h + 2^l)}
PROOF
    <1> DEFINE h == Head(p.list[l + 1])
               r == h + 2^l
               q == SplitLevel(p, l)
    <1>1. /\ l + 1 # l /\ l \in Nat /\ 2^l \in Nat /\ 2^l > 0
          /\ p.list \in [Levels -> Seq(Cells)] /\ p.flag \in SUBSET Cells
        BY PoolSizes DEF ListsOf
    <1>2. /\ h \in Range(p.list[l + 1]) /\ h \in Cells
          /\ Tail(p.list[l + 1]) \in Seq(Cells) /\ IsInjective(Tail(p.list[l + 1]))
          /\ Range(Tail(p.list[l + 1])) = Range(p.list[l + 1]) \ {h}
        BY OnItsList, HeadTail
    <1>3. Aligned(l + 1, h) /\ Indexed(l + 1, h) \in Blocks(p)
        BY <1>2, OnItsList
    <1>4. Aligned(l, h) /\ r \in Cells /\ Aligned(l, r)
        BY <1>2, <1>3, HalvesAt
    <1>5. h \in Nat /\ h # r
        <2> HIDE DEF h
        <2> QED
            BY <1>1, <1>2, PoolSizes DEF Cells
    <1>6. /\ <<h, r>> \in Seq(Cells) /\ IsInjective(<<h, r>>) /\ Range(<<h, r>>) = {h, r}
          /\ Head(<<h, r>>) = h /\ <<h, r>> # <<>>
        BY <1>2, <1>4, <1>5, Pair
    <1>7. q = [p EXCEPT !.list[l] = <<h, r>>, !.list[l + 1] = Tail(@)]
        BY DEF SplitLevel
    <1> HIDE DEF h, r, q
    <1>8. /\ q.flag = p.flag
          /\ q.list[l] = <<h, r>> /\ q.list[l + 1] = Tail(p.list[l + 1])
          /\ \A k \in Levels : k # l /\ k # l + 1 => q.list[k] = p.list[k]
        BY <1>1, <1>7 DEF ListsOf
    <1>9. q \in [list : [Levels -> Seq(Cells)], flag : SUBSET Cells]
        BY <1>1, <1>2, <1>6, <1>7 DEF ListsOf
    <1>10. ListsOf(q)
        <2>1. ASSUME NEW k \in Levels
              PROVE  IsInjective(q.list[k]) /\ \A off \in Range(q.list[k]) : Aligned(k, off)
            <3>1. CASE k = l
                BY <1>4, <1>6, <1>8, <3>1
            <3>2. CASE k = l + 1
                BY <1>2, <1>8, <3>2, OnItsList
            <3>3. CASE k # l /\ k # l + 1
                BY <1>8, <3>3, OnItsList
            <3> QED
                BY <3>1, <3>2, <3>3
        <2> QED
            BY <1>9, <2>1 DEF ListsOf
    <1>11. ASSUME NEW b \in Block
           PROVE  b \in Blocks(q) <=> \/ b \in Blocks(p) /\ b # Indexed(l + 1, h)
                                      \/ b = Indexed(l, h) \/ b = Indexed(l, r)
        <2> DEFINE x == b[2] * 2^b[1]
        <2>1. /\ b[1] \in Levels
              /\ b \in Blocks(q) <=> x \in Range(q.list[b[1]])
              /\ b \in Blocks(p) <=> x \in Range(p.list[b[1]])
            BY FirstCellOf DEF Blocks
        <2>2. /\ b = Indexed(l + 1, h) <=> b[1] = l + 1 /\ x = h
              /\ b = Indexed(l, h) <=> b[1] = l /\ x = h
              /\ b = Indexed(l, r) <=> b[1] = l /\ x = r
            BY <1>2, <1>3, <1>4, SameBlock
        <2>3. Range(p.list[l]) = {}
            BY OnItsList, ListFacts
        <2> HIDE DEF x
        <2>4. CASE b[1] = l
            BY <1>1, <1>6, <1>8, <2>1, <2>2, <2>3, <2>4
        <2>5. CASE b[1] = l + 1
            BY <1>1, <1>2, <1>8, <2>1, <2>2, <2>5
        <2>6. CASE b[1] # l /\ b[1] # l + 1
            BY <1>8, <2>1, <2>2, <2>6
        <2> QED
            BY <2>4, <2>5, <2>6
    <1>12. /\ Blocks(q) \subseteq Block /\ Blocks(p) \subseteq Block
           /\ Indexed(l, h) \in Block /\ Indexed(l, r) \in Block
        BY <1>2, <1>4, BlockAt DEF Blocks
    <1>13. Blocks(q) = (Blocks(p) \ {Indexed(l + 1, h)}) \cup {Indexed(l, h), Indexed(l, r)}
        BY <1>11, <1>12
    <1> QED
        BY <1>2, <1>3, <1>6, <1>8, <1>10, <1>13 DEF h, r, q

\* buddy_alloc2 takes the head of a list and flags its last cell.
LEMMA TakeOf ==
    ASSUME NEW p, ListsOf(p), NEW l \in Levels, p.list[l] # <<>>
    PROVE  LET h == Head(p.list[l])
               q == TakeHead(p, l)
           IN  /\ h \in Cells /\ Aligned(l, h) /\ Indexed(l, h) \in Blocks(p)
               /\ ListsOf(q) /\ q.flag = p.flag \cup {h + 2^l - 1}
               /\ Blocks(q) = Blocks(p) \ {Indexed(l, h)}
PROOF
    <1> DEFINE h == Head(p.list[l])
               q == TakeHead(p, l)
    <1>1. /\ l \in Nat /\ 2^l \in Nat /\ 2^l > 0 /\ 2^Sz \in Nat
          /\ p.list \in [Levels -> Seq(Cells)] /\ p.flag \in SUBSET Cells
        BY PoolSizes DEF ListsOf
    <1>2. /\ h \in Range(p.list[l]) /\ h \in Cells
          /\ Tail(p.list[l]) \in Seq(Cells) /\ IsInjective(Tail(p.list[l]))
          /\ Range(Tail(p.list[l])) = Range(p.list[l]) \ {h}
        BY OnItsList, HeadTail
    <1>3. Aligned(l, h) /\ Indexed(l, h) \in Blocks(p)
        BY <1>2, OnItsList
    <1>4. h + 2^l - 1 \in Cells
        <2> HIDE DEF h
        <2>1. h + 2^l <= 2^Sz
            BY <1>2, <1>3, BlockAt
        <2> QED
            BY <1>1, <1>2, <2>1 DEF Cells
    <1>5. q = [p EXCEPT !.list[l] = Tail(@), !.flag = @ \cup {h + 2^l - 1}]
        BY DEF TakeHead
    <1> HIDE DEF h, q
    <1>6. /\ q.flag = p.flag \cup {h + 2^l - 1}
          /\ q.list[l] = Tail(p.list[l])
          /\ \A k \in Levels : k # l => q.list[k] = p.list[k]
        BY <1>1, <1>5 DEF ListsOf
    <1>7. q \in [list : [Levels -> Seq(Cells)], flag : SUBSET Cells]
        BY <1>1, <1>2, <1>4, <1>5 DEF ListsOf
    <1>8. ListsOf(q)
        <2>1. ASSUME NEW k \in Levels
              PROVE  IsInjective(q.list[k]) /\ \A off \in Range(q.list[k]) : Aligned(k, off)
            BY <1>2, <1>6, OnItsList
        <2> QED
            BY <1>7, <2>1 DEF ListsOf
    <1>9. ASSUME NEW b \in Block
          PROVE  b \in Blocks(q) <=> b \in Blocks(p) /\ b # Indexed(l, h)
        <2> DEFINE x == b[2] * 2^b[1]
        <2>1. /\ b[1] \in Levels
              /\ b \in Blocks(q) <=> x \in Range(q.list[b[1]])
              /\ b \in Blocks(p) <=> x \in Range(p.list[b[1]])
            BY FirstCellOf DEF Blocks
        <2>2. b = Indexed(l, h) <=> b[1] = l /\ x = h
            BY <1>2, <1>3, SameBlock
        <2> HIDE DEF x
        <2> QED
            BY <1>2, <1>6, <2>1, <2>2
    <1>10. Blocks(q) = Blocks(p) \ {Indexed(l, h)}
        BY <1>9 DEF Blocks
    <1> QED
        BY <1>2, <1>3, <1>6, <1>8, <1>10 DEF h, q

\* buddy_free2 clears the flag and puts the block on its list.
LEMMA ReturnOf ==
    ASSUME NEW p, ListsOf(p), NEW l \in Levels, NEW a \in Cells, Aligned(l, a),
           Indexed(l, a) \notin Blocks(p)
    PROVE  LET q == ReturnBlock(p, a, l)
           IN  /\ ListsOf(q) /\ q.flag = p.flag \ {a + 2^l - 1}
               /\ a \in Range(q.list[l])
               /\ Blocks(q) = Blocks(p) \cup {Indexed(l, a)}
PROOF
    <1> DEFINE q == ReturnBlock(p, a, l)
    <1>1. p.list \in [Levels -> Seq(Cells)] /\ p.flag \in SUBSET Cells
        BY DEF ListsOf
    <1>2. a \notin Range(p.list[l])
        BY OnItsList
    <1>3. /\ InsertBlock(p.list[l], a) \in Seq(Cells) /\ IsInjective(InsertBlock(p.list[l], a))
          /\ Range(InsertBlock(p.list[l], a)) = Range(p.list[l]) \cup {a}
        BY <1>2, OnItsList, InsertBlockOf
    <1>4. q = [p EXCEPT !.flag = @ \ {a + 2^l - 1}, !.list[l] = InsertBlock(@, a)]
        BY DEF ReturnBlock
    <1> HIDE DEF q
    <1>5. /\ q.flag = p.flag \ {a + 2^l - 1}
          /\ q.list[l] = InsertBlock(p.list[l], a)
          /\ \A k \in Levels : k # l => q.list[k] = p.list[k]
        BY <1>1, <1>4 DEF ListsOf
    <1>6. q \in [list : [Levels -> Seq(Cells)], flag : SUBSET Cells]
        BY <1>1, <1>3, <1>4 DEF ListsOf
    <1>7. ListsOf(q)
        <2>1. ASSUME NEW k \in Levels
              PROVE  IsInjective(q.list[k]) /\ \A off \in Range(q.list[k]) : Aligned(k, off)
            BY <1>3, <1>5, OnItsList
        <2> QED
            BY <1>6, <2>1 DEF ListsOf
    <1>8. ASSUME NEW b \in Block
          PROVE  b \in Blocks(q) <=> b \in Blocks(p) \/ b = Indexed(l, a)
        <2> DEFINE x == b[2] * 2^b[1]
        <2>1. /\ b[1] \in Levels
              /\ b \in Blocks(q) <=> x \in Range(q.list[b[1]])
              /\ b \in Blocks(p) <=> x \in Range(p.list[b[1]])
            BY FirstCellOf DEF Blocks
        <2>2. b = Indexed(l, a) <=> b[1] = l /\ x = a
            BY SameBlock
        <2> HIDE DEF x
        <2> QED
            BY <1>3, <1>5, <2>1, <2>2
    <1>9. Blocks(q) = Blocks(p) \cup {Indexed(l, a)}
        BY <1>8, BlockAt DEF Blocks
    <1> QED
        BY <1>3, <1>5, <1>7, <1>9 DEF q

\* _merge exchanges a block and its buddy, listed or not, for their parent.
LEMMA MergeOf ==
    ASSUME NEW p, ListsOf(p), NEW l \in Levels, l + 1 \in Levels,
           NEW off \in Cells, Aligned(l, off),
           Sets!Parent(Indexed(l, off)) \notin Blocks(p)
    PROVE  LET b == Indexed(l, off)
               q == MergeLevel(p, off, l)
           IN  /\ ListsOf(q) /\ q.flag = p.flag
               /\ Start(off, l + 1) \in Range(q.list[l + 1])
               /\ Blocks(q) = (Blocks(p) \ {b, Sets!Buddy(b)}) \cup {Sets!Parent(b)}
PROOF
    <1> DEFINE b == Indexed(l, off)
               s == Start(off, l + 1)
               r == s + 2^l
               q == MergeLevel(p, off, l)
               once == Unlinked(p.list[l], s)
               both == Unlinked(once, r)
               whole == <<s>> \o p.list[l + 1]
    <1>1. /\ l + 1 # l
          /\ p.list \in [Levels -> Seq(Cells)] /\ p.flag \in SUBSET Cells
        <2>1. l \in Nat
            BY PoolSizes
        <2> QED
            BY <2>1 DEF ListsOf
    <1>2. /\ s \in Cells /\ Aligned(l + 1, s) /\ Indexed(l + 1, s) = Sets!Parent(b)
          /\ {Indexed(l, s), Indexed(l, r)} = {b, Sets!Buddy(b)}
        BY ParentAt
    <1>3. Aligned(l, s) /\ r \in Cells /\ Aligned(l, r)
        BY <1>2, HalvesAt
    <1>4. s \notin Range(p.list[l + 1])
        BY <1>2, OnItsList
    <1>5. q = [p EXCEPT !.list[l] = both, !.list[l + 1] = <<s>> \o @]
        BY DEF MergeLevel
    <1> HIDE DEF s, r
    <1>6. /\ both \in Seq(Cells) /\ IsInjective(both)
          /\ Range(both) = Range(p.list[l]) \ {s, r}
        <2>1. p.list[l] \in Seq(Cells) /\ IsInjective(p.list[l])
            BY OnItsList
        <2>2. once \in Seq(Cells) /\ IsInjective(once) /\ Range(once) = Range(p.list[l]) \ {s}
            BY <2>1, UnlinkedOf
        <2> HIDE DEF once
        <2>3. both \in Seq(Cells) /\ IsInjective(both) /\ Range(both) = Range(once) \ {r}
            BY <2>2, UnlinkedOf
        <2> QED
            BY <2>2, <2>3
    <1>7. /\ whole \in Seq(Cells) /\ IsInjective(whole)
          /\ Range(whole) = Range(p.list[l + 1]) \cup {s}
        BY <1>2, <1>4, OnItsList, Push
    <1> HIDE DEF q, both
    <1>8. /\ q.flag = p.flag
          /\ q.list[l] = both /\ q.list[l + 1] = whole
          /\ \A k \in Levels : k # l /\ k # l + 1 => q.list[k] = p.list[k]
        BY <1>1, <1>5 DEF ListsOf
    <1>9. q \in [list : [Levels -> Seq(Cells)], flag : SUBSET Cells]
        BY <1>1, <1>5, <1>6, <1>7 DEF ListsOf
    <1> HIDE DEF whole
    <1>10. ListsOf(q)
        <2>1. ASSUME NEW k \in Levels
              PROVE  IsInjective(q.list[k]) /\ \A x \in Range(q.list[k]) : Aligned(k, x)
            <3>1. CASE k = l
                BY <1>6, <1>8, <3>1, OnItsList
            <3>2. CASE k = l + 1
                BY <1>2, <1>7, <1>8, <3>2, OnItsList
            <3>3. CASE k # l /\ k # l + 1
                BY <1>8, <3>3, OnItsList
            <3> QED
                BY <3>1, <3>2, <3>3
        <2> QED
            BY <1>9, <2>1 DEF ListsOf
    <1>11. ASSUME NEW c \in Block
           PROVE  c \in Blocks(q) <=>
                     \/ c \in Blocks(p) /\ c # Indexed(l, s) /\ c # Indexed(l, r)
                     \/ c = Indexed(l + 1, s)
        <2> DEFINE x == c[2] * 2^c[1]
        <2>1. /\ c[1] \in Levels
              /\ c \in Blocks(q) <=> x \in Range(q.list[c[1]])
              /\ c \in Blocks(p) <=> x \in Range(p.list[c[1]])
            BY FirstCellOf DEF Blocks
        <2>2. /\ c = Indexed(l + 1, s) <=> c[1] = l + 1 /\ x = s
              /\ c = Indexed(l, s) <=> c[1] = l /\ x = s
              /\ c = Indexed(l, r) <=> c[1] = l /\ x = r
            BY <1>2, <1>3, SameBlock
        <2> HIDE DEF x
        <2>3. CASE c[1] = l
            BY <1>1, <1>6, <1>8, <2>1, <2>2, <2>3
        <2>4. CASE c[1] = l + 1
            BY <1>1, <1>7, <1>8, <2>1, <2>2, <2>4
        <2>5. CASE c[1] # l /\ c[1] # l + 1
            BY <1>8, <2>1, <2>2, <2>5
        <2> QED
            BY <2>3, <2>4, <2>5
    <1>12. Indexed(l + 1, s) \in Block
        BY <1>2, BlockAt
    <1>13. Blocks(q) = (Blocks(p) \ {Indexed(l, s), Indexed(l, r)}) \cup {Indexed(l + 1, s)}
        BY <1>11, <1>12 DEF Blocks
    <1>14. Blocks(q) = (Blocks(p) \ {b, Sets!Buddy(b)}) \cup {Sets!Parent(b)}
        BY <1>2, <1>13
    <1> QED
        BY <1>7, <1>8, <1>10, <1>14 DEF q, s

----------------------------------------------------------------------------
(* The inductive invariant: the lists hold blocks, the bitmap flags the last *)
(* cell of every held block and no other cell, the call that runs has the    *)
(* block it works on, and the sets that the lists stand for are right.       *)

HeldRight ==
    /\ held \subseteq Levels \X Cells
    /\ \A b \in held : Aligned(b[1], b[2])
    /\ pool.flag = {b[2] + 2^b[1] - 1 : b \in held}

CallRight ==
    /\ pc \in [op : {"idle", "split", "merge"}, lv : Levels, arg : Cells]
    /\ pc.op = "split" =>
          /\ pc.arg \in Levels /\ pc.arg <= pc.lv
          /\ pool.list[pc.lv] # <<>>
          /\ \A k \in Levels : pc.arg <= k /\ k < pc.lv => pool.list[k] = <<>>
    /\ pc.op = "merge" => pc.arg \in Range(pool.list[pc.lv])

SetsRight == Sets!TypeOK /\ Sets!Disjoint /\ Sets!Covered /\ Sets!Coalesced

PoolInv == ListsOf(pool) /\ HeldRight /\ CallRight /\ SetsRight

\* A block of a smaller level is smaller.
LEMMA PowLess ==
    ASSUME NEW j \in Levels, NEW k \in Levels, j < k
    PROVE  2^j < 2^k
PROOF
    <1> DEFINE y == 2^j
               x == 2^((k - j) - 1)
    <1>1. j \in Nat /\ k \in Nat /\ (k - j) - 1 \in Nat /\ k - j \in Nat /\ k = j + (k - j)
        BY PoolSizes
    <1>2. y \in Nat /\ y > 0 /\ x \in Nat /\ x > 0
        BY <1>1, PowNext
    <1>3. 2^k = y * 2^(k - j)
        BY <1>1, PowAdd
    <1>4. 2^(k - j) = 2 * x
        <2>1. k - j = ((k - j) - 1) + 1
            BY <1>1
        <2> QED
            BY <1>1, <2>1, PowNext
    <1> HIDE DEF x, y
    <1>5. y < y * (2 * x)
        <2>1. 1 < 2 * x /\ 2 * x \in Nat
            BY <1>2
        <2>2. 1 * y < (2 * x) * y
            BY <1>2, <2>1, Times
        <2> QED
            BY <1>2, <2>2
    <1> QED
        BY <1>3, <1>4, <1>5 DEF y

\* A size is less than the pool, so a call can keep it where an offset goes.
LEMMA LevelsAreCells == Levels \subseteq Cells
PROOF
    <1> DEFINE Bad == {n \in Nat : ~ (n < 2^n)}
    <1>1. Bad = {}
        <2>1. SUFFICES ASSUME Bad # {}
                       PROVE  FALSE
            OBVIOUS
        <2>2. PICK n \in Bad : \A y \in Bad : n <= y
            <3>1. Bad \in SUBSET Nat
                OBVIOUS
            <3> HIDE DEF Bad
            <3> QED
                BY <2>1, <3>1, MinOf
        <2>3. n # 0
            <3>1. 0 < 2^0
                BY PowZero
            <3>2. ~ (n < 2^n)
                BY <2>2
            <3> QED
                BY <3>1, <3>2
        <2> DEFINE m == n - 1
        <2>4. m \in Nat /\ m \notin Bad /\ n = m + 1
            BY <2>2, <2>3
        <2> HIDE DEF m
        <2>5. m < 2^m /\ 2^n = 2 * 2^m /\ 2^m \in Nat
            BY <2>4, PowNext
        <2> QED
            BY <2>2, <2>4, <2>5
    <1>2. ASSUME NEW k \in Levels
          PROVE  k \in Cells
        <2>1. k \in Nat /\ k < Sz /\ 2^Sz \in Nat
            BY PoolSizes
        <2>2. Sz \in Nat /\ Sz < 2^Sz
            BY <1>1, PoolSizes
        <2> QED
            BY <2>1, <2>2 DEF Cells
    <1> QED
        BY <1>2

\* BuddySpec's levels, blocks and memory are those of the pool.
LEMMA SetsNames ==
    /\ Sets!Levels = Levels /\ Sets!Block = Block
    /\ Sets!MemSize = 2^Sz
PROOF
    <1>1. Sets!Levels = Levels /\ Sets!Block = Block
        BY DEF Sets!Levels, Sets!Block, Levels, Block
    <1>2. Sets!MemSize = 2^Sz
        BY PoolSizes DEF Sets!MemSize
    <1> QED
        BY <1>1, <1>2

\* What the sets of BuddySpec are.
LEMMA SetsOf ==
    ASSUME PoolInv
    PROVE  /\ Listed = Blocks(pool)
           /\ pc.op = "idle" => InHand = {}
           /\ pc.op = "split" => InHand = {Indexed(pc.lv, Head(pool.list[pc.lv]))}
           /\ pc.op = "merge" => InHand = {Indexed(pc.lv, pc.arg)}
           /\ InHand \subseteq Blocks(pool)
           /\ Sets!AllBlocks = Blocks(pool) \cup {Indexed(b[1], b[2]) : b \in held}
           /\ Blocks(pool) \cap {Indexed(b[1], b[2]) : b \in held} = {}
           /\ \A b, c \in Sets!AllBlocks : b # c => Sets!Apart(b, c)
PROOF
    <1>1. Listed = Blocks(pool)
        BY ListedBlocks DEF PoolInv, Listed
    <1>2. /\ pc.op = "idle" => InHand = {}
          /\ pc.op = "split" => InHand = {Indexed(pc.lv, Head(pool.list[pc.lv]))}
          /\ pc.op = "merge" => InHand = {Indexed(pc.lv, pc.arg)}
        BY DEF InHand
    <1>3. pc.op \in {"idle", "split", "merge"} /\ pc.lv \in Levels
        BY DEF PoolInv, CallRight
    <1>4. InHand \subseteq Blocks(pool)
        <2>1. CASE pc.op = "idle"
            BY <1>2, <2>1
        <2>2. CASE pc.op = "split"
            <3>1. pool.list[pc.lv] # <<>>
                BY <2>2 DEF PoolInv, CallRight
            <3>2. Head(pool.list[pc.lv]) \in Range(pool.list[pc.lv])
                BY <1>3, <3>1, OnItsList, HeadTail DEF PoolInv
            <3> QED
                BY <1>2, <1>3, <2>2, <3>2, OnItsList DEF PoolInv
        <2>3. CASE pc.op = "merge"
            <3>1. pc.arg \in Range(pool.list[pc.lv])
                BY <2>3 DEF PoolInv, CallRight
            <3> QED
                BY <1>2, <1>3, <2>3, <3>1, OnItsList DEF PoolInv
        <2> QED
            BY <1>3, <2>1, <2>2, <2>3
    <1>5. Sets!AllBlocks = Blocks(pool) \cup {Indexed(b[1], b[2]) : b \in held}
        BY <1>1, <1>4 DEF Sets!AllBlocks
    <1>6. /\ Blocks(pool) \cap {Indexed(b[1], b[2]) : b \in held} = {}
          /\ \A b, c \in Sets!AllBlocks : b # c => Sets!Apart(b, c)
        BY <1>1, <1>4 DEF PoolInv, SetsRight, Sets!Disjoint
    <1> QED
        BY <1>1, <1>2, <1>4, <1>5, <1>6

\* A held block and its cells.
LEMMA HeldAt ==
    ASSUME PoolInv, NEW b \in held
    PROVE  /\ b[1] \in Levels /\ b[2] \in Cells /\ b = <<b[1], b[2]>> /\ Aligned(b[1], b[2])
           /\ Indexed(b[1], b[2]) \in Block /\ Indexed(b[1], b[2])[1] = b[1]
           /\ Sets!Lo(Indexed(b[1], b[2])) = b[2]
           /\ Sets!Hi(Indexed(b[1], b[2])) = b[2] + 2^b[1]
           /\ b[2] \in Nat /\ 2^b[1] \in Nat /\ 2^b[1] > 0 /\ b[2] + 2^b[1] <= 2^Sz
           /\ b[2] + 2^b[1] - 1 \in pool.flag
PROOF
    <1>1. /\ b[1] \in Levels /\ b[2] \in Cells /\ b = <<b[1], b[2]>> /\ Aligned(b[1], b[2])
          /\ b[2] + 2^b[1] - 1 \in pool.flag
        BY DEF PoolInv, HeldRight
    <1>2. b[2] \in Nat
        BY <1>1, PoolSizes DEF Cells
    <1> QED
        BY <1>1, <1>2, BlockAt, PoolSizes

\* No two held blocks meet.
LEMMA HeldApart ==
    ASSUME PoolInv, NEW b \in held, NEW c \in held, b # c
    PROVE  b[2] + 2^b[1] <= c[2] \/ c[2] + 2^c[1] <= b[2]
PROOF
    <1> DEFINE x == Indexed(b[1], b[2])
               y == Indexed(c[1], c[2])
    <1>1. x \in Sets!AllBlocks /\ y \in Sets!AllBlocks
        BY SetsOf
    <1>2. x # y
        <2>1. /\ b = <<b[1], b[2]>> /\ c = <<c[1], c[2]>> /\ x[1] = b[1] /\ y[1] = c[1]
              /\ Sets!Lo(x) = b[2] /\ Sets!Lo(y) = c[2]
            BY HeldAt
        <2> HIDE DEF x, y
        <2> QED
            BY <2>1
    <1>3. Sets!Apart(x, y)
        BY <1>1, <1>2, SetsOf
    <1> QED
        BY <1>3, HeldAt DEF Sets!Apart

\* A held block is known by its first cell.
LEMMA HeldByOffset ==
    ASSUME PoolInv, NEW b \in held, NEW c \in held, b[2] = c[2]
    PROVE  b = c
PROOF
    <1>1. /\ b[2] \in Nat /\ 2^b[1] \in Nat /\ 2^b[1] > 0
          /\ c[2] \in Nat /\ 2^c[1] \in Nat /\ 2^c[1] > 0
        BY HeldAt
    <1>2. b # c => b[2] + 2^b[1] <= c[2] \/ c[2] + 2^c[1] <= b[2]
        BY HeldApart
    <1> QED
        BY <1>1, <1>2

\* The scan of buddy_free2 meets the block's own flag first: a flag before it
\* would be the last cell of a block that shares cells with it.
LEMMA SizesAreRecovered ==
    ASSUME PoolInv, NEW b \in held
    PROVE  b[2] + 2^b[1] - 1 \in pool.flag /\ FlaggedSize(pool, b[2]) = b[1]
PROOF
    <1> DEFINE T == {lv \in Levels : b[2] + 2^lv - 1 \in pool.flag}
    <1>1. /\ b[1] \in Levels /\ b[2] \in Nat /\ 2^b[1] \in Nat /\ 2^b[1] > 0
          /\ b[2] + 2^b[1] - 1 \in pool.flag
        BY HeldAt
    <1>2. ASSUME NEW k \in T, k < b[1]
          PROVE  FALSE
        <2>1. k \in Levels /\ b[2] + 2^k - 1 \in pool.flag /\ 2^k \in Nat /\ 2^k > 0
            BY PoolSizes
        <2>2. PICK c \in held : c[2] + 2^c[1] - 1 = b[2] + 2^k - 1
            BY <2>1 DEF PoolInv, HeldRight
        <2>3. c[2] \in Nat /\ 2^c[1] \in Nat /\ 2^c[1] > 0
            BY HeldAt
        <2>4. 2^k < 2^b[1]
            BY <1>1, <1>2, <2>1, PowLess
        <2>5. c[2] + 2^c[1] = b[2] + 2^k
            BY <1>1, <2>1, <2>2, <2>3
        <2>6. c # b
            BY <1>1, <2>1, <2>4, <2>5
        <2>7. b[2] + 2^b[1] <= c[2] \/ c[2] + 2^c[1] <= b[2]
            BY <2>6, HeldApart
        <2> QED
            BY <1>1, <2>1, <2>3, <2>4, <2>5, <2>7
    <1>3. T \in SUBSET Nat /\ b[1] \in T
        BY <1>1, PoolSizes
    <1> HIDE DEF T
    <1>4. Min(T) \in T /\ \A y \in T : Min(T) <= y
        BY <1>3, MinOf
    <1>5. Min(T) = b[1]
        <2>1. Min(T) <= b[1] /\ ~ (Min(T) < b[1]) /\ Min(T) \in Nat /\ b[1] \in Nat
            BY <1>2, <1>3, <1>4
        <2> QED
            BY <2>1
    <1> QED
        BY <1>1, <1>5 DEF FlaggedSize, T

\* A held block is apart from every listed one.
LEMMA HeldApartListed ==
    ASSUME PoolInv, NEW b \in held, NEW c \in Blocks(pool)
    PROVE  Sets!Apart(Indexed(b[1], b[2]), c) /\ Sets!Apart(c, Indexed(b[1], b[2]))
PROOF
    <1> DEFINE x == Indexed(b[1], b[2])
    <1>1. x \in {Indexed(d[1], d[2]) : d \in held}
        OBVIOUS
    <1>2. x \in Sets!AllBlocks /\ c \in Sets!AllBlocks /\ x # c
        BY <1>1, SetsOf
    <1> QED
        BY <1>2, SetsOf

\* Two listed blocks are apart.
LEMMA ListedApart ==
    ASSUME PoolInv, NEW b \in Blocks(pool), NEW c \in Blocks(pool), b # c
    PROVE  Sets!Apart(b, c)
PROOF
    <1>1. b \in Sets!AllBlocks /\ c \in Sets!AllBlocks
        BY SetsOf
    <1> QED
        BY <1>1, SetsOf

\* FreeRoom of BuddySpecProofs, for the lists.
LEMMA ListedRoom ==
    ASSUME PoolInv, NEW r \in Block, Sets!Hi(r) <= 2^Sz,
           \A b \in held : Sets!Apart(r, Indexed(b[1], b[2])),
           \A b \in InHand : Sets!Apart(r, b)
    PROVE  \E f \in Blocks(pool) \ InHand : r[1] <= f[1] /\ ~ Sets!Apart(r, f)
PROOF
    <1>1. r \in Sets!Block /\ Sets!Hi(r) <= Sets!MemSize
        BY SetsNames
    <1>2. \A b \in {Indexed(d[1], d[2]) : d \in held} \cup InHand : Sets!Apart(r, b)
        OBVIOUS
    <1>3. Sets!TypeOK /\ Sets!Disjoint /\ Sets!Covered /\ Sets!Coalesced
        BY DEF PoolInv, SetsRight
    <1>4. \E f \in Listed \ InHand : r[1] <= f[1] /\ ~ Sets!Apart(r, f)
        BY <1>1, <1>2, <1>3, Sets!FreeRoom, SetsAssumption
    <1> QED
        BY <1>4, SetsOf

\* The bitmap test of _merge succeeds exactly when the buddy is on its list.  No
\* flag is in the parent when both halves are free; and when none is, the buddy's
\* room is free, so it is listed as one block or lies in a larger one, which would
\* hold the block in hand as well.
LEMMA BitmapTest ==
    ASSUME PoolInv, pc.op = "merge"
    PROVE  CanMerge(pool, pc.arg, pc.lv) <=> Sets!Mergeable(Indexed(pc.lv, pc.arg))
PROOF
    <1> DEFINE l == pc.lv
               o == pc.arg
               b == Indexed(l, o)
               g == Sets!Buddy(b)
               p == Sets!Parent(b)
               s == Start(o, l + 1)
    <1>1. /\ l \in Levels /\ o \in Cells /\ Aligned(l, o) /\ b \in Blocks(pool)
          /\ InHand = {b} /\ o \in Range(pool.list[l]) /\ ListsOf(pool)
        <2>1. l \in Levels /\ o \in Range(pool.list[l]) /\ ListsOf(pool)
            BY DEF PoolInv, CallRight
        <2> QED
            BY <2>1, OnItsList, SetsOf
    <1>2. b \in Block /\ b[1] = l /\ l \in Nat
        BY <1>1, BlockAt, PoolSizes
    <1>3. /\ CanMerge(pool, o, l) <=>
                l + 1 < Level /\ \A i \in 0 .. 2^(l + 1) - 1 : s + i \notin pool.flag
          /\ Sets!Mergeable(b) <=> l + 1 \in Levels /\ g \in Blocks(pool) \ InHand
        BY <1>2, SetsNames, SetsOf DEF CanMerge, Sets!Mergeable
    <1>4. l + 1 < Level <=> l + 1 \in Levels
        BY <1>2, PoolSizes DEF Levels
    <1>5. SUFFICES ASSUME l + 1 \in Levels
                   PROVE  (\A i \in 0 .. 2^(l + 1) - 1 : s + i \notin pool.flag)
                          <=> g \in Blocks(pool) \ InHand
        BY <1>3, <1>4
    <1>6. /\ p \in Block /\ p[1] > 0
          /\ \/ b = Sets!LeftHalf(p) /\ g = Sets!RightHalf(p)
             \/ b = Sets!RightHalf(p) /\ g = Sets!LeftHalf(p)
          /\ g \in Block /\ g[1] = l /\ g # b
        BY <1>2, <1>5, SetsNames, Sets!BuddyIsOtherHalf, Sets!BuddyOfBuddy, SetsAssumption
    <1>7. /\ s \in Cells /\ s \in Nat /\ Sets!Lo(p) = s /\ Sets!Hi(p) = s + 2^(l + 1)
          /\ s + 2^(l + 1) <= 2^Sz /\ 2^(l + 1) \in Nat /\ 2^(l + 1) > 0 /\ 2^Sz \in Nat
        <2>1. s \in Cells /\ Aligned(l + 1, s) /\ Indexed(l + 1, s) = p
            BY <1>1, <1>5, ParentAt
        <2> HIDE DEF s, p
        <2> QED
            BY <1>5, <2>1, BlockAt, PoolSizes DEF Cells
    <1>8. /\ Sets!Lo(p) <= Sets!Lo(g) /\ Sets!Hi(g) <= Sets!Hi(p)
          /\ Sets!Lo(g) \in Nat /\ Sets!Hi(g) \in Nat
        BY <1>2, <1>5, <1>6, SetsNames, Sets!InParent, Sets!BlockBounds, SetsAssumption
    <1> HIDE DEF l, o, b, g, p, s
    <1>9. ASSUME g \in Blocks(pool) \ InHand, NEW i \in 0 .. 2^(l + 1) - 1, s + i \in pool.flag
          PROVE  FALSE
        <2>1. PICK c \in held : s + i = c[2] + 2^c[1] - 1
            BY <1>9 DEF PoolInv, HeldRight
        <2> DEFINE x == Indexed(c[1], c[2])
        <2>2. /\ x \in Block /\ Sets!Lo(x) = c[2] /\ Sets!Hi(x) = c[2] + 2^c[1]
              /\ c[2] \in Nat /\ 2^c[1] \in Nat /\ 2^c[1] > 0
            BY HeldAt
        <2>3. Sets!Apart(b, x) /\ Sets!Apart(g, x)
            BY <1>1, <1>9, HeldApartListed
        <2> HIDE DEF x
        <2>4. Sets!Apart(p, x)
            BY <1>6, <2>2, <2>3, SetsNames, Sets!ApartParent, SetsAssumption
        <2> QED
            BY <1>7, <2>1, <2>2, <2>4 DEF Sets!Apart
    <1>10. ASSUME \A i \in 0 .. 2^(l + 1) - 1 : s + i \notin pool.flag
           PROVE  g \in Blocks(pool) \ InHand
        <2>1. ASSUME NEW c \in held
              PROVE  Sets!Apart(g, Indexed(c[1], c[2]))
            <3> DEFINE x == Indexed(c[1], c[2])
            <3>1. SUFFICES ASSUME ~ Sets!Apart(g, x)
                           PROVE  FALSE
                OBVIOUS
            <3>2. /\ x \in Block /\ x[1] = c[1] /\ c[1] \in Levels
                  /\ Sets!Lo(x) = c[2] /\ Sets!Hi(x) = c[2] + 2^c[1]
                  /\ c[2] \in Nat /\ 2^c[1] \in Nat /\ 2^c[1] > 0
                  /\ c[2] + 2^c[1] - 1 \in pool.flag
                BY HeldAt
            <3>3. Sets!Apart(b, x)
                BY <1>1, HeldApartListed
            <3> HIDE DEF x
            <3>4. CASE x[1] <= l
                <4>1. ~ Sets!Apart(x, g)
                    BY <1>6, <3>1, <3>2, SetsNames, Sets!ApartFacts, SetsAssumption
                <4>2. Sets!Lo(g) <= Sets!Lo(x) /\ Sets!Hi(x) <= Sets!Hi(g)
                    BY <1>6, <3>2, <3>4, <4>1, SetsNames, Sets!Nested, SetsAssumption
                <4> DEFINE i == c[2] + 2^c[1] - 1 - s
                <4>3. i \in 0 .. 2^(l + 1) - 1 /\ s + i = c[2] + 2^c[1] - 1
                    BY <1>7, <1>8, <3>2, <4>2
                <4> QED
                    BY <1>10, <3>2, <4>3
            <3>5. CASE l < x[1]
                BY <1>2, <1>5, <3>1, <3>2, <3>3, <3>5, SetsNames, Sets!LargerHoldsBoth,
                   SetsAssumption DEF g
            <3> QED
                BY <1>2, <3>2, <3>4, <3>5, PoolSizes
        <2>2. \A c \in InHand : Sets!Apart(g, c)
            <3>1. Sets!Apart(b, g) \/ Sets!Apart(g, b)
                BY <1>6, SetsNames, Sets!ApartHalves, SetsAssumption
            <3>2. Sets!Apart(g, b)
                BY <1>2, <1>6, <3>1, SetsNames, Sets!ApartFacts, SetsAssumption
            <3> QED
                BY <1>1, <3>2
        <2>3. Sets!Hi(g) <= 2^Sz
            BY <1>7, <1>8
        <2>4. PICK f \in Blocks(pool) \ InHand : l <= f[1] /\ ~ Sets!Apart(g, f)
            BY <1>6, <2>1, <2>2, <2>3, ListedRoom
        <2>5. f \in Block /\ f[1] \in Nat /\ f # b
            BY <1>1, <2>4, PoolSizes DEF Blocks, Block
        <2>6. CASE f[1] = l
            <3>1. g = f
                BY <1>6, <2>4, <2>5, <2>6, SetsNames, Sets!SameSize, SetsAssumption
            <3> QED
                BY <2>4, <3>1
        <2>7. CASE l < f[1]
            <3>1. ~ Sets!Apart(b, f)
                BY <1>2, <1>5, <2>4, <2>5, <2>7, SetsNames, Sets!LargerHoldsBoth,
                   SetsAssumption DEF g
            <3>2. Sets!Apart(b, f)
                BY <1>1, <2>4, <2>5, ListedApart
            <3> QED
                BY <3>1, <3>2
        <2> QED
            BY <1>2, <2>4, <2>5, <2>6, <2>7
    <1> QED
        BY <1>9, <1>10

\* An allocation finds a block when there is room for it.
LEMMA SourceLevelOf ==
    ASSUME NEW p, NEW sz \in Levels
    PROVE  /\ SourceLevel(p, sz) = -1 => \A k \in Levels : sz <= k => p.list[k] = <<>>
           /\ SourceLevel(p, sz) # -1 =>
                 /\ SourceLevel(p, sz) \in Levels /\ sz <= SourceLevel(p, sz)
                 /\ p.list[SourceLevel(p, sz)] # <<>>
                 /\ \A k \in Levels : sz <= k /\ k < SourceLevel(p, sz) => p.list[k] = <<>>
PROOF
    <1> DEFINE T == {k \in sz .. Level - 1 : p.list[k] # <<>>}
    <1>1. T \in SUBSET Nat /\ sz \in Nat /\ Level \in Nat
        <2>1. sz \in Nat /\ Level \in Nat
            BY PoolSizes
        <2>2. sz .. Level - 1 \subseteq Nat
            BY <2>1
        <2> QED
            BY <2>1, <2>2
    <1>2. \A k \in Levels : sz <= k => k \in sz .. Level - 1
        BY PoolSizes
    <1>3. SourceLevel(p, sz) = IF T = {} THEN -1 ELSE Min(T)
        BY DEF SourceLevel
    <1>4. CASE T = {}
        <2>1. SourceLevel(p, sz) = -1
            BY <1>3, <1>4
        <2> QED
            BY <1>2, <1>4, <2>1
    <1>5. CASE T # {}
        <2> DEFINE n == Min(T)
        <2>1. n \in T /\ \A y \in T : n <= y
            <3> HIDE DEF T
            <3> QED
                BY <1>1, <1>5, MinOf
        <2>2. SourceLevel(p, sz) = n
            BY <1>3, <1>5
        <2> HIDE DEF n
        <2>3. n \in Levels /\ n \in Nat /\ sz <= n /\ p.list[n] # <<>> /\ n # -1
            BY <1>1, <2>1 DEF Levels
        <2>4. ASSUME NEW k \in Levels, sz <= k, k < n
              PROVE  p.list[k] = <<>>
            <3>1. k \in Nat /\ k \in sz .. Level - 1 /\ ~ (n <= k)
                BY <1>2, <2>3, <2>4, PoolSizes
            <3> QED
                BY <2>1, <3>1
        <2> QED
            BY <2>2, <2>3, <2>4
    <1> QED
        BY <1>4, <1>5

\* An allocation that finds nothing has no room: FreeRoom, with an empty hand.
LEMMA RoomIsFound == PoolInv => FailsOnlyWhenFull
PROOF
    <1> SUFFICES ASSUME PoolInv, pc.op = "idle", NEW sz \in Levels, SourceLevel(pool, sz) = -1,
                        NEW i \in 0 .. 2^(Sz - sz) - 1,
                        BlockCells(sz, i * 2^sz) \cap Occupied = {}
                 PROVE  FALSE
        BY DEF FailsOnlyWhenFull
    <1> DEFINE r == <<sz, i>>
               o == i * 2^sz
    <1>1. 2^sz \in Nat /\ 2^sz > 0 /\ i \in Nat /\ r \in Block /\ sz \in Nat
        BY PoolSizes DEF Block
    <1>2. o \in Nat /\ Sets!Lo(r) = o /\ Sets!Hi(r) = o + 2^sz
        BY <1>1 DEF Sets!Lo, Sets!Hi
    <1>3. o + 2^sz <= 2^Sz
        <2> DEFINE n == 2^(Sz - sz)
                   z == 2^sz
        <2>1. Sz - sz \in Nat /\ Sz = (Sz - sz) + sz
            BY <1>1, PoolSizes
        <2>2. n \in Nat /\ 2^Sz = n * z
            BY <1>1, <2>1, PowNext, PowAdd
        <2>3. i + 1 \in Nat /\ ~ (n < i + 1)
            BY <1>1, <2>2
        <2> HIDE DEF n, z
        <2>4. z \in Nat /\ z > 0
            BY <1>1 DEF z
        <2>5. ~ (n * z < (i + 1) * z) /\ (i + 1) * z = i * z + z /\ n * z \in Nat /\ (i + 1) * z \in Nat
            BY <1>1, <2>2, <2>3, <2>4, Times
        <2> QED
            BY <2>2, <2>5 DEF z
    <1> HIDE DEF r, o
    <1>4. ASSUME NEW c \in held
          PROVE  Sets!Apart(r, Indexed(c[1], c[2]))
        <2> DEFINE x == Indexed(c[1], c[2])
        <2>1. /\ Sets!Lo(x) = c[2] /\ Sets!Hi(x) = c[2] + 2^c[1]
              /\ c[2] \in Nat /\ 2^c[1] \in Nat /\ 2^c[1] > 0
            BY HeldAt
        <2> HIDE DEF x
        <2>2. \A y \in Int : ~ (y \in o .. o + 2^sz - 1 /\ y \in c[2] .. c[2] + 2^c[1] - 1)
            BY DEF BlockCells, Occupied, o
        <2>3. o + 2^sz <= c[2] \/ c[2] + 2^c[1] <= o
            <3>1. CASE o <= c[2]
                <4>1. c[2] \in c[2] .. c[2] + 2^c[1] - 1
                    BY <2>1
                <4> QED
                    BY <1>1, <1>2, <2>1, <2>2, <3>1, <4>1
            <3>2. CASE c[2] < o
                <4>1. o \in o .. o + 2^sz - 1
                    BY <1>1, <1>2
                <4> QED
                    BY <1>1, <1>2, <2>1, <2>2, <3>2, <4>1
            <3> QED
                BY <1>2, <2>1, <3>1, <3>2
        <2> QED
            BY <1>2, <2>1, <2>3 DEF Sets!Apart, x
    <1>5. InHand = {}
        BY SetsOf
    <1>6. PICK f \in Blocks(pool) : r[1] <= f[1]
        BY <1>1, <1>2, <1>3, <1>4, <1>5, ListedRoom
    <1>7. f[1] \in Levels /\ sz <= f[1] /\ pool.list[f[1]] # <<>>
        <2>1. f[1] \in Levels /\ f[2] * 2^f[1] \in Range(pool.list[f[1]])
            BY FirstCellOf DEF Blocks
        <2>2. pool.list[f[1]] \in Seq(Cells)
            BY <2>1 DEF PoolInv, ListsOf
        <2> QED
            BY <1>6, <2>1, <2>2, ListFacts DEF r
    <1> QED
        BY <1>7, SourceLevelOf

----------------------------------------------------------------------------
(* buddy_init, and one lemma per frame: it keeps the lists, the bitmap and  *)
(* the call right, and it is the action of BuddySpec of that name.          *)

\* buddy_init puts the blocks of the largest size on their list.
LEMMA PoolInv_Init == Init => Sets!Init /\ ListsOf(pool) /\ HeldRight /\ CallRight
PROOF
    <1> SUFFICES ASSUME Init
                 PROVE  Sets!Init /\ ListsOf(pool) /\ HeldRight /\ CallRight
        OBVIOUS
    <1> DEFINE t == Level - 1
               n == 2^(Sz - Level + 1)
               z == 2^t
               top == [i \in 1 .. n |-> (i - 1) * z]
    <1>1. /\ t \in Levels /\ n \in Nat /\ n > 0 /\ z \in Nat /\ z > 0
          /\ 2^Sz \in Nat /\ 2^Sz = n * z
        BY PoolSizes
    <1>2. pool = [list |-> [lv \in Levels |-> IF lv = t THEN top ELSE <<>>], flag |-> {}]
        <2>1. ASSUME NEW lv \in Levels, lv = t
              PROVE  [i \in 1 .. 2^(Sz - Level + 1) |-> (i - 1) * 2^lv] = top
            BY <2>1
        <2> QED
            BY <2>1 DEF Init, buddy_init
    <1>3. pool.list[t] = top /\ pool.flag = {} /\ \A lv \in Levels : lv # t => pool.list[lv] = <<>>
        BY <1>1, <1>2
    <1> HIDE DEF t, n, z
    <1>4. ASSUME NEW i \in 1 .. n
          PROVE  top[i] = (i - 1) * z /\ top[i] \in Cells
        <2>1. i - 1 \in Nat /\ i - 1 < n /\ top[i] = (i - 1) * z
            BY <1>1
        <2>2. (i - 1) * z \in Nat /\ (i - 1) * z < n * z
            BY <1>1, <2>1, Times
        <2> QED
            BY <1>1, <2>1, <2>2 DEF Cells
    <1>5. top \in Seq(Cells) /\ Len(top) = n
        <2>1. top \in [1 .. n -> Cells]
            BY <1>4
        <2>2. top \in Seq(Cells) /\ DOMAIN top = 1 .. n
            BY <1>1, <2>1, SeqDef
        <2>3. Len(top) = n
            BY <1>1, <2>2, LenProperties
        <2> QED
            BY <2>2, <2>3
    <1> HIDE DEF top
    <1>6. IsInjective(top)
        <2>1. ASSUME NEW i \in 1 .. Len(top), NEW j \in 1 .. Len(top), top[i] = top[j]
              PROVE  i = j
            <3>0. i \in 1 .. n /\ j \in 1 .. n
                BY <1>5
            <3>1. i - 1 \in Nat /\ j - 1 \in Nat /\ (i - 1) * z = (j - 1) * z
                BY <1>1, <1>4, <2>1, <3>0
            <3>2. i - 1 = j - 1
                BY <1>1, <3>1, Times
            <3> QED
                BY <1>1, <1>5, <3>2
        <2> QED
            BY <1>5, <2>1, ListFacts
    <1>7. \A x : x \in Range(top) <=> \E k \in 0 .. n - 1 : x = k * z
        <2>1. ASSUME NEW i \in 1 .. n
              PROVE  i - 1 \in 0 .. n - 1
            BY <1>1
        <2>2. ASSUME NEW k \in 0 .. n - 1
              PROVE  k + 1 \in 1 .. n /\ (k + 1) - 1 = k
            BY <1>1
        <2> QED
            BY <1>4, <1>5, <2>1, <2>2, ListFacts
    <1>8. <<>> \in Seq(Cells) /\ Range(<<>>) = {} /\ IsInjective(<<>>)
        BY DEF Range, IsInjective
    <1>9. \A x \in Range(top) : Aligned(t, x)
        BY <1>1, <1>7 DEF Aligned, z
    <1>10. ListsOf(pool)
        BY <1>1, <1>2, <1>3, <1>5, <1>6, <1>8, <1>9 DEF ListsOf
    <1>11. held = {} /\ HeldRight
        BY <1>3 DEF Init, HeldRight
    <1>12. 0 \in Levels /\ 0 \in Cells
        BY <1>1, PoolSizes DEF Levels, Cells
    <1>13. pc = Idle /\ CallRight
        BY <1>12 DEF Init, Idle, CallRight
    <1>14. ASSUME NEW b \in Block
           PROVE  b \in Blocks(pool) <=> b \in {<<t, i>> : i \in 0 .. n - 1}
        <2>1. b[1] \in Levels /\ b[2] \in Nat /\ b = <<b[1], b[2]>>
            BY DEF Block
        <2>2. CASE b[1] = t
            <3>1. b \in Blocks(pool) <=> \E k \in 0 .. n - 1 : b[2] * z = k * z
                BY <1>3, <1>7, <2>2 DEF Blocks, z
            <3>2. \A k \in 0 .. n - 1 : k \in Nat /\ (b[2] * z = k * z <=> b[2] = k)
                BY <1>1, <2>1, Times
            <3> QED
                BY <2>1, <2>2, <3>1, <3>2
        <2>3. CASE b[1] # t
            BY <1>3, <1>8, <2>1, <2>3 DEF Blocks
        <2> QED
            BY <2>2, <2>3
    <1>15. {<<t, i>> : i \in 0 .. n - 1} \subseteq Block
        BY <1>1 DEF Block
    <1>16. Blocks(pool) = {<<t, i>> : i \in 0 .. n - 1}
        BY <1>14, <1>15 DEF Blocks
    <1>17. Listed = Blocks(pool) /\ InHand = {}
        BY <1>10, <1>13, ListedBlocks DEF Listed, InHand, Idle
    <1>18. Listed \ InHand = {<<Level - 1, i>> : i \in 0 .. 2^(Sz - Level + 1) - 1}
        BY <1>16, <1>17 DEF t, n
    <1> QED
        BY <1>10, <1>11, <1>13, <1>17, <1>18 DEF Sets!Init, Idle

\* The scan starts at a level that has a block, and no smaller one that would do has.
LEMMA AllocBegins_Step ==
    ASSUME PoolInv, NEW sz \in Levels, AllocBegins(sz)
    PROVE  /\ ListsOf(pool') /\ HeldRight' /\ CallRight'
           /\ \E b \in Listed \ InHand : Sets!BeginAlloc(sz, b)
PROOF
    <1> DEFINE l == SourceLevel(pool, sz)
               h == Head(pool.list[l])
               b == Indexed(l, h)
    <1>1. /\ pc.op = "idle" /\ l # -1 /\ pool' = pool /\ held' = held
          /\ pc' = [op |-> "split", lv |-> l, arg |-> sz]
        BY DEF AllocBegins
    <1>2. /\ l \in Levels /\ sz <= l /\ pool.list[l] # <<>>
          /\ \A k \in Levels : sz <= k /\ k < l => pool.list[k] = <<>>
        BY <1>1, SourceLevelOf
    <1> HIDE DEF l
    <1>3. h \in Range(pool.list[l]) /\ h \in Cells
        BY <1>2, OnItsList, HeadTail DEF PoolInv
    <1>4. Aligned(l, h) /\ b \in Blocks(pool) /\ b[1] = l
        BY <1>2, <1>3, OnItsList, BlockAt DEF PoolInv
    <1>5. ListsOf(pool') /\ HeldRight'
        BY <1>1 DEF PoolInv, HeldRight
    <1>6. CallRight'
        BY <1>1, <1>2, LevelsAreCells DEF CallRight
    <1>7. Listed = Blocks(pool) /\ Listed' = Blocks(pool) /\ InHand = {} /\ InHand' = {b}
        <2>1. Listed' = Listed
            BY <1>1 DEF Listed
        <2>2. InHand' = {b}
            BY <1>1 DEF InHand
        <2> QED
            BY <1>1, <2>1, <2>2, SetsOf
    <1> HIDE DEF b
    <1>8. ASSUME NEW c \in Blocks(pool), c[1] >= sz
          PROVE  l <= c[1]
        <2>1. c[1] \in Levels /\ c[2] * 2^c[1] \in Range(pool.list[c[1]])
            BY FirstCellOf DEF Blocks
        <2>2. pool.list[c[1]] # <<>>
            BY <2>1, ListFacts DEF PoolInv, ListsOf
        <2>3. ~ (c[1] < l) /\ c[1] \in Nat /\ l \in Nat
            BY <1>2, <1>8, <2>1, <2>2, PoolSizes
        <2> QED
            BY <2>3
    <1>9. Sets!BeginAlloc(sz, b)
        BY <1>1, <1>2, <1>4, <1>7, <1>8 DEF Sets!BeginAlloc, Sets!StartsFrom
    <1> QED
        BY <1>4, <1>5, <1>6, <1>7, <1>9

\* One frame of _split_buddy.
LEMMA SplitFrame_Step ==
    ASSUME PoolInv, SplitFrame
    PROVE  /\ ListsOf(pool') /\ HeldRight' /\ CallRight'
           /\ \E b \in InHand : Sets!Split(b)
PROOF
    <1> DEFINE l == pc.lv - 1
               h == Head(pool.list[l + 1])
               b == Indexed(l + 1, h)
               x == Indexed(l, h)
               y == Indexed(l, h + 2^l)
    <1>1. /\ pc.op = "split" /\ pc.lv > pc.arg /\ held' = held
          /\ pool' = SplitLevel(pool, l) /\ pc' = [pc EXCEPT !.lv = @ - 1]
        BY DEF SplitFrame
    <1>2. /\ pc \in [op : {"idle", "split", "merge"}, lv : Levels, arg : Cells]
          /\ pc.arg \in Levels /\ pool.list[pc.lv] # <<>>
          /\ \A k \in Levels : pc.arg <= k /\ k < pc.lv => pool.list[k] = <<>>
        BY <1>1 DEF PoolInv, CallRight
    <1>3. /\ l \in Levels /\ l + 1 = pc.lv /\ l + 1 \in Levels /\ pc.arg <= l /\ l < pc.lv
          /\ l # l + 1 /\ 2^l \in Nat /\ 2^l > 0
        <2>1. pc.lv \in Nat /\ pc.arg \in Nat /\ pc.lv \in Levels
            BY <1>2, PoolSizes
        <2>2. l \in Levels /\ l + 1 = pc.lv
            BY <1>1, <2>1, PoolSizes DEF Levels
        <2> QED
            BY <1>1, <2>1, <2>2, PoolSizes
    <1>4. pool.list[l] = <<>> /\ pool.list[l + 1] # <<>>
        BY <1>2, <1>3
    <1>5. pc' = [op |-> "split", lv |-> l, arg |-> pc.arg]
        BY <1>1, <1>2
    <1> HIDE DEF l
    <1>6. /\ h \in Cells /\ Aligned(l + 1, h) /\ b \in Blocks(pool)
          /\ ListsOf(pool') /\ pool'.flag = pool.flag
          /\ pool'.list[l] # <<>> /\ Head(pool'.list[l]) = h
          /\ \A k \in Levels : k # l /\ k # l + 1 => pool'.list[k] = pool.list[k]
          /\ Blocks(pool') = (Blocks(pool) \ {b}) \cup {x, y}
        BY <1>1, <1>3, <1>4, SplitOf DEF PoolInv
    <1>7. /\ Aligned(l, h) /\ h + 2^l \in Cells /\ Aligned(l, h + 2^l)
          /\ Sets!LeftHalf(b) = x /\ Sets!RightHalf(b) = y
        BY <1>3, <1>6, HalvesAt
    <1>8. HeldRight'
        BY <1>1, <1>6 DEF PoolInv, HeldRight
    <1>9. CallRight'
        <2>1. ASSUME NEW k \in Levels, pc.arg <= k, k < l
              PROVE  pool'.list[k] = <<>>
            <3>1. k \in Nat /\ l \in Nat /\ k < l + 1
                BY <1>3, <2>1, PoolSizes
            <3> QED
                BY <1>2, <1>3, <1>6, <2>1, <3>1
        <2> QED
            BY <1>2, <1>3, <1>5, <1>6, <2>1 DEF CallRight
    <1>10. /\ Listed = Blocks(pool) /\ InHand = {b}
           /\ Listed' = Blocks(pool') /\ InHand' = {x}
        <2>1. Listed' = Blocks(pool')
            BY <1>6, ListedBlocks DEF Listed
        <2>2. InHand' = {x}
            BY <1>5, <1>6 DEF InHand
        <2> QED
            BY <1>1, <1>3, <2>1, <2>2, SetsOf
    <1>11. x \notin Blocks(pool) /\ x # y /\ b[1] = l + 1
        <2>1. Range(pool.list[l]) = {}
            BY <1>3, <1>4, OnItsList, ListFacts DEF PoolInv
        <2>2. x \notin Blocks(pool)
            BY <1>3, <1>6, <1>7, <2>1, OnItsList DEF PoolInv
        <2> HIDE DEF h
        <2>3. x \in Block /\ Sets!Lo(x) = h /\ Sets!Lo(y) = h + 2^l /\ b[1] = l + 1 /\ h \in Nat
            <3>1. h \in Nat
                BY <1>6, PoolSizes DEF Cells
            <3>2. x \in Block /\ Sets!Lo(x) = h
                BY <1>3, <1>6, <1>7, BlockAt
            <3>3. Sets!Lo(y) = h + 2^l
                BY <1>3, <1>7, BlockAt
            <3>4. b[1] = l + 1
                BY <1>3, <1>6, BlockAt
            <3> QED
                BY <3>1, <3>2, <3>3, <3>4
        <2> HIDE DEF x, y, b
        <2>4. x # y
            BY <1>3, <2>3
        <2> QED
            BY <2>2, <2>3, <2>4
    <1> HIDE DEF x, y, b, h
    <1>12. (Listed \ InHand)' = (Listed \ InHand) \cup {y}
        BY <1>6, <1>10, <1>11
    <1>13. pc.arg \in Nat /\ b[1] > pc.arg
        BY <1>1, <1>2, <1>3, <1>11, PoolSizes
    <1>14. Sets!Split(b)
        BY <1>1, <1>5, <1>7, <1>10, <1>12, <1>13 DEF Sets!Split
    <1> QED
        BY <1>6, <1>8, <1>9, <1>10, <1>14

\* The end of buddy_alloc2.
LEMMA AllocReturns_Step ==
    ASSUME PoolInv, AllocReturns
    PROVE  /\ ListsOf(pool') /\ HeldRight' /\ CallRight'
           /\ \E b \in InHand : Sets!EndAlloc(b)
PROOF
    <1> DEFINE l == pc.lv
               h == Head(pool.list[l])
               b == Indexed(l, h)
    <1>1. /\ pc.op = "split" /\ l = pc.arg /\ pool' = TakeHead(pool, l)
          /\ held' = held \cup {<<l, h>>} /\ pc' = Idle
        BY DEF AllocReturns
    <1>2. l \in Levels /\ pool.list[l] # <<>>
        BY <1>1 DEF PoolInv, CallRight
    <1>3. Listed = Blocks(pool) /\ InHand = {b}
        BY <1>1, SetsOf
    <1> HIDE DEF l
    <1>4. /\ h \in Cells /\ Aligned(l, h) /\ b \in Blocks(pool)
          /\ ListsOf(pool') /\ pool'.flag = pool.flag \cup {h + 2^l - 1}
          /\ Blocks(pool') = Blocks(pool) \ {b}
        BY <1>1, <1>2, TakeOf DEF PoolInv
    <1>5. b[1] = l
        BY <1>2, <1>4, BlockAt
    <1> DEFINE H == {Indexed(c[1], c[2]) : c \in held}
               d == <<l, h>>
    <1> HIDE DEF h
    <1>0. d[1] = l /\ d[2] = h /\ held' = held \cup {d}
        BY <1>1
    <1> HIDE DEF d
    <1>6. {Indexed(c[1], c[2]) : c \in held'} = H \cup {b}
        <2>1. {Indexed(c[1], c[2]) : c \in held \cup {d}} = H \cup {Indexed(d[1], d[2])}
            OBVIOUS
        <2> QED
            BY <1>0, <2>1
    <1>7. {c[2] + 2^c[1] - 1 : c \in held'} = pool.flag \cup {h + 2^l - 1}
        <2>1. {c[2] + 2^c[1] - 1 : c \in held \cup {d}}
                  = {c[2] + 2^c[1] - 1 : c \in held} \cup {d[2] + 2^d[1] - 1}
            OBVIOUS
        <2> QED
            BY <1>0, <2>1 DEF PoolInv, HeldRight
    <1>8. HeldRight'
        BY <1>1, <1>2, <1>4, <1>7 DEF PoolInv, HeldRight
    <1>9. 0 \in Levels /\ 0 \in Cells
        BY PoolSizes DEF Levels, Cells
    <1>10. CallRight'
        BY <1>1, <1>9 DEF CallRight, Idle
    <1>11. Listed' = Blocks(pool') /\ InHand' = {}
        BY <1>1, <1>4, ListedBlocks DEF Listed, InHand, Idle
    <1> HIDE DEF b, H
    <1>12. (Listed \ InHand)' = Listed \ InHand
        BY <1>3, <1>4, <1>11
    <1>13. Sets!EndAlloc(b)
        BY <1>1, <1>3, <1>5, <1>6, <1>11, <1>12 DEF Sets!EndAlloc, Idle, H
    <1> QED
        BY <1>3, <1>4, <1>8, <1>10, <1>13

\* buddy_free2 finds the size, clears the flag and lists the block.
LEMMA FreeBegins_Step ==
    ASSUME PoolInv, NEW e \in held, FreeBegins(e[2])
    PROVE  /\ ListsOf(pool') /\ HeldRight' /\ CallRight'
           /\ \E b \in {Indexed(c[1], c[2]) : c \in held} : Sets!BeginFree(b)
PROOF
    <1> DEFINE l == e[1]
               a == e[2]
               b == Indexed(l, a)
               H == {Indexed(c[1], c[2]) : c \in held}
    <1>1. FlaggedSize(pool, a) = l /\ a + 2^l - 1 \in pool.flag
        BY SizesAreRecovered
    <1>2. /\ pc.op = "idle" /\ pool' = ReturnBlock(pool, a, l)
          /\ pc' = [op |-> "merge", lv |-> l, arg |-> a]
          /\ held' = {c \in held : c[2] # a}
        BY <1>1 DEF FreeBegins
    <1>3. held' = held \ {e}
        <2>1. \A c \in held : c[2] = a <=> c = e
            BY HeldByOffset
        <2> QED
            BY <1>2, <2>1
    <1>4. l \in Levels /\ a \in Cells /\ Aligned(l, a) /\ b \in H
        BY HeldAt
    <1>5. b \notin Blocks(pool) /\ Listed = Blocks(pool) /\ InHand = {}
        BY <1>2, <1>4, SetsOf
    <1>6. /\ ListsOf(pool') /\ pool'.flag = pool.flag \ {a + 2^l - 1}
          /\ a \in Range(pool'.list[l])
          /\ Blocks(pool') = Blocks(pool) \cup {b}
        BY <1>2, <1>4, <1>5, ReturnOf DEF PoolInv
    <1>7. ASSUME NEW c \in held, c # e
          PROVE  c[2] + 2^c[1] - 1 # a + 2^l - 1 /\ Indexed(c[1], c[2]) # b
        <2>1. /\ c[2] \in Nat /\ 2^c[1] \in Nat /\ 2^c[1] > 0
              /\ a \in Nat /\ 2^l \in Nat /\ 2^l > 0
              /\ Sets!Lo(Indexed(c[1], c[2])) = c[2] /\ Sets!Lo(b) = a
            BY HeldAt
        <2>2. c[2] + 2^c[1] <= a \/ a + 2^l <= c[2]
            BY <1>7, HeldApart
        <2>3. c[2] # a
            BY <1>7, HeldByOffset
        <2>4. Indexed(c[1], c[2]) # b
            <3> HIDE DEF a, b
            <3> QED
                BY <2>1, <2>3
        <2>5. c[2] + 2^c[1] - 1 # a + 2^l - 1
            <3> HIDE DEF a, l
            <3> QED
                BY <2>1, <2>2
        <2> QED
            BY <2>4, <2>5
    <1> DEFINE LastCell(c) == c[2] + 2^c[1] - 1
    <1>8. {LastCell(c) : c \in held \ {e}} = {LastCell(c) : c \in held} \ {LastCell(e)}
        <2>1. \A c \in held \ {e} : LastCell(c) # LastCell(e)
            BY <1>7
        <2> HIDE DEF LastCell
        <2> QED
            BY <2>1
    <1>9. HeldRight'
        <2>1. held' \subseteq Levels \X Cells /\ \A c \in held' : Aligned(c[1], c[2])
            BY <1>3 DEF PoolInv, HeldRight
        <2>2. pool'.flag = {LastCell(c) : c \in held'}
            BY <1>3, <1>6, <1>8 DEF PoolInv, HeldRight
        <2> QED
            BY <2>1, <2>2 DEF HeldRight
    <1>10. CallRight'
        BY <1>2, <1>4, <1>6 DEF CallRight
    <1>11. {Indexed(c[1], c[2]) : c \in held'} = H \ {b}
        <2>1. {Indexed(c[1], c[2]) : c \in held \ {e}} = H \ {b}
            <3>1. ASSUME NEW x \in H, x # b
                  PROVE  x \in {Indexed(c[1], c[2]) : c \in held \ {e}}
                <4>1. PICK c \in held : x = Indexed(c[1], c[2])
                    OBVIOUS
                <4>2. c # e
                    BY <3>1, <4>1
                <4> QED
                    BY <4>1, <4>2
            <3>2. ASSUME NEW x \in {Indexed(c[1], c[2]) : c \in held \ {e}}
                  PROVE  x \in H /\ x # b
                <4>1. PICK c \in held \ {e} : x = Indexed(c[1], c[2])
                    OBVIOUS
                <4> QED
                    BY <1>7, <4>1
            <3> QED
                BY <3>1, <3>2
        <2> QED
            BY <1>3, <2>1
    <1>12. Listed' = Blocks(pool') /\ InHand' = {b}
        BY <1>2, <1>6, ListedBlocks DEF Listed, InHand
    <1> HIDE DEF b, H
    <1>13. (Listed \ InHand)' = Listed \ InHand
        BY <1>5, <1>6, <1>12
    <1>14. Sets!BeginFree(b)
        BY <1>2, <1>4, <1>11, <1>12, <1>13 DEF Sets!BeginFree, H
    <1> QED
        BY <1>4, <1>6, <1>9, <1>10, <1>14 DEF H

\* One frame of _merge.
LEMMA MergeFrame_Step ==
    ASSUME PoolInv, MergeFrame
    PROVE  /\ ListsOf(pool') /\ HeldRight' /\ CallRight'
           /\ \E b \in InHand : Sets!Merge(b)
PROOF
    <1> DEFINE l == pc.lv
               o == pc.arg
               b == Indexed(l, o)
               g == Sets!Buddy(b)
               p == Sets!Parent(b)
    <1>1. /\ pc.op = "merge" /\ CanMerge(pool, o, l) /\ held' = held
          /\ pool' = MergeLevel(pool, o, l)
          /\ pc' = [pc EXCEPT !.lv = @ + 1, !.arg = Start(@, pc.lv + 1)]
        BY DEF MergeFrame
    <1>2. /\ l \in Levels /\ o \in Cells /\ o \in Range(pool.list[l])
          /\ pc \in [op : {"idle", "split", "merge"}, lv : Levels, arg : Cells]
        BY <1>1 DEF PoolInv, CallRight
    <1>3. pc' = [op |-> "merge", lv |-> l + 1, arg |-> Start(o, l + 1)]
        BY <1>1, <1>2
    <1>4. Listed = Blocks(pool) /\ InHand = {b} /\ Sets!Mergeable(b)
        BY <1>1, SetsOf, BitmapTest
    <1>5. l + 1 \in Levels /\ l \in Nat
        BY <1>1, <1>2, PoolSizes DEF CanMerge, Levels
    <1> HIDE DEF l, o
    <1>6. Aligned(l, o) /\ b \in Blocks(pool) /\ b \in Block /\ b[1] = l
        BY <1>2, OnItsList, BlockAt DEF PoolInv
    <1>7. /\ Start(o, l + 1) \in Cells /\ Indexed(l + 1, Start(o, l + 1)) = p
        BY <1>2, <1>5, <1>6, ParentAt
    <1>8. /\ p \in Block /\ p[1] > 0 /\ p[1] = l + 1
          /\ b = Sets!LeftHalf(p) \/ b = Sets!RightHalf(p)
        BY <1>5, <1>6, SetsNames, Sets!BuddyIsOtherHalf, SetsAssumption DEF Sets!Parent
    <1> HIDE DEF b, g, p
    <1>9. p \notin Blocks(pool) /\ p # b
        <2>1. p # b
            BY <1>5, <1>6, <1>8
        <2>2. ~ Sets!Apart(p, b)
            BY <1>8, SetsNames, Sets!ApartHalves, SetsAssumption
        <2>3. p \in Blocks(pool) => Sets!Apart(p, b)
            BY <1>6, <2>1, ListedApart
        <2> QED
            BY <2>1, <2>2, <2>3
    <1>10. /\ ListsOf(pool') /\ pool'.flag = pool.flag
           /\ Start(o, l + 1) \in Range(pool'.list[l + 1])
           /\ Blocks(pool') = (Blocks(pool) \ {b, g}) \cup {p}
        BY <1>1, <1>2, <1>5, <1>6, <1>9, MergeOf DEF PoolInv, b, g, p
    <1>11. HeldRight'
        BY <1>1, <1>10 DEF PoolInv, HeldRight
    <1>12. CallRight'
        BY <1>3, <1>5, <1>7, <1>10 DEF CallRight
    <1>13. Listed' = Blocks(pool') /\ InHand' = {p}
        BY <1>3, <1>7, <1>10, ListedBlocks DEF Listed, InHand
    <1>14. (Listed \ InHand)' = (Listed \ InHand) \ {g}
        BY <1>4, <1>9, <1>10, <1>13
    <1>15. Sets!Merge(b)
        BY <1>1, <1>3, <1>4, <1>13, <1>14 DEF Sets!Merge, g, p
    <1> QED
        BY <1>4, <1>10, <1>11, <1>12, <1>15

\* The end of _merge.
LEMMA FreeReturns_Step ==
    ASSUME PoolInv, FreeReturns
    PROVE  /\ ListsOf(pool') /\ HeldRight' /\ CallRight'
           /\ \E b \in InHand : Sets!EndFree(b)
PROOF
    <1> DEFINE b == Indexed(pc.lv, pc.arg)
    <1>1. /\ pc.op = "merge" /\ ~ CanMerge(pool, pc.arg, pc.lv)
          /\ pc' = Idle /\ pool' = pool /\ held' = held
        BY DEF FreeReturns
    <1>2. Listed = Blocks(pool) /\ InHand = {b} /\ b \in Blocks(pool) /\ ~ Sets!Mergeable(b)
        BY <1>1, SetsOf, BitmapTest
    <1>3. ListsOf(pool') /\ HeldRight'
        BY <1>1 DEF PoolInv, HeldRight
    <1>4. 0 \in Levels /\ 0 \in Cells
        BY PoolSizes DEF Levels, Cells
    <1>5. CallRight'
        BY <1>1, <1>4 DEF CallRight, Idle
    <1>6. Listed' = Listed /\ InHand' = {}
        BY <1>1 DEF Listed, InHand, Idle
    <1> HIDE DEF b
    <1>7. (Listed \ InHand)' = (Listed \ InHand) \cup {b}
        BY <1>2, <1>6
    <1>8. Sets!EndFree(b)
        BY <1>1, <1>2, <1>6, <1>7 DEF Sets!EndFree, Idle
    <1> QED
        BY <1>2, <1>3, <1>5, <1>8

\* Every frame of buddy.c is a step of BuddySpec, or leaves its sets alone.
LEMMA Step ==
    ASSUME PoolInv, [Next]_vars
    PROVE  ListsOf(pool') /\ HeldRight' /\ CallRight' /\ [Sets!Next]_(Sets!vars)
PROOF
    <1>1. ASSUME NEW sz \in -1 .. Level, AllocBegins(sz)
          PROVE  ListsOf(pool') /\ HeldRight' /\ CallRight' /\ Sets!Next
        <2>1. sz \in Levels
            BY <1>1 DEF AllocBegins
        <2>2. /\ ListsOf(pool') /\ HeldRight' /\ CallRight'
              /\ \E b \in Listed \ InHand : Sets!BeginAlloc(sz, b)
            BY <1>1, <2>1, AllocBegins_Step
        <2> QED
            BY <2>1, <2>2, SetsNames DEF Sets!Next
    <1>2. CASE SplitFrame
        BY <1>2, SplitFrame_Step DEF Sets!Next
    <1>3. CASE AllocReturns
        BY <1>3, AllocReturns_Step DEF Sets!Next
    <1>4. ASSUME NEW e \in held, FreeBegins(e[2])
          PROVE  ListsOf(pool') /\ HeldRight' /\ CallRight' /\ Sets!Next
        BY <1>4, FreeBegins_Step DEF Sets!Next
    <1>5. CASE MergeFrame
        BY <1>5, MergeFrame_Step DEF Sets!Next
    <1>6. CASE FreeReturns
        BY <1>6, FreeReturns_Step DEF Sets!Next
    <1>7. ASSUME UNCHANGED vars
          PROVE  ListsOf(pool') /\ HeldRight' /\ CallRight' /\ UNCHANGED Sets!vars
        <2>1. pool' = pool /\ held' = held /\ pc' = pc
            BY <1>7 DEF vars
        <2>2. ListsOf(pool') /\ HeldRight' /\ CallRight'
            BY <2>1 DEF PoolInv, HeldRight, CallRight
        <2>3. UNCHANGED Sets!vars
            BY <2>1 DEF Sets!vars, Listed, InHand
        <2> QED
            BY <2>2, <2>3
    <1>8. ASSUME NEW sz \in -1 .. Level, AllocFails(sz)
          PROVE  UNCHANGED vars
        BY <1>8 DEF AllocFails
    <1> QED
        BY <1>1, <1>2, <1>3, <1>4, <1>5, <1>6, <1>7, <1>8 DEF Next

\* The invariants of BuddySpec hold of the sets after each of its steps.
LEMMA SetsRight_Next ==
    SetsRight /\ [Sets!Next]_(Sets!vars) => SetsRight'
PROOF
    BY Sets!TypeOK_Next, Sets!Disjoint_Next, Sets!Covered_Next, Sets!Coalesced_Next,
       SetsAssumption DEF SetsRight

\* The lists, the bitmap, the running call and the sets stay right in every step.
LEMMA PoolInvariant == Spec => []PoolInv
PROOF
    <1>1. Init => PoolInv
        BY PoolInv_Init, Sets!TypeOK_Init, Sets!Disjoint_Init, Sets!Covered_Init, Sets!Coalesced_Init,
           SetsAssumption DEF PoolInv, SetsRight
    <1>2. PoolInv /\ [Next]_vars => PoolInv'
        BY Step, SetsRight_Next DEF PoolInv
    <1> QED
        BY <1>1, <1>2, PTL DEF Spec

----------------------------------------------------------------------------
(* Theorems                                                                *)

\* Every variable keeps its type: offsets stay in the pool, no list holds
\* anything but offsets, and no flag lies outside the bitmap (buddy.c).
THEOREM TypeCorrect == Spec => []TypeOK
PROOF
    <1>1. PoolInv => TypeOK
        BY DEF PoolInv, ListsOf, HeldRight, CallRight, TypeOK
    <1> QED
        BY <1>1, PoolInvariant, PTL

\* The bitmap alone gives every held block its size back, at every moment and
\* however the pool was split and merged (buddy_free2's scan).
THEOREM SizesRecovered == Spec => []SizeRecovered
PROOF
    <1>1. PoolInv => SizeRecovered
        BY SizesAreRecovered DEF SizeRecovered
    <1> QED
        BY <1>1, PoolInvariant, PTL

\* buddy_alloc2 fails only when no aligned run of the size asked for is outside
\* every held block.
THEOREM FailureIsFragmentation == Spec => []FailsOnlyWhenFull
PROOF
    BY RoomIsFound, PoolInvariant, PTL

\* The lists and the bitmap of buddy.c implement the sets of BuddySpec, frame by
\* frame: what _split_buddy and _merge do amounts to exchanging a block for its
\* halves and back, and the bitmap test of _merge is right.
THEOREM BuddyIsSpec == Spec => ImplementsBuddySpec
PROOF
    <1>1. Init => Promise!Init
        BY PoolInv_Init DEF Sets!Init, Promise!Init
    <1>2. [Sets!Next]_(Sets!vars) => [Promise!Next]_(Promise!vars)
        BY DEF Sets!Next, Sets!vars, Sets!Levels, Sets!BeginAlloc, Sets!StartsFrom, Sets!Split,
               Sets!EndAlloc, Sets!Merge, Sets!EndFree, Sets!BeginFree, Sets!Mergeable,
               Sets!Buddy, Sets!Parent, Sets!LeftHalf, Sets!RightHalf,
               Promise!Next, Promise!vars, Promise!Levels, Promise!BeginAlloc,
               Promise!StartsFrom, Promise!Split, Promise!EndAlloc, Promise!Merge,
               Promise!EndFree, Promise!BeginFree, Promise!Mergeable,
               Promise!Buddy, Promise!Parent, Promise!LeftHalf, Promise!RightHalf
    <1>3. PoolInv /\ [Next]_vars => [Promise!Next]_(Promise!vars)
        BY <1>2, Step
    <1> QED
        BY <1>1, <1>3, PoolInvariant, PTL DEF Spec, ImplementsBuddySpec, Promise!Spec

=============================================================================
