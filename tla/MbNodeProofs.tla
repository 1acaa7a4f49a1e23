---------------------------- MODULE MbNodeProofs ----------------------------
(***************************************************************************)
(* Proofs about the multibit nodes: the blocks stay exact, so that counting*)
(* bits finds every cell; inserting and deleting a prefix changes the rule *)
(* of this prefix and no other; and both searches find the longest prefix. *)
(***************************************************************************)
EXTENDS MbNode, BitStringProofs, FiniteSetTheorems

----------------------------------------------------------------------------
(* Numbers and recursive functions *)

\* A set of numbers that is not empty has a least one.
LEMMA LeastOf ==
    ASSUME NEW T \in SUBSET Nat, T # {}
    PROVE  \E x \in T : \A y \in T : x <= y
PROOF
    <1>1. PICK x \in T : \A y \in T : ~ (<<y, x>> \in OpToRel(<, Nat))
        BY NatLessThanWellFounded, WFMin
    <1>2. \A y \in T : ~ (y < x)
        BY <1>1 DEF OpToRel
    <1> QED
        BY <1>2

\* f starts with b and goes on with the functions of F.
Steps(n, V, b, F, f) ==
    /\ f \in [0 .. n -> V]
    /\ f[0] = b
    /\ \A k \in 1 .. n : f[k] = F[k][f[k - 1]]

\* A function on 0 .. n whose value at k follows from its value at k - 1 exists.
LEMMA StepByStep ==
    ASSUME NEW n \in Nat, NEW V, NEW b \in V, NEW F \in [1 .. n -> [V -> V]]
    PROVE  \E f : Steps(n, V, b, F, f)
PROOF
    <1> DEFINE Good(m, f) == Steps(m, V, b, F, f)
               Bad == {m \in 0 .. n : ~ \E f : Good(m, f)}
    <1>1. Bad = {}
        <2>1. SUFFICES ASSUME Bad # {} PROVE FALSE
            OBVIOUS
        <2>0. Bad \in SUBSET Nat
            OBVIOUS
        <2>2. PICK m \in Bad : \A y \in Bad : m <= y
            <3> HIDE DEF Bad
            <3> QED
                BY <2>0, <2>1, LeastOf
        <2>3. m \in 0 .. n /\ ~ \E f : Good(m, f)
            BY <2>2
        <2>4. m # 0
            <3>1. Good(0, [k \in 0 .. 0 |-> b])
                BY DEF Steps
            <3> QED
                BY <2>3, <3>1
        <2>5. m - 1 \in 0 .. n /\ m - 1 \notin Bad
            <3>1. m \in Nat /\ m - 1 \in 0 .. n /\ ~ (m <= m - 1)
                BY <2>3, <2>4
            <3> HIDE DEF Bad
            <3> QED
                BY <2>2, <3>1
        <2>6. PICK f : Good(m - 1, f)
            <3> HIDE DEF Good
            <3> QED
                BY <2>5
        <2> DEFINE g == [k \in 0 .. m |-> IF k = m THEN F[m][f[m - 1]] ELSE f[k]]
        <2>7. f[m - 1] \in V /\ F[m] \in [V -> V]
            BY <2>3, <2>4, <2>6 DEF Steps
        <2>8. g \in [0 .. m -> V] /\ g[0] = b
            BY <2>3, <2>4, <2>6, <2>7 DEF Steps
        <2>9. ASSUME NEW k \in 1 .. m
              PROVE  g[k] = F[k][g[k - 1]]
            <3>1. CASE k = m
                BY <2>3, <2>4, <3>1
            <3>2. CASE k # m
                BY <2>3, <2>4, <2>6, <3>2 DEF Steps
            <3> QED
                BY <3>1, <3>2
        <2> QED
            BY <2>3, <2>8, <2>9 DEF Steps
    <1>2. n \in 0 .. n
        OBVIOUS
    <1> HIDE DEF Good
    <1> QED
        BY <1>1, <1>2 DEF Good

\* The value of a bit string, bit by bit.
LEMMA ValueFunction ==
    ASSUME NEW s \in Seq(Bit)
    PROVE  \E f \in [0 .. Len(s) -> Nat] :
              /\ Value(s) = f[Len(s)]
              /\ f[0] = 0
              /\ \A k \in 1 .. Len(s) : f[k] = 2 * f[k - 1] + s[k]
PROOF
    <1> DEFINE n == Len(s)
               F == [k \in 1 .. n |-> [v \in Nat |-> 2 * v + s[k]]]
               P(f) == f = [k \in 0 .. n |-> IF k = 0 THEN 0 ELSE 2 * f[k - 1] + s[k]]
               value == CHOOSE f : P(f)
    <1>1. n \in Nat /\ \A k \in 1 .. n : s[k] \in Nat
        BY ElementOfSeq DEF Bit
    <1>2. F \in [1 .. n -> [Nat -> Nat]]
        BY <1>1
    <1>3. PICK f : Steps(n, Nat, 0, F, f)
        <2>1. 0 \in Nat
            OBVIOUS
        <2> HIDE DEF F, n
        <2> QED
            BY <1>1, <1>2, <2>1, StepByStep
    <1>4. ASSUME NEW k \in 0 .. n
          PROVE  f[k] = IF k = 0 THEN 0 ELSE 2 * f[k - 1] + s[k]
        <2>1. CASE k = 0
            BY <1>3, <2>1 DEF Steps
        <2>2. CASE k # 0
            <3>1. k \in 1 .. n /\ k - 1 \in 0 .. n
                BY <1>1, <2>2
            <3>2. f[k - 1] \in Nat /\ f[k] = F[k][f[k - 1]]
                <4> HIDE DEF F, n
                <4> QED
                    BY <1>1, <1>3, <2>2, <3>1 DEF Steps
            <3> QED
                BY <1>1, <2>2, <3>1, <3>2
        <2> QED
            BY <2>1, <2>2
    <1>5. P(f)
        <2>1. f = [k \in 0 .. n |-> f[k]]
            BY <1>3 DEF Steps
        <2> QED
            BY <1>4, <2>1
    <1>6. P(value)
        <2> HIDE DEF P
        <2> QED
            BY <1>5, Zenon
    <1>7. Value(s) = value[n]
        BY DEF Value
    <1> HIDE DEF value
    <1>8. \A k \in 0 .. n : value[k] \in Nat
        <2> DEFINE Bad == {k \in 0 .. n : value[k] \notin Nat}
        <2>1. SUFFICES ASSUME Bad # {} PROVE FALSE
            OBVIOUS
        <2>0. Bad \in SUBSET Nat
            BY <1>1
        <2>2. PICK k \in Bad : \A y \in Bad : k <= y
            <3> HIDE DEF Bad
            <3> QED
                BY <2>0, <2>1, LeastOf
        <2>3. k \in 0 .. n /\ value[k] \notin Nat
            BY <2>2
        <2>4. CASE k = 0
            BY <1>6, <1>1, <2>3, <2>4
        <2>5. CASE k # 0
            <3>1. k - 1 \in 0 .. n /\ k - 1 \notin Bad
                BY <1>1, <2>2, <2>3, <2>5
            <3>2. value[k - 1] \in Nat /\ s[k] \in Nat
                BY <1>1, <2>3, <2>5, <3>1
            <3>3. value[k] = 2 * value[k - 1] + s[k]
                BY <1>1, <1>6, <2>3, <2>5
            <3> QED
                BY <2>3, <3>2, <3>3
        <2> QED
            BY <2>4, <2>5
    <1>9. value \in [0 .. n -> Nat] /\ value[0] = 0
        BY <1>1, <1>6, <1>8
    <1>10. \A k \in 1 .. n : value[k] = 2 * value[k - 1] + s[k]
        BY <1>1, <1>6
    <1> QED
        BY <1>7, <1>9, <1>10
(* Powers of two *)

\* 2^n counts the subsets of 1 .. n; those of 1 .. n + 1 are twice as many.
LEMMA PowNext ==
    ASSUME NEW n \in Nat
    PROVE  2^n \in Nat /\ 2^n > 0 /\ 2^(n + 1) = 2 * 2^n
PROOF
    <1> DEFINE A == 1 .. n
               B == 1 .. n + 1
               T == SUBSET A
               U == {u \in SUBSET B : n + 1 \in u}
               g == [s \in T |-> s \cup {n + 1}]
    <1>1. /\ IsFiniteSet(A) /\ Cardinality(A) = n
          /\ IsFiniteSet(B) /\ Cardinality(B) = n + 1
        BY FS_Interval
    <1>2. B = A \cup {n + 1} /\ n + 1 \notin A
        OBVIOUS
    <1> HIDE DEF A, B
    <1>3. /\ IsFiniteSet(T) /\ Cardinality(T) = 2^n
          /\ IsFiniteSet(SUBSET B) /\ Cardinality(SUBSET B) = 2^(n + 1)
        BY <1>1, FS_SUBSET
    <1>4. SUBSET B = T \cup U /\ T \cap U = {}
        BY <1>2
    <1>5. g \in [T -> U]
        BY <1>2
    <1>6. ASSUME NEW s \in T, NEW t \in T, g[s] = g[t]
          PROVE  s = t
        BY <1>2, <1>6
    <1>7. ASSUME NEW u \in U
          PROVE  \E s \in T : g[s] = u
        <2>1. u \ {n + 1} \in T /\ g[u \ {n + 1}] = u
            BY <1>2
        <2> QED
            BY <2>1
    <1>8. g \in Bijection(T, U)
        <2> HIDE DEF T, U, g
        <2> QED
            BY <1>5, <1>6, <1>7 DEF Bijection, Injection, IsInjective, Surjection
    <1>9. IsFiniteSet(U) /\ Cardinality(U) = Cardinality(T)
        <2> HIDE DEF T, U, g
        <2> QED
            BY <1>3, <1>8, FS_Bijection DEF ExistsBijection
    <1>10. T # {}
        OBVIOUS
    <1> HIDE DEF T, U, g
    <1>11. Cardinality(T) \in Nat /\ Cardinality(T) # 0
        BY <1>3, <1>10, FS_CardinalityType, FS_EmptySet
    <1>12. Cardinality(T \cup U) = Cardinality(T) + Cardinality(U) - Cardinality(T \cap U)
        BY <1>3, <1>9, FS_Union
    <1>13. Cardinality(T \cap U) = 0
        BY <1>4, FS_EmptySet
    <1>14. Cardinality(SUBSET B) = 2 * Cardinality(T)
        <2> DEFINE k == Cardinality(T)
        <2>1. Cardinality(SUBSET B) = k + k - 0
            BY <1>4, <1>9, <1>12, <1>13, Zenon
        <2> HIDE DEF k
        <2>2. k \in Nat
            BY <1>11 DEF k
        <2> QED
            BY <2>1, <2>2 DEF k
    <1> QED
        BY <1>3, <1>11, <1>14

\* There is one string without bits.
LEMMA PowZero == 2^0 = 1
PROOF
    <1>1. IsFiniteSet({}) /\ Cardinality({}) = 0
        BY FS_EmptySet
    <1>2. Cardinality(SUBSET {}) = 2^0
        BY <1>1, FS_SUBSET
    <1>3. SUBSET {} = {{}}
        OBVIOUS
    <1>4. Cardinality({{}}) = 1
        BY FS_Singleton
    <1> QED
        BY <1>2, <1>3, <1>4

\* What holds of 0 and of k + 1 with k holds up to n.
LEMMA UpTo ==
    ASSUME NEW n \in Nat, NEW S, 0 \in S, \A k \in 0 .. n - 1 : k \in S => k + 1 \in S
    PROVE  \A k \in 0 .. n : k \in S
PROOF
    <1> DEFINE Bad == {k \in 0 .. n : k \notin S}
    <1>1. SUFFICES ASSUME Bad # {} PROVE FALSE
        OBVIOUS
    <1>2. Bad \in SUBSET Nat
        OBVIOUS
    <1>3. PICK k \in Bad : \A y \in Bad : k <= y
        <2> HIDE DEF Bad
        <2> QED
            BY <1>1, <1>2, LeastOf
    <1>4. k \in 0 .. n /\ k \notin S /\ k # 0
        OBVIOUS
    <1>5. k - 1 \in 0 .. n - 1 /\ (k - 1) + 1 = k /\ ~ (k <= k - 1) /\ k - 1 \in 0 .. n
        BY <1>4
    <1>6. k - 1 \in S
        BY <1>3, <1>5
    <1> QED
        BY <1>4, <1>5, <1>6

\* Powers of two rise.
LEMMA PowMonotone ==
    ASSUME NEW m \in Nat, NEW n \in Nat, m <= n
    PROVE  2^m <= 2^n
PROOF
    <1> DEFINE S == {j \in Nat : 2^m <= 2^(m + j)}
    <1>1. 0 \in S
        BY PowNext
    <1>2. ASSUME NEW k \in 0 .. (n - m) - 1, k \in S
          PROVE  k + 1 \in S
        <2>1. m + k \in Nat /\ m + (k + 1) = (m + k) + 1 /\ k + 1 \in Nat
            OBVIOUS
        <2>2. 2^(m + (k + 1)) = 2 * 2^(m + k) /\ 2^(m + k) \in Nat /\ 2^m \in Nat
            BY <2>1, PowNext
        <2>3. 2^m <= 2^(m + k)
            BY <1>2
        <2>4. 2^m <= 2^(m + (k + 1))
            BY <2>2, <2>3
        <2> QED
            BY <2>1, <2>4
    <1>3. n - m \in Nat /\ n - m \in 0 .. n - m /\ m + (n - m) = n
        OBVIOUS
    <1>4. n - m \in S
        <2> HIDE DEF S
        <2> QED
            BY <1>1, <1>2, <1>3, UpTo
    <1> QED
        BY <1>3, <1>4

----------------------------------------------------------------------------
(* The positions of bit strings *)

\* A string of n bits has a value below 2^n.
LEMMA ValueBound ==
    ASSUME NEW s \in Seq(Bit)
    PROVE  Value(s) \in Nat /\ Value(s) < 2^Len(s)
PROOF
    <1>1. PICK f \in [0 .. Len(s) -> Nat] :
              /\ Value(s) = f[Len(s)]
              /\ f[0] = 0
              /\ \A k \in 1 .. Len(s) : f[k] = 2 * f[k - 1] + s[k]
        BY ValueFunction
    <1> DEFINE S == {k \in 0 .. Len(s) : f[k] < 2^k}
    <1>2. Len(s) \in Nat /\ \A k \in 1 .. Len(s) : s[k] \in {0, 1}
        BY ElementOfSeq DEF Bit
    <1>3. 0 \in S
        BY <1>1, <1>2, PowZero
    <1>4. ASSUME NEW k \in 0 .. Len(s) - 1, k \in S
          PROVE  k + 1 \in S
        <2>1. k \in Nat /\ k + 1 \in 0 .. Len(s) /\ k + 1 \in 1 .. Len(s) /\ (k + 1) - 1 = k
            BY <1>2
        <2>2. f[k + 1] = 2 * f[k] + s[k + 1] /\ s[k + 1] \in {0, 1} /\ f[k] \in Nat /\ f[k] < 2^k
            BY <1>1, <1>2, <1>4, <2>1
        <2>3. 2^(k + 1) = 2 * 2^k /\ 2^k \in Nat
            BY <2>1, PowNext
        <2>4. f[k + 1] < 2^(k + 1)
            BY <2>2, <2>3
        <2> QED
            BY <2>1, <2>4
    <1>5. Len(s) \in 0 .. Len(s)
        BY <1>2
    <1>6. Len(s) \in S
        <2> HIDE DEF S
        <2> QED
            BY <1>2, <1>3, <1>4, <1>5, UpTo
    <1> QED
        BY <1>1, <1>2, <1>6

\* A number is told by its half and its last bit.
LEMMA LastBit ==
    ASSUME NEW a \in Nat, NEW b \in Nat, NEW x \in {0, 1}, NEW y \in {0, 1},
           2 * a + x = 2 * b + y
    PROVE  a = b /\ x = y
PROOF
    OBVIOUS

\* Strings of one length are told apart by their values.
LEMMA ValueInjective ==
    ASSUME NEW s \in Seq(Bit), NEW u \in Seq(Bit), Len(s) = Len(u), Value(s) = Value(u)
    PROVE  s = u
PROOF
    <1> DEFINE n == Len(s)
    <1>1. PICK f \in [0 .. n -> Nat] :
              /\ Value(s) = f[n]
              /\ f[0] = 0
              /\ \A k \in 1 .. n : f[k] = 2 * f[k - 1] + s[k]
        BY ValueFunction
    <1>2. PICK g \in [0 .. n -> Nat] :
              /\ Value(u) = g[n]
              /\ g[0] = 0
              /\ \A k \in 1 .. n : g[k] = 2 * g[k - 1] + u[k]
        BY ValueFunction
    <1>3. n \in Nat /\ \A k \in 1 .. n : s[k] \in {0, 1} /\ u[k] \in {0, 1}
        BY ElementOfSeq DEF Bit
    <1> DEFINE S == {j \in 0 .. n : f[n - j] = g[n - j]}
    <1> HIDE DEF n
    <1>4. ASSUME NEW k \in 1 .. n, f[k] = g[k]
          PROVE  f[k - 1] = g[k - 1] /\ s[k] = u[k]
        <2>1. k - 1 \in 0 .. n
            BY <1>3
        <2>2. f[k] = 2 * f[k - 1] + s[k] /\ g[k] = 2 * g[k - 1] + u[k]
            BY <1>1, <1>2
        <2>3. f[k - 1] \in Nat /\ g[k - 1] \in Nat /\ s[k] \in {0, 1} /\ u[k] \in {0, 1}
            BY <1>3, <2>1
        <2> QED
            <3>1. 2 * f[k - 1] + s[k] = 2 * g[k - 1] + u[k]
                BY <1>4, <2>2
            <3> QED
                BY <2>3, <3>1, LastBit
    <1>5. 0 \in S
        <2>1. n - 0 = n /\ 0 \in 0 .. n
            BY <1>3
        <2>2. f[n] = g[n]
            BY <1>1, <1>2
        <2> QED
            BY <2>1, <2>2
    <1>6. ASSUME NEW j \in 0 .. n - 1, j \in S
          PROVE  j + 1 \in S
        <2>1. n - j \in 1 .. n /\ (n - j) - 1 = n - (j + 1) /\ j + 1 \in 0 .. n
            BY <1>3
        <2>2. f[n - j] = g[n - j]
            BY <1>6
        <2>3. f[n - (j + 1)] = g[n - (j + 1)]
            BY <1>4, <2>1, <2>2
        <2> QED
            BY <2>1, <2>3
    <1>7. \A j \in 0 .. n : j \in S
        <2> HIDE DEF S
        <2> QED
            BY <1>3, <1>5, <1>6, UpTo
    <1>8. ASSUME NEW k \in 1 .. n
          PROVE  s[k] = u[k]
        <2>1. n - k \in 0 .. n /\ n - (n - k) = k
            BY <1>3
        <2>2. f[k] = g[k]
            BY <1>7, <2>1
        <2> QED
            BY <1>4, <2>2
    <1> QED
        BY <1>8, SeqEqual DEF n

\* The positions of the prefixes of n bits lie between 2^n - 1 and 2^(n + 1) -
\* 2.
LEMMA PosBounds ==
    ASSUME NEW b \in Seq(Bit)
    PROVE  /\ count_inl_bitmap(b) \in Nat
           /\ 2^Len(b) - 1 <= count_inl_bitmap(b)
           /\ count_inl_bitmap(b) < 2 * 2^Len(b) - 1
PROOF
    <1>1. Len(b) \in Nat
        OBVIOUS
    <1>2. 2^Len(b) \in Nat /\ 2^Len(b) > 0
        BY <1>1, PowNext
    <1>3. Value(b) \in Nat /\ Value(b) < 2^Len(b)
        BY ValueBound
    <1> QED
        BY <1>2, <1>3 DEF count_inl_bitmap

\* Longer prefixes have higher positions.
LEMMA PosRising ==
    ASSUME NEW b \in Seq(Bit), NEW c \in Seq(Bit), Len(b) < Len(c)
    PROVE  count_inl_bitmap(b) < count_inl_bitmap(c)
PROOF
    <1>1. Len(b) \in Nat /\ Len(c) \in Nat /\ Len(b) + 1 \in Nat /\ Len(b) + 1 <= Len(c)
        OBVIOUS
    <1>2. 2^(Len(b) + 1) = 2 * 2^Len(b) /\ 2^(Len(b) + 1) <= 2^Len(c)
        BY <1>1, PowNext, PowMonotone
    <1>3. 2^Len(b) \in Nat /\ 2^Len(c) \in Nat
        BY <1>1, PowNext
    <1>4. /\ count_inl_bitmap(b) < 2 * 2^Len(b) - 1 /\ 2^Len(c) - 1 <= count_inl_bitmap(c)
          /\ count_inl_bitmap(b) \in Nat /\ count_inl_bitmap(c) \in Nat
        BY PosBounds
    <1> QED
        BY <1>2, <1>3, <1>4

\* No two strings have one position.
LEMMA PosInjective ==
    ASSUME NEW b \in Seq(Bit), NEW c \in Seq(Bit), count_inl_bitmap(b) = count_inl_bitmap(c)
    PROVE  b = c
PROOF
    <1>1. Len(b) \in Nat /\ Len(c) \in Nat
        OBVIOUS
    <1>2. count_inl_bitmap(b) \in Nat /\ count_inl_bitmap(c) \in Nat
        BY PosBounds
    <1>3. ~ (Len(b) < Len(c))
        BY <1>2, PosRising
    <1>4. ~ (Len(c) < Len(b))
        BY <1>2, PosRising
    <1>5. Len(b) = Len(c)
        BY <1>1, <1>3, <1>4
    <1>6. 2^Len(b) \in Nat /\ Value(b) \in Nat /\ Value(c) \in Nat
        BY <1>1, PowNext, ValueBound
    <1>7. Value(b) = Value(c)
        BY <1>5, <1>6 DEF count_inl_bitmap
    <1> QED
        BY <1>5, <1>7, ValueInjective

\* A stride is a bit sequence of STRIDE bits.
LEMMA StrideIsSeq ==
    ASSUME NEW s \in Strides
    PROVE  s \in Seq(Bit) /\ Len(s) = STRIDE
PROOF
    BY StrideAssumption DEF Strides

\* The prefixes that end in a node are the bit sequences shorter than a stride.
LEMMA ShortIsSeq ==
    ASSUME NEW b
    PROVE  b \in Shorts <=> b \in Seq(Bit) /\ Len(b) < STRIDE
PROOF
    <1>1. ASSUME b \in Shorts
          PROVE  b \in Seq(Bit) /\ Len(b) < STRIDE
        <2>1. PICK n \in 0 .. STRIDE - 1 : b \in [1 .. n -> Bit]
            BY <1>1 DEF Shorts
        <2>2. n \in Nat /\ n < STRIDE
            BY StrideAssumption
        <2> QED
            BY <2>1, <2>2
    <1>2. ASSUME b \in Seq(Bit), Len(b) < STRIDE
          PROVE  b \in Shorts
        <2>1. Len(b) \in 0 .. STRIDE - 1 /\ b \in [1 .. Len(b) -> Bit]
            BY <1>2, LenProperties, StrideAssumption
        <2> QED
            BY <2>1 DEF Shorts
    <1> QED
        BY <1>1, <1>2

\* Strides are told apart by their positions in the external bitmap,
LEMMA EnlInjective ==
    ASSUME NEW s \in Strides, NEW u \in Strides, count_enl_bitmap(s) = count_enl_bitmap(u)
    PROVE  s = u
PROOF
    BY StrideIsSeq, ValueInjective DEF count_enl_bitmap

\* which has 2^STRIDE bits,
LEMMA EnlNat ==
    ASSUME NEW s \in Strides
    PROVE  count_enl_bitmap(s) \in Nat /\ count_enl_bitmap(s) < 2^STRIDE
PROOF
    BY StrideIsSeq, ValueBound DEF count_enl_bitmap

\* and the internal bitmap has room for every prefix that ends in a node.
LEMMA InlNat ==
    ASSUME NEW b \in Shorts
    PROVE  count_inl_bitmap(b) \in Nat /\ count_inl_bitmap(b) < 2^STRIDE
PROOF
    <1>1. b \in Seq(Bit) /\ Len(b) \in Nat /\ STRIDE \in Nat /\ Len(b) + 1 \in Nat /\ Len(b) + 1 <= STRIDE
        BY ShortIsSeq, StrideAssumption
    <1>2. 2^(Len(b) + 1) = 2 * 2^Len(b) /\ 2^(Len(b) + 1) <= 2^STRIDE
        BY <1>1, PowNext, PowMonotone
    <1>3. 2^Len(b) \in Nat /\ 2^STRIDE \in Nat
        BY <1>1, PowNext
    <1>4. count_inl_bitmap(b) < 2 * 2^Len(b) - 1 /\ count_inl_bitmap(b) \in Nat
        BY <1>1, PosBounds
    <1> QED
        BY <1>2, <1>3, <1>4

----------------------------------------------------------------------------
(* Strides *)

\* The next stride of a prefix, padded with zeros if the prefix ends in it.
LEMMA StrideAtType ==
    ASSUME NEW p \in Seq(Bit), NEW n \in Nat
    PROVE  StrideAt(p, n) \in Strides
PROOF
    <1>1. STRIDE \in Nat
        BY StrideAssumption
    <1>2. ASSUME NEW k \in 1 .. STRIDE
          PROVE  (IF n + k <= Len(p) THEN p[n + k] ELSE 0) \in Bit
        <2>1. CASE n + k <= Len(p)
            <3>1. n + k \in 1 .. Len(p)
                BY <1>1, <2>1
            <3> QED
                BY <2>1, <3>1, ElementOfSeq
        <2>2. CASE ~ (n + k <= Len(p))
            BY <2>2 DEF Bit
        <2> QED
            BY <2>1, <2>2
    <1> QED
        BY <1>2 DEF StrideAt, Strides

\* Its bits are those of the prefix.
LEMMA StrideAtBits ==
    ASSUME NEW p \in Seq(Bit), NEW n \in Nat, NEW k \in 1 .. STRIDE, n + k <= Len(p)
    PROVE  StrideAt(p, n)[k] = p[n + k]
PROOF
    BY DEF StrideAt

\* The string behind d, one stride longer.
LEMMA Joined ==
    ASSUME NEW d \in Seq(Bit), NEW s \in Strides
    PROVE  /\ d \o s \in Seq(Bit) /\ Len(d \o s) = Len(d) + STRIDE
           /\ Covers(d, d \o s) /\ Up(d \o s) = d /\ LastStride(d \o s) = s
PROOF
    <1> DEFINE e == d \o s
    <1>1. s \in Seq(Bit) /\ Len(s) = STRIDE /\ STRIDE \in Nat /\ Len(d) \in Nat
        BY StrideIsSeq, StrideAssumption
    <1>2. /\ e \in Seq(Bit) /\ Len(e) = Len(d) + STRIDE
          /\ \A i \in 1 .. Len(d) + STRIDE : e[i] = IF i <= Len(d) THEN d[i] ELSE s[i - Len(d)]
        BY <1>1, ConcatProperties
    <1> HIDE DEF e
    <1>3. Covers(d, e)
        BY <1>1, <1>2 DEF Covers
    <1>4. Len(e) - STRIDE = Len(d)
        BY <1>1, <1>2
    <1>5. Up(e) = SubSeq(e, 1, Len(d))
        BY <1>4 DEF Up
    <1>6. SubSeq(e, 1, Len(d)) \in Seq(Bit) /\ Len(SubSeq(e, 1, Len(d))) = Len(d)
        BY <1>1, <1>2
    <1>7. \A i \in 1 .. Len(d) : SubSeq(e, 1, Len(d))[i] = d[i]
        BY <1>1, <1>2
    <1>8. Up(e) = d
        BY <1>5, <1>6, <1>7, SeqEqual
    <1>9. LastStride(e) = StrideAt(e, Len(d))
        BY <1>4 DEF LastStride
    <1>10. \A k \in 1 .. STRIDE : StrideAt(e, Len(d))[k] = s[k]
        BY <1>1, <1>2 DEF StrideAt
    <1>11. StrideAt(e, Len(d)) \in Strides
        BY <1>1, <1>2, StrideAtType
    <1>12. StrideAt(e, Len(d)) = s
        BY <1>1, <1>10, <1>11, StrideIsSeq, SeqEqual
    <1> QED
        BY <1>2, <1>3, <1>8, <1>9, <1>12 DEF e

\* The string above d and the stride that leads back to d.
LEMMA Parted ==
    ASSUME NEW d \in Seq(Bit), STRIDE <= Len(d)
    PROVE  /\ Up(d) \in Seq(Bit) /\ Len(Up(d)) = Len(d) - STRIDE /\ Covers(Up(d), d)
           /\ LastStride(d) \in Strides /\ Up(d) \o LastStride(d) = d
PROOF
    <1>1. STRIDE \in Nat /\ Len(d) \in Nat /\ Len(d) - STRIDE \in Nat
        BY StrideAssumption
    <1>2. /\ Up(d) \in Seq(Bit) /\ Len(Up(d)) = Len(d) - STRIDE
          /\ \A i \in 1 .. Len(d) - STRIDE : Up(d)[i] = d[i]
        BY <1>1 DEF Up
    <1>3. LastStride(d) \in Strides
        BY <1>1, StrideAtType DEF LastStride
    <1>4. Covers(Up(d), d)
        BY <1>1, <1>2, StrideAssumption DEF Covers
    <1> DEFINE s == LastStride(d)
               e == Up(d) \o s
    <1>5. s \in Seq(Bit) /\ Len(s) = STRIDE
        BY <1>3, StrideIsSeq
    <1>6. \A k \in 1 .. STRIDE : s[k] = d[(Len(d) - STRIDE) + k]
        BY <1>1, StrideAtBits DEF LastStride
    <1>7. /\ e \in Seq(Bit) /\ Len(e) = Len(Up(d)) + Len(s)
          /\ \A i \in 1 .. Len(Up(d)) + Len(s) :
                e[i] = IF i <= Len(Up(d)) THEN Up(d)[i] ELSE s[i - Len(Up(d))]
        BY <1>2, <1>5, ConcatProperties
    <1> HIDE DEF s, e
    <1>8. Len(e) = Len(d)
        BY <1>1, <1>2, <1>5, <1>7
    <1>9. ASSUME NEW i \in 1 .. Len(d)
          PROVE  e[i] = d[i]
        <2>1. CASE i <= Len(d) - STRIDE
            BY <1>1, <1>2, <1>5, <1>7, <2>1
        <2>2. CASE ~ (i <= Len(d) - STRIDE)
            <3>1. i - (Len(d) - STRIDE) \in 1 .. STRIDE /\ (Len(d) - STRIDE) + (i - (Len(d) - STRIDE)) = i
                BY <1>1, <2>2
            <3>2. e[i] = s[i - (Len(d) - STRIDE)]
                BY <1>1, <1>2, <1>5, <1>7, <2>2
            <3> QED
                BY <1>6, <3>1, <3>2
        <2> QED
            BY <2>1, <2>2
    <1>10. e = d
        BY <1>7, <1>8, <1>9, SeqEqual
    <1> QED
        BY <1>2, <1>3, <1>4, <1>10 DEF e, s

\* The last stride of an address is the one a walk along p takes from above it.
LEMMA StrideOnWay ==
    ASSUME NEW p \in Seq(Bit), NEW d \in Seq(Bit), Covers(d, p), STRIDE <= Len(d)
    PROVE  StrideAt(p, Len(Up(d))) = LastStride(d)
PROOF
    <1>1. STRIDE \in Nat /\ Len(d) \in Nat /\ Len(p) \in Nat
        BY StrideAssumption
    <1>2. Len(Up(d)) = Len(d) - STRIDE /\ Len(d) - STRIDE \in Nat
        BY <1>1, Parted
    <1>3. \A i \in 1 .. Len(d) : d[i] = p[i]
        BY DEF Covers
    <1>4. Len(d) <= Len(p)
        BY DEF Covers
    <1> DEFINE n == Len(d) - STRIDE
    <1>5. StrideAt(p, n) \in Strides /\ StrideAt(d, n) \in Strides
        BY <1>2, StrideAtType
    <1>6. ASSUME NEW k \in 1 .. STRIDE
          PROVE  StrideAt(p, n)[k] = StrideAt(d, n)[k]
        <2>1. n + k \in 1 .. Len(d) /\ n + k <= Len(d) /\ n + k <= Len(p)
            BY <1>1, <1>2, <1>4
        <2>2. StrideAt(p, n)[k] = p[n + k] /\ StrideAt(d, n)[k] = d[n + k]
            BY <1>2, <2>1, StrideAtBits
        <2> QED
            BY <1>3, <2>1, <2>2
    <1> HIDE DEF n
    <1>7. StrideAt(p, n) = StrideAt(d, n)
        BY <1>5, <1>6, StrideIsSeq, SeqEqual
    <1> QED
        BY <1>2, <1>7 DEF LastStride, n

\* The next address on the way to p.
LEMMA NextOnWay ==
    ASSUME NEW p \in Seq(Bit), NEW d \in Seq(Bit), Covers(d, p), Len(d) + STRIDE <= Len(p)
    PROVE  Covers(d \o StrideAt(p, Len(d)), p)
PROOF
    <1> DEFINE s == StrideAt(p, Len(d))
               e == d \o s
    <1>1. STRIDE \in Nat /\ Len(d) \in Nat /\ Len(p) \in Nat
        BY StrideAssumption
    <1>2. s \in Strides
        BY <1>1, StrideAtType
    <1>3. s \in Seq(Bit) /\ Len(s) = STRIDE
        BY <1>2, StrideIsSeq
    <1>4. \A k \in 1 .. STRIDE : s[k] = p[Len(d) + k]
        BY <1>1, StrideAtBits
    <1>5. /\ e \in Seq(Bit) /\ Len(e) = Len(d) + STRIDE
          /\ \A i \in 1 .. Len(d) + STRIDE : e[i] = IF i <= Len(d) THEN d[i] ELSE s[i - Len(d)]
        BY <1>3, ConcatProperties
    <1> HIDE DEF e, s
    <1>6. ASSUME NEW i \in 1 .. Len(e)
          PROVE  e[i] = p[i]
        <2>1. CASE i <= Len(d)
            BY <1>1, <1>5, <2>1 DEF Covers
        <2>2. CASE ~ (i <= Len(d))
            <3>1. i - Len(d) \in 1 .. STRIDE /\ Len(d) + (i - Len(d)) = i
                BY <1>1, <1>5, <2>2
            <3>2. e[i] = s[i - Len(d)]
                BY <1>1, <1>5, <2>2
            <3> QED
                BY <1>4, <3>1, <3>2
        <2> QED
            BY <2>1, <2>2
    <1> QED
        BY <1>5, <1>6 DEF Covers, e, s

\* A prefix ends in one node: the rest behind the node's address is short.
LEMMA RestIsShort ==
    ASSUME NEW p \in Seq(Bit), NEW d \in Seq(Bit), Covers(d, p)
    PROVE  /\ RestAt(p, Len(d)) \in Seq(Bit) /\ Len(RestAt(p, Len(d))) = Len(p) - Len(d)
           /\ d \o RestAt(p, Len(d)) = p
           /\ EndsIn(p, d) <=> RestAt(p, Len(d)) \in Shorts
PROOF
    <1> DEFINE b == RestAt(p, Len(d))
               e == d \o b
    <1>1. STRIDE \in Nat /\ Len(d) \in Nat /\ Len(p) \in Nat /\ Len(d) <= Len(p)
        BY StrideAssumption DEF Covers
    <1>2. \A i \in Len(d) + 1 .. Len(p) : p[i] \in Bit
        BY <1>1, ElementOfSeq
    <1>3. /\ b \in Seq(Bit) /\ Len(b) = Len(p) - Len(d)
          /\ \A i \in 1 .. Len(p) - Len(d) : b[i] = p[Len(d) + i]
        <2>1. /\ b \in Seq(Bit)
              /\ Len(b) = IF Len(d) + 1 <= Len(p) THEN Len(p) - (Len(d) + 1) + 1 ELSE 0
              /\ \A i \in 1 .. Len(p) - (Len(d) + 1) + 1 : b[i] = p[(Len(d) + 1) + i - 1]
            BY <1>1, <1>2, SubSeqProperties DEF RestAt
        <2> HIDE DEF b
        <2> QED
            BY <1>1, <2>1
    <1> HIDE DEF b
    <1>4. /\ e \in Seq(Bit) /\ Len(e) = Len(d) + Len(b)
          /\ \A i \in 1 .. Len(d) + Len(b) : e[i] = IF i <= Len(d) THEN d[i] ELSE b[i - Len(d)]
        BY <1>3, ConcatProperties
    <1> HIDE DEF e
    <1>5. Len(e) = Len(p)
        BY <1>1, <1>3, <1>4
    <1>6. ASSUME NEW i \in 1 .. Len(e)
          PROVE  e[i] = p[i]
        <2>1. CASE i <= Len(d)
            BY <1>1, <1>3, <1>4, <2>1 DEF Covers
        <2>2. CASE ~ (i <= Len(d))
            <3>1. i - Len(d) \in 1 .. Len(p) - Len(d) /\ Len(d) + (i - Len(d)) = i
                BY <1>1, <1>5, <2>2
            <3>2. e[i] = b[i - Len(d)]
                BY <1>1, <1>4, <2>2
            <3> QED
                BY <1>3, <3>1, <3>2
        <2> QED
            BY <2>1, <2>2
    <1>7. e = p
        BY <1>4, <1>5, <1>6, SeqEqual
    <1>8. EndsIn(p, d) <=> Len(b) < STRIDE
        BY <1>1, <1>3 DEF EndsIn
    <1>9. EndsIn(p, d) <=> b \in Shorts
        BY <1>3, <1>8, ShortIsSeq
    <1> QED
        BY <1>3, <1>7, <1>9 DEF b, e

\* A prefix that ends in node d is made of the address of d and a short rest.
LEMMA ShortBehind ==
    ASSUME NEW d \in Seq(Bit), NEW b \in Shorts
    PROVE  /\ d \o b \in Seq(Bit) /\ Len(d \o b) = Len(d) + Len(b) /\ Covers(d, d \o b)
           /\ EndsIn(d \o b, d) /\ RestAt(d \o b, Len(d)) = b
PROOF
    <1> DEFINE e == d \o b
    <1>1. b \in Seq(Bit) /\ Len(b) < STRIDE /\ STRIDE \in Nat /\ Len(d) \in Nat /\ Len(b) \in Nat
        BY ShortIsSeq, StrideAssumption
    <1>2. /\ e \in Seq(Bit) /\ Len(e) = Len(d) + Len(b)
          /\ \A i \in 1 .. Len(d) + Len(b) : e[i] = IF i <= Len(d) THEN d[i] ELSE b[i - Len(d)]
        BY <1>1, ConcatProperties
    <1> HIDE DEF e
    <1>3. Covers(d, e) /\ EndsIn(e, d)
        BY <1>1, <1>2 DEF Covers, EndsIn
    <1>4. \A i \in Len(d) + 1 .. Len(e) : e[i] \in Bit
        BY <1>1, <1>2, ElementOfSeq
    <1> DEFINE r == RestAt(e, Len(d))
    <1>5. r \in Seq(Bit) /\ Len(r) = Len(b) /\ \A i \in 1 .. Len(b) : r[i] = e[Len(d) + i]
        <2>1. /\ r \in Seq(Bit)
              /\ Len(r) = IF Len(d) + 1 <= Len(e) THEN Len(e) - (Len(d) + 1) + 1 ELSE 0
              /\ \A i \in 1 .. Len(e) - (Len(d) + 1) + 1 : r[i] = e[(Len(d) + 1) + i - 1]
            BY <1>1, <1>2, <1>4, SubSeqProperties DEF RestAt
        <2> HIDE DEF r
        <2>2. Len(e) - (Len(d) + 1) + 1 = Len(b) /\ Len(r) = Len(b)
            BY <1>1, <1>2, <2>1
        <2>3. ASSUME NEW i \in 1 .. Len(b)
              PROVE  r[i] = e[Len(d) + i]
            <3>1. (Len(d) + 1) + i - 1 = Len(d) + i
                BY <1>1
            <3> QED
                BY <2>1, <2>2, <3>1
        <2> QED
            BY <2>1, <2>2, <2>3
    <1> HIDE DEF r
    <1>6. ASSUME NEW i \in 1 .. Len(b)
          PROVE  r[i] = b[i]
        <2>1. /\ Len(d) + i \in 1 .. Len(d) + Len(b) /\ ~ (Len(d) + i <= Len(d))
              /\ (Len(d) + i) - Len(d) = i
            BY <1>1
        <2>2. e[Len(d) + i] = b[i]
            BY <1>2, <2>1
        <2> QED
            BY <1>5, <2>2
    <1>7. r = b
        BY <1>1, <1>5, <1>6, SeqEqual
    <1> QED
        BY <1>2, <1>3, <1>7 DEF e, r

----------------------------------------------------------------------------
(* Addresses: whole numbers of strides *)

\* Multiples of STRIDE rise.
LEMMA Multiples ==
    ASSUME NEW i \in Nat, NEW j \in Nat, i <= j
    PROVE  i * STRIDE \in Nat /\ i * STRIDE <= j * STRIDE
PROOF
    <1>1. STRIDE \in Nat
        BY StrideAssumption
    <1> DEFINE k == j - i
    <1>2. k \in Nat /\ j = i + k
        OBVIOUS
    <1> HIDE DEF k
    <1>3. j * STRIDE = i * STRIDE + k * STRIDE
        BY <1>1, <1>2
    <1>4. i * STRIDE \in Nat /\ k * STRIDE \in Nat
        BY <1>1, <1>2
    <1> QED
        BY <1>3, <1>4

\* The root is at an address of whole strides,
LEMMA AlignedZero == Aligned(0)
PROOF
    BY StrideAssumption DEF Aligned

\* so is the node one stride below another,
LEMMA AlignedNext ==
    ASSUME NEW m \in Nat, Aligned(m)
    PROVE  Aligned(m + STRIDE)
PROOF
    <1>1. STRIDE \in Nat /\ STRIDE > 0
        BY StrideAssumption
    <1>2. PICK i \in 0 .. m : m = i * STRIDE
        BY DEF Aligned
    <1>3. i + 1 \in 0 .. m + STRIDE
        BY <1>1
    <1>4. i \in Nat
        OBVIOUS
    <1>5. (i + 1) * STRIDE = i * STRIDE + STRIDE
        BY <1>1, <1>4
    <1>6. m + STRIDE = (i + 1) * STRIDE
        BY <1>2, <1>5
    <1> QED
        BY <1>3, <1>6 DEF Aligned

\* Of two whole numbers of strides the larger is at least one stride larger.
LEMMA AlignedApart ==
    ASSUME NEW m \in Nat, NEW n \in Nat, Aligned(m), Aligned(n), m < n
    PROVE  m + STRIDE <= n
PROOF
    <1>1. STRIDE \in Nat /\ STRIDE > 0
        BY StrideAssumption
    <1>2. PICK i \in 0 .. m : m = i * STRIDE
        BY DEF Aligned
    <1>3. PICK j \in 0 .. n : n = j * STRIDE
        BY DEF Aligned
    <1>4. i \in Nat /\ j \in Nat
        OBVIOUS
    <1>5. ~ (j <= i)
        BY <1>2, <1>3, <1>4, Multiples
    <1>6. (i + 1) * STRIDE <= j * STRIDE
        BY <1>4, <1>5, Multiples
    <1>7. (i + 1) * STRIDE = i * STRIDE + STRIDE
        BY <1>1, <1>4
    <1> QED
        BY <1>2, <1>3, <1>6, <1>7

\* and the one a stride above.
LEMMA AlignedBefore ==
    ASSUME NEW n \in Nat, Aligned(n), n # 0
    PROVE  STRIDE <= n /\ n - STRIDE \in Nat /\ Aligned(n - STRIDE)
PROOF
    <1>1. STRIDE \in Nat /\ STRIDE > 0
        BY StrideAssumption
    <1>2. PICK j \in 0 .. n : n = j * STRIDE
        BY DEF Aligned
    <1>3. j \in Nat /\ j # 0
        <2>1. j \in Nat
            OBVIOUS
        <2>2. 0 * STRIDE = 0
            BY <1>1
        <2> QED
            BY <1>2, <2>1, <2>2
    <1>4. j - 1 \in Nat /\ (j - 1) * STRIDE \in Nat
        BY <1>3, Multiples
    <1>5. j * STRIDE = (j - 1) * STRIDE + STRIDE
        <2> DEFINE i == j - 1
        <2>1. i \in Nat /\ j = i + 1
            BY <1>3
        <2> HIDE DEF i
        <2>2. j * STRIDE = i * STRIDE + STRIDE
            BY <1>1, <2>1
        <2> QED
            BY <2>2 DEF i
    <1>6. STRIDE <= n /\ n - STRIDE = (j - 1) * STRIDE
        BY <1>1, <1>2, <1>4, <1>5
    <1>7. j - 1 <= (j - 1) * STRIDE
        <2> DEFINE i == j - 1
                   s == STRIDE - 1
        <2>1. i \in Nat /\ s \in Nat /\ STRIDE = s + 1
            BY <1>1, <1>4
        <2> HIDE DEF i, s
        <2>2. i * STRIDE = i * s + i /\ i * s \in Nat
            BY <2>1
        <2>3. i <= i * STRIDE
            BY <2>1, <2>2
        <2> QED
            BY <2>3 DEF i
    <1>8. j - 1 \in 0 .. n - STRIDE
        BY <1>4, <1>6, <1>7
    <1> QED
        BY <1>4, <1>6, <1>8 DEF Aligned

\* Every length has a last whole number of strides.
LEMMA LastStop ==
    ASSUME NEW L \in Nat
    PROVE  \E n \in 0 .. L : Aligned(n) /\ L < n + STRIDE
PROOF
    <1> DEFINE T == {L - n : n \in {n \in 0 .. L : Aligned(n)}}
    <1>1. STRIDE \in Nat /\ STRIDE > 0
        BY StrideAssumption
    <1>2. T \in SUBSET Nat
        OBVIOUS
    <1>3. T # {}
        BY AlignedZero
    <1>4. PICK x \in T : \A y \in T : x <= y
        <2> HIDE DEF T
        <2> QED
            BY <1>2, <1>3, LeastOf
    <1>5. PICK n \in 0 .. L : Aligned(n) /\ x = L - n
        BY <1>4
    <1>6. SUFFICES ASSUME n + STRIDE <= L PROVE FALSE
        BY <1>1, <1>5
    <1>7. n + STRIDE \in 0 .. L /\ Aligned(n + STRIDE)
        BY <1>1, <1>5, <1>6, AlignedNext
    <1>8. L - (n + STRIDE) \in T
        BY <1>7
    <1>9. x <= L - (n + STRIDE)
        BY <1>4, <1>8
    <1> QED
        BY <1>1, <1>5, <1>9

----------------------------------------------------------------------------
(* Cells of a table, found by counting bits *)

\* The set bits from pos on.
From(B, pos) == {b \in B : b >= pos}

\* count_ones counts the bits from a position on.
LEMMA FromFinite ==
    ASSUME NEW B \in SUBSET Nat, IsFiniteSet(B), NEW pos \in Nat
    PROVE  /\ IsFiniteSet(From(B, pos)) /\ Cardinality(From(B, pos)) \in Nat
           /\ Cardinality(From(B, pos)) <= Cardinality(B)
           /\ count_ones(B, pos) \in Int /\ count_ones(B, pos) + 1 = Cardinality(From(B, pos))
PROOF
    <1>1. From(B, pos) \in SUBSET B
        BY DEF From
    <1>2. IsFiniteSet(From(B, pos)) /\ Cardinality(From(B, pos)) <= Cardinality(B)
        BY <1>1, FS_Subset
    <1>3. Cardinality(From(B, pos)) \in Nat
        BY <1>2, FS_CardinalityType
    <1>4. count_ones(B, pos) = Cardinality(From(B, pos)) - 1
        BY DEF count_ones, From
    <1> QED
        BY <1>2, <1>3, <1>4

\* A set bit has a cell.
LEMMA CellType ==
    ASSUME NEW B \in SUBSET Nat, IsFiniteSet(B), NEW pos \in B
    PROVE  count_ones(B, pos) + 1 \in 1 .. Cardinality(B)
PROOF
    <1>1. pos \in Nat /\ pos \in From(B, pos)
        BY DEF From
    <1>2. Cardinality(From(B, pos)) # 0
        BY <1>1, FromFinite, FS_EmptySet
    <1> QED
        BY <1>1, <1>2, FromFinite, FS_CardinalityType

\* Higher bits come first.
LEMMA CellOrder ==
    ASSUME NEW B \in SUBSET Nat, IsFiniteSet(B), NEW p \in B, NEW q \in B, p < q
    PROVE  count_ones(B, q) < count_ones(B, p)
PROOF
    <1>1. p \in Nat /\ q \in Nat
        OBVIOUS
    <1>2. From(B, q) \in SUBSET From(B, p) /\ p \in From(B, p) /\ p \notin From(B, q)
        <2>1. ASSUME NEW x \in From(B, q)
              PROVE  x \in From(B, p)
            <3>1. x \in B /\ x \in Nat /\ x >= q
                BY DEF From
            <3> QED
                BY <1>1, <3>1 DEF From
        <2>2. p >= p /\ ~ (p >= q)
            BY <1>1
        <2>3. p \in From(B, p) /\ p \notin From(B, q)
            BY <2>2 DEF From
        <2> QED
            BY <2>1, <2>3
    <1>3. /\ IsFiniteSet(From(B, p)) /\ Cardinality(From(B, q)) <= Cardinality(From(B, p))
          /\ Cardinality(From(B, p)) = Cardinality(From(B, q)) => From(B, p) = From(B, q)
        BY <1>1, <1>2, FromFinite, FS_Subset
    <1>4. Cardinality(From(B, p)) # Cardinality(From(B, q))
        BY <1>2, <1>3
    <1>5. /\ Cardinality(From(B, p)) \in Nat /\ Cardinality(From(B, q)) \in Nat
          /\ count_ones(B, p) + 1 = Cardinality(From(B, p))
          /\ count_ones(B, q) + 1 = Cardinality(From(B, q))
        BY <1>1, FromFinite
    <1>6. count_ones(B, p) \in Int /\ count_ones(B, q) \in Int
        BY <1>5 DEF count_ones, From
    <1> QED
        BY <1>3, <1>4, <1>5, <1>6

\* Setting a bit moves the cells of the lower bits by one.
LEMMA CellSet ==
    ASSUME NEW B \in SUBSET Nat, IsFiniteSet(B), NEW pos \in Nat, pos \notin B, NEW q \in B
    PROVE  /\ count_ones(B, q) \in Int /\ count_ones(B \cup {pos}, q) \in Int
           /\ count_ones(B \cup {pos}, pos) \in Int
           /\ q > pos => /\ count_ones(B \cup {pos}, q) = count_ones(B, q)
                         /\ count_ones(B \cup {pos}, q) < count_ones(B \cup {pos}, pos)
           /\ q < pos => /\ count_ones(B \cup {pos}, q) = count_ones(B, q) + 1
                         /\ count_ones(B \cup {pos}, pos) < count_ones(B \cup {pos}, q)
PROOF
    <1> DEFINE C == B \cup {pos}
    <1>1. C \in SUBSET Nat /\ IsFiniteSet(C) /\ pos \in C /\ q \in C /\ q \in Nat
        BY FS_AddElement
    <1>2. q > pos => From(C, q) = From(B, q)
        BY <1>1 DEF From
    <1>3. q < pos => From(C, q) = From(B, q) \cup {pos} /\ pos \notin From(B, q)
        BY <1>1 DEF From
    <1>4. /\ IsFiniteSet(From(B, q)) /\ Cardinality(From(B, q)) \in Nat
          /\ count_ones(B, q) = Cardinality(From(B, q)) - 1
        BY <1>1, FromFinite DEF count_ones, From
    <1>5. Cardinality(From(C, q)) \in Nat /\ count_ones(C, q) = Cardinality(From(C, q)) - 1
        BY <1>1, FromFinite DEF count_ones, From
    <1>6. Cardinality(From(C, pos)) \in Nat /\ count_ones(C, pos) = Cardinality(From(C, pos)) - 1
        BY <1>1, FromFinite DEF count_ones, From
    <1>7. q < pos => Cardinality(From(C, q)) = Cardinality(From(B, q)) + 1
        BY <1>3, <1>4, FS_AddElement
    <1>8. q > pos => count_ones(C, q) < count_ones(C, pos)
        BY <1>1, CellOrder
    <1>9. q < pos => count_ones(C, pos) < count_ones(C, q)
        BY <1>1, CellOrder
    <1> HIDE DEF C
    <1>10. q > pos => count_ones(C, q) = count_ones(B, q)
        BY <1>2, <1>4, <1>5
    <1>11. q < pos => count_ones(C, q) = count_ones(B, q) + 1
        BY <1>4, <1>5, <1>7
    <1>12. count_ones(B, q) \in Int /\ count_ones(C, q) \in Int /\ count_ones(C, pos) \in Int
        BY <1>4, <1>5, <1>6
    <1> QED
        BY <1>8, <1>9, <1>10, <1>11, <1>12 DEF C

\* r is s with x as its cell c.
Grown(V, s, c, x, r) ==
    /\ r \in Seq(V) /\ Len(r) = Len(s) + 1 /\ r[c] = x
    /\ \A k \in 1 .. c - 1 : r[k] = s[k]
    /\ \A k \in c .. Len(s) : r[k + 1] = s[k]

\* Inserting a cell moves those behind it by one.
LEMMA InsertAtCells ==
    ASSUME NEW V, NEW s \in Seq(V), NEW c \in 1 .. Len(s) + 1, NEW x \in V
    PROVE  Grown(V, s, c, x, InsertAt(s, c, x))
PROOF
    <1> DEFINE a == SubSeq(s, 1, c - 1)
               e == <<x>>
               b == SubSeq(s, c, Len(s))
               l == a \o e
               r == l \o b
    <1>1. Len(s) \in Nat /\ c \in Nat /\ c - 1 \in Nat /\ c >= 1 /\ c - 1 <= Len(s)
        OBVIOUS
    <1>2. a \in Seq(V) /\ Len(a) = c - 1 /\ \A i \in 1 .. c - 1 : a[i] = s[i]
        BY <1>1
    <1>3. b \in Seq(V) /\ Len(b) = Len(s) - c + 1 /\ \A i \in 1 .. Len(s) - c + 1 : b[i] = s[c + i - 1]
        <2>1. \A i \in c .. Len(s) : s[i] \in V
            BY <1>1, ElementOfSeq
        <2>2. /\ b \in Seq(V) /\ Len(b) = IF c <= Len(s) THEN Len(s) - c + 1 ELSE 0
              /\ \A i \in 1 .. Len(s) - c + 1 : b[i] = s[c + i - 1]
            BY <1>1, <2>1, SubSeqProperties
        <2> HIDE DEF b
        <2>3. Len(b) = Len(s) - c + 1
            BY <1>1, <2>2
        <2> QED
            BY <2>2, <2>3
    <1>4. e \in Seq(V) /\ Len(e) = 1 /\ e[1] = x
        OBVIOUS
    <1> HIDE DEF a, b, e
    <1>5. /\ l \in Seq(V) /\ Len(l) = c
          /\ \A i \in 1 .. c : l[i] = IF i <= c - 1 THEN a[i] ELSE e[i - (c - 1)]
        <2>1. /\ l \in Seq(V) /\ Len(l) = Len(a) + Len(e)
              /\ \A i \in 1 .. Len(a) + Len(e) : l[i] = IF i <= Len(a) THEN a[i] ELSE e[i - Len(a)]
            BY <1>2, <1>4, ConcatProperties
        <2>2. Len(a) + Len(e) = c
            BY <1>1, <1>2, <1>4
        <2> HIDE DEF l
        <2> QED
            BY <1>2, <2>1, <2>2
    <1>6. l[c] = x /\ \A i \in 1 .. c - 1 : l[i] = s[i]
        <2>1. c \in 1 .. c /\ ~ (c <= c - 1) /\ c - (c - 1) = 1
            BY <1>1
        <2>2. l[c] = x
            BY <1>4, <1>5, <2>1
        <2>3. \A i \in 1 .. c - 1 : l[i] = s[i]
            BY <1>1, <1>2, <1>5
        <2> QED
            BY <2>2, <2>3
    <1> HIDE DEF l
    <1>7. /\ r \in Seq(V) /\ Len(r) = c + (Len(s) - c + 1)
          /\ \A i \in 1 .. c + (Len(s) - c + 1) : r[i] = IF i <= c THEN l[i] ELSE b[i - c]
        <2>1. /\ r \in Seq(V) /\ Len(r) = Len(l) + Len(b)
              /\ \A i \in 1 .. Len(l) + Len(b) : r[i] = IF i <= Len(l) THEN l[i] ELSE b[i - Len(l)]
            BY <1>3, <1>5, ConcatProperties
        <2> HIDE DEF r
        <2> QED
            BY <1>3, <1>5, <2>1
    <1>8. r = InsertAt(s, c, x)
        BY DEF InsertAt, r, l, a, b, e
    <1> HIDE DEF r
    <1>9. Len(r) = Len(s) + 1
        BY <1>1, <1>7
    <1>10. r[c] = x
        BY <1>1, <1>6, <1>7
    <1>11. ASSUME NEW k \in 1 .. c - 1
           PROVE  r[k] = s[k]
        <2>1. k \in 1 .. c + (Len(s) - c + 1) /\ k <= c
            BY <1>1
        <2> QED
            BY <1>6, <1>7, <2>1
    <1>12. ASSUME NEW k \in c .. Len(s)
           PROVE  r[k + 1] = s[k]
        <2>1. /\ k + 1 \in 1 .. c + (Len(s) - c + 1) /\ ~ (k + 1 <= c)
              /\ (k + 1) - c \in 1 .. Len(s) - c + 1 /\ c + ((k + 1) - c) - 1 = k
            BY <1>1
        <2>2. r[k + 1] = b[(k + 1) - c]
            BY <1>7, <2>1
        <2>3. b[(k + 1) - c] = s[c + ((k + 1) - c) - 1]
            BY <1>3, <2>1
        <2> QED
            BY <2>1, <2>2, <2>3
    <1> QED
        BY <1>7, <1>8, <1>9, <1>10, <1>11, <1>12 DEF Grown

\* Removing a cell moves those behind it back.
LEMMA RemoveAtCells ==
    ASSUME NEW V, NEW s \in Seq(V), NEW c \in 1 .. Len(s)
    PROVE  /\ RemoveAt(s, c) \in Seq(V) /\ Len(RemoveAt(s, c)) = Len(s) - 1
           /\ \A k \in 1 .. Len(s) - 1 : /\ k < c => RemoveAt(s, c)[k] = s[k]
                                         /\ k >= c => RemoveAt(s, c)[k] = s[k + 1]
PROOF
    <1> DEFINE a == SubSeq(s, 1, c - 1)
               b == SubSeq(s, c + 1, Len(s))
               r == a \o b
    <1>1. Len(s) \in Nat /\ c \in Nat /\ c - 1 \in Nat /\ c >= 1 /\ c <= Len(s)
        OBVIOUS
    <1>2. a \in Seq(V) /\ Len(a) = c - 1 /\ \A i \in 1 .. c - 1 : a[i] = s[i]
        BY <1>1
    <1>3. b \in Seq(V) /\ Len(b) = Len(s) - c /\ \A i \in 1 .. Len(s) - c : b[i] = s[c + i]
        <2>1. \A i \in c + 1 .. Len(s) : s[i] \in V
            BY <1>1, ElementOfSeq
        <2>2. /\ b \in Seq(V) /\ Len(b) = IF c + 1 <= Len(s) THEN Len(s) - (c + 1) + 1 ELSE 0
              /\ \A i \in 1 .. Len(s) - (c + 1) + 1 : b[i] = s[(c + 1) + i - 1]
            BY <1>1, <2>1, SubSeqProperties
        <2> HIDE DEF b
        <2>3. Len(b) = Len(s) - c /\ Len(s) - (c + 1) + 1 = Len(s) - c
            BY <1>1, <2>2
        <2>4. ASSUME NEW i \in 1 .. Len(s) - c
              PROVE  b[i] = s[c + i]
            <3>1. (c + 1) + i - 1 = c + i
                BY <1>1
            <3> QED
                BY <2>2, <2>3, <3>1
        <2> QED
            BY <2>2, <2>3, <2>4
    <1> HIDE DEF a, b
    <1>4. /\ r \in Seq(V) /\ Len(r) = (c - 1) + (Len(s) - c)
          /\ \A i \in 1 .. (c - 1) + (Len(s) - c) : r[i] = IF i <= c - 1 THEN a[i] ELSE b[i - (c - 1)]
        <2>1. /\ r \in Seq(V) /\ Len(r) = Len(a) + Len(b)
              /\ \A i \in 1 .. Len(a) + Len(b) : r[i] = IF i <= Len(a) THEN a[i] ELSE b[i - Len(a)]
            BY <1>2, <1>3, ConcatProperties
        <2> HIDE DEF r
        <2> QED
            BY <1>2, <1>3, <2>1
    <1>5. r = RemoveAt(s, c)
        BY DEF RemoveAt, r, a, b
    <1> HIDE DEF r
    <1>6. Len(r) = Len(s) - 1
        BY <1>1, <1>4
    <1>7. ASSUME NEW k \in 1 .. Len(s) - 1, k < c
          PROVE  r[k] = s[k]
        <2>1. k \in 1 .. (c - 1) + (Len(s) - c) /\ k <= c - 1 /\ k \in 1 .. c - 1
            BY <1>1, <1>7
        <2> QED
            BY <1>2, <1>4, <2>1
    <1>8. ASSUME NEW k \in 1 .. Len(s) - 1, k >= c
          PROVE  r[k] = s[k + 1]
        <2>1. /\ k \in 1 .. (c - 1) + (Len(s) - c) /\ ~ (k <= c - 1)
              /\ k - (c - 1) \in 1 .. Len(s) - c /\ c + (k - (c - 1)) = k + 1
            BY <1>1, <1>8
        <2>2. r[k] = b[k - (c - 1)]
            BY <1>4, <2>1
        <2>3. b[k - (c - 1)] = s[c + (k - (c - 1))]
            BY <1>3, <2>1
        <2> QED
            BY <2>1, <2>2, <2>3
    <1> QED
        BY <1>4, <1>5, <1>6, <1>7, <1>8

\* Inserting the cell of a bit that is set leaves the cells of the others.
CellGrown(V, B, s, pos, x, C, r) ==
    /\ C \in SUBSET Nat /\ IsFiniteSet(C)
    /\ r \in Seq(V) /\ Len(r) = Cardinality(C)
    /\ r[count_ones(C, pos) + 1] = x
    /\ \A q \in B : r[count_ones(C, q) + 1] = s[count_ones(B, q) + 1]

\* A cell is inserted where counting the bits of the new bitmap finds it
\* (extend_rule, extend_child).
LEMMA InsertCell ==
    ASSUME NEW V, NEW B \in SUBSET Nat, IsFiniteSet(B), NEW s \in Seq(V), Len(s) = Cardinality(B),
           NEW pos \in Nat, pos \notin B, NEW x \in V
    PROVE  CellGrown(V, B, s, pos, x, B \cup {pos},
                     InsertAt(s, count_ones(B \cup {pos}, pos) + 1, x))
PROOF
    <1> DEFINE C == B \cup {pos}
               c == count_ones(C, pos) + 1
               r == InsertAt(s, c, x)
    <1>1. C \in SUBSET Nat /\ IsFiniteSet(C) /\ Cardinality(C) = Cardinality(B) + 1 /\ pos \in C
        BY FS_AddElement
    <1>2. Cardinality(B) \in Nat
        BY FS_CardinalityType
    <1>3. c \in 1 .. Len(s) + 1
        BY <1>1, <1>2, CellType
    <1>4. /\ r \in Seq(V) /\ Len(r) = Len(s) + 1 /\ r[c] = x
          /\ \A k \in 1 .. c - 1 : r[k] = s[k]
          /\ \A k \in c .. Len(s) : r[k + 1] = s[k]
        <2>1. Grown(V, s, c, x, r)
            <3> HIDE DEF c, C
            <3> QED
                BY <1>3, InsertAtCells
        <2> HIDE DEF c, C, r
        <2> QED
            BY <2>1 DEF Grown
    <1>5. ASSUME NEW q \in B
          PROVE  r[count_ones(C, q) + 1] = s[count_ones(B, q) + 1]
        <2>1. count_ones(B, q) + 1 \in 1 .. Len(s)
            BY CellType
        <2>2. q \in Nat /\ q # pos
            OBVIOUS
        <2>3. /\ count_ones(B, q) \in Int /\ count_ones(C, q) \in Int /\ count_ones(C, pos) \in Int
              /\ q > pos => /\ count_ones(C, q) = count_ones(B, q)
                            /\ count_ones(C, q) < count_ones(C, pos)
              /\ q < pos => /\ count_ones(C, q) = count_ones(B, q) + 1
                            /\ count_ones(C, pos) < count_ones(C, q)
            BY CellSet
        <2> DEFINE k == count_ones(B, q) + 1
        <2>4. CASE q > pos
            <3>1. count_ones(C, q) + 1 = k /\ k \in 1 .. c - 1
                BY <2>1, <2>3, <2>4
            <3> HIDE DEF r, c, k, C
            <3> QED
                BY <1>4, <3>1 DEF k
        <2>5. CASE q < pos
            <3>1. count_ones(C, q) + 1 = k + 1 /\ k \in c .. Len(s)
                BY <2>1, <2>3, <2>5
            <3> HIDE DEF r, c, k, C
            <3> QED
                BY <1>4, <3>1 DEF k
        <2> QED
            BY <2>2, <2>4, <2>5
    <1> HIDE DEF r, c, C
    <1>6. Len(r) = Cardinality(C)
        BY <1>1, <1>4
    <1> QED
        BY <1>1, <1>4, <1>5, <1>6 DEF CellGrown, r, c, C

\* Removing the cell of a bit that is cleared leaves the cells of the others.
CellGone(V, B, s, C, r) ==
    /\ C \in SUBSET Nat /\ IsFiniteSet(C)
    /\ r \in Seq(V) /\ Len(r) = Cardinality(C)
    /\ \A q \in C : r[count_ones(C, q) + 1] = s[count_ones(B, q) + 1]

\* The cell that goes is the one of the bit that goes (reduce_rule,
\* reduce_child).
LEMMA RemoveCell ==
    ASSUME NEW V, NEW B \in SUBSET Nat, IsFiniteSet(B), NEW s \in Seq(V), Len(s) = Cardinality(B),
           NEW pos \in B
    PROVE  CellGone(V, B, s, B \ {pos}, RemoveAt(s, count_ones(B, pos) + 1))
PROOF
    <1> DEFINE C == B \ {pos}
               c == count_ones(B, pos) + 1
               r == RemoveAt(s, c)
    <1>1. C \in SUBSET Nat /\ IsFiniteSet(C) /\ Cardinality(C) = Cardinality(B) - 1 /\ pos \notin C
        BY FS_RemoveElement
    <1>2. C \cup {pos} = B /\ pos \in Nat
        OBVIOUS
    <1>3. Cardinality(B) \in Nat /\ Cardinality(C) \in Nat
        BY <1>1, FS_CardinalityType
    <1>4. c \in 1 .. Len(s)
        BY CellType
    <1>5. /\ r \in Seq(V) /\ Len(r) = Len(s) - 1
          /\ \A k \in 1 .. Len(s) - 1 : /\ k < c => r[k] = s[k]
                                        /\ k >= c => r[k] = s[k + 1]
        BY <1>4, RemoveAtCells
    <1>6. ASSUME NEW q \in C
          PROVE  r[count_ones(C, q) + 1] = s[count_ones(B, q) + 1]
        <2> DEFINE k == count_ones(C, q) + 1
        <2>1. k \in 1 .. Len(s) - 1
            BY <1>1, CellType
        <2>2. q \in Nat /\ q # pos
            OBVIOUS
        <2>3. /\ count_ones(C, q) \in Int /\ count_ones(B, q) \in Int /\ count_ones(B, pos) \in Int
              /\ q > pos => /\ count_ones(B, q) = count_ones(C, q)
                            /\ count_ones(B, q) < count_ones(B, pos)
              /\ q < pos => /\ count_ones(B, q) = count_ones(C, q) + 1
                            /\ count_ones(B, pos) < count_ones(B, q)
            <3> HIDE DEF C
            <3> QED
                BY <1>1, <1>2, CellSet
        <2>4. CASE q > pos
            <3>1. count_ones(B, q) + 1 = k /\ k < c
                BY <2>3, <2>4
            <3> HIDE DEF r, c, k, C
            <3> QED
                BY <1>5, <2>1, <3>1 DEF k
        <2>5. CASE q < pos
            <3>1. count_ones(B, q) + 1 = k + 1 /\ k >= c
                BY <2>3, <2>5
            <3> HIDE DEF r, c, k, C
            <3> QED
                BY <1>5, <2>1, <3>1 DEF k
        <2> QED
            BY <1>2, <2>2, <2>4, <2>5
    <1> HIDE DEF r, c, C
    <1>7. Len(r) = Cardinality(C)
        BY <1>1, <1>5
    <1> QED
        BY <1>1, <1>5, <1>6, <1>7 DEF CellGone, r, c, C

\* Overwriting one cell leaves the others.
CellWritten(V, B, s, pos, x, r) ==
    /\ r \in Seq(V) /\ Len(r) = Cardinality(B)
    /\ r[count_ones(B, pos) + 1] = x
    /\ \A q \in B : q # pos => r[count_ones(B, q) + 1] = s[count_ones(B, q) + 1]

\* A cell that is overwritten leaves the others alone.
LEMMA OverwriteCell ==
    ASSUME NEW V, NEW B \in SUBSET Nat, IsFiniteSet(B), NEW s \in Seq(V), Len(s) = Cardinality(B),
           NEW pos \in B, NEW x \in V
    PROVE  CellWritten(V, B, s, pos, x, [s EXCEPT ![count_ones(B, pos) + 1] = x])
PROOF
    <1> DEFINE c == count_ones(B, pos) + 1
               r == [s EXCEPT ![c] = x]
    <1>1. c \in 1 .. Len(s)
        BY CellType
    <1>2. /\ r \in Seq(V) /\ Len(r) = Len(s)
          /\ \A k \in 1 .. Len(s) : r[k] = IF k = c THEN x ELSE s[k]
        BY <1>1, ExceptSeq
    <1>3. ASSUME NEW q \in B, q # pos
          PROVE  r[count_ones(B, q) + 1] = s[count_ones(B, q) + 1]
        <2>1. count_ones(B, q) + 1 \in 1 .. Len(s)
            BY CellType
        <2>2. q \in Nat /\ pos \in Nat
            OBVIOUS
        <2>3. count_ones(B, q) \in Int /\ count_ones(B, pos) \in Int
            BY <2>2, FromFinite
        <2>4. q < pos => count_ones(B, pos) < count_ones(B, q)
            BY CellOrder
        <2>5. pos < q => count_ones(B, q) < count_ones(B, pos)
            BY CellOrder
        <2>6. count_ones(B, q) + 1 # c
            BY <1>3, <2>2, <2>3, <2>4, <2>5
        <2> HIDE DEF r, c
        <2> QED
            BY <1>2, <2>1, <2>6
    <1> HIDE DEF r, c
    <1> QED
        BY <1>1, <1>2, <1>3 DEF CellWritten, r, c

----------------------------------------------------------------------------
(* One node *)

Nodes(V) == [internal : SUBSET Nat, external : SUBSET Nat, rules : Seq(V), children : Seq(Seq(Bit))]

\* A node whose block has the cells its bitmaps say.
Shape(V, n) ==
    /\ n \in Nodes(V)
    /\ n.internal \subseteq {count_inl_bitmap(b) : b \in Shorts}
    /\ n.external \subseteq {count_enl_bitmap(s) : s \in Strides}
    /\ Len(n.rules) = Cardinality(n.internal)
    /\ Len(n.children) = Cardinality(n.external)

\* Bitmaps have finitely many bits.
LEMMA ShapeFinite ==
    ASSUME NEW V, NEW n, Shape(V, n)
    PROVE  IsFiniteSet(n.internal) /\ IsFiniteSet(n.external)
PROOF
    <1>1. 2^STRIDE \in Nat
        BY StrideAssumption, PowNext
    <1>2. n.internal \in SUBSET Nat /\ n.external \in SUBSET Nat
        BY DEF Shape, Nodes
    <1>3. \A x \in n.internal : x <= 2^STRIDE
        <2>1. \A b \in Shorts : count_inl_bitmap(b) <= 2^STRIDE
            BY <1>1, InlNat
        <2> QED
            BY <2>1 DEF Shape
    <1>4. \A x \in n.external : x <= 2^STRIDE
        <2>1. \A s \in Strides : count_enl_bitmap(s) <= 2^STRIDE
            BY <1>1, EnlNat
        <2> QED
            BY <2>1 DEF Shape
    <1>5. IsFiniteSet(n.internal)
        BY <1>1, <1>2, <1>3, FS_BoundedSetOfNaturals
    <1>6. IsFiniteSet(n.external)
        BY <1>1, <1>2, <1>4, FS_BoundedSetOfNaturals
    <1> QED
        BY <1>5, <1>6

\* calloc makes a node without cells.
LEMMA EmptyShape ==
    ASSUME NEW V
    PROVE  Shape(V, EmptyNode) /\ IsEmpty(EmptyNode)
PROOF
    <1>1. Cardinality({}) = 0
        BY FS_EmptySet
    <1>2. <<>> \in Seq(V) /\ <<>> \in Seq(Seq(Bit))
        OBVIOUS
    <1>3. EmptyNode \in Nodes(V)
        BY <1>2 DEF EmptyNode, Nodes
    <1>4. Len(EmptyNode.rules) = 0 /\ Len(EmptyNode.children) = 0
        BY DEF EmptyNode
    <1> QED
        BY <1>1, <1>3, <1>4 DEF Shape, EmptyNode, IsEmpty

\* m is n with next hop x for the bit pos.
RuleSet(V, n, pos, x, m) ==
    /\ Shape(V, m)
    /\ m.internal = n.internal \cup {pos} /\ m.external = n.external /\ m.children = n.children
    /\ Rule(m, pos) = x
    /\ \A q \in n.internal : q # pos => Rule(m, q) = Rule(n, q)

\* with_rule gives a node one rule and keeps the others, whatever the block
\* held.
LEMMA WithRuleCells ==
    ASSUME NEW V, NEW n, Shape(V, n), NEW b \in Shorts, NEW x \in V
    PROVE  RuleSet(V, n, count_inl_bitmap(b), x, with_rule(n, count_inl_bitmap(b), x))
PROOF
    <1> DEFINE pos == count_inl_bitmap(b)
               m == with_rule(n, pos, x)
               B == n.internal
               C == B \cup {pos}
    <1>1. pos \in Nat
        BY InlNat
    <1>2. pos \in {count_inl_bitmap(c) : c \in Shorts}
        OBVIOUS
    <1> HIDE DEF pos
    <1>3. n \in Nodes(V) /\ B \in SUBSET Nat /\ n.rules \in Seq(V) /\ Len(n.rules) = Cardinality(B)
        BY DEF Shape, Nodes
    <1>4. IsFiniteSet(B)
        BY ShapeFinite
    <1>5. CASE pos \in B
        <2> DEFINE r == [n.rules EXCEPT ![count_ones(B, pos) + 1] = x]
        <2>0. CellWritten(V, B, n.rules, pos, x, r)
            <3> HIDE DEF B
            <3> QED
                BY <1>3, <1>4, <1>5, OverwriteCell
        <2>1. /\ r \in Seq(V) /\ Len(r) = Cardinality(B)
              /\ r[count_ones(B, pos) + 1] = x
              /\ \A q \in B : q # pos => r[count_ones(B, q) + 1] = n.rules[count_ones(B, q) + 1]
            <3> HIDE DEF r
            <3> QED
                BY <2>0 DEF CellWritten
        <2>2. m = [n EXCEPT !.rules = r]
            BY <1>5 DEF with_rule
        <2> HIDE DEF r
        <2>3. /\ m \in Nodes(V) /\ m.internal = B /\ m.external = n.external
              /\ m.children = n.children /\ m.rules = r
            BY <1>3, <2>1, <2>2 DEF Nodes
        <2>4. B = C
            BY <1>5
        <2>5. Shape(V, m)
            BY <2>1, <2>3 DEF Shape
        <2>6. Rule(m, pos) = x
            BY <2>1, <2>3 DEF Rule
        <2>7. \A q \in B : q # pos => Rule(m, q) = Rule(n, q)
            BY <2>1, <2>3 DEF Rule
        <2> QED
            BY <2>3, <2>4, <2>5, <2>6, <2>7 DEF RuleSet, pos
    <1>6. CASE pos \notin B
        <2> DEFINE r == InsertAt(n.rules, count_ones(C, pos) + 1, x)
        <2>0. CellGrown(V, B, n.rules, pos, x, C, r)
            <3> HIDE DEF B
            <3> QED
                BY <1>1, <1>3, <1>4, <1>6, InsertCell
        <2>1. /\ C \in SUBSET Nat /\ IsFiniteSet(C)
              /\ r \in Seq(V) /\ Len(r) = Cardinality(C)
              /\ r[count_ones(C, pos) + 1] = x
              /\ \A q \in B : r[count_ones(C, q) + 1] = n.rules[count_ones(B, q) + 1]
            <3> HIDE DEF r, C
            <3> QED
                BY <2>0 DEF CellGrown
        <2>2. m = [[n EXCEPT !.internal = C] EXCEPT !.rules = r]
            <3>1. [n EXCEPT !.internal = C].internal = C /\ [n EXCEPT !.internal = C].rules = n.rules
                BY <1>3 DEF Nodes
            <3> QED
                BY <1>6, <3>1 DEF with_rule, extend_rule
        <2> HIDE DEF r, C
        <2>3. /\ m \in Nodes(V) /\ m.internal = C /\ m.external = n.external
              /\ m.children = n.children /\ m.rules = r
            BY <1>3, <2>1, <2>2 DEF Nodes
        <2>4. C \subseteq {count_inl_bitmap(c) : c \in Shorts}
            BY <1>2 DEF Shape, C
        <2>5. Shape(V, m)
            BY <2>1, <2>3, <2>4 DEF Shape
        <2>6. Rule(m, pos) = x
            BY <2>1, <2>3 DEF Rule
        <2>7. \A q \in B : Rule(m, q) = Rule(n, q)
            BY <2>1, <2>3 DEF Rule
        <2> QED
            BY <2>3, <2>5, <2>6, <2>7 DEF RuleSet, pos, C
    <1> QED
        BY <1>5, <1>6

\* m is n with the child next for the bit pos.
ChildSet(V, n, pos, next, m) ==
    /\ Shape(V, m)
    /\ m.external = n.external \cup {pos} /\ m.internal = n.internal /\ m.rules = n.rules
    /\ Child(m, pos) = next
    /\ \A q \in n.external : q # pos => Child(m, q) = Child(n, q)

\* with_child gives a node one child and keeps the others.
LEMMA WithChildCells ==
    ASSUME NEW V, NEW n, Shape(V, n), NEW s \in Strides, NEW next \in Seq(Bit),
           count_enl_bitmap(s) \in n.external => Child(n, count_enl_bitmap(s)) = next
    PROVE  ChildSet(V, n, count_enl_bitmap(s), next, with_child(n, count_enl_bitmap(s), next))
PROOF
    <1> DEFINE pos == count_enl_bitmap(s)
               m == with_child(n, pos, next)
               B == n.external
               C == B \cup {pos}
    <1>1. pos \in Nat
        BY EnlNat
    <1>2. pos \in {count_enl_bitmap(c) : c \in Strides}
        OBVIOUS
    <1>0. pos \in B => Child(n, pos) = next
        OBVIOUS
    <1> HIDE DEF pos
    <1>3. /\ n \in Nodes(V) /\ B \in SUBSET Nat /\ n.children \in Seq(Seq(Bit))
          /\ Len(n.children) = Cardinality(B)
        BY DEF Shape, Nodes
    <1>4. IsFiniteSet(B)
        BY ShapeFinite
    <1>5. CASE pos \in B
        <2>1. m = n
            BY <1>5 DEF with_child
        <2>2. B = C
            BY <1>5
        <2> QED
            BY <1>0, <1>5, <2>1, <2>2 DEF ChildSet, pos
    <1>6. CASE pos \notin B
        <2> DEFINE r == InsertAt(n.children, count_ones(C, pos) + 1, next)
        <2>0. CellGrown(Seq(Bit), B, n.children, pos, next, C, r)
            <3> HIDE DEF B
            <3> QED
                BY <1>1, <1>3, <1>4, <1>6, InsertCell
        <2>1. /\ C \in SUBSET Nat /\ IsFiniteSet(C)
              /\ r \in Seq(Seq(Bit)) /\ Len(r) = Cardinality(C)
              /\ r[count_ones(C, pos) + 1] = next
              /\ \A q \in B : r[count_ones(C, q) + 1] = n.children[count_ones(B, q) + 1]
            <3> HIDE DEF r, C
            <3> QED
                BY <2>0 DEF CellGrown
        <2>2. m = [[n EXCEPT !.external = C] EXCEPT !.children = r]
            <3>1. [n EXCEPT !.external = C].external = C /\ [n EXCEPT !.external = C].children = n.children
                BY <1>3 DEF Nodes
            <3> QED
                BY <1>6, <3>1 DEF with_child, extend_child
        <2> HIDE DEF r, C
        <2>3. /\ m \in Nodes(V) /\ m.external = C /\ m.internal = n.internal
              /\ m.rules = n.rules /\ m.children = r
            BY <1>3, <2>1, <2>2 DEF Nodes
        <2>4. C \subseteq {count_enl_bitmap(c) : c \in Strides}
            BY <1>2 DEF Shape, C
        <2>5. Shape(V, m)
            BY <2>1, <2>3, <2>4 DEF Shape
        <2>6. Child(m, pos) = next
            BY <2>1, <2>3 DEF Child
        <2>7. \A q \in B : Child(m, q) = Child(n, q)
            BY <2>1, <2>3 DEF Child
        <2> QED
            BY <2>3, <2>5, <2>6, <2>7 DEF ChildSet, pos, C
    <1> QED
        BY <1>5, <1>6

\* m is n without the bit pos and its next hop.
RuleCleared(V, n, pos, m) ==
    /\ Shape(V, m)
    /\ m.internal = n.internal \ {pos} /\ m.external = n.external /\ m.children = n.children
    /\ \A q \in m.internal : Rule(m, q) = Rule(n, q)

\* without_rule takes one rule away and keeps the others.
LEMMA WithoutRuleCells ==
    ASSUME NEW V, NEW n, Shape(V, n), NEW pos \in n.internal
    PROVE  RuleCleared(V, n, pos, without_rule(n, pos))
PROOF
    <1> DEFINE m == without_rule(n, pos)
               B == n.internal
               C == B \ {pos}
               r == RemoveAt(n.rules, count_ones(B, pos) + 1)
    <1>1. n \in Nodes(V) /\ B \in SUBSET Nat /\ n.rules \in Seq(V) /\ Len(n.rules) = Cardinality(B)
        BY DEF Shape, Nodes
    <1>2. IsFiniteSet(B)
        BY ShapeFinite
    <1>3. /\ C \in SUBSET Nat /\ IsFiniteSet(C)
          /\ r \in Seq(V) /\ Len(r) = Cardinality(C)
          /\ \A q \in C : r[count_ones(C, q) + 1] = n.rules[count_ones(B, q) + 1]
        <2>1. pos \in B
            OBVIOUS
        <2>2. CellGone(V, B, n.rules, C, r)
            <3> HIDE DEF B
            <3> QED
                BY <1>1, <1>2, <2>1, RemoveCell
        <2> HIDE DEF r, C
        <2> QED
            BY <2>2 DEF CellGone
    <1>4. m = [[n EXCEPT !.rules = r] EXCEPT !.internal = C]
        <2>1. [n EXCEPT !.rules = r].internal = B
            BY <1>1 DEF Nodes
        <2> QED
            BY <2>1 DEF without_rule, reduce_rule
    <1> HIDE DEF r, C
    <1>5. /\ m \in Nodes(V) /\ m.internal = C /\ m.external = n.external
          /\ m.children = n.children /\ m.rules = r
        BY <1>1, <1>3, <1>4 DEF Nodes
    <1>6. C \subseteq {count_inl_bitmap(c) : c \in Shorts}
        BY DEF Shape, C
    <1>7. Shape(V, m)
        BY <1>3, <1>5, <1>6 DEF Shape
    <1>8. \A q \in C : Rule(m, q) = Rule(n, q)
        BY <1>3, <1>5 DEF Rule
    <1> QED
        BY <1>5, <1>7, <1>8 DEF RuleCleared, C

\* m is n without the bit pos and its child.
ChildCleared(V, n, pos, m) ==
    /\ Shape(V, m)
    /\ m.external = n.external \ {pos} /\ m.internal = n.internal /\ m.rules = n.rules
    /\ \A q \in m.external : Child(m, q) = Child(n, q)

\* Pruned takes one child away and keeps the others.
LEMMA PrunedCells ==
    ASSUME NEW V, NEW n, Shape(V, n), NEW pos \in n.external
    PROVE  ChildCleared(V, n, pos, Pruned(n, pos))
PROOF
    <1> DEFINE m == Pruned(n, pos)
               B == n.external
               C == B \ {pos}
               r == RemoveAt(n.children, count_ones(B, pos) + 1)
    <1>1. /\ n \in Nodes(V) /\ B \in SUBSET Nat /\ n.children \in Seq(Seq(Bit))
          /\ Len(n.children) = Cardinality(B)
        BY DEF Shape, Nodes
    <1>2. IsFiniteSet(B)
        BY ShapeFinite
    <1>3. /\ C \in SUBSET Nat /\ IsFiniteSet(C)
          /\ r \in Seq(Seq(Bit)) /\ Len(r) = Cardinality(C)
          /\ \A q \in C : r[count_ones(C, q) + 1] = n.children[count_ones(B, q) + 1]
        <2>1. pos \in B
            OBVIOUS
        <2>2. CellGone(Seq(Bit), B, n.children, C, r)
            <3> HIDE DEF B
            <3> QED
                BY <1>1, <1>2, <2>1, RemoveCell
        <2> HIDE DEF r, C
        <2> QED
            BY <2>2 DEF CellGone
    <1>4. m = [[n EXCEPT !.children = r] EXCEPT !.external = C]
        <2>1. [n EXCEPT !.children = r].external = B
            BY <1>1 DEF Nodes
        <2> QED
            BY <2>1 DEF Pruned, reduce_child
    <1> HIDE DEF r, C
    <1>5. /\ m \in Nodes(V) /\ m.external = C /\ m.internal = n.internal
          /\ m.rules = n.rules /\ m.children = r
        BY <1>1, <1>3, <1>4 DEF Nodes
    <1>6. C \subseteq {count_enl_bitmap(c) : c \in Strides}
        BY DEF Shape, C
    <1>7. Shape(V, m)
        BY <1>3, <1>5, <1>6 DEF Shape
    <1>8. \A q \in C : Child(m, q) = Child(n, q)
        BY <1>3, <1>5 DEF Child
    <1> QED
        BY <1>5, <1>7, <1>8 DEF ChildCleared, C

----------------------------------------------------------------------------
(* Walking down a trie *)

\* A trie whose blocks are exact, with next hops in V.
Exact(V, t) ==
    /\ t = [d \in DOMAIN t |-> t[d]]
    /\ TrieExact(t)
    /\ \A d \in DOMAIN t : Shape(V, t[d])

\* What every node of an exact trie has.
LEMMA ExactNodes ==
    ASSUME NEW V, NEW t, Exact(V, t)
    PROVE  /\ <<>> \in DOMAIN t
           /\ \A d \in DOMAIN t :
                 /\ d \in Keys /\ d \in Seq(Bit) /\ Len(d) \in Nat /\ Len(d) <= KeyLength
                 /\ Aligned(Len(d)) /\ Shape(V, t[d])
                 /\ \A s \in Strides : count_enl_bitmap(s) \in t[d].external =>
                       d \o s \in DOMAIN t /\ Child(t[d], count_enl_bitmap(s)) = d \o s
PROOF
    BY KeyIsSeq, KeyLengthAssumption DEF Exact, TrieExact, NodeExact

\* The empty prefix is the one without bits.
LEMMA EmptyLength ==
    /\ <<>> \in Seq(Bit) /\ Len(<<>>) = 0
    /\ \A d \in Seq(Bit) : Len(d) = 0 => d = <<>>
PROOF
    OBVIOUS

\* The node above one that is not the root, and the bit that leads back.
LEMMA ExactUp ==
    ASSUME NEW V, NEW t, Exact(V, t), NEW d \in DOMAIN t, d # <<>>
    PROVE  /\ STRIDE <= Len(d) /\ Up(d) \in DOMAIN t
           /\ Len(Up(d)) = Len(d) - STRIDE /\ Covers(Up(d), d)
           /\ LastStride(d) \in Strides
           /\ count_enl_bitmap(LastStride(d)) \in t[Up(d)].external
           /\ Child(t[Up(d)], count_enl_bitmap(LastStride(d))) = d
           /\ ~ IsEmpty(t[d])
PROOF
    <1>1. d \in Seq(Bit) /\ Len(d) \in Nat /\ Aligned(Len(d))
        BY ExactNodes
    <1>2. Len(d) # 0
        BY <1>1, EmptyLength
    <1>3. STRIDE <= Len(d)
        BY <1>1, <1>2, AlignedBefore
    <1>4. /\ Len(Up(d)) = Len(d) - STRIDE /\ Covers(Up(d), d)
          /\ LastStride(d) \in Strides /\ Up(d) \o LastStride(d) = d
        BY <1>1, <1>3, Parted
    <1>5. /\ ~ IsEmpty(t[d]) /\ Up(d) \in DOMAIN t
          /\ count_enl_bitmap(LastStride(d)) \in t[Up(d)].external
        BY DEF Exact, TrieExact
    <1>6. Child(t[Up(d)], count_enl_bitmap(LastStride(d))) = d
        <2> DEFINE u == Up(d)
                   s == LastStride(d)
        <2>1. u \in DOMAIN t /\ s \in Strides /\ count_enl_bitmap(s) \in t[u].external /\ u \o s = d
            BY <1>4, <1>5
        <2> HIDE DEF u, s
        <2>2. \A x \in Strides : count_enl_bitmap(x) \in t[u].external =>
                 u \o x \in DOMAIN t /\ Child(t[u], count_enl_bitmap(x)) = u \o x
            <3>1. NodeExact(t, u)
                BY <2>1 DEF Exact, TrieExact
            <3> QED
                BY <3>1, Zenon DEF NodeExact
        <2>3. Child(t[u], count_enl_bitmap(s)) = u \o s
            BY <2>1, <2>2, Zenon
        <2> QED
            BY <2>1, <2>3 DEF u, s
    <1> QED
        BY <1>3, <1>4, <1>5, <1>6

\* The nodes below those of A along p.
Below(t, p, limit, A) ==
    {Child(t[d], ChildPos(p, d)) :
        d \in {d \in A : Len(d) + STRIDE <= limit /\ ChildPos(p, d) \in t[d].external}}

\* Walk is defined step by step.
LEMMA WalkSteps ==
    ASSUME NEW V, NEW t, Exact(V, t), NEW p \in Seq(Bit), NEW limit \in Nat
    PROVE  /\ Walk(t, p, limit)[0] = {<<>>}
           /\ \A k \in 1 .. limit :
                 Walk(t, p, limit)[k] = Below(t, p, limit, Walk(t, p, limit)[k - 1])
PROOF
    <1> DEFINE W == SUBSET (DOMAIN t)
               G == [A \in W |-> Below(t, p, limit, A)]
               F == [k \in 1 .. limit |-> G]
               P(f) == f = [k \in 0 .. limit |->
                              IF k = 0 THEN {<<>>}
                              ELSE {Child(t[d], count_enl_bitmap(StrideAt(p, Len(d)))) :
                                      d \in {d \in f[k - 1] : /\ Len(d) + STRIDE <= limit
                                                              /\ count_enl_bitmap(StrideAt(p, Len(d)))
                                                                 \in t[d].external}}]
               at == CHOOSE f : P(f)
    <1>1. ASSUME NEW A \in W
          PROVE  Below(t, p, limit, A) \in W
        <2>1. ASSUME NEW d \in A, ChildPos(p, d) \in t[d].external
              PROVE  Child(t[d], ChildPos(p, d)) \in DOMAIN t
            <3>1. d \in DOMAIN t /\ Len(d) \in Nat
                BY ExactNodes
            <3>2. StrideAt(p, Len(d)) \in Strides
                BY <3>1, StrideAtType
            <3> QED
                BY <2>1, <3>1, <3>2, ExactNodes DEF ChildPos
        <2> QED
            BY <2>1 DEF Below
    <1>2. {<<>>} \in W
        BY ExactNodes
    <1>3. G \in [W -> W]
        BY <1>1
    <1>4. F \in [1 .. limit -> [W -> W]]
        <2> HIDE DEF G, W
        <2> QED
            BY <1>3
    <1>5. PICK f : Steps(limit, W, {<<>>}, F, f)
        <2> HIDE DEF F, W
        <2> QED
            BY <1>2, <1>4, StepByStep
    <1>6. f \in [0 .. limit -> W] /\ f[0] = {<<>>} /\ \A k \in 1 .. limit : f[k] = F[k][f[k - 1]]
        <2> HIDE DEF F, W
        <2> QED
            BY <1>5 DEF Steps
    <1>7. ASSUME NEW k \in 1 .. limit
          PROVE  f[k] = Below(t, p, limit, f[k - 1])
        <2>1. k - 1 \in 0 .. limit
            OBVIOUS
        <2>2. f[k - 1] \in W
            <3> HIDE DEF W
            <3> QED
                BY <1>6, <2>1
        <2>3. F[k] = G
            <3> HIDE DEF G
            <3> QED
                OBVIOUS
        <2>4. G[f[k - 1]] = Below(t, p, limit, f[k - 1])
            <3> HIDE DEF W
            <3> QED
                BY <2>2
        <2> HIDE DEF F, G, W
        <2> QED
            BY <1>6, <2>3, <2>4
    <1>8. P(f)
        <2>1. f = [k \in 0 .. limit |-> f[k]]
            <3> HIDE DEF W
            <3> QED
                BY <1>6
        <2>2. \A k \in 0 .. limit : k # 0 => k \in 1 .. limit
            OBVIOUS
        <2>3. \A k \in 0 .. limit :
                 f[k] = IF k = 0 THEN {<<>>} ELSE Below(t, p, limit, f[k - 1])
            BY <1>6, <1>7, <2>2
        <2> QED
            BY <2>1, <2>3 DEF Below, ChildPos
    <1>9. P(at)
        <2> HIDE DEF P
        <2> QED
            BY <1>8, Zenon
    <1>10. Walk(t, p, limit) = at
        BY DEF Walk
    <1> HIDE DEF at
    <1>11. at[0] = {<<>>}
        BY <1>9
    <1>12. ASSUME NEW k \in 1 .. limit
           PROVE  at[k] = Below(t, p, limit, at[k - 1])
        <2>1. k \in 0 .. limit /\ k # 0
            OBVIOUS
        <2> QED
            BY <1>9, <2>1 DEF Below, ChildPos
    <1> QED
        BY <1>10, <1>11, <1>12

\* After k steps k strides are behind.
LEMMA StepsAhead ==
    ASSUME NEW k \in Nat
    PROVE  k * STRIDE \in Nat /\ k <= k * STRIDE /\ (k + 1) * STRIDE = k * STRIDE + STRIDE
PROOF
    <1>1. STRIDE \in Nat /\ STRIDE > 0
        BY StrideAssumption
    <1> DEFINE s == STRIDE - 1
    <1>2. s \in Nat /\ STRIDE = s + 1
        BY <1>1
    <1> HIDE DEF s
    <1>3. k * STRIDE = k * s + k /\ k * s \in Nat
        BY <1>2
    <1>4. (k + 1) * STRIDE = k * STRIDE + STRIDE
        BY <1>1
    <1> QED
        BY <1>3, <1>4

\* The nodes of a trie along p.
Along(t, p, limit) == {d \in DOMAIN t : Covers(d, p) /\ Len(d) <= limit}

\* After k steps a walk is at a node along p that is k strides long.
LEMMA WalkAlong ==
    ASSUME NEW V, NEW t, Exact(V, t), NEW p \in Seq(Bit), NEW limit \in Nat,
           \A d \in DOMAIN t : Len(d) <= limit => Len(d) <= Len(p)
    PROVE  \A k \in 0 .. limit : \A d \in Walk(t, p, limit)[k] :
              d \in Along(t, p, limit) /\ Len(d) = k * STRIDE
PROOF
    <1> DEFINE at == Walk(t, p, limit)
               S == {k \in 0 .. limit : \A d \in at[k] : d \in Along(t, p, limit) /\ Len(d) = k * STRIDE}
    <1>1. at[0] = {<<>>} /\ \A k \in 1 .. limit : at[k] = Below(t, p, limit, at[k - 1])
        BY WalkSteps
    <1> HIDE DEF at
    <1>2. 0 \in S
        <2>1. <<>> \in DOMAIN t /\ Len(<<>>) = 0 /\ 0 * STRIDE = 0
            BY ExactNodes, StrideAssumption
        <2>2. Covers(<<>>, p)
            BY DEF Covers
        <2> QED
            BY <1>1, <2>1, <2>2 DEF Along
    <1>3. ASSUME NEW k \in 0 .. limit - 1, k \in S
          PROVE  k + 1 \in S
        <2>1. k \in Nat /\ k + 1 \in 1 .. limit /\ (k + 1) - 1 = k /\ k + 1 \in 0 .. limit
            OBVIOUS
        <2>2. ASSUME NEW e \in at[k + 1]
              PROVE  e \in Along(t, p, limit) /\ Len(e) = (k + 1) * STRIDE
            <3>1. e \in Below(t, p, limit, at[k])
                BY <1>1, <2>1
            <3>2. PICK d \in at[k] : /\ Len(d) + STRIDE <= limit
                                     /\ ChildPos(p, d) \in t[d].external
                                     /\ e = Child(t[d], ChildPos(p, d))
                BY <3>1 DEF Below
            <3>3. d \in DOMAIN t /\ Covers(d, p) /\ Len(d) = k * STRIDE
                BY <1>3 DEF Along
            <3>4. d \in Seq(Bit) /\ Len(d) \in Nat
                BY <3>3, ExactNodes
            <3> DEFINE s == StrideAt(p, Len(d))
            <3>5. s \in Strides
                BY <3>4, StrideAtType
            <3>6. d \o s \in DOMAIN t /\ e = d \o s
                BY <3>2, <3>3, <3>5, ExactNodes DEF ChildPos
            <3>7. Len(e) = Len(d) + STRIDE
                BY <3>4, <3>5, <3>6, Joined
            <3>8. Len(e) <= limit /\ Len(d) + STRIDE <= Len(p)
                BY <3>2, <3>6, <3>7
            <3>9. Covers(e, p)
                BY <3>3, <3>4, <3>6, <3>8, NextOnWay
            <3>10. Len(e) = (k + 1) * STRIDE
                BY <2>1, <3>3, <3>7, StepsAhead
            <3> QED
                BY <3>6, <3>8, <3>9, <3>10 DEF Along
        <2> QED
            BY <2>1, <2>2
    <1>4. \A k \in 0 .. limit : k \in S
        <2> HIDE DEF S
        <2> QED
            BY <1>2, <1>3, UpTo
    <1> QED
        BY <1>4 DEF at

\* A walk passes all nodes along p, and only them.
LEMMA WayIsAlong ==
    ASSUME NEW V, NEW t, Exact(V, t), NEW p \in Seq(Bit), NEW limit \in Nat,
           \A d \in DOMAIN t : Len(d) <= limit => Len(d) <= Len(p)
    PROVE  Way(t, p, limit) = Along(t, p, limit)
PROOF
    <1> DEFINE at == Walk(t, p, limit)
               way == Way(t, p, limit)
    <1>1. at[0] = {<<>>} /\ \A k \in 1 .. limit : at[k] = Below(t, p, limit, at[k - 1])
        BY WalkSteps
    <1>2. \A k \in 0 .. limit : \A d \in at[k] : d \in Along(t, p, limit) /\ Len(d) = k * STRIDE
        BY WalkAlong
    <1>3. \A d : d \in way <=> \E k \in 0 .. limit : d \in at[k]
        BY DEF Way
    <1> HIDE DEF at, way
    <1>4. way \subseteq Along(t, p, limit)
        BY <1>2, <1>3
    <1> DEFINE S == {n \in 0 .. limit : \A d \in Along(t, p, limit) : Len(d) <= n => d \in way}
    <1>5. 0 \in S
        <2>1. <<>> \in way
            BY <1>1, <1>3
        <2>2. ASSUME NEW d \in Along(t, p, limit), Len(d) <= 0
              PROVE  d = <<>>
            <3>1. d \in Seq(Bit) /\ Len(d) \in Nat
                BY ExactNodes DEF Along
            <3> QED
                BY <2>2, <3>1, EmptyLength
        <2> QED
            BY <2>1, <2>2
    <1>6. ASSUME NEW n \in 0 .. limit - 1, n \in S
          PROVE  n + 1 \in S
        <2>1. n \in Nat /\ n + 1 \in 0 .. limit
            OBVIOUS
        <2>2. ASSUME NEW d \in Along(t, p, limit), Len(d) <= n + 1, ~ (Len(d) <= n)
              PROVE  d \in way
            <3>1. d \in DOMAIN t /\ Covers(d, p) /\ Len(d) <= limit
                BY DEF Along
            <3>2. d \in Seq(Bit) /\ Len(d) \in Nat /\ Len(d) = n + 1
                BY <2>1, <2>2, <3>1, ExactNodes
            <3>3. d # <<>>
                BY <2>1, <3>2, EmptyLength
            <3> DEFINE u == Up(d)
            <3>4. /\ STRIDE <= Len(d) /\ u \in DOMAIN t
                  /\ Len(u) = Len(d) - STRIDE /\ Covers(u, d)
                  /\ count_enl_bitmap(LastStride(d)) \in t[u].external
                  /\ Child(t[u], count_enl_bitmap(LastStride(d))) = d
                BY <3>1, <3>3, ExactUp
            <3>5. STRIDE \in Nat /\ STRIDE > 0
                BY StrideAssumption
            <3>6. StrideAt(p, Len(u)) = LastStride(d)
                BY <3>1, <3>2, <3>4, StrideOnWay
            <3> HIDE DEF u
            <3>7. Covers(u, p)
                BY <3>1, <3>2, <3>4, ExactNodes, CoversTransitive
            <3>8. u \in Along(t, p, limit) /\ Len(u) <= n
                BY <2>1, <3>1, <3>2, <3>4, <3>5, <3>7 DEF Along
            <3>9. u \in way
                BY <1>6, <3>8
            <3>10. PICK k \in 0 .. limit : u \in at[k]
                BY <1>3, <3>9
            <3>11. k \in Nat /\ k <= Len(u)
                <4>1. k \in Nat
                    OBVIOUS
                <4>2. Len(u) = k * STRIDE
                    BY <1>2, <3>10
                <4>3. k <= k * STRIDE
                    BY <4>1, StepsAhead
                <4> QED
                    BY <4>1, <4>2, <4>3
            <3>12. k + 1 \in 1 .. limit /\ (k + 1) - 1 = k /\ k + 1 \in 0 .. limit
                BY <3>1, <3>2, <3>4, <3>5, <3>11
            <3>13. Len(u) + STRIDE <= limit
                BY <3>1, <3>2, <3>4, <3>5
            <3>14. d \in Below(t, p, limit, at[k])
                BY <3>4, <3>6, <3>10, <3>13 DEF Below, ChildPos
            <3>15. d \in at[k + 1]
                BY <1>1, <3>12, <3>14
            <3> QED
                BY <1>3, <3>12, <3>15
        <2>3. \A d \in Along(t, p, limit) : Len(d) <= n => d \in way
            BY <1>6
        <2> QED
            BY <2>1, <2>2, <2>3
    <1>7. \A n \in 0 .. limit : n \in S
        <2> HIDE DEF S
        <2> QED
            BY <1>5, <1>6, UpTo
    <1>8. limit \in 0 .. limit /\ \A d \in Along(t, p, limit) : Len(d) <= limit
        BY DEF Along
    <1>9. Along(t, p, limit) \subseteq way
        BY <1>7, <1>8
    <1> QED
        BY <1>4, <1>9 DEF way

----------------------------------------------------------------------------
(* The rules of a trie *)

\* Prefix q ends in node d of the trie and has a rule there.
Holds(t, q, d) ==
    d \in DOMAIN t /\ Covers(d, q) /\ EndsIn(q, d) /\ RulePos(q, d) \in t[d].internal

\* Prefix q has the rule x.
RuleAt(t, q, x) == \E d \in DOMAIN t : Holds(t, q, d) /\ x = Rule(t[d], RulePos(q, d))

\* A cell of a node holds a next hop.
LEMMA RuleType ==
    ASSUME NEW V, NEW n, Shape(V, n), NEW pos \in n.internal
    PROVE  Rule(n, pos) \in V
PROOF
    <1> DEFINE B == n.internal
               s == n.rules
    <1>1. B \in SUBSET Nat /\ s \in Seq(V) /\ Len(s) = Cardinality(B) /\ pos \in B
        BY DEF Shape, Nodes
    <1>2. IsFiniteSet(B)
        BY ShapeFinite
    <1> HIDE DEF B, s
    <1>3. count_ones(B, pos) + 1 \in 1 .. Len(s)
        BY <1>1, <1>2, CellType
    <1>4. s[count_ones(B, pos) + 1] \in V
        BY <1>1, <1>3, ElementOfSeq
    <1> QED
        BY <1>4 DEF Rule, B, s

\* The prefix of a rule is told from its node and its position.
LEMMA HeldPrefix ==
    ASSUME NEW p \in Seq(Bit), NEW q \in Seq(Bit), NEW d \in Seq(Bit), Covers(d, p), Covers(d, q),
           RulePos(p, d) = RulePos(q, d)
    PROVE  p = q
PROOF
    <1>1. /\ RestAt(p, Len(d)) \in Seq(Bit) /\ d \o RestAt(p, Len(d)) = p
          /\ RestAt(q, Len(d)) \in Seq(Bit) /\ d \o RestAt(q, Len(d)) = q
        BY RestIsShort
    <1>2. RestAt(p, Len(d)) = RestAt(q, Len(d))
        BY <1>1, PosInjective DEF RulePos
    <1> QED
        BY <1>1, <1>2

\* The set of the rules, prefix by prefix.
LEMMA RulesAre ==
    ASSUME NEW V, NEW t, Exact(V, t)
    PROVE  /\ \A q \in Seq(Bit) : \A x : <<q, x>> \in RulesOf(t) <=> RuleAt(t, q, x)
           /\ \A r \in RulesOf(t) : r = <<r[1], r[2]>> /\ r[1] \in Seq(Bit) /\ r[2] \in V
PROOF
    <1>1. ASSUME NEW d \in DOMAIN t, NEW b \in Shorts, count_inl_bitmap(b) \in t[d].internal
          PROVE  /\ d \o b \in Seq(Bit) /\ Holds(t, d \o b, d) /\ RulePos(d \o b, d) = count_inl_bitmap(b)
                 /\ Rule(t[d], count_inl_bitmap(b)) \in V
        <2>1. d \in Seq(Bit) /\ Shape(V, t[d])
            BY ExactNodes
        <2>2. /\ d \o b \in Seq(Bit) /\ Covers(d, d \o b)
              /\ EndsIn(d \o b, d) /\ RestAt(d \o b, Len(d)) = b
            BY <2>1, ShortBehind
        <2>3. Rule(t[d], count_inl_bitmap(b)) \in V
            BY <1>1, <2>1, RuleType
        <2> QED
            BY <1>1, <2>2, <2>3 DEF Holds, RulePos
    <1>2. ASSUME NEW q \in Seq(Bit), NEW d \in DOMAIN t, Holds(t, q, d)
          PROVE  /\ RestAt(q, Len(d)) \in Shorts /\ q = d \o RestAt(q, Len(d))
                 /\ count_inl_bitmap(RestAt(q, Len(d))) \in t[d].internal
        <2>1. d \in Seq(Bit)
            BY ExactNodes
        <2> QED
            BY <1>2, <2>1, RestIsShort DEF Holds, RulePos
    <1> DEFINE X == {x \in (DOMAIN t) \X Shorts : count_inl_bitmap(x[2]) \in t[x[1]].internal}
               g(x) == <<x[1] \o x[2], Rule(t[x[1]], count_inl_bitmap(x[2]))>>
    <1>3. RulesOf(t) = {g(x) : x \in X}
        BY DEF RulesOf
    <1>4. ASSUME NEW q \in Seq(Bit), NEW y, <<q, y>> \in RulesOf(t)
          PROVE  RuleAt(t, q, y)
        <2>1. PICK x \in X : <<q, y>> = g(x)
            BY <1>3, <1>4
        <2>2. /\ x[1] \in DOMAIN t /\ x[2] \in Shorts /\ count_inl_bitmap(x[2]) \in t[x[1]].internal
              /\ q = x[1] \o x[2] /\ y = Rule(t[x[1]], count_inl_bitmap(x[2]))
            BY <2>1
        <2>3. Holds(t, q, x[1]) /\ RulePos(q, x[1]) = count_inl_bitmap(x[2])
            BY <1>1, <2>2
        <2> QED
            BY <2>2, <2>3 DEF RuleAt
    <1>5. ASSUME NEW q \in Seq(Bit), NEW y, RuleAt(t, q, y)
          PROVE  <<q, y>> \in RulesOf(t)
        <2>1. PICK d \in DOMAIN t : Holds(t, q, d) /\ y = Rule(t[d], RulePos(q, d))
            BY <1>5 DEF RuleAt
        <2>2. /\ RestAt(q, Len(d)) \in Shorts /\ q = d \o RestAt(q, Len(d))
              /\ count_inl_bitmap(RestAt(q, Len(d))) \in t[d].internal
            BY <1>2, <2>1
        <2> DEFINE x == <<d, RestAt(q, Len(d))>>
        <2>3. x \in X
            BY <2>2
        <2>4. g(x) = <<q, y>>
            BY <2>1, <2>2 DEF RulePos
        <2> HIDE DEF x, g, X
        <2> QED
            BY <1>3, <2>3, <2>4
    <1>6. ASSUME NEW r \in RulesOf(t)
          PROVE  r = <<r[1], r[2]>> /\ r[1] \in Seq(Bit) /\ r[2] \in V
        <2>1. PICK x \in X : r = g(x)
            BY <1>3, <1>6
        <2>2. x[1] \in DOMAIN t /\ x[2] \in Shorts /\ count_inl_bitmap(x[2]) \in t[x[1]].internal
            BY <2>1
        <2>3. x[1] \o x[2] \in Seq(Bit) /\ Rule(t[x[1]], count_inl_bitmap(x[2])) \in V
            BY <1>1, <2>2
        <2> QED
            BY <2>1, <2>3
    <1> QED
        BY <1>4, <1>5, <1>6

\* A prefix ends in one node.
LEMMA OneEnd ==
    ASSUME NEW V, NEW t, Exact(V, t), NEW p \in Seq(Bit), NEW d \in DOMAIN t, NEW e \in DOMAIN t,
           Covers(d, p), Covers(e, p), EndsIn(p, d), Len(d) <= Len(e)
    PROVE  d = e
PROOF
    <1>1. /\ d \in Keys /\ e \in Keys /\ Len(d) \in Nat /\ Len(e) \in Nat /\ Len(p) \in Nat
          /\ Aligned(Len(d)) /\ Aligned(Len(e)) /\ Len(e) <= Len(p)
        BY ExactNodes DEF Covers
    <1>2. ~ (Len(d) < Len(e))
        <2>1. SUFFICES ASSUME Len(d) < Len(e) PROVE FALSE
            OBVIOUS
        <2>2. Len(d) + STRIDE <= Len(e)
            BY <1>1, <2>1, AlignedApart
        <2> QED
            BY <1>1, <2>2, StrideAssumption DEF EndsIn
    <1>3. Covers(d, e)
        BY <1>1, Comparable
    <1> QED
        BY <1>1, <1>2, <1>3, SameLengthSame

\* A prefix has at most one rule.
LEMMA OneRule ==
    ASSUME NEW V, NEW t, Exact(V, t), NEW q \in Seq(Bit), NEW x, NEW y,
           RuleAt(t, q, x), RuleAt(t, q, y)
    PROVE  x = y
PROOF
    <1>1. PICK d \in DOMAIN t : Holds(t, q, d) /\ x = Rule(t[d], RulePos(q, d))
        BY DEF RuleAt
    <1>2. PICK e \in DOMAIN t : Holds(t, q, e) /\ y = Rule(t[e], RulePos(q, e))
        BY DEF RuleAt
    <1>3. Len(d) \in Nat /\ Len(e) \in Nat
        BY ExactNodes
    <1>4. d = e
        <2>1. CASE Len(d) <= Len(e)
            BY <1>1, <1>2, <2>1, OneEnd DEF Holds
        <2>2. CASE Len(e) <= Len(d)
            BY <1>1, <1>2, <2>2, OneEnd DEF Holds
        <2> QED
            BY <1>3, <2>1, <2>2
    <1> QED
        BY <1>1, <1>2, <1>4

\* Prefixes of one stride are strides of one prefix.
LEMMA StrideSame ==
    ASSUME NEW p \in Seq(Bit), NEW e \in Seq(Bit), Covers(e, p), NEW n \in Nat, n + STRIDE <= Len(e)
    PROVE  StrideAt(p, n) = StrideAt(e, n)
PROOF
    <1>1. Len(e) \in Nat /\ Len(p) \in Nat /\ Len(e) <= Len(p) /\ STRIDE \in Nat
        BY StrideAssumption DEF Covers
    <1>2. \A k \in 1 .. STRIDE : n + k <= Len(e) /\ n + k <= Len(p) /\ p[n + k] = e[n + k]
        BY <1>1 DEF Covers
    <1> QED
        BY <1>2 DEF StrideAt

\* All addresses above a node are nodes, and their external bitmaps lead to it.
LEMMA Upward ==
    ASSUME NEW V, NEW t, Exact(V, t), NEW e \in DOMAIN t, NEW d \in Keys,
           Covers(d, e), Aligned(Len(d))
    PROVE  d \in DOMAIN t /\ (d # e => ChildPos(e, d) \in t[d].external)
PROOF
    <1> DEFINE Linked(x, y) == y \in DOMAIN t /\ (y # x => ChildPos(x, y) \in t[y].external)
               S == {n \in 0 .. KeyLength :
                        \A x \in DOMAIN t : Len(x) <= n =>
                            \A y \in Keys : Covers(y, x) /\ Aligned(Len(y)) => Linked(x, y)}
    <1>0. KeyLength \in Nat /\ STRIDE \in Nat /\ STRIDE > 0
        BY KeyLengthAssumption, StrideAssumption
    <1>1. 0 \in S
        <2>1. ASSUME NEW x \in DOMAIN t, Len(x) <= 0, NEW y \in Keys, Covers(y, x)
              PROVE  Linked(x, y)
            <3>1. x \in Keys /\ Len(x) \in Nat /\ Len(y) \in Nat
                BY ExactNodes, KeyIsSeq
            <3>2. y = x
                <4>1. Len(y) >= Len(x)
                    BY <2>1, <3>1
                <4> QED
                    BY <2>1, <3>1, <4>1, SameLengthSame
            <3> QED
                BY <3>2
        <2> QED
            BY <1>0, <2>1
    <1>2. ASSUME NEW n \in 0 .. KeyLength - 1, n \in S
          PROVE  n + 1 \in S
        <2>1. n \in Nat /\ n + 1 \in 0 .. KeyLength
            BY <1>0
        <2>2. ASSUME NEW x \in DOMAIN t, Len(x) <= n + 1, ~ (Len(x) <= n),
                     NEW y \in Keys, Covers(y, x), Aligned(Len(y))
              PROVE  Linked(x, y)
            <3>1. /\ x \in Keys /\ x \in Seq(Bit) /\ Len(x) = n + 1 /\ y \in Seq(Bit)
                  /\ Len(y) \in Nat /\ Aligned(Len(x)) /\ Len(y) <= Len(x)
                BY <2>1, <2>2, ExactNodes, KeyIsSeq DEF Covers
            <3>2. CASE y = x
                BY <3>2
            <3>3. CASE y # x
                <4>1. Len(y) < Len(x)
                    BY <2>2, <3>1, <3>3, AboveShorter DEF Above
                <4>2. x # <<>>
                    BY <2>1, <3>1, EmptyLength
                <4> DEFINE u == Up(x)
                <4>3. /\ u \in DOMAIN t /\ Len(u) = Len(x) - STRIDE /\ Covers(u, x)
                      /\ count_enl_bitmap(LastStride(x)) \in t[u].external
                    BY <4>2, ExactUp
                <4>4. StrideAt(x, Len(u)) = LastStride(x)
                    BY <4>3 DEF LastStride
                <4> HIDE DEF u
                <4>5. u \in Keys /\ u \in Seq(Bit) /\ Len(u) \in Nat /\ Aligned(Len(u))
                    BY <4>3, ExactNodes
                <4>6. Len(y) + STRIDE <= Len(x)
                    BY <2>1, <2>2, <3>1, <4>1, AlignedApart
                <4>7. Len(y) <= Len(u) /\ Len(u) <= n
                    BY <1>0, <2>1, <3>1, <4>3, <4>5, <4>6
                <4>8. Covers(y, u)
                    BY <2>1, <2>2, <3>1, <4>3, <4>5, <4>7, Comparable
                <4>9. Linked(u, y)
                    BY <1>2, <2>2, <4>3, <4>7, <4>8
                <4>10. CASE y = u
                    BY <4>3, <4>4, <4>10 DEF ChildPos
                <4>11. CASE y # u
                    <5>1. Len(y) < Len(u)
                        BY <4>5, <4>8, <4>11, AboveShorter DEF Above
                    <5>2. Len(y) + STRIDE <= Len(u)
                        BY <2>2, <3>1, <4>5, <5>1, AlignedApart
                    <5>3. StrideAt(x, Len(y)) = StrideAt(u, Len(y))
                        BY <3>1, <4>3, <4>5, <5>2, StrideSame
                    <5> QED
                        BY <4>9, <4>11, <5>3 DEF ChildPos
                <4> QED
                    BY <4>10, <4>11
            <3> QED
                BY <3>2, <3>3
        <2>3. \A x \in DOMAIN t : Len(x) <= n =>
                  \A y \in Keys : Covers(y, x) /\ Aligned(Len(y)) => Linked(x, y)
            BY <1>2
        <2> HIDE DEF Linked
        <2> QED
            BY <2>1, <2>2, <2>3
    <1>3. \A n \in 0 .. KeyLength : n \in S
        <2> HIDE DEF S
        <2> QED
            BY <1>0, <1>1, <1>2, UpTo
    <1>4. Len(e) \in 0 .. KeyLength /\ Len(e) <= Len(e)
        BY <1>0, ExactNodes
    <1>5. Len(e) \in S
        <2> HIDE DEF S
        <2> QED
            BY <1>3, <1>4
    <1>6. Linked(e, d)
        <2> HIDE DEF Linked
        <2> QED
            BY <1>4, <1>5
    <1> QED
        BY <1>6

----------------------------------------------------------------------------
(* Inserting a prefix *)

\* The addresses along p.
LEMMA StopsAre ==
    ASSUME NEW p \in Keys
    PROVE  \A d : d \in Stops(p) <=> d \in Keys /\ Covers(d, p) /\ Aligned(Len(d))
PROOF
    <1>1. p \in Seq(Bit) /\ Len(p) \in Nat
        BY KeyIsSeq
    <1>2. ASSUME NEW d \in Stops(p)
          PROVE  d \in Keys /\ Covers(d, p) /\ Aligned(Len(d))
        <2>1. PICK n \in 0 .. Len(p) : Aligned(n) /\ d = SubSeq(p, 1, n)
            BY DEF Stops
        <2>2. n \in Nat /\ n <= Len(p)
            BY <1>1, <2>1
        <2> QED
            BY <2>1, <2>2, Beginning
    <1>3. ASSUME NEW d \in Keys, Covers(d, p), Aligned(Len(d))
          PROVE  d \in Stops(p)
        <2>1. Len(d) \in Nat /\ Len(d) <= Len(p) /\ Len(d) \in 0 .. Len(p)
            BY <1>1, <1>3, KeyIsSeq DEF Covers
        <2>2. d = SubSeq(p, 1, Len(d))
            BY <1>3, <2>1, Beginning
        <2> QED
            BY <1>3, <2>1, <2>2 DEF Stops
    <1> QED
        BY <1>2, <1>3

\* The next address on the way to p.
LEMMA NextStop ==
    ASSUME NEW p \in Keys, NEW d \in Stops(p), ~ EndsIn(p, d)
    PROVE  d \o StrideAt(p, Len(d)) \in Stops(p) /\ StrideAt(p, Len(d)) \in Strides
PROOF
    <1> DEFINE s == StrideAt(p, Len(d))
    <1>1. p \in Seq(Bit) /\ Len(p) \in 0 .. KeyLength
        BY KeyIsSeq
    <1>2. d \in Keys /\ Covers(d, p) /\ Aligned(Len(d)) /\ d \in Seq(Bit) /\ Len(d) \in Nat
        BY StopsAre, KeyIsSeq
    <1>3. s \in Strides
        BY <1>1, <1>2, StrideAtType
    <1>4. Len(d) + STRIDE <= Len(p)
        BY <1>1, <1>2, StrideAssumption DEF EndsIn
    <1>5. Covers(d \o s, p)
        BY <1>1, <1>2, <1>4, NextOnWay
    <1>6. d \o s \in Seq(Bit) /\ Len(d \o s) = Len(d) + STRIDE
        BY <1>2, <1>3, Joined
    <1>7. Aligned(Len(d \o s))
        BY <1>2, <1>6, AlignedNext
    <1>8. d \o s \in Keys
        <2> DEFINE e == d \o s
        <2>1. e \in Seq(Bit) /\ Len(e) \in 0 .. KeyLength
            BY <1>1, <1>2, <1>4, <1>6, KeyLengthAssumption, StrideAssumption
        <2> HIDE DEF e
        <2>2. e \in [1 .. Len(e) -> Bit]
            BY <2>1
        <2>3. e \in Keys
            BY <2>1, <2>2 DEF Keys
        <2> QED
            BY <2>3 DEF e
    <1> QED
        BY <1>3, <1>5, <1>7, <1>8, StopsAre

\* The address above one on the way to p, and the stride between them.
LEMMA StopBefore ==
    ASSUME NEW p \in Keys, NEW d \in Stops(p), d # <<>>
    PROVE  /\ Up(d) \in Stops(p) /\ ~ EndsIn(p, Up(d)) /\ Len(Up(d)) = Len(d) - STRIDE
           /\ LastStride(d) = StrideAt(p, Len(Up(d))) /\ Up(d) \o LastStride(d) = d
PROOF
    <1>1. p \in Seq(Bit) /\ Len(p) \in Nat
        BY KeyIsSeq
    <1>2. /\ d \in Keys /\ Covers(d, p) /\ Aligned(Len(d)) /\ d \in Seq(Bit) /\ Len(d) \in 0 .. KeyLength
          /\ Len(d) <= Len(p)
        BY StopsAre, KeyIsSeq DEF Covers
    <1>3. Len(d) # 0
        BY <1>2, EmptyLength
    <1>4. STRIDE <= Len(d) /\ Len(d) - STRIDE \in Nat /\ Aligned(Len(d) - STRIDE)
        BY <1>2, <1>3, AlignedBefore
    <1>5. /\ Up(d) \in Seq(Bit) /\ Len(Up(d)) = Len(d) - STRIDE /\ Covers(Up(d), d)
          /\ Up(d) \o LastStride(d) = d
        BY <1>2, <1>4, Parted
    <1>6. Up(d) \in Keys
        <2>1. Up(d) = SubSeq(d, 1, Len(d) - STRIDE) /\ Len(d) - STRIDE <= Len(d)
            BY <1>2, <1>4, StrideAssumption DEF Up
        <2> QED
            BY <1>2, <1>4, <2>1, Beginning
    <1>7. Covers(Up(d), p)
        BY <1>1, <1>2, <1>5, <1>6, CoversTransitive
    <1>8. ~ EndsIn(p, Up(d))
        BY <1>1, <1>2, <1>4, <1>5, StrideAssumption DEF EndsIn
    <1>9. Up(d) \in Stops(p)
        BY <1>4, <1>5, <1>6, <1>7, StopsAre
    <1>10. LastStride(d) = StrideAt(p, Len(Up(d)))
        BY <1>1, <1>2, <1>4, StrideOnWay
    <1> QED
        BY <1>5, <1>8, <1>9, <1>10

\* The nodes of a trie on the way to p.
LEMMA WayToPrefix ==
    ASSUME NEW V, NEW t, Exact(V, t), NEW p \in Keys
    PROVE  Way(t, p, Len(p)) = Stops(p) \cap DOMAIN t
PROOF
    <1>1. p \in Seq(Bit) /\ Len(p) \in Nat
        BY KeyIsSeq
    <1>2. \A d \in DOMAIN t : Len(d) <= Len(p) => Len(d) <= Len(p)
        OBVIOUS
    <1>3. Way(t, p, Len(p)) = Along(t, p, Len(p))
        BY <1>1, <1>2, WayIsAlong
    <1>4. ASSUME NEW d
          PROVE  d \in Along(t, p, Len(p)) <=> d \in Stops(p) /\ d \in DOMAIN t
        <2>1. d \in DOMAIN t => d \in Keys /\ Aligned(Len(d))
            BY ExactNodes
        <2> QED
            BY <2>1, StopsAre DEF Along, Covers
    <1> QED
        BY <1>3, <1>4

\* A node before insert_entry has written to it.
Base(t, d) == IF d \in DOMAIN t THEN t[d] ELSE EmptyNode

\* Of trie t, insert_entry has written the nodes on the way to p.
Inserted(V, t, p, x, u) ==
    /\ u = [d \in DOMAIN u |-> u[d]]
    /\ DOMAIN u = DOMAIN t \cup Stops(p)
    /\ \A d \in DOMAIN t : d \notin Stops(p) => u[d] = t[d]
    /\ \A d \in Stops(p) :
          IF EndsIn(p, d) THEN RuleSet(V, Base(t, d), RulePos(p, d), x, u[d])
          ELSE ChildSet(V, Base(t, d), ChildPos(p, d), d \o StrideAt(p, Len(d)), u[d])

\* insert_entry writes the nodes on the way to its prefix and no others.
LEMMA InsertWrites ==
    ASSUME NEW V, NEW t, Exact(V, t), NEW p \in Keys, NEW x \in V
    PROVE  Inserted(V, t, p, x, insert_entry(t, p, x))
PROOF
    <1> DEFINE made == Stops(p) \ DOMAIN t
               way == Way(t, p, Len(p)) \cup made
               node(d) == IF d \in made THEN EmptyNode ELSE t[d]
               wrote(d) == IF d \notin way THEN t[d]
                           ELSE IF EndsIn(p, d) THEN with_rule(node(d), RulePos(p, d), x)
                           ELSE with_child(node(d), ChildPos(p, d), d \o StrideAt(p, Len(d)))
               u == [d \in DOMAIN t \cup made |-> wrote(d)]
    <1>1. insert_entry(t, p, x) = u
        BY DEF insert_entry
    <1>2. way = Stops(p)
        BY WayToPrefix
    <1>3. DOMAIN u = DOMAIN t \cup Stops(p) /\ u = [d \in DOMAIN u |-> u[d]]
        OBVIOUS
    <1>4. \A d \in DOMAIN u : u[d] = wrote(d)
        OBVIOUS
    <1>5. ASSUME NEW d \in Stops(p)
          PROVE  node(d) = Base(t, d) /\ Shape(V, Base(t, d)) /\ d \in Seq(Bit) /\ Len(d) \in Nat /\ Covers(d, p)
        <2>1. node(d) = Base(t, d)
            BY DEF Base
        <2>2. Shape(V, Base(t, d))
            BY ExactNodes, EmptyShape DEF Base
        <2> QED
            BY <2>1, <2>2, StopsAre, KeyIsSeq
    <1> HIDE DEF u, way, made, node
    <1>6. p \in Seq(Bit) /\ Len(p) \in Nat
        BY KeyIsSeq
    <1>7. ASSUME NEW d \in DOMAIN t, d \notin Stops(p)
          PROVE  u[d] = t[d]
        BY <1>2, <1>3, <1>4, <1>7
    <1>8. ASSUME NEW d \in Stops(p), EndsIn(p, d)
          PROVE  RuleSet(V, Base(t, d), RulePos(p, d), x, u[d])
        <2> DEFINE b == RestAt(p, Len(d))
        <2>1. b \in Shorts
            BY <1>5, <1>6, <1>8, RestIsShort
        <2>2. u[d] = with_rule(Base(t, d), count_inl_bitmap(b), x)
            BY <1>2, <1>3, <1>4, <1>5, <1>8 DEF RulePos
        <2> HIDE DEF b
        <2>3. RuleSet(V, Base(t, d), count_inl_bitmap(b), x, u[d])
            BY <1>5, <2>1, <2>2, WithRuleCells
        <2> QED
            BY <2>3 DEF b, RulePos
    <1>9. ASSUME NEW d \in Stops(p), ~ EndsIn(p, d)
          PROVE  ChildSet(V, Base(t, d), ChildPos(p, d), d \o StrideAt(p, Len(d)), u[d])
        <2> DEFINE s == StrideAt(p, Len(d))
                   n == Base(t, d)
        <2>1. s \in Strides /\ d \o s \in Seq(Bit)
            BY <1>5, <1>6, StrideAtType, Joined
        <2>2. u[d] = with_child(n, count_enl_bitmap(s), d \o s)
            BY <1>2, <1>3, <1>4, <1>5, <1>9 DEF ChildPos
        <2>3. count_enl_bitmap(s) \in n.external => Child(n, count_enl_bitmap(s)) = d \o s
            <3>1. CASE d \in DOMAIN t
                <4>1. n = t[d]
                    BY <3>1 DEF Base
                <4>2. \A y \in Strides : count_enl_bitmap(y) \in t[d].external =>
                          Child(t[d], count_enl_bitmap(y)) = d \o y
                    BY <3>1, ExactNodes
                <4> HIDE DEF s, n
                <4> QED
                    BY <2>1, <4>1, <4>2
            <3>2. CASE d \notin DOMAIN t
                <4>1. n = EmptyNode
                    BY <3>2 DEF Base
                <4> QED
                    BY <4>1 DEF EmptyNode
            <3> QED
                BY <3>1, <3>2
        <2>4. Shape(V, n)
            BY <1>5
        <2> HIDE DEF s, n
        <2>5. ChildSet(V, n, count_enl_bitmap(s), d \o s, u[d])
            BY <2>1, <2>2, <2>3, <2>4, WithChildCells
        <2> QED
            BY <2>5 DEF s, n, ChildPos
    <1>10. Inserted(V, t, p, x, u)
        BY <1>3, <1>7, <1>8, <1>9 DEF Inserted
    <1> QED
        BY <1>1, <1>10

\* What counting bits finds in a node that insert_entry has written.
LEMMA InsertedNode ==
    ASSUME NEW V, NEW t, Exact(V, t), NEW p \in Keys, NEW x, NEW u, Inserted(V, t, p, x, u),
           NEW d \in DOMAIN u
    PROVE  /\ d \in Keys /\ Aligned(Len(d)) /\ Shape(V, u[d])
           /\ d \in DOMAIN t => /\ t[d].internal \subseteq u[d].internal
                                /\ t[d].external \subseteq u[d].external
           /\ d \in Stops(p) => ~ IsEmpty(u[d])
PROOF
    <1>1. CASE d \notin Stops(p)
        <2>1. d \in DOMAIN t /\ u[d] = t[d]
            BY <1>1 DEF Inserted
        <2> QED
            BY <1>1, <2>1, ExactNodes
    <1>2. CASE d \in Stops(p) /\ EndsIn(p, d)
        <2>1. RuleSet(V, Base(t, d), RulePos(p, d), x, u[d])
            BY <1>2 DEF Inserted
        <2>2. Shape(V, u[d]) /\ RulePos(p, d) \in u[d].internal
            BY <2>1 DEF RuleSet
        <2>3. d \in DOMAIN t => t[d].internal \subseteq u[d].internal /\ t[d].external \subseteq u[d].external
            BY <2>1 DEF RuleSet, Base
        <2> QED
            BY <1>2, <2>2, <2>3, StopsAre DEF IsEmpty
    <1>3. CASE d \in Stops(p) /\ ~ EndsIn(p, d)
        <2>1. ChildSet(V, Base(t, d), ChildPos(p, d), d \o StrideAt(p, Len(d)), u[d])
            BY <1>3 DEF Inserted
        <2>2. Shape(V, u[d]) /\ ChildPos(p, d) \in u[d].external
            BY <2>1 DEF ChildSet
        <2>3. d \in DOMAIN t => t[d].internal \subseteq u[d].internal /\ t[d].external \subseteq u[d].external
            BY <2>1 DEF ChildSet, Base
        <2> QED
            BY <1>3, <2>2, <2>3, StopsAre DEF IsEmpty
    <1> QED
        BY <1>1, <1>2, <1>3

\* After that every bit of an external bitmap still leads to a node.
LEMMA InsertedChildren ==
    ASSUME NEW V, NEW t, Exact(V, t), NEW p \in Keys, NEW x, NEW u, Inserted(V, t, p, x, u),
           NEW d \in DOMAIN u, NEW s \in Strides, count_enl_bitmap(s) \in u[d].external
    PROVE  d \o s \in DOMAIN u /\ Child(u[d], count_enl_bitmap(s)) = d \o s
PROOF
    <1> DEFINE pos == count_enl_bitmap(s)
               n == Base(t, d)
    <1>1. DOMAIN u = DOMAIN t \cup Stops(p)
        BY DEF Inserted
    <1>2. ASSUME d \in DOMAIN t, pos \in t[d].external
          PROVE  d \o s \in DOMAIN t /\ Child(t[d], pos) = d \o s
        <2>1. \A y \in Strides : count_enl_bitmap(y) \in t[d].external =>
                  d \o y \in DOMAIN t /\ Child(t[d], count_enl_bitmap(y)) = d \o y
            BY <1>2, ExactNodes
        <2> QED
            BY <1>2, <2>1
    <1>3. pos \in n.external => d \in DOMAIN t /\ n = t[d]
        BY DEF Base, EmptyNode
    <1>4. CASE d \notin Stops(p)
        <2>1. d \in DOMAIN t /\ u[d] = t[d]
            BY <1>4 DEF Inserted
        <2> QED
            BY <1>1, <1>2, <2>1
    <1>5. CASE d \in Stops(p) /\ EndsIn(p, d)
        <2>1. u[d].external = n.external /\ u[d].children = n.children
            BY <1>5 DEF Inserted, RuleSet
        <2>2. Child(u[d], pos) = Child(n, pos)
            BY <2>1 DEF Child
        <2> HIDE DEF n, pos
        <2> QED
            BY <1>1, <1>2, <1>3, <2>1, <2>2 DEF pos
    <1>6. CASE d \in Stops(p) /\ ~ EndsIn(p, d)
        <2> DEFINE w == StrideAt(p, Len(d))
        <2>1. w \in Strides /\ d \o w \in Stops(p)
            BY <1>6, NextStop
        <2>2. /\ u[d].external = n.external \cup {count_enl_bitmap(w)}
              /\ Child(u[d], count_enl_bitmap(w)) = d \o w
              /\ \A q \in n.external : q # count_enl_bitmap(w) => Child(u[d], q) = Child(n, q)
            BY <1>6 DEF Inserted, ChildSet, ChildPos
        <2>3. CASE s = w
            BY <1>1, <2>1, <2>2, <2>3
        <2>4. CASE s # w
            <3>1. pos # count_enl_bitmap(w)
                BY <2>1, <2>4, EnlInjective
            <3>2. pos \in n.external /\ Child(u[d], pos) = Child(n, pos)
                BY <2>2, <3>1
            <3> HIDE DEF n, pos, w
            <3> QED
                BY <1>1, <1>2, <1>3, <3>2 DEF pos
        <2> QED
            BY <2>3, <2>4
    <1> QED
        BY <1>4, <1>5, <1>6

\* insert_entry keeps the blocks exact.
LEMMA InsertExact ==
    ASSUME NEW V, NEW t, Exact(V, t), NEW p \in Keys, NEW x, NEW u, Inserted(V, t, p, x, u)
    PROVE  Exact(V, u)
PROOF
    <1>1. DOMAIN u = DOMAIN t \cup Stops(p) /\ u = [d \in DOMAIN u |-> u[d]]
        BY DEF Inserted
    <1>2. <<>> \in DOMAIN u
        BY <1>1, ExactNodes
    <1>3. ASSUME NEW d \in DOMAIN u
          PROVE  d \in Keys /\ Aligned(Len(d)) /\ NodeExact(u, d) /\ Shape(V, u[d])
        <2>1. d \in Keys /\ Aligned(Len(d)) /\ Shape(V, u[d])
            BY InsertedNode
        <2>2. \A s \in Strides : count_enl_bitmap(s) \in u[d].external =>
                  d \o s \in DOMAIN u /\ Child(u[d], count_enl_bitmap(s)) = d \o s
            BY InsertedChildren
        <2> QED
            BY <2>1, <2>2 DEF NodeExact, Shape
    <1>4. ASSUME NEW d \in DOMAIN u, d # <<>>
          PROVE  /\ ~ IsEmpty(u[d])
                 /\ Up(d) \in DOMAIN u /\ count_enl_bitmap(LastStride(d)) \in u[Up(d)].external
        <2>1. CASE d \in Stops(p)
            <3>1. /\ Up(d) \in Stops(p) /\ ~ EndsIn(p, Up(d)) /\ LastStride(d) = StrideAt(p, Len(Up(d)))
                BY <1>4, <2>1, StopBefore
            <3>2. ChildPos(p, Up(d)) \in u[Up(d)].external
                BY <3>1 DEF Inserted, ChildSet
            <3> QED
                BY <1>1, <2>1, <3>1, <3>2, InsertedNode DEF ChildPos
        <2>2. CASE d \notin Stops(p)
            <3>1. d \in DOMAIN t /\ u[d] = t[d]
                BY <2>2 DEF Inserted
            <3>2. ~ IsEmpty(t[d]) /\ Up(d) \in DOMAIN t /\ count_enl_bitmap(LastStride(d)) \in t[Up(d)].external
                BY <1>4, <3>1, ExactUp
            <3>3. Up(d) \in DOMAIN u
                BY <1>1, <3>2
            <3>4. t[Up(d)].external \subseteq u[Up(d)].external
                BY <3>2, <3>3, InsertedNode
            <3> QED
                BY <3>1, <3>2, <3>3, <3>4
        <2> QED
            BY <2>1, <2>2
    <1>5. TrieExact(u)
        BY <1>2, <1>3, <1>4 DEF TrieExact
    <1> QED
        BY <1>1, <1>3, <1>5 DEF Exact

\* insert_entry gives p the rule x and leaves the other rules alone.
LEMMA InsertRules ==
    ASSUME NEW V, NEW t, Exact(V, t), NEW p \in Keys, NEW x, NEW u, Inserted(V, t, p, x, u),
           NEW q \in Seq(Bit), NEW y
    PROVE  RuleAt(u, q, y) <=> IF q = p THEN y = x ELSE RuleAt(t, q, y)
PROOF
    <1>1. DOMAIN u = DOMAIN t \cup Stops(p)
        BY DEF Inserted
    <1>2. Exact(V, u)
        BY InsertExact
    <1>3. p \in Seq(Bit) /\ Len(p) \in Nat
        BY KeyIsSeq
    <1>4. RuleAt(u, p, x)
        <2>1. PICK n \in 0 .. Len(p) : Aligned(n) /\ Len(p) < n + STRIDE
            BY <1>3, LastStop
        <2> DEFINE d == SubSeq(p, 1, n)
        <2>2. d \in Stops(p) /\ Len(d) = n /\ Covers(d, p)
            <3>1. n \in Nat /\ n <= Len(p)
                BY <1>3, <2>1
            <3>2. d \in Stops(p)
                BY <2>1 DEF Stops
            <3>3. Len(d) = n /\ Covers(d, p)
                BY <3>1, Beginning
            <3> QED
                BY <3>2, <3>3
        <2> HIDE DEF d
        <2>3. EndsIn(p, d)
            BY <2>1, <2>2 DEF EndsIn
        <2>4. RulePos(p, d) \in u[d].internal /\ Rule(u[d], RulePos(p, d)) = x
            BY <2>2, <2>3 DEF Inserted, RuleSet
        <2>5. d \in DOMAIN u
            BY <1>1, <2>2
        <2> QED
            BY <2>2, <2>3, <2>4, <2>5 DEF RuleAt, Holds
    <1>5. ASSUME q # p, NEW d \in DOMAIN u, Covers(d, q), EndsIn(q, d)
          PROVE  /\ Holds(u, q, d) <=> Holds(t, q, d)
                 /\ Holds(u, q, d) => Rule(u[d], RulePos(q, d)) = Rule(t[d], RulePos(q, d))
        <2> DEFINE pos == RulePos(q, d)
                   n == Base(t, d)
        <2>1. d \in Seq(Bit)
            BY <1>2, ExactNodes
        <2>2. pos \in n.internal => d \in DOMAIN t /\ n = t[d]
            BY DEF Base, EmptyNode
        <2>3. d \in DOMAIN t => n = t[d]
            BY DEF Base
        <2>4. /\ pos \in u[d].internal <=> pos \in n.internal
              /\ pos \in u[d].internal => Rule(u[d], pos) = Rule(n, pos)
            <3>1. CASE d \notin Stops(p)
                <4>1. d \in DOMAIN t /\ u[d] = t[d]
                    BY <3>1 DEF Inserted
                <4> QED
                    BY <4>1, <2>3
            <3>2. CASE d \in Stops(p) /\ EndsIn(p, d)
                <4>1. /\ u[d].internal = n.internal \cup {RulePos(p, d)}
                      /\ \A k \in n.internal : k # RulePos(p, d) => Rule(u[d], k) = Rule(n, k)
                    BY <3>2 DEF Inserted, RuleSet
                <4>2. pos # RulePos(p, d)
                    BY <1>3, <1>5, <2>1, <3>2, StopsAre, HeldPrefix
                <4> HIDE DEF n, pos
                <4> QED
                    BY <4>1, <4>2
            <3>3. CASE d \in Stops(p) /\ ~ EndsIn(p, d)
                <4>1. u[d].internal = n.internal /\ u[d].rules = n.rules
                    BY <3>3 DEF Inserted, ChildSet
                <4> QED
                    BY <4>1 DEF Rule
            <3> QED
                BY <3>1, <3>2, <3>3
        <2> HIDE DEF n
        <2> QED
            BY <1>5, <2>2, <2>3, <2>4 DEF Holds
    <1>6. CASE q = p
        BY <1>2, <1>4, <1>6, OneRule
    <1>7. CASE q # p
        <2>1. ASSUME RuleAt(u, q, y)
              PROVE  RuleAt(t, q, y)
            <3>1. PICK d \in DOMAIN u : Holds(u, q, d) /\ y = Rule(u[d], RulePos(q, d))
                BY <2>1 DEF RuleAt
            <3>2. Holds(t, q, d) /\ y = Rule(t[d], RulePos(q, d))
                <4>1. Covers(d, q) /\ EndsIn(q, d)
                    BY <3>1 DEF Holds
                <4> QED
                    BY <1>5, <1>7, <3>1, <4>1
            <3>3. d \in DOMAIN t
                BY <3>2 DEF Holds
            <3> QED
                BY <3>2, <3>3 DEF RuleAt
        <2>2. ASSUME RuleAt(t, q, y)
              PROVE  RuleAt(u, q, y)
            <3>1. PICK d \in DOMAIN t : Holds(t, q, d) /\ y = Rule(t[d], RulePos(q, d))
                BY <2>2 DEF RuleAt
            <3>2. d \in DOMAIN u
                BY <1>1
            <3>3. Holds(u, q, d) /\ y = Rule(u[d], RulePos(q, d))
                <4>1. Covers(d, q) /\ EndsIn(q, d)
                    BY <3>1 DEF Holds
                <4> QED
                    BY <1>5, <1>7, <3>1, <3>2, <4>1
            <3> QED
                BY <3>2, <3>3 DEF RuleAt
        <2> QED
            BY <1>7, <2>1, <2>2
    <1> QED
        BY <1>6, <1>7

----------------------------------------------------------------------------
(* Deleting a prefix *)

\* The nodes that go: update_nodes gives them back.
Goes(t, p, d) ==
    /\ d \in DOMAIN t /\ d \in Stops(p) /\ d # <<>>
    /\ \A e \in DOMAIN t : e \in Stops(p) /\ Len(d) <= Len(e) => Spent(t, p, e)

\* Of trie t, delete_entry has given back nodes and written the others on the way to p.
Deleted(V, t, p, u) ==
    /\ u = [d \in DOMAIN u |-> u[d]]
    /\ \A d : d \in DOMAIN u <=> d \in DOMAIN t /\ ~ Goes(t, p, d)
    /\ \A d \in DOMAIN u :
          IF d \notin Stops(p) THEN u[d] = t[d]
          ELSE IF EndsIn(p, d) THEN RuleCleared(V, t[d], RulePos(p, d), u[d])
          ELSE IF Goes(t, p, d \o StrideAt(p, Len(d))) THEN ChildCleared(V, t[d], ChildPos(p, d), u[d])
          ELSE u[d] = t[d]

\* All addresses on the way to a prefix that is there are nodes.
LEMMA WholeWay ==
    ASSUME NEW V, NEW t, Exact(V, t), NEW p \in Keys, NEW y, RuleAt(t, p, y), NEW d \in Stops(p)
    PROVE  /\ d \in DOMAIN t
           /\ EndsIn(p, d) => RulePos(p, d) \in t[d].internal
           /\ ~ EndsIn(p, d) => /\ ChildPos(p, d) \in t[d].external
                                /\ Child(t[d], ChildPos(p, d)) = d \o StrideAt(p, Len(d))
PROOF
    <1>1. PICK e \in DOMAIN t : Holds(t, p, e)
        BY DEF RuleAt
    <1>2. /\ d \in Keys /\ Covers(d, p) /\ Aligned(Len(d)) /\ d \in Seq(Bit) /\ Len(d) \in Nat
          /\ p \in Seq(Bit) /\ Len(p) \in Nat /\ Len(d) <= Len(p)
        BY StopsAre, KeyIsSeq DEF Covers
    <1>3. /\ e \in Keys /\ e \in Seq(Bit) /\ Len(e) \in Nat /\ Aligned(Len(e)) /\ Covers(e, p) /\ EndsIn(p, e)
          /\ RulePos(p, e) \in t[e].internal
        BY <1>1, ExactNodes DEF Holds
    <1>4. Len(d) <= Len(e)
        <2>1. SUFFICES ASSUME Len(e) < Len(d) PROVE FALSE
            BY <1>2, <1>3
        <2>2. Len(e) + STRIDE <= Len(d)
            BY <1>2, <1>3, <2>1, AlignedApart
        <2> QED
            BY <1>2, <1>3, <2>2, StrideAssumption DEF EndsIn
    <1>5. Covers(d, e)
        BY <1>2, <1>3, <1>4, Comparable
    <1>6. d \in DOMAIN t /\ (d # e => ChildPos(e, d) \in t[d].external)
        BY <1>2, <1>5, Upward
    <1>7. ASSUME EndsIn(p, d)
          PROVE  RulePos(p, d) \in t[d].internal
        <2>1. d = e
            BY <1>2, <1>3, <1>4, <1>6, <1>7, OneEnd
        <2> QED
            BY <1>3, <2>1
    <1>8. ASSUME ~ EndsIn(p, d)
          PROVE  /\ ChildPos(p, d) \in t[d].external
                 /\ Child(t[d], ChildPos(p, d)) = d \o StrideAt(p, Len(d))
        <2>1. d # e
            BY <1>3, <1>8
        <2>2. Len(d) < Len(e)
            BY <1>2, <1>3, <1>5, <2>1, AboveShorter DEF Above
        <2>3. Len(d) + STRIDE <= Len(e)
            BY <1>2, <1>3, <2>2, AlignedApart
        <2>4. StrideAt(p, Len(d)) = StrideAt(e, Len(d))
            BY <1>2, <1>3, <2>3, StrideSame
        <2>5. ChildPos(p, d) \in t[d].external
            BY <1>6, <2>1, <2>4 DEF ChildPos
        <2>6. StrideAt(p, Len(d)) \in Strides
            BY <1>2, StrideAtType
        <2>7. \A s \in Strides : count_enl_bitmap(s) \in t[d].external => Child(t[d], count_enl_bitmap(s)) = d \o s
            BY <1>6, ExactNodes
        <2> QED
            BY <2>5, <2>6, <2>7 DEF ChildPos
    <1> QED
        BY <1>6, <1>7, <1>8

\* delete_entry gives the spent nodes back and writes the others on the way.
LEMMA DeleteWrites ==
    ASSUME NEW V, NEW t, Exact(V, t), NEW p \in Keys, NEW y, RuleAt(t, p, y)
    PROVE  Deleted(V, t, p, delete_entry(t, p))
PROOF
    <1> DEFINE way == Way(t, p, Len(p))
               freed == Freed(t, p)
               wrote(d) == IF d \notin way THEN t[d]
                           ELSE IF EndsIn(p, d) THEN without_rule(t[d], RulePos(p, d))
                           ELSE IF Child(t[d], ChildPos(p, d)) \in freed THEN Pruned(t[d], ChildPos(p, d))
                           ELSE t[d]
               u == [d \in DOMAIN t \ freed |-> wrote(d)]
    <1>1. delete_entry(t, p) = u
        BY DEF delete_entry
    <1>2. way = Stops(p) \cap DOMAIN t
        BY WayToPrefix
    <1>3. \A d : d \in freed <=> Goes(t, p, d)
        BY <1>2 DEF Freed, Goes
    <1>4. DOMAIN u = DOMAIN t \ freed /\ u = [d \in DOMAIN u |-> u[d]] /\ \A d \in DOMAIN u : u[d] = wrote(d)
        OBVIOUS
    <1> HIDE DEF u, way, freed
    <1>5. \A d : d \in DOMAIN u <=> d \in DOMAIN t /\ ~ Goes(t, p, d)
        BY <1>3, <1>4
    <1>6. ASSUME NEW d \in DOMAIN u, d \notin Stops(p)
          PROVE  u[d] = t[d]
        BY <1>2, <1>4, <1>6
    <1>7. ASSUME NEW d \in DOMAIN u, d \in Stops(p), EndsIn(p, d)
          PROVE  RuleCleared(V, t[d], RulePos(p, d), u[d])
        <2>1. d \in way /\ Shape(V, t[d])
            BY <1>2, <1>5, <1>7, ExactNodes
        <2>2. u[d] = without_rule(t[d], RulePos(p, d))
            BY <1>4, <1>7, <2>1
        <2>3. RulePos(p, d) \in t[d].internal
            BY <1>7, WholeWay
        <2> QED
            BY <2>1, <2>2, <2>3, WithoutRuleCells
    <1>8. ASSUME NEW d \in DOMAIN u, d \in Stops(p), ~ EndsIn(p, d)
          PROVE  IF Goes(t, p, d \o StrideAt(p, Len(d))) THEN ChildCleared(V, t[d], ChildPos(p, d), u[d])
                 ELSE u[d] = t[d]
        <2>1. d \in way /\ Shape(V, t[d])
            BY <1>2, <1>5, <1>8, ExactNodes
        <2>2. ChildPos(p, d) \in t[d].external /\ Child(t[d], ChildPos(p, d)) = d \o StrideAt(p, Len(d))
            BY <1>8, WholeWay
        <2>3. u[d] = IF d \o StrideAt(p, Len(d)) \in freed THEN Pruned(t[d], ChildPos(p, d)) ELSE t[d]
            BY <1>4, <1>8, <2>1, <2>2
        <2>4. ChildCleared(V, t[d], ChildPos(p, d), Pruned(t[d], ChildPos(p, d)))
            BY <2>1, <2>2, PrunedCells
        <2> QED
            BY <1>3, <2>3, <2>4
    <1>9. Deleted(V, t, p, u)
        BY <1>4, <1>5, <1>6, <1>7, <1>8 DEF Deleted
    <1> QED
        BY <1>1, <1>9

\* A node of the way that is spent, with all nodes behind it, goes.
LEMMA SpentGoes ==
    ASSUME NEW V, NEW t, Exact(V, t), NEW p \in Keys, NEW d \in DOMAIN t, d \in Stops(p), d # <<>>,
           Spent(t, p, d), ~ EndsIn(p, d) => Goes(t, p, d \o StrideAt(p, Len(d)))
    PROVE  Goes(t, p, d)
PROOF
    <1>1. /\ p \in Seq(Bit) /\ Len(p) \in Nat /\ d \in Keys /\ d \in Seq(Bit) /\ Len(d) \in Nat
          /\ Covers(d, p) /\ Aligned(Len(d)) /\ STRIDE \in Nat
        BY KeyIsSeq, StopsAre, StrideAssumption
    <1>2. ASSUME NEW e \in DOMAIN t, e \in Stops(p), Len(d) <= Len(e)
          PROVE  Spent(t, p, e)
        <2>1. e \in Keys /\ Len(e) \in Nat /\ Covers(e, p) /\ Aligned(Len(e)) /\ Len(e) <= Len(p)
            BY <1>2, StopsAre, KeyIsSeq DEF Covers
        <2>2. CASE Len(e) = Len(d)
            <3>1. Covers(d, e)
                BY <1>1, <1>2, <2>1, Comparable
            <3>2. d = e
                <4>1. Len(d) >= Len(e)
                    BY <1>1, <2>2
                <4> QED
                    BY <1>1, <2>1, <3>1, <4>1, SameLengthSame
            <3> QED
                BY <3>2
        <2>3. CASE Len(e) # Len(d)
            <3>1. Len(d) < Len(e)
                BY <1>1, <1>2, <2>1, <2>3
            <3>2. Len(d) + STRIDE <= Len(e)
                BY <1>1, <2>1, <3>1, AlignedApart
            <3>3. ~ EndsIn(p, d)
                BY <1>1, <2>1, <3>2 DEF EndsIn
            <3>4. Goes(t, p, d \o StrideAt(p, Len(d)))
                BY <3>3
            <3>5. StrideAt(p, Len(d)) \in Strides
                BY <1>1, StrideAtType
            <3>6. Len(d \o StrideAt(p, Len(d))) = Len(d) + STRIDE
                BY <1>1, <3>5, Joined
            <3>7. Len(d \o StrideAt(p, Len(d))) <= Len(e)
                BY <3>2, <3>6
            <3> QED
                BY <1>2, <3>4, <3>7 DEF Goes
        <2> QED
            BY <2>2, <2>3
    <1> QED
        BY <1>2 DEF Goes

\* What counting bits finds in a node that delete_entry has left.
LEMMA DeletedNode ==
    ASSUME NEW V, NEW t, Exact(V, t), NEW p \in Keys, NEW u, Deleted(V, t, p, u), NEW d \in DOMAIN u
    PROVE  /\ d \in DOMAIN t /\ Shape(V, u[d]) /\ ~ Goes(t, p, d)
           /\ u[d].internal \subseteq t[d].internal /\ u[d].external \subseteq t[d].external
           /\ \A k \in u[d].external : Child(u[d], k) = Child(t[d], k)
           /\ d # <<>> => ~ IsEmpty(u[d])
PROOF
    <1>1. d \in DOMAIN t /\ ~ Goes(t, p, d)
        BY DEF Deleted
    <1>2. Shape(V, t[d]) /\ (d # <<>> => ~ IsEmpty(t[d]))
        BY <1>1, ExactNodes, ExactUp
    <1>3. CASE u[d] = t[d]
        BY <1>1, <1>2, <1>3
    <1>4. CASE d \in Stops(p) /\ EndsIn(p, d)
        <2>1. RuleCleared(V, t[d], RulePos(p, d), u[d])
            BY <1>4 DEF Deleted
        <2>2. /\ Shape(V, u[d]) /\ u[d].internal = t[d].internal \ {RulePos(p, d)}
              /\ u[d].external = t[d].external /\ u[d].children = t[d].children
            BY <2>1 DEF RuleCleared
        <2>3. IsEmpty(u[d]) => Spent(t, p, d)
            BY <1>4, <2>2 DEF IsEmpty, Spent
        <2>4. d # <<>> => ~ IsEmpty(u[d])
            BY <1>1, <1>4, <2>3, SpentGoes
        <2> QED
            BY <1>1, <2>2, <2>4 DEF Child
    <1>5. CASE d \in Stops(p) /\ ~ EndsIn(p, d) /\ Goes(t, p, d \o StrideAt(p, Len(d)))
        <2>1. ChildCleared(V, t[d], ChildPos(p, d), u[d])
            BY <1>5 DEF Deleted
        <2>2. /\ Shape(V, u[d]) /\ u[d].external = t[d].external \ {ChildPos(p, d)}
              /\ u[d].internal = t[d].internal
              /\ \A k \in u[d].external : Child(u[d], k) = Child(t[d], k)
            BY <2>1 DEF ChildCleared
        <2>3. IsEmpty(u[d]) => Spent(t, p, d)
            BY <1>5, <2>2 DEF IsEmpty, Spent
        <2>4. d # <<>> => ~ IsEmpty(u[d])
            BY <1>1, <1>5, <2>3, SpentGoes
        <2> QED
            BY <1>1, <2>2, <2>4
    <1> QED
        BY <1>3, <1>4, <1>5 DEF Deleted

\* A bit of an external bitmap stays exactly if the node it leads to does.
LEMMA DeletedChildren ==
    ASSUME NEW V, NEW t, Exact(V, t), NEW p \in Keys, NEW u, Deleted(V, t, p, u), NEW d \in DOMAIN u,
           NEW s \in Strides, count_enl_bitmap(s) \in t[d].external
    PROVE  /\ d \o s \in DOMAIN t /\ Child(t[d], count_enl_bitmap(s)) = d \o s
           /\ count_enl_bitmap(s) \in u[d].external <=> d \o s \in DOMAIN u
PROOF
    <1>1. d \in DOMAIN t /\ d \in Seq(Bit) /\ Len(d) \in Nat /\ p \in Seq(Bit) /\ Len(p) \in Nat
        BY DeletedNode, ExactNodes, KeyIsSeq
    <1>2. d \o s \in DOMAIN t /\ Child(t[d], count_enl_bitmap(s)) = d \o s
        <2>1. \A x \in Strides : count_enl_bitmap(x) \in t[d].external =>
                  d \o x \in DOMAIN t /\ Child(t[d], count_enl_bitmap(x)) = d \o x
            BY <1>1, ExactNodes
        <2> QED
            BY <2>1
    <1>3. d \o s \in DOMAIN u <=> ~ Goes(t, p, d \o s)
        BY <1>2 DEF Deleted
    <1> DEFINE e == d \o s
    <1>4. Len(e) = Len(d) + STRIDE /\ Covers(d, e) /\ Up(e) = d /\ LastStride(e) = s /\ e # <<>>
        <2>1. Len(e) = Len(d) + STRIDE /\ Covers(d, e) /\ Up(e) = d /\ LastStride(e) = s
            BY <1>1, Joined
        <2> HIDE DEF e
        <2>2. Len(e) # 0
            BY <1>1, <2>1, StrideAssumption
        <2> QED
            BY <2>1, <2>2, EmptyLength
    <1>5. ASSUME e \in Stops(p)
          PROVE  d \in Stops(p) /\ ~ EndsIn(p, d) /\ s = StrideAt(p, Len(d))
        <2> HIDE DEF e
        <2> QED
            BY <1>4, <1>5, StopBefore
    <1>6. CASE Goes(t, p, e)
        <2>1. e \in Stops(p)
            BY <1>6 DEF Goes
        <2>2. d \in Stops(p) /\ ~ EndsIn(p, d) /\ s = StrideAt(p, Len(d))
            BY <1>5, <2>1
        <2>3. ChildCleared(V, t[d], ChildPos(p, d), u[d])
            BY <1>6, <2>2 DEF Deleted
        <2>4. count_enl_bitmap(s) \notin u[d].external
            BY <2>2, <2>3 DEF ChildCleared, ChildPos
        <2> QED
            BY <1>2, <1>3, <1>6, <2>4
    <1>7. CASE ~ Goes(t, p, e)
        <2>1. count_enl_bitmap(s) \in u[d].external
            <3>1. CASE u[d].external = t[d].external
                BY <3>1
            <3>2. CASE u[d].external # t[d].external
                <4>1. /\ d \in Stops(p) /\ Goes(t, p, d \o StrideAt(p, Len(d)))
                      /\ u[d].external = t[d].external \ {ChildPos(p, d)}
                    BY <3>2 DEF Deleted, RuleCleared, ChildCleared
                <4>2. s # StrideAt(p, Len(d))
                    BY <1>7, <4>1
                <4>3. StrideAt(p, Len(d)) \in Strides
                    BY <1>1, StrideAtType
                <4>4. count_enl_bitmap(s) # ChildPos(p, d)
                    BY <4>2, <4>3, EnlInjective DEF ChildPos
                <4> QED
                    BY <4>1, <4>4
            <3> QED
                BY <3>1, <3>2
        <2> QED
            BY <1>2, <1>3, <1>7, <2>1
    <1> QED
        BY <1>6, <1>7

\* delete_entry keeps the blocks exact and leaves no empty node behind.
LEMMA DeleteExact ==
    ASSUME NEW V, NEW t, Exact(V, t), NEW p \in Keys, NEW u, Deleted(V, t, p, u)
    PROVE  Exact(V, u)
PROOF
    <1>1. u = [d \in DOMAIN u |-> u[d]]
        BY DEF Deleted
    <1>2. <<>> \in DOMAIN u
        BY ExactNodes DEF Deleted, Goes
    <1>3. ASSUME NEW d \in DOMAIN u
          PROVE  d \in Keys /\ Aligned(Len(d)) /\ NodeExact(u, d) /\ Shape(V, u[d])
        <2>1. d \in DOMAIN t /\ Shape(V, u[d])
            BY DeletedNode
        <2>2. d \in Keys /\ Aligned(Len(d))
            BY <2>1, ExactNodes
        <2>3. ASSUME NEW s \in Strides, count_enl_bitmap(s) \in u[d].external
              PROVE  d \o s \in DOMAIN u /\ Child(u[d], count_enl_bitmap(s)) = d \o s
            <3>1. /\ count_enl_bitmap(s) \in t[d].external
                  /\ Child(u[d], count_enl_bitmap(s)) = Child(t[d], count_enl_bitmap(s))
                BY <2>3, DeletedNode
            <3> QED
                BY <2>3, <3>1, DeletedChildren
        <2> QED
            BY <2>1, <2>2, <2>3 DEF NodeExact, Shape
    <1>4. ASSUME NEW d \in DOMAIN u, d # <<>>
          PROVE  /\ ~ IsEmpty(u[d])
                 /\ Up(d) \in DOMAIN u /\ count_enl_bitmap(LastStride(d)) \in u[Up(d)].external
        <2>1. ~ IsEmpty(u[d]) /\ d \in DOMAIN t /\ ~ Goes(t, p, d)
            BY <1>4, DeletedNode
        <2> DEFINE a == Up(d)
                   s == LastStride(d)
        <2>2. a \in DOMAIN t /\ s \in Strides /\ count_enl_bitmap(s) \in t[a].external /\ Len(a) = Len(d) - STRIDE
            BY <1>4, <2>1, ExactUp
        <2>3. a \o s = d /\ d \in Seq(Bit) /\ Len(d) \in Nat /\ a \in Seq(Bit) /\ Len(a) \in Nat
            <3>1. d \in Seq(Bit) /\ Len(d) \in Nat /\ STRIDE <= Len(d)
                BY <1>4, <2>1, ExactNodes, ExactUp
            <3> QED
                BY <2>2, <3>1, ExactNodes, Parted
        <2> HIDE DEF a, s
        <2>4. a \in DOMAIN u
            <3>1. SUFFICES ASSUME Goes(t, p, a) PROVE FALSE
                BY <2>2 DEF Deleted
            <3>2. Spent(t, p, a) /\ a \in Stops(p)
                BY <2>2, <2>3, <3>1 DEF Goes
            <3>3. ~ EndsIn(p, a) /\ t[a].external \subseteq {ChildPos(p, a)}
                BY <2>2, <3>2 DEF Spent
            <3>4. StrideAt(p, Len(a)) \in Strides /\ a \o StrideAt(p, Len(a)) \in Stops(p)
                BY <3>2, <3>3, NextStop
            <3>5. s = StrideAt(p, Len(a))
                BY <2>2, <3>3, <3>4, EnlInjective DEF ChildPos
            <3>6. d \in Stops(p)
                BY <2>3, <3>4, <3>5
            <3>7. \A e \in DOMAIN t : e \in Stops(p) /\ Len(d) <= Len(e) => Spent(t, p, e)
                <4>1. ASSUME NEW e \in DOMAIN t, e \in Stops(p), Len(d) <= Len(e)
                      PROVE  Spent(t, p, e)
                    <5>1. Len(e) \in Nat /\ STRIDE \in Nat
                        BY ExactNodes, StrideAssumption
                    <5>2. Len(a) <= Len(e)
                        BY <2>2, <2>3, <4>1, <5>1
                    <5> QED
                        BY <3>1, <4>1, <5>2 DEF Goes
                <4> QED
                    BY <4>1
            <3> QED
                BY <1>4, <2>1, <3>6, <3>7 DEF Goes
        <2>5. count_enl_bitmap(s) \in u[a].external
            BY <2>2, <2>3, <2>4, DeletedChildren
        <2> QED
            BY <2>1, <2>4, <2>5 DEF a, s
    <1>5. TrieExact(u)
        BY <1>2, <1>3, <1>4 DEF TrieExact
    <1> QED
        BY <1>1, <1>3, <1>5 DEF Exact

\* delete_entry takes the rule of p away and leaves the other rules alone.
LEMMA DeleteRules ==
    ASSUME NEW V, NEW t, Exact(V, t), NEW p \in Keys, NEW u, Deleted(V, t, p, u),
           NEW q \in Seq(Bit), NEW y
    PROVE  RuleAt(u, q, y) <=> q # p /\ RuleAt(t, q, y)
PROOF
    <1>1. Exact(V, u) /\ p \in Seq(Bit) /\ Len(p) \in Nat
        BY DeleteExact, KeyIsSeq
    <1>2. ASSUME NEW d \in DOMAIN u, Covers(d, q), EndsIn(q, d), q # p
          PROVE  /\ Holds(u, q, d) <=> Holds(t, q, d)
                 /\ Holds(u, q, d) => Rule(u[d], RulePos(q, d)) = Rule(t[d], RulePos(q, d))
        <2>1. d \in DOMAIN t /\ d \in Seq(Bit)
            BY DeletedNode, ExactNodes
        <2>2. /\ RulePos(q, d) \in u[d].internal <=> RulePos(q, d) \in t[d].internal
              /\ RulePos(q, d) \in u[d].internal => Rule(u[d], RulePos(q, d)) = Rule(t[d], RulePos(q, d))
            <3>1. CASE u[d] = t[d]
                BY <3>1
            <3>2. CASE d \in Stops(p) /\ EndsIn(p, d)
                <4>1. /\ u[d].internal = t[d].internal \ {RulePos(p, d)}
                      /\ \A k \in u[d].internal : Rule(u[d], k) = Rule(t[d], k)
                    BY <3>2 DEF Deleted, RuleCleared
                <4>2. RulePos(q, d) # RulePos(p, d)
                    BY <1>1, <1>2, <2>1, <3>2, StopsAre, HeldPrefix
                <4> QED
                    BY <4>1, <4>2
            <3>3. CASE d \in Stops(p) /\ ~ EndsIn(p, d) /\ u[d] # t[d]
                <4>1. u[d].internal = t[d].internal /\ u[d].rules = t[d].rules
                    BY <3>3 DEF Deleted, ChildCleared
                <4> QED
                    BY <4>1 DEF Rule
            <3> QED
                BY <3>1, <3>2, <3>3 DEF Deleted
        <2> QED
            BY <1>2, <2>1, <2>2 DEF Holds
    <1>3. ASSUME NEW d \in DOMAIN u, Holds(u, q, d)
          PROVE  q # p
        <2>1. SUFFICES ASSUME q = p PROVE FALSE
            OBVIOUS
        <2>2. Covers(d, p) /\ EndsIn(p, d) /\ RulePos(p, d) \in u[d].internal
            BY <1>3, <2>1 DEF Holds
        <2>3. d \in Stops(p)
            BY <1>1, <2>2, ExactNodes, StopsAre
        <2>4. u[d].internal = t[d].internal \ {RulePos(p, d)}
            BY <2>2, <2>3 DEF Deleted, RuleCleared
        <2> QED
            BY <2>2, <2>4
    <1>4. ASSUME NEW d \in DOMAIN t, Holds(t, q, d), q # p
          PROVE  d \in DOMAIN u
        <2>1. SUFFICES ASSUME Goes(t, p, d) PROVE FALSE
            BY DEF Deleted
        <2>2. d \in Seq(Bit) /\ Len(d) \in Nat
            BY ExactNodes
        <2>3. Spent(t, p, d) /\ d \in Stops(p)
            BY <2>1, <2>2 DEF Goes
        <2>4. RulePos(q, d) = RulePos(p, d)
            BY <1>4, <2>3 DEF Spent, Holds
        <2> QED
            BY <1>1, <1>4, <2>2, <2>3, <2>4, StopsAre, HeldPrefix DEF Holds
    <1>5. ASSUME RuleAt(u, q, y)
          PROVE  q # p /\ RuleAt(t, q, y)
        <2>1. PICK d \in DOMAIN u : Holds(u, q, d) /\ y = Rule(u[d], RulePos(q, d))
            BY <1>5 DEF RuleAt
        <2>2. q # p
            BY <1>3, <2>1
        <2>3. Holds(t, q, d) /\ y = Rule(t[d], RulePos(q, d))
            <3>1. Covers(d, q) /\ EndsIn(q, d)
                BY <2>1 DEF Holds
            <3> QED
                BY <1>2, <2>1, <2>2, <3>1
        <2>4. d \in DOMAIN t
            BY <2>3 DEF Holds
        <2> QED
            BY <2>2, <2>3, <2>4 DEF RuleAt
    <1>6. ASSUME q # p, RuleAt(t, q, y)
          PROVE  RuleAt(u, q, y)
        <2>1. PICK d \in DOMAIN t : Holds(t, q, d) /\ y = Rule(t[d], RulePos(q, d))
            BY <1>6 DEF RuleAt
        <2>2. d \in DOMAIN u
            BY <1>4, <1>6, <2>1
        <2>3. Holds(u, q, d) /\ y = Rule(u[d], RulePos(q, d))
            <3>1. Covers(d, q) /\ EndsIn(q, d)
                BY <2>1 DEF Holds
            <3> QED
                BY <1>2, <1>6, <2>1, <2>2, <3>1
        <2> QED
            BY <2>2, <2>3 DEF RuleAt
    <1> QED
        BY <1>5, <1>6

----------------------------------------------------------------------------
(* Empty tries and single rules *)

\* Of some nodes there is a deepest one.
LEMMA DeepestOf ==
    ASSUME NEW S \in SUBSET Keys, S # {}
    PROVE  Deepest(S) \in S /\ \A e \in S : Len(e) <= Len(Deepest(S))
PROOF
    <1> DEFINE P(d) == d \in S /\ \A e \in S : Len(e) <= Len(d)
               deep == CHOOSE d \in S : \A e \in S : Len(e) <= Len(d)
    <1>1. \E d \in S : \A e \in S : Len(e) <= Len(d)
        BY LongestExists
    <1>2. deep \in S /\ \A e \in S : Len(e) <= Len(deep)
        BY <1>1, Zenon
    <1> QED
        BY <1>2 DEF Deepest

\* calloc makes a trie without rules.
LEMMA EmptyTrieExact ==
    ASSUME NEW V
    PROVE  /\ Exact(V, EmptyTrie) /\ DOMAIN EmptyTrie = {<<>>} /\ IsEmpty(EmptyTrie[<<>>])
           /\ \A q, x : ~ RuleAt(EmptyTrie, q, x)
PROOF
    <1> DEFINE t == EmptyTrie
    <1>1. DOMAIN t = {<<>>} /\ t[<<>>] = EmptyNode /\ t = [d \in DOMAIN t |-> t[d]]
        BY DEF EmptyTrie
    <1> HIDE DEF t
    <1>2. Shape(V, EmptyNode) /\ IsEmpty(EmptyNode)
        BY EmptyShape
    <1>3. \A d \in DOMAIN t : d = <<>> /\ Shape(V, t[d]) /\ t[d].internal = {} /\ t[d].external = {}
        BY <1>1, <1>2 DEF IsEmpty
    <1>4. <<>> \in Keys
        <2>1. <<>> \in [1 .. 0 -> Bit] /\ 0 \in 0 .. KeyLength
            BY KeyLengthAssumption
        <2> QED
            BY <2>1 DEF Keys
    <1>5. Aligned(Len(<<>>))
        BY AlignedZero, EmptyLength
    <1>6. \A d \in DOMAIN t : NodeExact(t, d)
        BY <1>3 DEF NodeExact, Shape
    <1>7. TrieExact(t)
        BY <1>1, <1>3, <1>4, <1>5, <1>6 DEF TrieExact
    <1>8. Exact(V, t)
        BY <1>1, <1>3, <1>7 DEF Exact
    <1>9. \A q, x : ~ RuleAt(t, q, x)
        BY <1>3 DEF RuleAt, Holds
    <1>10. IsEmpty(t[<<>>])
        BY <1>1, <1>2
    <1> QED
        BY <1>1, <1>8, <1>9, <1>10 DEF t

\* If the root is empty, so is the trie.
LEMMA EmptyRoot ==
    ASSUME NEW V, NEW t, Exact(V, t), IsEmpty(t[<<>>])
    PROVE  t = EmptyTrie
PROOF
    <1>1. ASSUME NEW d \in DOMAIN t, d # <<>>
          PROVE  FALSE
        <2>1. d \in Keys /\ Aligned(Len(d)) /\ d \in Seq(Bit) /\ Len(d) \in Nat /\ <<>> \in Keys
            BY ExactNodes
        <2>2. Covers(<<>>, d) /\ Aligned(Len(<<>>))
            BY <2>1, AlignedZero, EmptyLength DEF Covers
        <2>3. ChildPos(d, <<>>) \in t[<<>>].external
            BY <1>1, <2>1, <2>2, Upward
        <2> QED
            BY <2>3 DEF IsEmpty
    <1>2. DOMAIN t = {<<>>} /\ t = [d \in DOMAIN t |-> t[d]]
        BY <1>1, ExactNodes DEF Exact
    <1>3. t[<<>>] = EmptyNode
        <2> DEFINE n == t[<<>>]
        <2>1. n \in Nodes(V) /\ n.internal = {} /\ n.external = {}
              /\ Len(n.rules) = Cardinality(n.internal) /\ Len(n.children) = Cardinality(n.external)
            BY <1>2, ExactNodes DEF Shape, IsEmpty
        <2> HIDE DEF n
        <2>2. Len(n.rules) = 0 /\ Len(n.children) = 0
            BY <2>1, FS_EmptySet
        <2>3. n.rules = <<>> /\ n.children = <<>>
            BY <2>1, <2>2 DEF Nodes
        <2>4. n = [internal |-> n.internal, external |-> n.external, rules |-> n.rules, children |-> n.children]
            BY <2>1 DEF Nodes
        <2> QED
            BY <2>1, <2>3, <2>4 DEF EmptyNode, n
    <1> QED
        BY <1>2, <1>3 DEF EmptyTrie

\* A trie without rules is empty.
LEMMA NoRules ==
    ASSUME NEW V, NEW t, Exact(V, t), ~ IsEmpty(t[<<>>])
    PROVE  \E q \in Seq(Bit) : \E x : RuleAt(t, q, x)
PROOF
    <1> DEFINE d == Deepest(DOMAIN t)
    <1>1. d \in DOMAIN t /\ \A e \in DOMAIN t : Len(e) <= Len(d)
        <2>1. DOMAIN t \in SUBSET Keys /\ DOMAIN t # {}
            BY ExactNodes
        <2> QED
            BY <2>1, DeepestOf
    <1> HIDE DEF d
    <1>2. d \in Seq(Bit) /\ Len(d) \in Nat /\ Shape(V, t[d])
        BY <1>1, ExactNodes
    <1>3. t[d].external = {}
        <2>1. ASSUME NEW pos \in t[d].external PROVE FALSE
            <3>1. PICK s \in Strides : pos = count_enl_bitmap(s)
                BY <1>2, <2>1 DEF Shape
            <3>2. d \o s \in DOMAIN t
                BY <1>1, <2>1, <3>1, ExactNodes
            <3>3. Len(d \o s) = Len(d) + STRIDE
                BY <1>2, Joined
            <3>4. Len(d) + STRIDE <= Len(d)
                BY <1>1, <3>2, <3>3
            <3> QED
                BY <1>2, <3>4, StrideAssumption
        <2> QED
            BY <2>1
    <1>4. ~ IsEmpty(t[d])
        BY <1>1, ExactUp
    <1>5. PICK pos : pos \in t[d].internal
        BY <1>3, <1>4 DEF IsEmpty
    <1>6. PICK b \in Shorts : pos = count_inl_bitmap(b)
        BY <1>2, <1>5 DEF Shape
    <1>7. d \o b \in Seq(Bit) /\ Covers(d, d \o b) /\ EndsIn(d \o b, d) /\ RestAt(d \o b, Len(d)) = b
        BY <1>2, ShortBehind
    <1>8. Holds(t, d \o b, d)
        BY <1>1, <1>5, <1>6, <1>7 DEF Holds, RulePos
    <1>9. RuleAt(t, d \o b, Rule(t[d], RulePos(d \o b, d)))
        BY <1>1, <1>8 DEF RuleAt
    <1> QED
        BY <1>7, <1>9

\* NhiOf finds the rule of a prefix.
LEMMA NhiOfRule ==
    ASSUME NEW V, NEW t, Exact(V, t), NEW p \in Keys
    PROVE  /\ \A x : RuleAt(t, p, x) => NhiOf(t, p) = x
           /\ (\A x : ~ RuleAt(t, p, x)) => NhiOf(t, p) = NULL
PROOF
    <1> DEFINE found == {d \in Way(t, p, Len(p)) : EndsIn(p, d) /\ RulePos(p, d) \in t[d].internal}
    <1>1. ASSUME NEW d
          PROVE  d \in found <=> d \in DOMAIN t /\ Holds(t, p, d)
        <2>1. d \in DOMAIN t => d \in Keys /\ Aligned(Len(d))
            BY ExactNodes
        <2> QED
            BY <2>1, WayToPrefix, StopsAre DEF Holds
    <1>2. NhiOf(t, p) = IF found = {} THEN NULL ELSE Rule(t[Deepest(found)], RulePos(p, Deepest(found)))
        BY DEF NhiOf
    <1> HIDE DEF found
    <1>3. ASSUME NEW x, RuleAt(t, p, x)
          PROVE  NhiOf(t, p) = x
        <2>1. found # {}
            BY <1>1, <1>3 DEF RuleAt
        <2>2. found \in SUBSET Keys
            BY <1>1, ExactNodes
        <2>3. Deepest(found) \in found
            BY <2>1, <2>2, DeepestOf
        <2>4. RuleAt(t, p, NhiOf(t, p))
            BY <1>1, <1>2, <2>1, <2>3 DEF RuleAt
        <2>5. p \in Seq(Bit)
            BY KeyIsSeq
        <2> QED
            BY <1>3, <2>4, <2>5, OneRule
    <1>4. ASSUME \A x : ~ RuleAt(t, p, x)
          PROVE  NhiOf(t, p) = NULL
        <2>1. found = {}
            BY <1>1, <1>4 DEF RuleAt
        <2> QED
            BY <1>2, <2>1
    <1> QED
        BY <1>3, <1>4

----------------------------------------------------------------------------
(* Searching one node *)

\* A set of numbers up to n that is not empty has a greatest one.
LEMMA MaxOf ==
    ASSUME NEW n \in Nat, NEW T \in SUBSET (0 .. n), T # {}
    PROVE  Max(T) \in T /\ \A y \in T : y <= Max(T)
PROOF
    <1> DEFINE U == {n - x : x \in T}
               top == CHOOSE x \in T : \A y \in T : x >= y
    <1>1. U \in SUBSET Nat /\ U # {}
        OBVIOUS
    <1>2. PICK m \in U : \A y \in U : m <= y
        <2> HIDE DEF U
        <2> QED
            BY <1>1, LeastOf
    <1>3. PICK x \in T : m = n - x
        BY <1>2
    <1>4. \A y \in T : x >= y
        <2>1. ASSUME NEW y \in T PROVE x >= y
            <3>1. n - y \in U
                OBVIOUS
            <3>2. m <= n - y
                BY <1>2, <3>1
            <3>3. x \in 0 .. n /\ y \in 0 .. n
                OBVIOUS
            <3> QED
                BY <1>3, <3>2, <3>3
        <2> QED
            BY <2>1
    <1>5. \E z \in T : \A y \in T : z >= y
        BY <1>4
    <1>6. top \in T /\ \A y \in T : top >= y
        BY <1>5, Zenon
    <1>7. Max(T) = top
        BY DEF Max
    <1> HIDE DEF top
    <1>8. \A y \in T : y <= top
        <2>1. ASSUME NEW y \in T PROVE y <= top
            <3>1. y \in 0 .. n /\ top \in 0 .. n /\ top >= y
                BY <1>6
            <3> QED
                BY <3>1
        <2> QED
            BY <2>1
    <1> QED
        BY <1>6, <1>7, <1>8

\* The first j bits of the stride of p in node d.
Part(p, d, j) == SubSeq(StrideAt(p, Len(d)), 1, j)

\* The beginning of a stride.
LEMMA PartOfStride ==
    ASSUME NEW p \in Seq(Bit), NEW d \in Seq(Bit), NEW j \in 0 .. STRIDE - 1
    PROVE  /\ Part(p, d, j) \in Shorts /\ Len(Part(p, d, j)) = j
           /\ \A i \in 1 .. j : Part(p, d, j)[i] = StrideAt(p, Len(d))[i]
PROOF
    <1> DEFINE s == StrideAt(p, Len(d))
               b == Part(p, d, j)
    <1>1. Len(d) \in Nat /\ j \in Nat /\ j < STRIDE /\ STRIDE \in Nat
        BY StrideAssumption
    <1>2. s \in Strides
        BY <1>1, StrideAtType
    <1>3. s \in Seq(Bit) /\ Len(s) = STRIDE
        BY <1>2, StrideIsSeq
    <1>4. b = SubSeq(s, 1, j)
        BY DEF Part
    <1> HIDE DEF s, b
    <1>5. b \in Seq(Bit) /\ Len(b) = j /\ \A i \in 1 .. j : b[i] = s[i]
        <2>1. 1 \in 1 .. Len(s) + 1 /\ j \in 1 - 1 .. Len(s)
            BY <1>1, <1>3
        <2>2. /\ SubSeq(s, 1, j) \in Seq(Bit)
              /\ Len(SubSeq(s, 1, j)) = IF 1 <= j THEN j - 1 + 1 ELSE 0
              /\ \A i \in 1 .. j - 1 + 1 : SubSeq(s, 1, j)[i] = s[1 + i - 1]
            BY <1>3, <2>1, SubSeqProperties
        <2>3. j - 1 + 1 = j /\ (IF 1 <= j THEN j - 1 + 1 ELSE 0) = j
            BY <1>1
        <2>4. \A i \in 1 .. j : 1 + i - 1 = i
            BY <1>1
        <2> QED
            BY <1>4, <2>2, <2>3, <2>4
    <1>6. b \in Shorts
        BY <1>1, <1>5, ShortIsSeq
    <1> QED
        BY <1>5, <1>6 DEF s, b

\* A part of the stride of p within p leads to a beginning of p.
LEMMA PartWithin ==
    ASSUME NEW p \in Seq(Bit), NEW d \in Seq(Bit), Covers(d, p), NEW j \in 0 .. STRIDE - 1,
           Len(d) + j <= Len(p)
    PROVE  /\ d \o Part(p, d, j) \in Seq(Bit) /\ Len(d \o Part(p, d, j)) = Len(d) + j
           /\ Covers(d, d \o Part(p, d, j)) /\ Covers(d \o Part(p, d, j), p)
           /\ EndsIn(d \o Part(p, d, j), d)
           /\ RestAt(d \o Part(p, d, j), Len(d)) = Part(p, d, j)
PROOF
    <1> DEFINE b == Part(p, d, j)
               q == d \o b
    <1>1. Len(d) \in Nat /\ Len(p) \in Nat /\ j \in Nat /\ j < STRIDE /\ STRIDE \in Nat
        BY StrideAssumption
    <1>2. /\ b \in Shorts /\ Len(b) = j
          /\ \A i \in 1 .. j : b[i] = StrideAt(p, Len(d))[i]
        BY PartOfStride
    <1> HIDE DEF b
    <1>3. /\ q \in Seq(Bit) /\ Len(q) = Len(d) + Len(b) /\ Covers(d, q)
          /\ EndsIn(q, d) /\ RestAt(q, Len(d)) = b
        BY <1>2, ShortBehind
    <1>4. b \in Seq(Bit)
        BY <1>2, ShortIsSeq
    <1>5. \A i \in 1 .. Len(d) + Len(b) : q[i] = IF i <= Len(d) THEN d[i] ELSE b[i - Len(d)]
        BY <1>4, ConcatProperties
    <1> HIDE DEF q
    <1>6. ASSUME NEW i \in 1 .. Len(d) + j
          PROVE  q[i] = p[i]
        <2>1. CASE i <= Len(d)
            <3>1. i \in 1 .. Len(d)
                BY <1>1, <2>1
            <3>2. d[i] = p[i]
                BY <3>1 DEF Covers
            <3> QED
                BY <1>2, <1>5, <2>1, <3>2
        <2>2. CASE ~ (i <= Len(d))
            <3> DEFINE k == i - Len(d)
            <3>1. k \in 1 .. j /\ k \in 1 .. STRIDE /\ Len(d) + k <= Len(p) /\ Len(d) + k = i
                BY <1>1, <2>2
            <3>2. q[i] = b[k]
                BY <1>2, <1>5, <2>2
            <3> HIDE DEF k
            <3>3. b[k] = StrideAt(p, Len(d))[k]
                BY <1>2, <3>1
            <3>4. StrideAt(p, Len(d))[k] = p[Len(d) + k]
                BY <1>1, <3>1, StrideAtBits
            <3> QED
                BY <3>1, <3>2, <3>3, <3>4
        <2> QED
            BY <2>1, <2>2
    <1>7. Covers(q, p)
        BY <1>1, <1>2, <1>3, <1>6 DEF Covers
    <1> QED
        BY <1>2, <1>3, <1>7 DEF q, b

\* And so is every beginning of p that ends in d.
LEMMA PartOfPrefix ==
    ASSUME NEW p \in Seq(Bit), NEW d \in Seq(Bit), NEW q \in Seq(Bit),
           Covers(d, q), Covers(q, p), EndsIn(q, d)
    PROVE  /\ Len(q) - Len(d) \in 0 .. STRIDE - 1 /\ Covers(d, p)
           /\ d \o Part(p, d, Len(q) - Len(d)) = q
           /\ RestAt(q, Len(d)) = Part(p, d, Len(q) - Len(d))
PROOF
    <1> DEFINE j == Len(q) - Len(d)
    <1>1. /\ Len(d) \in Nat /\ Len(p) \in Nat /\ Len(q) \in Nat /\ STRIDE \in Nat
          /\ Len(d) <= Len(q) /\ Len(q) <= Len(p) /\ Len(q) < Len(d) + STRIDE
        BY StrideAssumption DEF Covers, EndsIn
    <1>2. j \in 0 .. STRIDE - 1 /\ Len(d) + j = Len(q) /\ Len(d) + j <= Len(p)
        BY <1>1
    <1>3. Covers(d, p)
        <2>1. \A i \in 1 .. Len(d) : i \in 1 .. Len(q) /\ d[i] = q[i] /\ q[i] = p[i]
            BY <1>1 DEF Covers
        <2> QED
            BY <1>1, <2>1 DEF Covers
    <1> HIDE DEF j
    <1> DEFINE e == d \o Part(p, d, j)
    <1>4. e \in Seq(Bit) /\ Len(e) = Len(d) + j /\ Covers(e, p) /\ RestAt(e, Len(d)) = Part(p, d, j)
        BY <1>2, <1>3, PartWithin
    <1> HIDE DEF e
    <1>5. e = q
        <2>1. Len(e) = Len(q)
            BY <1>2, <1>4
        <2>2. \A i \in 1 .. Len(e) : e[i] = q[i]
            BY <1>4, <2>1 DEF Covers
        <2> QED
            BY <1>4, <2>1, <2>2, SeqEqual
    <1> QED
        BY <1>2, <1>3, <1>4, <1>5 DEF e, j

\* Prefix q has a rule in node d, covers p and is shorter than limit.
Cand(t, p, limit, q, d) == Holds(t, q, d) /\ Covers(q, p) /\ Len(q) < limit

\* q is the longest of them.
Best(t, p, limit, q, d) ==
    Cand(t, p, limit, q, d) /\ \A r \in Seq(Bit) : Cand(t, p, limit, r, d) => Len(r) <= Len(q)

\* pos is the position of the longest prefix of ip in node d, or -1.
Hitting(t, ip, d, pos) ==
    \/ pos = -1 /\ \A q \in Seq(Bit) : ~ Cand(t, ip, Len(ip) + 1, q, d)
    \/ pos # -1 /\ \E q \in Seq(Bit) : Best(t, ip, Len(ip) + 1, q, d) /\ pos = RulePos(q, d)

\* tree_function finds the longest prefix of an address in a node.
LEMMA HitPosIs ==
    ASSUME NEW V, NEW t, Exact(V, t), NEW ip \in Seq(Bit), NEW d \in DOMAIN t, Covers(d, ip),
           \A q \in Seq(Bit) : Holds(t, q, d) => Len(q) <= Len(ip)
    PROVE  Hitting(t, ip, d, HitPos(t, ip, d))
PROOF
    <1> DEFINE s == StrideAt(ip, Len(d))
               B == t[d].internal
               hits == fct(s) \cap B
    <1>1. d \in Seq(Bit) /\ Len(d) \in Nat /\ Shape(V, t[d]) /\ Len(ip) \in Nat /\ STRIDE \in Nat
        BY ExactNodes, StrideAssumption
    <1>2. HitPos(t, ip, d) = IF hits = {} THEN -1 ELSE Max(hits)
        BY DEF HitPos, tree_function
    <1>3. \A pos \in B : \E b \in Shorts : pos = count_inl_bitmap(b)
        BY <1>1 DEF Shape
    <1>4. ASSUME NEW pos \in hits
          PROVE  \E q \in Seq(Bit) : Cand(t, ip, Len(ip) + 1, q, d) /\ pos = RulePos(q, d)
        <2>1. PICK j \in 0 .. STRIDE - 1 : pos = count_inl_bitmap(Part(ip, d, j))
            BY DEF fct, Part
        <2> DEFINE b == Part(ip, d, j)
                   q == d \o b
        <2>2. b \in Shorts /\ Len(b) = j
            BY <1>1, PartOfStride
        <2>3. /\ q \in Seq(Bit) /\ Len(q) = Len(d) + Len(b) /\ Covers(d, q) /\ EndsIn(q, d)
              /\ RestAt(q, Len(d)) = b
            BY <1>1, <2>2, ShortBehind
        <2>4. Holds(t, q, d) /\ pos = RulePos(q, d)
            BY <2>1, <2>3 DEF Holds, RulePos
        <2>5. Len(q) <= Len(ip)
            BY <2>3, <2>4
        <2>6. Len(d) + j <= Len(ip)
            BY <2>2, <2>3, <2>5
        <2>7. Covers(q, ip)
            BY <1>1, <2>6, PartWithin
        <2> HIDE DEF q
        <2>8. Len(q) < Len(ip) + 1
            BY <1>1, <2>3, <2>5
        <2> QED
            BY <2>3, <2>4, <2>7, <2>8 DEF Cand
    <1>5. ASSUME NEW q \in Seq(Bit), Cand(t, ip, Len(ip) + 1, q, d)
          PROVE  RulePos(q, d) \in hits /\ RulePos(q, d) \in 0 .. 2^STRIDE
        <2>1. Covers(d, q) /\ Covers(q, ip) /\ EndsIn(q, d) /\ RulePos(q, d) \in B
            BY <1>5 DEF Cand, Holds
        <2>2. Len(q) - Len(d) \in 0 .. STRIDE - 1 /\ RestAt(q, Len(d)) = Part(ip, d, Len(q) - Len(d))
            BY <1>1, <2>1, PartOfPrefix
        <2>3. RulePos(q, d) \in fct(s)
            BY <2>2 DEF RulePos, fct, Part
        <2>4. RestAt(q, Len(d)) \in Shorts
            BY <1>1, <2>2, PartOfStride
        <2>5. RulePos(q, d) \in Nat /\ RulePos(q, d) < 2^STRIDE /\ 2^STRIDE \in Nat
            BY <1>1, <2>4, InlNat, PowNext DEF RulePos
        <2> HIDE DEF B, s
        <2> QED
            BY <2>1, <2>3, <2>5 DEF B
    <1> HIDE DEF hits
    <1>6. CASE hits = {}
        <2>1. HitPos(t, ip, d) = -1
            BY <1>2, <1>6
        <2> QED
            BY <1>5, <1>6, <2>1 DEF Hitting
    <1>7. CASE hits # {}
        <2>1. hits \in SUBSET (0 .. 2^STRIDE)
            BY <1>4, <1>5
        <2>2. 2^STRIDE \in Nat
            BY <1>1, PowNext
        <2>3. Max(hits) \in hits /\ \A y \in hits : y <= Max(hits)
            BY <1>7, <2>1, <2>2, MaxOf
        <2>4. PICK q \in Seq(Bit) : Cand(t, ip, Len(ip) + 1, q, d) /\ Max(hits) = RulePos(q, d)
            BY <1>4, <2>3
        <2>5. ASSUME NEW r \in Seq(Bit), Cand(t, ip, Len(ip) + 1, r, d)
              PROVE  Len(r) <= Len(q)
            <3>1. SUFFICES ASSUME Len(q) < Len(r) PROVE FALSE
                OBVIOUS
            <3>2. RulePos(r, d) <= RulePos(q, d)
                BY <1>5, <2>3, <2>4, <2>5
            <3>3. Covers(d, q) /\ Covers(d, r)
                BY <2>4, <2>5 DEF Cand, Holds
            <3>4. /\ RestAt(q, Len(d)) \in Seq(Bit) /\ Len(RestAt(q, Len(d))) = Len(q) - Len(d)
                  /\ RestAt(r, Len(d)) \in Seq(Bit) /\ Len(RestAt(r, Len(d))) = Len(r) - Len(d)
                BY <1>1, <3>3, RestIsShort
            <3>5. Len(RestAt(q, Len(d))) < Len(RestAt(r, Len(d)))
                BY <1>1, <3>1, <3>4
            <3>6. RulePos(q, d) < RulePos(r, d)
                BY <3>4, <3>5, PosRising DEF RulePos
            <3>7. RulePos(q, d) \in Nat /\ RulePos(r, d) \in Nat
                BY <3>4, PosBounds DEF RulePos
            <3> QED
                BY <3>2, <3>6, <3>7
        <2>6. HitPos(t, ip, d) = RulePos(q, d) /\ RulePos(q, d) \in Nat
            BY <1>2, <1>5, <1>7, <2>4
        <2>7. Best(t, ip, Len(ip) + 1, q, d)
            BY <2>4, <2>5 DEF Best
        <2>8. HitPos(t, ip, d) # -1
            BY <2>6
        <2> QED
            BY <2>6, <2>7, <2>8 DEF Hitting
    <1> QED
        BY <1>6, <1>7

----------------------------------------------------------------------------
(* Searching a trie *)

\* The rule of q is x; q is the longest prefix with a rule that covers p and is
\* shorter than limit.
Nearby(t, p, limit, q, x) ==
    /\ RuleAt(t, q, x) /\ Covers(q, p) /\ Len(q) < limit
    /\ \A r \in Seq(Bit) : \A y : RuleAt(t, r, y) /\ Covers(r, p) /\ Len(r) < limit => Len(r) <= Len(q)

NoneNearby(t, p, limit) ==
    \A r \in Seq(Bit) : \A y : ~ (RuleAt(t, r, y) /\ Covers(r, p) /\ Len(r) < limit)

\* x is the next hop of the longest of these prefixes, NULL if there is none.
Found(t, p, limit, x) ==
    \/ NoneNearby(t, p, limit) /\ x = NULL
    \/ \E q \in Seq(Bit) : Nearby(t, p, limit, q, x)

\* Of two nodes on one way the deeper one has the longer prefixes.
LEMMA DeeperLonger ==
    ASSUME NEW V, NEW t, Exact(V, t), NEW p \in Seq(Bit), NEW d \in DOMAIN t, NEW e \in DOMAIN t,
           NEW q \in Seq(Bit), NEW r \in Seq(Bit), Covers(q, p), Covers(r, p),
           Holds(t, q, d), Holds(t, r, e), Len(e) <= Len(d), d # e
    PROVE  Len(r) <= Len(q)
PROOF
    <1>1. /\ d \in Keys /\ e \in Keys /\ d \in Seq(Bit) /\ e \in Seq(Bit) /\ Len(d) \in Nat /\ Len(e) \in Nat
          /\ Aligned(Len(d)) /\ Aligned(Len(e)) /\ STRIDE \in Nat
        BY ExactNodes, StrideAssumption
    <1>2. Covers(d, q) /\ Covers(e, r) /\ EndsIn(r, e) /\ EndsIn(q, d)
        BY DEF Holds
    <1>3. Covers(d, p) /\ Covers(e, p)
        BY <1>1, <1>2, PartOfPrefix
    <1>4. Len(e) # Len(d)
        <2>1. SUFFICES ASSUME Len(e) = Len(d) PROVE FALSE
            OBVIOUS
        <2>2. Len(p) \in Nat /\ Covers(e, d)
            BY <1>1, <1>3, Comparable
        <2>3. Len(e) >= Len(d)
            BY <1>1, <2>1
        <2> QED
            BY <1>1, <2>2, <2>3, SameLengthSame
    <1>5. Len(e) + STRIDE <= Len(d)
        BY <1>1, <1>4, AlignedApart
    <1>6. Len(d) <= Len(q) /\ Len(r) < Len(e) + STRIDE /\ Len(q) \in Nat /\ Len(r) \in Nat
        BY <1>2 DEF Covers, EndsIn
    <1> QED
        BY <1>1, <1>5, <1>6

\* If the deepest node with a candidate is known, so is the longest candidate.
LEMMA DeepestBest ==
    ASSUME NEW V, NEW t, Exact(V, t), NEW p \in Seq(Bit), NEW limit \in Nat, NEW d \in DOMAIN t,
           \A e \in DOMAIN t : \A r \in Seq(Bit) : Cand(t, p, limit, r, e) => Len(e) <= Len(d),
           NEW q \in Seq(Bit), Best(t, p, limit, q, d)
    PROVE  Nearby(t, p, limit, q, Rule(t[d], RulePos(q, d)))
PROOF
    <1>1. Holds(t, q, d) /\ Covers(q, p) /\ Len(q) < limit
        BY DEF Best, Cand
    <1>2. RuleAt(t, q, Rule(t[d], RulePos(q, d)))
        BY <1>1 DEF RuleAt
    <1>3. ASSUME NEW r \in Seq(Bit), NEW y, RuleAt(t, r, y), Covers(r, p), Len(r) < limit
          PROVE  Len(r) <= Len(q)
        <2>1. PICK e \in DOMAIN t : Holds(t, r, e)
            BY <1>3 DEF RuleAt
        <2>2. Cand(t, p, limit, r, e)
            BY <1>3, <2>1 DEF Cand
        <2>3. CASE e = d
            BY <2>2, <2>3 DEF Best
        <2>4. CASE e # d
            <3>1. Len(e) <= Len(d)
                BY <2>2
            <3> QED
                BY <1>1, <1>3, <2>1, <2>4, <3>1, DeeperLonger
        <2> QED
            BY <2>3, <2>4
    <1> QED
        BY <1>1, <1>2, <1>3 DEF Nearby

\* A trie without nodes and rules behind the addresses of ip's length.
Fits(t, ip) ==
    /\ \A d \in DOMAIN t : Len(d) <= Len(ip)
    /\ \A q \in Seq(Bit) : \A y : RuleAt(t, q, y) => Len(q) <= Len(ip)

\* The way of a search: the nodes along the address.
LEMMA SearchWay ==
    ASSUME NEW V, NEW t, Exact(V, t), NEW ip \in Keys, Fits(t, ip)
    PROVE  /\ Reach(ip) \in Nat
           /\ \A d : d \in Way(t, ip, Reach(ip)) <=> d \in DOMAIN t /\ Covers(d, ip)
           /\ \A k \in 0 .. Reach(ip) : \A d \in Walk(t, ip, Reach(ip))[k] :
                 d \in DOMAIN t /\ Covers(d, ip) /\ Len(d) = k * STRIDE
PROOF
    <1>1. ip \in Seq(Bit) /\ Len(ip) \in Nat /\ STRIDE \in Nat /\ Reach(ip) \in Nat
        BY KeyIsSeq, StrideAssumption DEF Reach
    <1>2. \A d \in DOMAIN t : Len(d) <= Reach(ip) => Len(d) <= Len(ip)
        BY DEF Fits
    <1>3. Way(t, ip, Reach(ip)) = Along(t, ip, Reach(ip))
        BY <1>1, <1>2, WayIsAlong
    <1>4. \A k \in 0 .. Reach(ip) : \A d \in Walk(t, ip, Reach(ip))[k] :
             d \in Along(t, ip, Reach(ip)) /\ Len(d) = k * STRIDE
        BY <1>1, <1>2, WalkAlong
    <1>5. \A d : d \in Along(t, ip, Reach(ip)) <=> d \in DOMAIN t /\ Covers(d, ip)
        <2>1. ASSUME NEW d \in DOMAIN t PROVE Len(d) <= Reach(ip)
            <3>1. Len(d) \in Nat /\ Len(d) <= Len(ip)
                BY ExactNodes DEF Fits
            <3> QED
                BY <1>1, <3>1 DEF Reach
        <2> QED
            BY <2>1 DEF Along
    <1> QED
        BY <1>1, <1>3, <1>4, <1>5

\* The nodes of a search that have a prefix of the address.
LEMMA SearchHits ==
    ASSUME NEW V, NEW t, Exact(V, t), NEW ip \in Keys, Fits(t, ip), NEW d \in DOMAIN t, Covers(d, ip)
    PROVE  Hitting(t, ip, d, HitPos(t, ip, d))
PROOF
    <1>1. ip \in Seq(Bit)
        BY KeyIsSeq
    <1>2. \A q \in Seq(Bit) : Holds(t, q, d) => Len(q) <= Len(ip)
        BY DEF Fits, RuleAt
    <1> QED
        BY <1>1, <1>2, HitPosIs

\* do_search_lazy finds the rule of the longest prefix.
LEMMA LazyFinds ==
    ASSUME NEW V, NEW t, Exact(V, t), NEW ip \in Keys, Fits(t, ip)
    PROVE  Found(t, ip, Len(ip) + 1, do_search_lazy(t, ip))
PROOF
    <1> DEFINE way == Way(t, ip, Reach(ip))
               hits == Hits(t, ip, way)
               limit == Len(ip) + 1
    <1>1. do_search_lazy(t, ip) = IF hits = {} THEN NULL ELSE Hit(t, ip, Deepest(hits))
        BY DEF do_search_lazy
    <1>2. \A d : d \in hits <=> d \in DOMAIN t /\ Covers(d, ip) /\ HitPos(t, ip, d) # -1
        BY SearchWay DEF Hits
    <1> HIDE DEF hits
    <1>3. ip \in Seq(Bit) /\ limit \in Nat
        BY KeyIsSeq
    <1>4. ASSUME NEW e \in DOMAIN t, NEW r \in Seq(Bit), Cand(t, ip, limit, r, e)
          PROVE  e \in hits
        <2>1. Covers(e, r) /\ Covers(r, ip) /\ EndsIn(r, e) /\ e \in Seq(Bit)
            BY <1>4, ExactNodes DEF Cand, Holds
        <2>2. Covers(e, ip)
            BY <1>3, <2>1, PartOfPrefix
        <2>3. Hitting(t, ip, e, HitPos(t, ip, e))
            BY <2>2, SearchHits
        <2>4. HitPos(t, ip, e) # -1
            BY <1>4, <2>3 DEF Hitting
        <2> QED
            BY <1>2, <2>2, <2>4
    <1>5. CASE hits = {}
        <2>1. NoneNearby(t, ip, limit)
            <3>1. ASSUME NEW r \in Seq(Bit), NEW y, RuleAt(t, r, y), Covers(r, ip), Len(r) < limit
                  PROVE  FALSE
                <4>1. PICK e \in DOMAIN t : Holds(t, r, e)
                    BY <3>1 DEF RuleAt
                <4>2. Cand(t, ip, limit, r, e)
                    BY <3>1, <4>1 DEF Cand
                <4> QED
                    BY <1>4, <1>5, <4>2
            <3> QED
                BY <3>1 DEF NoneNearby
        <2> QED
            BY <1>1, <1>5, <2>1 DEF Found
    <1>6. CASE hits # {}
        <2> DEFINE d == Deepest(hits)
        <2>1. hits \in SUBSET Keys
            BY <1>2, ExactNodes
        <2>2. d \in hits /\ \A e \in hits : Len(e) <= Len(d)
            BY <1>6, <2>1, DeepestOf
        <2>3. do_search_lazy(t, ip) = Rule(t[d], HitPos(t, ip, d))
            BY <1>1, <1>6 DEF Hit
        <2> HIDE DEF d
        <2>4. d \in DOMAIN t /\ Covers(d, ip) /\ HitPos(t, ip, d) # -1
            BY <1>2, <2>2
        <2>5. Hitting(t, ip, d, HitPos(t, ip, d))
            BY <2>4, SearchHits
        <2>6. PICK q \in Seq(Bit) : Best(t, ip, limit, q, d) /\ HitPos(t, ip, d) = RulePos(q, d)
            BY <2>4, <2>5 DEF Hitting
        <2>7. \A e \in DOMAIN t : \A r \in Seq(Bit) : Cand(t, ip, limit, r, e) => Len(e) <= Len(d)
            BY <1>4, <2>2
        <2> HIDE DEF limit
        <2>8. Nearby(t, ip, limit, q, Rule(t[d], RulePos(q, d)))
            BY <1>3, <2>4, <2>6, <2>7, DeepestBest
        <2>9. Nearby(t, ip, limit, q, do_search_lazy(t, ip))
            BY <2>3, <2>6, <2>8
        <2> QED
            BY <2>9 DEF Found, limit
    <1> QED
        BY <1>5, <1>6

\* Both searches return the same.
LEMMA SearchesAgree ==
    ASSUME NEW V, NEW t, Exact(V, t), NEW ip \in Keys, Fits(t, ip)
    PROVE  do_search_lazy(t, ip) = do_search(t, ip)
PROOF
    <1> DEFINE n == Reach(ip)
               at == Walk(t, ip, n)
               hits(k) == Hits(t, ip, at[k])
               R == {NULL} \cup V
               upto(k) == UNION {hits(j) : j \in 0 .. k}
               res(k) == IF upto(k) = {} THEN NULL ELSE Hit(t, ip, Deepest(upto(k)))
    <1>1. n \in Nat
        BY SearchWay
    <1>2. \A k \in 0 .. n : \A d \in hits(k) : d \in DOMAIN t /\ Covers(d, ip) /\ Len(d) = k * STRIDE
        BY SearchWay DEF Hits
    <1> DEFINE P(f) == f = [k \in 0 .. n |->
                              IF hits(k) # {} THEN Hit(t, ip, Deepest(hits(k)))
                              ELSE IF k = 0 THEN NULL ELSE f[k - 1]]
               longest == CHOOSE f : P(f)
               g == [k \in 0 .. n |-> res(k)]
    <1>3. do_search(t, ip) = longest[n]
        BY DEF do_search
    <1>4. do_search_lazy(t, ip) = res(n)
        <2>1. Way(t, ip, n) = UNION {at[k] : k \in 0 .. n}
            BY DEF Way
        <2>2. Hits(t, ip, Way(t, ip, n)) = upto(n)
            BY <2>1 DEF Hits
        <2> HIDE DEF n, upto
        <2>3. Hits(t, ip, Way(t, ip, Reach(ip))) = upto(n)
            BY <2>2 DEF n
        <2> QED
            BY <2>3 DEF do_search_lazy
    <1>5. \A k \in 0 .. n : \A d : d \in upto(k) <=> \E j \in 0 .. k : d \in hits(j)
        OBVIOUS
    <1> HIDE DEF n, at, hits, upto
    <1>6. ASSUME NEW k \in 0 .. n, hits(k) # {}
          PROVE  upto(k) # {} /\ Deepest(upto(k)) = Deepest(hits(k))
        <2>1. k \in Nat /\ k \in 0 .. k /\ \A j \in 0 .. k : j \in 0 .. n /\ j \in Nat /\ j <= k
            BY <1>1
        <2>2. hits(k) \subseteq upto(k)
            BY <1>5, <2>1
        <2>3. \A d \in upto(k) : d \in DOMAIN t /\ d \in Keys /\ Covers(d, ip) /\ Len(d) <= k * STRIDE
            <3>1. ASSUME NEW d \in upto(k)
                  PROVE  d \in DOMAIN t /\ Covers(d, ip) /\ Len(d) <= k * STRIDE
                <4>1. PICK j \in 0 .. k : d \in hits(j)
                    BY <1>5
                <4>2. j * STRIDE <= k * STRIDE
                    BY <2>1, Multiples
                <4> QED
                    BY <1>2, <2>1, <4>1, <4>2
            <3> QED
                BY <3>1, ExactNodes
        <2>4. upto(k) \in SUBSET Keys /\ hits(k) \in SUBSET Keys /\ upto(k) # {}
            BY <1>6, <2>2, <2>3
        <2> DEFINE d == Deepest(upto(k))
                   e == Deepest(hits(k))
        <2>5. d \in upto(k) /\ \A x \in upto(k) : Len(x) <= Len(d)
            BY <2>4, DeepestOf
        <2>6. e \in hits(k)
            BY <1>6, <2>4, DeepestOf
        <2> HIDE DEF d, e
        <2>7. /\ d \in Keys /\ e \in Keys /\ Covers(d, ip) /\ Covers(e, ip)
              /\ Len(e) = k * STRIDE /\ Len(d) <= k * STRIDE /\ Len(e) <= Len(d)
            BY <1>2, <2>2, <2>3, <2>5, <2>6
        <2>8. Len(ip) \in Nat /\ Len(d) \in Nat /\ Len(e) \in Nat
            BY <2>7, KeyIsSeq
        <2>9. Covers(d, e) /\ Len(d) >= Len(e)
            <3>1. Len(d) <= Len(e) /\ Len(d) >= Len(e)
                BY <2>7, <2>8
            <3> QED
                BY <2>7, <2>8, <3>1, Comparable
        <2>10. d = e
            BY <2>7, <2>9, SameLengthSame
        <2> QED
            BY <2>4, <2>10 DEF d, e
    <1>7. ASSUME NEW k \in 0 .. n, hits(k) = {}, k # 0
          PROVE  upto(k) = upto(k - 1)
        <2>1. k \in Nat /\ k - 1 \in 0 .. n /\ \A j : j \in 0 .. k <=> j \in 0 .. k - 1 \/ j = k
            BY <1>1, <1>7
        <2>2. \A d : d \in upto(k) <=> d \in upto(k - 1)
            BY <1>5, <1>7, <2>1
        <2> QED
            BY <2>2
    <1>8. hits(0) = {} => upto(0) = {}
        <2>1. 0 \in 0 .. n /\ \A j \in 0 .. 0 : j = 0
            BY <1>1
        <2> QED
            BY <1>5, <2>1
    <1> DEFINE next(f, k) == IF hits(k) # {} THEN Hit(t, ip, Deepest(hits(k)))
                             ELSE IF k = 0 THEN NULL ELSE f[k - 1]
    <1>9. ASSUME NEW k \in 0 .. n
          PROVE  g[k] = next(g, k)
        <2>1. CASE hits(k) # {}
            BY <1>6, <2>1
        <2>2. CASE hits(k) = {} /\ k = 0
            BY <1>8, <2>2
        <2>3. CASE hits(k) = {} /\ k # 0
            <3>1. k - 1 \in 0 .. n
                BY <1>1, <2>3
            <3>2. g[k - 1] = res(k - 1) /\ upto(k) = upto(k - 1) /\ g[k] = res(k)
                BY <1>7, <2>3, <3>1
            <3> HIDE DEF g
            <3> QED
                BY <2>3, <3>2
        <2> QED
            BY <2>1, <2>2, <2>3
    <1>10. P(g)
        <2>1. g = [k \in 0 .. n |-> g[k]]
            OBVIOUS
        <2> HIDE DEF g
        <2> QED
            BY <1>9, <2>1
    <1>11. P(longest)
        <2> HIDE DEF P
        <2> QED
            BY <1>10, Zenon
    <1> HIDE DEF longest
    <1>12. \A k \in 0 .. n : longest[k] = next(longest, k)
        BY <1>11
    <1> DEFINE S == {k \in 0 .. n : longest[k] = g[k]}
    <1>13. 0 \in S
        <2>1. 0 \in 0 .. n
            BY <1>1
        <2>2. longest[0] = next(longest, 0) /\ g[0] = next(g, 0) /\ next(longest, 0) = next(g, 0)
            <3>1. longest[0] = next(longest, 0)
                BY <1>12, <2>1
            <3>2. g[0] = next(g, 0)
                BY <1>9, <2>1
            <3> QED
                BY <3>1, <3>2
        <2> QED
            BY <2>1, <2>2
    <1>14. ASSUME NEW k \in 0 .. n - 1, k \in S
           PROVE  k + 1 \in S
        <2>1. k + 1 \in 0 .. n /\ (k + 1) - 1 = k
            BY <1>1
        <2>2. longest[k] = g[k]
            BY <1>14
        <2>3. longest[k + 1] = next(longest, k + 1)
            BY <1>12, <2>1
        <2>4. g[k + 1] = next(g, k + 1)
            BY <1>9, <2>1
        <2> HIDE DEF g
        <2>5. next(longest, k + 1) = next(g, k + 1)
            BY <2>1, <2>2
        <2> QED
            BY <2>1, <2>3, <2>4, <2>5
    <1>15. \A k \in 0 .. n : k \in S
        <2> HIDE DEF S
        <2> QED
            BY <1>1, <1>13, <1>14, UpTo
    <1>16. n \in 0 .. n
        BY <1>1
    <1>17. longest[n] = g[n]
        BY <1>15, <1>16
    <1>18. g[n] = res(n)
        BY <1>16
    <1> QED
        BY <1>3, <1>4, <1>17, <1>18
=============================================================================
