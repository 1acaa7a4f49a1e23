----------------------------- MODULE BitStrings -----------------------------
(***************************************************************************)
(* Prefixes of a key, as bit sequences.  The nodes of a binary tree are the*)
(* bit sequences that lead to them from the root.                          *)
(***************************************************************************)
EXTENDS Integers, Sequences

CONSTANT KeyLength    \* the bits of a key

ASSUME KeyLengthAssumption == KeyLength \in Nat

Bit  == {0, 1}
Keys == UNION {[1 .. n -> Bit] : n \in 0 .. KeyLength}

\* a is d or an ancestor of d.
Covers(a, d) == Len(a) <= Len(d) /\ \A i \in 1 .. Len(a) : a[i] = d[i]
Above(a, d)  == Covers(a, d) /\ a # d

\* The nodes a descent to p passes, p included.
PathTo(p) == {SubSeq(p, 1, k) : k \in 0 .. Len(p)}

=============================================================================
