---------------------------- MODULE MCBuddySpec ----------------------------
(* BuddySpec with two blocks of the largest of three sizes. *)
EXTENDS BuddySpec

MCSize == [lv \in 0 .. Level - 1 |-> 2^lv]

=============================================================================
