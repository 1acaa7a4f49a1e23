---------------------------- MODULE MCRadixTree ----------------------------
(* RadixTree on a chain of nested prefixes, a branch below it and a sibling *)
(* at full key length.                                                      *)
EXTENDS RadixTree

MCPrefix == {<<>>, <<0>>, <<0, 1>>, <<0, 1, 0>>, <<0, 0, 1>>, <<1, 1, 1>>}

=============================================================================
