---------------------------- MODULE MCTreeBitmap ----------------------------
(***************************************************************************)
(* A small TreeBitmap: 13 + 6 + 6 + 6 + 1 bits become 3 + 2 + 1.           *)
(***************************************************************************)
EXTENDS TreeBitmap

\* A default route, nested routes within the direct table that can hide each
\* other, one of which changes its next hop, and longer ones in several nodes.
MCPrefix ==
    {<<>>, <<0>>, <<0, 1>>, <<0, 1, 0>>, <<0, 1, 1>>, <<0, 1, 0, 1>>,
     <<0, 1, 0, 0, 1>>, <<0, 1, 0, 1, 1>>, <<0, 1, 0, 1, 1, 0>>, <<1, 1, 0, 1>>}
MCRoute == {<<p, <<p, 1>>>> : p \in MCPrefix} \cup {<<<<0, 1>>, <<<<0, 1>>, 2>>>>}

=============================================================================
