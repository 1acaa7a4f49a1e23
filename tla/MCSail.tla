------------------------------- MODULE MCSail -------------------------------
(***************************************************************************)
(* A small Sail: the levels 16, 24 and 32 become 2, 4 and 5.               *)
(***************************************************************************)
EXTENDS Sail

\* A refused prefix, a chain of routes on and between the levels, one of which
\* changes its port, and a route that needs chunks of its own.
MCAnnounced ==
    {<<<<>>, 1>>, <<<<0, 1>>, 1>>, <<<<0, 1>>, 2>>, <<<<0, 1, 0>>, 2>>, <<<<0, 1, 0, 1>>, 1>>,
     <<<<0, 1, 0, 1, 1>>, 2>>, <<<<1, 0, 0, 1, 1>>, 1>>}
MCPrefix == {a[1] : a \in MCAnnounced}

=============================================================================
