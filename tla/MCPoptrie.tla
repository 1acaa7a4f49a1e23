----------------------------- MODULE MCPoptrie -----------------------------
(***************************************************************************)
(* Small tables for Poptrie.  With S = 1 and K = 2 the block bottoms are   *)
(* the nodes of 3 and 5 bits, with S = 1 and K = 1 those of 2, 3 and 4.    *)
(***************************************************************************)
EXTENDS Poptrie

CONSTANTS h1, h2

CallsOf(op, prefixes, hops) == [op : {op}, p : prefixes, h : hops]

\* The default route, which rebuilds both direct pointers, two routes in the block
\* below 011, one of which ends in the third block, and one in a sibling block.
MixedPrefix == {<<>>, <<0, 0, 0, 1>>, <<0, 1, 1, 1>>, <<0, 1, 1, 0, 1, 1>>}
MixedCalls ==
    CallsOf("add", {<<>>}, {h1}) \cup CallsOf("change", {<<>>}, {h2})
    \cup CallsOf("update", MixedPrefix \ {<<>>}, {h1}) \cup CallsOf("del", MixedPrefix, {h1})

\* A default route, a route at the direct pointing depth, a chain and a branch.
StalePrefix == {<<>>, <<0>>, <<0, 0, 1>>, <<0, 0, 0, 1>>, <<0, 1, 1>>}
StaleCalls ==
    CallsOf("add", StalePrefix, {h1, h2}) \cup CallsOf("change", StalePrefix, {h1, h2})

\* A long route that fills the leaves, and the default route.
FullPrefix == {<<>>, <<0, 0, 0, 1>>, <<1, 0>>}
FullCalls == CallsOf("add", FullPrefix, {h1, h2})

\* A route shorter than the direct pointing depth and one deep in its right half, so
\* that the right half has addresses of either route.
SixPrefix == {<<0>>, <<0, 1, 1>>}
SixCalls == CallsOf("add", {<<0>>}, {h2}) \cup CallsOf("add", {<<0, 1, 1>>}, {h1})

=============================================================================
