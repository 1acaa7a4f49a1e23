--------------------------- MODULE MCRouteTable ---------------------------
(* RouteTable on a chain of nested prefixes with a branch: every ext has   *)
(* several candidates, and inner nodes without a route appear between them.*)
EXTENDS RouteTable

MCPrefix == {<<>>, <<0>>, <<0, 1>>, <<0, 1, 0, 1>>, <<0, 1, 1>>}

=============================================================================
