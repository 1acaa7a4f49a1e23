------------------------------ MODULE RouteMap ------------------------------
(***************************************************************************)
(* What the route operations of poptrie promise (modified_poptrie/README.md*)
(* "Operations for IPv4"): a map from prefixes to the caller's next hops.  *)
(* add refuses a prefix that is there, change and del one that is not, and *)
(* update does either.                                                     *)
(***************************************************************************)
CONSTANTS Prefix,     \* the prefixes a caller uses
          NextHop,    \* the caller's next hops
          NoRoute     \* the prefix has no route

VARIABLE route

TypeOK == route \in [Prefix -> NextHop \cup {NoRoute}]

Init == route = [p \in Prefix |-> NoRoute]

Add(p, h)    == route[p] = NoRoute /\ route' = [route EXCEPT ![p] = h]
Change(p, h) == route[p] # NoRoute /\ route' = [route EXCEPT ![p] = h]
Update(p, h) == route' = [route EXCEPT ![p] = h]
Delete(p)    == route[p] # NoRoute /\ route' = [route EXCEPT ![p] = NoRoute]

Next ==
    \E p \in Prefix :
        \/ \E h \in NextHop : Add(p, h) \/ Change(p, h) \/ Update(p, h)
        \/ Delete(p)

Spec == Init /\ [][Next]_route

=============================================================================
