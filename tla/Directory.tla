------------------------------- MODULE Directory -------------------------------
(***************************************************************************)
(* What the control plane promises, without messages: a running node holds *)
(* its own subnet and a growing set of routes; a route it gains leads to   *)
(* an address of a node that has that subnet and was started before, and a *)
(* route once gained stays as it is for as long as the node runs.          *)
(***************************************************************************)
CONSTANTS
    Node,        \* the nodes
    Localhost,   \* the route to the node's own interface
    Subnet,      \* Subnet[n]: the subnet of n
    Owned        \* Owned[n]: the addresses that lead to n

VARIABLES
    up,       \* up[n]: n is running
    born,     \* the nodes that were started at least once
    route     \* route[n]: a function from subnets to where n sends their packets

dvars == <<up, born, route>>

NoRoute == [k \in {} |-> Localhost]

Init ==
    /\ up = [n \in Node |-> FALSE]
    /\ born = {}
    /\ route = [n \in Node |-> NoRoute]

Join(n) ==
    /\ ~up[n]
    /\ up' = [up EXCEPT ![n] = TRUE]
    /\ born' = born \cup {n}
    /\ route' = [route EXCEPT ![n] = [k \in {Subnet[n]} |-> Localhost]]

Leave(n) ==
    /\ up[n]
    /\ up' = [up EXCEPT ![n] = FALSE]
    /\ route' = [route EXCEPT ![n] = NoRoute]
    /\ UNCHANGED born

\* n gains a route to the subnet of m at one of the addresses of m.
Gain(n, m) ==
    /\ up[n]
    /\ m \in born \ {n}
    /\ Subnet[m] \notin DOMAIN route[n]
    /\ \E a \in Owned[m] :
          route' = [route EXCEPT ![n] =
                       [k \in DOMAIN route[n] \cup {Subnet[m]} |->
                           IF k = Subnet[m] THEN a ELSE route[n][k]]]
    /\ UNCHANGED <<up, born>>

Next == \E n \in Node : Join(n) \/ Leave(n) \/ \E m \in Node : Gain(n, m)

Spec == Init /\ [][Next]_dvars
=============================================================================
