-------------------------------- MODULE MCMesh --------------------------------
(***************************************************************************)
(* Instances of Mesh for TLC.                                              *)
(***************************************************************************)
EXTENDS Mesh, TLC

CONSTANTS n1, n2, n3, a1, a2, a3, b1, b2, b3

\* Three nodes, each with an address a; the subnet of n2 lies inside that of n1.
MCNode == {n1, n2, n3}
MCAddr == {a1, a2, a3, b1, b2, b3}
MCSubnet == n1 :> <<4, 0>> @@ n2 :> <<4, 0, 1>> @@ n3 :> <<4, 1>>
\* The subnet of n2 and n3 is the same.
SharedSubnet == n1 :> <<4, 0>> @@ n2 :> <<4, 1>> @@ n3 :> <<4, 1>>

MCOwner == [a \in {a1, b1} |-> n1] @@ [a \in {a2, b2} |-> n2] @@ [a \in {a3, b3} |-> n3]
MCFamily == [a \in MCAddr |-> IF a \in {a1, a2, a3} THEN 4 ELSE 6]

\* Every node has its one IPv4 address.
FixedHomes == n1 :> {{a1}} @@ n2 :> {{a2}} @@ n3 :> {{a3}}

\* The same, and n3 may come back with another one.
HubHomes == n1 :> {{a1}} @@ n2 :> {{a2}} @@ n3 :> {{a3}, {b3}}
HubFamily == [a \in MCAddr |-> 4]

\* n1 has an address in both families, n2 only IPv4, n3 only IPv6.
DualHomes == n1 :> {{a1, b1}} @@ n2 :> {{a2}} @@ n3 :> {{b3}}

\* n2 and n3 list only n1.
StarServers == n1 :> {} @@ n2 :> {a1} @@ n3 :> {a1}

\* The same, n3 by the IPv6 address of n1.
DualServers == n1 :> {} @@ n2 :> {a1} @@ n3 :> {b1}
=============================================================================
