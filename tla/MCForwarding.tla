----------------------------- MODULE MCForwarding -----------------------------
(***************************************************************************)
(* Instances of Forwarding for TLC: the nodes and addresses of MCMesh.     *)
(***************************************************************************)
EXTENDS Forwarding, TLC

CONSTANTS n1, n2, n3, a1, a2, a3

MCNode == {n1, n2, n3}
MCAddr == {a1, a2, a3}
MCOwner == a1 :> n1 @@ a2 :> n2 @@ a3 :> n3
MCFamily == [a \in MCAddr |-> 4]
MCHomes == n1 :> {{a1}} @@ n2 :> {{a2}} @@ n3 :> {{a3}}
StarServers == n1 :> {} @@ n2 :> {a1} @@ n3 :> {a1}
ChainServers == n1 :> {a2} @@ n2 :> {a3} @@ n3 :> {}

\* Nested subnets, the default route at n1: a packet may be narrowed down
\* from n1 to n2 to n3.
NestedSubnet == n1 :> <<4>> @@ n2 :> <<4, 0>> @@ n3 :> <<4, 0, 1>>

\* A destination in the subnets of n1 and n2, and one in all three.
InnerDst == {<<4, 0, 0>>, <<4, 0, 1>>}

-----------------------------------------------------------------------------
\* Two nodes that list each other; the subnet of n2 lies inside that of n1.
PairNode == {n1, n2}
PairAddr == {a1, a2}
PairOwner == a1 :> n1 @@ a2 :> n2
PairFamily == [a \in PairAddr |-> 4]
PairSubnet == n1 :> <<4>> @@ n2 :> <<4, 0>>
PairHomes == n1 :> {{a1}} @@ n2 :> {{a2}}
PairServers == [n \in PairNode |-> PairAddr]

\* A destination at n1, and one at n2 once n2 ran.
PairDst == {<<4, 1, 0>>, <<4, 0, 0>>}

-----------------------------------------------------------------------------
\* Every node lists every node, as config.jsonnet generates it; n1 has the default
\* route, and the subnets of n2 and n3 lie inside it, side by side.
FullServers == [n \in MCNode |-> MCAddr]
SideSubnet == n1 :> <<4>> @@ n2 :> <<4, 0>> @@ n3 :> <<4, 1>>

\* One destination in each subnet.
SideDst == {<<4, 0, 0>>, <<4, 1, 0>>}

\* The datagrams whose handling only takes them off the network.  While no
\* process stops, tables only grow and such a datagram stays one, so that
\* handling it commutes with every other step: it is enough to look at the
\* behaviours that handle one at once.
Idle ==
    {d \in net : \E n \in Node :
        /\ Reaches(d, n)
        /\ \/ d.node.name = n
           \/ Known(table[n], d.node.subnet, Source(d)) /\ Reply(n, d) = {}}

\* Bound: a process stops only when no datagram is on its way; it starts at any time.
RestFirst ==
    FInit /\ [][/\ FNext
                /\ net # {} => \A n \in Node : up[n] => up'[n]
                /\ Idle # {} => net' = net \ {CHOOSE d \in Idle : TRUE}]_fvars

\* Both are configured as convergence is proved for.
ASSUME FullInstance ==
    Homes \in {PairHomes, MCHomes} /\ Servers \in {PairServers, FullServers} /\ ~Lossy => FullConfig
===============================================================================
