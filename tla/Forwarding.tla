------------------------------ MODULE Forwarding ------------------------------
(***************************************************************************)
(* The data plane: IP packets through the mesh.                            *)
(*                                                                         *)
(* A packet read from the interface of a node, or received from another    *)
(* node as a PackageShard, is looked up in the node's table and written to *)
(* the interface, sent on to the socket the table names, or dropped        *)
(* (Router::router_message).  The tables are those of Mesh, changing while *)
(* packets are on their way.  The ttl of a PackageShard is left out: it    *)
(* starts at 127 and is copied at every hop, and no code reads it.         *)
(***************************************************************************)
EXTENDS Mesh

CONSTANTS
    Dst,          \* the destinations packets are sent to: family and all bits
    MaxPackets    \* bound: how many packets are on their way at a time

ASSUME ForwardingAssumption == Dst \subseteq Seq(Nat) /\ MaxPackets \in Nat

VARIABLES
    packets,  \* the PackageShard datagrams on their way
    tun       \* tun[n]: the destinations of the packets n wrote to its interface

fvars == <<up, home, table, net, starts, packets, tun>>

\* via: the nodes whose router has passed the packet on (history).
Packet == [to : Addr, dst : Seq(Nat), via : SUBSET Node]

\* PackageShareWrite to host a; the send fails when n has no address in a's family.
PackageShareWrite(n, a, dst, via) ==
    {p \in {[to |-> a, dst |-> dst, via |-> via \cup {n}]} :
        \E src \in home[n] : Family[src] = Family[a]}

\* Mutant: whatever has an entry is written to the interface.
RouteAnyToSelf(n, dst, others) ==
    /\ LongestMatch(table[n], dst) # {}
    /\ tun' = [tun EXCEPT ![n] = @ \cup {dst}]
    /\ packets' = others

\* The router of n gets a packet for dst; others are the packets on their way
\* apart from it.
RouteToSelf(n, dst, others) ==
    /\ \E k \in LongestMatch(table[n], dst) : table[n][k].top = Localhost
    /\ tun' = [tun EXCEPT ![n] = @ \cup {dst}]
    /\ packets' = others

\* Mutant: only packets of the own interface are sent on.
RouteOwnToSocket(n, dst, via, others) ==
    /\ \E k \in LongestMatch(table[n], dst) :
          /\ table[n][k].top \in Addr
          /\ packets' = others \cup
                (IF via = {} THEN PackageShareWrite(n, table[n][k].top, dst, via) ELSE {})
    /\ UNCHANGED tun

RouteToSocket(n, dst, via, others) ==
    /\ \E k \in LongestMatch(table[n], dst) :
          /\ table[n][k].top \in Addr
          /\ packets' = others \cup PackageShareWrite(n, table[n][k].top, dst, via)
    /\ UNCHANGED tun

DropPackage(n, dst, others) ==
    /\ \A k \in LongestMatch(table[n], dst) : table[n][k].top = Unreachable
    /\ packets' = others
    /\ UNCHANGED tun

PackageShareRead(n, dst, via, others) ==
    \/ RouteToSelf(n, dst, others)
    \/ RouteToSocket(n, dst, via, others)
    \/ DropPackage(n, dst, others)

-----------------------------------------------------------------------------
FInit == Init /\ packets = {} /\ tun = [n \in Node |-> {}]

\* A packet from the interface of n.
InterfaceRead(n, dst) ==
    /\ up[n]
    /\ Cardinality(packets) < MaxPackets
    /\ PackageShareRead(n, dst, {}, packets)
    /\ UNCHANGED vars

\* A packet from another node arrives at n.
PackageArrives(n, p) ==
    /\ Reaches(p, n)
    /\ PackageShareRead(n, p.dst, p.via, packets \ {p})
    /\ UNCHANGED vars

LosePackage(p) ==
    /\ Lossy \/ ~\E n \in Node : Reaches(p, n)
    /\ packets' = packets \ {p}
    /\ UNCHANGED <<vars, tun>>

PackageArrival == \E p \in packets : LosePackage(p) \/ \E n \in Node : PackageArrives(n, p)

FNext ==
    \/ Next /\ UNCHANGED <<packets, tun>>
    \/ \E n \in Node, dst \in Dst : InterfaceRead(n, dst)
    \/ PackageArrival

FSpec == FInit /\ [][FNext]_fvars

FFairSpec ==
    FSpec /\ WF_fvars(Arrival /\ UNCHANGED <<packets, tun>>) /\ WF_fvars(PackageArrival)

-----------------------------------------------------------------------------
\* Every variable has its type.
FTypeOK ==
    /\ TypeOK
    /\ packets \subseteq Packet
    /\ tun \in [Node -> SUBSET Seq(Nat)]

\* Nothing counts hops (the ttl is copied), yet no packet is ever sent to a
\* node that has routed it before, whatever the tables learn or forget while
\* it is on its way.
NoForwardingLoop == \A p \in packets : Owner[p.to] \notin p.via

\* A packet is on its way only to a node whose subnet holds its destination,
\* and every node that passed it on and whose subnet holds the destination
\* too has a strictly larger subnet: the hops narrow the route down.
HopsNarrow ==
    \A p \in packets :
        /\ IsPrefix(Subnet[Owner[p.to]], p.dst)
        /\ \A n \in p.via : IsPrefix(Subnet[n], p.dst) =>
               Len(Subnet[n]) < Len(Subnet[Owner[p.to]])

\* A node writes to its interface only packets for its own subnet.
RightInterface == \A n \in Node : \A dst \in tun[n] : IsPrefix(Subnet[n], dst)

\* The node whose subnet is the smallest that holds dst, and every running
\* node routes dst by that subnet.
AgreedOn(m, dst) ==
    /\ up[m]
    /\ IsPrefix(Subnet[m], dst)
    /\ \A n \in Node : up[n] => LongestMatch(table[n], dst) = {Subnet[m]}

\* m runs, and no running node has a smaller subnet that holds dst.
Nearest(m, dst) ==
    /\ up[m]
    /\ IsPrefix(Subnet[m], dst)
    /\ \A n \in Node : up[n] /\ IsPrefix(Subnet[n], dst) => Len(Subnet[n]) <= Len(Subnet[m])

\* The route of n for dst is a stale one: that of a node that stopped, whose
\* subnet is smaller than that of m.
Stale(n, m, dst) ==
    \E g \in Node :
        /\ starts[g] > 0 /\ ~up[g]
        /\ LongestMatch(table[n], dst) = {Subnet[g]}
        /\ Len(Subnet[g]) > Len(Subnet[m])

\* When the flood is over, every running node routes a destination by the
\* smallest subnet of a running node that holds it, to an address that node has
\* now, or by the smaller subnet of a node that stopped since: no route is ever
\* taken out, and nothing else makes two nodes disagree.
RestingAgreement ==
    net = {} => \A m, n \in Node, dst \in Dst : Nearest(m, dst) /\ up[n] =>
        \/ LongestMatch(table[n], dst) = {Subnet[m]} /\ (n # m => Routes(n, m))
        \/ Stale(n, m, dst)

\* While the running nodes agree on where a destination is, a packet for it
\* that is on its way is written to the interface there: no table makes it
\* wander for ever.
Delivered ==
    \A m \in Node, dst \in Dst :
        (AgreedOn(m, dst) /\ \E p \in packets : p.dst = dst)
            ~> (dst \in tun[m] \/ ~AgreedOn(m, dst))
=============================================================================
