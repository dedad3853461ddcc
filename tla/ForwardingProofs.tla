--------------------------- MODULE ForwardingProofs ---------------------------
(***************************************************************************)
(* Proofs about Forwarding: packets never loop, for every set of nodes,    *)
(* configuration, network and history of the tables.                       *)
(*                                                                         *)
(* Every node that routes a packet for a destination matches its own       *)
(* subnet first (OwnRoute), so a route to somewhere else that wins is of a *)
(* strictly smaller subnet, and that is the subnet of the node it leads to *)
(* (RouteAccuracy).  Subnets shrink along the way, whatever table each hop *)
(* has at the time.                                                        *)
(*                                                                         *)
(* Where all nodes list one another the tables differ, once the flood is   *)
(* over, only in the routes of nodes that stopped: each has the subnet of  *)
(* every running node, and no subnet that no node ever had (KeysBorn).     *)
(***************************************************************************)
EXTENDS Forwarding, ConvergenceProofs, WellFoundedInduction

\* Two prefixes of one sequence that have the same length are equal.
LEMMA PrefixesOfOneLength ==
    ASSUME NEW s \in Seq(Nat), NEW t \in Seq(Nat), NEW dst,
           IsPrefix(s, dst), IsPrefix(t, dst), Len(s) = Len(t)
    PROVE  s = t
  <1>1. SubSeq(s, 1, Len(s)) = SubSeq(t, 1, Len(t))
    BY DEF IsPrefix
  <1>2. SubSeq(s, 1, Len(s)) = s /\ SubSeq(t, 1, Len(t)) = t
    OBVIOUS
  <1> QED
    BY <1>1, <1>2

\* A route that leads away from n is of a smaller subnet than that of n.
LEMMA RoutesAwayAreLonger ==
    ASSUME Grounded, NEW n \in Node, up[n], NEW dst, NEW k \in LongestMatch(table[n], dst),
           table[n][k].top \in Addr
    PROVE  /\ IsPrefix(k, dst)
           /\ Subnet[Owner[table[n][k].top]] = k
           /\ IsPrefix(Subnet[n], dst) => Len(Subnet[n]) < Len(k)
  <1>1. k \in DOMAIN table[n] /\ IsPrefix(k, dst)
    BY DEF LongestMatch, Matching
  <1>2. Subnet[Owner[table[n][k].top]] = k
    <2>1. table[n][k].top \in table[n][k].hosts \cap Addr
      BY <1>1 DEF Grounded, TopsGrounded
    <2> QED
      BY <1>1, <2>1 DEF Grounded, RouteAccuracy
  <1>3. ASSUME IsPrefix(Subnet[n], dst) PROVE Len(Subnet[n]) < Len(k)
    <2>1. Subnet[n] \in Matching(table[n], dst)
      BY <1>3 DEF Matching, Grounded, OwnRoute
    <2>2. Len(Subnet[n]) <= Len(k)
      BY <2>1 DEF LongestMatch
    <2>3. k # Subnet[n]
      BY <1>1, HostsDistinct DEF Grounded, OwnRoute
    <2>4. k \in Seq(Nat) /\ Subnet[n] \in Seq(Nat)
      BY <1>1, ConfigAssumption DEF Grounded, TypeOK
    <2>5. Len(Subnet[n]) # Len(k)
      BY <1>1, <1>3, <2>3, <2>4, PrefixesOfOneLength
    <2>6. Len(k) \in Nat /\ Len(Subnet[n]) \in Nat
      BY <2>4
    <2> QED
      BY <2>2, <2>5, <2>6
  <1> QED
    BY <1>1, <1>2, <1>3

-----------------------------------------------------------------------------
\* What a packet keeps on its way.
Narrow(p) ==
    /\ p \in Packet
    /\ IsPrefix(Subnet[Owner[p.to]], p.dst)
    /\ \A n \in p.via : IsPrefix(Subnet[n], p.dst) =>
           Len(Subnet[n]) < Len(Subnet[Owner[p.to]])

Forward ==
    /\ \A p \in packets : Narrow(p)
    /\ tun \in [Node -> SUBSET Seq(Nat)]
    /\ RightInterface

\* The router of n sends a packet on to a smaller subnet than it came for.
LEMMA SocketNarrow ==
    ASSUME Grounded, NEW n \in Node, up[n], NEW dst \in Seq(Nat), NEW via \in SUBSET Node,
           NEW k \in LongestMatch(table[n], dst), table[n][k].top \in Addr,
           NEW p \in PackageShareWrite(n, table[n][k].top, dst, via),
           \/ via = {}
           \/ /\ IsPrefix(Subnet[n], dst)
              /\ \A m \in via : IsPrefix(Subnet[m], dst) => Len(Subnet[m]) < Len(Subnet[n])
    PROVE  Narrow(p)
  <1> DEFINE a == table[n][k].top
  <1>1. p = [to |-> a, dst |-> dst, via |-> via \cup {n}]
    BY DEF PackageShareWrite
  <1>2. p \in Packet
    BY <1>1 DEF Packet
  <1>3. /\ IsPrefix(k, dst)
        /\ Subnet[Owner[a]] = k
        /\ IsPrefix(Subnet[n], dst) => Len(Subnet[n]) < Len(k)
    BY RoutesAwayAreLonger
  <1>4. k \in Seq(Nat) /\ \A m \in Node : Subnet[m] \in Seq(Nat)
    BY ConfigAssumption DEF Grounded, TypeOK, LongestMatch, Matching
  <1>5. ASSUME NEW m \in via \cup {n}, IsPrefix(Subnet[m], dst)
        PROVE  Len(Subnet[m]) < Len(k)
    <2>1. CASE m = n
      BY <1>3, <1>5, <2>1
    <2>2. CASE m \in via
      <3>1. Len(Subnet[m]) < Len(Subnet[n]) /\ Len(Subnet[n]) < Len(k)
        BY <1>3, <1>5, <2>2
      <3>2. Len(Subnet[m]) \in Nat /\ Len(Subnet[n]) \in Nat /\ Len(k) \in Nat
        BY <1>4, <2>2
      <3> QED
        BY <3>1, <3>2
    <2> QED
      BY <1>5, <2>1, <2>2
  <1> QED
    BY <1>1, <1>2, <1>3, <1>5 DEF Narrow

\* Whatever the router does with a packet is right.
LEMMA RouterStep ==
    ASSUME Grounded, Forward, NEW n \in Node, up[n], NEW dst \in Seq(Nat), NEW via \in SUBSET Node,
           NEW others \in SUBSET packets, PackageShareRead(n, dst, via, others),
           \/ via = {}
           \/ /\ IsPrefix(Subnet[n], dst)
              /\ \A m \in via : IsPrefix(Subnet[m], dst) => Len(Subnet[m]) < Len(Subnet[n])
    PROVE  Forward'
  <1>1. CASE RouteToSelf(n, dst, others)
    <2>1. PICK k \in LongestMatch(table[n], dst) : table[n][k].top = Localhost
      BY <1>1 DEF RouteToSelf
    <2>2. k \in DOMAIN table[n] /\ IsPrefix(k, dst)
      BY DEF LongestMatch, Matching
    <2>3. k = Subnet[n]
      BY <2>1, <2>2 DEF Grounded, OwnRoute
    <2>4. tun' = [tun EXCEPT ![n] = @ \cup {dst}] /\ packets' \subseteq packets
      BY <1>1 DEF RouteToSelf
    <2>5. tun' \in [Node -> SUBSET Seq(Nat)]
      BY <2>4 DEF Forward
    <2>6. ASSUME NEW m \in Node, NEW e \in tun'[m] PROVE IsPrefix(Subnet[m], e)
      BY <2>2, <2>3, <2>4, <2>6 DEF Forward, RightInterface
    <2> QED
      BY <2>4, <2>5, <2>6 DEF Forward, RightInterface, Narrow
  <1>2. CASE RouteToSocket(n, dst, via, others)
    <2>1. PICK k \in LongestMatch(table[n], dst) :
             /\ table[n][k].top \in Addr
             /\ packets' = others \cup PackageShareWrite(n, table[n][k].top, dst, via)
      BY <1>2 DEF RouteToSocket
    <2>2. \A p \in packets' : Narrow(p)
      BY <2>1, SocketNarrow DEF Forward
    <2> QED
      BY <1>2, <2>2 DEF Forward, RightInterface, RouteToSocket, Narrow
  <1>3. CASE DropPackage(n, dst, others)
    BY <1>3 DEF DropPackage, Forward, RightInterface, Narrow
  <1> QED
    BY <1>1, <1>2, <1>3 DEF PackageShareRead

LEMMA ForwardInit == FInit => Forward
  BY DEF FInit, Forward, RightInterface

LEMMA ForwardStep ==
    ASSUME Grounded, Forward, [FNext]_fvars
    PROVE  Forward'
  <1>1. CASE UNCHANGED <<packets, tun>>
    BY <1>1 DEF Forward, RightInterface, Narrow
  <1>2. ASSUME NEW n \in Node, NEW dst \in Dst, InterfaceRead(n, dst) PROVE Forward'
    <2>1. dst \in Seq(Nat)
      BY ForwardingAssumption
    <2>2. up[n] /\ PackageShareRead(n, dst, {}, packets)
      BY <1>2 DEF InterfaceRead
    <2>3. {} \in SUBSET Node /\ packets \in SUBSET packets
      OBVIOUS
    <2> QED
      BY <2>1, <2>2, <2>3, RouterStep
  <1>3. ASSUME NEW p \in packets, LosePackage(p) PROVE Forward'
    BY <1>3 DEF LosePackage, Forward, RightInterface, Narrow
  <1>4. ASSUME NEW p \in packets, NEW n \in Node, PackageArrives(n, p) PROVE Forward'
    <2>1. Narrow(p) /\ p.dst \in Seq(Nat) /\ p.via \in SUBSET Node
      BY DEF Forward, Narrow, Packet
    <2>2. up[n] /\ Owner[p.to] = n
      BY <1>4 DEF PackageArrives, Reaches, Grounded, ProcessesGrounded
    <2>3. PackageShareRead(n, p.dst, p.via, packets \ {p}) /\ packets \ {p} \in SUBSET packets
      BY <1>4 DEF PackageArrives
    <2>4. /\ IsPrefix(Subnet[n], p.dst)
          /\ \A m \in p.via : IsPrefix(Subnet[m], p.dst) => Len(Subnet[m]) < Len(Subnet[n])
      BY <2>1, <2>2 DEF Narrow
    <2> QED
      BY <2>1, <2>2, <2>3, <2>4, RouterStep
  <1> QED
    BY <1>1, <1>2, <1>3, <1>4 DEF FNext, PackageArrival, fvars

\* The control plane under the data plane is Mesh.
LEMMA ForwardingIsMesh == FSpec => Spec
  <1>1. FInit => Init
    BY DEF FInit
  <1>2. [FNext]_fvars => [Next]_vars
    BY DEF FNext, fvars, vars, InterfaceRead, PackageArrival, LosePackage, PackageArrives
  <1> QED
    BY <1>1, <1>2, PTL DEF FSpec, Spec

LEMMA ForwardInvariant == FSpec => [](Grounded /\ Forward)
  <1>1. FSpec => []Grounded
    BY ForwardingIsMesh, GroundedInvariant, PTL
  <1> QED
    BY <1>1, ForwardInit, ForwardStep, PTL DEF FSpec

-----------------------------------------------------------------------------
\* The hops of a packet narrow its route down.
THEOREM HopsNarrowDown == FSpec => []HopsNarrow
  <1>1. Forward => HopsNarrow
    BY DEF Forward, Narrow, HopsNarrow
  <1> QED
    BY <1>1, ForwardInvariant, PTL

\* No packet comes back to a node that has routed it: the missing ttl check
\* (Router::router_message copies the ttl) cannot let a packet circle.
THEOREM NoPacketLoops == FSpec => []NoForwardingLoop
  <1>1. Forward => NoForwardingLoop
    <2> SUFFICES ASSUME Forward, NEW p \in packets, Owner[p.to] \in p.via
                 PROVE  FALSE
      BY DEF NoForwardingLoop
    <2>1. Len(Subnet[Owner[p.to]]) < Len(Subnet[Owner[p.to]])
      BY DEF Forward, Narrow
    <2>2. Subnet[Owner[p.to]] \in Seq(Nat)
      <3>1. Owner[p.to] \in Node
        BY AddressAssumption DEF Forward, Narrow, Packet
      <3> QED
        BY <3>1, ConfigAssumption
    <2>3. Len(Subnet[Owner[p.to]]) \in Nat
      BY <2>2
    <2> QED
      BY <2>1, <2>3
  <1> QED
    BY <1>1, ForwardInvariant, PTL

\* An interface only ever gets packets of its own subnet.
THEOREM InterfacesAreRight == FSpec => []RightInterface
  <1>1. Forward => RightInterface
    BY DEF Forward
  <1> QED
    BY <1>1, ForwardInvariant, PTL

\* Every variable of the data plane has its type.
THEOREM ForwardingTypeCorrect == FSpec => []FTypeOK
  <1>1. Grounded /\ Forward => FTypeOK
    BY DEF Grounded, Forward, Narrow, FTypeOK
  <1> QED
    BY <1>1, ForwardInvariant, PTL

-----------------------------------------------------------------------------
(***************************************************************************)
(* The resting mesh agrees on where a packet goes.                         *)
(***************************************************************************)

\* A table names no subnet but those of nodes that ran.
KeysBorn ==
    \A n \in Node : \A k \in DOMAIN table[n] : \E m \in Node : starts[m] > 0 /\ Subnet[m] = k

LEMMA KeysBornStep ==
    ASSUME GroundedParts, KeysBorn, [Next]_vars
    PROVE  KeysBorn'
  <1>1. ASSUME NEW n \in Node, NEW addrs \in Homes[n], Start(n, addrs) PROVE KeysBorn'
    <2>1. /\ table'[n] = Insert(EmptyTable, Subnet[n], n, Localhost)
          /\ \A m \in Node \ {n} : table'[m] = table[m]
      BY <1>1 DEF Start, GroundedParts
    <2>2. starts'[n] > 0 /\ \A m \in Node : starts[m] > 0 => starts'[m] > 0
      BY <1>1 DEF Start, GroundedParts
    <2>3. DOMAIN table'[n] = {Subnet[n]}
      BY <2>1, FirstTable
    <2> QED
      BY <2>1, <2>2, <2>3 DEF KeysBorn
  <1>2. ASSUME NEW n \in Node, Crash(n) PROVE KeysBorn'
    <2>1. /\ table'[n] = EmptyTable /\ \A m \in Node \ {n} : table'[m] = table[m]
          /\ starts' = starts
      BY <1>2 DEF Crash, GroundedParts
    <2> QED
      BY <2>1, EmptyTableDomain DEF KeysBorn
  <1>3. ASSUME NEW n \in Node, NEW d \in net, Learn(n, d) PROVE KeysBorn'
    <2>1. /\ d.node.name \in Node /\ starts[d.node.name] > 0
          /\ DOMAIN table'[n] = DOMAIN table[n] \cup {Subnet[d.node.name]}
          /\ \A m \in Node \ {n} : table'[m] = table[m]
          /\ starts' = starts
      BY <1>3, LearnTops
    <2> QED
      BY <2>1 DEF KeysBorn
  <1>4. CASE UNCHANGED <<table, starts>>
    BY <1>4 DEF KeysBorn
  <1> QED
    BY <1>1, <1>2, <1>3, <1>4
       DEF Next, Arrival, Receive, Lose, IgnoreOwn, Refresh, vars

LEMMA KeysBornInvariant == Spec => []KeysBorn
  <1>1. Init => KeysBorn
    BY EmptyTableDomain DEF Init, KeysBorn
  <1>2. Spec => []GroundedParts
    BY GroundedInvariant, GroundedByPart, PTL
  <1> QED
    BY <1>1, <1>2, KeysBornStep, PTL DEF Spec

\* Of the keys of a table that match, one that is as long as any is the match.
LEMMA LongestIsUnique ==
    ASSUME NEW t, DOMAIN t \subseteq Seq(Nat), NEW dst, NEW key \in DOMAIN t, IsPrefix(key, dst),
           \A k \in DOMAIN t : IsPrefix(k, dst) => Len(k) <= Len(key)
    PROVE  LongestMatch(t, dst) = {key}
  <1>1. key \in LongestMatch(t, dst)
    BY DEF LongestMatch, Matching
  <1>2. ASSUME NEW k \in LongestMatch(t, dst) PROVE k = key
    <2>1. k \in Seq(Nat) /\ key \in Seq(Nat) /\ IsPrefix(k, dst)
      BY <1>2 DEF LongestMatch, Matching
    <2>2. Len(k) <= Len(key) /\ Len(key) <= Len(k)
      BY <1>1, <1>2 DEF LongestMatch, Matching
    <2>3. Len(k) \in Nat /\ Len(key) \in Nat
      BY <2>1
    <2>4. Len(k) = Len(key)
      BY <2>2, <2>3
    <2> QED
      BY <2>1, <2>4, PrefixesOfOneLength
  <1> QED
    BY <1>1, <1>2

\* A table in which a key matches has a longest one: matches are no longer than
\* the destination.
LEMMA LongestExists ==
    ASSUME NEW t, DOMAIN t \subseteq Seq(Nat), NEW dst \in Seq(Nat), NEW key \in DOMAIN t,
           IsPrefix(key, dst)
    PROVE  \E k \in DOMAIN t :
              /\ IsPrefix(k, dst)
              /\ \A j \in DOMAIN t : IsPrefix(j, dst) => Len(j) <= Len(k)
  <1> DEFINE Left(k) == Len(dst) - Len(k)
             T == {Left(k) : k \in Matching(t, dst)}
  <1>1. \A k \in Matching(t, dst) :
            k \in DOMAIN t /\ IsPrefix(k, dst) /\ Len(k) \in Nat /\ Left(k) \in Nat
    BY DEF Matching, IsPrefix
  <1>2. T \subseteq Nat /\ T # {}
    BY <1>1 DEF Matching
  <1>3. PICK x \in T : \A y \in T : ~ (<<y, x>> \in OpToRel(<, Nat))
    <2> HIDE DEF T
    <2> QED
      BY <1>2, NatLessThanWellFounded, WFMin, Zenon
  <1>4. PICK k \in Matching(t, dst) : x = Left(k)
    OBVIOUS
  <1>5. ASSUME NEW j \in DOMAIN t, IsPrefix(j, dst) PROVE Len(j) <= Len(k)
    <2>1. j \in Matching(t, dst)
      BY <1>5 DEF Matching
    <2>2. Left(j) \in Nat /\ Left(k) \in Nat /\ ~ (Left(j) < Left(k))
      BY <1>1, <1>2, <1>3, <1>4, <2>1 DEF OpToRel
    <2>3. Len(j) \in Nat /\ Len(k) \in Nat /\ Len(dst) \in Nat
      BY <1>1, <2>1
    <2> QED
      BY <2>2, <2>3
  <1> QED
    BY <1>1, <1>5

\* A running node whose table has the subnet of m, which is the smallest of those
\* that run and hold dst, routes dst by it, or by that of a node that stopped.
LEMMA NearestOrStale ==
    ASSUME GroundedParts, KeysBorn, NEW m \in Node, NEW dst \in Seq(Nat), Nearest(m, dst),
           NEW n \in Node, up[n], Subnet[m] \in DOMAIN table[n],
           LongestMatch(table[n], dst) # {Subnet[m]}
    PROVE  Stale(n, m, dst)
  <1>1. DOMAIN table[n] \subseteq Seq(Nat) /\ IsPrefix(Subnet[m], dst)
    BY DEF GroundedParts, TableOK, Nearest
  <1>2. PICK k \in DOMAIN table[n] :
            /\ IsPrefix(k, dst)
            /\ \A j \in DOMAIN table[n] : IsPrefix(j, dst) => Len(j) <= Len(k)
    BY <1>1, LongestExists
  <1>3. LongestMatch(table[n], dst) = {k}
    BY <1>1, <1>2, LongestIsUnique
  <1>4. Len(Subnet[m]) < Len(k)
    <2>1. Len(Subnet[m]) <= Len(k)
      BY <1>1, <1>2
    <2>2. k # Subnet[m] /\ k \in Seq(Nat) /\ Subnet[m] \in Seq(Nat)
      BY <1>1, <1>3
    <2>3. Len(Subnet[m]) # Len(k)
      BY <1>1, <1>2, <2>2, PrefixesOfOneLength
    <2>4. Len(k) \in Nat /\ Len(Subnet[m]) \in Nat
      BY <2>2
    <2> QED
      BY <2>1, <2>3, <2>4
  <1>5. PICK g \in Node : starts[g] > 0 /\ Subnet[g] = k
    BY DEF KeysBorn
  <1>6. ~up[g]
    <2>1. up[g] => Len(k) <= Len(Subnet[m])
      BY <1>2, <1>5 DEF Nearest
    <2>2. Len(k) \in Nat /\ Len(Subnet[m]) \in Nat
      BY <1>1
    <2> QED
      BY <1>4, <2>1, <2>2
  <1> QED
    BY <1>3, <1>4, <1>5, <1>6 DEF Stale

\* Where all nodes list one another, a packet read when the flood is over goes
\* straight to the running node with the smallest subnet that holds it, or by the
\* smaller subnet of a node that stopped: whatever restarts there were, only the
\* routes of stopped nodes, which the code keeps, can make two tables disagree.
THEOREM RestingTablesAgree == ASSUME FullConfig PROVE FSpec => []RestingAgreement
  <1>1. ASSUME GroundedParts, KeysBorn, Converged PROVE RestingAgreement
    <2> SUFFICES ASSUME net = {}, NEW m \in Node, NEW n \in Node, NEW dst \in Dst,
                        Nearest(m, dst), up[n]
                 PROVE  \/ LongestMatch(table[n], dst) = {Subnet[m]} /\ (n # m => Routes(n, m))
                        \/ Stale(n, m, dst)
      BY DEF RestingAgreement
    <2>1. up[m] /\ dst \in Seq(Nat)
      BY ForwardingAssumption DEF Nearest
    <2>2. n # m => Routes(n, m)
      BY <1>1, <2>1 DEF Converged
    <2>3. Subnet[m] \in DOMAIN table[n]
      <3>1. CASE n = m
        BY <1>1, <3>1 DEF GroundedParts, TableOK
      <3>2. CASE n # m
        BY <2>2, <3>2 DEF Routes
      <3> QED
        BY <3>1, <3>2
    <2> QED
      BY <1>1, <2>1, <2>2, <2>3, NearestOrStale
  <1>2. Spec => []GroundedParts
    BY GroundedInvariant, GroundedByPart, PTL
  <1> QED
    BY <1>1, <1>2, KeysBornInvariant, FullMeshConverges, ForwardingIsMesh, PTL
=============================================================================
