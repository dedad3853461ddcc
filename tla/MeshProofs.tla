------------------------------ MODULE MeshProofs ------------------------------
(***************************************************************************)
(* Proofs about Mesh, for every set of nodes, configuration and network.   *)
(*                                                                         *)
(* Grounded is inductive: a route is entered from a record, a record is    *)
(* made by the node it names or copied from one that was true, and a       *)
(* table's peers keep their top.  The theorems at the end follow from it.  *)
(***************************************************************************)
EXTENDS Mesh, FiniteSetTheorems, TLAPS

-----------------------------------------------------------------------------
(***************************************************************************)
(* The table.                                                              *)
(***************************************************************************)

LEMMA InsertDomain ==
    ASSUME NEW t, NEW key, NEW name, NEW host
    PROVE  DOMAIN Insert(t, key, name, host) = DOMAIN t \cup {key}
  BY DEF Insert

LEMMA InsertOtherKey ==
    ASSUME NEW t, NEW key, NEW name, NEW host, NEW k \in DOMAIN t \ {key}
    PROVE  Insert(t, key, name, host)[k] = t[k]
  BY DEF Insert

\* A further socket of a peer that has a top never becomes the top.
LEMMA InsertKnownKey ==
    ASSUME NEW t, NEW key \in DOMAIN t, NEW name, NEW host \in Addr,
           t[key] \in PeerType, t[key].top # Unreachable
    PROVE  /\ Insert(t, key, name, host)[key] \in PeerType
           /\ Insert(t, key, name, host)[key].hosts = t[key].hosts \cup {host}
           /\ Insert(t, key, name, host)[key].top = t[key].top
  <1>1. ~Outranks(host, t[key].top)
    BY HostsDistinct DEF Outranks
  <1>2. Insert(t, key, name, host)[key] = AddHost(t[key], host)
    BY DEF Insert
  <1> QED
    BY <1>1, <1>2 DEF AddHost, PeerType, Host

\* The first host of a new peer is its top.
LEMMA InsertNewKey ==
    ASSUME NEW t, NEW key, key \notin DOMAIN t, NEW name \in Node,
           NEW host \in Addr \cup {Localhost}
    PROVE  /\ Insert(t, key, name, host)[key] \in PeerType
           /\ Insert(t, key, name, host)[key].hosts = {host}
           /\ Insert(t, key, name, host)[key].top = host
  <1>1. Outranks(host, Unreachable)
    BY HostsDistinct DEF Outranks
  <1>2. Insert(t, key, name, host)[key] = AddHost(NewPeer(name), host)
    BY DEF Insert
  <1> QED
    BY <1>1, <1>2 DEF AddHost, NewPeer, PeerType, Host

LEMMA EmptyTableDomain == DOMAIN EmptyTable = {}
  BY DEF EmptyTable

-----------------------------------------------------------------------------
(***************************************************************************)
(* The network.                                                            *)
(***************************************************************************)

LEMMA RestSubset ==
    ASSUME NEW d, NEW rest \in Rest(d)
    PROVE  rest \subseteq net
  BY DEF Rest

LEMMA AddNodeWriteDatagram ==
    ASSUME NEW from, NEW targets, NEW node, NEW e \in AddNodeWrite(from, targets, node)
    PROVE  /\ e = [src |-> e.src, to |-> e.to, node |-> node]
           /\ e.src \in from
           /\ e.to \in targets
           /\ e.node = node
  BY DEF AddNodeWrite

LEMMA AllNodeAddr == ASSUME NEW t PROVE AllNode(t) \subseteq Addr
  BY DEF AllNode

\* What holds of a good record when s[n] tells how often n was started.
RecordOK(d, s) ==
    /\ d \in Datagram
    /\ d.node.jump >= -1
    /\ d.node.subnet = Subnet[d.node.name]
    /\ s[d.node.name] > 0
    /\ d.node.jump > 0 <=> d.node.real # NoAddr
    /\ Owner[Source(d)] = d.node.name

LEMMA GroundedRecords ==
    (net \subseteq Datagram /\ RecordsGrounded /\ ForwardedCarriesAddress)
        <=> \A d \in net : RecordOK(d, starts)
  BY DEF RecordOK, RecordsGrounded, ForwardedCarriesAddress

LEMMA SourceAddr == ASSUME NEW d \in Datagram PROVE Source(d) \in Addr
  BY DEF Datagram, NodeRecord, Source

\* A node speaks the truth about itself.
LEMMA SelfShareOK ==
    ASSUME NEW s, NEW n \in Node, NEW from \in SUBSET Addr, NEW targets \in SUBSET Addr,
           s[n] > 0, \A a \in from : Owner[a] = n,
           NEW node \in {SelfShare(n), SelfInit(n)},
           NEW e \in AddNodeWrite(from, targets, node)
    PROVE  RecordOK(e, s)
  <1>1. node = [name |-> n, subnet |-> Subnet[n], jump |-> node.jump, real |-> NoAddr]
    BY DEF SelfShare, SelfInit
  <1>2. node.jump \in {0, -1}
    BY DEF SelfShare, SelfInit
  <1>3. e = [src |-> e.src, to |-> e.to, node |-> node] /\ e.src \in from /\ e.to \in targets
    BY AddNodeWriteDatagram
  <1>4. e \in Datagram
    BY <1>1, <1>2, <1>3, ConfigAssumption DEF Datagram, NodeRecord
  <1>5. Source(e) = e.src
    BY <1>1, <1>3 DEF Source
  <1> QED
    BY <1>1, <1>2, <1>3, <1>4, <1>5 DEF RecordOK

\* A node passes on the truth it was told.
LEMMA ForwardedOK ==
    ASSUME NEW s, NEW d, RecordOK(d, s), NEW from \in SUBSET Addr, NEW targets \in SUBSET Addr,
           NEW e \in AddNodeWrite(from, targets, Forwarded(d))
    PROVE  RecordOK(e, s)
  <1>1. Source(d) \in Addr
    BY SourceAddr DEF RecordOK
  <1>2. d.node \in NodeRecord
    BY DEF RecordOK, Datagram
  <1>3. Forwarded(d) = [name |-> d.node.name, subnet |-> d.node.subnet,
                        jump |-> Forwarded(d).jump, real |-> Source(d)]
    BY <1>2 DEF Forwarded, NodeRecord
  <1>4. Forwarded(d).jump \in Int /\ Forwarded(d).jump > 0
    BY <1>2 DEF Forwarded, NodeRecord, RecordOK
  <1>5. e = [src |-> e.src, to |-> e.to, node |-> Forwarded(d)] /\ e.src \in from /\ e.to \in targets
    BY AddNodeWriteDatagram
  <1>6. e \in Datagram
    BY <1>1, <1>2, <1>3, <1>4, <1>5 DEF Datagram, NodeRecord
  <1>7. Source(e) = Source(d) /\ Source(d) # NoAddr
    BY <1>1, <1>3, <1>5, AddressAssumption DEF Source
  <1> QED
    BY <1>1, <1>3, <1>4, <1>5, <1>6, <1>7 DEF RecordOK

-----------------------------------------------------------------------------
(***************************************************************************)
(* The inductive invariant.                                                *)
(***************************************************************************)

\* What holds of a good table of node n that runs.
TableOK(n, t) ==
    /\ DOMAIN t \subseteq Seq(Nat)
    /\ Subnet[n] \in DOMAIN t
    /\ \A k \in DOMAIN t :
          /\ t[k] \in PeerType
          /\ t[k].top \in t[k].hosts \ {Unreachable}
          /\ Localhost \in t[k].hosts <=> k = Subnet[n]
          /\ Localhost \in t[k].hosts => t[k].top = Localhost
          /\ \A a \in t[k].hosts \cap Addr : Subnet[Owner[a]] = k /\ Owner[a] # n

\* Grounded, rearranged: process by process and record by record.
GroundedParts ==
    /\ up \in [Node -> BOOLEAN]
    /\ home \in [Node -> SUBSET Addr]
    /\ starts \in [Node -> Nat]
    /\ DOMAIN table = Node
    /\ \A n \in Node : \A a \in home[n] : Owner[a] = n
    /\ \A n \in Node : up[n] => starts[n] > 0 /\ TableOK(n, table[n])
    /\ \A n \in Node : ~up[n] => home[n] = {} /\ DOMAIN table[n] = {}
    /\ \A d \in net : RecordOK(d, starts)

LEMMA GroundedByPart == Grounded <=> GroundedParts
  <1>1. ASSUME Grounded PROVE GroundedParts
    <2>1. \A d \in net : RecordOK(d, starts)
      BY <1>1, GroundedRecords DEF Grounded, TypeOK
    <2>2. ASSUME NEW n \in Node, up[n] PROVE TableOK(n, table[n])
      BY <1>1, <2>2 DEF Grounded, TypeOK, TopsGrounded, RouteAccuracy, OwnRoute, TableOK
    <2> QED
      BY <1>1, <2>1, <2>2 DEF Grounded, TypeOK, ProcessesGrounded, GroundedParts
  <1>2. ASSUME GroundedParts PROVE Grounded
    <2>1. net \subseteq Datagram /\ RecordsGrounded /\ ForwardedCarriesAddress
      BY <1>2, GroundedRecords DEF GroundedParts
    <2>2. ASSUME NEW n \in Node, NEW k \in DOMAIN table[n]
          PROVE  up[n] /\ TableOK(n, table[n])
      BY <1>2, <2>2 DEF GroundedParts
    <2>3. TypeOK
      BY <1>2, <2>1, <2>2 DEF GroundedParts, TypeOK, TableOK
    <2>4. ProcessesGrounded
      BY <1>2 DEF GroundedParts, ProcessesGrounded
    <2>5. TopsGrounded /\ RouteAccuracy
      BY <2>2 DEF TableOK, TopsGrounded, RouteAccuracy
    <2>6. ASSUME NEW n \in Node, up[n], NEW k \in DOMAIN table[n]
          PROVE  table[n][k].top = Localhost <=> k = Subnet[n]
      BY <2>2 DEF TableOK
    <2>7. OwnRoute
      BY <1>2, <2>6 DEF GroundedParts, TableOK, OwnRoute
    <2> QED
      BY <2>1, <2>3, <2>4, <2>5, <2>7 DEF Grounded
  <1> QED
    BY <1>1, <1>2

LEMMA GroundedInit == Init => GroundedParts
  BY EmptyTableDomain DEF Init, GroundedParts

\* The table Network::new starts with.
LEMMA FirstTable ==
    ASSUME NEW n \in Node
    PROVE  LET t == Insert(EmptyTable, Subnet[n], n, Localhost)
           IN  /\ DOMAIN t = {Subnet[n]}
               /\ t[Subnet[n]] \in PeerType
               /\ t[Subnet[n]].hosts = {Localhost}
               /\ t[Subnet[n]].top = Localhost
  <1> DEFINE t == Insert(EmptyTable, Subnet[n], n, Localhost)
  <1>1. DOMAIN t = DOMAIN EmptyTable \cup {Subnet[n]}
    BY InsertDomain
  <1>2. DOMAIN t = {Subnet[n]} /\ Subnet[n] \notin DOMAIN EmptyTable
    BY <1>1, EmptyTableDomain
  <1>3. t[Subnet[n]] \in PeerType /\ t[Subnet[n]].hosts = {Localhost} /\ t[Subnet[n]].top = Localhost
    BY <1>2, InsertNewKey
  <1> QED
    BY <1>2, <1>3

LEMMA FirstTableOK ==
    ASSUME NEW n \in Node
    PROVE  TableOK(n, Insert(EmptyTable, Subnet[n], n, Localhost))
  <1> DEFINE t == Insert(EmptyTable, Subnet[n], n, Localhost)
  <1>1. Subnet[n] \in Seq(Nat)
    BY ConfigAssumption
  <1>2. /\ DOMAIN t = {Subnet[n]}
        /\ t[Subnet[n]] \in PeerType
        /\ t[Subnet[n]].hosts = {Localhost}
        /\ t[Subnet[n]].top = Localhost
    BY FirstTable
  <1> HIDE DEF t
  <1>3. TableOK(n, t)
    BY <1>1, <1>2, HostsDistinct DEF TableOK
  <1> QED
    BY <1>3 DEF t

\* A good table stays good when a true host of another node is entered.
LEMMA InsertOK ==
    ASSUME NEW n \in Node, NEW t, TableOK(n, t),
           NEW m \in Node \ {n}, NEW a \in Addr, Owner[a] = m
    PROVE  TableOK(n, Insert(t, Subnet[m], m, a))
  <1> DEFINE u == Insert(t, Subnet[m], m, a)
  <1>1. DOMAIN u = DOMAIN t \cup {Subnet[m]}
    BY DEF Insert
  <1>2. DOMAIN u \subseteq Seq(Nat) /\ Subnet[n] \in DOMAIN u
    BY <1>1, ConfigAssumption DEF TableOK
  <1>3. ASSUME NEW k \in DOMAIN u
        PROVE  /\ u[k] \in PeerType
               /\ u[k].top \in u[k].hosts \ {Unreachable}
               /\ Localhost \in u[k].hosts <=> k = Subnet[n]
               /\ Localhost \in u[k].hosts => u[k].top = Localhost
               /\ \A b \in u[k].hosts \cap Addr : Subnet[Owner[b]] = k /\ Owner[b] # n
    <2>1. CASE k # Subnet[m]
      <3>1. k \in DOMAIN t \ {Subnet[m]}
        BY <1>1, <2>1
      <3>2. u[k] = t[k]
        BY <3>1, InsertOtherKey
      <3> QED
        BY <3>1, <3>2 DEF TableOK
    <2>2. CASE k = Subnet[m] /\ k \in DOMAIN t
      <3>1. t[k] \in PeerType /\ t[k].top # Unreachable
        BY <2>2 DEF TableOK
      <3>2. u[k] \in PeerType /\ u[k].hosts = t[k].hosts \cup {a} /\ u[k].top = t[k].top
        BY <2>2, <3>1, InsertKnownKey
      <3> QED
        BY <2>2, <3>2, HostsDistinct DEF TableOK
    <2>3. CASE k = Subnet[m] /\ k \notin DOMAIN t
      <3>1. u[k] \in PeerType /\ u[k].hosts = {a} /\ u[k].top = a
        BY <2>3, InsertNewKey
      <3>2. k # Subnet[n]
        BY <2>3 DEF TableOK
      <3> QED
        BY <2>3, <3>1, <3>2, HostsDistinct
    <2> QED
      BY <1>1, <2>1, <2>2, <2>3
  <1> QED
    BY <1>2, <1>3 DEF TableOK

LEMMA StartStep ==
    ASSUME GroundedParts, NEW n \in Node, NEW addrs \in Homes[n], Start(n, addrs)
    PROVE  GroundedParts'
  <1>1. addrs \in SUBSET Addr /\ \A a \in addrs : Owner[a] = n
    BY ConfigAssumption
  <1>2. /\ up' \in [Node -> BOOLEAN]
        /\ home' \in [Node -> SUBSET Addr]
        /\ starts' \in [Node -> Nat]
        /\ DOMAIN table' = Node
    BY <1>1 DEF GroundedParts, Start
  <1>3. \A m \in Node : starts'[m] >= starts[m] /\ starts'[n] > 0
    BY DEF GroundedParts, Start
  <1>4. ASSUME NEW m \in Node PROVE \A a \in home'[m] : Owner[a] = m
    BY <1>1 DEF GroundedParts, Start
  <1>5. ASSUME NEW m \in Node, up'[m] PROVE starts'[m] > 0 /\ TableOK(m, table'[m])
    <2>1. CASE m = n
      BY <1>3, <2>1, FirstTableOK DEF GroundedParts, Start
    <2>2. CASE m # n
      BY <1>5, <2>2 DEF GroundedParts, Start
    <2> QED
      BY <2>1, <2>2
  <1>6. ASSUME NEW m \in Node, ~up'[m] PROVE home'[m] = {} /\ DOMAIN table'[m] = {}
    BY <1>6 DEF GroundedParts, Start
  <1>7. ASSUME NEW d \in net' PROVE RecordOK(d, starts')
    <2>1. CASE d \in net
      <3>1. RecordOK(d, starts) /\ d.node.name \in Node
        BY <2>1 DEF GroundedParts, RecordOK, Datagram, NodeRecord
      <3>2. starts'[d.node.name] >= starts[d.node.name] /\ starts'[d.node.name] \in Nat
        BY <1>2, <1>3, <3>1
      <3>3. starts[d.node.name] \in Nat
        BY <3>1 DEF GroundedParts
      <3> QED
        BY <3>1, <3>2, <3>3 DEF RecordOK
    <2>2. CASE d \notin net
      <3>1. d \in AddNodeWrite(addrs, {a \in Servers[n] : Owner[a] # n}, SelfInit(n))
        BY <1>7, <2>2 DEF Start
      <3>2. {a \in Servers[n] : Owner[a] # n} \in SUBSET Addr
        BY ConfigAssumption
      <3> QED
        BY <1>1, <1>3, <3>1, <3>2, SelfShareOK
    <2> QED
      BY <2>1, <2>2
  <1> QED
    BY <1>2, <1>4, <1>5, <1>6, <1>7 DEF GroundedParts

LEMMA CrashStep ==
    ASSUME GroundedParts, NEW n \in Node, Crash(n)
    PROVE  GroundedParts'
  <1>1. /\ up' \in [Node -> BOOLEAN]
        /\ home' \in [Node -> SUBSET Addr]
        /\ starts' \in [Node -> Nat]
        /\ DOMAIN table' = Node
    BY DEF GroundedParts, Crash
  <1>2. ASSUME NEW m \in Node PROVE \A a \in home'[m] : Owner[a] = m
    BY DEF GroundedParts, Crash
  <1>3. ASSUME NEW m \in Node, up'[m] PROVE starts'[m] > 0 /\ TableOK(m, table'[m])
    BY <1>3 DEF GroundedParts, Crash
  <1>4. ASSUME NEW m \in Node, ~up'[m] PROVE home'[m] = {} /\ DOMAIN table'[m] = {}
    BY <1>4, EmptyTableDomain DEF GroundedParts, Crash
  <1>5. ASSUME NEW d \in net' PROVE RecordOK(d, starts')
    BY <1>5 DEF GroundedParts, Crash
  <1> QED
    BY <1>1, <1>2, <1>3, <1>4, <1>5 DEF GroundedParts

\* The steps that leave every process as it is.
LEMMA NetStep ==
    ASSUME GroundedParts, UNCHANGED <<up, home, table, starts>>,
           \A d \in net' : RecordOK(d, starts)
    PROVE  GroundedParts'
  BY DEF GroundedParts

LEMMA ReplyOK ==
    ASSUME GroundedParts, NEW n \in Node, NEW d \in net, Reaches(d, n), NEW e \in Reply(n, d)
    PROVE  RecordOK(e, starts)
  <1>1. e \in AddNodeWrite(home[n], {d.src}, SelfShare(n))
    BY DEF Reply
  <1>2. home[n] \in SUBSET Addr /\ starts[n] > 0 /\ \A a \in home[n] : Owner[a] = n
    BY DEF GroundedParts, Reaches
  <1>3. {d.src} \in SUBSET Addr
    BY DEF GroundedParts, RecordOK, Datagram
  <1> QED
    BY <1>1, <1>2, <1>3, SelfShareOK

LEMMA LearnStep ==
    ASSUME GroundedParts, NEW n \in Node, NEW d \in net, Learn(n, d)
    PROVE  GroundedParts'
  <1>1. RecordOK(d, starts) /\ d.node.name \in Node \ {n} /\ Source(d) \in Addr
    BY SourceAddr DEF GroundedParts, Learn, RecordOK, Datagram, NodeRecord
  <1>2. up[n] /\ home[n] \in SUBSET Addr
    BY DEF Learn, Reaches, GroundedParts
  <1>3. TableOK(n, table'[n])
    <2>1. table'[n] = Insert(table[n], Subnet[d.node.name], d.node.name, Source(d))
      BY <1>1 DEF Learn, GroundedParts, RecordOK
    <2>2. TableOK(n, table[n]) /\ Owner[Source(d)] = d.node.name
      BY <1>1, <1>2 DEF GroundedParts, RecordOK
    <2> QED
      BY <1>1, <2>1, <2>2, InsertOK
  <1>4. DOMAIN table' = Node /\ \A m \in Node \ {n} : table'[m] = table[m]
    BY DEF Learn, GroundedParts
  <1>5. ASSUME NEW e \in net' PROVE RecordOK(e, starts)
    <2>1. PICK rest \in Rest(d) :
             net' = rest \cup Reply(n, d)
                         \cup AddNodeWrite(home[n], AllNode(table'[n]), Forwarded(d))
      BY DEF Learn
    <2>2. CASE e \in rest
      BY <2>2, RestSubset DEF GroundedParts
    <2>3. CASE e \in Reply(n, d)
      BY <2>3, ReplyOK DEF Learn
    <2>4. CASE e \in AddNodeWrite(home[n], AllNode(table'[n]), Forwarded(d))
      <3>1. AllNode(table'[n]) \in SUBSET Addr
        BY AllNodeAddr
      <3> QED
        BY <1>1, <1>2, <2>4, <3>1, ForwardedOK
    <2> QED
      BY <1>5, <2>1, <2>2, <2>3, <2>4
  <1> QED
    BY <1>2, <1>3, <1>4, <1>5 DEF GroundedParts, Learn

LEMMA GroundedStep ==
    ASSUME GroundedParts, [Next]_vars
    PROVE  GroundedParts'
  <1>1. ASSUME NEW n \in Node, NEW addrs \in Homes[n], Start(n, addrs) PROVE GroundedParts'
    BY <1>1, StartStep
  <1>2. ASSUME NEW n \in Node, Crash(n) PROVE GroundedParts'
    BY <1>2, CrashStep
  <1>3. ASSUME NEW d \in net, Lose(d) PROVE GroundedParts'
    <2>1. \A e \in net' : RecordOK(e, starts)
      BY <1>3 DEF Lose, GroundedParts
    <2> QED
      BY <1>3, <2>1, NetStep DEF Lose
  <1>4. ASSUME NEW d \in net, NEW n \in Node, IgnoreOwn(n, d) PROVE GroundedParts'
    <2>1. net' \subseteq net
      BY <1>4, RestSubset DEF IgnoreOwn
    <2>2. \A e \in net' : RecordOK(e, starts)
      BY <2>1 DEF GroundedParts
    <2> QED
      BY <1>4, <2>2, NetStep DEF IgnoreOwn
  <1>5. ASSUME NEW d \in net, NEW n \in Node, Refresh(n, d) PROVE GroundedParts'
    <2>1. ASSUME NEW e \in net' PROVE e \in net \/ e \in Reply(n, d)
      BY <1>5, <2>1, RestSubset DEF Refresh
    <2>2. Reaches(d, n)
      BY <1>5 DEF Refresh
    <2>3. ASSUME NEW e \in net' PROVE RecordOK(e, starts)
      BY <2>1, <2>2, ReplyOK DEF GroundedParts
    <2> QED
      BY <1>5, <2>3, NetStep DEF Refresh
  <1>6. ASSUME NEW d \in net, NEW n \in Node, Learn(n, d) PROVE GroundedParts'
    BY <1>6, LearnStep
  <1>7. CASE UNCHANGED vars
    BY <1>7 DEF vars, GroundedParts
  <1> QED
    BY <1>1, <1>2, <1>3, <1>4, <1>5, <1>6, <1>7 DEF Next, Arrival, Receive

\* Grounded holds in every state, whatever is lost, duplicated or reordered
\* and whoever stops or starts again.
THEOREM GroundedInvariant == Spec => []Grounded
  <1>1. Init => GroundedParts
    BY GroundedInit
  <1>2. GroundedParts /\ [Next]_vars => GroundedParts'
    BY GroundedStep
  <1>3. GroundedParts => Grounded
    BY GroundedByPart
  <1> QED
    BY <1>1, <1>2, <1>3, PTL DEF Spec

\* Every variable has its type.
THEOREM TypeCorrect == Spec => []TypeOK
  <1>1. Grounded => TypeOK
    BY DEF Grounded
  <1> QED
    BY <1>1, GroundedInvariant, PTL

\* No table of any node ever names a wrong address (Router::insert_to_table
\* is only ever called with true records).
THEOREM RoutesAreAccurate == Spec => []RouteAccuracy
  <1>1. Grounded => RouteAccuracy
    BY DEF Grounded
  <1> QED
    BY <1>1, GroundedInvariant, PTL

\* A running node routes its own subnet, and only this one, to itself.
THEOREM OwnRouteHolds == Spec => []OwnRoute
  <1>1. Grounded => OwnRoute
    BY DEF Grounded
  <1> QED
    BY <1>1, GroundedInvariant, PTL

\* The rule of transport.proto on jump and real_host is kept.
THEOREM ForwardedRecords == Spec => []ForwardedCarriesAddress
  <1>1. Grounded => ForwardedCarriesAddress
    BY DEF Grounded
  <1> QED
    BY <1>1, GroundedInvariant, PTL

-----------------------------------------------------------------------------
(***************************************************************************)
(* What a step does to the routes.                                         *)
(***************************************************************************)

\* Learn keeps every top and adds at most the top of the new key.
LEMMA LearnTops ==
    ASSUME GroundedParts, NEW n \in Node, NEW d \in net, Learn(n, d)
    PROVE  /\ up[n]
           /\ d.node.name \in Node \ {n}
           /\ starts[d.node.name] > 0
           /\ Source(d) \in Addr
           /\ Owner[Source(d)] = d.node.name
           /\ DOMAIN table'[n] = DOMAIN table[n] \cup {Subnet[d.node.name]}
           /\ \A k \in DOMAIN table[n] : table'[n][k].top = table[n][k].top
           /\ Subnet[d.node.name] \notin DOMAIN table[n] =>
                 table'[n][Subnet[d.node.name]].top = Source(d)
           /\ \A m \in Node \ {n} : table'[m] = table[m]
           /\ UNCHANGED <<up, home, starts>>
  <1> DEFINE key == Subnet[d.node.name]
  <1>1. RecordOK(d, starts) /\ Source(d) \in Addr /\ d.node.name \in Node \ {n}
    BY SourceAddr DEF GroundedParts, Learn, RecordOK, Datagram, NodeRecord
  <1>2. up[n] /\ TableOK(n, table[n])
    BY DEF Learn, Reaches, GroundedParts
  <1>3. table'[n] = Insert(table[n], key, d.node.name, Source(d))
    BY <1>1 DEF Learn, GroundedParts, RecordOK
  <1>4. DOMAIN table'[n] = DOMAIN table[n] \cup {key}
    BY <1>3 DEF Insert
  <1>5. ASSUME NEW k \in DOMAIN table[n] PROVE table'[n][k].top = table[n][k].top
    <2>1. CASE k = key
      <3>1. table[n][k] \in PeerType /\ table[n][k].top # Unreachable
        BY <1>2 DEF TableOK
      <3> QED
        BY <1>1, <1>3, <2>1, <3>1, InsertKnownKey
    <2>2. CASE k # key
      BY <1>3, <2>2, InsertOtherKey
    <2> QED
      BY <2>1, <2>2
  <1>6. ASSUME key \notin DOMAIN table[n] PROVE table'[n][key].top = Source(d)
    BY <1>1, <1>3, <1>6, InsertNewKey
  <1>7. \A m \in Node \ {n} : table'[m] = table[m]
    BY DEF Learn, GroundedParts
  <1> QED
    BY <1>1, <1>2, <1>4, <1>5, <1>6, <1>7 DEF RecordOK, Learn

\* Nothing a running node hears makes it forget or change a route: a step that
\* touches its table only adds to it.
THEOREM RoutesStick == Spec => StickyRoute
  <1> DEFINE Sticks == \A n \in Node : up[n] /\ up'[n] =>
                          \A k \in DOMAIN table[n] :
                             k \in DOMAIN table'[n] /\ table'[n][k].top = table[n][k].top
  <1>1. ASSUME GroundedParts, [Next]_vars PROVE Sticks
    <2>1. ASSUME NEW m \in Node, NEW addrs \in Homes[m], Start(m, addrs) PROVE Sticks
      BY <2>1 DEF Start, GroundedParts
    <2>2. ASSUME NEW m \in Node, Crash(m) PROVE Sticks
      <3> SUFFICES ASSUME NEW n \in Node, up'[n] PROVE table'[n] = table[n]
        OBVIOUS
      <3>1. n # m
        BY <1>1, <2>2 DEF Crash, GroundedParts
      <3> QED
        BY <1>1, <2>2, <3>1 DEF Crash, GroundedParts
    <2>3. ASSUME NEW m \in Node, NEW d \in net, Learn(m, d) PROVE Sticks
      <3> SUFFICES ASSUME NEW n \in Node, NEW k \in DOMAIN table[n]
                   PROVE  k \in DOMAIN table'[n] /\ table'[n][k].top = table[n][k].top
        OBVIOUS
      <3> QED
        BY <1>1, <2>3, LearnTops
    <2>4. CASE table' = table
      BY <2>4
    <2> QED
      BY <1>1, <2>1, <2>2, <2>3, <2>4
         DEF Next, Arrival, Receive, Lose, IgnoreOwn, Refresh, vars
  <1>2. Spec => []GroundedParts
    BY GroundedInvariant, GroundedByPart, PTL
  <1> QED
    BY <1>1, <1>2, PTL DEF Spec, StickyRoute

-----------------------------------------------------------------------------
(***************************************************************************)
(* How far a record travels.  A process passes a host on when it enters    *)
(* it, and forgets it only by stopping: each jump is paid for by a process *)
(* of its own.                                                             *)
(***************************************************************************)

LEMMA ProcessesFinite ==
    ASSUME NEW S, S \subseteq Node \X (1 .. MaxStarts)
    PROVE  IsFiniteSet(S) /\ Cardinality(S) \in Nat
  <1>1. IsFiniteSet(Node)
    BY ConfigAssumption
  <1>2. 1 \in Int /\ MaxStarts \in Int
    BY BoundAssumption
  <1>3. IsFiniteSet(1 .. MaxStarts)
    BY <1>2, FS_Interval
  <1>4. IsFiniteSet(Node \X (1 .. MaxStarts))
    BY <1>1, <1>3, FS_Product
  <1>5. IsFiniteSet(S)
    BY <1>4, FS_Subset
  <1> QED
    BY <1>5, FS_CardinalityType

LEMMA SmallerCount ==
    ASSUME NEW S, NEW T, S \subseteq T, IsFiniteSet(T)
    PROVE  Cardinality(S) <= Cardinality(T)
  BY FS_Subset

LEMMA PassedAreProcesses ==
    ASSUME NEW name, NEW key, NEW host
    PROVE  Passed(name, key, host) \subseteq Node \X (1 .. MaxStarts)
  BY DEF Passed, Processes

LEMMA KnownStays ==
    ASSUME NEW t, NEW key, NEW host, Known(t, key, host), NEW k, NEW name, NEW h
    PROVE  Known(Insert(t, k, name, h), key, host)
  BY DEF Known, Insert, AddHost

LEMMA InsertedKnown ==
    ASSUME NEW t, NEW key, NEW name, NEW host
    PROVE  Known(Insert(t, key, name, host), key, host)
  BY DEF Known, Insert, AddHost

StartsBounded == \A n \in Node : starts[n] <= MaxStarts

LEMMA StartsBoundedStep ==
    ASSUME GroundedParts, StartsBounded, [Next]_vars
    PROVE  /\ StartsBounded'
           /\ \A n \in Node : starts[n] \in Nat /\ starts'[n] \in Nat /\ starts[n] <= starts'[n]
  <1> USE DEF StartsBounded
  <1>1. ASSUME NEW n \in Node, NEW addrs \in Homes[n], Start(n, addrs)
        PROVE  StartsBounded' /\ \A m \in Node : starts[m] \in Nat /\ starts'[m] \in Nat
                                                 /\ starts[m] <= starts'[m]
    <2>1. starts \in [Node -> Nat] /\ starts' = [starts EXCEPT ![n] = starts[n] + 1]
          /\ starts[n] < MaxStarts /\ MaxStarts \in Nat
      BY <1>1, BoundAssumption DEF Start, GroundedParts
    <2> QED
      BY <2>1
  <1>2. ASSUME UNCHANGED starts
        PROVE  StartsBounded' /\ \A m \in Node : starts[m] \in Nat /\ starts'[m] \in Nat
                                                 /\ starts[m] <= starts'[m]
    <2>1. starts \in [Node -> Nat]
      BY DEF GroundedParts
    <2> QED
      BY <1>2, <2>1
  <1> QED
    BY <1>1, <1>2 DEF Next, Arrival, Receive, Crash, Learn, Lose, IgnoreOwn, Refresh, vars

\* A step keeps every process and, of a process, that it runs or what it knows.
LEMMA ProcessKept ==
    ASSUME GroundedParts, [Next]_vars, NEW m \in Node, up'[m], starts'[m] = starts[m]
    PROVE  /\ up[m]
           /\ \A key, host : Known(table[m], key, host) => Known(table'[m], key, host)
  <1>1. ASSUME NEW n \in Node, NEW addrs \in Homes[n], Start(n, addrs)
        PROVE  up[m] /\ table'[m] = table[m]
    <2>1. starts \in [Node -> Nat] /\ starts' = [starts EXCEPT ![n] = starts[n] + 1]
      BY <1>1 DEF Start, GroundedParts
    <2>2. m # n
      BY <2>1
    <2> QED
      BY <1>1, <2>2 DEF Start, GroundedParts
  <1>2. ASSUME NEW n \in Node, Crash(n)
        PROVE  up[m] /\ table'[m] = table[m]
    <2>1. up' = [up EXCEPT ![n] = FALSE] /\ table' = [table EXCEPT ![n] = EmptyTable]
          /\ up \in [Node -> BOOLEAN] /\ DOMAIN table = Node
      BY <1>2 DEF Crash, GroundedParts
    <2>2. m # n
      BY <2>1
    <2> QED
      BY <2>1, <2>2
  <1>3. ASSUME NEW n \in Node, NEW d \in net, Learn(n, d)
        PROVE  /\ up[m]
               /\ \A key, host : Known(table[m], key, host) => Known(table'[m], key, host)
    <2>1. up' = up /\ DOMAIN table = Node
          /\ table' = [table EXCEPT ![n] = Insert(table[n], d.node.subnet, d.node.name, Source(d))]
      BY <1>3 DEF Learn, GroundedParts
    <2>2. CASE m = n
      <3>1. table'[m] = Insert(table[m], d.node.subnet, d.node.name, Source(d))
        BY <2>1, <2>2
      <3> QED
        BY <2>1, <3>1, KnownStays
    <2>3. CASE m # n
      BY <2>1, <2>3
    <2> QED
      BY <2>2, <2>3
  <1>4. CASE UNCHANGED <<up, table>>
    BY <1>4
  <1> QED
    BY <1>1, <1>2, <1>3, <1>4 DEF Next, Arrival, Receive, Lose, IgnoreOwn, Refresh, vars

LEMMA PassedGrows ==
    ASSUME GroundedParts, StartsBounded, [Next]_vars, NEW name, NEW key, NEW host
    PROVE  Passed(name, key, host) \subseteq Passed(name, key, host)'
  <1> SUFFICES ASSUME NEW p \in Passed(name, key, host)
               PROVE  p \in Passed(name, key, host)'
    OBVIOUS
  <1>1. p \in Node \X (1 .. MaxStarts) /\ p[2] <= starts[p[1]] /\ p[1] # name
        /\ (up[p[1]] /\ p[2] = starts[p[1]] => Known(table[p[1]], key, host))
    BY DEF Passed, Processes
  <1>2. PICK m \in Node : m = p[1]
    BY <1>1
  <1>3. PICK i \in Nat : i = p[2]
    BY <1>1, BoundAssumption
  <1>4. starts[m] \in Nat /\ starts'[m] \in Nat /\ starts[m] <= starts'[m]
    BY StartsBoundedStep
  <1>5. i <= starts'[m]
    BY <1>1, <1>2, <1>3, <1>4
  <1>6. ASSUME up'[m], i = starts'[m]
        PROVE  Known(table'[m], key, host)
    <2>1. starts'[m] = starts[m] /\ i = starts[m]
      BY <1>1, <1>2, <1>3, <1>4, <1>6
    <2>2. up[m] /\ (Known(table[m], key, host) => Known(table'[m], key, host))
      BY <1>6, <2>1, ProcessKept
    <2> QED
      BY <1>1, <1>2, <1>3, <2>1, <2>2
  <1> QED
    BY <1>1, <1>2, <1>3, <1>5, <1>6 DEF Passed, Processes

JumpPaid(d) == d.node.jump <= Cardinality(Passed(d.node.name, d.node.subnet, Source(d)))

\* What is on its way stays paid for.
LEMMA OldStaysPaid ==
    ASSUME GroundedParts, StartsBounded, [Next]_vars, NEW d \in net, JumpPaid(d)
    PROVE  JumpPaid(d)'
  <1> DEFINE S == Passed(d.node.name, d.node.subnet, Source(d))
  <1>1. S \subseteq S'
    BY PassedGrows
  <1>2. S \subseteq Node \X (1 .. MaxStarts) /\ S' \subseteq Node \X (1 .. MaxStarts)
    BY DEF Passed, Processes
  <1>3. IsFiniteSet(S) /\ Cardinality(S) \in Nat
    BY <1>2, ProcessesFinite
  <1>4. IsFiniteSet(S') /\ Cardinality(S') \in Nat
    BY <1>2, ProcessesFinite
  <1>5. Cardinality(S) <= Cardinality(S')
    BY <1>1, <1>4, SmallerCount
  <1>6. d.node.jump \in Int
    BY DEF GroundedParts, RecordOK, Datagram, NodeRecord
  <1> HIDE DEF S
  <1>7. d.node.jump <= Cardinality(S)
    BY DEF JumpPaid, S
  <1>8. d.node.jump <= Cardinality(S')
    BY <1>3, <1>4, <1>5, <1>6, <1>7
  <1> QED
    BY <1>8 DEF JumpPaid, S, Source

\* What a node says of itself has made no jump.
LEMMA OwnIsPaid ==
    ASSUME NEW n \in Node, NEW from, NEW targets, NEW node \in {SelfShare(n), SelfInit(n)},
           NEW e \in AddNodeWrite(from, targets, node)
    PROVE  JumpPaid(e)'
  <1> DEFINE S == Passed(e.node.name, e.node.subnet, Source(e))'
  <1>1. e.node = node
    BY AddNodeWriteDatagram
  <1>2. node.jump = 0 \/ node.jump = -1
    BY DEF SelfShare, SelfInit
  <1>3. S \subseteq Node \X (1 .. MaxStarts)
    BY DEF Passed, Processes
  <1>4. Cardinality(S) \in Nat
    BY <1>3, ProcessesFinite
  <1> HIDE DEF S
  <1>5. e.node.jump <= Cardinality(S)
    BY <1>1, <1>2, <1>4
  <1> QED
    BY <1>5 DEF JumpPaid, S

\* A node that learns a host has not passed it on before, and has when it announces
\* it: it pays for the jump.
LEMMA ForwardedIsPaid ==
    ASSUME GroundedParts, StartsBounded, NEW n \in Node, NEW d \in net, JumpPaid(d), Learn(n, d),
           NEW e \in AddNodeWrite(home[n], AllNode(table'[n]), Forwarded(d))
    PROVE  JumpPaid(e)'
  <1> DEFINE name == d.node.name
             key == d.node.subnet
             host == Source(d)
             S == Passed(name, key, host)
             T == Passed(name, key, host)'
             p == <<n, starts[n]>>
  <1>1. [Next]_vars
    BY DEF Next, Arrival, Receive
  <1>2. S \subseteq T
    BY <1>1, PassedGrows
  <1>3. up[n] /\ name # n /\ ~Known(table[n], key, host)
        /\ table' = [table EXCEPT ![n] = Insert(table[n], key, name, host)]
        /\ up' = up /\ starts' = starts /\ DOMAIN table = Node
    BY DEF Learn, Reaches, GroundedParts
  <1>4. starts[n] \in 1 .. MaxStarts
    BY <1>3, BoundAssumption DEF GroundedParts, StartsBounded
  <1>5. p \notin S
    BY <1>3 DEF Passed
  <1>6. p \in T
    <2>1. table'[n] = Insert(table[n], key, name, host)
      BY <1>3
    <2>2. Known(table'[n], key, host)
      BY <2>1, InsertedKnown
    <2>3. p \in Node \X (1 .. MaxStarts) /\ p[1] = n /\ p[2] = starts[n]
      BY <1>4
    <2> QED
      BY <1>3, <1>4, <2>2, <2>3 DEF Passed, Processes
  <1>7. IsFiniteSet(S) /\ Cardinality(S) \in Nat
    BY PassedAreProcesses, ProcessesFinite
  <1>8. IsFiniteSet(T) /\ Cardinality(T) \in Nat
    <2>1. T \subseteq Node \X (1 .. MaxStarts)
      BY DEF Passed, Processes
    <2> QED
      BY <2>1, ProcessesFinite
  <1>9. Cardinality(S \cup {p}) = Cardinality(S) + 1
    BY <1>5, <1>7, FS_AddElement
  <1>10. Cardinality(S \cup {p}) <= Cardinality(T)
    BY <1>2, <1>6, <1>8, SmallerCount
  <1>11. d.node.jump <= Cardinality(S) /\ d.node.jump \in Int
    BY DEF JumpPaid, GroundedParts, RecordOK, Datagram, NodeRecord
  <1>12. e.node = Forwarded(d)
    BY AddNodeWriteDatagram
  <1>13. /\ e.node.name = name /\ e.node.subnet = key /\ e.node.real = host
         /\ e.node.jump = (IF d.node.jump = -1 THEN 0 ELSE d.node.jump) + 1
    BY <1>12 DEF Forwarded
  <1>14. Source(e) = host
    BY <1>13, SourceAddr, AddressAssumption DEF Source, GroundedParts, RecordOK
  <1> HIDE DEF S, T, p
  <1>15. e.node.jump <= Cardinality(T)
    BY <1>7, <1>8, <1>9, <1>10, <1>11, <1>13
  <1>16. T = Passed(e.node.name, e.node.subnet, Source(e))'
    BY <1>13, <1>14 DEF T, Source
  <1> QED
    BY <1>15, <1>16 DEF JumpPaid

LEMMA JumpsPaidStep ==
    ASSUME GroundedParts, StartsBounded, \A d \in net : JumpPaid(d), [Next]_vars
    PROVE  \A e \in net' : JumpPaid(e)'
  <1>1. ASSUME NEW e \in net PROVE JumpPaid(e)'
    BY <1>1, OldStaysPaid
  <1>2. ASSUME NEW n \in Node, NEW addrs \in Homes[n], Start(n, addrs), NEW e \in net'
        PROVE  JumpPaid(e)'
    <2>1. e \in net \/ e \in AddNodeWrite(addrs, {a \in Servers[n] : Owner[a] # n}, SelfInit(n))
      BY <1>2 DEF Start
    <2>2. SelfInit(n) \in {SelfShare(n), SelfInit(n)}
      OBVIOUS
    <2> QED
      BY <1>1, <2>1, <2>2, OwnIsPaid
  <1>3. ASSUME NEW n \in Node, NEW d, NEW e \in Reply(n, d)
        PROVE  JumpPaid(e)'
    <2>1. e \in AddNodeWrite(home[n], {d.src}, SelfShare(n))
      BY <1>3 DEF Reply
    <2>2. SelfShare(n) \in {SelfShare(n), SelfInit(n)}
      OBVIOUS
    <2> QED
      BY <2>1, <2>2, OwnIsPaid
  <1>4. ASSUME NEW n \in Node, NEW d \in net, Learn(n, d), NEW e \in net'
        PROVE  JumpPaid(e)'
    <2>1. PICK rest \in Rest(d) :
             net' = rest \cup Reply(n, d)
                         \cup AddNodeWrite(home[n], AllNode(table'[n]), Forwarded(d))
      BY <1>4 DEF Learn
    <2>2. e \in net \/ e \in Reply(n, d)
            \/ e \in AddNodeWrite(home[n], AllNode(table'[n]), Forwarded(d))
      BY <1>4, <2>1, RestSubset
    <2> QED
      BY <1>1, <1>3, <1>4, <2>2, ForwardedIsPaid
  <1>5. ASSUME NEW n \in Node, NEW d \in net, Refresh(n, d), NEW e \in net'
        PROVE  JumpPaid(e)'
    <2>1. e \in net \/ e \in Reply(n, d)
      BY <1>5, RestSubset DEF Refresh
    <2> QED
      BY <1>1, <1>3, <2>1
  <1>6. ASSUME net' \subseteq net, NEW e \in net'
        PROVE  JumpPaid(e)'
    BY <1>1, <1>6
  <1>7. ASSUME NEW n \in Node, Crash(n) PROVE net' \subseteq net
    BY <1>7 DEF Crash
  <1>8. ASSUME NEW d \in net, NEW n \in Node, IgnoreOwn(n, d) PROVE net' \subseteq net
    BY <1>8, RestSubset DEF IgnoreOwn
  <1>9. ASSUME NEW d \in net, Lose(d) PROVE net' \subseteq net
    BY <1>9 DEF Lose
  <1>10. CASE UNCHANGED vars
    BY <1>6, <1>10 DEF vars
  <1>11. CASE Next
    <2>1. CASE \E n \in Node : \E addrs \in Homes[n] : Start(n, addrs)
      BY <1>2, <2>1
    <2>2. CASE \E n \in Node : Crash(n)
      BY <1>6, <1>7, <2>2
    <2>3. CASE Arrival
      BY <1>4, <1>5, <1>6, <1>8, <1>9, <2>3 DEF Arrival, Receive
    <2> QED
      BY <1>11, <2>1, <2>2, <2>3 DEF Next
  <1> QED
    BY <1>10, <1>11

LEMMA JumpsPaidByPart == JumpsPaid <=> StartsBounded /\ \A d \in net : JumpPaid(d)
  BY DEF JumpsPaid, StartsBounded, JumpPaid

\* A record has made no more jumps than there are processes of other nodes that
\* know its host already or stopped: every jump is paid for by one of them.
THEOREM JumpsPaidInvariant == Spec => []JumpsPaid
  <1>1. Init => JumpsPaid
    BY BoundAssumption DEF Init, JumpsPaid
  <1>2. ASSUME GroundedParts, JumpsPaid, [Next]_vars PROVE JumpsPaid'
    <2>1. StartsBounded'
      BY <1>2, JumpsPaidByPart, StartsBoundedStep
    <2>2. \A e \in net' : JumpPaid(e)'
      BY <1>2, JumpsPaidByPart, JumpsPaidStep
    <2> QED
      BY <2>1, <2>2 DEF JumpsPaid, StartsBounded, JumpPaid
  <1>3. Spec => []GroundedParts
    BY GroundedInvariant, GroundedByPart, PTL
  <1> QED
    BY <1>1, <1>2, <1>3, PTL DEF Spec

\* The jump counter never exceeds the number of processes of other nodes: a record
\* cannot travel in circles, whatever the network repeats or reorders.
THEOREM JumpsAreBounded == Spec => []JumpBound
  <1>1. ASSUME GroundedParts, JumpsPaid PROVE JumpBound
    <2> SUFFICES ASSUME NEW d \in net
                 PROVE  d.node.jump <= Cardinality({p \in Processes : p[1] # d.node.name})
      BY DEF JumpBound
    <2> DEFINE S == Passed(d.node.name, d.node.subnet, Source(d))
               T == {p \in Processes : p[1] # d.node.name}
    <2>1. S \subseteq T
      BY DEF Passed
    <2>2. T \subseteq Node \X (1 .. MaxStarts) /\ S \subseteq Node \X (1 .. MaxStarts)
      BY <2>1 DEF Processes
    <2>3. IsFiniteSet(T) /\ Cardinality(T) \in Nat /\ Cardinality(S) \in Nat
      BY <2>2, ProcessesFinite
    <2>4. Cardinality(S) <= Cardinality(T)
      BY <2>1, <2>3, SmallerCount
    <2>5. d.node.jump <= Cardinality(S) /\ d.node.jump \in Int
      BY <1>1 DEF JumpsPaid, GroundedParts, RecordOK, Datagram, NodeRecord
    <2> QED
      BY <2>3, <2>4, <2>5
  <1>2. Spec => []GroundedParts
    BY GroundedInvariant, GroundedByPart, PTL
  <1> QED
    BY <1>1, <1>2, JumpsPaidInvariant, PTL

-----------------------------------------------------------------------------
(***************************************************************************)
(* The flood fades.                                                        *)
(***************************************************************************)

\* Where tables stand still, so does what is not known; what is announced of
\* others, and an answer, is no hello.
LEMMA UnknownStays == ASSUME UNCHANGED <<up, table>> PROVE Unknown' = Unknown
  BY DEF Unknown

LEMMA ReplyIsNoHello == ASSUME NEW n, NEW d, NEW e \in Reply(n, d) PROVE e.node.jump # -1
  <1>1. e \in AddNodeWrite(home[n], {d.src}, SelfShare(n))
    BY DEF Reply
  <1>2. e.node = SelfShare(n)
    BY <1>1, AddNodeWriteDatagram
  <1> QED
    BY <1>2 DEF SelfShare

\* What a node learns no peer of its table had.
LEMMA LearntIsUnknown ==
    ASSUME GroundedParts, NEW n \in Node, NEW d \in net, Learn(n, d)
    PROVE  <<n, Source(d)>> \in Unknown
  <1>1. up[n] /\ TableOK(n, table[n]) /\ ~Known(table[n], d.node.subnet, Source(d))
    BY DEF Learn, Reaches, GroundedParts
  <1>2. Source(d) \in Addr /\ Owner[Source(d)] = d.node.name /\ d.node.subnet = Subnet[d.node.name]
    BY SourceAddr DEF GroundedParts, RecordOK
  <1>3. ASSUME NEW k \in DOMAIN table[n], Source(d) \in table[n][k].hosts PROVE FALSE
    <2>1. Subnet[d.node.name] = k
      BY <1>1, <1>2, <1>3 DEF TableOK
    <2> QED
      BY <1>1, <1>2, <1>3, <2>1 DEF Known
  <1> QED
    BY <1>1, <1>2, <1>3 DEF Unknown

\* A step that enters a host makes the unknown fewer.
LEMMA LearnFades ==
    ASSUME GroundedParts, NEW n \in Node, NEW d \in net, Learn(n, d)
    PROVE  Unknown' \subseteq Unknown /\ Unknown' # Unknown
  <1> DEFINE key == d.node.subnet
             host == Source(d)
             t == Insert(table[n], key, d.node.name, host)
  <1>1. /\ up' = up /\ DOMAIN table = Node /\ TableOK(n, table[n]) /\ host \in Addr
        /\ table' = [table EXCEPT ![n] = t]
    BY SourceAddr DEF Learn, Reaches, GroundedParts, RecordOK
  <1>2. ASSUME NEW k \in DOMAIN table[n]
        PROVE  k \in DOMAIN t /\ table[n][k].hosts \subseteq t[k].hosts
    <2>1. k \in DOMAIN t
      BY <1>2 DEF Insert
    <2>2. CASE k # key
      BY <2>1, <2>2, InsertOtherKey
    <2>3. CASE k = key
      <3>1. table[n][k] \in PeerType /\ table[n][k].top # Unreachable
        BY <1>1 DEF TableOK
      <3> QED
        BY <1>1, <2>1, <2>3, <3>1, InsertKnownKey
    <2> QED
      BY <2>1, <2>2, <2>3
  <1>3. Known(t, key, host)
    BY InsertedKnown
  <1> HIDE DEF t
  <1>4. table'[n] = t /\ \A m \in Node \ {n} : table'[m] = table[m]
    BY <1>1
  <1>5. <<n, host>> \notin Unknown'
    BY <1>3, <1>4 DEF Known, Unknown
  <1>6. ASSUME NEW p \in Unknown' PROVE p \in Unknown
    <2>1. p \in Node \X Addr /\ up[p[1]]
          /\ \A k \in DOMAIN table'[p[1]] : p[2] \notin table'[p[1]][k].hosts
      BY <1>1, <1>6 DEF Unknown
    <2>2. PICK m \in Node : m = p[1]
      BY <2>1
    <2>3. \A k \in DOMAIN table[m] : p[2] \notin table[m][k].hosts
      <3>1. CASE m = n
        BY <1>2, <1>4, <2>1, <2>2, <3>1
      <3>2. CASE m # n
        BY <1>4, <2>1, <2>2, <3>2
      <3> QED
        BY <3>1, <3>2
    <2> QED
      BY <2>1, <2>2, <2>3 DEF Unknown
  <1> QED
    BY <1>5, <1>6, LearntIsUnknown

\* While nobody starts or stops and nothing is repeated, every step uses up one of
\* what the flood lives on: addresses to learn, hellos to answer, datagrams.
THEOREM TheFloodFades == Spec => FloodFades
  <1> DEFINE Fades ==
               /\ Unknown' \subseteq Unknown
               /\ Unknown' = Unknown => Hellos' \subseteq Hellos
               /\ Unknown' = Unknown /\ Hellos' = Hellos => net' \subseteq net /\ net' # net
  <1>1. ASSUME GroundedParts, Next, UNCHANGED up, ~Duplicates PROVE Fades
    <2>1. ASSUME NEW n \in Node, NEW addrs \in Homes[n], Start(n, addrs) PROVE Fades
      BY <1>1, <2>1 DEF Start, GroundedParts
    <2>2. ASSUME NEW n \in Node, Crash(n) PROVE Fades
      BY <1>1, <2>2 DEF Crash, GroundedParts
    <2>3. ASSUME NEW d \in net, UNCHANGED table, net' = net \ {d} PROVE Fades
      <3>1. Unknown' = Unknown
        BY <1>1, <2>3, UnknownStays
      <3>2. net' \subseteq net /\ net' # net /\ Hellos' \subseteq Hellos
        BY <2>3 DEF Hellos
      <3> QED
        BY <3>1, <3>2
    <2>4. ASSUME NEW d \in net, NEW n \in Node, Refresh(n, d) PROVE Fades
      <3>1. net' = (net \ {d}) \cup Reply(n, d) /\ UNCHANGED table
        BY <1>1, <2>4 DEF Refresh, Rest
      <3>2. Unknown' = Unknown
        BY <1>1, <3>1, UnknownStays
      <3>3. Hellos' = Hellos \ {d}
        BY <3>1, ReplyIsNoHello DEF Hellos
      <3>4. CASE d.node.jump = -1
        BY <3>2, <3>3, <3>4 DEF Hellos
      <3>5. CASE d.node.jump # -1
        <4>1. Reply(n, d) = {}
          BY <3>5 DEF Reply
        <4> QED
          BY <3>1, <3>2, <3>3, <4>1
      <3> QED
        BY <3>4, <3>5
    <2>5. ASSUME NEW d \in net, NEW n \in Node, Learn(n, d) PROVE Fades
      BY <1>1, <2>5, LearnFades
    <2>6. ASSUME NEW d \in net, NEW n \in Node, IgnoreOwn(n, d) PROVE Fades
      <3>1. net' = net \ {d} /\ UNCHANGED table
        BY <1>1, <2>6 DEF IgnoreOwn, Rest
      <3> QED
        BY <2>3, <3>1
    <2>7. ASSUME NEW d \in net, Lose(d) PROVE Fades
      <3>1. net' = net \ {d} /\ UNCHANGED table
        BY <2>7 DEF Lose
      <3> QED
        BY <2>3, <3>1
    <2> QED
      BY <1>1, <2>1, <2>2, <2>4, <2>5, <2>6, <2>7 DEF Next, Arrival, Receive
  <1>2. GroundedParts /\ [Next]_vars => [UNCHANGED up /\ ~Duplicates => Fades]_vars
    BY <1>1
  <1>3. Spec => []GroundedParts
    BY GroundedInvariant, GroundedByPart, PTL
  <1> QED
    BY <1>2, <1>3, PTL DEF Spec, FloodFades

-----------------------------------------------------------------------------
(***************************************************************************)
(* The mesh implements the directory.                                      *)
(***************************************************************************)

\* The refinement mapping.
Born == {n \in Node : starts[n] > 0}
Route == [n \in Node |-> [k \in DOMAIN table[n] |-> table[n][k].top]]

LEMMA DirectoryInit == Init => D!Init
  <1> SUFFICES ASSUME Init PROVE D!Init
    OBVIOUS
  <1>1. up = [n \in Node |-> FALSE] /\ Born = {}
    BY DEF Init, Born
  <1>2. ASSUME NEW n \in Node PROVE Route[n] = D!NoRoute
    BY EmptyTableDomain DEF Init, Route, D!NoRoute
  <1>3. Route = [n \in Node |-> D!NoRoute]
    BY <1>2 DEF Route
  <1> QED
    BY <1>1, <1>3 DEF D!Init, Born, Route

LEMMA DirectoryJoin ==
    ASSUME GroundedParts, NEW n \in Node, NEW addrs \in Homes[n], Start(n, addrs)
    PROVE  D!Join(n)
  <1> DEFINE first == [k \in {Subnet[n]} |-> Localhost]
  <1>1. table'[n] = Insert(EmptyTable, Subnet[n], n, Localhost)
    BY DEF Start, GroundedParts
  <1>2. DOMAIN table'[n] = {Subnet[n]} /\ table'[n][Subnet[n]].top = Localhost
    BY <1>1, FirstTable
  <1>3. Route'[n] = first
    BY <1>2 DEF Route
  <1>4. \A m \in Node \ {n} : Route'[m] = Route[m]
    BY DEF Start, Route, GroundedParts
  <1>5. Route' = [Route EXCEPT ![n] = first]
    BY <1>3, <1>4 DEF Route
  <1>6. Born' = Born \cup {n}
    BY DEF Start, Born, GroundedParts
  <1> QED
    BY <1>5, <1>6 DEF D!Join, Start, Born, Route

LEMMA DirectoryLeave ==
    ASSUME GroundedParts, NEW n \in Node, Crash(n)
    PROVE  D!Leave(n)
  <1>1. table'[n] = EmptyTable /\ \A m \in Node \ {n} : table'[m] = table[m]
    BY DEF Crash, GroundedParts
  <1>2. Route'[n] = D!NoRoute
    BY <1>1, EmptyTableDomain DEF Route, D!NoRoute
  <1>3. \A m \in Node \ {n} : Route'[m] = Route[m]
    BY <1>1 DEF Route
  <1>4. Route' = [Route EXCEPT ![n] = D!NoRoute]
    BY <1>2, <1>3 DEF Route
  <1>5. Born' = Born
    BY DEF Crash, Born
  <1> QED
    BY <1>4, <1>5 DEF D!Leave, Crash, Born, Route

LEMMA DirectoryGain ==
    ASSUME GroundedParts, NEW n \in Node, NEW d \in net, Learn(n, d),
           Subnet[d.node.name] \notin DOMAIN table[n]
    PROVE  D!Gain(n, d.node.name)
  <1> DEFINE key == Subnet[d.node.name]
             gained == [k \in DOMAIN Route[n] \cup {key} |->
                          IF k = key THEN Source(d) ELSE Route[n][k]]
  <1>1. DOMAIN Route[n] = DOMAIN table[n] /\ \A k \in DOMAIN table[n] : Route[n][k] = table[n][k].top
    BY DEF Route
  <1>2. /\ DOMAIN table'[n] = DOMAIN table[n] \cup {key}
        /\ \A k \in DOMAIN table[n] : table'[n][k].top = table[n][k].top
        /\ table'[n][key].top = Source(d)
    BY LearnTops
  <1>3. Route'[n] = [k \in DOMAIN table'[n] |-> table'[n][k].top]
    BY DEF Route
  <1>4. Route'[n] = gained
    BY <1>1, <1>2, <1>3
  <1>5. \A m \in Node \ {n} : Route'[m] = Route[m]
    BY LearnTops DEF Route
  <1>6. Route' = [Route EXCEPT ![n] = gained]
    BY <1>4, <1>5 DEF Route
  <1>7. Source(d) \in {a \in Addr : Owner[a] = d.node.name}
    BY LearnTops
  <1>8. d.node.name \in Node /\ d.node.name \in Born \ {n} /\ Born' = Born /\ up[n] /\ up' = up
    BY LearnTops DEF Born
  <1> QED
    BY <1>1, <1>6, <1>7, <1>8 DEF D!Gain, Born, Route

LEMMA DirectoryStutter ==
    ASSUME UNCHANGED <<up, starts>>, Route' = Route
    PROVE  UNCHANGED D!dvars
  BY DEF D!dvars, Born, Route

LEMMA DirectoryStep ==
    ASSUME GroundedParts, [Next]_vars
    PROVE  [D!Next]_(D!dvars)
  <1>1. ASSUME NEW n \in Node, NEW addrs \in Homes[n], Start(n, addrs) PROVE D!Next
    BY <1>1, DirectoryJoin DEF D!Next
  <1>2. ASSUME NEW n \in Node, Crash(n) PROVE D!Next
    BY <1>2, DirectoryLeave DEF D!Next
  <1>3. ASSUME NEW n \in Node, NEW d \in net, Learn(n, d) PROVE D!Next \/ UNCHANGED D!dvars
    <2>1. CASE Subnet[d.node.name] \notin DOMAIN table[n]
      <3>1. D!Gain(n, d.node.name) /\ d.node.name \in Node
        BY <1>3, <2>1, DirectoryGain, LearnTops
      <3> QED
        BY <3>1 DEF D!Next
    <2>2. CASE Subnet[d.node.name] \in DOMAIN table[n]
      <3>0. /\ DOMAIN table'[n] = DOMAIN table[n] \cup {Subnet[d.node.name]}
            /\ \A k \in DOMAIN table[n] : table'[n][k].top = table[n][k].top
        BY <1>3, LearnTops
      <3>1. /\ DOMAIN table'[n] = DOMAIN table[n]
            /\ \A k \in DOMAIN table[n] : table'[n][k].top = table[n][k].top
        BY <2>2, <3>0
      <3>2. \A m \in Node \ {n} : table'[m] = table[m]
        BY <1>3, LearnTops
      <3>3. ASSUME NEW m \in Node PROVE Route'[m] = Route[m]
        BY <3>1, <3>2 DEF Route
      <3>4. Route' = Route
        BY <3>3 DEF Route
      <3> QED
        BY <1>3, <3>4, DirectoryStutter DEF Learn
    <2> QED
      BY <2>1, <2>2
  <1>4. CASE UNCHANGED <<up, home, table, starts>>
    <2>1. Route' = Route
      BY <1>4 DEF Route
    <2> QED
      BY <1>4, <2>1, DirectoryStutter
  <1> QED
    BY <1>1, <1>2, <1>3, <1>4
       DEF Next, Arrival, Receive, Lose, IgnoreOwn, Refresh, vars

\* The handlers, over a network that loses, repeats and reorders, implement
\* the directory: every step of the mesh is a step of the directory or none.
THEOREM MeshImplementsDirectory == Spec => KeepsDirectory
  <1>1. Init => D!Init
    BY DirectoryInit
  <1>2. GroundedParts /\ [Next]_vars => [D!Next]_(D!dvars)
    BY DirectoryStep
  <1>3. Spec => []GroundedParts
    BY GroundedInvariant, GroundedByPart, PTL
  <1> QED
    BY <1>1, <1>2, <1>3, PTL DEF Spec, KeepsDirectory, D!Spec
=============================================================================
