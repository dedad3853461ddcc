--------------------------- MODULE ConvergenceProofs ---------------------------
(***************************************************************************)
(* Proof that a mesh in which all nodes list one another converges, for    *)
(* every set of nodes, whatever the order they start, stop and start again *)
(* in and the order the network delivers in, with datagrams delivered once *)
(* or more often.                                                          *)
(*                                                                         *)
(* Of two nodes the one that starts later says hello to the other.  From   *)
(* then on, of each of the two: it has a route to the other, or a record   *)
(* of the other is on its way to it, or its own hello is on its way to the *)
(* other, which will answer.  Both come straight from the node they name:  *)
(* what a third node passed on may be lost when that node stops.           *)
(***************************************************************************)
EXTENDS MeshProofs

\* A record of m is on its way from m to n, and the hello of n to m.
Told(n, m) ==
    \E d \in net : d.src \in home[m] /\ d.to \in home[n] /\ d.node.name = m

Greeted(n, m) ==
    \E d \in net : d.src \in home[n] /\ d.to \in home[m] /\ d.node.name = n /\ d.node.jump = -1

\* An address leads to m whenever m runs: m has it, or will have it again.
Current(m, a) == IF m \in Mortal THEN \A addrs \in Homes[m] : a \in addrs ELSE up[m] /\ a \in home[m]

\* A record leads to where its node is, over a link of one family.
RecordCurrent(d) == Current(d.node.name, Source(d)) /\ Family[d.src] = Family[d.to]

\* What table t of node n holds of other nodes leads to where they are.
TableCurrent(t) == \A k \in DOMAIN t : \A a \in t[k].hosts \cap Addr : Current(Owner[a], a)

\* n has heard of m, or will.
Hears(n, m) == Routes(n, m) \/ Told(n, m) \/ Greeted(n, m)

Heard ==
    /\ \A n \in Node : up[n] => home[n] \in Homes[n]
    /\ \A d \in net : RecordCurrent(d)
    /\ \A n \in Node : TableCurrent(table[n])
    /\ \A n, m \in Node : up[n] /\ up[m] /\ n # m => Hears(n, m)

-----------------------------------------------------------------------------
\* Where a current address leads when its node runs.
LEMMA CurrentLeads ==
    ASSUME Heard, NEW m \in Node, up[m], NEW a, Current(m, a)
    PROVE  a \in home[m]
BY DEF Heard, Current

\* What a running node says of its own addresses is current, and stays so.
LEMMA HomeCurrent ==
    ASSUME FullConfig, NEW m \in Node, up[m], home[m] \in Homes[m], NEW a \in home[m]
    PROVE  Current(m, a)
<1>1. CASE m \in Mortal
  BY <1>1 DEF FullConfig, Current
<1>2. CASE m \notin Mortal
  BY <1>2 DEF Current
<1> QED
  BY <1>1, <1>2

LEMMA CurrentKept ==
    ASSUME NEW m \in Node, NEW a, Current(m, a),
           m \notin Mortal /\ up[m] => up'[m] /\ home'[m] = home[m]
    PROVE  Current(m, a)'
BY DEF Current

\* A node that knows any address of m routes the subnet of m there.
LEMMA KnownRoutes ==
    ASSUME FullConfig, GroundedParts, Heard, NEW n \in Node, up[n],
           NEW m \in Node \ {n}, up[m], Subnet[m] \in DOMAIN table[n]
    PROVE  Routes(n, m)
<1> DEFINE p == table[n][Subnet[m]]
<1>1. TableOK(n, table[n])
  BY DEF GroundedParts
<1>2. Subnet[m] # Subnet[n]
  BY DEF FullConfig
<1>3. /\ p \in PeerType /\ p.top \in p.hosts /\ p.top # Unreachable
      /\ Localhost \notin p.hosts
      /\ \A a \in p.hosts \cap Addr : Subnet[Owner[a]] = Subnet[m]
  BY <1>1, <1>2 DEF TableOK
<1>4. p.top \in p.hosts \cap Addr
  BY <1>3 DEF PeerType, Host
<1>5. Owner[p.top] \in Node
  BY <1>4, AddressAssumption
<1>6. Owner[p.top] = m
  BY <1>3, <1>4, <1>5 DEF FullConfig
<1>7. Current(m, p.top)
  BY <1>4, <1>6 DEF Heard, TableCurrent
<1>8. p.top \in home[m]
  BY <1>7, CurrentLeads
<1> QED
  BY <1>8 DEF Routes

LEMMA HeardInit == Init => Heard
<1> SUFFICES ASSUME Init
             PROVE  Heard
  OBVIOUS
<1>1. \A n \in Node : ~up[n] /\ DOMAIN table[n] = {}
  BY EmptyTableDomain DEF Init
<1>2. net = {}
  BY DEF Init
<1> QED
  BY <1>1, <1>2 DEF Heard, TableCurrent

-----------------------------------------------------------------------------
(***************************************************************************)
(* A node starts.                                                          *)
(***************************************************************************)

LEMMA StartHeard ==
    ASSUME FullConfig, GroundedParts, Heard, NEW n \in Node, NEW addrs \in Homes[n],
           Start(n, addrs)
    PROVE  Heard'
<1> DEFINE hellos == AddNodeWrite(addrs, {a \in Servers[n] : Owner[a] # n}, SelfInit(n))
<1>1. /\ up \in [Node -> BOOLEAN] /\ home \in [Node -> SUBSET Addr] /\ DOMAIN table = Node
      /\ ~up[n]
      /\ up' = [up EXCEPT ![n] = TRUE]
      /\ home' = [home EXCEPT ![n] = addrs]
      /\ table' = [table EXCEPT ![n] = Insert(EmptyTable, Subnet[n], n, Localhost)]
      /\ net' = net \cup hellos
  BY DEF GroundedParts, Start
<1> HIDE DEF hellos
<1>2. /\ up'[n] /\ home'[n] = addrs
      /\ table'[n] = Insert(EmptyTable, Subnet[n], n, Localhost)
      /\ \A m \in Node \ {n} : up'[m] = up[m] /\ home'[m] = home[m] /\ table'[m] = table[m]
  BY <1>1
<1>3. \A m \in Node : up[m] => up'[m] /\ home'[m] = home[m] /\ table'[m] = table[m] /\ m # n
  BY <1>1, <1>2
<1>4. ASSUME NEW e \in hellos
      PROVE  /\ e.node.name = n /\ e.node.jump = -1 /\ e.node.real = NoAddr
             /\ e.src \in addrs /\ Family[e.src] = Family[e.to]
  <2>1. e.src \in addrs /\ e.node = SelfInit(n)
    BY <1>4, AddNodeWriteDatagram DEF hellos
  <2>2. Family[e.src] = Family[e.to]
    BY <1>4 DEF hellos, AddNodeWrite
  <2> QED
    BY <2>1, <2>2 DEF SelfInit, SelfShare
<1>5. ASSUME NEW m \in Node, up'[m]
      PROVE  home'[m] \in Homes[m]
  BY <1>2, <1>5 DEF Heard
<1>6. ASSUME NEW d \in net'
      PROVE  RecordCurrent(d)'
  <2>1. CASE d \in net
    <3>1. RecordCurrent(d) /\ d.node.name \in Node
      BY <2>1 DEF Heard, GroundedParts, RecordOK, Datagram, NodeRecord
    <3>2. Current(d.node.name, Source(d))'
      BY <1>3, <3>1, CurrentKept DEF RecordCurrent, Source
    <3> QED
      BY <3>1, <3>2 DEF RecordCurrent
  <2>2. CASE d \in hellos
    <3>1. d.node.name = n /\ Source(d) \in home'[n] /\ Family[d.src] = Family[d.to]
      BY <1>2, <1>4, <2>2 DEF Source
    <3>2. Current(n, Source(d))'
      BY <1>2, <3>1 DEF Current, FullConfig
    <3> QED
      BY <3>1, <3>2 DEF RecordCurrent
  <2> QED
    BY <1>1, <1>6, <2>1, <2>2
<1>7. ASSUME NEW m \in Node
      PROVE  TableCurrent(table[m])'
  <2>1. CASE m = n
    <3>1. /\ DOMAIN table'[n] = {Subnet[n]}
          /\ table'[n][Subnet[n]].hosts = {Localhost}
      BY <1>2, FirstTable
    <3> QED
      BY <2>1, <3>1, HostsDistinct DEF TableCurrent
  <2>2. CASE m # n
    <3>1. table'[m] = table[m] /\ TableCurrent(table[m])
      BY <1>2, <2>2 DEF Heard
    <3>2. \A a \in Addr : Owner[a] \in Node
      BY AddressAssumption
    <3>3. ASSUME NEW o \in Node, NEW a, Current(o, a) PROVE Current(o, a)'
      BY <1>3, <3>3, CurrentKept
    <3> QED
      BY <3>1, <3>2, <3>3 DEF TableCurrent
  <2> QED
    BY <2>1, <2>2
<1>8. ASSUME NEW m \in Node, up[m], m # n
      PROVE  Told(m, n)' /\ Greeted(n, m)'
  <2>1. home[m] \in Homes[m] /\ home'[m] = home[m]
    BY <1>3, <1>8 DEF Heard
  <2>2. PICK a \in addrs, b \in Servers[n] \cap home[m] : Family[a] = Family[b]
    BY <1>8, <2>1 DEF FullConfig
  <2>3. Owner[b] = m
    BY <2>1, <2>2, ConfigAssumption
  <2> DEFINE e == [src |-> a, to |-> b, node |-> SelfInit(n)]
  <2>4. e \in [src : addrs, to : {c \in Servers[n] : Owner[c] # n}, node : {SelfInit(n)}]
    BY <1>8, <2>2, <2>3
  <2>5. e \in hellos
    BY <2>2, <2>4 DEF hellos, AddNodeWrite
  <2>6. e \in net' /\ e.src \in home'[n] /\ e.to \in home'[m]
    BY <1>1, <1>2, <2>1, <2>2, <2>5
  <2>7. e.node.name = n /\ e.node.jump = -1
    BY <1>4, <2>5
  <2> HIDE DEF e
  <2> QED
    BY <2>6, <2>7 DEF Told, Greeted
<1>9. ASSUME NEW k \in Node, NEW m \in Node, up'[k], up'[m], k # m
      PROVE  Hears(k, m)'
  <2>1. CASE k = n
    <3>1. up[m] /\ m # n
      BY <1>2, <1>9, <2>1
    <3> QED
      BY <1>8, <2>1, <3>1 DEF Hears
  <2>2. CASE m = n
    <3>1. up[k] /\ k # n
      BY <1>2, <1>9, <2>2
    <3> QED
      BY <1>8, <2>2, <3>1 DEF Hears
  <2>3. CASE k # n /\ m # n
    <3>1. up[k] /\ up[m] /\ Hears(k, m)
      BY <1>2, <1>9, <2>3 DEF Heard
    <3>2. net \subseteq net'
      BY <1>1
    <3> QED
      BY <1>3, <3>1, <3>2 DEF Hears, Routes, Told, Greeted
  <2> QED
    BY <2>1, <2>2, <2>3
<1> QED
  BY <1>5, <1>6, <1>7, <1>9 DEF Heard

-----------------------------------------------------------------------------
(***************************************************************************)
(* A datagram arrives.                                                     *)
(***************************************************************************)

\* What n sends of itself, and what it passes on of a record, is current.
LEMMA ReplyCurrent ==
    ASSUME FullConfig, Heard, NEW n \in Node, up[n], NEW d, NEW e \in Reply(n, d)
    PROVE  RecordCurrent(e)
<1>1. e \in AddNodeWrite(home[n], {d.src}, SelfShare(n))
  BY DEF Reply
<1>2. e.src \in home[n] /\ e.node = SelfShare(n)
  BY <1>1, AddNodeWriteDatagram
<1>3. Family[e.src] = Family[e.to]
  BY <1>1 DEF AddNodeWrite
<1>4. e.node.name = n /\ Source(e) \in home[n]
  BY <1>2 DEF Source, SelfShare
<1>5. Current(n, Source(e))
  BY <1>4, HomeCurrent DEF Heard
<1> QED
  BY <1>3, <1>4, <1>5 DEF RecordCurrent

LEMMA ForwardedCurrent ==
    ASSUME NEW d \in Datagram, RecordCurrent(d), NEW from, NEW targets,
           NEW e \in AddNodeWrite(from, targets, Forwarded(d))
    PROVE  RecordCurrent(e)
<1>1. e.node = Forwarded(d)
  BY AddNodeWriteDatagram
<1>2. Family[e.src] = Family[e.to]
  BY DEF AddNodeWrite
<1>3. e.node.name = d.node.name /\ e.node.real = Source(d)
  BY <1>1 DEF Forwarded
<1>4. Source(d) # NoAddr
  BY SourceAddr, AddressAssumption
<1>5. Source(e) = Source(d)
  BY <1>3, <1>4 DEF Source
<1> QED
  BY <1>2, <1>3, <1>5 DEF RecordCurrent

LEMMA InsertedHosts ==
    ASSUME NEW t, NEW key, NEW name, NEW host,
           NEW k \in DOMAIN Insert(t, key, name, host), NEW a \in Insert(t, key, name, host)[k].hosts
    PROVE  a = host \/ (k \in DOMAIN t /\ a \in t[k].hosts)
<1>1. CASE k # key
  BY <1>1 DEF Insert
<1>2. CASE k = key
  <2>1. Insert(t, key, name, host)[k]
           = AddHost(IF key \in DOMAIN t THEN t[key] ELSE NewPeer(name), host)
    BY <1>2 DEF Insert
  <2>2. Insert(t, key, name, host)[k].hosts
           = (IF key \in DOMAIN t THEN t[key] ELSE NewPeer(name)).hosts \cup {host}
    BY <2>1 DEF AddHost
  <2> QED
    BY <1>2, <2>2 DEF NewPeer
<1> QED
  BY <1>1, <1>2

LEMMA LearnCurrent ==
    ASSUME GroundedParts, Heard, NEW n \in Node, NEW d \in net, Learn(n, d)
    PROVE  \A m \in Node : TableCurrent(table[m])'
<1>1. RecordOK(d, starts) /\ RecordCurrent(d)
  BY DEF GroundedParts, Heard
<1>2. /\ DOMAIN table = Node /\ up' = up /\ home' = home
      /\ table' = [table EXCEPT ![n] = Insert(table[n], d.node.subnet, d.node.name, Source(d))]
  BY DEF Learn, GroundedParts
<1>3. ASSUME NEW m \in Node, NEW k \in DOMAIN table'[m], NEW a \in table'[m][k].hosts \cap Addr
      PROVE  Current(Owner[a], a)
  <2>1. a = Source(d) \/ (k \in DOMAIN table[m] /\ a \in table[m][k].hosts)
    <3>1. CASE m = n
      <4>1. /\ table'[n] = Insert(table[n], d.node.subnet, d.node.name, Source(d))
            /\ k \in DOMAIN table'[n] /\ a \in table'[n][k].hosts
        BY <1>2, <1>3, <3>1
      <4> QED
        BY <3>1, <4>1, InsertedHosts
    <3>2. CASE m # n
      BY <1>2, <1>3, <3>2
    <3> QED
      BY <3>1, <3>2
  <2>2. CASE a = Source(d)
    BY <1>1, <2>2 DEF RecordOK, RecordCurrent
  <2>3. CASE k \in DOMAIN table[m] /\ a \in table[m][k].hosts
    BY <2>3 DEF Heard, TableCurrent
  <2> QED
    BY <2>1, <2>2, <2>3
<1>4. ASSUME NEW m, NEW a, Current(m, a) PROVE Current(m, a)'
  BY <1>2, <1>4 DEF Current
<1> QED
  BY <1>3, <1>4 DEF TableCurrent

\* Whoever takes a record of m off the network as node n comes to route to m.
LEMMA ToldComesToRoute ==
    ASSUME FullConfig, GroundedParts, Heard, NEW n \in Node, NEW d \in net, Receive(n, d),
           NEW m \in Node \ {n}, up[m], d.node.name = m
    PROVE  Routes(n, m)'
<1>1. up[n] /\ up' = up /\ home' = home /\ d.node.subnet = Subnet[m]
  BY DEF Receive, IgnoreOwn, Refresh, Learn, Reaches, GroundedParts, RecordOK
<1>2. CASE Refresh(n, d)
  <2>1. Subnet[m] \in DOMAIN table[n] /\ table' = table
    BY <1>1, <1>2 DEF Refresh, Known
  <2>2. Routes(n, m)
    BY <1>1, <2>1, KnownRoutes
  <2> QED
    BY <1>1, <2>1, <2>2 DEF Routes
<1>3. CASE Learn(n, d) /\ Subnet[m] \in DOMAIN table[n]
  <2>1. Routes(n, m)
    BY <1>1, <1>3, KnownRoutes
  <2>2. Subnet[m] \in DOMAIN table'[n] /\ table'[n][Subnet[m]].top = table[n][Subnet[m]].top
    BY <1>3, LearnTops
  <2> QED
    BY <1>1, <2>1, <2>2 DEF Routes
<1>4. CASE Learn(n, d) /\ Subnet[m] \notin DOMAIN table[n]
  <2>1. Subnet[m] \in DOMAIN table'[n] /\ table'[n][Subnet[m]].top = Source(d)
    BY <1>4, LearnTops
  <2>2. Source(d) \in home[m]
    BY CurrentLeads DEF Heard, RecordCurrent
  <2> QED
    BY <1>1, <2>1, <2>2 DEF Routes
<1>5. ~IgnoreOwn(n, d)
  BY DEF IgnoreOwn
<1> QED
  BY <1>2, <1>3, <1>4, <1>5 DEF Receive

\* Whoever takes the hello of k off the network as node m answers it.
LEMMA GreetedComesToTold ==
    ASSUME GroundedParts, Heard, NEW m \in Node, NEW d \in net, Receive(m, d),
           NEW k \in Node \ {m}, d.src \in home[k], d.node.name = k, d.node.jump = -1
    PROVE  Told(k, m)'
<1> DEFINE e == [src |-> d.to, to |-> d.src, node |-> SelfShare(m)]
<1>1. d.to \in home[m] /\ home' = home
  BY DEF Receive, IgnoreOwn, Refresh, Learn, Reaches
<1>3. Family[d.src] = Family[d.to]
  BY DEF Heard, RecordCurrent
<1>4. e \in AddNodeWrite(home[m], {d.src}, SelfShare(m))
  BY <1>1, <1>3 DEF AddNodeWrite
<1>5. e \in Reply(m, d)
  BY <1>4 DEF Reply
<1>6. Reply(m, d) \subseteq net'
  BY DEF Receive, IgnoreOwn, Refresh, Learn
<1>7. e.src \in home'[m] /\ e.to \in home'[k] /\ e.node.name = m
  BY <1>1, <1>3 DEF SelfShare
<1> HIDE DEF e
<1> QED
  BY <1>5, <1>6, <1>7 DEF Told

\* Only the node a datagram is sent to takes it off the network.
LEMMA TakenByAddressee ==
    ASSUME GroundedParts, NEW n \in Node, NEW d \in net, Reaches(d, n),
           NEW k \in Node, d.to \in home[k]
    PROVE  n = k
BY DEF GroundedParts, Reaches

LEMMA ReceiveHeard ==
    ASSUME FullConfig, GroundedParts, Heard, NEW n \in Node, NEW d \in net, Receive(n, d)
    PROVE  Heard'
<1>1. /\ up[n] /\ Reaches(d, n) /\ UNCHANGED <<up, home>>
      /\ d \in Datagram /\ RecordCurrent(d)
  BY DEF Receive, IgnoreOwn, Refresh, Learn, Reaches, GroundedParts, RecordOK, Heard
<1>2. table' = table \/ Learn(n, d)
  BY DEF Receive, IgnoreOwn, Refresh
<1>3. ASSUME NEW m \in Node, up'[m]
      PROVE  home'[m] \in Homes[m]
  BY <1>1, <1>3 DEF Heard
<1>4. ASSUME NEW e \in net'
      PROVE  RecordCurrent(e)'
  <2>1. \/ e \in net \/ e \in Reply(n, d)
        \/ e \in AddNodeWrite(home[n], AllNode(table'[n]), Forwarded(d))
    BY <1>4, RestSubset DEF Receive, IgnoreOwn, Refresh, Learn
  <2>2. RecordCurrent(e)
    BY <1>1, <2>1, ReplyCurrent, ForwardedCurrent DEF Heard
  <2> QED
    BY <1>1, <2>2 DEF RecordCurrent, Current, Source
<1>5. ASSUME NEW m \in Node
      PROVE  TableCurrent(table[m])'
  BY <1>1, <1>2, LearnCurrent DEF Heard, TableCurrent, Current
<1>6. ASSUME NEW e \in net, e # d
      PROVE  e \in net'
  BY <1>6 DEF Receive, IgnoreOwn, Refresh, Learn, Rest
<1>7. ASSUME NEW k \in Node, NEW m \in Node, up[k], up[m], k # m
      PROVE  Hears(k, m)'
  <2>1. CASE Routes(k, m)
    <3>1. /\ Subnet[m] \in DOMAIN table'[k]
          /\ table'[k][Subnet[m]].top = table[k][Subnet[m]].top
      <4>1. CASE table' = table
        BY <2>1, <4>1 DEF Routes
      <4>2. CASE Learn(n, d) /\ k = n
        BY <2>1, <4>2, LearnTops DEF Routes
      <4>3. CASE Learn(n, d) /\ k # n
        <5>1. table'[k] = table[k]
          BY <4>3, LearnTops
        <5> QED
          BY <2>1, <5>1 DEF Routes
      <4> QED
        BY <1>2, <4>1, <4>2, <4>3
    <3> QED
      BY <1>1, <2>1, <3>1 DEF Hears, Routes
  <2>2. CASE Told(k, m)
    <3>1. PICK e \in net : e.src \in home[m] /\ e.to \in home[k] /\ e.node.name = m
      BY <2>2 DEF Told
    <3>2. CASE e \in net'
      BY <1>1, <3>1, <3>2 DEF Hears, Told
    <3>3. CASE e \notin net'
      <4>1. e = d
        BY <1>6, <3>3
      <4>2. n = k
        BY <1>1, <3>1, <4>1, TakenByAddressee
      <4> QED
        BY <1>7, <3>1, <4>1, <4>2, ToldComesToRoute DEF Hears
    <3> QED
      BY <3>2, <3>3
  <2>3. CASE Greeted(k, m)
    <3>1. PICK e \in net : /\ e.src \in home[k] /\ e.to \in home[m]
                           /\ e.node.name = k /\ e.node.jump = -1
      BY <2>3 DEF Greeted
    <3>2. CASE e \in net'
      BY <1>1, <3>1, <3>2 DEF Hears, Greeted
    <3>3. CASE e \notin net'
      <4>1. e = d
        BY <1>6, <3>3
      <4>2. n = m
        BY <1>1, <3>1, <4>1, TakenByAddressee
      <4> QED
        BY <1>7, <3>1, <4>1, <4>2, GreetedComesToTold DEF Hears
    <3> QED
      BY <3>2, <3>3
  <2> QED
    BY <1>7, <2>1, <2>2, <2>3 DEF Heard, Hears
<1>8. ASSUME NEW k \in Node, NEW m \in Node, up'[k], up'[m], k # m
      PROVE  Hears(k, m)'
  BY <1>1, <1>7, <1>8
<1> QED
  BY <1>3, <1>4, <1>5, <1>8 DEF Heard

\* Only what nobody can receive gets lost.
LEMMA LoseHeard ==
    ASSUME FullConfig, GroundedParts, Heard, NEW d \in net, Lose(d)
    PROVE  Heard'
<1>1. /\ UNCHANGED <<up, home, table>> /\ net' = net \ {d}
      /\ \A n \in Node : ~(up[n] /\ d.to \in home[n])
  BY DEF Lose, FullConfig, Reaches
<1>2. ASSUME NEW k \in Node, NEW m \in Node, up[k], up[m], k # m
      PROVE  Hears(k, m)'
  <2>1. Hears(k, m)
    BY <1>2 DEF Heard
  <2>2. CASE Routes(k, m)
    BY <1>1, <2>2 DEF Hears, Routes
  <2>3. CASE Told(k, m)
    BY <1>1, <1>2, <2>3 DEF Hears, Told
  <2>4. CASE Greeted(k, m)
    BY <1>1, <1>2, <2>4 DEF Hears, Greeted
  <2> QED
    BY <2>1, <2>2, <2>3, <2>4 DEF Hears
<1>3. \A e \in net' : RecordCurrent(e)'
  BY <1>1 DEF Heard, RecordCurrent, Current, Source
<1>4. \A n \in Node : TableCurrent(table[n])'
  BY <1>1 DEF Heard, TableCurrent, Current
<1>5. \A n \in Node : up'[n] => home'[n] \in Homes[n]
  BY <1>1 DEF Heard
<1>6. \A k, m \in Node : up'[k] /\ up'[m] /\ k # m => Hears(k, m)'
  BY <1>1, <1>2
<1> QED
  BY <1>3, <1>4, <1>5, <1>6 DEF Heard

-----------------------------------------------------------------------------
(***************************************************************************)
(* A node stops.                                                           *)
(***************************************************************************)

\* What is lost with a node was sent by it, and the node leaves no record behind
\* that is not true again when it comes back.
LEMMA CrashHeard ==
    ASSUME FullConfig, GroundedParts, Heard, NEW n \in Node, Crash(n)
    PROVE  Heard'
<1>1. /\ n \in Mortal /\ up[n] /\ net' \subseteq net
      /\ \A d \in net : d.src \notin home[n] => d \in net'
      /\ up' = [up EXCEPT ![n] = FALSE]
      /\ table' = [table EXCEPT ![n] = EmptyTable]
      /\ home' = [home EXCEPT ![n] = {}]
  BY DEF Crash
<1>2. /\ ~up'[n] /\ table'[n] = EmptyTable
      /\ \A m \in Node \ {n} : up'[m] = up[m] /\ home'[m] = home[m] /\ table'[m] = table[m]
  BY <1>1 DEF GroundedParts
<1>3. ASSUME NEW m \in Node, NEW a, Current(m, a)
      PROVE  Current(m, a)'
  BY <1>1, <1>2, <1>3, CurrentKept
<1>4. ASSUME NEW m \in Node, up'[m]
      PROVE  home'[m] \in Homes[m]
  BY <1>2, <1>4 DEF Heard
<1>5. ASSUME NEW d \in net'
      PROVE  RecordCurrent(d)'
  <2>1. RecordCurrent(d) /\ d.node.name \in Node
    BY <1>1 DEF Heard, GroundedParts, RecordOK, Datagram, NodeRecord
  <2>2. Current(d.node.name, Source(d))'
    BY <1>3, <2>1 DEF RecordCurrent, Source
  <2> QED
    BY <2>1, <2>2 DEF RecordCurrent
<1>6. ASSUME NEW m \in Node
      PROVE  TableCurrent(table[m])'
  <2>1. CASE m = n
    BY <1>2, <2>1, EmptyTableDomain DEF TableCurrent
  <2>2. CASE m # n
    <3>1. table'[m] = table[m] /\ TableCurrent(table[m])
      BY <1>2, <2>2 DEF Heard
    <3>2. \A a \in Addr : Owner[a] \in Node
      BY AddressAssumption
    <3> QED
      BY <1>3, <3>1, <3>2 DEF TableCurrent
  <2> QED
    BY <2>1, <2>2
<1>7. ASSUME NEW k \in Node, NEW m \in Node, up'[k], up'[m], k # m
      PROVE  Hears(k, m)'
  <2>1. k # n /\ m # n /\ up[k] /\ up[m]
    BY <1>2, <1>7
  <2>2. Hears(k, m)
    BY <1>7, <2>1 DEF Heard
  <2>3. \A a \in home[k] \cup home[m] : a \notin home[n]
    BY <2>1 DEF GroundedParts
  <2>4. CASE Routes(k, m)
    BY <1>2, <2>1, <2>4 DEF Hears, Routes
  <2>5. CASE Told(k, m)
    <3>1. PICK d \in net : d.src \in home[m] /\ d.to \in home[k] /\ d.node.name = m
      BY <2>5 DEF Told
    <3> QED
      BY <1>1, <1>2, <2>1, <2>3, <3>1 DEF Hears, Told
  <2>6. CASE Greeted(k, m)
    <3>1. PICK d \in net : /\ d.src \in home[k] /\ d.to \in home[m]
                           /\ d.node.name = k /\ d.node.jump = -1
      BY <2>6 DEF Greeted
    <3> QED
      BY <1>1, <1>2, <2>1, <2>3, <3>1 DEF Hears, Greeted
  <2> QED
    BY <2>2, <2>4, <2>5, <2>6 DEF Hears
<1> QED
  BY <1>4, <1>5, <1>6, <1>7 DEF Heard

-----------------------------------------------------------------------------
LEMMA HeardStep ==
    ASSUME FullConfig, GroundedParts, Heard, [Next]_vars
    PROVE  Heard'
<1>1. CASE UNCHANGED vars
  BY <1>1 DEF vars, Heard, RecordCurrent, TableCurrent, Current, Source, Hears, Routes,
              Told, Greeted
<1> QED
  BY <1>1, CrashHeard, StartHeard, ReceiveHeard, LoseHeard DEF Next, Arrival

LEMMA HeardInvariant == ASSUME FullConfig PROVE Spec => []Heard
<1>1. GroundedParts /\ Heard /\ [Next]_vars => Heard'
  BY HeardStep
<1>2. Spec => []GroundedParts
  BY GroundedInvariant, GroundedByPart, PTL
<1> QED
  BY <1>1, <1>2, HeardInit, PTL DEF Spec

\* Where all nodes list one another, every two nodes that run route to one another
\* as soon as the flood of announcements is over: whoever started first, whoever
\* stopped and came back meanwhile, in whatever order the datagrams arrived and
\* however often.
THEOREM FullMeshConverges == ASSUME FullConfig PROVE Spec => []Converged
<1>1. Heard => Converged
  BY DEF Heard, Hears, Told, Greeted, Converged
<1> QED
  BY <1>1, HeardInvariant, PTL
=============================================================================
