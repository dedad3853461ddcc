--------------------------------- MODULE Mesh ---------------------------------
(***************************************************************************)
(* The control plane: how nodes learn one another's subnets.               *)
(*                                                                         *)
(* A node that starts enters its own subnet in its table and says hello    *)
(* (AddNode with jump -1) to the servers its configuration names           *)
(* (Network::new).  Whoever gets a hello answers with its own node record, *)
(* and whoever gets an AddNode with a host it did not know enters it and   *)
(* announces it to all the nodes in its table (Router::router_message).    *)
(* A node's tasks and channels are one step here: a datagram is taken from *)
(* the network, handled by the router, and what the router sends is put on *)
(* the network.  Node state is lost when the process stops.                *)
(***************************************************************************)
EXTENDS RouteTable, Integers, FiniteSets

CONSTANTS
    Node,         \* the nodes; a node is its configured name
    NoAddr,       \* an empty real_ip
    Subnet,       \* Subnet[n]: the key of the configured subnet of n
    Servers,      \* Servers[n]: the addresses of the configured servers of n
    Homes,        \* Homes[n]: the sets of addresses n may come up with
    Owner,        \* Owner[a]: the node that address a leads to
    Family,       \* Family[a]: the address family of a
    Mortal,       \* bound: the nodes that may stop while the mesh runs
    MaxStarts,    \* bound: how often a node may be started
    Lossy,        \* may the network lose a datagram on its way
    Duplicates    \* may the network deliver a datagram twice

ASSUME AddressAssumption ==
    /\ NoAddr \notin Addr
    /\ Owner \in [Addr -> Node]
    /\ Family \in [Addr -> {4, 6}]

ASSUME ConfigAssumption ==
    /\ IsFiniteSet(Node)
    /\ Subnet \in [Node -> Seq(Nat)]
    /\ Servers \in [Node -> SUBSET Addr]
    /\ Homes \in [Node -> SUBSET SUBSET Addr]
    /\ \A n \in Node : \A addrs \in Homes[n] : \A a \in addrs : Owner[a] = n

ASSUME BoundAssumption ==
    /\ Mortal \subseteq Node
    /\ MaxStarts \in Nat
    /\ Lossy \in BOOLEAN /\ Duplicates \in BOOLEAN

VARIABLES
    up,       \* up[n]: is the process of n running
    home,     \* home[n]: the addresses n has while it runs
    table,    \* table[n]: the routing table of n
    net,      \* the AddNode datagrams on their way
    starts    \* starts[n]: how often n was started

vars == <<up, home, table, net, starts>>

-----------------------------------------------------------------------------
(***************************************************************************)
(* Messages.                                                               *)
(***************************************************************************)

\* The protobuf Node record.
NodeRecord ==
    [name : Node, subnet : Seq(Nat), jump : Int, real : Addr \cup {NoAddr}]

Datagram == [src : Addr, to : Addr, node : NodeRecord]

SelfShare(n) == [name |-> n, subnet |-> Subnet[n], jump |-> 0, real |-> NoAddr]

SelfInit(n) == [SelfShare(n) EXCEPT !.jump = -1]

\* AddNodeWrite to each target: the socket of the target's family sends it,
\* and the receiver sees that family's address of the sender.
AddNodeWrite(from, targets, node) ==
    {d \in [src : from, to : targets, node : {node}] : Family[d.src] = Family[d.to]}

\* Mutant: the forwarded address is ignored.
SourceIgnoresReal(d) == d.src

\* Mutant: only the forwarded address is looked at.
SourceOnlyReal(d) == d.node.real

\* The host an AddNode record speaks of: the forwarded address if there is
\* one, else where the datagram came from.
Source(d) == IF d.node.real = NoAddr THEN d.src ELSE d.node.real

\* Mutant: a hello is not answered.
ReplyNever(n, d) == {}

\* Mutant: every announcement that came directly is answered.
ReplyAlways(n, d) ==
    IF d.node.jump <= 0 THEN AddNodeWrite(home[n], {d.src}, SelfShare(n)) ELSE {}

\* The answer to a hello.
Reply(n, d) ==
    IF d.node.jump = -1 THEN AddNodeWrite(home[n], {d.src}, SelfShare(n)) ELSE {}

\* Mutant: the -1 of a hello is not cleared first.
ForwardedHello(d) == [d.node EXCEPT !.jump = @ + 1, !.real = Source(d)]

\* The record a node passes on.
Forwarded(d) ==
    [name   |-> d.node.name,
     subnet |-> d.node.subnet,
     jump   |-> (IF d.node.jump = -1 THEN 0 ELSE d.node.jump) + 1,
     real   |-> Source(d)]

\* The network after d was delivered.
Rest(d) == {net \ {d}} \cup (IF Duplicates THEN {net} ELSE {})

Reaches(d, n) == up[n] /\ d.to \in home[n]

-----------------------------------------------------------------------------
(***************************************************************************)
(* Actions.                                                                *)
(***************************************************************************)
Init ==
    /\ up = [n \in Node |-> FALSE]
    /\ home = [n \in Node |-> {}]
    /\ table = [n \in Node |-> EmptyTable]
    /\ net = {}
    /\ starts = [n \in Node |-> 0]

\* Network::new: the own subnet, then a hello to every other server.
Start(n, addrs) ==
    /\ ~up[n]
    /\ starts[n] < MaxStarts
    /\ up' = [up EXCEPT ![n] = TRUE]
    /\ home' = [home EXCEPT ![n] = addrs]
    /\ table' = [table EXCEPT ![n] = Insert(EmptyTable, Subnet[n], n, Localhost)]
    /\ net' = net \cup AddNodeWrite(addrs,
                                    {a \in Servers[n] : Owner[a] # n},
                                    SelfInit(n))
    /\ starts' = [starts EXCEPT ![n] = @ + 1]

\* The process stops.  What it had not handed to the kernel yet is lost.
Crash(n) ==
    /\ n \in Mortal
    /\ up[n]
    /\ \E unsent \in SUBSET {d \in net : d.src \in home[n]} : net' = net \ unsent
    /\ up' = [up EXCEPT ![n] = FALSE]
    /\ home' = [home EXCEPT ![n] = {}]
    /\ table' = [table EXCEPT ![n] = EmptyTable]
    /\ UNCHANGED starts

\* An announcement of the node itself is dropped.
IgnoreOwn(n, d) ==
    /\ Reaches(d, n)
    /\ d.node.name = n
    /\ net' \in Rest(d)
    /\ UNCHANGED <<up, home, table, starts>>

\* Mutant: what is known is announced all the same.
RefreshForwards(n, d) ==
    /\ Reaches(d, n)
    /\ d.node.name # n
    /\ Known(table[n], d.node.subnet, Source(d))
    /\ \E rest \in Rest(d) :
          net' = rest \cup Reply(n, d)
                      \cup AddNodeWrite(home[n], AllNode(table[n]), Forwarded(d))
    /\ UNCHANGED <<up, home, table, starts>>

\* The host is known: insert_to_table fails, a hello is still answered.
Refresh(n, d) ==
    /\ Reaches(d, n)
    /\ d.node.name # n
    /\ Known(table[n], d.node.subnet, Source(d))
    /\ \E rest \in Rest(d) : net' = rest \cup Reply(n, d)
    /\ UNCHANGED <<up, home, table, starts>>

\* The host is new: it is entered and announced to every node in the table
\* as it is after the insertion.
Learn(n, d) ==
    /\ Reaches(d, n)
    /\ d.node.name # n
    /\ ~Known(table[n], d.node.subnet, Source(d))
    /\ table' = [table EXCEPT ![n] = Insert(@, d.node.subnet, d.node.name, Source(d))]
    /\ \E rest \in Rest(d) :
          net' = rest \cup Reply(n, d)
                      \cup AddNodeWrite(home[n], AllNode(table'[n]), Forwarded(d))
    /\ UNCHANGED <<up, home, starts>>

\* A datagram is lost on its way, or finds nobody at its destination.
Lose(d) ==
    /\ Lossy \/ ~\E n \in Node : Reaches(d, n)
    /\ net' = net \ {d}
    /\ UNCHANGED <<up, home, table, starts>>

Receive(n, d) == IgnoreOwn(n, d) \/ Refresh(n, d) \/ Learn(n, d)

Arrival == \E d \in net : Lose(d) \/ \E n \in Node : Receive(n, d)

Next ==
    \/ \E n \in Node : \E addrs \in Homes[n] : Start(n, addrs)
    \/ \E n \in Node : Crash(n)
    \/ Arrival

Spec == Init /\ [][Next]_vars

\* A datagram does not stay on its way for ever, and the tasks of a running
\* node are polled while they have something to read.
FairSpec == Spec /\ WF_vars(Arrival)

-----------------------------------------------------------------------------
(***************************************************************************)
(* Properties.                                                             *)
(***************************************************************************)

PeerType == [name : Node, hosts : SUBSET Host, top : Host]

\* Every variable has its type; a table maps keys to peers.
TypeOK ==
    /\ up \in [Node -> BOOLEAN]
    /\ home \in [Node -> SUBSET Addr]
    /\ \A n \in Node : /\ DOMAIN table[n] \subseteq Seq(Nat)
                       /\ \A k \in DOMAIN table[n] : table[n][k] \in PeerType
    /\ DOMAIN table = Node
    /\ net \subseteq Datagram
    /\ starts \in [Node -> Nat]

\* A socket address entered under a subnet leads to a node that owns this
\* subnet, and never to the node that holds the table, whatever the order in
\* which hellos, answers and forwarded announcements arrive.
RouteAccuracy ==
    \A n \in Node : \A k \in DOMAIN table[n] : \A a \in table[n][k].hosts \cap Addr :
        Subnet[Owner[a]] = k /\ Owner[a] # n

\* A running node delivers its own subnet to its own interface, whoever else
\* announces the same subnet, and no other subnet.
OwnRoute ==
    \A n \in Node : up[n] =>
        /\ Subnet[n] \in DOMAIN table[n]
        /\ \A k \in DOMAIN table[n] : table[n][k].top = Localhost <=> k = Subnet[n]

\* transport.proto:23 - a record is forwarded (jump > 0) exactly when it
\* carries the address to use, and that is an address of the node it names.
ForwardedCarriesAddress ==
    \A d \in net :
        /\ d.node.jump > 0 <=> d.node.real # NoAddr
        /\ Owner[Source(d)] = d.node.name

\* The processes there were: n when it ran for the i-th time.
Processes == {p \in Node \X (1 .. MaxStarts) : p[2] <= starts[p[1]]}

\* The jump counter never exceeds the number of processes of other nodes that
\* there were: every process passes an address on at most once.
JumpBound ==
    \A d \in net : d.node.jump <= Cardinality({p \in Processes : p[1] # d.node.name})

\* While a node runs it forgets no route and never changes the host a route
\* leads to.
StickyRoute ==
    [][\A n \in Node : up[n] /\ up'[n] =>
          \A k \in DOMAIN table[n] :
             k \in DOMAIN table'[n] /\ table'[n][k].top = table[n][k].top]_vars

\* The addresses that running nodes do not know yet, and the hellos on their way.
Unknown ==
    {p \in Node \X Addr :
        up[p[1]] /\ \A k \in DOMAIN table[p[1]] : p[2] \notin table[p[1]][k].hosts}

Hellos == {d \in net : d.node.jump = -1}

\* Why the flood ends: while nobody starts or stops and no datagram is repeated,
\* every step brings a node an address it did not know, or takes a hello off the
\* network and adds none, or takes a datagram off and adds none.
FloodFades ==
    [][UNCHANGED up /\ ~Duplicates =>
          /\ Unknown' \subseteq Unknown
          /\ Unknown' = Unknown => Hellos' \subseteq Hellos
          /\ Unknown' = Unknown /\ Hellos' = Hellos => net' \subseteq net /\ net' # net]_vars

\* The flood of announcements ends.
Quiesce == <>[](net = {})

\* n routes the subnet of m to an address m has now.
Routes(n, m) ==
    Subnet[m] \in DOMAIN table[n] /\ table[n][Subnet[m]].top \in home[m]

\* Every two nodes that stay up come to have a route to one another.
FullMesh ==
    <>[](\A n, m \in Node : up[n] /\ up[m] /\ n # m => Routes(n, m))

\* When the flood is over, every two running nodes route to one another.
Converged ==
    net = {} => \A n, m \in Node : up[n] /\ up[m] /\ n # m => Routes(n, m)

\* The configuration that config.jsonnet makes, over a network that loses nothing
\* on its way: every node lists an address of every other one in a family both
\* have, and no two nodes have one subnet.  A node that stops comes back with the
\* addresses it had.
FullConfig ==
    /\ \A n \in Node : \A m \in Node \ {n} : \A own \in Homes[n], other \in Homes[m] :
          \E a \in own, b \in Servers[n] \cap other : Family[a] = Family[b]
    /\ \A n, m \in Node : Subnet[n] = Subnet[m] => n = m
    /\ \A n \in Mortal : \A before, after \in Homes[n] : before = after
    /\ ~Lossy

\* A node whose servers run when it starts comes to have a route to every
\* other node that runs, and they to it.
ServedFullMesh ==
    [](\A n \in Node : up[n] => \A a \in Servers[n] : up[Owner[a]]) => FullMesh

-----------------------------------------------------------------------------
(***************************************************************************)
(* The inductive invariant behind RouteAccuracy, OwnRoute and              *)
(* ForwardedCarriesAddress.                                                *)
(***************************************************************************)

\* What a process has, it has while it runs, and its addresses are its own.
ProcessesGrounded ==
    \A n \in Node :
        /\ \A a \in home[n] : Owner[a] = n
        /\ up[n] => starts[n] > 0
        /\ ~up[n] => home[n] = {} /\ DOMAIN table[n] = {}

\* The top of a peer is one of its hosts, and Localhost if that is one; only
\* the peer of the own subnet has it.
TopsGrounded ==
    \A n \in Node : \A k \in DOMAIN table[n] :
        /\ table[n][k].top \in table[n][k].hosts \ {Unreachable}
        /\ Localhost \in table[n][k].hosts <=> k = Subnet[n]
        /\ Localhost \in table[n][k].hosts => table[n][k].top = Localhost

\* A record on its way is of a node that was started, with its subnet.
RecordsGrounded ==
    \A d \in net :
        /\ d.node.jump >= -1
        /\ d.node.subnet = Subnet[d.node.name]
        /\ starts[d.node.name] > 0

\* Every route, and every record that may become one, leads back to what some
\* process was configured with.
Grounded ==
    /\ TypeOK
    /\ ProcessesGrounded
    /\ TopsGrounded
    /\ RecordsGrounded
    /\ RouteAccuracy
    /\ OwnRoute
    /\ ForwardedCarriesAddress

\* The processes that may have passed host on: all that stopped, and those that
\* run and know it.
Passed(name, key, host) ==
    {p \in Processes :
        /\ p[1] # name
        /\ up[p[1]] /\ p[2] = starts[p[1]] => Known(table[p[1]], key, host)}

\* The inductive invariant behind JumpBound: every jump was paid for by a process
\* that will not pass the host on again.
JumpsPaid ==
    /\ \A n \in Node : starts[n] <= MaxStarts
    /\ \A d \in net :
          d.node.jump <= Cardinality(Passed(d.node.name, d.node.subnet, Source(d)))

-----------------------------------------------------------------------------
\* Without its messages the mesh is the directory: the route to a subnet is
\* the top of its peer.
D == INSTANCE Directory WITH
        born <- {n \in Node : starts[n] > 0},
        route <- [n \in Node |-> [k \in DOMAIN table[n] |-> table[n][k].top]],
        Owned <- [n \in Node |-> {a \in Addr : Owner[a] = n}]

\* The handlers keep the promise of the directory: one step of a node gains at
\* most one route, to a node that was started, and never changes one.
KeepsDirectory == D!Spec
=============================================================================
