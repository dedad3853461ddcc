# Verification of placeholder

placeholder is a mesh VPN: every node has a tun interface, a UDP socket per IP
family and a routing table; nodes tell each other which subnet each of them
owns, and IP packets are carried between them in UDP datagrams. This directory
holds TLA+ models of its control plane, its data plane, its routing table, its
datagrams and buffers, and the tasks inside one node from setup on, the TLC runs
that check them, and TLAPS proofs of every safety property the runs check, for
every value of the constants. Paths below are relative to `src/src/`.

Nothing in the models is taken from a document: each definition follows the
lines `PROJECT.json` gives for it under `map`.

## The system

| component | state | operations | talks to |
|---|---|---|---|
| Peer (`router/peer.rs`) | name, binary heap of ranked hosts | `new`, `add_host`, `get_host` | used by Table |
| Table (`router/table.rs`) | radix trie from bit strings to peers | `insert`, `delete`, `find`, `get_all_peer` | used by Router |
| Router (`router/mod.rs`) | a table per family | `router_message`, one arm per message | Network, by two channels |
| Network (`network/mod.rs`) | six channel ends | `new` (own subnet, hellos), `poll` (three loops) | Router, Socket, Device |
| Socket (`network/socket.rs`) | two UDP sockets, list of datagrams to send | `poll` (four loops) | Network, kernel |
| Device (`interface/mod.rs`) | tun device, list of packets to write | `poll` (three loops) | Network, kernel |
| Message, Package (`internal/`, `generated/`) | - | decoding, encoding, destination address | everybody |
| Buffer pool (`internal/package.rs`) | list of free buffers behind a lock | `get`, `put_back`, `set_len` | Socket, Device |
| TunTap (`interface/tuntap_*.rs`), utils | the tun file | open, read, write; `run_command` for ifup | kernel |
| main, Config | - | read the configuration, make the channels, spawn the tasks | everybody |

    tun --> Device <==> Network <==> Socket <--> other nodes
                           ||
                         Router

A `==` is a pair of unbounded channels. Each box is a tokio task polled by the
threads of the runtime.

What makes each part correct, and what is hard about it:

* **Peer and Table.** `find` must be longest-prefix routing; the peer's best
  host must be what the order of hosts says, whatever the heap's array looks
  like. Hard: equal ranks, a rank that is counted up on a copy, masks off octet
  borders, `set_len` on the key.
* **AddNode protocol** (Router and Network::new). An address must only ever be
  entered under a subnet its owner has; the flood must end; nodes that list one
  another must all find each other. Hard: datagrams are lost, repeated and
  reordered, nodes restart and forget, addresses change, two nodes may announce
  one subnet, a hello is sent once and never repeated.
* **Forwarding** (Router). A packet must not run in circles, although the ttl is
  copied and never read, and must reach its interface only there where it
  belongs. Hard: tables change while packets are on their way.
* **Tasks** (Network, Socket, Device, Router polls). Nobody may sleep while
  there is something to do, nothing may be lost, doubled or made up between
  tasks, a node must stop as a whole or not at all. Hard: wake-ups, `NotReady`
  from a full kernel queue, tasks that run while others are not spawned yet,
  panics of one task seen by the others as closed channels.
* **Datagrams and buffers.** What a node hands on must be what the other side
  meant. Hard: buffers shared by two tasks that return them differently, sizes
  counted by hand in generated code (a negative jump takes ten bytes), a datagram
  longer than the buffer, an address that passes through several records and both
  families.
* **Setup** (main, Config, TunTap, ifup). Nothing may run half set up. Hard: each
  step may fail, and a configuration that does not parse is silently replaced.

## Modules

| module | models | uses |
|---|---|---|
| `RouteTable` | peers and tables as functions, for all modules below | - |
| `PeerHeap` | the array behind a peer, as operators | RouteTable |
| `SubnetKeys` | the table as stored: addresses and masks as keys, peers with heaps; insert, delete and find | PeerHeap; implements RouteTable |
| `KeysProofs` | theorems about SubnetKeys and PeerHeap | SubnetKeys |
| `Directory` | abstract: what nodes promise about each other's subnets | - |
| `Mesh` | the AddNode protocol between nodes | RouteTable; implements Directory |
| `MeshProofs` | theorems about Mesh | Mesh |
| `ConvergenceProofs` | the theorem about Converged | MeshProofs |
| `Forwarding` | packets through the tables of Mesh | Mesh |
| `ForwardingProofs` | theorems about Forwarding | Forwarding, ConvergenceProofs |
| `Wire` | messages as datagrams, field by field, and the router's records | - |
| `Datapath` | what a node reads, through the buffer pool, decoding, router and encoding | Wire |
| `WireProofs` | theorems about Wire and the records in it | Wire |
| `DatapathProofs` | theorems about Datapath | Datapath, WireProofs |
| `NodeService` | abstract: what one node does for those around it | - |
| `NodeTasks` | the four tasks and nine channels of one node | implements NodeService |
| `Startup` | how a node comes up, and then runs NodeTasks | NodeTasks |
| `TasksProofs` | theorems about NodeTasks and Startup | Startup |
| `ServiceProofs` | the theorems that NodeTasks implements NodeService and that its polls end | TasksProofs |
| `MC...` | the instances TLC checks | the module named |

**RouteTable.** A key is a sequence: the family, then the mask's bits. With the
family in front the IPv4 and the IPv6 table are one function. A peer is the set
of its hosts and the one on top; `AddHost` replaces the top only by a host that
outranks it.

**PeerHeap and SubnetKeys** justify that. `PeerHeap` has the array, `push` with its
sift up, and the `Ord` of `PeerInternal` with the ranks that `add_host` counts up
(on a copy, if the host is known). The loop of the sift up is the set of places the
element comes to, `Way`: the least set with the last place in it and, with each
place where the element does not stay, the parent of that place; the element rests
at the least of them. `SubnetKeys` has `encode_bytes`, `split_u8` and the cut to
`mask` bits, and a table from such keys to such heaps; `announced` is history, the
announcements in effect, each with those that were in effect when it came.
`FindsSubnet` compares `find` with longest-prefix routing worked out by arithmetic
on octets from the announcements, and `KeepsTable` says that, whatever the arrays
look like, each step is an `Insert` or a `Delete` of RouteTable.

**Mesh.** `up`, `home`, `table` and `starts` say which processes run, at which
addresses, with which tables, and how often they started; `net` is the set of
AddNode datagrams under way. `Start` is `Network::new`. The arm
`AddNodeRead` of `router_message` is three actions by its early returns:
`IgnoreOwn` (own name), `Refresh` (insertion fails: the host is known) and
`Learn` (insertion succeeds: announce to everybody in the table as it is after
the insertion). In both of the last two a hello (`jump = -1`) is answered first.
The four tasks of a node are one step here; `NodeTasks` is about what happens
between them. `JumpBound` counts the processes there were, a node and the how many-th
start of it: a record never made more jumps than there were of other nodes.

**Forwarding** adds `packets` under way and, per node, what was written to its
interface. `PackageShareRead` has the three outcomes of the arm of that name;
`via` is a history variable.

**Directory** has the set of running nodes, the nodes ever started and a map
from subnets to hosts per node. A node joins with its own subnet, gains one route
at a time, to an address of a node that was started and owns that subnet, never
changes a route it has, and forgets all when it leaves.

**Wire.** A byte string is what it is of (`Content`) and how long it is; the fields
of a message are a function from their numbers, and a field that is zero or empty is
not in its domain. `WriteBytes` is
`compute_size` and `write_to_with_cached_sizes` of the generated code: which
fields are written, in which order, and the length that is announced before them;
`FromProtobuf` is `merge_from` on what a buffer holds, and fails where the length
announced and the bytes there are not the same. `Source` and `Forwarded` are what
the arm `AddNodeRead` reads from a record and writes into the one it passes on.

**Datapath.** `pool` has the lengths of the free buffers, `hand` the buffer each
of the two tasks has taken, `read` what was handed to Network together with what
the sender meant. A step is one access to the pool or one system call, so that
the two tasks interleave as their threads do. The nodes around run the same
program: what this node has read, others pass on to it again (`Sendable`), so that
a record travels over several hops and both families. `AsAnnounced` says that a
record still names the subnet of its origin and leads to where the origin is
reached, and is a hello only if it comes from there.

**NodeTasks.** `chan` has the six channels and three kernel queues, `spawned` the
tasks the runtime has got, `asked` the channels whose reader is registered for a
wake-up, `woken` the tasks to poll, `loop` where in its `poll` a task is, `kept` the
lists of Socket and Device, `room` and `wants` the kernel's side of writes. A message
has its variant, the number of the input it stems from (the i-th hello has `-i`) and,
once the router wrote it, which of the answers to that input it is and where it leaves.
A step is one pass of one loop.
A receive that finds nothing registers the task and goes on to the next loop,
or panics if the other end is gone; a send to a dropped task panics. `Routed`
lets the router decide in any way a table could have it decide: a packet goes out, to the
interface or nowhere, and an announcement is answered to any list of `Floods`, that is, to
its sender, if it is a hello, and to every peer it is passed on to, in whichever families
those are. On `Malformed` input the router panics: on a record with an address that is
neither 4 nor 16 bytes long (`read_ip`), perhaps after it answered the hello
(`Answering`), and on a datagram whose packet is no IP packet (`Package::version` and
`destination_address`). Packets of the interface are IP packets: it is opened with
`IFF_TUN | IFF_NO_PI` (c_src/tuntap.c:33), so what the kernel writes begins with an IP
header. A write of Socket may be refused with an error (`WriteFails`, for the families in
`Failing`): it is logged, and the datagram is gone. `Spawn` gives the
runtime one task after the other, in the order of the code; the ones before run
already. An input may be an error of the system call, which ends in Socket.

**NodeService** is a node without tasks: it accepts an input, decides it once, in
one of the ways the router has for its kind, and delivers each answer once, or has it
refused once; if it stops, perhaps while it decides an input, it may lose what it has.
`KeepsService` says that NodeTasks implements it: what
is still undecided and unsent is gathered from channels, kept lists and polls. This
is what lets Mesh and Forwarding take a node as one step per input.

**Startup** has the steps before the first task: `Config::from_path`, `TunTap::new`,
`run_command`, `Socket::new`, `Network::new`, in the order of `main`, each with its
failure, and composes them with NodeTasks (`Run`).

## Runs

All are run with `tlc -config <run>.cfg <module>`. Deadlock checking is off in
the runs of Mesh, Forwarding and Startup: their behaviours end when the bound
on starts or inputs is used up and nothing is under way.

| run | shows | instance |
|---|---|---|
| `subnet_keys` | KeysTypeOK, FindsSubnet, KeepsTable | 11 announcements of both families with masks 0, 16, 17, 31, 32, up to 5 of them in any order, repeated and deleted; up to four hosts for one key, a heap of three levels; 9 destinations at the edges of the subnets |
| `wire_path` | PathTypeOK, PoolBound, WholeOrNothing, ToldAsAnnounced | 2 origins (one with an IPv6 address, port 65535, mask 0, a name of 127 bytes), a relay per family, packets of 20, 1492, 1493 and 1500 bytes, pings and deletions; 3 inputs |
| `mesh_hub` | TypeOK, RouteAccuracy, ForwardedCarriesAddress, JumpBound, StickyRoute, KeepsDirectory | 3 nodes, two of which know only the hub, one restarting at either of two addresses, losses |
| `mesh_shared_subnet` | OwnRoute, Grounded, JumpsPaid | 3 nodes, two with the same subnet, a hub with both families that restarts, losses and repetitions |
| `mesh_converge` | Converged, RestingAgreement, FloodFades | 3 nodes that list one another, the subnets of two side by side in the third's, started in any order, the two stopping at rest and started again, no loss; a destination in each of the two subnets |
| `mesh_late_joiner` | ServedFullMesh is violated | 3 nodes, two of which know only the hub |
| `fwd_nested` | FTypeOK, NoForwardingLoop, HopsNarrow, RightInterface | 3 nested subnets, the node of the outermost one restarting, one packet at a time |
| `fwd_delivery` | Quiesce, Delivered | the same without restarts |
| `pair_restart` | Converged, RestingAgreement, FullMesh | 2 nodes that list each other, each started up to three times, the subnet of one inside the other's, no loss; a destination in both subnets and one in the larger only |
| `task_kinds` | TypeOK, NoLostWakeup, OnlyFatalKills, OnlyConfiguredRuns, KeepsService | setup, a hello to send; an input of any kind, malformed ones and a ping included (DoNoting is decided like a DelNodeRead), then an announcement; announcements answered to nobody or twice to one family; writes to IPv6 that may be refused; 2 events (inputs, or the kernel out of room) |
| `task_live` | RestsWhenDone, Drains, FailStop, NoTaskSpins | setup, a packet, an announcement or a record that cannot be read, answered likewise, writes to IPv6 that may be refused, an interface that may fail; 2 events |
| `task_ping` | PingAnswered is violated | one ping |

Why the bounds are enough for what they are to show: three nodes are the least
for which a record is forwarded to a node that did not get it at first hand and
for which one node's view of two others may differ; two starts are the least for
a stale table next to an empty one; two addresses of a node the least for an
outdated route; three nested subnets the least for a packet of more than one
hop, and the least for two tables that disagree over a node that stopped. MCForwarding
also assumes `FullInstance`, so that TLC checks that the constants of `mesh_converge` and
`pair_restart` are a `FullConfig`, which the theorems about Converged and
RestingAgreement assume. Each property has in `PROJECT.json` a plausible slip in the code
that the same run catches at these bounds (`mutants`), so each of the cases does happen.
The safety properties are proved for all bounds.

`mesh_converge` looks at fewer interleavings than there are (`RestFirst` in
MCForwarding). Processes start at any time, but stop only when nothing is under way: stops
amid the flood are what `pair_restart` has, with two nodes. And a datagram whose handling
only takes it off the network (`Idle`) is handled at once: no process stops while it is
under way, so tables only grow and it has no other effect whenever it is handled; it
commutes with every step of the others, and the states with nothing under way are the
same.

In `wire_path` three inputs are what it takes for a record to be passed on twice, so
that an address read from a forwarded record is written into the next; the sizes
are those at which a varint gets another byte or a datagram no longer fits. The
pool is refilled again and again, as polls are not bounded.

In NodeTasks an input meets every state of the wake-up protocol, because the
hello, the spawning of the tasks, the kernel's clogs and the polls all tasks begin
with run beside it, and an announcement multiplies into two messages of one family, the
least of which one could be lost, doubled or refused beside the other; the second
event, an input or a full kernel queue, is what meets a task on its way to sleep, or a
node half stopped.

**Fairness.** `FairSpec` of Mesh: a datagram under way is delivered or lost, that
is, sockets are polled when there is something to read. A start is never required.
`FFairSpec` says the same of packets. `FairStartSpec` of Startup: `main` goes on
with the setup and spawns the tasks; tokio polls every woken task and a poll goes
on, one weak fairness condition per task; and the kernel has room for writes again
in the end. That the environment sends anything, or that the interface fails, is
never required.

## What the runs found

* `mesh_late_joiner`: README.md:11 promises a full mesh. A hello is answered by
  the record of who answers, not by what it knows, and an announcement is not
  answered at all. With a hub, n3 joins, then n2: n3 hears of n2, n2 never of n3.
  It is full mesh only if the nodes list one another, as config.jsonnet has it
  (`mesh_converge`).
* `task_ping`: doc/state-machine.dot:19 has PING_RECEIVED -> PING_SEND. The router
  does write a PingPongWrite, but `Network::poll` has no arm for it and gives
  it back to the router, which panics; `FailStop` shows that the rest of the
  node goes with it.
* Related, and stated by a property that holds: StickyRoute. A running node never
  replaces the host of a route by a later socket, so a peer that comes back at
  another address is sent nothing until the node itself restarts. With an address
  change FullMesh does not hold (`pair_restart` has fixed addresses).
* Nor is a route ever taken out, and RestingAgreement says what that may lead to. Let n1
  have the subnet <4>, n2 <4,0> inside it and n3 <4,1>. n2 stops, then n3 stops and
  returns. n3 now knows only n1 and sends a packet for <4,0,0> there, as it should; n1
  still has the smaller subnet of n2 and sends it to an address nobody listens at.
  `mesh_converge` reaches that state. Such a route, of a node that stopped and whose
  subnet is smaller, is the only way in which a node of a resting mesh routes otherwise
  than to the running node with the smallest subnet.
* OnlyFatalKills has exceptions, by name: besides a ping, a record with an address of
  another length or a datagram with a packet that is not IP stops the node. No node of
  this program sends those, and no node checks for them.
* A hello is sent once (network/mod.rs:73), and an announcement to the top of each peer
  only (router/mod.rs:173). A lost hello, one that could not be sent, and announcements
  that do not reach a node that moved break nothing that the code undertakes, so no
  property is about them: under loss RouteAccuracy, Grounded and KeepsDirectory say that
  what is known is right, not that everything is known.
* WholeOrNothing holds with an exception that it states: a packet of more than 1492
  bytes makes a datagram that does not fit the buffer of its receiver, which
  drops it whole. With the mtu of 1400 in config.jsonnet there are none; the
  default mtu of an interface is 1500.
* The pool's bound is six and not five: `Buffer::get` adds five buffers to an
  empty list and returns one more, which Socket puts into the list (PoolBound).
* `del_node` is decoded and ignored (router/mod.rs:140); nobody sends it.

## Proofs

`tlapm` checks seven groups of theorems, in eight modules. Together they state every
invariant and every action property a passing run checks, and both refinements, for
every set of nodes, addresses, subnets, servers, packets, announcements and inputs and
every value of the bounds, loss and repetition included.

### Assumptions

Only those the modules name. The ones with content are
* `AddressAssumption`, `ConfigAssumption` (Mesh): every address leads to one node for
  good (`Owner`), a node comes up with its own addresses (`Homes`), and there are
  finitely many nodes. Nothing is assumed about subnets, not even that they differ;
* `FullConfig`, of the theorems about Converged and RestingAgreement alone: what
  config.jsonnet describes, every node lists every other one in a family both have,
  subnets differ, nothing is lost on its way, and a node that stops has the same
  addresses when it comes back. Stops, what a stopping process had not sent yet,
  repetition and reordering are not excluded;
* `DatapathAssumption`: what the origins announce are addresses of 4 or 16 octets,
  and a packet an interface gives has a header and fits a buffer;
* `TasksAssumption`: sockets receive what decodes to a message, or an error, and the
  interface gives packets;
* `KeysAssumption`: addresses have 4 or 16 octets, and no mask is longer than its
  address.

### The mesh (MeshProofs)

RouteAccuracy alone is not inductive: a table entry comes from a datagram, so what is
known of datagrams must be strong enough, and those come from tables. `Grounded`
joins TypeOK and
* `ProcessesGrounded` - a running process has its own addresses, a stopped one no
  table;
* `TopsGrounded` - the top of a peer is one of its hosts, and Localhost exactly
  for the own subnet;
* `RecordsGrounded` - a record under way has the subnet configured for the node
  it names, and that node was started;
* RouteAccuracy, OwnRoute, and ForwardedCarriesAddress, which says of the
  record's address what RouteAccuracy needs when it is entered.

Init and every action preserve it (one lemma per action), and with it hold
`TypeCorrect`, `RoutesAreAccurate`, `OwnRouteHolds`, `ForwardedRecords`; the
action property `RoutesStick` and the refinement `MeshImplementsDirectory`
(initial states map to initial states, each step to a Join, Leave, Gain or a
stutter of Directory) follow from it step by step.

`JumpsAreBounded` needs to know why a record stops: `JumpsPaid` says that a record has
made no more jumps than there are processes of other nodes that stopped or know the
address it carries, none of which will pass it on. Passing it on adds the node that
does so to that set, as it learns the address in the same step, and no step takes a
process out of it (`Passed` only grows); the rest is the cardinality of finite sets.

That the flood ends has a measure, `FloodFades`: the addresses running nodes do not
know yet (`Unknown`), then the hellos under way, then the datagrams. `TheFloodFades`
proves that each step makes the first of the three that it changes smaller, as long as
no node starts or stops and no datagram is repeated: a record is announced only by a
node that learns its address (`LearntIsUnknown`), and an answer is no hello.

### Convergence (ConvergenceProofs)

Of two nodes that run, one started later, and said hello to the other. `Heard` says
that from then on each of the two has a route to the other, or a record of the other
came directly and is on its way to it, or its own hello is on its way to the other,
which will answer. A node that stops takes what it has not sent with it, and what it
has sent may reach those that start later: `Current` says that every record and every
table still leads to an address its node has whenever it runs, which holds because
nodes come back at the addresses they had. When one of the two stops there is nothing
to show of the pair (`CrashHeard`), and when it returns it says hello again. When
nothing is under way only the first of the three is left: `FullMeshConverges`.

That a node has a route does not say that it can send there: with nodes of one family
and relays of both, the top of a peer may be an address of a family the node has no
address of. Converged speaks of the tables.

### Forwarding (ForwardingProofs)

Every step of Forwarding is a step of Mesh or leaves Mesh alone
(`ForwardingIsMesh`), so Grounded carries over. `HopsNarrow` is then inductive:
a table entry found for a packet leads to a node that owns the entry's subnet,
which holds the destination; if the node that looks it up holds the destination
too, its own entry matches as well, so the entry found is longer, or is the own
one and the packet goes to the interface. `NoPacketLoops` follows because a node
that passed the packet on has a subnet strictly larger or does not hold the
destination, while the next one holds it.

`RestingTablesAgree` joins both: at rest every running node knows every other one's
subnet (Converged), and a table has no key but subnets of nodes that were started
(`KeysBorn`). Let m be the running node whose subnet is the smallest that holds a
destination (`Nearest`). If the longest match in the table of n is not the subnet of m, it
is longer (`LongestExists`: matches are no longer than the destination, so there is a
longest one), a node that was started has it, and that node does not run, or m would not
be the nearest (`NearestOrStale`). Otherwise the route is that of m, to an address it has
now. Where no node has stopped, that is what Delivered has as its premise, under FullConfig
and without fairness: what stays with TLC is that the packet moves.

### Datagrams and buffers (WireProofs, DatapathProofs)

`RoundTrip` is about the operators of Wire: what `FromProtobuf` makes of a buffer that
`WriteBytes` filled is the message that was written, or nothing if the buffer is
shorter than the datagram. It needs that the announced length is the length of what
is written, message by message and field by field, the jump of ten bytes included.

For the pool, `PathInv` is PathTypeOK and PoolBound together: that every free buffer
is of full length and that the pool stays within six are each inductive only for
the buffers in hand counted with them, as Socket's comes back later.
`BuffersKeepTheirLength` and `PoolStaysSmall` follow, for any traffic.

`MeantInv` is about the contents: every datagram in a queue was written from a sound
message (`Sound`: one the router can read and, if it is a record, as its origin
announced it), and whatever was handed on is what was meant, or was too long and is
gone. What nodes pass on of a sound message is sound again (`ForwardedLeadsToSource`:
the record a relay writes leads to the address the relay read). From it
`HandedOnWholeOrNot` and `RecordsToldAsAnnounced`, over any number of relays.

### Tasks and setup (TasksProofs)

`NoLostWakeup` speaks of tasks that sleep; its inductive form, `WakeInv`, of all:
* `Watched` - for every channel with a living reader, the reader will still look at it
  (it is woken, or before that loop of its poll) or is registered with it;
* `RegisteredIdle` - a channel whose reader is registered is empty and open;
* `NoneUnwritten` - the same for what a task has kept for a kernel that has no room;
* `Polled`, `KeptToWrite` - only tasks that were spawned are polled, and they keep
  only what they may write.

There is one lemma per kind of step (`WakePassed`, `WakeExhausted`, `WakeFall`, ...),
used by the actions of all four tasks. `ChannelsCarry` says which variants each channel
carries and that messages about pings stem from a ping that arrived, and malformed ones
from a malformed input; with it, as long as the interface does not fail, the panics of
the router on those and on a PingPongWrite are the first that can be reached, which is
`FatalKillsOnly`. `StartInv` adds that until the setup is over nothing has happened, so
that the theorems (`TasksType`, `NoWakeupLost`, `FatalKillsOnly`, `DefaultNeverRuns`)
are about the node from `main` on.

`RestMeansDone` draws what follows for a node at rest (`Resting`: all tasks run, none is
polled or to be polled, the kernel takes writes). No task will look, so by NoLostWakeup
there is nothing to see: no message, nothing to write, and no end of a channel. Since
the network reads a channel of each other task and each of them one of the network's
(`NetworkIsBetween`), one task that ended means that all did.

### Tasks as a service, and their measure (ServiceProofs)

A message in a channel or a list stands for one thing NodeService has, an input to be
decided or an answer that has not left; passing it on changes its place and perhaps
its variant, not what it stands for (`Token`). `ServiceInv` says that no two messages
stand for the same and that an input to be decided arrived and has no answer yet.
`TodoIsHeld` and `OwedIsHeld` restate the refinement mapping as tokens, and each
effect of a step (`Effect` of TasksProofs) then is one step of NodeService or none:
`TasksKeepService`.

`PollsEnd` is the other half of Drains and FailStop. `Remaining` lists nine finite
sets, those whose members make work for the others first: the tasks that live, what is
in the kernel's queues, on its way to the router, before the router (`Undecided`),
behind it, on its way to Socket and Device, in their lists, the polls to come, the
loops left of the polls that were begun. Every step other than an input, a spawn or a
change of a kernel queue takes from the first of the sets it changes. That a decision
takes from `Undecided` needs ServiceInv, as an input must not be there twice.
A lexicographic order on finite sets has no infinite descent, so the tasks rest after
finitely many steps, and by `RestMeansDone` they are done. Only that a woken task is
polled at all, and the argument about infinite behaviours itself, are left to fairness
and to TLC.

### Keys and heaps (KeysProofs)

The heap first. `Way` is a least closed set, and the provers have no induction, but the
library's theorem that inclusion of finite sets is well-founded gives that every
non-empty set of naturals has a least member (`LeastNatural`); with that, the way is a
path from the last place up (`WayIsPath`), the element stays at its end (`WayEnds`),
and no element of a heap is greater than its root (`RootIsGreatest`). So
`PushKeepsHeap`, `PushAddsEntry`, and `PushRoot`: the root changes exactly when the new
element is greater, which is what RouteTable's `AddHost` says.

Then the keys. The first r bits of two octets agree if and only if their r high bits
as numbers do (`SplitKeepsHighBits`, `SplitKeepsOctet`), so a key is a prefix of an
address's bits if and only if the subnet holds the address (`PrefixIsSubnet`), host
bits or not; and of two announcements with one mask the keys are the same if and only
if one's subnet holds the other (`SameKey`).

`KeysInv` joins them: the announcements in effect are ordered by which came first, the
keys in the table are theirs, and the peer of a key has as its hosts theirs, as its top
Localhost or else the first (`Represents`). `FindIsLongestPrefix`, `KeysAreTyped` and
`TableIsKept` follow.

### Only model-checked

Everything under fairness: FullMesh, Quiesce, Delivered, Drains and FailStop. The
prover has no ENABLED. For each of them the part without fairness is proved:

| property | what every step makes smaller | what holds at rest |
|---|---|---|
| Quiesce | `TheFloodFades` | - |
| FullMesh | `TheFloodFades` | `FullMeshConverges` |
| Delivered | `HopsNarrowDown`: every hop goes to a smaller subnet | `RestingTablesAgree`, up to stale routes |
| Drains, FailStop | `PollsEnd` | `RestMeansDone` |

Two caveats: FloodFades is about a network without repetition (a datagram that is
delivered again and again is a flood of its own), and RestsWhenDone about a kernel that
has room. The two properties that are expected to be violated are counterexamples TLC
shows. Everything else that a run checks is proved.

## Not modelled

* Datagrams no node of this program sends: unknown fields, wrong wire types, masks
  beyond the width. A message that does not decode is modelled (DoNoting), and so is one
  cut short. An address of another length, and a datagram's packet of another version or
  with too short a header, are there for what they do to the tasks (NodeTasks); Mesh,
  Forwarding and Datapath have only nodes that send neither.
* Packets of the interface that are not IP: the kernel gives none.
* Reading the ttl: it is set to 127, copied, and never read.
* Two nodes with one name, addresses that pass from one node to another, a node
  whose subnet is another one after a restart.
* Subnets of type IPv6: the configuration only has IPv4 ones (`Config::get_v4`).
  The modules do not depend on it.
* Delivery order within `net` is free and equal datagrams under way count once:
  handling a datagram twice is what `Duplicates` is for.
* A socket that has always something to read keeps Socket in its first loop, and
  the loops behind it wait (network/socket.rs:63). The inputs here are finite, so
  that is not seen; the same goes for a receive that fails again and again.
* The radix trie, the reactor's registration, the ioctl of the C helper and the
  parsing of arguments and configuration: libraries and system calls, taken as what
  the code uses them for.
* Helpers and accessors without a caller (`utils`, `get_by_peer_name`,
  `get_all_nodes`, `as_slice`, most of the generated code), and logging.

## Plan

The modules above are complete; all invariants, action properties and refinements are
proved. What would come next: unbounded inputs, to say something about a
socket that always has something to read, and a family per route in Converged, to
say which nodes can send where their tables lead.
