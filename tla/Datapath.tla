------------------------------- MODULE Datapath -------------------------------
(***************************************************************************)
(* From one kernel to the next: what a node reads from its sockets and its *)
(* interface, into buffers of a pool its tasks share, through decoding,    *)
(* the router and encoding.                                                *)
(*                                                                         *)
(* Socket takes a buffer from the pool for each receive and puts it back   *)
(* when there was nothing to receive; Device takes one for each read and   *)
(* never puts one back.  A step is one access to the pool (it is behind a  *)
(* lock) or one system call with what follows up to the next access, so    *)
(* that the two tasks interleave.  A buffer is its length.                 *)
(*                                                                         *)
(* The nodes around run the same program: they send records and packets of *)
(* their own, and pass on what this node has read.                         *)
(***************************************************************************)
EXTENDS Wire

CONSTANTS
    Origins,       \* the nodes that announce themselves: records of sub_net,
                   \* net_mask, name and addr, where they are reached
    Relays,        \* the addresses datagrams that are passed on come from
    Packets,       \* the packets of the interfaces, as byte strings
    Others,        \* messages this program reads but never sends
    MaxInput       \* bound: how many datagrams and packets arrive

BufferSize == 1500
Refill == 5
Ttl == 127
None == -1

Loop == {"v4", "v6"}
Task == {"socket", "device"}

Message(kind, body) == [kind |-> kind, body |-> body]

ASSUME DatapathAssumption ==
    /\ Ip6 \subseteq Content
    /\ Origins \subseteq [sub_net : {b \in ByteString : IsIp(b)}, net_mask : Nat,
                          name : ByteString, addr : Address]
    /\ Relays \subseteq Address
    /\ \A p \in Packets : p \in ByteString /\ HasHeader(p) /\ p.len <= BufferSize
    /\ Others \subseteq {m \in Messages : m.kind \in {"DelNode", "PingPong"}}
    /\ MaxInput \in Nat

VARIABLES
    pool,      \* the lengths of the free buffers, the next one first
    hand,      \* hand[t]: the length of the buffer task t has, or None
    loop,      \* the receive loop Socket is in
    queue,     \* queue[c]: the datagrams socket c has for this node
    tun,       \* the packets the interface has for this node
    read,      \* what was handed on, beside what it was meant to be (history)
    count      \* how many inputs there were

pathVars == <<pool, hand, loop, queue, tun, read, count>>

-----------------------------------------------------------------------------
Package(p) == Message("PackageShare", [ttl |-> Ttl, package |-> p])

\* Message m, read from address from, should have been meant.
Handed(from, meant, m) == [from |-> from, meant |-> meant, message |-> m]

\* The node can go on with m: its addresses have 4 or 16 bytes, its packet a
\* header.  Elsewhere the router panics.
Routable(m) ==
    CASE m.kind = "PackageShare" -> HasHeader(m.body.package)
      [] m.kind = "AddNode" ->
            IsIp(m.body.sub_net) /\ (m.body.real_ip.len = 0 \/ IsIp(m.body.real_ip))
      [] OTHER -> TRUE

\* Router::router_message: what is passed on of what was read.
PassedOn(m, from) ==
    CASE m.kind = "PackageShare" -> {m}
      [] m.kind = "AddNode" -> {Message("AddNode", Forwarded(m.body, from))}
      [] OTHER -> {}

\* What may arrive, with the address it comes from: records at first hand,
\* packets of other interfaces, and what nodes that read the same pass on.
Sendable ==
    {<<o.addr, Message("AddNode", SelfShare(o))>> : o \in Origins}
    \cup {<<o.addr, Message("AddNode", SelfInit(o))>> : o \in Origins}
    \cup (Relays \X ({Package(p) : p \in Packets} \cup Others
                       \cup UNION {PassedOn(r.message, r.from) : r \in read}))

-----------------------------------------------------------------------------
PathInit ==
    /\ pool = << >>
    /\ hand = [t \in Task |-> None]
    /\ loop = "v4"
    /\ queue = [c \in Loop |-> << >>]
    /\ tun = << >>
    /\ read = {}
    /\ count = 0

\* Mutant: the pool is filled up when it runs low.
GetBufferEarly(t) ==
    /\ hand[t] = None
    /\ IF Len(pool) < 2
       THEN pool' = pool \o [i \in 1 .. Refill |-> BufferSize]
            /\ hand' = [hand EXCEPT ![t] = BufferSize]
       ELSE pool' = Tail(pool) /\ hand' = [hand EXCEPT ![t] = Head(pool)]
    /\ UNCHANGED <<loop, queue, tun, read, count>>

\* Buffer::get.  An empty pool is filled, and the buffer is a sixth one.
GetBuffer(t) ==
    /\ hand[t] = None
    /\ IF pool = << >>
       THEN pool' = [i \in 1 .. Refill |-> BufferSize] /\ hand' = [hand EXCEPT ![t] = BufferSize]
       ELSE pool' = Tail(pool) /\ hand' = [hand EXCEPT ![t] = Head(pool)]
    /\ UNCHANGED <<loop, queue, tun, read, count>>

\* Socket::poll: a datagram was received, cut to the buffer; the buffer ends
\* with the message.
Receive(c) ==
    /\ loop = c /\ hand["socket"] # None
    /\ queue[c] # << >>
    /\ LET d == Head(queue[c])
       IN  read' = read \cup {Handed(d.from, d.meant, FromProtobuf(d.bytes, hand["socket"]))}
    /\ queue' = [queue EXCEPT ![c] = Tail(@)]
    /\ hand' = [hand EXCEPT !["socket"] = None]
    /\ UNCHANGED <<pool, loop, tun, count>>

\* Socket::poll: there was nothing.
NothingReceived(c) ==
    /\ loop = c /\ hand["socket"] # None
    /\ queue[c] = << >>
    /\ pool' = Append(pool, hand["socket"])
    /\ hand' = [hand EXCEPT !["socket"] = None]
    /\ loop' = IF c = "v4" THEN "v6" ELSE "v4"
    /\ UNCHANGED <<queue, tun, read, count>>

\* Socket::poll: the system call failed.
ReceiveFails(c) ==
    /\ loop = c /\ hand["socket"] # None
    /\ hand' = [hand EXCEPT !["socket"] = None]
    /\ UNCHANGED <<pool, loop, queue, tun, read, count>>

\* The packet Device finds in its buffer, and the message the router makes of it.
ReadInto(p, size) == [p EXCEPT !.len = IF @ < size THEN @ ELSE size]

Local == [ip |-> "", port |-> 0]

\* Mutant: the buffer goes back to the pool as long as the packet was.
ReadPacketRecycles ==
    /\ hand["device"] # None
    /\ tun # << >>
    /\ LET p == ReadInto(Head(tun), hand["device"])
       IN  /\ read' = read \cup {Handed(Local, Package(Head(tun)), Package(p))}
           /\ pool' = Append(pool, p.len)
    /\ tun' = Tail(tun)
    /\ hand' = [hand EXCEPT !["device"] = None]
    /\ UNCHANGED <<loop, queue, count>>

\* Device::poll: a packet was read; the buffer becomes the packet.
ReadPacket ==
    /\ hand["device"] # None
    /\ tun # << >>
    /\ LET p == ReadInto(Head(tun), hand["device"])
       IN  read' = read \cup {Handed(Local, Package(Head(tun)), Package(p))}
    /\ tun' = Tail(tun)
    /\ hand' = [hand EXCEPT !["device"] = None]
    /\ UNCHANGED <<pool, loop, queue, count>>

\* Device::poll: there was none, and the buffer is dropped.
NothingRead ==
    /\ hand["device"] # None
    /\ tun = << >>
    /\ hand' = [hand EXCEPT !["device"] = None]
    /\ UNCHANGED <<pool, loop, queue, tun, read, count>>

\* A datagram arrives at the socket of its family.
ArriveDatagram(from, m) ==
    LET c == IF from.ip \in Ip6 THEN "v6" ELSE "v4"
    IN  /\ count < MaxInput
        /\ queue' = [queue EXCEPT ![c] = Append(@, [from |-> from, meant |-> m, bytes |-> WriteBytes(m)])]
        /\ count' = count + 1
        /\ UNCHANGED <<pool, hand, loop, tun, read>>

\* A packet arrives at the interface.
ArrivePacket(p) ==
    /\ count < MaxInput
    /\ tun' = Append(tun, p)
    /\ count' = count + 1
    /\ UNCHANGED <<pool, hand, loop, queue, read>>

SocketReads == \E c \in Loop : Receive(c) \/ NothingReceived(c) \/ ReceiveFails(c)

PathNext ==
    \/ \E t \in Task : GetBuffer(t)
    \/ SocketReads \/ ReadPacket \/ NothingRead
    \/ \E s \in Sendable : ArriveDatagram(s[1], s[2])
    \/ \E p \in Packets : ArrivePacket(p)

PathSpec == PathInit /\ [][PathNext]_pathVars

-----------------------------------------------------------------------------
(***************************************************************************)
(* Properties.                                                             *)
(***************************************************************************)

\* Every buffer, free or in a task's hands, has its full length, whatever was
\* read into the buffers before it: a shorter one would cut what comes next.
PathTypeOK ==
    /\ pool \in Seq({BufferSize})
    /\ hand \in [Task -> {None, BufferSize}]
    /\ loop \in Loop
    /\ DOMAIN queue = Loop
    /\ count \in Nat

\* Although Socket returns buffers it did not take from the list, and Device
\* returns none, the pool never outgrows one refill and the sixth buffer.
PoolBound == Len(pool) + (IF hand["socket"] = None THEN 0 ELSE 1) <= Refill + 1

\* What is handed on is what the other side meant, field by field, and the
\* router can read its addresses.  Only what does not fit a buffer as a datagram
\* is dropped, and then as a whole: no packet and no record is handed on in part.
WholeOrNothing ==
    \A r \in read :
        \/ r.message = r.meant /\ Routable(r.message)
        \/ r.message = DoNoting /\ DatagramSize(WriteBytes(r.meant)) > BufferSize

\* The record names the subnet of its origin and leads to where the origin is
\* reached, and it is a hello only when it comes from there.
AsAnnounced(node, from) ==
    \E o \in Origins :
        /\ node.name = o.name /\ node.sub_net = o.sub_net /\ node.net_mask = o.net_mask
        /\ Source(node, from) = o.addr
        /\ node.jump <= 0 => from = o.addr

\* However often a record was passed on, over either family, it names the subnet
\* of its origin and leads to where the origin is reached; and only what comes
\* from the origin itself can be a hello.
ToldAsAnnounced ==
    \A r \in read : r.message.kind = "AddNode" => AsAnnounced(r.message.body, r.from)
=============================================================================
