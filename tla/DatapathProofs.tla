---------------------------- MODULE DatapathProofs ----------------------------
(***************************************************************************)
(* Proofs about Datapath, for every set of packets, origins and relays and *)
(* any number of inputs: buffers keep their length, the pool its bound,    *)
(* and what is handed on is what was meant and announced.                  *)
(***************************************************************************)
EXTENDS Datapath, WireProofs

LEMMA PoolFacts ==
    ASSUME NEW s \in Seq({BufferSize})
    PROVE  /\ Append(s, BufferSize) \in Seq({BufferSize})
           /\ Len(Append(s, BufferSize)) = Len(s) + 1
           /\ s # << >> => /\ Tail(s) \in Seq({BufferSize})
                           /\ Head(s) = BufferSize
                           /\ Len(Tail(s)) = Len(s) - 1
           /\ Len(s) \in Nat
OBVIOUS

LEMMA RefillFacts ==
    LET fresh == [i \in 1 .. Refill |-> BufferSize]
    IN  fresh \in Seq({BufferSize}) /\ Len(fresh) = Refill
BY DEF Refill

\* The inductive invariant: lengths and the bound do not depend on each other.
PathInv == PathTypeOK /\ PoolBound

LEMMA PathInvInit == PathInit => PathInv
BY DEF PathInit, PathInv, PathTypeOK, PoolBound, Task, Loop, None, Refill, BufferSize

LEMMA PathInvGetBuffer ==
    ASSUME PathInv, NEW t \in Task, GetBuffer(t)
    PROVE  PathInv'
<1> USE DEF PathInv, PathTypeOK, PoolBound, GetBuffer
<1>1. CASE pool = << >>
  <2>1. pool' = [i \in 1 .. Refill |-> BufferSize]
    BY <1>1
  <2>2. hand' = [hand EXCEPT ![t] = BufferSize]
    BY <1>1
  <2>3. pool' \in Seq({BufferSize}) /\ Len(pool') = Refill
    BY <2>1, RefillFacts
  <2>4. hand' \in [Task -> {None, BufferSize}]
    BY <2>2
  <2>5. PoolBound'
    BY <2>3 DEF Refill
  <2> QED
    BY <2>3, <2>4, <2>5
<1>2. CASE pool # << >>
  <2>1. pool' = Tail(pool) /\ hand' = [hand EXCEPT ![t] = Head(pool)]
    BY <1>2
  <2>2. /\ pool' \in Seq({BufferSize}) /\ Len(pool') = Len(pool) - 1
        /\ Head(pool) = BufferSize /\ Len(pool) \in Nat
    BY <1>2, <2>1, PoolFacts
  <2>3. hand' \in [Task -> {None, BufferSize}]
    BY <2>1, <2>2
  <2>4. PoolBound'
    BY <2>1, <2>2 DEF Refill, Task
  <2> QED
    BY <2>2, <2>3, <2>4
<1> QED
  BY <1>1, <1>2

LEMMA PathInvSocket ==
    ASSUME PathInv, SocketReads
    PROVE  PathInv'
<1> USE DEF PathInv, PathTypeOK, PoolBound
<1>1. ASSUME NEW c \in Loop, Receive(c)
      PROVE  PathInv'
  BY <1>1 DEF Receive, Task, None, Loop, Refill
<1>2. ASSUME NEW c \in Loop, NothingReceived(c)
      PROVE  PathInv'
  <2>1. hand["socket"] = BufferSize
    BY <1>2 DEF NothingReceived, Task
  <2>2. pool' \in Seq({BufferSize}) /\ Len(pool') = Len(pool) + 1 /\ Len(pool) \in Nat
    BY <1>2, <2>1, PoolFacts DEF NothingReceived
  <2>3. hand' \in [Task -> {None, BufferSize}] /\ hand'["socket"] = None
    BY <1>2 DEF NothingReceived, Task
  <2>4. Len(pool) + 1 <= Refill + 1
    BY <1>2 DEF NothingReceived
  <2> QED
    BY <1>2, <2>2, <2>3, <2>4 DEF NothingReceived, Loop, Refill
<1>3. ASSUME NEW c \in Loop, ReceiveFails(c)
      PROVE  PathInv'
  BY <1>3 DEF ReceiveFails, Task, None, Loop, Refill
<1> QED
  BY <1>1, <1>2, <1>3 DEF SocketReads

LEMMA PathInvDevice ==
    ASSUME PathInv, ReadPacket \/ NothingRead
    PROVE  PathInv'
<1>1. /\ hand' = [hand EXCEPT !["device"] = None]
      /\ UNCHANGED <<pool, loop, queue, count>>
  BY DEF ReadPacket, NothingRead
<1>2. hand' \in [Task -> {None, BufferSize}] /\ hand'["socket"] = hand["socket"]
  BY <1>1 DEF PathInv, PathTypeOK, Task
<1> QED
  BY <1>1, <1>2 DEF PathInv, PathTypeOK, PoolBound

LEMMA PathInvArrive ==
    ASSUME PathInv,
           \/ \E s \in Sendable : ArriveDatagram(s[1], s[2])
           \/ \E p \in Packets : ArrivePacket(p)
    PROVE  PathInv'
<1>1. /\ UNCHANGED <<pool, hand, loop>>
      /\ DOMAIN queue' = DOMAIN queue
      /\ count' = count + 1
  BY DEF ArriveDatagram, ArrivePacket
<1> QED
  BY <1>1 DEF PathInv, PathTypeOK, PoolBound

LEMMA PathInvStep ==
    ASSUME PathInv, [PathNext]_pathVars
    PROVE  PathInv'
<1>1. CASE UNCHANGED pathVars
  BY <1>1 DEF PathInv, PathTypeOK, PoolBound, pathVars
<1>2. CASE PathNext
  BY <1>2, PathInvGetBuffer, PathInvSocket, PathInvDevice, PathInvArrive DEF PathNext
<1> QED
  BY <1>1, <1>2

\* Every buffer of the pool, and every one a task reads into, has its full 1500
\* bytes, however many reads came before: none that was cut to what was read
\* comes back.
THEOREM BuffersKeepTheirLength == PathSpec => []PathTypeOK
<1>1. PathInv => PathTypeOK
  BY DEF PathInv
<1> QED
  BY <1>1, PathInvInit, PathInvStep, PTL DEF PathSpec

\* The pool has never more than the five buffers of a refill and the one Socket
\* puts back, for any number of reads.
THEOREM PoolStaysSmall == PathSpec => []PoolBound
<1>1. PathInv => PoolBound
  BY DEF PathInv
<1> QED
  BY <1>1, PathInvInit, PathInvStep, PTL DEF PathSpec

-----------------------------------------------------------------------------
(***************************************************************************)
(* What is handed on.  A message is sound when it is one the router can    *)
(* read and, if it is a record, tells what its origin announced; what is   *)
(* passed on of a sound message is sound again.                            *)
(***************************************************************************)

Sound(from, m) ==
    /\ m \in Messages
    /\ Routable(m)
    /\ m.kind = "AddNode" =>
          from \in Address /\ m.body.jump >= -1 /\ AsAnnounced(m.body, from)

\* A datagram that carries m.
Datagram(from, m) == [from |-> from, meant |-> m, bytes |-> WriteBytes(m)]

SoundDatagrams ==
    {Datagram(s[1], s[2]) : s \in {s \in Address \X Messages : Sound(s[1], s[2])}}

QueuesSound == queue \in [Loop -> Seq(SoundDatagrams)] /\ tun \in Seq(Packets)

ReadAsMeant(r) ==
    \/ r.message = r.meant /\ Sound(r.from, r.message)
    \/ r.message = DoNoting /\ DatagramSize(WriteBytes(r.meant)) > BufferSize

ReadsSound == \A r \in read : ReadAsMeant(r)

\* The inductive invariant of what is handed on.
MeantInv == PathTypeOK /\ QueuesSound /\ ReadsSound

LEMMA MessageFacts ==
    /\ \A b \in PackageShard : Message("PackageShare", b) \in Messages
    /\ \A b \in NodeRecord : Message("AddNode", b) \in Messages
    /\ \A k, b : Message(k, b).kind = k /\ Message(k, b).body = b
    /\ \A m \in Messages : m.kind = "AddNode" => m.body \in NodeRecord
BY DEF Messages, Message

LEMMA SelfShareFacts ==
    ASSUME NEW o \in Origins
    PROVE  /\ SelfShare(o) \in NodeRecord
           /\ IsIp(o.sub_net)
           /\ o.addr \in Address
           /\ SelfShare(o).sub_net = o.sub_net /\ SelfShare(o).net_mask = o.net_mask
           /\ SelfShare(o).name = o.name /\ SelfShare(o).jump = 0
           /\ SelfShare(o).real_ip = Empty /\ SelfShare(o).port = 0
<1>1. /\ o.sub_net \in ByteString /\ IsIp(o.sub_net)
      /\ o.net_mask \in Nat /\ o.name \in ByteString /\ o.addr \in Address
  BY DatapathAssumption
<1>2. Empty \in ByteString
  BY DEF ByteString
<1>3. SelfShare(o) \in NodeRecord
  BY <1>1, <1>2, NodeFacts DEF SelfShare
<1> QED
  BY <1>1, <1>3 DEF SelfShare

LEMMA SelfInitFacts ==
    ASSUME NEW o \in Origins
    PROVE  /\ SelfInit(o) \in NodeRecord
           /\ SelfInit(o).sub_net = o.sub_net /\ SelfInit(o).net_mask = o.net_mask
           /\ SelfInit(o).name = o.name /\ SelfInit(o).jump = -1
           /\ SelfInit(o).real_ip = Empty /\ SelfInit(o).port = 0
<1>1. SelfInit(o) = [sub_net |-> o.sub_net, net_mask |-> o.net_mask, name |-> o.name,
                     jump |-> -1, real_ip |-> Empty, port |-> 0]
  BY DEF SelfInit, SelfShare
<1>2. /\ o.sub_net \in ByteString /\ o.net_mask \in Nat /\ o.name \in ByteString
  BY DatapathAssumption
<1>3. Empty \in ByteString
  BY DEF ByteString
<1>4. -1 \in Int /\ 0 \in Int
  OBVIOUS
<1>5. SelfInit(o) \in NodeRecord
  BY <1>1, <1>2, <1>3, <1>4 DEF NodeRecord
<1> QED
  BY <1>1, <1>5

\* What an origin sends of itself.
LEMMA FirstHandSound ==
    ASSUME NEW o \in Origins, NEW n \in {SelfShare(o), SelfInit(o)}
    PROVE  Sound(o.addr, Message("AddNode", n))
<1>1. /\ n \in NodeRecord /\ n.sub_net = o.sub_net /\ n.net_mask = o.net_mask
      /\ n.name = o.name /\ n.jump >= -1 /\ n.real_ip = Empty
  BY SelfShareFacts, SelfInitFacts
<1>2. IsIp(o.sub_net) /\ o.addr \in Address
  BY SelfShareFacts
<1>3. n.real_ip.len = 0
  <2>1. Empty.len = 0
    BY DEF Empty
  <2> QED
    BY <1>1, <2>1
<1>4. Source(n, o.addr) = o.addr
  BY <1>3 DEF Source
<1>5. AsAnnounced(n, o.addr)
  BY <1>1, <1>4 DEF AsAnnounced
<1>6. Routable(Message("AddNode", n))
  BY <1>1, <1>2, <1>3, MessageFacts DEF Routable
<1> QED
  BY <1>1, <1>2, <1>5, <1>6, MessageFacts DEF Sound

LEMMA PackageSound ==
    ASSUME NEW from, NEW p \in Packets
    PROVE  Sound(from, Package(p))
<1>1. p \in ByteString /\ HasHeader(p)
  BY DatapathAssumption
<1>2. [ttl |-> Ttl, package |-> p] \in PackageShard
  BY <1>1 DEF PackageShard, Ttl
<1>3. Package(p) \in Messages /\ Package(p).kind = "PackageShare"
      /\ Package(p).body = [ttl |-> Ttl, package |-> p]
  BY <1>2, MessageFacts DEF Package
<1>4. Routable(Package(p))
  BY <1>1, <1>3 DEF Routable
<1> QED
  BY <1>3, <1>4 DEF Sound

LEMMA OthersSound ==
    ASSUME NEW from, NEW m \in Others
    PROVE  Sound(from, m)
<1>1. m \in Messages /\ m.kind \in {"DelNode", "PingPong"}
  BY DatapathAssumption
<1>2. Routable(m)
  BY <1>1 DEF Routable
<1> QED
  BY <1>1, <1>2 DEF Sound

LEMMA PassedOnSound ==
    ASSUME NEW r, ReadAsMeant(r), NEW m \in PassedOn(r.message, r.from), NEW relay \in Address
    PROVE  Sound(relay, m)
<1>1. r.message.kind \in {"PackageShare", "AddNode"}
  BY DEF PassedOn
<1>2. Sound(r.from, r.message)
  BY <1>1 DEF ReadAsMeant, DoNoting
<1>3. CASE r.message.kind = "PackageShare"
  <2>1. m = r.message
    BY <1>3 DEF PassedOn
  <2> QED
    BY <1>2, <1>3, <2>1 DEF Sound
<1>4. CASE r.message.kind = "AddNode"
  <2> DEFINE n == r.message.body
             f == Forwarded(n, r.from)
  <2>1. m = Message("AddNode", f)
    BY <1>4 DEF PassedOn
  <2>2. /\ n \in NodeRecord /\ r.from \in Address /\ n.jump >= -1
        /\ AsAnnounced(n, r.from) /\ IsIp(n.sub_net)
    BY <1>2, <1>4, MessageFacts DEF Sound, Routable
  <2> HIDE DEF n
  <2>3. /\ f \in NodeRecord /\ IsIp(f.real_ip) /\ f.jump >= 1
        /\ f.sub_net = n.sub_net /\ f.net_mask = n.net_mask /\ f.name = n.name
        /\ Source(f, relay) = Source(n, r.from)
    BY <2>2, ForwardedLeadsToSource
  <2> HIDE DEF f
  <2>4. AsAnnounced(f, relay)
    <3>1. PICK o \in Origins :
              /\ n.name = o.name /\ n.sub_net = o.sub_net /\ n.net_mask = o.net_mask
              /\ Source(n, r.from) = o.addr
      BY <2>2 DEF AsAnnounced
    <3>2. ~(f.jump <= 0)
      BY <2>3, NodeFacts
    <3> QED
      BY <2>3, <3>1, <3>2 DEF AsAnnounced
  <2>5. f.jump >= -1
    BY <2>3, NodeFacts
  <2>6. Message("AddNode", f) \in Messages /\ Message("AddNode", f).kind = "AddNode"
        /\ Message("AddNode", f).body = f
    BY <2>3, MessageFacts
  <2>7. Routable(m)
    BY <2>1, <2>2, <2>3, <2>6 DEF Routable
  <2> QED
    BY <2>1, <2>4, <2>5, <2>6, <2>7 DEF Sound
<1> QED
  BY <1>1, <1>3, <1>4

LEMMA SendableSound ==
    ASSUME ReadsSound, NEW s \in Sendable
    PROVE  s[1] \in Address /\ Sound(s[1], s[2])
<1>1. ASSUME NEW o \in Origins, NEW n \in {SelfShare(o), SelfInit(o)},
             s = <<o.addr, Message("AddNode", n)>>
      PROVE  s[1] \in Address /\ Sound(s[1], s[2])
  BY <1>1, FirstHandSound, SelfShareFacts
<1>2. ASSUME NEW relay \in Relays, NEW p \in Packets, s = <<relay, Package(p)>>
      PROVE  s[1] \in Address /\ Sound(s[1], s[2])
  BY <1>2, PackageSound, DatapathAssumption
<1>3. ASSUME NEW relay \in Relays, NEW m \in Others, s = <<relay, m>>
      PROVE  s[1] \in Address /\ Sound(s[1], s[2])
  BY <1>3, OthersSound, DatapathAssumption
<1>4. ASSUME NEW relay \in Relays, NEW r \in read, NEW m \in PassedOn(r.message, r.from),
             s = <<relay, m>>
      PROVE  s[1] \in Address /\ Sound(s[1], s[2])
  <2>1. relay \in Address /\ ReadAsMeant(r)
    BY DatapathAssumption DEF ReadsSound
  <2> QED
    BY <1>4, <2>1, PassedOnSound
<1> QED
  BY <1>1, <1>2, <1>3, <1>4 DEF Sendable

-----------------------------------------------------------------------------
LEMMA QueueFacts ==
    ASSUME NEW S, NEW s \in Seq(S)
    PROVE  /\ \A e \in S : Append(s, e) \in Seq(S)
           /\ s # << >> => Head(s) \in S /\ Tail(s) \in Seq(S)
OBVIOUS

LEMMA MeantInvInit == PathInit => MeantInv
<1> SUFFICES ASSUME PathInit
             PROVE  MeantInv
  OBVIOUS
<1>1. << >> \in Seq(SoundDatagrams) /\ << >> \in Seq(Packets)
  OBVIOUS
<1>2. QueuesSound
  BY <1>1 DEF PathInit, QueuesSound
<1>3. ReadsSound
  BY DEF PathInit, ReadsSound
<1>4. PathTypeOK
  BY PathInvInit DEF PathInv
<1> QED
  BY <1>2, <1>3, <1>4 DEF MeantInv

\* A datagram that is taken from a socket is read as what it carries, or, when it
\* does not fit a buffer, as no message at all.
LEMMA ReceivedAsMeant ==
    ASSUME NEW d \in SoundDatagrams
    PROVE  ReadAsMeant(Handed(d.from, d.meant, FromProtobuf(d.bytes, BufferSize)))
<1>1. PICK s \in Address \X Messages : Sound(s[1], s[2]) /\ d = Datagram(s[1], s[2])
  BY DEF SoundDatagrams
<1>2. d.from = s[1] /\ d.meant = s[2] /\ d.bytes = WriteBytes(s[2]) /\ s[2] \in Messages
  BY <1>1 DEF Datagram
<1>3. BufferSize \in Nat
  BY DEF BufferSize
<1>4. FromProtobuf(d.bytes, BufferSize) =
          IF BufferSize < DatagramSize(d.bytes) THEN DoNoting ELSE d.meant
  BY <1>2, <1>3, RoundTrip
<1>5. CASE BufferSize < DatagramSize(d.bytes)
  BY <1>2, <1>4, <1>5 DEF ReadAsMeant, Handed
<1>6. CASE ~(BufferSize < DatagramSize(d.bytes))
  BY <1>1, <1>2, <1>4, <1>6 DEF ReadAsMeant, Handed
<1> QED
  BY <1>5, <1>6

\* A packet of the interface fits the buffer it is read into.
LEMMA PacketReadAsMeant ==
    ASSUME NEW p \in Packets
    PROVE  ReadAsMeant(Handed(Local, Package(p), Package(ReadInto(p, BufferSize))))
<1>1. p \in ByteString /\ p.len <= BufferSize
  BY DatapathAssumption
<1>2. p.len \in Nat /\ p = [of |-> p.of, len |-> p.len]
  BY <1>1, ByteStringFacts
<1>3. ReadInto(p, BufferSize) = p
  <2>1. (IF p.len < BufferSize THEN p.len ELSE BufferSize) = p.len
    BY <1>1, <1>2 DEF BufferSize
  <2>2. ReadInto(p, BufferSize) = [p EXCEPT !.len = p.len]
    BY <2>1 DEF ReadInto
  <2> QED
    BY <1>2, <2>2
<1>4. Sound(Local, Package(p))
  BY PackageSound
<1> QED
  BY <1>3, <1>4 DEF ReadAsMeant, Handed

LEMMA MeantInvReceive ==
    ASSUME MeantInv, NEW c \in Loop, Receive(c)
    PROVE  QueuesSound' /\ ReadsSound'
<1>1. hand["socket"] = BufferSize
  BY DEF MeantInv, PathTypeOK, Receive, Task
<1>2. queue \in [Loop -> Seq(SoundDatagrams)] /\ tun \in Seq(Packets)
  BY DEF MeantInv, QueuesSound
<1>3. queue[c] \in Seq(SoundDatagrams) /\ queue[c] # << >>
  BY <1>2 DEF Receive
<1>4. Head(queue[c]) \in SoundDatagrams /\ Tail(queue[c]) \in Seq(SoundDatagrams)
  BY <1>3, QueueFacts
<1> DEFINE d == Head(queue[c])
           r == Handed(d.from, d.meant, FromProtobuf(d.bytes, BufferSize))
<1>5. ReadAsMeant(r)
  BY <1>4, ReceivedAsMeant
<1>6. read' = read \cup {r}
  BY <1>1 DEF Receive
<1> HIDE DEF r
<1>7. ReadsSound'
  BY <1>5, <1>6 DEF MeantInv, ReadsSound
<1>8. queue' = [queue EXCEPT ![c] = Tail(queue[c])] /\ tun' = tun
  BY DEF Receive
<1>9. QueuesSound'
  BY <1>2, <1>4, <1>8 DEF QueuesSound
<1> QED
  BY <1>7, <1>9

LEMMA MeantInvReadPacket ==
    ASSUME MeantInv, ReadPacket
    PROVE  QueuesSound' /\ ReadsSound'
<1>1. hand["device"] = BufferSize
  BY DEF MeantInv, PathTypeOK, ReadPacket, Task
<1>2. tun \in Seq(Packets) /\ tun # << >>
  BY DEF MeantInv, QueuesSound, ReadPacket
<1>3. Head(tun) \in Packets /\ Tail(tun) \in Seq(Packets)
  BY <1>2, QueueFacts
<1> DEFINE r == Handed(Local, Package(Head(tun)), Package(ReadInto(Head(tun), BufferSize)))
<1>4. ReadAsMeant(r)
  BY <1>3, PacketReadAsMeant
<1>5. read' = read \cup {r}
  BY <1>1 DEF ReadPacket
<1> HIDE DEF r
<1>6. ReadsSound'
  BY <1>4, <1>5 DEF MeantInv, ReadsSound
<1>7. QueuesSound'
  BY <1>3 DEF MeantInv, QueuesSound, ReadPacket
<1> QED
  BY <1>6, <1>7

LEMMA MeantInvArriveDatagram ==
    ASSUME MeantInv, NEW s \in Sendable, ArriveDatagram(s[1], s[2])
    PROVE  QueuesSound' /\ ReadsSound'
<1>1. s[1] \in Address /\ Sound(s[1], s[2]) /\ s[2] \in Messages
  BY SendableSound DEF MeantInv, Sound
<1> DEFINE d == Datagram(s[1], s[2])
           c == IF s[1].ip \in Ip6 THEN "v6" ELSE "v4"
<1>2. d \in SoundDatagrams
  <2> DEFINE t == <<s[1], s[2]>>
  <2>1. t \in Address \X Messages /\ t[1] = s[1] /\ t[2] = s[2]
    BY <1>1
  <2> HIDE DEF t
  <2>2. t \in {u \in Address \X Messages : Sound(u[1], u[2])}
    BY <1>1, <2>1
  <2>3. Datagram(t[1], t[2]) \in SoundDatagrams
    BY <2>2 DEF SoundDatagrams
  <2> QED
    BY <2>1, <2>3
<1>3. c \in Loop
  BY DEF Loop
<1>4. queue' = [queue EXCEPT ![c] = Append(queue[c], d)] /\ tun' = tun /\ read' = read
  BY DEF ArriveDatagram, Datagram
<1> HIDE DEF c, d
<1>5. queue \in [Loop -> Seq(SoundDatagrams)] /\ tun \in Seq(Packets)
  BY DEF MeantInv, QueuesSound
<1>6. Append(queue[c], d) \in Seq(SoundDatagrams)
  BY <1>2, <1>3, <1>5, QueueFacts
<1>7. QueuesSound'
  BY <1>4, <1>5, <1>6 DEF QueuesSound
<1>8. ReadsSound'
  BY <1>4 DEF MeantInv, ReadsSound
<1> QED
  BY <1>7, <1>8

LEMMA MeantInvArrivePacket ==
    ASSUME MeantInv, NEW p \in Packets, ArrivePacket(p)
    PROVE  QueuesSound' /\ ReadsSound'
<1>1. tun \in Seq(Packets)
  BY DEF MeantInv, QueuesSound
<1>2. Append(tun, p) \in Seq(Packets)
  BY <1>1, QueueFacts
<1> QED
  BY <1>2 DEF MeantInv, QueuesSound, ReadsSound, ArrivePacket

LEMMA MeantInvStep ==
    ASSUME MeantInv, PathTypeOK', [PathNext]_pathVars
    PROVE  MeantInv'
<1>1. ASSUME UNCHANGED <<queue, tun, read>>
      PROVE  QueuesSound' /\ ReadsSound'
  BY <1>1 DEF MeantInv, QueuesSound, ReadsSound
<1>2. CASE UNCHANGED pathVars
  BY <1>1, <1>2 DEF pathVars, MeantInv
<1>3. ASSUME NEW t \in Task, GetBuffer(t)
      PROVE  QueuesSound' /\ ReadsSound'
  BY <1>1, <1>3 DEF GetBuffer
<1>4. ASSUME NEW c \in Loop, NothingReceived(c) \/ ReceiveFails(c)
      PROVE  QueuesSound' /\ ReadsSound'
  BY <1>1, <1>4 DEF NothingReceived, ReceiveFails
<1>5. ASSUME NothingRead
      PROVE  QueuesSound' /\ ReadsSound'
  BY <1>1, <1>5 DEF NothingRead
<1>6. CASE PathNext
  <2>1. QueuesSound' /\ ReadsSound'
    BY <1>3, <1>4, <1>5, <1>6, MeantInvReceive, MeantInvReadPacket, MeantInvArriveDatagram,
       MeantInvArrivePacket DEF PathNext, SocketReads
  <2> QED
    BY <2>1 DEF MeantInv
<1> QED
  BY <1>2, <1>6

LEMMA MeantInvariant == PathSpec => []MeantInv
<1>1. MeantInv /\ PathTypeOK' /\ [PathNext]_pathVars => MeantInv'
  BY MeantInvStep
<1> QED
  BY <1>1, MeantInvInit, BuffersKeepTheirLength, PTL DEF PathSpec

\* What is handed on of a datagram or of a packet is what was meant, field by
\* field, with addresses the router can read; and what does not fit a buffer is
\* dropped as a whole.  For messages of every content and size.
THEOREM HandedOnWholeOrNot == PathSpec => []WholeOrNothing
<1>1. MeantInv => WholeOrNothing
  BY DEF MeantInv, ReadsSound, ReadAsMeant, Sound, WholeOrNothing
<1> QED
  BY <1>1, MeantInvariant, PTL

\* However often a record was passed on, and over whatever relays, it leads to
\* where its origin is reached, and is a hello only at first hand.
THEOREM RecordsToldAsAnnounced == PathSpec => []ToldAsAnnounced
<1>1. ASSUME MeantInv, NEW r \in read, r.message.kind = "AddNode"
      PROVE  AsAnnounced(r.message.body, r.from)
  <2>1. ReadAsMeant(r)
    BY <1>1 DEF MeantInv, ReadsSound
  <2>2. r.message # DoNoting
    BY <1>1 DEF DoNoting
  <2> QED
    BY <1>1, <2>1, <2>2 DEF ReadAsMeant, Sound
<1>2. MeantInv => ToldAsAnnounced
  BY <1>1 DEF ToldAsAnnounced
<1> QED
  BY <1>2, MeantInvariant, PTL
=============================================================================
