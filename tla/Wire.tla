--------------------------------- MODULE Wire ---------------------------------
(***************************************************************************)
(* Messages as datagrams: src/internal/message.rs over the protobuf code   *)
(* generated from types/transport.proto, and the addresses the router      *)
(* reads from records and writes into them.                                *)
(*                                                                         *)
(* A byte string is what it is of and how many bytes it has.  A datagram   *)
(* is one field of Payload: its number, the length announced for the       *)
(* message in it and that message's own fields, of which zeros and empty   *)
(* strings are not written.  Sizes are counted byte by byte.               *)
(***************************************************************************)
EXTENDS Integers, Sequences, FiniteSets

CONSTANTS
    Content,    \* what byte strings are of: addresses, names, packets
    Ip6         \* the IP addresses of 16 octets; the others have 4

Empty == [of |-> "", len |-> 0]

ByteString == {Empty} \cup [of : Content, len : Nat \ {0}]

PortNumbers == 256 * 256

Port == 0 .. PortNumbers - 1

Address == [ip : Content, port : Port]

-----------------------------------------------------------------------------
(***************************************************************************)
(* Fields.  The values of a message are a tuple that has the field of      *)
(* number k at place k; its fields are those of them that are written.     *)
(***************************************************************************)

\* A negative number is written as one of 64 bits.
VarintSize(v) == IF v < 0 THEN 10 ELSE 1 + Cardinality({k \in 1 .. 4 : v >= 2^(7 * k)})

IntSize(v) == IF v = 0 THEN 0 ELSE 1 + VarintSize(v)
BytesSize(b) == IF b.len = 0 THEN 0 ELSE 1 + VarintSize(b.len) + b.len

IntField(v) == [int |-> v, bytes |-> Empty]
BytesField(b) == [int |-> 0, bytes |-> b]

Absent == [int |-> 0, bytes |-> Empty]

\* Zeros and empty strings are not written.
Written(values) ==
    [num \in {k \in DOMAIN values : values[k].int # 0 \/ values[k].bytes.len # 0} |-> values[num]]

\* Field num of a message; its default when there is none.
Field(fields, num) == IF num \in DOMAIN fields THEN fields[num] ELSE Absent

\* What a field takes on the wire, and the fields of a message, of numbers up to 8.
FieldSize(f) == IntSize(f.int) + BytesSize(f.bytes)

WrittenSize(fields) ==
    LET Size(num) == FieldSize(Field(fields, num))
    IN  Size(1) + Size(2) + Size(3) + Size(4) + Size(5) + Size(6) + Size(7) + Size(8)

-----------------------------------------------------------------------------
(***************************************************************************)
(* The three messages: their size as it is announced, their fields as they *)
(* are written, and what is read back.                                     *)
(***************************************************************************)
PackageShard == [ttl : Nat, package : ByteString]

ShardSize(m) == IntSize(m.ttl) + BytesSize(m.package)

WriteShard(m) == Written(<<IntField(m.ttl), BytesField(m.package)>>)

MergeShard(fs) == [ttl |-> Field(fs, 1).int, package |-> Field(fs, 2).bytes]

NodeRecord ==
    [sub_net : ByteString, net_mask : Nat, name : ByteString, jump : Int,
     real_ip : ByteString, port : Int]

\* Mutant: the size of a negative jump is forgotten.
NodeSizePositiveJump(n) ==
    BytesSize(n.sub_net) + IntSize(n.net_mask) + BytesSize(n.name)
    + (IF n.jump > 0 THEN IntSize(n.jump) ELSE 0) + BytesSize(n.real_ip) + IntSize(n.port)

NodeSize(n) ==
    BytesSize(n.sub_net) + IntSize(n.net_mask) + BytesSize(n.name)
    + IntSize(n.jump) + BytesSize(n.real_ip) + IntSize(n.port)

\* Numbers 3 and 4 are not in use.
WriteNode(n) ==
    Written(<<BytesField(n.sub_net), IntField(n.net_mask), Absent, Absent,
              BytesField(n.name), IntField(n.jump), BytesField(n.real_ip), IntField(n.port)>>)

MergeNode(fs) ==
    [sub_net |-> Field(fs, 1).bytes, net_mask |-> Field(fs, 2).int,
     name |-> Field(fs, 5).bytes, jump |-> Field(fs, 6).int,
     real_ip |-> Field(fs, 7).bytes, port |-> Field(fs, 8).int]

PingPong == [name : ByteString]

PingSize(m) == BytesSize(m.name)

WritePing(m) == Written(<<BytesField(m.name)>>)

MergePing(fs) == [name |-> Field(fs, 1).bytes]

-----------------------------------------------------------------------------
(***************************************************************************)
(* Payload and Message.  A message here is the kind that its Read and its  *)
(* Write variant have in common, and its body.                             *)
(***************************************************************************)
Messages ==
    [kind : {"PackageShare"}, body : PackageShard]
    \cup [kind : {"AddNode", "DelNode"}, body : NodeRecord]
    \cup [kind : {"PingPong"}, body : PingPong]

DoNoting == [kind |-> "DoNoting", body |-> [name |-> Empty]]

\* The number of each kind in the oneof of Payload.
PayloadNumber == [PackageShare |-> 1, AddNode |-> 3, DelNode |-> 4, PingPong |-> 7]

PayloadLength(m) ==
    CASE m.kind = "PackageShare" -> ShardSize(m.body)
      [] m.kind \in {"AddNode", "DelNode"} -> NodeSize(m.body)
      [] m.kind = "PingPong" -> PingSize(m.body)

WritePayload(m) ==
    [num    |-> PayloadNumber[m.kind],
     length |-> PayloadLength(m),
     fields |-> CASE m.kind = "PackageShare" -> WriteShard(m.body)
                  [] m.kind \in {"AddNode", "DelNode"} -> WriteNode(m.body)
                  [] m.kind = "PingPong" -> WritePing(m.body)]

MergePayload(d) ==
    CASE d.num = 1 -> [kind |-> "PackageShare", body |-> MergeShard(d.fields)]
      [] d.num = 3 -> [kind |-> "AddNode", body |-> MergeNode(d.fields)]
      [] d.num = 4 -> [kind |-> "DelNode", body |-> MergeNode(d.fields)]
      [] d.num = 7 -> [kind |-> "PingPong", body |-> MergePing(d.fields)]

\* How many bytes datagram d has.
DatagramSize(d) == 1 + VarintSize(d.length) + WrittenSize(d.fields)

\* Message::write_bytes.
WriteBytes(m) == WritePayload(m)

\* Message::from_protobuf of the first size bytes of a datagram: a message that
\* is shorter or longer than its announced length does not decode.
FromProtobuf(d, size) ==
    IF size < DatagramSize(d) \/ d.length # WrittenSize(d.fields)
    THEN DoNoting ELSE MergePayload(d)

-----------------------------------------------------------------------------
(***************************************************************************)
(* The records of the router.                                              *)
(***************************************************************************)

\* SELF_SHARE and SELF_INIT.
SelfShare(me) ==
    [sub_net |-> me.sub_net, net_mask |-> me.net_mask, name |-> me.name, jump |-> 0,
     real_ip |-> Empty, port |-> 0]

SelfInit(me) == [SelfShare(me) EXCEPT !.jump = -1]

\* parse_ip and read_ip, which takes 4 or 16 bytes.
ParseIp(ip) == [of |-> ip, len |-> IF ip \in Ip6 THEN 16 ELSE 4]

IsIp(b) == b.len \in {4, 16}

ReadIp(b) == b.of

\* Where the node of a record that came from address from is to be reached:
\* the port of the record is cut to 16 bits.
Source(node, from) ==
    IF node.real_ip.len = 0 THEN from
    ELSE [ip |-> ReadIp(node.real_ip), port |-> node.port % PortNumbers]

\* Mutant: the port of a forwarded record is overwritten by the relay's.
ForwardedRelayPort(node, from) ==
    [node EXCEPT !.jump = (IF @ = -1 THEN 0 ELSE @) + 1,
                 !.real_ip = ParseIp(Source(node, from).ip),
                 !.port = from.port]

\* The record as it is announced to the other nodes.
Forwarded(node, from) ==
    [node EXCEPT !.jump = (IF @ = -1 THEN 0 ELSE @) + 1,
                 !.real_ip = ParseIp(Source(node, from).ip),
                 !.port = Source(node, from).port]

\* Package::destination_address finds a header as long as it asserts.
HasHeader(p) == p.len >= (IF p.of = "ipv6" THEN 40 ELSE 20)
=============================================================================
