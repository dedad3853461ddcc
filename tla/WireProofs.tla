------------------------------ MODULE WireProofs ------------------------------
(***************************************************************************)
(* Proofs about the encoding of Wire, for every content and every size.    *)
(***************************************************************************)
EXTENDS Wire, FiniteSetTheorems, TLAPS

LEMMA VarintSizeType ==
    ASSUME NEW v \in Int
    PROVE  VarintSize(v) \in Nat
<1> DEFINE Sevens == {k \in 1 .. 4 : v >= 2^(7 * k)}
<1>1. IsFiniteSet(1 .. 4)
  BY 1 \in Int, 4 \in Int, FS_Interval
<1>2. Sevens \subseteq 1 .. 4
  OBVIOUS
<1>3. IsFiniteSet(Sevens)
  BY <1>1, <1>2, FS_Subset
<1>4. Cardinality(Sevens) \in Nat
  BY <1>3, FS_CardinalityType
<1> QED
  BY <1>4 DEF VarintSize

LEMMA ByteStringFacts ==
    ASSUME NEW b \in ByteString
    PROVE  /\ b.len \in Nat
           /\ b = [of |-> b.of, len |-> b.len]
           /\ b.len = 0 => b = Empty
           /\ b.len # 0 => b.of \in Content
<1>1. CASE b = Empty
  BY <1>1 DEF Empty
<1>2. CASE b \in [of : Content, len : Nat \ {0}]
  BY <1>2
<1> QED
  BY <1>1, <1>2 DEF ByteString

LEMMA IntSizeType ==
    ASSUME NEW v \in Int
    PROVE  IntSize(v) \in Nat
BY VarintSizeType DEF IntSize

LEMMA BytesSizeType ==
    ASSUME NEW b \in ByteString
    PROVE  BytesSize(b) \in Nat
<1>1. b.len \in Nat
  BY ByteStringFacts
<1>2. VarintSize(b.len) \in Nat
  BY <1>1, VarintSizeType
<1> QED
  BY <1>1, <1>2 DEF BytesSize

LEMMA FieldSizes ==
    /\ FieldSize(Absent) = 0
    /\ \A v \in Int : FieldSize(IntField(v)) = IntSize(v)
    /\ \A b \in ByteString : FieldSize(BytesField(b)) = BytesSize(b)
<1>1. BytesSize(Empty) = 0 /\ IntSize(0) = 0
  BY DEF BytesSize, Empty, IntSize
<1>2. FieldSize(Absent) = 0
  BY <1>1 DEF FieldSize, Absent
<1>3. \A v \in Int : FieldSize(IntField(v)) = IntSize(v)
  BY <1>1, IntSizeType DEF FieldSize, IntField
<1>4. \A b \in ByteString : FieldSize(BytesField(b)) = BytesSize(b)
  BY <1>1, BytesSizeType DEF FieldSize, BytesField
<1> QED
  BY <1>2, <1>3, <1>4

\* A value that is not written is the default it is read back as.
FieldValues ==
    {Absent} \cup {IntField(v) : v \in Int} \cup {BytesField(b) : b \in ByteString}

LEMMA UnwrittenIsDefault ==
    ASSUME NEW f \in FieldValues, f.int = 0, f.bytes.len = 0
    PROVE  f = Absent
<1>1. CASE f = Absent
  BY <1>1
<1>2. ASSUME NEW v \in Int, f = IntField(v)
      PROVE  f = Absent
  BY <1>2 DEF IntField, Absent
<1>3. ASSUME NEW b \in ByteString, f = BytesField(b)
      PROVE  f = Absent
  <2>1. f.bytes = b
    BY <1>3 DEF BytesField
  <2>2. b = Empty
    BY <2>1, ByteStringFacts
  <2> QED
    BY <1>3, <2>2 DEF BytesField, Absent
<1> QED
  BY <1>1, <1>2, <1>3 DEF FieldValues

LEMMA ReadsWhatWasWritten ==
    ASSUME NEW values, NEW num, num \in DOMAIN values => values[num] \in FieldValues
    PROVE  Field(Written(values), num) =
               IF num \in DOMAIN values THEN values[num] ELSE Absent
<1> DEFINE fields == Written(values)
<1>1. DOMAIN fields =
          {k \in DOMAIN values : values[k].int # 0 \/ values[k].bytes.len # 0}
  BY DEF Written
<1>2. CASE num \in DOMAIN fields
  <2>1. fields[num] = values[num]
    BY <1>2 DEF Written
  <2> QED
    BY <1>1, <1>2, <2>1 DEF Field
<1>3. CASE num \notin DOMAIN fields
  <2>1. Field(fields, num) = Absent
    BY <1>3 DEF Field
  <2>2. num \in DOMAIN values => values[num] = Absent
    BY <1>1, <1>3, UnwrittenIsDefault
  <2> QED
    BY <2>1, <2>2
<1> QED
  BY <1>2, <1>3

LEMMA FieldsAreValues ==
    /\ Absent \in FieldValues
    /\ \A v \in Int : IntField(v) \in FieldValues
    /\ \A b \in ByteString : BytesField(b) \in FieldValues
BY DEF FieldValues

-----------------------------------------------------------------------------
(***************************************************************************)
(* Each message: its announced size is what its fields take, and it is     *)
(* read back as it was written.                                            *)
(***************************************************************************)

LEMMA ShardRoundTrip ==
    ASSUME NEW m \in PackageShard
    PROVE  WrittenSize(WriteShard(m)) = ShardSize(m) /\ MergeShard(WriteShard(m)) = m
<1> DEFINE values == <<IntField(m.ttl), BytesField(m.package)>>
           fields == Written(values)
<1>1. m.ttl \in Nat /\ m.package \in ByteString
      /\ m = [ttl |-> m.ttl, package |-> m.package]
  BY DEF PackageShard
<1>2. DOMAIN values = 1 .. 2 /\ values[1] = IntField(m.ttl) /\ values[2] = BytesField(m.package)
  OBVIOUS
<1>3. values[1] \in FieldValues /\ values[2] \in FieldValues
  BY <1>1, <1>2, FieldsAreValues
<1> HIDE DEF values
<1>4. /\ Field(fields, 1) = IntField(m.ttl)
      /\ Field(fields, 2) = BytesField(m.package)
      /\ \A num \in 3 .. 8 : Field(fields, num) = Absent
  BY <1>2, <1>3, ReadsWhatWasWritten
<1>5. WriteShard(m) = fields
  BY DEF WriteShard, values
<1> HIDE DEF fields
<1>6. MergeShard(fields) = m
  BY <1>1, <1>4 DEF MergeShard, IntField, BytesField
<1>7. /\ FieldSize(Field(fields, 1)) = IntSize(m.ttl)
      /\ FieldSize(Field(fields, 2)) = BytesSize(m.package)
      /\ \A num \in 3 .. 8 : FieldSize(Field(fields, num)) = 0
  BY <1>1, <1>4, FieldSizes
<1>8. IntSize(m.ttl) \in Nat /\ BytesSize(m.package) \in Nat
  BY <1>1, IntSizeType, BytesSizeType
<1>9. WrittenSize(fields) = ShardSize(m)
  BY <1>7, <1>8 DEF WrittenSize, ShardSize
<1> QED
  BY <1>5, <1>6, <1>9

LEMMA NodeRoundTrip ==
    ASSUME NEW n \in NodeRecord
    PROVE  WrittenSize(WriteNode(n)) = NodeSize(n) /\ MergeNode(WriteNode(n)) = n
<1> DEFINE values == <<BytesField(n.sub_net), IntField(n.net_mask), Absent, Absent,
                       BytesField(n.name), IntField(n.jump), BytesField(n.real_ip),
                       IntField(n.port)>>
           fields == Written(values)
<1>1. /\ n.sub_net \in ByteString /\ n.net_mask \in Int /\ n.name \in ByteString
      /\ n.jump \in Int /\ n.real_ip \in ByteString /\ n.port \in Int
      /\ n = [sub_net |-> n.sub_net, net_mask |-> n.net_mask, name |-> n.name,
              jump |-> n.jump, real_ip |-> n.real_ip, port |-> n.port]
  BY DEF NodeRecord
<1>2. /\ DOMAIN values = 1 .. 8
      /\ values[1] = BytesField(n.sub_net) /\ values[2] = IntField(n.net_mask)
      /\ values[3] = Absent /\ values[4] = Absent
      /\ values[5] = BytesField(n.name) /\ values[6] = IntField(n.jump)
      /\ values[7] = BytesField(n.real_ip) /\ values[8] = IntField(n.port)
  OBVIOUS
<1> HIDE DEF values
<1>3. /\ values[1] \in FieldValues /\ values[2] \in FieldValues
      /\ values[3] \in FieldValues /\ values[4] \in FieldValues
      /\ values[5] \in FieldValues /\ values[6] \in FieldValues
      /\ values[7] \in FieldValues /\ values[8] \in FieldValues
  BY <1>1, <1>2, FieldsAreValues
<1>4. /\ Field(fields, 1) = BytesField(n.sub_net)
      /\ Field(fields, 2) = IntField(n.net_mask)
      /\ Field(fields, 3) = Absent
      /\ Field(fields, 4) = Absent
      /\ Field(fields, 5) = BytesField(n.name)
      /\ Field(fields, 6) = IntField(n.jump)
      /\ Field(fields, 7) = BytesField(n.real_ip)
      /\ Field(fields, 8) = IntField(n.port)
  BY <1>2, <1>3, ReadsWhatWasWritten
<1>5. WriteNode(n) = fields
  BY DEF WriteNode, values
<1> HIDE DEF fields
<1>6. MergeNode(fields) = n
  BY <1>1, <1>4 DEF MergeNode, IntField, BytesField
<1>7. /\ FieldSize(Field(fields, 1)) = BytesSize(n.sub_net)
      /\ FieldSize(Field(fields, 2)) = IntSize(n.net_mask)
      /\ FieldSize(Field(fields, 3)) = 0
      /\ FieldSize(Field(fields, 4)) = 0
      /\ FieldSize(Field(fields, 5)) = BytesSize(n.name)
      /\ FieldSize(Field(fields, 6)) = IntSize(n.jump)
      /\ FieldSize(Field(fields, 7)) = BytesSize(n.real_ip)
      /\ FieldSize(Field(fields, 8)) = IntSize(n.port)
  BY <1>1, <1>4, FieldSizes
<1>8. /\ BytesSize(n.sub_net) \in Nat /\ IntSize(n.net_mask) \in Nat
      /\ BytesSize(n.name) \in Nat /\ IntSize(n.jump) \in Nat
      /\ BytesSize(n.real_ip) \in Nat /\ IntSize(n.port) \in Nat
  BY <1>1, IntSizeType, BytesSizeType
<1>9. WrittenSize(fields) = NodeSize(n)
  BY <1>7, <1>8 DEF WrittenSize, NodeSize
<1> QED
  BY <1>5, <1>6, <1>9

LEMMA PingRoundTrip ==
    ASSUME NEW m \in PingPong
    PROVE  WrittenSize(WritePing(m)) = PingSize(m) /\ MergePing(WritePing(m)) = m
<1> DEFINE values == <<BytesField(m.name)>>
           fields == Written(values)
<1>1. m.name \in ByteString /\ m = [name |-> m.name]
  BY DEF PingPong
<1>2. DOMAIN values = 1 .. 1 /\ values[1] = BytesField(m.name)
  OBVIOUS
<1>3. values[1] \in FieldValues
  BY <1>1, <1>2, FieldsAreValues
<1> HIDE DEF values
<1>4. Field(fields, 1) = BytesField(m.name) /\ \A num \in 2 .. 8 : Field(fields, num) = Absent
  BY <1>2, <1>3, ReadsWhatWasWritten
<1>5. WritePing(m) = fields
  BY DEF WritePing, values
<1> HIDE DEF fields
<1>6. MergePing(fields) = m
  BY <1>1, <1>4 DEF MergePing, BytesField
<1>7. /\ FieldSize(Field(fields, 1)) = BytesSize(m.name)
      /\ \A num \in 2 .. 8 : FieldSize(Field(fields, num)) = 0
  BY <1>1, <1>4, FieldSizes
<1>8. BytesSize(m.name) \in Nat
  BY <1>1, BytesSizeType
<1>9. WrittenSize(fields) = PingSize(m)
  BY <1>7, <1>8 DEF WrittenSize, PingSize
<1> QED
  BY <1>5, <1>6, <1>9

-----------------------------------------------------------------------------
\* Whatever Message::write_bytes writes of a message of the protocol,
\* Message::from_protobuf reads back as that message when all of its bytes are
\* there, and as no message at all when they are not: for every content, every
\* size and every number, negative ones included.
THEOREM RoundTrip ==
    ASSUME NEW m \in Messages, NEW size \in Nat
    PROVE  FromProtobuf(WriteBytes(m), size) =
               IF size < DatagramSize(WriteBytes(m)) THEN DoNoting ELSE m
<1> DEFINE d == WriteBytes(m)
<1>1. m = [kind |-> m.kind, body |-> m.body]
  BY DEF Messages
<1>2. d.length = WrittenSize(d.fields) /\ MergePayload(d) = m
  <2>1. CASE m.kind = "PackageShare" /\ m.body \in PackageShard
    <3>1. d = [num |-> 1, length |-> ShardSize(m.body), fields |-> WriteShard(m.body)]
      BY <2>1 DEF WriteBytes, WritePayload, PayloadNumber, PayloadLength
    <3>2. d.length = WrittenSize(d.fields)
      BY <2>1, <3>1, ShardRoundTrip
    <3>3. MergeShard(d.fields) = m.body
      BY <2>1, <3>1, ShardRoundTrip
    <3> QED
      BY <1>1, <2>1, <3>1, <3>2, <3>3 DEF MergePayload
  <2>2. CASE m.kind = "AddNode" /\ m.body \in NodeRecord
    <3>1. d = [num |-> 3, length |-> NodeSize(m.body), fields |-> WriteNode(m.body)]
      BY <2>2 DEF WriteBytes, WritePayload, PayloadNumber, PayloadLength
    <3>2. d.length = WrittenSize(d.fields)
      BY <2>2, <3>1, NodeRoundTrip
    <3>3. MergeNode(d.fields) = m.body
      BY <2>2, <3>1, NodeRoundTrip
    <3> QED
      BY <1>1, <2>2, <3>1, <3>2, <3>3 DEF MergePayload
  <2>3. CASE m.kind = "DelNode" /\ m.body \in NodeRecord
    <3>1. d = [num |-> 4, length |-> NodeSize(m.body), fields |-> WriteNode(m.body)]
      BY <2>3 DEF WriteBytes, WritePayload, PayloadNumber, PayloadLength
    <3>2. d.length = WrittenSize(d.fields)
      BY <2>3, <3>1, NodeRoundTrip
    <3>3. MergeNode(d.fields) = m.body
      BY <2>3, <3>1, NodeRoundTrip
    <3> QED
      BY <1>1, <2>3, <3>1, <3>2, <3>3 DEF MergePayload
  <2>4. CASE m.kind = "PingPong" /\ m.body \in PingPong
    <3>1. d = [num |-> 7, length |-> PingSize(m.body), fields |-> WritePing(m.body)]
      BY <2>4 DEF WriteBytes, WritePayload, PayloadNumber, PayloadLength
    <3>2. d.length = WrittenSize(d.fields)
      BY <2>4, <3>1, PingRoundTrip
    <3>3. MergePing(d.fields) = m.body
      BY <2>4, <3>1, PingRoundTrip
    <3> QED
      BY <1>1, <2>4, <3>1, <3>2, <3>3 DEF MergePayload
  <2> QED
    BY <2>1, <2>2, <2>3, <2>4 DEF Messages
<1> HIDE DEF d
<1>3. FromProtobuf(d, size) = IF size < DatagramSize(d) THEN DoNoting ELSE m
  BY <1>2 DEF FromProtobuf
<1> QED
  BY <1>3 DEF d

-----------------------------------------------------------------------------
(***************************************************************************)
(* The records of the router.                                              *)
(***************************************************************************)

LEMMA ParseIpFacts ==
    ASSUME NEW ip \in Content
    PROVE  ParseIp(ip) \in ByteString /\ IsIp(ParseIp(ip)) /\ ParseIp(ip).of = ip
           /\ ParseIp(ip).len # 0
BY DEF ParseIp, ByteString, IsIp

LEMMA PortFits ==
    /\ \A port \in Int : port % PortNumbers \in Port
    /\ \A port \in Port : port % PortNumbers = port /\ port \in Int
<1>1. PortNumbers \in Nat /\ PortNumbers > 0
  BY DEF PortNumbers
<1> QED
  BY <1>1 DEF Port

LEMMA AddressFacts ==
    /\ \A a \in Address : /\ a = [ip |-> a.ip, port |-> a.port]
                          /\ a.ip \in Content
                          /\ a.port \in Port
    /\ \A ip \in Content, port \in Port : [ip |-> ip, port |-> port] \in Address
BY DEF Address

LEMMA NodeFacts ==
    /\ \A n \in NodeRecord :
          /\ n = [sub_net |-> n.sub_net, net_mask |-> n.net_mask, name |-> n.name,
                  jump |-> n.jump, real_ip |-> n.real_ip, port |-> n.port]
          /\ n.sub_net \in ByteString /\ n.net_mask \in Nat /\ n.name \in ByteString
          /\ n.jump \in Int /\ n.real_ip \in ByteString /\ n.port \in Int
    /\ \A s, p, q \in ByteString, k \in Nat, i, j \in Int :
          [sub_net |-> s, net_mask |-> k, name |-> p, jump |-> i, real_ip |-> q, port |-> j]
              \in NodeRecord
BY DEF NodeRecord

LEMMA SourceIsAddress ==
    ASSUME NEW n \in NodeRecord, NEW from \in Address
    PROVE  Source(n, from) \in Address
<1>1. n.real_ip \in ByteString /\ n.port \in Int
  BY NodeFacts
<1>2. n.port % PortNumbers \in Port
  BY <1>1, PortFits
<1>3. n.real_ip.len # 0 => n.real_ip.of \in Content
  BY <1>1, ByteStringFacts
<1>4. n.real_ip.len # 0 =>
          [ip |-> ReadIp(n.real_ip), port |-> n.port % PortNumbers] \in Address
  BY <1>2, <1>3, AddressFacts DEF ReadIp
<1> QED
  BY <1>4 DEF Source

\* A record that is passed on leads, over any relay, to where it led before.
LEMMA ForwardedLeadsToSource ==
    ASSUME NEW n \in NodeRecord, NEW from \in Address, n.jump >= -1
    PROVE  /\ Forwarded(n, from) \in NodeRecord
           /\ IsIp(Forwarded(n, from).real_ip)
           /\ Forwarded(n, from).jump >= 1
           /\ Forwarded(n, from).sub_net = n.sub_net
           /\ Forwarded(n, from).net_mask = n.net_mask
           /\ Forwarded(n, from).name = n.name
           /\ \A relay : Source(Forwarded(n, from), relay) = Source(n, from)
<1> DEFINE s == Source(n, from)
           f == Forwarded(n, from)
<1>1. s \in Address
  BY SourceIsAddress
<1>2. s = [ip |-> s.ip, port |-> s.port] /\ s.ip \in Content /\ s.port \in Port
  BY <1>1, AddressFacts
<1>3. ParseIp(s.ip) \in ByteString /\ IsIp(ParseIp(s.ip)) /\ ParseIp(s.ip).of = s.ip
      /\ ParseIp(s.ip).len # 0
  BY <1>2, ParseIpFacts
<1>4. n = [sub_net |-> n.sub_net, net_mask |-> n.net_mask, name |-> n.name,
           jump |-> n.jump, real_ip |-> n.real_ip, port |-> n.port]
      /\ n.sub_net \in ByteString /\ n.net_mask \in Nat /\ n.name \in ByteString
      /\ n.jump \in Int
  BY NodeFacts
<1>5. f = [n EXCEPT !.jump = (IF @ = -1 THEN 0 ELSE @) + 1,
                    !.real_ip = ParseIp(s.ip), !.port = s.port]
  BY DEF Forwarded
<1> HIDE DEF s, f
<1>6. f = [sub_net |-> n.sub_net, net_mask |-> n.net_mask, name |-> n.name,
           jump |-> (IF n.jump = -1 THEN 0 ELSE n.jump) + 1,
           real_ip |-> ParseIp(s.ip), port |-> s.port]
  BY <1>4, <1>5
<1>7. s.port \in Int /\ (IF n.jump = -1 THEN 0 ELSE n.jump) + 1 \in Int
  BY <1>2, <1>4, PortFits
<1>8. f \in NodeRecord
  BY <1>3, <1>4, <1>6, <1>7, NodeFacts
<1>9. f.jump >= 1
  BY <1>4, <1>6
<1>10. \A relay : Source(f, relay) = s
  <2>1. s.port % PortNumbers = s.port
    BY <1>2, PortFits
  <2>2. f.real_ip.len # 0 /\ ReadIp(f.real_ip) = s.ip /\ f.port = s.port
    BY <1>3, <1>6 DEF ReadIp
  <2> QED
    BY <1>2, <2>1, <2>2 DEF Source
<1>11. /\ IsIp(f.real_ip) /\ f.sub_net = n.sub_net /\ f.net_mask = n.net_mask
       /\ f.name = n.name
  BY <1>3, <1>6
<1> QED
  BY <1>8, <1>9, <1>10, <1>11 DEF f, s
=============================================================================
