------------------------------ MODULE SubnetKeys ------------------------------
(***************************************************************************)
(* The routing table as the program stores it: src/router/table.rs, with   *)
(* encode_bytes, split_u8 and the cut to mask bits that make an address    *)
(* and a mask a key, over the heaps of PeerHeap.                           *)
(*                                                                         *)
(* An address is a record of its family and its octets.  What find answers *)
(* is compared with what routing by subnets means, worked out from the     *)
(* announcements by arithmetic on octets, without keys; and the table is   *)
(* shown to implement RouteTable, which the models of the mesh use.        *)
(***************************************************************************)
EXTENDS PeerHeap

CONSTANTS
    Announced,    \* what may be inserted: records of net, mask, name and host
    Asked,        \* the destination addresses that are looked up
    MaxInserts    \* bound: how many announcements are made

Ip == [family : {4}, octets : [1 .. 4 -> 0 .. 255]] \cup [family : {6}, octets : [1 .. 16 -> 0 .. 255]]

ASSUME KeysAssumption ==
    /\ \A e \in Announced :
          e.net \in Ip /\ e.mask \in 0 .. 8 * Len(e.net.octets) /\ e.host \in Addr \cup {Localhost}
    /\ Asked \subseteq Ip
    /\ MaxInserts \in Nat

VARIABLES
    table,        \* the tables of both families: from keys to peers with heaps
    announced     \* the announcements in effect, each with those in effect
                  \* when it came (history)

keyVars == <<table, announced>>

-----------------------------------------------------------------------------
\* split_u8: the bits of an octet, the highest first.
SplitU8(u) ==
    <<u \div 128, (u \div 64) % 2, (u \div 32) % 2, (u \div 16) % 2,
      (u \div 8) % 2, (u \div 4) % 2, (u \div 2) % 2, u % 2>>

\* encode_bytes, after the family.
EncodeBytes(ip) ==
    [i \in 1 .. 1 + 8 * Len(ip.octets) |->
        IF i = 1 THEN ip.family
        ELSE SplitU8(ip.octets[1 + ((i - 2) \div 8)])[1 + ((i - 2) % 8)]]

\* Mutant: the mask is rounded up to whole octets.
KeyByOctets(net, mask) == SubSeq(EncodeBytes(net), 1, 1 + 8 * ((mask + 7) \div 8))

\* The key of a subnet: what is left of its address after set_len(mask).
Key(net, mask) == SubSeq(EncodeBytes(net), 1, 1 + mask)

\* The keys of the announcements and the bits of the destinations.
KeyOf == [e \in Announced |-> Key(e.net, e.mask)]
BitsOf == [ip \in Asked |-> EncodeBytes(ip)]

\* The table already has the host of announcement e under its key.
Has(e) == KeyOf[e] \in DOMAIN table /\ e.host \in HostsOf(table[KeyOf[e]])

\* Table::find and Peer::get_host; Unreachable also when nothing is found.
Find(ip) ==
    LET found == LongestMatch(table, BitsOf[ip])
    IN  IF found = {} THEN Unreachable ELSE GetHost(table[CHOOSE k \in found : TRUE])

-----------------------------------------------------------------------------
\* What numbers of eight bits have in common that agree in the r high ones.
HighBits(u, r) == u \div <<128, 64, 32, 16, 8, 4, 2>>[r]

\* Address ip lies in the subnet net/mask: they agree in the octets the mask
\* fills and in the high bits of the one it splits.
Holds(net, mask, ip) ==
    LET whole == mask \div 8
        split == mask % 8
    IN  /\ net.family = ip.family
        /\ \A i \in 1 .. whole : net.octets[i] = ip.octets[i]
        /\ split # 0 =>
              HighBits(net.octets[whole + 1], split) = HighBits(ip.octets[whole + 1], split)

\* The announcements of the smallest subnet that holds ip.
MostSpecific(ip) ==
    LET holding == {e \in DOMAIN announced : Holds(e.net, e.mask, ip)}
    IN  {e \in holding : \A f \in holding : f.mask <= e.mask}

\* The announcements among es that came before all others.
First(es) == {e \in es : announced[e] \cap es = {}}

\* Where a packet for ip is to go: to the interface if the smallest subnet that
\* holds it is the node's own, else to who announced it first.
Wanted(ip) ==
    LET es == MostSpecific(ip)
    IN  IF es = {} THEN {Unreachable}
        ELSE IF \E e \in es : e.host = Localhost THEN {Localhost}
        ELSE {e.host : e \in First(es)}

-----------------------------------------------------------------------------
Init == table = EmptyTable /\ announced = << >>

\* Table::insert answers Ok: the name is kept only when the key is new.
Announce(e) ==
    /\ Cardinality(DOMAIN announced) < MaxInserts
    /\ ~Has(e)
    /\ LET k == KeyOf[e]
           peer == IF k \in DOMAIN table THEN table[k] ELSE EmptyPeer(e.name)
       IN  table' = [j \in DOMAIN table \cup {k} |-> IF j = k THEN Gain(peer, e.host) ELSE table[j]]
    /\ announced' = [o \in DOMAIN announced \cup {e} |->
                        IF o = e THEN DOMAIN announced ELSE announced[o]]

\* Table::insert answers Err.
Repeat(e) ==
    /\ Has(e)
    /\ table' = [table EXCEPT ![KeyOf[e]] = GainAgain(@, e.host)]
    /\ UNCHANGED announced

\* Table::delete of a key that is there.
Withdraw(e) ==
    /\ KeyOf[e] \in DOMAIN table
    /\ table' = Delete(table, KeyOf[e])
    /\ LET left == {o \in DOMAIN announced : ~(o.mask = e.mask /\ Holds(e.net, e.mask, o.net))}
       IN  announced' = [o \in left |-> announced[o] \cap left]

Next == \E e \in Announced : Announce(e) \/ Repeat(e) \/ Withdraw(e)

Spec == Init /\ [][Next]_keyVars

-----------------------------------------------------------------------------
\* A key is a family and bits; the hosts of its peer are those announced for
\* it, each once, in an array that is a heap.
KeysTypeOK ==
    \A k \in DOMAIN table :
        /\ k[1] \in {4, 6} /\ \A i \in 2 .. Len(k) : k[i] \in {0, 1}
        /\ IsHeap(table[k].heap)
        /\ HostsOf(table[k]) = {e.host : e \in {f \in DOMAIN announced : KeyOf[f] = k}}

\* The trie of bits finds what routing by subnets asks for, whatever host bits
\* the announced addresses carry, whatever order they came in, and after any
\* of them was deleted: of the hosts of one subnet the interface wins, then the
\* one that was announced first.
FindsSubnet == \A ip \in Asked : {Find(ip)} = Wanted(ip)

\* The table RouteTable sees.
TableView == [k \in DOMAIN table |-> PeerView(table[k])]

\* The table implements RouteTable: however the hosts lie in the arrays of the
\* heaps, each step is an Insert or a Delete there, or nothing.  A socket pushed
\* later never takes the top from one pushed earlier, even when that one was
\* announced again and again.
KeepsTable ==
    [][\/ TableView' = TableView
       \/ \E e \in Announced :
              \/ /\ ~Known(TableView, KeyOf[e], e.host)
                 /\ TableView' = Insert(TableView, KeyOf[e], e.name, e.host)
              \/ TableView' = Delete(TableView, KeyOf[e])]_keyVars
=============================================================================
