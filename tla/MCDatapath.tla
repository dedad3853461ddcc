------------------------------ MODULE MCDatapath ------------------------------
(***************************************************************************)
(* Instance of Datapath for TLC.                                           *)
(***************************************************************************)
EXTENDS Datapath

Bytes(of, len) == [of |-> of, len |-> len]

\* A node of the example configuration, and one at the edges: an IPv6 address,
\* the highest port, the mask 0, the longest name that still has a one-byte
\* length.
MCOrigins == {
    [sub_net |-> Bytes("10.1.0.1", 4), net_mask |-> 24, name |-> Bytes("node0", 5),
     addr |-> [ip |-> "192.168.56.3", port |-> 5432]],
    [sub_net |-> Bytes("0.0.0.0", 4), net_mask |-> 0, name |-> Bytes("node1", 127),
     addr |-> [ip |-> "fe80::1", port |-> 65535]] }

MCIp6 == {"fe80::1", "fe80::2"}

MCContent ==
    MCIp6 \cup {"192.168.56.3", "192.168.56.4", "10.1.0.1", "0.0.0.0", "node0", "node1",
                "ipv4", "ipv6"}

\* One relay for each family.
MCRelays == {[ip |-> "192.168.56.4", port |-> 5432], [ip |-> "fe80::2", port |-> 7654]}

\* The shortest packet, the longest one whose datagram fits, the next one, and
\* the longest one there is when the interface keeps an mtu of 1500.
MCPackets == {Bytes("ipv4", 20), Bytes("ipv6", 1492), Bytes("ipv4", 1493), Bytes("ipv6", 1500)}

MCOthers == {
    [kind |-> "PingPong", body |-> [name |-> Bytes("node0", 5)]],
    [kind |-> "DelNode",
     body |-> [sub_net |-> Bytes("10.1.0.1", 4), net_mask |-> 24, name |-> Bytes("node0", 5),
               jump |-> 0, real_ip |-> Bytes("", 0), port |-> 0]] }
=============================================================================
