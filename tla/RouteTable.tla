------------------------------ MODULE RouteTable ------------------------------
(***************************************************************************)
(* The routing table of one node: src/router/table.rs (a radix trie from   *)
(* bit strings to peers) over src/router/peer.rs (a peer and the binary    *)
(* heap of the hosts it may be reached at).                                *)
(*                                                                         *)
(* A key is a sequence: the address family, then the first net_mask bits   *)
(* of the subnet.  The router keeps one trie per family; with the family   *)
(* as the first element of every key and of every destination the two      *)
(* tries are one function and no key of one family is ever a prefix of a   *)
(* destination of the other.                                               *)
(*                                                                         *)
(* The binary heap of a peer is seen by the rest of the program only       *)
(* through peek(), push() and a membership scan, so a peer is the set of   *)
(* its hosts and the one on top.  push() sifts a new host up past smaller  *)
(* ones only, so an equal host never replaces the top.                     *)
(* Module SubnetKeys has the heaps and keys themselves and implements it.  *)
(***************************************************************************)
EXTENDS Naturals, Sequences, SequencesExt

CONSTANTS
    Addr,         \* the socket addresses (IP and port)
    Localhost,    \* Host::Localhost
    Unreachable   \* Host::Unreachable

ASSUME HostsDistinct ==
    Localhost \notin Addr /\ Unreachable \notin Addr /\ Localhost # Unreachable

Host == Addr \cup {Localhost, Unreachable}

-----------------------------------------------------------------------------
(***************************************************************************)
(* Peers.                                                                  *)
(***************************************************************************)

\* Mutant: Localhost and sockets the wrong way round.
OutranksReversed(h, g) == (h \in Addr /\ g \notin Addr) \/ (h = Localhost /\ g = Unreachable)

\* h is strictly greater than g in the order of the heap.  The rank of a
\* socket is 1 for ever: add_host increments a copy of it.
Outranks(h, g) ==
    \/ h = Localhost /\ g # Localhost
    \/ h \in Addr /\ g = Unreachable

\* Peer::new: no host yet, and get_host answers Unreachable.
NewPeer(name) == [name |-> name, hosts |-> {}, top |-> Unreachable]

\* Mutant: the newest host wins a tie.
AddHostNewestWins(peer, host) ==
    [peer EXCEPT !.hosts = @ \cup {host}, !.top = IF @ = Localhost THEN @ ELSE host]

\* Peer::add_host on a host the peer does not have.
AddHost(peer, host) ==
    [name  |-> peer.name,
     hosts |-> peer.hosts \cup {host},
     top   |-> IF Outranks(host, peer.top) THEN host ELSE peer.top]

-----------------------------------------------------------------------------
(***************************************************************************)
(* Tables.                                                                 *)
(***************************************************************************)
EmptyTable == << >>

\* Table::insert answers Err: the key's peer already has this host.
Known(table, key, host) ==
    key \in DOMAIN table /\ host \in table[key].hosts

\* Table::insert of a host that is not Known.  The name is kept only when
\* the key is new.
Insert(table, key, name, host) ==
    [k \in DOMAIN table \cup {key} |->
        IF k # key THEN table[k]
        ELSE AddHost(IF key \in DOMAIN table THEN table[key] ELSE NewPeer(name),
                     host)]

\* Table::delete.
Delete(table, key) == [k \in DOMAIN table \ {key} |-> table[k]]

Matching(table, dst) == {k \in DOMAIN table : IsPrefix(k, dst)}

\* Mutant: any match will do.
AnyMatch(table, dst) == Matching(table, dst)

\* Mutant: the shortest match.
ShortestMatch(table, dst) ==
    {k \in Matching(table, dst) : \A j \in Matching(table, dst) : Len(j) >= Len(k)}

\* Table::find: the key of the value found, none when no key matches.
LongestMatch(table, dst) ==
    {k \in Matching(table, dst) : \A j \in Matching(table, dst) : Len(j) <= Len(k)}

\* Router::get_all_node: the socket on top of each peer that has one there.
AllNode(table) == {table[k].top : k \in DOMAIN table} \cap Addr
=============================================================================
