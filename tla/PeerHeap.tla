------------------------------- MODULE PeerHeap -------------------------------
(***************************************************************************)
(* One peer as the program stores it: src/router/peer.rs over the binary   *)
(* heap of the standard library.                                           *)
(*                                                                         *)
(* RouteTable sees a peer as the set of its hosts and the one on top.      *)
(* Here it is a name and the array of a heap of ranked hosts, the top      *)
(* first, filled by push() alone.                                          *)
(***************************************************************************)
EXTENDS RouteTable, FiniteSetsExt

Entry == [host : Host, rank : Nat]

HostsOf(peer) == {peer.heap[i].host : i \in DOMAIN peer.heap}

\* Peer::get_host.
GetHost(peer) == IF peer.heap = << >> THEN Unreachable ELSE peer.heap[1].host

\* PeerInternal::cmp answers Greater.  Of two sockets the one with the
\* smaller rank is the greater.
Greater(x, y) ==
    \/ x.host = Localhost /\ y.host # Localhost
    \/ x.host \in Addr /\ y.host = Unreachable
    \/ x.host \in Addr /\ y.host \in Addr /\ y.rank > x.rank

\* Element x goes no higher than place j.
Stays(heap, x, j) == j = 1 \/ ~Greater(x, heap[j \div 2])

\* Mutant: the element stays where it was appended.
WayLast(heap, x) == {Len(heap) + 1}

\* The places element x comes to: the last one, and from each place that it
\* does not stay at the parent of that place.
Way(heap, x) ==
    LET places == 1 .. Len(heap) + 1
        Closed(S) == Len(heap) + 1 \in S /\ \A j \in S : Stays(heap, x, j) \/ j \div 2 \in S
    IN  {i \in places : \A S \in SUBSET places : Closed(S) => i \in S}

\* BinaryHeap::push: x is appended and moves up, the parents on its way down.
Push(heap, x) ==
    LET way  == Way(heap, x)
        rest == Min(way)
    IN  [j \in 1 .. Len(heap) + 1 |->
            IF j = rest THEN x ELSE IF j \in way THEN heap[j \div 2] ELSE heap[j]]

\* Peer::new.
EmptyPeer(name) == [name |-> name, heap |-> << >>]

\* Peer::add_host answers Ok.
Gain(peer, host) == [peer EXCEPT !.heap = Push(@, [host |-> host, rank |-> 1])]

\* Mutant: the rank in the heap is counted up, not that of a copy.
GainAgainCounts(peer, host) ==
    [peer EXCEPT !.heap = [i \in DOMAIN @ |->
        IF @[i].host = host /\ host \in Addr /\ @[i].rank < 3
        THEN [@[i] EXCEPT !.rank = @ + 1] ELSE @[i]]]

\* Peer::add_host answers Err: a copy of the rank is counted up.
GainAgain(peer, host) == peer

-----------------------------------------------------------------------------
\* The peer RouteTable sees.
PeerView(peer) == [name |-> peer.name, hosts |-> HostsOf(peer), top |-> GetHost(peer)]

\* The array is a heap that holds every host once: sifting up keeps the order
\* and loses nobody.
IsHeap(heap) ==
    /\ heap \in Seq(Entry)
    /\ \A i, j \in DOMAIN heap : heap[i].host = heap[j].host => i = j
    /\ \A i \in 2 .. Len(heap) : ~Greater(heap[i], heap[i \div 2])
=============================================================================
