----------------------------- MODULE MCSubnetKeys -----------------------------
(***************************************************************************)
(* Instance of SubnetKeys for TLC.                                         *)
(***************************************************************************)
EXTENDS SubnetKeys

CONSTANTS a1, a2, a3, a4

MCAddr == {a1, a2, a3, a4}

V4(octets) == [family |-> 4, octets |-> octets]
V6(octets) == [family |-> 6, octets |-> octets \o [i \in 1 .. 16 - Len(octets) |-> 0]]

Announcement(net, mask, host) == [net |-> net, mask |-> mask, name |-> "node", host |-> host]

\* Nested subnets with masks at and off octet borders, subnets written with
\* different host bits, default routes, a prefix of the other family with the
\* same bits, and the own subnet announced from enough addresses for a heap of
\* three levels.
MCAnnounced == {
    Announcement(V4(<<10, 1, 0, 1>>), 16, a1),
    Announcement(V4(<<10, 1, 7, 9>>), 16, a2),
    Announcement(V4(<<10, 1, 128, 1>>), 17, Localhost),
    Announcement(V4(<<10, 1, 200, 1>>), 17, a3),
    Announcement(V4(<<10, 1, 129, 1>>), 17, a1),
    Announcement(V4(<<10, 1, 128, 9>>), 17, a4),
    Announcement(V4(<<10, 1, 129, 6>>), 31, a2),
    Announcement(V4(<<10, 1, 129, 7>>), 32, a1),
    Announcement(V4(<<0, 0, 0, 0>>), 0, a3),
    Announcement(V6(<<10, 1, 128>>), 17, a2),
    Announcement(V6(<<10, 1>>), 0, a1) }

MCAsked == {
    V4(<<10, 1, 0, 1>>), V4(<<10, 1, 127, 255>>), V4(<<10, 1, 128, 0>>),
    V4(<<10, 1, 129, 5>>), V4(<<10, 1, 129, 6>>), V4(<<10, 1, 129, 7>>),
    V4(<<10, 0, 129, 7>>), V6(<<10, 1, 129>>), V6(<<10, 1, 1>>) }
=============================================================================
