\* Two nodes have one subnet; the hub bridges IPv4 and IPv6; datagrams get lost and repeated.
CONSTANTS
    n1 = n1  n2 = n2  n3 = n3
    a1 = a1  a2 = a2  a3 = a3  b1 = b1  b2 = b2  b3 = b3
    Localhost = Localhost
    Unreachable = Unreachable
    NoAddr = NoAddr
    Node <- MCNode
    Addr <- MCAddr
    Subnet <- SharedSubnet
    Owner <- MCOwner
    Family <- MCFamily
    Homes <- DualHomes
    Servers <- DualServers
    Mortal = {n1}
    MaxStarts = 2
    Lossy = TRUE
    Duplicates = TRUE
SPECIFICATION Spec
INVARIANTS OwnRoute Grounded JumpsPaid
\* Behaviours end: every start is used up and no datagram is left.
CHECK_DEADLOCK FALSE
