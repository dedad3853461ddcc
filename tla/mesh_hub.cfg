\* Two nodes that know only a hub; one of them may restart at another
\* address; datagrams get lost.
CONSTANTS
    n1 = n1  n2 = n2  n3 = n3
    a1 = a1  a2 = a2  a3 = a3  b1 = b1  b2 = b2  b3 = b3
    Localhost = Localhost
    Unreachable = Unreachable
    NoAddr = NoAddr
    Node <- MCNode
    Addr <- MCAddr
    Subnet <- MCSubnet
    Owner <- MCOwner
    Family <- HubFamily
    Homes <- HubHomes
    Servers <- StarServers
    Mortal = {n3}
    MaxStarts = 2
    Lossy = TRUE
    Duplicates = FALSE
SPECIFICATION Spec
INVARIANTS TypeOK RouteAccuracy ForwardedCarriesAddress JumpBound
PROPERTIES StickyRoute KeepsDirectory
\* Behaviours end: every start is used up and no datagram is left.
CHECK_DEADLOCK FALSE
