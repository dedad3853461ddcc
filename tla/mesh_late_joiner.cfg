\* A node that joins by the hub is not told of the nodes that joined before.
CONSTANTS
    n1 = n1  n2 = n2  n3 = n3
    a1 = a1  a2 = a2  a3 = a3  b1 = b1  b2 = b2  b3 = b3
    Localhost = Localhost
    Unreachable = Unreachable
    NoAddr = NoAddr
    Node <- MCNode
    Addr <- MCAddr
    Subnet <- MCSubnet
    Owner <- MCOwner
    Family <- MCFamily
    Homes <- FixedHomes
    Servers <- StarServers
    Mortal = {}
    MaxStarts = 1
    Lossy = FALSE
    Duplicates = FALSE
SPECIFICATION FairSpec
PROPERTIES ServedFullMesh
\* Behaviours end: every start is used up and no datagram is left.
CHECK_DEADLOCK FALSE
