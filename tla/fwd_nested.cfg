\* Packets through three nested subnets while the outermost node restarts.
CONSTANTS
    n1 = n1  n2 = n2  n3 = n3  a1 = a1  a2 = a2  a3 = a3
    Localhost = Localhost
    Unreachable = Unreachable
    NoAddr = NoAddr
    Node <- MCNode
    Addr <- MCAddr
    Subnet <- NestedSubnet
    Owner <- MCOwner
    Family <- MCFamily
    Homes <- MCHomes
    Servers <- ChainServers
    Mortal = {n1}
    MaxStarts = 2
    Lossy = FALSE
    Duplicates = FALSE
    Dst <- InnerDst
    MaxPackets = 1
SPECIFICATION FSpec
INVARIANTS FTypeOK NoForwardingLoop HopsNarrow RightInterface
\* Behaviours end: every start is used up and nothing is on its way.
CHECK_DEADLOCK FALSE
