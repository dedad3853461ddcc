\* The flood ends, and packets reach the node that every table leads to.
CONSTANTS
    n1 = n1  n2 = n2  n3 = n3  a1 = a1  a2 = a2  a3 = a3
    Localhost = Localhost
    Unreachable = Unreachable
    NoAddr = NoAddr
    Node <- MCNode
    Addr <- MCAddr
    Subnet <- NestedSubnet
    Owner <- MCOwner
    Family <- MCFamily
    Homes <- MCHomes
    Servers <- ChainServers
    Mortal = {}
    MaxStarts = 1
    Lossy = FALSE
    Duplicates = FALSE
    Dst <- InnerDst
    MaxPackets = 1
SPECIFICATION FFairSpec
PROPERTIES Quiesce Delivered
\* Behaviours end: every start is used up and nothing is on its way.
CHECK_DEADLOCK FALSE
