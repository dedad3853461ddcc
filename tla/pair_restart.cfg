\* Two nodes that list each other and restart over a reliable network, and packets between them.
CONSTANTS
    n1 = n1  n2 = n2  n3 = n3  a1 = a1  a2 = a2  a3 = a3
    Localhost = Localhost
    Unreachable = Unreachable
    NoAddr = NoAddr
    Node <- PairNode
    Addr <- PairAddr
    Subnet <- PairSubnet
    Owner <- PairOwner
    Family <- PairFamily
    Homes <- PairHomes
    Servers <- PairServers
    Mortal = {n1, n2}
    MaxStarts = 3
    Lossy = FALSE
    Duplicates = FALSE
    Dst <- PairDst
    MaxPackets = 1
SPECIFICATION FFairSpec
INVARIANTS Converged RestingAgreement
PROPERTIES FullMesh
\* Behaviours end: every start is used up and nothing is on its way.
CHECK_DEADLOCK FALSE
