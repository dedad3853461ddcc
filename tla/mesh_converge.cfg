\* Three nodes that list one another, as config.jsonnet makes them, start in any order, stop at rest and start again.
CONSTANTS
    n1 = n1  n2 = n2  n3 = n3  a1 = a1  a2 = a2  a3 = a3
    Localhost = Localhost
    Unreachable = Unreachable
    NoAddr = NoAddr
    Node <- MCNode
    Addr <- MCAddr
    Subnet <- SideSubnet
    Owner <- MCOwner
    Family <- MCFamily
    Homes <- MCHomes
    Servers <- FullServers
    Mortal = {n2, n3}
    MaxStarts = 2
    Lossy = FALSE
    Duplicates = FALSE
    Dst <- SideDst
    MaxPackets = 0
SPECIFICATION RestFirst
INVARIANTS Converged RestingAgreement
PROPERTIES FloodFades
\* Behaviours end: every start is used up and no datagram is left.
CHECK_DEADLOCK FALSE
