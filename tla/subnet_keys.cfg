\* Announcements and deletions of nested subnets in every order.
CONSTANTS
    a1 = a1  a2 = a2  a3 = a3  a4 = a4
    Localhost = Localhost
    Unreachable = Unreachable
    Addr <- MCAddr
    Announced <- MCAnnounced
    Asked <- MCAsked
    MaxInserts = 5
SPECIFICATION Spec
INVARIANTS KeysTypeOK FindsSubnet
PROPERTIES KeepsTable
