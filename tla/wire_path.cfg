\* Records and packets of every size at the edges, through the sockets, the interface and the pool.
CONSTANTS
    Content <- MCContent
    Ip6 <- MCIp6
    Origins <- MCOrigins
    Relays <- MCRelays
    Packets <- MCPackets
    Others <- MCOthers
    MaxInput = 3
SPECIFICATION PathSpec
INVARIANTS PathTypeOK PoolBound WholeOrNothing ToldAsAnnounced
