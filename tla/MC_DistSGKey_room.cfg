\* One key maker Q, subscribers P and S, a member table that holds one
\* member: one of P and S is turned away at the cap; either certificate
\* may expire, and the next rekey's sweep then makes room.
CONSTANTS
    Peers <- MCPeers
    Subr <- MCSubr
    KMPri <- SoloKMPri
    Winners <- OneWinner
    Side <- OneSide
    ElectionEpoch = 1
    MaxKR = 1
    MbrCap = 1
    PrefixLen = 1
    MaxTime = 2
    HealRekeys = 0
    MaxRemove = 0
    MaxExpire = 1
SPECIFICATION Spec
PROPERTY RefusedEnrolledWhenRoom
\* The bounded clock stops the rekey timer: the system comes to rest.
CHECK_DEADLOCK FALSE
