\* Split brain P | Q with subscriber S on P's side; the clock stops after both elections.
CONSTANTS
    Peers <- MCPeers
    Subr <- MCSubr
    KMPri <- MCKMPri
    Winners <- SplitWinners
    Side <- SplitSide
    ElectionEpoch = 1
    MaxKR = 1
    MbrCap = 2
    PrefixLen = 1
    MaxTime = 1
    HealRekeys = 0
    MaxRemove = 0
    MaxExpire = 0
SPECIFICATION Spec
INVARIANT EnrolledWhenQuiet
CHECK_DEADLOCK FALSE
