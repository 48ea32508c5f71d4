\* Split brain P | Q with subscriber S on P's side; each key maker may rekey.
CONSTANTS
    Peers <- MCPeers
    Subr <- MCSubr
    KMPri <- MCKMPri
    Winners <- SplitWinners
    Side <- SplitSide
    ElectionEpoch = 1
    MaxKR = 1
    MbrCap = 2
    PrefixLen = 1
    MaxTime = 3
    HealRekeys = 0
    MaxRemove = 0
    MaxExpire = 0
SPECIFICATION Spec
PROPERTY CreationTimeMonotone
CHECK_DEADLOCK FALSE
