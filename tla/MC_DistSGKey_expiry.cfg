\* One key maker Q that removes a member, with or without a rekey.
CONSTANTS
    Peers <- MCPeers
    Subr <- MCSubr
    KMPri <- SoloKMPri
    Winners <- OneWinner
    Side <- OneSide
    ElectionEpoch = 1
    MaxKR = 1
    MbrCap = 2
    PrefixLen = 1
    MaxTime = 2
    HealRekeys = 0
    MaxRemove = 0
    MaxExpire = 1
SPECIFICATION Spec
PROPERTY NoKeyForExpired
CHECK_DEADLOCK FALSE
