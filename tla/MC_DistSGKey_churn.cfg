\* One key maker Q that removes a member, with or without a rekey.
CONSTANTS
    Peers <- MCPeers
    Subr <- MCSubr
    KMPri <- SoloKMPri
    Winners <- OneWinner
    Side <- OneSide
    ElectionEpoch = 1
    MaxKR = 2
    MbrCap = 2
    PrefixLen = 1
    MaxTime = 2
    HealRekeys = 0
    MaxRemove = 1
    MaxExpire = 0
SPECIFICATION Spec
INVARIANT TypeOK
INVARIANT RangeCoversRecipients
PROPERTY CreationTimeMonotone
CHECK_DEADLOCK FALSE
