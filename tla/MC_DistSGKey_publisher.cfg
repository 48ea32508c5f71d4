\* Split brain P | Q with a publish-only peer X on P's side.
CONSTANTS
    Peers <- PubPeers
    Subr <- PubSubr
    KMPri <- PubKMPri
    Winners <- SplitWinners
    Side <- PubSplitSide
    ElectionEpoch = 1
    MaxKR = 1
    MbrCap = 2
    PrefixLen = 1
    MaxTime = 2
    HealRekeys = 0
    MaxRemove = 0
    MaxExpire = 0
SPECIFICATION Spec
PROPERTY SplitBrainResolves
\* The bounded clock stops the rekey timer: the system comes to rest.
CHECK_DEADLOCK FALSE
