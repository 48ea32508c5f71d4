\* Split brain P | Q with a publish-only peer X on P's side.  The elections
\* alone mint (P's key may be the newer), and the surviving key maker Q
\* rekeys once more after the partition heals.
CONSTANTS
    Peers <- PubPeers
    Subr <- PubSubr
    KMPri <- PubKMPri
    Winners <- SplitWinners
    Side <- PubSplitSide
    ElectionEpoch = 1
    MaxKR = 1
    MbrCap = 2
    PrefixLen = 1
    MaxTime = 1
    HealRekeys = 1
    MaxRemove = 0
    MaxExpire = 0
SPECIFICATION Spec
PROPERTY KeysConverge
PROPERTY SplitBrainResolves
\* The bounded clock stops the rekey timer: the system comes to rest.
CHECK_DEADLOCK FALSE
