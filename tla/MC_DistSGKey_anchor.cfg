\* Key maker Q and the publish-only peer X: completion through the anchor
\* record's delivery confirmation.
CONSTANTS
    Peers <- AnchorPeers
    Subr <- AnchorSubr
    KMPri <- AnchorKMPri
    Winners <- OneWinner
    Side <- AnchorSide
    ElectionEpoch = 1
    MaxKR = 1
    MbrCap = 2
    PrefixLen = 1
    MaxTime = 4
    HealRekeys = 0
    MaxRemove = 0
    MaxExpire = 1
SPECIFICATION Spec
PROPERTY EveryPeerConnects
\* The bounded clock stops the rekey timer: the system comes to rest.
CHECK_DEADLOCK FALSE
