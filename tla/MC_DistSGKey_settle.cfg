\* One elected key maker Q, no partition, subscriber P and publish-only X;
\* P's certificate may expire, leaving Q only X to confirm its anchor record.
CONSTANTS
    Peers <- PubPeers
    Subr <- PubSubr
    KMPri <- PubKMPri
    Winners <- OneWinner
    Side <- PubOneSide
    ElectionEpoch = 1
    MaxKR = 1
    MbrCap = 2
    PrefixLen = 1
    MaxTime = 2
    HealRekeys = 0
    MaxRemove = 0
    MaxExpire = 1
SPECIFICATION Spec
PROPERTY KeysConverge
PROPERTY ImplementsKeyIntent
PROPERTY EveryPeerConnects
\* The bounded clock stops the rekey timer: the system comes to rest.
CHECK_DEADLOCK FALSE
