\* One key maker Q, subscribers P and S, and a member table that holds one
\* member: one of P and S is turned away at the cap and keeps asking.
CONSTANTS
    Peers <- MCPeers
    Subr <- MCSubr
    KMPri <- SoloKMPri
    Winners <- OneWinner
    Side <- OneSide
    ElectionEpoch = 1
    MaxKR = 1
    MbrCap = 1
    PrefixLen = 1
    MaxTime = 2
    HealRekeys = 0
    MaxRemove = 0
    MaxExpire = 0
SPECIFICATION Spec
PROPERTY RefusedKeepsAsking
\* The bounded clock stops the rekey timer; the refused subscriber's
\* request and refresh loop is the only activity left.
CHECK_DEADLOCK FALSE
