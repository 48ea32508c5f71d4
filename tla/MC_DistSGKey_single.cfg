\* One elected key maker Q, no partition: enrolment, rekey and convergence.
CONSTANTS
    Peers <- MCPeers
    Subr <- MCSubr
    KMPri <- MCKMPri
    Winners <- OneWinner
    Side <- OneSide
    ElectionEpoch = 1
    MaxKR = 1
    MbrCap = 2
    PrefixLen = 1
    MaxTime = 2
    HealRekeys = 0
    MaxRemove = 0
    MaxExpire = 0
SPECIFICATION Spec
PROPERTY KeysConverge
PROPERTY ImplementsKeyIntent
\* The bounded clock stops the rekey timer: the system comes to rest.
CHECK_DEADLOCK FALSE
