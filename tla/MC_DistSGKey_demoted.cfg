\* Split brain P | Q with S on P's side; the application removes a member
\* with a rekey at an elected peer, after the elections.
CONSTANTS
    Peers <- MCPeers
    Subr <- MCSubr
    KMPri <- MCKMPri
    Winners <- SplitWinners
    Side <- SplitSide
    ElectionEpoch = 1
    MaxKR = 1
    MbrCap = 2
    PrefixLen = 1
    MaxTime = 3
    HealRekeys = 0
    MaxRemove = 1
    MaxExpire = 0
SPECIFICATION Spec
PROPERTY OnlyKeyMakerPublishes
\* The bounded clock stops the rekey timer: the system comes to rest.
CHECK_DEADLOCK FALSE
