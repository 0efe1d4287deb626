SPECIFICATION Spec
CONSTANTS
    s1 = s1
    s2 = s2
    m1 = m1
    m2 = m2
    Sub <- MCSub
    Msg <- MCMsg
    Topic <- SharingTopic
    MsgKind <- SharingKind
    SubFlags <- SharingFlags
    QueueSize <- SharingSize
    NoMsg = NoMsg
    NPrio = 2
    OverflowMod = 1
    MaxApp = 2
INVARIANTS
    RefsAccounted
    OnlyLiveReached
    EmptyWhenPushed
    ClaimsHonoured
SYMMETRY SharingSymmetry
