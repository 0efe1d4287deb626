SPECIFICATION Spec
CONSTANTS
    s1 = s1
    s2 = s2
    m1 = m1
    m2 = m2
    Sub <- RoutingSub
    Msg <- MCMsg
    Topic <- RoutingTopic
    MsgKind <- RoutingKind
    SubFlags <- RoutingFlags
    QueueSize <- RoutingSize
    NoMsg = NoMsg
    NPrio = 2
    OverflowMod = 2
    MaxApp = 1
INVARIANTS
    CountsDeliveries
