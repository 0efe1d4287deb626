SPECIFICATION FairSpec
CONSTANTS
    t1 = t1
    t2 = t2
    t3 = t3
    m1 = m1
    m2 = m2
    Thread <- MCThread
    Msg <- MCMsg
    NoThread = NoThread
    NoMsg = NoMsg
    Capacity = 3
INVARIANTS
    RingSound
PROPERTIES
    Refines
    DrainsWhenQuiet
