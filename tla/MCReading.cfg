SPECIFICATION MCSpec
CONSTANTS
    r1 = r1
    Reader <- MCReader
    Capacity = 2
    Counting = FALSE
    p1 = p1
    p2 = p2
    Poller <- MCPoller
    OverflowMod = 2
    Ports <- MCPorts
    TickRate = 2
    Timeout <- MCTimeout
    MsPerSec = 3
    NsPerMs = 2
    IntMod = 16
    Signals = TRUE
    Steps = TRUE
    MaxClock = 12
INVARIANTS
    NoLostWakeup
    CountersSound
    NotEarlyButFor
PROPERTIES
    ReadingGoesOn
    DeadlineExact
    WaitEnds
