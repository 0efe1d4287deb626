SPECIFICATION WaitSpec
CONSTANTS
    Ports <- MCLinux
    TickRate = 2
    Timeout <- MCTimeout
    MsPerSec = 3
    NsPerMs = 2
    IntMod = 16
    Signals = FALSE
    Steps = FALSE
    MaxClock = 24
INVARIANTS
    NotEarly
