SPECIFICATION Spec
CONSTANTS
    r1 = r1
    Reader <- MCReader
    Capacity = 3
    Counting = TRUE
    p1 = p1
    p2 = p2
    Poller = {}
    OverflowMod = 2
INVARIANTS
    NoLostWakeup
