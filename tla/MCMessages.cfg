SPECIFICATION MCSpec
CONSTANTS
    NULL = NULL
    Garbage = Garbage
    t1 = t1
    t2 = t2
    x = x
    y = y
    Thread <- MCThread
    Text <- MCText
    IntMax <- MCIntMax
    Double <- MCDouble
    Rounded <- MCRounded
    Given <- MCGiven
    Made <- MCMade
    Retopic <- MCRetopic
    MaxMsg = 2
    MaxHeld = 1
    Published <- MCPublished
    Wanted <- MCWanted
    Tails <- MCTails
    Passed <- MCPassed
    Ascii <- MCAscii
INVARIANTS
    CountsExact
    OwnedOnce
    ReadsAsSaid
    VisitsAncestors
    TestsFit
    FlagsAsWritten
PROPERTIES
    LoopEnds
CHECK_DEADLOCK FALSE
