SPECIFICATION Spec
CONSTANTS
    Published <- MCPublished
    Wanted <- MCWanted
    Tails <- MCTails
    Passed <- MCPassed
    Ascii <- MCAscii
INVARIANTS
    HasTopicIsEqual
CHECK_DEADLOCK FALSE
