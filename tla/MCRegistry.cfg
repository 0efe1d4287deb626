SPECIFICATION FairSpec
CONSTANTS
    NULL = NULL
    Garbage = Garbage
    s1 = s1
    s2 = s2
    Sub <- MCSub
    Caller = s1
    Counted <- MCCounted
    Fresh <- MCFresh
    Retain <- MCRetain
    Wants <- MCWants
    Hash <- MCHash
    InitialBuckets = 1
    Threshold = 2
INVARIANTS
    ContainersSound
    NoneFreedIsUsed
    IterationComplete
    NumSubsInRange
PROPERTIES
    KeepsRegistry
    LoopsEnd
