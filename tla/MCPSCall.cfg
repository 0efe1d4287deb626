SPECIFICATION FairSpec
CONSTANTS
    c1 = c1
    c2 = c2
    Caller <- MCCaller
    UuidMod = 3
    ServerSize = 1
    MaxAnswers = 2
    MaxCalls = 2
INVARIANTS
    CallsSeparate
    AnswersOwnCall
PROPERTIES
    CallEnds
