SPECIFICATION FairSpec
CONSTANTS
    MaxId = 3
    MaxReplaces = 2
    MaxCascades = 2
    ClearThreshold = 1
INVARIANTS
    TypeOK
    OneTimerEach
    WindowMatchesStack
    ClosedExactlyOnce
PROPERTIES
    EverythingEnds
