CONSTANTS
    m1 = m1
    m2 = m2
    Monitor = {m1, m2}
    NoMonitor = NoMonitor
    MaxSeeds = 2
    MaxApplies = 1
SPECIFICATION FairSpec
INVARIANTS
    TypeOK
    PickBracketed
    ScreenShared
    OneWindowEach
PROPERTIES
    PickEnds
