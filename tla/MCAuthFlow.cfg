SPECIFICATION FairSpec
CONSTANTS
    root = root
    alice = alice
    bob = bob
    Identity = {root, alice, bob}
    MAX_ATTEMPTS = 3
    SpawnMayFail = FALSE
    MaxAnswers = 2
INVARIANTS
    TypeOK
    FlowInStep
    VerdictIsRight
PROPERTY
    BusyEnds
CHECK_DEADLOCK FALSE
