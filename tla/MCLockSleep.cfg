SPECIFICATION SleepFairSpec
CONSTANTS
    m1 = m1
    m2 = m2
    m3 = m3
    Monitor = {m1, m2, m3}
    NoMonitor = NoMonitor
    IdleAvailable = TRUE
    MaxFailures = 4
    MaxBackoffs = 2
    MaxSignals = 3
INVARIANTS
    TypeOK
    OneWindowPerOutput
    InputNotStuck
    BookkeepingAgrees
    InhibitorInStep
PROPERTIES
    InputComesBack
    ImplementsSessionLock
