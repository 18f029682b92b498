SPECIFICATION SleepSpec
CONSTANTS
    m1 = m1
    Monitor = {m1}
    NoMonitor = NoMonitor
    IdleAvailable = TRUE
    MaxFailures = 1
    MaxBackoffs = 1
    MaxSignals = 3
INVARIANT LockMappedBeforeSleep
