CONSTANTS
    m1 = m1
    m2 = m2
    Monitor = {m1, m2}
    OM_MAX_HEADS = 3
    MaxWire = 2
SPECIFICATION FairSpec
INVARIANTS
    TypeOK
    SetChangeNeverLost
    HeadsKnownUntilFull
PROPERTIES
    Quiesces
    Restored
