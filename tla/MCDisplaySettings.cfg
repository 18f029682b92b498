SPECIFICATION Spec
CONSTANTS
    m1 = m1
    m2 = m2
    a = a
    b = b
    none = none
    Monitor = {m1, m2}
    Modes <- MCModes
    NoMode = none
    Seconds = 2
INVARIANTS TypeOK PageInStep
PROPERTIES UnconfirmedReverts
