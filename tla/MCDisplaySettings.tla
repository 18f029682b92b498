------------------------- MODULE MCDisplaySettings -------------------------
EXTENDS DisplaySettings
CONSTANTS m1, m2, a, b, none
MCModes == [m \in {m1, m2} |-> IF m = m1 THEN {a, b} ELSE {a}]
=============================================================================
