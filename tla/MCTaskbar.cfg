SPECIFICATION TaskbarSpec
CONSTANTS
    Apps = {a1, a2}
    Outputs = {o1, o2}
    NoApp = NoApp
    NoOutput = NoOutput
    MaxWindows = 2
    MAX_OUTPUTS = 2
    Compositors <- MCCompositors
    PerMonitorApps = TRUE
    AnyOrder = FALSE
SYMMETRY Symmetry
INVARIANTS
    TaskbarTypeOK
    TaskbarsFollowStore
    FocusAgrees
