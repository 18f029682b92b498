SPECIFICATION Spec
CONSTANTS
    o1 = o1
    o2 = o2
    w1 = w1
    w2 = w2
    panelview = panelview
    none = none
    Outputs = {o1, o2}
    Windows = {w1, w2}
    Layers = {}
    Panel = panelview
    Unmapped = none
    PluginSets <- MCPluginSets
INVARIANTS TypeOK HeldWhileRunning NothingStranded
PROPERTIES EffectsEnd
