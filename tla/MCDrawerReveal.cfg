SPECIFICATION Spec
CONSTANTS
    Windows = {w1}
    NoWindow = NoWindow
    MaxNews = 1
    Apps <- MCApps
    Installed <- MCInstalled
    Queries = {"x"}
    Prefix <- MCPrefix
    Fuzzy <- MCFuzzy
    PerPage = 2
    ReadsBetween = FALSE
    MaxChoices = 2
INVARIANTS
    TypeOK
    RevealBracketed
    DrawerInStep
PROPERTIES
    CleanWhenCovered
