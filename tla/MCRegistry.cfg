SPECIFICATION Spec
CONSTANTS
    t1 = t1
    t2 = t2
    Threads = {t1, t2}
    Catalog <- MCCatalog
    Installed <- MCInstalled
    Engines <- MCEngines
    Crashing <- MCCrashing
    Priority <- MCPriority
    Default = "auto"
    None = None
    MaxChanges = 1
SYMMETRY MCSymmetry
CHECK_DEADLOCK FALSE
INVARIANTS
    AutoKeepsPriority
    ListingComplete
    ShutdownReleases
    OnlyRacesRaise
