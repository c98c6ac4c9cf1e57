SPECIFICATION BoundedSpec
CONSTANTS
    MaxChars = 4
    MinChars = 2
    MaxText = 6
    Keys = {"a", "b"}
    Section <- MCSection
    Files <- MCFiles
    Values <- MCValues
    MaxPath = 2
    MaxVariables = 2
CHECK_DEADLOCK FALSE
INVARIANTS
    TextIsSaid
    CutsAreNatural
    LoopsEnd
    LayersPrecede
    CodeAgrees
    FaultsAreTold
    DoorsAgree
    OfferedIsUsable
    ExitTellsTruth
    HookSpeaksLastReply
