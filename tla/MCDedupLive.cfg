CONSTANTS
    A = A
    B = B
    E = E
    Dirs <- MCDirs
    Slots <- MCLiveSlots
    Matching <- MCLiveSlots
    Contents <- MCContents
    Size <- MCSize
    NameOrder <- MCNameOrder
    MaxHops = 4
    MinFileSizeToHash = 1
    ResolveLoopRaises = FALSE
    MaxExternalChanges = 0
SPECIFICATION FairSpec
PROPERTY
    AllGroupsProcessed
