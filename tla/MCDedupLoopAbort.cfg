CONSTANTS
    A = A
    B = B
    E = E
    Dirs <- MCDirs
    Slots <- MCLiveSlots
    Matching <- MCMatching
    Contents <- MCContents
    Size <- MCSize
    NameOrder <- MCNameOrder
    MaxHops = 4
    MinFileSizeToHash = 1
    ResolveLoopRaises = TRUE
    MaxExternalChanges = 1
SYMMETRY Symmetry
SPECIFICATION EnvSpec
INVARIANT
    OnlyBadRootIsFatal
