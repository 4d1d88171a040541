CONSTANTS
    A = A
    B = B
    E = E
    Dirs <- MCDirs
    Slots <- MCSlots
    Matching <- MCMatching
    Contents <- MCContents
    Size <- MCSize
    NameOrder <- MCNameOrder
    MaxHops = 4
    MinFileSizeToHash = 1
    ResolveLoopRaises = FALSE
    MaxExternalChanges = 0
SYMMETRY Symmetry
SPECIFICATION Spec
INVARIANT MissingRootFails
