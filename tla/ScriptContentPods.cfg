CONSTANTS
    c1 = c1
    c2 = c2
    store1 = store1
    store2 = store2
    inline1 = inline1
    none1 = none1
    Scripts = {s1}
    Contents = {c1, c2}
    Dates = {1}
    Ids = {i1, i2}
    Tasks = {store1, inline1, none1}
    Mode <- MCMode
    UncertainWrites = TRUE
    None = None
SPECIFICATION Spec
SYMMETRY Symmetry
INVARIANTS TypeOK PointersResolve ContentMatchesDigest MissingOnlyUnderChurn
PROPERTIES ScriptsAreRegisters
