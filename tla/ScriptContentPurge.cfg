CONSTANTS
    c1 = c1
    c2 = c2
    store1 = store1
    store2 = store2
    inline1 = inline1
    none1 = none1
    Scripts = {s1, s2}
    Contents = {c1}
    Dates = {1}
    Ids = {i1, i2, i3}
    Tasks = {store1, store2}
    Mode <- MCMode
    UncertainWrites = FALSE
    None = None
SPECIFICATION FairSpec
INVARIANTS ContentAccounted
PROPERTIES SupersededContentCollected
