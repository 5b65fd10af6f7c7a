CONSTANTS
    script1 = script1
    script2 = script2
    skill1 = skill1
    new1 = new1
    new2 = new2
    old1 = old1
    Collections <- OneSkill
    Pods = {new1, new2, old1}
    Version <- MCVersion
    MinVersion = 3
    Latest = 4
    BatchSize = 1
    MaxSkipped = 1
    Broken = {}
    ReadOnly = {}
    InitDates = {None, 1}
    StartClock = 1
    MaxEdits = 2
    MaxFailures = 1
    None = None
SPECIFICATION Spec
SYMMETRY Symmetry
INVARIANTS TypeOK DigestFits
PROPERTIES LatestEditKeptUnlessRaced
