CONSTANTS
    ann = ann
    bob = bob
    skill1 = skill1
    skill2 = skill2
    t1 = t1
    t2 = t2
    t3 = t3
    Skills <- TwoAuthors
    Texts <- OneText
    Calls = {x1, x2}
    Workers = {w1, w2}
    UseBranch = TRUE
    MaxCommits = 1
    MaxCalls = 3
    MayFail = TRUE
    None = None
SPECIFICATION Spec
SYMMETRY Symmetry
INVARIANTS TypeOK RegistryHoldsLiveTask ReportedIsUnderReview BranchCarriesOwnDocument
