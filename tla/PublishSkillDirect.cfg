CONSTANTS
    ann = ann
    bob = bob
    skill1 = skill1
    skill2 = skill2
    t1 = t1
    t2 = t2
    t3 = t3
    Skills <- TwoSkills
    Texts <- OneText
    Calls = {x1}
    Workers = {w1, w2}
    UseBranch = FALSE
    MaxCommits = 2
    MaxCalls = 2
    MayFail = TRUE
    None = None
SPECIFICATION FairSpec
PROPERTIES CommitsTouchOwnDirectory RegistryDrains
