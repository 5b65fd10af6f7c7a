CONSTANTS
    Skill = Skill
    Resources = {guide}
    Scripts = {run}
    Folders = {team}
    States = {"draft", "staging"}
    Tasks = {t1, t2}
    MaxCalls = 3
    WriteScripts = TRUE
    WriteHistory = TRUE
    MayFail = TRUE
    None = None
SPECIFICATION Spec
SYMMETRY Symmetry
INVARIANTS TypeOK HistoryCopiesKept HistoryFollowsDocuments RecordsTellTheChange ChildrenGoWithSkill
PROPERTIES SavesRespectLooks
CHECK_DEADLOCK FALSE
