CONSTANTS
    Pods = {p1}
    Authors <- MCAuthors
    System <- MCSystem
    Keys <- MCKeys
    Files = {guide}
    PluginScripts = {}
    SharedCache = FALSE
    MaxReleases = 2
    MayFail = FALSE
    None = None
    Home <- MCHome
    User <- MCUser
    UserStates = {"draft", "published"}
    Filters <- MCFilters
    PageLimit = 1
    MaxTouched = 2
SPECIFICATION Spec
INVARIANTS CatalogTypeOK AnswersTellWhatStays ListsWhatStays PagesCover
CONSTRAINT MCBounds
