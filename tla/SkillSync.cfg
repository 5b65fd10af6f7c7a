CONSTANTS
    Pods = {p1, p2}
    Authors <- MCAuthors
    System <- MCSystem
    Keys <- MCKeys
    Files = {guide, tool}
    PluginScripts = {tool}
    SharedCache = TRUE
    MaxReleases = 2
    MayFail = TRUE
    None = None
SPECIFICATION SyncSpec
INVARIANTS TypeOK PluginsListPublished CleanSyncAccounts
PROPERTIES PublishedStays
SYMMETRY Symmetry
CONSTRAINT MCFirst
