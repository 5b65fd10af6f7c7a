CONSTANTS
    a1 = a1
    a2 = a2
    a3 = a3
    Pods = {p1}
    Tasks = {a1, a2, a3}
    PodOf <- MCPodOf
    Threaded = {a3}
    TTL = 1
    None = None
SPECIFICATION FairSpec
INVARIANTS TypeOK StalenessBounded RefreshHolds
PROPERTIES CallsReturn
