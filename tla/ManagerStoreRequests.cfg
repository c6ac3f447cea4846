CONSTANTS
    g1 = g1
    g2 = g2
    n1 = n1
    t1 = t1
    t2 = t2
    NoRequest = NoRequest
    Keep = Keep
    Groups <- TwoGroups
    Nodes <- OneNode
    AllowLists <- Open
    Threads <- TwoThreads
    Timeout = 1
    MaxClock = 3
SPECIFICATION Spec
SYMMETRY Symmetry
INVARIANTS NoOrphans CatalogIsFresh OfflineIsSilent
PROPERTIES DecisionStands ManualMeansPending
