\* The plain pair (LRUCache, LRUMap): no deletion.
SPECIFICATION LockstepSpec
CONSTANTS
    None = None
    MaxUsize = 100
    Capacity = 3
    Keys = {k1, k2, k3, k4}
    IndexKeys = {k1, k2, k3, k4}
    IndexOf <- Identity
    Coerce <- Identity
    Values = {v1, v2}
    WithDelete = FALSE
    Walks = {w}
SYMMETRY Symmetry
INVARIANTS
    TypeOK
    RecencyList
    FreshWalksReportCached
    AgreesWithPromise
PROPERTY
    ImplementsLruSpec
