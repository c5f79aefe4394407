\* The with-delete pair, walked while it changes.  A full cache of three
\* slots has a middle; the fourth key evicts.
SPECIFICATION Spec
CONSTANTS
    None = None
    MaxUsize = 100
    Capacity = 3
    Keys = {k1, k2, k3, k4}
    IndexKeys = {k1, k2, k3, k4}
    IndexOf <- Identity
    Coerce <- Identity
    Values = {v1}
    WithDelete = TRUE
    Walks = {w}
SYMMETRY Symmetry
INVARIANTS
    IndexConsistent
    PointersPartitioned
    SizeIsLiveCount
    WalksNeverPanic
