\* The with-delete pair beside the LRU specification.
SPECIFICATION LockstepDeleteSpec
CONSTANTS
    None = None
    MaxUsize = 100
    Capacity = 3
    Keys = {k1, k2, k3, k4}
    IndexKeys = {k1, k2, k3, k4}
    IndexOf <- Identity
    Coerce <- Identity
    Values = {v1}
    WithDelete = TRUE
    Walks = {}
SYMMETRY Symmetry
INVARIANT
    KeepsMostRecent
