\* The with-delete pair with a Keys class that narrows.
SPECIFICATION Spec
CONSTANTS
    None = None
    MaxUsize = 100
    Capacity = 2
    Keys = {k1, k2, k3, n1}
    IndexKeys = {k1, k2, k3, n1}
    IndexOf <- Identity
    Coerce <- Narrowing
    Values = {v1}
    WithDelete = TRUE
    Walks = {}
INVARIANT
    SizeWithinCapacity
