\* An iterator over a vector that is reallocated to less under it.
SPECIFICATION Spec
CONSTANTS
    Capacity = 3
    MaxItems = 5
    MaxSurplus = 2
    None = None
    FullError = FullError
    BlockSize = 2
    MaxCapacity = 4
    MaxWrites = 2
INVARIANT
    VectorWalksMeetNoGap
