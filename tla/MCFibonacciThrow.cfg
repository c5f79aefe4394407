\* A comparator that throws once, and never calls the heap.
SPECIFICATION Spec
CONSTANTS
    Items = {1, 2}
    Comparators <- ThrowingComparators
    MaxNodes = 5
    MaxDepth = 1
    None = None
INVARIANT
    WalksEnd
