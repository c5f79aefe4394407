\* Six lists and two arrays, each walked by an iterator, against the list
\* they promise. Room for three items; five arrive. Arrays of at most
\* four slots, written to twice.
SPECIFICATION Spec
CONSTANTS
    Capacity = 3
    MaxItems = 5
    MaxSurplus = 2
    None = None
    FullError = FullError
    BlockSize = 2
    MaxCapacity = 4
    MaxWrites = 2
INVARIANTS
    LayoutSound
    ReadsAgree
    FreshWalksComplete
    WalksReportOnce
PROPERTY
    ImplementsList
