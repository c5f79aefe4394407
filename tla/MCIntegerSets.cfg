\* Sparse sets, maps and queues, disjoint sets and bit sets. Three members
\* (two, and one past the end), four items, two words of two bits.
SPECIFICATION Spec
CONSTANTS
    Length = 3
    Size = 4
    WordBits = 2
    MaxCapacity = 4
    MaxDrift = 1
    None = None
    v1 = v1
    v2 = v2
INVARIANTS
    MembersFound
    QueriesExact
    WalksMissNothing
    SizeAccounted
PROPERTIES
    ImplementsSet
    ImplementsPartition
