\* Every operation of the heap, with comparators that answer, push and throw.
\* With two items there are ties; with five nodes trees grow to degree two and
\* a node is left after three consolidations.
SPECIFICATION FairSpec
CONSTANTS
    Items = {1, 2}
    Comparators <- AllComparators
    MaxNodes = 5
    MaxDepth = 2
    None = None
INVARIANTS
    Shape
    SizeCounts
    PeekIsLeast
PROPERTIES
    ImplementsPriorityQueue
    CallsReturn
\* After a walk without end nothing runs any more.
CHECK_DEADLOCK FALSE
