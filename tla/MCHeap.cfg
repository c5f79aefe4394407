\* Every operation of the heap, with comparators that answer, push, clear
\* and throw.  Five items give a heap of three levels, and with an even number
\* a node with a left child alone.
SPECIFICATION Spec
CONSTANTS
    Items = {1, 2, 3}
    Comparators <- AllComparators
    MaxLength = 5
    MaxDepth = 2
    None = None
INVARIANTS
    HeapOrdered
    SizeCounts
PROPERTY
    ImplementsPriorityQueue
