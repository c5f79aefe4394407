\* The Map of every map-backed structure, walked by one iterator.
SPECIFICATION FairSpec
CONSTANTS
    None = None
    Keys = {k1, k2, k3}
    Values = {v1, v2}
    Cursors = {c1}
    COMPACT_FLOOR = 2
    MaxIds = 7
INVARIANTS
    TypeOK
    SlotsSorted
    IndexExact
    TombstonesBounded
    HintsSound
PROPERTIES
    ImplementsMap
    WalksEnd
