\* The structures over the ordered map: three members, counts from -2 to 2
\* and NaN, four containers, three documents of up to two of three tokens.
SPECIFICATION Spec
CONSTANTS
    Members = {a, b, c}
    NaN = NaN
    None = None
    MaxTotal = 4
    MaxDrift = 1
    MaxSize = 5
    MaxDepth = 3
    Positions = {0, 1, 2, 3}
    Capacity = 4
    Tokens = {s, t, u}
    MaxDocuments = 3
SYMMETRY Symmetry
INVARIANTS
    CountsAgree
    AnswersExact
    WalksExact
    SelectionExact
PROPERTIES
    ImplementsBijection
