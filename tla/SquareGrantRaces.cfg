SPECIFICATION Spec
CONSTANTS
    Workers = {w1, w2}
    Callbacks = {c1}
    Disconnects = {d1, d2}
    NoWorker = NoWorker
    MaxTokens = 3
    MaxRows = 2
    MaxGeneration = 3
SYMMETRY Symmetry
INVARIANTS
    DeadTokensExplained
    ReplacementSticks
    VerdictOnOwnGrant
    MarkedRowStays
CHECK_DEADLOCK FALSE
