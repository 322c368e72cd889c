SPECIFICATION Spec
CONSTANTS
    Workers = {w1}
    Callbacks = {c1}
    Disconnects = {d1, d2}
    NoWorker = NoWorker
    MaxTokens = 2
    MaxRows = 2
    MaxGeneration = 2
SYMMETRY Symmetry
INVARIANTS
    NoReplacementDuringRevoke
CHECK_DEADLOCK FALSE
