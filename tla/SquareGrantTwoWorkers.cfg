SPECIFICATION Spec
CONSTANTS
    Workers = {w1, w2}
    Callbacks = {c1}
    Disconnects = {d1}
    NoWorker = NoWorker
    MaxTokens = 3
    MaxRows = 1
    MaxGeneration = 2
SYMMETRY Symmetry
INVARIANTS
    RefreshesSerialized
CHECK_DEADLOCK FALSE
