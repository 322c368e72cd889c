SPECIFICATION Spec
CONSTANTS
    Workers = {w1, w2}
    Runs = {r1, r2}
    Records = {x1}
    Accounts = {a1, a2}
    NoWorker = NoWorker
    NoRun = NoRun
    MaxAttempts = 1
    MaxPasses = 2
    MaxRows = 1
    MaxGeneration = 2
    MaxFaults = 1
    MatchCanFail = TRUE
SYMMETRY Symmetry
INVARIANTS
    OneCurrentIntent
    ReceiptsExact
    NothingStoredTwice
PROPERTIES
    TerminalIsFinal
    ImplementsIntent
CHECK_DEADLOCK FALSE
