SPECIFICATION Spec
CONSTANTS
    Workers = {w1}
    Runs = {r1}
    Records = {x1}
    Accounts = {a1}
    NoWorker = NoWorker
    NoRun = NoRun
    MaxAttempts = 2
    MaxPasses = 2
    MaxRows = 1
    MaxGeneration = 1
    MaxFaults = 0
    MatchCanFail = TRUE
INVARIANTS
    QueuedRunsAreRunnable
CHECK_DEADLOCK FALSE
