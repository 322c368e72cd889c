SPECIFICATION FairSpec
CONSTANTS
    Workers = {w1, w2}
    Runs = {r1}
    Records = {x1}
    Accounts = {a1}
    NoWorker = NoWorker
    NoRun = NoRun
    MaxAttempts = 2
    MaxPasses = 2
    MaxRows = 1
    MaxGeneration = 2
    MaxFaults = 2
    MatchCanFail = FALSE
INVARIANTS
    AttemptsBounded
    QueuedRunsAreRunnable
PROPERTIES
    EveryRunCloses
CHECK_DEADLOCK FALSE
