SPECIFICATION LiveSpec
CONSTANTS
    Workers = {w1, w2}
    Nobody = Nobody
    MaxAttempts = 2
    MaxRequests = 3
    MaxMishaps = 1
INVARIANTS
    LeftRunningOnlyIfOverwritten
    ProcessedMeansRead
    SubscribedTwiceOnlyIfLate
PROPERTIES
    MirrorNeverGoesBack
    AccountCatchesUp
CHECK_DEADLOCK FALSE
