SPECIFICATION Spec
CONSTANTS
    Domains = {d1, d2}
    Nothing = Nothing
    MaxCommits = 4
    MaxFailures = 2
INVARIANTS
    QuietShowsAcknowledged
    SavedMeansAllQuiet
    CallersToldTheTruth
PROPERTIES
    EveryCallerAnswered
CHECK_DEADLOCK FALSE
