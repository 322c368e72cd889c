SPECIFICATION LiveSpec
CONSTANTS
    Workspaces = {w1, w2}
    Files = {f1, f2}
    Folders = {a, b}
    Pollers = {p1, p2}
    NoFolder = NoFolder
    Away = Away
    NoOne = NoOne
    Chunk = 1
    MaxChanges = 1
    MaxExtra = 2
INVARIANTS
    NothingPassedOver
    GoneIsWithdrawn
PROPERTIES
    ImportedForGood
    WatcherCatchesUp
