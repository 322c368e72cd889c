SPECIFICATION FairSpec
CONSTANTS
    Orders = {x1}
    Locations = {l1, l2}
    Overlap = 1
    LocationsChange = TRUE
    CommitCanFail = TRUE
    MaxTime = 4
    MaxUpsets = 3
INVARIANTS
    OutOfReachOnlyWhereCut
PROPERTIES
    WatermarkHolds
    EverythingArrives
CHECK_DEADLOCK FALSE
