SPECIFICATION Spec
CONSTANTS
    Orders = {x1}
    Locations = {l1}
    Overlap = 1
    LocationsChange = FALSE
    CommitCanFail = TRUE
    MaxTime = 3
    MaxUpsets = 1
INVARIANTS
    NothingOutOfReach
CHECK_DEADLOCK FALSE
