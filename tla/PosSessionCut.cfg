SPECIFICATION Spec
CONSTANTS
    Orders = {x1}
    Locations = {l1, l2}
    Overlap = 1
    LocationsChange = TRUE
    CommitCanFail = FALSE
    MaxTime = 3
    MaxUpsets = 2
INVARIANTS
    NothingOutOfReach
CHECK_DEADLOCK FALSE
