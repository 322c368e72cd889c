SPECIFICATION Spec
CONSTANTS
    Windows = {w1}
    Rows = {1}
    Kinds = {"recipe"}
    Starts = {1}
    None = None
    MaxEdits = 2
    MaxExtra = 1
INVARIANTS
    SavedMeansPersisted
CHECK_DEADLOCK FALSE
