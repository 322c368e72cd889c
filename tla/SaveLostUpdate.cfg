SPECIFICATION Spec
CONSTANTS
    Windows = {w1, w2}
    Rows = {1}
    Kinds = {"form"}
    Starts = {1}
    None = None
    MaxEdits = 2
    MaxExtra = 0
SYMMETRY Symmetry
PROPERTIES
    NoLostUpdate
CHECK_DEADLOCK FALSE
