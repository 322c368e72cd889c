SPECIFICATION Spec
CONSTANTS
    Windows = {w1, w2}
    Rows = {1, 2}
    Kinds = {"recipe", "invoice", "menu", "form"}
    Starts = {0, 1}
    None = None
    MaxEdits = 2
    MaxExtra = 1
SYMMETRY Symmetry
INVARIANTS
    SavedIsStored
    OneRowPerPage
PROPERTIES
    ReplacesOnlyWhatItKnew
    LeavesOnlySaved
    CopyKept
CHECK_DEADLOCK FALSE
