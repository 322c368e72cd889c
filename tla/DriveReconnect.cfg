SPECIFICATION Spec
CONSTANTS
    Workspaces = {w1, w2}
    Files = {f1}
    Folders = {a, b}
    Pollers = {p1}
    NoFolder = NoFolder
    Away = Away
    NoOne = NoOne
    Chunk = 1
    MaxChanges = 0
    MaxExtra = 2
INVARIANTS
    RegisteredMeansListed
