SPECIFICATION Spec
CONSTANTS
    Workspaces = {w1}
    Files = {f1}
    Folders = {a}
    Pollers = {p1}
    NoFolder = NoFolder
    Away = Away
    NoOne = NoOne
    Chunk = 1
    MaxChanges = 0
    MaxExtra = 3
PROPERTIES
    ImportedNeverDemoted
