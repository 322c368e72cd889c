SPECIFICATION RecordSpec
CONSTANTS
    Windows = {w1}
    Rows = {1}
    Kinds = {"recipe"}
    Starts = {1}
    None = None
    MaxEdits = 1
    MaxExtra = 1
    Record = 1
    Yield = Yield
    Serving = Serving
    MaxCommits = 2
    MaxFailures = 1
    MaxTrouble = 1
PROPERTIES
    CommitsSurviveSaves
    RecipesSettle
CHECK_DEADLOCK FALSE
