SPECIFICATION AMSpec
CONSTANTS
    p1 = p1
    NoText = NoText
    Unreadable = NoText
    Client <- MCClient
    Stmt <- MCStmt
    Bad <- MCBad
    Once <- MCOnce
    Outside <- MCOutside
    Needs <- MCNeeds
    Dir <- MCDir
    Options <- MCOptions
    Scripts = {}
    MaxFaults = 0
    MaxRuns = 1
INVARIANTS
    RolledBackMeansUndone
CHECK_DEADLOCK FALSE
