SPECIFICATION AMFairSpec
CONSTANTS
    p1 = p1
    p2 = p2
    NoText = NoText
    Unreadable = NoText
    Client <- MCClient
    Stmt <- MCStmt
    Bad <- MCBad
    Once <- MCOnce
    Outside <- MCOutside
    Needs <- MCNeeds
    Dir <- MCDir
    Options <- MCOptions
    Scripts = {}
    MaxFaults = 1
    MaxRuns = 1
PROPERTIES
    KeepsPromise
    RunsEnd
CHECK_DEADLOCK FALSE
