SPECIFICATION AMFairSpec
CONSTANTS
    p1 = p1
    NoText = NoText
    Unreadable = NoText
    Client <- MCClient
    Stmt <- MCStmt
    Bad <- MCBad
    Once <- MCOnce
    Outside <- MCOutside
    Needs <- MCNeeds
    Dir <- MCDir
    Options <- MCOptions
    Scripts = {}
    MaxFaults = 2
    MaxRuns = 2
INVARIANTS
    TypeOK
    FileAtomic
    InOrder
    SuccessMeansApplied
PROPERTIES
    KeepsPromise
    RunsGoForward
    RerunRepairs
CHECK_DEADLOCK FALSE
