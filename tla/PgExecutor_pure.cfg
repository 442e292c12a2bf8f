SPECIFICATION FairSpec
CONSTANTS
    c1 = c1
    c2 = c2
    Client <- MCClient
    Stmt <- MCStmt
    Bad <- MCBad
    Once <- MCOnce
    Outside <- MCOutside
    Needs <- MCNeeds
    Scripts <- PureScripts
    MaxFaults = 2
INVARIANTS
    PgTypeOK
    CleanBetweenCalls
    OkIsDurable
PROPERTIES
    ExecIsAtomic
    CallsReturn
