SPECIFICATION CDSpec
CONSTANTS
    p1 = p1
    Client <- MCClient
    Stmt <- MCStmt
    Bad = {}
    Once <- MCStmt
    Outside <- MCDatabase
    Needs <- MCNeeds
    Role <- MCRole
    Database <- MCDatabase
    Catalogs <- MCCatalogs
    Options <- MCOptions
    Scripts = {}
    MaxFaults = 0
INVARIANTS
    ForcedRunCreates
CHECK_DEADLOCK FALSE
