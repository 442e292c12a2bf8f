SPECIFICATION CDFairSpec
CONSTANTS
    p1 = p1
    p2 = p2
    Client <- MCClient
    Stmt <- MCStmt
    Bad = {}
    Once <- MCStmt
    Outside <- MCDatabase
    Needs <- MCNeeds
    Role <- MCRole
    Database <- MCDatabase
    Catalogs <- MCCatalogs
    Options <- MCOptions
    Scripts = {}
    MaxFaults = 1
INVARIANTS
    TypeOK
    RoleEnsured
    SuccessMeansThere
PROPERTIES
    KeepsPromise
    RunsEnd
CHECK_DEADLOCK FALSE
