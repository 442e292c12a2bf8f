SPECIFICATION FairSpec
CONSTANTS
    IntRange = 16
    MaxPort = 5
    DefaultPort = 4
    DefaultPath = "default"
    Worlds <- MCWorlds
    Dsn = {"boot", "app"}
    Request = {r1, r2}
    Ups <- MCUps
    MethodOf <- MCMethodOf
    NotUtf8 <- MCNotUtf8
    MaxChanges = 1
INVARIANTS
    TypeOK
    ConfigFromStrongest
    ExitTellsWhy
    NoDefaultConnection
    NotFoundMeansUnknown
    DocumentsReachDocSave
    ReadyIsTrue
    DatabaseOnlyWithToken
    ErrorsAreUniform
    OnlyPathsEndService
PROPERTIES
    Answered
CHECK_DEADLOCK FALSE
