SPECIFICATION Spec
CONSTANTS
    Options <- MCOptions
    Alias <- MCAlias
    PrefixedName <- MCPrefixed
    Worlds <- MCWorlds
    Chains <- MCChains
    Params <- MCParams
    TrueWords = {"true", "1"}
    FalseWords = {"false", "0"}
    Numbers = {"17", "4", "5"}
INVARIANTS
    TypeOK
    EarlierWins
    AskedOnlyForHoles
    MissingIsReported
    ArgvIsReadLocally
CHECK_DEADLOCK FALSE
