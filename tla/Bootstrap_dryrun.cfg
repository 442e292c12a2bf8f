SPECIFICATION BCSpec
CONSTANTS
    Options <- MakeSpec_ApplyMeta
    Alias <- NoAlias
    PrefixedName <- EnvNames
    Worlds <- MCWorlds
    Chains = {}
    Params = {}
    TrueWords = {"true", "1"}
    FalseWords = {"false", "0"}
    Numbers = {}
INVARIANTS
    DryRunNeverExecutes
CHECK_DEADLOCK FALSE
