SPECIFICATION CTSpec
CONSTANTS
    Options <- MakeSpec
    Alias <- ToolAlias
    PrefixedName <- ToolEnvNames
    Worlds <- MCWorlds
    Chains = {}
    Params = {}
    TrueWords = {"true", "1"}
    FalseWords = {"false", "0"}
    Numbers = {}
    CommandLines <- MCCommandLines
    Secret = {"db.password"}
    Mask <- MCMask
    Mangled <- MCMangled
    NotUtf8 = {"half a character"}
INVARIANTS
    ToolTypeOK
    ToolExitTellsWhy
    DumpReadsBack
    TemplateHoldsOnlyDefaults
CHECK_DEADLOCK FALSE
