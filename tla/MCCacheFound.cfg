SPECIFICATION Spec
CONSTANTS
    NRules = 2
    RuleIds <- MCRuleIds
    TokenIds <- MCTokenIds
    InitCaps = {0, 2}
    DefaultCap = 1
    SizeMod <- MCSizeMod
    AllocLimit = 24
    Nodes = {n1, n2}
    NoNode = NoNode
    MaxSets = 3
INVARIANT EncounteredIsFound
CHECK_DEADLOCK FALSE
