SPECIFICATION LexSpec
CONSTANTS
    Texts <- MCTexts
    MaxParses = 2
    SIZE_MAX = 1000
    Literals <- MCLiterals
    Productions <- MCProductions
    TokenRule <- MCTokenRule
    RootUses <- MCRootUses
INVARIANT CachedAsOnToken
CHECK_DEADLOCK FALSE
