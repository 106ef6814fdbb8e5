SPECIFICATION Spec
CONSTANTS
    Texts <- EmptyText
    MaxParses = 1
    SIZE_MAX = 1000
INVARIANT SuccessGivesTokens
CHECK_DEADLOCK FALSE
