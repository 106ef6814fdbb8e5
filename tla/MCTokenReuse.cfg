SPECIFICATION Spec
CONSTANTS
    Texts <- OneChar
    MaxParses = 2
    SIZE_MAX = 1000
INVARIANT ParserIsReusable
CHECK_DEADLOCK FALSE
