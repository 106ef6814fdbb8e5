SPECIFICATION Spec
CONSTANTS
    a = a
    b = b
    Grammars <- Parenthesised
    Inputs <- ABAB
    SizeMod = 16
    MayLose = FALSE
    Depths = {40}
INVARIANT NoCrash
CHECK_DEADLOCK FALSE
