SPECIFICATION Spec
CONSTANTS
    a = a
    b = b
    Grammars <- RecursiveGrammars
    Inputs <- ABAB
    SizeMod = 16
    MayLose = FALSE
    Depths = {40}
INVARIANT StatusReportsSuccess
CHECK_DEADLOCK FALSE
