SPECIFICATION MemoSpec
CONSTANTS
    a = a
    b = b
    Grammars <- MemoGrammars
    Inputs <- MemoInputs
    SizeMod = 64
    MayLose = TRUE
    Depths = {40}
    InitCap = 2
INVARIANTS
    NoCrashOnShortInputs
    LinearOnShortInputs
PROPERTY ParseEnds
CHECK_DEADLOCK FALSE
