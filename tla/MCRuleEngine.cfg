SPECIFICATION Spec
CONSTANTS
    a = a
    b = b
    Grammars <- SafeGrammars
    Inputs <- SmallInputs
    SizeMod = 16
    MayLose = FALSE
    Depths = {40}
INVARIANTS
    TypeOK
    ReturnIsReference
    AgreesWithReadme
    ChildrenTile
    NoCrash
    LinearWork
    FurthestFailure
    ChildrenKeepTheirRule
CHECK_DEADLOCK FALSE
