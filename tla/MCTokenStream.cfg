SPECIFICATION Spec
CONSTANTS
    Texts <- MCTexts
    MaxParses = 2
    SIZE_MAX = 1000
INVARIANTS
    TypeOK
    NoCharLost
    LinksMirror
    StreamIsString
    IdsRise
    CoordsFollowText
    FirstStringSafe
    ResultsKeptApart
    OneRoundPerChar
CHECK_DEADLOCK FALSE
