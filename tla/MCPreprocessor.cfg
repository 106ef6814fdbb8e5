SPECIFICATION Spec
CONSTANTS
    Texts <- MCTexts
    Files <- MCFiles
    Fuel = 20
INVARIANTS
    ExpandsAsC
    NoMacroLeft
CHECK_DEADLOCK FALSE
