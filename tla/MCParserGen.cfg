SPECIFICATION Spec
CONSTANTS
    Texts <- MCTexts
    SpecialPrefixes <- MCPrefixes
    Words <- MCWords
    Upper <- MCUpper
    PunctuatorNames <- MCPunctuatorNames
INVARIANTS
    EmittedRulesDenoteGrammar
    EnumeratorsAreRules
PROPERTY PointersStayValid
CHECK_DEADLOCK FALSE
