SPECIFICATION Spec
CONSTANTS
    Symbols <- MCSymbols
    SymType <- MCSymType
    Pieces <- MCPieces
    MaxLeaves = 3
INVARIANTS
    Faithful
    PrintsBack
    AnswersRight
CHECK_DEADLOCK FALSE
