SPECIFICATION Spec
CONSTANTS
    Symbols <- MCSymbols
    SymType <- MCSymType
    Choices <- MCChoices
    modules_sym = "MODULES"
    Conditions <- MCConditions
    MaxEntries = 3
    MaxStatements = 4
INVARIANTS
    DeclaredConditions
    SubmenuHides
    LoopsReported
CHECK_DEADLOCK FALSE
