SPECIFICATION Spec
CONSTANTS
    Symbols <- MCSymbols
    SymType <- MCSymType
    Choices <- MCChoices
    modules_sym = "MODULES"
    Strings <- MCStrings
    Number <- MCNumber
    Trees <- MCTrees
    Randoms <- MCRandoms
    Modes <- MCModes
    EditedFiles <- MCEditedFiles
INVARIANTS
    CacheFresh
    Legal
    RoundTrip
    Quiet
PROPERTY
    Ends
