SPECIFICATION Spec
CONSTANTS
    A = A
    S = S
    None = None
    Options <- MCOptions
    Strings <- MCStrings
    Needs <- MCNeeds
    Situations <- MCSituations
    MaxMishaps = 2
INVARIANTS
    Saved
    InStep
PROPERTIES
    NothingLost
