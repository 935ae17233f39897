SPECIFICATION Spec
CONSTANTS
    MaxItems = 5
    Tall = {14, 16, 18}
    ListHeight = 3
    MaxBlind = 4
    Chars = {"a", "b"}
    MAX_LEN = 5
    box_width = 3
    prompt_width = 3
    MaxLines = 8
    BoxHeights = {1, 2, 3, 5}
    MaxRows = 5
    mwin_max_lines = 3
    MaxPattern = 2
    Strings <- MCStrings
INVARIANTS
    ScreenTrue
    Editing
PROPERTIES
    PlaceKept
    SearchFinds
    NothingSkipped
