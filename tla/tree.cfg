SPECIFICATION Spec
CONSTANTS
    ByHand = {"worker", "verifier"}
    Titles = {"a"}
    Budgeted = TRUE
    MaxChildren = 3
    MaxTouches = 1
    MaxMessages = 1
    MaxDeaths = 1
    Ids <- MCIds
    Names = {anna, bert}
    Limit = 2
    MaxDepth = 1
    MaxCrashes = 1
    MaxDeletes = 2
INVARIANTS
    NothingUnapproved NoResultLost Funded NamesHold NothingLeft
SYMMETRY Naming
CHECK_DEADLOCK FALSE
