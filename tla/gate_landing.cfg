SPECIFICATION FairGateSpec
CONSTANTS
    ByHand = {}
    Titles = {"a"}
    Budgeted = FALSE
    MaxChildren = 2
    MaxTouches = 1
    MaxMessages = 2
    MaxDeaths = 0
PROPERTY LandingEnds
CHECK_DEADLOCK FALSE
