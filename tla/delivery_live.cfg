SPECIFICATION FairSpec
CONSTANTS
    w1 = w1
    w2 = w2
    w3 = w3
    w4 = w4
    user = user
    child = child
    d1 = d1
    d2 = d2
    s1 = s1
    c1 = c1
    NONE = NONE
    SenderOf <- MCSenderOf
    Kind <- MCKind
    Writers = {w1, w3, w4}
    Drivers = {d1}
    Scans = {}
    Censuses = {}
    Serial = {user}
    Gated = {w3}
    MaxSeq = 2
    MaxFaults = 0
    MaxTouches = 1
PROPERTIES
    Delivered
    LaunchesCease
CHECK_DEADLOCK FALSE
