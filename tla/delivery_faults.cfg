SPECIFICATION Spec
CONSTANTS
    w1 = w1
    w2 = w2
    w3 = w3
    w4 = w4
    user = user
    child = child
    d1 = d1
    d2 = d2
    s1 = s1
    c1 = c1
    NONE = NONE
    SenderOf <- MCSenderOf
    Kind <- MCKind
    Writers = {w1, w2, w4}
    Drivers = {d1, d2}
    Scans = {s1}
    Censuses = {}
    Serial = {user, child}
    Gated = {w3}
    MaxSeq = 2
    MaxFaults = 1
    MaxTouches = 0
SYMMETRY SlotSymmetry
INVARIANTS
    TypeOK LockInv
    NoStranding
    NoDepositLost
    SenderOrder
PROPERTY ExactlyOnce
CHECK_DEADLOCK FALSE
