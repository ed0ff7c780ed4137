SPECIFICATION WindowSpec
CONSTANTS
    MaxSteps = 1
    MaxBlocks = 2
    MaxMail = 1
    MaxDrives = 2
    MaxFaults = 0
    MaxStops = 1
    NoMark = NoMark
PROPERTIES
    StopHonoured
CHECK_DEADLOCK FALSE
