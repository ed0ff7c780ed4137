SPECIFICATION CallFairSpec
CONSTANTS
    Tools = {"bash", "python"}
    Budget = 2
    NIL = NIL
INVARIANT
    ProgramEnds
CHECK_DEADLOCK FALSE
