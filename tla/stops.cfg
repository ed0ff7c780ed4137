SPECIFICATION Spec
CONSTANTS
    Agents <- MCAgents
    Target <- MCTarget
    Pids = {p1, p2, p3}
    Visitors = {v1}
    JobControl = {}
    SELF = SELF
    NONE = NONE
    Tools = {"bash", "python", "external"}
    Budget = 2
    NIL = NIL
    Sweepers = {s1, s2}
    CrashSites = {"hop", "step", "file", "mark", "ref", "inbox", "tree", "report", "marking"}
    MaxLetters = 2
    MaxFailures = 2
    MaxSweeps = 3
INVARIANTS
    FellsTheSubtree GatedAndWhole FelledTree
    ReturnsTypeOK MarkSound ReportsCounted
PROPERTIES
    StopEnds StoppedCallEnds
    FalseDeathsExplained
CHECK_DEADLOCK FALSE
