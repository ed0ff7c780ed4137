SPECIFICATION Spec
CONSTANTS
    MaxSteps = 2
    MaxBlocks = 2
    MaxMail = 1
    MaxDrives = 4
    MaxFaults = 2
    MaxStops = 1
    NoMark = NoMark
    EveryN = 2
    Keeps = {1}
    Windows = {2}
    Effects = {"write", "drop", "note", "fork"}
    Sheddable = {"mail", "output", "result", "summary"}
    CrashSites = {"replayed", "transferred"}
    MaxArrivals = 1
    MaxCalls = 2
    MaxPasses = 2
    MaxTools = 2
    MaxWorkers = 1
    MaxCrashes = 1
    Configs = {"old", "new", "odd", "bad"}
    Bindings <- MCBindings
    Version <- MCVersion
    Roles <- MCRoles
    Clock = {"old", "new", "odd"}
    Ceiling <- MCCeiling
    ByHand = {"worker"}
    Started = {"odd"}
    MaxAgents = 3
    MaxHops = 2
    MaxMoves = 1
INVARIANTS
    TypeOK PositionalPairing RanOnce Accounted Paired
PROPERTIES
    LandingOnlyRemoves ProceduresSound
CHECK_DEADLOCK FALSE
