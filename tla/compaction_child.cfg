SPECIFICATION LandingSpec
CONSTANTS
    EveryN = 2
    Keeps = {0}
    Windows = {1}
    Effects = {"write", "fork"}
    Sheddable = {}
    CrashSites = {}
    MaxArrivals = 0
    MaxCalls = 3
    MaxPasses = 1
    MaxTools = 1
    MaxWorkers = 1
    MaxCrashes = 0
INVARIANT
    WorkersLand
CHECK_DEADLOCK FALSE
