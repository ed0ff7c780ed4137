SPECIFICATION ReturnsSpec
CONSTANTS
    s1 = s1
    Sweepers = {s1}
    CrashSites = {"hop", "step", "file", "mark", "ref", "inbox", "tree", "report", "marking"}
    MaxLetters = 1
    MaxFailures = 1
    MaxSweeps = 1
PROPERTY NoFalseDeath
CHECK_DEADLOCK FALSE
