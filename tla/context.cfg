SPECIFICATION Spec
CONSTANTS
    NONE = NONE
    Tools = {"bash"}
    Roles = {"worker", "titler"}
    Granted <- MCGranted
    Agents = {1, 2}
    MaxEdits = 1
    MaxTree = 3
    MaxCuts = 2
    MaxAttempts = 2
    MaxBlocks = 1
    MaxSteps = 2
    MaxCrashes = 1
    MaxStops = 1
    Selectable = {1, 2, 3, 4}
    Pinned = {1}
    Categories = 2
    Category <- MCCategory
    Summaries = {3, 4}
    Tokens <- MCTokens
    Budget = 8
    Overflows = {"drop_oldest_summaries", "truncate", "drop"}
    ToolNames <- MCToolNames
    Described = {"a", "b"}
    Host = {"h"}
    Starts <- MCStarts
    MaxEntries = 5
    MaxActs = 2
    Files <- MCFiles
    Policies <- MCPolicies
    PAGE_BYTES = 10
    Limits = {0, 1}
    MaxReads = 6
    Names = {"bash", "notes"}
    Releases <- MCReleases
    Claimed = {"bash"}
    Ids = {1, 2}
    Older = FALSE
    MaxBodies = 3
    MaxCommits = 4
INVARIANTS
    OneMeaning Lawful SpentOnTheNewest Replayable EntryIsOneAnswer
PROPERTIES
    PrefixKept ReadsToTheEnd SkillsKept
CHECK_DEADLOCK FALSE
