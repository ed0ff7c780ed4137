SPECIFICATION MCSpec
CONSTANTS
    default = default
    plan = plan
    a = a
    r = r
    b = b
    operator = operator
    Names = {default, plan}
    Default = default
    Agents = {a, r}
    Reviewers = {r}
    Operator = operator
    Facts = {"planner", "note"}
    MaxCommits = 3
    MaxPasses = 2
    MaxCrashes = 1
    Moved = {a}
    Root = a
    MaxMarks = 2
INVARIANTS FactsKept LandedWhere
PROPERTY OnlyForward
CHECK_DEADLOCK FALSE
