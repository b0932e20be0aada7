SPECIFICATION FairSpec
CONSTANTS
    Requests = {r1, r2}
    Owners = {o1}
    Origins = {"site"}
    NoOrigins = NoOrigins
    Unset = Unset
    Months = {1}
    MaxTime = 4
    MaxOps = 2
    MaxFailures = 1
INVARIANTS
    PlanTypeOK
    OriginsKept
PROPERTY AccessSettles
CHECK_DEADLOCK FALSE
