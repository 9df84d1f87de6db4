SPECIFICATION FairScheduleSpec
CHECK_DEADLOCK FALSE
CONSTANTS
    Null = Null
    Servers = {"p1", "p2"}
    Connectors = {"c"}
    Schedules = {"s", "t"}
    Interval <- Every
    ClaimLimit = 1
    Scopes <- Two
INVARIANT LoopGoesOn
