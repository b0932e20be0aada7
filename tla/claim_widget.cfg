SPECIFICATION LocksSpec
CONSTANTS
    Builds = {"classic"}
    Guarded = {"classic"}
    MaxSends = 1
    Depth <- MCLocksDepth
    MaxTokens = 1
    HistoryLimit = 3
PROPERTY HistoryUnlocks
CHECK_DEADLOCK FALSE
