SPECIFICATION FairSpec
CONSTANTS
    Jobs = {j1}
    Pages <- MCPages
    Start <- MCStart
    Host <- MCHost
    Links <- MCLinks
    Skipped = {"logo.png"}
    MaxPages = 2
    Runners = {loop, process}
    Loops = {loop}
    InlineSpawn = TRUE
    MaxOps = 2
    MaxDeaths = 1
    NoJob = NoJob
INVARIANTS
    TypeOK
    VisitsOnce
    CrawlIsComplete
    WithinLimit
    RunningIsRun
PROPERTY JobsSettle
CHECK_DEADLOCK FALSE
