SPECIFICATION FairRecoverySpec
CONSTANTS
    Docs = {d1, d2}
    CrawlDocs = {d2}
    Contents = {"short", "long"}
    Size <- MCSize
    Workers = {w1}
    Requests = {r1}
    Threads = {}
    InlineSpawn = FALSE
    MaxOps = 3
    MaxCrashes = 2
    NoDoc = NoDoc
    NoHash = NoHash
    NoRow = NoRow
    Absent = Absent
    Torn = Torn
    Free = Free
    NoService = NoService
PROPERTIES
    RepairKeepsLoadable
    RepairLeavesLoadable
    LockReleased
    QueueSurvives
CHECK_DEADLOCK FALSE
