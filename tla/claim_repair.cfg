SPECIFICATION RecoverySpec
CONSTANTS
    Docs = {d1, d2}
    CrawlDocs = {}
    Contents = {"short", "long"}
    Size <- MCSize
    Workers = {w1}
    Requests = {r1}
    Threads = {}
    InlineSpawn = FALSE
    MaxOps = 3
    MaxCrashes = 1
    NoDoc = NoDoc
    NoHash = NoHash
    NoRow = NoRow
    Absent = Absent
    Torn = Torn
    Free = Free
    NoService = NoService

PROPERTY RepairedCorpusConsistent
CHECK_DEADLOCK FALSE
