SPECIFICATION FairServingSpec
CONSTANTS
    Docs = {d1}
    CrawlDocs = {d1}
    Contents = {"short", "brief"}
    Size <- MCSize
    Workers = {w1}
    Requests = {r1}
    Threads = {t1, t2}
    InlineSpawn = FALSE
    MaxOps = 2
    NoDoc = NoDoc
    NoHash = NoHash
    NoRow = NoRow
    Absent = Absent
    Torn = Torn
    Free = Free
    NoService = NoService
INVARIANTS
    ServedAligned
    SignatureTellsFresh
PROPERTIES
    ServiceKept
    EventuallyFresh
CHECK_DEADLOCK FALSE
