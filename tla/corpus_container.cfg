SPECIFICATION Spec
CONSTANTS
    Docs = {d1, d2}
    CrawlDocs = {d2}
    Contents = {"short", "long"}
    Size <- MCSize
    Workers = {w1}
    Requests = {r1}
    InlineSpawn = FALSE
    MaxOps = 5
    NoDoc = NoDoc
    NoHash = NoHash
    NoRow = NoRow
    Absent = Absent
    Torn = Torn
    Free = Free
INVARIANTS
    TypeOK
    Aligned
    ReadyIndexed
    ProcessingIsInFlight
    HashUnique
    HashTellsIndexed
CHECK_DEADLOCK FALSE
