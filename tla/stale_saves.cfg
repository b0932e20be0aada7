SPECIFICATION Spec
CONSTANTS
    Docs = {d1, d2}
    CrawlDocs = {d2}
    Contents = {"short", "long"}
    Size <- MCSize
    Workers = {w1, w2}
    Requests = {r1, r2}
    InlineSpawn = TRUE
    MaxOps = 4
    NoDoc = NoDoc
    NoHash = NoHash
    NoRow = NoRow
    Absent = Absent
    Torn = Torn
    Free = Free
INVARIANTS
    OneVersion
SYMMETRY Interchangeable
PROPERTIES
    OnlyFormsResurrect
    ImplementsStore
CHECK_DEADLOCK FALSE
