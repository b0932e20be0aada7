SPECIFICATION Spec
CONSTANTS
    Conversations = {c1, c2}
    Visitors = {v1, v2}
    Handlers = {h1, h2}
    Operators = {o1}
    Threshold = 2
    MaxRequests = 3
    MaxOps = 2
    Nobody = Nobody
    NoRow = NoRow
INVARIANTS
    TypeOK
    BlockedIsNotAnswered
    NeverBlockedEarly
    CountNeverAhead
PROPERTY OnlyOperatorsUnblock
SYMMETRY Interchangeable
CHECK_DEADLOCK FALSE
