SPECIFICATION Spec
CONSTANTS
    Conversations = {c1}
    Visitors = {v1, v2}
    Handlers = {h1}
    Operators = {o1}
    Threshold = 2
    MaxRequests = 2
    MaxOps = 1
    Nobody = Nobody
    NoRow = NoRow
PROPERTY NoKeyOutlivesRows
CHECK_DEADLOCK FALSE
