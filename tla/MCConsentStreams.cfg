SPECIFICATION Spec
CONSTANTS
    Requests = {r1, r2}
    Adviser = {r2}
    Clients = {c1, c2}
    Streams = {d1}
    QueueLimit = 1
    StreamLimit = 1
    MaxRows = 3
    MaxOpen = 2
SYMMETRY Symmetry
INVARIANTS TypeOK StreamHearsAnswer ConnectedHears
CHECK_DEADLOCK FALSE
