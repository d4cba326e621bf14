SPECIFICATION FairSpec
CONSTANTS
    Procs = {p1, p2}
    Requests = {r1}
    MaxFaults = 2
INVARIANTS TypeOK DeliveriesBounded NagBounded
PROPERTY PendingNotified
CHECK_DEADLOCK FALSE
