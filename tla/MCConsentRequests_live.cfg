SPECIFICATION FairSpec
CONSTANTS
    Requests = {r1, r2}
    NoRequest = NoRequest
    Terms = {t1}
    SameExport <- OneExport
    Askers = {a1, a2}
    NoAsker = NoAsker
    Deciders = {k1}
    Workers = {p1, p2}
    MaxFaults = 1
    MaxBuried = 1
PROPERTY OverdueSettles AskAnswered
CHECK_DEADLOCK FALSE
