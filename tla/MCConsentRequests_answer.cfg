SPECIFICATION Spec
CONSTANTS
    Requests = {r1, r2}
    NoRequest = NoRequest
    Terms = {t1, t2}
    SameExport <- OneExport
    Askers = {a1}
    NoAsker = NoAsker
    Deciders = {k1, k2}
    Workers = {p1, p2}
    MaxFaults = 0
    MaxBuried = 0
SYMMETRY Symmetry
INVARIANTS OneAnswer
PROPERTIES KeepsConsentPromise
CHECK_DEADLOCK FALSE
