SPECIFICATION Spec
CONSTANTS
    Requests = {r1, r2, r3}
    NoRequest = NoRequest
    Terms = {t1, t2}
    SameExport <- OwnExport
    Askers = {a1, a2}
    NoAsker = NoAsker
    Deciders = {k1}
    Workers = {p1}
    MaxFaults = 0
    MaxBuried = 0
SYMMETRY Symmetry
INVARIANTS TypeOK DuplicatesNeedDetour RacingDuplicatesBounded
CHECK_DEADLOCK FALSE
