SPECIFICATION Spec
CONSTANTS
    Instances = {i1, i2}
    Broad = broad
    Narrow = narrow
    OwnerLane = owner
    Lanes <- MCLanes
    StrictLanes = {narrow}
    AdvisorLanes = {broad}
    Covers <- MCCovers
    Tokens = {t1, t2}
    NoToken = NoToken
    MaxFaults = 0
    MaxWithdrawals = 1
SYMMETRY Symmetry
INVARIANTS MemoryAgreesWithLedger StrictListedIsValid
CHECK_DEADLOCK FALSE
