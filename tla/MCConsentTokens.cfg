SPECIFICATION Spec
CONSTANTS
    Instances = {i1, i2}
    Broad = broad
    Narrow = narrow
    OwnerLane = owner
    Lanes <- MCLanes
    StrictLanes = {}
    AdvisorLanes = {}
    Covers <- MCCovers
    Tokens = {t1, t2}
    NoToken = NoToken
    MaxFaults = 1
    MaxWithdrawals = 0
SYMMETRY Symmetry
INVARIANTS TypeOK EndedStaysEnded LocalRevocationStrict MemoryAgreesWithLedger
PROPERTY AcceptHonoursRevocation
CHECK_DEADLOCK FALSE
