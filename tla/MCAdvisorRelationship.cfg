SPECIFICATION Spec
CONSTANTS
    Investors = {i1}
    Scopes = {s1, s2}
    Requests = {r1, r2}
    NoRequest = NoRequest
    NoInvestor = NoInvestor
    Handlers = {h1, h2}
    MaxFaults = 1
SYMMETRY Symmetry
INVARIANTS TypeOK StatusTracksLedger ClosedSharesNothing InviteUsedOnce
CHECK_DEADLOCK FALSE
