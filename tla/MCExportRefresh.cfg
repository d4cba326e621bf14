SPECIFICATION FairSpec
CONSTANTS
    Tokens = {t1}
    Writers = {w1, w2}
    Devices = {d1, d2}
    Claims = {c1, c2, c3}
    NoClaim = NoClaim
    MaxContent = 2
    MaxExpiries = 1
    MaxFails = 1
INVARIANTS TypeOK CurrentCoversScheduled PendingHasOpenJob RevokedHasNoExport
PROPERTY RefreshAdvances KeepsPromise PendingSettles
CHECK_DEADLOCK FALSE
