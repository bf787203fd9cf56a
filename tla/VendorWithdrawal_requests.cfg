\* Two taps of one vendor at once, the admin, settlements and limit changes.
SPECIFICATION MCSpec
CONSTANTS
    v1 = v1
    s1 = s1
    s2 = s2
    w1 = w1
    w2 = w2
    Vendors = {v1}
    Sessions = {s1, s2}
    Owner <- TwoTaps
    Ids = {w1, w2}
    Payouts = {1, 2}
    Asks = {2}
    Limits = {2}
    DefaultLimit = 1
    MaxSettlements = 2
SYMMETRY Symmetry
INVARIANTS
    NeverOverdrawnAlone
    PeriodsDisjointAlone
PROPERTIES
    LedgerSpecAlone
