\* Two calls at once of everything that moves the money of one order.
CONSTANTS
    s1 = s1
    s2 = s2
    Sessions = {s1, s2}
    Prices <- TwoVendors
    Balances = {2}
    MaxRows = 2
    MaxTaken = 2
    Calls = {"initiate", "providerFails", "confirm", "reconcile", "reconcileFailed", "markRefunded", "cancel", "restore", "deliver", "reallocate"}
SYMMETRY SessionSymmetry
SPECIFICATION MCSpec
INVARIANTS
    NeverNegative
    FullyPaidAlone
    OneLivePaymentAlone
PROPERTIES
    PaidStays
    CancelRefundsAlone
CHECK_DEADLOCK FALSE
