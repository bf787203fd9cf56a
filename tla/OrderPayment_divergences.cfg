\* Properties the repository states or suggests and the code does not keep.
\* Each of them fails: keep one at a time to see its shortest counterexample.
CONSTANTS
    s1 = s1
    s2 = s2
    Sessions = {s1, s2}
    Prices <- TwoVendors
    Balances = {2}
    MaxRows = 2
    MaxTaken = 2
    Calls = {"initiate", "providerFails", "confirm", "reconcile", "reconcileFailed", "markRefunded", "cancel", "restore", "deliver", "reallocate"}
SYMMETRY SessionSymmetry
SPECIFICATION MCSpec
INVARIANTS
    FullyPaid
    OneLivePayment
    NotOverRefunded
CHECK_DEADLOCK FALSE
