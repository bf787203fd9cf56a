\* Properties the repository states or suggests and the code does not keep.
\* Each of them fails: keep one at a time to see its shortest counterexample.
SPECIFICATION MCSpec
CONSTANTS
    v1 = v1
    s1 = s1
    s2 = s2
    w1 = w1
    w2 = w2
    Vendors = {v1}
    Sessions = {s1, s2}
    Owner <- TwoTaps
    Ids = {w1, w2}
    Payouts = {2}
    Asks = {1}
    Limits = {1}
    DefaultLimit = 1
    MaxSettlements = 2
SYMMETRY Symmetry
INVARIANTS
    NeverOverdrawn
CHECK_DEADLOCK FALSE
