\* Properties the repository states or suggests and the code does not keep.
\* Each of them fails: keep one at a time to see its shortest counterexample.
CONSTANTS
    v1 = v1
    v2 = v2
    v3 = v3
    h1 = h1
    h2 = h2
    Vendors = {v1, v2, v3}
    Slots = {h1, h2}
    MaxAttempts = 3
    MaxRows = 4
    Methods = {"upi", "cod"}
    Calls = {"adminAccept", "cancel", "restore", "changeVendor", "restart"}
SPECIFICATION MCSpec
INVARIANTS
    OnePending
    OneFirstAttempt
PROPERTIES
    ResolvedOnce
    RestoredFirst
    NoOrphanAttempt
    AskedIsPaid
CHECK_DEADLOCK FALSE
