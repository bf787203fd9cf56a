\* Properties the repository states or suggests and the code does not keep.
\* Each of them fails: keep one at a time to see its shortest counterexample.
CONSTANTS
    r1 = r1
    r2 = r2
    r3 = r3
    h1 = h1
    h2 = h2
    Riders = {r1, r2, r3}
    Slots = {h1, h2}
    MaxRows = 6
    MaxSettled = 2
    Calls = {"ping", "accept", "reject", "online", "adminAssign", "advance", "complete", "cancel", "adminSet", "restore", "changeVendor", "restart"}
SPECIFICATION MCSpec
INVARIANTS
    SettledOnce
    OffersCycle
PROPERTIES
    RestoredFirst
    HandedOverAlone
CHECK_DEADLOCK FALSE
