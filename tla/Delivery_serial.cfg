CONSTANTS
    r1 = r1
    r2 = r2
    r3 = r3
    h1 = h1
    h2 = h2
    Riders = {r1, r2}
    Slots = {h1}
    MaxRows = 3
    MaxSettled = 2
    Calls = {"ping", "accept", "reject", "online", "adminAssign", "advance", "complete", "cancel", "load", "adminSet", "restore", "changeVendor", "restart"}
SPECIFICATION MCFairSpec
INVARIANTS
    NeverForgottenCalm
    HeldByItsRiderCalm
    SettledOnceCalm
PROPERTIES
    KeepsOfferingCalm
CHECK_DEADLOCK FALSE
