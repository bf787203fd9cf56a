CONSTANTS
    v1 = v1
    v2 = v2
    v3 = v3
    h1 = h1
    h2 = h2
    Vendors = {v1, v2, v3}
    Slots = {h1}
    MaxAttempts = 2
    MaxRows = 3
    Methods = {"upi", "cod"}
    Calls = {"adminAccept", "cancel", "restore", "changeVendor", "restart"}
SPECIFICATION MCFairSpec
INVARIANTS
    AttemptsBounded
    NoLostTimerUp
    WithItsVendorAlone
    FailedIsRefundedAlone
PROPERTIES
    SearchSpecAlone
    SearchEndsUp
CHECK_DEADLOCK FALSE
