SPECIFICATION MCKycSpec
CONSTANTS
    h1 = h1
    h2 = h2
    m1 = m1
    r1 = r1
    r2 = r2
    Slots = {h1, h2}
    Merchants = {m1}
    Riders = {r1, r2}
    Types = {"front", "back", "licence"}
    Mandatory = {"front", "back"}
    HasOrders = {r1}
    FirstAccounts <- TwoAccounts
    FirstProfiles <- TwoProfiles
    FirstDocs <- ThreeDocs
    MaxCalls = 3
    MaxCuts = 1
INVARIANTS Verified RejectionTold
CHECK_DEADLOCK FALSE
