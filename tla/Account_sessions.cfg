SPECIFICATION MCAccountSpec
CONSTANTS
    h1 = h1
    h2 = h2
    d1 = d1
    d2 = d2
    d3 = d3
    d4 = d4
    p1 = 1
    p2 = 2
    c1 = 11
    c2 = 12
    Slots = {h1, h2}
    Apps = {d1, d2, d3, d4}
    Phones = {1, 2}
    Roles = {"customer", "delivery_partner"}
    Codes = {11, 12}
    FirstDb <- FourUsers
    FirstKey = 8
    FirstDevices <- TwoSignedIn
    HasOrders = {1}
    Offered = {"otp", "reset", "login", "register", "refresh", "code", "password", "delete", "address", "createUser", "updateUser", "deleteUser", "resetVendor"}
    MaxAttempts = 2
    Draws = 2
    Grace = 2
    MaxClock = 2
    MaxCalls = 2
    MaxCuts = 2
SYMMETRY Symmetry
INVARIANTS ToldCodesStay EnrolledHasProfile CodeUsedOnce
PROPERTY NotLoggedOut
CHECK_DEADLOCK FALSE
