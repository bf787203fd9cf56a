SPECIFICATION MCSpec
CONSTANTS
    v1 = v1
    v2 = v2
    h1 = h1
    h2 = h2
    tick = tick
    Slots = {h1, h2}
    Tick = tick
    Vendors = {v1, v2}
    MinutesPerDay = 3
    Days = 2
    MealSlots = {"dinner"}
    DefaultTimings <- OneDinner
    Schedules <- SomeSchedules
    Timings <- SomeTimings
    FirstAccount <- OneAccount
    FirstStore <- OneStore
    FirstRestaurant <- OneRestaurant
    FirstCategory <- OneCategory
    FirstItem <- OneItem
    MaxClock = 2
    MaxCalls = 2
    MaxCuts = 1
INVARIANTS ClosedStaysClosed SwitchesAgree
PROPERTIES FollowsSchedule
CHECK_DEADLOCK FALSE
