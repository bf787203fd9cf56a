SPECIFICATION MCSpec
CONSTANTS
    u1 = u1
    u2 = u2
    phone1 = phone1
    phone2 = phone2
    call1 = call1
    call2 = call2
    Users = {u1, u2}
    Devices = {phone1, phone2}
    Handlers = {call1, call2}
    Admins = {u2}
    Reachable <- OneReachable
    FirstApps <- TwoPhones
    FirstTokens <- OneRow
    FirstId = 3
    MaxSignIns = 2
    MaxReinstalls = 1
    MaxJobs = 2
    MaxRestarts = 1
SYMMETRY HandlerSymmetry
INVARIANTS OneAccountPerDevice
PROPERTIES LiveTokensStay
CHECK_DEADLOCK FALSE
