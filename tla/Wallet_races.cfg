CONSTANTS
    h1 = h1
    h2 = h2
    Slots = {h1, h2}
    Customer = TRUE
    Openings = {3}
    Amounts = {2}
    Validities = {1}
    Friends = {1}
    LastDay = 1
    MaxCalls = 3
    Calls = {"sweep", "summary", "pay", "payFull", "refund", "refundFull", "withdraw", "approve", "reject", "debit", "credit", "restoreCredit", "adjustExpiry", "issueCard", "scratch", "restoreCard", "adjustCard", "reward", "commission", "confirm", "cancelCommission", "restoreCommission"}
SYMMETRY SlotSymmetry
SPECIFICATION MCSpec
INVARIANTS
    NoSilentLoss
    RewardedOnce
    CardPaysOnceLeft
    CreditsCoveredAlone
CHECK_DEADLOCK FALSE
