\* Properties the repository states or suggests and the code does not keep.
\* Each of them fails: keep one at a time to see its shortest counterexample.
CONSTANTS
    h1 = h1
    h2 = h2
    Slots = {h1, h2}
    Customer = TRUE
    Openings = {3}
    Amounts = {2}
    Validities = {1}
    Friends = {1}
    LastDay = 1
    MaxCalls = 4
    Calls = {"sweep", "summary", "pay", "payFull", "refund", "refundFull", "withdraw", "approve", "reject", "debit", "credit", "restoreCredit", "adjustExpiry", "issueCard", "scratch", "restoreCard", "adjustCard", "reward", "commission", "confirm", "cancelCommission", "restoreCommission"}
SYMMETRY SlotSymmetry
SPECIFICATION MCSpec
INVARIANTS
    NeverOverdrawn
    CardPaysOnce
    CreditsCovered
CHECK_DEADLOCK FALSE
