\* Properties the repository states or suggests and the code does not keep.
\* Each of them fails: keep one at a time to see its shortest counterexample.
CONSTANTS
    k1 = k1
    k2 = k2
    c1 = c1
    c2 = c2
    Runs = {k1}
    Customers = {c1}
    Keys = {"none"}
    Carts <- CartsOfRun
    Codes <- CodesOfRun
    Typed = {"none", "WELCOME"}
    FirstVoucher <- TwoCodes
    VoucherEdits = {}
    FirstDiscount <- FiveOff
    DiscountEdits = {}
    RuleEdits = {}
    TierEdits = {}
    FirstOffer <- NoFree
    OfferEdits = {}
    ExtraEdits = {}
    MaxOrders = 2
    MaxEvents = 0
SPECIFICATION MCCheckoutSpec
INVARIANTS
    DiscountWithinLimits
    FirstOrdersOnly
CHECK_DEADLOCK FALSE
