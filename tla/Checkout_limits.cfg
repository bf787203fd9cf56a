CONSTANTS
    k1 = k1
    k2 = k2
    c1 = c1
    c2 = c2
    Runs = {k1, k2}
    Customers = {c1}
    Keys = {"k"}
    Carts <- CartsOfRun
    Codes <- CodesOfRun
    Typed = {"SAVE", "auto"}
    FirstVoucher <- TwoCodes
    VoucherEdits <- VoucherChoices
    FirstDiscount <- NoDiscount
    DiscountEdits <- DiscountChoices
    RuleEdits <- RuleChoices
    TierEdits <- TierChoices
    FirstOffer <- OneFree
    OfferEdits <- OfferChoices
    ExtraEdits = {1}
    MaxOrders = 2
    MaxEvents = 1
SYMMETRY SlotSymmetry
SPECIFICATION MCCheckoutSpec
INVARIANTS
    OneOrderPerKey
    LimitsKept
CHECK_DEADLOCK FALSE
