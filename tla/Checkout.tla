------------------------------ MODULE Checkout ------------------------------
(***************************************************************************)
(* Placing orders (createGroceryOrder, createFoodOrder and priceTotals of  *)
(* order.service.ts) with what they read and count: vouchers               *)
(* (coupon.service.ts), vendor discounts (vendor-discounts.service.ts),    *)
(* revenue rules, distance fees and the new customer's free deliveries.    *)
(*                                                                         *)
(* Nothing here is a transaction: a checkout reads and counts in one query *)
(* after another, and inserts the order, its items and its redemptions one *)
(* by one.  A checkout in progress is a record in run[h]; each step is one *)
(* query, or several reads of tables that no property relates.             *)
(***************************************************************************)
EXTENDS Pricing

CONSTANTS
    Runs,             \* checkouts that may be in progress at once
    Customers,
    Keys,             \* idempotency keys of the app, "none" for no key
    Carts,            \* [kind, vendor, category, price, km, outer]: what to order
    Codes,            \* voucher codes
    Typed,            \* what the code field may hold: a code, "none", "auto"
    FirstVoucher,     \* Codes -> the voucher of a code at first
    VoucherEdits,     \* vouchers an admin may save
    FirstDiscount,    \* the vendor's discount at first
    DiscountEdits,    \* discounts an admin may save
    RuleEdits,        \* revenue rules an admin may add
    TierEdits,        \* lists of distance ranges an admin may try to save
    FirstOffer,       \* the new-customer offer at first
    OfferEdits,       \* offers an admin may save
    ExtraEdits,       \* extra free deliveries an admin may grant
    MaxOrders,        \* bound: orders placed
    MaxEvents         \* bound: what admins save, and passing of time

(* The columns of limits hold null or an integer of at least 0 (the DTOs'  *)
(* @Min).                                                                  *)
ASSUME CheckoutAssumption ==
    /\ IsFiniteSet(Runs)
    /\ Keys \subseteq STRING
    /\ {"none", "auto"} \cap Codes = {}
    /\ \A x \in Codes : /\ FirstVoucher[x].total \in Nat \cup {Null}
                        /\ FirstVoucher[x].perUser \in Nat \cup {Null}
    /\ FirstOffer.maxOrders \in Nat
    /\ MaxOrders \in Nat /\ MaxEvents \in Nat

VARIABLES
    now,       \* the time, as far as a rule or a voucher depends on it
    orders,    \* the rows of grocery_orders and food_orders, oldest first
    voucher,   \* the rows of coupons
    discount,  \* the row of vendor_discounts
    redeemed,  \* the rows of vendor_discount_redemptions: Customers -> how many
    rules,     \* the rows of revenue_config
    tiers,     \* the rows of customer_delivery_fee_tiers
    offer,     \* the row of new_customer_delivery_settings
    extra,     \* the rows of customer_free_delivery_bonus
    run,       \* the checkouts in progress
    events     \* how much of that there was

settings == <<voucher, rules, tiers, offer, extra>>
shop == <<discount, redeemed>>
checkoutVars == <<now, orders, voucher, discount, redeemed, rules, tiers, offer, extra, run, events>>

NoRun == [at |-> "idle"]

CheckoutInit ==
    /\ now = 0
    /\ orders = <<>>
    /\ voucher = FirstVoucher
    /\ discount = FirstDiscount
    /\ redeemed = [c \in Customers |-> 0]
    /\ rules = {}
    /\ tiers = <<>>
    /\ offer = FirstOffer
    /\ extra = [c \in Customers |-> 0]
    /\ run = [h \in Runs |-> NoRun]
    /\ events = 0

RunAt(h, at) == run[h].at = at
RunGoes(h, r) == run' = [run EXCEPT ![h] = r]
RunBecomes(h, at) == RunGoes(h, [run[h] EXCEPT !.at = at])
RunEnds(h) == RunGoes(h, NoRun)

-----------------------------------------------------------------------------
(* What a checkout counts.                                                 *)

Live(o) == orders[o].status \notin {"cancelled", "failed"}
WentThrough(o) == Live(o) /\ orders[o].pay \in {"paid", "pending_cod", "collected"}

OrdersOf(c) == {o \in DOMAIN orders : orders[o].cust = c /\ Live(o)}
CountPlacedOrders(c) == Cardinality({o \in OrdersOf(c) : WentThrough(o)})

(* Mutant: only the orders that went through use up a voucher.             *)
UsesOfPaid(code) == {o \in DOMAIN orders : orders[o].code = code /\ WentThrough(o)}

UsesOf(code) == {o \in DOMAIN orders : orders[o].code = code /\ Live(o)}
UsesBy(code, c) == UsesOf(code) \cap OrdersOf(c)

Remaining(c) == Max({0, offer.maxOrders + extra[c] - Cardinality(OrdersOf(c))})
OfferedFree(c, km) == offer.enabled /\ Remaining(c) > 0 /\ km <= offer.maxKm

(* getActiveDiscountsForVendor: the vendor has one discount or none.       *)
ActiveDiscounts(c) ==
    IF /\ discount.active
       /\ discount.total = Null \/ discount.used < discount.total
       /\ redeemed[c] < discount.perUser
       /\ now >= discount.since /\ now <= discount.until
    THEN {discount} ELSE {}

-----------------------------------------------------------------------------
(* createGroceryOrder and createFoodOrder.                                 *)

SameKey(o, c, kind, key) ==
    key # "none" /\ orders[o].cust = c /\ orders[o].kind = kind /\ orders[o].key = key
(* The order an earlier, equal checkout placed is the answer: with this    *)
(* key, or without one of the last five seconds.  Time passes freely, so   *)
(* that one may count as just placed or not.                               *)
Replayed(c, cart, key) ==
    {o \in DOMAIN orders : SameKey(o, c, cart.kind, key)}

Checkout(h, c, cart, key, code) ==
    /\ RunAt(h, "idle")
    /\ Len(orders) < MaxOrders
    /\ Replayed(c, cart, key) = {}
    /\ RunGoes(h, [at |-> "price", c |-> c, cart |-> cart, key |-> key, code |-> code,
                   disc |-> FALSE, subtotal |-> 0, min |-> 0, free |-> FALSE, fee |-> 0,
                   untried |-> {}, off |-> 0])
    /\ UNCHANGED <<now, orders, settings, shop, events>>

(* priceGroceryCart and priceFoodCart: a cart is one item of one vendor;   *)
(* its price is what the best of the vendor's discounts leaves.            *)
PriceCart(h) ==
    LET r == run[h]
    IN  /\ RunAt(h, "price")
        /\ \/ Applicable(ActiveDiscounts(r.c), r.cart.price) = {}
              /\ RunGoes(h, [r EXCEPT !.at = "terms", !.subtotal = r.cart.price])
           \/ \E d \in Applicable(ActiveDiscounts(r.c), r.cart.price) :
                RunGoes(h, [r EXCEPT !.at = "terms", !.disc = TRUE,
                                     !.subtotal = DiscountedPrice(d, r.cart.price)])
        /\ UNCHANGED <<now, orders, settings, shop, events>>

(* No address, no vendor in reach that is open and has it all, an item     *)
(* switched off, outside its meal slot or of another restaurant.           *)
Unavailable(h) ==
    /\ RunAt(h, "price") /\ RunEnds(h) /\ UNCHANGED <<now, orders, settings, shop, events>>

(* The row that a checkout will insert.                                    *)
OrderRow(r) ==
    [cust |-> r.c, kind |-> r.cart.kind, vendor |-> r.cart.vendor, key |-> r.key,
     code |-> r.code, disc |-> r.disc, free |-> r.free,
     total |-> TotalOf(r.subtotal, r.fee, r.off),
     status |-> "placed", pay |-> "pending", items |-> FALSE]

(* assertOrderable: a checkout priced to the end is refused or goes on.    *)
Ordering(r) == IF r.subtotal < r.min THEN NoRun ELSE [at |-> "insert", row |-> OrderRow(r)]

(* priceTotals.  terms.min stands for what the rule says; the fee is       *)
(* worked out once the offer is known.                                     *)
ReadTerms(h) ==
    LET r == run[h]
    IN  /\ RunAt(h, "terms")
        /\ \E terms \in ResolvedTerms(rules, r.cart.vendor, r.cart.category, now) :
             LET free == OfferedFree(r.c, r.cart.km)
                 next == [r EXCEPT !.at = IF r.code = "auto" THEN "voucher" ELSE "evaluate",
                                   !.untried = {r.code} \cap Codes,
                                   !.min = terms.min, !.free = free,
                                   !.fee = DeliveryFee(terms, tiers, r.subtotal, r.cart.km,
                                                       r.cart.outer, free)]
             IN  RunGoes(h, IF r.code = "none" THEN Ordering(next) ELSE next)
        /\ UNCHANGED <<now, orders, settings, shop, events>>

(* findAutoApply: with the code left out, a public free-delivery voucher   *)
(* for first orders applies itself.                                        *)
AutoVouchers == {c \in Codes : /\ voucher[c].active /\ voucher[c].shown
                               /\ voucher[c].type = "free_delivery"
                               /\ voucher[c].firstN # Null}

FindAutoApply(h) ==
    LET r == run[h]
    IN  /\ RunAt(h, "voucher") /\ r.code = "auto"
        /\ IF r.subtotal < r.min \/ r.fee <= 0 \/ AutoVouchers = {}
           THEN RunGoes(h, Ordering([r EXCEPT !.code = "none"]))
           ELSE RunGoes(h, [r EXCEPT !.at = "evaluate", !.untried = AutoVouchers])
        /\ UNCHANGED <<now, orders, settings, shop, events>>

(* evaluate: what the voucher's row says of the cart, and what the orders  *)
(* say of its limits.  Its three counts are one step here.                 *)
Fits(v, cart, subtotal, fee) ==
    /\ v.active
    /\ now >= v.since /\ now <= v.until
    /\ v.vendor \in {"any", cart.vendor}
    /\ subtotal >= v.min
    /\ v.type = "free_delivery" => ~cart.outer /\ fee > 0

WithinLimits(v, code, c) ==
    /\ v.firstN # Null => CountPlacedOrders(c) < v.firstN
    /\ v.perUser # Null => Cardinality(UsesBy(code, c)) < v.perUser
    /\ v.total # Null => Cardinality(UsesOf(code)) < v.total

Valid(code, r) == /\ Fits(voucher[code], r.cart, r.subtotal, r.fee)
                  /\ WithinLimits(voucher[code], code, r.c)

Evaluate(h) ==
    LET r == run[h]
    IN  /\ RunAt(h, "evaluate")
        /\ \E code \in r.untried :
             \/ /\ Valid(code, r)
                /\ RunGoes(h, Ordering([r EXCEPT !.code = code,
                              !.off = VoucherAmount(voucher[code], r.subtotal, r.fee)]))
             \/ /\ ~Valid(code, r) /\ r.code = "auto" /\ r.untried # {code}
                /\ RunGoes(h, [r EXCEPT !.untried = @ \ {code}])
             \/ /\ ~Valid(code, r) /\ r.code = "auto" /\ r.untried = {code}
                /\ RunGoes(h, Ordering([r EXCEPT !.code = "none"]))
             \/ /\ ~Valid(code, r) /\ r.code # "auto"   \* refused
                /\ RunEnds(h)
        /\ UNCHANGED <<now, orders, settings, shop, events>>

(* Mutant: the unique index on customer and key is not there.              *)
NoIndex(c, kind, key) == TRUE

IndexAllows(c, kind, key) == ~\E o \in DOMAIN orders : SameKey(o, c, kind, key)

InsertOrder(h) ==
    /\ RunAt(h, "insert")
    /\ Len(orders) < MaxOrders
    /\ IndexAllows(run[h].row.cust, run[h].row.kind, run[h].row.key)
    /\ orders' = Append(orders, run[h].row)
    /\ RunGoes(h, [at |-> "items", order |-> Len(orders) + 1])
    /\ UNCHANGED <<now, settings, shop, events>>

(* The insert failed on the index: the order with this key is the answer.  *)
AnswerExisting(h) ==
    /\ RunAt(h, "insert")
    /\ ~IndexAllows(run[h].row.cust, run[h].row.kind, run[h].row.key)
    /\ RunEnds(h)
    /\ UNCHANGED <<now, orders, settings, shop, events>>

InsertItems(h) ==
    /\ RunAt(h, "items")
    /\ orders' = [orders EXCEPT ![run[h].order].items = TRUE]
    /\ RunBecomes(h, "redeem")
    /\ UNCHANGED <<now, settings, shop, events>>

(* recordRedemption, which hides its own failures, for every discount that *)
(* applies - to a price of 0, as both callers pass it.                     *)
RedeemedAtCheckout(c) == Applicable(ActiveDiscounts(c), 0)

RecordRedemptions(h) ==
    LET c == orders[run[h].order].cust
        n == Cardinality(RedeemedAtCheckout(c))
    IN  /\ RunAt(h, "redeem")
        /\ redeemed' = [redeemed EXCEPT ![c] = @ + n]
        /\ discount' = [discount EXCEPT !.used = @ + n]
        /\ RunEnds(h)
        /\ UNCHANGED <<now, orders, settings, events>>

(* A query fails: the call throws, what it has written stays.              *)
Fail(h) ==
    /\ run[h].at \in {"items", "redeem"}
    /\ RunEnds(h)
    /\ UNCHANGED <<now, orders, settings, shop, events>>

-----------------------------------------------------------------------------
(* The rest of an order's life, as far as a checkout counts it.            *)

(* PaymentService: paid, or cash on delivery chosen, which counts alike.   *)
Pay(o) ==
    /\ orders[o].pay = "pending" /\ orders[o].status = "placed"
    /\ orders' = [orders EXCEPT ![o].pay = "paid"]
    /\ UNCHANGED <<now, settings, shop, run, events>>

(* cancelOrder, cancelOrderForCustomer; failing an order counts alike.     *)
Cancel(o) ==
    /\ Live(o)
    /\ orders' = [orders EXCEPT ![o].status = "cancelled"]
    /\ UNCHANGED <<now, settings, shop, run, events>>

RestoreOrder(o) ==
    /\ ~Live(o)
    /\ orders' = [orders EXCEPT ![o].status = "placed"]
    /\ UNCHANGED <<now, settings, shop, run, events>>

-----------------------------------------------------------------------------
(* What admins save.                                                       *)

Happens == events < MaxEvents /\ events' = events + 1

(* create, update and delete of coupon.service.ts.                         *)
SaveVoucher(code, v) ==
    /\ Happens /\ v # voucher[code]
    /\ voucher' = [voucher EXCEPT ![code] = v]
    /\ UNCHANGED <<now, orders, shop, rules, tiers, offer, extra, run>>

(* create, update, toggleActive and delete of vendor-discounts.service.ts: *)
(* a discount not there is an inactive one.                                *)
SaveDiscount(d) ==
    /\ Happens
    /\ discount' = [d EXCEPT !.used = discount.used]
    /\ UNCHANGED <<now, orders, redeemed, voucher, rules, tiers, offer, extra, run>>

CreateRule(r) ==
    /\ Happens
    /\ rules' = rules \cup {r}
    /\ UNCHANGED <<now, orders, shop, voucher, tiers, offer, extra, run>>

ReplaceFeeTiers(list) ==
    /\ Happens
    /\ ValidTiers(list)
    /\ tiers' = list
    /\ UNCHANGED <<now, orders, shop, voucher, rules, offer, extra, run>>

ValidOffer(s) == s.maxKm > 0 /\ s.maxOrders >= 0

SaveOffer(s) ==
    /\ Happens
    /\ ValidOffer(s)
    /\ offer' = s
    /\ UNCHANGED <<now, orders, shop, voucher, rules, tiers, extra, run>>

SetExtra(c, n) ==
    /\ Happens
    /\ n \in 0..100
    /\ extra' = [extra EXCEPT ![c] = n]
    /\ UNCHANGED <<now, orders, shop, voucher, rules, tiers, offer, run>>

Tick ==
    /\ Happens
    /\ now' = now + 1
    /\ UNCHANGED <<orders, settings, shop, run>>

-----------------------------------------------------------------------------
Customer(h) ==
    \/ \E c \in Customers, cart \in Carts, key \in Keys, code \in Typed :
         Checkout(h, c, cart, key, code)
    \/ PriceCart(h) \/ Unavailable(h) \/ ReadTerms(h)
    \/ FindAutoApply(h) \/ Evaluate(h)
    \/ InsertOrder(h) \/ AnswerExisting(h)
    \/ InsertItems(h) \/ RecordRedemptions(h) \/ Fail(h)

Admin ==
    \/ \E code \in Codes, v \in VoucherEdits : SaveVoucher(code, v)
    \/ \E d \in DiscountEdits : SaveDiscount(d)
    \/ \E r \in RuleEdits : CreateRule(r)
    \/ \E list \in TierEdits : ReplaceFeeTiers(list)
    \/ \E s \in OfferEdits : SaveOffer(s)
    \/ \E c \in Customers, n \in ExtraEdits : SetExtra(c, n)

CheckoutNext ==
    \/ \E h \in Runs : Customer(h)
    \/ \E o \in DOMAIN orders : Pay(o) \/ Cancel(o) \/ RestoreOrder(o)
    \/ Admin
    \/ Tick

CheckoutSpec == CheckoutInit /\ [][CheckoutNext]_checkoutVars

-----------------------------------------------------------------------------
(* One idempotency key never places two orders, however often the app      *)
(* sends the checkout again and however the calls overlap.                 *)
OneOrderPerKey ==
    \A o, p \in DOMAIN orders :
        SameKey(o, orders[p].cust, orders[p].kind, orders[p].key) => o = p

(* By how much the orders that count exceed what a voucher's limits and    *)
(* the new-customer offer allow.                                           *)
Excess ==
    Max({0} \cup {Cardinality(UsesOf(c)) - voucher[c].total :
                      c \in {x \in Codes : voucher[x].total # Null}}
            \cup {Cardinality(UsesBy(p[1], p[2])) - voucher[p[1]].perUser :
                      p \in {x \in Codes \X Customers : voucher[x[1]].perUser # Null}}
            \cup {Cardinality({o \in OrdersOf(c) : orders[o].free})
                      - (offer.maxOrders + extra[c]) : c \in Customers})

(* A vendor's discount is used no more often than its limits say, by one   *)
(* customer and by all ("Total redemptions limit across all customers",    *)
(* "Max times a single customer can use this offer").                      *)
DiscountWithinLimits ==
    LET used == {o \in DOMAIN orders : orders[o].disc}
    IN  /\ discount.total # Null => Cardinality(used) <= discount.total
        /\ \A c \in Customers :
             Cardinality({o \in used : orders[o].cust = c}) <= discount.perUser

(* A voucher for first orders is on no more than that many orders that     *)
(* went through ("Valid only on the customer's first N orders").           *)
FirstOrdersOnly ==
    \A code \in Codes, c \in Customers :
        voucher[code].firstN # Null =>
            Cardinality({o \in UsesBy(code, c) : WentThrough(o)}) <= voucher[code].firstN
=============================================================================
