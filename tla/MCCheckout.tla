----------------------------- MODULE MCCheckout -----------------------------
(***************************************************************************)
(* Instances of Checkout for TLC, with a history of the behaviour.         *)
(***************************************************************************)
EXTENDS Checkout, TLC

CONSTANTS k1, k2, c1, c2

SlotSymmetry == Permutations({k1, k2})

Voucher(type, value, first, user, total) ==
    [type |-> type, value |-> value, min |-> 0, cap |-> 0, firstN |-> first,
     perUser |-> user, total |-> total, shown |-> TRUE, active |-> TRUE,
     vendor |-> "any", since |-> 0, until |-> 1]

FlatTwice == Voucher("flat", 10, Null, 1, 2)
Percent == [Voucher("percentage", 50, Null, Null, 1) EXCEPT !.min = 60, !.cap = 20, !.vendor = "v"]
Welcome == Voucher("free_delivery", 0, 1, Null, Null)
Discount(type, value, user, total) ==
    [type |-> type, value |-> value, cap |-> 0, active |-> TRUE, total |-> total,
     used |-> 0, perUser |-> user, since |-> 0, until |-> 1]

TwoCodes == "SAVE" :> FlatTwice @@ "WELCOME" :> Welcome
FiveOff == Discount("flat", 5, 1, 1)
NoDiscount == [FiveOff EXCEPT !.active = FALSE]

Cart(kind, category, price, km, outer) ==
    [kind |-> kind, vendor |-> "v", category |-> category, price |-> price, km |-> km,
     outer |-> outer]
Basket == Cart("grocery", "staples", 80, 2, FALSE)
OuterMeal == Cart("food", "none", 100, 4, TRUE)

Offer(n) == [enabled |-> TRUE, maxKm |-> 5, maxOrders |-> n]
OneFree == Offer(1)
NoFree == [OneFree EXCEPT !.enabled = FALSE]

Rule(scope, ref, since, min) ==
    [scope |-> scope, ref |-> ref, since |-> since, terms |-> [DefaultTerms EXCEPT !.min = min]]
RuleChoices == {Rule("vendor", "v", 0, 90)}

Km(from, to, amount) == [from |-> from, to |-> to, amount |-> amount]
TierChoices == {<<Km(0, 3, 5), Km(3, Null, 10)>>, <<Km(0, 3, 5), Km(1, Null, 10)>>}

CartsOfRun == {Basket, OuterMeal}
CodesOfRun == {"SAVE", "WELCOME"}
VoucherChoices == {Percent}
DiscountChoices == {FiveOff}
OfferChoices == {NoFree}

VARIABLES
    oneRun,    \* no two checkouts overlapped
    edited,   \* an admin changed a limit
    revived   \* a cancelled order was restored

MCCheckoutInit == CheckoutInit /\ oneRun = TRUE /\ edited = FALSE /\ revived = FALSE

Busy(r) == {h \in Runs : r[h] # NoRun}

MCCheckoutNext ==
    /\ CheckoutNext
    /\ oneRun' = (oneRun /\ Cardinality(Busy(run')) <= 1)
    /\ edited' = (edited \/ <<voucher, offer, extra>>' # <<voucher, offer, extra>>)
    /\ revived' = (revived \/ \E o \in DOMAIN orders : ~Live(o) /\ Live(o)')

MCCheckoutSpec == MCCheckoutInit /\ [][MCCheckoutNext]_<<checkoutVars, oneRun, edited, revived>>

(* One checkout at a time, the limits of vouchers and free deliveries are  *)
(* kept; of checkouts that overlap, each but one may slip through.         *)
LimitsKept ==
    edited \/ revived \/ Excess <= (IF oneRun THEN 0 ELSE Cardinality(Runs) - 1)
=============================================================================
