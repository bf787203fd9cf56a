------------------------------ MODULE Pricing ------------------------------
(***************************************************************************)
(* What an order costs, as pure functions: rider-payout.service.ts and     *)
(* new-customer-delivery.service.ts (distance ranges),                     *)
(* revenue-config.service.ts (which rule applies), vendor-discounts and    *)
(* coupon services (what an item and a voucher take off), and priceTotals  *)
(* of order.service.ts.  Amounts are rupees, distances kilometres.         *)
(***************************************************************************)
EXTENDS Integers, Sequences, FiniteSets, SequencesExt, FiniteSetsExt

Null == -1        \* a column that is null

LongDistanceKm == 5
LongDistanceFreeMin == 200
OuterZoneFee == 15
MaxTiers == 20

-----------------------------------------------------------------------------
(* Distance ranges: a list of [from, to, amount], to = Null for no limit.  *)

JoinUp(list) == \A i \in 1..Len(list) - 1 : list[i + 1].from = list[i].to

(* validateRiderPayoutTiers, for both lists of ranges.                     *)
ValidTiers(list) ==
    /\ Len(list) \in 1..MaxTiers
    /\ \A i \in DOMAIN list : /\ list[i].from >= 0 /\ list[i].amount >= 0
                              /\ list[i].to = Null \/ list[i].to > list[i].from
    /\ list[1].from = 0
    /\ \A i \in DOMAIN list : list[i].to = Null <=> i = Len(list)
    /\ JoinUp(list)

ByDistance(list) == SortSeq(list, LAMBDA a, b : a.from < b.from)

(* A range covers (from, to]; the first one also covers its own start.     *)
Covers(list, i, km) == /\ i = 1 \/ km > list[i].from
                       /\ list[i].to = Null \/ km <= list[i].to

AmountForDistance(tiers, km) ==
    LET list == ByDistance(tiers)
        hits == {i \in DOMAIN list : Covers(list, i, km)}
    IN  IF hits = {} THEN list[Len(list)].amount ELSE list[Min(hits)].amount

-----------------------------------------------------------------------------
(* Revenue rules: the vendor's own before its category's before the global *)
(* one, and within a scope the latest that is in force.                    *)

DefaultTerms == [min |-> 50, free |-> 99, near |-> 10, mid |-> 15, far |-> 20]

InForce(rules, scope, ref, now) ==
    {r \in rules : r.scope = scope /\ r.ref = ref /\ r.since <= now}
Latest(rules) == {r \in rules : \A s \in rules : s.since <= r.since}

(* The terms resolve() may answer: of two rules with one date, either.     *)
ResolvedTerms(rules, vendor, category, now) ==
    LET of(scope, ref) == {r.terms : r \in Latest(InForce(rules, scope, ref, now))}
    IN  CASE of("vendor", vendor) # {} -> of("vendor", vendor)
          [] of("vendor", vendor) = {} /\ of("category", category) # {}
               -> of("category", category)
          [] of("vendor", vendor) = {} /\ of("category", category) = {}
             /\ of("global", "all") # {} -> of("global", "all")
          [] OTHER -> {DefaultTerms}

(* calculateDeliveryFee.                                                   *)
FeeOfTerms(terms, subtotal, km) ==
    CASE subtotal >= terms.free -> 0
      [] subtotal < terms.free /\ km <= 3 -> terms.near
      [] subtotal < terms.free /\ km > 3 /\ km <= 5 -> terms.mid
      [] OTHER -> terms.far

(* priceTotals: beyond LongDistanceKm the free-delivery limit is at least  *)
(* LongDistanceFreeMin.                                                    *)
FreeLimit(terms, km) ==
    IF km > LongDistanceKm THEN Max({terms.free, LongDistanceFreeMin}) ELSE terms.free

BaseFee(terms, tiers, subtotal, km) ==
    CASE subtotal >= FreeLimit(terms, km) -> 0
      [] subtotal < FreeLimit(terms, km) /\ tiers # <<>> -> AmountForDistance(tiers, km)
      [] OTHER -> FeeOfTerms([terms EXCEPT !.free = FreeLimit(terms, km)], subtotal, km)

DeliveryFee(terms, tiers, subtotal, km, outer, offered) ==
    LET base == IF offered THEN 0 ELSE BaseFee(terms, tiers, subtotal, km)
    IN  IF outer /\ base > 0 THEN OuterZoneFee ELSE base

-----------------------------------------------------------------------------
(* calculateItemDiscount: the discount that takes most off a price, none   *)
(* when none takes anything.  discounts is a set of [id, type, value,      *)
(* cap]; of two that take the same, the first listed, so any.              *)

TakenOff(d, price) ==
    LET raw == IF d.type = "percentage" THEN (price * d.value) \div 100 ELSE d.value
        most == IF d.type = "percentage" /\ d.cap > 0 THEN d.cap ELSE price
    IN  Min({raw, most})

Applicable(discounts, price) ==
    {d \in discounts : /\ TakenOff(d, price) > 0
                       /\ \A o \in discounts : TakenOff(o, price) <= TakenOff(d, price)}

DiscountedPrice(d, price) == Max({0, price - TakenOff(d, price)})

(* What a voucher takes off, once evaluate() found it valid.               *)
VoucherAmount(v, subtotal, fee) ==
    LET raw == (subtotal * v.value + 50) \div 100
    IN  CASE v.type = "percentage" -> IF v.cap > 0 THEN Min({raw, v.cap}) ELSE raw
          [] v.type = "flat" -> Min({v.value, subtotal})
          [] v.type = "free_delivery" -> fee

TotalOf(subtotal, fee, discount) == Max({0, subtotal + fee - discount})
=============================================================================
