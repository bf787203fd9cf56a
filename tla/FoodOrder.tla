----------------------------- MODULE FoodOrder -----------------------------
(***************************************************************************)
(* The life of food orders after checkout (order.service.ts): a restaurant *)
(* accepts or rejects, prepares and corrects, the customer cancels, an     *)
(* admin accepts, sets any status, cancels, restores or moves the order to *)
(* another restaurant, and a delivered order is rated, which recomputes    *)
(* the restaurant's average (catalog.service.ts).                          *)
(*                                                                         *)
(* Each handler reads the order, checks it, and then writes by id, query   *)
(* by query: call[h] is a handler between two queries.  Payment and riders *)
(* have modules of their own (OrderPayment, Delivery); here what they do   *)
(* to the order is one step each, and of the search for a rider only       *)
(* whether an offer is open remains.                                       *)
(***************************************************************************)
EXTENDS Integers, Sequences, FiniteSets, FiniteSetsExt, SequencesExt

CONSTANTS
    Slots,         \* handlers that may be in progress at once
    Orders,
    Restaurants,
    FirstStatus,   \* Orders -> the status the behaviour starts from
    Stars,         \* ratings a customer may give
    MaxCalls       \* bound: calls of the API

None == "none"

ASSUME FoodOrderAssumption ==
    /\ None \notin Restaurants
    /\ FirstStatus \in [Orders -> {"placed", "delivered"}]
    /\ Stars \subseteq 1..5
    /\ MaxCalls \in Nat

VARIABLES
    order,      \* Orders -> its row of food_orders: [status, pay, rest, rider]
    timeline,   \* Orders -> the status of its last order_status_history row
    accepted,   \* Orders -> the restaurant it was last accepted for, or None
    ratings,    \* the rows of food_order_ratings: [order, rest, stars]
    average,    \* Restaurants -> rating_avg, in tenths
    offered,    \* orders with a pending row in delivery_assignments
    call,       \* the handlers in progress
    calls       \* how many calls there were

vars == <<order, timeline, accepted, ratings, average, offered, call, calls>>

Idle == [at |-> "idle"]
Satisfied == {"paid", "pending_cod", "collected"}
Confirmed == Satisfied \cup {"refund_pending", "refunded"}
Ended == {"cancelled", "failed"}
StatusSequence == <<"vendor_accepted", "preparing", "ready", "handed_over">>
WithRider == <<"delivery_assigned", "picked_up", "out_for_delivery", "delivered">>

Init ==
    /\ \E first \in Restaurants :
         order = [o \in Orders |->
                    [status |-> FirstStatus[o], rest |-> first,
                     pay |-> IF FirstStatus[o] = "placed" THEN "pending" ELSE "paid",
                     rider |-> FirstStatus[o] = "delivered"]]
    /\ timeline = FirstStatus
    /\ accepted = [o \in Orders |-> IF FirstStatus[o] = "placed" THEN None ELSE order[o].rest]
    /\ ratings = {}
    /\ average = [r \in Restaurants |-> 0]
    /\ offered = {}
    /\ call = [h \in Slots |-> Idle]
    /\ calls = 0

At(h, at) == call[h].at = at
Goto(h, c) == call' = [call EXCEPT ![h] = c]
Becomes(h, at) == Goto(h, [call[h] EXCEPT !.at = at])
Done(h) == Goto(h, Idle)

(* A call starts with the row of its order, of which it keeps what it      *)
(* writes again, and goes on to write status "to".  then: what follows the *)
(* timeline entry.                                                         *)
Starts(h, o, at, to, then, kept) ==
    /\ At(h, "idle")
    /\ calls < MaxCalls /\ calls' = calls + 1
    /\ Goto(h, [at |-> at, o |-> o, to |-> to, then |-> then, kept |-> kept])
    /\ UNCHANGED <<order, timeline, accepted, ratings, average, offered>>

Status(o) == order[o].status

-----------------------------------------------------------------------------
(* The restaurant, the customer and the admin.                             *)

(* acceptFoodOrder, acceptOrderByAdmin.                                    *)
Accept(h, o) ==
    Status(o) = "placed" /\ Starts(h, o, "checkPayment", "vendor_accepted", "end", order[o].rest)

PaymentSatisfied(o) == order[o].pay \in Satisfied

(* requirePaymentSatisfied                                                 *)
CheckPayment(h) ==
    /\ At(h, "checkPayment")
    /\ IF PaymentSatisfied(call[h].o) THEN Becomes(h, "write") ELSE Done(h)
    /\ UNCHANGED <<order, timeline, accepted, ratings, average, offered, calls>>

Reject(h, o) == Status(o) = "placed" /\ Starts(h, o, "write", "failed", "refund", None)

IndexOf(st) == IF st \in Range(StatusSequence)
               THEN CHOOSE i \in DOMAIN StatusSequence : StatusSequence[i] = st
               ELSE 0

(* advanceFoodOrder: one step forward; correctFoodOrderStatus: one back.   *)
Advance(h, o) ==
    /\ IndexOf(Status(o)) \in 1..3
    /\ Starts(h, o, "write", StatusSequence[IndexOf(Status(o)) + 1], "end", None)

Correct(h, o) ==
    /\ IndexOf(Status(o)) \in 2..4
    /\ Starts(h, o, "write", StatusSequence[IndexOf(Status(o)) - 1], "end", None)

(* cancelOrder by an admin, cancelOrderForCustomer.                        *)
CancelByAdmin(h, o) ==
    Status(o) \notin Ended \cup {"delivered"} /\ Starts(h, o, "write", "cancelled", "refund", None)

CancelByCustomer(h, o) ==
    Status(o) = "placed" /\ Starts(h, o, "write", "cancelled", "refund", None)

(* setOrderStatusByAdmin: a placed order is accepted on the way.           *)
SetStatus(h, o, st) ==
    /\ Status(o) \notin Ended \cup {"delivered", st}
    /\ st \in Range(WithRider) => order[o].rider
    /\ IF Status(o) = "placed" THEN Starts(h, o, "checkPayment", "vendor_accepted", st,
                                             order[o].rest)
                               ELSE Starts(h, o, "write", st, "end", None)

(* restoreOrder.                                                           *)
Restore(h, o) ==
    Status(o) \in Ended /\ Starts(h, o, "restorePayment", "placed", "end", order[o].pay)

RestorePayment(h) ==
    LET o == call[h].o
    IN  /\ At(h, "restorePayment")
        /\ order' = [order EXCEPT ![o].pay = IF @ = "refund_pending" THEN "paid" ELSE @]
        /\ Becomes(h, "writeRestored")
        /\ UNCHANGED <<timeline, accepted, ratings, average, offered, calls>>

(* The payment status goes back to what the call read when it began.       *)
WriteRestored(h) ==
    LET o == call[h].o
        pay == IF call[h].kept = "refund_pending" THEN "paid" ELSE call[h].kept
    IN  /\ At(h, "writeRestored")
        /\ order' = [order EXCEPT ![o].status = "placed", ![o].pay = pay]
        /\ Goto(h, [call[h] EXCEPT !.at = "history", !.kept = None])
        /\ UNCHANGED <<timeline, accepted, ratings, average, offered, calls>>

(* changeOrderVendor, if the order is neither on its way nor ended.  Only   *)
(* an order with a rider has its offers ended first; a call for the        *)
(* restaurant it is with ("end") is refused after that.                    *)
ChangeRestaurant(h, o, r) ==
    /\ Status(o) \notin Ended \cup {"delivered", "picked_up", "out_for_delivery"}
    /\ r # order[o].rest \/ order[o].rider
    /\ Starts(h, o, IF order[o].rider THEN "revoke" ELSE "move", "placed",
              IF r = order[o].rest THEN "end" ELSE r, None)

RevokeOffer(h) ==
    /\ At(h, "revoke")
    /\ offered' = offered \ {call[h].o}
    /\ IF call[h].then = "end" THEN Done(h) ELSE Becomes(h, "move")
    /\ UNCHANGED <<order, timeline, accepted, ratings, average, calls>>

(* Mutant: the order keeps its status when it changes hands.               *)
AsTheOldOneLeftIt(row, r) == [row EXCEPT !.rest = r, !.rider = FALSE]

MovedTo(row, r) == [row EXCEPT !.rest = r, !.status = "placed", !.rider = FALSE]

Move(h) ==
    LET c == call[h]
    IN  /\ At(h, "move")
        /\ order' = [order EXCEPT ![c.o] = MovedTo(@, c.then)]
        /\ Goto(h, [c EXCEPT !.at = "history", !.then = "end"])
        /\ UNCHANGED <<timeline, accepted, ratings, average, offered, calls>>

(* completeDelivery: cash on delivery is collected with it.                *)
Delivered(row) ==
    IF row.status = "delivered" /\ row.pay = "pending_cod"
    THEN [row EXCEPT !.pay = "collected"] ELSE row

(* UPDATE food_orders SET status ... WHERE id.  An acceptance is for the   *)
(* restaurant that the call read.                                          *)
Write(h) ==
    LET c == call[h]
    IN  /\ At(h, "write")
        /\ order' = [order EXCEPT ![c.o] = Delivered([@ EXCEPT !.status = c.to])]
        /\ accepted' = IF c.kept = None THEN accepted ELSE [accepted EXCEPT ![c.o] = c.kept]
        /\ Goto(h, [c EXCEPT !.at = "history", !.kept = None])
        /\ UNCHANGED <<timeline, ratings, average, offered, calls>>

(* INSERT INTO order_status_history; then the refund, or the status that   *)
(* an admin wanted behind the acceptance.                                  *)
WriteHistory(h) ==
    LET c == call[h]
    IN  /\ At(h, "history")
        /\ timeline' = [timeline EXCEPT ![c.o] = c.to]
        /\ \/ c.then = "end" /\ Done(h)
           \/ c.then = "refund" /\ Becomes(h, "refund")
           \/ /\ c.then \notin {"end", "refund"}
              /\ IF c.then = c.to THEN Done(h)
                 ELSE Goto(h, [c EXCEPT !.at = "write", !.to = c.then, !.then = "end"])
        /\ UNCHANGED <<order, accepted, ratings, average, offered, calls>>

(* markRefundPendingIfPaid: by hand, or into the wallet it came from.      *)
Refund(h) ==
    LET o == call[h].o
    IN  /\ At(h, "refund")
        /\ \E st \in {"refund_pending", "refunded"} :
             order' = [order EXCEPT ![o].pay = IF @ = "paid" THEN st ELSE @]
        /\ Done(h)
        /\ UNCHANGED <<timeline, accepted, ratings, average, offered, calls>>

-----------------------------------------------------------------------------
(* Ratings: rateFoodOrder, rateGroceryOrder and recalcRestaurantRating.    *)

RatingsOf(r) == {x \in ratings : x.rest = r}
Average(rows) ==
    IF rows = {} THEN 0
    ELSE LET n == Cardinality(rows)
             sum == MapThenSumSet(LAMBDA x : x.stars, rows)
         IN  (20 * sum + n) \div (2 * n)

Rated(o) == \E x \in ratings : x.order = o

Rate(h, o) ==
    Status(o) = "delivered" /\ ~Rated(o) /\ Starts(h, o, "insertRating", None, "end", order[o].rest)

(* Mutant: food_order_id is not unique.                                    *)
RatedAgain(o) == TRUE

RowAllowed(o) == ~Rated(o)

InsertRating(h) ==
    LET c == call[h]
    IN  /\ At(h, "insertRating")
        /\ \/ /\ RowAllowed(c.o)
              /\ \E n \in Stars :
                   ratings' = ratings \cup {[order |-> c.o, rest |-> c.kept, stars |-> n]}
              /\ Becomes(h, "readRatings")
           \/ ~RowAllowed(c.o) /\ Done(h) /\ UNCHANGED ratings
        /\ UNCHANGED <<order, timeline, accepted, average, offered, calls>>

ReadRatings(h) ==
    LET c == call[h]
    IN  /\ At(h, "readRatings")
        /\ Goto(h, [c EXCEPT !.at = "writeAverage", !.to = Average(RatingsOf(c.kept))])
        /\ UNCHANGED <<order, timeline, accepted, ratings, average, offered, calls>>

WriteAverage(h) ==
    /\ At(h, "writeAverage")
    /\ average' = [average EXCEPT ![call[h].kept] = call[h].to]
    /\ Done(h)
    /\ UNCHANGED <<order, timeline, accepted, ratings, offered, calls>>

-----------------------------------------------------------------------------
(* What payment and riders do to the order.                                *)

PaymentConfirmed(o) ==
    /\ order[o].pay = "pending"
    /\ \E st \in {"paid", "pending_cod"} : order' = [order EXCEPT ![o].pay = st]
    /\ UNCHANGED <<timeline, accepted, ratings, average, offered, call, calls>>

MarkRefunded(o) ==
    /\ order[o].pay = "refund_pending"
    /\ order' = [order EXCEPT ![o].pay = "refunded"]
    /\ UNCHANGED <<timeline, accepted, ratings, average, offered, call, calls>>

(* A rider is looked for from the acceptance on, whatever becomes of the   *)
(* order then, by timers and by other riders' pings.                       *)
OfferToRider(o) ==
    /\ accepted[o] # None /\ Status(o) \notin Ended /\ ~order[o].rider
    /\ offered' = offered \cup {o}
    /\ UNCHANGED <<order, timeline, accepted, ratings, average, call, calls>>

(* It times out or is rejected.                                            *)
OfferEnds(o) ==
    /\ o \in offered
    /\ offered' = offered \ {o}
    /\ UNCHANGED <<order, timeline, accepted, ratings, average, call, calls>>

RiderWrites(o, row) ==
    /\ order' = [order EXCEPT ![o] = row]
    /\ timeline' = [timeline EXCEPT ![o] = row.status]
    /\ UNCHANGED <<accepted, ratings, average, call, calls>>

WithARider(row) == [row EXCEPT !.status = "delivery_assigned", !.rider = TRUE]

(* The rider needs a pending offer; the order is not looked at.            *)
RiderAccepts(o) ==
    /\ o \in offered /\ offered' = offered \ {o}
    /\ RiderWrites(o, WithARider(order[o]))

(* adminAssignPartner: an order that is on its way only gets another rider. *)
AdminAssigns(o) ==
    /\ offered' = offered \ {o}
    /\ \/ Status(o) \in Range(StatusSequence) /\ RiderWrites(o, WithARider(order[o]))
       \/ /\ Status(o) \in Range(WithRider) \ {"delivered"}
          /\ order' = [order EXCEPT ![o].rider = TRUE]
          /\ UNCHANGED <<timeline, accepted, ratings, average, call, calls>>

RiderAdvances(o) ==
    \E i \in 1..3 :
        /\ Status(o) = WithRider[i] /\ order[o].rider
        /\ RiderWrites(o, Delivered([order[o] EXCEPT !.status = WithRider[i + 1]]))
        /\ UNCHANGED offered

-----------------------------------------------------------------------------
Calls(h, o) ==
    \/ Accept(h, o) \/ Reject(h, o) \/ Advance(h, o) \/ Correct(h, o)
    \/ CancelByAdmin(h, o) \/ CancelByCustomer(h, o) \/ Restore(h, o)
    \/ \E st \in Range(StatusSequence) \cup Range(WithRider) : SetStatus(h, o, st)
    \/ \E r \in Restaurants : ChangeRestaurant(h, o, r)
    \/ Rate(h, o)

Steps(h) ==
    \/ CheckPayment(h) \/ Write(h) \/ WriteHistory(h) \/ Refund(h)
    \/ RestorePayment(h) \/ WriteRestored(h) \/ RevokeOffer(h) \/ Move(h)
    \/ InsertRating(h) \/ ReadRatings(h) \/ WriteAverage(h)

Next ==
    \/ \E h \in Slots : Steps(h) \/ \E o \in Orders : Calls(h, o)
    \/ \E o \in Orders : \/ PaymentConfirmed(o) \/ MarkRefunded(o)
                         \/ OfferToRider(o) \/ OfferEnds(o)
                         \/ RiderAccepts(o) \/ AdminAssigns(o) \/ RiderAdvances(o)

Spec == Init /\ [][Next]_vars

-----------------------------------------------------------------------------
(* What a restaurant's screens list.                                       *)

Mine(r) == {o \in Orders : order[o].rest = r /\ PaymentSatisfied(o)}
Active(r) == {o \in Mine(r) : Status(o) \in Range(StatusSequence)}
-----------------------------------------------------------------------------
Serving == Range(StatusSequence) \cup Range(WithRider)

(* An order in a kitchen or with a rider is paid, or cash on delivery, and *)
(* was accepted for the restaurant it is now with, also after it was       *)
(* moved, cancelled and restored.                                          *)
ServedByRight(o) ==
    Status(o) \in Serving => PaymentSatisfied(o) /\ accepted[o] = order[o].rest

(* Nothing is cooked or carried but for the restaurant that accepted it.   *)
AcceptedByItsRestaurant == \A o \in Orders : Status(o) \in Serving => accepted[o] = order[o].rest

(* An order is rated once, whatever overlaps.                              *)
RatedOnce == \A x, y \in ratings : x.order = y.order => x = y

(* With no handler in progress a restaurant's average is that of all its   *)
(* ratings.                                                                *)
AverageOfAll ==
    (\A h \in Slots : call[h] = Idle) => \A r \in Restaurants : average[r] = Average(RatingsOf(r))

(* A paid order that its restaurant has accepted and not yet handed over   *)
(* is on the screen it works from ("active" is "what the vendor still has  *)
(* to act on").                                                            *)
CookedOrdersListed ==
    \A o \in Orders :
        Status(o) = "delivery_assigned" /\ PaymentSatisfied(o) => o \in Active(order[o].rest)

(* With no handler in progress the timeline ends with the order's status.  *)
TimelineAgrees == (\A h \in Slots : call[h] = Idle) => \A o \in Orders : timeline[o] = Status(o)
=============================================================================
