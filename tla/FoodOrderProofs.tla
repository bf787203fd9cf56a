-------------------------- MODULE FoodOrderProofs --------------------------
(***************************************************************************)
(* What holds of food orders for every number of orders, restaurants,      *)
(* handlers and calls: in every interleaving the rows keep their types and *)
(* an order is rated once; one handler at a time, also that what a         *)
(* restaurant serves is paid and accepted, but for what a rider took by    *)
(* himself, that timelines agree and that averages count every rating.     *)
(* And of the checkouts that place orders:                                 *)
(* for every number of runs and customers, whatever the vouchers and the   *)
(* carts, a key places one order and limits are kept.                      *)
(***************************************************************************)
EXTENDS MCFoodOrder, MCCheckout, FiniteSetTheorems, WellFoundedInduction, TLAPS

Statuses == {"placed"} \cup Serving \cup Ended
Payments == {"pending", "paid", "pending_cod", "collected", "refund_pending", "refunded"}
Row == [status : Statuses, pay : Payments, rest : Restaurants, rider : BOOLEAN]

(* A handler in progress: its order, and what it goes on to write. *)
Handler(c) ==
    /\ c = [at |-> c.at, o |-> c.o, to |-> c.to, then |-> c.then, kept |-> c.kept]
    /\ c.o \in Orders
    /\ \/ /\ c.at \in {"checkPayment", "write", "history"}
          /\ c.to \in Statuses /\ c.then \in {"end", "refund"} \cup Serving
          /\ c.kept \in Restaurants \cup {None}
       \/ c.at = "refund"
       \/ c.at \in {"restorePayment", "writeRestored"} /\ c.kept \in Payments
          /\ c.to = "placed" /\ c.then = "end"
       \/ c.at = "revoke" /\ c.then \in Restaurants \cup {"end"} /\ c.to = "placed" /\ c.kept = None
       \/ c.at = "move" /\ c.then \in Restaurants /\ c.to = "placed" /\ c.kept = None
       \/ c.at \in {"insertRating", "readRatings", "writeAverage"} /\ c.kept \in Restaurants

TypeOK ==
    /\ order \in [Orders -> Row]
    /\ timeline \in [Orders -> Statuses]
    /\ accepted \in [Orders -> Restaurants \cup {None}]
    /\ ratings \subseteq [order : Orders, rest : Restaurants, stars : Stars]
    /\ average = [r \in Restaurants |-> average[r]]
    /\ call = [h \in Slots |-> call[h]]
    /\ \A h \in Slots : call[h] = Idle \/ Handler(call[h])

Kept(o) ==
    Status(o) \in Serving =>
        o \in taken \/ (order[o].pay \in Satisfied /\ accepted[o] = order[o].rest)

(* With one handler at a time, beyond the order that it is working on every *)
(* timeline agrees ...                                                     *)
AllKept == \A o \in Orders : Kept(o)
Told(c) == \A o \in Orders : (c.at = "history" => o # c.o) => timeline[o] = Status(o)

(* ... and what it goes on to write is right for the order as it is.       *)
Going(c) ==
    /\ c.at = "checkPayment" => c.to = "vendor_accepted" /\ c.kept = order[c.o].rest
    /\ c.at = "write" /\ c.to \in Serving =>
          \/ c.o \in taken
          \/ /\ order[c.o].pay \in Satisfied
             /\ c.kept = order[c.o].rest \/ (c.kept = None /\ accepted[c.o] = order[c.o].rest)
    /\ c.at = "history" => Status(c.o) = c.to /\ c.kept = None
    /\ c.at \in {"checkPayment", "write", "history"} =>
          (c.then \in Serving => c.to \in Serving) /\ (c.then = "refund" => c.to \in Ended)
    /\ c.at \in {"refund", "restorePayment", "writeRestored"} => Status(c.o) \in Ended

(* The average counts every rating, but for the one that was just given.   *)
Mean(r) == Average(RatingsOf(r))
Counting == {"readRatings", "writeAverage"}
Counted(c) ==
    /\ \A r \in Restaurants : (c.at \in Counting => r # c.kept) => average[r] = Mean(r)
    /\ c.at = "writeAverage" => c.to = Mean(c.kept)

(* An order that a rider took stays so for as long as it is served.        *)
StaysTaken ==
    \A o \in Orders : order'[o].status \in Serving /\ o \in taken \cup JustTaken => o \in taken'

Works(c) == AllKept /\ Told(c) /\ Going(c) /\ Counted(c)

WorksInv == alone =>
    /\ OneAtWork
    /\ Quiet => Works(Idle)
    /\ \A h \in Slots : call[h] # Idle => Works(call[h])

FoodInv == TypeOK /\ RatedOnce

(* What payment, riders and those who assign them do to an order. *)
Outside(o) ==
    \/ PaymentConfirmed(o) \/ MarkRefunded(o) \/ OfferToRider(o) \/ OfferEnds(o)
    \/ RiderAccepts(o) \/ AdminAssigns(o) \/ RiderAdvances(o)

-----------------------------------------------------------------------------
(* The statuses an order is served in. *)
LEMMA Ranges ==
    /\ Range(StatusSequence) = {"vendor_accepted", "preparing", "ready", "handed_over"}
    /\ Range(WithRider) = {"delivery_assigned", "picked_up", "out_for_delivery", "delivered"}
<1>1. DOMAIN StatusSequence = 1 .. 4 /\ DOMAIN WithRider = 1 .. 4
    BY DEF StatusSequence, WithRider
<1>2. /\ StatusSequence[1] = "vendor_accepted" /\ StatusSequence[2] = "preparing"
      /\ StatusSequence[3] = "ready" /\ StatusSequence[4] = "handed_over"
    BY DEF StatusSequence
<1>3. /\ WithRider[1] = "delivery_assigned" /\ WithRider[2] = "picked_up"
      /\ WithRider[3] = "out_for_delivery" /\ WithRider[4] = "delivered"
    BY DEF WithRider
<1>4. 1 .. 4 = {1, 2, 3, 4}
    OBVIOUS
<1>. QED
    BY <1>1, <1>2, <1>3, <1>4 DEF Range

LEMMA ServingIs ==
    /\ Serving = {"vendor_accepted", "preparing", "ready", "handed_over",
                  "delivery_assigned", "picked_up", "out_for_delivery", "delivered"}
    /\ \A i \in 1 .. 4 : StatusSequence[i] \in Serving /\ WithRider[i] \in Serving
<1>1. DOMAIN StatusSequence = 1 .. 4 /\ DOMAIN WithRider = 1 .. 4
    BY DEF StatusSequence, WithRider
<1>. QED
    BY <1>1, Ranges DEF Serving, Range

(* A status with an index is one of the kitchen's. *)
LEMMA IndexInKitchen ==
    ASSUME NEW st, IndexOf(st) \in 1 .. 4
    PROVE  st \in Serving
BY DEF IndexOf, Serving

(* The handler that acts, and where it goes. *)
LEMMA Working ==
    ASSUME TypeOK, NEW h \in Slots, call[h].at # "idle"
    PROVE  Handler(call[h]) /\ call[h] # Idle /\ call[h].o \in Orders
BY DEF TypeOK, Idle, Handler

LEMMA GoesTo ==
    ASSUME TypeOK, NEW h \in Slots, NEW x, Goto(h, x)
    PROVE  /\ call'[h] = x
           /\ \A g \in Slots \ {h} : call'[g] = call[g]
           /\ call' = [g \in Slots |-> call'[g]]
BY DEF TypeOK, Goto

LEMMA GoesOn ==
    ASSUME TypeOK, NEW h \in Slots, NEW x, Goto(h, x), x = Idle \/ Handler(x),
           order' \in [Orders -> Row], timeline' \in [Orders -> Statuses],
           accepted' \in [Orders -> Restaurants \cup {None}],
           UNCHANGED <<ratings, average>>
    PROVE  TypeOK'
BY GoesTo DEF TypeOK, Handler

LEMMA MovesTo ==
    ASSUME TypeOK, NEW h \in Slots, call[h].at # "idle", NEW p, Becomes(h, p)
    PROVE  /\ call'[h] = [at |-> p, o |-> call[h].o, to |-> call[h].to,
                          then |-> call[h].then, kept |-> call[h].kept]
           /\ Goto(h, call'[h])
<1>1. call'[h] = [call[h] EXCEPT !.at = p]
    BY GoesTo DEF Becomes
<1>2. Handler(call[h])
    BY Working
<1>3. [call[h] EXCEPT !.at = p] = [at |-> p, o |-> call[h].o, to |-> call[h].to,
                                   then |-> call[h].then, kept |-> call[h].kept]
    BY <1>2 DEF Handler
<1>. QED
    BY <1>1, <1>3 DEF Becomes

LEMMA StartsWith ==
    ASSUME TypeOK, NEW h \in Slots, NEW o, NEW p, NEW to, NEW then, NEW kept,
           Starts(h, o, p, to, then, kept)
    PROVE  /\ call'[h] = [at |-> p, o |-> o, to |-> to, then |-> then, kept |-> kept]
           /\ Goto(h, call'[h]) /\ call[h] = Idle /\ call[h].at = "idle"
           /\ UNCHANGED <<order, timeline, accepted, ratings, average>>
<1>1. call'[h] = [at |-> p, o |-> o, to |-> to, then |-> then, kept |-> kept]
      /\ Goto(h, call'[h])
    BY GoesTo DEF Starts
<1>2. call[h].at = "idle"
    BY DEF Starts, At
<1>3. call[h] = Idle
    BY <1>2 DEF TypeOK, Handler
<1>. QED
    BY <1>1, <1>2, <1>3 DEF Starts

LEMMA IsHandler ==
    ASSUME NEW p, NEW o \in Orders, NEW to, NEW then, NEW kept,
           \/ /\ p \in {"checkPayment", "write", "history"}
              /\ to \in Statuses /\ then \in {"end", "refund"} \cup Serving
              /\ kept \in Restaurants \cup {None}
           \/ p = "refund"
           \/ p \in {"restorePayment", "writeRestored"} /\ kept \in Payments
              /\ to = "placed" /\ then = "end"
           \/ p = "revoke" /\ then \in Restaurants \cup {"end"} /\ to = "placed" /\ kept = None
           \/ p = "move" /\ then \in Restaurants /\ to = "placed" /\ kept = None
           \/ p \in {"insertRating", "readRatings", "writeAverage"} /\ kept \in Restaurants
    PROVE  Handler([at |-> p, o |-> o, to |-> to, then |-> then, kept |-> kept])
BY DEF Handler

(* The calls. *)
LEMMA CallType ==
    ASSUME TypeOK, NEW h \in Slots, NEW o \in Orders, Calls(h, o)
    PROVE  TypeOK' /\ UNCHANGED ratings
<1>1. /\ order[o] \in Row /\ order[o].rest \in Restaurants /\ order[o].pay \in Payments
      /\ Status(o) \in Statuses
    BY DEF TypeOK, Row, Status
<1>2. ASSUME NEW p, NEW to, NEW then, NEW kept, Starts(h, o, p, to, then, kept),
             Handler([at |-> p, o |-> o, to |-> to, then |-> then, kept |-> kept])
      PROVE  TypeOK' /\ UNCHANGED ratings
    BY <1>2, StartsWith, GoesOn DEF TypeOK
<1>3. CASE Accept(h, o) \/ Reject(h, o) \/ CancelByAdmin(h, o) \/ CancelByCustomer(h, o)
    <2>1. {"vendor_accepted", "failed", "cancelled"} \subseteq Statuses
        BY ServingIs DEF Statuses, Ended
    <2>. QED
        BY <1>1, <1>2, <1>3, <2>1, IsHandler DEF Accept, Reject, CancelByAdmin, CancelByCustomer
<1>4. CASE Advance(h, o) \/ Correct(h, o)
    <2>1. PICK i \in 1 .. 4 : Starts(h, o, "write", StatusSequence[i], "end", None)
        BY <1>4 DEF Advance, Correct
    <2>2. StatusSequence[i] \in Statuses
        BY ServingIs DEF Statuses
    <2>. QED
        BY <1>2, <2>1, <2>2, IsHandler
<1>5. ASSUME NEW st \in Range(StatusSequence) \cup Range(WithRider), SetStatus(h, o, st)
      PROVE  TypeOK' /\ UNCHANGED ratings
    <2>1. st \in Serving /\ st \in Statuses /\ "vendor_accepted" \in Statuses
        BY ServingIs DEF Serving, Statuses
    <2>. QED
        BY <1>1, <1>2, <1>5, <2>1, IsHandler DEF SetStatus
<1>6. CASE Restore(h, o)
    BY <1>1, <1>2, <1>6, IsHandler DEF Restore
<1>7. ASSUME NEW r \in Restaurants, ChangeRestaurant(h, o, r)
      PROVE  TypeOK' /\ UNCHANGED ratings
    <2>1. CASE order[o].rider
        BY <1>2, <1>7, <2>1, IsHandler DEF ChangeRestaurant
    <2>2. CASE ~order[o].rider
        BY <1>2, <1>7, <2>2, IsHandler DEF ChangeRestaurant
    <2>. QED
        BY <2>1, <2>2
<1>8. CASE Rate(h, o)
    BY <1>1, <1>2, <1>8, IsHandler DEF Rate
<1>. QED
    BY <1>3, <1>4, <1>5, <1>6, <1>7, <1>8 DEF Calls

LEMMA DeliveredIs ==
    ASSUME NEW row \in Row
    PROVE  /\ Delivered(row) \in Row
           /\ Delivered(row).status = row.status /\ Delivered(row).rest = row.rest
           /\ row.pay \in Satisfied => Delivered(row).pay \in Satisfied
BY DEF Delivered, Row, Payments, Satisfied

(* A write to the row of one order. *)
LEMMA WritesRow ==
    ASSUME TypeOK, NEW o \in Orders, NEW row \in Row, order' = [order EXCEPT ![o] = row]
    PROVE  /\ order' \in [Orders -> Row] /\ order'[o] = row
           /\ \A p \in Orders \ {o} : order'[p] = order[p]
BY DEF TypeOK

LEMMA RowIs ==
    ASSUME TypeOK, NEW o \in Orders
    PROVE  /\ order[o] \in Row /\ Status(o) \in Statuses
           /\ order[o].rest \in Restaurants /\ order[o].pay \in Payments
           /\ \A st \in Statuses : [order[o] EXCEPT !.status = st] \in Row
           /\ \A pay \in Payments : [order[o] EXCEPT !.pay = pay] \in Row
           /\ \A r \in Restaurants : MovedTo(order[o], r) \in Row
BY DEF TypeOK, Row, Status, MovedTo, Statuses

LEMMA IdleIsIdle == Idle.at = "idle"
BY DEF Idle

LEMMA KeptIsChanged ==
    ASSUME NEW c, Handler(c), NEW p, NEW v
    PROVE  [c EXCEPT !.at = p, !.kept = v]
             = [at |-> p, o |-> c.o, to |-> c.to, then |-> c.then, kept |-> v]
<1>1. PICK a, o, to, then, kept :
          c = [at |-> a, o |-> o, to |-> to, then |-> then, kept |-> kept]
    BY DEF Handler
<1>2. [c EXCEPT !.at = p] = [at |-> p, o |-> o, to |-> to, then |-> then, kept |-> kept]
    BY <1>1
<1>3. [[at |-> p, o |-> o, to |-> to, then |-> then, kept |-> kept] EXCEPT !.kept = v]
        = [at |-> p, o |-> o, to |-> to, then |-> then, kept |-> v]
    OBVIOUS
<1>4. [c EXCEPT !.at = p, !.kept = v] = [[c EXCEPT !.at = p] EXCEPT !.kept = v]
    BY <1>1
<1>5. c.o = o /\ c.to = to /\ c.then = then /\ c.kept = kept
    BY <1>1
<1>6. [[c EXCEPT !.at = p] EXCEPT !.kept = v]
        = [at |-> p, o |-> o, to |-> to, then |-> then, kept |-> v]
    BY <1>2, <1>3, Zenon
<1>. QED
    BY <1>4, <1>5, <1>6

LEMMA MovedNext ==
    ASSUME NEW c, Handler(c)
    PROVE  [c EXCEPT !.at = "history", !.then = "end"]
             = [at |-> "history", o |-> c.o, to |-> c.to, then |-> "end", kept |-> c.kept]
<1>1. PICK a, o, to, then, kept :
          c = [at |-> a, o |-> o, to |-> to, then |-> then, kept |-> kept]
    BY DEF Handler
<1>2. [c EXCEPT !.at = "history"] = [at |-> "history", o |-> o, to |-> to, then |-> then, kept |-> kept]
    BY <1>1
<1>3. [[at |-> "history", o |-> o, to |-> to, then |-> then, kept |-> kept] EXCEPT !.then = "end"]
        = [at |-> "history", o |-> o, to |-> to, then |-> "end", kept |-> kept]
    OBVIOUS
<1>4. [c EXCEPT !.at = "history", !.then = "end"] = [[c EXCEPT !.at = "history"] EXCEPT !.then = "end"]
    BY <1>1
<1>5. c.o = o /\ c.to = to /\ c.then = then /\ c.kept = kept
    BY <1>1
<1>6. [[c EXCEPT !.at = "history"] EXCEPT !.then = "end"]
        = [at |-> "history", o |-> o, to |-> to, then |-> "end", kept |-> kept]
    BY <1>2, <1>3, Zenon
<1>. QED
    BY <1>4, <1>5, <1>6

LEMMA ToIsChanged ==
    ASSUME NEW c, Handler(c), NEW p, NEW v
    PROVE  [c EXCEPT !.at = p, !.to = v]
             = [at |-> p, o |-> c.o, to |-> v, then |-> c.then, kept |-> c.kept]
<1>1. PICK a, o, to, then, kept :
          c = [at |-> a, o |-> o, to |-> to, then |-> then, kept |-> kept]
    BY DEF Handler
<1>2. [c EXCEPT !.at = p] = [at |-> p, o |-> o, to |-> to, then |-> then, kept |-> kept]
    BY <1>1
<1>3. [[at |-> p, o |-> o, to |-> to, then |-> then, kept |-> kept] EXCEPT !.to = v]
        = [at |-> p, o |-> o, to |-> v, then |-> then, kept |-> kept]
    OBVIOUS
<1>4. [c EXCEPT !.at = p, !.to = v] = [[c EXCEPT !.at = p] EXCEPT !.to = v]
    BY <1>1
<1>5. c.o = o /\ c.to = to /\ c.then = then /\ c.kept = kept
    BY <1>1
<1>6. [[c EXCEPT !.at = p] EXCEPT !.to = v]
        = [at |-> p, o |-> o, to |-> v, then |-> then, kept |-> kept]
    BY <1>2, <1>3, Zenon
<1>. QED
    BY <1>4, <1>5, <1>6

(* The status that an admin wanted behind the acceptance. *)
LEMMA WrittenNext ==
    ASSUME NEW c, Handler(c)
    PROVE  [c EXCEPT !.at = "write", !.to = c.then, !.then = "end"]
             = [at |-> "write", o |-> c.o, to |-> c.then, then |-> "end", kept |-> c.kept]
<1>1. PICK a, o, to, then, kept :
          c = [at |-> a, o |-> o, to |-> to, then |-> then, kept |-> kept]
    BY DEF Handler
<1>2. [c EXCEPT !.at = "write", !.to = c.then]
        = [at |-> "write", o |-> c.o, to |-> c.then, then |-> c.then, kept |-> c.kept]
    BY ToIsChanged
<1>3. c.o = o /\ c.to = to /\ c.then = then /\ c.kept = kept
    BY <1>1
<1>4. [c EXCEPT !.at = "write", !.to = c.then]
        = [at |-> "write", o |-> o, to |-> then, then |-> then, kept |-> kept]
    BY <1>2, <1>3
<1>5. [[at |-> "write", o |-> o, to |-> then, then |-> then, kept |-> kept]
            EXCEPT !.then = "end"]
        = [at |-> "write", o |-> o, to |-> then, then |-> "end", kept |-> kept]
    OBVIOUS
<1>6. [c EXCEPT !.at = "write", !.to = c.then, !.then = "end"]
        = [[c EXCEPT !.at = "write", !.to = c.then] EXCEPT !.then = "end"]
    BY <1>1
<1>7. [[c EXCEPT !.at = "write", !.to = c.then] EXCEPT !.then = "end"]
        = [at |-> "write", o |-> o, to |-> then, then |-> "end", kept |-> kept]
    BY <1>4, <1>5, Zenon
<1>. QED
    BY <1>3, <1>6, <1>7

(* What each step of a handler does: where the handler goes, and the row   *)
(* of its order.                                                           *)
LEMMA WriteDoes ==
    ASSUME TypeOK, NEW h \in Slots, Write(h)
    PROVE  /\ call[h].at = "write" /\ Handler(call[h])
           /\ call'[h] = [at |-> "history", o |-> call[h].o, to |-> call[h].to,
                          then |-> call[h].then, kept |-> None]
           /\ Goto(h, call'[h])
           /\ order' \in [Orders -> Row]
           /\ \A p \in Orders \ {call[h].o} : order'[p] = order[p]
           /\ order'[call[h].o].status = call[h].to
           /\ order'[call[h].o].rest = order[call[h].o].rest
           /\ order[call[h].o].pay \in Satisfied => order'[call[h].o].pay \in Satisfied
           /\ accepted' \in [Orders -> Restaurants \cup {None}]
           /\ \A p \in Orders \ {call[h].o} : accepted'[p] = accepted[p]
           /\ accepted'[call[h].o] = IF call[h].kept = None THEN accepted[call[h].o]
                                     ELSE call[h].kept
<1>. DEFINE c == call[h]
            new == [at |-> "history", o |-> c.o, to |-> c.to, then |-> c.then, kept |-> None]
            row == Delivered([order[c.o] EXCEPT !.status = c.to])
<1>1. c.at = "write" /\ Handler(c) /\ c.o \in Orders /\ c.to \in Statuses
      /\ c.kept \in Restaurants \cup {None}
    BY Working DEF Write, At, Handler
<1>2. Goto(h, [c EXCEPT !.at = "history", !.kept = None])
    BY DEF Write
<1>3. [c EXCEPT !.at = "history", !.kept = None] = new
    BY <1>1, KeptIsChanged
<1>4. call'[h] = new /\ Goto(h, new)
    BY <1>2, <1>3, GoesTo
<1>5. order' = [order EXCEPT ![c.o] = row]
    BY DEF Write
<1>6. /\ [order[c.o] EXCEPT !.status = c.to] \in Row
      /\ [order[c.o] EXCEPT !.status = c.to].status = c.to
      /\ [order[c.o] EXCEPT !.status = c.to].rest = order[c.o].rest
      /\ [order[c.o] EXCEPT !.status = c.to].pay = order[c.o].pay
    BY <1>1, RowIs DEF Row
<1>7. /\ row \in Row /\ row.status = c.to /\ row.rest = order[c.o].rest
      /\ order[c.o].pay \in Satisfied => row.pay \in Satisfied
    BY <1>6, DeliveredIs
<1>8. accepted' = IF c.kept = None THEN accepted ELSE [accepted EXCEPT ![c.o] = c.kept]
    BY DEF Write
<1>9. /\ accepted' \in [Orders -> Restaurants \cup {None}]
      /\ \A p \in Orders \ {c.o} : accepted'[p] = accepted[p]
      /\ accepted'[c.o] = IF c.kept = None THEN accepted[c.o] ELSE c.kept
    BY <1>1, <1>8 DEF TypeOK
<1>. HIDE DEF row
<1>10. /\ order' \in [Orders -> Row] /\ order'[c.o] = row
       /\ \A p \in Orders \ {c.o} : order'[p] = order[p]
    BY <1>1, <1>5, <1>7, WritesRow
<1>. QED
    BY <1>1, <1>4, <1>7, <1>9, <1>10

LEMMA WriteRestoredDoes ==
    ASSUME TypeOK, NEW h \in Slots, WriteRestored(h)
    PROVE  /\ call[h].at = "writeRestored" /\ Handler(call[h])
           /\ call'[h] = [at |-> "history", o |-> call[h].o, to |-> "placed",
                          then |-> "end", kept |-> None]
           /\ Goto(h, call'[h])
           /\ order' \in [Orders -> Row]
           /\ \A p \in Orders \ {call[h].o} : order'[p] = order[p]
           /\ order'[call[h].o].status = "placed"
<1>. DEFINE c == call[h]
            pay == IF c.kept = "refund_pending" THEN "paid" ELSE c.kept
            row == [order[c.o] EXCEPT !.status = "placed", !.pay = pay]
<1>1. c.at = "writeRestored" /\ Handler(c) /\ c.o \in Orders /\ c.to = "placed"
      /\ c.then = "end" /\ c.kept \in Payments
    BY Working DEF WriteRestored, At, Handler
<1>2. Goto(h, [c EXCEPT !.at = "history", !.kept = None])
    BY DEF WriteRestored
<1>3. [c EXCEPT !.at = "history", !.kept = None]
        = [at |-> "history", o |-> c.o, to |-> "placed", then |-> "end", kept |-> None]
    <2>1. [c EXCEPT !.at = "history", !.kept = None]
            = [at |-> "history", o |-> c.o, to |-> c.to, then |-> c.then, kept |-> None]
        BY <1>1, KeptIsChanged
    <2>. QED
        BY <1>1, <2>1
<1>4. order' = [order EXCEPT ![c.o] = row]
    BY DEF WriteRestored, TypeOK
<1>5. pay \in Payments
    BY <1>1 DEF Payments
<1>6. row \in Row /\ row.status = "placed"
    BY <1>1, <1>5, RowIs DEF Row, Statuses
<1>. HIDE DEF row
<1>7. /\ order' \in [Orders -> Row] /\ order'[c.o] = row
      /\ \A p \in Orders \ {c.o} : order'[p] = order[p]
    BY <1>1, <1>4, <1>6, WritesRow
<1>. QED
    BY <1>1, <1>2, <1>3, <1>6, <1>7, GoesTo

LEMMA MoveDoes ==
    ASSUME TypeOK, NEW h \in Slots, Move(h)
    PROVE  /\ call[h].at = "move" /\ Handler(call[h])
           /\ call'[h] = [at |-> "history", o |-> call[h].o, to |-> "placed",
                          then |-> "end", kept |-> None]
           /\ Goto(h, call'[h])
           /\ order' \in [Orders -> Row]
           /\ \A p \in Orders \ {call[h].o} : order'[p] = order[p]
           /\ order'[call[h].o].status = "placed"
<1>. DEFINE c == call[h]
            row == MovedTo(order[c.o], c.then)
<1>1. c.at = "move" /\ Handler(c) /\ c.o \in Orders /\ c.to = "placed"
      /\ c.then \in Restaurants /\ c.kept = None
    BY Working DEF Move, At, Handler
<1>2. Goto(h, [c EXCEPT !.at = "history", !.then = "end"])
    BY DEF Move
<1>3. [c EXCEPT !.at = "history", !.then = "end"]
        = [at |-> "history", o |-> c.o, to |-> "placed", then |-> "end", kept |-> None]
    <2>1. [c EXCEPT !.at = "history", !.then = "end"]
            = [at |-> "history", o |-> c.o, to |-> c.to, then |-> "end", kept |-> c.kept]
        BY <1>1, MovedNext
    <2>. QED
        BY <1>1, <2>1
<1>4. order' = [order EXCEPT ![c.o] = row]
    BY DEF Move
<1>5. row \in Row /\ row.status = "placed"
    BY <1>1, RowIs DEF Row, MovedTo
<1>. HIDE DEF row
<1>6. /\ order' \in [Orders -> Row] /\ order'[c.o] = row
      /\ \A p \in Orders \ {c.o} : order'[p] = order[p]
    BY <1>1, <1>4, <1>5, WritesRow
<1>. QED
    BY <1>1, <1>2, <1>3, <1>5, <1>6, GoesTo

LEMMA RevokeDoes ==
    ASSUME TypeOK, NEW h \in Slots, RevokeOffer(h)
    PROVE  /\ call[h].at = "revoke" /\ Goto(h, call'[h])
           /\ call'[h] = Idle \/ (Handler(call'[h]) /\ call'[h].at = "move" /\ call'[h].o = call[h].o)
<1>1. call[h].at = "revoke" /\ Handler(call[h]) /\ call[h].o \in Orders
    BY Working DEF RevokeOffer, At, Handler
<1>2. CASE Done(h)
    BY <1>1, <1>2, GoesTo DEF Done
<1>3. CASE call[h].then # "end" /\ Becomes(h, "move")
    <2>1. /\ Goto(h, call'[h])
          /\ call'[h] = [at |-> "move", o |-> call[h].o, to |-> call[h].to,
                         then |-> call[h].then, kept |-> call[h].kept]
        BY <1>1, <1>3, MovesTo
    <2>2. call[h].then \in Restaurants /\ call[h].to = "placed" /\ call[h].kept = None
        BY <1>1, <1>3 DEF Handler
    <2>. QED
        BY <1>1, <2>1, <2>2, IsHandler
<1>. QED
    BY <1>2, <1>3, <1>1 DEF RevokeOffer

(* Only the payment of the row changes. *)
LEMMA PaymentDoes ==
    ASSUME TypeOK, NEW h \in Slots, RestorePayment(h) \/ Refund(h)
    PROVE  /\ call[h].at \in {"restorePayment", "refund"} /\ Handler(call[h])
           /\ order' \in [Orders -> Row]
           /\ \A p \in Orders \ {call[h].o} : order'[p] = order[p]
           /\ order'[call[h].o].status = order[call[h].o].status
<1>. DEFINE c == call[h]
<1>1. c.at \in {"restorePayment", "refund"} /\ Handler(c) /\ c.o \in Orders
    BY Working DEF RestorePayment, Refund, At, Handler
<1>2. PICK pay \in Payments : order' = [order EXCEPT ![c.o] = [order[c.o] EXCEPT !.pay = pay]]
    <2>1. order[c.o].pay \in Payments /\ {"paid", "refund_pending", "refunded"} \subseteq Payments
        BY <1>1, RowIs DEF Payments
    <2>. QED
        BY <2>1 DEF RestorePayment, Refund
<1>. DEFINE row == [order[c.o] EXCEPT !.pay = pay]
<1>3. row \in Row /\ row.status = order[c.o].status
    BY <1>1, RowIs DEF Row
<1>. HIDE DEF row
<1>4. /\ order' \in [Orders -> Row] /\ order'[c.o] = row
      /\ \A p \in Orders \ {c.o} : order'[p] = order[p]
    BY <1>1, <1>2, <1>3, WritesRow DEF row
<1>. QED
    BY <1>1, <1>3, <1>4

LEMMA WriteHistoryDoes ==
    ASSUME TypeOK, NEW h \in Slots, WriteHistory(h)
    PROVE  /\ call[h].at = "history" /\ Handler(call[h])
           /\ Goto(h, call'[h])
           /\ timeline' \in [Orders -> Statuses]
           /\ \A p \in Orders \ {call[h].o} : timeline'[p] = timeline[p]
           /\ timeline'[call[h].o] = call[h].to
           /\ \/ call'[h] = Idle
              \/ /\ call[h].then = "refund"
                 /\ call'[h] = [at |-> "refund", o |-> call[h].o, to |-> call[h].to,
                                then |-> call[h].then, kept |-> call[h].kept]
              \/ /\ call[h].then \in Serving
                 /\ call'[h] = [at |-> "write", o |-> call[h].o, to |-> call[h].then,
                                then |-> "end", kept |-> call[h].kept]
<1>. DEFINE c == call[h]
<1>1. c.at = "history" /\ Handler(c) /\ c.o \in Orders /\ c.to \in Statuses
      /\ c.then \in {"end", "refund"} \cup Serving
    BY Working DEF WriteHistory, At, Handler
<1>2. timeline' = [timeline EXCEPT ![c.o] = c.to]
    BY DEF WriteHistory
<1>3. CASE Done(h)
    BY <1>1, <1>2, <1>3, GoesTo DEF Done, TypeOK
<1>4. CASE c.then = "refund" /\ Becomes(h, "refund")
    BY <1>1, <1>2, <1>4, MovesTo DEF TypeOK
<1>5. CASE c.then \notin {"end", "refund"} /\
           Goto(h, [c EXCEPT !.at = "write", !.to = c.then, !.then = "end"])
    <2>1. [c EXCEPT !.at = "write", !.to = c.then, !.then = "end"]
            = [at |-> "write", o |-> c.o, to |-> c.then, then |-> "end", kept |-> c.kept]
        BY <1>1, WrittenNext
    <2>2. call'[h] = [at |-> "write", o |-> c.o, to |-> c.then, then |-> "end", kept |-> c.kept]
          /\ Goto(h, call'[h])
        BY <1>5, <2>1, GoesTo
    <2>3. c.then \in Serving
        BY <1>1, <1>5
    <2>. QED
        BY <1>1, <1>2, <2>2, <2>3 DEF TypeOK
<1>. QED
    BY <1>3, <1>4, <1>5 DEF WriteHistory

(* The steps that count a rating. *)
LEMMA RatingStep ==
    ASSUME FoodInv, NEW h \in Slots, InsertRating(h) \/ ReadRatings(h) \/ WriteAverage(h)
    PROVE  /\ FoodInv' /\ Goto(h, call'[h])
           /\ call[h].at \in {"insertRating", "readRatings", "writeAverage"}
           /\ Handler(call[h]) /\ call[h].kept \in Restaurants
<1>. DEFINE c == call[h]
<1>1. /\ c.at \in {"insertRating", "readRatings", "writeAverage"}
      /\ Handler(c) /\ c.o \in Orders /\ c.kept \in Restaurants /\ TypeOK
    BY Working DEF FoodInv, InsertRating, ReadRatings, WriteAverage, At, Handler
<1>2. ASSUME Goto(h, call'[h]), call'[h] = Idle \/ Handler(call'[h]),
             average' = [r \in Restaurants |-> average'[r]],
             ratings' \subseteq [order : Orders, rest : Restaurants, stars : Stars],
             RatedOnce', UNCHANGED <<order, timeline, accepted>>
      PROVE  FoodInv' /\ Goto(h, call'[h])
    BY <1>1, <1>2, GoesTo DEF FoodInv, TypeOK, Handler
<1>3. ASSUME Done(h) PROVE Goto(h, call'[h]) /\ call'[h] = Idle
    BY <1>1, <1>3, GoesTo DEF Done
<1>4. CASE InsertRating(h) /\ RowAllowed(c.o)
    <2>1. PICK n \in Stars :
              ratings' = ratings \cup {[order |-> c.o, rest |-> c.kept, stars |-> n]}
        BY <1>4 DEF InsertRating
    <2>2. RatedOnce'
        BY <1>1, <1>4, <2>1 DEF RatedOnce, RowAllowed, Rated, FoodInv
    <2>3. ratings' \subseteq [order : Orders, rest : Restaurants, stars : Stars]
        BY <1>1, <2>1 DEF TypeOK
    <2>4. /\ Goto(h, call'[h])
          /\ call'[h] = [at |-> "readRatings", o |-> c.o, to |-> c.to,
                         then |-> c.then, kept |-> c.kept]
        BY <1>1, <1>4, MovesTo DEF InsertRating
    <2>5. Handler(call'[h])
        BY <1>1, <2>4, IsHandler
    <2>. QED
        BY <1>1, <1>2, <1>4, <2>2, <2>3, <2>4, <2>5 DEF InsertRating, TypeOK
<1>5. CASE InsertRating(h) /\ ~RowAllowed(c.o)
    <2>1. Done(h) /\ UNCHANGED <<order, timeline, accepted, ratings, average>>
        BY <1>5 DEF InsertRating
    <2>. QED
        BY <1>1, <1>2, <1>3, <2>1 DEF FoodInv, TypeOK, RatedOnce
<1>6. CASE ReadRatings(h)
    <2>1. /\ UNCHANGED <<order, timeline, accepted, ratings, average>>
          /\ Goto(h, [c EXCEPT !.at = "writeAverage", !.to = Average(RatingsOf(c.kept))])
        BY <1>6 DEF ReadRatings
    <2>2. PICK avg : avg = Average(RatingsOf(c.kept))
        OBVIOUS
    <2>3. [c EXCEPT !.at = "writeAverage", !.to = avg]
            = [at |-> "writeAverage", o |-> c.o, to |-> avg, then |-> c.then, kept |-> c.kept]
        BY <1>1, ToIsChanged
    <2>4. Goto(h, call'[h]) /\ Handler(call'[h])
        BY <1>1, <2>1, <2>2, <2>3, GoesTo, IsHandler
    <2>. QED
        BY <1>1, <1>2, <2>1, <2>4 DEF FoodInv, TypeOK, RatedOnce
<1>7. CASE WriteAverage(h)
    <2>1. /\ Done(h) /\ UNCHANGED <<order, timeline, accepted, ratings>>
          /\ average' = [average EXCEPT ![c.kept] = c.to]
        BY <1>7 DEF WriteAverage
    <2>2. average' = [r \in Restaurants |-> average'[r]]
        BY <1>1, <2>1 DEF TypeOK
    <2>. QED
        BY <1>1, <1>2, <1>3, <2>1, <2>2 DEF FoodInv, TypeOK, RatedOnce
<1>. QED
    BY <1>1, <1>4, <1>5, <1>6, <1>7

LEMMA OrderStep ==
    ASSUME FoodInv, NEW h \in Slots,
           \/ CheckPayment(h) \/ Write(h) \/ WriteHistory(h) \/ Refund(h)
           \/ RestorePayment(h) \/ WriteRestored(h) \/ RevokeOffer(h) \/ Move(h)
    PROVE  FoodInv' /\ Goto(h, call'[h])
<1>. DEFINE c == call[h]
<1>. USE DEF FoodInv
<1>1. ASSUME Goto(h, call'[h]), call'[h] = Idle \/ Handler(call'[h]),
             order' \in [Orders -> Row], timeline' \in [Orders -> Statuses],
             accepted' \in [Orders -> Restaurants \cup {None}],
             UNCHANGED <<ratings, average>>
      PROVE  FoodInv' /\ Goto(h, call'[h])
    BY <1>1, GoesOn DEF RatedOnce
<1>2. CASE CheckPayment(h)
    <2>1. c.at = "checkPayment" /\ Handler(c) /\ UNCHANGED <<order, timeline, accepted, ratings, average>>
        BY <1>2, Working DEF CheckPayment, At
    <2>2. CASE Done(h)
        BY <1>1, <2>1, <2>2, GoesTo DEF Done, TypeOK
    <2>3. CASE Becomes(h, "write")
        <3>1. /\ Goto(h, call'[h])
              /\ call'[h] = [at |-> "write", o |-> c.o, to |-> c.to,
                             then |-> c.then, kept |-> c.kept]
            BY <2>1, <2>3, MovesTo
        <3>2. Handler(call'[h])
            BY <2>1, <3>1, IsHandler DEF Handler
        <3>. QED
            BY <1>1, <2>1, <3>1, <3>2 DEF TypeOK
    <2>. QED
        BY <1>2, <2>2, <2>3 DEF CheckPayment
<1>3. CASE Write(h)
    <2>1. UNCHANGED <<timeline, ratings, average>>
        BY <1>3 DEF Write
    <2>2. /\ c.o \in Orders /\ c.to \in Statuses /\ c.then \in {"end", "refund"} \cup Serving
          /\ call'[h] = [at |-> "history", o |-> c.o, to |-> c.to, then |-> c.then, kept |-> None]
        BY <1>3, WriteDoes DEF Handler
    <2>3. Handler(call'[h])
        BY <2>2, IsHandler
    <2>. QED
        BY <1>1, <1>3, <2>1, <2>3, WriteDoes DEF TypeOK
<1>4. CASE WriteHistory(h)
    <2>1. UNCHANGED <<order, accepted, ratings, average>>
        BY <1>4 DEF WriteHistory
    <2>2. call'[h] = Idle \/ Handler(call'[h])
        <3>1. /\ Handler(c) /\ c.o \in Orders /\ c.at = "history"
              /\ c.kept \in Restaurants \cup {None}
            BY <1>4, WriteHistoryDoes DEF Handler
        <3>2. CASE call'[h] = [at |-> "refund", o |-> c.o, to |-> c.to,
                               then |-> c.then, kept |-> c.kept]
            BY <3>1, <3>2, IsHandler
        <3>3. CASE /\ c.then \in Serving
                   /\ call'[h] = [at |-> "write", o |-> c.o, to |-> c.then,
                                  then |-> "end", kept |-> c.kept]
            <4>1. c.then \in Statuses
                BY <3>3 DEF Statuses
            <4>. QED
                BY <3>1, <3>3, <4>1, IsHandler
        <3>. QED
            BY <1>4, <3>2, <3>3, WriteHistoryDoes
    <2>. QED
        BY <1>1, <1>4, <2>1, <2>2, WriteHistoryDoes DEF TypeOK
<1>5. CASE Refund(h)
    <2>1. Done(h) /\ UNCHANGED <<timeline, accepted, ratings, average>>
        BY <1>5 DEF Refund
    <2>. QED
        BY <1>1, <1>5, <2>1, PaymentDoes, GoesTo DEF Done, TypeOK
<1>6. CASE RestorePayment(h)
    <2>1. c.at = "restorePayment" /\ Handler(c) /\ c.o \in Orders
        BY <1>6, Working DEF RestorePayment, At
    <2>2. /\ Goto(h, call'[h])
          /\ call'[h] = [at |-> "writeRestored", o |-> c.o, to |-> c.to,
                         then |-> c.then, kept |-> c.kept]
        BY <1>6, <2>1, MovesTo DEF RestorePayment
    <2>3. Handler(call'[h])
        BY <2>1, <2>2, IsHandler DEF Handler
    <2>. QED
        BY <1>1, <1>6, <2>2, <2>3, PaymentDoes DEF RestorePayment, TypeOK
<1>7. CASE WriteRestored(h)
    <2>1. UNCHANGED <<timeline, accepted, ratings, average>>
        BY <1>7 DEF WriteRestored
    <2>2. /\ c.o \in Orders /\ c.to \in Statuses /\ c.then \in {"end", "refund"} \cup Serving
          /\ call'[h] = [at |-> "history", o |-> c.o, to |-> c.to, then |-> c.then, kept |-> None]
        BY <1>7, WriteRestoredDoes DEF Handler, Statuses
    <2>3. Handler(call'[h])
        BY <2>2, IsHandler
    <2>. QED
        BY <1>1, <1>7, <2>1, <2>3, WriteRestoredDoes DEF TypeOK
<1>8. CASE Move(h)
    <2>1. UNCHANGED <<timeline, accepted, ratings, average>>
        BY <1>8 DEF Move
    <2>2. /\ c.o \in Orders /\ c.to \in Statuses
          /\ call'[h] = [at |-> "history", o |-> c.o, to |-> c.to, then |-> "end", kept |-> None]
        BY <1>8, MoveDoes DEF Handler, Statuses
    <2>3. Handler(call'[h])
        BY <2>2, IsHandler
    <2>. QED
        BY <1>1, <1>8, <2>1, <2>3, MoveDoes DEF TypeOK
<1>9. CASE RevokeOffer(h)
    <2>1. /\ Goto(h, call'[h]) /\ UNCHANGED <<order, timeline, accepted, ratings, average>>
          /\ call'[h] = Idle \/ Handler(call'[h])
        BY <1>9, RevokeDoes DEF RevokeOffer
    <2>. QED
        BY <1>1, <2>1 DEF TypeOK
<1>. QED
    BY <1>2, <1>3, <1>4, <1>5, <1>6, <1>7, <1>8, <1>9

LEMMA OutsideDoes ==
    ASSUME TypeOK, NEW o \in Orders,
           Outside(o)
    PROVE  /\ order' \in [Orders -> Row] /\ timeline' \in [Orders -> Statuses]
           /\ \A p \in Orders \ {o} : order'[p] = order[p] /\ timeline'[p] = timeline[p]
           /\ order'[o].rest = order[o].rest
           /\ order'[o].status \in Serving =>
                  order[o].status \in Serving \/ order'[o].status = "delivery_assigned"
           /\ order[o].pay \in Satisfied => order'[o].pay \in Satisfied
           /\ timeline[o] = order[o].status => timeline'[o] = order'[o].status
           /\ UNCHANGED <<accepted, ratings, average, call>>
<1>1. CASE PaymentConfirmed(o) \/ MarkRefunded(o)
    <2>1. PICK pay \in {"paid", "pending_cod", "refunded"} :
              order' = [order EXCEPT ![o].pay = pay]
        BY <1>1 DEF PaymentConfirmed, MarkRefunded
    <2>. DEFINE row == [order[o] EXCEPT !.pay = pay]
    <2>2. pay \in Payments
        BY DEF Payments
    <2>5. row \in Row /\ row.status = order[o].status /\ row.rest = order[o].rest
        BY <2>2, RowIs DEF Row
    <2>6. order[o].pay \in {"pending", "refund_pending"}
        BY <1>1 DEF PaymentConfirmed, MarkRefunded
    <2>7. order' = [order EXCEPT ![o] = row]
        BY <2>1
    <2>3. UNCHANGED <<timeline, accepted, ratings, average, call>>
        BY <1>1 DEF PaymentConfirmed, MarkRefunded
    <2>. HIDE DEF row
    <2>4. /\ order' \in [Orders -> Row] /\ order'[o] = row
          /\ \A p \in Orders \ {o} : order'[p] = order[p]
        BY <2>5, <2>7, WritesRow
    <2>. QED
        BY <2>3, <2>4, <2>5, <2>6 DEF TypeOK, Satisfied
<1>2. ASSUME NEW row \in Row, RiderWrites(o, row), row.rest = order[o].rest,
             order[o].status \in Serving \/ row.status = "delivery_assigned",
             order[o].pay \in Satisfied => row.pay \in Satisfied
      PROVE  /\ order' \in [Orders -> Row] /\ timeline' \in [Orders -> Statuses]
             /\ \A p \in Orders \ {o} : order'[p] = order[p] /\ timeline'[p] = timeline[p]
             /\ order'[o].rest = order[o].rest
             /\ order'[o].status \in Serving =>
                    order[o].status \in Serving \/ order'[o].status = "delivery_assigned"
             /\ order[o].pay \in Satisfied => order'[o].pay \in Satisfied
             /\ timeline'[o] = order'[o].status
             /\ UNCHANGED <<accepted, ratings, average, call>>
    <2>1. row.status \in Statuses
        BY <1>2 DEF Row
    <2>. QED
        BY <1>2, <2>1, WritesRow DEF RiderWrites, TypeOK
<1>3. ASSUME RiderWrites(o, WithARider(order[o]))
      PROVE  /\ order' \in [Orders -> Row] /\ timeline' \in [Orders -> Statuses]
             /\ \A p \in Orders \ {o} : order'[p] = order[p] /\ timeline'[p] = timeline[p]
             /\ order'[o].rest = order[o].rest
             /\ order'[o].status \in Serving =>
                    order[o].status \in Serving \/ order'[o].status = "delivery_assigned"
             /\ order[o].pay \in Satisfied => order'[o].pay \in Satisfied
             /\ timeline'[o] = order'[o].status
             /\ UNCHANGED <<accepted, ratings, average, call>>
    <2>. DEFINE row == WithARider(order[o])
    <2>1. /\ row \in Row /\ row.rest = order[o].rest /\ row.pay = order[o].pay
          /\ row.status = "delivery_assigned"
        BY RowIs, ServingIs DEF Row, Statuses, WithARider
    <2>. HIDE DEF row
    <2>2. RiderWrites(o, row)
        BY <1>3 DEF row
    <2>. QED
        BY <1>2, <2>1, <2>2
<1>5. CASE RiderAccepts(o)
    BY <1>3, <1>5 DEF RiderAccepts
<1>6. CASE AdminAssigns(o)
    <2>1. CASE RiderWrites(o, WithARider(order[o]))
        BY <1>3, <2>1
    <2>2. CASE /\ order' = [order EXCEPT ![o].rider = TRUE]
               /\ UNCHANGED <<timeline, accepted, ratings, average, call, calls>>
        <3>. DEFINE row == [order[o] EXCEPT !.rider = TRUE]
        <3>1. /\ row \in Row /\ row.rest = order[o].rest /\ row.pay = order[o].pay
              /\ row.status = order[o].status
            BY RowIs DEF Row
        <3>2. order' = [order EXCEPT ![o] = row]
            BY <2>2
        <3>. HIDE DEF row
        <3>3. /\ order' \in [Orders -> Row] /\ order'[o] = row
              /\ \A p \in Orders \ {o} : order'[p] = order[p]
            BY <3>1, <3>2, WritesRow
        <3>. QED
            BY <2>2, <3>1, <3>3 DEF TypeOK
    <2>. QED
        BY <1>6, <2>1, <2>2 DEF AdminAssigns
<1>7. CASE OfferToRider(o) \/ OfferEnds(o)
    BY <1>7 DEF OfferToRider, OfferEnds, TypeOK
<1>4. CASE RiderAdvances(o)
    <2>1. PICK i \in 1 .. 3 :
              /\ Status(o) = WithRider[i]
              /\ RiderWrites(o, Delivered([order[o] EXCEPT !.status = WithRider[i + 1]]))
        BY <1>4 DEF RiderAdvances
    <2>2. WithRider[i] \in Serving /\ WithRider[i + 1] \in Statuses
        BY ServingIs DEF Statuses
    <2>. DEFINE row == [order[o] EXCEPT !.status = WithRider[i + 1]]
    <2>3. row \in Row /\ row.rest = order[o].rest /\ row.pay = order[o].pay
        BY <2>2, RowIs DEF Row
    <2>. QED
        BY <1>2, <2>1, <2>2, <2>3, DeliveredIs DEF Status
<1>. QED
    BY <1>1, <1>4, <1>5, <1>6, <1>7 DEF Outside

LEMMA FoodInit == Init => FoodInv
<1>. SUFFICES ASSUME Init PROVE FoodInv
    OBVIOUS
<1>1. PICK first \in Restaurants :
          order = [o \in Orders |->
                    [status |-> FirstStatus[o], rest |-> first,
                     pay |-> IF FirstStatus[o] = "placed" THEN "pending" ELSE "paid",
                     rider |-> FirstStatus[o] = "delivered"]]
    BY DEF Init
<1>2. \A o \in Orders : FirstStatus[o] \in {"placed", "delivered"} /\ FirstStatus[o] \in Statuses
    BY FoodOrderAssumption, ServingIs DEF Statuses
<1>3. order \in [Orders -> Row]
    BY <1>1, <1>2 DEF Row, Payments
<1>4. /\ timeline \in [Orders -> Statuses]
      /\ accepted \in [Orders -> Restaurants \cup {None}]
    BY <1>1, <1>2, FoodOrderAssumption DEF Init
<1>. QED
    BY <1>3, <1>4 DEF Init, FoodInv, TypeOK, RatedOnce

LEMMA FoodStep == FoodInv /\ [Next]_vars => FoodInv'
<1>. SUFFICES ASSUME FoodInv, [Next]_vars PROVE FoodInv'
    OBVIOUS
<1>1. ASSUME NEW h \in Slots, Steps(h) PROVE FoodInv'
    BY <1>1, OrderStep, RatingStep DEF Steps
<1>2. ASSUME NEW h \in Slots, NEW o \in Orders, Calls(h, o) PROVE FoodInv'
    BY <1>2, CallType DEF FoodInv, RatedOnce
<1>3. ASSUME NEW o \in Orders, Outside(o) PROVE FoodInv'
    BY <1>3, OutsideDoes DEF FoodInv, TypeOK, RatedOnce, Handler
<1>4. CASE UNCHANGED vars
    BY <1>4 DEF vars, FoodInv, TypeOK, RatedOnce, Handler
<1>. QED
    BY <1>1, <1>2, <1>3, <1>4 DEF Next, Outside

LEMMA FoodInvariant == Spec => []FoodInv
BY FoodInit, FoodStep, PTL DEF Spec

(* Only orders are offered. *)
LEMMA OffersInvariant == Spec => [](offered \subseteq Orders)
<1>1. Init => offered \subseteq Orders
    BY DEF Init
<1>2. offered \subseteq Orders /\ [Next]_vars => (offered \subseteq Orders)'
    <2>. SUFFICES ASSUME offered \subseteq Orders, [Next]_vars PROVE offered' \subseteq Orders
        OBVIOUS
    <2>1. ASSUME NEW h \in Slots, NEW o \in Orders, Calls(h, o) PROVE offered' = offered
        <3>1. \A p, to, then, kept : Starts(h, o, p, to, then, kept) => offered' = offered
            BY DEF Starts
        <3>. QED
            BY <2>1, <3>1 DEF Calls, Accept, Reject, Advance, Correct, CancelByAdmin,
                CancelByCustomer, Restore, SetStatus, ChangeRestaurant, Rate
    <2>2. ASSUME NEW h \in Slots, Steps(h) PROVE offered' \subseteq offered
        <3>1. CASE RevokeOffer(h)
            BY <3>1 DEF RevokeOffer
        <3>2. CASE ~RevokeOffer(h)
            BY <2>2, <3>2 DEF Steps, CheckPayment, Write, WriteHistory, Refund, RestorePayment,
                WriteRestored, Move, InsertRating, ReadRatings, WriteAverage
        <3>. QED
            BY <3>1, <3>2
    <2>3. ASSUME NEW o \in Orders, Outside(o) PROVE offered' \subseteq offered \cup {o}
        BY <2>3 DEF Outside, PaymentConfirmed, MarkRefunded, OfferToRider, OfferEnds,
            RiderAccepts, AdminAssigns, RiderAdvances
    <2>4. CASE UNCHANGED vars
        BY <2>4 DEF vars
    <2>. QED
        BY <2>1, <2>2, <2>3, <2>4 DEF Next, Outside
<1>. QED
    BY <1>1, <1>2, PTL DEF Spec

-----------------------------------------------------------------------------
(* One handler at a time. *)

LEMMA NotServing ==
    /\ \A st \in Ended : st \notin Serving /\ st # "placed"
    /\ "placed" \notin Serving /\ "end" \notin Serving /\ "refund" \notin Serving
    /\ "vendor_accepted" \in Serving
BY ServingIs DEF Ended

LEMMA MeanSame ==
    /\ ratings' = ratings => \A r : Mean(r)' = Mean(r)
    /\ \A r, x : ratings' = ratings \cup {x} /\ x.rest # r => Mean(r)' = Mean(r)
<1>1. ASSUME NEW r, ratings' = ratings PROVE Mean(r)' = Mean(r)
    BY <1>1 DEF Mean, RatingsOf
<1>2. ASSUME NEW r, NEW x, ratings' = ratings \cup {x}, x.rest # r PROVE Mean(r)' = Mean(r)
    <2>1. RatingsOf(r)' = RatingsOf(r)
        BY <1>2 DEF RatingsOf
    <2>. QED
        BY <2>1 DEF Mean
<1>. QED
    BY <1>1, <1>2

(* The handler that acts was the only one. *)
LEMMA OnlyOne ==
    ASSUME TypeOK, alone, WorksInv, OneAtWork', NEW h \in Slots, Goto(h, call'[h]),
           call[h] # Idle \/ call'[h] # Idle
    PROVE  Works(call[h]) /\ \A g \in Slots \ {h} : call'[g] = Idle
<1>1. \A g \in Slots \ {h} : call'[g] = call[g]
    BY GoesTo
<1>2. CASE call[h] # Idle
    BY <1>1, <1>2 DEF WorksInv, OneAtWork
<1>3. CASE call[h] = Idle
    <2>1. \A g \in Slots \ {h} : call'[g] = Idle
        BY <1>3 DEF OneAtWork
    <2>2. Quiet
        BY <1>1, <1>3, <2>1 DEF Quiet
    <2>. QED
        BY <1>3, <2>1, <2>2 DEF WorksInv
<1>. QED
    BY <1>2, <1>3

LEMMA WorksNext ==
    ASSUME NEW h \in Slots, NEW c, c = call'[h], \A g \in Slots \ {h} : call'[g] = Idle,
           OneAtWork', AllKept', Told(c)', Going(c)', Counted(c)'
    PROVE  WorksInv'
<1>1. Works(c)'
    BY DEF Works
<1>2. ASSUME NEW g \in Slots, call'[g] # Idle PROVE Works(call[g])'
    <2>1. call'[g] = c
        BY <1>2
    <2>. QED
        BY <1>1, <2>1
<1>3. ASSUME Quiet' PROVE Works(Idle)'
    <2>1. c = Idle
        BY <1>3 DEF Quiet
    <2>. QED
        BY <1>1, <2>1
<1>. QED
    BY <1>2, <1>3 DEF WorksInv

(* A call that starts, with what it goes on to write. *)
LEMMA WorksBegins ==
    ASSUME TypeOK, alone, WorksInv, OneAtWork', StaysTaken, NEW h \in Slots, NEW o \in Orders,
           NEW p, NEW to, NEW then, NEW kept, Starts(h, o, p, to, then, kept),
           p \notin {"idle", "history"} \cup Counting,
           p = "checkPayment" => to = "vendor_accepted" /\ kept = order[o].rest,
           p = "write" /\ to \in Serving => Status(o) \in Serving /\ kept = None,
           p \in {"checkPayment", "write"} =>
              (then \in Serving => to \in Serving) /\ (then = "refund" => to \in Ended),
           p \in {"refund", "restorePayment", "writeRestored"} => Status(o) \in Ended
    PROVE  WorksInv'
<1>. DEFINE c == [at |-> p, o |-> o, to |-> to, then |-> then, kept |-> kept]
<1>1. /\ c = call'[h] /\ Goto(h, call'[h]) /\ call[h] = Idle
      /\ UNCHANGED <<order, timeline, accepted, ratings, average>>
    BY StartsWith
<1>2. c.at = p /\ c.o = o /\ c.to = to /\ c.then = then /\ c.kept = kept
    OBVIOUS
<1>3. c # Idle
    BY <1>2 DEF Idle
<1>. HIDE DEF c
<1>4. Works(Idle) /\ \A g \in Slots \ {h} : call'[g] = Idle
    BY <1>1, <1>3, OnlyOne
<1>5. AllKept'
    BY <1>1, <1>4 DEF Works, AllKept, Kept, Status, StaysTaken
<1>6. Told(c)'
    BY <1>1, <1>2, <1>4, IdleIsIdle DEF Works, Told, Status
<1>7. Going(c)'
    <2>1. Status(o) \in Serving =>
              o \in taken' \/ (order[o].pay \in Satisfied /\ accepted[o] = order[o].rest)
        BY <1>1, <1>4 DEF Works, AllKept, Kept, StaysTaken, Status
    <2>. QED
        BY <1>1, <1>2, <2>1 DEF Going, Status
<1>8. Counted(c)'
    BY <1>1, <1>2, <1>4, IdleIsIdle, MeanSame DEF Works, Counted, Counting
<1>. QED
    BY <1>1, <1>4, <1>5, <1>6, <1>7, <1>8, WorksNext

LEMMA CallWorks ==
    ASSUME TypeOK, alone, WorksInv, OneAtWork', StaysTaken, NEW h \in Slots, NEW o \in Orders,
           Calls(h, o)
    PROVE  WorksInv'
<1>1. Status(o) \in Statuses
    BY RowIs
<1>. USE WorksBegins, NotServing DEF Counting
<1>2. CASE Accept(h, o)
    BY <1>2 DEF Accept
<1>3. CASE Reject(h, o) \/ CancelByAdmin(h, o) \/ CancelByCustomer(h, o)
    BY <1>3 DEF Reject, CancelByAdmin, CancelByCustomer, Ended
<1>4. CASE Advance(h, o) \/ Correct(h, o)
    <2>1. PICK st : Starts(h, o, "write", st, "end", None) /\ Status(o) \in Serving
        BY <1>4, IndexInKitchen DEF Advance, Correct
    <2>. QED
        BY <2>1
<1>5. ASSUME NEW st \in Range(StatusSequence) \cup Range(WithRider), SetStatus(h, o, st)
      PROVE  WorksInv'
    <2>1. st \in Serving
        BY DEF Serving
    <2>2. Status(o) # "placed" => Status(o) \in Serving
        BY <1>1, <1>5 DEF SetStatus, Statuses
    <2>. QED
        BY <1>5, <2>1, <2>2 DEF SetStatus
<1>6. CASE Restore(h, o)
    BY <1>6 DEF Restore
<1>7. ASSUME NEW r \in Restaurants, ChangeRestaurant(h, o, r) PROVE WorksInv'
    BY <1>7 DEF ChangeRestaurant
<1>8. CASE Rate(h, o)
    BY <1>8 DEF Rate
<1>. QED
    BY <1>2, <1>3, <1>4, <1>5, <1>6, <1>7, <1>8 DEF Calls

(* A step of the handler that is at work. *)
LEMMA WorkerWas ==
    ASSUME TypeOK, alone, WorksInv, OneAtWork', NEW h \in Slots, Goto(h, call'[h]),
           call[h].at # "idle"
    PROVE  Works(call[h]) /\ Handler(call[h]) /\ \A g \in Slots \ {h} : call'[g] = Idle
BY Working, OnlyOne

(* The averages, while an order is written. *)
LEMMA CountedStays ==
    ASSUME NEW c, Counted(c), c.at \notin Counting, UNCHANGED <<ratings, average>>,
           NEW d, d.at \notin Counting
    PROVE  Counted(d)'
BY MeanSame DEF Counted, Counting

(* The order, while ratings are counted. *)
LEMMA OrderStays ==
    ASSUME NEW c, AllKept, Told(c), c.at # "history", UNCHANGED <<order, timeline, accepted>>,
           StaysTaken,
           NEW d, d.at \notin {"checkPayment", "write", "history",
                               "refund", "restorePayment", "writeRestored"}
    PROVE  AllKept' /\ Told(d)' /\ Going(d)'
BY DEF AllKept, Kept, Told, Going, Status, StaysTaken

(* The writes of an order, and its timeline. *)
LEMMA OrderWorks ==
    ASSUME FoodInv, alone, WorksInv, OneAtWork', StaysTaken, NEW h \in Slots,
           \/ CheckPayment(h) \/ Write(h) \/ WriteHistory(h) \/ Refund(h)
           \/ RestorePayment(h) \/ WriteRestored(h) \/ RevokeOffer(h) \/ Move(h)
    PROVE  WorksInv'
<1>. PICK c : c = call[h]
    OBVIOUS
<1>. PICK d : d = call'[h]
    OBVIOUS
<1>1. TypeOK /\ Goto(h, d) /\ UNCHANGED <<ratings, average>>
    BY OrderStep DEF FoodInv, CheckPayment, Write, WriteHistory, Refund, RestorePayment,
                     WriteRestored, RevokeOffer, Move
<1>2. c.at # "idle" /\ c.at \notin Counting
    BY DEF At, CheckPayment, Write, WriteHistory, Refund, RestorePayment, WriteRestored,
           RevokeOffer, Move, Counting
<1>3. Works(c) /\ Handler(c) /\ c.o \in Orders /\ \A g \in Slots \ {h} : call'[g] = Idle
    BY <1>1, <1>2, WorkerWas DEF Handler
<1>4. AllKept /\ Told(c) /\ Going(c) /\ Counted(c)
    BY <1>3 DEF Works
<1>5. ASSUME AllKept', Told(d)', Going(d)', d.at \notin Counting
      PROVE  WorksInv'
    BY <1>1, <1>2, <1>3, <1>4, <1>5, CountedStays, WorksNext
<1>6. Idle.at = "idle" /\ "idle" \notin Counting
    BY DEF Idle, Counting
<1>7. CASE CheckPayment(h)
    <2>1. c.at = "checkPayment" /\ UNCHANGED <<order, timeline, accepted>>
        BY <1>7 DEF CheckPayment, At
    <2>2. CASE d = Idle
        BY <1>4, <1>5, <1>6, <2>1, <2>2, OrderStays
    <2>3. CASE PaymentSatisfied(c.o) /\ Becomes(h, "write")
        <3>0. d = [at |-> "write", o |-> c.o, to |-> c.to, then |-> c.then, kept |-> c.kept]
            BY <1>1, <1>2, <2>3, MovesTo
        <3>1. d.at = "write" /\ d.o = c.o /\ d.to = c.to /\ d.then = c.then /\ d.kept = c.kept
            BY <3>0
        <3>2. AllKept'
            BY <1>4, <2>1 DEF AllKept, Kept, Status, StaysTaken
        <3>3. Told(d)'
            BY <1>4, <2>1, <3>1 DEF Told, Status
        <3>4. Going(d)'
            BY <1>4, <2>1, <2>3, <3>1 DEF Going, PaymentSatisfied
        <3>. QED
            BY <1>5, <3>1, <3>2, <3>3, <3>4 DEF Counting
    <2>. QED
        BY <1>1, <1>7, <2>2, <2>3, GoesTo DEF CheckPayment, Done
<1>8. CASE Write(h)
    <2>0. d = [at |-> "history", o |-> c.o, to |-> c.to, then |-> c.then, kept |-> None]
        BY <1>1, <1>8, WriteDoes
    <2>6. d.at = "history" /\ d.o = c.o /\ d.to = c.to /\ d.then = c.then /\ d.kept = None
        BY <2>0
    <2>1. /\ c.at = "write" /\ UNCHANGED timeline
          /\ \A p \in Orders \ {c.o} : order'[p] = order[p] /\ accepted'[p] = accepted[p]
          /\ order'[c.o].status = c.to /\ order'[c.o].rest = order[c.o].rest
          /\ order[c.o].pay \in Satisfied => order'[c.o].pay \in Satisfied
          /\ c.kept # None => accepted'[c.o] = c.kept
          /\ c.kept = None => accepted'[c.o] = accepted[c.o]
        BY <1>1, <1>8, WriteDoes DEF Write
    <2>2. Kept(c.o)'
        <3>1. c.to \in Serving => c.o \in taken \/ (order[c.o].pay \in Satisfied /\
                  (c.kept = order[c.o].rest \/ (c.kept = None /\ accepted[c.o] = order[c.o].rest)))
            BY <1>4, <2>1 DEF Going
        <3>2. CASE c.to \notin Serving
            BY <2>1, <3>2 DEF Kept, Status
        <3>3. ASSUME c.to \in Serving, c.o \notin taken
              PROVE  order'[c.o].pay \in Satisfied /\ accepted'[c.o] = order'[c.o].rest
            BY <1>1, <1>3, <2>1, <3>1, <3>3, RowIs, FoodOrderAssumption
        <3>4. ASSUME c.to \in Serving, c.o \in taken
              PROVE  c.o \in taken'
            BY <1>3, <2>1, <3>4 DEF StaysTaken
        <3>. QED
            BY <3>2, <3>3, <3>4 DEF Kept
    <2>3. AllKept'
        BY <1>4, <2>1, <2>2 DEF AllKept, Kept, Status, StaysTaken
    <2>4. Told(d)'
        BY <1>4, <2>1, <2>6 DEF Told, Status
    <2>5. Going(d)'
        BY <1>4, <2>1, <2>6 DEF Going, Status
    <2>. QED
        BY <1>5, <2>3, <2>4, <2>5, <2>6 DEF Counting
<1>9. CASE WriteHistory(h)
    <2>1. /\ c.at = "history" /\ UNCHANGED <<order, accepted>>
          /\ \A p \in Orders \ {c.o} : timeline'[p] = timeline[p]
          /\ timeline'[c.o] = c.to /\ Status(c.o) = c.to /\ c.kept = None
        BY <1>1, <1>4, <1>9, WriteHistoryDoes DEF WriteHistory, Going
    <2>2. AllKept' /\ Told(d)'
        BY <1>4, <2>1 DEF AllKept, Kept, Told, Status, StaysTaken
    <2>3. CASE d = Idle
        BY <1>5, <1>6, <2>2, <2>3 DEF Going
    <2>4. CASE c.then = "refund" /\ d.at = "refund" /\ d.o = c.o
        <3>1. Going(d)'
            BY <1>4, <2>1, <2>4 DEF Going, Status
        <3>. QED
            BY <1>5, <2>2, <2>4, <3>1 DEF Counting
    <2>5. CASE /\ c.then \in Serving
               /\ d.at = "write" /\ d.o = c.o /\ d.to = c.then /\ d.then = "end" /\ d.kept = None
        <3>1. c.to \in Serving
            BY <1>4, <2>1, <2>5 DEF Going
        <3>2. c.o \in taken' \/ (order[c.o].pay \in Satisfied /\ accepted[c.o] = order[c.o].rest)
            BY <1>3, <1>4, <2>1, <3>1 DEF AllKept, Kept, StaysTaken, Status
        <3>3. Going(d)'
            BY <2>1, <2>5, <3>2, NotServing DEF Going
        <3>. QED
            BY <1>5, <2>2, <2>5, <3>3 DEF Counting
    <2>6. CASE /\ c.then = "refund"
               /\ d = [at |-> "refund", o |-> c.o, to |-> c.to, then |-> c.then, kept |-> c.kept]
        BY <2>4, <2>6
    <2>7. CASE /\ c.then \in Serving
               /\ d = [at |-> "write", o |-> c.o, to |-> c.then, then |-> "end", kept |-> c.kept]
        BY <2>1, <2>5, <2>7
    <2>. QED
        BY <1>1, <1>9, <2>3, <2>6, <2>7, WriteHistoryDoes
<1>10. ASSUME \A p \in Orders \ {c.o} : order'[p] = order[p], order'[c.o].status \notin Serving,
              UNCHANGED <<timeline, accepted>>
       PROVE  AllKept'
    BY <1>4, <1>10 DEF AllKept, Kept, Status, StaysTaken
<1>11. CASE Refund(h) \/ RestorePayment(h)
    <2>1. /\ c.at \in {"restorePayment", "refund"} /\ UNCHANGED <<timeline, accepted>>
          /\ \A p \in Orders \ {c.o} : order'[p] = order[p]
          /\ order'[c.o].status = order[c.o].status /\ order[c.o].status \in Ended
        BY <1>1, <1>4, <1>11, PaymentDoes DEF Refund, RestorePayment, Going, Status
    <2>2. d = Idle \/ (d.at = "writeRestored" /\ d.o = c.o)
        <3>1. CASE Done(h)
            BY <1>1, <3>1, GoesTo DEF Done
        <3>2. CASE Becomes(h, "writeRestored")
            <4>1. d = [at |-> "writeRestored", o |-> c.o, to |-> c.to,
                       then |-> c.then, kept |-> c.kept]
                BY <1>1, <1>2, <3>2, MovesTo
            <4>. QED
                BY <4>1
        <3>. QED
            BY <1>11, <3>1, <3>2 DEF Refund, RestorePayment
    <2>3. AllKept'
        BY <1>10, <2>1, NotServing
    <2>4. Told(d)'
        BY <1>4, <1>6, <2>1, <2>2 DEF Told, Status
    <2>5. Going(d)'
        BY <1>6, <2>1, <2>2 DEF Going, Status
    <2>. QED
        BY <1>5, <1>6, <2>2, <2>3, <2>4, <2>5 DEF Counting
<1>12. CASE WriteRestored(h) \/ Move(h)
    <2>0. d = [at |-> "history", o |-> c.o, to |-> "placed", then |-> "end", kept |-> None]
        BY <1>1, <1>12, WriteRestoredDoes, MoveDoes
    <2>5. d.at = "history" /\ d.o = c.o /\ d.to = "placed" /\ d.then = "end" /\ d.kept = None
        BY <2>0
    <2>1. /\ c.at \in {"writeRestored", "move"} /\ UNCHANGED <<timeline, accepted>>
          /\ \A p \in Orders \ {c.o} : order'[p] = order[p]
          /\ order'[c.o].status = "placed"
        BY <1>1, <1>12, WriteRestoredDoes, MoveDoes DEF WriteRestored, Move
    <2>2. AllKept'
        BY <1>10, <2>1, NotServing
    <2>3. Told(d)'
        BY <1>4, <2>1, <2>5 DEF Told, Status
    <2>4. Going(d)'
        BY <2>1, <2>5, NotServing DEF Going, Status
    <2>. QED
        BY <1>5, <2>2, <2>3, <2>4, <2>5 DEF Counting
<1>13. CASE RevokeOffer(h)
    <2>1. c.at = "revoke" /\ UNCHANGED <<order, timeline, accepted>> /\ d.at \in {"idle", "move"}
        BY <1>1, <1>6, <1>13, RevokeDoes DEF RevokeOffer
    <2>. QED
        BY <1>4, <1>5, <2>1, OrderStays DEF Counting
<1>. QED
    BY <1>7, <1>8, <1>9, <1>11, <1>12, <1>13

LEMMA ReadRatingsDoes ==
    ASSUME TypeOK, NEW h \in Slots, ReadRatings(h)
    PROVE  /\ call'[h].at = "writeAverage" /\ call'[h].kept = call[h].kept
           /\ call'[h].to = Mean(call[h].kept)
<1>. DEFINE c == call[h]
<1>1. Handler(c)
    BY Working DEF ReadRatings, At
<1>2. PICK avg : avg = Average(RatingsOf(c.kept))
    OBVIOUS
<1>3. Goto(h, [c EXCEPT !.at = "writeAverage", !.to = avg])
    BY <1>2 DEF ReadRatings
<1>4. [c EXCEPT !.at = "writeAverage", !.to = avg]
        = [at |-> "writeAverage", o |-> c.o, to |-> avg, then |-> c.then, kept |-> c.kept]
    BY <1>1, ToIsChanged
<1>5. call'[h] = [at |-> "writeAverage", o |-> c.o, to |-> avg, then |-> c.then, kept |-> c.kept]
    BY <1>3, <1>4, GoesTo
<1>. QED
    BY <1>2, <1>5 DEF Mean

(* A rating, and the average that counts it. *)
LEMMA RatingWorks ==
    ASSUME FoodInv, alone, WorksInv, OneAtWork', StaysTaken, NEW h \in Slots,
           InsertRating(h) \/ ReadRatings(h) \/ WriteAverage(h)
    PROVE  WorksInv'
<1>. PICK c : c = call[h]
    OBVIOUS
<1>. PICK d : d = call'[h]
    OBVIOUS
<1>1. /\ TypeOK /\ Goto(h, d) /\ UNCHANGED <<order, timeline, accepted>>
      /\ c.at \in {"insertRating", "readRatings", "writeAverage"}
      /\ Handler(c) /\ c.kept \in Restaurants
    BY RatingStep DEF FoodInv, InsertRating, ReadRatings, WriteAverage
<1>2. Works(c) /\ \A g \in Slots \ {h} : call'[g] = Idle
    BY <1>1, WorkerWas
<1>3. AllKept /\ Told(c) /\ Going(c) /\ Counted(c)
    BY <1>2 DEF Works
<1>4. ASSUME Counted(d)', d.at \in {"idle", "readRatings", "writeAverage"} PROVE WorksInv'
    BY <1>1, <1>2, <1>3, <1>4, OrderStays, WorksNext
<1>5. CASE InsertRating(h) /\ RowAllowed(c.o)
    <2>1. PICK n \in Stars :
              ratings' = ratings \cup {[order |-> c.o, rest |-> c.kept, stars |-> n]}
        BY <1>5 DEF InsertRating
    <2>2. c.at = "insertRating" /\ UNCHANGED average
        BY <1>5 DEF InsertRating, At
    <2>3. d.at = "readRatings" /\ d.kept = c.kept
        <3>1. d = [at |-> "readRatings", o |-> c.o, to |-> c.to, then |-> c.then, kept |-> c.kept]
            BY <1>1, <1>5, MovesTo DEF InsertRating
        <3>. QED
            BY <3>1
    <2>4. \A r : r # c.kept => Mean(r)' = Mean(r)
        BY <2>1, MeanSame
    <2>5. Counted(d)'
        BY <1>3, <2>2, <2>3, <2>4 DEF Counted, Counting
    <2>. QED
        BY <1>4, <2>3, <2>5
<1>6. CASE InsertRating(h) /\ ~RowAllowed(c.o)
    <2>1. c.at = "insertRating" /\ d = Idle /\ UNCHANGED <<ratings, average>>
        BY <1>1, <1>6, GoesTo DEF InsertRating, Done, At
    <2>2. d.at = "idle"
        BY <2>1 DEF Idle
    <2>3. Counted(d)'
        BY <1>3, <2>1, <2>2, CountedStays DEF Counting
    <2>. QED
        BY <1>4, <2>2, <2>3
<1>7. CASE ReadRatings(h)
    <2>1. c.at = "readRatings" /\ UNCHANGED <<ratings, average>>
        BY <1>7 DEF ReadRatings, At
    <2>5. d.at = "writeAverage" /\ d.kept = c.kept /\ d.to = Mean(c.kept)
        BY <1>1, <1>7, ReadRatingsDoes
    <2>6. \A r : Mean(r)' = Mean(r)
        BY <2>1, MeanSame
    <2>7. Counted(d)'
        BY <1>3, <2>1, <2>5, <2>6 DEF Counted, Counting
    <2>. QED
        BY <1>4, <2>5, <2>7
<1>8. CASE WriteAverage(h)
    <2>1. /\ c.at = "writeAverage" /\ d = Idle /\ UNCHANGED ratings
          /\ average' = [average EXCEPT ![c.kept] = c.to]
        BY <1>1, <1>8, GoesTo DEF WriteAverage, Done, At
    <2>2. d.at = "idle"
        BY <2>1 DEF Idle
    <2>3. \A r : Mean(r)' = Mean(r)
        BY <2>1, MeanSame
    <2>4. average'[c.kept] = c.to /\ \A r \in Restaurants \ {c.kept} : average'[r] = average[r]
        BY <1>1, <2>1 DEF TypeOK
    <2>5. Counted(d)'
        BY <1>3, <2>1, <2>2, <2>3, <2>4 DEF Counted, Counting
    <2>. QED
        BY <1>4, <2>2, <2>5
<1>. QED
    BY <1>5, <1>6, <1>7, <1>8

LEMMA OutsideWorks ==
    ASSUME TypeOK, Quiet, alone, WorksInv, StaysTaken, NEW o \in Orders, Outside(o)
    PROVE  WorksInv'
<1>1. /\ \A p \in Orders \ {o} : order'[p] = order[p] /\ timeline'[p] = timeline[p]
      /\ order'[o].rest = order[o].rest
      /\ order'[o].status \in Serving =>
             order[o].status \in Serving \/ order'[o].status = "delivery_assigned"
      /\ order[o].pay \in Satisfied => order'[o].pay \in Satisfied
      /\ timeline[o] = order[o].status => timeline'[o] = order'[o].status
      /\ UNCHANGED <<accepted, ratings, average, call>>
    BY OutsideDoes
<1>2. AllKept /\ Told(Idle) /\ Going(Idle) /\ Counted(Idle)
    BY DEF WorksInv, Works
<1>3. AllKept'
    BY <1>1, <1>2 DEF AllKept, Kept, Status, StaysTaken, JustTaken
<1>4. Told(Idle)'
    BY <1>1, <1>2, IdleIsIdle DEF Told, Status
<1>5. Going(Idle)'
    BY IdleIsIdle DEF Going
<1>6. Counted(Idle)'
    BY <1>1, <1>2, CountedStays, IdleIsIdle DEF Counting
<1>7. Quiet' /\ OneAtWork'
    BY <1>1 DEF Quiet, OneAtWork
<1>. QED
    BY <1>3, <1>4, <1>5, <1>6, <1>7 DEF WorksInv, Works, Quiet

LEMMA WorksInit == MCInit => WorksInv
<1>. SUFFICES ASSUME MCInit PROVE WorksInv
    OBVIOUS
<1>1. \A h \in Slots : call[h] = Idle
    BY DEF MCInit, Init
<1>2. PICK first \in Restaurants :
          order = [o \in Orders |->
                    [status |-> FirstStatus[o], rest |-> first,
                     pay |-> IF FirstStatus[o] = "placed" THEN "pending" ELSE "paid",
                     rider |-> FirstStatus[o] = "delivered"]]
    BY DEF MCInit, Init
<1>3. /\ timeline = FirstStatus /\ ratings = {} /\ average = [r \in Restaurants |-> 0]
      /\ accepted = [o \in Orders |-> IF FirstStatus[o] = "placed" THEN None ELSE order[o].rest]
    BY DEF MCInit, Init
<1>4. AllKept
    BY <1>2, <1>3, FoodOrderAssumption, NotServing DEF AllKept, Kept, Status, Satisfied
<1>5. Told(Idle)
    BY <1>2, <1>3 DEF Told, Status
<1>6. Counted(Idle)
    <2>1. \A r : RatingsOf(r) = {}
        BY <1>3 DEF RatingsOf
    <2>2. Average({}) = 0
        BY DEF Average
    <2>. QED
        BY <1>3, <2>1, <2>2, IdleIsIdle DEF Counted, Mean
<1>7. Going(Idle)
    BY IdleIsIdle DEF Going
<1>. QED
    BY <1>1, <1>4, <1>5, <1>6, <1>7 DEF WorksInv, Works, OneAtWork

LEMMA WorksStep == FoodInv /\ WorksInv /\ [MCNext]_<<vars, history>> => WorksInv'
<1>. SUFFICES ASSUME FoodInv, WorksInv, [MCNext]_<<vars, history>> PROVE WorksInv'
    OBVIOUS
<1>1. CASE UNCHANGED <<vars, history>>
    <2>1. \A r : Mean(r)' = Mean(r)
        BY <1>1, MeanSame DEF vars
    <2>. QED
        BY <1>1, <2>1 DEF vars, history, WorksInv, OneAtWork, Quiet, Works, AllKept, Kept, Status, Told,
                          Going, Counted
<1>2. CASE MCNext /\ alone'
    <2>1. alone /\ OneAtWork' /\ (Quiet \/ call' # call) /\ TypeOK /\ Next
        BY <1>2 DEF MCNext, FoodInv
    <2>5. StaysTaken
        BY <1>2 DEF MCNext, StaysTaken
    <2>2. ASSUME NEW h \in Slots, Steps(h) PROVE WorksInv'
        BY <2>1, <2>2, <2>5, OrderWorks, RatingWorks DEF Steps
    <2>3. ASSUME NEW h \in Slots, NEW o \in Orders, Calls(h, o) PROVE WorksInv'
        BY <2>1, <2>3, <2>5, CallWorks
    <2>4. ASSUME NEW o \in Orders, Outside(o) PROVE WorksInv'
        <3>1. Quiet
            BY <2>1, <2>4, OutsideDoes
        <3>. QED
            BY <2>1, <2>4, <2>5, <3>1, OutsideWorks
    <2>. QED
        BY <2>1, <2>2, <2>3, <2>4 DEF Next, Outside
<1>3. CASE ~alone'
    BY <1>3 DEF WorksInv
<1>. QED
    BY <1>1, <1>2, <1>3

LEMMA HistoryOnlyWatches == MCSpec => Spec
<1>1. MCInit => Init
    BY DEF MCInit
<1>2. [MCNext]_<<vars, history>> => [Next]_vars
    BY DEF MCNext, vars
<1>. QED
    BY <1>1, <1>2, PTL DEF MCSpec, Spec

LEMMA WorksInvariant == MCSpec => [](FoodInv /\ WorksInv)
<1>1. MCSpec => []FoodInv
    BY HistoryOnlyWatches, FoodInvariant, PTL
<1>. QED
    BY <1>1, WorksInit, WorksStep, PTL DEF MCSpec

(* With no handler in progress every timeline agrees, and every average.   *)
LEMMA AloneServes ==
    ASSUME TypeOK, WorksInv, alone
    PROVE  /\ AllKept /\ TimelineAgrees /\ AverageOfAll
<1>1. AllKept
    BY DEF WorksInv, Works, Quiet
<1>2. ASSUME Quiet PROVE Told(Idle) /\ Counted(Idle)
    BY <1>2 DEF WorksInv, Works
<1>3. TimelineAgrees
    BY <1>2, IdleIsIdle DEF TimelineAgrees, Quiet, Told
<1>4. AverageOfAll
    BY <1>2, IdleIsIdle DEF AverageOfAll, Quiet, Counted, Counting, Mean
<1>. QED
    BY <1>1, <1>3, <1>4

(* One handler at a time, whatever it is that the restaurant, the customer *)
(* the admin and the rider do, in any number of calls: an order that is    *)
(* served is paid and was accepted for the restaurant it is with, unless a *)
(* rider took it, on an offer still open, after it was cancelled or moved; *)
(* between calls the timeline ends with its status.                        *)
THEOREM ServedProperly == MCSpec => []ServedProperlyAlone
<1>1. FoodInv /\ WorksInv => ServedProperlyAlone
    BY AloneServes DEF FoodInv, ServedProperlyAlone, AllKept, Kept, ServedByRight, PaymentSatisfied
<1>. QED
    BY <1>1, WorksInvariant, PTL

(* An order is rated once, whatever overlaps; one handler at a time, the   *)
(* average of a restaurant is that of all its ratings.                     *)
THEOREM RatingsAreCounted == MCSpec => []RatingsCount
<1>1. FoodInv /\ WorksInv => RatingsCount
    BY AloneServes DEF FoodInv, RatingsCount
<1>. QED
    BY <1>1, WorksInvariant, PTL

(* Rows keep their types in every interleaving, and a handler in progress  *)
(* carries what its next queries need.                                     *)
THEOREM TypeCorrect == Spec => [](TypeOK /\ offered \subseteq Orders)
<1>1. FoodInv => TypeOK
    BY DEF FoodInv
<1>. QED
    BY <1>1, FoodInvariant, OffersInvariant, PTL

-----------------------------------------------------------------------------
(* Checkouts.                                                              *)

(* A set of integers that is bounded has a greatest element. *)
LEMMA BoundedHasMax ==
    ASSUME NEW S \in SUBSET Int, S # {}, NEW b \in Int, \A x \in S : x <= b
    PROVE  Max(S) \in S
<1>1. PICK T : T = {n \in Nat : b - n \in S}
    OBVIOUS
<1>2. T \subseteq Nat /\ T # {}
  <2>1. PICK x \in S : TRUE
      OBVIOUS
  <2>2. b - x \in Nat /\ b - (b - x) = x
      BY <2>1
  <2>. QED
      BY <1>1, <2>1, <2>2
<1>3. PICK R : R = OpToRel(<, Nat)
    OBVIOUS
<1>4. IsWellFoundedOn(R, Nat)
    BY <1>3, NatLessThanWellFounded
<1>5. PICK n \in T : \A m \in T : ~ (<<m, n>> \in R)
    BY <1>2, <1>4, WFMin
<1>6. \A m \in T : ~ (m < n)
    BY <1>2, <1>3, <1>5 DEF OpToRel
<1>7. b - n \in S
    BY <1>1, <1>5
<1>8. \A y \in S : b - n >= y
  <2>1. TAKE y \in S
  <2>2. b - y \in Nat /\ b - (b - y) = y
      OBVIOUS
  <2>3. b - y \in T
      BY <1>1, <2>2
  <2>4. n \in Nat /\ ~ (b - y < n)
      BY <1>2, <1>5, <1>6, <2>3
  <2>. QED
      BY <2>2, <2>4
<1>9. \E x \in S : \A y \in S : x >= y
    BY <1>7, <1>8
<1>. QED
    BY <1>9 DEF Max

-----------------------------------------------------------------------------
(* The rows and the runs keep their shapes.                                *)

IsOrder(r) ==
    r = [cust |-> r.cust, kind |-> r.kind, vendor |-> r.vendor, key |-> r.key,
         code |-> r.code, disc |-> r.disc, free |-> r.free, total |-> r.total,
         status |-> r.status, pay |-> r.pay, items |-> r.items]

AreOrders(s) ==
    /\ Len(s) \in Nat
    /\ s = [o \in 1 .. Len(s) |-> s[o]]
    /\ \A o \in 1 .. Len(s) : IsOrder(s[o])

Priced(at, c, cart, key, code, disc, subtotal, min, free, fee, untried, off) ==
    [at |-> at, c |-> c, cart |-> cart, key |-> key, code |-> code, disc |-> disc,
     subtotal |-> subtotal, min |-> min, free |-> free, fee |-> fee, untried |-> untried,
     off |-> off]

IsPriced(r) ==
    /\ r.at \in {"price", "terms", "voucher", "evaluate"}
    /\ r = Priced(r.at, r.c, r.cart, r.key, r.code, r.disc, r.subtotal, r.min, r.free,
                  r.fee, r.untried, r.off)
    /\ r.untried \subseteq Codes

IsRun(r) ==
    \/ r = NoRun
    \/ IsPriced(r)
    \/ /\ r.at = "insert" /\ r = [at |-> "insert", row |-> r.row]
       /\ IsOrder(r.row) /\ r.row.status = "placed"
    \/ r.at \in {"items", "redeem"} /\ r = [at |-> r.at, order |-> r.order]

CheckoutInv ==
    /\ AreOrders(orders)
    /\ run = [h \in Runs |-> run[h]]
    /\ \A h \in Runs : IsRun(run[h])
    /\ OneOrderPerKey

(* No order is added, and of those there are the customer, the key, the    *)
(* voucher and the free delivery stay. *)
OrdersStay ==
    /\ AreOrders(orders') /\ Len(orders') = Len(orders)
    /\ \A o \in 1 .. Len(orders) :
         /\ orders'[o].cust = orders[o].cust /\ orders'[o].kind = orders[o].kind
         /\ orders'[o].key = orders[o].key /\ orders'[o].code = orders[o].code
         /\ orders'[o].free = orders[o].free

(* What a run is about to use up: the voucher of the row that it inserts,  *)
(* and a free delivery from when it was offered one.                       *)
TakesCode(r, x) == r.at = "insert" /\ r.row.code = x
TakesFree(r, c) ==
    \/ r.at = "insert" /\ r.row.cust = c /\ r.row.free
    \/ r.at \in {"voucher", "evaluate"} /\ r.c = c /\ r.free

NoMore(r, s) ==
    /\ \A x \in Codes : TakesCode(s, x) => TakesCode(r, x) /\ s.row.cust = r.row.cust
    /\ \A c : TakesFree(s, c) => TakesFree(r, c)

OneRunOn(h, s) == run' = [run EXCEPT ![h] = s] /\ IsRun(s)

(* The steps that matter to the limits: a voucher was found valid, a free  *)
(* delivery was offered, a row is inserted.                                *)
ClaimsCode(h, x, s) ==
    /\ OneRunOn(h, s) /\ orders' = orders
    /\ x \in Codes /\ run[h].at = "evaluate"
    /\ s.at = "insert" /\ s.row.code = x
    /\ WithinLimits(voucher[x], x, s.row.cust)
    /\ \A c : TakesFree(s, c) => TakesFree(run[h], c)

ClaimsFree(h, c, s) ==
    /\ OneRunOn(h, s) /\ orders' = orders
    /\ run[h].at = "terms"
    /\ \A x \in Codes : ~TakesCode(s, x)
    /\ \A d : TakesFree(s, d) => d = c
    /\ TakesFree(s, c) => Remaining(c) > 0

Inserts(h) ==
    /\ run[h].at = "insert"
    /\ orders' = Append(orders, run[h].row)
    /\ IndexAllows(run[h].row.cust, run[h].row.kind, run[h].row.key)
    /\ OneRunOn(h, [at |-> "items", order |-> Len(orders) + 1])

Lets(h) ==
    \/ \E s : OneRunOn(h, s) /\ OrdersStay /\ NoMore(run[h], s)
    \/ \E x, s : ClaimsCode(h, x, s)
    \/ \E c, s : ClaimsFree(h, c, s)
    \/ Inserts(h)

(* A run that ended is a run, and takes nothing.                           *)
LEMMA NoRunIs == IsRun(NoRun) /\ \A r : NoMore(r, NoRun)
BY DEF IsRun, NoRun, NoMore, TakesCode, TakesFree

(* Pricing the cart sets the subtotal of the record and nothing else.      *)
LEMMA PricedCart ==
    ASSUME NEW r, IsPriced(r), NEW at, NEW v
    PROVE  [r EXCEPT !.at = at, !.subtotal = v] =
             Priced(at, r.c, r.cart, r.key, r.code, r.disc, v,
                    r.min, r.free, r.fee, r.untried, r.off)
<1>1. PICK x1, x2, x3, x4, x5, x6, x7, x8, x9, x10, x11, x12 :
        r = Priced(x1, x2, x3, x4, x5, x6, x7, x8, x9, x10, x11, x12)
    BY DEF IsPriced, Priced
<1>2. PICK q : q = [r EXCEPT !.at = at, !.subtotal = v]
    OBVIOUS
<1>3. /\ q.at = at /\ q.c = r.c /\ q.cart = r.cart /\ q.key = r.key
      /\ q.code = r.code /\ q.disc = r.disc /\ q.subtotal = v /\ q.min = r.min
      /\ q.free = r.free /\ q.fee = r.fee /\ q.untried = r.untried /\ q.off = r.off
    BY <1>1, <1>2 DEF Priced
<1>4. q = Priced(q.at, q.c, q.cart, q.key, q.code, q.disc, q.subtotal,
                 q.min, q.free, q.fee, q.untried, q.off)
    BY <1>1, <1>2 DEF Priced
<1>. QED
    BY <1>2, <1>3, <1>4

(* Applying the vendor's discount leaves a priced run.                     *)
LEMMA PricedWithDiscount ==
    ASSUME NEW r, IsPriced(r), NEW at, NEW v
    PROVE  [r EXCEPT !.at = at, !.disc = TRUE, !.subtotal = v] =
             Priced(at, r.c, r.cart, r.key, r.code, TRUE, v,
                    r.min, r.free, r.fee, r.untried, r.off)
<1>1. PICK x1, x2, x3, x4, x5, x6, x7, x8, x9, x10, x11, x12 :
        r = Priced(x1, x2, x3, x4, x5, x6, x7, x8, x9, x10, x11, x12)
    BY DEF IsPriced, Priced
<1>2. PICK q : q = [r EXCEPT !.at = at, !.disc = TRUE, !.subtotal = v]
    OBVIOUS
<1>3. /\ q.at = at /\ q.c = r.c /\ q.cart = r.cart /\ q.key = r.key
      /\ q.code = r.code /\ q.disc = TRUE /\ q.subtotal = v /\ q.min = r.min
      /\ q.free = r.free /\ q.fee = r.fee /\ q.untried = r.untried /\ q.off = r.off
    BY <1>1, <1>2 DEF Priced
<1>4. q = Priced(q.at, q.c, q.cart, q.key, q.code, q.disc, q.subtotal,
                 q.min, q.free, q.fee, q.untried, q.off)
    BY <1>1, <1>2 DEF Priced
<1>. QED
    BY <1>2, <1>3, <1>4

(* Looking for vouchers leaves a priced run.                               *)
LEMMA TriesVouchers ==
    ASSUME NEW r, IsPriced(r), NEW at, NEW u
    PROVE  [r EXCEPT !.at = at, !.untried = u] =
             Priced(at, r.c, r.cart, r.key, r.code, r.disc, r.subtotal,
                    r.min, r.free, r.fee, u, r.off)
<1>1. PICK x1, x2, x3, x4, x5, x6, x7, x8, x9, x10, x11, x12 :
        r = Priced(x1, x2, x3, x4, x5, x6, x7, x8, x9, x10, x11, x12)
    BY DEF IsPriced, Priced
<1>2. PICK q : q = [r EXCEPT !.at = at, !.untried = u]
    OBVIOUS
<1>3. /\ q.at = at /\ q.c = r.c /\ q.cart = r.cart /\ q.key = r.key
      /\ q.code = r.code /\ q.disc = r.disc /\ q.subtotal = r.subtotal /\ q.min = r.min
      /\ q.free = r.free /\ q.fee = r.fee /\ q.untried = u /\ q.off = r.off
    BY <1>1, <1>2 DEF Priced
<1>4. q = Priced(q.at, q.c, q.cart, q.key, q.code, q.disc, q.subtotal,
                 q.min, q.free, q.fee, q.untried, q.off)
    BY <1>1, <1>2 DEF Priced
<1>. QED
    BY <1>2, <1>3, <1>4

(* Using a voucher that was evaluated leaves a priced run.                 *)
LEMMA UsesVoucher ==
    ASSUME NEW r, IsPriced(r), NEW v, NEW m
    PROVE  [r EXCEPT !.code = v, !.off = m] =
             Priced(r.at, r.c, r.cart, r.key, v, r.disc, r.subtotal,
                    r.min, r.free, r.fee, r.untried, m)
<1>1. PICK x1, x2, x3, x4, x5, x6, x7, x8, x9, x10, x11, x12 :
        r = Priced(x1, x2, x3, x4, x5, x6, x7, x8, x9, x10, x11, x12)
    BY DEF IsPriced, Priced
<1>2. PICK q : q = [r EXCEPT !.code = v, !.off = m]
    OBVIOUS
<1>3. /\ q.at = r.at /\ q.c = r.c /\ q.cart = r.cart /\ q.key = r.key
      /\ q.code = v /\ q.disc = r.disc /\ q.subtotal = r.subtotal /\ q.min = r.min
      /\ q.free = r.free /\ q.fee = r.fee /\ q.untried = r.untried /\ q.off = m
    BY <1>1, <1>2 DEF Priced
<1>4. q = Priced(q.at, q.c, q.cart, q.key, q.code, q.disc, q.subtotal,
                 q.min, q.free, q.fee, q.untried, q.off)
    BY <1>1, <1>2 DEF Priced
<1>. QED
    BY <1>2, <1>3, <1>4

(* Passing over a voucher leaves a priced run.                             *)
LEMMA TriesOthers ==
    ASSUME NEW r, IsPriced(r), NEW u
    PROVE  [r EXCEPT !.untried = u] =
             Priced(r.at, r.c, r.cart, r.key, r.code, r.disc, r.subtotal,
                    r.min, r.free, r.fee, u, r.off)
<1>1. PICK x1, x2, x3, x4, x5, x6, x7, x8, x9, x10, x11, x12 :
        r = Priced(x1, x2, x3, x4, x5, x6, x7, x8, x9, x10, x11, x12)
    BY DEF IsPriced, Priced
<1>2. PICK q : q = [r EXCEPT !.untried = u]
    OBVIOUS
<1>3. /\ q.at = r.at /\ q.c = r.c /\ q.cart = r.cart /\ q.key = r.key
      /\ q.code = r.code /\ q.disc = r.disc /\ q.subtotal = r.subtotal /\ q.min = r.min
      /\ q.free = r.free /\ q.fee = r.fee /\ q.untried = u /\ q.off = r.off
    BY <1>1, <1>2 DEF Priced
<1>4. q = Priced(q.at, q.c, q.cart, q.key, q.code, q.disc, q.subtotal,
                 q.min, q.free, q.fee, q.untried, q.off)
    BY <1>1, <1>2 DEF Priced
<1>. QED
    BY <1>2, <1>3, <1>4

(* What a priced run inserts is an order, and with no more than it had.    *)
LEMMA OrderingIs ==
    ASSUME NEW r
    PROVE  /\ IsRun(Ordering(r))
           /\ \A x : TakesCode(Ordering(r), x) => r.code = x /\ Ordering(r).row.cust = r.c
           /\ \A c : TakesFree(Ordering(r), c) => r.c = c /\ r.free
           /\ \/ Ordering(r) = NoRun
              \/ /\ Ordering(r).at = "insert" /\ Ordering(r).row.code = r.code
                 /\ Ordering(r).row.cust = r.c
<1>1. PICK w : w = OrderRow(r)
    OBVIOUS
<1>2. /\ w.cust = r.c /\ w.code = r.code /\ w.free = r.free /\ w.status = "placed"
      /\ IsOrder(w)
    BY <1>1 DEF OrderRow, IsOrder
<1>3. CASE r.subtotal < r.min
  <2>1. Ordering(r) = NoRun
      BY <1>3 DEF Ordering
  <2>. QED
      BY <2>1, NoRunIs DEF NoRun, TakesCode, TakesFree
<1>4. CASE ~ (r.subtotal < r.min)
  <2>1. Ordering(r) = [at |-> "insert", row |-> w]
      BY <1>1, <1>4 DEF Ordering
  <2>2. Ordering(r).at = "insert" /\ Ordering(r).row = w
      BY <2>1
  <2>. QED
      BY <1>2, <2>1, <2>2 DEF IsRun, TakesCode, TakesFree
<1>. QED
    BY <1>3, <1>4

-----------------------------------------------------------------------------
(* What each step of a run does, to the orders and to what the run takes.  *)

(* Orders that stay the same stay.                                         *)
LEMMA SameOrders ==
    ASSUME AreOrders(orders), orders' = orders
    PROVE  OrdersStay
BY DEF OrdersStay, AreOrders

(* A run that goes on does so alone.                                       *)
LEMMA MovesOn ==
    ASSUME CheckoutInv, NEW h \in Runs, NEW s, RunGoes(h, s), orders' = orders,
           IsRun(s), NoMore(run[h], s)
    PROVE  Lets(h)
BY SameOrders DEF CheckoutInv, Lets, OneRunOn, RunGoes

(* A run that ends takes nothing any more.                                 *)
LEMMA ItEnds ==
    ASSUME CheckoutInv, NEW h \in Runs, RunEnds(h), orders' = orders
    PROVE  Lets(h)
<1>1. RunGoes(h, NoRun)
    BY DEF RunEnds
<1>2. IsRun(NoRun) /\ NoMore(run[h], NoRun)
    BY NoRunIs
<1>. QED
    BY <1>1, <1>2, MovesOn

(* A record of the shape is a run, and is priced.                          *)
LEMMA PricedRuns ==
    ASSUME NEW at, NEW c, NEW cart, NEW key, NEW code, NEW disc, NEW subtotal, NEW min, NEW free,
           NEW fee, NEW untried, NEW off,
           at \in {"price", "terms", "voucher", "evaluate"}, untried \subseteq Codes
    PROVE  /\ IsRun(Priced(at, c, cart, key, code, disc, subtotal, min, free, fee, untried, off))
           /\ IsPriced(Priced(at, c, cart, key, code, disc, subtotal, min, free, fee, untried, off))
           /\ Priced(at, c, cart, key, code, disc, subtotal, min, free, fee, untried, off).at = at
           /\ Priced(at, c, cart, key, code, disc, subtotal, min, free, fee, untried, off).c = c
           /\ Priced(at, c, cart, key, code, disc, subtotal, min, free, fee, untried, off).code = code
           /\ Priced(at, c, cart, key, code, disc, subtotal, min, free, fee, untried, off).free = free
BY DEF IsRun, IsPriced, Priced

(* A run before the insert is priced.                                      *)
LEMMA IsPricedAt ==
    ASSUME NEW r, IsRun(r), r.at \in {"price", "terms", "voucher", "evaluate"}
    PROVE  IsPriced(r)
BY DEF IsRun, NoRun

(* The call that starts a checkout takes nothing yet.                      *)
LEMMA CheckoutLets ==
    ASSUME CheckoutInv, NEW h \in Runs, NEW c, NEW cart, NEW key, NEW code,
           Checkout(h, c, cart, key, code)
    PROVE  Lets(h)
<1>1. PICK s : s = Priced("price", c, cart, key, code, FALSE, 0, 0, FALSE, 0, {}, 0)
    OBVIOUS
<1>2. RunGoes(h, s) /\ orders' = orders
    BY <1>1 DEF Checkout, Priced
<1>3. IsRun(s) /\ s.at = "price"
  <2>1. PICK at : at = "price"
      OBVIOUS
  <2>2. IsRun(s) /\ s.at = at
      BY <1>1, <2>1 DEF IsRun, IsPriced, Priced
  <2>. QED
      BY <2>1, <2>2
<1>4. NoMore(run[h], s)
    BY <1>3 DEF NoMore, TakesCode, TakesFree
<1>. QED
    BY <1>2, <1>3, <1>4, MovesOn

(* Pricing the cart takes nothing.                                         *)
LEMMA PriceCartLets ==
    ASSUME CheckoutInv, NEW h \in Runs, PriceCart(h)
    PROVE  Lets(h)
<1>1. PICK r : r = run[h]
    OBVIOUS
<1>2. IsPriced(r)
    BY <1>1, IsPricedAt DEF CheckoutInv, PriceCart, RunAt
<1>3. PICK s : /\ RunGoes(h, s)
               /\ \/ \E v : s = [r EXCEPT !.at = "terms", !.subtotal = v]
                  \/ \E v : s = [r EXCEPT !.at = "terms", !.disc = TRUE, !.subtotal = v]
  <2>1. CASE RunGoes(h, [r EXCEPT !.at = "terms", !.subtotal = r.cart.price])
      BY <2>1
  <2>2. CASE \E d \in Applicable(ActiveDiscounts(r.c), r.cart.price) :
                RunGoes(h, [r EXCEPT !.at = "terms", !.disc = TRUE,
                                     !.subtotal = DiscountedPrice(d, r.cart.price)])
      BY <2>2
  <2>. QED
      BY <1>1, <2>1, <2>2 DEF PriceCart
<1>4. orders' = orders
    BY DEF PriceCart
<1>5. PICK at : at = "terms"
    OBVIOUS
<1>6. IsRun(s) /\ s.at = "terms"
  <2>1. PICK v, d : s = Priced(at, r.c, r.cart, r.key, r.code, d, v, r.min, r.free,
                               r.fee, r.untried, r.off)
    <3>1. CASE \E v : s = [r EXCEPT !.at = "terms", !.subtotal = v]
      <4>1. PICK v : s = [r EXCEPT !.at = at, !.subtotal = v]
          BY <1>5, <3>1
      <4>2. s = Priced(at, r.c, r.cart, r.key, r.code, r.disc, v, r.min, r.free,
                       r.fee, r.untried, r.off)
          BY <1>2, <4>1, PricedCart
      <4>. QED
          BY <4>2
    <3>2. CASE \E v : s = [r EXCEPT !.at = "terms", !.disc = TRUE, !.subtotal = v]
      <4>1. PICK v : s = [r EXCEPT !.at = at, !.disc = TRUE, !.subtotal = v]
          BY <1>5, <3>2
      <4>2. s = Priced(at, r.c, r.cart, r.key, r.code, TRUE, v, r.min, r.free,
                       r.fee, r.untried, r.off)
          BY <1>2, <4>1, PricedWithDiscount
      <4>. QED
          BY <4>2
    <3>. QED
        BY <1>3, <3>1, <3>2
  <2>2. r.untried \subseteq Codes
      BY <1>2 DEF IsPriced
  <2>. QED
      BY <1>5, <2>1, <2>2 DEF IsRun, IsPriced, Priced
<1>7. NoMore(run[h], s)
    BY <1>6 DEF NoMore, TakesCode, TakesFree
<1>. QED
    BY <1>3, <1>4, <1>6, <1>7, MovesOn

(* Reading the delivery terms may take a free delivery that remains.       *)
LEMMA ReadTermsLets ==
    ASSUME CheckoutInv, NEW h \in Runs, ReadTerms(h)
    PROVE  Lets(h)
<1>1. PICK r : r = run[h]
    OBVIOUS
<1>2. IsPriced(r) /\ r.at = "terms"
    BY <1>1, IsPricedAt DEF CheckoutInv, ReadTerms, RunAt
<1>3. PICK m, f, e, at, u, next :
        /\ u = {r.code} \cap Codes
        /\ f = OfferedFree(r.c, r.cart.km)
        /\ at = IF r.code = "auto" THEN "voucher" ELSE "evaluate"
        /\ next = [r EXCEPT !.at = at, !.untried = u, !.min = m, !.free = f, !.fee = e]
        /\ RunGoes(h, IF r.code = "none" THEN Ordering(next) ELSE next)
    BY <1>1, Zenon DEF ReadTerms
<1>4. next = Priced(at, r.c, r.cart, r.key, r.code, r.disc, r.subtotal, m, f, e,
                    u, r.off)
  <2>1. next = [r EXCEPT !.at = at, !.untried = u, !.min = m, !.free = f, !.fee = e]
      BY <1>3
  <2>. QED
    <3>1. PICK x1, x2, x3, x4, x5, x6, x7, x8, x9, x10, x11, x12 :
            r = Priced(x1, x2, x3, x4, x5, x6, x7, x8, x9, x10, x11, x12)
        BY <1>2 DEF IsPriced, Priced
    <3>2. /\ next.at = at /\ next.c = r.c /\ next.cart = r.cart /\ next.key = r.key
          /\ next.code = r.code /\ next.disc = r.disc /\ next.subtotal = r.subtotal
          /\ next.min = m /\ next.free = f /\ next.fee = e /\ next.untried = u
          /\ next.off = r.off
        BY <2>1, <3>1 DEF Priced
    <3>3. next = Priced(next.at, next.c, next.cart, next.key, next.code, next.disc,
                        next.subtotal, next.min, next.free, next.fee, next.untried, next.off)
        BY <2>1, <3>1 DEF Priced
    <3>. QED
        BY <3>2, <3>3
<1>40. at \in {"voucher", "evaluate"} /\ u \subseteq Codes
    BY <1>3
<1>5. /\ IsPriced(next) /\ next.at \in {"voucher", "evaluate"}
      /\ next.c = r.c /\ next.code = r.code /\ next.free = f
    BY <1>4, <1>40 DEF IsPriced, Priced
<1>6. PICK s : s = IF r.code = "none" THEN Ordering(next) ELSE next
    OBVIOUS
<1>7. IsRun(s)
    BY <1>5, <1>6, OrderingIs DEF IsRun
<1>8. \A x \in Codes : ~TakesCode(s, x)
  <2>1. CASE r.code = "none"
    <3>1. \A x : TakesCode(s, x) => next.code = x
        BY <1>6, <2>1, OrderingIs
    <3>. QED
        BY <1>5, <2>1, <3>1, CheckoutAssumption
  <2>2. CASE r.code # "none"
      BY <1>5, <1>6, <2>2 DEF TakesCode
  <2>. QED
      BY <2>1, <2>2
<1>9. \A d : TakesFree(s, d) => d = r.c /\ f
  <2>1. CASE r.code = "none"
      BY <1>5, <1>6, <2>1, OrderingIs
  <2>2. CASE r.code # "none"
      BY <1>5, <1>6, <2>2 DEF TakesFree
  <2>. QED
      BY <2>1, <2>2
<1>10. f => Remaining(r.c) > 0
    BY <1>3 DEF OfferedFree
<1>11. OneRunOn(h, s) /\ orders' = orders
    BY <1>3, <1>6, <1>7 DEF OneRunOn, RunGoes, ReadTerms
<1>12. ClaimsFree(h, r.c, s)
    BY <1>1, <1>2, <1>8, <1>9, <1>10, <1>11 DEF ClaimsFree
<1>. QED
    BY <1>12 DEF Lets

(* Looking up the vouchers that apply by themselves takes none.            *)
LEMMA FindAutoApplyLets ==
    ASSUME CheckoutInv, NEW h \in Runs, FindAutoApply(h)
    PROVE  Lets(h)
<1>1. PICK r : r = run[h]
    OBVIOUS
<1>2. IsPriced(r) /\ r.at = "voucher"
    BY <1>1, IsPricedAt DEF CheckoutInv, FindAutoApply, RunAt
<1>3. orders' = orders
    BY DEF FindAutoApply
<1>4. CASE RunGoes(h, Ordering([r EXCEPT !.code = "none"]))
  <2>1. PICK q : q = [r EXCEPT !.code = "none"]
      OBVIOUS
  <2>2. q = [r EXCEPT !.code = "none"] /\ q.code = "none" /\ q.c = r.c /\ q.free = r.free
      BY <1>2, <2>1 DEF IsPriced, Priced
  <2>3. PICK s : s = Ordering(q)
      OBVIOUS
  <2>4. IsRun(s)
      BY <2>3, OrderingIs
  <2>5. NoMore(r, s)
    <3>1. \A x : TakesCode(s, x) => q.code = x
        BY <2>3, OrderingIs
    <3>2. \A x \in Codes : ~TakesCode(s, x)
        BY <2>2, <3>1, CheckoutAssumption
    <3>3. \A c : TakesFree(s, c) => q.c = c /\ q.free
        BY <2>3, OrderingIs
    <3>4. \A c : TakesFree(s, c) => TakesFree(r, c)
        BY <1>2, <2>2, <3>3 DEF TakesFree
    <3>. QED
        BY <3>2, <3>4 DEF NoMore
  <2>. QED
      BY <1>1, <1>3, <1>4, <2>1, <2>3, <2>4, <2>5, MovesOn
<1>5. CASE RunGoes(h, [r EXCEPT !.at = "evaluate", !.untried = AutoVouchers])
  <2>1. PICK at, s : at = "evaluate" /\ s = [r EXCEPT !.at = at, !.untried = AutoVouchers]
      OBVIOUS
  <2>2. s = Priced(at, r.c, r.cart, r.key, r.code, r.disc, r.subtotal, r.min, r.free,
                   r.fee, AutoVouchers, r.off)
      BY <1>2, <2>1, TriesVouchers
  <2>3. AutoVouchers \subseteq Codes
      BY DEF AutoVouchers
  <2>4. IsPriced(s) /\ s.at = "evaluate" /\ s.c = r.c /\ s.free = r.free
      BY <2>1, <2>2, <2>3 DEF IsPriced, Priced
  <2>5. IsRun(s) /\ NoMore(r, s)
      BY <1>2, <2>4 DEF IsRun, NoMore, TakesCode, TakesFree
  <2>. QED
      BY <1>1, <1>3, <1>5, <2>1, <2>5, MovesOn
<1>. QED
    BY <1>1, <1>4, <1>5, Zenon DEF FindAutoApply

(* Evaluating a voucher takes it only within its limits.                   *)
LEMMA EvaluateLets ==
    ASSUME CheckoutInv, NEW h \in Runs, Evaluate(h)
    PROVE  Lets(h)
<1>1. PICK r : r = run[h]
    OBVIOUS
<1>2. IsPriced(r) /\ r.at = "evaluate"
    BY <1>1, IsPricedAt DEF CheckoutInv, Evaluate, RunAt
<1>3. orders' = orders
    BY DEF Evaluate
<1>4. PICK x \in r.untried :
        \/ Valid(x, r) /\ \E v : RunGoes(h, Ordering([r EXCEPT !.code = x, !.off = v]))
        \/ \E u : u = r.untried \ {x} /\ RunGoes(h, [r EXCEPT !.untried = u])
        \/ RunGoes(h, Ordering([r EXCEPT !.code = "none"]))
        \/ RunEnds(h)
  <2>1. PICK x \in r.untried :
             \/ /\ Valid(x, r)
                /\ RunGoes(h, Ordering([r EXCEPT !.code = x,
                              !.off = VoucherAmount(voucher[x], r.subtotal, r.fee)]))
             \/ /\ ~Valid(x, r) /\ r.code = "auto" /\ r.untried # {x}
                /\ RunGoes(h, [r EXCEPT !.untried = @ \ {x}])
             \/ /\ ~Valid(x, r) /\ r.code = "auto" /\ r.untried = {x}
                /\ RunGoes(h, Ordering([r EXCEPT !.code = "none"]))
             \/ /\ ~Valid(x, r) /\ r.code # "auto"
                /\ RunEnds(h)
      BY <1>1, Zenon DEF Evaluate
  <2>. QED
      BY <2>1, Zenon
<1>5. x \in Codes
    BY <1>2, <1>4 DEF IsPriced
<1>6. CASE Valid(x, r) /\ \E v : RunGoes(h, Ordering([r EXCEPT !.code = x, !.off = v]))
  <2>1. PICK v : RunGoes(h, Ordering([r EXCEPT !.code = x, !.off = v]))
      BY <1>6
  <2>2. PICK q : q = [r EXCEPT !.code = x, !.off = v]
      OBVIOUS
  <2>3. q.code = x /\ q.c = r.c /\ q.free = r.free
    <3>1. q = Priced(r.at, r.c, r.cart, r.key, x, r.disc, r.subtotal, r.min, r.free,
                     r.fee, r.untried, v)
        BY <1>2, <2>2, UsesVoucher
    <3>. QED
        BY <3>1 DEF Priced
  <2>4. PICK s : s = Ordering(q)
      OBVIOUS
  <2>5. IsRun(s) /\ orders' = orders /\ RunGoes(h, s)
      BY <1>3, <2>1, <2>2, <2>4, OrderingIs
  <2>6. CASE s = NoRun
    <3>1. NoMore(run[h], s)
        BY <2>6, NoRunIs
    <3>. QED
        BY <2>5, <3>1, MovesOn
  <2>7. CASE s.at = "insert" /\ s.row.code = x /\ s.row.cust = r.c
    <3>1. WithinLimits(voucher[x], x, s.row.cust)
        BY <1>6, <2>7 DEF Valid
    <3>2. \A c : TakesFree(s, c) => TakesFree(r, c)
        BY <1>2, <2>3, <2>4, OrderingIs DEF TakesFree
    <3>3. ClaimsCode(h, x, s)
        BY <1>1, <1>2, <1>5, <2>5, <2>7, <3>1, <3>2 DEF ClaimsCode, OneRunOn, RunGoes
    <3>. QED
        BY <3>3 DEF Lets
  <2>. QED
      BY <2>3, <2>4, <2>6, <2>7, OrderingIs
<1>7. CASE \E u : u = r.untried \ {x} /\ RunGoes(h, [r EXCEPT !.untried = u])
  <2>1. PICK u : u = r.untried \ {x} /\ RunGoes(h, [r EXCEPT !.untried = u])
      BY <1>7
  <2>2. PICK s : s = [r EXCEPT !.untried = u]
      OBVIOUS
  <2>3. s = Priced(r.at, r.c, r.cart, r.key, r.code, r.disc, r.subtotal, r.min, r.free,
                   r.fee, u, r.off)
      BY <1>2, <2>2, TriesOthers
  <2>4. u \subseteq Codes
      BY <1>2, <2>1 DEF IsPriced
  <2>5. IsPriced(s) /\ s.at = "evaluate" /\ s.c = r.c /\ s.free = r.free
      BY <1>2, <2>3, <2>4 DEF IsPriced, Priced
  <2>6. IsRun(s) /\ NoMore(r, s)
      BY <1>2, <2>5 DEF IsRun, NoMore, TakesCode, TakesFree
  <2>. QED
      BY <1>1, <1>3, <2>1, <2>2, <2>6, MovesOn
<1>8. CASE RunGoes(h, Ordering([r EXCEPT !.code = "none"]))
  <2>1. PICK q : q = [r EXCEPT !.code = "none"]
      OBVIOUS
  <2>2. q.code = "none" /\ q.c = r.c /\ q.free = r.free
      BY <1>2, <2>1 DEF IsPriced, Priced
  <2>3. PICK s : s = Ordering(q)
      OBVIOUS
  <2>4. IsRun(s)
      BY <2>3, OrderingIs
  <2>5. NoMore(r, s)
    <3>1. \A y : TakesCode(s, y) => q.code = y
        BY <2>3, OrderingIs
    <3>2. \A y \in Codes : ~TakesCode(s, y)
        BY <2>2, <3>1, CheckoutAssumption
    <3>3. \A c : TakesFree(s, c) => q.c = c /\ q.free
        BY <2>3, OrderingIs
    <3>4. \A c : TakesFree(s, c) => TakesFree(r, c)
        BY <1>2, <2>2, <3>3 DEF TakesFree
    <3>. QED
        BY <3>2, <3>4 DEF NoMore
  <2>. QED
      BY <1>1, <1>3, <1>8, <2>1, <2>3, <2>4, <2>5, MovesOn
<1>. QED
    BY <1>3, <1>4, <1>6, <1>7, <1>8, ItEnds

(* An order that is rewritten in fields that do not count stays.           *)
LEMMA OneOrderRewritten ==
    ASSUME AreOrders(orders), NEW o, NEW row,
           o \in 1 .. Len(orders) => /\ IsOrder(row)
                                     /\ row.cust = orders[o].cust /\ row.kind = orders[o].kind
                                     /\ row.key = orders[o].key /\ row.code = orders[o].code
                                     /\ row.free = orders[o].free,
           orders' = [orders EXCEPT ![o] = row]
    PROVE  OrdersStay
<1>1. PICK n \in Nat : n = Len(orders)
    BY DEF AreOrders
<1>2. orders = [i \in 1 .. n |-> orders[i]]
    BY <1>1 DEF AreOrders
<1>3. orders' = [i \in 1 .. n |-> orders'[i]] /\ DOMAIN orders' = 1 .. n
    BY <1>2
<1>4. Len(orders') = n
    BY <1>3
<1>5. \A i \in 1 .. n : orders'[i] = IF i = o THEN row ELSE orders[i]
    BY <1>2
<1>6. \A i \in 1 .. n : IsOrder(orders[i])
    BY <1>1 DEF AreOrders
<1>7. \A i \in 1 .. n : IsOrder(orders'[i])
    BY <1>1, <1>5, <1>6
<1>8. AreOrders(orders')
    BY <1>3, <1>4, <1>7 DEF AreOrders
<1>. QED
    BY <1>1, <1>4, <1>5, <1>8 DEF OrdersStay

(* An order with another status, payment or items is an order.             *)
LEMMA FieldRewritten ==
    ASSUME NEW r, IsOrder(r), NEW v
    PROVE  /\ IsOrder([r EXCEPT !.status = v]) /\ IsOrder([r EXCEPT !.pay = v])
           /\ IsOrder([r EXCEPT !.items = v])
<1>1. IsOrder([r EXCEPT !.status = v])
    BY DEF IsOrder
<1>2. IsOrder([r EXCEPT !.pay = v])
    BY DEF IsOrder
<1>3. IsOrder([r EXCEPT !.items = v])
    BY DEF IsOrder
<1>. QED
    BY <1>1, <1>2, <1>3

(* The fields that count stay then.                                        *)
LEMMA FieldStays ==
    ASSUME AreOrders(orders), NEW o, NEW v,
           \/ orders' = [orders EXCEPT ![o].status = v]
           \/ orders' = [orders EXCEPT ![o].pay = v]
           \/ orders' = [orders EXCEPT ![o].items = v]
    PROVE  OrdersStay
<1>1. PICK row : /\ row \in {[orders[o] EXCEPT !.status = v], [orders[o] EXCEPT !.pay = v],
                             [orders[o] EXCEPT !.items = v]}
                 /\ orders' = [orders EXCEPT ![o] = row]
    OBVIOUS
<1>2. ASSUME o \in 1 .. Len(orders)
      PROVE  /\ IsOrder(row)
             /\ row.cust = orders[o].cust /\ row.kind = orders[o].kind
             /\ row.key = orders[o].key /\ row.code = orders[o].code
             /\ row.free = orders[o].free
  <2>1. PICK r : r = orders[o]
      OBVIOUS
  <2>2. IsOrder(r)
      BY <1>2, <2>1 DEF AreOrders
  <2>3. row \in {[r EXCEPT !.status = v], [r EXCEPT !.pay = v], [r EXCEPT !.items = v]}
      BY <1>1, <2>1
  <2>4. IsOrder(row)
    <3>1. /\ IsOrder([r EXCEPT !.status = v]) /\ IsOrder([r EXCEPT !.pay = v])
          /\ IsOrder([r EXCEPT !.items = v])
        BY <2>2, FieldRewritten
    <3>. QED
        BY <2>3, <3>1
  <2>5. /\ row.cust = r.cust /\ row.kind = r.kind /\ row.key = r.key
        /\ row.code = r.code /\ row.free = r.free
      BY <2>2, <2>3 DEF IsOrder
  <2>. QED
      BY <2>1, <2>4, <2>5
<1>. QED
    BY <1>1, <1>2, OneOrderRewritten

(* Inserting the items of an order, or failing to, leaves the rows that    *)
(* count.                                                                  *)
LEMMA InsertItemsLets ==
    ASSUME CheckoutInv, NEW h \in Runs, InsertItems(h)
    PROVE  Lets(h)
<1>1. PICK o, r : o = run[h].order /\ r = run[h]
    OBVIOUS
<1>2. orders' = [orders EXCEPT ![o].items = TRUE] /\ r.at = "items"
    BY <1>1 DEF InsertItems, RunAt
<1>3. OrdersStay
    BY <1>2, FieldStays DEF CheckoutInv
<1>4. PICK s : s = [r EXCEPT !.at = "redeem"]
    OBVIOUS
<1>5. r = [at |-> "items", order |-> r.order]
    BY <1>1, <1>2 DEF CheckoutInv, IsRun, NoRun, IsPriced
<1>6. s = [at |-> "redeem", order |-> r.order]
    BY <1>4, <1>5
<1>7. IsRun(s) /\ s.at = "redeem"
    BY <1>6 DEF IsRun
<1>8. NoMore(run[h], s)
    BY <1>7 DEF NoMore, TakesCode, TakesFree
<1>9. run' = [run EXCEPT ![h] = s]
    BY <1>1, <1>4 DEF InsertItems, RunBecomes, RunGoes
<1>. QED
    BY <1>3, <1>7, <1>8, <1>9 DEF Lets, OneRunOn

(* The insert is let through by the index, or nothing is inserted.         *)
LEMMA InsertOrderLets ==
    ASSUME CheckoutInv, NEW h \in Runs, InsertOrder(h)
    PROVE  Lets(h)
<1>1. PICK s : s = [at |-> "items", order |-> Len(orders) + 1]
    OBVIOUS
<1>2. IsRun(s)
    BY <1>1 DEF IsRun
<1>3. Inserts(h)
    BY <1>1, <1>2 DEF InsertOrder, Inserts, OneRunOn, RunGoes, RunAt
<1>. QED
    BY <1>3 DEF Lets

(* Every step of a customer's run is one that Lets describes.              *)
LEMMA CustomerLets ==
    ASSUME CheckoutInv, NEW h \in Runs, Customer(h)
    PROVE  Lets(h)
<1>1. CASE \E c \in Customers, cart \in Carts, key \in Keys, code \in Typed :
             Checkout(h, c, cart, key, code)
    BY <1>1, CheckoutLets
<1>2. CASE Unavailable(h) \/ AnswerExisting(h) \/ RecordRedemptions(h) \/ Fail(h)
  <2>1. RunEnds(h) /\ orders' = orders
      BY <1>2 DEF Unavailable, AnswerExisting, RecordRedemptions, Fail
  <2>. QED
      BY <2>1, ItEnds
<1>. QED
    BY <1>1, <1>2, PriceCartLets, ReadTermsLets, FindAutoApplyLets, EvaluateLets,
       InsertOrderLets, InsertItemsLets DEF Customer

(* Every step is one that Lets describes, or leaves the runs and the       *)
(* orders.                                                                 *)
LEMMA CheckoutStepIs ==
    ASSUME CheckoutInv, [CheckoutNext]_checkoutVars
    PROVE  \/ \E h \in Runs : Lets(h)
           \/ OrdersStay /\ run' = run
<1>1. CASE \E h \in Runs : Customer(h)
    BY <1>1, CustomerLets
<1>2. CASE \E o \in DOMAIN orders : Pay(o) \/ Cancel(o) \/ RestoreOrder(o)
  <2>1. PICK o, v : \/ orders' = [orders EXCEPT ![o].status = v]
                    \/ orders' = [orders EXCEPT ![o].pay = v]
      BY <1>2 DEF Pay, Cancel, RestoreOrder
  <2>2. OrdersStay
      BY <2>1, FieldStays DEF CheckoutInv
  <2>. QED
      BY <1>2, <2>2 DEF Pay, Cancel, RestoreOrder
<1>3. CASE Admin \/ Tick \/ UNCHANGED checkoutVars
  <2>1. orders' = orders /\ run' = run
      BY <1>3 DEF Admin, Tick, checkoutVars, SaveVoucher, SaveDiscount, CreateRule,
                  ReplaceFeeTiers, SaveOffer, SetExtra
  <2>. QED
      BY <2>1, SameOrders DEF CheckoutInv
<1>. QED
    BY <1>1, <1>2, <1>3 DEF CheckoutNext

(* The row that is appended is the last, and no row before it changes. *)
LEMMA Appending ==
    ASSUME AreOrders(orders), NEW row, IsOrder(row), orders' = Append(orders, row)
    PROVE  /\ AreOrders(orders') /\ Len(orders') = Len(orders) + 1
           /\ \A o \in 1 .. Len(orders) : orders'[o] = orders[o]
           /\ orders'[Len(orders) + 1] = row
<1>1. PICK n \in Nat : n = Len(orders)
    BY DEF AreOrders
<1>2. PICK S : S = {orders[o] : o \in 1 .. n} \cup {row}
    OBVIOUS
<1>3. orders \in Seq(S)
    BY <1>1, <1>2 DEF AreOrders
<1>30. PICK u : u = Append(orders, row)
    OBVIOUS
<1>3b. /\ u \in Seq(S) /\ Len(u) = n + 1
       /\ \A o \in 1 .. n : u[o] = orders[o]
       /\ u[n + 1] = row
    BY <1>1, <1>2, <1>3, <1>30
<1>3c. u = [o \in 1 .. Len(u) |-> u[o]]
    BY <1>3b
<1>4. /\ Len(orders') = n + 1
      /\ \A o \in 1 .. n : orders'[o] = orders[o]
      /\ orders'[n + 1] = row
    BY <1>30, <1>3b
<1>5. orders' = [o \in 1 .. Len(orders') |-> orders'[o]]
    BY <1>30, <1>3c
<1>6. \A o \in 1 .. n + 1 : IsOrder(orders'[o])
    BY <1>1, <1>4 DEF AreOrders
<1>. QED
    BY <1>1, <1>4, <1>5, <1>6 DEF AreOrders

(* Orders that stay keep their keys apart.                                 *)
LEMMA StayingKeepsKeys ==
    ASSUME CheckoutInv, OrdersStay
    PROVE  OneOrderPerKey'
<1>1. DOMAIN orders = 1 .. Len(orders) /\ DOMAIN orders' = 1 .. Len(orders)
    BY DEF CheckoutInv, AreOrders, OrdersStay
<1>2. \A o, p \in 1 .. Len(orders) :
        SameKey(o, orders[p].cust, orders[p].kind, orders[p].key)' =>
          SameKey(o, orders[p].cust, orders[p].kind, orders[p].key)
    BY DEF OrdersStay, SameKey
<1>. QED
    BY <1>1, <1>2 DEF CheckoutInv, OneOrderPerKey

(* The index on customer, kind and key keeps the keys apart at an insert.  *)
LEMMA InsertingKeepsKeys ==
    ASSUME CheckoutInv, NEW h \in Runs, Inserts(h)
    PROVE  AreOrders(orders') /\ OneOrderPerKey'
<1>1. PICK row : row = run[h].row
    OBVIOUS
<1>2. IsOrder(row)
    BY <1>1 DEF CheckoutInv, Inserts, IsRun, NoRun, IsPriced
<1>3. /\ AreOrders(orders') /\ Len(orders') = Len(orders) + 1
      /\ \A o \in 1 .. Len(orders) : orders'[o] = orders[o]
      /\ orders'[Len(orders) + 1] = row
    BY <1>1, <1>2, Appending DEF CheckoutInv, Inserts
<1>4. PICK n \in Nat : n = Len(orders)
    BY DEF CheckoutInv, AreOrders
<1>5. DOMAIN orders = 1 .. n /\ DOMAIN orders' = 1 .. n + 1
    BY <1>3, <1>4 DEF CheckoutInv, AreOrders
<1>6. \A o \in 1 .. n : ~SameKey(o, row.cust, row.kind, row.key)
    BY <1>1, <1>5 DEF Inserts, IndexAllows
<1>7. ASSUME NEW o \in 1 .. n + 1, NEW p \in 1 .. n + 1,
             orders'[p].key # "none", orders'[o].cust = orders'[p].cust,
             orders'[o].kind = orders'[p].kind, orders'[o].key = orders'[p].key
      PROVE  o = p
  <2>1. CASE o \in 1 .. n /\ p \in 1 .. n
    <3>1. SameKey(o, orders[p].cust, orders[p].kind, orders[p].key)
        BY <1>3, <1>4, <1>7, <2>1 DEF SameKey
    <3>. QED
        BY <1>5, <2>1, <3>1 DEF CheckoutInv, OneOrderPerKey
  <2>2. CASE o \in 1 .. n /\ p = n + 1
      BY <1>3, <1>4, <1>6, <1>7, <2>2 DEF SameKey
  <2>3. CASE o = n + 1 /\ p \in 1 .. n
      BY <1>3, <1>4, <1>6, <1>7, <2>3 DEF SameKey
  <2>. QED
      BY <2>1, <2>2, <2>3
<1>. QED
    BY <1>3, <1>5, <1>7 DEF OneOrderPerKey, SameKey

(* One run going on leaves runs.                                           *)
LEMMA RunsStay ==
    ASSUME CheckoutInv, NEW h \in Runs, NEW s, OneRunOn(h, s)
    PROVE  /\ run' = [g \in Runs |-> run'[g]]
           /\ run'[h] = s /\ \A g \in Runs \ {h} : run'[g] = run[g]
           /\ \A g \in Runs : IsRun(run'[g])
<1>1. run = [g \in Runs |-> run[g]] /\ \A g \in Runs : IsRun(run[g])
    BY DEF CheckoutInv
<1>2. run' = [run EXCEPT ![h] = s] /\ IsRun(s)
    BY DEF OneRunOn
<1>. QED
    BY <1>1, <1>2

(* A step keeps the invariant.                                             *)
LEMMA CheckoutStep ==
    CheckoutInv /\ [CheckoutNext]_checkoutVars => CheckoutInv'
<1>1. SUFFICES ASSUME CheckoutInv, [CheckoutNext]_checkoutVars
               PROVE  CheckoutInv'
    OBVIOUS
<1>2. CASE OrdersStay /\ run' = run
    BY <1>1, <1>2, StayingKeepsKeys DEF CheckoutInv, OrdersStay
<1>3. ASSUME NEW h \in Runs, Lets(h)
      PROVE  CheckoutInv'
  <2>1. PICK s : OneRunOn(h, s)
      BY <1>3 DEF Lets, ClaimsCode, ClaimsFree, Inserts
  <2>2. AreOrders(orders') /\ OneOrderPerKey'
    <3>1. CASE OrdersStay
        BY <1>1, <3>1, StayingKeepsKeys DEF OrdersStay
    <3>2. CASE orders' = orders
        BY <1>1, <3>2, SameOrders, <3>1 DEF CheckoutInv
    <3>3. CASE Inserts(h)
        BY <1>1, <3>3, InsertingKeepsKeys
    <3>. QED
        BY <1>3, <3>1, <3>2, <3>3 DEF Lets, ClaimsCode, ClaimsFree
  <2>3. run' = [g \in Runs |-> run'[g]] /\ \A g \in Runs : IsRun(run'[g])
      BY <1>1, <2>1, RunsStay
  <2>. QED
      BY <2>2, <2>3 DEF CheckoutInv
<1>. QED
    BY <1>1, <1>2, <1>3, CheckoutStepIs

(* It holds at first.                                                      *)
LEMMA CheckoutFirst == CheckoutInit => CheckoutInv
<1>1. SUFFICES ASSUME CheckoutInit PROVE CheckoutInv
    OBVIOUS
<1>2. AreOrders(<<>>)
    BY DEF AreOrders
<1>3. orders = <<>> /\ run = [h \in Runs |-> NoRun]
    BY <1>1 DEF CheckoutInit
<1>4. OneOrderPerKey
    BY <1>3 DEF OneOrderPerKey
<1>. QED
    BY <1>2, <1>3, <1>4, NoRunIs DEF CheckoutInv

(* Rows and runs keep their shapes, and keys apart.                        *)
LEMMA CheckoutInvariant == CheckoutSpec => []CheckoutInv
BY CheckoutFirst, CheckoutStep, PTL DEF CheckoutSpec

(* Whatever customers send again and however checkouts interleave, the     *)
(* placed orders of a customer have different idempotency keys: the unique *)
(* index on (customer_id, idempotency_key) and the answer from the row     *)
(* that                                                                    *)
(* is there (placeOrder, placeCartOrder).                                  *)
THEOREM KeysPlaceOneOrder == CheckoutSpec => []OneOrderPerKey
<1>1. CheckoutInv => OneOrderPerKey
    BY DEF CheckoutInv
<1>. QED
    BY <1>1, CheckoutInvariant, PTL

-----------------------------------------------------------------------------
(* The limits of vouchers and free deliveries.  Orders that count and runs *)
(* about to place one that will count are together no more than a limit,   *)
(* once runs overlap by as many as may slip through. *)

Slack == IF oneRun THEN 0 ELSE Cardinality(Runs) - 1

Fit(rows, takers, limit) == Cardinality(rows) + Cardinality(takers) <= limit + Slack

CodeTakers(x) == {h \in Runs : TakesCode(run[h], x)}
UserTakers(x, c) == {h \in CodeTakers(x) : run[h].row.cust = c}
FreeTakers(c) == {h \in Runs : TakesFree(run[h], c)}
FreeOrders(c) == {o \in OrdersOf(c) : orders[o].free}
Allowed(c) == offer.maxOrders + extra[c]

AllFit ==
    /\ \A x \in Codes : voucher[x].total # Null =>
         Fit(UsesOf(x), CodeTakers(x), voucher[x].total)
    /\ \A x \in Codes, c \in Customers : voucher[x].perUser # Null =>
         Fit(UsesBy(x, c), UserTakers(x, c), voucher[x].perUser)
    /\ \A c \in Customers : Fit(FreeOrders(c), FreeTakers(c), Allowed(c))

AsAtFirst ==
    voucher = FirstVoucher /\ offer = FirstOffer /\ extra = [c \in Customers |-> 0]

LimitInv ==
    /\ oneRun \in BOOLEAN /\ (~oneRun => Cardinality(Runs) >= 2)
    /\ edited \/ AsAtFirst
    /\ edited \/ revived \/ AllFit

(* What is clipped at zero and positive was positive.                      *)
LEMMA MaxOfTwo ==
    ASSUME NEW n \in Int, Max({0, n}) > 0
    PROVE  n > 0
<1>1. PICK S : S = {0, n}
    OBVIOUS
<1>2. PICK b \in Int : \A x \in S : x <= b
  <2>1. CASE n <= 0
      BY <1>1, <2>1
  <2>2. CASE n > 0
      BY <1>1, <2>2
  <2>. QED
      BY <2>1, <2>2
<1>3. S \in SUBSET Int /\ S # {}
    BY <1>1
<1>4. Max(S) \in S
    BY <1>2, <1>3, BoundedHasMax
<1>. QED
    BY <1>1, <1>4

(* Fewer orders and fewer takers fit. *)
LEMMA FewerFit ==
    ASSUME NEW U, IsFiniteSet(U), NEW W, IsFiniteSet(W), NEW U2, U2 \subseteq U,
           NEW W2, W2 \subseteq W, NEW n \in Int, NEW slack \in Int, NEW slack2 \in Int, slack <= slack2,
           Cardinality(U) + Cardinality(W) <= n + slack
    PROVE  Cardinality(U2) + Cardinality(W2) <= n + slack2
<1>1. Cardinality(U) \in Nat /\ Cardinality(W) \in Nat
    BY FS_CardinalityType
<1>2. /\ IsFiniteSet(U2) /\ Cardinality(U2) <= Cardinality(U)
      /\ IsFiniteSet(W2) /\ Cardinality(W2) <= Cardinality(W)
    BY FS_Subset
<1>3. Cardinality(U2) \in Nat /\ Cardinality(W2) \in Nat
    BY <1>2, FS_CardinalityType
<1>. QED
    BY <1>1, <1>2, <1>3

(* Where fewer orders count than the limit, the taker that was told so     *)
(* fits, and all that may overlap it within the slack. *)
LEMMA OneMoreFitsNext ==
    ASSUME NEW U, IsFiniteSet(U), NEW W, NEW n \in Int, Cardinality(U) < n,
           IsFiniteSet(Runs), W \subseteq Runs, NEW h,
           oneRun' => W \subseteq {h}, oneRun' \in BOOLEAN
    PROVE  Cardinality(U) + Cardinality(W) <= n + Slack'
<1>1. Cardinality(U) \in Nat /\ Cardinality(Runs) \in Nat
    BY FS_CardinalityType
<1>2. /\ IsFiniteSet(W) /\ Cardinality(W) <= Cardinality(Runs)
      /\ Cardinality(W) \in Nat
    BY FS_Subset, FS_CardinalityType
<1>3. CASE oneRun'
  <2>1. IsFiniteSet({h}) /\ Cardinality({h}) = 1
      BY FS_Singleton
  <2>2. Cardinality(W) <= 1
      BY <1>3, <2>1, FS_Subset
  <2>. QED
      BY <1>1, <1>2, <1>3, <2>2 DEF Slack
<1>4. CASE ~oneRun'
    BY <1>1, <1>2, <1>4 DEF Slack
<1>. QED
    BY <1>3, <1>4

(* A taker that places its order still counts as one. *)
LEMMA PlacingFits ==
    ASSUME NEW U, IsFiniteSet(U), NEW W, IsFiniteSet(W), NEW h, h \in W, NEW o,
           NEW U2, NEW W2, U2 \subseteq U \cup {o}, W2 \subseteq W \ {h},
           NEW n \in Int, NEW slack \in Int, NEW slack2 \in Int, slack <= slack2,
           Cardinality(U) + Cardinality(W) <= n + slack
    PROVE  Cardinality(U2) + Cardinality(W2) <= n + slack2
<1>1. Cardinality(U) \in Nat /\ Cardinality(W) \in Nat
    BY FS_CardinalityType
<1>2. IsFiniteSet(U \cup {o}) /\ Cardinality(U \cup {o}) <= Cardinality(U) + 1
  <2>1. /\ IsFiniteSet(U \cup {o})
        /\ Cardinality(U \cup {o}) =
             IF o \in U THEN Cardinality(U) ELSE Cardinality(U) + 1
      BY FS_AddElement
  <2>. QED
      BY <1>1, <2>1
<1>3. IsFiniteSet(W \ {h}) /\ Cardinality(W \ {h}) = Cardinality(W) - 1
    BY FS_RemoveElement
<1>4. /\ IsFiniteSet(U2) /\ Cardinality(U2) <= Cardinality(U \cup {o})
      /\ IsFiniteSet(W2) /\ Cardinality(W2) <= Cardinality(W \ {h})
    BY <1>2, <1>3, FS_Subset
<1>5. Cardinality(U2) \in Nat /\ Cardinality(W2) \in Nat
    BY <1>4, FS_CardinalityType
<1>6. Cardinality(U \cup {o}) \in Nat
    BY <1>2, FS_CardinalityType
<1>. QED
    BY <1>1, <1>2, <1>3, <1>4, <1>5, <1>6

(* Only finitely many orders and runs are counted.                         *)
LEMMA AllFinite ==
    ASSUME CheckoutInv
    PROVE  /\ DOMAIN orders = 1 .. Len(orders) /\ Len(orders) \in Nat
           /\ IsFiniteSet(Runs) /\ Cardinality(Runs) \in Nat
           /\ \A x : IsFiniteSet(UsesOf(x)) /\ IsFiniteSet(CodeTakers(x))
           /\ \A x, c : IsFiniteSet(UsesBy(x, c)) /\ IsFiniteSet(UserTakers(x, c))
           /\ \A c : /\ IsFiniteSet(OrdersOf(c)) /\ IsFiniteSet(FreeOrders(c))
                     /\ IsFiniteSet(FreeTakers(c))
<1>1. DOMAIN orders = 1 .. Len(orders) /\ Len(orders) \in Nat
    BY DEF CheckoutInv, AreOrders
<1>2. PICK D : D = 1 .. Len(orders)
    OBVIOUS
<1>3. IsFiniteSet(D)
    BY <1>1, <1>2, FS_Interval
<1>4. IsFiniteSet(Runs) /\ Cardinality(Runs) \in Nat
    BY CheckoutAssumption, FS_CardinalityType
<1>5. \A S : S \subseteq D => IsFiniteSet(S)
    BY <1>3, FS_Subset
<1>6. \A S : S \subseteq Runs => IsFiniteSet(S)
    BY <1>4, FS_Subset
<1>7. \A x, c : /\ UsesOf(x) \subseteq D /\ UsesBy(x, c) \subseteq D
                /\ OrdersOf(c) \subseteq D /\ FreeOrders(c) \subseteq D
    BY <1>1, <1>2 DEF UsesOf, UsesBy, OrdersOf, FreeOrders
<1>8. \A x, c : /\ CodeTakers(x) \subseteq Runs /\ UserTakers(x, c) \subseteq Runs
                /\ FreeTakers(c) \subseteq Runs
    BY DEF CodeTakers, UserTakers, FreeTakers
<1>. QED
    BY <1>1, <1>4, <1>5, <1>6, <1>7, <1>8

(* The limits that the administration set are integers.                    *)
LEMMA LimitTypes ==
    ASSUME AsAtFirst
    PROVE  /\ \A x \in Codes : voucher[x].total # Null => voucher[x].total \in Int
           /\ \A x \in Codes : voucher[x].perUser # Null => voucher[x].perUser \in Int
           /\ \A c \in Customers : Allowed(c) \in Int
BY CheckoutAssumption DEF AsAtFirst, Allowed

(* The slack only grows: once two runs overlapped there are two. *)
LEMMA SlackGrows ==
    ASSUME CheckoutInv, LimitInv, oneRun' = (oneRun /\ Cardinality(Busy(run')) <= 1)
    PROVE  /\ oneRun' \in BOOLEAN /\ (~oneRun' => Cardinality(Runs) >= 2)
           /\ Slack \in Int /\ Slack' \in Int /\ Slack <= Slack'
<1>1. IsFiniteSet(Runs) /\ Cardinality(Runs) \in Nat
    BY AllFinite
<1>2. Busy(run') \in SUBSET Runs
    BY DEF Busy
<1>3. IsFiniteSet(Busy(run')) /\ Cardinality(Busy(run')) <= Cardinality(Runs)
    BY <1>1, <1>2, FS_Subset
<1>4. Cardinality(Busy(run')) \in Nat
    BY <1>3, FS_CardinalityType
<1>5. oneRun \in BOOLEAN /\ (~oneRun => Cardinality(Runs) >= 2)
    BY DEF LimitInv
<1>6. ~oneRun' => Cardinality(Runs) >= 2
    BY <1>1, <1>3, <1>4, <1>5
<1>. QED
    BY <1>1, <1>5, <1>6 DEF Slack

(* What a step of MCCheckoutNext leaves alone when no admin changed a      *)
(* limit and no cancelled order came back. *)
Steady ==
    /\ oneRun' = (oneRun /\ Cardinality(Busy(run')) <= 1)
    /\ voucher' = voucher /\ offer' = offer /\ extra' = extra
    /\ \A o \in DOMAIN orders : Live(o)' => Live(o)

(* Orders that stay count no more than before.                             *)
LEMMA OrdersCountLess ==
    ASSUME CheckoutInv, OrdersStay, Steady
    PROVE  /\ \A x : UsesOf(x)' \subseteq UsesOf(x)
           /\ \A x, c : UsesBy(x, c)' \subseteq UsesBy(x, c)
           /\ \A c : FreeOrders(c)' \subseteq FreeOrders(c)
<1>1. DOMAIN orders = 1 .. Len(orders) /\ DOMAIN orders' = 1 .. Len(orders)
    BY DEF CheckoutInv, AreOrders, OrdersStay
<1>2. \A o \in 1 .. Len(orders) :
        /\ Live(o)' => Live(o)
        /\ orders'[o].code = orders[o].code /\ orders'[o].cust = orders[o].cust
        /\ orders'[o].free = orders[o].free
    BY <1>1 DEF Steady, OrdersStay
<1>3. \A x : UsesOf(x)' \subseteq UsesOf(x)
    BY <1>1, <1>2 DEF UsesOf
<1>4. \A c : OrdersOf(c)' \subseteq OrdersOf(c)
    BY <1>1, <1>2 DEF OrdersOf
<1>5. \A c : FreeOrders(c)' \subseteq FreeOrders(c)
  <2>1. TAKE c
  <2>2. OrdersOf(c)' \subseteq 1 .. Len(orders)
      BY <1>1 DEF OrdersOf
  <2>. QED
      BY <1>2, <1>4, <2>2 DEF FreeOrders
<1>. QED
    BY <1>3, <1>4, <1>5 DEF UsesBy

(* Only the run that took a step may become one that takes.                *)
LEMMA TakersStay ==
    ASSUME CheckoutInv, NEW h \in Runs, NEW s, OneRunOn(h, s)
    PROVE  /\ \A x : CodeTakers(x)' \subseteq CodeTakers(x) \cup {h}
           /\ \A x, c : UserTakers(x, c)' \subseteq UserTakers(x, c) \cup {h}
           /\ \A c : FreeTakers(c)' \subseteq FreeTakers(c) \cup {h}
           /\ \A x : h \in CodeTakers(x)' <=> TakesCode(s, x)
           /\ \A x, c : h \in UserTakers(x, c)' <=> TakesCode(s, x) /\ s.row.cust = c
           /\ \A c : h \in FreeTakers(c)' <=> TakesFree(s, c)
<1>1. run'[h] = s /\ \A g \in Runs \ {h} : run'[g] = run[g]
    BY RunsStay
<1>2. \A x, g \in Runs : g \in CodeTakers(x)' <=> TakesCode(run'[g], x)
    BY DEF CodeTakers
<1>. QED
    BY <1>1 DEF CodeTakers, UserTakers, FreeTakers, TakesCode, TakesFree

(* What counts no more orders and no more runs still fits.                 *)
LEMMA FewerAllFit ==
    ASSUME CheckoutInv, LimitInv, AsAtFirst, AllFit, Steady,
           \A x : UsesOf(x)' \subseteq UsesOf(x),
           \A x, c : UsesBy(x, c)' \subseteq UsesBy(x, c),
           \A c : FreeOrders(c)' \subseteq FreeOrders(c)
    PROVE  /\ \A x \in Codes :
                CodeTakers(x)' \subseteq CodeTakers(x) /\ (voucher[x].total # Null)' =>
                  Fit(UsesOf(x), CodeTakers(x), voucher[x].total)'
           /\ \A x \in Codes, c \in Customers :
                UserTakers(x, c)' \subseteq UserTakers(x, c) /\ (voucher[x].perUser # Null)' =>
                  Fit(UsesBy(x, c), UserTakers(x, c), voucher[x].perUser)'
           /\ \A c \in Customers :
                FreeTakers(c)' \subseteq FreeTakers(c) =>
                  Fit(FreeOrders(c), FreeTakers(c), Allowed(c))'
<1>1. Slack \in Int /\ Slack' \in Int /\ Slack <= Slack'
    BY SlackGrows DEF Steady
<1>2. voucher' = voucher /\ \A c : Allowed(c)' = Allowed(c)
    BY DEF Steady, Allowed
<1>3. ASSUME NEW x \in Codes, CodeTakers(x)' \subseteq CodeTakers(x), voucher[x].total # Null
      PROVE  Fit(UsesOf(x), CodeTakers(x), voucher[x].total)'
  <2>1. Cardinality(UsesOf(x)) + Cardinality(CodeTakers(x)) <= voucher[x].total + Slack
      BY <1>3 DEF AllFit, Fit
  <2>2. voucher[x].total \in Int
      BY <1>3, LimitTypes
  <2>3. IsFiniteSet(UsesOf(x)) /\ IsFiniteSet(CodeTakers(x))
      BY AllFinite
  <2>4. Cardinality(UsesOf(x)') + Cardinality(CodeTakers(x)') <= voucher[x].total + Slack'
      BY <1>1, <1>3, <2>1, <2>2, <2>3, FewerFit
  <2>. QED
      BY <1>2, <2>4 DEF Fit
<1>4. ASSUME NEW x \in Codes, NEW c \in Customers,
             UserTakers(x, c)' \subseteq UserTakers(x, c), voucher[x].perUser # Null
      PROVE  Fit(UsesBy(x, c), UserTakers(x, c), voucher[x].perUser)'
  <2>1. Cardinality(UsesBy(x, c)) + Cardinality(UserTakers(x, c)) <= voucher[x].perUser + Slack
      BY <1>4 DEF AllFit, Fit
  <2>2. voucher[x].perUser \in Int
      BY <1>4, LimitTypes
  <2>3. IsFiniteSet(UsesBy(x, c)) /\ IsFiniteSet(UserTakers(x, c))
      BY AllFinite
  <2>4. Cardinality(UsesBy(x, c)') + Cardinality(UserTakers(x, c)') <= voucher[x].perUser + Slack'
      BY <1>1, <1>4, <2>1, <2>2, <2>3, FewerFit
  <2>. QED
      BY <1>2, <2>4 DEF Fit
<1>5. ASSUME NEW c \in Customers, FreeTakers(c)' \subseteq FreeTakers(c)
      PROVE  Fit(FreeOrders(c), FreeTakers(c), Allowed(c))'
  <2>1. Cardinality(FreeOrders(c)) + Cardinality(FreeTakers(c)) <= Allowed(c) + Slack
      BY <1>5 DEF AllFit, Fit
  <2>2. Allowed(c) \in Int
      BY <1>5, LimitTypes
  <2>3. IsFiniteSet(FreeOrders(c)) /\ IsFiniteSet(FreeTakers(c))
      BY AllFinite
  <2>4. Cardinality(FreeOrders(c)') + Cardinality(FreeTakers(c)') <= Allowed(c) + Slack'
      BY <1>1, <1>5, <2>1, <2>2, <2>3, FewerFit
  <2>. QED
      BY <1>2, <2>4 DEF Fit
<1>. QED
    BY <1>2, <1>3, <1>4, <1>5

(* While runs never overlapped, the run that moves is the only one. *)
LEMMA OnlyTaker ==
    ASSUME CheckoutInv, LimitInv, Steady, NEW h \in Runs, NEW s, OneRunOn(h, s),
           oneRun', s.at # "idle"
    PROVE  /\ \A x : CodeTakers(x)' \subseteq {h}
           /\ \A x, c : UserTakers(x, c)' \subseteq {h}
           /\ \A c : FreeTakers(c)' \subseteq {h}
<1>1. run'[h] = s
    BY RunsStay
<1>2. PICK B : B = Busy(run')
    OBVIOUS
<1>3. B \in SUBSET Runs /\ IsFiniteSet(Runs)
    BY <1>2, AllFinite DEF Busy
<1>4. IsFiniteSet(B) /\ Cardinality(B) \in Nat /\ Cardinality(B) <= 1
    BY <1>2, <1>3, FS_Subset, FS_CardinalityType DEF Steady, LimitInv
<1>5. h \in B
    BY <1>1, <1>2 DEF Busy, NoRun
<1>6. Cardinality(B) = 1
    BY <1>4, <1>5, FS_EmptySet
<1>7. B = {h}
    BY <1>4, <1>5, <1>6, FS_Singleton
<1>8. \A x : CodeTakers(x)' \subseteq B
    BY <1>2 DEF CodeTakers, Busy, TakesCode, NoRun
<1>9. \A c : FreeTakers(c)' \subseteq B
    BY <1>2 DEF FreeTakers, Busy, TakesFree, NoRun
<1>. QED
    BY <1>7, <1>8, <1>9 DEF UserTakers

(* A run that takes nothing new leaves everything fitting.                 *)
LEMMA MovingOnFits ==
    ASSUME CheckoutInv, LimitInv, AsAtFirst, AllFit, Steady, NEW h \in Runs, NEW s,
           OneRunOn(h, s), OrdersStay, NoMore(run[h], s)
    PROVE  AllFit'
<1>1. /\ \A x : UsesOf(x)' \subseteq UsesOf(x)
      /\ \A x, c : UsesBy(x, c)' \subseteq UsesBy(x, c)
      /\ \A c : FreeOrders(c)' \subseteq FreeOrders(c)
    BY OrdersCountLess
<1>2. \A x \in Codes : CodeTakers(x)' \subseteq CodeTakers(x)
    BY TakersStay DEF CodeTakers, NoMore
<1>3. ASSUME NEW x \in Codes, NEW c
      PROVE  UserTakers(x, c)' \subseteq UserTakers(x, c)
  <2>1. h \in UserTakers(x, c)' => h \in UserTakers(x, c)
      BY TakersStay DEF CodeTakers, UserTakers, NoMore
  <2>. QED
      BY <2>1, TakersStay
<1>4. \A c : FreeTakers(c)' \subseteq FreeTakers(c)
    BY TakersStay DEF FreeTakers, NoMore
<1>. QED
    BY <1>1, <1>2, <1>3, <1>4, FewerAllFit DEF AllFit

(* So does a step of no run.                                               *)
LEMMA RestingFits ==
    ASSUME CheckoutInv, LimitInv, AsAtFirst, AllFit, Steady, run' = run, OrdersStay
    PROVE  AllFit'
<1>1. /\ \A x : UsesOf(x)' \subseteq UsesOf(x)
      /\ \A x, c : UsesBy(x, c)' \subseteq UsesBy(x, c)
      /\ \A c : FreeOrders(c)' \subseteq FreeOrders(c)
    BY OrdersCountLess
<1>2. /\ \A x \in Codes : CodeTakers(x)' \subseteq CodeTakers(x)
      /\ \A x \in Codes : \A c : UserTakers(x, c)' \subseteq UserTakers(x, c)
      /\ \A c : FreeTakers(c)' \subseteq FreeTakers(c)
    BY DEF CodeTakers, UserTakers, FreeTakers
<1>. QED
    BY <1>1, <1>2, FewerAllFit DEF AllFit

(* A voucher found valid still had a use left, if no other run was on.     *)
LEMMA ClaimedCodeFits ==
    ASSUME CheckoutInv, LimitInv, AsAtFirst, AllFit, Steady, NEW h \in Runs, NEW y, NEW s,
           ClaimsCode(h, y, s)
    PROVE  AllFit'
<1>1. OneRunOn(h, s) /\ orders' = orders /\ OrdersStay
    BY SameOrders DEF ClaimsCode, CheckoutInv
<1>2. /\ \A x : UsesOf(x)' \subseteq UsesOf(x)
      /\ \A x, c : UsesBy(x, c)' \subseteq UsesBy(x, c)
      /\ \A c : FreeOrders(c)' \subseteq FreeOrders(c)
    BY <1>1, OrdersCountLess
<1>3. /\ \A x : UsesOf(x)' = UsesOf(x)
      /\ \A x, c : UsesBy(x, c)' = UsesBy(x, c)
    BY <1>1 DEF UsesOf, UsesBy, OrdersOf, Live
<1>4. PICK d : d = s.row.cust
    OBVIOUS
<1>5. /\ \A x \in Codes \ {y} : CodeTakers(x)' \subseteq CodeTakers(x)
      /\ \A x, c : ~(x = y /\ c = d) => UserTakers(x, c)' \subseteq UserTakers(x, c)
      /\ \A c : FreeTakers(c)' \subseteq FreeTakers(c)
  <2>1. \A x : TakesCode(s, x) => x = y
      BY DEF ClaimsCode, TakesCode
  <2>2. \A x \in Codes \ {y} : CodeTakers(x)' \subseteq CodeTakers(x)
      BY <1>1, <2>1, TakersStay
  <2>3. \A x, c : ~(x = y /\ c = d) => UserTakers(x, c)' \subseteq UserTakers(x, c)
      BY <1>1, <1>4, <2>1, TakersStay
  <2>4. \A c : FreeTakers(c)' \subseteq FreeTakers(c)
    <3>1. TAKE c
    <3>2. h \in FreeTakers(c)' => h \in FreeTakers(c)
        BY <1>1, TakersStay DEF FreeTakers, ClaimsCode
    <3>. QED
        BY <1>1, <3>2, TakersStay
  <2>. QED
      BY <2>2, <2>3, <2>4
<1>6. /\ oneRun' \in BOOLEAN
      /\ oneRun' => \A x, c : CodeTakers(x)' \subseteq {h} /\ UserTakers(x, c)' \subseteq {h}
    BY <1>1, SlackGrows, OnlyTaker DEF ClaimsCode, Steady
<1>7. \A x, c : CodeTakers(x)' \subseteq Runs /\ UserTakers(x, c)' \subseteq Runs
    BY DEF CodeTakers, UserTakers
<1>8. voucher' = voucher /\ y \in Codes /\ WithinLimits(voucher[y], y, d) /\ IsFiniteSet(Runs)
    BY <1>4, AllFinite DEF Steady, ClaimsCode
<1>9. ASSUME voucher[y].total # Null
      PROVE  Fit(UsesOf(y), CodeTakers(y), voucher[y].total)'
  <2>1. Cardinality(UsesOf(y)) < voucher[y].total /\ voucher[y].total \in Int
      BY <1>8, <1>9, LimitTypes DEF WithinLimits
  <2>2. IsFiniteSet(UsesOf(y))
      BY AllFinite
  <2>3. (Cardinality(UsesOf(y)) + Cardinality(CodeTakers(y)') <= voucher[y].total + Slack')
      BY <1>6, <1>7, <1>8, <2>1, <2>2, OneMoreFitsNext
  <2>. QED
      BY <1>3, <1>8, <2>3 DEF Fit
<1>10. ASSUME voucher[y].perUser # Null
       PROVE  Fit(UsesBy(y, d), UserTakers(y, d), voucher[y].perUser)'
  <2>1. Cardinality(UsesBy(y, d)) < voucher[y].perUser /\ voucher[y].perUser \in Int
      BY <1>8, <1>10, LimitTypes DEF WithinLimits
  <2>2. IsFiniteSet(UsesBy(y, d))
      BY AllFinite
  <2>3. (Cardinality(UsesBy(y, d)) + Cardinality(UserTakers(y, d)') <= voucher[y].perUser + Slack')
      BY <1>6, <1>7, <1>8, <2>1, <2>2, OneMoreFitsNext
  <2>. QED
      BY <1>3, <1>8, <2>3 DEF Fit
<1>11. \A x \in Codes : (voucher[x].total # Null)' =>
         Fit(UsesOf(x), CodeTakers(x), voucher[x].total)'
    BY <1>2, <1>5, <1>8, <1>9, FewerAllFit
<1>12. \A x \in Codes, c \in Customers : (voucher[x].perUser # Null)' =>
         Fit(UsesBy(x, c), UserTakers(x, c), voucher[x].perUser)'
    BY <1>2, <1>5, <1>8, <1>10, FewerAllFit
<1>13. \A c \in Customers : Fit(FreeOrders(c), FreeTakers(c), Allowed(c))'
    BY <1>2, <1>5, FewerAllFit
<1>. QED
    BY <1>11, <1>12, <1>13 DEF AllFit

(* A free delivery that was offered still remained, if no other run was    *)
(* on.                                                                     *)
LEMMA ClaimedFreeFits ==
    ASSUME CheckoutInv, LimitInv, AsAtFirst, AllFit, Steady, NEW h \in Runs, NEW d, NEW s,
           ClaimsFree(h, d, s)
    PROVE  AllFit'
<1>1. OneRunOn(h, s) /\ orders' = orders /\ OrdersStay
    BY SameOrders DEF ClaimsFree, CheckoutInv
<1>2. /\ \A x : UsesOf(x)' \subseteq UsesOf(x)
      /\ \A x, c : UsesBy(x, c)' \subseteq UsesBy(x, c)
      /\ \A c : FreeOrders(c)' \subseteq FreeOrders(c)
    BY <1>1, OrdersCountLess
<1>3. FreeOrders(d)' = FreeOrders(d)
    BY <1>1 DEF FreeOrders, OrdersOf, Live
<1>4. \A x \in Codes : CodeTakers(x)' \subseteq CodeTakers(x)
    BY <1>1, TakersStay DEF ClaimsFree
<1>5. \A x \in Codes : \A c : UserTakers(x, c)' \subseteq UserTakers(x, c)
    BY <1>1, TakersStay DEF ClaimsFree
<1>6. \A c : c # d \/ ~TakesFree(s, d) => FreeTakers(c)' \subseteq FreeTakers(c)
    BY <1>1, TakersStay DEF ClaimsFree
<1>7. ASSUME d \in Customers, TakesFree(s, d)
      PROVE  Fit(FreeOrders(d), FreeTakers(d), Allowed(d))'
  <2>1. s.at # "idle"
      BY <1>7 DEF TakesFree
  <2>2. oneRun' \in BOOLEAN /\ (oneRun' => FreeTakers(d)' \subseteq {h})
      BY <1>1, <2>1, SlackGrows, OnlyTaker DEF Steady
  <2>3. Allowed(d) \in Int /\ Allowed(d)' = Allowed(d)
      BY <1>7, LimitTypes DEF Steady, Allowed
  <2>4. /\ IsFiniteSet(OrdersOf(d)) /\ IsFiniteSet(FreeOrders(d))
        /\ FreeOrders(d) \subseteq OrdersOf(d)
      BY AllFinite DEF FreeOrders
  <2>5. /\ Cardinality(OrdersOf(d)) \in Nat /\ Cardinality(FreeOrders(d)) \in Nat
        /\ Cardinality(FreeOrders(d)) <= Cardinality(OrdersOf(d))
      BY <2>4, FS_Subset, FS_CardinalityType
  <2>6. Cardinality(OrdersOf(d)) < Allowed(d)
    <3>1. PICK n : n = offer.maxOrders + extra[d] - Cardinality(OrdersOf(d))
        OBVIOUS
    <3>2. offer.maxOrders \in Int /\ extra[d] \in Int
        BY <1>7, CheckoutAssumption DEF AsAtFirst
    <3>3. n = Allowed(d) - Cardinality(OrdersOf(d)) /\ n \in Int
        BY <2>5, <3>1, <3>2 DEF Allowed
    <3>4. Max({0, n}) > 0
      <4>1. Remaining(d) > 0
          BY <1>7 DEF ClaimsFree
      <4>. QED
          BY <3>1, <4>1 DEF Remaining
    <3>5. n > 0
        BY <3>3, <3>4, MaxOfTwo
    <3>. QED
        BY <2>3, <2>5, <3>3, <3>5
  <2>7. Cardinality(FreeOrders(d)) < Allowed(d)
      BY <2>3, <2>5, <2>6
  <2>8. FreeTakers(d)' \subseteq Runs /\ IsFiniteSet(Runs)
      BY AllFinite DEF FreeTakers
  <2>9. Cardinality(FreeOrders(d)) + Cardinality(FreeTakers(d)') <= Allowed(d) + Slack'
      BY <2>2, <2>3, <2>4, <2>7, <2>8, OneMoreFitsNext
  <2>. QED
      BY <1>3, <2>3, <2>9 DEF Fit
<1>8. /\ \A x \in Codes : (voucher[x].total # Null)' =>
           Fit(UsesOf(x), CodeTakers(x), voucher[x].total)'
      /\ \A x \in Codes, c \in Customers : (voucher[x].perUser # Null)' =>
           Fit(UsesBy(x, c), UserTakers(x, c), voucher[x].perUser)'
    BY <1>2, <1>4, <1>5, FewerAllFit
<1>9. \A c \in Customers : Fit(FreeOrders(c), FreeTakers(c), Allowed(c))'
    BY <1>2, <1>6, <1>7, FewerAllFit
<1>. QED
    BY <1>8, <1>9 DEF AllFit

(* An insert turns a run that takes into an order that counts.             *)
LEMMA PlacedFits ==
    ASSUME CheckoutInv, LimitInv, AsAtFirst, AllFit, Steady, NEW h \in Runs, Inserts(h)
    PROVE  AllFit'
<1>1. PICK row : row = run[h].row
    OBVIOUS
<1>2. IsOrder(row) /\ row.status = "placed" /\ run[h].at = "insert"
    BY <1>1 DEF CheckoutInv, Inserts, IsRun, NoRun, IsPriced
<1>3. /\ AreOrders(orders') /\ Len(orders') = Len(orders) + 1
      /\ \A o \in 1 .. Len(orders) : orders'[o] = orders[o]
      /\ orders'[Len(orders) + 1] = row
    BY <1>1, <1>2, Appending DEF CheckoutInv, Inserts
<1>4. PICK n \in Nat : n = Len(orders)
    BY DEF CheckoutInv, AreOrders
<1>5. PICK s : s = [at |-> "items", order |-> n + 1]
    OBVIOUS
<1>6. OneRunOn(h, s) /\ s.at = "items"
    BY <1>4, <1>5 DEF Inserts
<1>7. PICK m : m = n + 1
    OBVIOUS
<1>8. DOMAIN orders = 1 .. n /\ DOMAIN orders' = (1 .. n) \cup {m}
    BY <1>3, <1>4, <1>7 DEF CheckoutInv, AreOrders
<1>9. \A o \in 1 .. n : orders'[o] = orders[o]
    BY <1>3, <1>4
<1>10. orders'[m] = row
    BY <1>3, <1>4, <1>7
<1>11. \A x : UsesOf(x)' = UsesOf(x) \cup (IF row.code = x THEN {m} ELSE {})
    BY <1>2, <1>8, <1>9, <1>10 DEF UsesOf, Live
<1>12. \A c : OrdersOf(c)' = OrdersOf(c) \cup (IF row.cust = c THEN {m} ELSE {})
    BY <1>2, <1>8, <1>9, <1>10 DEF OrdersOf, Live
<1>13. m \notin 1 .. n
    BY <1>7
<1>14. \A x, c : UsesBy(x, c)' =
         UsesBy(x, c) \cup (IF row.code = x /\ row.cust = c THEN {m} ELSE {})
  <2>1. \A x, c : UsesOf(x) \subseteq 1 .. n /\ OrdersOf(c) \subseteq 1 .. n
      BY <1>8 DEF UsesOf, OrdersOf
  <2>. QED
      BY <1>11, <1>12, <1>13, <2>1 DEF UsesBy
<1>15. \A c : FreeOrders(c)' \subseteq
         FreeOrders(c) \cup (IF row.free /\ row.cust = c THEN {m} ELSE {})
  <2>1. TAKE c
  <2>2. OrdersOf(c) \subseteq 1 .. n
      BY <1>8 DEF OrdersOf
  <2>. QED
      BY <1>9, <1>10, <1>12, <2>2 DEF FreeOrders
<1>16. /\ \A x : ~TakesCode(s, x) /\ (TakesCode(run[h], x) <=> row.code = x)
       /\ \A c : ~TakesFree(s, c) /\ (row.free /\ row.cust = c => TakesFree(run[h], c))
    BY <1>1, <1>2, <1>6 DEF TakesCode, TakesFree
<1>17. \A x : CodeTakers(x)' \subseteq CodeTakers(x) \ {h}
    BY <1>6, <1>16, TakersStay
<1>18. \A x, c : UserTakers(x, c)' \subseteq UserTakers(x, c) \ {h}
    BY <1>6, <1>16, TakersStay
<1>19. \A c : FreeTakers(c)' \subseteq FreeTakers(c) \ {h}
    BY <1>6, <1>16, TakersStay
<1>20. Slack \in Int /\ Slack' \in Int /\ Slack <= Slack'
    BY SlackGrows DEF Steady
<1>21. voucher' = voucher /\ \A c : Allowed(c)' = Allowed(c)
    BY DEF Steady, Allowed
<1>22. ASSUME NEW x \in Codes, voucher[x].total # Null
       PROVE  Fit(UsesOf(x), CodeTakers(x), voucher[x].total)'
  <2>1. Cardinality(UsesOf(x)) + Cardinality(CodeTakers(x)) <= voucher[x].total + Slack
      BY <1>22 DEF AllFit, Fit
  <2>2. voucher[x].total \in Int
      BY <1>22, LimitTypes
  <2>3. IsFiniteSet(UsesOf(x)) /\ IsFiniteSet(CodeTakers(x))
      BY AllFinite
  <2>4. CASE row.code = x
    <3>1. h \in CodeTakers(x)
        BY <1>16, <2>4 DEF CodeTakers
    <3>2. UsesOf(x)' \subseteq UsesOf(x) \cup {m}
        BY <1>11, <2>4
    <3>3. CodeTakers(x)' \subseteq CodeTakers(x) \ {h}
        BY <1>17
    <3>4. PICK lim, slack, slack2, U, W, U2, W2 :
             /\ lim = voucher[x].total /\ slack = Slack /\ slack2 = Slack'
             /\ U = UsesOf(x) /\ W = CodeTakers(x)
             /\ U2 = UsesOf(x)' /\ W2 = CodeTakers(x)'
        OBVIOUS
    <3>5. /\ IsFiniteSet(U) /\ IsFiniteSet(W) /\ h \in W
          /\ U2 \subseteq U \cup {m} /\ W2 \subseteq W \ {h}
          /\ lim \in Int /\ slack \in Int /\ slack2 \in Int /\ slack <= slack2
          /\ Cardinality(U) + Cardinality(W) <= lim + slack
        BY <1>20, <2>1, <2>2, <2>3, <3>1, <3>2, <3>3, <3>4
    <3>6. Cardinality(U2) + Cardinality(W2) <= lim + slack2
        BY <3>5, PlacingFits
    <3>. QED
        BY <1>21, <3>4, <3>6 DEF Fit
  <2>5. CASE row.code # x
    <3>1. UsesOf(x)' \subseteq UsesOf(x) /\ CodeTakers(x)' \subseteq CodeTakers(x)
        BY <1>11, <1>17, <2>5
    <3>2. Cardinality(UsesOf(x)') + Cardinality(CodeTakers(x)') <= voucher[x].total + Slack'
        BY <1>20, <2>1, <2>2, <2>3, <3>1, FewerFit
    <3>. QED
        BY <1>21, <3>2 DEF Fit
  <2>. QED
      BY <2>4, <2>5
<1>23. ASSUME NEW x \in Codes, NEW c \in Customers, voucher[x].perUser # Null
       PROVE  Fit(UsesBy(x, c), UserTakers(x, c), voucher[x].perUser)'
  <2>1. Cardinality(UsesBy(x, c)) + Cardinality(UserTakers(x, c)) <= voucher[x].perUser + Slack
      BY <1>23 DEF AllFit, Fit
  <2>2. voucher[x].perUser \in Int
      BY <1>23, LimitTypes
  <2>3. IsFiniteSet(UsesBy(x, c)) /\ IsFiniteSet(UserTakers(x, c))
      BY AllFinite
  <2>4. CASE row.code = x /\ row.cust = c
    <3>1. h \in UserTakers(x, c)
        BY <1>1, <1>16, <2>4 DEF CodeTakers, UserTakers
    <3>2. UsesBy(x, c)' \subseteq UsesBy(x, c) \cup {m}
        BY <1>14, <2>4
    <3>3. UserTakers(x, c)' \subseteq UserTakers(x, c) \ {h}
        BY <1>18
    <3>4. PICK lim, slack, slack2, U, W, U2, W2 :
             /\ lim = voucher[x].perUser /\ slack = Slack /\ slack2 = Slack'
             /\ U = UsesBy(x, c) /\ W = UserTakers(x, c)
             /\ U2 = UsesBy(x, c)' /\ W2 = UserTakers(x, c)'
        OBVIOUS
    <3>5. /\ IsFiniteSet(U) /\ IsFiniteSet(W) /\ h \in W
          /\ U2 \subseteq U \cup {m} /\ W2 \subseteq W \ {h}
          /\ lim \in Int /\ slack \in Int /\ slack2 \in Int /\ slack <= slack2
          /\ Cardinality(U) + Cardinality(W) <= lim + slack
        BY <1>20, <2>1, <2>2, <2>3, <3>1, <3>2, <3>3, <3>4
    <3>6. Cardinality(U2) + Cardinality(W2) <= lim + slack2
        BY <3>5, PlacingFits
    <3>. QED
        BY <1>21, <3>4, <3>6 DEF Fit
  <2>5. CASE ~(row.code = x /\ row.cust = c)
    <3>1. UsesBy(x, c)' \subseteq UsesBy(x, c) /\ UserTakers(x, c)' \subseteq UserTakers(x, c)
        BY <1>14, <1>18, <2>5
    <3>2. Cardinality(UsesBy(x, c)') + Cardinality(UserTakers(x, c)')
            <= voucher[x].perUser + Slack'
        BY <1>20, <2>1, <2>2, <2>3, <3>1, FewerFit
    <3>. QED
        BY <1>21, <3>2 DEF Fit
  <2>. QED
      BY <2>4, <2>5
<1>24. ASSUME NEW c \in Customers
       PROVE  Fit(FreeOrders(c), FreeTakers(c), Allowed(c))'
  <2>1. Cardinality(FreeOrders(c)) + Cardinality(FreeTakers(c)) <= Allowed(c) + Slack
      BY <1>24 DEF AllFit, Fit
  <2>2. Allowed(c) \in Int
      BY <1>24, LimitTypes
  <2>3. IsFiniteSet(FreeOrders(c)) /\ IsFiniteSet(FreeTakers(c))
      BY AllFinite
  <2>4. CASE row.free /\ row.cust = c
    <3>1. h \in FreeTakers(c)
        BY <1>16, <2>4 DEF FreeTakers
    <3>2. FreeOrders(c)' \subseteq FreeOrders(c) \cup {m}
        BY <1>15, <2>4
    <3>3. FreeTakers(c)' \subseteq FreeTakers(c) \ {h}
        BY <1>19
    <3>4. Cardinality(FreeOrders(c)') + Cardinality(FreeTakers(c)') <= Allowed(c) + Slack'
        BY <1>20, <2>1, <2>2, <2>3, <3>1, <3>2, <3>3, PlacingFits
    <3>. QED
        BY <1>21, <3>4 DEF Fit
  <2>5. CASE ~(row.free /\ row.cust = c)
    <3>1. FreeOrders(c)' \subseteq FreeOrders(c) /\ FreeTakers(c)' \subseteq FreeTakers(c)
        BY <1>15, <1>19, <2>5
    <3>2. Cardinality(FreeOrders(c)') + Cardinality(FreeTakers(c)') <= Allowed(c) + Slack'
        BY <1>20, <2>1, <2>2, <2>3, <3>1, FewerFit
    <3>. QED
        BY <1>21, <3>2 DEF Fit
  <2>. QED
      BY <2>4, <2>5
<1>. QED
    BY <1>21, <1>22, <1>23, <1>24 DEF AllFit

(* A step keeps the limits' invariant.                                     *)
LEMMA LimitStep ==
    CheckoutInv /\ LimitInv /\ [MCCheckoutNext]_<<checkoutVars, oneRun, edited, revived>>
      => LimitInv'
<1>1. SUFFICES ASSUME CheckoutInv, LimitInv,
                      [MCCheckoutNext]_<<checkoutVars, oneRun, edited, revived>>
               PROVE  LimitInv'
    OBVIOUS
<1>2. CASE UNCHANGED <<checkoutVars, oneRun, edited, revived>>
  <2>1. /\ UNCHANGED <<orders, voucher, offer, extra, run>>
        /\ UNCHANGED <<oneRun, edited, revived>>
      BY <1>2 DEF checkoutVars
  <2>2. AllFit' = AllFit
      BY <2>1 DEF AllFit, Fit, Slack, UsesOf, UsesBy, OrdersOf, FreeOrders, CodeTakers,
                  UserTakers, FreeTakers, Allowed, Live
  <2>. QED
      BY <1>1, <2>1, <2>2 DEF LimitInv, AsAtFirst
<1>3. CASE MCCheckoutNext
  <2>1. oneRun' = (oneRun /\ Cardinality(Busy(run')) <= 1)
      BY <1>3 DEF MCCheckoutNext
  <2>2. oneRun' \in BOOLEAN /\ (~oneRun' => Cardinality(Runs) >= 2)
      BY <1>1, <2>1, SlackGrows
  <2>3. edited' \/ (~edited /\ voucher' = voucher /\ offer' = offer /\ extra' = extra)
      BY <1>3 DEF MCCheckoutNext
  <2>4. edited' \/ AsAtFirst'
      BY <1>1, <2>3 DEF LimitInv, AsAtFirst
  <2>5. ASSUME ~edited', ~revived'
        PROVE  AllFit'
    <3>1. AsAtFirst /\ AllFit
        BY <1>1, <1>3, <2>3, <2>5 DEF LimitInv, MCCheckoutNext
    <3>2. Steady
        BY <1>3, <2>1, <2>3, <2>5 DEF Steady, MCCheckoutNext
    <3>3. CASE OrdersStay /\ run' = run
        BY <1>1, <3>1, <3>2, <3>3, RestingFits
    <3>4. ASSUME NEW h \in Runs, Lets(h)
          PROVE  AllFit'
      <4>1. CASE Inserts(h)
          BY <1>1, <3>1, <3>2, <4>1, PlacedFits
      <4>2. CASE \E s : OneRunOn(h, s) /\ OrdersStay /\ NoMore(run[h], s)
          BY <1>1, <3>1, <3>2, <4>2, MovingOnFits
      <4>3. CASE \E x, s : ClaimsCode(h, x, s)
          BY <1>1, <3>1, <3>2, <4>3, ClaimedCodeFits
      <4>4. CASE \E c, s : ClaimsFree(h, c, s)
          BY <1>1, <3>1, <3>2, <4>4, ClaimedFreeFits
      <4>. QED
          BY <3>4, <4>1, <4>2, <4>3, <4>4 DEF Lets
    <3>. QED
        BY <1>1, <1>3, <3>3, <3>4, CheckoutStepIs DEF MCCheckoutNext
  <2>. QED
      BY <2>2, <2>4, <2>5 DEF LimitInv
<1>. QED
    BY <1>1, <1>2, <1>3

(* It holds at first: no order, no run, and limits of at least zero.       *)
LEMMA LimitFirst == MCCheckoutInit => LimitInv
<1>1. SUFFICES ASSUME MCCheckoutInit PROVE LimitInv
    OBVIOUS
<1>2. /\ orders = <<>> /\ run = [h \in Runs |-> NoRun] /\ oneRun = TRUE
      /\ AsAtFirst
    BY <1>1 DEF MCCheckoutInit, CheckoutInit, AsAtFirst
<1>3. Slack = 0
    BY <1>2 DEF Slack
<1>4. \A x, c : UsesOf(x) = {} /\ UsesBy(x, c) = {} /\ FreeOrders(c) = {}
    BY <1>2 DEF UsesOf, UsesBy, OrdersOf, FreeOrders
<1>5. \A x, c : CodeTakers(x) = {} /\ UserTakers(x, c) = {} /\ FreeTakers(c) = {}
    BY <1>2 DEF CodeTakers, UserTakers, FreeTakers, TakesCode, TakesFree, NoRun
<1>6. Cardinality({}) = 0
    BY FS_EmptySet
<1>7. /\ \A x \in Codes : voucher[x].total # Null => voucher[x].total >= 0
      /\ \A x \in Codes : voucher[x].perUser # Null => voucher[x].perUser >= 0
      /\ \A c \in Customers : Allowed(c) >= 0
    BY <1>2, CheckoutAssumption DEF AsAtFirst, Allowed
<1>8. \A n \in Int : n >= 0 => Fit({}, {}, n)
    BY <1>3, <1>6 DEF Fit
<1>9. AsAtFirst
    BY <1>2
<1>10. \A x \in Codes : voucher[x].total # Null => Fit(UsesOf(x), CodeTakers(x), voucher[x].total)
    BY <1>4, <1>5, <1>7, <1>8, <1>9, LimitTypes
<1>11. \A x \in Codes, c \in Customers : voucher[x].perUser # Null =>
          Fit(UsesBy(x, c), UserTakers(x, c), voucher[x].perUser)
    BY <1>4, <1>5, <1>7, <1>8, <1>9, LimitTypes
<1>12. \A c \in Customers : Fit(FreeOrders(c), FreeTakers(c), Allowed(c))
    BY <1>4, <1>5, <1>7, <1>8, <1>9, LimitTypes
<1>13. AllFit
    BY <1>10, <1>11, <1>12 DEF AllFit
<1>. QED
    BY <1>2, <1>13 DEF LimitInv

(* What fits exceeds no limit by more than the runs that overlapped.       *)
LEMMA FitIsKept ==
    ASSUME CheckoutInv, LimitInv
    PROVE  LimitsKept
<1>1. SUFFICES ASSUME ~edited, ~revived
               PROVE  Excess <= (IF oneRun THEN 0 ELSE Cardinality(Runs) - 1)
    BY DEF LimitsKept
<1>2. AllFit /\ AsAtFirst
    BY <1>1 DEF LimitInv
<1>3. PICK b : b = Slack
    OBVIOUS
<1>4. b \in Int /\ 0 <= b
    BY <1>3, AllFinite DEF Slack, LimitInv
<1>5. \A U, W, n : IsFiniteSet(U) /\ IsFiniteSet(W) /\ n \in Int /\ Fit(U, W, n) =>
                     Cardinality(U) - n \in Int /\ Cardinality(U) - n <= b
  <2>1. TAKE U, W, n
  <2>2. SUFFICES ASSUME IsFiniteSet(U), IsFiniteSet(W), n \in Int, Fit(U, W, n)
                 PROVE  Cardinality(U) - n \in Int /\ Cardinality(U) - n <= b
      OBVIOUS
  <2>3. Cardinality(U) \in Nat /\ Cardinality(W) \in Nat
      BY <2>2, FS_CardinalityType
  <2>. QED
      BY <1>3, <1>4, <2>2, <2>3 DEF Fit
<1>6. PICK S1 : S1 = {Cardinality(UsesOf(c)) - voucher[c].total :
                        c \in {x \in Codes : voucher[x].total # Null}}
    OBVIOUS
<1>7. PICK S2 : S2 = {Cardinality(UsesBy(p[1], p[2])) - voucher[p[1]].perUser :
                        p \in {x \in Codes \X Customers : voucher[x[1]].perUser # Null}}
    OBVIOUS
<1>8. PICK S3 : S3 = {Cardinality({o \in OrdersOf(c) : orders[o].free})
                        - (offer.maxOrders + extra[c]) : c \in Customers}
    OBVIOUS
<1>9. \A e \in S1 : e \in Int /\ e <= b
    BY <1>2, <1>5, <1>6, AllFinite, LimitTypes DEF AllFit
<1>10. \A e \in S2 : e \in Int /\ e <= b
  <2>1. TAKE e \in S2
  <2>2. PICK x \in Codes, c \in Customers :
          /\ voucher[x].perUser # Null
          /\ e = Cardinality(UsesBy(x, c)) - voucher[x].perUser
      BY <1>7
  <2>3. Fit(UsesBy(x, c), UserTakers(x, c), voucher[x].perUser)
      BY <1>2, <2>2 DEF AllFit
  <2>4. voucher[x].perUser \in Int
      BY <1>2, <2>2, LimitTypes
  <2>5. IsFiniteSet(UsesBy(x, c)) /\ IsFiniteSet(UserTakers(x, c))
      BY AllFinite
  <2>. QED
      BY <1>5, <2>2, <2>3, <2>4, <2>5
<1>11. \A e \in S3 : e \in Int /\ e <= b
  <2>1. TAKE e \in S3
  <2>2. PICK c \in Customers : e = Cardinality(FreeOrders(c)) - Allowed(c)
      BY <1>8 DEF FreeOrders, Allowed
  <2>3. Fit(FreeOrders(c), FreeTakers(c), Allowed(c)) /\ Allowed(c) \in Int
      BY <1>2, LimitTypes DEF AllFit
  <2>4. IsFiniteSet(FreeOrders(c)) /\ IsFiniteSet(FreeTakers(c))
      BY AllFinite
  <2>. QED
      BY <1>5, <2>2, <2>3, <2>4
<1>12. PICK S : S = {0} \cup S1 \cup S2 \cup S3
    OBVIOUS
<1>13. S \in SUBSET Int /\ S # {} /\ \A e \in S : e <= b
    BY <1>4, <1>9, <1>10, <1>11, <1>12
<1>14. Max(S) \in S
    BY <1>4, <1>13, BoundedHasMax
<1>15. Excess = Max(S)
    BY <1>6, <1>7, <1>8, <1>12 DEF Excess
<1>. QED
    BY <1>3, <1>13, <1>14, <1>15 DEF Slack

(* The history variables of MCCheckout watch and do not act.               *)
LEMMA CheckoutHistoryOnlyWatches == MCCheckoutSpec => CheckoutSpec
<1>1. MCCheckoutInit => CheckoutInit
    BY DEF MCCheckoutInit
<1>2. [MCCheckoutNext]_<<checkoutVars, oneRun, edited, revived>> => [CheckoutNext]_checkoutVars
    BY DEF MCCheckoutNext
<1>. QED
    BY <1>1, <1>2, PTL DEF MCCheckoutSpec, CheckoutSpec

(* As long as nobody edits a limit or revives an order, no voucher is used *)
(* more often than its total or its uses per customer allow and no         *)
(* customer                                                                *)
(* gets more free deliveries than offered, when checkouts run one after    *)
(* the                                                                     *)
(* other; when they overlap, by at most one less than the runs there are   *)
(* (validateVoucher and getFreeDeliveryStatus count before the insert).    *)
THEOREM LimitsAreKept == MCCheckoutSpec => []LimitsKept
<1>1. MCCheckoutSpec => []CheckoutInv
    BY CheckoutHistoryOnlyWatches, CheckoutInvariant, PTL
<1>2. CheckoutInv /\ LimitInv => LimitsKept
    BY FitIsKept
<1>. QED
    BY <1>1, <1>2, LimitFirst, LimitStep, PTL DEF MCCheckoutSpec

=============================================================================
