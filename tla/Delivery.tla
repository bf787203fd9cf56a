------------------------------ MODULE Delivery ------------------------------
(***************************************************************************)
(* Finding a rider for one accepted order, and the delivery itself         *)
(* (DeliveryService with the timers of JobQueueService, and the calls of   *)
(* OrderService that change the order under its feet).  The order is       *)
(* offered to one online rider at a time; a rejection, an unanswered SLA   *)
(* or a rider going offline moves it to the next, and while nobody is      *)
(* available a retry timer keeps looking.                                  *)
(*                                                                         *)
(* Each awaited query is an action, except that the reads by which a rider *)
(* is chosen (earlier offers, online riders, their load) are one.  A call  *)
(* that its first read refuses changes nothing and is a stuttering step.   *)
(* "waiting" stands for vendor_accepted, preparing, ready and handed_over. *)
(***************************************************************************)
EXTENDS Integers, Sequences, FiniteSets

CONSTANTS
    Riders,
    Slots,        \* handler executions that may be in progress at once
    MaxRows,      \* bound on the delivery_assignments rows of the order
    MaxSettled,   \* bound on the settlements written for the order
    Calls         \* which calls a run makes

NoRider == "none"

ASSUME DeliveryAssumption ==
    /\ MaxRows \in Nat
    /\ MaxSettled \in Nat
    /\ NoRider \notin Riders

VARIABLES
    status,    \* the order's status
    rider,     \* the order's deliveryPartnerId
    offers,    \* its delivery_assignments rows, in the order of insertion
    timers,    \* offers whose SLA timer is armed
    retry,     \* is the order's retry-assignment timer armed?
    online,    \* riders with isOnline
    full,      \* riders that carry MAX_CONCURRENT_DELIVERIES other orders
    settled,   \* settlements written for the order
    run        \* [Slots -> the handler execution in progress]

orderVars == <<status, rider>>
riderVars == <<online, full>>
timerVars == <<timers, retry>>
vars == <<orderVars, offers, timerVars, riderVars, settled, run>>

InDelivery == {"delivery_assigned", "picked_up", "out_for_delivery"}
Statuses == {"placed", "waiting", "delivered", "cancelled"} \cup InDelivery

(* timeout and rejected are one outcome: nothing tells them apart. *)
Outcomes == {"pending", "accepted", "declined"}
Offer == [rider: Riders, no: Nat, outcome: Outcomes]

Steps == {"idle", "list", "trigger", "existing", "find", "create", "arm",
          "drop", "reassign", "next", "accept", "assign", "offline", "open",
          "record", "hand", "write", "revoke", "move", "deliver", "settle"}

(* offer: the assignment the handler is about; todo: those it still has to *)
(* drop; rider: the one it has chosen; seen: a status it has read or will  *)
(* write.                                                                  *)
Execution == [at: Steps, offer: Nat, todo: SUBSET Nat,
              rider: Riders \cup {NoRider}, seen: Statuses]

Doing(p, a, todo, r, s) ==
    [at |-> p, offer |-> a, todo |-> todo, rider |-> r, seen |-> s]
At(p) == Doing(p, 0, {}, NoRider, "placed")
Idle == At("idle")

TypeOK ==
    /\ status \in Statuses
    /\ rider \in Riders \cup {NoRider}
    /\ offers \in Seq(Offer)
    /\ timers \subseteq DOMAIN offers
    /\ retry \in BOOLEAN
    /\ online \subseteq Riders /\ full \subseteq Riders
    /\ settled \in Nat
    /\ run \in [Slots -> Execution]

Init ==
    /\ status = "waiting"
    /\ rider = NoRider
    /\ offers = <<>>
    /\ timers = {}
    /\ retry = FALSE
    /\ online \in SUBSET Riders
    /\ full = {}
    /\ settled = 0
    /\ run = [h \in Slots |-> Idle]

Becomes(h, x) == run' = [run EXCEPT ![h] = x]
Starts(h, c, x) == c \in Calls /\ run[h] = Idle /\ Becomes(h, x)

WithOutcome(o) == {a \in DOMAIN offers : offers[a].outcome = o}
Pending == WithOutcome("pending")

SetOutcome(a, o) == offers' = [offers EXCEPT ![a] =
                        [rider |-> @.rider, no |-> @.no, outcome |-> o]]

-----------------------------------------------------------------------------
(* triggerAssignment *)

(* assignWaitingOrders: on a location ping, a rider coming online, or      *)
(* another delivery done.                                                  *)
UpdateLocation(h) ==
    /\ online # {}
    /\ Starts(h, "ping", At("list"))
    /\ UNCHANGED <<orderVars, offers, timerVars, riderVars, settled>>

ListWaiting(h) ==
    /\ run[h].at = "list"
    /\ Becomes(h, IF status = "waiting" THEN At("trigger") ELSE Idle)
    /\ UNCHANGED <<orderVars, offers, timerVars, riderVars, settled>>

FireRetry(h) ==
    /\ run[h] = Idle
    /\ retry
    /\ retry' = FALSE
    /\ Becomes(h, At("trigger"))
    /\ UNCHANGED <<orderVars, offers, timers, riderVars, settled>>

ReadOrder(h) ==
    /\ run[h].at = "trigger"
    /\ IF status = "cancelled" \/ rider # NoRider
       THEN retry' = FALSE /\ Becomes(h, Idle)
       ELSE retry' = retry /\ Becomes(h, At("existing"))
    /\ UNCHANGED <<orderVars, offers, timers, riderVars, settled>>

NobodyOffered == Pending \cup WithOutcome("accepted") = {}

ReadExisting(h) ==
    /\ run[h].at = "existing"
    /\ Becomes(h, IF NobodyOffered THEN At("find") ELSE Idle)
    /\ UNCHANGED <<orderVars, offers, timerVars, riderVars, settled>>

(* findNearestOnlinePartner: which of the candidates is nearest is open. *)
Candidates(excluded) == (online \ full) \ excluded

(* Mutant: an order nobody can take is left alone. *)
NotRetried == retry' = retry

ScheduleRetry == retry' = TRUE

(* With nobody left to drop, the handler is done. *)
Continues(todo) ==
    IF todo = {} THEN Idle ELSE Doing("drop", 0, todo, NoRider, "placed")

(* With candidates S: offer the order to one of them after the offer       *)
(* "after", or try again in 30 seconds.                                    *)
OfferTo(h, S, after, todo) ==
    \/ /\ S # {}
       /\ retry' = FALSE
       /\ \E r \in S : Becomes(h, Doing("create", after, todo, r, "placed"))
    \/ /\ S = {}
       /\ ScheduleRetry
       /\ Becomes(h, Continues(todo))

FindRider(h) ==
    /\ run[h].at = "find"
    /\ OfferTo(h, Candidates({}), 0, {})
    /\ UNCHANGED <<orderVars, offers, timers, riderVars, settled>>

(* The attempt number of the offer that follows offer a (0: a first one). *)
NextNo(a) == IF a = 0 THEN 1 ELSE offers[a].no + 1

CreateAssignment(h) ==
    /\ run[h].at = "create"
    /\ Len(offers) < MaxRows
    /\ offers' = Append(offers, [rider |-> run[h].rider, no |-> NextNo(run[h].offer),
                                 outcome |-> "pending"])
    /\ Becomes(h, Doing("arm", Len(offers) + 1, run[h].todo, NoRider, "placed"))
    /\ UNCHANGED <<orderVars, timerVars, riderVars, settled>>

ArmTimer(h) ==
    /\ run[h].at = "arm"
    /\ timers' = timers \cup {run[h].offer}
    /\ Becomes(h, Continues(run[h].todo))
    /\ UNCHANGED <<orderVars, offers, retry, riderVars, settled>>

-----------------------------------------------------------------------------
(* An offer ends without an acceptance: handleTimeout, reject, setOnline.  *)

FireTimer(h, a) ==
    /\ run[h] = Idle
    /\ a \in timers
    /\ timers' = timers \ {a}
    /\ Becomes(h, IF a \in Pending THEN Doing("drop", 0, {a}, NoRider, "placed") ELSE Idle)
    /\ UNCHANGED <<orderVars, offers, retry, riderVars, settled>>

RiderRejects(h, a) ==
    /\ a \in Pending
    /\ Starts(h, "reject", Doing("drop", 0, {a}, NoRider, "placed"))
    /\ UNCHANGED <<orderVars, offers, timerVars, riderVars, settled>>

GoOffline(h, r) ==
    /\ Starts(h, "online", Doing("offline", 0, {}, r, "placed"))
    /\ online' = online \ {r}
    /\ UNCHANGED <<orderVars, offers, timerVars, full, settled>>

ReadOffers(h) ==
    LET own == {a \in Pending : offers[a].rider = run[h].rider} IN
    /\ run[h].at = "offline"
    /\ Becomes(h, Continues(own))
    /\ UNCHANGED <<orderVars, offers, timerVars, riderVars, settled>>

GoOnline(h, r) ==
    /\ Starts(h, "online", At("list"))
    /\ online' = online \cup {r}
    /\ UNCHANGED <<orderVars, offers, timerVars, full, settled>>

(* Cancel the offer's timer, write its outcome, look for the next rider.   *)
(* The outcome is written by id, whatever it has become.                   *)
DropOffer(h) ==
    /\ run[h].at = "drop"
    /\ \E a \in run[h].todo :
          /\ timers' = timers \ {a}
          /\ SetOutcome(a, "declined")
          /\ Becomes(h, Doing("reassign", a, run[h].todo \ {a}, NoRider, "placed"))
    /\ UNCHANGED <<orderVars, retry, riderVars, settled>>

ReassignOrder(h) ==
    LET stop == Continues(run[h].todo)
        taken == rider # NoRider \/ status \in InDelivery \cup {"delivered"}
    IN  /\ run[h].at = "reassign"
        /\ IF status = "cancelled" THEN retry' = retry /\ Becomes(h, stop)
           ELSE IF taken THEN retry' = FALSE /\ Becomes(h, stop)
           ELSE retry' = retry /\ Becomes(h, [run[h] EXCEPT !.at = "next"])
        /\ UNCHANGED <<orderVars, offers, timers, riderVars, settled>>

(* A round starts at the latest attempt 1 up to the offer a. *)
Firsts(a) == {i \in DOMAIN offers : offers[i].no = 1 /\ i <= a}
TriedInRound(a) ==
    {offers[i].rider : i \in {j \in DOMAIN offers : \A k \in Firsts(a) : k <= j}}

(* The riders not tried in this round; then all but the last; then all.    *)
NextCandidates(a) ==
    IF Candidates(TriedInRound(a)) # {} THEN Candidates(TriedInRound(a))
    ELSE IF Candidates({offers[a].rider}) # {} THEN Candidates({offers[a].rider})
    ELSE Candidates({})

FindNext(h) ==
    /\ run[h].at = "next"
    /\ OfferTo(h, NextCandidates(run[h].offer), run[h].offer, run[h].todo)
    /\ UNCHANGED <<orderVars, offers, timers, riderVars, settled>>

-----------------------------------------------------------------------------
(* accept *)

RiderAccepts(h, a) ==
    /\ a \in Pending
    /\ Starts(h, "accept", Doing("accept", a, {}, offers[a].rider, "placed"))
    /\ UNCHANGED <<orderVars, offers, timerVars, riderVars, settled>>

WriteAccepted(h) ==
    /\ run[h].at = "accept"
    /\ timers' = timers \ {run[h].offer}
    /\ retry' = FALSE
    /\ SetOutcome(run[h].offer, "accepted")
    /\ Becomes(h, [run[h] EXCEPT !.at = "assign"])
    /\ UNCHANGED <<orderVars, riderVars, settled>>

AssignOrder(h) ==
    /\ run[h].at = "assign"
    /\ status' = "delivery_assigned"
    /\ rider' = run[h].rider
    /\ Becomes(h, Idle)
    /\ UNCHANGED <<offers, timerVars, riderVars, settled>>

-----------------------------------------------------------------------------
(* adminAssignPartner *)

AdminAssigns(h, r) ==
    /\ status \in {"waiting"} \cup InDelivery
    /\ r \in online
    /\ r # rider
    /\ Starts(h, "adminAssign", Doing("open", 0, {}, r, status))
    /\ UNCHANGED <<orderVars, offers, timerVars, riderVars, settled>>

(* Mutant: an earlier acceptance is left standing. *)
PendingOnly == Pending

OpenOffers == Pending \cup WithOutcome("accepted")

(* "Drop live offers and any earlier acceptance" *)
ReadOpen(h) ==
    /\ run[h].at = "open"
    /\ Becomes(h, Doing("record", 0, OpenOffers, run[h].rider, run[h].seen))
    /\ UNCHANGED <<orderVars, offers, timerVars, riderVars, settled>>

DropOpen(h) ==
    /\ run[h].at = "record"
    /\ \E a \in run[h].todo :
          /\ timers' = timers \ {a}
          /\ SetOutcome(a, "declined")
          /\ Becomes(h, [run[h] EXCEPT !.todo = @ \ {a}])
    /\ UNCHANGED <<orderVars, retry, riderVars, settled>>

IsNextNo(n) ==
    /\ \A a \in DOMAIN offers : offers[a].no < n
    /\ n = 1 \/ \E a \in DOMAIN offers : offers[a].no = n - 1

RecordAcceptance(h) ==
    /\ run[h].at = "record"
    /\ run[h].todo = {}
    /\ Len(offers) < MaxRows
    /\ \E n \in 1 .. Len(offers) + 1 :
          /\ IsNextNo(n)
          /\ offers' = Append(offers, [rider |-> run[h].rider, no |-> n,
                                       outcome |-> "accepted"])
    /\ retry' = FALSE
    /\ Becomes(h, [run[h] EXCEPT !.at = "hand"])
    /\ UNCHANGED <<orderVars, timers, riderVars, settled>>

HandOver(h) ==
    /\ run[h].at = "hand"
    /\ rider' = run[h].rider
    /\ status' = IF run[h].seen \in InDelivery THEN status ELSE "delivery_assigned"
    /\ Becomes(h, Idle)
    /\ UNCHANGED <<offers, timerVars, riderVars, settled>>

-----------------------------------------------------------------------------
(* The order's status: each call reads it and later writes another one.    *)

NextStatus(s) == CASE s = "delivery_assigned" -> "picked_up"
                   [] s = "picked_up" -> "out_for_delivery"
                   [] OTHER -> s

Writing(s) == Doing("write", 0, {}, NoRider, s)

(* The vendor moves on within "waiting"; the rider advances the delivery.  *)
Advance(h) ==
    /\ \/ status = "waiting"
       \/ status \in {"delivery_assigned", "picked_up"} /\ rider # NoRider
    /\ Starts(h, "advance", Writing(NextStatus(status)))
    /\ UNCHANGED <<orderVars, offers, timerVars, riderVars, settled>>

(* setOrderStatusByAdmin *)
AdminSets(h, s) ==
    /\ status \notin {"placed", "cancelled", "delivered"}
    /\ s \in InDelivery => rider # NoRider /\ s # status
    /\ Starts(h, "adminSet", Writing(s))
    /\ UNCHANGED <<orderVars, offers, timerVars, riderVars, settled>>

Cancel(h) ==
    /\ status \notin {"delivered", "cancelled"}
    /\ Starts(h, "cancel", Writing("cancelled"))
    /\ UNCHANGED <<orderVars, offers, timerVars, riderVars, settled>>

Restore(h) ==
    /\ status = "cancelled"
    /\ Starts(h, "restore", Writing("placed"))
    /\ UNCHANGED <<orderVars, offers, timerVars, riderVars, settled>>

(* Preparing, ready and handed_over start the search. *)
WriteStatus(h) ==
    /\ run[h].at = "write"
    /\ status' = run[h].seen
    /\ \/ Becomes(h, Idle)
       \/ run[h].seen = "waiting" /\ Becomes(h, At("trigger"))
    /\ UNCHANGED <<rider, offers, timerVars, riderVars, settled>>

(* changeOrderVendor.  An order that has a rider loses its offers and      *)
(* acceptances first; their timers stay armed.                             *)
ChangeVendor(h) ==
    /\ status \in {"placed", "waiting", "delivery_assigned"}
    /\ Starts(h, "changeVendor", At(IF rider = NoRider THEN "move" ELSE "revoke"))
    /\ UNCHANGED <<orderVars, offers, timerVars, riderVars, settled>>

RevokeOffers(h) ==
    /\ run[h].at = "revoke"
    /\ offers' = [a \in DOMAIN offers |->
                     IF a \in OpenOffers
                     THEN [rider |-> offers[a].rider, no |-> offers[a].no, outcome |-> "declined"]
                     ELSE offers[a]]
    /\ Becomes(h, At("move"))
    /\ UNCHANGED <<orderVars, timerVars, riderVars, settled>>

(* Only then is the new vendor looked at: he may be unknown, or the one    *)
(* who has the order already, and the call is refused.                     *)
MoveOrder(h) ==
    /\ run[h].at = "move"
    /\ \/ status' = "placed" /\ rider' = NoRider
       \/ UNCHANGED orderVars
    /\ Becomes(h, Idle)
    /\ UNCHANGED <<offers, timerVars, riderVars, settled>>

VendorAccepts ==
    /\ status = "placed"
    /\ status' = "waiting"
    /\ UNCHANGED <<rider, offers, timerVars, riderVars, settled, run>>

(* Mutant: the rider's own order may be completed again. *)
OwnOrder == rider # NoRider

(* The rider enters the customer's code; the admin does without. *)
Deliverable ==
    \/ status = "out_for_delivery"
    \/ "adminSet" \in Calls /\ status \in {"waiting"} \cup InDelivery

(* verifyDelivery, adminCompleteDelivery *)
Complete(h) ==
    /\ rider # NoRider
    /\ Deliverable
    /\ Starts(h, "complete", At("deliver"))
    /\ UNCHANGED <<orderVars, offers, timerVars, riderVars, settled>>

WriteDelivered(h) ==
    /\ run[h].at = "deliver"
    /\ status' = "delivered"
    /\ Becomes(h, At("settle"))
    /\ UNCHANGED <<rider, offers, timerVars, riderVars, settled>>

GenerateSettlement(h) ==
    /\ run[h].at = "settle"
    /\ settled < MaxSettled
    /\ settled' = settled + 1
    /\ Becomes(h, At("list"))
    /\ UNCHANGED <<orderVars, offers, timerVars, riderVars>>

-----------------------------------------------------------------------------
(* Other orders fill a rider up and free him again. *)
Load(r) ==
    /\ "load" \in Calls
    /\ full' = IF r \in full THEN full \ {r} ELSE full \cup {r}
    /\ UNCHANGED <<orderVars, offers, timerVars, online, settled, run>>

Restart ==
    /\ "restart" \in Calls
    /\ timers' = {}
    /\ retry' = FALSE
    /\ run' = [h \in Slots |-> Idle]
    /\ UNCHANGED <<orderVars, offers, riderVars, settled>>

Continue(h) ==
    \/ ListWaiting(h) \/ ReadOrder(h) \/ ReadExisting(h) \/ FindRider(h)
    \/ CreateAssignment(h) \/ ArmTimer(h)
    \/ ReadOffers(h) \/ DropOffer(h) \/ ReassignOrder(h) \/ FindNext(h)
    \/ WriteAccepted(h) \/ AssignOrder(h)
    \/ ReadOpen(h) \/ DropOpen(h) \/ RecordAcceptance(h) \/ HandOver(h)
    \/ WriteStatus(h) \/ RevokeOffers(h) \/ MoveOrder(h)
    \/ WriteDelivered(h) \/ GenerateSettlement(h)

Call(h) ==
    \/ UpdateLocation(h)
    \/ \E a \in DOMAIN offers : RiderRejects(h, a) \/ RiderAccepts(h, a)
    \/ \E r \in Riders : GoOffline(h, r) \/ GoOnline(h, r) \/ AdminAssigns(h, r)
    \/ Advance(h) \/ Cancel(h) \/ Complete(h)
    \/ \E s \in {"waiting"} \cup InDelivery : AdminSets(h, s)

Timer(h) == FireRetry(h) \/ \E a \in DOMAIN offers : FireTimer(h, a)

Proceed ==
    \/ \E h \in Slots : Continue(h) \/ Call(h) \/ Timer(h)
    \/ \E r \in Riders : Load(r)
    \/ VendorAccepts

(* What takes the order out of the riders' hands. *)
Disturb == Restart \/ \E h \in Slots : ChangeVendor(h) \/ Restore(h)

Next == Proceed \/ Disturb

Spec == Init /\ [][Next]_vars

(* Handlers run to their end and armed timers fire.  A timer needs a free  *)
(* slot, which is a bound of the model and not of the code: strong         *)
(* fairness, so that other calls cannot keep it out.                       *)
Fairness ==
    /\ \A h \in Slots : WF_vars(Continue(h))
    /\ SF_vars(\E h \in Slots : FireRetry(h))
    /\ \A a \in 1 .. MaxRows : SF_vars(\E h \in Slots : a \in timers /\ FireTimer(h, a))

FairSpec == Spec /\ Fairness

-----------------------------------------------------------------------------
(* Properties *)

Quiet == \A h \in Slots : run[h] = Idle

(* Between handlers, the rider on the order is the one whose acceptance is *)
(* on record, and no other acceptance stands.                              *)
HeldByItsRider ==
    Quiet /\ rider # NoRider =>
        /\ WithOutcome("accepted") # {}
        /\ \A a \in WithOutcome("accepted") : offers[a].rider = rider

(* "settlements exist exactly once per OTP-verified delivery" *)
SettledOnce ==
    /\ settled <= 1
    /\ Quiet /\ status = "delivered" => settled = 1

(* While the process runs, a rider that was asked is never forgotten: the  *)
(* offer's timer is armed, or a handler at work will arm it or end it.     *)
Resolves(x, a) ==
    \/ x.at \in {"arm", "accept"} /\ x.offer = a
    \/ a \in x.todo

NoLostOffer ==
    \A a \in Pending : a \in timers \/ \E h \in Slots : Resolves(run[h], a)

(* "keep offering until accepted": once its search has begun, an order     *)
(* without a rider has an offer open, a retry timer armed, or a handler at *)
(* work that will see to it.                                               *)
Looking(x) ==
    x.at \in {"trigger", "existing", "find", "create", "reassign", "next",
                   "assign", "record", "hand"}

NeverForgotten ==
    status = "waiting" /\ rider = NoRider /\ offers # <<>> =>
        Pending # {} \/ retry \/ \E h \in Slots : Looking(run[h])

(* The same over time: as long as some rider stays available, an order     *)
(* without one is offered again after every refusal (up to MaxRows).       *)
Unassigned == status = "waiting" /\ rider = NoRider

KeepsOffering ==
    <>[](online \ full # {}) =>
        \A n \in 1 .. MaxRows - 1 :
            (Unassigned /\ Len(offers) = n) ~> (Len(offers) > n \/ ~Unassigned)

(* "any pending offer is dropped": when the admin hands the order to a     *)
(* rider, no other rider holds an offer for it.                            *)
HandedOverAlone ==
    [][\A h \in Slots : run[h].at = "hand" /\ run'[h] = Idle => Pending = {}]_vars

(* "A cancelled/failed order has to be restored first." *)
RestoredFirst ==
    [][status = "cancelled" => status' \in {"cancelled", "placed"}]_vars

Round(i) == (i - 1) \div Cardinality(Riders)

(* "offered to the next partner not yet tried in this round; once every    *)
(* online partner has been tried, we cycle": where all riders stay online, *)
(* each round of offers asks everybody once.                               *)
OffersCycle ==
    online = Riders => \A i, j \in DOMAIN offers :
        i # j /\ Round(i) = Round(j) => offers[i].rider # offers[j].rider
-----------------------------------------------------------------------------
(* The inductive invariants (DeliveryProofs). *)

(* What a handler is about to use, it has read or been given. *)
Grounded(x) ==
    /\ x.at \in {"arm", "accept", "reassign", "next"} => x.offer \in DOMAIN offers
    /\ x.at = "create" => x.offer \in DOMAIN offers \cup {0}
    /\ x.at \in {"create", "accept", "assign", "open", "record", "hand"} => x.rider \in Riders
    /\ x.todo \subseteq DOMAIN offers
    /\ x.todo # {} => x.at \in {"drop", "reassign", "next", "create", "arm", "record"}

RiderInv == TypeOK /\ \A h \in Slots : Grounded(run[h])

(* An acceptance on record belongs to an order with a rider, or about to   *)
(* be given one.                                                           *)
AcceptedIsHeld ==
    WithOutcome("accepted") # {} =>
        rider # NoRider \/ \E h \in Slots : run[h].at \in {"assign", "hand"}

(* An order without a rider waits or is cancelled, and nobody is about to  *)
(* write anything else.                                                    *)
WaitsOrCancelled ==
    /\ status # "placed"
    /\ rider = NoRider => status \in {"waiting", "cancelled"}

WritesInTurn(x) ==
    /\ x.at \notin {"revoke", "move"}
    /\ x.at = "deliver" => rider # NoRider
    /\ x.at = "write" =>
          /\ x.seen # "placed"
          /\ x.seen \in {"waiting", "cancelled"} \/ rider # NoRider

OfferedInv ==
    /\ NeverForgotten
    /\ AcceptedIsHeld
    /\ WaitsOrCancelled
    /\ \A h \in Slots : WritesInTurn(run[h])
=============================================================================
