--------------------------- MODULE DeliveryProofs ---------------------------
(***************************************************************************)
(* Proofs about the search of a rider for any riders, any number of        *)
(* handlers at work and any calls.  RiderInv is inductive by itself;       *)
(* NoLostOffer is inductive with it as long as the process does not        *)
(* restart, and OfferedInv as long as nothing disturbs the search, which   *)
(* is what the history of MCDelivery records.  What is on record of a rider*)
(* and of a settlement is kept as long as handlers have not overlapped:    *)
(* SerialInv always, CalmInv as long as nothing disturbs.                  *)
(***************************************************************************)
EXTENDS MCDelivery, TLAPS

(* The states a handler can be moved to. *)
LEMMA DoingIsGrounded ==
    ASSUME NEW p \in Steps, NEW a \in Nat, NEW todo \in SUBSET Nat,
           NEW r \in Riders \cup {NoRider}, NEW s \in Statuses,
           p \in {"arm", "accept", "reassign", "next"} => a \in DOMAIN offers,
           p = "create" => a \in DOMAIN offers \cup {0},
           p \in {"create", "accept", "assign", "open", "record", "hand"} => r \in Riders,
           todo \subseteq DOMAIN offers,
           todo # {} => p \in {"drop", "reassign", "next", "create", "arm", "record"}
    PROVE  Doing(p, a, todo, r, s) \in Execution /\ Grounded(Doing(p, a, todo, r, s))
BY DEF Doing, Execution, Grounded

LEMMA AtIsGrounded ==
    ASSUME NEW p \in {"idle", "list", "trigger", "existing", "find", "revoke", "move",
                    "deliver", "settle"}
    PROVE  At(p) \in Execution /\ Grounded(At(p))
BY DoingIsGrounded DEF At, Steps, Statuses

LEMMA ContinuesIsGrounded ==
    ASSUME NEW todo \in SUBSET Nat, todo \subseteq DOMAIN offers
    PROVE  Continues(todo) \in Execution /\ Grounded(Continues(todo))
<1>1. CASE todo = {}
    BY <1>1, AtIsGrounded DEF Continues, Idle
<1>2. CASE todo # {}
    BY <1>2, DoingIsGrounded DEF Continues, Steps, Statuses
<1>. QED
    BY <1>1, <1>2

(* A handler in the state x moves on to the step q. *)
LEMMA AdvancedIsGrounded ==
    ASSUME NEW x \in Execution, Grounded(x), NEW q \in Steps,
           q \in {"arm", "accept", "reassign", "next"} => x.offer \in DOMAIN offers,
           q # "create",
           q \in {"accept", "assign", "open", "record", "hand"} => x.rider \in Riders,
           x.todo # {} => q \in {"drop", "reassign", "next", "arm", "record"}
    PROVE  [x EXCEPT !.at = q] \in Execution /\ Grounded([x EXCEPT !.at = q])
BY DEF Execution, Grounded

(* The facts every case below starts from. *)
LEMMA Known ==
    ASSUME RiderInv, NEW h \in Slots
    PROVE  /\ run[h] \in Execution /\ Grounded(run[h])
           /\ run[h].offer \in Nat /\ run[h].todo \in SUBSET Nat
           /\ run[h].todo \subseteq DOMAIN offers
           /\ run[h].rider \in Riders \cup {NoRider} /\ run[h].seen \in Statuses
           /\ status \in Statuses /\ rider \in Riders \cup {NoRider}
           /\ offers \in Seq(Offer)
           /\ timers \subseteq DOMAIN offers
           /\ retry \in BOOLEAN /\ settled \in Nat
           /\ online \subseteq Riders /\ full \subseteq Riders
           /\ DOMAIN offers \subseteq Nat
           /\ \A a \in DOMAIN offers : offers[a] \in Offer
           /\ Idle \in Execution /\ Grounded(Idle)
<1>1. Idle \in Execution /\ Grounded(Idle)
    BY AtIsGrounded DEF Idle
<1>. QED
    BY <1>1 DEF RiderInv, TypeOK, Execution, Grounded

(* A step that moves one handler on, leaves the offers alone and keeps the *)
(* other variables in their types, keeps RiderInv.                         *)
LEMMA HandlerStep ==
    ASSUME RiderInv, NEW h \in Slots, NEW x \in Execution, Grounded(x),
           Becomes(h, x), UNCHANGED offers, timers' \subseteq DOMAIN offers,
           status' \in Statuses, rider' \in Riders \cup {NoRider},
           retry' \in BOOLEAN, online' \subseteq Riders, full' \subseteq Riders,
           settled' \in Nat
    PROVE  RiderInv'
<1>1. TypeOK'
    BY DEF RiderInv, TypeOK, Becomes
<1>2. ASSUME NEW g \in Slots PROVE Grounded(run[g])'
    BY <1>2 DEF RiderInv, TypeOK, Becomes, Grounded
<1>. QED
    BY <1>1, <1>2 DEF RiderInv

(* Writing an outcome leaves everything else of the offers as it is. *)
LEMMA OutcomeWritten ==
    ASSUME RiderInv, NEW a \in DOMAIN offers, NEW o \in Outcomes, SetOutcome(a, o)
    PROVE  /\ offers' \in Seq(Offer)
           /\ DOMAIN offers' = DOMAIN offers
           /\ offers'[a].outcome = o
           /\ \A b \in DOMAIN offers : b # a => offers'[b] = offers[b]
<1>1. offers \in Seq(Offer) /\ offers[a] \in Offer
    BY DEF RiderInv, TypeOK
<1>2. [rider |-> offers[a].rider, no |-> offers[a].no, outcome |-> o] \in Offer
    BY <1>1 DEF Offer
<1>3. offers' = [offers EXCEPT ![a] =
          [rider |-> offers[a].rider, no |-> offers[a].no, outcome |-> o]]
    BY DEF SetOutcome
<1>. QED
    BY <1>1, <1>2, <1>3

LEMMA OutcomeStep ==
    ASSUME RiderInv, NEW h \in Slots, NEW x \in Execution, Grounded(x),
           Becomes(h, x), NEW a \in DOMAIN offers, NEW o \in Outcomes,
           SetOutcome(a, o), timers' \subseteq timers, retry' \in BOOLEAN,
           UNCHANGED <<status, rider, online, full, settled>>
    PROVE  RiderInv'
<1>1. offers' \in Seq(Offer) /\ DOMAIN offers' = DOMAIN offers
    BY OutcomeWritten
<1>2. TypeOK'
    BY <1>1 DEF RiderInv, TypeOK, Becomes
<1>3. ASSUME NEW g \in Slots PROVE Grounded(run[g])'
    BY <1>1, <1>3 DEF RiderInv, TypeOK, Becomes, Grounded
<1>. QED
    BY <1>2, <1>3 DEF RiderInv

(* Inserting a row. *)
LEMMA RowAppended ==
    ASSUME RiderInv, NEW row \in Offer, offers' = Append(offers, row)
    PROVE  /\ offers' \in Seq(Offer)
           /\ Len(offers) + 1 \in Nat /\ Len(offers) + 1 \notin DOMAIN offers
           /\ DOMAIN offers' = DOMAIN offers \cup {Len(offers) + 1}
           /\ offers'[Len(offers) + 1] = row
           /\ \A b \in DOMAIN offers : offers'[b] = offers[b]
BY DEF RiderInv, TypeOK

LEMMA AppendStep ==
    ASSUME RiderInv, NEW h \in Slots, NEW x \in Execution, Grounded(x)',
           Becomes(h, x), NEW row \in Offer, offers' = Append(offers, row),
           timers' = timers, retry' \in BOOLEAN,
           UNCHANGED <<status, rider, online, full, settled>>
    PROVE  RiderInv'
<1>1. /\ offers' \in Seq(Offer)
      /\ DOMAIN offers \subseteq DOMAIN offers'
    BY RowAppended
<1>2. TypeOK'
    BY <1>1 DEF RiderInv, TypeOK, Becomes
<1>3. ASSUME NEW g \in Slots PROVE Grounded(run[g])'
    <2>1. CASE g = h
        BY <2>1 DEF RiderInv, TypeOK, Becomes
    <2>2. CASE g # h
        BY <2>2, <1>1 DEF RiderInv, TypeOK, Becomes, Grounded
    <2>. QED
        BY <2>1, <2>2
<1>. QED
    BY <1>2, <1>3 DEF RiderInv

(* OfferTo chooses one of the riders S, or arms the retry timer. *)
LEMMA OfferToStep ==
    ASSUME RiderInv, NEW h \in Slots, NEW S \in SUBSET Riders,
           NEW a \in DOMAIN offers \cup {0}, NEW todo \in SUBSET Nat,
           todo \subseteq DOMAIN offers, OfferTo(h, S, a, todo),
           UNCHANGED <<orderVars, offers, timers, riderVars, settled>>
    PROVE  RiderInv'
<1>. USE Known
<1>1. UNCHANGED <<status, rider, offers, timers, online, full, settled>>
    BY DEF orderVars, riderVars
<1>2. ASSUME NEW r \in S, retry' = FALSE, Becomes(h, Doing("create", a, todo, r, "placed"))
      PROVE  RiderInv'
    <2>1. /\ Doing("create", a, todo, r, "placed") \in Execution
          /\ Grounded(Doing("create", a, todo, r, "placed"))
        BY DoingIsGrounded DEF Steps, Statuses
    <2>. QED
        BY <1>1, <1>2, <2>1, HandlerStep
<1>3. CASE ScheduleRetry /\ Becomes(h, Continues(todo))
    BY <1>1, <1>3, ContinuesIsGrounded, HandlerStep DEF ScheduleRetry
<1>. QED
    BY <1>2, <1>3 DEF OfferTo

(* triggerAssignment, createAssignment *)
LEMMA TriggerStep ==
    ASSUME RiderInv, NEW h \in Slots,
           \/ ListWaiting(h) \/ ReadOrder(h) \/ ReadExisting(h) \/ FindRider(h)
           \/ CreateAssignment(h) \/ ArmTimer(h)
    PROVE  RiderInv'
<1>. USE Known
<1>1. CASE ListWaiting(h)
    BY <1>1, AtIsGrounded, HandlerStep DEF ListWaiting, orderVars, timerVars, riderVars
<1>2. CASE ReadOrder(h)
    <2>1. retry' \in BOOLEAN
        BY <1>2 DEF ReadOrder
    <2>. QED
        BY <1>2, <2>1, AtIsGrounded, HandlerStep DEF ReadOrder, orderVars, riderVars
<1>3. CASE ReadExisting(h)
    BY <1>3, AtIsGrounded, HandlerStep DEF ReadExisting, orderVars, timerVars, riderVars
<1>4. CASE FindRider(h)
    <2>1. Candidates({}) \in SUBSET Riders
        BY DEF Candidates
    <2>. QED
        BY <1>4, <2>1, OfferToStep DEF FindRider
<1>5. CASE CreateAssignment(h)
    <2>. DEFINE row == [rider |-> run[h].rider, no |-> NextNo(run[h].offer),
                        outcome |-> "pending"]
                x == Doing("arm", Len(offers) + 1, run[h].todo, NoRider, "placed")
    <2>1. run[h].rider \in Riders /\ run[h].offer \in DOMAIN offers \cup {0}
        BY <1>5 DEF CreateAssignment, Grounded
    <2>2. NextNo(run[h].offer) \in Nat
        BY <2>1 DEF NextNo, Offer
    <2>3. row \in Offer
        BY <2>1, <2>2 DEF Offer, Outcomes
    <2>4. offers' = Append(offers, row)
        BY <1>5 DEF CreateAssignment
    <2>5. /\ Len(offers) + 1 \in Nat
          /\ DOMAIN offers' = DOMAIN offers \cup {Len(offers) + 1}
        BY <2>3, <2>4, RowAppended
    <2>6. /\ x \in Execution
          /\ x.at = "arm" /\ x.offer = Len(offers) + 1 /\ x.todo = run[h].todo
        <3>1. run[h].todo \in SUBSET Nat
            OBVIOUS
        <3>. QED
            BY <2>5, <3>1 DEF Doing, Execution, Steps, Statuses
    <2>. HIDE DEF x
    <2>7. PICK y \in Execution :
              /\ y = x
              /\ y.at = "arm" /\ y.offer = Len(offers) + 1 /\ y.todo = run[h].todo
        BY <2>6
    <2>8. Grounded(y)'
        <3>1. run[h].todo \subseteq DOMAIN offers
            OBVIOUS
        <3>. QED
            BY <2>5, <2>7, <3>1 DEF Grounded
    <2>9. Becomes(h, y) /\ UNCHANGED <<status, rider, timers, retry, online, full, settled>>
        BY <1>5, <2>7 DEF CreateAssignment, orderVars, timerVars, riderVars, x
    <2>. HIDE DEF row
    <2>. QED
        BY <2>3, <2>4, <2>8, <2>9, AppendStep
<1>6. CASE ArmTimer(h)
    <2>1. timers' \subseteq DOMAIN offers
        BY <1>6 DEF ArmTimer, Grounded
    <2>. QED
        BY <1>6, <2>1, ContinuesIsGrounded, HandlerStep DEF ArmTimer, orderVars, riderVars
<1>. QED
    BY <1>1, <1>2, <1>3, <1>4, <1>5, <1>6

(* handleTimeout, reject, setOnline, reassign *)
LEMMA RefusalStep ==
    ASSUME RiderInv, NEW h \in Slots,
           \/ \E a \in DOMAIN offers : FireTimer(h, a) \/ RiderRejects(h, a)
           \/ \E r \in Riders : GoOffline(h, r) \/ GoOnline(h, r)
           \/ ReadOffers(h) \/ DropOffer(h) \/ ReassignOrder(h) \/ FindNext(h)
    PROVE  RiderInv'
<1>. USE Known
<1>1. ASSUME NEW a \in DOMAIN offers
      PROVE  /\ Doing("drop", 0, {a}, NoRider, "placed") \in Execution
             /\ Grounded(Doing("drop", 0, {a}, NoRider, "placed"))
    BY <1>1, DoingIsGrounded DEF Steps, Statuses
<1>2. ASSUME NEW a \in DOMAIN offers, FireTimer(h, a) PROVE RiderInv'
    <2>1. CASE a \in Pending
        BY <1>1, <1>2, <2>1, HandlerStep DEF FireTimer, orderVars, riderVars
    <2>2. CASE a \notin Pending
        BY <1>2, <2>2, HandlerStep DEF FireTimer, orderVars, riderVars
    <2>. QED
        BY <2>1, <2>2
<1>3. ASSUME NEW a \in DOMAIN offers, RiderRejects(h, a) PROVE RiderInv'
    BY <1>1, <1>3, HandlerStep DEF RiderRejects, Starts, orderVars, timerVars, riderVars
<1>4. ASSUME NEW r \in Riders, GoOffline(h, r) PROVE RiderInv'
    <2>1. /\ Doing("offline", 0, {}, r, "placed") \in Execution
          /\ Grounded(Doing("offline", 0, {}, r, "placed"))
        BY DoingIsGrounded DEF Steps, Statuses
    <2>2. online' \subseteq Riders
        BY <1>4 DEF GoOffline
    <2>. QED
        BY <1>4, <2>1, <2>2, HandlerStep DEF GoOffline, Starts, orderVars, timerVars
<1>5. ASSUME NEW r \in Riders, GoOnline(h, r) PROVE RiderInv'
    <2>1. online' \subseteq Riders
        BY <1>5 DEF GoOnline
    <2>. QED
        BY <1>5, <2>1, AtIsGrounded, HandlerStep DEF GoOnline, Starts, orderVars, timerVars
<1>6. CASE ReadOffers(h)
    <2>. DEFINE own == {a \in Pending : offers[a].rider = run[h].rider}
    <2>1. own \in SUBSET Nat /\ own \subseteq DOMAIN offers
        BY DEF Pending, WithOutcome
    <2>2. Becomes(h, Continues(own))
        BY <1>6 DEF ReadOffers
    <2>3. UNCHANGED <<status, rider, offers, timers, retry, online, full, settled>>
        BY <1>6 DEF ReadOffers, orderVars, timerVars, riderVars
    <2>. HIDE DEF own
    <2>. QED
        BY <2>1, <2>2, <2>3, ContinuesIsGrounded, HandlerStep
<1>7. CASE DropOffer(h)
    <2>1. PICK a \in run[h].todo :
              /\ timers' = timers \ {a}
              /\ SetOutcome(a, "declined")
              /\ Becomes(h, Doing("reassign", a, run[h].todo \ {a}, NoRider, "placed"))
        BY <1>7 DEF DropOffer
    <2>2. a \in DOMAIN offers
        BY <2>1
    <2>3. /\ Doing("reassign", a, run[h].todo \ {a}, NoRider, "placed") \in Execution
          /\ Grounded(Doing("reassign", a, run[h].todo \ {a}, NoRider, "placed"))
        BY <2>2, DoingIsGrounded DEF Steps, Statuses
    <2>4. timers' \subseteq timers /\ UNCHANGED <<status, rider, retry, online, full, settled>>
        BY <1>7, <2>1 DEF DropOffer, orderVars, riderVars
    <2>. QED
        BY <2>1, <2>2, <2>3, <2>4, OutcomeStep DEF Outcomes
<1>8. CASE ReassignOrder(h)
    <2>1. /\ retry' \in BOOLEAN
          /\ UNCHANGED <<status, rider, offers, timers, online, full, settled>>
        BY <1>8 DEF ReassignOrder, orderVars, riderVars
    <2>2. CASE Becomes(h, Continues(run[h].todo))
        BY <2>1, <2>2, ContinuesIsGrounded, HandlerStep
    <2>3. CASE Becomes(h, [run[h] EXCEPT !.at = "next"])
        <3>1. run[h].at = "reassign" /\ run[h].offer \in DOMAIN offers
            BY <1>8 DEF ReassignOrder, Grounded
        <3>2. [run[h] EXCEPT !.at = "next"] \in Execution
              /\ Grounded([run[h] EXCEPT !.at = "next"])
            BY <3>1, AdvancedIsGrounded DEF Steps
        <3>. QED
            BY <2>1, <2>3, <3>2, HandlerStep
    <2>. QED
        BY <1>8, <2>2, <2>3 DEF ReassignOrder
<1>9. CASE FindNext(h)
    <2>1. NextCandidates(run[h].offer) \in SUBSET Riders
        BY DEF NextCandidates, Candidates
    <2>2. run[h].offer \in DOMAIN offers
        BY <1>9 DEF FindNext, Grounded
    <2>. QED
        BY <1>9, <2>1, <2>2, OfferToStep DEF FindNext
<1>. QED
    BY <1>2, <1>3, <1>4, <1>5, <1>6, <1>7, <1>8, <1>9

(* accept, adminAssignPartner *)
LEMMA AcceptanceStep ==
    ASSUME RiderInv, NEW h \in Slots,
           \/ \E a \in DOMAIN offers : RiderAccepts(h, a)
           \/ WriteAccepted(h) \/ AssignOrder(h)
           \/ \E r \in Riders : AdminAssigns(h, r)
           \/ ReadOpen(h) \/ DropOpen(h) \/ RecordAcceptance(h) \/ HandOver(h)
    PROVE  RiderInv'
<1>. USE Known
<1>1. ASSUME NEW a \in DOMAIN offers, RiderAccepts(h, a) PROVE RiderInv'
    <2>1. /\ Doing("accept", a, {}, offers[a].rider, "placed") \in Execution
          /\ Grounded(Doing("accept", a, {}, offers[a].rider, "placed"))
        BY DoingIsGrounded DEF Steps, Statuses, Offer
    <2>. QED
        BY <1>1, <2>1, HandlerStep DEF RiderAccepts, Starts, orderVars, timerVars, riderVars
<1>2. CASE WriteAccepted(h)
    <2>1. run[h].at = "accept" /\ run[h].offer \in DOMAIN offers /\ run[h].rider \in Riders
        BY <1>2 DEF WriteAccepted, Grounded
    <2>2. /\ [run[h] EXCEPT !.at = "assign"] \in Execution
          /\ Grounded([run[h] EXCEPT !.at = "assign"])
        BY <2>1, AdvancedIsGrounded DEF Steps, Grounded
    <2>3. /\ timers' \subseteq timers /\ retry' \in BOOLEAN
          /\ UNCHANGED <<status, rider, online, full, settled>>
        BY <1>2 DEF WriteAccepted, orderVars, riderVars
    <2>. QED
        BY <1>2, <2>1, <2>2, <2>3, OutcomeStep DEF WriteAccepted, Outcomes
<1>3. CASE AssignOrder(h)
    <2>1. status' \in Statuses /\ rider' \in Riders \cup {NoRider}
        BY <1>3 DEF AssignOrder, Statuses, InDelivery
    <2>. QED
        BY <1>3, <2>1, HandlerStep DEF AssignOrder, timerVars, riderVars
<1>4. ASSUME NEW r \in Riders, AdminAssigns(h, r) PROVE RiderInv'
    <2>1. /\ Doing("open", 0, {}, r, status) \in Execution
          /\ Grounded(Doing("open", 0, {}, r, status))
        BY DoingIsGrounded DEF Steps
    <2>. QED
        BY <1>4, <2>1, HandlerStep DEF AdminAssigns, Starts, orderVars, timerVars, riderVars
<1>5. CASE ReadOpen(h)
    <2>1. run[h].rider \in Riders /\ OpenOffers \subseteq DOMAIN offers
        BY <1>5 DEF ReadOpen, Grounded, OpenOffers, Pending, WithOutcome
    <2>2. /\ Doing("record", 0, OpenOffers, run[h].rider, run[h].seen) \in Execution
          /\ Grounded(Doing("record", 0, OpenOffers, run[h].rider, run[h].seen))
        BY <2>1, DoingIsGrounded DEF Steps
    <2>. QED
        BY <1>5, <2>2, HandlerStep DEF ReadOpen, orderVars, timerVars, riderVars
<1>6. CASE DropOpen(h)
    <2>1. PICK a \in run[h].todo :
              /\ timers' = timers \ {a}
              /\ SetOutcome(a, "declined")
              /\ Becomes(h, [run[h] EXCEPT !.todo = @ \ {a}])
        BY <1>6 DEF DropOpen
    <2>2. /\ [run[h] EXCEPT !.todo = @ \ {a}] \in Execution
          /\ Grounded([run[h] EXCEPT !.todo = @ \ {a}])
        BY <1>6 DEF Execution, Grounded, DropOpen
    <2>3. /\ a \in DOMAIN offers /\ timers' \subseteq timers
          /\ UNCHANGED <<status, rider, retry, online, full, settled>>
        BY <1>6, <2>1 DEF DropOpen, orderVars, riderVars
    <2>. QED
        BY <2>1, <2>2, <2>3, OutcomeStep DEF Outcomes
<1>7. CASE RecordAcceptance(h)
    <2>1. PICK n \in 1 .. Len(offers) + 1 :
              offers' = Append(offers, [rider |-> run[h].rider, no |-> n,
                                        outcome |-> "accepted"])
        BY <1>7 DEF RecordAcceptance
    <2>. DEFINE row == [rider |-> run[h].rider, no |-> n, outcome |-> "accepted"]
                x == [run[h] EXCEPT !.at = "hand"]
    <2>2. run[h].rider \in Riders /\ run[h].todo = {} /\ n \in Nat
        BY <1>7 DEF RecordAcceptance, Grounded
    <2>3. row \in Offer
        BY <2>2 DEF Offer, Outcomes
    <2>4. x \in Execution /\ x.at = "hand" /\ x.rider \in Riders /\ x.todo = {}
        <3>1. run[h] \in Execution
            OBVIOUS
        <3>. QED
            BY <2>2, <3>1 DEF Execution, Steps
    <2>. HIDE DEF x
    <2>5. PICK y \in Execution :
              y = x /\ y.at = "hand" /\ y.rider \in Riders /\ y.todo = {}
        BY <2>4
    <2>6. Grounded(y)'
        BY <2>5 DEF Grounded
    <2>7. /\ Becomes(h, y) /\ retry' \in BOOLEAN
          /\ UNCHANGED <<status, rider, timers, online, full, settled>>
        BY <1>7, <2>5 DEF RecordAcceptance, orderVars, riderVars, x
    <2>8. offers' = Append(offers, row)
        BY <2>1
    <2>. HIDE DEF row
    <2>. QED
        BY <2>3, <2>6, <2>7, <2>8, AppendStep
<1>8. CASE HandOver(h)
    <2>1. status' \in Statuses /\ rider' \in Riders \cup {NoRider}
        BY <1>8 DEF HandOver, Statuses, InDelivery
    <2>. QED
        BY <1>8, <2>1, HandlerStep DEF HandOver, timerVars, riderVars
<1>. QED
    BY <1>1, <1>2, <1>3, <1>4, <1>5, <1>6, <1>7, <1>8

LEMMA WritingIsGrounded ==
    ASSUME NEW s \in Statuses
    PROVE  Writing(s) \in Execution /\ Grounded(Writing(s))
BY DoingIsGrounded DEF Writing, Steps

(* The calls that change the order's status, and the delivery itself. *)
LEMMA StatusStep ==
    ASSUME RiderInv, NEW h \in Slots,
           \/ Advance(h) \/ Cancel(h) \/ Restore(h) \/ Complete(h)
           \/ \E s \in {"waiting"} \cup InDelivery : AdminSets(h, s)
           \/ WriteStatus(h) \/ WriteDelivered(h) \/ GenerateSettlement(h)
           \/ ChangeVendor(h) \/ MoveOrder(h)
           \/ UpdateLocation(h) \/ FireRetry(h)
    PROVE  RiderInv'
<1>. USE Known
<1>1. CASE Advance(h)
    <2>1. NextStatus(status) \in Statuses
        BY DEF NextStatus, Statuses, InDelivery
    <2>. QED
        BY <1>1, <2>1, WritingIsGrounded, HandlerStep
        DEF Advance, Starts, orderVars, timerVars, riderVars
<1>2. CASE Cancel(h) \/ Restore(h)
    <2>1. ASSUME NEW s \in {"cancelled", "placed"}, Becomes(h, Writing(s)) PROVE RiderInv'
        <3>1. s \in Statuses
            BY DEF Statuses
        <3>. QED
            BY <1>2, <2>1, <3>1, WritingIsGrounded, HandlerStep
            DEF Cancel, Restore, orderVars, timerVars, riderVars
    <2>. QED
        BY <1>2, <2>1 DEF Cancel, Restore, Starts
<1>3. CASE Complete(h)
    BY <1>3, AtIsGrounded, HandlerStep DEF Complete, Starts, orderVars, timerVars, riderVars
<1>4. ASSUME NEW s \in {"waiting"} \cup InDelivery, AdminSets(h, s) PROVE RiderInv'
    <2>1. s \in Statuses
        BY DEF Statuses
    <2>. QED
        BY <1>4, <2>1, WritingIsGrounded, HandlerStep
        DEF AdminSets, Starts, orderVars, timerVars, riderVars
<1>5. CASE WriteStatus(h)
    <2>1. PICK x \in {Idle, At("trigger")} : Becomes(h, x)
        BY <1>5 DEF WriteStatus
    <2>2. x \in Execution /\ Grounded(x)
        BY AtIsGrounded
    <2>. QED
        BY <1>5, <2>1, <2>2, HandlerStep DEF WriteStatus, timerVars, riderVars
<1>6. CASE WriteDelivered(h)
    <2>1. status' \in Statuses
        BY <1>6 DEF WriteDelivered, Statuses
    <2>. QED
        BY <1>6, <2>1, AtIsGrounded, HandlerStep DEF WriteDelivered, timerVars, riderVars
<1>7. CASE GenerateSettlement(h)
    BY <1>7, AtIsGrounded, HandlerStep
    DEF GenerateSettlement, orderVars, timerVars, riderVars
<1>8. CASE UpdateLocation(h)
    BY <1>8, AtIsGrounded, HandlerStep
    DEF UpdateLocation, Starts, orderVars, timerVars, riderVars
<1>9. CASE FireRetry(h)
    BY <1>9, AtIsGrounded, HandlerStep DEF FireRetry, orderVars, riderVars
<1>10. CASE ChangeVendor(h)
    BY <1>10, AtIsGrounded, HandlerStep
    DEF ChangeVendor, Starts, orderVars, timerVars, riderVars
<1>11. CASE MoveOrder(h)
    <2>1. status' \in Statuses /\ rider' \in Riders \cup {NoRider}
        BY <1>11 DEF MoveOrder, Statuses, orderVars
    <2>. QED
        BY <1>11, <2>1, HandlerStep DEF MoveOrder, timerVars, riderVars
<1>. QED
    BY <1>1, <1>2, <1>3, <1>4, <1>5, <1>6, <1>7, <1>8, <1>9, <1>10, <1>11

(* The change of vendor ends every offer and acceptance in one query.      *)
LEMMA OffersRevoked ==
    ASSUME RiderInv, NEW h \in Slots, RevokeOffers(h)
    PROVE  /\ offers' \in Seq(Offer)
           /\ DOMAIN offers' = DOMAIN offers
           /\ Pending' = {} /\ WithOutcome("accepted")' = {}
<1>. DEFINE ended(a) == [rider |-> offers[a].rider, no |-> offers[a].no,
                         outcome |-> "declined"]
            n == Len(offers)
<1>1. n \in Nat /\ DOMAIN offers = 1 .. n
    BY DEF RiderInv, TypeOK
<1>2. offers' = [a \in 1 .. n |-> IF a \in OpenOffers THEN ended(a) ELSE offers[a]]
    BY <1>1 DEF RevokeOffers
<1>3. \A a \in 1 .. n : offers[a] \in Offer
    BY <1>1 DEF RiderInv, TypeOK
<1>4. \A a \in 1 .. n : ended(a) \in Offer /\ ended(a).outcome = "declined"
    BY <1>3 DEF Offer, Outcomes
<1>. HIDE DEF ended, n
<1>5. \A a \in 1 .. n : offers'[a] \in Offer
    BY <1>2, <1>3, <1>4
<1>6. DOMAIN offers' = 1 .. n /\ offers' = [a \in 1 .. n |-> offers'[a]]
    BY <1>2
<1>7. offers' \in Seq(Offer)
    BY <1>1, <1>5, <1>6
<1>8. \A a \in 1 .. n : offers'[a].outcome \notin {"pending", "accepted"}
    BY <1>1, <1>2, <1>4 DEF OpenOffers, Pending, WithOutcome
<1>. QED
    BY <1>1, <1>6, <1>7, <1>8 DEF Pending, WithOutcome

LEMMA RevokeStep ==
    ASSUME RiderInv, NEW h \in Slots, RevokeOffers(h)
    PROVE  RiderInv'
<1>1. At("move") \in Execution /\ Grounded(At("move"))
    BY AtIsGrounded
<1>2. offers' \in Seq(Offer) /\ DOMAIN offers' = DOMAIN offers
    BY OffersRevoked
<1>3. /\ Becomes(h, At("move"))
      /\ UNCHANGED <<status, rider, timers, retry, online, full, settled>>
    BY DEF RevokeOffers, orderVars, timerVars, riderVars
<1>4. TypeOK'
    BY <1>1, <1>2, <1>3 DEF RiderInv, TypeOK, Becomes
<1>5. ASSUME NEW g \in Slots PROVE Grounded(run[g])'
    BY <1>1, <1>2, <1>3, <1>5 DEF RiderInv, TypeOK, Becomes, Grounded
<1>. QED
    BY <1>4, <1>5 DEF RiderInv

LEMMA RiderInit == Init => RiderInv
<1>. SUFFICES ASSUME Init PROVE RiderInv
    OBVIOUS
<1>1. offers = <<>> /\ DOMAIN offers = {}
    BY DEF Init
<1>2. Idle \in Execution /\ Grounded(Idle)
    BY AtIsGrounded DEF Idle
<1>3. run = [h \in Slots |-> Idle]
    BY DEF Init
<1>4. ASSUME NEW h \in Slots PROVE Grounded(run[h])
    BY <1>2, <1>3
<1>5. run \in [Slots -> Execution]
    BY <1>2, <1>3
<1>6. /\ status \in Statuses /\ rider \in Riders \cup {NoRider}
      /\ timers \subseteq DOMAIN offers /\ retry \in BOOLEAN
      /\ online \subseteq Riders /\ full \subseteq Riders /\ settled \in Nat
    BY <1>1 DEF Init, Statuses
<1>. QED
    BY <1>1, <1>4, <1>5, <1>6 DEF RiderInv, TypeOK

LEMMA RiderStep == RiderInv /\ [Next]_vars => RiderInv'
<1>. SUFFICES ASSUME RiderInv, [Next]_vars PROVE RiderInv'
    OBVIOUS
<1>1. ASSUME NEW h \in Slots, Continue(h) PROVE RiderInv'
    BY <1>1, TriggerStep, RefusalStep, AcceptanceStep, StatusStep, RevokeStep DEF Continue
<1>2. ASSUME NEW h \in Slots, Call(h) PROVE RiderInv'
    BY <1>2, RefusalStep, AcceptanceStep, StatusStep DEF Call
<1>3. ASSUME NEW h \in Slots, Timer(h) PROVE RiderInv'
    BY <1>3, RefusalStep, StatusStep DEF Timer
<1>4. ASSUME NEW h \in Slots, Restore(h) \/ ChangeVendor(h) PROVE RiderInv'
    BY <1>4, StatusStep
<1>5. ASSUME NEW r \in Riders, Load(r) PROVE RiderInv'
    BY <1>5 DEF Load, RiderInv, TypeOK, Grounded, orderVars, timerVars
<1>6. CASE VendorAccepts
    BY <1>6 DEF VendorAccepts, RiderInv, TypeOK, Grounded, Statuses, timerVars, riderVars
<1>7. CASE Restart
    <2>1. /\ Idle \in Execution /\ Idle.at = "idle" /\ Idle.todo = {}
        BY AtIsGrounded DEF Idle, At, Doing
    <2>. HIDE DEF Idle
    <2>. QED
        BY <1>7, <2>1 DEF Restart, RiderInv, TypeOK, Grounded, orderVars, riderVars
<1>8. CASE UNCHANGED vars
    BY <1>8 DEF vars, RiderInv, TypeOK, Grounded, orderVars, timerVars, riderVars
<1>. QED
    BY <1>1, <1>2, <1>3, <1>4, <1>5, <1>6, <1>7, <1>8 DEF Next, Proceed, Disturb

LEMMA RiderInvariant == Spec => []RiderInv
BY RiderInit, RiderStep, PTL DEF Spec

(* Every variable keeps its type: above all, no handler ever offers the    *)
(* order to nobody.                                                        *)
THEOREM TypeCorrect == Spec => []TypeOK
<1>1. RiderInv => TypeOK
    BY DEF RiderInv
<1>. QED
    BY <1>1, RiderInvariant, PTL

-----------------------------------------------------------------------------
(* No rider that was asked is forgotten. *)

(* One handler moves on to the state x, and each pending offer has its     *)
(* timer, is resolved in the state x, or is some other handler's affair.   *)
LEMMA KeepsOffers ==
    ASSUME RiderInv, NoLostOffer, NEW h \in Slots, NEW x, Becomes(h, x),
           \A a \in Pending' :
              \/ a \in timers'
              \/ Resolves(x, a)
              \/ a \in Pending /\ a \notin timers /\ ~Resolves(run[h], a)
    PROVE  NoLostOffer'
<1>1. run' = [run EXCEPT ![h] = x] /\ run'[h] = x
    BY DEF Becomes, RiderInv, TypeOK
<1>2. ASSUME NEW a \in Pending'
      PROVE  a \in timers' \/ \E g \in Slots : Resolves(run'[g], a)
    <2>1. CASE a \in Pending /\ a \notin timers /\ ~Resolves(run[h], a)
        <3>1. PICK g \in Slots : Resolves(run[g], a)
            BY <2>1 DEF NoLostOffer
        <3>2. g # h
            BY <2>1, <3>1
        <3>3. run'[g] = run[g]
            BY <1>1, <3>2 DEF RiderInv, TypeOK
        <3>. QED
            BY <3>1, <3>3
    <2>. QED
        BY <1>1, <1>2, <2>1
<1>. QED
    BY <1>2 DEF NoLostOffer, Resolves

(* A handler that had no offer to resolve moves on. *)
LEMMA MovesOn ==
    ASSUME RiderInv, NoLostOffer, NEW h \in Slots, NEW x, Becomes(h, x),
           run[h].at \notin {"arm", "accept", "drop", "reassign", "next", "create", "record"},
           UNCHANGED <<offers, timers>>
    PROVE  NoLostOffer'
<1>1. run[h].todo = {}
    BY Known DEF Grounded
<1>2. \A a \in Pending : ~Resolves(run[h], a)
    BY <1>1 DEF Resolves
<1>. QED
    BY <1>2, KeepsOffers DEF Pending, WithOutcome

(* What a handler still has to drop, it keeps in mind. *)
LEMMA ContinuesResolves ==
    ASSUME NEW todo, NEW a \in todo
    PROVE  Resolves(Continues(todo), a)
BY DEF Resolves, Continues, Doing

LEMMA MovesOnWithTodo ==
    ASSUME RiderInv, NoLostOffer, NEW h \in Slots, NEW x, Becomes(h, x),
           run[h].at \in {"find", "reassign", "next"},
           \A a \in run[h].todo : Resolves(x, a),
           UNCHANGED <<offers, timers>>
    PROVE  NoLostOffer'
<1>1. \A a \in Pending : Resolves(run[h], a) => Resolves(x, a)
    BY DEF Resolves
<1>. QED
    BY <1>1, KeepsOffers DEF Pending, WithOutcome

LEMMA OfferToKeeps ==
    ASSUME RiderInv, NoLostOffer, NEW h \in Slots, NEW S, NEW a, NEW todo,
           run[h].at \in {"find", "reassign", "next"}, run[h].todo \subseteq todo,
           OfferTo(h, S, a, todo), UNCHANGED <<offers, timers>>
    PROVE  NoLostOffer'
<1>1. ASSUME NEW r \in S, Becomes(h, Doing("create", a, todo, r, "placed"))
      PROVE  NoLostOffer'
    <2>1. \A b \in run[h].todo : Resolves(Doing("create", a, todo, r, "placed"), b)
        BY DEF Resolves, Doing
    <2>. QED
        BY <1>1, <2>1, MovesOnWithTodo
<1>2. CASE Becomes(h, Continues(todo))
    BY <1>2, ContinuesResolves, MovesOnWithTodo
<1>. QED
    BY <1>1, <1>2 DEF OfferTo

(* An offer's outcome is written: it is no longer pending. *)
LEMMA Resolved ==
    ASSUME RiderInv, NoLostOffer, NEW h \in Slots, NEW x, Becomes(h, x),
           NEW a \in DOMAIN offers, NEW o \in {"accepted", "declined"}, SetOutcome(a, o),
           timers' = timers \ {a},
           \A b : Resolves(run[h], b) /\ b # a => Resolves(x, b)
    PROVE  NoLostOffer'
<1>1. ASSUME NEW b \in Pending' PROVE b \in Pending /\ b # a
    <2>1. DOMAIN offers' = DOMAIN offers /\ offers'[a].outcome = o
          /\ \A c \in DOMAIN offers : c # a => offers'[c] = offers[c]
        BY OutcomeWritten DEF Outcomes
    <2>2. b # a
        BY <1>1, <2>1 DEF Pending, WithOutcome
    <2>. QED
        BY <1>1, <2>1, <2>2 DEF Pending, WithOutcome
<1>. QED
    BY <1>1, KeepsOffers

(* A row is added: as an offer that x will arm, or as an acceptance. *)
LEMMA Added ==
    ASSUME RiderInv, NoLostOffer, NEW h \in Slots, NEW x, Becomes(h, x),
           NEW row \in Offer, offers' = Append(offers, row), timers' = timers,
           row.outcome = "pending" => Resolves(x, Len(offers) + 1),
           \A b : Resolves(run[h], b) => Resolves(x, b)
    PROVE  NoLostOffer'
<1>1. ASSUME NEW b \in Pending'
      PROVE  \/ b \in Pending
             \/ b = Len(offers) + 1 /\ row.outcome = "pending"
    BY <1>1, RowAppended DEF Pending, WithOutcome
<1>. QED
    BY <1>1, KeepsOffers

LEMMA NoOfferLost ==
    ASSUME RiderInv, NoLostOffer, Next, ~Restart
    PROVE  NoLostOffer'
<1>. USE Known
<1>1. Idle.at = "idle"
    BY DEF Idle, At, Doing
<1>2. ASSUME NEW h \in Slots, ListWaiting(h) \/ ReadOrder(h) \/ ReadExisting(h)
      PROVE  NoLostOffer'
    BY <1>2, MovesOn DEF ListWaiting, ReadOrder, ReadExisting, timerVars
<1>3. ASSUME NEW h \in Slots, ReadOffers(h) \/ AssignOrder(h) \/ ReadOpen(h) \/ HandOver(h)
      PROVE  NoLostOffer'
    BY <1>3, MovesOn DEF ReadOffers, AssignOrder, ReadOpen, HandOver, timerVars
<1>4. ASSUME NEW h \in Slots,
             WriteStatus(h) \/ WriteDelivered(h) \/ GenerateSettlement(h) \/ MoveOrder(h)
      PROVE  NoLostOffer'
    BY <1>4, MovesOn
    DEF WriteStatus, WriteDelivered, GenerateSettlement, MoveOrder, timerVars
<1>5. ASSUME NEW h \in Slots, Call(h)
      PROVE  NoLostOffer'
    <2>1. ASSUME NEW c, NEW x, Starts(h, c, x), UNCHANGED <<offers, timers>>
          PROVE  NoLostOffer'
        BY <1>1, <2>1, MovesOn DEF Starts
    <2>2. CASE UpdateLocation(h) \/ Advance(h) \/ Cancel(h) \/ Complete(h)
        BY <2>1, <2>2 DEF UpdateLocation, Advance, Cancel, Complete, timerVars
    <2>3. ASSUME NEW a \in DOMAIN offers, RiderRejects(h, a) \/ RiderAccepts(h, a)
          PROVE  NoLostOffer'
        BY <2>1, <2>3 DEF RiderRejects, RiderAccepts, timerVars
    <2>4. ASSUME NEW r \in Riders, GoOffline(h, r) \/ GoOnline(h, r) \/ AdminAssigns(h, r)
          PROVE  NoLostOffer'
        BY <2>1, <2>4 DEF GoOffline, GoOnline, AdminAssigns, timerVars
    <2>5. ASSUME NEW s \in {"waiting"} \cup InDelivery, AdminSets(h, s)
          PROVE  NoLostOffer'
        BY <2>1, <2>5 DEF AdminSets, timerVars
    <2>. QED
        BY <1>5, <2>2, <2>3, <2>4, <2>5 DEF Call
<1>6. ASSUME NEW h \in Slots, Restore(h) \/ ChangeVendor(h) \/ FireRetry(h)
      PROVE  NoLostOffer'
    BY <1>1, <1>6, MovesOn DEF Restore, ChangeVendor, Starts, FireRetry, timerVars
<1>7. ASSUME NEW h \in Slots, NEW a \in DOMAIN offers, FireTimer(h, a)
      PROVE  NoLostOffer'
    <2>1. run[h].at = "idle" /\ run[h].todo = {}
        BY <1>7 DEF FireTimer, Idle, At, Doing
    <2>2. CASE a \in Pending
        <3>1. Resolves(Doing("drop", 0, {a}, NoRider, "placed"), a)
            BY DEF Resolves, Doing
        <3>2. Becomes(h, Doing("drop", 0, {a}, NoRider, "placed"))
            BY <1>7, <2>2 DEF FireTimer
        <3>3. \A b \in Pending' :
                 b \in Pending /\ (b \in timers => b \in timers' \/ b = a)
            BY <1>7 DEF FireTimer, Pending, WithOutcome
        <3>. QED
            BY <2>1, <3>1, <3>2, <3>3, KeepsOffers DEF Resolves
    <2>3. CASE a \notin Pending
        <3>1. \A b \in Pending' :
                 b \in Pending /\ (b \in timers => b \in timers')
            BY <1>7, <2>3 DEF FireTimer, Pending, WithOutcome
        <3>2. Becomes(h, Idle)
            BY <1>7, <2>3 DEF FireTimer
        <3>. QED
            BY <2>1, <3>1, <3>2, KeepsOffers DEF Resolves
    <2>. QED
        BY <2>2, <2>3
<1>8. ASSUME NEW h \in Slots, FindRider(h)
      PROVE  NoLostOffer'
    <2>1. run[h].at = "find" /\ run[h].todo = {}
        BY <1>8 DEF FindRider, Grounded
    <2>. QED
        BY <1>8, <2>1, OfferToKeeps DEF FindRider
<1>9. ASSUME NEW h \in Slots, FindNext(h)
      PROVE  NoLostOffer'
    BY <1>9, OfferToKeeps DEF FindNext
<1>10. ASSUME NEW h \in Slots, ReassignOrder(h)
       PROVE  NoLostOffer'
    <2>1. CASE Becomes(h, Continues(run[h].todo))
        BY <1>10, <2>1, ContinuesResolves, MovesOnWithTodo DEF ReassignOrder
    <2>2. CASE Becomes(h, [run[h] EXCEPT !.at = "next"])
        <3>1. \A a \in run[h].todo : Resolves([run[h] EXCEPT !.at = "next"], a)
            BY DEF Resolves, Execution
        <3>. QED
            BY <1>10, <2>2, <3>1, MovesOnWithTodo DEF ReassignOrder
    <2>. QED
        BY <1>10, <2>1, <2>2 DEF ReassignOrder
<1>11. ASSUME NEW h \in Slots, CreateAssignment(h)
       PROVE  NoLostOffer'
    <2>. DEFINE row == [rider |-> run[h].rider, no |-> NextNo(run[h].offer),
                        outcome |-> "pending"]
                x == Doing("arm", Len(offers) + 1, run[h].todo, NoRider, "placed")
    <2>1. run[h].rider \in Riders /\ run[h].offer \in DOMAIN offers \cup {0}
        BY <1>11 DEF CreateAssignment, Grounded
    <2>2. NextNo(run[h].offer) \in Nat
        BY <2>1 DEF NextNo, Offer
    <2>3. row \in Offer
        BY <2>1, <2>2 DEF Offer, Outcomes
    <2>4. Resolves(x, Len(offers) + 1) /\ \A b : Resolves(run[h], b) => Resolves(x, b)
        BY <1>11 DEF CreateAssignment, Resolves, Doing
    <2>5. Becomes(h, x) /\ offers' = Append(offers, row) /\ timers' = timers
        BY <1>11 DEF CreateAssignment, timerVars
    <2>. HIDE DEF row, x
    <2>. QED
        BY <2>3, <2>4, <2>5, Added
<1>12. ASSUME NEW h \in Slots, ArmTimer(h)
       PROVE  NoLostOffer'
    <2>1. \A b : Resolves(run[h], b) => b = run[h].offer \/ b \in run[h].todo
        BY DEF Resolves
    <2>2. /\ Becomes(h, Continues(run[h].todo)) /\ UNCHANGED offers
          /\ timers' = timers \cup {run[h].offer}
        BY <1>12 DEF ArmTimer
    <2>. QED
        BY <2>1, <2>2, ContinuesResolves, KeepsOffers DEF Pending, WithOutcome
<1>13. ASSUME NEW h \in Slots, DropOffer(h)
       PROVE  NoLostOffer'
    <2>1. PICK a \in run[h].todo :
              /\ timers' = timers \ {a}
              /\ SetOutcome(a, "declined")
              /\ Becomes(h, Doing("reassign", a, run[h].todo \ {a}, NoRider, "placed"))
        BY <1>13 DEF DropOffer
    <2>2. \A b : Resolves(run[h], b) /\ b # a =>
              Resolves(Doing("reassign", a, run[h].todo \ {a}, NoRider, "placed"), b)
        BY <1>13 DEF DropOffer, Resolves, Doing
    <2>3. a \in DOMAIN offers
        BY <2>1
    <2>. QED
        BY <2>1, <2>2, <2>3, Resolved
<1>14. ASSUME NEW h \in Slots, WriteAccepted(h)
       PROVE  NoLostOffer'
    <2>1. run[h].at = "accept" /\ run[h].offer \in DOMAIN offers /\ run[h].todo = {}
        BY <1>14 DEF WriteAccepted, Grounded
    <2>2. \A b : Resolves(run[h], b) => b = run[h].offer
        BY <2>1 DEF Resolves
    <2>. QED
        BY <1>14, <2>1, <2>2, Resolved DEF WriteAccepted
<1>15. ASSUME NEW h \in Slots, DropOpen(h)
       PROVE  NoLostOffer'
    <2>1. PICK a \in run[h].todo :
              /\ timers' = timers \ {a}
              /\ SetOutcome(a, "declined")
              /\ Becomes(h, [run[h] EXCEPT !.todo = @ \ {a}])
        BY <1>15 DEF DropOpen
    <2>2. \A b : Resolves(run[h], b) /\ b # a =>
              Resolves([run[h] EXCEPT !.todo = @ \ {a}], b)
        BY <1>15 DEF DropOpen, Resolves, Execution
    <2>3. a \in DOMAIN offers
        BY <2>1
    <2>. QED
        BY <2>1, <2>2, <2>3, Resolved
<1>16. ASSUME NEW h \in Slots, RecordAcceptance(h)
       PROVE  NoLostOffer'
    <2>1. PICK n \in 1 .. Len(offers) + 1 :
              offers' = Append(offers, [rider |-> run[h].rider, no |-> n,
                                        outcome |-> "accepted"])
        BY <1>16 DEF RecordAcceptance
    <2>. DEFINE row == [rider |-> run[h].rider, no |-> n, outcome |-> "accepted"]
    <2>2. run[h].rider \in Riders /\ run[h].todo = {} /\ n \in Nat /\ run[h].at = "record"
        BY <1>16 DEF RecordAcceptance, Grounded
    <2>3. row \in Offer /\ row.outcome = "accepted"
        BY <2>2 DEF Offer, Outcomes
    <2>4. \A b : ~Resolves(run[h], b)
        BY <2>2 DEF Resolves
    <2>5. offers' = Append(offers, row)
        BY <2>1
    <2>. HIDE DEF row
    <2>. QED
        BY <1>16, <2>3, <2>4, <2>5, Added DEF RecordAcceptance
<1>17. ASSUME VendorAccepts \/ \E r \in Riders : Load(r)
       PROVE  NoLostOffer'
    BY <1>17 DEF VendorAccepts, Load, timerVars, NoLostOffer, Pending, WithOutcome, Resolves
<1>19. ASSUME NEW h \in Slots, RevokeOffers(h)
       PROVE  NoLostOffer'
    BY <1>19, OffersRevoked DEF NoLostOffer
<1>18. ASSUME NEW h \in Slots, Continue(h)
       PROVE  NoLostOffer'
    BY <1>2, <1>3, <1>4, <1>8, <1>9, <1>10, <1>11, <1>12, <1>13, <1>14, <1>15, <1>16, <1>18,
       <1>19
    DEF Continue
<1>. QED
    BY <1>5, <1>6, <1>7, <1>17, <1>18 DEF Next, Proceed, Disturb, Timer

(* As long as the history is calm, the search takes steps of its own.      *)
LEMMA HistoryOfSpec ==
    [MCNext]_<<vars, history>> => (calm' => calm /\ ~Revived /\ [Proceed]_vars)
<1>. SUFFICES ASSUME [MCNext]_<<vars, history>>, calm'
              PROVE  calm /\ ~Revived /\ [Proceed]_vars
    OBVIOUS
<1>1. CASE MCNext
    <2>1. CASE Proceed /\ calm' = (calm /\ ~Revived)
        BY <2>1
    <2>2. CASE Disturb /\ calm' = FALSE
        BY <2>2
    <2>. QED
        BY <1>1, <2>1, <2>2 DEF MCNext
<1>2. CASE UNCHANGED <<vars, history>>
    BY <1>2 DEF vars, history, orderVars, Revived
<1>. QED
    BY <1>1, <1>2

(* The history restricts nothing.                                          *)
LEMMA MCSpecSteps == MCSpec => Spec
<1>1. MCInit => Init
    BY DEF MCInit
<1>2. [MCNext]_<<vars, history>> => [Next]_vars
    BY DEF MCNext, Next, vars, orderVars, timerVars
<1>. QED
    BY <1>1, <1>2, PTL DEF MCSpec, Spec

(* As long as the process runs, no asked rider is forgotten: whatever      *)
(* handlers interleave, a pending offer has an armed timer or a handler at *)
(* work that will arm it or end the offer.                                 *)
THEOREM OffersKept ==
    ASSUME "restart" \notin Calls
    PROVE  Spec => []NoLostOffer
<1>1. Init => NoLostOffer
    BY DEF Init, NoLostOffer, Pending, WithOutcome
<1>2. RiderInv /\ NoLostOffer /\ [Next]_vars => NoLostOffer'
    <2>1. ASSUME RiderInv, NoLostOffer, Next
          PROVE  NoLostOffer'
        <3>1. ~Restart
            BY DEF Restart
        <3>. QED
            BY <2>1, <3>1, NoOfferLost
    <2>2. ASSUME NoLostOffer, UNCHANGED vars
          PROVE  NoLostOffer'
        BY <2>2 DEF vars, timerVars, NoLostOffer, Pending, WithOutcome, Resolves
    <2>. QED
        BY <2>1, <2>2
<1>. QED
    BY <1>1, <1>2, RiderInvariant, PTL DEF Spec

-----------------------------------------------------------------------------
(* An order without a rider is never forgotten, as long as nothing         *)
(* disturbs the search and a cancelled order stays cancelled.              *)

(* One handler moves on to the state x, the order keeps its status and     *)
(* rider.                                                                  *)
LEMMA StaysOffered ==
    ASSUME RiderInv, OfferedInv, NEW h \in Slots, NEW x, Becomes(h, x),
           UNCHANGED <<status, rider>>,
           offers' = <<>> => offers = <<>>,
           status = "waiting" /\ rider = NoRider /\ offers' # <<>> =>
               \/ Pending' # {} \/ retry' \/ Looking(x)
               \/ \E g \in Slots : g # h /\ Looking(run[g])
               \/ ~Looking(run[h]) /\ Pending \subseteq Pending' /\ retry' = retry /\ offers # <<>>,
           WithOutcome("accepted")' # {} =>
               \/ x.at \in {"assign", "hand"}
               \/ WithOutcome("accepted") # {} /\ run[h].at \notin {"assign", "hand"},
           WritesInTurn(x)
    PROVE  OfferedInv'
<1>1. /\ run' = [run EXCEPT ![h] = x] /\ run'[h] = x
      /\ \A g \in Slots : g # h => run'[g] = run[g]
    BY DEF Becomes, RiderInv, TypeOK
<1>2. AcceptedIsHeld'
    <2>1. ASSUME WithOutcome("accepted")' # {}, rider = NoRider
          PROVE  \E g \in Slots : run'[g].at \in {"assign", "hand"}
        <3>1. CASE x.at \in {"assign", "hand"}
            BY <1>1, <3>1
        <3>2. CASE WithOutcome("accepted") # {} /\ run[h].at \notin {"assign", "hand"}
            <4>1. PICK g \in Slots : run[g].at \in {"assign", "hand"}
                BY <2>1, <3>2 DEF OfferedInv, AcceptedIsHeld
            <4>. QED
                BY <1>1, <3>2, <4>1
        <3>. QED
            BY <2>1, <3>1, <3>2
    <2>. QED
        BY <2>1 DEF AcceptedIsHeld
<1>3. WaitsOrCancelled'
    BY DEF OfferedInv, WaitsOrCancelled
<1>4. ASSUME NEW g \in Slots PROVE WritesInTurn(run[g])'
    BY <1>1, <1>4 DEF OfferedInv, WritesInTurn
<1>5. NeverForgotten'
    <2>1. ASSUME status = "waiting", rider = NoRider, offers' # <<>>
          PROVE  Pending' # {} \/ retry' \/ \E g \in Slots : Looking(run'[g])
        <3>1. CASE Looking(x)
            BY <1>1, <3>1
        <3>2. ASSUME NEW g \in Slots, g # h, Looking(run[g])
              PROVE  \E k \in Slots : Looking(run'[k])
            BY <1>1, <3>2
        <3>3. CASE /\ ~Looking(run[h]) /\ Pending \subseteq Pending'
                   /\ retry' = retry /\ offers # <<>>
            <4>1. Pending # {} \/ retry \/ \E g \in Slots : Looking(run[g])
                BY <2>1, <3>3 DEF OfferedInv, NeverForgotten
            <4>2. ASSUME NEW g \in Slots, Looking(run[g])
                  PROVE  \E k \in Slots : Looking(run'[k])
                BY <1>1, <3>3, <4>2
            <4>. QED
                BY <3>3, <4>1, <4>2
        <3>. QED
            BY <2>1, <3>1, <3>2, <3>3
    <2>. QED
        BY <2>1 DEF NeverForgotten, Looking
<1>. QED
    BY <1>2, <1>3, <1>4, <1>5 DEF OfferedInv

(* A handler that was not looking for a rider goes about its business. *)
LEMMA Unrelated ==
    ASSUME RiderInv, OfferedInv, NEW h \in Slots, NEW x, Becomes(h, x), ~Looking(run[h]),
           UNCHANGED <<status, rider, offers, retry>>, WritesInTurn(x)
    PROVE  OfferedInv'
<1>1. run[h].at \notin {"assign", "hand"}
    BY DEF Looking
<1>2. Pending' = Pending /\ WithOutcome("accepted")' = WithOutcome("accepted")
    BY DEF Pending, WithOutcome
<1>. QED
    BY <1>1, <1>2, StaysOffered

(* A handler that was looking for a rider looks on, has offered the order, *)
(* or has armed the retry timer.                                           *)
LEMMA LooksOn ==
    ASSUME RiderInv, OfferedInv, NEW h \in Slots, NEW x, Becomes(h, x),
           UNCHANGED <<status, rider, offers>>, run[h].at \notin {"assign", "hand"},
           status = "waiting" /\ rider = NoRider => retry' \/ Looking(x), WritesInTurn(x)
    PROVE  OfferedInv'
<1>1. WithOutcome("accepted")' = WithOutcome("accepted")
    BY DEF WithOutcome
<1>. QED
    BY <1>1, StaysOffered

LEMMA OfferToLooksOn ==
    ASSUME RiderInv, OfferedInv, NEW h \in Slots, NEW S, NEW a, NEW todo,
           OfferTo(h, S, a, todo), run[h].at \in {"find", "next"},
           UNCHANGED <<status, rider, offers>>
    PROVE  OfferedInv'
<1>1. ASSUME NEW r \in S, Becomes(h, Doing("create", a, todo, r, "placed"))
      PROVE  OfferedInv'
    <2>1. /\ Looking(Doing("create", a, todo, r, "placed"))
          /\ WritesInTurn(Doing("create", a, todo, r, "placed"))
        BY DEF Looking, WritesInTurn, Doing
    <2>. QED
        BY <1>1, <2>1, LooksOn
<1>2. CASE retry' /\ Becomes(h, Continues(todo))
    <2>1. WritesInTurn(Continues(todo))
        BY DEF WritesInTurn, Continues, Idle, At, Doing
    <2>. QED
        BY <1>2, <2>1, LooksOn
<1>. QED
    BY <1>1, <1>2 DEF OfferTo, ScheduleRetry

(* With a rider on the order there is nothing to look for. *)
LEMMA HasRider ==
    ASSUME RiderInv, OfferedInv, NEW h \in Slots, NEW x, Becomes(h, x),
           rider' # NoRider, status' # "placed",
           x.at \notin {"write", "deliver", "revoke", "move"}
    PROVE  OfferedInv'
<1>1. \A g \in Slots : run'[g] = x \/ run'[g] = run[g]
    BY DEF Becomes, RiderInv, TypeOK
<1>2. ASSUME NEW g \in Slots PROVE WritesInTurn(run[g])'
    <2>1. CASE run'[g] = x
        BY <2>1 DEF WritesInTurn
    <2>2. CASE run'[g] = run[g]
        BY <2>2 DEF WritesInTurn, OfferedInv
    <2>. QED
        BY <1>1, <2>1, <2>2
<1>. QED
    BY <1>2 DEF OfferedInv, NeverForgotten, AcceptedIsHeld, WaitsOrCancelled

(* Refusals leave no acceptance behind. *)
LEMMA NoNewAcceptance ==
    ASSUME RiderInv, NEW a \in DOMAIN offers, SetOutcome(a, "declined")
    PROVE  /\ WithOutcome("accepted")' \subseteq WithOutcome("accepted")
           /\ offers' = <<>> => offers = <<>>
<1>1. /\ DOMAIN offers' = DOMAIN offers /\ offers'[a].outcome = "declined"
      /\ \A b \in DOMAIN offers : b # a => offers'[b] = offers[b]
    BY OutcomeWritten DEF Outcomes
<1>2. offers' # <<>>
    BY <1>1
<1>. QED
    BY <1>1, <1>2 DEF WithOutcome

LEMMA TriggerLooks ==
    ASSUME RiderInv, OfferedInv, NEW h \in Slots,
           \/ ListWaiting(h) \/ ReadOrder(h) \/ ReadExisting(h) \/ FindRider(h)
           \/ CreateAssignment(h) \/ ArmTimer(h)
    PROVE  OfferedInv'
<1>. USE Known
<1>1. ASSUME NEW p \in Steps \ {"write", "deliver", "revoke", "move"}
      PROVE  WritesInTurn(At(p)) /\ At(p).at = p
    BY <1>1 DEF WritesInTurn, At, Doing
<1>2. WritesInTurn(Idle)
    BY <1>1 DEF Idle, Steps
<1>3. CASE ListWaiting(h)
    <2>1. WritesInTurn(At("trigger")) /\ ~Looking(run[h])
        BY <1>1, <1>3 DEF Steps, Looking, ListWaiting
    <2>. QED
        BY <1>2, <1>3, <2>1, Unrelated DEF ListWaiting, orderVars, timerVars
<1>4. CASE ReadOrder(h)
    <2>1. WritesInTurn(At("existing")) /\ Looking(At("existing"))
        BY <1>1 DEF Steps, Looking
    <2>2. UNCHANGED <<status, rider, offers>> /\ run[h].at = "trigger"
        BY <1>4 DEF ReadOrder, orderVars
    <2>3. CASE Becomes(h, At("existing"))
        BY <2>1, <2>2, <2>3, LooksOn
    <2>4. CASE Becomes(h, Idle) /\ (status = "cancelled" \/ rider # NoRider)
        BY <1>2, <2>2, <2>4, LooksOn
    <2>. QED
        BY <1>4, <2>3, <2>4 DEF ReadOrder
<1>5. CASE ReadExisting(h)
    <2>1. WritesInTurn(At("find")) /\ Looking(At("find"))
        BY <1>1 DEF Steps, Looking
    <2>2. UNCHANGED <<status, rider, offers, retry>> /\ run[h].at = "existing"
        BY <1>5 DEF ReadExisting, orderVars, timerVars
    <2>3. CASE Becomes(h, At("find"))
        BY <2>1, <2>2, <2>3, LooksOn
    <2>4. CASE Becomes(h, Idle) /\ ~NobodyOffered
        <3>1. Pending' = Pending /\ WithOutcome("accepted")' = WithOutcome("accepted")
            BY <2>2 DEF Pending, WithOutcome
        <3>2. ASSUME Pending = {}, rider = NoRider
              PROVE  \E g \in Slots : g # h /\ Looking(run[g])
            <4>1. PICK g \in Slots : run[g].at \in {"assign", "hand"}
                BY <2>4, <3>2 DEF NobodyOffered, OfferedInv, AcceptedIsHeld
            <4>. QED
                BY <2>2, <4>1 DEF Looking
        <3>. QED
            BY <1>2, <2>2, <2>4, <3>1, <3>2, StaysOffered
    <2>. QED
        BY <1>5, <2>3, <2>4 DEF ReadExisting
<1>6. CASE FindRider(h)
    BY <1>6, OfferToLooksOn DEF FindRider, orderVars
<1>7. CASE CreateAssignment(h)
    <2>. DEFINE row == [rider |-> run[h].rider, no |-> NextNo(run[h].offer),
                        outcome |-> "pending"]
                x == Doing("arm", Len(offers) + 1, run[h].todo, NoRider, "placed")
    <2>1. run[h].rider \in Riders /\ run[h].offer \in DOMAIN offers \cup {0}
        BY <1>7 DEF CreateAssignment, Grounded
    <2>2. NextNo(run[h].offer) \in Nat
        BY <2>1 DEF NextNo, Offer
    <2>3. row \in Offer /\ row.outcome = "pending"
        BY <2>1, <2>2 DEF Offer, Outcomes
    <2>4. WritesInTurn(x)
        BY DEF WritesInTurn, Doing
    <2>5. /\ Becomes(h, x) /\ offers' = Append(offers, row) /\ run[h].at = "create"
          /\ UNCHANGED <<status, rider>>
        BY <1>7 DEF CreateAssignment, orderVars
    <2>. HIDE DEF row, x
    <2>6. Pending' # {} /\ WithOutcome("accepted")' \subseteq WithOutcome("accepted")
        BY <2>3, <2>5, RowAppended DEF Pending, WithOutcome
    <2>7. offers' # <<>>
        BY <2>6 DEF Pending, WithOutcome
    <2>. QED
        BY <2>4, <2>5, <2>6, <2>7, StaysOffered
<1>8. CASE ArmTimer(h)
    <2>1. WritesInTurn(Continues(run[h].todo)) /\ ~Looking(run[h])
        BY <1>8 DEF ArmTimer, Looking, WritesInTurn, Continues, Idle, At, Doing
    <2>. QED
        BY <1>8, <2>1, Unrelated DEF ArmTimer, orderVars
<1>. QED
    BY <1>3, <1>4, <1>5, <1>6, <1>7, <1>8

LEMMA RefusalLooks ==
    ASSUME RiderInv, OfferedInv, NEW h \in Slots,
           \/ \E a \in DOMAIN offers : FireTimer(h, a)
           \/ ReadOffers(h) \/ DropOffer(h) \/ ReassignOrder(h) \/ FindNext(h)
    PROVE  OfferedInv'
<1>. USE Known
<1>1. ASSUME NEW todo PROVE WritesInTurn(Continues(todo))
    BY DEF WritesInTurn, Continues, Idle, At, Doing
<1>2. ASSUME NEW a \in DOMAIN offers, FireTimer(h, a) PROVE OfferedInv'
    <2>1. ~Looking(run[h])
        BY <1>2 DEF FireTimer, Looking, Idle, At, Doing
    <2>2. WritesInTurn(Idle) /\ WritesInTurn(Doing("drop", 0, {a}, NoRider, "placed"))
        BY DEF WritesInTurn, Idle, At, Doing
    <2>. QED
        BY <1>2, <2>1, <2>2, Unrelated DEF FireTimer, orderVars
<1>3. CASE ReadOffers(h)
    <2>1. ~Looking(run[h])
        BY <1>3 DEF ReadOffers, Looking
    <2>. QED
        BY <1>1, <1>3, <2>1, Unrelated DEF ReadOffers, orderVars, timerVars
<1>4. CASE DropOffer(h)
    <2>1. PICK a \in run[h].todo :
              /\ SetOutcome(a, "declined")
              /\ Becomes(h, Doing("reassign", a, run[h].todo \ {a}, NoRider, "placed"))
        BY <1>4 DEF DropOffer
    <2>. DEFINE x == Doing("reassign", a, run[h].todo \ {a}, NoRider, "placed")
    <2>2. Looking(x) /\ WritesInTurn(x)
        BY DEF Looking, WritesInTurn, Doing
    <2>3. a \in DOMAIN offers /\ Becomes(h, x)
        BY <2>1
    <2>4. UNCHANGED <<status, rider>> /\ run[h].at = "drop"
        BY <1>4 DEF DropOffer, orderVars
    <2>. HIDE DEF x
    <2>. QED
        BY <2>1, <2>2, <2>3, <2>4, NoNewAcceptance, StaysOffered
<1>5. CASE ReassignOrder(h)
    <2>1. UNCHANGED <<status, rider, offers>> /\ run[h].at = "reassign"
        BY <1>5 DEF ReassignOrder, orderVars
    <2>2. CASE Becomes(h, Continues(run[h].todo)) /\ (status # "waiting" \/ rider # NoRider)
        BY <1>1, <2>1, <2>2, LooksOn
    <2>3. CASE Becomes(h, [run[h] EXCEPT !.at = "next"])
        <3>1. /\ Looking([run[h] EXCEPT !.at = "next"])
              /\ WritesInTurn([run[h] EXCEPT !.at = "next"])
            BY DEF Looking, WritesInTurn, Execution
        <3>. QED
            BY <2>1, <2>3, <3>1, LooksOn
    <2>. QED
        BY <1>5, <2>2, <2>3 DEF ReassignOrder, InDelivery
<1>6. CASE FindNext(h)
    BY <1>6, OfferToLooksOn DEF FindNext, orderVars
<1>. QED
    BY <1>2, <1>3, <1>4, <1>5, <1>6

LEMMA AcceptanceLooks ==
    ASSUME RiderInv, OfferedInv, NEW h \in Slots,
           \/ WriteAccepted(h) \/ AssignOrder(h)
           \/ ReadOpen(h) \/ DropOpen(h) \/ RecordAcceptance(h) \/ HandOver(h)
    PROVE  OfferedInv'
<1>. USE Known
<1>1. CASE WriteAccepted(h)
    <2>. DEFINE x == [run[h] EXCEPT !.at = "assign"]
    <2>1. x.at = "assign" /\ Looking(x) /\ WritesInTurn(x)
        BY DEF Looking, WritesInTurn, Execution
    <2>2. run[h].offer \in DOMAIN offers
        BY <1>1 DEF WriteAccepted, Grounded
    <2>3. DOMAIN offers' = DOMAIN offers
        BY <1>1, <2>2, OutcomeWritten DEF WriteAccepted, Outcomes
    <2>4. offers # <<>> /\ offers' # <<>>
        BY <2>2, <2>3
    <2>5. Becomes(h, x) /\ UNCHANGED <<status, rider>>
        BY <1>1 DEF WriteAccepted, orderVars
    <2>. HIDE DEF x
    <2>. QED
        BY <2>1, <2>4, <2>5, StaysOffered
<1>2. CASE AssignOrder(h)
    <2>1. run[h].rider \in Riders
        BY <1>2 DEF AssignOrder, Grounded
    <2>2. rider' # NoRider /\ status' = "delivery_assigned" /\ Becomes(h, Idle)
        BY <1>2, <2>1, DeliveryAssumption DEF AssignOrder
    <2>3. Idle.at = "idle"
        BY DEF Idle, At, Doing
    <2>. QED
        BY <2>2, <2>3, HasRider
<1>3. CASE ReadOpen(h)
    <2>1. ~Looking(run[h])
        BY <1>3 DEF ReadOpen, Looking
    <2>2. WritesInTurn(Doing("record", 0, OpenOffers, run[h].rider, run[h].seen))
        BY DEF WritesInTurn, Doing
    <2>. QED
        BY <1>3, <2>1, <2>2, Unrelated DEF ReadOpen, orderVars, timerVars
<1>4. CASE DropOpen(h)
    <2>1. PICK a \in run[h].todo :
              /\ SetOutcome(a, "declined")
              /\ Becomes(h, [run[h] EXCEPT !.todo = @ \ {a}])
        BY <1>4 DEF DropOpen
    <2>. DEFINE x == [run[h] EXCEPT !.todo = @ \ {a}]
    <2>2. UNCHANGED <<status, rider>> /\ run[h].at = "record"
        BY <1>4 DEF DropOpen, orderVars
    <2>3. Looking(x) /\ WritesInTurn(x)
        BY <2>2 DEF Looking, WritesInTurn, Execution
    <2>4. a \in DOMAIN offers /\ Becomes(h, x)
        BY <2>1
    <2>. HIDE DEF x
    <2>. QED
        BY <2>1, <2>2, <2>3, <2>4, NoNewAcceptance, StaysOffered
<1>5. CASE RecordAcceptance(h)
    <2>1. PICK n \in 1 .. Len(offers) + 1 :
              offers' = Append(offers, [rider |-> run[h].rider, no |-> n,
                                        outcome |-> "accepted"])
        BY <1>5 DEF RecordAcceptance
    <2>. DEFINE x == [run[h] EXCEPT !.at = "hand"]
                row == [rider |-> run[h].rider, no |-> n, outcome |-> "accepted"]
    <2>2. x.at = "hand" /\ Looking(x) /\ WritesInTurn(x)
        BY DEF Looking, WritesInTurn, Execution
    <2>3. run[h].rider \in Riders /\ n \in Nat
        BY <1>5 DEF RecordAcceptance, Grounded
    <2>4. row \in Offer
        BY <2>3 DEF Offer, Outcomes
    <2>5. offers' = Append(offers, row)
        BY <2>1
    <2>6. Becomes(h, x) /\ UNCHANGED <<status, rider>>
        BY <1>5 DEF RecordAcceptance, orderVars
    <2>. HIDE DEF x, row
    <2>7. offers' # <<>>
        BY <2>4, <2>5, RowAppended
    <2>. QED
        BY <2>2, <2>6, <2>7, StaysOffered
<1>6. CASE HandOver(h)
    <2>1. run[h].rider \in Riders
        BY <1>6 DEF HandOver, Grounded
    <2>2. rider' # NoRider /\ Becomes(h, Idle) /\ status' \in {status, "delivery_assigned"}
        BY <1>6, <2>1, DeliveryAssumption DEF HandOver
    <2>3. Idle.at = "idle"
        BY DEF Idle, At, Doing
    <2>. QED
        BY <2>2, <2>3, HasRider DEF OfferedInv, WaitsOrCancelled
<1>. QED
    BY <1>1, <1>2, <1>3, <1>4, <1>5, <1>6

LEMMA StatusLooks ==
    ASSUME RiderInv, OfferedInv, ~Revived, NEW h \in Slots,
           WriteStatus(h) \/ WriteDelivered(h) \/ GenerateSettlement(h)
    PROVE  OfferedInv'
<1>. USE Known
<1>1. \A x \in {Idle, At("trigger"), At("settle"), At("list")} :
         x.at \notin {"write", "deliver", "revoke", "move"} /\ WritesInTurn(x)
    BY DEF Idle, At, Doing, WritesInTurn
<1>2. CASE WriteStatus(h)
    <2>1. PICK x \in {Idle, At("trigger")} : Becomes(h, x)
        BY <1>2 DEF WriteStatus
    <2>2. /\ status' = run[h].seen /\ UNCHANGED <<rider, offers, retry>>
          /\ run[h].at = "write"
        BY <1>2 DEF WriteStatus, timerVars
    <2>3. /\ run[h].seen # "placed"
          /\ run[h].seen \in {"waiting", "cancelled"} \/ rider # NoRider
        BY <2>2 DEF OfferedInv, WritesInTurn
    <2>4. CASE rider # NoRider
        BY <1>1, <2>1, <2>2, <2>3, <2>4, HasRider
    <2>5. CASE rider = NoRider /\ run[h].seen = "waiting"
        <3>1. status' = status
            BY <2>2, <2>3, <2>5 DEF OfferedInv, WaitsOrCancelled, Revived
        <3>2. ~Looking(run[h])
            BY <2>2 DEF Looking
        <3>. QED
            BY <1>1, <2>1, <2>2, <3>1, <3>2, Unrelated
    <2>6. CASE rider = NoRider /\ run[h].seen = "cancelled"
        <3>1. status' = "cancelled"
            BY <2>2, <2>3, <2>6
        <3>2. \A g \in Slots : g # h => run'[g] = run[g]
            BY <2>1 DEF Becomes, RiderInv, TypeOK
        <3>3. run'[h] = x
            BY <2>1 DEF Becomes, RiderInv, TypeOK
        <3>4. AcceptedIsHeld'
            BY <2>2, <3>2 DEF AcceptedIsHeld, OfferedInv, WithOutcome
        <3>5. ASSUME NEW g \in Slots PROVE WritesInTurn(run[g])'
            BY <1>1, <2>1, <2>2, <3>2, <3>3, <3>5 DEF WritesInTurn, OfferedInv
        <3>. QED
            BY <2>6, <3>1, <3>4, <3>5 DEF OfferedInv, NeverForgotten, WaitsOrCancelled
    <2>. QED
        BY <2>3, <2>4, <2>5, <2>6
<1>3. CASE WriteDelivered(h)
    <2>1. rider # NoRider
        BY <1>3 DEF WriteDelivered, OfferedInv, WritesInTurn
    <2>. QED
        BY <1>1, <1>3, <2>1, HasRider DEF WriteDelivered
<1>4. CASE GenerateSettlement(h)
    <2>1. ~Looking(run[h])
        BY <1>4 DEF GenerateSettlement, Looking
    <2>. QED
        BY <1>1, <1>4, <2>1, Unrelated DEF GenerateSettlement, orderVars, timerVars
<1>. QED
    BY <1>2, <1>3, <1>4

LEMMA CallLooks ==
    ASSUME RiderInv, OfferedInv, NEW h \in Slots, Call(h)
    PROVE  OfferedInv'
<1>. USE Known
<1>1. ASSUME NEW c, NEW x, Starts(h, c, x), UNCHANGED <<status, rider, offers, retry>>,
             WritesInTurn(x)
      PROVE  OfferedInv'
    <2>1. ~Looking(run[h])
        BY <1>1 DEF Starts, Looking, Idle, At, Doing
    <2>. QED
        BY <1>1, <2>1, Unrelated DEF Starts
<1>2. ASSUME NEW p, NEW a, NEW t, NEW r, NEW s,
             p \notin {"write", "deliver", "revoke", "move"}
      PROVE  WritesInTurn(Doing(p, a, t, r, s))
    BY <1>2 DEF WritesInTurn, Doing
<1>3. CASE UpdateLocation(h)
    BY <1>1, <1>2, <1>3 DEF UpdateLocation, At, orderVars, timerVars
<1>4. ASSUME NEW a \in DOMAIN offers, RiderRejects(h, a) \/ RiderAccepts(h, a)
      PROVE  OfferedInv'
    BY <1>1, <1>2, <1>4 DEF RiderRejects, RiderAccepts, orderVars, timerVars
<1>5. ASSUME NEW r \in Riders, GoOffline(h, r) \/ GoOnline(h, r) \/ AdminAssigns(h, r)
      PROVE  OfferedInv'
    BY <1>1, <1>2, <1>5 DEF GoOffline, GoOnline, AdminAssigns, At, orderVars, timerVars
<1>6. ASSUME NEW s \in Statuses \ {"placed"},
             s \in {"waiting", "cancelled"} \/ rider # NoRider
      PROVE  WritesInTurn(Writing(s))
    BY <1>6 DEF WritesInTurn, Writing, Doing
<1>7. CASE Advance(h)
    <2>1. /\ NextStatus(status) \in Statuses \ {"placed"}
          /\ NextStatus(status) = "waiting" \/ rider # NoRider
        BY <1>7 DEF Advance, NextStatus, Statuses, InDelivery
    <2>2. WritesInTurn(Writing(NextStatus(status)))
        BY <1>6, <2>1
    <2>. QED
        BY <1>1, <1>7, <2>2 DEF Advance, orderVars, timerVars
<1>8. ASSUME NEW s \in {"waiting"} \cup InDelivery, AdminSets(h, s)
      PROVE  OfferedInv'
    <2>1. s \in Statuses \ {"placed"} /\ (s = "waiting" \/ rider # NoRider)
        BY <1>8 DEF AdminSets, Statuses, InDelivery
    <2>2. WritesInTurn(Writing(s))
        BY <1>6, <2>1
    <2>. QED
        BY <1>1, <1>8, <2>2 DEF AdminSets, orderVars, timerVars
<1>9. CASE Cancel(h)
    <2>1. WritesInTurn(Writing("cancelled"))
        BY <1>6 DEF Statuses
    <2>. QED
        BY <1>1, <1>9, <2>1 DEF Cancel, orderVars, timerVars
<1>10. CASE Complete(h)
    <2>1. WritesInTurn(At("deliver"))
        BY <1>10 DEF Complete, WritesInTurn, At, Doing
    <2>. QED
        BY <1>1, <1>10, <2>1 DEF Complete, orderVars, timerVars
<1>. QED
    BY <1>3, <1>4, <1>5, <1>7, <1>8, <1>9, <1>10 DEF Call

LEMMA OfferedStep ==
    ASSUME RiderInv, OfferedInv, ~Revived, [Proceed]_vars
    PROVE  OfferedInv'
<1>0. ASSUME NEW h \in Slots PROVE ~RevokeOffers(h) /\ ~MoveOrder(h)
    BY <1>0 DEF OfferedInv, WritesInTurn, RevokeOffers, MoveOrder
<1>1. ASSUME NEW h \in Slots, Continue(h) PROVE OfferedInv'
    BY <1>0, <1>1, TriggerLooks, RefusalLooks, AcceptanceLooks, StatusLooks DEF Continue
<1>2. ASSUME NEW h \in Slots, Call(h) PROVE OfferedInv'
    BY <1>2, CallLooks
<1>3. ASSUME NEW h \in Slots, FireRetry(h) PROVE OfferedInv'
    <2>1. Looking(At("trigger")) /\ WritesInTurn(At("trigger"))
        BY DEF Looking, WritesInTurn, At, Doing
    <2>2. run[h].at = "idle"
        BY <1>3 DEF FireRetry, Idle, At, Doing
    <2>. QED
        BY <1>3, <2>1, <2>2, LooksOn DEF FireRetry, orderVars
<1>4. ASSUME NEW h \in Slots, NEW a \in DOMAIN offers, FireTimer(h, a) PROVE OfferedInv'
    BY <1>4, RefusalLooks
<1>5. CASE (\E r \in Riders : Load(r)) \/ UNCHANGED vars
    BY <1>5 DEF Load, vars, orderVars, timerVars, OfferedInv, NeverForgotten, AcceptedIsHeld,
                WaitsOrCancelled, WritesInTurn, Pending, WithOutcome, Looking
<1>6. ~VendorAccepts
    BY DEF VendorAccepts, OfferedInv, WaitsOrCancelled
<1>. QED
    BY <1>1, <1>2, <1>3, <1>4, <1>5, <1>6 DEF Proceed, Timer

LEMMA OfferedInvariant == MCSpec => [](calm => OfferedInv)
<1>. DEFINE Inv == calm => OfferedInv
<1>1. Init => OfferedInv
    <2>1. Idle.at = "idle"
        BY DEF Idle, At, Doing
    <2>. QED
        BY <2>1 DEF Init, OfferedInv, NeverForgotten, AcceptedIsHeld, WaitsOrCancelled,
                    WritesInTurn, WithOutcome
<1>2. MCInit => Inv
    BY <1>1 DEF MCInit
<1>3. RiderInv /\ Inv /\ [MCNext]_<<vars, history>> => Inv'
    <2>1. ASSUME RiderInv, Inv, calm, [Proceed]_vars, ~Revived
          PROVE  Inv'
        BY <2>1, OfferedStep
    <2>. QED
        BY <2>1, HistoryOfSpec
<1>. QED
    BY <1>2, <1>3, RiderInvariant, MCSpecSteps, PTL DEF MCSpec

(* "keep offering until accepted": whatever calls there are and however    *)
(* handlers interleave, an order without a rider whose search has begun    *)
(* has an offer open, a retry timer armed, or a handler at work that will  *)
(* see to it (as long as nothing disturbs it).                             *)
THEOREM NoOrderForgotten == MCSpec => []NeverForgottenCalm
<1>1. (calm => OfferedInv) => NeverForgottenCalm
    BY DEF OfferedInv, NeverForgottenCalm
<1>. QED
    BY <1>1, OfferedInvariant, PTL
-----------------------------------------------------------------------------
(* One handler at a time: what is on record of the offers and the          *)
(* settlement, and what the handler at work x knows of them.               *)
Accepted == WithOutcome("accepted")

Held == IF rider = NoRider THEN Accepted = {}
        ELSE Accepted # {} /\ \A a \in Accepted : offers[a].rider = rider

AloneAt(x) ==
    /\ status = "delivered" => x.at \in {"idle", "settle", "list", "offline"}
    /\ x.at = "deliver" => Pending = {} /\ ~retry
    /\ x.at = "settle" => settled = 0 /\ status = "delivered"
    /\ x.at = "write" => x.seen # "delivered"
    /\ x.at = "accept" => x.offer \in Pending /\ offers[x.offer].rider = x.rider
    /\ x.at = "drop" => x.todo \subseteq Pending
    /\ x.at \in {"reassign", "next", "create", "arm"} => x.todo = {}
    /\ x.at \in {"reassign", "next", "create", "find"} =>
          Pending = {} /\ Accepted = {} /\ rider = NoRider
    /\ x.at = "existing" => rider = NoRider
    /\ x.at \in {"assign", "hand"} =>
          /\ Pending = {} /\ ~retry
          /\ Accepted # {} /\ \A a \in Accepted : offers[a].rider = x.rider
    /\ x.at = "record" => Pending \cup Accepted \subseteq x.todo

OnRecord ==
    /\ \A a, b \in Pending : a = b
    /\ Pending # {} => Accepted = {} /\ rider = NoRider
    /\ retry => rider = NoRider
    /\ settled <= 1 /\ (settled = 1 => status = "delivered")
    /\ status = "delivered" => Pending = {} /\ ~retry

SerialInv == OnRecord /\ \A h \in Slots : AloneAt(run[h])

(* While nothing disturbs it: who accepted is who rides, and what is       *)
(* delivered is settled.                                                   *)
CalmAt(x) ==
    /\ x.at \notin {"assign", "record", "hand"} => Held
    /\ x.at # "settle" /\ status = "delivered" => settled = 1

CalmInv ==
    calm => /\ \A h \in Slots : run[h] # Idle => CalmAt(run[h])
            /\ Quiet => CalmAt(Idle)

(* Only h is at work.                                                      *)
OthersIdle(h) == \A g \in Slots : g # h => run[g] = Idle

LEMMA IdleIs == Idle.at = "idle" /\ AloneAt(Idle)
BY DEF Idle, At, Doing, AloneAt

(* The one handler at work moves on to the state x.                        *)
LEMMA AtWork ==
    ASSUME RiderInv, SerialInv, CalmInv, NEW h \in Slots, OthersIdle(h), NEW x, Becomes(h, x),
           OnRecord', AloneAt(x)', calm' => calm,
           calm' /\ CalmAt(run[h]) => CalmAt(x)'
    PROVE  SerialInv' /\ CalmInv'
<1>1. \A g \in Slots : run'[g] = IF g = h THEN x ELSE Idle
    BY DEF Becomes, RiderInv, TypeOK, OthersIdle
<1>2. ASSUME NEW g \in Slots PROVE AloneAt(run[g])'
    <2>1. AloneAt(Idle)'
        BY IdleIs DEF AloneAt
    <2>. QED
        BY <1>1, <2>1 DEF AloneAt
<1>3. ASSUME calm' PROVE CalmAt(x)'
    <2>1. calm
        BY <1>3
    <2>2. CASE run[h] = Idle
        <3>1. Quiet
            BY <2>2 DEF OthersIdle, Quiet
        <3>. QED
            BY <1>3, <2>1, <2>2, <3>1 DEF CalmInv
    <2>3. CASE run[h] # Idle
        BY <1>3, <2>1, <2>3 DEF CalmInv
    <2>. QED
        BY <2>2, <2>3
<1>4. ASSUME calm', NEW g \in Slots, run'[g] # Idle PROVE CalmAt(run[g])'
    <2>1. run'[g] = x
        BY <1>1, <1>4
    <2>. QED
        BY <1>3, <1>4, <2>1 DEF CalmAt
<1>5. ASSUME calm', Quiet' PROVE CalmAt(Idle)'
    <2>1. x = Idle
        BY <1>1, <1>5 DEF Quiet
    <2>. QED
        BY <1>3, <1>5, <2>1 DEF CalmAt
<1>. QED
    BY <1>2, <1>4, <1>5 DEF SerialInv, CalmInv

LEMMA SameOffers ==
    ASSUME UNCHANGED offers
    PROVE  Pending' = Pending /\ Accepted' = Accepted
BY DEF Pending, Accepted, WithOutcome

(* It has only read, or disarmed the retry timer.                          *)
LEMMA Turns ==
    ASSUME RiderInv, SerialInv, CalmInv, NEW h \in Slots, OthersIdle(h), NEW x, Becomes(h, x),
           UNCHANGED <<status, rider, offers, settled>>, retry' = retry \/ retry' = FALSE,
           calm' => calm,
           AloneAt(x), run[h].at \notin {"assign", "record", "hand", "settle"}
    PROVE  SerialInv' /\ CalmInv'
<1>1. Pending' = Pending /\ Accepted' = Accepted
    BY SameOffers
<1>2. OnRecord'
    BY <1>1 DEF OnRecord, SerialInv
<1>3. AloneAt(x)'
    BY <1>1 DEF AloneAt
<1>4. CalmAt(run[h]) => CalmAt(x)'
    BY <1>1 DEF CalmAt, Held
<1>. QED
    BY <1>2, <1>3, <1>4, AtWork

(* The outcome of one offer is written.                                    *)
LEMMA OutcomeIs ==
    ASSUME RiderInv, NEW a \in DOMAIN offers, NEW o \in {"accepted", "declined"}, SetOutcome(a, o)
    PROVE  /\ Pending' = Pending \ {a}
           /\ o = "declined" => Accepted' = Accepted \ {a}
           /\ o = "accepted" => Accepted' = Accepted \cup {a}
           /\ \A b \in DOMAIN offers : offers'[b].rider = offers[b].rider
<1>1. /\ DOMAIN offers' = DOMAIN offers /\ offers'[a].outcome = o
      /\ \A b \in DOMAIN offers : b # a => offers'[b] = offers[b]
    BY OutcomeWritten DEF Outcomes
<1>2. offers'[a].rider = offers[a].rider
    BY DEF SetOutcome, RiderInv, TypeOK
<1>. QED
    BY <1>1, <1>2 DEF Pending, Accepted, WithOutcome

LEMMA RowIs ==
    ASSUME RiderInv, NEW row \in Offer, offers' = Append(offers, row)
    PROVE  /\ Len(offers) + 1 \notin DOMAIN offers
           /\ offers'[Len(offers) + 1] = row
           /\ \A b \in DOMAIN offers : offers'[b] = offers[b]
           /\ row.outcome = "pending" =>
                 Pending' = Pending \cup {Len(offers) + 1} /\ Accepted' = Accepted
           /\ row.outcome = "accepted" =>
                 Pending' = Pending /\ Accepted' = Accepted \cup {Len(offers) + 1}
BY RowAppended DEF Pending, Accepted, WithOutcome

LEMMA DoingIs ==
    ASSUME NEW p, NEW a, NEW todo, NEW r, NEW s
    PROVE  /\ Doing(p, a, todo, r, s).at = p /\ Doing(p, a, todo, r, s).offer = a
           /\ Doing(p, a, todo, r, s).todo = todo /\ Doing(p, a, todo, r, s).rider = r
           /\ Doing(p, a, todo, r, s).seen = s
BY DEF Doing

LEMMA AtIs == \A p : At(p).at = p /\ At(p).todo = {}
BY DEF At, Doing

LEMMA ContinuesIs ==
    /\ Continues({}) = Idle
    /\ \A todo : todo # {} => Continues(todo).at = "drop" /\ Continues(todo).todo = todo
BY DEF Continues, Doing

LEMMA MovedIs ==
    ASSUME NEW c \in Execution, NEW q, NEW todo
    PROVE  /\ [c EXCEPT !.at = q].at = q /\ [c EXCEPT !.at = q].offer = c.offer
           /\ [c EXCEPT !.at = q].todo = c.todo /\ [c EXCEPT !.at = q].rider = c.rider
           /\ [c EXCEPT !.at = q].seen = c.seen
           /\ [c EXCEPT !.todo = todo].at = c.at /\ [c EXCEPT !.todo = todo].todo = todo
           /\ [c EXCEPT !.todo = todo].rider = c.rider
BY DEF Execution

(* A call that begins.                                                     *)
LEMMA BeginsAlone ==
    ASSUME SerialInv, NEW h \in Slots, run[h] = Idle
    PROVE  run[h].at = "idle"
BY IdleIs

LEMMA CallAlone ==
    ASSUME RiderInv, SerialInv, CalmInv, NEW h \in Slots, OthersIdle(h),
           Call(h) \/ Timer(h) \/ Restore(h), calm' => calm
    PROVE  SerialInv' /\ CalmInv'
<1>1. OnRecord
    BY DEF SerialInv
<1>2. ASSUME NEW x, run[h] = Idle, Becomes(h, x), AloneAt(x),
             UNCHANGED <<status, rider, offers, settled>>, retry' = retry \/ retry' = FALSE
      PROVE  SerialInv' /\ CalmInv'
    BY <1>2, Turns, BeginsAlone
<1>3. AloneAt(At("list"))
    BY AtIs DEF AloneAt
<1>4. CASE UpdateLocation(h) \/ (\E r \in Riders : GoOnline(h, r))
    BY <1>2, <1>3, <1>4 DEF UpdateLocation, GoOnline, Starts, orderVars, timerVars
<1>5. ASSUME NEW r \in Riders, GoOffline(h, r) PROVE SerialInv' /\ CalmInv'
    <2>1. AloneAt(Doing("offline", 0, {}, r, "placed"))
        BY DoingIs DEF AloneAt
    <2>. QED
        BY <1>2, <1>5, <2>1 DEF GoOffline, Starts, orderVars, timerVars
<1>6. ASSUME NEW a \in Pending PROVE AloneAt(Doing("drop", 0, {a}, NoRider, "placed"))
    BY <1>1, <1>6, DoingIs DEF AloneAt, OnRecord
<1>7. ASSUME NEW a \in DOMAIN offers, RiderRejects(h, a) PROVE SerialInv' /\ CalmInv'
    BY <1>2, <1>6, <1>7 DEF RiderRejects, Starts, orderVars, timerVars
<1>8. ASSUME NEW a \in DOMAIN offers, RiderAccepts(h, a) PROVE SerialInv' /\ CalmInv'
    <2>1. AloneAt(Doing("accept", a, {}, offers[a].rider, "placed"))
        BY <1>1, <1>8, DoingIs DEF AloneAt, OnRecord, RiderAccepts
    <2>. QED
        BY <1>2, <1>8, <2>1 DEF RiderAccepts, Starts, orderVars, timerVars
<1>9. ASSUME NEW r \in Riders, AdminAssigns(h, r) PROVE SerialInv' /\ CalmInv'
    <2>1. AloneAt(Doing("open", 0, {}, r, status))
        BY <1>9, DoingIs DEF AloneAt, AdminAssigns, InDelivery
    <2>. QED
        BY <1>2, <1>9, <2>1 DEF AdminAssigns, Starts, orderVars, timerVars
<1>10. ASSUME NEW s, s # "delivered", status # "delivered" PROVE AloneAt(Writing(s))
    BY <1>10, DoingIs DEF AloneAt, Writing
<1>11. CASE Advance(h)
    <2>1. status # "delivered" /\ NextStatus(status) # "delivered"
        BY <1>11 DEF Advance, NextStatus
    <2>. QED
        BY <1>2, <1>10, <1>11, <2>1 DEF Advance, Starts, orderVars, timerVars
<1>12. CASE Cancel(h) \/ Restore(h)
    BY <1>2, <1>10, <1>12 DEF Cancel, Restore, Starts, orderVars, timerVars
<1>13. ASSUME NEW s \in {"waiting"} \cup InDelivery, AdminSets(h, s) PROVE SerialInv' /\ CalmInv'
    <2>1. s # "delivered"
        BY DEF InDelivery
    <2>. QED
        BY <1>2, <1>10, <1>13, <2>1 DEF AdminSets, Starts, orderVars, timerVars
<1>14. CASE Complete(h)
    <2>1. AloneAt(At("deliver"))
        BY <1>1, <1>14, AtIs DEF AloneAt, OnRecord, Complete, Deliverable, InDelivery
    <2>. QED
        BY <1>2, <1>14, <2>1 DEF Complete, Starts, orderVars, timerVars
<1>15. CASE FireRetry(h)
    <2>1. AloneAt(At("trigger"))
        BY <1>1, <1>15, AtIs DEF AloneAt, OnRecord, FireRetry
    <2>. QED
        BY <1>2, <1>15, <2>1 DEF FireRetry, orderVars
<1>16. ASSUME NEW a \in DOMAIN offers, FireTimer(h, a) PROVE SerialInv' /\ CalmInv'
    BY <1>2, <1>6, <1>16, IdleIs DEF FireTimer, orderVars
<1>. QED
    BY <1>4, <1>5, <1>7, <1>8, <1>9, <1>11, <1>12, <1>13, <1>14, <1>15, <1>16 DEF Call, Timer

(* The handler reads, and decides. *)
LEMMA ReadsAlone ==
    ASSUME RiderInv, SerialInv, CalmInv, NEW h \in Slots, OthersIdle(h),
           \/ ListWaiting(h) \/ ReadOrder(h) \/ ReadExisting(h) \/ ArmTimer(h)
           \/ ReadOffers(h) \/ ReassignOrder(h) \/ ReadOpen(h),
           calm' => calm
    PROVE  SerialInv' /\ CalmInv'
<1>1. OnRecord /\ AloneAt(run[h])
    BY DEF SerialInv
<1>2. run[h] \in Execution
    BY Known
<1>3. ASSUME NEW x, Becomes(h, x), AloneAt(x), UNCHANGED <<status, rider, offers, settled>>,
             retry' = retry \/ retry' = FALSE,
             run[h].at \notin {"assign", "record", "hand", "settle"}
      PROVE  SerialInv' /\ CalmInv'
    BY <1>3, Turns
<1>4. CASE ListWaiting(h)
    <2>1. status = "waiting" => AloneAt(At("trigger"))
        BY AtIs DEF AloneAt
    <2>. QED
        BY <1>3, <1>4, <2>1, IdleIs DEF ListWaiting, orderVars, timerVars
<1>5. CASE ReadOrder(h)
    <2>1. rider = NoRider => AloneAt(At("existing"))
        BY <1>1, <1>5, AtIs DEF AloneAt, ReadOrder
    <2>. QED
        BY <1>3, <1>5, <2>1, IdleIs DEF ReadOrder, orderVars
<1>6. CASE ReadExisting(h)
    <2>1. NobodyOffered => AloneAt(At("find"))
        BY <1>1, <1>6, AtIs DEF AloneAt, ReadExisting, NobodyOffered, Accepted
    <2>. QED
        BY <1>3, <1>6, <2>1, IdleIs DEF ReadExisting, orderVars, timerVars
<1>7. CASE ArmTimer(h)
    <2>1. run[h].todo = {}
        BY <1>1, <1>7 DEF AloneAt, ArmTimer
    <2>. QED
        BY <1>3, <1>7, <2>1, IdleIs, ContinuesIs DEF ArmTimer, orderVars
<1>8. CASE ReadOffers(h)
    <2> DEFINE own == {a \in Pending : offers[a].rider = run[h].rider}
    <2>1. Becomes(h, Continues(own))
        BY <1>8 DEF ReadOffers
    <2>2. own \subseteq Pending
        OBVIOUS
    <2>3. run[h].at = "offline" /\ UNCHANGED <<status, rider, offers, settled, retry>>
        BY <1>8 DEF ReadOffers, orderVars, timerVars
    <2>. HIDE DEF own
    <2>4. AloneAt(Continues(own))
        <3>1. CASE own = {}
            BY <3>1, IdleIs, ContinuesIs
        <3>2. CASE own # {}
            <4> DEFINE y == Continues(own)
            <4>1. y.at = "drop" /\ y.todo = own
                BY <3>2, ContinuesIs
            <4>2. status # "delivered"
                BY <1>1, <2>2, <3>2 DEF OnRecord
            <4>. HIDE DEF y
            <4>3. AloneAt(y)
                BY <2>2, <4>1, <4>2 DEF AloneAt
            <4>. QED
                BY <4>3 DEF y
        <3>. QED
            BY <3>1, <3>2
    <2>. QED
        BY <1>3, <2>1, <2>3, <2>4
<1>9. CASE ReassignOrder(h)
    <2>1. /\ run[h].at = "reassign" /\ run[h].todo = {} /\ status # "delivered"
          /\ Pending = {} /\ Accepted = {} /\ rider = NoRider
        BY <1>1, <1>9 DEF AloneAt, ReassignOrder
    <2>2. AloneAt([run[h] EXCEPT !.at = "next"])
        <3> DEFINE y == [run[h] EXCEPT !.at = "next"]
        <3>1. y.at = "next" /\ y.todo = {}
            BY <1>2, <2>1, MovedIs
        <3>. HIDE DEF y
        <3>2. AloneAt(y)
            BY <2>1, <3>1 DEF AloneAt
        <3>. QED
            BY <3>2 DEF y
    <2>3. \/ Becomes(h, Idle)
          \/ Becomes(h, [run[h] EXCEPT !.at = "next"])
        BY <1>9, <2>1, ContinuesIs DEF ReassignOrder
    <2>. QED
        BY <1>3, <1>9, <2>1, <2>2, <2>3, IdleIs DEF ReassignOrder, orderVars
<1>10. CASE ReadOpen(h)
    <2> DEFINE y == Doing("record", 0, OpenOffers, run[h].rider, run[h].seen)
    <2>1. Becomes(h, y) /\ y.at = "record" /\ y.todo = OpenOffers
        BY <1>10, DoingIs DEF ReadOpen
    <2>2. status # "delivered"
        BY <1>1, <1>10 DEF AloneAt, ReadOpen
    <2>. HIDE DEF y
    <2>3. AloneAt(y)
        BY <2>1, <2>2 DEF AloneAt, OpenOffers, Accepted
    <2>. QED
        BY <1>3, <1>10, <2>1, <2>3 DEF ReadOpen, orderVars, timerVars
<1>. QED
    BY <1>4, <1>5, <1>6, <1>7, <1>8, <1>9, <1>10

(* It has looked for a rider to offer the order to. *)
LEMMA OffersAlone ==
    ASSUME RiderInv, SerialInv, CalmInv, NEW h \in Slots, OthersIdle(h),
           FindRider(h) \/ FindNext(h), calm' => calm
    PROVE  SerialInv' /\ CalmInv'
<1>1. OnRecord /\ AloneAt(run[h])
    BY DEF SerialInv
<1>2. /\ run[h].at \in {"find", "next"} /\ status # "delivered"
      /\ Pending = {} /\ Accepted = {} /\ rider = NoRider
      /\ UNCHANGED <<status, rider, offers, settled>>
    BY <1>1 DEF AloneAt, FindRider, FindNext, orderVars
<1>3. PICK S, a : OfferTo(h, S, a, {})
    BY <1>1 DEF FindRider, FindNext, AloneAt
<1>4. ASSUME NEW r \in S, retry' = FALSE, Becomes(h, Doing("create", a, {}, r, "placed"))
      PROVE  SerialInv' /\ CalmInv'
    <2> DEFINE y == Doing("create", a, {}, r, "placed")
    <2>1. Becomes(h, y) /\ y.at = "create" /\ y.todo = {}
        BY <1>4, DoingIs
    <2>. HIDE DEF y
    <2>2. AloneAt(y)
        BY <1>2, <2>1 DEF AloneAt
    <2>. QED
        BY <1>2, <1>4, <2>1, <2>2, Turns
<1>5. ASSUME retry' = TRUE, Becomes(h, Idle) PROVE SerialInv' /\ CalmInv'
    <2>1. Pending' = Pending /\ Accepted' = Accepted
        BY <1>2, SameOffers
    <2>2. OnRecord'
        BY <1>1, <1>2, <2>1 DEF OnRecord
    <2>3. AloneAt(Idle)'
        BY <1>2, IdleIs DEF AloneAt
    <2>4. CalmAt(run[h]) => CalmAt(Idle)'
        BY <1>2, <2>1 DEF CalmAt, Held
    <2>. QED
        BY <1>5, <2>2, <2>3, <2>4, AtWork
<1>. QED
    BY <1>3, <1>4, <1>5, ContinuesIs DEF OfferTo, ScheduleRetry

(* The offer is made. *)
LEMMA OfferedAlone ==
    ASSUME RiderInv, SerialInv, CalmInv, NEW h \in Slots, OthersIdle(h),
           CreateAssignment(h), calm' => calm
    PROVE  SerialInv' /\ CalmInv'
<1>1. OnRecord /\ AloneAt(run[h])
    BY DEF SerialInv
<1>2. /\ run[h].at = "create" /\ run[h].todo = {} /\ status # "delivered"
      /\ Pending = {} /\ Accepted = {} /\ rider = NoRider
      /\ UNCHANGED <<status, rider, settled, retry>>
    BY <1>1 DEF AloneAt, CreateAssignment, orderVars, timerVars
<1>3. PICK row : /\ row = [rider |-> run[h].rider, no |-> NextNo(run[h].offer),
                           outcome |-> "pending"]
                 /\ offers' = Append(offers, row)
    BY DEF CreateAssignment
<1>4. row \in Offer /\ row.outcome = "pending"
    <2>1. run[h].rider \in Riders /\ run[h].offer \in DOMAIN offers \cup {0}
        BY <1>2, Known DEF Grounded
    <2>2. NextNo(run[h].offer) \in Nat
        BY <2>1, Known DEF NextNo, Offer
    <2>. QED
        BY <1>3, <2>1, <2>2 DEF Offer, Outcomes
<1>5. Pending' = {Len(offers) + 1} /\ Accepted' = {}
    BY <1>2, <1>3, <1>4, RowIs
<1>y. PICK y : y = Doing("arm", Len(offers) + 1, run[h].todo, NoRider, "placed")
    OBVIOUS
<1>6. Becomes(h, y) /\ y.at = "arm" /\ y.todo = {}
    BY <1>2, <1>y, DoingIs DEF CreateAssignment
<1>7. OnRecord'
    BY <1>1, <1>2, <1>5 DEF OnRecord
<1>8. AloneAt(y)'
    BY <1>2, <1>6 DEF AloneAt
<1>9. CalmAt(y)'
    BY <1>2, <1>5 DEF CalmAt, Held
<1>. QED
    BY <1>6, <1>7, <1>8, <1>9, AtWork

(* An offer ends, or the order is taken. *)
LEMMA RefusedAlone ==
    ASSUME RiderInv, SerialInv, CalmInv, NEW h \in Slots, OthersIdle(h),
           DropOffer(h), calm' => calm
    PROVE  SerialInv' /\ CalmInv'
<1>1. OnRecord /\ AloneAt(run[h])
    BY DEF SerialInv
<1>2. PICK a \in run[h].todo :
          /\ SetOutcome(a, "declined")
          /\ Becomes(h, Doing("reassign", a, run[h].todo \ {a}, NoRider, "placed"))
    BY DEF DropOffer
<1>3. run[h].at = "drop" /\ run[h].todo \subseteq Pending
    BY <1>1 DEF AloneAt, DropOffer
<1>4. UNCHANGED <<status, rider, settled, retry>>
    BY DEF DropOffer, orderVars
<1>5. /\ run[h].todo = {a} /\ Pending = {a} /\ Accepted = {} /\ rider = NoRider
      /\ status # "delivered"
    BY <1>1, <1>3 DEF OnRecord
<1>6. a \in DOMAIN offers
    BY <1>5 DEF Pending, WithOutcome
<1>7. Pending' = {} /\ Accepted' = {}
    BY <1>2, <1>5, <1>6, OutcomeIs
<1>y. PICK y : y = Doing("reassign", a, run[h].todo \ {a}, NoRider, "placed")
    OBVIOUS
<1>8. Becomes(h, y) /\ y.at = "reassign" /\ y.todo = {}
    BY <1>2, <1>5, <1>y, DoingIs
<1>9. OnRecord'
    BY <1>1, <1>4, <1>5, <1>7 DEF OnRecord
<1>10. AloneAt(y)'
    BY <1>4, <1>5, <1>7, <1>8 DEF AloneAt
<1>11. CalmAt(y)'
    BY <1>4, <1>5, <1>7 DEF CalmAt, Held
<1>. QED
    BY <1>8, <1>9, <1>10, <1>11, AtWork

LEMMA AcceptedAlone ==
    ASSUME RiderInv, SerialInv, CalmInv, NEW h \in Slots, OthersIdle(h),
           WriteAccepted(h), calm' => calm
    PROVE  SerialInv' /\ CalmInv'
<1>1. OnRecord /\ AloneAt(run[h]) /\ run[h] \in Execution
    BY Known DEF SerialInv
<1>2. PICK a : a = run[h].offer
    OBVIOUS
<1>3. /\ run[h].at = "accept" /\ a \in Pending /\ offers[a].rider = run[h].rider
      /\ SetOutcome(a, "accepted") /\ retry' = FALSE
      /\ UNCHANGED <<status, rider, settled>>
    BY <1>1, <1>2 DEF AloneAt, WriteAccepted, orderVars
<1>4. Pending = {a} /\ Accepted = {} /\ rider = NoRider /\ status # "delivered"
    BY <1>1, <1>3 DEF OnRecord
<1>5. a \in DOMAIN offers
    BY <1>4 DEF Pending, WithOutcome
<1>6. Pending' = {} /\ Accepted' = {a} /\ offers'[a].rider = run[h].rider
    BY <1>3, <1>4, <1>5, OutcomeIs
<1>y. PICK y, r : y = [run[h] EXCEPT !.at = "assign"] /\ r = run[h].rider
    OBVIOUS
<1>7. Becomes(h, y) /\ y.at = "assign" /\ y.rider = r
    BY <1>1, <1>y, MovedIs DEF WriteAccepted
<1>8. OnRecord'
    BY <1>1, <1>3, <1>4, <1>6 DEF OnRecord
<1>9. AloneAt(y)'
    BY <1>3, <1>4, <1>6, <1>7, <1>y DEF AloneAt
<1>10. CalmAt(y)'
    BY <1>3, <1>4, <1>7 DEF CalmAt
<1>. QED
    BY <1>7, <1>8, <1>9, <1>10, AtWork

(* The order is given to the rider who has accepted it. *)
LEMMA GivenAlone ==
    ASSUME RiderInv, SerialInv, CalmInv, NEW h \in Slots, OthersIdle(h),
           AssignOrder(h) \/ HandOver(h), calm' => calm
    PROVE  SerialInv' /\ CalmInv'
<1>1. OnRecord /\ AloneAt(run[h])
    BY DEF SerialInv
<1>2. /\ run[h].at \in {"assign", "hand"} /\ status # "delivered"
      /\ Pending = {} /\ ~retry
      /\ Accepted # {} /\ \A a \in Accepted : offers[a].rider = run[h].rider
    BY <1>1 DEF AloneAt, AssignOrder, HandOver
<1>3. /\ rider' = run[h].rider /\ status' # "delivered" /\ Becomes(h, Idle)
      /\ UNCHANGED <<offers, settled, retry>>
    BY <1>2 DEF AssignOrder, HandOver, timerVars
<1>4. rider' # NoRider
    BY <1>2, <1>3, Known, DeliveryAssumption DEF Grounded
<1>5. Pending' = Pending /\ Accepted' = Accepted
    BY <1>3, SameOffers
<1>6. OnRecord'
    BY <1>1, <1>2, <1>3, <1>5 DEF OnRecord
<1>7. AloneAt(Idle)'
    BY <1>3, IdleIs DEF AloneAt
<1>8. CalmAt(Idle)'
    BY <1>2, <1>3, <1>4, <1>5 DEF CalmAt, Held
<1>. QED
    BY <1>3, <1>6, <1>7, <1>8, AtWork

(* The admin clears the offers that stand and records the acceptance. *)
LEMMA RecordsAlone ==
    ASSUME RiderInv, SerialInv, CalmInv, NEW h \in Slots, OthersIdle(h),
           DropOpen(h) \/ RecordAcceptance(h), calm' => calm
    PROVE  SerialInv' /\ CalmInv'
<1>1. OnRecord /\ AloneAt(run[h]) /\ run[h] \in Execution
    BY Known DEF SerialInv
<1>2. /\ run[h].at = "record" /\ status # "delivered"
      /\ Pending \cup Accepted \subseteq run[h].todo
      /\ UNCHANGED <<status, rider, settled>>
    BY <1>1 DEF AloneAt, DropOpen, RecordAcceptance, orderVars
<1>3. CASE DropOpen(h)
    <2>1. PICK a \in run[h].todo :
              /\ SetOutcome(a, "declined")
              /\ Becomes(h, [run[h] EXCEPT !.todo = @ \ {a}])
        BY <1>3 DEF DropOpen
    <2>2. a \in DOMAIN offers
        BY Known
    <2>3. Pending' = Pending \ {a} /\ Accepted' = Accepted \ {a}
        BY <2>1, <2>2, OutcomeIs
    <2>y. PICK y, left : y = [run[h] EXCEPT !.todo = @ \ {a}] /\ left = run[h].todo \ {a}
        OBVIOUS
    <2>4. Becomes(h, y) /\ y.at = "record" /\ y.todo = left
        BY <1>1, <1>2, <2>1, <2>y DEF Execution
    <2>5. retry' = retry
        BY <1>3 DEF DropOpen
    <2>6. OnRecord'
        BY <1>1, <1>2, <2>3, <2>5 DEF OnRecord
    <2>7. AloneAt(y)'
        BY <1>2, <2>3, <2>4, <2>y DEF AloneAt
    <2>8. CalmAt(y)'
        BY <1>2, <2>4 DEF CalmAt
    <2>. QED
        BY <2>4, <2>6, <2>7, <2>8, AtWork
<1>4. CASE RecordAcceptance(h)
    <2>1. Pending = {} /\ Accepted = {} /\ retry' = FALSE
        BY <1>2, <1>4 DEF RecordAcceptance
    <2>2. PICK row : /\ row \in Offer /\ row.rider = run[h].rider /\ row.outcome = "accepted"
                     /\ offers' = Append(offers, row)
        <3>1. PICK n \in 1 .. Len(offers) + 1 :
                  offers' = Append(offers, [rider |-> run[h].rider, no |-> n,
                                            outcome |-> "accepted"])
            BY <1>4 DEF RecordAcceptance
        <3>2. run[h].rider \in Riders /\ n \in Nat
            BY <1>2, Known DEF Grounded
        <3>3. [rider |-> run[h].rider, no |-> n, outcome |-> "accepted"] \in Offer
            BY <3>2 DEF Offer, Outcomes
        <3>. QED
            BY <3>1, <3>3
    <2>3. /\ Pending' = {} /\ Accepted' = {Len(offers) + 1}
          /\ offers'[Len(offers) + 1].rider = run[h].rider
        BY <2>1, <2>2, RowIs
    <2>y. PICK y, r : y = [run[h] EXCEPT !.at = "hand"] /\ r = run[h].rider
        OBVIOUS
    <2>4. Becomes(h, y) /\ y.at = "hand" /\ y.rider = r
        BY <1>1, <1>4, <2>y, MovedIs DEF RecordAcceptance
    <2>5. OnRecord'
        BY <1>1, <1>2, <2>1, <2>3 DEF OnRecord
    <2>6. AloneAt(y)'
        BY <1>2, <2>1, <2>3, <2>4, <2>y DEF AloneAt
    <2>7. CalmAt(y)'
        BY <1>2, <2>4 DEF CalmAt
    <2>. QED
        BY <2>4, <2>5, <2>6, <2>7, AtWork
<1>. QED
    BY <1>3, <1>4

(* The status is written, and the settlement. *)
LEMMA WritesAlone ==
    ASSUME RiderInv, SerialInv, CalmInv, NEW h \in Slots, OthersIdle(h),
           WriteStatus(h) \/ WriteDelivered(h) \/ GenerateSettlement(h),
           calm' => calm
    PROVE  SerialInv' /\ CalmInv'
<1>1. OnRecord /\ AloneAt(run[h]) /\ settled \in Nat
    BY Known DEF SerialInv
<1>2. UNCHANGED <<rider, offers, retry>>
    BY DEF WriteStatus, WriteDelivered, GenerateSettlement, orderVars, timerVars
<1>3. Pending' = Pending /\ Accepted' = Accepted
    BY <1>2, SameOffers
<1>4. run[h].at \notin {"assign", "record", "hand"}
    BY DEF WriteStatus, WriteDelivered, GenerateSettlement
<1>5. CalmAt(run[h]) => Held'
    BY <1>2, <1>3, <1>4 DEF CalmAt, Held
<1>6. CASE WriteStatus(h)
    <2>1. status' # "delivered" /\ status # "delivered" /\ settled' = settled
        BY <1>1, <1>6 DEF AloneAt, WriteStatus
    <2>2. OnRecord'
        BY <1>1, <1>2, <1>3, <2>1 DEF OnRecord
    <2>3. ASSUME NEW x, x.at \in {"idle", "trigger"}, Becomes(h, x)
          PROVE  SerialInv' /\ CalmInv'
        <3>1. AloneAt(x)'
            BY <2>1, <2>3 DEF AloneAt
        <3>2. CalmAt(run[h]) => CalmAt(x)'
            BY <1>5, <2>1 DEF CalmAt
        <3>. QED
            BY <2>2, <2>3, <3>1, <3>2, AtWork
    <2>. QED
        BY <1>6, <2>3, IdleIs, AtIs DEF WriteStatus
<1>7. CASE WriteDelivered(h)
    <2>1. /\ status' = "delivered" /\ settled' = settled /\ Becomes(h, At("settle"))
          /\ Pending = {} /\ ~retry /\ status # "delivered"
        BY <1>1, <1>7 DEF AloneAt, WriteDelivered
    <2>2. settled = 0
        BY <1>1, <2>1 DEF OnRecord
    <2>3. OnRecord'
        BY <1>1, <1>2, <1>3, <2>1, <2>2 DEF OnRecord
    <2>4. AloneAt(At("settle"))'
        BY <2>1, <2>2, AtIs DEF AloneAt
    <2>5. CalmAt(run[h]) => CalmAt(At("settle"))'
        BY <1>5, AtIs DEF CalmAt
    <2>. QED
        BY <2>1, <2>3, <2>4, <2>5, AtWork
<1>8. CASE GenerateSettlement(h)
    <2>1. /\ status = "delivered" /\ status' = status /\ settled = 0 /\ settled' = 1
          /\ Becomes(h, At("list"))
        BY <1>1, <1>8 DEF AloneAt, GenerateSettlement, orderVars
    <2>2. OnRecord'
        BY <1>1, <1>2, <1>3, <2>1 DEF OnRecord
    <2>3. AloneAt(At("list"))'
        BY AtIs DEF AloneAt
    <2>4. CalmAt(run[h]) => CalmAt(At("list"))'
        BY <1>5, <2>1 DEF CalmAt
    <2>. QED
        BY <2>1, <2>2, <2>3, <2>4, AtWork
<1>. QED
    BY <1>6, <1>7, <1>8

LEMMA ContinuesAlone ==
    ASSUME RiderInv, SerialInv, CalmInv, NEW h \in Slots, OthersIdle(h),
           Continue(h), ~RevokeOffers(h), ~MoveOrder(h), calm' => calm
    PROVE  SerialInv' /\ CalmInv'
BY ReadsAlone, OffersAlone, OfferedAlone, RefusedAlone, AcceptedAlone, GivenAlone,
   RecordsAlone, WritesAlone DEF Continue

(* The change of vendor, which has ended the calm.                         *)
LEMMA ChangesAlone ==
    ASSUME RiderInv, SerialInv, CalmInv, NEW h \in Slots, OthersIdle(h), ~calm',
           ChangeVendor(h) \/ RevokeOffers(h) \/ MoveOrder(h)
    PROVE  SerialInv' /\ CalmInv'
<1>1. OnRecord /\ AloneAt(run[h])
    BY DEF SerialInv
<1>2. ASSUME NEW p \in {"revoke", "move"}, status' # "delivered" PROVE AloneAt(At(p))'
    BY <1>2, AtIs DEF AloneAt
<1>3. CASE ChangeVendor(h)
    <2>1. PICK p \in {"revoke", "move"} : Becomes(h, At(p))
        BY <1>3 DEF ChangeVendor, Starts
    <2>2. status # "delivered" /\ UNCHANGED <<status, rider, offers, retry, settled>>
        BY <1>3 DEF ChangeVendor, orderVars, timerVars
    <2>3. OnRecord'
        BY <1>1, <2>2, SameOffers DEF OnRecord
    <2>. QED
        BY <1>2, <2>1, <2>2, <2>3, AtWork
<1>4. CASE RevokeOffers(h)
    <2>1. /\ status # "delivered" /\ UNCHANGED <<status, rider, retry, settled>>
          /\ Becomes(h, At("move"))
        BY <1>1, <1>4 DEF RevokeOffers, AloneAt, orderVars, timerVars
    <2>2. Pending' = {} /\ Accepted' = {}
        BY <1>4, OffersRevoked DEF Accepted
    <2>3. OnRecord'
        BY <1>1, <2>1, <2>2 DEF OnRecord
    <2>. QED
        BY <1>2, <2>1, <2>3, AtWork
<1>5. CASE MoveOrder(h)
    <2>1. /\ status # "delivered" /\ status' # "delivered"
          /\ rider' \in {rider, NoRider} /\ UNCHANGED <<offers, retry, settled>>
          /\ Becomes(h, Idle)
        BY <1>1, <1>5 DEF MoveOrder, AloneAt, orderVars, timerVars
    <2>2. Pending' = Pending /\ Accepted' = Accepted
        BY <2>1, SameOffers
    <2>3. OnRecord'
        BY <1>1, <2>1, <2>2 DEF OnRecord
    <2>4. AloneAt(Idle)'
        BY IdleIs DEF AloneAt
    <2>. QED
        BY <2>1, <2>3, <2>4, AtWork
<1>. QED
    BY <1>3, <1>4, <1>5

(* What others do meanwhile: nobody moves on.                              *)
LEMMA OthersAlone ==
    ASSUME RiderInv, SerialInv, CalmInv, calm' => calm,
           UNCHANGED <<rider, offers, settled, retry, run>>,
           UNCHANGED status \/ VendorAccepts
    PROVE  SerialInv' /\ CalmInv'
<1>1. Pending' = Pending /\ Accepted' = Accepted
    BY SameOffers
<1>2. \/ status' = status
      \/ status # "delivered" /\ status' # "delivered"
    BY DEF VendorAccepts
<1>4. OnRecord'
    BY <1>1, <1>2 DEF SerialInv, OnRecord
<1>5. ASSUME NEW h \in Slots PROVE AloneAt(run[h])'
    <2>1. AloneAt(run[h])
        BY <1>5 DEF SerialInv
    <2>. QED
        BY <1>1, <1>2, <2>1 DEF AloneAt
<1>6. ASSUME NEW x, CalmAt(x) PROVE CalmAt(x)'
    BY <1>1, <1>2, <1>6 DEF CalmAt, Held
<1>7. ASSUME calm', NEW h \in Slots, run'[h] # Idle PROVE CalmAt(run[h])'
    <2>1. CalmAt(run[h])
        BY <1>7 DEF CalmInv
    <2>. QED
        BY <1>1, <1>2, <2>1 DEF CalmAt, Held
<1>8. ASSUME calm', Quiet' PROVE CalmAt(Idle)'
    <2>1. CalmAt(Idle)
        BY <1>8 DEF CalmInv, Quiet
    <2>. QED
        BY <1>6, <2>1
<1>. QED
    BY <1>4, <1>5, <1>7, <1>8 DEF SerialInv, CalmInv

LEMMA AloneInit == MCInit => SerialInv /\ CalmInv
<1>. SUFFICES ASSUME MCInit PROVE SerialInv /\ CalmInv
    OBVIOUS
<1>1. /\ status = "waiting" /\ rider = NoRider /\ offers = <<>> /\ retry = FALSE
      /\ settled = 0 /\ \A h \in Slots : run[h] = Idle
    BY DEF MCInit, Init
<1>2. Pending = {} /\ Accepted = {}
    BY <1>1 DEF Pending, Accepted, WithOutcome
<1>3. OnRecord
    BY <1>1, <1>2 DEF OnRecord
<1>4. CalmAt(Idle)
    BY <1>1, <1>2 DEF CalmAt, Held
<1>. QED
    BY <1>1, <1>3, <1>4, IdleIs DEF SerialInv, CalmInv

LEMMA RestartAlone ==
    ASSUME RiderInv, SerialInv, Restart, calm' = FALSE
    PROVE  SerialInv' /\ CalmInv'
<1>1. /\ UNCHANGED <<status, rider, offers, settled>> /\ retry' = FALSE
      /\ \A h \in Slots : run'[h] = Idle
    BY DEF Restart, orderVars
<1>2. Pending' = Pending /\ Accepted' = Accepted
    BY <1>1, SameOffers
<1>3. OnRecord'
    BY <1>1, <1>2 DEF SerialInv, OnRecord
<1>4. ASSUME NEW h \in Slots PROVE AloneAt(run[h])'
    BY <1>1, <1>4, IdleIs DEF AloneAt
<1>. QED
    BY <1>3, <1>4 DEF SerialInv, CalmInv

(* A call that begins beside no other is the only one at work.             *)
LEMMA SoleCall ==
    ASSUME RiderInv, NoOverlap', NEW h \in Slots, run'[h] # Idle,
           \A g \in Slots : g # h => run'[g] = run[g]
    PROVE  OthersIdle(h)
BY DEF NoOverlap, OthersIdle

LEMMA CallsBusy ==
    ASSUME RiderInv, NEW h \in Slots,
           Call(h) \/ FireRetry(h) \/ Restore(h) \/ ChangeVendor(h)
    PROVE  run'[h] # Idle /\ \A g \in Slots : g # h => run'[g] = run[g]
<1>1. ASSUME NEW x, Becomes(h, x), x.at # "idle"
      PROVE  run'[h] # Idle /\ \A g \in Slots : g # h => run'[g] = run[g]
    BY <1>1, IdleIs DEF Becomes, RiderInv, TypeOK
<1>2. ASSUME NEW c, NEW x, Starts(h, c, x), x.at # "idle"
      PROVE  run'[h] # Idle /\ \A g \in Slots : g # h => run'[g] = run[g]
    BY <1>1, <1>2 DEF Starts
<1>3. ASSUME NEW s PROVE Writing(s).at = "write"
    BY DoingIs DEF Writing
<1>4. CASE UpdateLocation(h) \/ Complete(h) \/ ChangeVendor(h)
    BY <1>2, <1>4, AtIs DEF UpdateLocation, Complete, ChangeVendor
<1>5. CASE FireRetry(h)
    BY <1>1, <1>5, AtIs DEF FireRetry
<1>6. CASE Advance(h) \/ Cancel(h) \/ Restore(h)
    BY <1>2, <1>3, <1>6 DEF Advance, Cancel, Restore
<1>7. ASSUME NEW s \in {"waiting"} \cup InDelivery, AdminSets(h, s)
      PROVE  run'[h] # Idle /\ \A g \in Slots : g # h => run'[g] = run[g]
    BY <1>2, <1>3, <1>7 DEF AdminSets
<1>8. ASSUME NEW a \in DOMAIN offers, RiderRejects(h, a) \/ RiderAccepts(h, a)
      PROVE  run'[h] # Idle /\ \A g \in Slots : g # h => run'[g] = run[g]
    BY <1>2, <1>8, DoingIs DEF RiderRejects, RiderAccepts
<1>9. ASSUME NEW r \in Riders, GoOffline(h, r) \/ GoOnline(h, r) \/ AdminAssigns(h, r)
      PROVE  run'[h] # Idle /\ \A g \in Slots : g # h => run'[g] = run[g]
    BY <1>2, <1>9, DoingIs, AtIs DEF GoOffline, GoOnline, AdminAssigns
<1>. QED
    BY <1>4, <1>5, <1>6, <1>7, <1>8, <1>9 DEF Call

(* An SLA timer fires: its offer is pending, or nothing is to be done.     *)
LEMMA FiresAlone ==
    ASSUME RiderInv, SerialInv, CalmInv, NoOverlap', calm' => calm, NEW h \in Slots,
           NEW a \in DOMAIN offers, FireTimer(h, a)
    PROVE  SerialInv' /\ CalmInv'
<1>1. run \in [Slots -> Execution]
    BY DEF RiderInv, TypeOK
<1>2. CASE a \in Pending
    <2>. DEFINE x == Doing("drop", 0, {a}, NoRider, "placed")
    <2>1. Becomes(h, x) /\ x.at # "idle"
        BY <1>2, DoingIs DEF FireTimer
    <2>. HIDE DEF x
    <2>2. run'[h] # Idle /\ \A g \in Slots : g # h => run'[g] = run[g]
        BY <1>1, <2>1, IdleIs DEF Becomes
    <2>. QED
        BY <2>2, SoleCall, CallAlone DEF Timer
<1>3. CASE a \notin Pending
    <2>1. run' = run
        BY <1>1, <1>3 DEF FireTimer, Becomes
    <2>. QED
        BY <2>1, OthersAlone DEF FireTimer, orderVars
<1>. QED
    BY <1>2, <1>3

(* A handler that goes on is the only one at work.                         *)
LEMMA SoleHandler ==
    ASSUME NoOverlap, NEW h \in Slots, Continue(h)
    PROVE  OthersIdle(h)
<1>1. run[h].at # "idle"
    BY DEF Continue, ListWaiting, ReadOrder, ReadExisting, FindRider, CreateAssignment,
           ArmTimer, ReadOffers, DropOffer, ReassignOrder, FindNext, WriteAccepted,
           AssignOrder, ReadOpen, DropOpen, RecordAcceptance, HandOver, WriteStatus,
           RevokeOffers, MoveOrder, WriteDelivered, GenerateSettlement
<1>. QED
    BY <1>1, IdleIs DEF NoOverlap, OthersIdle

LEMMA AloneStep ==
    ASSUME RiderInv, NoOverlap, SerialInv, CalmInv, calm => OfferedInv, NoOverlap',
           [MCNext]_<<vars, history>>
    PROVE  SerialInv' /\ CalmInv'
<1>0. calm' => calm
    BY HistoryOfSpec
<1>1. ASSUME NEW h \in Slots, Continue(h) PROVE SerialInv' /\ CalmInv'
    <2>1. OthersIdle(h)
        BY <1>1, SoleHandler
    <2>2. CASE RevokeOffers(h) \/ MoveOrder(h)
        <3>1. run[h].at \in {"revoke", "move"}
            BY <2>2 DEF RevokeOffers, MoveOrder
        <3>2. ~calm
            BY <3>1 DEF OfferedInv, WritesInTurn
        <3>. QED
            BY <1>0, <2>1, <2>2, <3>2, ChangesAlone
    <2>3. CASE ~(RevokeOffers(h) \/ MoveOrder(h))
        BY <1>0, <1>1, <2>1, <2>3, ContinuesAlone
    <2>. QED
        BY <2>2, <2>3
<1>2. ASSUME NEW h \in Slots, Call(h) \/ FireRetry(h) \/ Restore(h) PROVE SerialInv' /\ CalmInv'
    <2>1. OthersIdle(h)
        BY <1>2, CallsBusy, SoleCall
    <2>. QED
        BY <1>0, <1>2, <2>1, CallAlone DEF Timer
<1>3. ASSUME NEW h \in Slots, NEW a \in DOMAIN offers, FireTimer(h, a)
      PROVE  SerialInv' /\ CalmInv'
    BY <1>0, <1>3, FiresAlone
<1>4. ASSUME NEW h \in Slots, ChangeVendor(h), calm' = FALSE PROVE SerialInv' /\ CalmInv'
    <2>1. OthersIdle(h)
        BY <1>4, CallsBusy, SoleCall
    <2>. QED
        BY <1>4, <2>1, ChangesAlone
<1>5. ASSUME NEW r \in Riders, Load(r) PROVE SerialInv' /\ CalmInv'
    BY <1>0, <1>5, OthersAlone DEF Load, orderVars, timerVars
<1>6. CASE UNCHANGED <<vars, history>>
    BY <1>0, <1>6, OthersAlone DEF vars, orderVars, timerVars
<1>7. CASE VendorAccepts
    <2>1. UNCHANGED <<rider, offers, settled, retry, run>>
        BY <1>7 DEF VendorAccepts, timerVars
    <2>. QED
        BY <1>0, <1>7, <2>1, OthersAlone
<1>8. CASE Restart /\ calm' = FALSE
    BY <1>8, RestartAlone
<1>9. CASE MCNext
    <2>1. CASE Proceed
        BY <2>1, <1>1, <1>2, <1>3, <1>5, <1>7 DEF Proceed, Timer
    <2>2. CASE Disturb /\ calm' = FALSE
        BY <2>2, <1>2, <1>4, <1>8 DEF Disturb
    <2>. QED
        BY <1>9, <2>1, <2>2 DEF MCNext
<1>. QED
    BY <1>6, <1>9

(* As long as handlers have not overlapped. *)
SoleInv == alone => NoOverlap /\ SerialInv /\ CalmInv

LEMMA SoleInvariant == MCSpec => []SoleInv
<1>1. MCInit => SoleInv
    <2>1. MCInit => NoOverlap
        BY DEF MCInit, Init, NoOverlap
    <2>. QED
        BY <2>1, AloneInit DEF SoleInv
<1>2. RiderInv /\ (calm => OfferedInv) /\ SoleInv /\ [MCNext]_<<vars, history>> => SoleInv'
    <2>. SUFFICES ASSUME RiderInv, calm => OfferedInv, SoleInv, [MCNext]_<<vars, history>>, alone'
                  PROVE  (NoOverlap /\ SerialInv /\ CalmInv)'
        BY DEF SoleInv
    <2>1. alone
        BY DEF MCNext, history
    <2>2. CASE MCNext
        <3>1. NoOverlap'
            BY <2>2 DEF MCNext
        <3>. QED
            BY <2>1, <3>1, AloneStep DEF SoleInv
    <2>3. CASE UNCHANGED <<vars, history>>
        <3>1. NoOverlap'
            BY <2>1, <2>3 DEF SoleInv, NoOverlap, vars
        <3>. QED
            BY <2>1, <3>1, AloneStep DEF SoleInv
    <2>. QED
        BY <2>2, <2>3
<1>. QED
    BY <1>1, <1>2, OfferedInvariant, RiderInvariant, MCSpecSteps, PTL DEF MCSpec

(* As long as handlers have not overlapped: the rider on an undisturbed    *)
(* order is the one whose acceptance is on record, and no other acceptance *)
(* stands.                                                                 *)
THEOREM HeldByWhoAccepted == MCSpec => []HeldByItsRiderCalm
<1>1. SoleInv => HeldByItsRiderCalm
    <2>. SUFFICES ASSUME CalmInv, calm, Quiet, rider # NoRider
                  PROVE  /\ WithOutcome("accepted") # {}
                         /\ \A a \in WithOutcome("accepted") : offers[a].rider = rider
        BY DEF SoleInv, HeldByItsRiderCalm, HeldByItsRider
    <2>1. CalmAt(Idle)
        BY DEF CalmInv
    <2>2. Held
        BY <2>1, IdleIs DEF CalmAt
    <2>. QED
        BY <2>2 DEF Held, Accepted
<1>. QED
    BY <1>1, SoleInvariant, PTL

(* As long as handlers have not overlapped: no delivery is settled twice,  *)
(* however often the process restarts, and one that no restart has cut in  *)
(* two is settled.                                                         *)
THEOREM SettledOnceAlone == MCSpec => []SettledOnceCalm
<1>1. SoleInv => SettledOnceCalm
    <2>. SUFFICES ASSUME SerialInv, CalmInv
                  PROVE  settled <= 1 /\ (calm /\ Quiet /\ status = "delivered" => settled = 1)
        BY DEF SoleInv, SettledOnceCalm, SettledOnce
    <2>1. settled <= 1
        BY DEF SerialInv, OnRecord
    <2>2. ASSUME calm, Quiet, status = "delivered" PROVE settled = 1
        <3>1. CalmAt(Idle)
            BY <2>2 DEF CalmInv
        <3>. QED
            BY <2>2, <3>1, IdleIs DEF CalmAt
    <2>. QED
        BY <2>1, <2>2
<1>. QED
    BY <1>1, SoleInvariant, PTL
=============================================================================
