----------------------------- MODULE Allocation -----------------------------
(***************************************************************************)
(* The vendor search of one grocery order (AllocationService, the in-      *)
(* memory JobQueueService, and the handlers of OrderService and            *)
(* PaymentService that start, answer or cut short a search).  The order is *)
(* offered to one vendor at a time; a rejection or an unanswered SLA moves *)
(* it to the next, until one accepts or MaxAttempts have passed.           *)
(*                                                                         *)
(* A handler reads and writes the database in several awaited queries;     *)
(* each is an action, so other handlers and timers come in between.  A     *)
(* call that its first read refuses changes nothing and is a stuttering    *)
(* step.  The payment is a single UPI or COD payment: its row and the      *)
(* order's paymentStatus column, which consecutive queries write, change   *)
(* together here.  "vendor_accepted" stands for every status from there to *)
(* handed_over, which no handler below tells apart.                        *)
(***************************************************************************)
EXTENDS Integers, Sequences

CONSTANTS
    Vendors,
    Slots,         \* handler executions that may be in progress at once
    MaxAttempts,   \* MAX_ALLOCATION_ATTEMPTS
    MaxRows,       \* bound on the allocation_attempts rows of the order
    Methods,       \* how the customer may have paid: subset of {"upi", "cod"}
    Calls          \* which admin and customer calls a run makes

NoVendor == "none"

ASSUME AllocationAssumption ==
    /\ MaxAttempts \in Nat \ {0}
    /\ MaxRows \in Nat
    /\ NoVendor \notin Vendors

VARIABLES
    order,      \* the groceryOrders row; "prices": whose its subtotal and total are
    payment,    \* status of the order's payment row
    attempts,   \* the allocation_attempts rows, in the order of insertion
    timers,     \* attempts whose SLA timer is armed (JobQueueService.timers)
    run         \* [Slots -> the handler execution in progress]

vars == <<order, payment, attempts, timers, run>>

Statuses == {"placed", "vendor_accepted", "cancelled", "failed"}
Payments == {"pending", "paid", "pending_cod", "refund_pending", "refunded"}
Outcomes == {"pending", "timeout", "rejected", "accepted"}

Steps == {"idle", "timeout", "reject", "reallocate", "choose", "move",
          "create", "arm", "fail", "refund",
          "checkPay", "adminPay", "findAsked", "accept", "accepted",
          "cancel", "restorePay", "reopen", "findOpen", "findOld", "assign",
          "confirm", "reconcile", "guard", "satisfied", "latest"}

Vendor == Vendors \cup {NoVendor}

Order == [status: Statuses, vendor: Vendors, pay: Payments, prices: Vendors]
Attempt == [vendor: Vendors, no: Nat, outcome: Outcomes]

(* at: the step the handler is about to take; attempt, vendor, no, pay:    *)
(* what it has read or been given; target: the vendor changeOrderVendor    *)
(* continues with once the step under way returns to it.                   *)
Execution == [at: Steps, attempt: Nat, vendor: Vendor, no: 0 .. MaxAttempts,
              pay: Payments, target: Vendor]

(* About to take step p with the attempt a, or to ask vendor v as no. n.   *)
OnAttempt(p, a, t) == [at |-> p, attempt |-> a, vendor |-> NoVendor, no |-> 0,
                       pay |-> "pending", target |-> t]
Asking(p, v, n, t) == [at |-> p, attempt |-> 0, vendor |-> v, no |-> n,
                       pay |-> "pending", target |-> t]
At(p) == OnAttempt(p, 0, NoVendor)
Idle == At("idle")

TypeOK ==
    /\ order \in Order
    /\ payment \in Payments
    /\ attempts \in Seq(Attempt)
    /\ timers \subseteq DOMAIN attempts
    /\ run \in [Slots -> Execution]

(* A placed order that checkout gave a vendor: the UPI app was opened, or  *)
(* COD chosen and paymentSatisfied$ is about to reach the order service.   *)
Init ==
    /\ \E v \in Vendors, m \in Methods :
          LET pay == IF m = "cod" THEN "pending_cod" ELSE "pending"
              first == IF m = "cod" THEN At("satisfied") ELSE Idle
          IN  /\ order = [status |-> "placed", vendor |-> v, pay |-> pay, prices |-> v]
              /\ payment = pay
              /\ \E h \in Slots : run = [g \in Slots |-> IF g = h THEN first ELSE Idle]
    /\ attempts = <<>>
    /\ timers = {}

Becomes(h, x) == run' = [run EXCEPT ![h] = x]

(* The handler h was about to take step p; its next step is q. *)
Goes(h, p, q) == run[h].at = p /\ Becomes(h, [run[h] EXCEPT !.at = q])

(* allocation.reallocate and markFailed return to changeOrderVendor, which *)
(* goes on to assign, or to nobody.                                        *)
Returned(x) ==
    IF x.target = NoVendor THEN Idle
    ELSE OnAttempt("assign", 0, x.target)

Pending == {a \in DOMAIN attempts : attempts[a].outcome = "pending"}

SetOutcome(a, o) == attempts' = [attempts EXCEPT ![a] =
                        [vendor |-> @.vendor, no |-> @.no, outcome |-> o]]

SetStatus(s) == order' = [status |-> s, vendor |-> order.vendor, pay |-> order.pay,
                          prices |-> order.prices]

(* PaymentService.isSatisfied *)
IsSatisfied(pay) == pay \in {"paid", "pending_cod"}

-----------------------------------------------------------------------------
(* AllocationService *)

(* An SLA timer fires and handleTimeout reads its attempt. *)
FireTimer(h, a) ==
    /\ run[h] = Idle
    /\ a \in timers
    /\ timers' = timers \ {a}
    /\ Becomes(h, IF attempts[a].outcome = "pending"
                  THEN OnAttempt("timeout", a, NoVendor)
                  ELSE Idle)
    /\ UNCHANGED <<order, payment, attempts>>

(* Mutant: the SLA is recorded and the search forgotten. *)
TimeoutWithoutReallocate(h) ==
    /\ run[h].at = "timeout"
    /\ SetOutcome(run[h].attempt, "timeout")
    /\ Becomes(h, Idle)
    /\ UNCHANGED <<order, payment, timers>>

WriteTimeout(h) ==
    /\ run[h].at = "timeout"
    /\ SetOutcome(run[h].attempt, "timeout")
    /\ Becomes(h, At("reallocate"))
    /\ UNCHANGED <<order, payment, timers>>

(* handleRejection: cancel the timer, write the outcome, reallocate. *)
WriteRejection(h) ==
    /\ run[h].at = "reject"
    /\ timers' = timers \ {run[h].attempt}
    /\ SetOutcome(run[h].attempt, "rejected")
    /\ Becomes(h, OnAttempt("reallocate", 0, run[h].target))
    /\ UNCHANGED <<order, payment>>

(* reallocate goes on only with an order that is still placed. *)
StillSearching == order.status = "placed"

ReadOrder(h) ==
    /\ run[h].at = "reallocate"
    /\ Becomes(h, IF StillSearching THEN [run[h] EXCEPT !.at = "choose"]
                  ELSE Returned(run[h]))
    /\ UNCHANGED <<order, payment, attempts, timers>>

Numbers == {attempts[a].no : a \in DOMAIN attempts}
IsLastNo(m) == m \in Numbers \cup {0} /\ \A k \in Numbers : k <= m

(* Mutant: off by one. *)
OutOfAttemptsOffByOne(m) == m > MaxAttempts

OutOfAttempts(m) == m + 1 > MaxAttempts

(* findBestVendor leaves out every vendor asked before; which of the       *)
(* others is open, near, stocked and cheapest is any of them, or none.     *)
Excluded == {attempts[a].vendor : a \in DOMAIN attempts}
(* Mutant: the vendors asked before are not left out. *)
EveryVendor == Vendors

Candidates == Vendors \ Excluded

ChooseNext(h) ==
    /\ run[h].at = "choose"
    /\ \E m \in Numbers \cup {0} :
          /\ IsLastNo(m)
          /\ \/ Becomes(h, [run[h] EXCEPT !.at = "fail"])
             \/ /\ ~OutOfAttempts(m)
                /\ \E v \in Candidates :
                      Becomes(h, Asking("move", v, m + 1, run[h].target))
    /\ UNCHANGED <<order, payment, attempts, timers>>

(* UPDATE groceryOrders SET vendorId, subtotal, total (and each item's     *)
(* unitPrice): the next vendor offers the order at its own prices.         *)
MoveOrder(h) ==
    /\ Goes(h, "move", "create")
    /\ order' = [status |-> order.status, vendor |-> run[h].vendor, pay |-> order.pay,
                 prices |-> run[h].vendor]
    /\ UNCHANGED <<payment, attempts, timers>>

(* createAttempt: insert the row, then schedule its SLA timer. *)
CreateAttempt(h) ==
    /\ run[h].at = "create"
    /\ Len(attempts) < MaxRows
    /\ attempts' = Append(attempts, [vendor |-> run[h].vendor, no |-> run[h].no,
                                     outcome |-> "pending"])
    /\ Becomes(h, OnAttempt("arm", Len(attempts) + 1, run[h].target))
    /\ UNCHANGED <<order, payment, timers>>

(* Mutant: timers keyed by order, so that schedule() cancels the last one. *)
ArmTimerOfOrder(h) ==
    /\ run[h].at = "arm"
    /\ timers' = {run[h].attempt}
    /\ Becomes(h, Returned(run[h]))
    /\ UNCHANGED <<order, payment, attempts>>

ArmTimer(h) ==
    /\ run[h].at = "arm"
    /\ timers' = timers \cup {run[h].attempt}
    /\ Becomes(h, Returned(run[h]))
    /\ UNCHANGED <<order, payment, attempts>>

(* Mutant: the order fails and nobody thinks of the money. *)
MarkFailedOnly(h) ==
    /\ run[h].at = "fail"
    /\ SetStatus("failed")
    /\ Becomes(h, Returned(run[h]))
    /\ UNCHANGED <<payment, attempts, timers>>

(* markFailed, then markRefundPendingIfPaid *)
MarkFailed(h) ==
    /\ Goes(h, "fail", "refund")
    /\ SetStatus("failed")
    /\ UNCHANGED <<payment, attempts, timers>>

MarkRefundPendingIfPaid(h) ==
    /\ run[h].at = "refund"
    /\ IF payment = "paid"
       THEN /\ payment' = "refund_pending"
            /\ order' = [status |-> order.status, vendor |-> order.vendor,
                         pay |-> "refund_pending", prices |-> order.prices]
       ELSE UNCHANGED <<payment, order>>
    /\ Becomes(h, Returned(run[h]))
    /\ UNCHANGED <<attempts, timers>>

-----------------------------------------------------------------------------
(* Vendors answer *)

(* requirePendingAttempt: the vendor's own attempt, still pending. *)
VendorRejects(h, a) ==
    /\ run[h] = Idle
    /\ a \in Pending
    /\ Becomes(h, OnAttempt("reject", a, NoVendor))
    /\ UNCHANGED <<order, payment, attempts, timers>>

VendorAccepts(h, a) ==
    /\ run[h] = Idle
    /\ a \in Pending
    /\ Becomes(h, OnAttempt("checkPay", a, NoVendor))
    /\ UNCHANGED <<order, payment, attempts, timers>>

(* requirePaymentSatisfied *)
CheckPayment(h) ==
    /\ run[h].at \in {"checkPay", "adminPay"}
    /\ \/ ~IsSatisfied(order.pay) /\ Becomes(h, Idle)
       \/ /\ IsSatisfied(order.pay)
          /\ Goes(h, "checkPay", "accept") \/ Goes(h, "adminPay", "findAsked")
    /\ UNCHANGED <<order, payment, attempts, timers>>

(* handleAcceptance, then the order itself *)
WriteAcceptance(h) ==
    /\ run[h].at = "accept"
    /\ timers' = timers \ {run[h].attempt}
    /\ SetOutcome(run[h].attempt, "accepted")
    /\ Becomes(h, At("accepted"))
    /\ UNCHANGED <<order, payment>>

WriteAccepted(h) ==
    /\ Goes(h, "accepted", "idle")
    /\ SetStatus("vendor_accepted")
    /\ UNCHANGED <<payment, attempts, timers>>

-----------------------------------------------------------------------------
(* Admin and customer calls of OrderService *)

AdminAccepts(h) ==
    /\ "adminAccept" \in Calls
    /\ run[h] = Idle
    /\ order.status = "placed"
    /\ Becomes(h, At("adminPay"))
    /\ UNCHANGED <<order, payment, attempts, timers>>

FindAsked(h) ==
    /\ run[h].at = "findAsked"
    /\ \/ \E a \in Pending : Becomes(h, OnAttempt("accept", a, NoVendor))
       \/ Pending = {} /\ Becomes(h, At("accepted"))
    /\ UNCHANGED <<order, payment, attempts, timers>>

(* cancelOrder takes any live order, cancelOrderForCustomer a placed one;  *)
(* neither touches the attempt that is pending.                            *)
CancelOrder(h) ==
    /\ "cancel" \in Calls
    /\ run[h] = Idle
    /\ order.status \notin {"cancelled", "failed"}
    /\ Becomes(h, At("cancel"))
    /\ UNCHANGED <<order, payment, attempts, timers>>

WriteCancelled(h) ==
    /\ Goes(h, "cancel", "refund")
    /\ SetStatus("cancelled")
    /\ UNCHANGED <<payment, attempts, timers>>

(* restoreOrder works on the order row it read first. *)
RestoreOrder(h) ==
    /\ "restore" \in Calls
    /\ run[h] = Idle
    /\ order.status \in {"cancelled", "failed"}
    /\ Becomes(h, [at |-> "restorePay", attempt |-> 0, vendor |-> order.vendor,
                    no |-> 0, pay |-> order.pay, target |-> NoVendor])
    /\ UNCHANGED <<order, payment, attempts, timers>>

RestorePayment(h) ==
    /\ Goes(h, "restorePay", "reopen")
    /\ IF payment = "refund_pending"
       THEN /\ payment' = "paid"
            /\ order' = [status |-> order.status, vendor |-> order.vendor, pay |-> "paid",
                         prices |-> order.prices]
       ELSE UNCHANGED <<payment, order>>
    /\ UNCHANGED <<attempts, timers>>

Reverted(pay) == IF pay = "refund_pending" THEN "paid" ELSE pay

Reopen(h) ==
    /\ Goes(h, "reopen", "findOpen")
    /\ order' = [status |-> "placed", vendor |-> order.vendor, pay |-> Reverted(run[h].pay),
                 prices |-> order.prices]
    /\ UNCHANGED <<payment, attempts, timers>>

(* Mutant: a restored order always gets a new attempt. *)
AskAnyway == TRUE

NobodyAsked == Pending = {}

FindOpen(h) ==
    /\ run[h].at = "findOpen"
    /\ Becomes(h, IF NobodyAsked
                  THEN Asking("create", run[h].vendor, 1, NoVendor)
                  ELSE Idle)
    /\ UNCHANGED <<order, payment, attempts, timers>>

(* changeOrderVendor: reject whatever attempt is pending (which            *)
(* reallocates), then give the order to the target vendor and ask it.      *)
ChangeVendor(h, v) ==
    /\ "changeVendor" \in Calls
    /\ run[h] = Idle
    /\ order.status \notin {"cancelled", "failed"}
    /\ v # order.vendor
    /\ Becomes(h, OnAttempt("findOld", 0, v))
    /\ UNCHANGED <<order, payment, attempts, timers>>

FindOld(h) ==
    /\ run[h].at = "findOld"
    /\ \/ \E a \in Pending :
             Becomes(h, OnAttempt("reject", a, run[h].target))
       \/ Pending = {} /\ Becomes(h, Returned(run[h]))
    /\ UNCHANGED <<order, payment, attempts, timers>>

AssignVendor(h) ==
    /\ run[h].at = "assign"
    /\ order' = [status |-> "placed", vendor |-> run[h].target, pay |-> order.pay,
                 prices |-> order.prices]
    /\ Becomes(h, Asking("create", run[h].target, 1, NoVendor))
    /\ UNCHANGED <<payment, attempts, timers>>

-----------------------------------------------------------------------------
(* PaymentService, and OrderService.handlePaymentSatisfied *)

(* "I've paid" (confirmByCustomer), or the admin's reconcile *)
ConfirmPayment(h) ==
    /\ run[h] = Idle
    /\ payment = "pending"
    /\ \E p \in {"confirm", "reconcile"} : Becomes(h, At(p))
    /\ UNCHANGED <<order, payment, attempts, timers>>

WritePaid(h) ==
    /\ \/ Goes(h, "confirm", "satisfied")
       \/ Goes(h, "reconcile", "guard")
    /\ payment' = "paid"
    /\ order' = [status |-> order.status, vendor |-> order.vendor, pay |-> "paid",
                 prices |-> order.prices]
    /\ UNCHANGED <<attempts, timers>>

(* Only reconcile looks at the order before it fires paymentSatisfied$. *)
GuardOrder(h) ==
    /\ run[h].at = "guard"
    /\ Becomes(h, IF order.status \in {"cancelled", "failed"} THEN Idle
                  ELSE At("satisfied"))
    /\ UNCHANGED <<order, payment, attempts, timers>>

HandlePaymentSatisfied(h) ==
    /\ run[h].at = "satisfied"
    /\ Becomes(h, Asking("latest", order.vendor, 0, NoVendor))
    /\ UNCHANGED <<order, payment, attempts, timers>>

NeverAsked == attempts = <<>>

ReadLatest(h) ==
    /\ run[h].at = "latest"
    /\ Becomes(h, IF NeverAsked
                  THEN Asking("create", run[h].vendor, 1, NoVendor)
                  ELSE Idle)
    /\ UNCHANGED <<order, payment, attempts, timers>>

(* The admin sent the money back (markRefunded). *)
MarkRefunded ==
    /\ payment = "refund_pending"
    /\ payment' = "refunded"
    /\ order' = [status |-> order.status, vendor |-> order.vendor, pay |-> "refunded",
                 prices |-> order.prices]
    /\ UNCHANGED <<attempts, timers, run>>

(* The process restarts: its handlers and its timers are gone. *)
Restart ==
    /\ "restart" \in Calls
    /\ timers' = {}
    /\ run' = [h \in Slots |-> Idle]
    /\ UNCHANGED <<order, payment, attempts>>

-----------------------------------------------------------------------------
(* What a handler in progress does next. *)
Continue(h) ==
    \/ WriteTimeout(h) \/ WriteRejection(h)
    \/ ReadOrder(h) \/ ChooseNext(h) \/ MoveOrder(h)
    \/ CreateAttempt(h) \/ ArmTimer(h)
    \/ MarkFailed(h) \/ MarkRefundPendingIfPaid(h)
    \/ CheckPayment(h) \/ WriteAcceptance(h) \/ WriteAccepted(h)
    \/ FindAsked(h) \/ WriteCancelled(h)
    \/ RestorePayment(h) \/ Reopen(h) \/ FindOpen(h)
    \/ FindOld(h) \/ AssignVendor(h)
    \/ WritePaid(h) \/ GuardOrder(h)
    \/ HandlePaymentSatisfied(h) \/ ReadLatest(h)

(* A call that starts a handler. *)
Call(h) ==
    \/ \E a \in DOMAIN attempts : VendorRejects(h, a) \/ VendorAccepts(h, a)
    \/ AdminAccepts(h) \/ CancelOrder(h) \/ RestoreOrder(h)
    \/ \E v \in Vendors : ChangeVendor(h, v)
    \/ ConfirmPayment(h)

Proceed ==
    \/ \E h \in Slots : Continue(h) \/ Call(h)
    \/ \E h \in Slots : \E a \in DOMAIN attempts : FireTimer(h, a)
    \/ MarkRefunded

Next == Proceed \/ Restart

Spec == Init /\ [][Next]_vars

(* Handlers run to their end and an armed timer fires.  A timer needs a    *)
(* free slot, which is a bound of the model and not of the code: strong    *)
(* fairness, so that other calls cannot keep it out.                       *)
Fairness ==
    /\ \A h \in Slots : WF_vars(Continue(h))
    /\ \A a \in 1 .. MaxRows : SF_vars(\E h \in Slots : a \in timers /\ FireTimer(h, a))

FairSpec == Spec /\ Fairness

-----------------------------------------------------------------------------
(* Properties *)

Quiet == \A h \in Slots : run[h] = Idle
Last == attempts[Len(attempts)]
Satisfied == IsSatisfied(order.pay)

(* "MAX_ALLOCATION_ATTEMPTS" bounds the waterfall however answers, SLA     *)
(* timers, restores and vendor changes interleave.                         *)
AttemptsBounded == \A a \in DOMAIN attempts : attempts[a].no <= MaxAttempts

(* While the process runs, a vendor that was asked is never forgotten: the *)
(* attempt's timer is armed, or a handler at work will arm it or resolve   *)
(* the attempt.                                                            *)
Resolves(h, a) ==
    /\ run[h].at \in {"arm", "timeout", "reject", "accept"}
    /\ run[h].attempt = a

NoLostTimer == \A a \in Pending : a \in timers \/ \E h \in Slots : Resolves(h, a)

(* One vendor at a time: between handlers, no two vendors hold the order,  *)
(* and the one that does is the vendor the order row names.                *)
OneVendorAsked ==
    Quiet /\ order.status = "placed" =>
        \A a \in Pending : attempts[a].vendor = order.vendor /\ Pending = {a}

(* Between handlers, a placed order that is paid for (or COD) is waiting   *)
(* for some vendor, and never for nobody.                                  *)
SomeVendorAsked ==
    Quiet /\ order.status = "placed" /\ Satisfied => Pending # {}

(* An accepted order belongs to the vendor whose acceptance is on record,  *)
(* and its total is made of that vendor's prices.                          *)
AcceptedByItsVendor ==
    Quiet /\ order.status = "vendor_accepted" =>
        Last.outcome = "accepted" /\ Last.vendor = order.vendor /\ order.prices = order.vendor

(* markFailed is reached with the money already taken: a search that gave  *)
(* up leaves the refund in the admin's queue, never a paid order.          *)
FailedIsRefunded ==
    Quiet /\ order.status = "failed" => payment \notin {"pending", "paid"}

(* The waterfall keeps the promise of VendorSearch. *)
Search == INSTANCE VendorSearch WITH
    tried <- Excluded,
    holder <- {attempts[a].vendor :
                  a \in {b \in DOMAIN attempts : attempts[b].outcome \in {"pending", "accepted"}}},
    result <- order.status

(* A search that has begun comes to an end: a vendor accepts, or the order *)
(* fails or is cancelled; nobody has to press a button for it.             *)
SearchEnds == (order.status = "placed" /\ attempts # <<>>) ~> (order.status # "placed")

(* "If there is any pending allocation attempt for the old vendor, cancel  *)
(* it": between handlers at most one attempt is pending.                   *)
OnePending == Quiet => \A a, b \in Pending : a = b

(* "don't create multiple attempts for the same order": a first attempt is *)
(* created once.                                                           *)
OneFirstAttempt ==
    \A a, b \in DOMAIN attempts : attempts[a].no = 1 /\ attempts[b].no = 1 => a = b

(* "already resolved by accept/reject": a resolved attempt stays as it is. *)
ResolvedOnce ==
    [][\A a \in DOMAIN attempts :
          attempts[a].outcome # "pending" => attempts'[a] = attempts[a]]_vars

(* "A cancelled/failed order has to be restored first." *)
RestoredFirst ==
    [][order.status \in {"cancelled", "failed"} => order'.status # "vendor_accepted"]_vars

(* "it would create orphaned allocation rows": a paid order that is        *)
(* cancelled asks no vendor.                                               *)
NoOrphanAttempt ==
    [][attempts' # attempts /\ Len(attempts') > Len(attempts) =>
          order.status \notin {"cancelled", "failed"}]_vars

(* "A checkout counts as a real order only once payment is satisfied":     *)
(* vendors are asked about no other.                                       *)
AskedIsPaid ==
    [][Len(attempts') > Len(attempts) => order.pay # "pending"]_vars

-----------------------------------------------------------------------------
(* The inductive invariants (AllocationProofs). *)

(* What a handler is about to use, it has read or been given. *)
Grounded(x) ==
    /\ x.at \in {"timeout", "reject", "accept", "arm", "checkPay"} =>
          x.attempt \in DOMAIN attempts
    /\ x.at \in {"move", "create", "restorePay", "reopen", "findOpen", "latest"} =>
          x.vendor \in Vendors
    /\ x.at = "assign" => x.target \in Vendors

SearchInv == TypeOK /\ AttemptsBounded /\ \A h \in Slots : Grounded(run[h])
=============================================================================
