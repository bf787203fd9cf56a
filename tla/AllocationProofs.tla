-------------------------- MODULE AllocationProofs --------------------------
(***************************************************************************)
(* Proofs about the vendor search for any vendors, any number of handlers  *)
(* at work and any calls.  SearchInv is inductive by itself; NoLostTimer   *)
(* is inductive with it as long as the process does not restart, which is  *)
(* what the history of MCAllocation records.  ServesInv and SearchesInv    *)
(* say what the one handler at work knows of the order, the attempts and   *)
(* the payment while no two handlers overlap; the second is about the      *)
(* waterfall alone and carries the refinement of VendorSearch.             *)
(***************************************************************************)
EXTENDS MCAllocation, FiniteSets, FiniteSetTheorems, TLAPS

(* A step that moves one handler on and leaves the attempts alone, keeps   *)
(* SearchInv.                                                              *)
LEMMA HandlerStep ==
    ASSUME SearchInv, NEW h \in Slots, NEW x \in Execution, Grounded(x),
           Becomes(h, x), UNCHANGED attempts, timers' \subseteq DOMAIN attempts,
           order' \in Order, payment' \in Payments
    PROVE  SearchInv'
<1>1. TypeOK'
    BY DEF SearchInv, TypeOK, Becomes
<1>2. AttemptsBounded'
    BY DEF SearchInv, AttemptsBounded
<1>3. ASSUME NEW g \in Slots PROVE Grounded(run[g])'
    BY <1>3 DEF SearchInv, TypeOK, Becomes, Grounded
<1>. QED
    BY <1>1, <1>2, <1>3 DEF SearchInv

(* Likewise a step that resolves an attempt.                               *)
LEMMA OutcomeStep ==
    ASSUME SearchInv, NEW h \in Slots, NEW x \in Execution, Grounded(x),
           Becomes(h, x), NEW a \in DOMAIN attempts, NEW o \in Outcomes,
           SetOutcome(a, o), timers' \subseteq timers, UNCHANGED <<order, payment>>
    PROVE  SearchInv'
<1>1. /\ attempts' \in Seq(Attempt)
      /\ DOMAIN attempts' = DOMAIN attempts
      /\ \A b \in DOMAIN attempts : attempts'[b].no = attempts[b].no
    <2>1. attempts \in Seq(Attempt)
        BY DEF SearchInv, TypeOK
    <2>2. attempts[a] \in Attempt
        BY <2>1
    <2>3. [vendor |-> attempts[a].vendor, no |-> attempts[a].no, outcome |-> o] \in Attempt
        BY <2>2 DEF Attempt
    <2>4. attempts' = [attempts EXCEPT ![a] =
              [vendor |-> attempts[a].vendor, no |-> attempts[a].no, outcome |-> o]]
        BY DEF SetOutcome
    <2>. QED
        BY <2>1, <2>3, <2>4
<1>2. TypeOK'
    BY <1>1 DEF SearchInv, TypeOK, Becomes
<1>3. AttemptsBounded'
    BY <1>1 DEF SearchInv, AttemptsBounded
<1>4. ASSUME NEW g \in Slots PROVE Grounded(run[g])'
    BY <1>1, <1>4 DEF SearchInv, TypeOK, Becomes, Grounded
<1>. QED
    BY <1>2, <1>3, <1>4 DEF SearchInv

LEMMA OnAttemptIsGrounded ==
    ASSUME NEW p \in Steps \ {"move", "create", "restorePay", "reopen", "findOpen", "latest"},
           NEW a \in Nat, NEW t \in Vendor,
           p \in {"timeout", "reject", "accept", "arm", "checkPay"} => a \in DOMAIN attempts,
           p = "assign" => t \in Vendors
    PROVE  OnAttempt(p, a, t) \in Execution /\ Grounded(OnAttempt(p, a, t))
BY AllocationAssumption DEF OnAttempt, Execution, Vendor, Payments, Grounded

LEMMA AskingIsGrounded ==
    ASSUME NEW p \in {"move", "create", "latest"},
           NEW v \in Vendors, NEW n \in 0 .. MaxAttempts, NEW t \in Vendor
    PROVE  Asking(p, v, n, t) \in Execution /\ Grounded(Asking(p, v, n, t))
BY DEF Asking, Execution, Steps, Vendor, Payments, Grounded

LEMMA AtIsGrounded ==
    ASSUME NEW p \in Steps \ {"timeout", "reject", "accept", "arm", "checkPay", "assign",
                  "move", "create", "restorePay", "reopen", "findOpen", "latest"}
    PROVE  At(p) \in Execution /\ Grounded(At(p))
BY OnAttemptIsGrounded DEF At, Vendor

LEMMA ReturnedIsGrounded ==
    ASSUME NEW x \in Execution
    PROVE  Returned(x) \in Execution /\ Grounded(Returned(x))
<1>1. CASE x.target = NoVendor
    BY <1>1, AtIsGrounded DEF Returned, Idle, Steps
<1>2. CASE x.target # NoVendor
    <2>1. x.target \in Vendors
        BY <1>2 DEF Execution, Vendor
    <2>. QED
        BY <1>2, <2>1, OnAttemptIsGrounded DEF Returned, Steps, Vendor
<1>. QED
    BY <1>1, <1>2

(* createAttempt adds a row whose number is within the bound. *)
LEMMA CreateStep ==
    ASSUME SearchInv, NEW h \in Slots, CreateAttempt(h)
    PROVE  SearchInv'
<1>. DEFINE row == [vendor |-> run[h].vendor, no |-> run[h].no, outcome |-> "pending"]
            x == OnAttempt("arm", Len(attempts) + 1, run[h].target)
<1>1. /\ run[h] \in Execution /\ run[h].vendor \in Vendors
      /\ attempts \in Seq(Attempt)
    BY DEF SearchInv, TypeOK, Grounded, CreateAttempt
<1>2. row \in Attempt /\ row.no <= MaxAttempts
    BY <1>1, AllocationAssumption DEF Execution, Attempt, Outcomes
<1>3. /\ attempts' \in Seq(Attempt)
      /\ Len(attempts') = Len(attempts) + 1
      /\ DOMAIN attempts' = DOMAIN attempts \cup {Len(attempts) + 1}
      /\ \A b \in DOMAIN attempts : attempts'[b] = attempts[b]
      /\ attempts'[Len(attempts) + 1] = row
    BY <1>1, <1>2 DEF CreateAttempt
<1>4. x \in Execution /\ x.at = "arm" /\ x.attempt \in DOMAIN attempts'
    BY <1>1, <1>3, AllocationAssumption DEF OnAttempt, Execution, Steps, Vendor, Payments
<1>5. run' = [run EXCEPT ![h] = x] /\ UNCHANGED <<order, payment, timers>>
    BY DEF CreateAttempt, Becomes
<1>. HIDE DEF x, row
<1>6. TypeOK'
    BY <1>3, <1>4, <1>5 DEF SearchInv, TypeOK
<1>7. AttemptsBounded'
    BY <1>2, <1>3 DEF SearchInv, AttemptsBounded
<1>8. ASSUME NEW g \in Slots PROVE Grounded(run[g])'
    <2>1. CASE g = h
        BY <2>1, <1>4, <1>5 DEF SearchInv, TypeOK, Grounded
    <2>2. CASE g # h
        BY <2>2, <1>3, <1>5 DEF SearchInv, TypeOK, Grounded
    <2>. QED
        BY <2>1, <2>2
<1>. QED
    BY <1>6, <1>7, <1>8 DEF SearchInv

LEMMA AdvancedIsGrounded ==
    ASSUME NEW x \in Execution, NEW q \in Steps,
           q \in {"timeout", "reject", "accept", "arm", "checkPay"} => x.attempt \in DOMAIN attempts,
           q \in {"move", "create", "restorePay", "reopen", "findOpen", "latest"} =>
              x.vendor \in Vendors,
           q # "assign"
    PROVE  /\ [x EXCEPT !.at = q] \in Execution
           /\ Grounded([x EXCEPT !.at = q])
BY DEF Execution, Grounded

(* The facts every case below starts from. *)
LEMMA Known ==
    ASSUME SearchInv, NEW h \in Slots
    PROVE  /\ run[h] \in Execution /\ Grounded(run[h])
           /\ order \in Order /\ payment \in Payments
           /\ attempts \in Seq(Attempt)
           /\ timers \subseteq DOMAIN attempts
           /\ DOMAIN attempts \subseteq Nat
           /\ \A a \in DOMAIN attempts : attempts[a] \in Attempt
           /\ NoVendor \in Vendor
           /\ Idle \in Execution /\ Grounded(Idle)
<1>1. Idle \in Execution /\ Grounded(Idle)
    BY AtIsGrounded DEF Idle, Steps
<1>. QED
    BY <1>1 DEF SearchInv, TypeOK, Vendor

(* AllocationService: the waterfall itself. *)
LEMMA WaterfallStep ==
    ASSUME SearchInv, NEW h \in Slots,
           \/ WriteTimeout(h) \/ WriteRejection(h)
           \/ ReadOrder(h) \/ ChooseNext(h) \/ MoveOrder(h)
           \/ CreateAttempt(h) \/ ArmTimer(h)
           \/ MarkFailed(h) \/ MarkRefundPendingIfPaid(h)
    PROVE  SearchInv'
<1>. USE Known
<1>1. CASE WriteTimeout(h)
    <2>1. At("reallocate") \in Execution /\ Grounded(At("reallocate"))
        BY AtIsGrounded DEF Steps
    <2>2. run[h].attempt \in DOMAIN attempts
        BY <1>1 DEF WriteTimeout, Grounded
    <2>. QED
        BY <1>1, <2>1, <2>2, OutcomeStep DEF WriteTimeout, Outcomes
<1>2. CASE WriteRejection(h)
    <2>. DEFINE x == OnAttempt("reallocate", 0, run[h].target)
    <2>1. x \in Execution /\ Grounded(x)
        BY OnAttemptIsGrounded DEF Steps, Execution
    <2>2. run[h].attempt \in DOMAIN attempts /\ timers' \subseteq timers
        BY <1>2 DEF WriteRejection, Grounded
    <2>3. Becomes(h, x) /\ SetOutcome(run[h].attempt, "rejected") /\ UNCHANGED <<order, payment>>
        BY <1>2 DEF WriteRejection
    <2>. HIDE DEF x
    <2>. QED
        BY <2>1, <2>2, <2>3, OutcomeStep DEF Outcomes
<1>3. CASE ReadOrder(h)
    <2>1. CASE StillSearching
        <3>1. Becomes(h, [run[h] EXCEPT !.at = "choose"])
            BY <1>3, <2>1 DEF ReadOrder
        <3>2. [run[h] EXCEPT !.at = "choose"] \in Execution
              /\ Grounded([run[h] EXCEPT !.at = "choose"])
            BY AdvancedIsGrounded DEF Steps
        <3>. QED
            BY <1>3, <3>1, <3>2, HandlerStep DEF ReadOrder
    <2>2. CASE ~StillSearching
        BY <1>3, <2>2, ReturnedIsGrounded, HandlerStep DEF ReadOrder
    <2>. QED
        BY <2>1, <2>2
<1>4. CASE ChooseNext(h)
    <2>1. CASE Becomes(h, [run[h] EXCEPT !.at = "fail"])
        <3>1. [run[h] EXCEPT !.at = "fail"] \in Execution
              /\ Grounded([run[h] EXCEPT !.at = "fail"])
            BY AdvancedIsGrounded DEF Steps
        <3>. QED
            BY <1>4, <2>1, <3>1, HandlerStep DEF ChooseNext
    <2>2. ASSUME NEW m \in Numbers \cup {0}, ~OutOfAttempts(m), NEW v \in Candidates,
                 Becomes(h, Asking("move", v, m + 1, run[h].target))
          PROVE  SearchInv'
        <3>1. m \in Nat
            BY <2>2 DEF Numbers, Attempt
        <3>2. m + 1 \in 0 .. MaxAttempts /\ v \in Vendors /\ run[h].target \in Vendor
            BY <2>2, <3>1, AllocationAssumption DEF OutOfAttempts, Candidates, Execution
        <3>3. /\ Asking("move", v, m + 1, run[h].target) \in Execution
              /\ Grounded(Asking("move", v, m + 1, run[h].target))
            BY <3>2, AskingIsGrounded
        <3>. QED
            BY <1>4, <2>2, <3>3, HandlerStep DEF ChooseNext
    <2>. QED
        BY <1>4, <2>1, <2>2 DEF ChooseNext
<1>5. CASE MoveOrder(h)
    <2>1. run[h].at = "move" /\ run[h].vendor \in Vendors
        BY <1>5 DEF MoveOrder, Goes, Grounded
    <2>2. [run[h] EXCEPT !.at = "create"] \in Execution
          /\ Grounded([run[h] EXCEPT !.at = "create"])
        BY <2>1, AdvancedIsGrounded DEF Steps
    <2>3. order' \in Order
        BY <1>5, <2>1 DEF MoveOrder, Order
    <2>. QED
        BY <1>5, <2>2, <2>3, HandlerStep DEF MoveOrder, Goes
<1>6. CASE CreateAttempt(h)
    BY <1>6, CreateStep
<1>7. CASE ArmTimer(h)
    <2>1. timers' \subseteq DOMAIN attempts
        BY <1>7 DEF ArmTimer, Grounded
    <2>. QED
        BY <1>7, <2>1, ReturnedIsGrounded, HandlerStep DEF ArmTimer
<1>8. CASE MarkFailed(h)
    <2>1. [run[h] EXCEPT !.at = "refund"] \in Execution
          /\ Grounded([run[h] EXCEPT !.at = "refund"])
        BY AdvancedIsGrounded DEF Steps
    <2>2. order' \in Order
        BY <1>8 DEF MarkFailed, SetStatus, Order, Statuses
    <2>. QED
        BY <1>8, <2>1, <2>2, HandlerStep DEF MarkFailed, Goes
<1>9. CASE MarkRefundPendingIfPaid(h)
    <2>1. order' \in Order /\ payment' \in Payments
        BY <1>9 DEF MarkRefundPendingIfPaid, Order, Payments
    <2>. QED
        BY <1>9, <2>1, ReturnedIsGrounded, HandlerStep DEF MarkRefundPendingIfPaid
<1>. QED
    BY <1>1, <1>2, <1>3, <1>4, <1>5, <1>6, <1>7, <1>8, <1>9

(* The vendors' and the admin's answers. *)
LEMMA AnswerStep ==
    ASSUME SearchInv, NEW h \in Slots,
           \/ \E a \in DOMAIN attempts : VendorRejects(h, a) \/ VendorAccepts(h, a)
           \/ AdminAccepts(h) \/ CheckPayment(h) \/ FindAsked(h)
           \/ WriteAcceptance(h) \/ WriteAccepted(h)
    PROVE  SearchInv'
<1>. USE Known
<1>1. ASSUME NEW a \in DOMAIN attempts, VendorRejects(h, a) \/ VendorAccepts(h, a)
      PROVE  SearchInv'
    <2>1. ASSUME NEW p \in {"reject", "checkPay"}
          PROVE  OnAttempt(p, a, NoVendor) \in Execution /\ Grounded(OnAttempt(p, a, NoVendor))
        BY OnAttemptIsGrounded DEF Steps
    <2>. QED
        BY <1>1, <2>1, HandlerStep DEF VendorRejects, VendorAccepts
<1>2. CASE AdminAccepts(h)
    <2>1. At("adminPay") \in Execution /\ Grounded(At("adminPay"))
        BY AtIsGrounded DEF Steps
    <2>. QED
        BY <1>2, <2>1, HandlerStep DEF AdminAccepts
<1>3. CASE CheckPayment(h)
    <2>1. CASE ~IsSatisfied(order.pay)
        BY <1>3, <2>1, HandlerStep DEF CheckPayment
    <2>2. CASE IsSatisfied(order.pay) /\ Goes(h, "checkPay", "accept")
        <3>1. [run[h] EXCEPT !.at = "accept"] \in Execution
              /\ Grounded([run[h] EXCEPT !.at = "accept"])
            BY <2>2, AdvancedIsGrounded DEF Steps, Grounded, Goes
        <3>. QED
            BY <1>3, <2>2, <3>1, HandlerStep DEF CheckPayment, Goes
    <2>3. CASE IsSatisfied(order.pay) /\ Goes(h, "adminPay", "findAsked")
        <3>1. [run[h] EXCEPT !.at = "findAsked"] \in Execution
              /\ Grounded([run[h] EXCEPT !.at = "findAsked"])
            BY AdvancedIsGrounded DEF Steps
        <3>. QED
            BY <1>3, <2>3, <3>1, HandlerStep DEF CheckPayment, Goes
    <2>. QED
        BY <1>3, <2>1, <2>2, <2>3 DEF CheckPayment
<1>4. CASE FindAsked(h)
    <2>1. ASSUME NEW a \in Pending
          PROVE  /\ OnAttempt("accept", a, NoVendor) \in Execution
                 /\ Grounded(OnAttempt("accept", a, NoVendor))
        BY OnAttemptIsGrounded DEF Steps, Pending
    <2>2. At("accepted") \in Execution /\ Grounded(At("accepted"))
        BY AtIsGrounded DEF Steps
    <2>. QED
        BY <1>4, <2>1, <2>2, HandlerStep DEF FindAsked
<1>5. CASE WriteAcceptance(h)
    <2>1. At("accepted") \in Execution /\ Grounded(At("accepted"))
        BY AtIsGrounded DEF Steps
    <2>2. run[h].attempt \in DOMAIN attempts /\ timers' \subseteq timers
        BY <1>5 DEF WriteAcceptance, Grounded
    <2>. QED
        BY <1>5, <2>1, <2>2, OutcomeStep DEF WriteAcceptance, Outcomes
<1>6. CASE WriteAccepted(h)
    <2>1. [run[h] EXCEPT !.at = "idle"] \in Execution
          /\ Grounded([run[h] EXCEPT !.at = "idle"])
        BY AdvancedIsGrounded DEF Steps
    <2>2. order' \in Order
        BY <1>6 DEF WriteAccepted, SetStatus, Order, Statuses
    <2>. QED
        BY <1>6, <2>1, <2>2, HandlerStep DEF WriteAccepted, Goes
<1>. QED
    BY <1>1, <1>2, <1>3, <1>4, <1>5, <1>6

(* Cancelling, restoring and changing the vendor. *)
LEMMA AdminStep ==
    ASSUME SearchInv, NEW h \in Slots,
           \/ CancelOrder(h) \/ WriteCancelled(h)
           \/ RestoreOrder(h) \/ RestorePayment(h) \/ Reopen(h) \/ FindOpen(h)
           \/ (\E v \in Vendors : ChangeVendor(h, v)) \/ FindOld(h) \/ AssignVendor(h)
    PROVE  SearchInv'
<1>. USE Known
<1>1. CASE CancelOrder(h)
    <2>1. At("cancel") \in Execution /\ Grounded(At("cancel"))
        BY AtIsGrounded DEF Steps
    <2>. QED
        BY <1>1, <2>1, HandlerStep DEF CancelOrder
<1>2. CASE WriteCancelled(h)
    <2>1. [run[h] EXCEPT !.at = "refund"] \in Execution
          /\ Grounded([run[h] EXCEPT !.at = "refund"])
        BY AdvancedIsGrounded DEF Steps
    <2>2. order' \in Order
        BY <1>2 DEF WriteCancelled, SetStatus, Order, Statuses
    <2>. QED
        BY <1>2, <2>1, <2>2, HandlerStep DEF WriteCancelled, Goes
<1>3. CASE RestoreOrder(h)
    <2>. DEFINE x == [at |-> "restorePay", attempt |-> 0, vendor |-> order.vendor,
                      no |-> 0, pay |-> order.pay, target |-> NoVendor]
    <2>1. x \in Execution /\ Grounded(x)
        BY AllocationAssumption DEF Execution, Grounded, Steps, Vendor, Order
    <2>2. Becomes(h, x) /\ UNCHANGED <<order, payment, attempts, timers>>
        BY <1>3 DEF RestoreOrder
    <2>. HIDE DEF x
    <2>. QED
        BY <2>1, <2>2, HandlerStep
<1>4. CASE RestorePayment(h)
    <2>1. [run[h] EXCEPT !.at = "reopen"] \in Execution
          /\ Grounded([run[h] EXCEPT !.at = "reopen"])
        BY <1>4, AdvancedIsGrounded DEF RestorePayment, Goes, Grounded, Steps
    <2>2. order' \in Order /\ payment' \in Payments
        BY <1>4 DEF RestorePayment, Order, Payments
    <2>. QED
        BY <1>4, <2>1, <2>2, HandlerStep DEF RestorePayment, Goes
<1>5. CASE Reopen(h)
    <2>1. [run[h] EXCEPT !.at = "findOpen"] \in Execution
          /\ Grounded([run[h] EXCEPT !.at = "findOpen"])
        BY <1>5, AdvancedIsGrounded DEF Reopen, Goes, Grounded, Steps
    <2>2. run[h].pay \in Payments
        BY DEF Execution
    <2>3. order' \in Order
        BY <1>5, <2>2 DEF Reopen, Reverted, Order, Payments, Statuses
    <2>. QED
        BY <1>5, <2>1, <2>3, HandlerStep DEF Reopen, Goes
<1>6. CASE FindOpen(h)
    <2>1. run[h].vendor \in Vendors
        BY <1>6 DEF FindOpen, Grounded
    <2>2. /\ Asking("create", run[h].vendor, 1, NoVendor) \in Execution
          /\ Grounded(Asking("create", run[h].vendor, 1, NoVendor))
        BY <2>1, AskingIsGrounded, AllocationAssumption
    <2>. QED
        BY <1>6, <2>2, HandlerStep DEF FindOpen
<1>7. ASSUME NEW v \in Vendors, ChangeVendor(h, v)
      PROVE  SearchInv'
    <2>1. OnAttempt("findOld", 0, v) \in Execution /\ Grounded(OnAttempt("findOld", 0, v))
        BY OnAttemptIsGrounded DEF Steps, Vendor
    <2>. QED
        BY <1>7, <2>1, HandlerStep DEF ChangeVendor
<1>8. CASE FindOld(h)
    <2>1. ASSUME NEW a \in Pending
          PROVE  /\ OnAttempt("reject", a, run[h].target) \in Execution
                 /\ Grounded(OnAttempt("reject", a, run[h].target))
        BY OnAttemptIsGrounded DEF Steps, Pending, Execution
    <2>. QED
        BY <1>8, <2>1, ReturnedIsGrounded, HandlerStep DEF FindOld
<1>9. CASE AssignVendor(h)
    <2>1. run[h].target \in Vendors
        BY <1>9 DEF AssignVendor, Grounded
    <2>2. /\ Asking("create", run[h].target, 1, NoVendor) \in Execution
          /\ Grounded(Asking("create", run[h].target, 1, NoVendor))
        BY <2>1, AskingIsGrounded, AllocationAssumption
    <2>3. order' \in Order
        BY <1>9, <2>1 DEF AssignVendor, Order, Statuses
    <2>. QED
        BY <1>9, <2>2, <2>3, HandlerStep DEF AssignVendor
<1>. QED
    BY <1>1, <1>2, <1>3, <1>4, <1>5, <1>6, <1>7, <1>8, <1>9

(* The payment is confirmed, and its event handled. *)
LEMMA PaymentStep ==
    ASSUME SearchInv, NEW h \in Slots,
           \/ ConfirmPayment(h) \/ WritePaid(h) \/ GuardOrder(h)
           \/ HandlePaymentSatisfied(h) \/ ReadLatest(h)
    PROVE  SearchInv'
<1>. USE Known
<1>1. CASE ConfirmPayment(h)
    <2>1. ASSUME NEW p \in {"confirm", "reconcile"}
          PROVE  At(p) \in Execution /\ Grounded(At(p))
        BY AtIsGrounded DEF Steps
    <2>. QED
        BY <1>1, <2>1, HandlerStep DEF ConfirmPayment
<1>2. CASE WritePaid(h)
    <2>1. ASSUME NEW q \in {"satisfied", "guard"}
          PROVE  [run[h] EXCEPT !.at = q] \in Execution /\ Grounded([run[h] EXCEPT !.at = q])
        BY AdvancedIsGrounded DEF Steps
    <2>2. order' \in Order /\ payment' \in Payments
        BY <1>2 DEF WritePaid, Order, Payments
    <2>. QED
        BY <1>2, <2>1, <2>2, HandlerStep DEF WritePaid, Goes
<1>3. CASE GuardOrder(h)
    <2>1. At("satisfied") \in Execution /\ Grounded(At("satisfied"))
        BY AtIsGrounded DEF Steps
    <2>. QED
        BY <1>3, <2>1, HandlerStep DEF GuardOrder
<1>4. CASE HandlePaymentSatisfied(h)
    <2>1. /\ Asking("latest", order.vendor, 0, NoVendor) \in Execution
          /\ Grounded(Asking("latest", order.vendor, 0, NoVendor))
        BY AskingIsGrounded, AllocationAssumption DEF Order
    <2>. QED
        BY <1>4, <2>1, HandlerStep DEF HandlePaymentSatisfied
<1>5. CASE ReadLatest(h)
    <2>1. run[h].vendor \in Vendors
        BY <1>5 DEF ReadLatest, Grounded
    <2>2. /\ Asking("create", run[h].vendor, 1, NoVendor) \in Execution
          /\ Grounded(Asking("create", run[h].vendor, 1, NoVendor))
        BY <2>1, AskingIsGrounded, AllocationAssumption
    <2>. QED
        BY <1>5, <2>2, HandlerStep DEF ReadLatest
<1>. QED
    BY <1>1, <1>2, <1>3, <1>4, <1>5

LEMMA TimerStep ==
    ASSUME SearchInv, NEW h \in Slots, NEW a \in DOMAIN attempts, FireTimer(h, a)
    PROVE  SearchInv'
<1>1. /\ OnAttempt("timeout", a, NoVendor) \in Execution
      /\ Grounded(OnAttempt("timeout", a, NoVendor))
    BY Known, OnAttemptIsGrounded DEF Steps
<1>. QED
    BY <1>1, Known, HandlerStep DEF FireTimer

LEMMA SearchInit == Init => SearchInv
<1>. SUFFICES ASSUME Init PROVE SearchInv
    OBVIOUS
<1>1. attempts = <<>> /\ timers = {} /\ DOMAIN attempts = {}
    BY DEF Init
<1>2. order \in Order /\ payment \in Payments
    BY DEF Init, Order, Payments, Statuses
<1>3. ASSUME NEW h \in Slots
      PROVE  run[h] \in {Idle, At("satisfied")} /\ run \in [Slots -> {Idle, At("satisfied")}]
    BY <1>3 DEF Init
<1>4. ASSUME NEW x \in {Idle, At("satisfied")} PROVE x \in Execution /\ Grounded(x)
    BY AtIsGrounded DEF Idle, Steps
<1>5. run \in [Slots -> Execution]
    BY <1>4 DEF Init
<1>. QED
    BY <1>1, <1>2, <1>3, <1>4, <1>5 DEF SearchInv, TypeOK, AttemptsBounded

LEMMA SearchStep == SearchInv /\ [Next]_vars => SearchInv'
<1>. SUFFICES ASSUME SearchInv, [Next]_vars PROVE SearchInv'
    OBVIOUS
<1>1. ASSUME NEW h \in Slots, Continue(h) PROVE SearchInv'
    BY <1>1, WaterfallStep, AnswerStep, AdminStep, PaymentStep DEF Continue
<1>2. ASSUME NEW h \in Slots, Call(h) PROVE SearchInv'
    BY <1>2, AnswerStep, AdminStep, PaymentStep DEF Call
<1>3. ASSUME NEW h \in Slots, NEW a \in DOMAIN attempts, FireTimer(h, a) PROVE SearchInv'
    BY <1>3, TimerStep
<1>4. CASE MarkRefunded
    <2>1. order' \in Order /\ payment' \in Payments
        BY <1>4 DEF MarkRefunded, SearchInv, TypeOK, Order, Payments
    <2>. QED
        BY <1>4, <2>1 DEF MarkRefunded, SearchInv, TypeOK, AttemptsBounded, Grounded
<1>5. CASE Restart
    <2>1. Idle \in Execution /\ Idle.at = "idle"
        BY AtIsGrounded DEF Idle, Steps, At, OnAttempt
    <2>. HIDE DEF Idle
    <2>. QED
        BY <1>5, <2>1 DEF Restart, SearchInv, TypeOK, AttemptsBounded, Grounded
<1>6. CASE UNCHANGED vars
    BY <1>6 DEF vars, SearchInv, TypeOK, AttemptsBounded, Grounded
<1>. QED
    BY <1>1, <1>2, <1>3, <1>4, <1>5, <1>6 DEF Next, Proceed

LEMMA SearchInvariant == Spec => []SearchInv
BY SearchInit, SearchStep, PTL DEF Spec

(* Every variable keeps its type. *)
THEOREM TypeCorrect == Spec => []TypeOK
<1>1. SearchInv => TypeOK
    BY DEF SearchInv
<1>. QED
    BY <1>1, SearchInvariant, PTL

(* No attempt is numbered beyond MAX_ALLOCATION_ATTEMPTS, whatever answers, *)
(* timers, restores, vendor changes and restarts interleave.               *)
THEOREM NumbersBounded == Spec => []AttemptsBounded
<1>1. SearchInv => AttemptsBounded
    BY DEF SearchInv
<1>. QED
    BY <1>1, SearchInvariant, PTL

(* A handler that was not about to resolve an attempt moves on. *)
LEMMA KeepsTimers ==
    ASSUME SearchInv, NoLostTimer, NEW h \in Slots, NEW x, Becomes(h, x),
           run[h].at \notin {"arm", "timeout", "reject", "accept"},
           UNCHANGED <<attempts, timers>>
    PROVE  NoLostTimer'
<1>1. ASSUME NEW a \in Pending PROVE a \in timers \/ \E g \in Slots : Resolves(g, a)'
    <2>1. CASE \E g \in Slots : Resolves(g, a)
        <3>1. PICK g \in Slots : Resolves(g, a)
            BY <2>1
        <3>2. g # h
            BY <3>1 DEF Resolves
        <3>. QED
            BY <3>1, <3>2 DEF Resolves, Becomes, SearchInv, TypeOK
    <2>. QED
        BY <2>1, <1>1 DEF NoLostTimer
<1>. QED
    BY <1>1 DEF NoLostTimer, Pending

(* A handler resolves its attempt. *)
LEMMA ResolvesItsOwn ==
    ASSUME SearchInv, NoLostTimer, NEW h \in Slots, NEW x, Becomes(h, x),
           run[h].attempt \in DOMAIN attempts,
           NEW o \in Outcomes \ {"pending"}, SetOutcome(run[h].attempt, o),
           timers \ {run[h].attempt} \subseteq timers'
    PROVE  NoLostTimer'
<1>1. attempts \in Seq(Attempt)
    BY Known
<1>2. ASSUME NEW a \in Pending'
      PROVE  a \in Pending /\ a # run[h].attempt
    BY <1>1, <1>2 DEF Pending, SetOutcome, Outcomes
<1>3. ASSUME NEW a \in Pending'
      PROVE  a \in timers' \/ \E g \in Slots : Resolves(g, a)'
    <2>1. CASE \E g \in Slots : Resolves(g, a)
        <3>1. PICK g \in Slots : Resolves(g, a)
            BY <2>1
        <3>2. g # h
            BY <1>2, <1>3, <3>1 DEF Resolves
        <3>. QED
            BY <3>1, <3>2 DEF Resolves, Becomes, SearchInv, TypeOK
    <2>. QED
        BY <2>1, <1>2, <1>3 DEF NoLostTimer
<1>. QED
    BY <1>3 DEF NoLostTimer

LEMMA ArmsItsOwn ==
    ASSUME SearchInv, NoLostTimer, NEW h \in Slots, ArmTimer(h)
    PROVE  NoLostTimer'
<1>1. ASSUME NEW a \in Pending
      PROVE  a \in timers' \/ \E g \in Slots : Resolves(g, a)'
    <2>1. CASE a = run[h].attempt \/ a \in timers
        BY <2>1 DEF ArmTimer
    <2>2. CASE a # run[h].attempt /\ a \notin timers
        <3>1. PICK g \in Slots : Resolves(g, a)
            BY <1>1, <2>2 DEF NoLostTimer
        <3>2. g # h
            BY <2>2, <3>1 DEF Resolves
        <3>. QED
            BY <3>1, <3>2 DEF Resolves, ArmTimer, Becomes, SearchInv, TypeOK
    <2>. QED
        BY <2>1, <2>2
<1>. QED
    BY <1>1 DEF NoLostTimer, Pending, ArmTimer

LEMMA CreatesToArm ==
    ASSUME SearchInv, NoLostTimer, NEW h \in Slots, CreateAttempt(h)
    PROVE  NoLostTimer'
<1>. DEFINE row == [vendor |-> run[h].vendor, no |-> run[h].no, outcome |-> "pending"]
            x == OnAttempt("arm", Len(attempts) + 1, run[h].target)
<1>1. attempts \in Seq(Attempt) /\ run[h].vendor \in Vendors /\ run[h].no \in Nat
    BY AllocationAssumption DEF SearchInv, TypeOK, Grounded, CreateAttempt, Execution
<1>2. row \in Attempt
    BY <1>1 DEF Attempt, Outcomes
<1>3. /\ DOMAIN attempts' = DOMAIN attempts \cup {Len(attempts) + 1}
      /\ \A b \in DOMAIN attempts : attempts'[b] = attempts[b]
    BY <1>1, <1>2 DEF CreateAttempt
<1>4. x.at = "arm" /\ x.attempt = Len(attempts) + 1
    BY DEF OnAttempt
<1>5. run' = [run EXCEPT ![h] = x] /\ timers' = timers /\ run[h].at = "create"
    BY DEF CreateAttempt, Becomes
<1>. HIDE DEF x, row
<1>6. ASSUME NEW a \in Pending'
      PROVE  a \in timers' \/ \E g \in Slots : Resolves(g, a)'
    <2>1. CASE a = Len(attempts) + 1
        BY <2>1, <1>4, <1>5 DEF Resolves, SearchInv, TypeOK
    <2>2. CASE a # Len(attempts) + 1
        <3>1. a \in Pending
            BY <2>2, <1>3, <1>6 DEF Pending
        <3>2. CASE a \in timers
            BY <3>2, <1>5
        <3>3. CASE \E g \in Slots : Resolves(g, a)
            <4>1. PICK g \in Slots : Resolves(g, a)
                BY <3>3
            <4>2. g # h
                BY <4>1, <1>5 DEF Resolves
            <4>. QED
                BY <4>1, <4>2, <1>5 DEF Resolves, SearchInv, TypeOK
        <3>. QED
            BY <3>1, <3>2, <3>3 DEF NoLostTimer
    <2>. QED
        BY <2>1, <2>2
<1>. QED
    BY <1>6 DEF NoLostTimer

LEMMA FiresToTimeOut ==
    ASSUME SearchInv, NoLostTimer, NEW h \in Slots, NEW a \in DOMAIN attempts,
           FireTimer(h, a)
    PROVE  NoLostTimer'
<1>1. run[h].at = "idle"
    BY DEF FireTimer, Idle, At, OnAttempt
<1>2. ASSUME NEW b \in Pending
      PROVE  b \in timers' \/ \E g \in Slots : Resolves(g, b)'
    <2>1. CASE b = a
        <3>1. run' = [run EXCEPT ![h] = OnAttempt("timeout", a, NoVendor)]
            BY <1>2, <2>1 DEF FireTimer, Becomes, Pending
        <3>2. run'[h].at = "timeout" /\ run'[h].attempt = a
            BY <3>1 DEF OnAttempt, SearchInv, TypeOK
        <3>. QED
            BY <2>1, <3>2 DEF Resolves
    <2>2. CASE b # a /\ b \in timers
        BY <2>2 DEF FireTimer
    <2>3. CASE \E g \in Slots : Resolves(g, b)
        <3>1. PICK g \in Slots : Resolves(g, b)
            BY <2>3
        <3>2. g # h
            BY <1>1, <3>1 DEF Resolves
        <3>. QED
            BY <3>1, <3>2 DEF Resolves, FireTimer, Becomes, SearchInv, TypeOK
    <2>. QED
        BY <1>2, <2>1, <2>2, <2>3 DEF NoLostTimer
<1>. QED
    BY <1>2 DEF NoLostTimer, Pending, FireTimer

LEMMA NoTimerLost ==
    ASSUME SearchInv, NoLostTimer, Proceed
    PROVE  NoLostTimer'
<1>. USE Known
<1>1. ASSUME NEW h \in Slots, WriteTimeout(h) \/ WriteRejection(h) \/ WriteAcceptance(h)
      PROVE  NoLostTimer'
    <2>1. run[h].attempt \in DOMAIN attempts
        BY <1>1 DEF WriteTimeout, WriteRejection, WriteAcceptance, Grounded
    <2>. QED
        BY <1>1, <2>1, ResolvesItsOwn
        DEF WriteTimeout, WriteRejection, WriteAcceptance, Outcomes
<1>2. ASSUME NEW h \in Slots,
             \/ ReadOrder(h) \/ ChooseNext(h) \/ MoveOrder(h)
             \/ MarkFailed(h) \/ MarkRefundPendingIfPaid(h)
      PROVE  NoLostTimer'
    BY <1>2, KeepsTimers
    DEF ReadOrder, ChooseNext, MoveOrder, MarkFailed, MarkRefundPendingIfPaid, Goes
<1>3. ASSUME NEW h \in Slots,
             \/ CheckPayment(h) \/ WriteAccepted(h) \/ FindAsked(h) \/ WriteCancelled(h)
             \/ RestorePayment(h) \/ Reopen(h) \/ FindOpen(h)
             \/ FindOld(h) \/ AssignVendor(h)
      PROVE  NoLostTimer'
    BY <1>3, KeepsTimers
    DEF CheckPayment, WriteAccepted, FindAsked, WriteCancelled, RestorePayment, Reopen,
        FindOpen, FindOld, AssignVendor, Goes
<1>4. ASSUME NEW h \in Slots,
             WritePaid(h) \/ GuardOrder(h) \/ HandlePaymentSatisfied(h) \/ ReadLatest(h)
      PROVE  NoLostTimer'
    BY <1>4, KeepsTimers DEF WritePaid, GuardOrder, HandlePaymentSatisfied, ReadLatest, Goes
<1>5. ASSUME NEW h \in Slots, Call(h)
      PROVE  NoLostTimer'
    <2>1. Idle.at = "idle"
        BY DEF Idle, At, OnAttempt
    <2>2. ASSUME NEW a \in DOMAIN attempts, VendorRejects(h, a) \/ VendorAccepts(h, a)
          PROVE  NoLostTimer'
        BY <2>1, <2>2, KeepsTimers DEF VendorRejects, VendorAccepts
    <2>3. ASSUME NEW v \in Vendors, ChangeVendor(h, v)
          PROVE  NoLostTimer'
        BY <2>1, <2>3, KeepsTimers DEF ChangeVendor
    <2>4. ASSUME AdminAccepts(h) \/ CancelOrder(h) \/ RestoreOrder(h)
          PROVE  NoLostTimer'
        BY <2>1, <2>4, KeepsTimers DEF AdminAccepts, CancelOrder, RestoreOrder
    <2>5. ASSUME ConfirmPayment(h)
          PROVE  NoLostTimer'
        <3>1. PICK p \in {"confirm", "reconcile"} : Becomes(h, At(p))
            BY <2>5 DEF ConfirmPayment
        <3>. QED
            BY <2>1, <2>5, <3>1, KeepsTimers DEF ConfirmPayment
    <2>. QED
        BY <1>5, <2>2, <2>3, <2>4, <2>5 DEF Call
<1>6. CASE MarkRefunded
    BY <1>6 DEF MarkRefunded, NoLostTimer, Pending, Resolves
<1>. QED
    BY <1>1, <1>2, <1>3, <1>4, <1>5, <1>6, CreatesToArm, ArmsItsOwn, FiresToTimeOut
    DEF Proceed, Continue

(* The history of MCAllocation watches the behaviour and changes nothing.  *)
LEMMA HistoryOnlyWatches == MCSpec => Spec
<1>1. MCInit => Init
    BY DEF MCInit
<1>2. [MCNext]_<<vars, history>> => [Next]_vars
    BY DEF MCNext, Next, vars
<1>. QED
    BY <1>1, <1>2, PTL DEF MCSpec, Spec

(* As long as the process runs, no asked vendor is forgotten: whatever     *)
(* handlers interleave, a pending attempt has an armed timer or a handler  *)
(* at work on it.                                                          *)
THEOREM TimersKept == MCSpec => []NoLostTimerUp
<1>1. MCSpec => Spec
    BY HistoryOnlyWatches
<1>2. MCInit => NoLostTimerUp
    BY DEF MCInit, Init, NoLostTimerUp, NoLostTimer, Pending
<1>3. SearchInv /\ NoLostTimerUp /\ [MCNext]_<<vars, history>> => NoLostTimerUp'
    <2>. SUFFICES ASSUME SearchInv, NoLostTimerUp, [MCNext]_<<vars, history>>
                  PROVE  NoLostTimerUp'
        OBVIOUS
    <2>1. CASE Proceed /\ UNCHANGED <<whole, up>>
        BY <2>1, NoTimerLost DEF NoLostTimerUp
    <2>2. CASE up' = FALSE
        BY <2>2 DEF NoLostTimerUp
    <2>3. CASE UNCHANGED <<vars, history>>
        BY <2>3 DEF vars, history, NoLostTimerUp, NoLostTimer, Pending, Resolves
    <2>. QED
        BY <2>1, <2>2, <2>3 DEF MCNext
<1>. QED
    BY <1>1, <1>2, <1>3, SearchInvariant, PTL DEF MCSpec

-----------------------------------------------------------------------------
(* One handler at a time. *)

AtWork(h) == \A g \in Slots \ {h} : run[g] = Idle

(* The attempts of the vendors that hold the order. *)
Open == {a \in DOMAIN attempts : attempts[a].outcome \in {"pending", "accepted"}}

(* The order is in the hands of one vendor, or of the handler x, which     *)
(* knows the order and its attempts as they are.                           *)
Serves(x) ==
    /\ Pending \subseteq {Len(attempts)}
    /\ order.prices = order.vendor
    /\ \A a \in Pending : attempts[a].vendor = order.vendor
    /\ order.status = "vendor_accepted" \/ x.at = "accepted" =>
          attempts # <<>> /\ Last.outcome = "accepted" /\ Last.vendor = order.vendor
    /\ order.status = "placed" /\ attempts # <<>> /\ Pending = {} =>
          x.at \in {"reallocate", "choose", "move", "create", "fail", "accepted", "findOpen"}
    /\ order.status = "placed" /\ attempts = <<>> /\ Satisfied =>
          x.at \in {"guard", "satisfied", "latest", "create", "findOpen"}
    /\ x.at \in {"timeout", "reject", "checkPay", "accept"} => x.attempt \in Pending
    /\ x.at \in {"reallocate", "choose", "move", "create", "fail"} =>
          Pending = {} /\ order.status # "vendor_accepted"
    /\ x.at \in {"choose", "move", "fail", "adminPay", "findAsked", "findOpen"} =>
          order.status = "placed"
    /\ x.at = "restorePay" => order.status \in {"cancelled", "failed"}
    /\ x.at \in {"restorePay", "reopen", "findOpen", "latest", "create"} =>
          x.vendor = order.vendor
    /\ x.at = "findAsked" => Pending # {}
    /\ x.at \notin {"findOld", "assign"} /\ x.target = NoVendor

(* A step of a handler leaves every other one alone; if it is at work      *)
(* before or after, no other is.                                           *)
LEMMA OneAtWork ==
    ASSUME SearchInv, NoOverlap', NEW h \in Slots, AtWork(h),
           NEW g \in Slots, NEW x, Becomes(g, x), run[g] # Idle \/ x # Idle
    PROVE  AtWork(g) /\ run[g] = run[h] /\ AtWork(g)' /\ run'[g] = x
<1>. HIDE DEF Idle
<1>1. run'[g] = x /\ \A k \in Slots \ {g} : run'[k] = run[k]
    BY DEF Becomes, SearchInv, TypeOK
<1>2. CASE g = h
    BY <1>1, <1>2 DEF AtWork
<1>3. CASE g # h
    <2>1. run[g] = Idle /\ x # Idle
        BY <1>3 DEF AtWork
    <2>2. run[h] = Idle
        BY <1>1, <1>3, <2>1 DEF NoOverlap
    <2>. QED
        BY <1>1, <1>3, <2>1, <2>2 DEF AtWork
<1>. QED
    BY <1>2, <1>3

LEMMA AtIsNotIdle ==
    ASSUME NEW p, p # "idle", NEW a, NEW v, NEW n, NEW t
    PROVE  /\ OnAttempt(p, a, t) # Idle
           /\ Asking(p, v, n, t) # Idle
           /\ At(p) # Idle
BY DEF OnAttempt, Asking, At, Idle

(* Who is at work, and where. *)
LEMMA ContinueStarts ==
    ASSUME NEW h \in Slots, Continue(h)
    PROVE  run[h] # Idle /\ \E x : Becomes(h, x)
<1>1. Idle.at = "idle"
    BY DEF Idle, At, OnAttempt
<1>2. run[h].at # "idle"
    BY DEF Continue, WriteTimeout, WriteRejection, ReadOrder, ChooseNext, MoveOrder, CreateAttempt,
       ArmTimer, MarkFailed, MarkRefundPendingIfPaid, CheckPayment, WriteAcceptance,
       WriteAccepted, FindAsked, WriteCancelled, RestorePayment, Reopen, FindOpen, FindOld,
       AssignVendor, WritePaid, GuardOrder, HandlePaymentSatisfied, ReadLatest, Goes
<1>3. \E x : Becomes(h, x)
    BY DEF Continue, WriteTimeout, WriteRejection, ReadOrder, ChooseNext, MoveOrder, CreateAttempt,
       ArmTimer, MarkFailed, MarkRefundPendingIfPaid, CheckPayment, WriteAcceptance,
       WriteAccepted, FindAsked, WriteCancelled, RestorePayment, Reopen, FindOpen, FindOld,
       AssignVendor, WritePaid, GuardOrder, HandlePaymentSatisfied, ReadLatest, Goes
<1>. QED
    BY <1>1, <1>2, <1>3

LEMMA CallStarts ==
    ASSUME NEW h \in Slots, Call(h)
    PROVE  run[h] = Idle /\ \E x : x # Idle /\ Becomes(h, x)
<1>1. run[h] = Idle
    BY DEF Call, VendorRejects, VendorAccepts, AdminAccepts, CancelOrder, RestoreOrder,
       ChangeVendor, ConfirmPayment
<1>2. ASSUME NEW a \in DOMAIN attempts, VendorRejects(h, a) \/ VendorAccepts(h, a)
      PROVE  \E x : x # Idle /\ Becomes(h, x)
    BY <1>2, AtIsNotIdle DEF VendorRejects, VendorAccepts
<1>3. ASSUME AdminAccepts(h) \/ CancelOrder(h)
      PROVE  \E x : x # Idle /\ Becomes(h, x)
    BY <1>3, AtIsNotIdle DEF AdminAccepts, CancelOrder
<1>4. ASSUME RestoreOrder(h)
      PROVE  \E x : x # Idle /\ Becomes(h, x)
    <2>. DEFINE x == [at |-> "restorePay", attempt |-> 0, vendor |-> order.vendor,
                      no |-> 0, pay |-> order.pay, target |-> NoVendor]
    <2>1. x # Idle
        BY DEF Idle, At, OnAttempt
    <2>2. Becomes(h, x)
        BY <1>4 DEF RestoreOrder
    <2>. QED
        BY <2>1, <2>2
<1>5. ASSUME NEW v \in Vendors, ChangeVendor(h, v)
      PROVE  \E x : x # Idle /\ Becomes(h, x)
    BY <1>5, AtIsNotIdle DEF ChangeVendor
<1>6. ASSUME ConfirmPayment(h)
      PROVE  \E x : x # Idle /\ Becomes(h, x)
    <2>1. PICK p \in {"confirm", "reconcile"} : Becomes(h, At(p))
        BY <1>6 DEF ConfirmPayment
    <2>2. At(p) # Idle
        BY AtIsNotIdle
    <2>. QED
        BY <2>1, <2>2
<1>. QED
    BY <1>1, <1>2, <1>3, <1>4, <1>5, <1>6 DEF Call

LEMMA NowAt ==
    ASSUME SearchInv, NEW h \in Slots, NEW x, Becomes(h, x)
    PROVE  run'[h] = x
BY DEF SearchInv, TypeOK, Becomes

(* The attempt that is resolved is the last, and no other was pending. *)
LEMMA ResolvesTheLast ==
    ASSUME SearchInv, NEW a \in Pending, NEW o \in Outcomes, SetOutcome(a, o),
           Pending \subseteq {Len(attempts)}
    PROVE  /\ a = Len(attempts) /\ Len(attempts') = Len(attempts)
           /\ DOMAIN attempts' = DOMAIN attempts
           /\ attempts # <<>> /\ attempts' # <<>>
           /\ \A b \in DOMAIN attempts :
                 /\ attempts'[b].vendor = attempts[b].vendor
                 /\ attempts'[b].no = attempts[b].no
           /\ \A b \in DOMAIN attempts \ {a} : attempts'[b] = attempts[b]
           /\ attempts'[Len(attempts)].outcome = o
           /\ o # "pending" => Pending' = {}
<1>1. /\ a = Len(attempts) /\ a \in DOMAIN attempts
      /\ attempts \in Seq(Attempt) /\ attempts[a] \in Attempt
    <2>1. a = Len(attempts) /\ a \in DOMAIN attempts /\ attempts \in Seq(Attempt)
        BY DEF Pending, SearchInv, TypeOK
    <2>. QED
        BY <2>1
<1>. DEFINE row == [vendor |-> attempts[a].vendor, no |-> attempts[a].no, outcome |-> o]
<1>2. row \in Attempt
    BY <1>1 DEF Attempt
<1>3. attempts' = [attempts EXCEPT ![a] = row]
    BY DEF SetOutcome
<1>4. row.outcome = o /\ row.vendor = attempts[a].vendor /\ row.no = attempts[a].no
    OBVIOUS
<1>. HIDE DEF row
<1>5. /\ DOMAIN attempts' = DOMAIN attempts /\ Len(attempts') = Len(attempts)
      /\ attempts'[a] = row
      /\ \A b \in DOMAIN attempts \ {a} : attempts'[b] = attempts[b]
    BY <1>1, <1>2, <1>3
<1>6. attempts # <<>> /\ attempts' # <<>>
    BY <1>1, <1>5
<1>7. o # "pending" => Pending' = {}
    BY <1>1, <1>4, <1>5 DEF Pending
<1>. QED
    BY <1>1, <1>4, <1>5, <1>6, <1>7

LEMMA CreatesTheLast ==
    ASSUME SearchInv, NEW h \in Slots, CreateAttempt(h)
    PROVE  /\ Len(attempts') = Len(attempts) + 1 /\ attempts' # <<>>
           /\ DOMAIN attempts' = DOMAIN attempts \cup {Len(attempts) + 1}
           /\ Len(attempts) + 1 \notin DOMAIN attempts
           /\ \A b \in DOMAIN attempts : attempts'[b] = attempts[b]
           /\ attempts'[Len(attempts) + 1].vendor = run[h].vendor
           /\ attempts'[Len(attempts) + 1].no = run[h].no
           /\ attempts'[Len(attempts) + 1].outcome = "pending"
           /\ Pending' = Pending \cup {Len(attempts) + 1}
<1>. DEFINE row == [vendor |-> run[h].vendor, no |-> run[h].no, outcome |-> "pending"]
<1>1. attempts \in Seq(Attempt) /\ run[h].vendor \in Vendors /\ run[h].no \in Nat
    BY AllocationAssumption DEF SearchInv, TypeOK, Grounded, CreateAttempt, Execution
<1>2. row \in Attempt /\ row.vendor = run[h].vendor /\ row.no = run[h].no /\ row.outcome = "pending"
    BY <1>1 DEF Attempt, Outcomes
<1>3. attempts' = Append(attempts, row)
    BY DEF CreateAttempt
<1>. HIDE DEF row
<1>4. /\ Len(attempts') = Len(attempts) + 1 /\ Len(attempts) \in Nat
      /\ DOMAIN attempts' = DOMAIN attempts \cup {Len(attempts) + 1}
      /\ Len(attempts) + 1 \notin DOMAIN attempts
      /\ \A b \in DOMAIN attempts : attempts'[b] = attempts[b]
      /\ attempts'[Len(attempts) + 1] = row
    BY <1>1, <1>2, <1>3
<1>5. attempts' # <<>>
    BY <1>4
<1>6. Pending' = Pending \cup {Len(attempts) + 1}
    BY <1>2, <1>4 DEF Pending
<1>. QED
    BY <1>2, <1>4, <1>5, <1>6

(* Where a handler is after its step. *)
LEMMA MovesTo ==
    ASSUME SearchInv, NEW h \in Slots, NEW q, Becomes(h, [run[h] EXCEPT !.at = q])
    PROVE  /\ run'[h].at = q /\ run'[h].attempt = run[h].attempt
           /\ run'[h].vendor = run[h].vendor /\ run'[h].no = run[h].no
           /\ run'[h].pay = run[h].pay /\ run'[h].target = run[h].target
<1>1. run'[h] = [run[h] EXCEPT !.at = q]
    BY NowAt
<1>2. run[h] \in Execution
    BY DEF SearchInv, TypeOK
<1>. QED
    BY <1>1, <1>2 DEF Execution

LEMMA TakesUp ==
    ASSUME SearchInv, NEW h \in Slots, NEW p, NEW a, NEW t, Becomes(h, OnAttempt(p, a, t))
    PROVE  run'[h].at = p /\ run'[h].attempt = a /\ run'[h].target = t
BY NowAt DEF OnAttempt

LEMMA ComesTo ==
    ASSUME SearchInv, NEW h \in Slots, NEW p, Becomes(h, At(p))
    PROVE  run'[h].at = p /\ run'[h].target = NoVendor
BY TakesUp DEF At

LEMMA Asks ==
    ASSUME SearchInv, NEW h \in Slots, NEW p, NEW v, NEW n, NEW t,
           Becomes(h, Asking(p, v, n, t))
    PROVE  /\ run'[h].at = p /\ run'[h].vendor = v
           /\ run'[h].no = n /\ run'[h].target = t
BY NowAt DEF Asking

LEMMA Stops ==
    ASSUME SearchInv, NEW h \in Slots, Becomes(h, Idle)
    PROVE  run'[h].at = "idle" /\ run'[h].target = NoVendor
BY ComesTo DEF Idle

LEMMA ReturnsToNobody ==
    ASSUME SearchInv, NEW h \in Slots, Becomes(h, Returned(run[h])),
           run[h].target = NoVendor
    PROVE  run'[h].at = "idle" /\ run'[h].target = NoVendor
BY Stops DEF Returned

LEMMA ChoosesNext ==
    ASSUME SearchInv, NEW h \in Slots, ChooseNext(h)
    PROVE  /\ run'[h].target = run[h].target
           /\ \/ run'[h].at = "fail"
              \/ /\ run'[h].at = "move" /\ run'[h].vendor \in Candidates
                 /\ \E m \in Numbers \cup {0} : IsLastNo(m) /\ run'[h].no = m + 1
<1>1. CASE Becomes(h, [run[h] EXCEPT !.at = "fail"])
    BY <1>1, MovesTo
<1>2. ASSUME NEW m \in Numbers \cup {0}, IsLastNo(m), NEW v \in Candidates,
             Becomes(h, Asking("move", v, m + 1, run[h].target))
      PROVE  /\ run'[h].at = "move" /\ run'[h].vendor \in Candidates
             /\ run'[h].no = m + 1 /\ run'[h].target = run[h].target
    BY <1>2, Asks
<1>. QED
    BY <1>1, <1>2 DEF ChooseNext

-----------------------------------------------------------------------------
(* The waterfall keeps Serves. *)
LEMMA WaterfallServes ==
    ASSUME SearchInv, NEW h \in Slots, Serves(run[h]),
           \/ WriteTimeout(h) \/ WriteRejection(h)
           \/ ReadOrder(h) \/ ChooseNext(h) \/ MoveOrder(h)
           \/ CreateAttempt(h) \/ ArmTimer(h)
           \/ MarkFailed(h) \/ MarkRefundPendingIfPaid(h)
    PROVE  Serves(run[h])'
<1>1. run[h].target = NoVendor /\ Pending \subseteq {Len(attempts)}
    BY DEF Serves
<1>2. CASE WriteTimeout(h)
    <2>1. run[h].attempt \in Pending /\ SetOutcome(run[h].attempt, "timeout")
        BY <1>2 DEF WriteTimeout, Serves
    <2>2. Pending' = {} /\ attempts' # <<>> /\ Len(attempts') = Len(attempts)
        BY <1>1, <2>1, ResolvesTheLast DEF Outcomes
    <2>3. run'[h].at = "reallocate" /\ run'[h].target = NoVendor
        BY <1>2, ComesTo DEF WriteTimeout
    <2>4. order.status # "vendor_accepted" /\ order' = order
        BY <1>2, <2>1 DEF WriteTimeout, Serves, Last, Pending
    <2>. QED
        BY <2>2, <2>3, <2>4 DEF Serves
<1>3. CASE WriteRejection(h)
    <2>1. run[h].attempt \in Pending /\ SetOutcome(run[h].attempt, "rejected")
        BY <1>3 DEF WriteRejection, Serves
    <2>2. Pending' = {} /\ attempts' # <<>> /\ Len(attempts') = Len(attempts)
        BY <1>1, <2>1, ResolvesTheLast DEF Outcomes
    <2>3. run'[h].at = "reallocate" /\ run'[h].target = NoVendor
        BY <1>1, <1>3, TakesUp DEF WriteRejection
    <2>4. order.status # "vendor_accepted" /\ order' = order
        BY <1>3, <2>1 DEF WriteRejection, Serves, Last, Pending
    <2>. QED
        BY <2>2, <2>3, <2>4 DEF Serves
<1>4. CASE ReadOrder(h)
    <2>1. CASE StillSearching
        <3>1. run'[h].at = "choose" /\ run'[h].target = NoVendor
            BY <1>1, <1>4, <2>1, MovesTo DEF ReadOrder
        <3>. QED
            BY <1>4, <2>1, <3>1 DEF ReadOrder, StillSearching, Serves, Pending, Last, Satisfied
    <2>2. CASE ~StillSearching
        <3>1. run'[h].at = "idle" /\ run'[h].target = NoVendor
            BY <1>1, <1>4, <2>2, ReturnsToNobody DEF ReadOrder
        <3>. QED
            BY <1>4, <2>2, <3>1 DEF ReadOrder, StillSearching, Serves, Pending, Last, Satisfied
    <2>. QED
        BY <2>1, <2>2
<1>5. CASE ChooseNext(h)
    <2>1. run'[h].at \in {"fail", "move"} /\ run'[h].target = NoVendor
        BY <1>1, <1>5, ChoosesNext
    <2>. QED
        BY <1>5, <2>1 DEF ChooseNext, Serves, Pending, Last, Satisfied
<1>6. CASE MoveOrder(h)
    <2>1. /\ run'[h].at = "create" /\ run'[h].target = NoVendor
          /\ run'[h].vendor = run[h].vendor
        BY <1>1, <1>6, MovesTo DEF MoveOrder, Goes
    <2>2. order'.vendor = run[h].vendor /\ order'.status = order.status /\ order'.pay = order.pay
        BY <1>6 DEF MoveOrder
    <2>. QED
        BY <1>6, <2>1, <2>2 DEF MoveOrder, Goes, Serves, Pending, Last, Satisfied
<1>7. CASE CreateAttempt(h)
    <2>1. run'[h].at = "arm" /\ run'[h].target = NoVendor
        BY <1>1, <1>7, TakesUp DEF CreateAttempt
    <2>2. /\ Pending = {} /\ order.status # "vendor_accepted"
          /\ run[h].vendor = order.vendor /\ order' = order
        BY <1>7 DEF CreateAttempt, Serves
    <2>3. /\ Pending' = {Len(attempts')} /\ attempts' # <<>>
          /\ attempts'[Len(attempts')].vendor = run[h].vendor
        BY <1>7, <2>2, CreatesTheLast
    <2>. QED
        BY <2>1, <2>2, <2>3 DEF Serves
<1>8. CASE ArmTimer(h)
    <2>1. run'[h].at = "idle" /\ run'[h].target = NoVendor
        BY <1>1, <1>8, ReturnsToNobody DEF ArmTimer
    <2>. QED
        BY <1>8, <2>1 DEF ArmTimer, Serves, Pending, Last, Satisfied
<1>9. CASE MarkFailed(h)
    <2>1. run'[h].at = "refund" /\ run'[h].target = NoVendor
        BY <1>1, <1>9, MovesTo DEF MarkFailed, Goes
    <2>2. /\ order'.status = "failed" /\ order'.vendor = order.vendor
          /\ order'.prices = order.prices
        BY <1>9 DEF MarkFailed, SetStatus
    <2>. QED
        BY <1>9, <2>1, <2>2 DEF MarkFailed, Serves, Pending, Last
<1>10. CASE MarkRefundPendingIfPaid(h)
    <2>1. run'[h].at = "idle" /\ run'[h].target = NoVendor
        BY <1>1, <1>10, ReturnsToNobody DEF MarkRefundPendingIfPaid
    <2>2. /\ order'.status = order.status /\ order'.vendor = order.vendor
          /\ order'.prices = order.prices
          /\ Satisfied' => Satisfied
        BY <1>10 DEF MarkRefundPendingIfPaid, Satisfied, IsSatisfied
    <2>. QED
        BY <1>10, <2>1, <2>2 DEF MarkRefundPendingIfPaid, Serves, Pending, Last
<1>. QED
    BY <1>2, <1>3, <1>4, <1>5, <1>6, <1>7, <1>8, <1>9, <1>10

LEMMA AnswerServes ==
    ASSUME SearchInv, NEW h \in Slots, Serves(run[h]),
           \/ \E a \in DOMAIN attempts : VendorRejects(h, a) \/ VendorAccepts(h, a)
           \/ AdminAccepts(h) \/ CheckPayment(h) \/ FindAsked(h)
           \/ WriteAcceptance(h) \/ WriteAccepted(h)
    PROVE  Serves(run[h])'
<1>1. run[h].target = NoVendor /\ Pending \subseteq {Len(attempts)}
    BY DEF Serves
<1>2. ASSUME NEW a \in DOMAIN attempts, VendorRejects(h, a) \/ VendorAccepts(h, a)
      PROVE  Serves(run[h])'
    <2>1. /\ run'[h].at \in {"reject", "checkPay"} /\ run'[h].attempt = a
          /\ run'[h].target = NoVendor
        BY <1>2, TakesUp DEF VendorRejects, VendorAccepts
    <2>2. a \in Pending /\ UNCHANGED <<order, attempts>> /\ run[h].at = "idle"
        BY <1>2 DEF VendorRejects, VendorAccepts, Idle, At, OnAttempt
    <2>. QED
        BY <2>1, <2>2 DEF Serves, Pending, Last, Satisfied
<1>3. CASE AdminAccepts(h)
    <2>1. run'[h].at = "adminPay" /\ run'[h].target = NoVendor
        BY <1>3, ComesTo DEF AdminAccepts
    <2>2. order.status = "placed" /\ UNCHANGED <<order, attempts>> /\ run[h].at = "idle"
        BY <1>3 DEF AdminAccepts, Idle, At, OnAttempt
    <2>. QED
        BY <2>1, <2>2 DEF Serves, Pending, Last, Satisfied
<1>4. CASE CheckPayment(h)
    <2>1. UNCHANGED <<order, attempts>>
        BY <1>4 DEF CheckPayment
    <2>2. CASE ~IsSatisfied(order.pay)
        <3>1. run'[h].at = "idle" /\ run'[h].target = NoVendor
            BY <1>4, <2>2, Stops DEF CheckPayment
        <3>2. run[h].at \in {"checkPay", "adminPay"}
            BY <1>4 DEF CheckPayment
        <3>. QED
            BY <2>1, <2>2, <3>1, <3>2 DEF Serves, Pending, Last, Satisfied
    <2>3. CASE IsSatisfied(order.pay) /\ Goes(h, "checkPay", "accept")
        <3>1. /\ run'[h].at = "accept" /\ run'[h].target = NoVendor
              /\ run'[h].attempt = run[h].attempt /\ run[h].at = "checkPay"
            BY <1>1, <2>3, MovesTo DEF Goes
        <3>. QED
            BY <2>1, <3>1 DEF Serves, Pending, Last, Satisfied
    <2>4. CASE IsSatisfied(order.pay) /\ Goes(h, "adminPay", "findAsked")
        <3>1. /\ run'[h].at = "findAsked" /\ run'[h].target = NoVendor
              /\ run[h].at = "adminPay"
            BY <1>1, <2>4, MovesTo DEF Goes
        <3>2. order.status = "placed" /\ Satisfied
            BY <2>4, <3>1 DEF Serves, Satisfied
        <3>. QED
            BY <2>1, <3>1, <3>2 DEF Serves, Pending, Last, Satisfied
    <2>. QED
        BY <1>4, <2>2, <2>3, <2>4 DEF CheckPayment
<1>5. CASE FindAsked(h)
    <2>1. /\ Pending # {} /\ order.status = "placed" /\ UNCHANGED <<order, attempts>>
          /\ run[h].at = "findAsked"
        BY <1>5 DEF FindAsked, Serves
    <2>2. PICK a \in Pending : Becomes(h, OnAttempt("accept", a, NoVendor))
        BY <1>5, <2>1 DEF FindAsked
    <2>3. run'[h].at = "accept" /\ run'[h].attempt = a /\ run'[h].target = NoVendor
        BY <2>2, TakesUp
    <2>. QED
        BY <2>1, <2>2, <2>3 DEF Serves, Pending, Last, Satisfied
<1>6. CASE WriteAcceptance(h)
    <2>1. /\ run[h].attempt \in Pending /\ SetOutcome(run[h].attempt, "accepted")
          /\ order' = order
        BY <1>6 DEF WriteAcceptance, Serves
    <2>2. /\ Pending' = {} /\ attempts' # <<>> /\ Len(attempts') = Len(attempts)
          /\ attempts'[Len(attempts)].outcome = "accepted"
          /\ attempts'[Len(attempts)].vendor = attempts[Len(attempts)].vendor
          /\ run[h].attempt = Len(attempts)
        <3>1. Len(attempts) \in DOMAIN attempts
            BY <1>1, <2>1 DEF Pending
        <3>. QED
            BY <1>1, <2>1, <3>1, ResolvesTheLast DEF Outcomes
    <2>3. run'[h].at = "accepted" /\ run'[h].target = NoVendor
        BY <1>6, ComesTo DEF WriteAcceptance
    <2>4. attempts[Len(attempts)].vendor = order.vendor
        BY <2>1, <2>2 DEF Serves
    <2>. QED
        BY <2>1, <2>2, <2>3, <2>4 DEF Serves, Last
<1>7. CASE WriteAccepted(h)
    <2>1. run'[h].at = "idle" /\ run'[h].target = NoVendor /\ run[h].at = "accepted"
        BY <1>1, <1>7, MovesTo DEF WriteAccepted, Goes
    <2>2. /\ order'.status = "vendor_accepted" /\ order'.vendor = order.vendor
          /\ order'.prices = order.prices
          /\ attempts' = attempts
        BY <1>7 DEF WriteAccepted, SetStatus
    <2>. QED
        BY <2>1, <2>2 DEF Serves, Pending, Last
<1>. QED
    BY <1>2, <1>3, <1>4, <1>5, <1>6, <1>7

LEMMA AdminServes ==
    ASSUME SearchInv, NEW h \in Slots, Serves(run[h]), run'[h].target = NoVendor,
           \/ CancelOrder(h) \/ WriteCancelled(h)
           \/ RestoreOrder(h) \/ RestorePayment(h) \/ Reopen(h) \/ FindOpen(h)
           \/ (\E v \in Vendors : ChangeVendor(h, v)) \/ FindOld(h) \/ AssignVendor(h)
    PROVE  Serves(run[h])'
<1>1. /\ run[h].target = NoVendor /\ Pending \subseteq {Len(attempts)}
      /\ run[h].at \notin {"findOld", "assign"}
    BY DEF Serves
<1>2. CASE CancelOrder(h)
    <2>1. run'[h].at = "cancel" /\ run'[h].target = NoVendor
        BY <1>2, ComesTo DEF CancelOrder
    <2>2. UNCHANGED <<order, attempts>> /\ run[h].at = "idle"
        BY <1>2 DEF CancelOrder, Idle, At, OnAttempt
    <2>. QED
        BY <2>1, <2>2 DEF Serves, Pending, Last, Satisfied
<1>3. CASE WriteCancelled(h)
    <2>1. run'[h].at = "refund" /\ run'[h].target = NoVendor
        BY <1>1, <1>3, MovesTo DEF WriteCancelled, Goes
    <2>2. /\ order'.status = "cancelled" /\ order'.vendor = order.vendor
          /\ order'.prices = order.prices /\ attempts' = attempts
        BY <1>3 DEF WriteCancelled, SetStatus
    <2>. QED
        BY <2>1, <2>2 DEF Serves, Pending, Last
<1>4. CASE RestoreOrder(h)
    <2>1. /\ run'[h].at = "restorePay" /\ run'[h].vendor = order.vendor
          /\ run'[h].target = NoVendor
        BY <1>4, NowAt DEF RestoreOrder
    <2>2. UNCHANGED <<order, attempts>> /\ run[h].at = "idle"
        BY <1>4 DEF RestoreOrder, Idle, At, OnAttempt
    <2>3. order.status \in {"cancelled", "failed"}
        BY <1>4 DEF RestoreOrder
    <2>. QED
        BY <2>1, <2>2, <2>3 DEF Serves, Pending, Last, Satisfied
<1>5. CASE RestorePayment(h)
    <2>1. /\ run'[h].at = "reopen" /\ run'[h].vendor = run[h].vendor
          /\ run'[h].target = NoVendor /\ run[h].at = "restorePay"
        BY <1>1, <1>5, MovesTo DEF RestorePayment, Goes
    <2>2. /\ order'.status = order.status /\ order'.vendor = order.vendor
          /\ order'.prices = order.prices
          /\ attempts' = attempts
        BY <1>5 DEF RestorePayment
    <2>. QED
        BY <2>1, <2>2 DEF Serves, Pending, Last
<1>6. CASE Reopen(h)
    <2>1. /\ run'[h].at = "findOpen" /\ run'[h].vendor = run[h].vendor
          /\ run'[h].target = NoVendor /\ run[h].at = "reopen"
        BY <1>1, <1>6, MovesTo DEF Reopen, Goes
    <2>2. /\ order'.status = "placed" /\ order'.vendor = order.vendor
          /\ order'.prices = order.prices
          /\ attempts' = attempts
        BY <1>6 DEF Reopen
    <2>. QED
        BY <2>1, <2>2 DEF Serves, Pending, Last
<1>7. CASE FindOpen(h)
    <2>1. order.status = "placed" /\ UNCHANGED <<order, attempts>> /\ run[h].at = "findOpen"
        BY <1>7 DEF FindOpen, Serves
    <2>2. CASE NobodyAsked
        <3>1. /\ run'[h].at = "create" /\ run'[h].vendor = run[h].vendor
              /\ run'[h].target = NoVendor
            BY <1>7, <2>2, Asks DEF FindOpen
        <3>. QED
            BY <2>1, <2>2, <3>1 DEF Serves, NobodyAsked, Pending, Last, Satisfied
    <2>3. CASE ~NobodyAsked
        <3>1. run'[h].at = "idle" /\ run'[h].target = NoVendor
            BY <1>7, <2>3, Stops DEF FindOpen
        <3>. QED
            BY <2>1, <2>3, <3>1 DEF Serves, NobodyAsked, Pending, Last, Satisfied
    <2>. QED
        BY <2>2, <2>3
<1>8. ASSUME NEW v \in Vendors, ChangeVendor(h, v)
      PROVE  FALSE
    <2>1. run'[h].target = v
        BY <1>8, TakesUp DEF ChangeVendor
    <2>. QED
        BY <1>8, <2>1, AllocationAssumption
<1>9. ~FindOld(h) /\ ~AssignVendor(h)
    BY <1>1 DEF FindOld, AssignVendor
<1>. QED
    BY <1>2, <1>3, <1>4, <1>5, <1>6, <1>7, <1>8, <1>9

LEMMA PaymentServes ==
    ASSUME SearchInv, NEW h \in Slots, Serves(run[h]),
           \/ ConfirmPayment(h) \/ WritePaid(h) \/ GuardOrder(h)
           \/ HandlePaymentSatisfied(h) \/ ReadLatest(h)
    PROVE  Serves(run[h])'
<1>1. run[h].target = NoVendor /\ Pending \subseteq {Len(attempts)}
    BY DEF Serves
<1>2. CASE ConfirmPayment(h)
    <2>1. PICK p \in {"confirm", "reconcile"} : Becomes(h, At(p))
        BY <1>2 DEF ConfirmPayment
    <2>2. run'[h].at = p /\ run'[h].target = NoVendor
        BY <2>1, ComesTo
    <2>3. UNCHANGED <<order, attempts>> /\ run[h].at = "idle"
        BY <1>2 DEF ConfirmPayment, Idle, At, OnAttempt
    <2>. QED
        BY <2>1, <2>2, <2>3 DEF Serves, Pending, Last, Satisfied
<1>3. CASE WritePaid(h)
    <2>1. /\ run[h].at \in {"confirm", "reconcile"} /\ run'[h].at \in {"satisfied", "guard"}
          /\ run'[h].target = NoVendor
        BY <1>1, <1>3, MovesTo DEF WritePaid, Goes
    <2>2. /\ order'.status = order.status /\ order'.vendor = order.vendor
          /\ order'.prices = order.prices
          /\ attempts' = attempts
        BY <1>3 DEF WritePaid
    <2>. QED
        BY <2>1, <2>2 DEF Serves, Pending, Last
<1>4. CASE GuardOrder(h)
    <2>1. UNCHANGED <<order, attempts>> /\ run[h].at = "guard"
        BY <1>4 DEF GuardOrder
    <2>2. CASE order.status \in {"cancelled", "failed"}
        <3>1. run'[h].at = "idle" /\ run'[h].target = NoVendor
            BY <1>4, <2>2, Stops DEF GuardOrder
        <3>. QED
            BY <2>1, <2>2, <3>1 DEF Serves, Pending, Last, Satisfied
    <2>3. CASE order.status \notin {"cancelled", "failed"}
        <3>1. run'[h].at = "satisfied" /\ run'[h].target = NoVendor
            BY <1>4, <2>3, ComesTo DEF GuardOrder
        <3>. QED
            BY <2>1, <3>1 DEF Serves, Pending, Last, Satisfied
    <2>. QED
        BY <2>2, <2>3
<1>5. CASE HandlePaymentSatisfied(h)
    <2>1. UNCHANGED <<order, attempts>> /\ run[h].at = "satisfied"
        BY <1>5 DEF HandlePaymentSatisfied
    <2>2. /\ run'[h].at = "latest" /\ run'[h].vendor = order.vendor
          /\ run'[h].target = NoVendor
        BY <1>5, Asks DEF HandlePaymentSatisfied
    <2>. QED
        BY <2>1, <2>2 DEF Serves, Pending, Last, Satisfied
<1>6. CASE ReadLatest(h)
    <2>1. UNCHANGED <<order, attempts>> /\ run[h].at = "latest"
        BY <1>6 DEF ReadLatest
    <2>2. CASE NeverAsked
        <3>1. /\ run'[h].at = "create" /\ run'[h].vendor = run[h].vendor
              /\ run'[h].target = NoVendor
            BY <1>6, <2>2, Asks DEF ReadLatest
        <3>2. Pending = {} /\ attempts = <<>>
            BY <2>2 DEF NeverAsked, Pending
        <3>. QED
            BY <2>1, <3>1, <3>2 DEF Serves, Pending, Last, Satisfied
    <2>3. CASE ~NeverAsked
        <3>1. run'[h].at = "idle" /\ run'[h].target = NoVendor
            BY <1>6, <2>3, Stops DEF ReadLatest
        <3>. QED
            BY <2>1, <2>3, <3>1 DEF Serves, NeverAsked, Pending, Last, Satisfied
    <2>. QED
        BY <2>2, <2>3
<1>. QED
    BY <1>2, <1>3, <1>4, <1>5, <1>6

(* An SLA timer fires. *)
LEMMA TimerServes ==
    ASSUME SearchInv, NEW h \in Slots, Serves(run[h]), NEW a \in DOMAIN attempts,
           FireTimer(h, a)
    PROVE  Serves(run[h])'
<1>1. UNCHANGED <<order, attempts>> /\ run[h].at = "idle"
    BY DEF FireTimer, Idle, At, OnAttempt
<1>2. CASE attempts[a].outcome = "pending"
    <2>1. run'[h].at = "timeout" /\ run'[h].attempt = a /\ run'[h].target = NoVendor
        BY <1>2, TakesUp DEF FireTimer
    <2>. QED
        BY <1>1, <1>2, <2>1 DEF Serves, Pending, Last, Satisfied
<1>3. CASE attempts[a].outcome # "pending"
    <2>1. run'[h].at = "idle" /\ run'[h].target = NoVendor
        BY <1>3, Stops DEF FireTimer
    <2>. QED
        BY <1>1, <2>1 DEF Serves, Pending, Last, Satisfied
<1>. QED
    BY <1>2, <1>3

ServesInv == alone /\ whole => \E h \in Slots : AtWork(h) /\ Serves(run[h])

LEMMA ServesStep ==
    ASSUME SearchInv, ServesInv, [MCNext]_<<vars, history>>
    PROVE  ServesInv'
<1>. SUFFICES ASSUME alone', whole'
              PROVE  \E h \in Slots : AtWork(h)' /\ Serves(run[h])'
    BY DEF ServesInv, AtWork
<1>1. alone /\ whole
    BY DEF MCNext, history
<1>2. PICK h \in Slots : AtWork(h) /\ Serves(run[h])
    BY <1>1 DEF ServesInv
<1>3. CASE UNCHANGED <<vars, history>>
    BY <1>2, <1>3 DEF vars, AtWork, Serves, Pending, Last, Satisfied
<1>. SUFFICES ASSUME MCNext, NoOverlap'
              PROVE  \E g \in Slots : AtWork(g)' /\ Serves(run[g])'
    BY <1>3 DEF MCNext
<1>4. ASSUME NEW g \in Slots, Continue(g)
      PROVE  \E k \in Slots : AtWork(k)' /\ Serves(run[k])'
    <2>1. PICK x : Becomes(g, x) /\ run[g] # Idle
        BY <1>4, ContinueStarts
    <2>2. AtWork(g) /\ run[g] = run[h] /\ AtWork(g)' /\ run'[g].target = NoVendor
        BY <1>2, <2>1, OneAtWork DEF NoOverlap
    <2>. QED
        BY <1>2, <1>4, <2>2, WaterfallServes, AnswerServes, AdminServes, PaymentServes
        DEF Continue
<1>5. ASSUME NEW g \in Slots, Call(g)
      PROVE  \E k \in Slots : AtWork(k)' /\ Serves(run[k])'
    <2>1. PICK x : Becomes(g, x) /\ x # Idle
        BY <1>5, CallStarts
    <2>2. AtWork(g) /\ run[g] = run[h] /\ AtWork(g)' /\ run'[g].target = NoVendor
        BY <1>2, <2>1, OneAtWork DEF NoOverlap
    <2>. QED
        BY <1>2, <1>5, <2>2, AnswerServes, AdminServes, PaymentServes
        DEF Call
<1>6. ASSUME NEW g \in Slots, NEW a \in DOMAIN attempts, FireTimer(g, a)
      PROVE  \E k \in Slots : AtWork(k)' /\ Serves(run[k])'
    <2>1. CASE run' = run
        BY <1>2, <1>6, <2>1 DEF FireTimer, AtWork, Serves, Pending, Last, Satisfied
    <2>2. CASE run' # run
        <3>1. PICK x : Becomes(g, x)
            BY <1>6 DEF FireTimer
        <3>2. x # Idle
            BY <1>6, <2>2, <3>1 DEF FireTimer, Becomes, SearchInv, TypeOK
        <3>3. AtWork(g) /\ run[g] = run[h] /\ AtWork(g)'
            BY <1>2, <3>1, <3>2, OneAtWork
        <3>. QED
            BY <1>2, <1>6, <3>3, TimerServes
    <2>. QED
        BY <2>1, <2>2
<1>7. CASE MarkRefunded
    <2>1. /\ order'.status = order.status /\ order'.vendor = order.vendor
          /\ order'.prices = order.prices
          /\ ~Satisfied' /\ UNCHANGED <<attempts, run>>
        BY <1>7 DEF MarkRefunded, Satisfied, IsSatisfied
    <2>. QED
        BY <1>2, <2>1 DEF AtWork, Serves, Pending, Last
<1>8. CASE Restart /\ whole' = (whole /\ Quiet)
    <2>1. Quiet /\ run' = [k \in Slots |-> Idle]
        BY <1>8 DEF Restart
    <2>2. run' = run
        BY <2>1 DEF Quiet, SearchInv, TypeOK
    <2>. QED
        BY <1>2, <1>8, <2>2 DEF Restart, AtWork, Serves, Pending, Last, Satisfied
<1>. QED
    BY <1>4, <1>5, <1>6, <1>7, <1>8 DEF MCNext, Proceed

LEMMA ServesInit == MCInit => ServesInv
<1>. SUFFICES ASSUME MCInit PROVE ServesInv
    OBVIOUS
<1>1. PICK h \in Slots, first \in {At("satisfied"), Idle} :
          /\ run = [g \in Slots |-> IF g = h THEN first ELSE Idle]
          /\ order.status = "placed" /\ order.prices = order.vendor
          /\ order.pay = "pending" \/ first.at = "satisfied"
    BY DEF MCInit, Init, At, OnAttempt
<1>2. attempts = <<>> /\ Pending = {}
    BY DEF MCInit, Init, Pending
<1>3. run[h] = first /\ AtWork(h)
    BY <1>1 DEF AtWork
<1>4. first.at \in {"satisfied", "idle"} /\ first.target = NoVendor
    BY <1>1 DEF At, Idle, OnAttempt
<1>5. Serves(run[h])
    BY <1>1, <1>2, <1>3, <1>4 DEF Serves, Satisfied, IsSatisfied
<1>. QED
    BY <1>3, <1>5 DEF ServesInv

(* One handler at a time, whatever is called, answered or fired and        *)
(* however often the process restarts between two of them: a placed order  *)
(* that is paid for waits for a vendor, no two vendors hold it, and an     *)
(* accepted one belongs to the vendor whose acceptance is on record, and   *)
(* is charged by that vendor's prices.                                     *)
THEOREM OneVendorAtATime == MCSpec => []WithItsVendorAlone
<1>1. ServesInv => WithItsVendorAlone
    <2>. SUFFICES ASSUME ServesInv, alone, whole, Quiet, order.status \in {"placed", "vendor_accepted"}
                  PROVE  /\ order.status = "placed" /\ Satisfied => Pending # {}
                         /\ order.status = "placed" =>
                                \A a \in Pending : attempts[a].vendor = order.vendor /\ Pending = {a}
                         /\ order.status = "vendor_accepted" =>
                                /\ Last.outcome = "accepted" /\ Last.vendor = order.vendor
                                /\ order.prices = order.vendor
        BY DEF WithItsVendorAlone, SomeVendorAsked, OneVendorAsked, AcceptedByItsVendor
    <2>1. PICK h \in Slots : Serves(run[h])
        BY DEF ServesInv
    <2>2. run[h].at = "idle"
        BY DEF Quiet, Idle, At, OnAttempt
    <2>. QED
        BY <2>1, <2>2 DEF Serves
<1>. QED
    BY <1>1, ServesInit, ServesStep, HistoryOnlyWatches, SearchInvariant, PTL DEF MCSpec

-----------------------------------------------------------------------------
(* The waterfall by itself. *)

(* Vendor a+1 is asked once a vendors have been, each of them another and  *)
(* none of them holding the order any more; x knows whom it is asking.     *)
Searches(x) ==
    /\ \A a \in DOMAIN attempts : attempts[a].no = a
    /\ IsFiniteSet(Excluded) /\ Cardinality(Excluded) = Len(attempts)
    /\ Open \subseteq {Len(attempts)}
    /\ order.status \in {"placed", "vendor_accepted", "failed"}
    /\ order.status # "placed" => attempts # <<>> /\ Pending = {}
    /\ attempts # <<>> \/ x.at \in {"guard", "satisfied", "latest", "create"} =>
          payment # "pending"
    /\ x.at \in {"confirm", "reconcile"} => payment = "pending"
    /\ x.at \in {"timeout", "reject", "checkPay", "accept"} => x.attempt \in Pending
    /\ x.at \in {"reallocate", "choose", "move", "create", "fail"} =>
          Open = {} /\ order.status = "placed"
    /\ x.at \in {"reallocate", "choose", "move", "fail", "accepted"} => attempts # <<>>
    /\ x.at \in {"move", "create"} =>
          x.vendor \notin Excluded /\ x.no = Len(attempts) + 1
    /\ x.at = "accepted" => Open # {} /\ Pending = {} /\ order.status = "placed"
    /\ x.at = "refund" => order.status = "failed"
    /\ x.at \notin ByHand \cup {"findAsked", "reopen", "findOpen", "assign"}
    /\ x.target = NoVendor

(* A failed order that is still paid is about to be refunded. *)
RefundOwed(x) == order.status = "failed" /\ payment = "paid" => x.at = "refund"

SearchesInv ==
    alone /\ waterfall =>
        \E h \in Slots : AtWork(h) /\ Searches(run[h]) /\ (whole => RefundOwed(run[h]))

(* Nobody holds the order once the last attempt is resolved. *)
LEMMA ResolvesSearch ==
    ASSUME SearchInv, NEW h \in Slots, Searches(run[h]), NEW o \in Outcomes,
           run[h].attempt \in Pending, SetOutcome(run[h].attempt, o), o # "pending"
    PROVE  /\ \A a \in DOMAIN attempts' : attempts'[a].no = a
           /\ Excluded' = Excluded /\ Len(attempts') = Len(attempts)
           /\ attempts # <<>> /\ attempts' # <<>>
           /\ Pending' = {} /\ order.status = "placed"
           /\ Open' = IF o = "accepted" THEN {Len(attempts)} ELSE {}
<1>1. Open \subseteq {Len(attempts)} /\ Pending \subseteq Open
    BY DEF Searches, Open, Pending
<1>. DEFINE n == Len(attempts)
<1>2. /\ run[h].attempt = n /\ Len(attempts') = n
      /\ DOMAIN attempts' = DOMAIN attempts
      /\ attempts # <<>> /\ attempts' # <<>>
      /\ \A b \in DOMAIN attempts :
            /\ attempts'[b].vendor = attempts[b].vendor
            /\ attempts'[b].no = attempts[b].no
      /\ \A b \in DOMAIN attempts \ {n} : attempts'[b] = attempts[b]
      /\ attempts'[n].outcome = o
      /\ Pending' = {}
    BY <1>1, ResolvesTheLast
<1>3. n \in DOMAIN attempts
    BY <1>2 DEF Pending
<1>. HIDE DEF n
<1>4. Excluded' = Excluded
    BY <1>2 DEF Excluded
<1>5. Open' = IF o = "accepted" THEN {n} ELSE {}
    <2>1. ASSUME NEW b \in Open' PROVE b = n /\ o = "accepted"
        <3>1. b = n
            BY <1>1, <1>2 DEF Open, n
        <3>. QED
            BY <1>2, <3>1 DEF Open
    <2>2. o = "accepted" => n \in Open'
        BY <1>2, <1>3 DEF Open
    <2>. QED
        BY <2>1, <2>2
<1>6. order.status = "placed"
    BY DEF Searches
<1>. QED
    BY <1>2, <1>4, <1>5, <1>6 DEF Searches, n

LEMMA CreatesSearch ==
    ASSUME SearchInv, NEW h \in Slots, Searches(run[h]), CreateAttempt(h)
    PROVE  /\ \A a \in DOMAIN attempts' : attempts'[a].no = a
           /\ Excluded' = Excluded \cup {run[h].vendor}
           /\ IsFiniteSet(Excluded') /\ Cardinality(Excluded') = Len(attempts')
           /\ Cardinality(Excluded) < MaxAttempts
           /\ Open = {} /\ Open' = {Len(attempts')} /\ attempts' # <<>>
           /\ attempts'[Len(attempts')].vendor = run[h].vendor
<1>. DEFINE n == Len(attempts) + 1
<1>1. /\ run[h].at = "create" /\ run[h].vendor \notin Excluded /\ run[h].no = n
      /\ Open = {} /\ IsFiniteSet(Excluded) /\ Cardinality(Excluded) = Len(attempts)
      /\ \A a \in DOMAIN attempts : attempts[a].no = a
    BY DEF CreateAttempt, Searches
<1>2. /\ Len(attempts') = n /\ attempts' # <<>>
      /\ DOMAIN attempts' = DOMAIN attempts \cup {n}
      /\ n \notin DOMAIN attempts
      /\ \A b \in DOMAIN attempts : attempts'[b] = attempts[b]
      /\ attempts'[n].vendor = run[h].vendor
      /\ attempts'[n].no = run[h].no
      /\ attempts'[n].outcome = "pending"
    BY CreatesTheLast
<1>3. Excluded' = Excluded \cup {run[h].vendor}
    <2>. HIDE DEF n
    <2>. QED
        BY <1>2 DEF Excluded
<1>4. Open' = {n}
    <2>. HIDE DEF n
    <2>. QED
        BY <1>1, <1>2 DEF Open
<1>5. IsFiniteSet(Excluded') /\ Cardinality(Excluded') = n
    BY <1>1, <1>3, FS_AddElement
<1>6. Len(attempts) < MaxAttempts
    <2>1. run[h] \in Execution /\ Len(attempts) \in Nat
        BY DEF SearchInv, TypeOK
    <2>2. run[h].no \in 0 .. MaxAttempts
        BY <2>1 DEF Execution
    <2>. QED
        BY <1>1, <2>1, <2>2, AllocationAssumption
<1>7. \A a \in DOMAIN attempts' : attempts'[a].no = a
    <2>. HIDE DEF n
    <2>. QED
        BY <1>1, <1>2
<1>. QED
    BY <1>1, <1>2, <1>3, <1>4, <1>5, <1>6, <1>7

(* The next vendor is asked under the next number. *)
LEMMA NextNumber ==
    ASSUME SearchInv, NEW h \in Slots, Searches(run[h]), attempts # <<>>,
           NEW m \in Numbers \cup {0}, IsLastNo(m)
    PROVE  m = Len(attempts)
<1>1. attempts \in Seq(Attempt) /\ \A a \in DOMAIN attempts : attempts[a].no = a
    BY DEF SearchInv, TypeOK, Searches
<1>2. Len(attempts) \in DOMAIN attempts /\ DOMAIN attempts = 1 .. Len(attempts)
    BY <1>1
<1>3. Len(attempts) \in Numbers
    BY <1>1, <1>2 DEF Numbers
<1>4. \A k \in Numbers : k \in 1 .. Len(attempts)
    BY <1>1, <1>2 DEF Numbers
<1>. QED
    BY <1>1, <1>3, <1>4 DEF IsLastNo

LEMMA WaterfallSearches ==
    ASSUME SearchInv, NEW h \in Slots, Searches(run[h]),
           \/ WriteTimeout(h) \/ WriteRejection(h)
           \/ ReadOrder(h) \/ ChooseNext(h) \/ MoveOrder(h)
           \/ CreateAttempt(h) \/ ArmTimer(h)
           \/ MarkFailed(h) \/ MarkRefundPendingIfPaid(h)
    PROVE  Searches(run[h])' /\ (RefundOwed(run[h]) => RefundOwed(run[h])')
<1>1. run[h].target = NoVendor
    BY DEF Searches
<1>2. CASE WriteTimeout(h)
    <2>1. run[h].attempt \in Pending /\ SetOutcome(run[h].attempt, "timeout")
        BY <1>2 DEF WriteTimeout, Searches
    <2>2. /\ \A a \in DOMAIN attempts' : attempts'[a].no = a
          /\ Excluded' = Excluded /\ Len(attempts') = Len(attempts)
          /\ attempts # <<>> /\ attempts' # <<>>
          /\ Pending' = {} /\ Open' = {} /\ order.status = "placed"
        BY <2>1, ResolvesSearch DEF Outcomes
    <2>3. run'[h].at = "reallocate" /\ run'[h].target = NoVendor
        BY <1>2, ComesTo DEF WriteTimeout
    <2>4. UNCHANGED <<order, payment>>
        BY <1>2 DEF WriteTimeout
    <2>. QED
        BY <2>2, <2>3, <2>4 DEF Searches, RefundOwed, ByHand
<1>3. CASE WriteRejection(h)
    <2>1. run[h].attempt \in Pending /\ SetOutcome(run[h].attempt, "rejected")
        BY <1>3 DEF WriteRejection, Searches
    <2>2. /\ \A a \in DOMAIN attempts' : attempts'[a].no = a
          /\ Excluded' = Excluded /\ Len(attempts') = Len(attempts)
          /\ attempts # <<>> /\ attempts' # <<>>
          /\ Pending' = {} /\ Open' = {} /\ order.status = "placed"
        BY <2>1, ResolvesSearch DEF Outcomes
    <2>3. run'[h].at = "reallocate" /\ run'[h].target = NoVendor
        BY <1>1, <1>3, TakesUp DEF WriteRejection
    <2>4. UNCHANGED <<order, payment>>
        BY <1>3 DEF WriteRejection
    <2>. QED
        BY <2>2, <2>3, <2>4 DEF Searches, RefundOwed, ByHand
<1>4. CASE ReadOrder(h)
    <2>1. order.status = "placed"
        BY <1>4 DEF ReadOrder, Searches
    <2>2. run'[h].at = "choose" /\ run'[h].target = NoVendor
        BY <1>1, <1>4, <2>1, MovesTo DEF ReadOrder, StillSearching
    <2>. QED
        BY <1>4, <2>1, <2>2 DEF ReadOrder, Searches, RefundOwed, ByHand, Pending, Open, Excluded
<1>5. CASE ChooseNext(h)
    <2>1. /\ order.status = "placed" /\ attempts # <<>> /\ Open = {}
          /\ UNCHANGED <<order, payment, attempts>>
        BY <1>5 DEF ChooseNext, Searches
    <2>2. /\ run'[h].at \in {"fail", "move"} /\ run'[h].target = NoVendor
          /\ run'[h].at = "move" =>
                run'[h].vendor \notin Excluded /\ run'[h].no = Len(attempts) + 1
        BY <1>1, <1>5, <2>1, ChoosesNext, NextNumber DEF Candidates
    <2>. QED
        BY <2>1, <2>2 DEF Searches, RefundOwed, ByHand, Pending, Open, Excluded
<1>6. CASE MoveOrder(h)
    <2>1. /\ run'[h].at = "create" /\ run'[h].target = NoVendor
          /\ run'[h].vendor = run[h].vendor /\ run'[h].no = run[h].no
          /\ run[h].at = "move"
        BY <1>1, <1>6, MovesTo DEF MoveOrder, Goes
    <2>2. order'.status = order.status /\ UNCHANGED <<payment, attempts>>
        BY <1>6 DEF MoveOrder
    <2>. QED
        BY <2>1, <2>2 DEF Searches, RefundOwed, ByHand, Pending, Open, Excluded
<1>7. CASE CreateAttempt(h)
    <2>1. run'[h].at = "arm" /\ run'[h].target = NoVendor
        BY <1>1, <1>7, TakesUp DEF CreateAttempt
    <2>2. /\ order.status = "placed" /\ payment # "pending" /\ UNCHANGED <<order, payment>>
        BY <1>7 DEF CreateAttempt, Searches
    <2>3. /\ \A a \in DOMAIN attempts' : attempts'[a].no = a
          /\ IsFiniteSet(Excluded') /\ Cardinality(Excluded') = Len(attempts')
          /\ Open' = {Len(attempts')} /\ attempts' # <<>>
        BY <1>7, CreatesSearch
    <2>. QED
        BY <2>1, <2>2, <2>3 DEF Searches, RefundOwed, ByHand
<1>8. CASE ArmTimer(h)
    <2>1. run'[h].at = "idle" /\ run'[h].target = NoVendor /\ run[h].at = "arm"
        BY <1>1, <1>8, ReturnsToNobody DEF ArmTimer
    <2>. QED
        BY <1>8, <2>1 DEF ArmTimer, Searches, RefundOwed, ByHand, Pending, Open, Excluded
<1>9. CASE MarkFailed(h)
    <2>1. run'[h].at = "refund" /\ run'[h].target = NoVendor /\ run[h].at = "fail"
        BY <1>1, <1>9, MovesTo DEF MarkFailed, Goes
    <2>2. order'.status = "failed" /\ UNCHANGED <<payment, attempts>>
        BY <1>9 DEF MarkFailed, SetStatus
    <2>3. Pending = {}
        BY <2>1 DEF Searches, Pending, Open
    <2>. QED
        BY <2>1, <2>2, <2>3 DEF Searches, RefundOwed, ByHand, Pending, Open, Excluded
<1>10. CASE MarkRefundPendingIfPaid(h)
    <2>1. run'[h].at = "idle" /\ run'[h].target = NoVendor /\ run[h].at = "refund"
        BY <1>1, <1>10, ReturnsToNobody DEF MarkRefundPendingIfPaid
    <2>2. /\ order'.status = order.status /\ attempts' = attempts
          /\ payment' # "paid" /\ (payment # "pending" => payment' # "pending")
        BY <1>10 DEF MarkRefundPendingIfPaid
    <2>. QED
        BY <2>1, <2>2 DEF Searches, RefundOwed, ByHand, Pending, Open, Excluded
<1>. QED
    BY <1>2, <1>3, <1>4, <1>5, <1>6, <1>7, <1>8, <1>9, <1>10

LEMMA AnswerSearches ==
    ASSUME SearchInv, NEW h \in Slots, Searches(run[h]),
           \/ \E a \in DOMAIN attempts : VendorRejects(h, a) \/ VendorAccepts(h, a)
           \/ CheckPayment(h) \/ WriteAcceptance(h) \/ WriteAccepted(h)
    PROVE  Searches(run[h])' /\ (RefundOwed(run[h]) => RefundOwed(run[h])')
<1>1. run[h].target = NoVendor
    BY DEF Searches
<1>2. ASSUME NEW a \in DOMAIN attempts, VendorRejects(h, a) \/ VendorAccepts(h, a)
      PROVE  Searches(run[h])' /\ (RefundOwed(run[h]) => RefundOwed(run[h])')
    <2>1. /\ run'[h].at \in {"reject", "checkPay"} /\ run'[h].attempt = a
          /\ run'[h].target = NoVendor
        BY <1>2, TakesUp DEF VendorRejects, VendorAccepts
    <2>2. /\ a \in Pending /\ UNCHANGED <<order, payment, attempts>>
          /\ run[h].at = "idle"
        BY <1>2 DEF VendorRejects, VendorAccepts, Idle, At, OnAttempt
    <2>. QED
        BY <2>1, <2>2 DEF Searches, RefundOwed, ByHand, Pending, Open, Excluded
<1>3. CASE CheckPayment(h)
    <2>1. run[h].at = "checkPay" /\ UNCHANGED <<order, payment, attempts>>
        BY <1>3 DEF CheckPayment, Searches, ByHand
    <2>2. /\ run'[h].at \in {"idle", "accept"} /\ run'[h].target = NoVendor
          /\ run'[h].at = "accept" => run'[h].attempt = run[h].attempt
        BY <1>1, <1>3, <2>1, Stops, MovesTo DEF CheckPayment, Goes
    <2>. QED
        BY <2>1, <2>2 DEF Searches, RefundOwed, ByHand, Pending, Open, Excluded
<1>4. CASE WriteAcceptance(h)
    <2>1. run[h].attempt \in Pending /\ SetOutcome(run[h].attempt, "accepted")
        BY <1>4 DEF WriteAcceptance, Searches
    <2>2. /\ \A a \in DOMAIN attempts' : attempts'[a].no = a
          /\ Excluded' = Excluded /\ Len(attempts') = Len(attempts)
          /\ attempts # <<>> /\ attempts' # <<>>
          /\ Pending' = {} /\ Open' = {Len(attempts)} /\ order.status = "placed"
        BY <2>1, ResolvesSearch DEF Outcomes
    <2>3. run'[h].at = "accepted" /\ run'[h].target = NoVendor
        BY <1>4, ComesTo DEF WriteAcceptance
    <2>4. UNCHANGED <<order, payment>>
        BY <1>4 DEF WriteAcceptance
    <2>. QED
        BY <2>2, <2>3, <2>4 DEF Searches, RefundOwed, ByHand
<1>5. CASE WriteAccepted(h)
    <2>1. run'[h].at = "idle" /\ run'[h].target = NoVendor /\ run[h].at = "accepted"
        BY <1>1, <1>5, MovesTo DEF WriteAccepted, Goes
    <2>2. order'.status = "vendor_accepted" /\ UNCHANGED <<payment, attempts>>
        BY <1>5 DEF WriteAccepted, SetStatus
    <2>. QED
        BY <2>1, <2>2 DEF Searches, RefundOwed, ByHand, Pending, Open, Excluded
<1>. QED
    BY <1>2, <1>3, <1>4, <1>5

LEMMA PaymentSearches ==
    ASSUME SearchInv, NEW h \in Slots, Searches(run[h]),
           \/ ConfirmPayment(h) \/ WritePaid(h) \/ GuardOrder(h)
           \/ HandlePaymentSatisfied(h) \/ ReadLatest(h)
    PROVE  Searches(run[h])' /\ (RefundOwed(run[h]) => RefundOwed(run[h])')
<1>1. run[h].target = NoVendor
    BY DEF Searches
<1>2. CASE ConfirmPayment(h)
    <2>1. PICK p \in {"confirm", "reconcile"} : Becomes(h, At(p))
        BY <1>2 DEF ConfirmPayment
    <2>2. run'[h].at = p /\ run'[h].target = NoVendor
        BY <2>1, ComesTo
    <2>3. /\ UNCHANGED <<order, payment, attempts>> /\ run[h].at = "idle"
          /\ payment = "pending"
        BY <1>2 DEF ConfirmPayment, Idle, At, OnAttempt
    <2>. QED
        BY <2>1, <2>2, <2>3 DEF Searches, RefundOwed, ByHand, Pending, Open, Excluded
<1>3. CASE WritePaid(h)
    <2>1. /\ run[h].at \in {"confirm", "reconcile"} /\ run'[h].at \in {"satisfied", "guard"}
          /\ run'[h].target = NoVendor
        BY <1>1, <1>3, MovesTo DEF WritePaid, Goes
    <2>2. /\ order'.status = order.status /\ payment' = "paid"
          /\ attempts' = attempts
        BY <1>3 DEF WritePaid
    <2>3. attempts = <<>> /\ order.status = "placed"
        BY <2>1 DEF Searches
    <2>. QED
        BY <2>1, <2>2, <2>3 DEF Searches, RefundOwed, ByHand, Pending, Open, Excluded
<1>4. CASE GuardOrder(h)
    <2>1. UNCHANGED <<order, payment, attempts>> /\ run[h].at = "guard"
        BY <1>4 DEF GuardOrder
    <2>2. run'[h].at \in {"idle", "satisfied"} /\ run'[h].target = NoVendor
        BY <1>4, Stops, ComesTo DEF GuardOrder
    <2>. QED
        BY <2>1, <2>2 DEF Searches, RefundOwed, ByHand, Pending, Open, Excluded
<1>5. CASE HandlePaymentSatisfied(h)
    <2>1. UNCHANGED <<order, payment, attempts>> /\ run[h].at = "satisfied"
        BY <1>5 DEF HandlePaymentSatisfied
    <2>2. run'[h].at = "latest" /\ run'[h].target = NoVendor
        BY <1>5, Asks DEF HandlePaymentSatisfied
    <2>. QED
        BY <2>1, <2>2 DEF Searches, RefundOwed, ByHand, Pending, Open, Excluded
<1>6. CASE ReadLatest(h)
    <2>1. UNCHANGED <<order, payment, attempts>> /\ run[h].at = "latest"
        BY <1>6 DEF ReadLatest
    <2>2. CASE NeverAsked
        <3>1. /\ run'[h].at = "create" /\ run'[h].no = 1
              /\ run'[h].target = NoVendor
            BY <1>6, <2>2, Asks DEF ReadLatest
        <3>2. /\ Open = {} /\ Excluded = {} /\ order.status = "placed"
              /\ Len(attempts) = 0
            BY <2>2 DEF NeverAsked, Open, Excluded, Searches
        <3>. QED
            BY <2>1, <3>1, <3>2 DEF Searches, RefundOwed, ByHand, Pending, Open, Excluded
    <2>3. CASE ~NeverAsked
        <3>1. run'[h].at = "idle" /\ run'[h].target = NoVendor
            BY <1>6, <2>3, Stops DEF ReadLatest
        <3>. QED
            BY <2>1, <3>1 DEF Searches, RefundOwed, ByHand, Pending, Open, Excluded
    <2>. QED
        BY <2>2, <2>3
<1>. QED
    BY <1>2, <1>3, <1>4, <1>5, <1>6

LEMMA TimerSearches ==
    ASSUME SearchInv, NEW h \in Slots, Searches(run[h]), NEW a \in DOMAIN attempts,
           FireTimer(h, a)
    PROVE  Searches(run[h])' /\ (RefundOwed(run[h]) => RefundOwed(run[h])')
<1>1. UNCHANGED <<order, payment, attempts>> /\ run[h].at = "idle"
    BY DEF FireTimer, Idle, At, OnAttempt
<1>2. CASE attempts[a].outcome = "pending"
    <2>1. run'[h].at = "timeout" /\ run'[h].attempt = a /\ run'[h].target = NoVendor
        BY <1>2, TakesUp DEF FireTimer
    <2>. QED
        BY <1>1, <1>2, <2>1 DEF Searches, RefundOwed, ByHand, Pending, Open, Excluded
<1>3. CASE attempts[a].outcome # "pending"
    <2>1. run'[h].at = "idle" /\ run'[h].target = NoVendor
        BY <1>3, Stops DEF FireTimer
    <2>. QED
        BY <1>1, <2>1 DEF Searches, RefundOwed, ByHand, Pending, Open, Excluded
<1>. QED
    BY <1>2, <1>3

(* No admin and no customer has a handler at work. *)
LEMMA NobodyCalls ==
    ASSUME SearchInv, NEW h \in Slots, Searches(run[h]), run'[h].at \notin ByHand,
           \/ AdminAccepts(h) \/ FindAsked(h)
           \/ CancelOrder(h) \/ WriteCancelled(h)
           \/ RestoreOrder(h) \/ RestorePayment(h) \/ Reopen(h) \/ FindOpen(h)
           \/ (\E v \in Vendors : ChangeVendor(h, v)) \/ FindOld(h) \/ AssignVendor(h)
    PROVE  FALSE
<1>1. ~FindAsked(h) /\ ~WriteCancelled(h) /\ ~RestorePayment(h) /\ ~Reopen(h)
    BY DEF Searches, ByHand, FindAsked, WriteCancelled, RestorePayment, Reopen, Goes
<1>2. ~FindOpen(h) /\ ~FindOld(h) /\ ~AssignVendor(h)
    BY DEF Searches, ByHand, FindOpen, FindOld, AssignVendor
<1>3. ~AdminAccepts(h) /\ ~CancelOrder(h)
    BY ComesTo DEF AdminAccepts, CancelOrder, ByHand
<1>4. ~RestoreOrder(h)
    <2>. SUFFICES ASSUME RestoreOrder(h) PROVE FALSE
        OBVIOUS
    <2>1. run'[h].at = "restorePay"
        BY NowAt DEF RestoreOrder
    <2>. QED
        BY <2>1 DEF ByHand
<1>5. ~\E v \in Vendors : ChangeVendor(h, v)
    <2>. SUFFICES ASSUME NEW v \in Vendors, ChangeVendor(h, v) PROVE FALSE
        OBVIOUS
    <2>1. run'[h].at = "findOld"
        BY TakesUp DEF ChangeVendor
    <2>. QED
        BY <2>1 DEF ByHand
<1>. QED
    BY <1>1, <1>2, <1>3, <1>4, <1>5

LEMMA SearchesStep ==
    ASSUME SearchInv, SearchesInv, [MCNext]_<<vars, history>>
    PROVE  SearchesInv'
<1>. DEFINE Goal == \E h \in Slots : AtWork(h)' /\ Searches(run[h])'
                                    /\ (whole' => RefundOwed(run[h])')
<1>. SUFFICES ASSUME alone', waterfall'
              PROVE  Goal
    BY DEF SearchesInv, AtWork
<1>1. alone /\ waterfall /\ (whole' => whole)
    <2>1. CASE UNCHANGED <<vars, history>>
        BY <2>1 DEF history
    <2>2. CASE MCNext
        <3>1. alone /\ waterfall
            BY <2>2 DEF MCNext
        <3>2. CASE whole' = whole
            BY <3>1, <3>2
        <3>3. CASE whole' = (whole /\ Quiet)
            <4>1. whole' => whole
                BY <3>3
            <4>. QED
                BY <3>1, <4>1
        <3>. QED
            BY <2>2, <3>2, <3>3 DEF MCNext
    <2>. QED
        BY <2>1, <2>2
<1>2. PICK h \in Slots : AtWork(h) /\ Searches(run[h]) /\ (whole => RefundOwed(run[h]))
    BY <1>1 DEF SearchesInv
<1>3. CASE UNCHANGED <<vars, history>>
    BY <1>2, <1>3
    DEF vars, history, AtWork, Searches, RefundOwed, Pending, Open, Excluded
<1>. SUFFICES ASSUME MCNext, NoOverlap', \A g \in Slots : run'[g].at \notin ByHand
              PROVE  Goal
    BY <1>3 DEF MCNext
<1>4. ASSUME NEW g \in Slots, Continue(g)
      PROVE  Goal
    <2>1. PICK x : Becomes(g, x) /\ run[g] # Idle
        BY <1>4, ContinueStarts
    <2>2. AtWork(g) /\ run[g] = run[h] /\ AtWork(g)'
        BY <1>2, <2>1, OneAtWork
    <2>3. Searches(run[g]) /\ (whole => RefundOwed(run[g])) /\ run'[g].at \notin ByHand
        BY <1>2, <2>2
    <2>4. Searches(run[g])' /\ (RefundOwed(run[g]) => RefundOwed(run[g])')
        BY <1>4, <2>3, WaterfallSearches, AnswerSearches, PaymentSearches, NobodyCalls
        DEF Continue
    <2>. QED
        BY <1>1, <2>2, <2>3, <2>4
<1>5. ASSUME NEW g \in Slots, Call(g)
      PROVE  Goal
    <2>1. PICK x : Becomes(g, x) /\ x # Idle
        BY <1>5, CallStarts
    <2>2. AtWork(g) /\ run[g] = run[h] /\ AtWork(g)'
        BY <1>2, <2>1, OneAtWork
    <2>3. Searches(run[g]) /\ (whole => RefundOwed(run[g])) /\ run'[g].at \notin ByHand
        BY <1>2, <2>2
    <2>4. Searches(run[g])' /\ (RefundOwed(run[g]) => RefundOwed(run[g])')
        BY <1>5, <2>3, AnswerSearches, PaymentSearches, NobodyCalls DEF Call
    <2>. QED
        BY <1>1, <2>2, <2>3, <2>4
<1>6. ASSUME NEW g \in Slots, NEW a \in DOMAIN attempts, FireTimer(g, a)
      PROVE  Goal
    <2>1. CASE run' = run
        <3>1. UNCHANGED <<order, payment, attempts, run>>
            BY <1>6, <2>1 DEF FireTimer
        <3>2. AtWork(h)' /\ Searches(run[h])' /\ (RefundOwed(run[h]) => RefundOwed(run[h])')
            BY <1>2, <3>1 DEF AtWork, Searches, RefundOwed, Pending, Open, Excluded
        <3>. QED
            BY <1>1, <1>2, <3>2
    <2>2. CASE run' # run
        <3>1. PICK x : Becomes(g, x)
            BY <1>6 DEF FireTimer
        <3>2. x # Idle
            BY <1>6, <2>2, <3>1 DEF FireTimer, Becomes, SearchInv, TypeOK
        <3>3. AtWork(g) /\ run[g] = run[h] /\ AtWork(g)'
            BY <1>2, <3>1, <3>2, OneAtWork
        <3>4. Searches(run[g]) /\ (whole => RefundOwed(run[g]))
            BY <1>2, <3>3
        <3>. QED
            BY <1>1, <1>6, <3>3, <3>4, TimerSearches
    <2>. QED
        BY <2>1, <2>2
<1>7. CASE MarkRefunded
    <2>1. /\ order'.status = order.status /\ payment' = "refunded"
          /\ UNCHANGED <<attempts, run>> /\ payment = "refund_pending"
        BY <1>7 DEF MarkRefunded
    <2>. QED
        BY <1>2, <2>1 DEF AtWork, Searches, RefundOwed, Pending, Open, Excluded
<1>8. CASE Restart /\ whole' = (whole /\ Quiet)
    <2>1. /\ run' = [k \in Slots |-> Idle]
          /\ UNCHANGED <<order, payment, attempts>>
        BY <1>8 DEF Restart
    <2>2. run'[h] = Idle /\ AtWork(h)'
        BY <2>1 DEF AtWork
    <2>3. Idle.at = "idle" /\ Idle.target = NoVendor
        BY DEF Idle, At, OnAttempt
    <2>4. Searches(run[h])'
        BY <1>2, <2>1, <2>2, <2>3 DEF Searches, ByHand, Pending, Open, Excluded
    <2>5. whole' => RefundOwed(run[h])'
        BY <1>2, <1>8, <2>1, <2>2 DEF RefundOwed, Quiet
    <2>. QED
        BY <2>2, <2>4, <2>5
<1>. QED
    BY <1>4, <1>5, <1>6, <1>7, <1>8 DEF MCNext, Proceed

LEMMA SearchesInit == MCInit => SearchesInv
<1>. SUFFICES ASSUME MCInit PROVE SearchesInv
    OBVIOUS
<1>1. PICK h \in Slots, first \in {At("satisfied"), Idle} :
          /\ run = [g \in Slots |-> IF g = h THEN first ELSE Idle]
          /\ order.status = "placed"
          /\ first.at = "satisfied" => payment = "pending_cod"
    BY DEF MCInit, Init, Idle, At, OnAttempt
<1>2. attempts = <<>> /\ Pending = {} /\ Open = {} /\ Excluded = {}
    BY DEF MCInit, Init, Pending, Open, Excluded
<1>3. run[h] = first /\ AtWork(h)
    BY <1>1 DEF AtWork
<1>4. first.at \in {"satisfied", "idle"} /\ first.target = NoVendor
    BY <1>1 DEF At, Idle, OnAttempt
<1>5. IsFiniteSet(Excluded) /\ Cardinality(Excluded) = Len(attempts)
    BY <1>2, FS_EmptySet
<1>6. Searches(run[h]) /\ RefundOwed(run[h])
    BY <1>1, <1>2, <1>3, <1>4, <1>5 DEF Searches, RefundOwed, ByHand
<1>. QED
    BY <1>3, <1>6 DEF SearchesInv

(* A waterfall of handlers that run one at a time to their end, never      *)
(* leaves an order failed and its payment taken or still expected.         *)
THEOREM GivenUpIsRefunded == MCSpec => []FailedIsRefundedAlone
<1>1. SearchesInv => FailedIsRefundedAlone
    <2>. SUFFICES ASSUME SearchesInv, alone, whole, waterfall, Quiet, order.status = "failed"
                  PROVE  payment \notin {"pending", "paid"}
        BY DEF FailedIsRefundedAlone, FailedIsRefunded
    <2>1. PICK h \in Slots : Searches(run[h]) /\ RefundOwed(run[h])
        BY DEF SearchesInv
    <2>2. run[h].at = "idle"
        BY DEF Quiet, Idle, At, OnAttempt
    <2>. QED
        BY <2>1, <2>2 DEF Searches, RefundOwed
<1>. QED
    BY <1>1, SearchesInit, SearchesStep, HistoryOnlyWatches, SearchInvariant, PTL DEF MCSpec

(* What VendorSearch sees of a step. *)
LEMMA StepsOfTheSearch ==
    ASSUME SearchInv, NEW h \in Slots, Searches(run[h]), run'[h].at \notin ByHand,
           \/ Continue(h) \/ Call(h)
           \/ \E a \in DOMAIN attempts : FireTimer(h, a)
    PROVE  Search!Next \/ UNCHANGED Search!searchVars
<1>. DEFINE Stutters == attempts' = attempts /\ order'.status = order.status
<1>1. Stutters => UNCHANGED Search!searchVars
    BY DEF Search!searchVars, Excluded
<1>2. CASE WriteTimeout(h) \/ WriteRejection(h)
    <2>1. PICK o \in {"timeout", "rejected"} :
              run[h].attempt \in Pending /\ SetOutcome(run[h].attempt, o)
        BY <1>2 DEF WriteTimeout, WriteRejection, Searches
    <2>2. Excluded' = Excluded /\ Open' = {} /\ order.status = "placed"
        BY <2>1, ResolvesSearch DEF Outcomes
    <2>3. order' = order
        BY <1>2 DEF WriteTimeout, WriteRejection
    <2>4. Search!Decline
        BY <2>2, <2>3 DEF Search!Decline, Open
    <2>. QED
        BY <2>4 DEF Search!Next
<1>3. CASE WriteAcceptance(h)
    <2>1. run[h].attempt \in Pending /\ SetOutcome(run[h].attempt, "accepted")
        BY <1>3 DEF WriteAcceptance, Searches
    <2>2. Excluded' = Excluded /\ Open' = {Len(attempts)} /\ attempts # <<>>
        BY <2>1, ResolvesSearch DEF Outcomes
    <2>3. /\ Pending \subseteq {Len(attempts)} /\ Open = {Len(attempts)}
          /\ Len(attempts) \in DOMAIN attempts /\ run[h].attempt = Len(attempts)
        BY <2>1 DEF Searches, Pending, Open
    <2>4. attempts'[Len(attempts)].vendor = attempts[Len(attempts)].vendor
        BY <2>1, <2>3, ResolvesTheLast DEF Outcomes
    <2>5. order' = order
        BY <1>3 DEF WriteAcceptance
    <2>6. {attempts'[a].vendor : a \in Open'} = {attempts[a].vendor : a \in Open}
        BY <2>2, <2>3, <2>4
    <2>. QED
        BY <2>2, <2>5, <2>6 DEF Search!searchVars, Open
<1>4. CASE CreateAttempt(h)
    <2>1. order.status = "placed" /\ run[h].vendor \notin Excluded /\ order' = order
        BY <1>4 DEF CreateAttempt, Searches
    <2>2. /\ Excluded' = Excluded \cup {run[h].vendor}
          /\ Cardinality(Excluded) < MaxAttempts
          /\ Open = {} /\ Open' = {Len(attempts')}
          /\ attempts'[Len(attempts')].vendor = run[h].vendor
        BY <1>4, CreatesSearch
    <2>3. PICK v \in Vendors : v = run[h].vendor
        BY <1>4 DEF CreateAttempt, SearchInv, Grounded
    <2>4. /\ {attempts[a].vendor : a \in Open} = {}
          /\ {attempts'[a].vendor : a \in Open'} = {v}
        BY <2>2, <2>3
    <2>5. Search!Cardinality(Excluded) = Cardinality(Excluded)
        BY DEF Search!Cardinality, Cardinality
    <2>6. Search!Offer(v)
        BY <2>1, <2>2, <2>3, <2>4, <2>5 DEF Search!Offer, Open
    <2>. QED
        BY <2>6 DEF Search!Next
<1>5. CASE MarkFailed(h)
    <2>1. /\ order.status = "placed" /\ Open = {} /\ attempts # <<>>
          /\ order'.status = "failed" /\ attempts' = attempts
        BY <1>5 DEF MarkFailed, Goes, SetStatus, Searches
    <2>2. Excluded # {}
        <3>1. Len(attempts) \in DOMAIN attempts
            BY <2>1 DEF SearchInv, TypeOK
        <3>. QED
            BY <3>1 DEF Excluded
    <2>3. Search!GiveUp
        BY <2>1, <2>2 DEF Search!GiveUp, Open, Excluded
    <2>. QED
        BY <2>3 DEF Search!Next
<1>6. CASE WriteAccepted(h)
    <2>1. /\ order.status = "placed" /\ Open # {}
          /\ order'.status = "vendor_accepted" /\ attempts' = attempts
        BY <1>6 DEF WriteAccepted, Goes, SetStatus, Searches
    <2>2. Search!Take
        BY <2>1 DEF Search!Take, Open, Excluded
    <2>. QED
        BY <2>2 DEF Search!Next
<1>7. CASE ReadOrder(h) \/ ChooseNext(h) \/ MoveOrder(h) \/ ArmTimer(h)
           \/ MarkRefundPendingIfPaid(h) \/ CheckPayment(h)
    <2>1. Stutters
        BY <1>7 DEF ReadOrder, ChooseNext, MoveOrder, ArmTimer, MarkRefundPendingIfPaid,
                    CheckPayment
    <2>. QED
        BY <1>1, <2>1
<1>8. CASE ConfirmPayment(h) \/ WritePaid(h) \/ GuardOrder(h)
           \/ HandlePaymentSatisfied(h) \/ ReadLatest(h)
    <2>1. Stutters
        BY <1>8 DEF ConfirmPayment, WritePaid, GuardOrder, HandlePaymentSatisfied, ReadLatest
    <2>. QED
        BY <1>1, <2>1
<1>9. ASSUME NEW a \in DOMAIN attempts,
             VendorRejects(h, a) \/ VendorAccepts(h, a) \/ FireTimer(h, a)
      PROVE  UNCHANGED Search!searchVars
    <2>1. Stutters
        BY <1>9 DEF VendorRejects, VendorAccepts, FireTimer
    <2>. QED
        BY <1>1, <2>1
<1>. QED
    BY <1>2, <1>3, <1>4, <1>5, <1>6, <1>7, <1>8, <1>9, NobodyCalls DEF Continue, Call

(* Left to vendors and timers, one handler at a time, every step of the    *)
(* search is one that VendorSearch allows or a stutter, whatever a restart *)
(* cuts short: nobody is asked twice or while another holds the order, at  *)
(* most MaxAttempts are asked, and only the holder takes it.               *)
THEOREM SearchImplemented == MCSpec => SearchSpecAlone
<1>1. MCInit => Search!Init
    <2>1. ASSUME MCInit
          PROVE  attempts = <<>> /\ DOMAIN attempts = {} /\ order.status = "placed"
        BY <2>1 DEF MCInit, Init
    <2>. QED
        BY <2>1 DEF Search!Init, Excluded
<1>2. SearchInv /\ SearchesInv /\ [MCNext]_<<vars, history>>
          => [alone' /\ waterfall' => Search!Next]_<<Search!searchVars>>
    <2>. SUFFICES ASSUME SearchInv, SearchesInv, [MCNext]_<<vars, history>>,
                         alone', waterfall', ~UNCHANGED <<Search!searchVars>>
                  PROVE  Search!Next
        OBVIOUS
    <2>1. CASE UNCHANGED <<vars, history>>
        BY <2>1 DEF vars, Search!searchVars, Excluded
    <2>2. CASE MCNext
        <3>1. NoOverlap' /\ (\A g \in Slots : run'[g].at \notin ByHand) /\ alone /\ waterfall
            BY <2>2 DEF MCNext
        <3>2. PICK h \in Slots : AtWork(h) /\ Searches(run[h])
            BY <3>1 DEF SearchesInv
        <3>3. ASSUME NEW g \in Slots, NEW x, Becomes(g, x), run[g] # Idle \/ x # Idle
              PROVE  Searches(run[g])
            BY <3>1, <3>2, <3>3, OneAtWork
        <3>4. ASSUME NEW g \in Slots, Continue(g) \/ Call(g)
              PROVE  Search!Next
            <4>1. Searches(run[g])
                BY <3>3, <3>4, ContinueStarts, CallStarts
            <4>. QED
                BY <3>1, <3>4, <4>1, StepsOfTheSearch
        <3>5. ~\E g \in Slots : \E a \in DOMAIN attempts : FireTimer(g, a)
            BY DEF FireTimer, Search!searchVars, Excluded
        <3>6. ~MarkRefunded
            BY DEF MarkRefunded, Search!searchVars, Excluded
        <3>7. ~Restart
            BY DEF Restart, Search!searchVars, Excluded
        <3>. QED
            BY <2>2, <3>4, <3>5, <3>6, <3>7 DEF MCNext, Proceed
    <2>. QED
        BY <2>1, <2>2
<1>. QED
    BY <1>1, <1>2, SearchesInit, SearchesStep, HistoryOnlyWatches, SearchInvariant, PTL
    DEF MCSpec, SearchSpecAlone
=============================================================================
