---------------------------- MODULE OrderPayment ----------------------------
(***************************************************************************)
(* The money of one order (PaymentService with the wallet operations it    *)
(* calls): the customer pays from the wallet, by UPI, cash on delivery, or *)
(* part from the wallet and the rest by UPI or cash; the admin reconciles, *)
(* cancelling gives the money back, restoring takes the order up again.    *)
(* Meanwhile the vendor search may move the order to a vendor with other   *)
(* prices, which rewrites its total (AllocationService.reallocate).        *)
(*                                                                         *)
(* Every awaited query is an action, except that two reads of rows that    *)
(* nothing else writes in between, and the queries of one database         *)
(* transaction, are one.  A call refused by its first reads changes        *)
(* nothing and is a stuttering step.  Amounts are in rupees.  The order is *)
(* "placed" until it is delivered or cancelled ("failed" is treated alike).*)
(***************************************************************************)
EXTENDS Integers, Sequences

CONSTANTS
    Sessions,      \* calls of the API that may be in progress at once
    Prices,        \* what the order costs at the vendors, in the order they are tried
    Balances,      \* what the customer's wallet may hold at checkout
    MaxRows,       \* bound on the payments rows of the order
    MaxTaken,      \* no payment starts once the wallet was debited this much
    Calls          \* which calls a run makes

ASSUME PaymentAssumption ==
    /\ Prices \in Seq(Nat \ {0}) /\ Prices # <<>>
    /\ Balances \subseteq Nat
    /\ MaxRows \in Nat
    /\ MaxTaken \in Nat

VARIABLES
    status,     \* the order's status
    column,     \* the order's paymentStatus column
    walletPart, \* the order's walletAmount column
    vendor,     \* which of the vendors has the order
    rows,       \* the payments rows of the order, oldest first
    balance,    \* wallets.balance
    paid,       \* sum of the order's order_payment transactions
    refunded,   \* sum of its order_refund transactions
    call        \* [Sessions -> where its call is and what it has read]

orderVars == <<status, column, walletPart, vendor>>
ledgerVars == <<balance, paid, refunded>>
vars == <<orderVars, rows, ledgerVars, call>>

PaymentStatuses == {"pending", "paid", "pending_cod", "collected", "failed",
                    "refund_pending", "refunded"}
Providers == {"upi", "cod", "wallet"}
Methods == {"online", "cod", "wallet"}
Payment == [provider: Providers, status: PaymentStatuses, amount: Nat]

Steps == {"idle", "drop", "giveBack", "credit", "clear", "choose", "debitAll",
          "writeTx", "readBalance", "debitPart", "insert", "record",
          "write", "setColumn", "checkWallet", "cancel", "refund", "refundRow",
          "creditAll", "writeRefundTx", "restorePayment", "restoreColumn",
          "reopen", "collect"}

(* at: the next step; then: the step after the wallet part was given back  *)
(* or the column written; row, amount, result, total: what the call has    *)
(* read.                                                                   *)
Execution == [at: Steps, then: Steps, method: Methods, useWallet: BOOLEAN,
              row: Nat, amount: Nat, result: PaymentStatuses, total: Nat]

Idle == [at |-> "idle", then |-> "idle", method |-> "online", useWallet |-> FALSE,
         row |-> 0, amount |-> 0, result |-> "pending", total |-> 0]

TypeOK ==
    /\ status \in {"placed", "delivered", "cancelled"}
    /\ column \in PaymentStatuses
    /\ walletPart \in Nat /\ vendor \in DOMAIN Prices
    /\ rows \in Seq(Payment)
    /\ balance \in Int /\ paid \in Nat /\ refunded \in Nat
    /\ call \in [Sessions -> Execution]

Init ==
    /\ status = "placed"
    /\ column = "pending"
    /\ walletPart = 0 /\ vendor = 1
    /\ rows = <<>>
    /\ balance \in Balances
    /\ paid = 0
    /\ refunded = 0
    /\ call = [s \in Sessions |-> Idle]

(* order.total *)
total == Prices[vendor]

Becomes(s, x) == call' = [call EXCEPT ![s] = x]
Starts(s, c, x) == c \in Calls /\ call[s] = Idle /\ Becomes(s, x)
At(s, p) == call[s].at = p
Goes(s, q) == Becomes(s, [call[s] EXCEPT !.at = q])

Latest == Len(rows)
Live(st) == st # "failed"

(* UPDATE payments SET status = st WHERE id = i *)
SetRow(i, st) == rows' = [rows EXCEPT ![i].status = st]

AddRow(provider, st, amount) ==
    /\ Len(rows) < MaxRows
    /\ rows' = Append(rows, [provider |-> provider, status |-> st, amount |-> amount])

-----------------------------------------------------------------------------
(* refundWalletPortion: give the wallet back what it still holds for the   *)
(* order, and go on with the step named in "then".                         *)

Net == paid - refunded

GiveBack(s) ==
    /\ At(s, "giveBack")
    /\ Becomes(s, IF Net > 0 THEN [call[s] EXCEPT !.at = "credit", !.amount = Net]
                  ELSE [call[s] EXCEPT !.at = call[s].then, !.amount = 0])
    /\ UNCHANGED <<orderVars, rows, ledgerVars>>

Credit(s) ==
    /\ At(s, "credit")
    /\ balance' = balance + call[s].amount
    /\ refunded' = refunded + call[s].amount
    /\ Goes(s, "clear")
    /\ UNCHANGED <<orderVars, rows, paid>>

ClearWalletPart(s) ==
    /\ At(s, "clear")
    /\ walletPart' = 0
    /\ Becomes(s, IF call[s].then = "idle" THEN Idle
                  ELSE [call[s] EXCEPT !.at = call[s].then, !.amount = 0])
    /\ UNCHANGED <<status, column, vendor, rows, ledgerVars>>

-----------------------------------------------------------------------------
(* initiate(type, orderId, customerId, method, useWallet) *)

(* The total is read with the order, once, at the start.  Whoever pays     *)
(* from the wallet alone is not asked whether to use it.                   *)
Paying(m, w) ==
    [Idle EXCEPT !.at = "choose", !.method = m, !.total = total,
                 !.useWallet = w /\ m # "wallet"]

(* A payment that is under way is returned as it is, unless the customer   *)
(* left the UPI app and now picks another method.                          *)
Reusable(i, m) == Live(rows[i].status) /\ ~(rows[i].status = "pending" /\ m # "online")

Initiate(s) ==
    \E m \in Methods, w \in BOOLEAN :
        LET existing == rows # <<>> /\ Live(rows[Latest].status) IN
        /\ paid <= MaxTaken
        /\ existing => ~Reusable(Latest, m)
        /\ Starts(s, "initiate",
                  IF existing THEN [Paying(m, w) EXCEPT !.at = "drop", !.row = Latest,
                                                        !.then = "choose"]
                  ELSE Paying(m, w))
        /\ UNCHANGED <<orderVars, rows, ledgerVars>>

(* Mutant: UPDATE ... WHERE id = ? *)
DroppableAlways(i) == TRUE

(* UPDATE ... WHERE id = ? AND status = 'pending' *)
Droppable(i) == rows[i].status = "pending"

(* Mutant: the abandoned payment is left as it is. *)
DropNothing(s) ==
    /\ At(s, "drop")
    /\ Goes(s, "giveBack")
    /\ UNCHANGED <<orderVars, rows, ledgerVars>>

DropAbandoned(s) ==
    /\ At(s, "drop")
    /\ \/ /\ Droppable(call[s].row)
          /\ SetRow(call[s].row, "failed")
          /\ Goes(s, "giveBack")
       \/ /\ ~Droppable(call[s].row)
          /\ Becomes(s, Idle)
          /\ UNCHANGED rows
    /\ UNCHANGED <<orderVars, ledgerVars>>

(* A wallet that covers everything pays everything. *)
ChooseMethod(s) ==
    LET c == call[s]
        fromWallet == c.method = "wallet" \/ (c.useWallet /\ balance >= c.total)
    IN  /\ At(s, "choose")
        /\ Becomes(s, IF fromWallet
                      THEN IF balance < c.total THEN Idle
                           ELSE [Idle EXCEPT !.at = "debitAll", !.method = "wallet",
                                               !.total = c.total]
                      ELSE [c EXCEPT !.at = IF c.useWallet THEN "readBalance" ELSE "insert",
                                     !.then = "idle", !.row = 0, !.amount = 0])
        /\ UNCHANGED <<orderVars, rows, ledgerVars>>

(* Mutant: the balance is not looked at again. *)
CoversAnything(amount) == TRUE

(* UPDATE wallets SET balance = balance - amount WHERE balance >= amount *)
Covers(amount) == balance >= amount

DebitAll(s) ==
    /\ At(s, "debitAll")
    /\ \/ /\ Covers(call[s].total)
          /\ balance' = balance - call[s].total
          /\ Goes(s, "writeTx")
       \/ ~Covers(call[s].total) /\ Becomes(s, Idle) /\ UNCHANGED balance
    /\ UNCHANGED <<orderVars, rows, paid, refunded>>

WriteTransaction(s) ==
    /\ At(s, "writeTx")
    /\ paid' = paid + call[s].total
    /\ Becomes(s, [call[s] EXCEPT !.at = "insert", !.amount = call[s].total])
    /\ UNCHANGED <<orderVars, rows, balance, refunded>>

(* debitCustomerForOrder: what the wallet has, then one transaction. *)
FromWallet(s) == IF balance < call[s].total THEN balance ELSE call[s].total

ReadBalance(s) ==
    /\ At(s, "readBalance")
    /\ Becomes(s, IF FromWallet(s) <= 0 THEN [call[s] EXCEPT !.at = "insert"]
                  ELSE [call[s] EXCEPT !.at = "debitPart", !.amount = FromWallet(s)])
    /\ UNCHANGED <<orderVars, rows, ledgerVars>>

DebitPart(s) ==
    /\ At(s, "debitPart")
    /\ \/ /\ Covers(call[s].amount)
          /\ balance' = balance - call[s].amount
          /\ paid' = paid + call[s].amount
          /\ Goes(s, "insert")
       \/ ~Covers(call[s].amount) /\ Becomes(s, Idle) /\ UNCHANGED <<balance, paid>>
    /\ UNCHANGED <<orderVars, rows, refunded>>

(* Mutant: the wallet part is not subtracted. *)
PayableInFull(s) == call[s].total

(* amount: what the wallet gave; the row is for the rest. *)
Payable(s) == call[s].total - call[s].amount

InsertPayment(s) ==
    LET m == call[s].method
        st == CASE m = "wallet" -> "paid" [] m = "cod" -> "pending_cod" [] m = "online" -> "pending"
    IN  /\ At(s, "insert")
        /\ AddRow(CASE m = "wallet" -> "wallet" [] m = "cod" -> "cod" [] m = "online" -> "upi",
                  st, IF m = "wallet" THEN call[s].total ELSE Payable(s))
        /\ Becomes(s, [call[s] EXCEPT !.at = "record", !.result = st, !.total = 0])
        /\ UNCHANGED <<orderVars, ledgerVars>>

(* The online provider throws: the wallet part goes back. *)
ProviderFails(s) ==
    /\ "providerFails" \in Calls
    /\ At(s, "insert")
    /\ call[s].method = "online"
    /\ Becomes(s, IF call[s].amount > 0 THEN [Idle EXCEPT !.at = "giveBack"] ELSE Idle)
    /\ UNCHANGED <<orderVars, rows, ledgerVars>>

(* The end of initiate: both columns of the order. *)
RecordPayment(s) ==
    /\ At(s, "record")
    /\ column' = call[s].result
    /\ walletPart' = call[s].amount
    /\ Becomes(s, Idle)
    /\ UNCHANGED <<status, vendor, rows, ledgerVars>>

(* setOrderPaymentStatus as the other calls use it *)
SetColumn(s) ==
    /\ At(s, "setColumn")
    /\ column' = call[s].result
    /\ Becomes(s, [Idle EXCEPT !.at = call[s].then])
    /\ UNCHANGED <<status, walletPart, vendor, rows, ledgerVars>>

-----------------------------------------------------------------------------
(* confirmByCustomer, reconcile, markRefunded: read the row, UPDATE it by  *)
(* its id, then write the order's column.                                  *)

Writing(i, st) == [Idle EXCEPT !.at = "write", !.row = i, !.result = st]

ConfirmByCustomer(s) ==
    /\ rows # <<>>
    /\ rows[Latest].provider # "cod"
    /\ rows[Latest].status = "pending"
    /\ Starts(s, "confirm", Writing(Latest, "paid"))
    /\ UNCHANGED <<orderVars, rows, ledgerVars>>

Reconcile(s) ==
    /\ \E i \in DOMAIN rows :
          /\ rows[i].status = "pending"
          /\ \/ Starts(s, "reconcile", Writing(i, "paid"))
             \/ Starts(s, "reconcileFailed", [Writing(i, "failed") EXCEPT !.then = "checkWallet"])
    /\ UNCHANGED <<orderVars, rows, ledgerVars>>

MarkRefunded(s) ==
    /\ \E i \in DOMAIN rows :
          rows[i].status = "refund_pending" /\ Starts(s, "markRefunded", Writing(i, "refunded"))
    /\ UNCHANGED <<orderVars, rows, ledgerVars>>

WriteRow(s) ==
    /\ At(s, "write")
    /\ SetRow(call[s].row, call[s].result)
    /\ Goes(s, "setColumn")
    /\ UNCHANGED <<orderVars, ledgerVars>>

(* reconcile(failed) gives the wallet part back. *)
CheckWalletPart(s) ==
    /\ At(s, "checkWallet")
    /\ Becomes(s, IF walletPart > 0 THEN [Idle EXCEPT !.at = "giveBack"] ELSE Idle)
    /\ UNCHANGED <<orderVars, rows, ledgerVars>>

-----------------------------------------------------------------------------
(* cancelOrder, cancelOrderForCustomer, markFailed: write the status, then *)
(* markRefundPendingIfPaid.                                                *)

Cancel(s) ==
    /\ status = "placed"
    /\ Starts(s, "cancel", [Idle EXCEPT !.at = "cancel"])
    /\ UNCHANGED <<orderVars, rows, ledgerVars>>

WriteCancelled(s) ==
    /\ At(s, "cancel")
    /\ status' = "cancelled"
    /\ Goes(s, "refund")
    /\ UNCHANGED <<column, walletPart, vendor, rows, ledgerVars>>

(* Mutant: a cash part that is still open is forgotten. *)
HasWalletPartIfPaid(row) ==
    row.provider # "wallet" /\ row.status = "paid" /\ walletPart > 0

HasWalletPart(row) ==
    /\ row.provider # "wallet"
    /\ row.status \in {"paid", "pending", "pending_cod"}
    /\ walletPart > 0

(* What it read of the payment is not read again. *)
MarkRefundPendingIfPaid(s) ==
    /\ At(s, "refund")
    /\ IF rows = <<>> THEN Becomes(s, Idle)
       ELSE Becomes(s, [Idle EXCEPT
                 !.at = IF HasWalletPart(rows[Latest]) THEN "giveBack" ELSE "refundRow",
                 !.then = "refundRow", !.row = Latest, !.result = rows[Latest].status])
    /\ UNCHANGED <<orderVars, rows, ledgerVars>>

RefundRow(s) ==
    LET i == call[s].row IN
    /\ At(s, "refundRow")
    /\ Becomes(s, IF call[s].result # "paid" THEN Idle
                  ELSE IF rows[i].provider = "wallet"
                  THEN [Idle EXCEPT !.at = "creditAll", !.row = i, !.amount = rows[i].amount]
                  ELSE Writing(i, "refund_pending"))
    /\ UNCHANGED <<orderVars, rows, ledgerVars>>

(* A payment made from the wallet alone goes back without a transaction    *)
(* around the two writes.                                                  *)
CreditAll(s) ==
    /\ At(s, "creditAll")
    /\ balance' = balance + call[s].amount
    /\ Goes(s, "writeRefundTx")
    /\ UNCHANGED <<orderVars, rows, paid, refunded>>

WriteRefundTransaction(s) ==
    /\ At(s, "writeRefundTx")
    /\ refunded' = refunded + call[s].amount
    /\ Becomes(s, Writing(call[s].row, "refunded"))
    /\ UNCHANGED <<orderVars, rows, balance, paid>>

-----------------------------------------------------------------------------
(* restoreOrder: restorePaymentStatusIfRestored, then the order row with   *)
(* the payment status it read at the start.                                *)

RestoreOrder(s) ==
    /\ status = "cancelled"
    /\ Starts(s, "restore", [Idle EXCEPT !.at = "restorePayment", !.result = column])
    /\ UNCHANGED <<orderVars, rows, ledgerVars>>

RestorePayment(s) ==
    /\ At(s, "restorePayment")
    /\ IF rows # <<>> /\ rows[Latest].status = "refund_pending"
       THEN SetRow(Latest, "paid") /\ Goes(s, "restoreColumn")
       ELSE UNCHANGED rows /\ Goes(s, "reopen")
    /\ UNCHANGED <<orderVars, ledgerVars>>

RestoreColumn(s) ==
    /\ At(s, "restoreColumn")
    /\ column' = "paid"
    /\ Goes(s, "reopen")
    /\ UNCHANGED <<status, walletPart, vendor, rows, ledgerVars>>

Reopen(s) ==
    /\ At(s, "reopen")
    /\ status' = "placed"
    /\ column' = IF call[s].result = "refund_pending" THEN "paid" ELSE call[s].result
    /\ Becomes(s, Idle)
    /\ UNCHANGED <<walletPart, vendor, rows, ledgerVars>>

-----------------------------------------------------------------------------
(* completeDelivery calls markCodCollected. *)

Deliver(s) ==
    /\ status = "placed"
    /\ Starts(s, "deliver", [Idle EXCEPT !.at = "collect"])
    /\ status' = "delivered"
    /\ UNCHANGED <<column, walletPart, vendor, rows, ledgerVars>>

MarkCodCollected(s) ==
    /\ At(s, "collect")
    /\ Becomes(s, IF rows # <<>> /\ rows[Latest].provider = "cod"
                  THEN Writing(Latest, "collected") ELSE Idle)
    /\ UNCHANGED <<orderVars, rows, ledgerVars>>

-----------------------------------------------------------------------------
(* AllocationService.reallocate reads the order while it is placed, and    *)
(* some queries later gives it, by its id, the next vendor and a total of  *)
(* that vendor's prices: the order may have been paid for, delivered or    *)
(* cancelled since, and nobody looks at what was paid.  It leaves out the  *)
(* vendors asked before.                                                   *)
Reallocate ==
    /\ "reallocate" \in Calls
    /\ vendor + 1 \in DOMAIN Prices
    /\ vendor' = vendor + 1
    /\ UNCHANGED <<status, column, walletPart, rows, ledgerVars, call>>

-----------------------------------------------------------------------------
Call(s) ==
    \/ Initiate(s) \/ ConfirmByCustomer(s) \/ Reconcile(s) \/ MarkRefunded(s)
    \/ Cancel(s) \/ RestoreOrder(s) \/ Deliver(s)

Continue(s) ==
    \/ GiveBack(s) \/ Credit(s) \/ ClearWalletPart(s)
    \/ DropAbandoned(s) \/ ChooseMethod(s)
    \/ DebitAll(s) \/ WriteTransaction(s) \/ ReadBalance(s) \/ DebitPart(s)
    \/ InsertPayment(s) \/ ProviderFails(s) \/ RecordPayment(s)
    \/ WriteRow(s) \/ SetColumn(s) \/ CheckWalletPart(s)
    \/ WriteCancelled(s) \/ MarkRefundPendingIfPaid(s) \/ RefundRow(s)
    \/ CreditAll(s) \/ WriteRefundTransaction(s)
    \/ RestorePayment(s) \/ RestoreColumn(s) \/ Reopen(s)
    \/ MarkCodCollected(s)

Next == (\E s \in Sessions : Call(s) \/ Continue(s)) \/ Reallocate

Spec == Init /\ [][Next]_vars

-----------------------------------------------------------------------------
(* Properties *)

Quiet == \A s \in Sessions : call[s] = Idle

(* "two requests at once can't overdraw the wallet": however payments,     *)
(* refunds and cancellations overlap, the balance never goes below zero.   *)
NeverNegative == balance >= 0

ReconcilesAsFailed(i) ==
    \E s \in Sessions : At(s, "write") /\ call[s].row = i /\ call[s].result = "failed"

(* "Only drops it while still pending, so a payment confirmed meanwhile    *)
(* wins": a customer who changes the method never undoes a paid payment;   *)
(* only the admin who reconciles it as failed does.                        *)
PaidStays ==
    [][\A i \in DOMAIN rows :
          rows[i].status = "paid" /\ rows'[i].status = "failed" => ReconcilesAsFailed(i)]_vars

RowMoney == IF rows[Latest].provider = "wallet" THEN 0 ELSE rows[Latest].amount

(* The money adds up: an order a vendor may accept is covered by what the  *)
(* wallet gave and what its latest payment brings in.                      *)
Covered(amount) ==
    Quiet /\ status = "placed" /\ column \in {"paid", "pending_cod"} => Net + RowMoney = amount

FullyPaid == Covered(total)

(* "Retrying the same way reuses the payment": between calls at most one   *)
(* payment of the order is alive.                                          *)
OneLivePayment ==
    Quiet => \A i, j \in DOMAIN rows :
        Live(rows[i].status) /\ Live(rows[j].status) => i = j

(* When a cancellation has run to its end, the wallet has its part back    *)
(* and no payment is left as paid.                                         *)
CancelEnds(s) ==
    /\ \/ call[s].at \in {"refund", "refundRow"}
       \/ call[s].at = "setColumn" /\ call[s].result \in {"refund_pending", "refunded"}
    /\ status = "cancelled"
    /\ call'[s] = Idle

(* "Puts back whatever the wallet still holds for this order": never more  *)
(* than the order took from it.                                            *)
NotOverRefunded == refunded <= paid
=============================================================================
