------------------------- MODULE OrderPaymentProofs -------------------------
(***************************************************************************)
(* Proofs about the money of one order for any prices, any wallet, any     *)
(* number of calls at once and of payments.                                *)
(***************************************************************************)
EXTENDS MCOrderPayment, TLAPS

-----------------------------------------------------------------------------
(* The inductive invariant of all behaviours: types, the balance, and what *)
(* a call relies on.                                                       *)

UsesRow == {"drop", "write", "refundRow", "creditAll", "writeRefundTx"}
Giving == {"giveBack", "credit", "clear"}

(* The row a call is about to use exists, the wallet's part is at most the *)
(* total when the rest is computed, and a call that gives back or writes   *)
(* goes on with a step it has prepared.                                    *)
Grounded(c) ==
    /\ c.at \in UsesRow => c.row \in DOMAIN rows
    /\ c.at \in Giving \cup {"drop"} =>
          /\ c.then \in {"idle", "choose", "refundRow"}
          /\ c.then = "refundRow" => c.row \in DOMAIN rows
    /\ c.at \in {"write", "setColumn"} => c.then \in {"idle", "checkWallet"}
    /\ c.at \in {"readBalance", "debitPart", "insert"} => c.amount <= c.total

PayInv ==
    /\ TypeOK
    /\ NeverNegative
    /\ \A s \in Sessions : Grounded(call[s])

(* The facts every case below starts from. *)
LEMMA Known ==
    ASSUME PayInv, NEW s \in Sessions
    PROVE  /\ call[s] \in Execution /\ Grounded(call[s])
           /\ call[s].at \in Steps /\ call[s].then \in Steps
           /\ call[s].method \in Methods /\ call[s].useWallet \in BOOLEAN
           /\ call[s].row \in Nat /\ call[s].amount \in Nat
           /\ call[s].result \in PaymentStatuses
           /\ status \in {"placed", "delivered", "cancelled"}
           /\ column \in PaymentStatuses
           /\ walletPart \in Nat /\ balance \in Nat /\ paid \in Nat /\ refunded \in Nat
           /\ rows \in Seq(Payment) /\ DOMAIN rows = 1 .. Latest /\ Latest \in Nat
           /\ \A i \in DOMAIN rows : rows[i] \in Payment
           /\ call[s].total \in Nat /\ total \in Nat
BY PaymentAssumption DEF PayInv, TypeOK, NeverNegative, Execution, Latest, total

LEMMA IdleIsGrounded == Idle \in Execution /\ Grounded(Idle)
BY DEF Idle, Execution, Grounded, Steps, Methods, PaymentStatuses, UsesRow, Giving

(* A step of one call that leaves the payments alone. *)
LEMMA CallStep ==
    ASSUME PayInv, NEW s \in Sessions, NEW x \in Execution, Grounded(x),
           Becomes(s, x), UNCHANGED rows,
           status' \in {"placed", "delivered", "cancelled"},
           column' \in PaymentStatuses, walletPart' \in Nat,
           balance' \in Nat, paid' \in Nat, refunded' \in Nat, UNCHANGED vendor
    PROVE  PayInv'
<1>1. TypeOK' /\ NeverNegative'
    BY DEF PayInv, TypeOK, NeverNegative, Becomes
<1>2. ASSUME NEW t \in Sessions PROVE Grounded(call[t])'
    BY <1>2 DEF PayInv, TypeOK, Becomes, Grounded
<1>. QED
    BY <1>1, <1>2 DEF PayInv

(* A step that only moves a call on. *)
LEMMA MoveStep ==
    ASSUME PayInv, NEW s \in Sessions, NEW x \in Execution, Grounded(x),
           Becomes(s, x), UNCHANGED <<orderVars, rows, ledgerVars>>
    PROVE  PayInv'
BY CallStep, Known DEF orderVars, ledgerVars

(* A step that writes the status of a payment or adds one. *)
LEMMA RowStep ==
    ASSUME PayInv, NEW s \in Sessions, NEW x \in Execution, Grounded(x),
           Becomes(s, x), rows' \in Seq(Payment), DOMAIN rows \subseteq DOMAIN rows',
           UNCHANGED <<orderVars, ledgerVars>>
    PROVE  PayInv'
<1>1. TypeOK' /\ NeverNegative'
    BY DEF PayInv, TypeOK, NeverNegative, Becomes, orderVars, ledgerVars
<1>2. ASSUME NEW t \in Sessions PROVE Grounded(call[t])'
    BY <1>2 DEF PayInv, TypeOK, Becomes, Grounded
<1>. QED
    BY <1>1, <1>2 DEF PayInv

LEMMA StatusWritten ==
    ASSUME PayInv, NEW i \in DOMAIN rows, NEW st \in PaymentStatuses, SetRow(i, st)
    PROVE  /\ rows' \in Seq(Payment)
           /\ DOMAIN rows' = DOMAIN rows /\ Len(rows') = Len(rows)
           /\ rows'[i].status = st
           /\ \A j \in DOMAIN rows : j # i => rows'[j] = rows[j]
<1>1. rows \in Seq(Payment) /\ rows[i] \in Payment
    BY DEF PayInv, TypeOK
<1>2. [provider |-> rows[i].provider, status |-> st, amount |-> rows[i].amount] \in Payment
    BY <1>1 DEF Payment
<1>3. rows' = [rows EXCEPT ![i] =
          [provider |-> rows[i].provider, status |-> st, amount |-> rows[i].amount]]
    <2>1. [rows[i] EXCEPT !.status = st] =
              [provider |-> rows[i].provider, status |-> st, amount |-> rows[i].amount]
        BY <1>1 DEF Payment
    <2>. QED
        BY <2>1 DEF SetRow
<1>4. rows' \in Seq(Payment) /\ DOMAIN rows' = DOMAIN rows
    BY <1>1, <1>2, <1>3
<1>5. Len(rows') = Len(rows)
    BY <1>1, <1>4
<1>. QED
    BY <1>1, <1>3, <1>4, <1>5

LEMMA RowAdded ==
    ASSUME PayInv, NEW p \in Providers, NEW st \in PaymentStatuses, NEW n \in Nat,
           AddRow(p, st, n)
    PROVE  /\ rows' \in Seq(Payment)
           /\ Len(rows') = Len(rows) + 1
           /\ DOMAIN rows' = DOMAIN rows \cup {Len(rows) + 1}
           /\ \A j \in DOMAIN rows : rows'[j] = rows[j]
<1>1. rows \in Seq(Payment) /\ [provider |-> p, status |-> st, amount |-> n] \in Payment
    BY DEF PayInv, TypeOK, Payment
<1>. QED
    BY <1>1 DEF AddRow

LEMMA WritingIsGrounded ==
    ASSUME NEW i \in DOMAIN rows, NEW st \in PaymentStatuses, i \in Nat
    PROVE  /\ Writing(i, st) \in Execution /\ Grounded(Writing(i, st))
           /\ Writing(i, st).at = "write" /\ Writing(i, st).then = "idle"
           /\ Writing(i, st).row = i /\ Writing(i, st).result = st
<1> DEFINE x == Writing(i, st)
<1>1. /\ x \in Execution /\ x.at = "write" /\ x.then = "idle"
      /\ x.row = i /\ x.result = st
    BY DEF Writing, Idle, Execution, Steps, Methods, PaymentStatuses
<1>. HIDE DEF x
<1>2. Grounded(x)
    BY <1>1 DEF Grounded, UsesRow, Giving
<1>. QED
    BY <1>1, <1>2 DEF x

(* The steps of refundWalletPortion. *)
LEMMA GiveBackStep ==
    ASSUME PayInv, NEW s \in Sessions, GiveBack(s) \/ Credit(s) \/ ClearWalletPart(s)
    PROVE  PayInv'
<1> DEFINE c == call[s]
           onward == [c EXCEPT !.at = c.then, !.amount = 0]
<1>0. c \in Execution /\ Grounded(c) /\ c.amount \in Nat /\ c.then \in Steps
      /\ balance \in Nat /\ refunded \in Nat /\ Net \in Int
    BY Known DEF Net
<1>1. ASSUME c.at \in Giving PROVE onward \in Execution /\ Grounded(onward)
    <2>1. onward \in Execution /\ onward.at = c.then /\ onward.then = c.then
          /\ onward.row = c.row /\ onward.amount = 0
        BY <1>0 DEF Execution
    <2>. HIDE DEF onward
    <2>. QED
        BY <1>0, <1>1, <2>1, PaymentAssumption DEF Grounded, UsesRow, Giving
<1>2. CASE GiveBack(s)
    <2>1. CASE Net > 0
        <3> DEFINE x == [c EXCEPT !.at = "credit", !.amount = Net]
        <3>1. Net \in Nat /\ "credit" \in Steps
            BY <1>0, <2>1 DEF Steps
        <3>2. x \in Execution /\ x.at = "credit" /\ x.then = c.then /\ x.row = c.row
            BY <1>0, <3>1 DEF Execution
        <3>3. Becomes(s, x)
            BY <1>2, <2>1 DEF GiveBack
        <3>. HIDE DEF x
        <3>4. Grounded(x)
            BY <1>0, <1>2, <3>2 DEF GiveBack, At, Grounded, UsesRow, Giving
        <3>. QED
            BY <1>2, <3>2, <3>3, <3>4, MoveStep DEF GiveBack
    <2>2. CASE ~(Net > 0)
        BY <1>1, <1>2, <2>2, MoveStep DEF GiveBack, At, Giving
    <2>. QED
        BY <2>1, <2>2
<1>3. CASE Credit(s)
    <2> DEFINE x == [c EXCEPT !.at = "clear"]
    <2>1. x \in Execution /\ x.at = "clear" /\ x.then = c.then /\ x.row = c.row
        BY <1>0 DEF Execution, Steps
    <2>2. Becomes(s, x)
        BY <1>3 DEF Credit, Goes
    <2>. HIDE DEF x
    <2>3. Grounded(x)
        BY <1>0, <1>3, <2>1 DEF Credit, At, Grounded, UsesRow, Giving
    <2>4. balance' \in Nat /\ refunded' \in Nat
        BY <1>0, <1>3 DEF Credit
    <2>. QED
        BY <1>3, <2>1, <2>2, <2>3, <2>4, CallStep, Known DEF Credit, orderVars
<1>4. CASE ClearWalletPart(s)
    <2>1. \E x \in Execution : Grounded(x) /\ Becomes(s, x)
        BY <1>1, <1>4, IdleIsGrounded DEF ClearWalletPart, At, Giving
    <2>. QED
        BY <1>4, <2>1, CallStep, Known DEF ClearWalletPart, ledgerVars
<1>. QED
    BY <1>2, <1>3, <1>4

(* Most steps need nothing of what a call has read. *)
Free == {"idle", "choose", "debitAll", "writeTx", "record", "checkWallet", "cancel",
         "refund", "restorePayment", "restoreColumn", "reopen", "collect"}

LEMMA FreeIsGrounded ==
    ASSUME NEW x \in Execution, x.at \in Free
    PROVE  Grounded(x)
BY DEF Grounded, Free, UsesRow, Giving

LEMMA IdleAtIsGrounded ==
    ASSUME NEW p \in Free
    PROVE  [Idle EXCEPT !.at = p] \in Execution /\ Grounded([Idle EXCEPT !.at = p])
<1> DEFINE x == [Idle EXCEPT !.at = p]
<1>1. x \in Execution /\ x.at = p
    BY DEF Idle, Execution, Steps, Methods, PaymentStatuses, Free
<1>. HIDE DEF x
<1>. QED
    BY <1>1, FreeIsGrounded DEF x

(* A call that is to give the wallet part back and then go on with q. *)
LEMMA GivesBack ==
    [Idle EXCEPT !.at = "giveBack"] \in Execution /\ Grounded([Idle EXCEPT !.at = "giveBack"])
<1> DEFINE x == [Idle EXCEPT !.at = "giveBack"]
<1>1. x \in Execution /\ x.at = "giveBack" /\ x.then = "idle"
    BY DEF Idle, Execution, Steps, Methods, PaymentStatuses
<1>. HIDE DEF x
<1>2. Grounded(x)
    BY <1>1 DEF Grounded, UsesRow, Giving
<1>. QED
    BY <1>1, <1>2 DEF x

(* A payment that starts, with and without one to drop first. *)
LEMMA PayingStarts ==
    ASSUME PayInv, NEW s \in Sessions, NEW m \in Methods, NEW w \in BOOLEAN
    PROVE  /\ Paying(m, w) \in Execution /\ Paying(m, w).at = "choose"
           /\ LET y == [Paying(m, w) EXCEPT !.at = "drop", !.row = Latest, !.then = "choose"]
              IN  y \in Execution /\ y.at = "drop" /\ y.row = Latest /\ y.then = "choose"
<1>1. Paying(m, w) \in Execution /\ Paying(m, w).at = "choose"
    BY Known DEF Paying, Idle, Execution, Steps, PaymentStatuses
<1>2. LET y == [Paying(m, w) EXCEPT !.at = "drop", !.row = Latest, !.then = "choose"]
      IN  y \in Execution /\ y.at = "drop" /\ y.row = Latest /\ y.then = "choose"
    BY Known DEF Paying, Idle, Execution, Steps, PaymentStatuses
<1>. QED
    BY <1>1, <1>2

LEMMA InitiateStep ==
    ASSUME PayInv, NEW s \in Sessions, Initiate(s)
    PROVE  PayInv'
<1>1. PICK m \in Methods, w \in BOOLEAN :
          \/ Becomes(s, Paying(m, w))
          \/ /\ rows # <<>>
             /\ Becomes(s, [Paying(m, w) EXCEPT !.at = "drop", !.row = Latest, !.then = "choose"])
    BY DEF Initiate, Starts
<1> DEFINE x == Paying(m, w)
           y == [Paying(m, w) EXCEPT !.at = "drop", !.row = Latest, !.then = "choose"]
<1>2. x \in Execution /\ x.at = "choose"
    BY PayingStarts
<1>3. y \in Execution /\ y.at = "drop" /\ y.row = Latest /\ y.then = "choose"
    BY PayingStarts
<1>4. rows # <<>> => Latest \in DOMAIN rows
    BY Known DEF Latest
<1>. HIDE DEF x, y
<1>5. Grounded(x) /\ (rows # <<>> => Grounded(y))
    BY <1>2, <1>3, <1>4, FreeIsGrounded DEF Free, Grounded, UsesRow, Giving
<1>6. Becomes(s, x) \/ (rows # <<>> /\ Becomes(s, y))
    BY <1>1 DEF x, y
<1>7. UNCHANGED <<orderVars, rows, ledgerVars>>
    BY DEF Initiate
<1>. QED
    BY <1>2, <1>3, <1>5, <1>6, <1>7, MoveStep

LEMMA ChooseStep ==
    ASSUME PayInv, NEW s \in Sessions, ChooseMethod(s)
    PROVE  PayInv'
<1> DEFINE c == call[s]
           all == [Idle EXCEPT !.at = "debitAll", !.method = "wallet",
                               !.total = c.total]
           y == [c EXCEPT !.at = IF c.useWallet THEN "readBalance" ELSE "insert",
                          !.then = "idle", !.row = 0, !.amount = 0]
<1>1. c \in Execution /\ c.total \in Nat
    BY Known
<1>2. all \in Execution /\ all.at = "debitAll"
    BY <1>1 DEF Idle, Execution, Steps, Methods, PaymentStatuses
<1>3. y \in Execution /\ y.at \in {"readBalance", "insert"} /\ y.amount = 0
      /\ y.total \in Nat
    BY <1>1 DEF Execution, Steps
<1>4. Becomes(s, Idle) \/ Becomes(s, all) \/ Becomes(s, y)
    BY DEF ChooseMethod
<1>. HIDE DEF all, y
<1>5. Grounded(all) /\ Grounded(y)
    BY <1>2, <1>3, FreeIsGrounded, PaymentAssumption DEF Free, Grounded, UsesRow, Giving
<1>. QED
    BY <1>2, <1>3, <1>4, <1>5, IdleIsGrounded, MoveStep DEF ChooseMethod

LEMMA DebitAllStep ==
    ASSUME PayInv, NEW s \in Sessions, DebitAll(s) \/ WriteTransaction(s)
    PROVE  PayInv'
<1> DEFINE c == call[s]
<1>0. c \in Execution /\ balance \in Nat /\ paid \in Nat /\ c.total \in Nat
    BY Known
<1>1. CASE DebitAll(s)
    <2> DEFINE x == [c EXCEPT !.at = "writeTx"]
    <2>1. x \in Execution /\ x.at = "writeTx"
        BY <1>0 DEF Execution, Steps
    <2>2. Becomes(s, x) \/ Becomes(s, Idle)
        BY <1>1 DEF DebitAll, Goes
    <2>. HIDE DEF x
    <2>3. Grounded(x)
        BY <2>1, FreeIsGrounded DEF Free
    <2>4. balance' \in Nat
        BY <1>0, <1>1 DEF DebitAll, Covers
    <2>. QED
        BY <1>1, <2>1, <2>2, <2>3, <2>4, IdleIsGrounded, CallStep, Known
           DEF DebitAll, orderVars
<1>2. CASE WriteTransaction(s)
    <2> DEFINE x == [c EXCEPT !.at = "insert", !.amount = c.total]
    <2>1. x \in Execution /\ x.at = "insert" /\ x.amount = c.total /\ x.total = c.total
        BY <1>0 DEF Execution, Steps
    <2>2. Becomes(s, x)
        BY <1>2 DEF WriteTransaction
    <2>. HIDE DEF x
    <2>3. Grounded(x)
        BY <1>0, <2>1 DEF Grounded, UsesRow, Giving
    <2>4. paid' \in Nat
        BY <1>0, <1>2 DEF WriteTransaction
    <2>. QED
        BY <1>2, <2>1, <2>2, <2>3, <2>4, CallStep, Known DEF WriteTransaction, orderVars
<1>. QED
    BY <1>1, <1>2

LEMMA DebitPartStep ==
    ASSUME PayInv, NEW s \in Sessions, ReadBalance(s) \/ DebitPart(s)
    PROVE  PayInv'
<1> DEFINE c == call[s]
           insert == [c EXCEPT !.at = "insert"]
<1>0. /\ c \in Execution /\ Grounded(c) /\ c.amount \in Nat
      /\ balance \in Nat /\ paid \in Nat /\ c.total \in Nat
    BY Known
<1>1. c.at \in {"readBalance", "debitPart"} /\ c.amount <= c.total
    BY <1>0 DEF ReadBalance, DebitPart, At, Grounded
<1>2. /\ insert \in Execution /\ insert.at = "insert" /\ insert.amount = c.amount
      /\ insert.total = c.total
    BY <1>0 DEF Execution, Steps
<1>3. CASE ReadBalance(s)
    <2> DEFINE x == [c EXCEPT !.at = "debitPart", !.amount = FromWallet(s)]
    <2>1. FromWallet(s) \in Nat /\ FromWallet(s) <= c.total
        BY <1>0 DEF FromWallet
    <2>2. /\ x \in Execution /\ x.at = "debitPart" /\ x.amount = FromWallet(s)
          /\ x.total = c.total
        BY <1>0, <2>1 DEF Execution, Steps
    <2>3. Becomes(s, x) \/ Becomes(s, insert)
        BY <1>3 DEF ReadBalance
    <2>. HIDE DEF x, insert
    <2>4. Grounded(x) /\ Grounded(insert)
        BY <1>0, <1>1, <1>2, <2>1, <2>2 DEF Grounded, UsesRow, Giving
    <2>. QED
        BY <1>2, <1>3, <2>2, <2>3, <2>4, MoveStep DEF ReadBalance
<1>4. CASE DebitPart(s)
    <2>1. Becomes(s, insert) \/ Becomes(s, Idle)
        BY <1>4 DEF DebitPart, Goes
    <2>2. balance' \in Nat /\ paid' \in Nat
        BY <1>0, <1>4 DEF DebitPart, Covers
    <2>. HIDE DEF insert
    <2>3. Grounded(insert)
        BY <1>0, <1>1, <1>2 DEF Grounded, UsesRow, Giving
    <2>. QED
        BY <1>2, <1>4, <2>1, <2>2, <2>3, IdleIsGrounded, CallStep, Known
           DEF DebitPart, orderVars
<1>. QED
    BY <1>3, <1>4

(* The end of initiate. *)
LEMMA InsertStep ==
    ASSUME PayInv, NEW s \in Sessions,
           InsertPayment(s) \/ ProviderFails(s) \/ RecordPayment(s) \/ SetColumn(s)
    PROVE  PayInv'
<1> DEFINE c == call[s]
<1>0. /\ c \in Execution /\ Grounded(c) /\ c.amount \in Nat
      /\ c.method \in Methods /\ c.result \in PaymentStatuses /\ c.total \in Nat
    BY Known
<1>1. CASE InsertPayment(s)
    <2>1. PICK p \in Providers, st \in PaymentStatuses, n \in Nat :
              AddRow(p, st, n) /\ Becomes(s, [c EXCEPT !.at = "record", !.result = st, !.total = 0])
        <3>1. Payable(s) \in Nat
            BY <1>0, <1>1 DEF InsertPayment, At, Grounded, Payable
        <3>. QED
            BY <1>0, <1>1, <3>1 DEF InsertPayment, Methods, Providers, PaymentStatuses
    <2> DEFINE x == [c EXCEPT !.at = "record", !.result = st, !.total = 0]
    <2>2. x \in Execution /\ x.at = "record"
        BY <1>0 DEF Execution, Steps
    <2>3. Becomes(s, x)
        BY <2>1
    <2>. HIDE DEF x
    <2>4. Grounded(x)
        BY <2>2, FreeIsGrounded DEF Free
    <2>5. rows' \in Seq(Payment) /\ DOMAIN rows \subseteq DOMAIN rows'
        BY <2>1, RowAdded
    <2>. QED
        BY <1>1, <2>2, <2>3, <2>4, <2>5, RowStep DEF InsertPayment
<1>2. CASE ProviderFails(s)
    BY <1>2, GivesBack, IdleIsGrounded, MoveStep DEF ProviderFails
<1>3. CASE RecordPayment(s)
    BY <1>0, <1>3, IdleIsGrounded, CallStep, Known DEF RecordPayment, ledgerVars
<1>4. CASE SetColumn(s)
    <2>1. c.then \in Free
        BY <1>0, <1>4 DEF SetColumn, At, Grounded, Free
    <2>. QED
        BY <1>0, <1>4, <2>1, IdleAtIsGrounded, CallStep, Known DEF SetColumn, ledgerVars
<1>. QED
    BY <1>1, <1>2, <1>3, <1>4

(* Changing the method drops the payment that is still pending. *)
LEMMA DropStep ==
    ASSUME PayInv, NEW s \in Sessions, DropAbandoned(s)
    PROVE  PayInv'
<1> DEFINE c == call[s]
           x == [c EXCEPT !.at = "giveBack"]
<1>0. /\ c \in Execution /\ Grounded(c) /\ c.at = "drop" /\ c.row \in DOMAIN rows
    BY Known DEF DropAbandoned, At, Grounded, UsesRow
<1>1. x \in Execution /\ x.at = "giveBack" /\ x.then = c.then /\ x.row = c.row
    BY <1>0 DEF Execution, Steps
<1>2. \/ SetRow(c.row, "failed") /\ Becomes(s, x)
      \/ Becomes(s, Idle) /\ UNCHANGED rows
    BY DEF DropAbandoned, Goes
<1>. HIDE DEF x
<1>3. Grounded(x)
    BY <1>0, <1>1 DEF Grounded, UsesRow, Giving
<1>4. ASSUME SetRow(c.row, "failed")
      PROVE  rows' \in Seq(Payment) /\ DOMAIN rows \subseteq DOMAIN rows'
    BY <1>0, <1>4, StatusWritten DEF PaymentStatuses
<1>. QED
    BY <1>1, <1>2, <1>3, <1>4, IdleIsGrounded, MoveStep, RowStep DEF DropAbandoned

(* confirmByCustomer, reconcile and markRefunded *)
LEMMA WriteStep ==
    ASSUME PayInv, NEW s \in Sessions,
           \/ ConfirmByCustomer(s) \/ Reconcile(s) \/ MarkRefunded(s)
           \/ WriteRow(s) \/ CheckWalletPart(s)
    PROVE  PayInv'
<1> DEFINE c == call[s]
<1>0. /\ c \in Execution /\ Grounded(c) /\ c.result \in PaymentStatuses
      /\ Latest \in Nat /\ DOMAIN rows \subseteq Nat
      /\ rows # <<>> => Latest \in DOMAIN rows
    BY Known DEF Latest
<1>1. CASE ConfirmByCustomer(s)
    BY <1>0, <1>1, WritingIsGrounded, MoveStep
       DEF ConfirmByCustomer, Starts, PaymentStatuses
<1>2. CASE Reconcile(s)
    <2>1. PICK i \in DOMAIN rows :
              \/ Becomes(s, Writing(i, "paid"))
              \/ Becomes(s, [Writing(i, "failed") EXCEPT !.then = "checkWallet"])
        BY <1>2 DEF Reconcile, Starts
    <2> DEFINE x == [Writing(i, "failed") EXCEPT !.then = "checkWallet"]
    <2>2. /\ Writing(i, "failed") \in Execution /\ Writing(i, "failed").at = "write"
          /\ Writing(i, "failed").row = i
        BY <1>0, WritingIsGrounded DEF PaymentStatuses
    <2>3. x \in Execution /\ x.at = "write" /\ x.then = "checkWallet" /\ x.row = i
        BY <2>2 DEF Execution, Steps
    <2>4. Becomes(s, Writing(i, "paid")) \/ Becomes(s, x)
        BY <2>1
    <2>. HIDE DEF x
    <2>5. Grounded(x)
        BY <2>3 DEF Grounded, UsesRow, Giving
    <2>6. Writing(i, "paid") \in Execution /\ Grounded(Writing(i, "paid"))
        BY <1>0, WritingIsGrounded DEF PaymentStatuses
    <2>. QED
        BY <1>2, <2>3, <2>4, <2>5, <2>6, MoveStep DEF Reconcile
<1>3. CASE MarkRefunded(s)
    <2>1. PICK i \in DOMAIN rows : Becomes(s, Writing(i, "refunded"))
        BY <1>3 DEF MarkRefunded, Starts
    <2>. QED
        BY <1>0, <1>3, <2>1, WritingIsGrounded, MoveStep DEF MarkRefunded, PaymentStatuses
<1>4. CASE WriteRow(s)
    <2> DEFINE x == [c EXCEPT !.at = "setColumn"]
    <2>1. x \in Execution /\ x.at = "setColumn" /\ x.then = c.then
        BY <1>0 DEF Execution, Steps
    <2>2. Becomes(s, x)
        BY <1>4 DEF WriteRow, Goes
    <2>. HIDE DEF x
    <2>3. Grounded(x) /\ c.row \in DOMAIN rows
        BY <1>0, <1>4, <2>1 DEF WriteRow, At, Grounded, UsesRow, Giving
    <2>4. rows' \in Seq(Payment) /\ DOMAIN rows \subseteq DOMAIN rows'
        BY <1>0, <1>4, <2>3, StatusWritten DEF WriteRow
    <2>. QED
        BY <1>4, <2>1, <2>2, <2>3, <2>4, RowStep DEF WriteRow
<1>5. CASE CheckWalletPart(s)
    BY <1>5, GivesBack, IdleIsGrounded, MoveStep DEF CheckWalletPart
<1>. QED
    BY <1>1, <1>2, <1>3, <1>4, <1>5

(* A call that goes on with a step that needs nothing. *)
LEMMA GoesFree ==
    ASSUME NEW c \in Execution, NEW q \in Free
    PROVE  [c EXCEPT !.at = q] \in Execution /\ Grounded([c EXCEPT !.at = q])
<1> DEFINE x == [c EXCEPT !.at = q]
<1>1. x \in Execution /\ x.at = q
    BY DEF Execution, Steps, Free
<1>. HIDE DEF x
<1>. QED
    BY <1>1, FreeIsGrounded DEF x

(* cancelOrder and markRefundPendingIfPaid *)
LEMMA CancelStep ==
    ASSUME PayInv, NEW s \in Sessions,
           \/ Cancel(s) \/ WriteCancelled(s) \/ MarkRefundPendingIfPaid(s) \/ RefundRow(s)
           \/ CreditAll(s) \/ WriteRefundTransaction(s)
    PROVE  PayInv'
<1> DEFINE c == call[s]
<1>0. /\ c \in Execution /\ Grounded(c) /\ c.amount \in Nat /\ c.row \in Nat
      /\ Latest \in Nat /\ DOMAIN rows \subseteq Nat
      /\ rows # <<>> => Latest \in DOMAIN rows
      /\ \A i \in DOMAIN rows : rows[i] \in Payment
      /\ balance \in Nat /\ refunded \in Nat
    BY Known DEF Latest
<1>1. CASE Cancel(s)
    BY <1>1, IdleAtIsGrounded, MoveStep DEF Cancel, Starts, Free
<1>2. CASE WriteCancelled(s)
    <2>1. /\ [c EXCEPT !.at = "refund"] \in Execution
          /\ Grounded([c EXCEPT !.at = "refund"])
        BY <1>0, GoesFree DEF Free
    <2>. QED
        BY <1>2, <2>1, CallStep, Known DEF WriteCancelled, Goes, ledgerVars
<1>3. CASE MarkRefundPendingIfPaid(s)
    <2> DEFINE x == [Idle EXCEPT
                        !.at = IF HasWalletPart(rows[Latest]) THEN "giveBack" ELSE "refundRow",
                        !.then = "refundRow", !.row = Latest, !.result = rows[Latest].status]
    <2>1. CASE rows = <<>>
        BY <1>3, <2>1, IdleIsGrounded, MoveStep DEF MarkRefundPendingIfPaid
    <2>2. CASE rows # <<>>
        <3>1. rows[Latest].status \in PaymentStatuses
            BY <1>0, <2>2 DEF Payment
        <3>2. /\ x \in Execution /\ x.at \in {"giveBack", "refundRow"}
              /\ x.then = "refundRow" /\ x.row = Latest
            BY <1>0, <3>1 DEF Idle, Execution, Steps, Methods
        <3>3. Becomes(s, x)
            BY <1>3, <2>2 DEF MarkRefundPendingIfPaid
        <3>. HIDE DEF x
        <3>4. Grounded(x)
            BY <1>0, <2>2, <3>2 DEF Grounded, UsesRow, Giving
        <3>. QED
            BY <1>3, <3>2, <3>3, <3>4, MoveStep DEF MarkRefundPendingIfPaid
    <2>. QED
        BY <2>1, <2>2
<1>4. CASE RefundRow(s)
    <2> DEFINE i == c.row
               x == [Idle EXCEPT !.at = "creditAll", !.row = i, !.amount = rows[i].amount]
    <2>1. i \in DOMAIN rows /\ rows[i].amount \in Nat
        BY <1>0, <1>4 DEF RefundRow, At, Grounded, UsesRow, Payment
    <2>2. x \in Execution /\ x.at = "creditAll" /\ x.row = i
        BY <1>0, <2>1 DEF Idle, Execution, Steps, Methods, PaymentStatuses
    <2>3. Becomes(s, Idle) \/ Becomes(s, x) \/ Becomes(s, Writing(i, "refund_pending"))
        BY <1>4 DEF RefundRow
    <2>. HIDE DEF x
    <2>4. Grounded(x)
        BY <2>1, <2>2 DEF Grounded, UsesRow, Giving
    <2>5. /\ Writing(i, "refund_pending") \in Execution
          /\ Grounded(Writing(i, "refund_pending"))
        BY <1>0, <2>1, WritingIsGrounded DEF PaymentStatuses
    <2>. QED
        BY <1>4, <2>2, <2>3, <2>4, <2>5, IdleIsGrounded, MoveStep DEF RefundRow
<1>5. CASE CreditAll(s)
    <2> DEFINE x == [c EXCEPT !.at = "writeRefundTx"]
    <2>1. x \in Execution /\ x.at = "writeRefundTx" /\ x.row = c.row
        BY <1>0 DEF Execution, Steps
    <2>2. Becomes(s, x)
        BY <1>5 DEF CreditAll, Goes
    <2>. HIDE DEF x
    <2>3. Grounded(x)
        BY <1>0, <1>5, <2>1 DEF CreditAll, At, Grounded, UsesRow, Giving
    <2>4. balance' \in Nat
        BY <1>0, <1>5 DEF CreditAll
    <2>. QED
        BY <1>5, <2>1, <2>2, <2>3, <2>4, CallStep, Known DEF CreditAll, orderVars
<1>6. CASE WriteRefundTransaction(s)
    <2>1. c.row \in DOMAIN rows
        BY <1>0, <1>6 DEF WriteRefundTransaction, At, Grounded, UsesRow
    <2>2. /\ Writing(c.row, "refunded") \in Execution
          /\ Grounded(Writing(c.row, "refunded"))
        BY <1>0, <2>1, WritingIsGrounded DEF PaymentStatuses
    <2>3. refunded' \in Nat
        BY <1>0, <1>6 DEF WriteRefundTransaction
    <2>. QED
        BY <1>6, <2>2, <2>3, CallStep, Known DEF WriteRefundTransaction, orderVars
<1>. QED
    BY <1>1, <1>2, <1>3, <1>4, <1>5, <1>6

(* restoreOrder, and completeDelivery's markCodCollected *)
LEMMA RestoreStep ==
    ASSUME PayInv, NEW s \in Sessions,
           \/ RestoreOrder(s) \/ RestorePayment(s) \/ RestoreColumn(s) \/ Reopen(s)
           \/ Deliver(s) \/ MarkCodCollected(s)
    PROVE  PayInv'
<1> DEFINE c == call[s]
<1>0. /\ c \in Execution /\ c.result \in PaymentStatuses /\ column \in PaymentStatuses
      /\ Latest \in Nat /\ DOMAIN rows \subseteq Nat
      /\ rows # <<>> => Latest \in DOMAIN rows
    BY Known DEF Latest
<1>1. CASE RestoreOrder(s)
    <2> DEFINE x == [Idle EXCEPT !.at = "restorePayment", !.result = column]
    <2>1. x \in Execution /\ x.at = "restorePayment"
        BY <1>0 DEF Idle, Execution, Steps, Methods
    <2>2. Becomes(s, x)
        BY <1>1 DEF RestoreOrder, Starts
    <2>. HIDE DEF x
    <2>3. Grounded(x)
        BY <2>1, FreeIsGrounded DEF Free
    <2>. QED
        BY <1>1, <2>1, <2>2, <2>3, MoveStep DEF RestoreOrder
<1>2. CASE RestorePayment(s)
    <2>1. ASSUME NEW q \in {"restoreColumn", "reopen"}
          PROVE  [c EXCEPT !.at = q] \in Execution /\ Grounded([c EXCEPT !.at = q])
        BY <1>0, GoesFree DEF Free
    <2>2. CASE SetRow(Latest, "paid") /\ rows # <<>> /\ Goes(s, "restoreColumn")
        <3>1. rows' \in Seq(Payment) /\ DOMAIN rows \subseteq DOMAIN rows'
            BY <1>0, <2>2, StatusWritten DEF PaymentStatuses
        <3>. QED
            BY <1>2, <2>1, <2>2, <3>1, RowStep DEF RestorePayment, Goes
    <2>3. CASE UNCHANGED rows /\ Goes(s, "reopen")
        BY <1>2, <2>1, <2>3, MoveStep DEF RestorePayment, Goes
    <2>. QED
        BY <1>2, <2>2, <2>3 DEF RestorePayment
<1>3. CASE RestoreColumn(s)
    <2>1. /\ [c EXCEPT !.at = "reopen"] \in Execution
          /\ Grounded([c EXCEPT !.at = "reopen"])
        BY <1>0, GoesFree DEF Free
    <2>2. column' \in PaymentStatuses
        BY <1>3 DEF RestoreColumn, PaymentStatuses
    <2>. QED
        BY <1>3, <2>1, <2>2, CallStep, Known DEF RestoreColumn, Goes, ledgerVars
<1>4. CASE Reopen(s)
    <2>1. column' \in PaymentStatuses
        BY <1>0, <1>4 DEF Reopen, PaymentStatuses
    <2>. QED
        BY <1>4, <2>1, IdleIsGrounded, CallStep, Known DEF Reopen, ledgerVars
<1>5. CASE Deliver(s)
    BY <1>5, IdleAtIsGrounded, CallStep, Known DEF Deliver, Starts, Free, ledgerVars
<1>6. CASE MarkCodCollected(s)
    BY <1>0, <1>6, WritingIsGrounded, IdleIsGrounded, MoveStep
       DEF MarkCodCollected, PaymentStatuses
<1>. QED
    BY <1>1, <1>2, <1>3, <1>4, <1>5, <1>6

-----------------------------------------------------------------------------
(* What holds of every behaviour *)

LEMMA PayStart == Init => PayInv
BY IdleIsGrounded, PaymentAssumption
   DEF Init, PayInv, TypeOK, NeverNegative, PaymentStatuses

(* What the vendor search does to the order changes only its vendor. *)
LEMMA OnlyTheVendor ==
    ASSUME Reallocate
    PROVE  /\ vendor' \in DOMAIN Prices
           /\ UNCHANGED <<status, column, walletPart, rows, balance, paid, refunded, call>>
BY DEF Reallocate, ledgerVars

LEMMA PayNext == PayInv /\ [Next]_vars => PayInv'
<1> SUFFICES ASSUME PayInv, [Next]_vars PROVE PayInv'
    OBVIOUS
<1>1. ASSUME NEW s \in Sessions, Call(s) PROVE PayInv'
    BY <1>1, InitiateStep, WriteStep, CancelStep, RestoreStep DEF Call
<1>2. ASSUME NEW s \in Sessions, Continue(s) PROVE PayInv'
    BY <1>2, GiveBackStep, DropStep, ChooseStep, DebitAllStep, DebitPartStep, InsertStep,
       WriteStep, CancelStep, RestoreStep DEF Continue
<1>3. CASE UNCHANGED vars
    BY <1>3 DEF vars, orderVars, ledgerVars, PayInv, TypeOK, NeverNegative, Grounded
<1>4. CASE Reallocate
    BY <1>4, OnlyTheVendor DEF PayInv, TypeOK, NeverNegative, Grounded
<1>. QED
    BY <1>1, <1>2, <1>3, <1>4 DEF Next

LEMMA PayInvariant == Spec => []PayInv
BY PayStart, PayNext, PTL DEF Spec

(* Every state of an order's payments is of its type: the balance is a     *)
(* whole number of rupees, a payment is never for a negative amount, and   *)
(* no call writes a row that does not exist.                               *)
THEOREM TypeCorrect == Spec => []TypeOK
BY PayInvariant, PTL DEF PayInv

(* However payments, refunds and cancellations overlap, the wallet is      *)
(* never overdrawn (deductBalance: UPDATE ... WHERE balance >= amount).    *)
THEOREM WalletNeverNegative == Spec => []NeverNegative
BY PayInvariant, PTL DEF PayInv

(* Which payments a step may turn into failed ones. *)
LEMMA PaidKept ==
    ASSUME PayInv, [Next]_vars, NEW i \in DOMAIN rows,
           rows[i].status = "paid", rows'[i].status = "failed"
    PROVE  ReconcilesAsFailed(i)
<1>1. UNCHANGED rows => FALSE
    OBVIOUS
<1>2. PICK s \in Sessions : Call(s) \/ Continue(s)
    BY <1>1, OnlyTheVendor DEF Next, vars
<1>3. ~Call(s)
    BY <1>1 DEF Call, Initiate, ConfirmByCustomer, Reconcile, MarkRefunded, Cancel,
                RestoreOrder, Deliver
<1>4. InsertPayment(s) \/ DropAbandoned(s) \/ WriteRow(s) \/ RestorePayment(s)
    BY <1>1, <1>2, <1>3
       DEF Continue, GiveBack, Credit, ClearWalletPart, ChooseMethod, DebitAll,
           WriteTransaction, ReadBalance, DebitPart, ProviderFails, RecordPayment,
           SetColumn, CheckWalletPart, WriteCancelled, MarkRefundPendingIfPaid, RefundRow,
           CreditAll, WriteRefundTransaction, RestoreColumn, Reopen, MarkCodCollected
<1>5. /\ Grounded(call[s]) /\ call[s].result \in PaymentStatuses
      /\ rows \in Seq(Payment) /\ Latest \in Nat /\ DOMAIN rows = 1 .. Latest
    BY Known
<1>6. ~InsertPayment(s)
    BY <1>1, <1>5 DEF InsertPayment, AddRow
<1>7. ASSUME NEW j \in DOMAIN rows, NEW st \in PaymentStatuses, SetRow(j, st)
      PROVE  j = i /\ st = "failed"
    BY <1>7, StatusWritten
<1>8. ~DropAbandoned(s)
    <2>1. ASSUME DropAbandoned(s) PROVE FALSE
        <3>1. /\ call[s].row \in DOMAIN rows /\ rows[call[s].row].status = "pending"
              /\ SetRow(call[s].row, "failed")
            BY <1>1, <1>5, <2>1 DEF DropAbandoned, At, Grounded, UsesRow, Droppable
        <3>. QED
            BY <1>7, <3>1 DEF PaymentStatuses
    <2>. QED
        BY <2>1
<1>9. ~RestorePayment(s)
    <2>1. ASSUME RestorePayment(s) PROVE FALSE
        <3>1. Latest \in DOMAIN rows /\ SetRow(Latest, "paid")
            BY <1>1, <1>5, <2>1 DEF RestorePayment, Latest
        <3>. QED
            BY <1>7, <3>1 DEF PaymentStatuses
    <2>. QED
        BY <2>1
<1>10. WriteRow(s)
    BY <1>4, <1>6, <1>8, <1>9
<1>11. call[s].row = i /\ call[s].result = "failed"
    BY <1>5, <1>7, <1>10 DEF WriteRow, At, Grounded, UsesRow
<1>. QED
    BY <1>10, <1>11 DEF ReconcilesAsFailed, WriteRow

(* "Only drops it while still pending, so a payment confirmed meanwhile    *)
(* wins": however a change of method overlaps with a confirmation, a paid  *)
(* payment only fails when the admin reconciles it as failed.              *)
THEOREM PaidNeverDropped == Spec => PaidStays
<1>1. PayInv /\ [Next]_vars =>
          [\A i \in DOMAIN rows :
              rows[i].status = "paid" /\ rows'[i].status = "failed" => ReconcilesAsFailed(i)]_vars
    BY PaidKept
<1>. QED
    BY <1>1, PayInvariant, PTL DEF Spec, PaidStays

-----------------------------------------------------------------------------
(* One live payment, as long as calls come one at a time.  Every payment   *)
(* but the latest has failed; a call on its way to a new payment has found *)
(* or made them all failed; and the row a call writes is the latest.       *)

AllFailed == \A i \in DOMAIN rows : rows[i].status = "failed"

Replacing(c) ==
    \/ c.at \in {"choose", "debitAll", "writeTx", "readBalance", "debitPart", "insert"}
    \/ c.at \in Giving /\ c.then = "choose"

Placed(c) ==
    /\ Replacing(c) => AllFailed
    /\ c.at \in UsesRow => c.row = Latest
    /\ c.at \in Giving /\ c.then = "refundRow" => c.row = Latest

SoleRows ==
    /\ \A i \in DOMAIN rows : i # Latest => rows[i].status = "failed"
    /\ \A s \in Sessions : Placed(call[s])

OneBusy == \A s, t \in Busy : s = t

LEMMA IdleIsPlaced == Placed(Idle)
BY DEF Idle, Placed, Replacing, UsesRow, Giving

(* A step that leaves the payments alone. *)
LEMMA PlacedStep ==
    ASSUME PayInv, SoleRows, NEW s \in Sessions, NEW x \in Execution, Placed(x),
           Becomes(s, x), UNCHANGED rows
    PROVE  SoleRows'
<1>1. ASSUME NEW t \in Sessions PROVE Placed(call[t])'
    <2>1. call'[t] = IF t = s THEN x ELSE call[t]
        BY DEF PayInv, TypeOK, Becomes
    <2>. QED
        BY <2>1 DEF SoleRows, Placed, AllFailed, Latest
<1>. QED
    BY <1>1 DEF SoleRows, Latest

(* A step that goes on with a call writes the payments undisturbed. *)
LEMMA OthersIdle ==
    ASSUME OneBusy, NEW s \in Sessions, call[s].at # "idle"
    PROVE  \A t \in Sessions \ {s} : call[t] = Idle
<1>1. call[s] # Idle
    BY DEF Idle
<1>. QED
    BY <1>1 DEF OneBusy, Busy

LEMMA PlacedWrite ==
    ASSUME PayInv, SoleRows, NEW s \in Sessions, NEW x \in Execution, Placed(x)',
           Becomes(s, x), \A t \in Sessions \ {s} : call[t] = Idle,
           \A i \in DOMAIN rows' : i # Len(rows') => rows'[i].status = "failed"
    PROVE  SoleRows'
<1>1. ASSUME NEW t \in Sessions PROVE Placed(call[t])'
    <2>1. call'[t] = IF t = s THEN x ELSE Idle
        BY DEF PayInv, TypeOK, Becomes
    <2>2. Placed(Idle)'
        BY DEF Idle, Placed, Replacing, UsesRow, Giving
    <2>. QED
        BY <2>1, <2>2 DEF Placed, AllFailed, Latest, Replacing
<1>. QED
    BY <1>1 DEF SoleRows, Latest

(* The steps of a payment being started. *)
LEMMA StartPlaced ==
    ASSUME PayInv, SoleRows, NEW s \in Sessions,
           \/ Initiate(s) \/ ChooseMethod(s) \/ DebitAll(s) \/ WriteTransaction(s)
           \/ ReadBalance(s) \/ DebitPart(s)
    PROVE  SoleRows'
<1> DEFINE c == call[s]
<1>0. /\ c \in Execution /\ Placed(c) /\ c.useWallet \in BOOLEAN
      /\ balance \in Nat /\ c.total \in Nat /\ Latest \in Nat /\ DOMAIN rows = 1 .. Latest
    BY Known DEF SoleRows
<1>1. CASE Initiate(s)
    <2>1. PICK m \in Methods, w \in BOOLEAN :
              \/ /\ rows = <<>> \/ ~Live(rows[Latest].status)
                 /\ Becomes(s, Paying(m, w))
              \/ Becomes(s, [Paying(m, w) EXCEPT !.at = "drop", !.row = Latest,
                                                 !.then = "choose"])
        BY <1>1 DEF Initiate, Starts
    <2> DEFINE x == Paying(m, w)
               y == [Paying(m, w) EXCEPT !.at = "drop", !.row = Latest, !.then = "choose"]
    <2>2. x \in Execution /\ x.at = "choose"
        BY PayingStarts
    <2>3. y \in Execution /\ y.at = "drop" /\ y.row = Latest /\ y.then = "choose"
        BY PayingStarts
    <2>4. \/ (rows = <<>> \/ ~Live(rows[Latest].status)) /\ Becomes(s, x)
          \/ Becomes(s, y)
        BY <2>1
    <2>. HIDE DEF x, y
    <2>5. rows = <<>> \/ ~Live(rows[Latest].status) => AllFailed
        BY <1>0 DEF SoleRows, AllFailed, Live
    <2>6. Placed(y) /\ (AllFailed => Placed(x))
        BY <2>2, <2>3 DEF Placed, Replacing, UsesRow, Giving
    <2>7. UNCHANGED rows
        BY <1>1 DEF Initiate
    <2>. QED
        BY <2>2, <2>3, <2>4, <2>5, <2>6, <2>7, PlacedStep
<1>2. CASE \/ ChooseMethod(s) \/ DebitAll(s) \/ WriteTransaction(s)
           \/ ReadBalance(s) \/ DebitPart(s)
    <2>1. AllFailed
        BY <1>0, <1>2 DEF ChooseMethod, DebitAll, WriteTransaction, ReadBalance, DebitPart,
                          At, Placed, Replacing
    <2>2. ASSUME NEW x \in Execution, x.at \in Steps \ (UsesRow \cup Giving)
          PROVE  Placed(x)
        BY <2>1, <2>2 DEF Placed
    <2>3. ASSUME NEW q \in {"writeTx", "insert"}
          PROVE  [c EXCEPT !.at = q] \in Execution /\ Placed([c EXCEPT !.at = q])
        <3> DEFINE x == [c EXCEPT !.at = q]
        <3>1. x \in Execution /\ x.at = q
            BY <1>0 DEF Execution, Steps
        <3>. HIDE DEF x
        <3>2. Placed(x)
            BY <2>2, <3>1 DEF Steps, UsesRow, Giving
        <3>. QED
            BY <3>1, <3>2 DEF x
    <2>4. ASSUME NEW q \in {"insert", "debitPart"}, NEW n \in Nat
          PROVE  /\ [c EXCEPT !.at = q, !.amount = n] \in Execution
                 /\ Placed([c EXCEPT !.at = q, !.amount = n])
        <3> DEFINE x == [c EXCEPT !.at = q, !.amount = n]
        <3>1. x \in Execution /\ x.at = q
            BY <1>0 DEF Execution, Steps
        <3>. HIDE DEF x
        <3>2. Placed(x)
            BY <2>2, <3>1 DEF Steps, UsesRow, Giving
        <3>. QED
            BY <3>1, <3>2 DEF x
    <2>5. CASE ChooseMethod(s)
        <3> DEFINE all == [Idle EXCEPT !.at = "debitAll", !.method = "wallet",
                               !.total = c.total]
                   y == [c EXCEPT !.at = IF c.useWallet THEN "readBalance" ELSE "insert",
                                  !.then = "idle", !.row = 0, !.amount = 0]
        <3>1. all \in Execution /\ all.at = "debitAll"
            BY <1>0 DEF Idle, Execution, Steps, Methods, PaymentStatuses
        <3>2. y \in Execution /\ y.at \in {"readBalance", "insert"}
            BY <1>0 DEF Execution, Steps
        <3>3. Becomes(s, Idle) \/ Becomes(s, all) \/ Becomes(s, y)
            BY <2>5 DEF ChooseMethod
        <3>. HIDE DEF all, y
        <3>4. Placed(all) /\ Placed(y)
            BY <2>2, <3>1, <3>2 DEF Steps, UsesRow, Giving
        <3>. QED
            BY <2>5, <3>1, <3>2, <3>3, <3>4, IdleIsGrounded, IdleIsPlaced, PlacedStep
               DEF ChooseMethod
    <2>6. CASE DebitAll(s)
        BY <2>3, <2>6, IdleIsGrounded, IdleIsPlaced, PlacedStep DEF DebitAll, Goes
    <2>7. CASE WriteTransaction(s)
        BY <1>0, <2>4, <2>7, PlacedStep DEF WriteTransaction
    <2>8. CASE ReadBalance(s)
        <3>1. FromWallet(s) \in Nat
            BY <1>0 DEF FromWallet
        <3>. QED
            BY <2>3, <2>4, <2>8, <3>1, PlacedStep DEF ReadBalance
    <2>9. CASE DebitPart(s)
        BY <2>3, <2>9, IdleIsGrounded, IdleIsPlaced, PlacedStep DEF DebitPart, Goes
    <2>. QED
        BY <1>2, <2>5, <2>6, <2>7, <2>8, <2>9
<1>. QED
    BY <1>1, <1>2

(* Steps that go on with a call that neither starts a payment nor uses a   *)
(* row from now on. *)
LEMMA AtIsPlaced ==
    ASSUME NEW x \in Execution, x.at \in Free \ {"choose", "debitAll", "writeTx"}
    PROVE  Placed(x)
BY DEF Placed, Replacing, Free, UsesRow, Giving

LEMMA GoesPlaced ==
    ASSUME NEW c \in Execution, NEW q \in Free \ {"choose", "debitAll", "writeTx"}
    PROVE  /\ [c EXCEPT !.at = q] \in Execution /\ Placed([c EXCEPT !.at = q])
           /\ [Idle EXCEPT !.at = q] \in Execution /\ Placed([Idle EXCEPT !.at = q])
<1> DEFINE x == [c EXCEPT !.at = q]
           y == [Idle EXCEPT !.at = q]
<1>1. x \in Execution /\ x.at = q
    BY DEF Execution, Steps, Free
<1>2. y \in Execution /\ y.at = q
    BY DEF Idle, Execution, Steps, Methods, PaymentStatuses, Free
<1>. HIDE DEF x, y
<1>3. Placed(x) /\ Placed(y)
    BY <1>1, <1>2, AtIsPlaced
<1>. QED
    BY <1>1, <1>2, <1>3 DEF x, y

LEMMA WritingIsPlaced ==
    ASSUME NEW i \in DOMAIN rows, NEW st \in PaymentStatuses, i \in Nat, i = Latest
    PROVE  Writing(i, st) \in Execution /\ Placed(Writing(i, st))
<1>1. /\ Writing(i, st) \in Execution /\ Writing(i, st).at = "write"
      /\ Writing(i, st).row = i
    BY WritingIsGrounded
<1>. QED
    BY <1>1 DEF Placed, Replacing, UsesRow, Giving

LEMMA GivesBackPlaced == Placed([Idle EXCEPT !.at = "giveBack"])
<1> DEFINE x == [Idle EXCEPT !.at = "giveBack"]
<1>1. x.at = "giveBack" /\ x.then = "idle"
    BY DEF Idle
<1>. HIDE DEF x
<1>2. Placed(x)
    BY <1>1 DEF Placed, Replacing, UsesRow, Giving
<1>. QED
    BY <1>2 DEF x

LEMMA GiveBackPlaced ==
    ASSUME PayInv, SoleRows, NEW s \in Sessions,
           GiveBack(s) \/ Credit(s) \/ ClearWalletPart(s)
    PROVE  SoleRows'
<1> DEFINE c == call[s]
           onward == [c EXCEPT !.at = c.then, !.amount = 0]
           more == [c EXCEPT !.at = "credit", !.amount = Net]
           last == [c EXCEPT !.at = "clear"]
<1>0. /\ c \in Execution /\ Grounded(c) /\ Placed(c) /\ c.then \in Steps /\ Net \in Int
      /\ c.at \in Giving
    BY Known DEF SoleRows, Net, GiveBack, Credit, ClearWalletPart, At, Giving
<1>1. /\ onward \in Execution /\ onward.at = c.then /\ onward.then = c.then
      /\ onward.row = c.row
    BY <1>0 DEF Execution
<1>2. last \in Execution /\ last.at = "clear" /\ last.then = c.then /\ last.row = c.row
    BY <1>0 DEF Execution, Steps
<1>3. ASSUME Net \in Nat
      PROVE  /\ more \in Execution /\ more.at = "credit"
             /\ more.then = c.then /\ more.row = c.row
    BY <1>0, <1>3 DEF Execution, Steps
<1>4. \/ Becomes(s, onward) \/ Becomes(s, last) \/ Becomes(s, Idle)
      \/ Net \in Nat /\ Becomes(s, more)
    BY <1>0 DEF GiveBack, Credit, ClearWalletPart, Goes
<1>5. UNCHANGED rows
    BY DEF GiveBack, Credit, ClearWalletPart
<1>. HIDE DEF onward, more, last
<1>6. c.then \in {"idle", "choose", "refundRow"}
    BY <1>0 DEF Grounded
<1>7. Placed(onward) /\ Placed(last) /\ (Net \in Nat => Placed(more))
    BY <1>0, <1>1, <1>2, <1>3, <1>6 DEF Placed, Replacing, UsesRow, Giving
<1>. QED
    BY <1>1, <1>2, <1>3, <1>4, <1>5, <1>7, IdleIsGrounded, IdleIsPlaced, PlacedStep

(* The calls that read a payment and leave the rows alone. *)
LEMMA ReadPlaced ==
    ASSUME PayInv, SoleRows, NEW s \in Sessions,
           \/ ConfirmByCustomer(s) \/ Reconcile(s) \/ MarkRefunded(s) \/ CheckWalletPart(s)
           \/ MarkCodCollected(s) \/ Cancel(s) \/ WriteCancelled(s) \/ Deliver(s)
           \/ RestoreOrder(s) \/ RestoreColumn(s) \/ Reopen(s) \/ SetColumn(s)
           \/ ProviderFails(s) \/ RecordPayment(s)
    PROVE  SoleRows'
<1> DEFINE c == call[s]
<1>0. /\ c \in Execution /\ Grounded(c) /\ column \in PaymentStatuses
      /\ Latest \in Nat /\ DOMAIN rows \subseteq Nat
      /\ rows # <<>> => Latest \in DOMAIN rows
    BY Known DEF Latest
<1>1. UNCHANGED rows
    BY DEF ConfirmByCustomer, Reconcile, MarkRefunded, CheckWalletPart, MarkCodCollected,
           Cancel, WriteCancelled, Deliver, RestoreOrder, RestoreColumn, Reopen, SetColumn,
           ProviderFails, RecordPayment
<1>2. ASSUME NEW i \in DOMAIN rows, NEW st \in PaymentStatuses, i = Latest,
             Becomes(s, Writing(i, st))
      PROVE  SoleRows'
    BY <1>0, <1>1, <1>2, WritingIsPlaced, PlacedStep
<1>3. CASE ConfirmByCustomer(s) \/ MarkCodCollected(s)
    BY <1>0, <1>1, <1>2, <1>3, IdleIsGrounded, IdleIsPlaced, PlacedStep
       DEF ConfirmByCustomer, MarkCodCollected, Starts, PaymentStatuses
<1>4. CASE Reconcile(s)
    <2>1. PICK i \in DOMAIN rows :
              /\ rows[i].status = "pending"
              /\ \/ Becomes(s, Writing(i, "paid"))
                 \/ Becomes(s, [Writing(i, "failed") EXCEPT !.then = "checkWallet"])
        BY <1>4 DEF Reconcile, Starts
    <2>2. i = Latest
        BY <2>1 DEF SoleRows
    <2> DEFINE x == [Writing(i, "failed") EXCEPT !.then = "checkWallet"]
    <2>3. /\ Writing(i, "failed") \in Execution /\ Writing(i, "failed").at = "write"
          /\ Writing(i, "failed").row = i
        BY <1>0, WritingIsGrounded DEF PaymentStatuses
    <2>4. x \in Execution /\ x.at = "write" /\ x.row = i
        BY <2>3 DEF Execution, Steps
    <2>5. Becomes(s, Writing(i, "paid")) \/ Becomes(s, x)
        BY <2>1
    <2>. HIDE DEF x
    <2>6. Placed(x)
        BY <2>2, <2>4 DEF Placed, Replacing, UsesRow, Giving
    <2>. QED
        BY <1>1, <1>2, <2>2, <2>4, <2>5, <2>6, PlacedStep DEF PaymentStatuses
<1>5. CASE MarkRefunded(s)
    <2>1. PICK i \in DOMAIN rows :
              rows[i].status = "refund_pending" /\ Becomes(s, Writing(i, "refunded"))
        BY <1>5 DEF MarkRefunded, Starts
    <2>2. i = Latest
        BY <2>1 DEF SoleRows
    <2>. QED
        BY <1>2, <2>1, <2>2 DEF PaymentStatuses
<1>6. CASE CheckWalletPart(s) \/ ProviderFails(s)
    BY <1>1, <1>6, GivesBack, GivesBackPlaced, IdleIsGrounded, IdleIsPlaced, PlacedStep
       DEF CheckWalletPart, ProviderFails
<1>7. CASE Cancel(s) \/ WriteCancelled(s) \/ Deliver(s) \/ RestoreColumn(s)
    <2>1. PICK q \in {"cancel", "refund", "collect", "reopen"} :
              Becomes(s, [c EXCEPT !.at = q]) \/ Becomes(s, [Idle EXCEPT !.at = q])
        BY <1>7 DEF Cancel, WriteCancelled, Deliver, RestoreColumn, Starts, Goes
    <2>. QED
        BY <1>0, <1>1, <2>1, GoesPlaced, PlacedStep DEF Free
<1>8. CASE RestoreOrder(s)
    <2> DEFINE x == [Idle EXCEPT !.at = "restorePayment", !.result = column]
    <2>1. x \in Execution /\ x.at = "restorePayment"
        BY <1>0 DEF Idle, Execution, Steps, Methods
    <2>2. Becomes(s, x)
        BY <1>8 DEF RestoreOrder, Starts
    <2>. HIDE DEF x
    <2>3. Placed(x)
        BY <2>1, AtIsPlaced DEF Free
    <2>. QED
        BY <1>1, <2>1, <2>2, <2>3, PlacedStep
<1>9. CASE Reopen(s) \/ RecordPayment(s)
    BY <1>1, <1>9, IdleIsGrounded, IdleIsPlaced, PlacedStep DEF Reopen, RecordPayment
<1>10. CASE SetColumn(s)
    <2>1. c.then \in {"idle", "checkWallet"}
        BY <1>0, <1>10 DEF SetColumn, At, Grounded
    <2>. QED
        BY <1>0, <1>1, <1>10, <2>1, GoesPlaced, PlacedStep DEF SetColumn, Free
<1>. QED
    BY <1>3, <1>4, <1>5, <1>6, <1>7, <1>8, <1>9, <1>10

LEMMA RefundPlaced ==
    ASSUME PayInv, SoleRows, NEW s \in Sessions,
           MarkRefundPendingIfPaid(s) \/ RefundRow(s) \/ CreditAll(s) \/ WriteRefundTransaction(s)
    PROVE  SoleRows'
<1> DEFINE c == call[s]
<1>0. /\ c \in Execution /\ Grounded(c) /\ Placed(c) /\ c.row \in Nat
      /\ Latest \in Nat /\ DOMAIN rows \subseteq Nat
      /\ rows # <<>> => Latest \in DOMAIN rows
      /\ \A i \in DOMAIN rows : rows[i] \in Payment
    BY Known DEF SoleRows, Latest
<1>1. UNCHANGED rows
    BY DEF MarkRefundPendingIfPaid, RefundRow, CreditAll, WriteRefundTransaction
<1>2. CASE MarkRefundPendingIfPaid(s)
    <2> DEFINE x == [Idle EXCEPT
                        !.at = IF HasWalletPart(rows[Latest]) THEN "giveBack" ELSE "refundRow",
                        !.then = "refundRow", !.row = Latest, !.result = rows[Latest].status]
    <2>1. CASE rows = <<>>
        BY <1>1, <1>2, <2>1, IdleIsGrounded, IdleIsPlaced, PlacedStep
           DEF MarkRefundPendingIfPaid
    <2>2. CASE rows # <<>>
        <3>1. rows[Latest].status \in PaymentStatuses
            BY <1>0, <2>2 DEF Payment
        <3>2. /\ x \in Execution /\ x.at \in {"giveBack", "refundRow"}
              /\ x.then = "refundRow" /\ x.row = Latest
            BY <1>0, <3>1 DEF Idle, Execution, Steps, Methods
        <3>3. Becomes(s, x)
            BY <1>2, <2>2 DEF MarkRefundPendingIfPaid
        <3>. HIDE DEF x
        <3>4. Placed(x)
            BY <3>2 DEF Placed, Replacing, UsesRow, Giving
        <3>. QED
            BY <1>1, <3>2, <3>3, <3>4, PlacedStep
    <2>. QED
        BY <2>1, <2>2
<1>3. CASE RefundRow(s) \/ CreditAll(s) \/ WriteRefundTransaction(s)
    <2> DEFINE x == [Idle EXCEPT !.at = "creditAll", !.row = c.row,
                                 !.amount = rows[c.row].amount]
               y == [c EXCEPT !.at = "writeRefundTx"]
    <2>1. c.row \in DOMAIN rows /\ c.row = Latest
        BY <1>0, <1>3
           DEF RefundRow, CreditAll, WriteRefundTransaction, At, Grounded, Placed,
                          UsesRow
    <2>2. rows[c.row].amount \in Nat
        BY <1>0, <2>1 DEF Payment
    <2>3. x \in Execution /\ x.at = "creditAll" /\ x.row = Latest
        BY <1>0, <2>1, <2>2 DEF Idle, Execution, Steps, Methods, PaymentStatuses
    <2>4. y \in Execution /\ y.at = "writeRefundTx" /\ y.row = Latest
        BY <1>0, <2>1 DEF Execution, Steps
    <2>5. PICK st \in {"refund_pending", "refunded"} :
              \/ Becomes(s, Idle) \/ Becomes(s, x) \/ Becomes(s, y)
              \/ Becomes(s, Writing(c.row, st))
        BY <1>3 DEF RefundRow, CreditAll, WriteRefundTransaction, Goes
    <2>. HIDE DEF x, y
    <2>6. Placed(x) /\ Placed(y)
        BY <2>3, <2>4 DEF Placed, Replacing, UsesRow, Giving
    <2>7. Writing(c.row, st) \in Execution /\ Placed(Writing(c.row, st))
        BY <1>0, <2>1, WritingIsPlaced DEF PaymentStatuses
    <2>. QED
        BY <1>1, <2>3, <2>4, <2>5, <2>6, <2>7, IdleIsGrounded, IdleIsPlaced, PlacedStep
<1>. QED
    BY <1>2, <1>3

(* The steps that write the payments: they are of the one call there is. *)
LEMMA LatestWritten ==
    ASSUME PayInv, SoleRows, NEW s \in Sessions, NEW x \in Execution,
           Becomes(s, x), \A t \in Sessions \ {s} : call[t] = Idle,
           NEW st \in PaymentStatuses, Latest \in DOMAIN rows, SetRow(Latest, st),
           Replacing(x) => st = "failed",
           x.at \in UsesRow => x.row = Latest,
           x.at \in Giving /\ x.then = "refundRow" => x.row = Latest
    PROVE  SoleRows'
<1>1. /\ DOMAIN rows' = DOMAIN rows /\ Len(rows') = Latest
      /\ rows'[Latest].status = st
      /\ \A j \in DOMAIN rows : j # Latest => rows'[j] = rows[j]
    BY StatusWritten DEF Latest
<1>2. \A i \in DOMAIN rows' : i # Len(rows') => rows'[i].status = "failed"
    BY <1>1 DEF SoleRows
<1>3. Placed(x)'
    BY <1>1, <1>2 DEF Placed, Replacing, AllFailed, Latest
<1>. QED
    BY <1>2, <1>3, PlacedWrite

LEMMA LatestAdded ==
    ASSUME PayInv, AllFailed, NEW s \in Sessions, NEW x \in Execution, Becomes(s, x),
           \A t \in Sessions \ {s} : call[t] = Idle,
           NEW p \in Providers, NEW st \in PaymentStatuses, NEW n \in Nat, AddRow(p, st, n),
           SoleRows, ~Replacing(x), x.at \notin UsesRow \cup Giving
    PROVE  SoleRows'
<1>1. /\ DOMAIN rows' = DOMAIN rows \cup {Len(rows')}
      /\ \A j \in DOMAIN rows : rows'[j] = rows[j]
    BY RowAdded
<1>2. \A i \in DOMAIN rows' : i # Len(rows') => rows'[i].status = "failed"
    BY <1>1 DEF AllFailed
<1>3. Placed(x)'
    BY DEF Placed, Replacing
<1>. QED
    BY <1>2, <1>3, PlacedWrite

LEMMA WritePlaced ==
    ASSUME PayInv, SoleRows, OneBusy, NEW s \in Sessions,
           DropAbandoned(s) \/ WriteRow(s) \/ RestorePayment(s) \/ InsertPayment(s)
    PROVE  SoleRows'
<1> DEFINE c == call[s]
<1>0. /\ c \in Execution /\ Grounded(c) /\ Placed(c) /\ c.result \in PaymentStatuses
      /\ c.amount \in Nat /\ c.method \in Methods /\ c.total \in Nat
      /\ Latest \in Nat /\ DOMAIN rows = 1 .. Latest /\ rows \in Seq(Payment)
    BY Known DEF SoleRows
<1>1. \A t \in Sessions \ {s} : call[t] = Idle
    BY OthersIdle DEF DropAbandoned, WriteRow, RestorePayment, InsertPayment, At
<1>2. CASE DropAbandoned(s)
    <2> DEFINE x == [c EXCEPT !.at = "giveBack"]
    <2>1. x \in Execution /\ x.at = "giveBack" /\ x.then = c.then /\ x.row = c.row
        BY <1>0 DEF Execution, Steps
    <2>2. c.row \in DOMAIN rows /\ c.row = Latest
        BY <1>0, <1>2 DEF DropAbandoned, At, Grounded, Placed, UsesRow
    <2>3. \/ SetRow(Latest, "failed") /\ Becomes(s, x)
          \/ Becomes(s, Idle) /\ UNCHANGED rows
        BY <1>2, <2>2 DEF DropAbandoned, Goes
    <2>. HIDE DEF x
    <2>4. CASE SetRow(Latest, "failed") /\ Becomes(s, x)
        BY <1>1, <2>1, <2>2, <2>4, LatestWritten DEF PaymentStatuses, UsesRow
    <2>5. CASE Becomes(s, Idle) /\ UNCHANGED rows
        BY <2>5, IdleIsGrounded, IdleIsPlaced, PlacedStep
    <2>. QED
        BY <2>3, <2>4, <2>5
<1>3. CASE WriteRow(s)
    <2> DEFINE x == [c EXCEPT !.at = "setColumn"]
    <2>1. x \in Execution /\ x.at = "setColumn"
        BY <1>0 DEF Execution, Steps
    <2>2. c.row \in DOMAIN rows /\ c.row = Latest
        BY <1>0, <1>3 DEF WriteRow, At, Grounded, Placed, UsesRow
    <2>3. SetRow(Latest, c.result) /\ Becomes(s, x)
        BY <1>3, <2>2 DEF WriteRow, Goes
    <2>. HIDE DEF x
    <2>. QED
        BY <1>0, <1>1, <2>1, <2>2, <2>3, LatestWritten DEF Replacing, UsesRow, Giving
<1>4. CASE RestorePayment(s)
    <2> DEFINE x == [c EXCEPT !.at = "restoreColumn"]
    <2>1. x \in Execution /\ x.at = "restoreColumn"
        BY <1>0 DEF Execution, Steps
    <2>2. \/ rows # <<>> /\ SetRow(Latest, "paid") /\ Becomes(s, x)
          \/ UNCHANGED rows /\ Becomes(s, [c EXCEPT !.at = "reopen"])
        BY <1>4 DEF RestorePayment, Goes
    <2>3. CASE UNCHANGED rows /\ Becomes(s, [c EXCEPT !.at = "reopen"])
        BY <1>0, <2>3, GoesPlaced, PlacedStep DEF Free
    <2>. HIDE DEF x
    <2>4. CASE rows # <<>> /\ SetRow(Latest, "paid") /\ Becomes(s, x)
        <3>1. Latest \in DOMAIN rows
            BY <1>0, <2>4 DEF Latest
        <3>. QED
            BY <1>1, <2>1, <2>4, <3>1, LatestWritten
               DEF Replacing, UsesRow, Giving, PaymentStatuses
    <2>. QED
        BY <2>2, <2>3, <2>4
<1>5. CASE InsertPayment(s)
    <2>1. PICK p \in Providers, st \in PaymentStatuses, n \in Nat :
              AddRow(p, st, n) /\ Becomes(s, [c EXCEPT !.at = "record", !.result = st, !.total = 0])
        <3>1. Payable(s) \in Nat
            BY <1>0, <1>5 DEF InsertPayment, At, Grounded, Payable
        <3>. QED
            BY <1>0, <1>5, <3>1 DEF InsertPayment, Methods, Providers, PaymentStatuses
    <2> DEFINE x == [c EXCEPT !.at = "record", !.result = st, !.total = 0]
    <2>2. x \in Execution /\ x.at = "record"
        BY <1>0 DEF Execution, Steps
    <2>3. Becomes(s, x)
        BY <2>1
    <2>. HIDE DEF x
    <2>4. AllFailed
        BY <1>0, <1>5 DEF InsertPayment, At, Placed, Replacing
    <2>. QED
        BY <1>1, <2>1, <2>2, <2>3, <2>4, LatestAdded DEF Replacing, UsesRow, Giving
<1>. QED
    BY <1>2, <1>3, <1>4, <1>5

LEMMA SoleNext ==
    ASSUME PayInv, SoleRows, OneBusy, [Next]_vars
    PROVE  SoleRows'
<1>1. ASSUME NEW s \in Sessions, Call(s) PROVE SoleRows'
    BY <1>1, StartPlaced, ReadPlaced DEF Call
<1>2. ASSUME NEW s \in Sessions, Continue(s) PROVE SoleRows'
    BY <1>2, StartPlaced, GiveBackPlaced, ReadPlaced, RefundPlaced, WritePlaced DEF Continue
<1>3. CASE UNCHANGED vars \/ Reallocate
    <2>1. UNCHANGED <<rows, call>>
        BY <1>3, OnlyTheVendor DEF vars
    <2>. QED
        BY <2>1 DEF SoleRows, Placed, AllFailed, Replacing, Latest
<1>. QED
    BY <1>1, <1>2, <1>3 DEF Next

(* "Retrying the same way reuses the payment": as long as the calls for an *)
(* order come one at a time, it never has two payments that are alive,     *)
(* whatever was tried, dropped, cancelled or restored before.              *)
THEOREM OneLivePaymentServed == MCSpec => []OneLivePaymentAlone
<1> DEFINE Inv == alone => OneBusy /\ SoleRows
<1>1. MCInit => Inv
    <2>1. Init => OneBusy /\ SoleRows
        BY IdleIsPlaced DEF Init, OneBusy, Busy, SoleRows
    <2>. QED
        BY <2>1 DEF MCInit
<1>2. PayInv /\ Inv /\ [MCNext]_mcVars => Inv'
    <2>1. ASSUME PayInv, Inv, MCNext, alone' PROVE OneBusy' /\ SoleRows'
        <3>1. alone /\ OneBusy'
            BY <2>1 DEF MCNext, OneBusy
        <3>. QED
            BY <2>1, <3>1, SoleNext DEF MCNext
    <2>2. ASSUME PayInv, Inv, UNCHANGED mcVars, alone PROVE OneBusy' /\ SoleRows'
        <3>1. UNCHANGED vars
            BY <2>2 DEF mcVars
        <3>2. OneBusy'
            BY <2>2, <3>1 DEF vars, OneBusy, Busy
        <3>. QED
            BY <2>2, <3>1, <3>2, SoleNext
    <2>. QED
        BY <2>1, <2>2 DEF mcVars
<1>3. Inv => OneLivePaymentAlone
    BY DEF SoleRows, OneLivePaymentAlone, OneLivePayment, Live
<1>4. MCSpec => []PayInv
    <2>1. MCInit => Init
        BY DEF MCInit
    <2>2. [MCNext]_mcVars => [Next]_vars
        BY DEF MCNext, mcVars
    <2>. QED
        BY <2>1, <2>2, PayStart, PayNext, PTL DEF MCSpec
<1>. QED
    BY <1>1, <1>2, <1>3, <1>4, PTL DEF MCSpec

-----------------------------------------------------------------------------
(* What the wallet gives and gets back along one call that nobody          *)
(* interrupts, for the two invariants below.                               *)

Held == rows # <<>> /\ Live(rows[Latest].status)

(* A payment is being made: what the order holds of the wallet is what     *)
(* this call has taken.                                                    *)
Taking(c) ==
    /\ c.at \in {"choose", "debitAll", "writeTx", "readBalance", "debitPart", "insert"}
    /\ ~Held /\ walletPart = 0
    /\ Net = IF c.at = "insert" THEN c.amount ELSE 0
    /\ c.at \in {"debitAll", "writeTx"} => c.method = "wallet"
    /\ c.at \in {"readBalance", "debitPart"} => c.method # "wallet"
    /\ c.at = "readBalance" => c.amount = 0
    /\ c.at = "insert" /\ c.method = "wallet" => c.amount = c.total

(* The wallet gets back what the order holds of it. *)
Returning(c) ==
    \/ c.at = "giveBack" /\ Net >= 0 /\ (Net = 0 => walletPart = 0 /\ c.then = "choose")
    \/ c.at = "credit" /\ c.amount = Net
    \/ c.at = "clear" /\ Net = 0

BackFirst(x) == x.at = "giveBack" /\ x.then = "idle"

ledgerOfOrder == <<rows, walletPart, paid, refunded>>

LEMMA SameLedger ==
    ASSUME UNCHANGED ledgerOfOrder
    PROVE  /\ Held' <=> Held
           /\ Net' = Net
           /\ walletPart' = walletPart
BY DEF ledgerOfOrder, Held, Net, Latest

LEMMA Returned ==
    ASSUME PayInv, NEW s \in Sessions, Returning(call[s]),
           GiveBack(s) \/ Credit(s) \/ ClearWalletPart(s)
    PROVE  /\ UNCHANGED <<status, column, rows>>
           /\ \E x \in Execution :
                 /\ Becomes(s, x)
                 /\ \/ /\ x.at \in {"credit", "clear"} /\ x.then = call[s].then
                       /\ x.result = call[s].result /\ Returning(x)'
                    \/ /\ Net' = 0 /\ walletPart' = 0
                       /\ call[s].then = "idle" => x = Idle
                       /\ call[s].then # "idle" =>
                             x.at = call[s].then /\ x.result = call[s].result
<1> DEFINE c == call[s]
<1>0. /\ c \in Execution /\ c.then \in Steps /\ c.amount \in Nat
      /\ walletPart \in Nat /\ paid \in Nat /\ refunded \in Nat /\ Net \in Int
    BY Known DEF Net
<1>1. UNCHANGED <<status, column, rows>>
    BY DEF GiveBack, Credit, ClearWalletPart, orderVars
<1>2. LET x == [c EXCEPT !.at = c.then, !.amount = 0]
      IN  x \in Execution /\ x.at = c.then /\ x.result = c.result
    BY <1>0 DEF Execution
<1>3. CASE GiveBack(s)
    <2>1. UNCHANGED ledgerOfOrder /\ c.at = "giveBack" /\ Net >= 0
        BY <1>3 DEF GiveBack, ledgerOfOrder, orderVars, ledgerVars, At, Returning
    <2>2. CASE Net > 0
        <3>1. PICK x \in Execution : /\ Becomes(s, x) /\ x.at = "credit" /\ x.then = c.then
                                     /\ x.result = c.result /\ x.amount = Net
            <4> DEFINE y == [c EXCEPT !.at = "credit", !.amount = Net]
            <4>1. Net \in Nat
                BY <1>0, <2>2
            <4>2. /\ y \in Execution /\ y.at = "credit" /\ y.then = c.then
                  /\ y.result = c.result /\ y.amount = Net
                BY <1>0, <4>1 DEF Execution, Steps
            <4>3. Becomes(s, y)
                BY <1>3, <2>2 DEF GiveBack
            <4>. HIDE DEF y
            <4>. QED
                BY <4>2, <4>3
        <3>2. Returning(x)'
            BY <2>1, <3>1, SameLedger DEF Returning
        <3>. QED
            BY <1>1, <3>1, <3>2
    <2>3. CASE ~(Net > 0)
        <3>1. Net = 0 /\ walletPart = 0 /\ c.then = "choose"
            BY <1>0, <2>1, <2>3 DEF Returning
        <3>2. PICK x \in Execution : Becomes(s, x) /\ x.at = c.then /\ x.result = c.result
            BY <1>2, <1>3, <2>3 DEF GiveBack
        <3>. QED
            BY <1>1, <2>1, <3>1, <3>2, SameLedger
    <2>. QED
        BY <2>2, <2>3
<1>4. CASE Credit(s)
    <2>1. PICK x \in Execution : /\ Becomes(s, x) /\ x.at = "clear" /\ x.then = c.then
                                 /\ x.result = c.result
        BY <1>0, <1>4 DEF Credit, Goes, Execution, Steps
    <2>2. c.amount = Net
        BY <1>4 DEF Credit, At, Returning
    <2>3. Net' = 0
        BY <1>0, <1>4, <2>2 DEF Credit, Net
    <2>4. Returning(x)'
        BY <2>1, <2>3 DEF Returning
    <2>. QED
        BY <1>1, <2>1, <2>4
<1>5. CASE ClearWalletPart(s)
    <2>1. Net = 0
        BY <1>5 DEF ClearWalletPart, At, Returning
    <2>2. Net' = 0 /\ walletPart' = 0
        BY <1>5, <2>1 DEF ClearWalletPart, ledgerVars, Net
    <2>3. CASE c.then = "idle"
        BY <1>1, <1>5, <2>2, <2>3, IdleIsGrounded DEF ClearWalletPart
    <2>4. CASE c.then # "idle"
        <3>1. PICK x \in Execution : Becomes(s, x) /\ x.at = c.then /\ x.result = c.result
            BY <1>2, <1>5, <2>4 DEF ClearWalletPart
        <3>. QED
            BY <1>1, <2>2, <2>4, <3>1
    <2>. QED
        BY <2>3, <2>4
<1>. QED
    BY <1>3, <1>4, <1>5

LEMMA Taken ==
    ASSUME PayInv, NEW s \in Sessions, Taking(call[s]),
           \/ ChooseMethod(s) \/ DebitAll(s) \/ WriteTransaction(s) \/ ReadBalance(s)
           \/ DebitPart(s) \/ ProviderFails(s)
    PROVE  /\ UNCHANGED <<status, column, rows, walletPart>>
           /\ \/ Becomes(s, Idle) /\ Net' = 0
              \/ \E x \in Execution :
                    /\ Becomes(s, x)
                    /\ Taking(x)' \/ (BackFirst(x) /\ Net' > 0)
<1> DEFINE c == call[s]
<1>0. /\ c \in Execution /\ c.amount \in Nat /\ c.method \in Methods
      /\ c.useWallet \in BOOLEAN /\ balance \in Nat
      /\ walletPart \in Nat /\ paid \in Nat /\ refunded \in Nat /\ c.total \in Nat
    BY Known
<1>4. walletPart = 0 /\ ~Held
    BY DEF Taking
<1>5. UNCHANGED <<status, column, rows, walletPart>> /\ walletPart' = 0 /\ ~Held'
    BY <1>4
       DEF ChooseMethod, DebitAll, WriteTransaction, ReadBalance, DebitPart,
           ProviderFails,
                orderVars, Held, Latest
<1>7. CASE ChooseMethod(s)
    <2>1. Net' = 0
        BY <1>7 DEF ChooseMethod, At, Taking, ledgerVars, Net
    <2> DEFINE all == [Idle EXCEPT !.at = "debitAll", !.method = "wallet",
                               !.total = c.total]
               y == [c EXCEPT !.at = IF c.useWallet THEN "readBalance" ELSE "insert",
                              !.then = "idle", !.row = 0, !.amount = 0]
    <2>2. all \in Execution /\ all.at = "debitAll" /\ all.method = "wallet"
        <3>1. c.total \in Nat
            BY <1>0
        <3>2. \A n \in Nat : LET x == [Idle EXCEPT !.at = "debitAll", !.method = "wallet",
                                                    !.total = n]
                              IN  x \in Execution /\ x.at = "debitAll" /\ x.method = "wallet"
            BY DEF Idle, Execution, Steps, Methods, PaymentStatuses
        <3>. QED
            BY <3>1, <3>2
    <2>3. /\ y \in Execution /\ y.at \in {"readBalance", "insert"}
          /\ y.amount = 0 /\ y.method = c.method
        BY <1>0 DEF Execution, Steps
    <2>4. Becomes(s, Idle) \/ Becomes(s, all) \/ (c.method # "wallet" /\ Becomes(s, y))
        BY <1>7 DEF ChooseMethod
    <2>. HIDE DEF all, y
    <2>5. ASSUME NEW x \in Execution, x = all PROVE Taking(x)'
        BY <1>5, <2>1, <2>2, <2>5 DEF Taking
    <2>6. ASSUME NEW x \in Execution, x = y, c.method # "wallet" PROVE Taking(x)'
        BY <1>5, <2>1, <2>3, <2>6 DEF Taking
    <2>8. CASE Becomes(s, all)
        <3>1. PICK x \in Execution : x = all
            BY <2>2
        <3>. QED
            BY <1>5, <2>5, <2>8, <3>1
    <2>9. CASE c.method # "wallet" /\ Becomes(s, y)
        <3>1. PICK x \in Execution : x = y
            BY <2>3
        <3>. QED
            BY <1>5, <2>6, <2>9, <3>1
    <2>. QED
        BY <1>5, <2>1, <2>4, <2>8, <2>9
<1>8. CASE DebitAll(s)
    <2>1. Net' = 0 /\ c.method = "wallet"
        BY <1>8 DEF DebitAll, At, Taking, Net
    <2>3. CASE Goes(s, "writeTx")
        <3>1. PICK x \in Execution : /\ Becomes(s, x) /\ x.at = "writeTx"
                                     /\ x.method = "wallet"
            <4> DEFINE y == [c EXCEPT !.at = "writeTx"]
            <4>1. y \in Execution /\ y.at = "writeTx" /\ y.method = "wallet" /\ Becomes(s, y)
                BY <1>0, <2>1, <2>3 DEF Execution, Steps, Goes
            <4>. HIDE DEF y
            <4>. QED
                BY <4>1
        <3>2. Taking(x)'
            BY <1>5, <2>1, <3>1 DEF Taking
        <3>. QED
            BY <1>5, <3>1, <3>2
    <2>. QED
        BY <1>5, <1>8, <2>1, <2>3 DEF DebitAll
<1>9. CASE WriteTransaction(s)
    <2>1. Net = 0 /\ c.method = "wallet"
        BY <1>9 DEF WriteTransaction, At, Taking
    <2>2. Net' = c.total
        BY <1>0, <1>9, <2>1 DEF WriteTransaction, Net
    <2>3. PICK x \in Execution : /\ Becomes(s, x) /\ x.at = "insert"
                                 /\ x.method = "wallet" /\ x.amount = c.total
                                 /\ x.total = c.total
        <3> DEFINE y == [c EXCEPT !.at = "insert", !.amount = c.total]
        <3>1. /\ y \in Execution /\ y.at = "insert" /\ y.method = "wallet" /\ y.amount = c.total
              /\ y.total = c.total
            BY <1>0, <2>1 DEF Execution, Steps
        <3>2. Becomes(s, y)
            BY <1>9 DEF WriteTransaction
        <3>. HIDE DEF y
        <3>. QED
            BY <3>1, <3>2
    <2>4. Taking(x)'
        BY <1>5, <2>2, <2>3 DEF Taking
    <2>. QED
        BY <1>5, <2>3, <2>4
<1>10. CASE ReadBalance(s)
    <2>1. Net' = 0 /\ c.method # "wallet" /\ c.amount = 0
        BY <1>10 DEF ReadBalance, At, Taking, ledgerVars, Net
    <2>2. PICK x \in Execution :
              /\ Becomes(s, x) /\ x.method = c.method
              /\ \/ x.at = "insert" /\ x.amount = 0
                 \/ x.at = "debitPart"
        <3> DEFINE y == [c EXCEPT !.at = "insert"]
                   z == [c EXCEPT !.at = "debitPart", !.amount = FromWallet(s)]
        <3>1. FromWallet(s) \in Nat
            BY <1>0 DEF FromWallet
        <3>2. y \in Execution /\ y.at = "insert" /\ y.amount = 0 /\ y.method = c.method
            BY <1>0, <2>1 DEF Execution, Steps
        <3>3. z \in Execution /\ z.at = "debitPart" /\ z.method = c.method
            BY <1>0, <3>1 DEF Execution, Steps
        <3>4. Becomes(s, y) \/ Becomes(s, z)
            BY <1>10 DEF ReadBalance
        <3>. HIDE DEF y, z
        <3>. QED
            BY <3>2, <3>3, <3>4
    <2>y. PICK m : m = c.method
        OBVIOUS
    <2>3. Taking(x)'
        BY <1>5, <2>1, <2>2, <2>y DEF Taking
    <2>. QED
        BY <1>5, <2>2, <2>3
<1>11. CASE DebitPart(s)
    <2>1. Net = 0 /\ c.method # "wallet"
        BY <1>11 DEF DebitPart, At, Taking
    <2>2. CASE Becomes(s, Idle) /\ UNCHANGED <<balance, paid>>
        BY <1>5, <1>11, <2>1, <2>2 DEF DebitPart, Net
    <2>3. CASE paid' = paid + c.amount /\ Goes(s, "insert")
        <3>1. Net' = c.amount
            BY <1>0, <1>11, <2>1, <2>3 DEF DebitPart, Net
        <3>2. PICK x \in Execution : /\ Becomes(s, x) /\ x.at = "insert"
                                     /\ x.method # "wallet" /\ x.amount = c.amount
            <4> DEFINE y == [c EXCEPT !.at = "insert"]
            <4>1. /\ y \in Execution /\ y.at = "insert" /\ y.method # "wallet"
                  /\ y.amount = c.amount /\ Becomes(s, y)
                BY <1>0, <2>1, <2>3 DEF Execution, Steps, Goes
            <4>. HIDE DEF y
            <4>. QED
                BY <4>1
        <3>3. Taking(x)'
            BY <1>5, <3>1, <3>2 DEF Taking
        <3>. QED
            BY <1>5, <3>2, <3>3
    <2>. QED
        BY <1>11, <2>2, <2>3 DEF DebitPart
<1>13. CASE ProviderFails(s)
    <2>1. Net' = c.amount
        BY <1>13 DEF ProviderFails, At, Taking, ledgerVars, Net
    <2>2. CASE c.amount > 0
        <3>1. PICK x \in Execution : Becomes(s, x) /\ BackFirst(x)
            BY <1>13, <2>2, GivesBack DEF ProviderFails, Idle, BackFirst
        <3>. QED
            BY <1>5, <2>1, <2>2, <3>1
    <2>3. CASE ~(c.amount > 0)
        BY <1>0, <1>5, <1>13, <2>1, <2>3 DEF ProviderFails
    <2>. QED
        BY <2>2, <2>3
<1>. QED
    BY <1>7, <1>8, <1>9, <1>10, <1>11, <1>13

(* The payments row is written, for what the wallet has not given. *)
LEMMA Inserted ==
    ASSUME PayInv, NEW s \in Sessions, Taking(call[s]), InsertPayment(s)
    PROVE  /\ UNCHANGED <<status, column, walletPart>>
           /\ \E x \in Execution, p \in Providers, st \in {"paid", "pending_cod", "pending"},
                 n \in Nat :
                 /\ Becomes(s, x) /\ x.at = "record" /\ x.result = st /\ x.amount = Net'
                 /\ rows' # <<>>
                 /\ (rows[Latest])' = [provider |-> p, status |-> st, amount |-> n]
                 /\ IF p = "wallet" THEN st = "paid" /\ n = Net' /\ n = call[s].total
                    ELSE st # "paid" /\ Net' + n = call[s].total
<1> DEFINE c == call[s]
<1>0. /\ c \in Execution /\ c.amount \in Nat /\ c.method \in Methods /\ c.total \in Nat
    BY Known
<1>1. Net = c.amount /\ (c.method = "wallet" => c.amount = c.total)
    BY DEF InsertPayment, At, Taking
<1>2. Payable(s) \in Nat /\ Payable(s) = c.total - c.amount
    BY <1>0, Known DEF InsertPayment, At, Grounded, Payable
<1>3. PICK p \in Providers, st \in {"paid", "pending_cod", "pending"}, n \in Nat :
          /\ AddRow(p, st, n) /\ Becomes(s, [c EXCEPT !.at = "record", !.result = st, !.total = 0])
          /\ IF p = "wallet" THEN st = "paid" /\ n = c.amount /\ n = c.total
             ELSE st # "paid" /\ c.amount + n = c.total
    <2>1. CASE c.method = "wallet"
        <3>1. /\ AddRow("wallet", "paid", c.total)
              /\ Becomes(s, [c EXCEPT !.at = "record", !.result = "paid", !.total = 0])
            BY <2>1 DEF InsertPayment
        <3>. QED
            BY <1>0, <1>1, <2>1, <3>1 DEF Providers
    <2>2. CASE c.method = "cod"
        <3>1. /\ AddRow("cod", "pending_cod", Payable(s))
              /\ Becomes(s, [c EXCEPT !.at = "record", !.result = "pending_cod", !.total = 0])
            BY <2>2 DEF InsertPayment
        <3>. QED
            BY <1>0, <1>2, <3>1 DEF Providers
    <2>3. CASE c.method = "online"
        <3>1. /\ AddRow("upi", "pending", Payable(s))
              /\ Becomes(s, [c EXCEPT !.at = "record", !.result = "pending", !.total = 0])
            BY <2>3 DEF InsertPayment
        <3>. QED
            BY <1>0, <1>2, <3>1 DEF Providers
    <2>. QED
        BY <1>0, <2>1, <2>2, <2>3 DEF Methods
<1>4. /\ rows \in Seq(Payment)
      /\ [provider |-> p, status |-> st, amount |-> n] \in Payment
      /\ rows' = Append(rows, [provider |-> p, status |-> st, amount |-> n])
    BY <1>3, Known DEF AddRow, Payment, PaymentStatuses
<1>5. /\ rows' # <<>> /\ (rows[Latest])' = [provider |-> p, status |-> st, amount |-> n]
    BY <1>4 DEF Latest
<1>6. Net' = c.amount /\ UNCHANGED <<status, column, walletPart>>
    BY <1>1 DEF InsertPayment, orderVars, ledgerVars, Net
<1>7. PICK x \in Execution : /\ Becomes(s, x) /\ x.at = "record"
                             /\ x.result = st /\ x.amount = c.amount
    <2> DEFINE y == [c EXCEPT !.at = "record", !.result = st, !.total = 0]
    <2>1. y \in Execution /\ y.at = "record" /\ y.result = st /\ y.amount = c.amount
        BY <1>0 DEF Execution, Steps, PaymentStatuses
    <2>2. Becomes(s, y)
        BY <1>3
    <2>. HIDE DEF y
    <2>. QED
        BY <2>1, <2>2
<1>. QED
    BY <1>3, <1>5, <1>6, <1>7

-----------------------------------------------------------------------------
(* The money adds up, as long as calls come one at a time and the order is *)
(* not cancelled.  Between calls the wallet part on record is what the     *)
(* order holds of the wallet, and with a live payment it makes the total;  *)
(* in a call, what is known depends on the step it is at.                  *)

Unpaid == column \notin {"paid", "pending_cod"}

Matched ==
    /\ Held
    /\ Net + RowMoney = priced
    /\ rows[Latest].status \in {"pending", "pending_cod", "paid"}

Settled ==
    /\ walletPart = Net
    /\ Held => Matched
    /\ ~Held => Net = 0 /\ Unpaid
    /\ Held /\ rows[Latest].status = "pending" => Unpaid

SoundWrite(c) ==
    \/ /\ c.at = "write" /\ Settled /\ Held
       /\ \/ c.result = "paid" /\ c.then = "idle"
          \/ c.result = "failed" /\ c.then = "checkWallet" /\ Unpaid
    \/ /\ c.at = "setColumn" /\ walletPart = Net
       /\ \/ c.result = "paid" /\ c.then = "idle" /\ Matched /\ rows[Latest].status = "paid"
          \/ c.result = "failed" /\ c.then = "checkWallet" /\ ~Held
    \/ c.at = "checkWallet" /\ ~Held /\ Unpaid /\ walletPart = Net

SoundGiving(c) == c.then \in {"idle", "choose"} /\ ~Held /\ Unpaid /\ Returning(c)

SoundStart(c) == Taking(c) /\ Unpaid

Sound(c) ==
    \/ c.at \in {"drop", "cancel"} /\ Settled /\ (c.at = "drop" => c.then = "choose")
    \/ SoundWrite(c)
    \/ SoundGiving(c)
    \/ SoundStart(c)
    \/ c.at = "record" /\ Matched /\ Net = c.amount /\ c.result = rows[Latest].status

Money ==
    /\ Quiet => Settled
    /\ \A s \in Sessions : call[s] # Idle => Sound(call[s])

moneyVars == <<rows, column, walletPart, paid, refunded, priced>>

(* What a call that is alone does to the price on record. *)
Pricing ==
    /\ Len(rows') = Len(rows) => priced' = priced
    /\ \A s \in Sessions : InsertPayment(s) => priced' = call[s].total

LEMMA SameMoney ==
    ASSUME UNCHANGED moneyVars
    PROVE  /\ Settled' <=> Settled
           /\ Held' <=> Held
           /\ Matched' <=> Matched
           /\ Unpaid' <=> Unpaid
           /\ Net' = Net
           /\ walletPart' = walletPart
           /\ (rows[Latest].status)' = rows[Latest].status
BY DEF moneyVars, Settled, Held, Matched, Unpaid, Net, RowMoney, Latest

(* The one call there is goes on as x. *)
LEMMA MoneyStep ==
    ASSUME PayInv, NEW s \in Sessions, NEW x \in Execution, Becomes(s, x),
           \A t \in Sessions \ {s} : call[t] = Idle,
           x = Idle => Settled', x # Idle => Sound(x)'
    PROVE  Money'
<1>1. \A t \in Sessions : call'[t] = IF t = s THEN x ELSE Idle
    BY DEF PayInv, TypeOK, Becomes
<1>2. Quiet' => Settled'
    BY <1>1 DEF Quiet
<1>3. ASSUME NEW t \in Sessions, call'[t] # Idle PROVE Sound(call[t])'
    <2>1. t = s /\ call'[t] = x
        BY <1>1, <1>3
    <2>. QED
        BY <1>3, <2>1 DEF Sound, SoundWrite, SoundGiving, SoundStart, Returning, Taking
<1>. QED
    BY <1>2, <1>3 DEF Money

(* A call that starts is the only one. *)
LEMMA CallerAlone ==
    ASSUME PayInv, OneBusy', Money, NEW s \in Sessions, NEW x, x # Idle,
           call[s] = Idle, Becomes(s, x)
    PROVE  /\ \A t \in Sessions \ {s} : call[t] = Idle
           /\ Settled
<1>1. \A t \in Sessions : call'[t] = IF t = s THEN x ELSE call[t]
    BY DEF PayInv, TypeOK, Becomes
<1>2. \A t \in Sessions \ {s} : call[t] = Idle
    BY <1>1 DEF OneBusy, Busy
<1>. QED
    BY <1>2 DEF Money, Quiet

(* The calls: each starts from settled money. *)
LEMMA MoneyCalls ==
    ASSUME PayInv, SoleRows, Money, OneBusy', Pricing, NEW s \in Sessions,
           Initiate(s) \/ ConfirmByCustomer(s) \/ Reconcile(s) \/ MarkRefunded(s) \/ Cancel(s)
    PROVE  Money'
<1>0. /\ Latest \in Nat /\ DOMAIN rows = 1 .. Latest /\ DOMAIN rows \subseteq Nat
      /\ \A i \in DOMAIN rows : rows[i] \in Payment
    BY Known
<1>1. call[s] = Idle /\ UNCHANGED moneyVars
    BY DEF Initiate, ConfirmByCustomer, Reconcile, MarkRefunded, Cancel, Starts, moneyVars,
           orderVars, ledgerVars, Pricing
<1>2. ASSUME NEW x \in Execution, x.at # "idle", Becomes(s, x),
             Settled => Sound(x)'
      PROVE  Money'
    <2>1. x # Idle
        BY <1>2 DEF Idle
    <2>. QED
        BY <1>1, <1>2, <2>1, CallerAlone, MoneyStep
<1>3. CASE Initiate(s)
    <2>1. PICK m \in Methods, w \in BOOLEAN :
              \/ ~Held /\ Becomes(s, Paying(m, w))
              \/ Becomes(s, [Paying(m, w) EXCEPT !.at = "drop", !.row = Latest,
                                                 !.then = "choose"])
        BY <1>3 DEF Initiate, Starts, Held
    <2>2. CASE ~Held /\ Becomes(s, Paying(m, w))
        <3>1. PICK x \in Execution : x.at = "choose" /\ Becomes(s, x)
            BY <2>2, PayingStarts
        <3>2. Settled => Sound(x)'
            BY <1>1, <2>2, <3>1, SameMoney DEF Sound, SoundStart, Taking, Settled
        <3>. QED
            BY <1>2, <3>1, <3>2
    <2>3. CASE Becomes(s, [Paying(m, w) EXCEPT !.at = "drop", !.row = Latest,
                                              !.then = "choose"])
        <3>1. PICK x \in Execution : x.at = "drop" /\ x.then = "choose" /\ Becomes(s, x)
            BY <2>3, PayingStarts
        <3>2. Settled => Sound(x)'
            BY <1>1, <3>1, SameMoney DEF Sound
        <3>. QED
            BY <1>2, <3>1, <3>2
    <2>. QED
        BY <2>1, <2>2, <2>3
<1>4. CASE ConfirmByCustomer(s)
    <2>1. PICK x \in Execution :
              /\ x.at = "write" /\ x.result = "paid" /\ x.then = "idle" /\ Becomes(s, x)
        <3>1. Latest \in DOMAIN rows /\ Becomes(s, Writing(Latest, "paid"))
            BY <1>0, <1>4 DEF ConfirmByCustomer, Starts, Latest
        <3>. QED
            BY <1>0, <3>1, WritingIsGrounded DEF PaymentStatuses
    <2>2. Held
        BY <1>4 DEF ConfirmByCustomer, Held, Live
    <2>3. Settled => Sound(x)'
        BY <1>1, <2>1, <2>2, SameMoney DEF Sound, SoundWrite
    <2>. QED
        BY <1>2, <2>1, <2>3
<1>5. CASE Reconcile(s)
    <2>1. PICK i \in DOMAIN rows :
              /\ rows[i].status = "pending"
              /\ \/ Becomes(s, Writing(i, "paid"))
                 \/ Becomes(s, [Writing(i, "failed") EXCEPT !.then = "checkWallet"])
        BY <1>5 DEF Reconcile, Starts
    <2>2. i = Latest /\ Held /\ rows[Latest].status = "pending"
        BY <2>1 DEF SoleRows, Held, Live
    <2>3. PICK x \in Execution :
              /\ x.at = "write" /\ Becomes(s, x)
              /\ \/ x.result = "paid" /\ x.then = "idle"
                 \/ x.result = "failed" /\ x.then = "checkWallet"
        <3>1. ASSUME NEW st \in {"paid", "failed"}
              PROVE  /\ Writing(i, st) \in Execution /\ Writing(i, st).at = "write"
                     /\ Writing(i, st).then = "idle" /\ Writing(i, st).result = st
            BY <1>0, WritingIsGrounded DEF PaymentStatuses
        <3>2. LET y == [Writing(i, "failed") EXCEPT !.then = "checkWallet"]
              IN  y \in Execution /\ y.at = "write" /\ y.result = "failed"
                  /\ y.then = "checkWallet"
            BY <3>1 DEF Execution, Steps
        <3>. QED
            BY <2>1, <3>1, <3>2
    <2>4. Settled => Sound(x)'
        BY <1>1, <2>2, <2>3, SameMoney DEF Sound, SoundWrite, Settled
    <2>. QED
        BY <1>2, <2>3, <2>4
<1>6. CASE MarkRefunded(s)
    <2>1. PICK i \in DOMAIN rows :
              rows[i].status = "refund_pending" /\ Becomes(s, Writing(i, "refunded"))
        BY <1>6 DEF MarkRefunded, Starts
    <2>2. /\ Writing(i, "refunded") \in Execution
          /\ Writing(i, "refunded").at = "write"
        BY <1>0, WritingIsGrounded DEF PaymentStatuses
    <2>3. i = Latest
        BY <2>1 DEF SoleRows
    <2>4. Held /\ ~Matched
        BY <2>1, <2>3 DEF Held, Live, Matched
    <2>5. ~Settled
        BY <2>4 DEF Settled
    <2>. QED
        BY <1>2, <2>1, <2>2, <2>5
<1>7. CASE Cancel(s)
    <2>1. PICK x \in Execution : x.at = "cancel" /\ Becomes(s, x)
        BY <1>7, IdleAtIsGrounded DEF Cancel, Starts, Idle, Execution, Steps, Methods,
                                     PaymentStatuses
    <2>2. Settled => Sound(x)'
        BY <1>1, <2>1, SameMoney DEF Sound
    <2>. QED
        BY <1>2, <2>1, <2>2
<1>. QED
    BY <1>3, <1>4, <1>5, <1>6, <1>7

(* The facts a call goes on with. *)
LEMMA GoesOn ==
    ASSUME PayInv, SoleRows, Money, OneBusy, NEW s \in Sessions, call[s].at # "idle"
    PROVE  /\ Sound(call[s]) /\ Placed(call[s])
           /\ \A t \in Sessions \ {s} : call[t] = Idle
           /\ Net \in Int
<1>1. call[s] # Idle
    BY DEF Idle
<1>2. Net \in Int
    BY Known DEF Net
<1>. QED
    BY <1>1, <1>2, OthersIdle DEF Money, SoleRows

LEMMA MoneyGiving ==
    ASSUME PayInv, SoleRows, Money, OneBusy, NEW s \in Sessions,
           GiveBack(s) \/ Credit(s) \/ ClearWalletPart(s)
    PROVE  Money'
<1> DEFINE c == call[s]
<1>1. c.at \in Giving
    BY DEF GiveBack, Credit, ClearWalletPart, At, Giving
<1>2. /\ Sound(c) /\ Net \in Int
      /\ \A t \in Sessions \ {s} : call[t] = Idle
    BY <1>1, GoesOn DEF Giving
<1>3. SoundGiving(c)
    BY <1>1, <1>2 DEF Sound, SoundWrite, SoundStart, Taking, Giving
<1>4. PICK x \in Execution :
          /\ Becomes(s, x) /\ UNCHANGED <<column, rows>>
          /\ \/ /\ x.at \in {"credit", "clear"} /\ x.then = c.then /\ Returning(x)'
             \/ /\ Net' = 0 /\ walletPart' = 0
                /\ c.then = "idle" => x = Idle
                /\ c.then # "idle" => x.at = c.then
    BY <1>3, Returned DEF SoundGiving
<1>5. ~Held' /\ Unpaid' /\ c.then \in {"idle", "choose"}
    BY <1>3, <1>4 DEF SoundGiving, Held, Unpaid, Latest
<1>6. CASE x.at \in {"credit", "clear"} /\ x.then = c.then /\ Returning(x)'
    <2>1. x.then \in {"idle", "choose"}
        BY <1>5, <1>6
    <2>2. Sound(x)' /\ x # Idle
        BY <1>5, <1>6, <2>1 DEF Sound, SoundGiving, Idle
    <2>. QED
        BY <1>2, <1>4, <2>2, MoneyStep
<1>7. CASE Net' = 0 /\ walletPart' = 0 /\ c.then = "idle" /\ x = Idle
    <2>1. Settled'
        BY <1>5, <1>7 DEF Settled
    <2>. QED
        BY <1>2, <1>4, <1>7, <2>1, MoneyStep
<1>8. CASE Net' = 0 /\ walletPart' = 0 /\ x.at = "choose"
    <2>1. Sound(x)' /\ x # Idle
        BY <1>5, <1>8 DEF Sound, SoundStart, Taking, Idle
    <2>. QED
        BY <1>2, <1>4, <2>1, MoneyStep
<1>. QED
    BY <1>4, <1>5, <1>6, <1>7, <1>8

(* What SetRow does to the money that the latest payment brings. *)
LEMMA LatestSet ==
    ASSUME PayInv, NEW st \in PaymentStatuses, Latest \in DOMAIN rows, SetRow(Latest, st)
    PROVE  /\ Latest' = Latest /\ rows' # <<>> /\ rows # <<>>
           /\ rows'[Latest].status = st
           /\ rows'[Latest].provider = rows[Latest].provider
           /\ rows'[Latest].amount = rows[Latest].amount
           /\ RowMoney' = RowMoney
           /\ Held' <=> st # "failed"
<1>1. rows \in Seq(Payment) /\ rows[Latest] \in Payment
    BY DEF PayInv, TypeOK
<1>2. rows' = [rows EXCEPT ![Latest] =
          [provider |-> rows[Latest].provider, status |-> st, amount |-> rows[Latest].amount]]
    <2>1. [rows[Latest] EXCEPT !.status = st] =
              [provider |-> rows[Latest].provider, status |-> st, amount |-> rows[Latest].amount]
        BY <1>1 DEF Payment
    <2>. QED
        BY <2>1 DEF SetRow
<1>3. /\ rows'[Latest].status = st
      /\ rows'[Latest].provider = rows[Latest].provider
      /\ rows'[Latest].amount = rows[Latest].amount
    BY <1>1, <1>2
<1>4. Latest' = Latest
    BY StatusWritten DEF Latest
<1>5. rows # <<>> /\ rows' # <<>>
    <2>1. DOMAIN rows' = DOMAIN rows
        BY StatusWritten
    <2>. QED
        BY <2>1
<1>. QED
    BY <1>3, <1>4, <1>5 DEF RowMoney, Held, Live

LEMMA MoneyWrites ==
    ASSUME PayInv, SoleRows, Money, OneBusy, Pricing, NEW s \in Sessions,
           DropAbandoned(s) \/ WriteRow(s) \/ SetColumn(s) \/ CheckWalletPart(s)
    PROVE  Money'
<1> DEFINE c == call[s]
<1>0. /\ c \in Execution /\ Grounded(c) /\ c.result \in PaymentStatuses
      /\ walletPart \in Nat /\ paid \in Nat /\ refunded \in Nat
    BY Known
<1>1. c.at \in {"drop", "write", "setColumn", "checkWallet"}
    BY DEF DropAbandoned, WriteRow, SetColumn, CheckWalletPart, At
<1>2. /\ Sound(c) /\ Placed(c) /\ Net \in Int
      /\ \A t \in Sessions \ {s} : call[t] = Idle
    BY <1>1, GoesOn
<1>3. CASE DropAbandoned(s)
    <2>1. c.at = "drop" /\ c.then = "choose" /\ Settled
        BY <1>2, <1>3
           DEF DropAbandoned, At, Sound, SoundWrite, SoundGiving, SoundStart, Returning,
               Taking
    <2>2. c.row = Latest /\ Latest \in DOMAIN rows
        BY <1>0, <1>2, <2>1 DEF Grounded, Placed, UsesRow
    <2>3. UNCHANGED <<column, walletPart, paid, refunded>>
        BY <1>3 DEF DropAbandoned, orderVars, ledgerVars
    <2>4. CASE Becomes(s, Idle) /\ UNCHANGED rows
        BY <1>2, <2>1, <2>3, <2>4, SameMoney, IdleIsGrounded, MoneyStep DEF moneyVars, Pricing
    <2>5. CASE Droppable(Latest) /\ SetRow(Latest, "failed") /\ Goes(s, "giveBack")
        <3>1. ~Held' /\ Held
            BY <2>2, <2>5, LatestSet DEF PaymentStatuses, Droppable, Held, Live
        <3>2. Unpaid
            BY <2>1, <2>5, <3>1 DEF Droppable, Settled
        <3>3. Unpaid' /\ Net' = Net /\ walletPart' = walletPart /\ walletPart = Net
            BY <2>1, <2>3, <3>2 DEF Unpaid, Net, Settled
        <3>4. PICK x \in Execution : Becomes(s, x) /\ x.at = "giveBack" /\ x.then = "choose"
            <4> DEFINE y == [c EXCEPT !.at = "giveBack"]
            <4>1. y \in Execution /\ y.at = "giveBack" /\ y.then = "choose" /\ Becomes(s, y)
                BY <1>0, <2>1, <2>5 DEF Execution, Steps, Goes
            <4>. HIDE DEF y
            <4>. QED
                BY <4>1
        <3>5. x # Idle /\ Sound(x)'
            BY <1>0, <3>1, <3>3, <3>4 DEF Sound, SoundGiving, Returning, Idle
        <3>. QED
            BY <1>2, <3>4, <3>5, MoneyStep
    <2>. QED
        BY <1>3, <2>2, <2>4, <2>5 DEF DropAbandoned
<1>4. CASE WriteRow(s)
    <2>1. /\ c.at = "write" /\ Settled /\ Held
          /\ \/ c.result = "paid" /\ c.then = "idle"
             \/ c.result = "failed" /\ c.then = "checkWallet" /\ Unpaid
        BY <1>2, <1>4
           DEF WriteRow, At, Sound, SoundWrite, SoundGiving, SoundStart, Returning, Taking
    <2>2. c.row = Latest /\ Latest \in DOMAIN rows
        BY <1>0, <1>2, <2>1 DEF Grounded, Placed, UsesRow
    <2>3. /\ Latest' = Latest /\ rows'[Latest].status = c.result
          /\ RowMoney' = RowMoney /\ (Held' <=> c.result # "failed")
          /\ priced' = priced
        BY <1>0, <1>4, <2>2, LatestSet, StatusWritten DEF WriteRow, Pricing
    <2>4. Net' = Net /\ walletPart' = Net'
        BY <1>4, <2>1 DEF WriteRow, orderVars, ledgerVars, Net, Settled
    <2>5. PICK x \in Execution : /\ Becomes(s, x) /\ x.at = "setColumn"
                                 /\ x.result = c.result /\ x.then = c.then
        <3> DEFINE y == [c EXCEPT !.at = "setColumn"]
        <3>1. y \in Execution /\ y.at = "setColumn" /\ y.result = c.result /\ y.then = c.then
            BY <1>0 DEF Execution, Steps
        <3>2. Becomes(s, y)
            BY <1>4 DEF WriteRow, Goes
        <3>. HIDE DEF y
        <3>. QED
            BY <3>1, <3>2
    <2>6. CASE c.result = "paid" /\ c.then = "idle"
        <3>1. Matched' /\ (rows[Latest].status)' = "paid"
            BY <2>1, <2>3, <2>4, <2>6 DEF Settled, Matched
        <3>2. x # Idle /\ Sound(x)'
            BY <2>4, <2>5, <2>6, <3>1 DEF Sound, SoundWrite, Idle
        <3>. QED
            BY <1>2, <2>5, <3>2, MoneyStep
    <2>7. CASE c.result = "failed" /\ c.then = "checkWallet"
        <3>1. x # Idle /\ Sound(x)'
            BY <2>3, <2>4, <2>5, <2>7 DEF Sound, SoundWrite, Idle
        <3>. QED
            BY <1>2, <2>5, <3>1, MoneyStep
    <2>. QED
        BY <2>1, <2>6, <2>7
<1>5. CASE SetColumn(s)
    <2>1. /\ c.at = "setColumn" /\ walletPart = Net
          /\ \/ c.result = "paid" /\ c.then = "idle" /\ Matched /\ rows[Latest].status = "paid"
             \/ c.result = "failed" /\ c.then = "checkWallet" /\ ~Held
        BY <1>2, <1>5
           DEF SetColumn, At, Sound, SoundWrite, SoundGiving, SoundStart, Returning,
               Taking
    <2>2. /\ column' = c.result /\ walletPart' = Net' /\ Net' = Net
          /\ rows' = rows /\ Held' = Held /\ Matched' = Matched
        BY <1>5, <2>1 DEF SetColumn, ledgerVars, Net, Held, Matched, RowMoney, Latest, Pricing
    <2>3. CASE c.result = "paid" /\ c.then = "idle"
        <3>1. Becomes(s, Idle)
            BY <1>5, <2>3 DEF SetColumn, Idle
        <3>2. Settled'
            BY <2>1, <2>2, <2>3 DEF Settled, Matched, Latest
        <3>. QED
            BY <1>2, <3>1, <3>2, IdleIsGrounded, MoneyStep
    <2>4. CASE c.result = "failed" /\ c.then = "checkWallet"
        <3>1. PICK x \in Execution : Becomes(s, x) /\ x.at = "checkWallet"
            <4> DEFINE y == [Idle EXCEPT !.at = "checkWallet"]
            <4>1. y \in Execution /\ y.at = "checkWallet"
                BY DEF Idle, Execution, Steps, Methods, PaymentStatuses
            <4>2. Becomes(s, y)
                BY <1>5, <2>4 DEF SetColumn
            <4>. HIDE DEF y
            <4>. QED
                BY <4>1, <4>2
        <3>2. x # Idle /\ Sound(x)'
            BY <2>1, <2>2, <2>4, <3>1 DEF Sound, SoundWrite, Unpaid, Idle
        <3>. QED
            BY <1>2, <3>1, <3>2, MoneyStep
    <2>. QED
        BY <2>1, <2>3, <2>4
<1>6. CASE CheckWalletPart(s)
    <2>1. c.at = "checkWallet" /\ ~Held /\ Unpaid /\ walletPart = Net
        BY <1>2, <1>6
           DEF CheckWalletPart, At, Sound, SoundWrite, SoundGiving, SoundStart,
               Returning, Taking
    <2>2. UNCHANGED moneyVars
        BY <1>6 DEF CheckWalletPart, moneyVars, orderVars, ledgerVars, Pricing
    <2>3. CASE walletPart > 0
        <3>1. PICK x \in Execution : Becomes(s, x) /\ x.at = "giveBack" /\ x.then = "idle"
            BY <1>6, <2>3, GivesBack DEF CheckWalletPart, Idle
        <3>2. ~Held' /\ Unpaid' /\ Net' >= 0 /\ Net' # 0
            BY <1>2, <2>1, <2>2, <2>3, SameMoney
        <3>3. x # Idle /\ Sound(x)'
            BY <3>1, <3>2 DEF Sound, SoundGiving, Returning, Idle
        <3>. QED
            BY <1>2, <3>1, <3>3, MoneyStep
    <2>4. CASE ~(walletPart > 0)
        <3>1. Settled
            BY <1>0, <2>1, <2>4 DEF Settled
        <3>. QED
            BY <1>2, <1>6, <2>2, <2>4, <3>1, SameMoney, IdleIsGrounded, MoneyStep
               DEF CheckWalletPart
    <2>. QED
        BY <2>3, <2>4
<1>. QED
    BY <1>3, <1>4, <1>5, <1>6

LEMMA MoneyStarts ==
    ASSUME PayInv, SoleRows, Money, OneBusy, Pricing, NEW s \in Sessions,
           \/ ChooseMethod(s) \/ DebitAll(s) \/ WriteTransaction(s) \/ ReadBalance(s)
           \/ DebitPart(s) \/ InsertPayment(s) \/ ProviderFails(s)
    PROVE  Money'
<1> DEFINE c == call[s]
<1>1. c.at \in {"choose", "debitAll", "writeTx", "readBalance", "debitPart", "insert"}
    BY DEF ChooseMethod, DebitAll, WriteTransaction, ReadBalance, DebitPart, InsertPayment,
           ProviderFails, At
<1>2. /\ Sound(c) /\ Net \in Int
      /\ \A t \in Sessions \ {s} : call[t] = Idle
    BY <1>1, GoesOn
<1>3. Taking(c) /\ walletPart = 0 /\ ~Held /\ Unpaid
    BY <1>1, <1>2 DEF Sound, SoundWrite, SoundGiving, SoundStart, Taking, Returning
<1>4. CASE InsertPayment(s)
    <2>1. PICK x \in Execution, p \in Providers, st \in {"paid", "pending_cod", "pending"},
              n \in Nat :
              /\ Becomes(s, x) /\ x.at = "record" /\ x.result = st /\ x.amount = Net'
              /\ rows' # <<>>
              /\ (rows[Latest])' = [provider |-> p, status |-> st, amount |-> n]
              /\ IF p = "wallet" THEN st = "paid" /\ n = Net' /\ n = call[s].total
                 ELSE st # "paid" /\ Net' + n = call[s].total
        BY <1>3, <1>4, Inserted
    <2>2. c.total \in Nat /\ priced' = c.total
        BY <1>4, Known DEF Pricing
    <2>3. Matched' /\ (rows[Latest].status)' = st
        BY <2>1, <2>2 DEF Matched, Held, Live, RowMoney
    <2>4. x # Idle /\ Sound(x)'
        BY <2>1, <2>3 DEF Sound, Idle
    <2>. QED
        BY <1>2, <2>1, <2>4, MoneyStep
<1>5. CASE ~InsertPayment(s)
    <2>1. /\ UNCHANGED <<column, rows, walletPart>>
          /\ \/ Becomes(s, Idle) /\ Net' = 0
             \/ \E x \in Execution :
                   /\ Becomes(s, x)
                   /\ Taking(x)' \/ (BackFirst(x) /\ Net' > 0)
        BY <1>3, <1>5, Taken
    <2>2. walletPart' = 0 /\ ~Held' /\ Unpaid'
        BY <1>3, <2>1 DEF Held, Unpaid, Latest
    <2>3. CASE Becomes(s, Idle) /\ Net' = 0
        <3>1. Settled'
            BY <2>2, <2>3 DEF Settled
        <3>. QED
            BY <1>2, <2>3, <3>1, IdleIsGrounded, MoneyStep
    <2>4. ASSUME NEW x \in Execution, Becomes(s, x), Taking(x)' PROVE Money'
        <3>1. x # Idle /\ Sound(x)'
            BY <2>2, <2>4 DEF Sound, SoundStart, Taking, Idle
        <3>. QED
            BY <1>2, <2>4, <3>1, MoneyStep
    <2>5. ASSUME NEW x \in Execution, Becomes(s, x), BackFirst(x), Net' > 0 PROVE Money'
        <3>1. Net' \in Int
            BY Known, <1>5
               DEF ChooseMethod, DebitAll, WriteTransaction, ReadBalance, DebitPart,
                               ProviderFails, ledgerVars, Net
        <3>2. x # Idle /\ Sound(x)'
            BY <2>2, <2>5, <3>1 DEF Sound, SoundGiving, Returning, BackFirst, Idle
        <3>. QED
            BY <1>2, <2>5, <3>2, MoneyStep
    <2>. QED
        BY <2>1, <2>3, <2>4, <2>5
<1>. QED
    BY <1>4, <1>5

LEMMA MoneyRecorded ==
    ASSUME PayInv, SoleRows, Money, OneBusy, Pricing, NEW s \in Sessions, RecordPayment(s)
    PROVE  Money'
<1> DEFINE c == call[s]
<1>1. /\ Sound(c) /\ \A t \in Sessions \ {s} : call[t] = Idle
    BY GoesOn DEF RecordPayment, At
<1>2. Matched /\ Net = c.amount /\ c.result = rows[Latest].status
    BY <1>1
       DEF RecordPayment, At, Sound, SoundWrite, SoundGiving, SoundStart, Returning,
           Taking
<1>3. /\ rows' = rows /\ Held' = Held /\ Matched' = Matched /\ Net' = Net
      /\ walletPart' = Net /\ column' = rows[Latest].status /\ Latest' = Latest
    BY <1>2 DEF RecordPayment, ledgerVars, Net, Held, Matched, RowMoney, Latest, Pricing
<1>4. Settled'
    BY <1>2, <1>3 DEF Settled, Matched, Unpaid
<1>. QED
    BY <1>1, <1>4, IdleIsGrounded, MoneyStep DEF RecordPayment

(* What a call does that is at a step no order still placed can be at. *)
LEMMA NotPlaced ==
    ASSUME PayInv, SoleRows, Money, OneBusy, NEW s \in Sessions
    PROVE  /\ ~MarkRefundPendingIfPaid(s) /\ ~RefundRow(s) /\ ~CreditAll(s)
           /\ ~WriteRefundTransaction(s) /\ ~RestorePayment(s) /\ ~RestoreColumn(s)
           /\ ~Reopen(s) /\ ~MarkCodCollected(s)
<1>1. call[s].at # "idle" => Sound(call[s])
    BY GoesOn
<1>. QED
    BY <1>1
       DEF Sound, SoundWrite, SoundGiving, SoundStart, Returning, Taking,
           MarkRefundPendingIfPaid, RefundRow,
                CreditAll, WriteRefundTransaction, RestorePayment, RestoreColumn, Reopen,
                MarkCodCollected, At, Giving

LEMMA MoneyNext ==
    ASSUME PayInv, SoleRows, Money, OneBusy, OneBusy', [Next]_vars, Pricing,
           status = "placed", status' = "placed"
    PROVE  Money'
<1>1. ASSUME NEW s \in Sessions, Call(s) PROVE Money'
    BY <1>1, MoneyCalls DEF Call, RestoreOrder, Deliver
<1>2. ASSUME NEW s \in Sessions, Continue(s) PROVE Money'
    <2>1. ~WriteCancelled(s)
        BY DEF WriteCancelled
    <2>. QED
        BY <1>2, <2>1, NotPlaced, MoneyGiving, MoneyWrites, MoneyStarts, MoneyRecorded
           DEF Continue
<1>3. CASE UNCHANGED vars \/ Reallocate
    <2>1. UNCHANGED moneyVars /\ call' = call
        BY <1>3, OnlyTheVendor DEF vars, orderVars, ledgerVars, moneyVars, Pricing
    <2>2. Quiet' <=> Quiet
        BY <2>1 DEF Quiet
    <2>3. ASSUME NEW s \in Sessions PROVE Sound(call[s])' <=> Sound(call[s])
        BY <2>1, SameMoney DEF Sound, SoundWrite, SoundGiving, SoundStart, Returning, Taking
    <2>. QED
        BY <2>1, <2>2, <2>3, SameMoney DEF Money
<1>. QED
    BY <1>1, <1>2, <1>3 DEF Next

LEMMA PricingKept ==
    ASSUME PayInv, [MCNext]_mcVars, alone'
    PROVE  Pricing
<1>1. Len(rows) \in Nat
    BY DEF PayInv, TypeOK
<1>2. ASSUME NEW s \in Sessions, InsertPayment(s)
      PROVE  /\ Len(rows') = Len(rows) + 1
             /\ \A t \in Sessions \ {s} : call'[t] = call[t]
    BY <1>2 DEF InsertPayment, AddRow, Becomes, PayInv, TypeOK
<1>3. CASE MCNext
    BY <1>1, <1>2, <1>3 DEF MCNext, Pricing
<1>4. CASE UNCHANGED mcVars
    BY <1>1, <1>2, <1>4 DEF mcVars, vars, Pricing
<1>. QED
    BY <1>3, <1>4

(* The money adds up: as long as calls come one at a time and no cancelled *)
(* order is taken up again, an order a vendor may accept is covered by     *)
(* what the wallet gave and what its latest payment brings in, for any     *)
(* wallet and the prices of any vendors, whatever was tried, dropped or    *)
(* failed before and whichever vendors it moved through: what is covered   *)
(* is the total of the time the payment was begun.                         *)
THEOREM FullyPaidServed == MCSpec => []FullyPaidAlone
<1> DEFINE Inv == /\ PayInv
                  /\ alone => OneBusy /\ SoleRows
                  /\ alone /\ ~restored /\ status = "placed" => Money
<1>1. MCInit => Inv
    <2>1. Init => OneBusy /\ SoleRows
        BY IdleIsPlaced DEF Init, OneBusy, Busy, SoleRows
    <2>2. Init => Settled
        BY DEF Init, Settled, Held, Unpaid, Net
    <2>3. Init => Money
        BY <2>2 DEF Init, Money
    <2>. QED
        BY <2>1, <2>3, PayStart DEF MCInit
<1>2. Inv /\ [MCNext]_mcVars => Inv'
    <2> SUFFICES ASSUME Inv, [MCNext]_mcVars PROVE Inv'
        OBVIOUS
    <2>1. [Next]_vars /\ PayInv'
        BY PayNext DEF MCNext, mcVars
    <2>2. ASSUME alone' PROVE alone /\ OneBusy /\ OneBusy' /\ SoleRows'
        <3>1. alone /\ OneBusy'
            <4>1. CASE MCNext
                BY <2>2, <4>1 DEF MCNext, OneBusy
            <4>2. CASE UNCHANGED mcVars
                BY <2>2, <4>2 DEF mcVars, vars, OneBusy, Busy
            <4>. QED
                BY <4>1, <4>2
        <3>. QED
            BY <2>1, <3>1, SoleNext
    <2>3. ASSUME alone', ~restored', status' = "placed"
          PROVE  ~restored /\ status = "placed"
        <3>1. CASE UNCHANGED mcVars
            BY <2>3, <3>1 DEF mcVars, vars, orderVars
        <3>2. CASE MCNext
            <4>1. Next /\ ~restored /\ \A s \in Sessions : ~Reopen(s)
                BY <2>3, <3>2 DEF MCNext, Reopen
            <4>2. status' # status => status' \in {"cancelled", "delivered"}
                BY <4>1, OnlyTheVendor
                   DEF Next, Call, Continue, orderVars, Initiate, ConfirmByCustomer,
                       Reconcile, MarkRefunded, Cancel, RestoreOrder, Deliver, GiveBack,
                       Credit, ClearWalletPart, DropAbandoned, ChooseMethod, DebitAll,
                       WriteTransaction, ReadBalance, DebitPart, InsertPayment,
                       ProviderFails, RecordPayment, WriteRow, SetColumn, CheckWalletPart,
                       WriteCancelled, MarkRefundPendingIfPaid, RefundRow, CreditAll,
                       WriteRefundTransaction, RestorePayment, RestoreColumn,
                       MarkCodCollected
            <4>. QED
                BY <2>3, <4>1, <4>2
        <3>. QED
            BY <3>1, <3>2
    <2>4. ASSUME alone', ~restored', status' = "placed" PROVE Money'
        BY <2>1, <2>2, <2>3, <2>4, MoneyNext, PricingKept
    <2>. QED
        BY <2>1, <2>2, <2>4
<1>3. Inv => FullyPaidAlone
    BY DEF Money, Settled, Matched, Unpaid, FullyPaidAlone, Covered
<1>. QED
    BY <1>1, <1>2, <1>3, PTL DEF MCSpec

-----------------------------------------------------------------------------
(* A cancellation gives everything back, as long as calls come one at a    *)
(* time.  Between calls the order holds nothing of the wallet without a    *)
(* live payment, a payment from the wallet alone holds its amount until it *)
(* is refunded, and with any other the wallet part on record is what the   *)
(* order holds; in a call, what is known depends on the step it is at.     *)

AllFromWallet == rows[Latest].provider = "wallet"
Closed == {"refund_pending", "refunded"}

Balanced ==
    /\ ~Held => Net = 0 /\ walletPart = 0
    /\ Held /\ AllFromWallet =>
          \/ rows[Latest].status = "paid" /\ Net = rows[Latest].amount
          \/ rows[Latest].status = "refunded" /\ Net = 0
    /\ Held /\ ~AllFromWallet =>
          walletPart = Net /\ (rows[Latest].status \in Closed => Net = 0)
    /\ Held /\ rows[Latest].status = "collected" => status = "delivered"

(* Either part of a payment that has failed, or of one that is cancelled. *)
BalancedGiving(c) ==
    /\ Returning(c)
    /\ \/ c.then \in {"idle", "choose"} /\ ~Held
       \/ /\ c.then = "refundRow" /\ Held /\ ~AllFromWallet
          /\ c.result = rows[Latest].status /\ c.result # "collected"

(* What a payment becomes leaves the order balanced. *)
BalancedWrite(c) ==
    \/ /\ c.at = "write" /\ c.then = "idle"
       /\ \/ c.result = "paid" /\ Balanced /\ ~AllFromWallet
          \/ c.result = "collected" /\ Balanced /\ ~AllFromWallet /\ status = "delivered"
          \/ c.result = "refund_pending" /\ Balanced /\ ~AllFromWallet /\ Net = 0
          \/ c.result = "refunded" /\ Net = 0 /\ (~AllFromWallet => walletPart = 0)
    \/ /\ c.at = "setColumn" /\ c.then = "idle" /\ Balanced
       /\ c.result \in Closed => Net = 0 /\ rows[Latest].status = c.result
    \/ /\ c.at = "write" /\ c.result = "failed" /\ c.then = "checkWallet"
       /\ Balanced /\ ~AllFromWallet
    \/ /\ c.at \in {"setColumn", "checkWallet"} /\ ~Held /\ walletPart = Net
       /\ c.at = "setColumn" => c.result = "failed" /\ c.then = "checkWallet"

BalancedCancel(c) ==
    /\ Balanced
    /\ \/ /\ c.at \in {"cancel", "refund", "restorePayment", "restoreColumn", "reopen"}
          /\ status # "delivered"
       \/ /\ c.at = "refundRow" /\ c.result = rows[Latest].status
          /\ c.result # "collected"
          /\ AllFromWallet \/ Net = 0
       \/ /\ c.at \in {"creditAll", "writeRefundTx"} /\ AllFromWallet
          /\ rows[Latest].status = "paid" /\ c.amount = Net
       \/ c.at = "collect" /\ status = "delivered"

BalancedRecord(c) ==
    /\ c.at = "record" /\ Held /\ Net = c.amount
    /\ IF AllFromWallet THEN rows[Latest].status = "paid" /\ Net = rows[Latest].amount
       ELSE rows[Latest].status \in {"pending", "pending_cod"}

Accounted(c) ==
    \/ c.at = "drop" /\ Balanced /\ c.then = "choose"
    \/ Taking(c)
    \/ BalancedGiving(c)
    \/ BalancedWrite(c)
    \/ BalancedCancel(c)
    \/ BalancedRecord(c)

Accounts ==
    /\ Quiet => Balanced
    /\ \A s \in Sessions : call[s] # Idle => Accounted(call[s])

LEMMA SameBalance ==
    ASSUME UNCHANGED <<status, rows, walletPart, paid, refunded>>
    PROVE  /\ Balanced' <=> Balanced
           /\ Held' <=> Held
           /\ AllFromWallet' <=> AllFromWallet
           /\ (rows[Latest])' = rows[Latest]
           /\ Net' = Net
BY DEF Balanced, Held, AllFromWallet, Net, Latest

(* The one call there is goes on as x. *)
LEMMA AccountStep ==
    ASSUME PayInv, NEW s \in Sessions, NEW x \in Execution, Becomes(s, x),
           \A t \in Sessions \ {s} : call[t] = Idle,
           x = Idle => Balanced', x # Idle => Accounted(x)'
    PROVE  Accounts'
<1>1. \A t \in Sessions : call'[t] = IF t = s THEN x ELSE Idle
    BY DEF PayInv, TypeOK, Becomes
<1>2. Quiet' => Balanced'
    BY <1>1 DEF Quiet
<1>3. ASSUME NEW t \in Sessions, call'[t] # Idle PROVE Accounted(call[t])'
    <2>1. t = s /\ call'[t] = x
        BY <1>1, <1>3
    <2>. QED
        BY <1>3, <2>1 DEF Accounted, Taking, BalancedGiving, Returning, BalancedWrite,
                          BalancedCancel, BalancedRecord
<1>. QED
    BY <1>2, <1>3 DEF Accounts

(* A call that starts finds a balanced order. *)
LEMMA AccountStarted ==
    ASSUME PayInv, OneBusy', Accounts, NEW s \in Sessions, NEW x \in Execution,
           x.at # "idle", call[s] = Idle, Becomes(s, x), Balanced => Accounted(x)'
    PROVE  Accounts'
<1>1. \A t \in Sessions : call'[t] = IF t = s THEN x ELSE call[t]
    BY DEF PayInv, TypeOK, Becomes
<1>2. x # Idle
    BY DEF Idle
<1>3. \A t \in Sessions \ {s} : call[t] = Idle
    BY <1>1, <1>2 DEF OneBusy, Busy
<1>4. Balanced
    BY <1>3 DEF Accounts, Quiet
<1>. QED
    BY <1>2, <1>3, <1>4, AccountStep

(* What a call goes on with. *)
LEMMA AccountGoesOn ==
    ASSUME PayInv, SoleRows, Accounts, OneBusy, NEW s \in Sessions, call[s].at # "idle"
    PROVE  /\ Accounted(call[s]) /\ Placed(call[s]) /\ Grounded(call[s])
           /\ \A t \in Sessions \ {s} : call[t] = Idle
           /\ Net \in Int
<1>1. call[s] # Idle
    BY DEF Idle
<1>2. Net \in Int /\ Grounded(call[s])
    BY Known DEF Net
<1>. QED
    BY <1>1, <1>2, OthersIdle DEF Accounts, SoleRows

LEMMA IdleAt ==
    ASSUME NEW p \in Steps
    PROVE  [Idle EXCEPT !.at = p] \in Execution /\ [Idle EXCEPT !.at = p].at = p
BY DEF Idle, Execution, Methods, PaymentStatuses, Steps

LEMMA AccountCalls ==
    ASSUME PayInv, SoleRows, Accounts, OneBusy', NEW s \in Sessions, Call(s)
    PROVE  Accounts'
<1>0. /\ Latest \in Nat /\ DOMAIN rows = 1 .. Latest /\ DOMAIN rows \subseteq Nat
      /\ rows \in Seq(Payment) /\ \A i \in DOMAIN rows : rows[i] \in Payment
    BY Known
<1>1. call[s] = Idle /\ UNCHANGED <<rows, walletPart, paid, refunded>>
    BY DEF Call, Initiate, ConfirmByCustomer, Reconcile, MarkRefunded, Cancel, RestoreOrder,
           Deliver, Starts, orderVars, ledgerVars
<1>2. /\ Held' = Held /\ AllFromWallet' = AllFromWallet /\ Net' = Net
      /\ (rows[Latest])' = rows[Latest]
    BY <1>1 DEF Held, AllFromWallet, Net, Latest
<1>3. status' = status => (Balanced' <=> Balanced)
    BY <1>1, SameBalance
<1>4. ASSUME NEW x \in Execution, x.at # "idle", Becomes(s, x), Balanced => Accounted(x)'
      PROVE  Accounts'
    BY <1>1, <1>4, AccountStarted
<1>5. ASSUME NEW p \in Steps, Becomes(s, [Idle EXCEPT !.at = p])
      PROVE  \E x \in Execution : x.at = p /\ Becomes(s, x)
    BY <1>5, IdleAt
<1>6. CASE Initiate(s)
    <2>1. PICK m \in Methods, w \in BOOLEAN :
              \/ ~Held /\ Becomes(s, Paying(m, w))
              \/ Becomes(s, [Paying(m, w) EXCEPT !.at = "drop", !.row = Latest,
                                                 !.then = "choose"])
        BY <1>6 DEF Initiate, Starts, Held
    <2>2. CASE ~Held /\ Becomes(s, Paying(m, w))
        <3>1. PICK x \in Execution : x.at = "choose" /\ Becomes(s, x)
            BY <2>2, PayingStarts
        <3>2. Balanced => Accounted(x)'
            BY <1>1, <1>2, <2>2, <3>1 DEF Accounted, Taking, Balanced
        <3>. QED
            BY <1>4, <3>1, <3>2
    <2>3. CASE Becomes(s, [Paying(m, w) EXCEPT !.at = "drop", !.row = Latest,
                                              !.then = "choose"])
        <3>1. PICK x \in Execution : x.at = "drop" /\ x.then = "choose" /\ Becomes(s, x)
            BY <2>3, PayingStarts
        <3>2. status' = status
            BY <1>6 DEF Initiate, orderVars
        <3>3. Balanced => Accounted(x)'
            BY <1>3, <3>1, <3>2 DEF Accounted
        <3>. QED
            BY <1>4, <3>1, <3>3
    <2>. QED
        BY <2>1, <2>2, <2>3
<1>7. ASSUME NEW i \in DOMAIN rows, NEW st \in {"paid", "failed", "refunded"},
             rows[i].status \in {"pending", "refund_pending"}
      PROVE  /\ i = Latest /\ Held /\ (Balanced => ~AllFromWallet)
             /\ Writing(i, st) \in Execution /\ Writing(i, st).at = "write"
             /\ Writing(i, st).then = "idle" /\ Writing(i, st).result = st
    <2>1. i = Latest /\ Held
        BY <1>0, <1>7 DEF SoleRows, Held, Live
    <2>2. Balanced => ~AllFromWallet
        BY <1>7, <2>1 DEF Balanced
    <2>. QED
        BY <1>0, <2>1, <2>2, WritingIsGrounded DEF PaymentStatuses
<1>8. ASSUME NEW i \in DOMAIN rows, rows[i].status = "pending", status' = status,
             Becomes(s, Writing(i, "paid"))
      PROVE  Accounts'
    <2>1. PICK x \in Execution : /\ Becomes(s, x) /\ x.at = "write" /\ x.then = "idle"
                                 /\ x.result = "paid"
        BY <1>7, <1>8
    <2>2. Balanced => ~AllFromWallet
        BY <1>7, <1>8
    <2>3. Balanced => BalancedWrite(x)'
        BY <1>2, <1>3, <1>8, <2>1, <2>2 DEF BalancedWrite
    <2>. QED
        BY <1>4, <2>1, <2>3 DEF Accounted
<1>9. CASE ConfirmByCustomer(s)
    <2>1. /\ Latest \in DOMAIN rows /\ rows[Latest].status = "pending" /\ status' = status
          /\ Becomes(s, Writing(Latest, "paid"))
        BY <1>0, <1>9 DEF ConfirmByCustomer, Starts, Latest, orderVars
    <2>. QED
        BY <1>8, <2>1
<1>10. CASE Reconcile(s)
    <2>1. PICK i \in DOMAIN rows :
              /\ rows[i].status = "pending" /\ status' = status
              /\ \/ Becomes(s, Writing(i, "paid"))
                 \/ Becomes(s, [Writing(i, "failed") EXCEPT !.then = "checkWallet"])
        BY <1>10 DEF Reconcile, Starts, orderVars
    <2>2. CASE Becomes(s, [Writing(i, "failed") EXCEPT !.then = "checkWallet"])
        <3>1. PICK x \in Execution : /\ Becomes(s, x) /\ x.at = "write"
                                     /\ x.then = "checkWallet" /\ x.result = "failed"
            <4> DEFINE y == [Writing(i, "failed") EXCEPT !.then = "checkWallet"]
            <4>1. /\ Writing(i, "failed") \in Execution /\ Writing(i, "failed").at = "write"
                  /\ Writing(i, "failed").result = "failed"
                BY <1>7, <2>1
            <4>2. /\ y \in Execution /\ y.at = "write" /\ y.then = "checkWallet"
                  /\ y.result = "failed"
                BY <4>1 DEF Execution, Steps
            <4>3. Becomes(s, y)
                BY <2>2
            <4>. HIDE DEF y
            <4>. QED
                BY <4>2, <4>3
        <3>2. Balanced => ~AllFromWallet
            BY <1>7, <2>1
        <3>3. Balanced => BalancedWrite(x)'
            BY <1>2, <1>3, <2>1, <3>1, <3>2 DEF BalancedWrite
        <3>. QED
            BY <1>4, <3>1, <3>3 DEF Accounted
    <2>. QED
        BY <1>8, <2>1, <2>2
<1>11. CASE MarkRefunded(s)
    <2>1. PICK i \in DOMAIN rows :
              /\ rows[i].status = "refund_pending" /\ status' = status
              /\ Becomes(s, Writing(i, "refunded"))
        BY <1>11 DEF MarkRefunded, Starts, orderVars
    <2>2. PICK x \in Execution : /\ Becomes(s, x) /\ x.at = "write" /\ x.then = "idle"
                                 /\ x.result = "refunded"
        BY <1>7, <2>1
    <2>3. i = Latest /\ Held /\ (Balanced => ~AllFromWallet)
        BY <1>7, <2>1
    <2>4. Balanced => Net = 0 /\ walletPart = 0
        BY <2>1, <2>3 DEF Balanced, Closed
    <2>5. Balanced => BalancedWrite(x)'
        BY <1>1, <1>2, <2>2, <2>4 DEF BalancedWrite
    <2>. QED
        BY <1>4, <2>2, <2>5 DEF Accounted
<1>12. CASE Cancel(s)
    <2>1. status' = status /\ status # "delivered" /\ Becomes(s, [Idle EXCEPT !.at = "cancel"])
        BY <1>12 DEF Cancel, Starts, orderVars
    <2>2. PICK x \in Execution : x.at = "cancel" /\ Becomes(s, x)
        BY <1>5, <2>1 DEF Steps
    <2>3. Balanced => BalancedCancel(x)'
        BY <1>3, <2>1, <2>2 DEF BalancedCancel
    <2>. QED
        BY <1>4, <2>2, <2>3 DEF Accounted
<1>13. CASE RestoreOrder(s)
    <2>1. status' = status /\ status # "delivered"
        BY <1>13 DEF RestoreOrder, orderVars
    <2>2. PICK x \in Execution : x.at = "restorePayment" /\ Becomes(s, x)
        <3> DEFINE y == [Idle EXCEPT !.at = "restorePayment", !.result = column]
        <3>1. column \in PaymentStatuses
            BY Known
        <3>2. y \in Execution /\ y.at = "restorePayment"
            BY <3>1 DEF Idle, Execution, Methods, Steps
        <3>3. Becomes(s, y)
            BY <1>13 DEF RestoreOrder, Starts
        <3>. HIDE DEF y
        <3>. QED
            BY <3>2, <3>3
    <2>3. Balanced => BalancedCancel(x)'
        BY <1>3, <2>1, <2>2 DEF BalancedCancel
    <2>. QED
        BY <1>4, <2>2, <2>3 DEF Accounted
<1>14. CASE Deliver(s)
    <2>1. status' = "delivered" /\ Becomes(s, [Idle EXCEPT !.at = "collect"])
        BY <1>14 DEF Deliver, Starts
    <2>2. PICK x \in Execution : x.at = "collect" /\ Becomes(s, x)
        BY <1>5, <2>1 DEF Steps
    <2>3. Balanced => Balanced'
        BY <1>1, <1>2, <2>1 DEF Balanced
    <2>4. Balanced => BalancedCancel(x)'
        BY <2>1, <2>2, <2>3 DEF BalancedCancel
    <2>. QED
        BY <1>4, <2>2, <2>4 DEF Accounted
<1>. QED
    BY <1>6, <1>9, <1>10, <1>11, <1>12, <1>13, <1>14 DEF Call

LEMMA AccountGiving ==
    ASSUME PayInv, SoleRows, Accounts, OneBusy, NEW s \in Sessions,
           GiveBack(s) \/ Credit(s) \/ ClearWalletPart(s)
    PROVE  Accounts'
<1>y. PICK c : c = call[s]
    OBVIOUS
<1>1. c.at \in Giving
    BY <1>y DEF GiveBack, Credit, ClearWalletPart, At, Giving
<1>2. Accounted(c) /\ \A t \in Sessions \ {s} : call[t] = Idle
    BY <1>y, <1>1, AccountGoesOn DEF Giving
<1>3. BalancedGiving(c)
    BY <1>1, <1>2 DEF Accounted, Taking, BalancedWrite, BalancedCancel, BalancedRecord, Giving
<1>4. PICK x \in Execution :
          /\ Becomes(s, x) /\ UNCHANGED <<status, rows>>
          /\ \/ /\ x.at \in {"credit", "clear"} /\ x.then = c.then
                /\ x.result = c.result /\ Returning(x)'
             \/ /\ Net' = 0 /\ walletPart' = 0
                /\ c.then = "idle" => x = Idle
                /\ c.then # "idle" => x.at = c.then /\ x.result = c.result
    BY <1>y, <1>3, Returned DEF BalancedGiving
<1>5. /\ Held' = Held /\ AllFromWallet' = AllFromWallet
      /\ (rows[Latest])' = rows[Latest]
    BY <1>4 DEF Held, AllFromWallet, Latest
<1>6. CASE x.at \in {"credit", "clear"} /\ x.then = c.then /\ x.result = c.result /\ Returning(x)'
    <2>1. BalancedGiving(x)' /\ x # Idle
        BY <1>3, <1>5, <1>6 DEF BalancedGiving, Idle
    <2>. QED
        BY <1>2, <1>4, <2>1, AccountStep DEF Accounted
<1>7. CASE Net' = 0 /\ walletPart' = 0 /\ c.then = "idle" /\ x = Idle
    <2>1. Balanced'
        BY <1>3, <1>5, <1>7 DEF BalancedGiving, Balanced
    <2>. QED
        BY <1>2, <1>4, <1>7, <2>1, AccountStep
<1>8. CASE Net' = 0 /\ walletPart' = 0 /\ c.then = "choose" /\ x.at = "choose"
    <2>1. Taking(x)' /\ x # Idle
        BY <1>3, <1>5, <1>8 DEF BalancedGiving, Taking, Idle
    <2>. QED
        BY <1>2, <1>4, <2>1, AccountStep DEF Accounted
<1>9. CASE /\ Net' = 0 /\ walletPart' = 0 /\ c.then = "refundRow" /\ x.at = "refundRow"
           /\ x.result = c.result
    <2>1. Balanced'
        BY <1>3, <1>5, <1>9 DEF BalancedGiving, Balanced
    <2>2. BalancedCancel(x)' /\ x # Idle
        BY <1>3, <1>5, <1>9, <2>1 DEF BalancedGiving, BalancedCancel, Idle
    <2>. QED
        BY <1>2, <1>4, <2>2, AccountStep DEF Accounted
<1>. QED
    BY <1>3, <1>4, <1>6, <1>7, <1>8, <1>9 DEF BalancedGiving

LEMMA AccountTaking ==
    ASSUME PayInv, SoleRows, Accounts, OneBusy, NEW s \in Sessions,
           \/ ChooseMethod(s) \/ DebitAll(s) \/ WriteTransaction(s) \/ ReadBalance(s)
           \/ DebitPart(s) \/ InsertPayment(s) \/ ProviderFails(s)
    PROVE  Accounts'
<1> DEFINE c == call[s]
<1>1. c.at \in {"choose", "debitAll", "writeTx", "readBalance", "debitPart", "insert"}
    BY DEF ChooseMethod, DebitAll, WriteTransaction, ReadBalance, DebitPart, InsertPayment,
           ProviderFails, At
<1>2. Accounted(c) /\ \A t \in Sessions \ {s} : call[t] = Idle
    BY <1>1, AccountGoesOn
<1>3. Taking(c) /\ walletPart = 0 /\ ~Held
    BY <1>1, <1>2 DEF Accounted, BalancedGiving, Returning, BalancedWrite, BalancedCancel,
                      BalancedRecord, Taking
<1>4. CASE InsertPayment(s)
    <2>1. PICK x \in Execution, p \in Providers, st \in {"paid", "pending_cod", "pending"},
              n \in Nat :
              /\ Becomes(s, x) /\ x.at = "record" /\ x.result = st /\ x.amount = Net'
              /\ rows' # <<>>
              /\ (rows[Latest])' = [provider |-> p, status |-> st, amount |-> n]
              /\ IF p = "wallet" THEN st = "paid" /\ n = Net' /\ n = call[s].total
                 ELSE st # "paid" /\ Net' + n = call[s].total
        BY <1>3, <1>4, Inserted
    <2>2. Held' /\ (AllFromWallet' <=> p = "wallet")
        BY <2>1 DEF Held, AllFromWallet, Live
    <2>3. (rows[Latest].status)' = st /\ (rows[Latest].amount)' = n
        BY <2>1
    <2>4. BalancedRecord(x)'
        BY <2>1, <2>2, <2>3 DEF BalancedRecord
    <2>5. x # Idle
        BY <2>1 DEF Idle
    <2>. QED
        BY <1>2, <2>1, <2>4, <2>5, AccountStep DEF Accounted
<1>5. CASE ~InsertPayment(s)
    <2>1. /\ UNCHANGED <<rows, walletPart>>
          /\ \/ Becomes(s, Idle) /\ Net' = 0
             \/ \E x \in Execution :
                   /\ Becomes(s, x)
                   /\ Taking(x)' \/ (BackFirst(x) /\ Net' > 0)
        BY <1>3, <1>5, Taken
    <2>2. walletPart' = 0 /\ ~Held'
        BY <1>3, <2>1 DEF Held, Latest
    <2>3. CASE Becomes(s, Idle) /\ Net' = 0
        <3>1. Balanced'
            BY <2>2, <2>3 DEF Balanced
        <3>. QED
            BY <1>2, <2>3, <3>1, IdleIsGrounded, AccountStep
    <2>4. ASSUME NEW x \in Execution, Becomes(s, x), Taking(x)' PROVE Accounts'
        <3>1. x # Idle
            BY <2>4 DEF Taking, Idle
        <3>. QED
            BY <1>2, <2>4, <3>1, AccountStep DEF Accounted
    <2>5. ASSUME NEW x \in Execution, Becomes(s, x), BackFirst(x), Net' > 0 PROVE Accounts'
        <3>1. Net' \in Int
            BY Known, <1>5 DEF ChooseMethod, DebitAll, WriteTransaction, ReadBalance, DebitPart,
                               ProviderFails, ledgerVars, Net
        <3>2. x # Idle /\ BalancedGiving(x)'
            BY <2>2, <2>5, <3>1 DEF BalancedGiving, Returning, BackFirst, Idle
        <3>. QED
            BY <1>2, <2>5, <3>2, AccountStep DEF Accounted
    <2>. QED
        BY <2>1, <2>3, <2>4, <2>5
<1>. QED
    BY <1>4, <1>5

LEMMA AccountRecorded ==
    ASSUME PayInv, SoleRows, Accounts, OneBusy, NEW s \in Sessions, RecordPayment(s)
    PROVE  Accounts'
<1> DEFINE c == call[s]
<1>1. Accounted(c) /\ \A t \in Sessions \ {s} : call[t] = Idle
    BY AccountGoesOn DEF RecordPayment, At
<1>2. BalancedRecord(c)
    BY <1>1 DEF RecordPayment, At, Accounted, Taking, BalancedGiving, Returning, BalancedWrite,
                BalancedCancel, BalancedRecord
<1>3. /\ rows' = rows /\ Held' = Held /\ AllFromWallet' = AllFromWallet /\ Net' = Net
      /\ walletPart' = Net /\ (rows[Latest])' = rows[Latest]
    BY <1>2 DEF RecordPayment, ledgerVars, Net, Held, AllFromWallet, Latest, BalancedRecord
<1>4. Balanced'
    BY <1>2, <1>3 DEF Balanced, BalancedRecord, Closed
<1>. QED
    BY <1>1, <1>4, IdleIsGrounded, AccountStep DEF RecordPayment

(* A payment takes another status: the rest of the order stays. *)
LEMMA LatestBecomes ==
    ASSUME PayInv, NEW st \in PaymentStatuses, Latest \in DOMAIN rows, SetRow(Latest, st),
           UNCHANGED <<status, walletPart, paid, refunded>>
    PROVE  /\ Held' <=> st # "failed"
           /\ AllFromWallet' <=> AllFromWallet
           /\ (rows[Latest].status)' = st
           /\ (rows[Latest].amount)' = rows[Latest].amount
           /\ Net' = Net
<1>1. /\ Latest' = Latest /\ rows'[Latest].status = st
      /\ rows'[Latest].provider = rows[Latest].provider
      /\ rows'[Latest].amount = rows[Latest].amount
      /\ Held' <=> st # "failed"
    BY LatestSet
<1>. QED
    BY <1>1 DEF AllFromWallet, Net

LEMMA AccountDrops ==
    ASSUME PayInv, SoleRows, Accounts, OneBusy, NEW s \in Sessions, DropAbandoned(s)
    PROVE  Accounts'
<1>y. PICK c : c = call[s]
    OBVIOUS
<1>1. c.at = "drop" /\ c \in Execution /\ walletPart \in Nat
    BY <1>y, Known DEF DropAbandoned, At
<1>2. /\ Accounted(c) /\ Placed(c) /\ Grounded(c)
      /\ \A t \in Sessions \ {s} : call[t] = Idle
    BY <1>y, <1>1, AccountGoesOn
<1>3. c.then = "choose" /\ Balanced
    BY <1>1, <1>2 DEF Accounted, Taking, BalancedGiving, Returning, BalancedWrite,
                      BalancedCancel, BalancedRecord
<1>4. c.row = Latest /\ Latest \in DOMAIN rows
    BY <1>1, <1>2 DEF Grounded, Placed, UsesRow
<1>5. UNCHANGED <<status, walletPart, paid, refunded>>
    BY DEF DropAbandoned, orderVars, ledgerVars
<1>6. CASE Becomes(s, Idle) /\ UNCHANGED rows
    BY <1>2, <1>3, <1>5, <1>6, SameBalance, IdleIsGrounded, AccountStep
<1>7. CASE Droppable(Latest) /\ SetRow(Latest, "failed") /\ Goes(s, "giveBack")
    <2>1. Held /\ rows[Latest].status = "pending"
        BY <1>4, <1>7, LatestSet DEF Droppable, Held, Live, PaymentStatuses
    <2>2. walletPart = Net
        BY <1>3, <2>1 DEF Balanced
    <2>3. ~Held' /\ Net' = Net
        BY <1>4, <1>5, <1>7, LatestBecomes DEF PaymentStatuses
    <2>4. PICK x \in Execution : Becomes(s, x) /\ x.at = "giveBack" /\ x.then = "choose"
        <3> DEFINE y == [c EXCEPT !.at = "giveBack"]
        <3>1. y \in Execution /\ y.at = "giveBack" /\ y.then = "choose" /\ Becomes(s, y)
            BY <1>y, <1>1, <1>3, <1>7 DEF Execution, Steps, Goes
        <3>. HIDE DEF y
        <3>. QED
            BY <3>1
    <2>5. Returning(x)'
        BY <1>1, <1>5, <2>2, <2>3, <2>4 DEF Returning
    <2>6. x # Idle /\ BalancedGiving(x)'
        BY <2>3, <2>4, <2>5 DEF BalancedGiving, Idle
    <2>. QED
        BY <1>2, <2>4, <2>6, AccountStep DEF Accounted
<1>. QED
    BY <1>y, <1>4, <1>6, <1>7 DEF DropAbandoned

LEMMA AccountWrites ==
    ASSUME PayInv, SoleRows, Accounts, OneBusy, NEW s \in Sessions, WriteRow(s)
    PROVE  Accounts'
<1>y. PICK c : c = call[s]
    OBVIOUS
<1>1. c.at = "write" /\ c \in Execution /\ c.result \in PaymentStatuses
    BY <1>y, Known DEF WriteRow, At
<1>2. /\ Accounted(c) /\ Placed(c) /\ Grounded(c)
      /\ \A t \in Sessions \ {s} : call[t] = Idle
    BY <1>y, <1>1, AccountGoesOn
<1>3. BalancedWrite(c)
    BY <1>1, <1>2 DEF Accounted, Taking, BalancedGiving, Returning, BalancedCancel,
                      BalancedRecord
<1>4. c.row = Latest /\ Latest \in DOMAIN rows
    BY <1>1, <1>2 DEF Grounded, Placed, UsesRow
<1>5. UNCHANGED <<status, walletPart, paid, refunded>> /\ SetRow(Latest, c.result)
    BY <1>y, <1>4 DEF WriteRow, orderVars, ledgerVars
<1>6. /\ Held' <=> c.result # "failed"
      /\ AllFromWallet' <=> AllFromWallet
      /\ (rows[Latest].status)' = c.result
      /\ Net' = Net
    BY <1>1, <1>4, <1>5, LatestBecomes
<1>7. PICK x \in Execution : /\ Becomes(s, x) /\ x.at = "setColumn"
                             /\ x.result = c.result /\ x.then = c.then
    <2> DEFINE y == [c EXCEPT !.at = "setColumn"]
    <2>1. y \in Execution /\ y.at = "setColumn" /\ y.result = c.result /\ y.then = c.then
        BY <1>1 DEF Execution, Steps
    <2>2. Becomes(s, y)
        BY <1>y DEF WriteRow, Goes
    <2>. HIDE DEF y
    <2>. QED
        BY <2>1, <2>2
<1>8. x # Idle
    BY <1>7 DEF Idle
<1>9. Balanced /\ ~AllFromWallet => walletPart = Net
    BY DEF Balanced
<1>10. CASE c.result = "failed"
    <2>1. c.then = "checkWallet" /\ walletPart = Net
        BY <1>1, <1>3, <1>9, <1>10 DEF BalancedWrite
    <2>2. BalancedWrite(x)'
        BY <1>5, <1>6, <1>7, <1>10, <2>1 DEF BalancedWrite
    <2>. QED
        BY <1>2, <1>7, <1>8, <2>2, AccountStep DEF Accounted
<1>11. CASE c.result # "failed"
    <2>1. c.then = "idle" /\ (c.result \in Closed => Net = 0)
        BY <1>1, <1>3, <1>11 DEF BalancedWrite, Closed
    <2>2. \/ c.result = "refunded" /\ Net = 0 /\ (~AllFromWallet => walletPart = 0)
          \/ /\ c.result # "refunded" /\ ~AllFromWallet /\ walletPart = Net
             /\ c.result = "collected" => status = "delivered"
        BY <1>1, <1>3, <1>9, <1>11 DEF BalancedWrite
    <2>3. Balanced'
        BY <1>5, <1>6, <1>11, <2>1, <2>2 DEF Balanced, Closed
    <2>4. BalancedWrite(x)'
        BY <1>6, <1>7, <2>1, <2>3 DEF BalancedWrite
    <2>. QED
        BY <1>2, <1>7, <1>8, <2>4, AccountStep DEF Accounted
<1>. QED
    BY <1>10, <1>11

LEMMA AccountColumns ==
    ASSUME PayInv, SoleRows, Accounts, OneBusy, NEW s \in Sessions,
           SetColumn(s) \/ CheckWalletPart(s)
    PROVE  Accounts'
<1> DEFINE c == call[s]
<1>1. c.at \in {"setColumn", "checkWallet"} /\ walletPart \in Nat
    BY Known DEF SetColumn, CheckWalletPart, At
<1>2. Accounted(c) /\ \A t \in Sessions \ {s} : call[t] = Idle
    BY <1>1, AccountGoesOn
<1>3. BalancedWrite(c)
    BY <1>1, <1>2 DEF Accounted, Taking, BalancedGiving, Returning, BalancedCancel,
                      BalancedRecord
<1>4. UNCHANGED <<status, rows, walletPart, paid, refunded>>
    BY DEF SetColumn, CheckWalletPart, orderVars, ledgerVars
<1>5. CASE SetColumn(s) /\ c.then = "idle"
    <2>1. Becomes(s, Idle)
        BY <1>5 DEF SetColumn, Idle
    <2>2. c.at = "setColumn"
        BY <1>5 DEF SetColumn, At
    <2>3. Balanced
        BY <1>3, <1>5, <2>2 DEF BalancedWrite
    <2>. QED
        BY <1>2, <1>4, <2>1, <2>3, SameBalance, IdleIsGrounded, AccountStep
<1>6. CASE SetColumn(s) /\ c.then # "idle"
    <2>1. c.at = "setColumn"
        BY <1>6 DEF SetColumn, At
    <2>2. c.then = "checkWallet" /\ ~Held /\ walletPart = Net
        BY <1>3, <1>6, <2>1 DEF BalancedWrite
    <2>3. PICK x \in Execution : Becomes(s, x) /\ x.at = "checkWallet"
        <3>1. Becomes(s, [Idle EXCEPT !.at = "checkWallet"])
            BY <1>6, <2>2 DEF SetColumn
        <3>. QED
            BY <3>1, IdleAt DEF Steps
    <2>4. x # Idle /\ BalancedWrite(x)'
        BY <1>4, <2>2, <2>3, SameBalance DEF BalancedWrite, Idle
    <2>. QED
        BY <1>2, <2>3, <2>4, AccountStep DEF Accounted
<1>7. CASE CheckWalletPart(s)
    <2>1. c.at = "checkWallet"
        BY <1>7 DEF CheckWalletPart, At
    <2>2. ~Held /\ walletPart = Net
        BY <1>3, <2>1 DEF BalancedWrite
    <2>3. CASE walletPart > 0
        <3>1. PICK x \in Execution : Becomes(s, x) /\ BackFirst(x)
            BY <1>7, <2>3, GivesBack DEF CheckWalletPart, Idle, BackFirst
        <3>2. ~Held' /\ Net' >= 0 /\ Net' # 0
            BY <1>1, <1>4, <2>2, <2>3, SameBalance
        <3>3. x # Idle /\ BalancedGiving(x)'
            BY <3>1, <3>2 DEF BalancedGiving, Returning, BackFirst, Idle
        <3>. QED
            BY <1>2, <3>1, <3>3, AccountStep DEF Accounted
    <2>4. CASE ~(walletPart > 0)
        <3>1. Balanced
            BY <1>1, <2>2, <2>4 DEF Balanced
        <3>. QED
            BY <1>2, <1>4, <1>7, <2>4, <3>1, SameBalance, IdleIsGrounded, AccountStep
               DEF CheckWalletPart
    <2>. QED
        BY <2>3, <2>4
<1>. QED
    BY <1>5, <1>6, <1>7

(* A cancellation, from the status written to the refund. *)
LEMMA AccountCancels ==
    ASSUME PayInv, SoleRows, Accounts, OneBusy, NEW s \in Sessions,
           \/ WriteCancelled(s) \/ MarkRefundPendingIfPaid(s) \/ RefundRow(s)
           \/ CreditAll(s) \/ WriteRefundTransaction(s)
    PROVE  Accounts'
<1>y. PICK c : c = call[s]
    OBVIOUS
<1>1. /\ c.at \in {"cancel", "refund", "refundRow", "creditAll", "writeRefundTx"}
      /\ c \in Execution /\ c.amount \in Nat /\ c.row \in Nat
      /\ walletPart \in Nat /\ paid \in Nat /\ refunded \in Nat
      /\ Latest \in Nat /\ DOMAIN rows = 1 .. Latest /\ rows \in Seq(Payment)
      /\ \A i \in DOMAIN rows : rows[i] \in Payment
    BY <1>y, Known DEF WriteCancelled, MarkRefundPendingIfPaid, RefundRow, CreditAll,
                       WriteRefundTransaction, At
<1>2. /\ Accounted(c) /\ Placed(c) /\ Grounded(c)
      /\ \A t \in Sessions \ {s} : call[t] = Idle
    BY <1>y, <1>1, AccountGoesOn
<1>3. BalancedCancel(c) /\ Balanced
    BY <1>1, <1>2 DEF Accounted, Taking, BalancedGiving, Returning, BalancedWrite,
                      BalancedRecord, BalancedCancel
<1>4. c.at \in {"refundRow", "creditAll", "writeRefundTx"} =>
          c.row = Latest /\ Latest \in DOMAIN rows /\ rows # <<>>
    BY <1>1, <1>2 DEF Grounded, Placed, UsesRow
<1>5. UNCHANGED <<rows, walletPart>>
    BY DEF WriteCancelled, MarkRefundPendingIfPaid, RefundRow, CreditAll,
           WriteRefundTransaction, orderVars
<1>6. ASSUME UNCHANGED <<status, paid, refunded>>, Becomes(s, Idle) PROVE Accounts'
    BY <1>2, <1>3, <1>5, <1>6, SameBalance, IdleIsGrounded, AccountStep
<1>7. CASE WriteCancelled(s)
    <2>1. PICK x \in Execution : Becomes(s, x) /\ x.at = "refund"
        <3> DEFINE y == [c EXCEPT !.at = "refund"]
        <3>1. y \in Execution /\ y.at = "refund" /\ Becomes(s, y)
            BY <1>y, <1>1, <1>7 DEF WriteCancelled, Goes, Execution, Steps
        <3>. HIDE DEF y
        <3>. QED
            BY <3>1
    <2>2. status' = "cancelled" /\ status # "delivered" /\ UNCHANGED <<paid, refunded>>
        BY <1>y, <1>3, <1>7 DEF WriteCancelled, At, BalancedCancel, ledgerVars
    <2>3. /\ Held' = Held /\ AllFromWallet' = AllFromWallet /\ Net' = Net
          /\ (rows[Latest])' = rows[Latest]
        BY <1>5, <2>2 DEF Held, AllFromWallet, Net, Latest
    <2>4. Balanced'
        BY <1>3, <1>5, <2>2, <2>3 DEF Balanced
    <2>5. x # Idle /\ BalancedCancel(x)'
        BY <2>1, <2>2, <2>4 DEF BalancedCancel, Idle
    <2>. QED
        BY <1>2, <2>1, <2>5, AccountStep DEF Accounted
<1>8. CASE MarkRefundPendingIfPaid(s)
    <2>1. UNCHANGED <<status, paid, refunded>> /\ status # "delivered"
        BY <1>y, <1>3, <1>8 DEF MarkRefundPendingIfPaid, At, BalancedCancel, ledgerVars, orderVars
    <2>2. CASE rows = <<>>
        BY <1>6, <1>8, <2>1, <2>2 DEF MarkRefundPendingIfPaid
    <2>3. CASE rows # <<>>
        <3>y. PICK row : row = rows[Latest]
            OBVIOUS
        <3>1. row \in Payment
            BY <1>1, <2>3, <3>y DEF Latest
        <3>p. PICK p : p = IF HasWalletPart(row) THEN "giveBack" ELSE "refundRow"
            OBVIOUS
        <3>2. PICK x \in Execution : /\ Becomes(s, x) /\ x.at = p /\ x.then = "refundRow"
                                     /\ x.result = row.status
            <4> DEFINE y == [Idle EXCEPT !.at = p, !.then = "refundRow", !.row = Latest,
                                         !.result = row.status]
            <4>1. y \in Execution /\ y.at = p /\ y.then = "refundRow" /\ y.result = row.status
                BY <1>1, <3>1, <3>p DEF Idle, Execution, Steps, Methods, Payment
            <4>2. Becomes(s, y)
                BY <1>8, <2>3, <3>y, <3>p DEF MarkRefundPendingIfPaid
            <4>. HIDE DEF y
            <4>. QED
                BY <4>1, <4>2
        <3>3. x # Idle
            BY <3>2, <3>p DEF Idle
        <3>4. /\ Balanced' /\ (Held' <=> Held) /\ (AllFromWallet' <=> AllFromWallet)
              /\ (rows[Latest])' = row /\ Net' = Net
            BY <1>3, <1>5, <2>1, <3>y, SameBalance
        <3>5. Held <=> row.status # "failed"
            BY <2>3, <3>y DEF Held, Live
        <3>6. row.status # "collected"
            BY <1>3, <2>1, <3>y, <3>5 DEF Balanced
        <3>7. AllFromWallet <=> row.provider = "wallet"
            BY <3>y DEF AllFromWallet
        <3>8. CASE HasWalletPart(row)
            <4>1. /\ Held /\ ~AllFromWallet /\ walletPart > 0 /\ x.at = "giveBack"
                BY <3>2, <3>p, <3>5, <3>7, <3>8 DEF HasWalletPart
            <4>2. Net = walletPart
                BY <1>3, <4>1 DEF Balanced
            <4>3. Returning(x)'
                BY <1>1, <3>4, <4>1, <4>2 DEF Returning
            <4>4. BalancedGiving(x)'
                BY <3>2, <3>4, <3>6, <4>1, <4>3 DEF BalancedGiving
            <4>. QED
                BY <1>2, <3>2, <3>3, <4>4, AccountStep DEF Accounted
        <3>9. CASE ~HasWalletPart(row)
            <4>1. AllFromWallet \/ Net = 0
                BY <1>1, <1>3, <3>1, <3>5, <3>6, <3>7, <3>9, <3>y
                   DEF Balanced, HasWalletPart, Payment, PaymentStatuses, Closed
            <4>2. BalancedCancel(x)'
                BY <3>2, <3>p, <3>4, <3>6, <3>9, <4>1 DEF BalancedCancel
            <4>. QED
                BY <1>2, <3>2, <3>3, <4>2, AccountStep DEF Accounted
        <3>. QED
            BY <3>8, <3>9
    <2>. QED
        BY <2>2, <2>3
<1>9. CASE RefundRow(s)
    <2>1. c.at = "refundRow" /\ UNCHANGED <<status, paid, refunded>>
        BY <1>y, <1>9 DEF RefundRow, At, ledgerVars, orderVars
    <2>2. /\ c.result = rows[Latest].status /\ (AllFromWallet \/ Net = 0)
          /\ c.row = Latest /\ rows # <<>> /\ Latest \in DOMAIN rows
        BY <1>3, <1>4, <2>1 DEF BalancedCancel
    <2>3. /\ Balanced' /\ (Held' <=> Held) /\ (AllFromWallet' <=> AllFromWallet)
          /\ (rows[Latest])' = rows[Latest] /\ Net' = Net
        BY <1>3, <1>5, <2>1, SameBalance
    <2>4. CASE c.result # "paid"
        BY <1>y, <1>6, <1>9, <2>1, <2>4 DEF RefundRow
    <2>5. CASE c.result = "paid" /\ AllFromWallet
        <3>1. Held /\ Net = rows[Latest].amount /\ rows[Latest].amount \in Nat
            BY <1>1, <1>3, <2>2, <2>5 DEF Balanced, Held, Live, Payment
        <3>2. PICK x \in Execution : /\ Becomes(s, x) /\ x.at = "creditAll"
                                     /\ x.amount = Net
            <4> DEFINE y == [Idle EXCEPT !.at = "creditAll", !.row = Latest,
                                         !.amount = rows[Latest].amount]
            <4>1. y \in Execution /\ y.at = "creditAll" /\ y.amount = Net
                BY <1>1, <3>1 DEF Idle, Execution, Steps, Methods, PaymentStatuses
            <4>2. Becomes(s, y)
                BY <1>y, <1>9, <2>2, <2>5 DEF RefundRow, AllFromWallet
            <4>. HIDE DEF y
            <4>. QED
                BY <4>1, <4>2
        <3>3. BalancedCancel(x)'
            BY <2>2, <2>3, <2>5, <3>2 DEF BalancedCancel
        <3>4. x # Idle
            BY <3>2 DEF Idle
        <3>. QED
            BY <1>2, <3>2, <3>3, <3>4, AccountStep DEF Accounted
    <2>6. CASE c.result = "paid" /\ ~AllFromWallet
        <3>1. Becomes(s, Writing(Latest, "refund_pending"))
            BY <1>y, <1>9, <2>2, <2>6 DEF RefundRow, AllFromWallet
        <3>2. PICK x \in Execution : /\ Becomes(s, x) /\ x.at = "write" /\ x.then = "idle"
                                     /\ x.result = "refund_pending"
            BY <1>1, <2>2, <3>1, WritingIsGrounded DEF PaymentStatuses
        <3>3. BalancedWrite(x)'
            BY <2>2, <2>3, <2>6, <3>2 DEF BalancedWrite
        <3>4. x # Idle
            BY <3>2 DEF Idle
        <3>. QED
            BY <1>2, <3>2, <3>3, <3>4, AccountStep DEF Accounted
    <2>. QED
        BY <2>4, <2>5, <2>6
<1>10. CASE CreditAll(s)
    <2>1. c.at = "creditAll" /\ UNCHANGED <<status, paid, refunded>>
        BY <1>y, <1>10 DEF CreditAll, At, orderVars
    <2>2. AllFromWallet /\ rows[Latest].status = "paid" /\ c.amount = Net
        BY <1>3, <2>1 DEF BalancedCancel
    <2>3. PICK x \in Execution : Becomes(s, x) /\ x.at = "writeRefundTx" /\ x.amount = c.amount
        <3> DEFINE y == [c EXCEPT !.at = "writeRefundTx"]
        <3>1. y \in Execution /\ y.at = "writeRefundTx" /\ y.amount = c.amount
            BY <1>1 DEF Execution, Steps
        <3>2. Becomes(s, y)
            BY <1>y, <1>10 DEF CreditAll, Goes
        <3>. HIDE DEF y
        <3>. QED
            BY <3>1, <3>2
    <2>4. /\ Balanced' /\ AllFromWallet' /\ (rows[Latest].status)' = "paid" /\ Net' = Net
        BY <1>3, <1>5, <2>1, <2>2, SameBalance
    <2>5. x # Idle /\ BalancedCancel(x)'
        BY <2>2, <2>3, <2>4 DEF BalancedCancel, Idle
    <2>. QED
        BY <1>2, <2>3, <2>5, AccountStep DEF Accounted
<1>11. CASE WriteRefundTransaction(s)
    <2>1. c.at = "writeRefundTx" /\ refunded' = refunded + c.amount /\ paid' = paid
        BY <1>y, <1>11 DEF WriteRefundTransaction, At
    <2>2. AllFromWallet /\ c.amount = Net /\ c.row = Latest /\ Latest \in DOMAIN rows
        BY <1>3, <1>4, <2>1 DEF BalancedCancel
    <2>3. Net' = 0 /\ AllFromWallet'
        BY <1>1, <1>5, <2>1, <2>2 DEF Net, AllFromWallet, Latest
    <2>4. PICK x \in Execution : /\ Becomes(s, x) /\ x.at = "write" /\ x.then = "idle"
                                 /\ x.result = "refunded"
        <3>1. Becomes(s, Writing(Latest, "refunded"))
            BY <1>y, <1>11, <2>2 DEF WriteRefundTransaction
        <3>. QED
            BY <1>1, <2>2, <3>1, WritingIsGrounded DEF PaymentStatuses
    <2>5. x # Idle /\ BalancedWrite(x)'
        BY <2>3, <2>4 DEF BalancedWrite, Idle
    <2>. QED
        BY <1>2, <2>4, <2>5, AccountStep DEF Accounted
<1>. QED
    BY <1>7, <1>8, <1>9, <1>10, <1>11

(* The order is taken up again, or the cash is collected. *)
LEMMA AccountRestores ==
    ASSUME PayInv, SoleRows, Accounts, OneBusy, NEW s \in Sessions,
           RestorePayment(s) \/ RestoreColumn(s) \/ Reopen(s) \/ MarkCodCollected(s)
    PROVE  Accounts'
<1>y. PICK c : c = call[s]
    OBVIOUS
<1>1. /\ c.at \in {"restorePayment", "restoreColumn", "reopen", "collect"} /\ c \in Execution
      /\ Latest \in Nat /\ DOMAIN rows = 1 .. Latest /\ rows \in Seq(Payment)
    BY <1>y, Known DEF RestorePayment, RestoreColumn, Reopen, MarkCodCollected, At
<1>2. Accounted(c) /\ \A t \in Sessions \ {s} : call[t] = Idle
    BY <1>y, <1>1, AccountGoesOn
<1>3. /\ Balanced
      /\ IF c.at = "collect" THEN status = "delivered" ELSE status # "delivered"
    BY <1>1, <1>2 DEF Accounted, Taking, BalancedGiving, Returning, BalancedWrite,
                      BalancedRecord, BalancedCancel
<1>4. UNCHANGED <<walletPart, paid, refunded>>
    BY DEF RestorePayment, RestoreColumn, Reopen, MarkCodCollected, orderVars, ledgerVars
<1>5. ASSUME NEW q \in {"restoreColumn", "reopen"}, Goes(s, q)
      PROVE  \E x \in Execution : Becomes(s, x) /\ x.at = q
    <2> DEFINE y == [c EXCEPT !.at = q]
    <2>1. y \in Execution /\ y.at = q
        BY <1>1 DEF Execution, Steps
    <2>2. Becomes(s, y)
        BY <1>y, <1>5 DEF Goes
    <2>. HIDE DEF y
    <2>. QED
        BY <2>1, <2>2
<1>6. ASSUME NEW q \in {"restoreColumn", "reopen"}, Goes(s, q), Balanced', status' # "delivered"
      PROVE  Accounts'
    <2>1. PICK x \in Execution : Becomes(s, x) /\ x.at = q
        BY <1>5, <1>6
    <2>2. x # Idle /\ BalancedCancel(x)'
        BY <1>6, <2>1 DEF BalancedCancel, Idle
    <2>. QED
        BY <1>2, <2>1, <2>2, AccountStep DEF Accounted
<1>7. CASE RestorePayment(s)
    <2>1. status' = status /\ status # "delivered"
        BY <1>y, <1>3, <1>7 DEF RestorePayment, At, orderVars
    <2>2. CASE /\ rows # <<>> /\ rows[Latest].status = "refund_pending"
               /\ SetRow(Latest, "paid") /\ Goes(s, "restoreColumn")
        <3>1. Latest \in DOMAIN rows /\ Held
            BY <1>1, <2>2 DEF Latest, Held, Live
        <3>2. ~AllFromWallet /\ walletPart = Net
            BY <1>3, <2>2, <3>1 DEF Balanced
        <3>3. /\ Held' /\ ~AllFromWallet' /\ (rows[Latest].status)' = "paid" /\ Net' = Net
            BY <1>4, <2>1, <2>2, <3>1, <3>2, LatestBecomes DEF PaymentStatuses
        <3>4. Balanced'
            BY <1>4, <3>2, <3>3 DEF Balanced, Closed
        <3>. QED
            BY <1>6, <2>1, <2>2, <3>4
    <2>3. CASE UNCHANGED rows /\ Goes(s, "reopen")
        BY <1>3, <1>4, <1>6, <2>1, <2>3, SameBalance
    <2>. QED
        BY <1>7, <2>2, <2>3 DEF RestorePayment
<1>8. CASE RestoreColumn(s)
    <2>1. UNCHANGED <<status, rows>> /\ status # "delivered"
        BY <1>y, <1>3, <1>8 DEF RestoreColumn, At
    <2>. QED
        BY <1>3, <1>4, <1>6, <1>8, <2>1, SameBalance DEF RestoreColumn
<1>9. CASE Reopen(s)
    <2>1. status' = "placed" /\ rows' = rows /\ status # "delivered" /\ Becomes(s, Idle)
        BY <1>y, <1>3, <1>9 DEF Reopen, At
    <2>2. /\ Held' = Held /\ AllFromWallet' = AllFromWallet /\ Net' = Net
          /\ (rows[Latest])' = rows[Latest]
        BY <1>4, <2>1 DEF Held, AllFromWallet, Net, Latest
    <2>3. Balanced'
        BY <1>3, <1>4, <2>1, <2>2 DEF Balanced
    <2>. QED
        BY <1>2, <2>1, <2>3, IdleIsGrounded, AccountStep
<1>10. CASE MarkCodCollected(s)
    <2>1. UNCHANGED <<status, rows>> /\ status = "delivered"
        BY <1>y, <1>3, <1>10 DEF MarkCodCollected, At, orderVars
    <2>2. Balanced' /\ (AllFromWallet' <=> AllFromWallet)
        BY <1>3, <1>4, <2>1, SameBalance
    <2>3. CASE Becomes(s, Idle)
        BY <1>2, <2>2, <2>3, IdleIsGrounded, AccountStep
    <2>4. CASE /\ rows # <<>> /\ rows[Latest].provider = "cod"
               /\ Becomes(s, Writing(Latest, "collected"))
        <3>1. Latest \in DOMAIN rows
            BY <1>1, <2>4 DEF Latest
        <3>2. PICK x \in Execution : /\ Becomes(s, x) /\ x.at = "write" /\ x.then = "idle"
                                     /\ x.result = "collected"
            BY <1>1, <2>4, <3>1, WritingIsGrounded DEF PaymentStatuses
        <3>3. ~AllFromWallet
            BY <2>4 DEF AllFromWallet
        <3>4. x # Idle /\ BalancedWrite(x)'
            BY <2>1, <2>2, <3>2, <3>3 DEF BalancedWrite, Idle
        <3>. QED
            BY <1>2, <3>2, <3>4, AccountStep DEF Accounted
    <2>. QED
        BY <1>10, <2>3, <2>4 DEF MarkCodCollected
<1>. QED
    BY <1>7, <1>8, <1>9, <1>10

LEMMA AccountNext ==
    ASSUME PayInv, SoleRows, Accounts, OneBusy, OneBusy', [Next]_vars
    PROVE  Accounts'
<1>1. ASSUME NEW s \in Sessions, Call(s) PROVE Accounts'
    BY <1>1, AccountCalls
<1>2. ASSUME NEW s \in Sessions, Continue(s) PROVE Accounts'
    BY <1>2, AccountGiving, AccountTaking, AccountRecorded, AccountDrops, AccountWrites,
       AccountColumns, AccountCancels, AccountRestores DEF Continue
<1>3. CASE UNCHANGED vars \/ Reallocate
    <2>1. UNCHANGED <<status, rows, walletPart, paid, refunded, call>>
        BY <1>3, OnlyTheVendor DEF vars, orderVars, ledgerVars
    <2>2. Quiet' <=> Quiet
        BY <2>1 DEF Quiet
    <2>3. ASSUME NEW s \in Sessions PROVE Accounted(call[s])' <=> Accounted(call[s])
        BY <2>1, SameBalance DEF Accounted, Taking, BalancedGiving, Returning, BalancedWrite,
                                 BalancedCancel, BalancedRecord
    <2>. QED
        BY <2>1, <2>2, <2>3, SameBalance DEF Accounts
<1>. QED
    BY <1>1, <1>2, <1>3 DEF Next

(* How a call ends that is at one of the last steps of a cancellation. *)
LEMMA EndsWithItsStep ==
    ASSUME PayInv, [Next]_vars, NEW s \in Sessions, call'[s] = Idle,
           call[s].at \in {"refund", "refundRow"}
    PROVE  /\ call[s].at = "refund" => rows = <<>>
           /\ call[s].at = "refundRow" => call[s].result # "paid"
<1>1. call[s] # Idle
    BY DEF Idle
<1>2. PICK t \in Sessions : Call(t) \/ Continue(t)
    BY <1>1, OnlyTheVendor DEF Next, vars
<1>3. \E x : Becomes(t, x)
    BY <1>2 DEF Call, Continue, Starts, Goes, Initiate, ConfirmByCustomer, Reconcile,
                MarkRefunded, Cancel, RestoreOrder, Deliver, GiveBack, Credit,
                ClearWalletPart, DropAbandoned, ChooseMethod, DebitAll, WriteTransaction,
                ReadBalance, DebitPart, InsertPayment, ProviderFails, RecordPayment,
                WriteRow, SetColumn, CheckWalletPart, WriteCancelled,
                MarkRefundPendingIfPaid, RefundRow, CreditAll, WriteRefundTransaction,
                RestorePayment, RestoreColumn, Reopen, MarkCodCollected
<1>4. t = s
    BY <1>1, <1>3 DEF Becomes, PayInv, TypeOK
<1>5. ~Call(s)
    BY <1>1 DEF Call, Starts, Initiate, ConfirmByCustomer, Reconcile, MarkRefunded, Cancel,
                RestoreOrder, Deliver
<1>6. MarkRefundPendingIfPaid(s) \/ RefundRow(s)
    BY <1>2, <1>4, <1>5
       DEF Continue, At, GiveBack, Credit, ClearWalletPart, DropAbandoned, ChooseMethod,
           DebitAll, WriteTransaction, ReadBalance, DebitPart, InsertPayment,
           ProviderFails, RecordPayment, WriteRow, SetColumn, CheckWalletPart,
           WriteCancelled, CreditAll, WriteRefundTransaction, RestorePayment,
           RestoreColumn, Reopen, MarkCodCollected
<1>7. \A x : Becomes(s, x) => x = Idle
    BY DEF Becomes, PayInv, TypeOK
<1>8. CASE MarkRefundPendingIfPaid(s)
    <2>1. call[s].at = "refund"
        BY <1>8 DEF MarkRefundPendingIfPaid, At
    <2>2. ASSUME rows # <<>> PROVE FALSE
        <3>y. PICK p, i, st : /\ p = IF HasWalletPart(rows[Latest]) THEN "giveBack" ELSE "refundRow"
                              /\ i = Latest /\ st = rows[Latest].status
            OBVIOUS
        <3>1. Becomes(s, [Idle EXCEPT !.at = p, !.then = "refundRow", !.row = i,
                                      !.result = st])
            BY <1>8, <2>2, <3>y DEF MarkRefundPendingIfPaid
        <3>2. [Idle EXCEPT !.at = p, !.then = "refundRow", !.row = i, !.result = st] = Idle
            BY <1>7, <3>1
        <3>. QED
            BY <3>2 DEF Idle
    <2>. QED
        BY <2>1, <2>2
<1>9. CASE RefundRow(s)
    <2>1. call[s].at = "refundRow"
        BY <1>9 DEF RefundRow, At
    <2>2. ASSUME call[s].result = "paid" PROVE FALSE
        <3>y. PICK i, n : i = call[s].row /\ n = rows[i].amount
            OBVIOUS
        <3>1. \/ Becomes(s, [Idle EXCEPT !.at = "creditAll", !.row = i, !.amount = n])
              \/ Becomes(s, Writing(i, "refund_pending"))
            BY <1>9, <2>2, <3>y DEF RefundRow
        <3>2. \/ [Idle EXCEPT !.at = "creditAll", !.row = i, !.amount = n] = Idle
              \/ Writing(i, "refund_pending") = Idle
            BY <1>7, <3>1
        <3>. QED
            BY <3>2 DEF Idle, Writing
    <2>. QED
        BY <2>1, <2>2
<1>. QED
    BY <1>6, <1>8, <1>9

LEMMA EndOfCancellation ==
    ASSUME PayInv, SoleRows, Accounts, OneBusy, [Next]_vars, NEW s \in Sessions, CancelEnds(s)
    PROVE  Net = 0 /\ \A i \in DOMAIN rows : rows[i].status # "paid"
<1> DEFINE c == call[s]
<1>1. /\ call'[s] = Idle
      /\ \/ c.at \in {"refund", "refundRow"}
         \/ c.at = "setColumn" /\ c.result \in Closed
    BY DEF CancelEnds, Closed
<1>2. Accounted(c)
    BY <1>1, AccountGoesOn
<1>3. \A i \in DOMAIN rows : i # Latest => rows[i].status = "failed"
    BY DEF SoleRows
<1>4. CASE c.at = "refund"
    <2>1. rows = <<>>
        BY <1>1, <1>4, EndsWithItsStep
    <2>2. Balanced
        BY <1>2, <1>4 DEF Accounted, Taking, BalancedGiving, Returning, BalancedWrite,
                          BalancedRecord, BalancedCancel
    <2>. QED
        BY <2>1, <2>2 DEF Balanced, Held
<1>5. CASE c.at = "refundRow"
    <2>1. c.result # "paid"
        BY <1>1, <1>5, EndsWithItsStep
    <2>2. BalancedCancel(c)
        BY <1>2, <1>5 DEF Accounted, Taking, BalancedGiving, Returning, BalancedWrite,
                          BalancedRecord
    <2>3. Balanced /\ rows[Latest].status # "paid" /\ (AllFromWallet \/ Net = 0)
        BY <1>5, <2>1, <2>2 DEF BalancedCancel
    <2>4. Net = 0
        BY <2>3 DEF Balanced
    <2>. QED
        BY <1>3, <2>3, <2>4
<1>6. CASE c.at = "setColumn" /\ c.result \in Closed
    <2>1. BalancedWrite(c)
        BY <1>2, <1>6 DEF Accounted, Taking, BalancedGiving, Returning, BalancedCancel,
                          BalancedRecord
    <2>2. Net = 0 /\ rows[Latest].status \in Closed
        BY <1>6, <2>1 DEF BalancedWrite, Closed
    <2>. QED
        BY <1>3, <2>2 DEF Closed
<1>. QED
    BY <1>1, <1>4, <1>5, <1>6

(* "Puts back whatever the wallet still holds for this order": as long as  *)
(* calls come one at a time, a cancellation that has run to its end leaves *)
(* nothing of the wallet with the order and no payment as paid, whatever   *)
(* was tried, dropped, refunded or restored before.                        *)
THEOREM CancellationRefunds == MCSpec => CancelRefundsAlone
<1> DEFINE Inv == PayInv /\ (alone => OneBusy /\ SoleRows /\ Accounts)
<1>1. MCInit => Inv
    <2>1. Init => OneBusy /\ SoleRows
        BY IdleIsPlaced DEF Init, OneBusy, Busy, SoleRows
    <2>2. Init => Accounts
        BY DEF Init, Accounts, Balanced, Held, Net
    <2>. QED
        BY <2>1, <2>2, PayStart DEF MCInit
<1>2. Inv /\ [MCNext]_mcVars => Inv'
    <2> SUFFICES ASSUME Inv, [MCNext]_mcVars PROVE Inv'
        OBVIOUS
    <2>1. [Next]_vars /\ PayInv'
        BY PayNext DEF MCNext, mcVars
    <2>2. ASSUME alone' PROVE alone /\ OneBusy /\ OneBusy'
        <3>1. CASE MCNext
            BY <2>2, <3>1 DEF MCNext, OneBusy
        <3>2. CASE UNCHANGED mcVars
            BY <2>2, <3>2 DEF mcVars, vars, OneBusy, Busy
        <3>. QED
            BY <3>1, <3>2
    <2>3. ASSUME alone' PROVE OneBusy' /\ SoleRows' /\ Accounts'
        BY <2>1, <2>2, <2>3, SoleNext, AccountNext
    <2>. QED
        BY <2>1, <2>3
<1>3. Inv /\ [MCNext]_mcVars =>
          [alone' => \A s \in Sessions : CancelEnds(s) =>
              Net = 0 /\ \A i \in DOMAIN rows : rows[i].status # "paid"]_mcVars
    <2> SUFFICES ASSUME Inv, MCNext, alone', NEW s \in Sessions, CancelEnds(s)
                 PROVE  Net = 0 /\ \A i \in DOMAIN rows : rows[i].status # "paid"
        OBVIOUS
    <2>1. alone /\ [Next]_vars
        BY DEF MCNext
    <2>. QED
        BY <2>1, EndOfCancellation
<1>. QED
    BY <1>1, <1>2, <1>3, PTL DEF MCSpec, CancelRefundsAlone
=============================================================================
