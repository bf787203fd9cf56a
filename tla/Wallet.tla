------------------------------- MODULE Wallet -------------------------------
(***************************************************************************)
(* One user's wallet (wallet.service.ts, and the wallet writes of          *)
(* payment.service.ts and settlement.service.ts).                          *)
(*                                                                         *)
(* The balance is one number; the rows of wallet_transactions say how it   *)
(* came about, and a dated credit also says how much of it is unspent      *)
(* (remaining) and until when.  Money leaves the credit that expires first *)
(* first, and what is left of a credit when its day is over is taken from  *)
(* the balance by a sweep.  Only some operations are database              *)
(* transactions: a call in progress is a record in run[h], and each step   *)
(* is one awaited query or one transaction.  A call that its first query   *)
(* refuses changes nothing and is left out.                                *)
(***************************************************************************)
EXTENDS Integers, Sequences, FiniteSets, SequencesExt, FiniteSetsExt

CONSTANTS
    Slots,        \* calls that may be in progress at once
    Customer,     \* TRUE: users.role = 'customer'; FALSE: a vendor
    Openings,     \* what the wallet may hold at first
    Amounts,      \* amounts a call may be about
    Validities,   \* days a credit or a card may be valid
    Friends,      \* users who signed up with this user's referral code
    LastDay,      \* bound: the days that pass
    MaxCalls,     \* bound: calls made
    Calls         \* the calls of this run

ASSUME WalletAssumption ==
    /\ IsFiniteSet(Slots)
    /\ Customer \in BOOLEAN
    /\ Openings \subseteq Nat
    /\ Amounts \subseteq Nat \ {0}
    /\ Validities \subseteq Nat \ {0}
    /\ LastDay \in Nat
    /\ MaxCalls \in Nat

VARIABLES
    day,       \* the date
    wallet,    \* the row of wallets
    txs,       \* the rows of wallet_transactions, oldest first
    card,      \* the scratch card of one delivered order
    requests,  \* the rows of withdrawal_requests, oldest first
    rewarded,  \* the friends whose referral_rewarded_at is set
    run,       \* the calls in progress
    made       \* the number of calls made

vars == <<day, wallet, txs, card, requests, rewarded, run, made>>

Never == LastDay + 100   \* expires_at is null

Row(type, amount, remaining, expires, status, ref) ==
    [type |-> type, amount |-> amount, remaining |-> remaining,
     expires |-> expires, status |-> status, ref |-> ref]

Entry(type, amount, ref) == Row(type, amount, 0, Never, "completed", ref)
DatedCredit(type, amount, days, ref) ==
    Row(type, amount, amount, day + days, "completed", ref)

(* The code compares expiresAt < now and expiresAt > now; no credit        *)
(* expires at the very instant of a query.                                 *)
Overdue == {i \in DOMAIN txs : /\ txs[i].remaining > 0
                               /\ txs[i].expires <= day
                               /\ txs[i].status = "completed"}
Active == {i \in DOMAIN txs : txs[i].remaining > 0 /\ txs[i].expires > day}

SumOf(f, S) == MapThenSumSet(LAMBDA x : f[x], S)
Unspent(S) == SumOf([i \in S |-> txs[i].remaining], S)

ExpiresFirst(i, j) ==
    \/ txs[i].expires < txs[j].expires
    \/ txs[i].expires = txs[j].expires /\ i < j

(* deductWalletFifo: what an active credit has left once amount is taken   *)
(* from the credits in the order of their dates.                           *)
FifoLeft(i, amount) ==
    LET before == Unspent({j \in Active : ExpiresFirst(j, i)})
    IN  txs[i].remaining - Min({txs[i].remaining, Max({0, amount - before})})

FifoPlans(amount) ==
    LET touched == {i \in Active : FifoLeft(i, amount) < txs[i].remaining}
        orders == {s \in SetToSeqs(touched) :
                      \A m, n \in DOMAIN s : m < n => ExpiresFirst(s[m], s[n])}
    IN  {[n \in DOMAIN s |-> [id |-> s[n], left |-> FifoLeft(s[n], amount)]] : s \in orders}

(* Mutant: the balance is debited, the credits are not used up.            *)
UseNoCredit(amount) == txs

AfterFifo(amount) ==
    [i \in DOMAIN txs |->
        IF i \in Active THEN [txs[i] EXCEPT !.remaining = FifoLeft(i, amount)]
                        ELSE txs[i]]

Credit(n) == wallet' = [wallet EXCEPT !.balance = @ + n]
Earn(n) == wallet' = [wallet EXCEPT !.balance = @ + n, !.earned = @ + n]
Debit(n) == wallet' = [wallet EXCEPT !.balance = @ - n]
DebitToZero(n) == wallet' = [wallet EXCEPT !.balance = Max({0, @ - n})]
Record(row) == txs' = Append(txs, row)

Idle == [call |-> "none", at |-> "idle", ref |-> 0, amount |-> 0, todo |-> <<>>]

Init ==
    /\ day = 0
    /\ \E n \in Openings, d \in Validities :
        /\ wallet = [balance |-> n, earned |-> n, withdrawn |-> 0]
        /\ txs = IF n = 0 THEN <<>>
                 ELSE IF Customer THEN <<Row("adjustment", n, n, d, "completed", 0)>>
                 ELSE <<Entry("adjustment", n, 0)>>
    /\ card = [status |-> "none", expires |-> Never]
    /\ requests = <<>>
    /\ rewarded = {}
    /\ run = [h \in Slots |-> Idle]
    /\ made = 0

At(h, at) == run[h].at = at
Goto(h, r) == run' = [run EXCEPT ![h] = r] /\ UNCHANGED <<day, made>>
Becomes(h, at) == Goto(h, [run[h] EXCEPT !.at = at])
Done(h) == Goto(h, Idle)

(* A new call, by its first query.                                         *)
Called(h, call) == run[h] = Idle /\ call \in Calls /\ made < MaxCalls
Enters(h, r) ==
    run' = [run EXCEPT ![h] = r] /\ made' = made + 1 /\ day' = day
Call(call, at, ref, amount) ==
    [call |-> call, at |-> at, ref |-> ref, amount |-> amount, todo |-> <<>>]

-----------------------------------------------------------------------------
(* expireOldScratchCards is one update, expireOldWalletAmounts a query and *)
(* one transaction per credit it returned.                                 *)

CardIsDue == card.status = "unscratched" /\ card.expires <= day
CardAfterSweep == IF CardIsDue THEN [card EXCEPT !.status = "expired"] ELSE card

(* Where a call goes on when the overdue credits are taken.                *)
AfterSweep(call) == IF call \in {"pay", "withdraw"} THEN "readBalance" ELSE "idle"
Swept(r) == IF AfterSweep(r.call) = "idle" THEN Idle
            ELSE [r EXCEPT !.at = AfterSweep(r.call), !.todo = <<>>]

OverdueRead(r) ==
    LET orders == {s \in SetToSeqs(Overdue) : \A m, n \in DOMAIN s : m < n => s[m] < s[n]}
    IN  IF Overdue = {} THEN {Swept(r)}
        ELSE {[r EXCEPT !.at = "expire",
                        !.todo = [n \in DOMAIN s |-> [id |-> s[n], left |-> txs[s[n]].remaining]]] :
                 s \in orders}

(* processAllExpirations: at startup, every hour, or by the admin.         *)
SweepAll(h) ==
    /\ Called(h, "sweep")
    /\ card' = CardAfterSweep
    /\ Enters(h, Call("sweep", "readOverdue", 0, 0))
    /\ UNCHANGED <<wallet, txs, requests, rewarded>>

(* getWalletSummary, getCustomerCredits: they sweep before they read.      *)
Summary(h) ==
    /\ Called(h, "summary")
    /\ \E r \in OverdueRead(Call("summary", "readOverdue", 0, 0)) : Enters(h, r)
    /\ UNCHANGED <<wallet, txs, card, requests, rewarded>>

ListCards(h) ==
    /\ run[h] = Idle
    /\ card' = CardAfterSweep
    /\ UNCHANGED <<day, wallet, txs, requests, rewarded, run, made>>

ReadOverdue(h) ==
    /\ At(h, "readOverdue")
    /\ \E r \in OverdueRead(run[h]) : Goto(h, r)
    /\ UNCHANGED <<wallet, txs, card, requests, rewarded>>

(* Mutant: the audit row of an expiry is forgotten.                        *)
TakenUnrecorded(credit) == [txs EXCEPT ![credit.id].remaining = 0]

Taken(credit) ==
    Append([txs EXCEPT ![credit.id].remaining = 0], Entry("expiry", -credit.left, credit.id))

Expire(h) ==
    LET credit == Head(run[h].todo)
        rest == Tail(run[h].todo)
    IN  /\ At(h, "expire")
        /\ txs' = Taken(credit)
        /\ DebitToZero(credit.left)
        /\ Goto(h, IF rest = <<>> THEN Swept(run[h]) ELSE [run[h] EXCEPT !.todo = rest])
        /\ UNCHANGED <<card, requests, rewarded>>

-----------------------------------------------------------------------------
(* Paying for an order.  A part payment is one transaction and uses up the *)
(* dated credits; a payment in full (payment.service.ts) does not.         *)

InFull == 100   \* orders above this number are paid in full

Pay(h) ==
    /\ Called(h, "pay")
    /\ \E n \in Amounts : \E r \in OverdueRead(Call("pay", "readOverdue", made + 1, n)) : Enters(h, r)
    /\ UNCHANGED <<wallet, txs, card, requests, rewarded>>

ReadBalanceToPay(h) ==
    /\ At(h, "readBalance") /\ run[h].call = "pay"
    /\ LET amount == Min({wallet.balance, run[h].amount})
       IN  IF amount <= 0 THEN Done(h)
           ELSE Goto(h, [run[h] EXCEPT !.at = "debitTransaction", !.amount = amount])
    /\ UNCHANGED <<wallet, txs, card, requests, rewarded>>

Covers(n) == wallet.balance >= n

DebitForOrder(h) ==
    /\ At(h, "debitTransaction")
    /\ IF Covers(run[h].amount)
       THEN /\ Debit(run[h].amount)
            /\ txs' = Append(AfterFifo(run[h].amount),
                             Entry("order_payment", run[h].amount, run[h].ref))
       ELSE UNCHANGED <<wallet, txs>>
    /\ Done(h)
    /\ UNCHANGED <<card, requests, rewarded>>

PayInFull(h) ==
    /\ Called(h, "payFull")
    /\ \E n \in Amounts :
        /\ Covers(n)
        /\ Enters(h, Call("payFull", "debitFull", InFull + made + 1, n))
    /\ UNCHANGED <<wallet, txs, card, requests, rewarded>>

DebitInFull(h) ==
    /\ At(h, "debitFull")
    /\ IF Covers(run[h].amount)
       THEN Debit(run[h].amount) /\ Becomes(h, "recordFull")
       ELSE Done(h) /\ UNCHANGED wallet
    /\ UNCHANGED <<txs, card, requests, rewarded>>

RecordPayment(h) ==
    /\ At(h, "recordFull")
    /\ Record(Entry("order_payment", run[h].amount, run[h].ref))
    /\ Done(h)
    /\ UNCHANGED <<wallet, card, requests, rewarded>>

(* refundWalletPortion reads what the wallet still has in the order;       *)
(* refundCustomerForOrder gives it back as a dated credit.                 *)
NetPaid(order) ==
    LET amount == [i \in DOMAIN txs |-> txs[i].amount]
        of(type) == {i \in DOMAIN txs : txs[i].type = type /\ txs[i].ref = order}
    IN  SumOf(amount, of("order_payment")) - SumOf(amount, of("order_refund"))

RefundPortion(h) ==
    /\ Called(h, "refund")
    /\ \E i \in DOMAIN txs :
        /\ txs[i].type = "order_payment" /\ txs[i].ref < InFull
        /\ NetPaid(txs[i].ref) > 0
        /\ Enters(h, Call("refund", "refundTransaction", txs[i].ref, NetPaid(txs[i].ref)))
    /\ UNCHANGED <<wallet, txs, card, requests, rewarded>>

RefundForOrder(h) ==
    /\ At(h, "refundTransaction")
    /\ Credit(run[h].amount)
    /\ \E d \in Validities : Record(DatedCredit("order_refund", run[h].amount, d, run[h].ref))
    /\ Done(h)
    /\ UNCHANGED <<card, requests, rewarded>>

(* A payment in full that is still 'paid' goes back as it came: balance    *)
(* first, then the row, undated.                                           *)
RefundInFull(h) ==
    /\ Called(h, "refundFull")
    /\ \E i \in DOMAIN txs :
        /\ txs[i].type = "order_payment" /\ txs[i].ref > InFull
        /\ NetPaid(txs[i].ref) > 0
        /\ Credit(txs[i].amount)
        /\ Enters(h, Call("refundFull", "recordRefund", txs[i].ref, txs[i].amount))
    /\ UNCHANGED <<txs, card, requests, rewarded>>

RecordRefund(h) ==
    /\ At(h, "recordRefund")
    /\ Record(Entry("order_refund", run[h].amount, run[h].ref))
    /\ Done(h)
    /\ UNCHANGED <<wallet, card, requests, rewarded>>

-----------------------------------------------------------------------------
(* requestWithdrawal and the admin's debit check the balance they read,    *)
(* deduct without a guard, then use up credits one update at a time.       *)

Withdraw(h) ==
    /\ Called(h, "withdraw")
    /\ \E n \in Amounts : \E r \in OverdueRead(Call("withdraw", "readOverdue", 0, n)) : Enters(h, r)
    /\ UNCHANGED <<wallet, txs, card, requests, rewarded>>

ReadBalanceToWithdraw(h) ==
    /\ At(h, "readBalance") /\ run[h].call = "withdraw"
    /\ IF Covers(run[h].amount) THEN Becomes(h, "deduct") ELSE Done(h)
    /\ UNCHANGED <<wallet, txs, card, requests, rewarded>>

AdjustDebit(h) ==
    /\ Called(h, "debit")
    /\ \E n \in Amounts : Covers(n) /\ Enters(h, Call("debit", "deduct", 0, n))
    /\ UNCHANGED <<wallet, txs, card, requests, rewarded>>

AfterFifoQuery(call) == IF call = "withdraw" THEN "insertRequest" ELSE "recordDebit"

Deduct(h) ==
    /\ At(h, "deduct")
    /\ Debit(run[h].amount)
    /\ Becomes(h, IF Customer THEN "readCredits" ELSE AfterFifoQuery(run[h].call))
    /\ UNCHANGED <<txs, card, requests, rewarded>>

ReadCredits(h) ==
    /\ At(h, "readCredits")
    /\ \E plan \in FifoPlans(run[h].amount) :
          IF plan = <<>> THEN Becomes(h, AfterFifoQuery(run[h].call))
          ELSE Goto(h, [run[h] EXCEPT !.at = "useCredit", !.todo = plan])
    /\ UNCHANGED <<wallet, txs, card, requests, rewarded>>

UseCredit(h) ==
    LET credit == Head(run[h].todo)
        rest == Tail(run[h].todo)
    IN  /\ At(h, "useCredit")
        /\ txs' = [txs EXCEPT ![credit.id].remaining = credit.left]
        /\ Goto(h, [run[h] EXCEPT !.todo = rest,
                                  !.at = IF rest = <<>> THEN AfterFifoQuery(run[h].call) ELSE @])
        /\ UNCHANGED <<wallet, card, requests, rewarded>>

InsertRequest(h) ==
    /\ At(h, "insertRequest")
    /\ requests' = Append(requests, [amount |-> run[h].amount, status |-> "pending"])
    /\ Goto(h, [run[h] EXCEPT !.at = "recordWithdrawal", !.ref = Len(requests) + 1])
    /\ UNCHANGED <<wallet, txs, card, rewarded>>

RecordWithdrawal(h) ==
    /\ At(h, "recordWithdrawal")
    /\ Record(Row("withdrawal", -run[h].amount, 0, Never, "pending", run[h].ref))
    /\ Done(h)
    /\ UNCHANGED <<wallet, card, requests, rewarded>>

RecordDebit(h) ==
    /\ At(h, "recordDebit")
    /\ Record(Entry("adjustment", -run[h].amount, 0))
    /\ Becomes(h, "readOverdue")
    /\ UNCHANGED <<wallet, card, requests, rewarded>>

AdjustCredit(h) ==
    /\ Called(h, "credit")
    /\ \E n \in Amounts : Earn(n) /\ Enters(h, Call("credit", "recordCredit", 0, n))
    /\ UNCHANGED <<txs, card, requests, rewarded>>

RecordCredit(h) ==
    /\ At(h, "recordCredit")
    /\ IF Customer
       THEN \E d \in Validities : Record(DatedCredit("adjustment", run[h].amount, d, 0))
       ELSE Record(Entry("adjustment", run[h].amount, 0))
    /\ Becomes(h, "readOverdue")
    /\ UNCHANGED <<wallet, card, requests, rewarded>>

-----------------------------------------------------------------------------
(* approveWithdrawal and rejectWithdrawal: the status is read, then the    *)
(* row is written by id, then what hangs on it.                            *)

ReadRequest(h) ==
    \E call \in {"approve", "reject"}, i \in DOMAIN requests :
        /\ Called(h, call)
        /\ requests[i].status = "pending"
        /\ Enters(h, Call(call, "decide", i, requests[i].amount))
        /\ UNCHANGED <<wallet, txs, card, requests, rewarded>>

Decide(h) ==
    /\ At(h, "decide")
    /\ IF run[h].call = "approve"
       THEN /\ requests' = [requests EXCEPT ![run[h].ref].status = "approved"]
            /\ Becomes(h, "completeRow")
       ELSE /\ requests' = [requests EXCEPT ![run[h].ref].status = "rejected"]
            /\ Becomes(h, "giveBack")
    /\ UNCHANGED <<wallet, txs, card, rewarded>>

RowsOfRequest(r, status) ==
    [i \in DOMAIN txs |->
        IF txs[i].type = "withdrawal" /\ txs[i].status = "pending" /\ txs[i].ref = r
        THEN [txs[i] EXCEPT !.status = status] ELSE txs[i]]

CompleteRow(h) ==
    /\ At(h, "completeRow")
    /\ txs' = RowsOfRequest(run[h].ref, "completed")
    /\ Becomes(h, "countWithdrawn")
    /\ UNCHANGED <<wallet, card, requests, rewarded>>

CountWithdrawn(h) ==
    /\ At(h, "countWithdrawn")
    /\ wallet' = [wallet EXCEPT !.withdrawn = @ + run[h].amount]
    /\ Done(h)
    /\ UNCHANGED <<txs, card, requests, rewarded>>

GiveBack(h) ==
    /\ At(h, "giveBack")
    /\ Credit(run[h].amount)
    /\ Becomes(h, "rejectRow")
    /\ UNCHANGED <<txs, card, requests, rewarded>>

RejectRow(h) ==
    /\ At(h, "rejectRow")
    /\ txs' = RowsOfRequest(run[h].ref, "rejected")
    /\ Done(h)
    /\ UNCHANGED <<wallet, card, requests, rewarded>>

-----------------------------------------------------------------------------
(* The admin's corrections of a credit.  restoreWalletCredit takes any     *)
(* row, whatever its type, and however often it was restored before.       *)

Size(n) == IF n < 0 THEN -n ELSE n

RestoreCredit(h) ==
    /\ Called(h, "restoreCredit")
    /\ \E i \in DOMAIN txs, d \in Validities :
        /\ Earn(Size(txs[i].amount))
        /\ Record(DatedCredit("restoration", Size(txs[i].amount), d, i))
    /\ Enters(h, Call("restoreCredit", "readOverdue", 0, 0))
    /\ UNCHANGED <<card, requests, rewarded>>

AdjustCreditExpiry(h) ==
    /\ Called(h, "adjustExpiry")
    /\ \E i \in DOMAIN txs, d \in Validities \cup {0} :
        txs' = [txs EXCEPT ![i].expires = day + d]
    /\ Enters(h, Idle)
    /\ UNCHANGED <<wallet, card, requests, rewarded>>

-----------------------------------------------------------------------------
(* Scratch cards.  Delivering the order issues one; the index on the order *)
(* lets only one in.                                                       *)

IssueCard(h) ==
    /\ Called(h, "issueCard")
    /\ IF card.status = "none"
       THEN \E d \in Validities : card' = [status |-> "unscratched", expires |-> day + d]
       ELSE card' = card
    /\ Enters(h, Idle)
    /\ UNCHANGED <<wallet, txs, requests, rewarded>>

Scratch(h) ==
    /\ Called(h, "scratch")
    /\ card.status # "none"
    /\ card' = CardAfterSweep
    /\ Enters(h, Call("scratch", "readCard", 0, 0))
    /\ UNCHANGED <<wallet, txs, requests, rewarded>>

ReadCard(h) ==
    /\ At(h, "readCard")
    /\ IF card.status = "expired" \/ CardIsDue THEN Done(h) ELSE Becomes(h, "scratchTransaction")
    /\ UNCHANGED <<wallet, txs, card, requests, rewarded>>

(* Mutant: only the date is compared.                                      *)
ScratchableByDate == card.expires > day

Scratchable == card.status = "unscratched" /\ card.expires > day

ScratchCard(h) ==
    /\ At(h, "scratchTransaction")
    /\ IF Scratchable
       THEN \E n \in Amounts, d \in Validities :
               /\ card' = [card EXCEPT !.status = "scratched"]
               /\ Record(DatedCredit("scratch_card", n, d, 0))
               /\ Earn(n)
       ELSE UNCHANGED <<wallet, txs, card>>
    /\ Becomes(h, "readOverdue")
    /\ UNCHANGED <<requests, rewarded>>

RestoreCard(h) ==
    /\ Called(h, "restoreCard")
    /\ card.status # "none"
    /\ \E d \in Validities : card' = [status |-> "unscratched", expires |-> day + d]
    /\ Enters(h, Idle)
    /\ UNCHANGED <<wallet, txs, requests, rewarded>>

(* adjustScratchCardExpiry decides by the status it read; ref remembers    *)
(* whether that was expired (1), unscratched (2) or scratched (3).         *)
CardCodes == [expired |-> 1, unscratched |-> 2, scratched |-> 3]

ReadCardToAdjust(h) ==
    /\ Called(h, "adjustCard")
    /\ card.status # "none"
    /\ \E d \in Validities \cup {0} :
        Enters(h, Call("adjustCard", "writeCard", CardCodes[card.status], day + d))
    /\ UNCHANGED <<wallet, txs, card, requests, rewarded>>

AdjustCardExpiry(h) ==
    LET seen == run[h].ref
        expires == run[h].amount
    IN  /\ At(h, "writeCard")
        /\ card' = [expires |-> expires,
                    status |-> IF seen = 1 /\ expires > day THEN "unscratched"
                               ELSE IF seen = 2 /\ expires <= day THEN "expired"
                               ELSE card.status]
        /\ Done(h)
        /\ UNCHANGED <<wallet, txs, requests, rewarded>>

-----------------------------------------------------------------------------
(* creditReferralReward: the friend's first delivered order pays this user *)
(* once, by a guarded claim.                                               *)

ReadFriend(h) ==
    /\ Called(h, "reward")
    /\ \E f \in Friends \ rewarded, n \in Amounts : Enters(h, Call("reward", "claim", f, n))
    /\ UNCHANGED <<wallet, txs, card, requests, rewarded>>

(* Mutant: the claim is not guarded.                                       *)
ClaimableAlways(f) == TRUE

Claimable(f) == f \notin rewarded

ClaimReward(h) ==
    /\ At(h, "claim")
    /\ IF Claimable(run[h].ref)
       THEN /\ rewarded' = rewarded \cup {run[h].ref}
            /\ \E d \in Validities :
                Record(DatedCredit("referral_bonus", run[h].amount, d, run[h].ref))
            /\ Earn(run[h].amount)
            /\ Becomes(h, "readOverdue")
       ELSE Done(h) /\ UNCHANGED <<wallet, txs, rewarded>>
    /\ UNCHANGED <<card, requests>>

-----------------------------------------------------------------------------
(* The affiliate commission of one order: a pending row when the order is  *)
(* placed, made a credit when it is delivered.                             *)

Commissions(status) == {i \in DOMAIN txs : /\ txs[i].type = "affiliate_commission"
                                           /\ txs[i].status = status}
Turn(from, to) ==
    txs' = [i \in DOMAIN txs |-> IF i \in Commissions(from)
                                 THEN [txs[i] EXCEPT !.status = to] ELSE txs[i]]

RecordPendingCommission(h) ==
    /\ Called(h, "commission")
    /\ ~\E i \in DOMAIN txs : txs[i].type = "affiliate_commission"
    /\ \E n \in Amounts : Record(Row("affiliate_commission", n, 0, Never, "pending", 0))
    /\ Enters(h, Idle)
    /\ UNCHANGED <<wallet, card, requests, rewarded>>

CancelPendingCommission(h) ==
    /\ Called(h, "cancelCommission")
    /\ Turn("pending", "cancelled")
    /\ Enters(h, Idle)
    /\ UNCHANGED <<wallet, card, requests, rewarded>>

RestorePendingCommission(h) ==
    /\ Called(h, "restoreCommission")
    /\ Turn("cancelled", "pending")
    /\ Enters(h, Idle)
    /\ UNCHANGED <<wallet, card, requests, rewarded>>

(* confirmAffiliateCommission asks for a pending row before                *)
(* confirmCommissionOnDelivery lists them.                                 *)
Confirm(h) ==
    /\ Called(h, "confirm")
    /\ IF Commissions("pending") # {} THEN Enters(h, Call("confirm", "listPending", 0, 0))
       ELSE \E n \in Amounts : Enters(h, Call("confirm", "recordCommission", 0, n))
    /\ UNCHANGED <<wallet, txs, card, requests, rewarded>>

ListPending(h) ==
    /\ At(h, "listPending")
    /\ IF Commissions("pending") = {} THEN Done(h)
       ELSE \E i \in Commissions("pending") :
               Goto(h, [run[h] EXCEPT !.at = "confirmRow", !.ref = i, !.amount = txs[i].amount])
    /\ UNCHANGED <<wallet, txs, card, requests, rewarded>>

ConfirmRow(h) ==
    /\ At(h, "confirmRow")
    /\ \E d \in Validities :
        txs' = [txs EXCEPT ![run[h].ref] = [@ EXCEPT !.status = "completed",
                                                     !.remaining = run[h].amount,
                                                     !.expires = day + d]]
    /\ Becomes(h, "creditCommission")
    /\ UNCHANGED <<wallet, card, requests, rewarded>>

RecordCommission(h) ==
    /\ At(h, "recordCommission")
    /\ Record(Entry("affiliate_commission", run[h].amount, 0))
    /\ Becomes(h, "creditCommission")
    /\ UNCHANGED <<wallet, card, requests, rewarded>>

CreditCommission(h) ==
    /\ At(h, "creditCommission")
    /\ Earn(run[h].amount)
    /\ Done(h)
    /\ UNCHANGED <<txs, card, requests, rewarded>>

-----------------------------------------------------------------------------
Tick ==
    /\ day < LastDay
    /\ day' = day + 1
    /\ UNCHANGED <<wallet, txs, card, requests, rewarded, run, made>>

Sweeping(h) == SweepAll(h) \/ Summary(h) \/ ListCards(h) \/ ReadOverdue(h) \/ Expire(h)

Paying(h) ==
    \/ Pay(h) \/ ReadBalanceToPay(h) \/ DebitForOrder(h)
    \/ PayInFull(h) \/ DebitInFull(h) \/ RecordPayment(h)
    \/ RefundPortion(h) \/ RefundForOrder(h) \/ RefundInFull(h) \/ RecordRefund(h)

Withdrawing(h) ==
    \/ Withdraw(h) \/ ReadBalanceToWithdraw(h) \/ AdjustDebit(h) \/ Deduct(h)
    \/ ReadCredits(h) \/ UseCredit(h) \/ InsertRequest(h) \/ RecordWithdrawal(h)
    \/ RecordDebit(h) \/ ReadRequest(h) \/ Decide(h) \/ CompleteRow(h)
    \/ CountWithdrawn(h) \/ GiveBack(h) \/ RejectRow(h)

Crediting(h) ==
    \/ AdjustCredit(h) \/ RecordCredit(h) \/ RestoreCredit(h) \/ AdjustCreditExpiry(h)
    \/ IssueCard(h) \/ Scratch(h) \/ ReadCard(h) \/ ScratchCard(h)
    \/ RestoreCard(h) \/ ReadCardToAdjust(h) \/ AdjustCardExpiry(h)
    \/ ReadFriend(h) \/ ClaimReward(h)

Commission(h) ==
    \/ RecordPendingCommission(h) \/ CancelPendingCommission(h)
    \/ RestorePendingCommission(h) \/ Confirm(h) \/ ListPending(h)
    \/ ConfirmRow(h) \/ RecordCommission(h) \/ CreditCommission(h)

Next ==
    \/ Tick
    \/ \E h \in Slots : Sweeping(h) \/ Paying(h) \/ Withdrawing(h) \/ Crediting(h) \/ Commission(h)

Spec == Init /\ [][Next]_vars

-----------------------------------------------------------------------------
Quiet == \A h \in Slots : run[h] = Idle

(* What the history of a wallet accounts for: pending withdrawals are      *)
(* already taken, pending commissions not yet given.                       *)
Effect(t) ==
    IF t.status \in {"cancelled", "rejected"} THEN 0
    ELSE IF t.type = "affiliate_commission" /\ t.status = "pending" THEN 0
    ELSE IF t.type = "order_payment" THEN -t.amount
    ELSE t.amount

Accounted == SumOf([i \in DOMAIN txs |-> Effect(txs[i])], DOMAIN txs)

(* No money leaves a wallet without a row that says why, however calls     *)
(* interleave: between calls the balance is at least what the history adds *)
(* up to.                                                                  *)
NoSilentLoss == Quiet => wallet.balance >= Accounted

(* A friend's first order is rewarded once, however many of the friend's   *)
(* orders are delivered at once.                                           *)
RewardedOnce ==
    \A i, j \in DOMAIN txs :
        /\ txs[i].type = "referral_bonus" /\ txs[j].type = "referral_bonus"
        /\ txs[i].ref = txs[j].ref
        => i = j

(* "`status` flips atomically so a card can only ever pay out once"        *)
(* (schema.ts): so it is unless the admin restores the card.               *)
CardPaysOnce ==
    Cardinality({i \in DOMAIN txs : txs[i].type = "scratch_card"}) <= 1

(* The credits that may still be spent are covered by the balance, also    *)
(* once everything overdue is taken from it: an expiry never takes money   *)
(* that some other credit promises.                                        *)
CreditsCovered ==
    Active # {} => Unspent(Active) + Unspent(Overdue) <= wallet.balance

(* "Insufficient wallet balance": a wallet is never overdrawn.             *)
NeverOverdrawn == wallet.balance >= 0
=============================================================================
