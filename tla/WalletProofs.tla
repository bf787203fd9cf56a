---------------------------- MODULE WalletProofs ----------------------------
(***************************************************************************)
(* What holds of a wallet in every interleaving of any number of calls, of *)
(* any amounts and on any days: a friend's first order is rewarded once, a *)
(* scratch card that no admin revives pays out once, and no money leaves   *)
(* the balance without a row; and, when calls do not overlap, the credits  *)
(* a customer may still spend are in the balance.  The first two rest on   *)
(* what the rows of wallet_transactions are never changed in: their type   *)
(* and what they refer to; the third on what each call has done to the     *)
(* balance and not yet written down; the last on what a debit has still    *)
(* to use up and a sweep still to take.                                    *)
(***************************************************************************)
EXTENDS MCWallet, Folds, FiniteSetTheorems, TLAPS

IsRow(t) == t = Row(t.type, t.amount, t.remaining, t.expires, t.status, t.ref)

IsLedger(t) ==
    /\ Len(t) \in Nat
    /\ t = [i \in 1 .. Len(t) |-> t[i]]
    /\ \A i \in 1 .. Len(t) : IsRow(t[i])

(* What a step may do to the rows: rewrite what is neither type nor        *)
(* reference, or add one.                                                  *)
Rewritten(t) ==
    /\ IsLedger(t) /\ Len(t) = Len(txs)
    /\ \A i \in 1 .. Len(txs) : t[i].type = txs[i].type /\ t[i].ref = txs[i].ref

Grown(t, type, ref) ==
    /\ IsLedger(t) /\ Len(t) = Len(txs) + 1
    /\ \A i \in 1 .. Len(txs) : t[i].type = txs[i].type /\ t[i].ref = txs[i].ref
    /\ t[Len(txs) + 1].type = type /\ t[Len(txs) + 1].ref = ref

IsCard(c) == c = [status |-> c.status, expires |-> c.expires]

(* The step of a call that neither scratches a card nor claims a reward.   *)
Plain ==
    /\ \/ Rewritten(txs')
       \/ \E type, ref : /\ type \notin {"referral_bonus", "scratch_card"}
                         /\ Grown(txs', type, ref)
    /\ rewarded' = rewarded
    /\ IsCard(card') /\ card'.status \in {card.status, "expired", "unscratched"}

RewardRows == {i \in 1 .. Len(txs) : txs[i].type = "referral_bonus"}
CardRows == {i \in 1 .. Len(txs) : txs[i].type = "scratch_card"}

WalletInv ==
    /\ IsLedger(txs) /\ IsCard(card)
    /\ \A i \in RewardRows : txs[i].ref \in rewarded
    /\ \A i, j \in RewardRows : txs[i].ref = txs[j].ref => i = j

(* As long as no card is revived: one that has paid cannot pay again.      *)
CardInv == ~revived =>
    /\ \A i, j \in CardRows : i = j
    /\ CardRows # {} => card.status \in {"scratched", "expired"}

-----------------------------------------------------------------------------
(* Sequences of rows. *)

LEMMA RowIs ==
    ASSUME NEW type, NEW amount, NEW remaining, NEW expires, NEW status, NEW ref
    PROVE  /\ IsRow(Row(type, amount, remaining, expires, status, ref))
           /\ Row(type, amount, remaining, expires, status, ref).type = type
           /\ Row(type, amount, remaining, expires, status, ref).ref = ref
BY DEF IsRow, Row

LEMMA LedgerIsSeq ==
    ASSUME NEW t, IsLedger(t)
    PROVE  \E S : t \in Seq(S)
<1>. DEFINE S == {t[i] : i \in 1 .. Len(t)}
<1>1. t \in [1 .. Len(t) -> S]
    BY DEF IsLedger
<1>2. t \in Seq(S)
    BY <1>1 DEF IsLedger
<1>. QED
    BY <1>2

(* A row more. *)
LEMMA Appended ==
    ASSUME NEW t, IsLedger(t), Len(t) = Len(txs), NEW row, IsRow(row),
           \A i \in 1 .. Len(txs) : t[i].type = txs[i].type /\ t[i].ref = txs[i].ref
    PROVE  Grown(Append(t, row), row.type, row.ref)
<1>1. PICK S : t \in Seq(S)
    BY LedgerIsSeq
<1>2. PICK T : t \in Seq(T) /\ row \in T
    BY <1>1, t \in Seq(S \cup {row})
<1>3. PICK u : u = Append(t, row)
    OBVIOUS
<1>4. /\ u \in Seq(T) /\ Len(u) = Len(t) + 1 /\ u[Len(t) + 1] = row
      /\ \A i \in 1 .. Len(t) : u[i] = t[i]
    BY <1>2, <1>3
<1>5. u = [i \in 1 .. Len(u) |-> u[i]] /\ Len(u) \in Nat
    BY <1>4
<1>6. \A i \in 1 .. Len(u) : IsRow(u[i])
    BY <1>4 DEF IsLedger
<1>7. IsLedger(u)
    BY <1>5, <1>6 DEF IsLedger
<1>8. Grown(u, row.type, row.ref)
    BY <1>4, <1>7 DEF Grown
<1>. QED
    BY <1>3, <1>8

(* The same rows, some of them rewritten. *)
LEMMA Rewrites ==
    ASSUME IsLedger(txs), NEW t, t = [i \in DOMAIN txs |-> t[i]],
           \A i \in DOMAIN txs : /\ IsRow(t[i])
                                 /\ t[i].type = txs[i].type /\ t[i].ref = txs[i].ref
    PROVE  Rewritten(t)
<1>1. DOMAIN txs = 1 .. Len(txs) /\ Len(txs) \in Nat
    BY DEF IsLedger
<1>2. t = [i \in 1 .. Len(txs) |-> t[i]]
    BY <1>1
<1>3. Len(t) = Len(txs)
    <2>1. t \in Seq({t[i] : i \in 1 .. Len(txs)})
        BY <1>1, <1>2
    <2>2. DOMAIN t = 1 .. Len(txs) /\ DOMAIN t = 1 .. Len(t)
        BY <1>2, <2>1
    <2>. QED
        BY <1>1, <2>1, <2>2
<1>. QED
    BY <1>1, <1>2, <1>3 DEF Rewritten, IsLedger

LEMMA SameRows ==
    ASSUME IsLedger(txs)
    PROVE  Rewritten(txs)
BY DEF Rewritten

(* What is left of a credit, its date and its status are not its type.     *)
LEMMA RowKept ==
    ASSUME NEW t, IsRow(t), NEW v
    PROVE  /\ IsRow([t EXCEPT !.remaining = v]) /\ IsRow([t EXCEPT !.status = v])
           /\ IsRow([t EXCEPT !.expires = v])
           /\ [t EXCEPT !.remaining = v].type = t.type /\ [t EXCEPT !.remaining = v].ref = t.ref
           /\ [t EXCEPT !.status = v].type = t.type /\ [t EXCEPT !.status = v].ref = t.ref
           /\ [t EXCEPT !.expires = v].type = t.type /\ [t EXCEPT !.expires = v].ref = t.ref
<1>1. PICK type, amount, remaining, expires, status, ref :
          t = [type |-> type, amount |-> amount, remaining |-> remaining,
               expires |-> expires, status |-> status, ref |-> ref]
    BY DEF IsRow, Row
<1>2. /\ [t EXCEPT !.remaining = v] = Row(type, amount, v, expires, status, ref)
      /\ [t EXCEPT !.status = v] = Row(type, amount, remaining, expires, v, ref)
      /\ [t EXCEPT !.expires = v] = Row(type, amount, remaining, v, status, ref)
    BY <1>1 DEF Row
<1>3. t.type = type /\ t.ref = ref
    BY <1>1
<1>. QED
    BY <1>2, <1>3, RowIs

LEMMA OneRewritten ==
    ASSUME IsLedger(txs), NEW i, NEW row,
           i \in DOMAIN txs => IsRow(row) /\ row.type = txs[i].type /\ row.ref = txs[i].ref
    PROVE  Rewritten([txs EXCEPT ![i] = row])
<1>. DEFINE t == [txs EXCEPT ![i] = row]
<1>1. t = [j \in DOMAIN txs |-> t[j]]
    OBVIOUS
<1>2. \A j \in DOMAIN txs : t[j] = IF j = i THEN row ELSE txs[j]
    OBVIOUS
<1>3. \A j \in DOMAIN txs : IsRow(txs[j])
    BY DEF IsLedger
<1>. HIDE DEF t
<1>4. Rewritten(t)
    BY <1>1, <1>2, <1>3, Rewrites
<1>. QED
    BY <1>4 DEF t

-----------------------------------------------------------------------------
(* The calls. *)

(* A step that records a row, one that rewrites rows and one that leaves   *)
(* them alone; each leaves the card and the claims.                        *)
LEMMA PlainStep ==
    ASSUME WalletInv, rewarded' = rewarded,
           IsCard(card') /\ card'.status \in {card.status, "expired", "unscratched"},
           \/ txs' = txs \/ Rewritten(txs')
           \/ \E row : /\ IsRow(row) /\ row.type \notin {"referral_bonus", "scratch_card"}
                       /\ Grown(txs', row.type, row.ref)
    PROVE  Plain
BY SameRows DEF Plain, WalletInv

LEMMA Recorded ==
    ASSUME WalletInv, NEW type, NEW amount, NEW remaining, NEW expires, NEW status, NEW ref,
           type \notin {"referral_bonus", "scratch_card"},
           txs' = Append(txs, Row(type, amount, remaining, expires, status, ref)),
           rewarded' = rewarded, card' = card
    PROVE  Plain
<1>. PICK row : row = Row(type, amount, remaining, expires, status, ref)
    OBVIOUS
<1>1. IsRow(row) /\ row.type = type /\ row.ref = ref
    BY RowIs
<1>2. Grown(txs', row.type, row.ref)
    BY <1>1, Appended DEF WalletInv
<1>. QED
    BY <1>1, <1>2 DEF Plain, WalletInv

LEMMA NothingRecorded ==
    ASSUME WalletInv, UNCHANGED <<txs, rewarded, card>>
    PROVE  Plain
BY SameRows DEF Plain, WalletInv

LEMMA CardSwept ==
    ASSUME WalletInv
    PROVE  IsCard(CardAfterSweep) /\ CardAfterSweep.status \in {card.status, "expired"}
<1>1. PICK st, d : card = [status |-> st, expires |-> d]
    BY DEF WalletInv, IsCard
<1>2. [card EXCEPT !.status = "expired"] = [status |-> "expired", expires |-> d]
    BY <1>1
<1>. QED
    BY <1>1, <1>2 DEF CardAfterSweep, IsCard

LEMMA SweepingIsPlain ==
    ASSUME WalletInv, NEW h \in Slots, Sweeping(h)
    PROVE  Plain
<1>1. CASE SweepAll(h) \/ ListCards(h)
    BY <1>1, CardSwept, SameRows DEF SweepAll, ListCards, Plain, WalletInv
<1>2. CASE Summary(h) \/ ReadOverdue(h)
    BY <1>2, NothingRecorded DEF Summary, ReadOverdue
<1>3. CASE Expire(h)
    <2>. PICK credit : credit = Head(run[h].todo)
        OBVIOUS
    <2>1. /\ txs' = Append([txs EXCEPT ![credit.id].remaining = 0],
                           Entry("expiry", -credit.left, credit.id))
          /\ UNCHANGED <<card, rewarded>>
        BY <1>3 DEF Expire, Taken
    <2>2. Rewritten([txs EXCEPT ![credit.id].remaining = 0])
        <3>1. credit.id \in DOMAIN txs => IsRow(txs[credit.id])
            BY DEF WalletInv, IsLedger
        <3>2. PICK row : row = [txs[credit.id] EXCEPT !.remaining = 0]
            OBVIOUS
        <3>3. credit.id \in DOMAIN txs => /\ IsRow(row) /\ row.type = txs[credit.id].type
                                         /\ row.ref = txs[credit.id].ref
            BY <3>1, <3>2, RowKept
        <3>4. Rewritten([txs EXCEPT ![credit.id] = row])
            BY <3>3, OneRewritten DEF WalletInv
        <3>. QED
            BY <3>2, <3>4
    <2>3. PICK t : t = [txs EXCEPT ![credit.id].remaining = 0]
        OBVIOUS
    <2>4. PICK row : row = Entry("expiry", -credit.left, credit.id)
        OBVIOUS
    <2>5. IsRow(row) /\ row.type = "expiry"
        BY <2>4, RowIs DEF Entry
    <2>6. Grown(txs', row.type, row.ref)
        BY <2>1, <2>2, <2>3, <2>4, <2>5, Appended DEF Rewritten
    <2>. QED
        BY <2>1, <2>5, <2>6 DEF Plain, WalletInv
<1>. QED
    BY <1>1, <1>2, <1>3 DEF Sweeping

LEMMA PayingIsPlain ==
    ASSUME WalletInv, NEW h \in Slots, Paying(h)
    PROVE  Plain
<1>1. CASE \/ Pay(h) \/ ReadBalanceToPay(h) \/ PayInFull(h) \/ DebitInFull(h)
           \/ RefundPortion(h) \/ RefundInFull(h)
    BY <1>1, NothingRecorded DEF Pay, ReadBalanceToPay, PayInFull, DebitInFull,
                                 RefundPortion, RefundInFull
<1>2. CASE DebitForOrder(h)
    <2>1. CASE UNCHANGED txs
        BY <1>2, <2>1, NothingRecorded DEF DebitForOrder
    <2>2. CASE txs' = Append(AfterFifo(run[h].amount),
                             Entry("order_payment", run[h].amount, run[h].ref))
        <3>1. PICK t : t = AfterFifo(run[h].amount)
            OBVIOUS
        <3>2. PICK row : row = Entry("order_payment", run[h].amount, run[h].ref)
            OBVIOUS
        <3>3. IsRow(row) /\ row.type = "order_payment"
            BY <3>2, RowIs DEF Entry
        <3>4. \A i \in DOMAIN txs : IsRow(txs[i])
            BY DEF WalletInv, IsLedger
        <3>5. t = [i \in DOMAIN txs |-> t[i]]
            BY <3>1 DEF AfterFifo
        <3>6. \A i \in DOMAIN txs :
                  t[i] = txs[i] \/ \E v : t[i] = [txs[i] EXCEPT !.remaining = v]
            BY <3>1 DEF AfterFifo
        <3>9. ASSUME NEW i \in DOMAIN txs
              PROVE  IsRow(t[i]) /\ t[i].type = txs[i].type /\ t[i].ref = txs[i].ref
            <4>1. PICK old : old = txs[i]
                OBVIOUS
            <4>2. IsRow(old) /\ (t[i] = old \/ \E v : t[i] = [old EXCEPT !.remaining = v])
                BY <3>4, <3>6, <4>1
            <4>3. ASSUME NEW v
                  PROVE  LET new == [old EXCEPT !.remaining = v]
                         IN  IsRow(new) /\ new.type = old.type /\ new.ref = old.ref
                BY <4>2, RowKept
            <4>. QED
                BY <4>1, <4>2, <4>3
        <3>7. Rewritten(t)
            BY <3>5, <3>9, Rewrites DEF WalletInv
        <3>8. Grown(txs', row.type, row.ref)
            BY <2>2, <3>1, <3>2, <3>3, <3>7, Appended DEF Rewritten
        <3>. QED
            BY <1>2, <3>3, <3>8 DEF Plain, WalletInv, DebitForOrder
    <2>. QED
        BY <1>2, <2>1, <2>2 DEF DebitForOrder
<1>3. CASE RecordPayment(h) \/ RecordRefund(h)
    BY <1>3, Recorded DEF RecordPayment, RecordRefund, Record, Entry
<1>4. CASE RefundForOrder(h)
    BY <1>4, Recorded DEF RefundForOrder, Record, DatedCredit
<1>. QED
    BY <1>1, <1>2, <1>3, <1>4 DEF Paying

LEMMA FieldRewritten ==
    ASSUME IsLedger(txs), NEW i, NEW v
    PROVE  /\ Rewritten([txs EXCEPT ![i].remaining = v])
           /\ Rewritten([txs EXCEPT ![i].expires = v])
<1>1. i \in DOMAIN txs => IsRow(txs[i])
    BY DEF IsLedger
<1>2. ASSUME NEW row, i \in DOMAIN txs => IsRow(row) /\ row.type = txs[i].type /\ row.ref = txs[i].ref
      PROVE  Rewritten([txs EXCEPT ![i] = row])
    BY <1>2, OneRewritten
<1>3. Rewritten([txs EXCEPT ![i] = [txs[i] EXCEPT !.remaining = v]])
    BY <1>1, <1>2, RowKept
<1>4. Rewritten([txs EXCEPT ![i] = [txs[i] EXCEPT !.expires = v]])
    BY <1>1, <1>2, RowKept
<1>. QED
    BY <1>3, <1>4

(* An update of some of the rows. *)
LEMMA SomeRewritten ==
    ASSUME IsLedger(txs), NEW t, t = [i \in DOMAIN txs |-> t[i]],
           \A i \in DOMAIN txs : t[i] = txs[i] \/ \E v : t[i] = [txs[i] EXCEPT !.status = v]
    PROVE  Rewritten(t)
<1>1. \A i \in DOMAIN txs : IsRow(txs[i])
    BY DEF IsLedger
<1>2. ASSUME NEW i \in DOMAIN txs
      PROVE  IsRow(t[i]) /\ t[i].type = txs[i].type /\ t[i].ref = txs[i].ref
    <2>1. PICK row : row = txs[i]
        OBVIOUS
    <2>2. IsRow(row) /\ (t[i] = row \/ \E v : t[i] = [row EXCEPT !.status = v])
        BY <1>1, <2>1
    <2>4. ASSUME NEW v, t[i] = [row EXCEPT !.status = v]
          PROVE  IsRow(t[i]) /\ t[i].type = row.type /\ t[i].ref = row.ref
        <3>1. PICK new : new = [row EXCEPT !.status = v]
            OBVIOUS
        <3>2. IsRow(new) /\ new.type = row.type /\ new.ref = row.ref
            BY <2>2, <3>1, RowKept
        <3>. QED
            BY <2>4, <3>1, <3>2
    <2>5. IsRow(t[i]) /\ t[i].type = row.type /\ t[i].ref = row.ref
        BY <2>2, <2>4
    <2>. QED
        BY <2>1, <2>5
<1>. QED
    BY <1>2, Rewrites

LEMMA WithdrawingIsPlain ==
    ASSUME WalletInv, NEW h \in Slots, Withdrawing(h)
    PROVE  Plain
<1>1. CASE \/ Withdraw(h) \/ ReadBalanceToWithdraw(h) \/ AdjustDebit(h) \/ Deduct(h)
           \/ ReadCredits(h) \/ InsertRequest(h) \/ ReadRequest(h) \/ Decide(h)
           \/ CountWithdrawn(h) \/ GiveBack(h)
    BY <1>1, NothingRecorded DEF Withdraw, ReadBalanceToWithdraw, AdjustDebit, Deduct,
           ReadCredits, InsertRequest, ReadRequest, Decide, CountWithdrawn, GiveBack
<1>2. CASE UseCredit(h)
    <2>1. PICK i, v : txs' = [txs EXCEPT ![i].remaining = v]
        BY <1>2 DEF UseCredit
    <2>2. Rewritten(txs')
        BY <2>1, FieldRewritten DEF WalletInv
    <2>3. UNCHANGED <<card, rewarded>>
        BY <1>2 DEF UseCredit
    <2>. QED
        BY <2>2, <2>3 DEF Plain, WalletInv
<1>3. CASE RecordWithdrawal(h) \/ RecordDebit(h)
    BY <1>3, Recorded DEF RecordWithdrawal, RecordDebit, Record, Entry
<1>4. CASE CompleteRow(h) \/ RejectRow(h)
    <2>1. PICK r, st : txs' = RowsOfRequest(r, st)
        BY <1>4 DEF CompleteRow, RejectRow
    <2>. PICK t : t = txs'
        OBVIOUS
    <2>2. t = [i \in DOMAIN txs |-> t[i]]
        BY <2>1 DEF RowsOfRequest
    <2>3. \A i \in DOMAIN txs : t[i] = txs[i] \/ t[i] = [txs[i] EXCEPT !.status = st]
        BY <2>1 DEF RowsOfRequest
    <2>4. Rewritten(t)
        BY <2>2, <2>3, SomeRewritten DEF WalletInv
    <2>. QED
        BY <1>4, <2>4 DEF CompleteRow, RejectRow, Plain, WalletInv
<1>. QED
    BY <1>1, <1>2, <1>3, <1>4 DEF Withdrawing

LEMMA CreditingIsPlain ==
    ASSUME WalletInv, NEW h \in Slots, Crediting(h), ~ScratchCard(h), ~ClaimReward(h)
    PROVE  Plain
<1>1. CASE AdjustCredit(h) \/ ReadCard(h) \/ ReadCardToAdjust(h) \/ ReadFriend(h)
    BY <1>1, NothingRecorded DEF AdjustCredit, ReadCard, ReadCardToAdjust, ReadFriend
<1>2. CASE RecordCredit(h)
    BY <1>2, Recorded DEF RecordCredit, Record, DatedCredit, Entry
<1>3. CASE RestoreCredit(h)
    BY <1>3, Recorded DEF RestoreCredit, Record, DatedCredit
<1>4. CASE AdjustCreditExpiry(h)
    <2>1. PICK i, v : txs' = [txs EXCEPT ![i].expires = v]
        BY <1>4 DEF AdjustCreditExpiry
    <2>. QED
        BY <1>4, <2>1, FieldRewritten DEF AdjustCreditExpiry, Plain, WalletInv
<1>5. CASE IssueCard(h) \/ RestoreCard(h)
    BY <1>5, SameRows DEF IssueCard, RestoreCard, Plain, WalletInv, IsCard
<1>6. CASE Scratch(h)
    BY <1>6, SameRows, CardSwept DEF Scratch, Plain, WalletInv
<1>7. CASE AdjustCardExpiry(h)
    BY <1>7, SameRows DEF AdjustCardExpiry, Plain, WalletInv, IsCard
<1>. QED
    BY <1>1, <1>2, <1>3, <1>4, <1>5, <1>6, <1>7 DEF Crediting

LEMMA CommissionIsPlain ==
    ASSUME WalletInv, NEW h \in Slots, Commission(h)
    PROVE  Plain
<1>1. CASE Confirm(h) \/ ListPending(h) \/ CreditCommission(h)
    BY <1>1, NothingRecorded DEF Confirm, ListPending, CreditCommission
<1>2. CASE RecordPendingCommission(h) \/ RecordCommission(h)
    BY <1>2, Recorded DEF RecordPendingCommission, RecordCommission, Record, Entry
<1>3. CASE CancelPendingCommission(h) \/ RestorePendingCommission(h)
    <2>1. PICK from, to : Turn(from, to)
        BY <1>3 DEF CancelPendingCommission, RestorePendingCommission
    <2>. PICK t : t = txs'
        OBVIOUS
    <2>2. t = [i \in DOMAIN txs |-> t[i]]
        BY <2>1 DEF Turn
    <2>3. \A i \in DOMAIN txs : t[i] = txs[i] \/ t[i] = [txs[i] EXCEPT !.status = to]
        BY <2>1 DEF Turn
    <2>4. Rewritten(t)
        BY <2>2, <2>3, SomeRewritten DEF WalletInv
    <2>. QED
        BY <1>3, <2>4 DEF CancelPendingCommission, RestorePendingCommission, Plain, WalletInv
<1>4. CASE ConfirmRow(h)
    <2>1. PICK i, rem, exp :
              txs' = [txs EXCEPT ![i] = [@ EXCEPT !.status = "completed", !.remaining = rem,
                                                  !.expires = exp]]
        BY <1>4 DEF ConfirmRow
    <2>2. PICK row : row = [txs[i] EXCEPT !.status = "completed", !.remaining = rem,
                                          !.expires = exp]
        OBVIOUS
    <2>3. i \in DOMAIN txs => IsRow(row) /\ row.type = txs[i].type /\ row.ref = txs[i].ref
        <3>1. PICK x : x = txs[i]
            OBVIOUS
        <3>2. PICK y : y = [x EXCEPT !.status = "completed"]
            OBVIOUS
        <3>3. PICK z : z = [y EXCEPT !.remaining = rem]
            OBVIOUS
        <3>4. row = [z EXCEPT !.expires = exp]
            BY <2>2, <3>1, <3>2, <3>3
        <3>5. i \in DOMAIN txs => IsRow(x)
            BY <3>1 DEF WalletInv, IsLedger
        <3>6. IsRow(x) => IsRow(y) /\ y.type = x.type /\ y.ref = x.ref
            BY <3>2, RowKept
        <3>7. IsRow(y) => IsRow(z) /\ z.type = y.type /\ z.ref = y.ref
            BY <3>3, RowKept
        <3>8. IsRow(z) => IsRow(row) /\ row.type = z.type /\ row.ref = z.ref
            BY <3>4, RowKept
        <3>. QED
            BY <3>1, <3>5, <3>6, <3>7, <3>8
    <2>4. Rewritten([txs EXCEPT ![i] = row])
        BY <2>3, OneRewritten DEF WalletInv
    <2>. QED
        BY <1>4, <2>1, <2>2, <2>4 DEF ConfirmRow, Plain, WalletInv
<1>. QED
    BY <1>1, <1>2, <1>3, <1>4 DEF Commission

-----------------------------------------------------------------------------
(* The two invariants. *)

(* What refers to a friend or a card is what did before.                   *)
LEMMA PlainKeeps ==
    ASSUME WalletInv, Plain
    PROVE  /\ WalletInv'
           /\ CardRows' = CardRows
<1>1. /\ IsLedger(txs') /\ Len(txs) \in Nat /\ Len(txs') \in Nat
      /\ \A i \in 1 .. Len(txs) : txs'[i].type = txs[i].type /\ txs'[i].ref = txs[i].ref
      /\ \/ Len(txs') = Len(txs)
         \/ /\ Len(txs') = Len(txs) + 1
            /\ txs'[Len(txs) + 1].type \notin {"referral_bonus", "scratch_card"}
    BY DEF Plain, Rewritten, Grown, IsLedger, WalletInv
<1>2. RewardRows' = RewardRows /\ CardRows' = CardRows
    BY <1>1 DEF RewardRows, CardRows
<1>3. \A i \in RewardRows : txs'[i].ref = txs[i].ref
    BY <1>1 DEF RewardRows
<1>. QED
    BY <1>1, <1>2, <1>3 DEF WalletInv, Plain

(* A card pays out, and is scratched.                                      *)
LEMMA CardPays ==
    ASSUME WalletInv, NEW h \in Slots, ScratchCard(h), Scratchable
    PROVE  /\ WalletInv' /\ card'.status = "scratched"
           /\ CardRows' = CardRows \cup {Len(txs) + 1}
           /\ card.status = "unscratched"
<1>1. PICK n, d :
          /\ card' = [card EXCEPT !.status = "scratched"]
          /\ txs' = Append(txs, DatedCredit("scratch_card", n, d, 0))
          /\ rewarded' = rewarded
    BY DEF ScratchCard, Record
<1>2. PICK row : row = DatedCredit("scratch_card", n, d, 0)
    OBVIOUS
<1>3. IsRow(row) /\ row.type = "scratch_card"
    BY <1>2, RowIs DEF DatedCredit
<1>4. Grown(txs', row.type, row.ref)
    BY <1>1, <1>2, <1>3, Appended DEF WalletInv
<1>5. /\ IsLedger(txs') /\ Len(txs) \in Nat /\ Len(txs') = Len(txs) + 1
      /\ \A i \in 1 .. Len(txs) : txs'[i].type = txs[i].type /\ txs'[i].ref = txs[i].ref
      /\ txs'[Len(txs) + 1].type = "scratch_card"
    BY <1>3, <1>4 DEF Grown, IsLedger, WalletInv
<1>6. RewardRows' = RewardRows /\ CardRows' = CardRows \cup {Len(txs) + 1}
    BY <1>5 DEF RewardRows, CardRows
<1>7. IsCard(card') /\ card'.status = "scratched"
    BY <1>1 DEF WalletInv, IsCard
<1>8. \A i \in RewardRows : txs'[i].ref = txs[i].ref
    BY <1>5 DEF RewardRows
<1>9. \A i \in RewardRows' : txs'[i].ref \in rewarded'
    BY <1>1, <1>6, <1>8 DEF WalletInv
<1>10. \A i, j \in RewardRows' : txs'[i].ref = txs'[j].ref => i = j
    BY <1>6, <1>8 DEF WalletInv
<1>11. WalletInv'
    BY <1>5, <1>7, <1>9, <1>10 DEF WalletInv
<1>. QED
    BY <1>6, <1>7, <1>11 DEF Scratchable

(* A reward is recorded with the claim that lets no second one in.         *)
LEMMA RewardIsClaimed ==
    ASSUME WalletInv, NEW h \in Slots, ClaimReward(h), Claimable(run[h].ref)
    PROVE  WalletInv' /\ CardRows' = CardRows
<1>. PICK f : f = run[h].ref
    OBVIOUS
<1>1. PICK d :
          /\ txs' = Append(txs, DatedCredit("referral_bonus", run[h].amount, d, f))
          /\ rewarded' = rewarded \cup {f} /\ card' = card
    BY DEF ClaimReward, Record
<1>2. PICK row : row = DatedCredit("referral_bonus", run[h].amount, d, f)
    OBVIOUS
<1>3. IsRow(row) /\ row.type = "referral_bonus" /\ row.ref = f
    BY <1>2, RowIs DEF DatedCredit
<1>4. Grown(txs', row.type, row.ref)
    BY <1>1, <1>2, <1>3, Appended DEF WalletInv
<1>5. /\ IsLedger(txs') /\ Len(txs) \in Nat /\ Len(txs') = Len(txs) + 1
      /\ \A i \in 1 .. Len(txs) : txs'[i].type = txs[i].type /\ txs'[i].ref = txs[i].ref
      /\ txs'[Len(txs) + 1].type = "referral_bonus" /\ txs'[Len(txs) + 1].ref = f
    BY <1>3, <1>4 DEF Grown, IsLedger, WalletInv
<1>6. RewardRows' = RewardRows \cup {Len(txs) + 1} /\ CardRows' = CardRows
    BY <1>5 DEF RewardRows, CardRows
<1>7. \A i \in RewardRows : txs'[i].ref = txs[i].ref /\ txs'[i].ref # f
    BY <1>5 DEF RewardRows, WalletInv, Claimable
<1>8. txs'[Len(txs) + 1].ref = f
    BY <1>5
<1>9. \A i \in RewardRows' : txs'[i].ref \in rewarded'
    BY <1>1, <1>6, <1>7, <1>8 DEF WalletInv
<1>10. \A i, j \in RewardRows' : txs'[i].ref = txs'[j].ref => i = j
    BY <1>6, <1>7, <1>8 DEF WalletInv
<1>11. IsCard(card')
    BY <1>1 DEF WalletInv
<1>12. WalletInv'
    BY <1>5, <1>9, <1>10, <1>11 DEF WalletInv
<1>. QED
    BY <1>6, <1>12

(* The steps, by what they do to rows, claims and the card.                *)
LEMMA StepIs ==
    ASSUME WalletInv, [Next]_vars
    PROVE  \/ Plain
           \/ \E h \in Slots : ScratchCard(h) /\ Scratchable
           \/ \E h \in Slots : ClaimReward(h) /\ Claimable(run[h].ref)
<1>1. CASE UNCHANGED vars \/ Tick
    BY <1>1, NothingRecorded DEF vars, Tick
<1>2. ASSUME NEW h \in Slots, ScratchCard(h), ~Scratchable PROVE Plain
    BY <1>2, NothingRecorded DEF ScratchCard
<1>3. ASSUME NEW h \in Slots, ClaimReward(h), ~Claimable(run[h].ref) PROVE Plain
    BY <1>3, NothingRecorded DEF ClaimReward
<1>. QED
    BY <1>1, <1>2, <1>3, SweepingIsPlain, PayingIsPlain, WithdrawingIsPlain, CreditingIsPlain,
       CommissionIsPlain DEF Next

LEMMA WalletInit == Init => WalletInv /\ CardRows = {}
<1>. SUFFICES ASSUME Init PROVE WalletInv /\ CardRows = {}
    OBVIOUS
<1>1. PICK n, d : txs = IF n = 0 THEN <<>>
                        ELSE IF Customer THEN <<Row("adjustment", n, n, d, "completed", 0)>>
                        ELSE <<Entry("adjustment", n, 0)>>
    BY DEF Init
<1>2. IsCard(card) /\ card.status = "none"
    BY DEF Init, IsCard
<1>3. txs = <<>> \/ \E row : IsRow(row) /\ row.type = "adjustment" /\ txs = <<row>>
    BY <1>1, RowIs DEF Entry
<1>4. IsLedger(txs) /\ \A i \in 1 .. Len(txs) : txs[i].type = "adjustment"
    <2>1. CASE txs = <<>>
        BY <2>1 DEF IsLedger
    <2>2. ASSUME NEW row, IsRow(row), row.type = "adjustment", txs = <<row>>
          PROVE  IsLedger(txs) /\ \A i \in 1 .. Len(txs) : txs[i].type = "adjustment"
        <3>1. Len(txs) = 1 /\ txs[1] = row
            BY <2>2
        <3>2. txs = [i \in 1 .. 1 |-> txs[i]]
            BY <2>2
        <3>. QED
            BY <2>2, <3>1, <3>2 DEF IsLedger
    <2>. QED
        BY <1>3, <2>1, <2>2
<1>. QED
    BY <1>2, <1>4 DEF WalletInv, RewardRows, CardRows

LEMMA WalletStep == WalletInv /\ [Next]_vars => WalletInv'
BY StepIs, PlainKeeps, CardPays, RewardIsClaimed

LEMMA WalletInvariant == Spec => []WalletInv
BY WalletInit, WalletStep, PTL DEF Spec

LEMMA CardStep ==
    WalletInv /\ CardInv /\ [MCNext]_<<vars, alone, dated, revived>> => CardInv'
<1>. SUFFICES ASSUME WalletInv, CardInv, [MCNext]_<<vars, alone, dated, revived>>, ~revived'
              PROVE  /\ \A i, j \in CardRows' : i = j
                     /\ CardRows' # {} => card'.status \in {"scratched", "expired"}
    BY DEF CardInv
<1>1. [Next]_vars /\ ~revived
    <2>1. CASE MCNext
        BY <2>1 DEF MCNext
    <2>2. CASE UNCHANGED <<vars, alone, dated, revived>>
        BY <2>2
    <2>. QED
        BY <2>1, <2>2
<1>2. CASE UNCHANGED <<vars, alone, dated, revived>>
    BY <1>1, <1>2 DEF CardInv, vars, CardRows
<1>3. CASE MCNext
    <2>1. ~(card.status \in {"expired", "scratched"} /\ card'.status = "unscratched")
        BY <1>3 DEF MCNext
    <2>2. CASE Plain
        BY <1>1, <2>1, <2>2, PlainKeeps DEF CardInv, Plain
    <2>3. CASE \E h \in Slots : ScratchCard(h) /\ Scratchable
        BY <1>1, <2>3, CardPays DEF CardInv
    <2>4. CASE \E h \in Slots : ClaimReward(h) /\ Claimable(run[h].ref)
        BY <1>1, <2>4, RewardIsClaimed DEF CardInv, ClaimReward
    <2>. QED
        BY <1>1, <2>2, <2>3, <2>4, StepIs
<1>. QED
    BY <1>2, <1>3

LEMMA HistoryOnlyWatches == MCSpec => Spec
<1>1. MCInit => Init
    BY DEF MCInit
<1>2. [MCNext]_<<vars, alone, dated, revived>> => [Next]_vars
    BY DEF MCNext, vars
<1>. QED
    BY <1>1, <1>2, PTL DEF MCSpec, Spec

(* A friend's first order is rewarded once, however many of the friend's   *)
(* orders are delivered at once and whatever else happens to the wallet.   *)
THEOREM RewardsAreClaimed == Spec => []RewardedOnce
<1>1. WalletInv => RewardedOnce
    BY DEF WalletInv, IsLedger, RewardRows, RewardedOnce
<1>. QED
    BY <1>1, WalletInvariant, PTL

(* A scratch card pays out once, however often it is scratched at the same *)
(* time and whatever an admin does to its date, unless an admin makes a    *)
(* used or expired one scratchable again.                                  *)
THEOREM CardsPayOnce == MCSpec => []CardPaysOnceLeft
<1>1. WalletInv /\ CardInv => CardPaysOnceLeft
    <2>. SUFFICES ASSUME WalletInv, CardInv, ~revived PROVE CardPaysOnce
        BY DEF CardPaysOnceLeft
    <2>1. {i \in DOMAIN txs : txs[i].type = "scratch_card"} = CardRows
        BY DEF WalletInv, IsLedger, CardRows
    <2>2. CardRows = {} \/ \E i : CardRows = {i}
        BY DEF CardInv
    <2>3. Cardinality(CardRows) \in {0, 1}
        BY <2>2, FS_EmptySet, FS_Singleton
    <2>4. Cardinality(CardRows) <= 1
        BY <2>3
    <2>. QED
        BY <2>1, <2>4, Zenon DEF CardPaysOnce
<1>2. MCSpec => []WalletInv
    BY HistoryOnlyWatches, WalletInvariant, PTL
<1>3. MCInit => CardInv
    BY WalletInit DEF MCInit, CardInv
<1>. QED
    BY <1>1, <1>2, <1>3, CardStep, PTL DEF MCSpec

-----------------------------------------------------------------------------
(* Sums over finite sets.  A smallest set that a claim fails for stands in *)
(* for an induction on the size of the set. *)

Some(s) == CHOOSE x \in s : TRUE

IsSum(g, f, S) ==
    g = [s \in SUBSET S |-> IF s = {} THEN 0 ELSE f[Some(s)] + g[s \ {Some(s)}]]

LEMMA Expand ==
    ASSUME NEW f, NEW S
    PROVE  SumOf(f, S) = (CHOOSE g : IsSum(g, f, S))[S]
BY DEF SumOf, MapThenSumSet, MapThenFoldSet, IsSum, Some

LEMMA Minimal ==
    ASSUME NEW S, IsFiniteSet(S), NEW B \in SUBSET (SUBSET S), B # {}
    PROVE  \E s \in B : \A t \in B : t \subseteq s => t = s
<1>1. \A t \in SUBSET S : IsFiniteSet(t)
    BY FS_Subset
<1>2. PICK R : R = StrictSubsetOrdering(S)
    OBVIOUS
<1>3. PICK F : F = FiniteSubsetsOf(S)
    OBVIOUS
<1>4. IsWellFoundedOn(R, F)
    BY <1>2, <1>3, FS_StrictSubsetOrderingWellFounded
<1>5. B \subseteq F
    BY <1>1, <1>3 DEF FiniteSubsetsOf
<1>6. PICK s \in B : \A t \in B : ~ (<<t, s>> \in R)
    BY <1>4, <1>5, WFMin
<1>7. \A t \in B : t \subseteq s => t = s
    BY <1>2, <1>6 DEF StrictSubsetOrdering
<1>. QED
    BY <1>7

(* Any two sums agree on the sets that both are about, where what they add *)
(* does.                                                                   *)
LEMMA SumsAgree ==
    ASSUME NEW S, IsFiniteSet(S), NEW f, NEW g, IsSum(g, f, S),
           NEW T, NEW f2, NEW g2, IsSum(g2, f2, T),
           NEW s \in SUBSET S, s \subseteq T, \A x \in s : f[x] = f2[x]
    PROVE  g[s] = g2[s]
<1>. DEFINE B == {t \in SUBSET S : t \subseteq s /\ g[t] # g2[t]}
<1>1. SUFFICES ASSUME s \in B PROVE FALSE
    OBVIOUS
<1>2. PICK t \in B : \A u \in B : u \subseteq t => u = t
    <2>1. PICK C : C = B
        OBVIOUS
    <2>2. C \in SUBSET (SUBSET S) /\ C # {}
        BY <1>1, <2>1
    <2>3. \E t \in C : \A u \in C : u \subseteq t => u = t
        BY <2>2, Minimal
    <2>. QED
        BY <2>1, <2>3
<1>3. /\ g[t] = IF t = {} THEN 0 ELSE f[Some(t)] + g[t \ {Some(t)}]
      /\ g2[t] = IF t = {} THEN 0 ELSE f2[Some(t)] + g2[t \ {Some(t)}]
    BY DEF IsSum
<1>4. CASE t = {}
    BY <1>3, <1>4
<1>5. CASE t # {}
    <2>1. PICK x : x = Some(t) /\ x \in t
        BY <1>5 DEF Some
    <2>2. t \ {x} \in SUBSET S /\ t \ {x} \subseteq s /\ t \ {x} # t
        BY <2>1
    <2>3. g[t \ {x}] = g2[t \ {x}]
        BY <1>2, <2>2
    <2>4. f[x] = f2[x]
        BY <2>1
    <2>. QED
        BY <1>3, <1>5, <2>1, <2>3, <2>4
<1>. QED
    BY <1>4, <1>5

LEMMA SumExists ==
    ASSUME NEW S, IsFiniteSet(S), NEW f
    PROVE  \E g : IsSum(g, f, S)
<1>. DEFINE B == {t \in SUBSET S : ~ \E g : IsSum(g, f, t)}
<1>1. SUFFICES ASSUME S \in B PROVE FALSE
    OBVIOUS
<1>2. PICK t \in B : \A u \in B : u \subseteq t => u = t
    <2>1. PICK C : C = B
        OBVIOUS
    <2>2. C \in SUBSET (SUBSET S) /\ C # {}
        BY <1>1, <2>1
    <2>3. \E t \in C : \A u \in C : u \subseteq t => u = t
        BY <2>2, Minimal
    <2>. QED
        BY <2>1, <2>3
<1>. DEFINE G(u) == CHOOSE g : IsSum(g, f, u)
            v(u) == IF u = {} THEN 0 ELSE f[Some(u)] + G(u \ {Some(u)})[u \ {Some(u)}]
<1>3. ASSUME NEW u \in SUBSET t, u # t PROVE IsSum(G(u), f, u)
    BY <1>2, <1>3
<1>4. ASSUME NEW u \in SUBSET t, u # {} PROVE Some(u) \in u
    BY <1>4 DEF Some
<1>5. ASSUME NEW u \in SUBSET t, u # t PROVE v(u) = G(u)[u]
    <2>1. G(u)[u] = IF u = {} THEN 0 ELSE f[Some(u)] + G(u)[u \ {Some(u)}]
        <3>1. PICK k : k = G(u)
            OBVIOUS
        <3>2. IsSum(k, f, u)
            BY <1>3, <1>5, <3>1
        <3>. QED
            BY <3>1, <3>2 DEF IsSum
    <2>2. CASE u = {}
        BY <2>1, <2>2
    <2>3. CASE u # {}
        <3>1. PICK w : w = u \ {Some(u)}
            OBVIOUS
        <3>2. w \in SUBSET t /\ w # t /\ w \in SUBSET u
            BY <1>4, <2>3, <3>1
        <3>3. IsSum(G(w), f, w) /\ IsSum(G(u), f, u) /\ IsFiniteSet(u)
            BY <1>3, <1>5, <3>2, FS_Subset
        <3>4. G(u)[w] = G(w)[w]
            BY <3>2, <3>3, SumsAgree
        <3>. QED
            BY <2>1, <2>3, <3>1, <3>4
    <2>. QED
        BY <2>2, <2>3
<1>6. PICK h : h = [u \in SUBSET t |-> v(u)]
    OBVIOUS
<1>. HIDE DEF v
<1>7. IsSum(h, f, t)
    <2>1. ASSUME NEW u \in SUBSET t
          PROVE  v(u) = IF u = {} THEN 0 ELSE f[Some(u)] + h[u \ {Some(u)}]
        <3>1. CASE u = {}
            BY <3>1 DEF v
        <3>2. CASE u # {}
            <4>1. PICK w : w = u \ {Some(u)}
                OBVIOUS
            <4>2. w \in SUBSET t /\ w # t
                BY <1>4, <3>2, <4>1
            <4>3. h[w] = v(w)
                BY <1>6, <4>2
            <4>4. v(w) = G(w)[w]
                BY <1>5, <4>2
            <4>. QED
                BY <3>2, <4>1, <4>3, <4>4 DEF v
        <3>. QED
            BY <3>1, <3>2
    <2>2. h = [u \in SUBSET t |-> IF u = {} THEN 0 ELSE f[Some(u)] + h[u \ {Some(u)}]]
        BY <1>6, <2>1
    <2>. QED
        BY <2>2 DEF IsSum
<1>. QED
    BY <1>7

(* What a sum is: nothing for no terms, and otherwise a term and the rest. *)
LEMMA SumIs ==
    ASSUME NEW S, IsFiniteSet(S), NEW f
    PROVE  \E g : /\ IsSum(g, f, S)
                  /\ \A s \in SUBSET S : SumOf(f, s) = g[s]
<1>1. PICK g : IsSum(g, f, S)
    BY SumExists
<1>2. ASSUME NEW s \in SUBSET S PROVE SumOf(f, s) = g[s]
    <2>1. IsFiniteSet(s)
        BY FS_Subset
    <2>2. PICK k : k = (CHOOSE m : IsSum(m, f, s))
        OBVIOUS
    <2>3. IsSum(k, f, s)
        BY <2>1, <2>2, SumExists
    <2>4. SumOf(f, s) = k[s]
        BY <2>2, Expand
    <2>5. k[s] = g[s]
        BY <1>1, <2>1, <2>3, SumsAgree
    <2>. QED
        BY <2>4, <2>5
<1>. QED
    BY <1>1, <1>2

LEMMA SumOfNone ==
    ASSUME NEW f
    PROVE  SumOf(f, {}) = 0
<1>1. IsFiniteSet({})
    BY FS_EmptySet
<1>2. PICK g : IsSum(g, f, {}) /\ \A s \in SUBSET {} : SumOf(f, s) = g[s]
    BY <1>1, SumIs
<1>. QED
    BY <1>2 DEF IsSum

LEMMA SumInt ==
    ASSUME NEW S, IsFiniteSet(S), NEW f, \A x \in S : f[x] \in Int
    PROVE  SumOf(f, S) \in Int
<1>1. PICK g : IsSum(g, f, S) /\ \A s \in SUBSET S : SumOf(f, s) = g[s]
    BY SumIs
<1>. DEFINE B == {t \in SUBSET S : g[t] \notin Int}
<1>2. SUFFICES ASSUME S \in B PROVE FALSE
    BY <1>1
<1>3. PICK t \in B : \A u \in B : u \subseteq t => u = t
    <2>1. PICK C : C = B
        OBVIOUS
    <2>2. C \in SUBSET (SUBSET S) /\ C # {}
        BY <1>2, <2>1
    <2>3. \E t \in C : \A u \in C : u \subseteq t => u = t
        BY <2>2, Minimal
    <2>. QED
        BY <2>1, <2>3
<1>4. g[t] = IF t = {} THEN 0 ELSE f[Some(t)] + g[t \ {Some(t)}]
    BY <1>1 DEF IsSum
<1>5. CASE t # {}
    <2>1. PICK x : x = Some(t) /\ x \in t
        BY <1>5 DEF Some
    <2>2. t \ {x} \in SUBSET S /\ t \ {x} # t
        BY <2>1
    <2>3. g[t \ {x}] \in Int /\ f[x] \in Int
        BY <1>3, <2>1, <2>2
    <2>. QED
        BY <1>4, <1>5, <2>1, <2>3
<1>. QED
    BY <1>4, <1>5

LEMMA SumOfEqual ==
    ASSUME NEW S, IsFiniteSet(S), NEW f, NEW f2, \A x \in S : f[x] = f2[x]
    PROVE  SumOf(f, S) = SumOf(f2, S)
<1>1. PICK g : IsSum(g, f, S) /\ SumOf(f, S) = g[S]
    BY SumIs
<1>2. PICK g2 : IsSum(g2, f2, S) /\ SumOf(f2, S) = g2[S]
    BY SumIs
<1>. QED
    BY <1>1, <1>2, SumsAgree

(* Whichever term is taken out.                                            *)
LEMMA SumWith ==
    ASSUME NEW S, IsFiniteSet(S), NEW f, \A x \in S : f[x] \in Int, NEW y \in S
    PROVE  SumOf(f, S) = f[y] + SumOf(f, S \ {y})
<1>1. PICK g : IsSum(g, f, S) /\ \A s \in SUBSET S : SumOf(f, s) = g[s]
    BY SumIs
<1>2. ASSUME NEW s \in SUBSET S PROVE g[s] \in Int
    <2>1. IsFiniteSet(s)
        BY FS_Subset
    <2>2. SumOf(f, s) \in Int
        BY <2>1, SumInt
    <2>. QED
        BY <1>1, <2>2
<1>. DEFINE B == {t \in SUBSET S : \E z \in t : g[t] # f[z] + g[t \ {z}]}
<1>3. SUFFICES ASSUME S \in B PROVE FALSE
    BY <1>1
<1>4. PICK t \in B : \A u \in B : u \subseteq t => u = t
    <2>1. PICK C : C = B
        OBVIOUS
    <2>2. C \in SUBSET (SUBSET S) /\ C # {}
        BY <1>3, <2>1
    <2>3. \E t \in C : \A u \in C : u \subseteq t => u = t
        BY <2>2, Minimal
    <2>. QED
        BY <2>1, <2>3
<1>5. PICK z \in t : g[t] # f[z] + g[t \ {z}]
    OBVIOUS
<1>6. PICK x : x = Some(t) /\ x \in t
    BY DEF Some
<1>7. g[t] = f[x] + g[t \ {x}]
    BY <1>1, <1>6 DEF IsSum
<1>8. x # z
    BY <1>5, <1>7
<1>9. PICK a, b, c : a = t \ {x} /\ b = t \ {z} /\ c = t \ {x, z}
    OBVIOUS
<1>10. /\ a \in SUBSET S /\ b \in SUBSET S /\ c \in SUBSET S
       /\ a \subseteq t /\ b \subseteq t /\ a # t /\ b # t /\ z \in a /\ x \in b
       /\ a \ {z} = c /\ b \ {x} = c
    BY <1>6, <1>8, <1>9
<1>11. g[a] = f[z] + g[c]
    BY <1>4, <1>10
<1>12. g[b] = f[x] + g[c]
    BY <1>4, <1>10
<1>13. f[x] \in Int /\ f[z] \in Int /\ g[c] \in Int
    BY <1>2, <1>6, <1>10
<1>. QED
    BY <1>5, <1>7, <1>9, <1>11, <1>12, <1>13

(* A term more, and a term that changes.                                   *)
LEMMA SumGrows ==
    ASSUME NEW S, IsFiniteSet(S), NEW y, y \notin S,
           NEW f, \A x \in S \cup {y} : f[x] \in Int
    PROVE  SumOf(f, S \cup {y}) = SumOf(f, S) + f[y]
<1>1. PICK T : T = S \cup {y}
    OBVIOUS
<1>2. IsFiniteSet(T) /\ y \in T /\ T \ {y} = S
    BY <1>1, FS_AddElement
<1>3. SumOf(f, T) = f[y] + SumOf(f, S)
    BY <1>1, <1>2, SumWith
<1>4. SumOf(f, S) \in Int /\ f[y] \in Int
    BY SumInt
<1>. QED
    BY <1>1, <1>3, <1>4

IntsOn(f, S) == \A x \in S : f[x] \in Int
ButFor(y, f, f2, S) == \A x \in S \ {y} : f[x] = f2[x]

LEMMA SumChanges ==
    ASSUME NEW S, IsFiniteSet(S), NEW y, y \in S, NEW f, NEW f2,
           IntsOn(f, S), IntsOn(f2, S), ButFor(y, f, f2, S)
    PROVE  SumOf(f2, S) = SumOf(f, S) - f[y] + f2[y]
<1>1. IsFiniteSet(S \ {y})
    BY FS_RemoveElement
<1>2. SumOf(f, S) = f[y] + SumOf(f, S \ {y})
    BY SumWith DEF IntsOn
<1>3. SumOf(f2, S) = f2[y] + SumOf(f2, S \ {y})
    BY SumWith DEF IntsOn
<1>4. SumOf(f, S \ {y}) = SumOf(f2, S \ {y})
    BY <1>1, SumOfEqual DEF ButFor
<1>5. SumOf(f, S \ {y}) \in Int /\ f[y] \in Int /\ f2[y] \in Int
    BY <1>1, SumInt DEF IntsOn
<1>. QED
    BY <1>2, <1>3, <1>4, <1>5

-----------------------------------------------------------------------------
(* What a row, a withdrawal request and a call in progress mean for the    *)
(* balance. *)

IsWallet(w) ==
    /\ w = [balance |-> w.balance, earned |-> w.earned, withdrawn |-> w.withdrawn]
    /\ w.balance \in Int

IsRequests(q) ==
    /\ Len(q) \in Nat
    /\ q = [i \in 1 .. Len(q) |-> q[i]]
    /\ \A i \in 1 .. Len(q) : /\ q[i] = [amount |-> q[i].amount, status |-> q[i].status]
                               /\ q[i].amount \in Nat

(* A withdrawal row takes what its request asks for, and has it to itself. *)
RowMeans(row, q) ==
    /\ row.amount \in Int /\ row.remaining \in Int
    /\ row.type \in {"order_payment", "affiliate_commission"} => row.amount \in Nat
    /\ row.type = "withdrawal" => /\ row.ref \in 1 .. Len(q)
                                  /\ row.amount = -q[row.ref].amount

RowsMean(t, q) ==
    /\ \A i \in 1 .. Len(t) : RowMeans(t[i], q)
    /\ \A i, j \in 1 .. Len(t) :
          t[i].type = "withdrawal" /\ t[j].type = "withdrawal" /\ t[i].ref = t[j].ref => i = j

(* What a call has done to the balance and not yet recorded, or recorded   *)
(* and not yet done.                                                       *)
Lag(c) ==
    IF c.at \in {"recordFull", "readCredits", "useCredit", "insertRequest", "recordWithdrawal",
                 "recordDebit", "creditCommission"} THEN -c.amount
    ELSE IF c.at \in {"recordRefund", "recordCredit", "rejectRow"} THEN c.amount
    ELSE 0

Deciding == {"decide", "completeRow", "countWithdrawn", "giveBack", "rejectRow"}

(* What a call knows of the rows it is about.                              *)
CallMeans(c, t, q) ==
    /\ c = [call |-> c.call, at |-> c.at, ref |-> c.ref, amount |-> c.amount, todo |-> c.todo]
    /\ c.amount \in Nat
    /\ c.todo \in Seq([id : Int, left : Int])
    /\ c.at \in {"expire", "useCredit"} => c.todo # <<>>
    /\ c.at = "recordWithdrawal" =>
          /\ c.ref \in 1 .. Len(q) /\ q[c.ref].amount = c.amount
          /\ \A i \in 1 .. Len(t) : t[i].type = "withdrawal" => t[i].ref # c.ref
    /\ c.at \in Deciding => c.ref \in 1 .. Len(q) /\ q[c.ref].amount = c.amount
    /\ c.at = "confirmRow" => /\ c.ref \in 1 .. Len(t)
                              /\ t[c.ref].type = "affiliate_commission"
                              /\ t[c.ref].amount = c.amount

CallsMean(r, t, q) ==
    /\ r = [h \in Slots |-> r[h]]
    /\ \A h \in Slots : CallMeans(r[h], t, q)
    /\ \A g, h \in Slots : r[g].at = "recordWithdrawal" /\ r[h].at = "recordWithdrawal"
                           /\ r[g].ref = r[h].ref => g = h

AccountOf(t) == SumOf([i \in DOMAIN t |-> Effect(t[i])], DOMAIN t)
LagsOf(r) == SumOf([h \in Slots |-> Lag(r[h])], Slots)

MoneyInv ==
    /\ day \in Nat /\ made \in Nat
    /\ IsWallet(wallet) /\ IsRequests(requests)
    /\ RowsMean(txs, requests)
    /\ CallsMean(run, txs, requests)
    /\ wallet.balance >= AccountOf(txs) + LagsOf(run)

-----------------------------------------------------------------------------
(* What the history adds up to.                                            *)

LEMMA RowsAreInts ==
    ASSUME NEW t, IsLedger(t), NEW q, RowsMean(t, q)
    PROVE  /\ DOMAIN t = 1 .. Len(t) /\ Len(t) \in Nat /\ IsFiniteSet(1 .. Len(t))
           /\ \A i \in 1 .. Len(t) : t[i].amount \in Int /\ Effect(t[i]) \in Int
           /\ AccountOf(t) \in Int
<1>1. DOMAIN t = 1 .. Len(t) /\ Len(t) \in Nat
    BY DEF IsLedger
<1>2. IsFiniteSet(1 .. Len(t))
    BY <1>1, FS_Interval
<1>3. \A i \in 1 .. Len(t) : t[i].amount \in Int
    BY DEF RowsMean, RowMeans
<1>4. \A i \in 1 .. Len(t) : Effect(t[i]) \in Int
    BY <1>3 DEF Effect
<1>5. AccountOf(t) \in Int
    <2>1. PICK f : f = [i \in DOMAIN t |-> Effect(t[i])]
        OBVIOUS
    <2>2. PICK D : D = DOMAIN t
        OBVIOUS
    <2>3. SumOf(f, D) \in Int
        BY <1>1, <1>2, <1>4, <2>1, <2>2, SumInt
    <2>. QED
        BY <2>1, <2>2, <2>3 DEF AccountOf
<1>. QED
    BY <1>1, <1>2, <1>3, <1>4, <1>5

LEMMA SameAccount ==
    ASSUME NEW t, IsLedger(t), NEW u, IsLedger(u), Len(u) = Len(t),
           \A i \in 1 .. Len(t) : Effect(u[i]) = Effect(t[i])
    PROVE  AccountOf(u) = AccountOf(t)
<1>1. DOMAIN t = 1 .. Len(t) /\ DOMAIN u = 1 .. Len(t) /\ Len(t) \in Nat
    BY DEF IsLedger
<1>2. [i \in DOMAIN u |-> Effect(u[i])] = [i \in DOMAIN t |-> Effect(t[i])]
    BY <1>1
<1>. QED
    BY <1>1, <1>2 DEF AccountOf

LEMMA AccountGrows ==
    ASSUME NEW t, IsLedger(t), NEW u, IsLedger(u), Len(u) = Len(t) + 1,
           \A i \in 1 .. Len(t) : u[i] = t[i],
           \A i \in 1 .. Len(u) : Effect(u[i]) \in Int
    PROVE  AccountOf(u) = AccountOf(t) + Effect(u[Len(t) + 1])
<1>1. /\ DOMAIN t = 1 .. Len(t) /\ DOMAIN u = 1 .. Len(u) /\ Len(t) \in Nat
      /\ IsFiniteSet(1 .. Len(t))
    BY FS_Interval DEF IsLedger
<1>2. PICK S, y : S = 1 .. Len(t) /\ y = Len(t) + 1
    OBVIOUS
<1>3. S \cup {y} = 1 .. Len(u) /\ y \notin S /\ IsFiniteSet(S)
    BY <1>1, <1>2
<1>4. PICK f : f = [i \in DOMAIN u |-> Effect(u[i])]
    OBVIOUS
<1>5. PICK g : g = [i \in DOMAIN t |-> Effect(t[i])]
    OBVIOUS
<1>6. \A x \in S \cup {y} : f[x] \in Int
    BY <1>1, <1>3, <1>4
<1>7. SumOf(f, S \cup {y}) = SumOf(f, S) + f[y]
    BY <1>3, <1>6, SumGrows
<1>8. \A x \in S : f[x] = g[x]
    BY <1>1, <1>2, <1>3, <1>4, <1>5
<1>9. SumOf(f, S) = SumOf(g, S)
    BY <1>3, <1>8, SumOfEqual
<1>10. AccountOf(u) = SumOf(f, S \cup {y}) /\ AccountOf(t) = SumOf(g, S)
    BY <1>1, <1>2, <1>3, <1>4, <1>5 DEF AccountOf
<1>11. f[y] = Effect(u[Len(t) + 1])
    BY <1>1, <1>2, <1>3, <1>4
<1>. QED
    BY <1>7, <1>9, <1>10, <1>11

LEMMA AccountChanges ==
    ASSUME NEW t, IsLedger(t), NEW u, IsLedger(u), Len(u) = Len(t),
           \A i \in 1 .. Len(t) : Effect(t[i]) \in Int /\ Effect(u[i]) \in Int,
           NEW n \in 1 .. Len(t), \A i \in 1 .. Len(t) : i # n => Effect(u[i]) = Effect(t[i])
    PROVE  AccountOf(u) = AccountOf(t) - Effect(t[n]) + Effect(u[n])
<1>1. DOMAIN t = 1 .. Len(t) /\ DOMAIN u = 1 .. Len(t) /\ Len(t) \in Nat
    BY DEF IsLedger
<1>9. IsFiniteSet(1 .. Len(t))
    BY <1>1, FS_Interval
<1>2. PICK D : D = 1 .. Len(t)
    OBVIOUS
<1>3. PICK f : f = [i \in DOMAIN t |-> Effect(t[i])]
    OBVIOUS
<1>4. PICK g : g = [i \in DOMAIN u |-> Effect(u[i])]
    OBVIOUS
<1>5. \A x \in D : f[x] \in Int /\ g[x] \in Int /\ f[x] = Effect(t[x]) /\ g[x] = Effect(u[x])
    BY <1>1, <1>2, <1>3, <1>4
<1>6. IsFiniteSet(D) /\ n \in D
    BY <1>9, <1>2
<1>7. IntsOn(f, D) /\ IntsOn(g, D) /\ ButFor(n, f, g, D)
    BY <1>2, <1>5 DEF IntsOn, ButFor
<1>8. SumOf(g, D) = SumOf(f, D) - f[n] + g[n]
    BY <1>6, <1>7, SumChanges
<1>. QED
    BY <1>1, <1>2, <1>3, <1>4, <1>5, <1>6, <1>8 DEF AccountOf

LEMMA LagIsInt ==
    ASSUME NEW c, NEW t, NEW q, CallMeans(c, t, q)
    PROVE  Lag(c) \in Int
BY DEF Lag, CallMeans

LEMMA LagsMove ==
    ASSUME NEW r, NEW t, NEW q, CallsMean(r, t, q), NEW h \in Slots, NEW x, Lag(x) \in Int
    PROVE  /\ LagsOf(r) \in Int /\ Lag(r[h]) \in Int
           /\ LagsOf([r EXCEPT ![h] = x]) = LagsOf(r) - Lag(r[h]) + Lag(x)
<1>1. PICK s : s = [r EXCEPT ![h] = x]
    OBVIOUS
<1>2. DOMAIN r = Slots
    BY DEF CallsMean
<1>3. s[h] = x /\ \A g \in Slots : g # h => s[g] = r[g]
    BY <1>1, <1>2
<1>4. \A g \in Slots : Lag(r[g]) \in Int
    BY LagIsInt DEF CallsMean
<1>5. PICK f : f = [g \in Slots |-> Lag(r[g])]
    OBVIOUS
<1>6. PICK k : k = [g \in Slots |-> Lag(s[g])]
    OBVIOUS
<1>7. IsFiniteSet(Slots)
    BY WalletAssumption
<1>8. IntsOn(f, Slots) /\ IntsOn(k, Slots)
    BY <1>3, <1>4, <1>5, <1>6 DEF IntsOn
<1>9. ButFor(h, f, k, Slots)
    BY <1>3, <1>5, <1>6 DEF ButFor
<1>10. SumOf(k, Slots) = SumOf(f, Slots) - f[h] + k[h]
    BY <1>7, <1>8, <1>9, SumChanges
<1>11. SumOf(f, Slots) \in Int
    BY <1>7, <1>8, SumInt DEF IntsOn
<1>12. LagsOf(s) = SumOf(k, Slots) /\ LagsOf(r) = SumOf(f, Slots)
    BY <1>5, <1>6 DEF LagsOf
<1>13. f[h] = Lag(r[h]) /\ k[h] = Lag(x)
    BY <1>3, <1>5, <1>6
<1>. QED
    BY <1>1, <1>4, <1>10, <1>11, <1>12, <1>13

-----------------------------------------------------------------------------
(* Steps of calls. *)

(* The same rows, but for what is left of them, their dates and status.    *)
Alike(t, u) ==
    /\ IsLedger(t) /\ IsLedger(u) /\ Len(u) = Len(t)
    /\ \A i \in 1 .. Len(t) : /\ u[i].type = t[i].type /\ u[i].ref = t[i].ref
                              /\ u[i].amount = t[i].amount /\ u[i].remaining \in Int

OneMore(t, u, row) ==
    /\ IsLedger(t) /\ IsLedger(u) /\ Len(u) = Len(t) + 1
    /\ \A i \in 1 .. Len(t) : u[i] = t[i]
    /\ u[Len(t) + 1] = row

LEMMA AppendIs ==
    ASSUME NEW t, IsLedger(t), NEW row, IsRow(row)
    PROVE  OneMore(t, Append(t, row), row)
<1>1. PICK S : t \in Seq(S)
    BY LedgerIsSeq
<1>2. PICK T : t \in Seq(T) /\ row \in T
    BY <1>1, t \in Seq(S \cup {row})
<1>3. PICK u : u = Append(t, row)
    OBVIOUS
<1>4. /\ u \in Seq(T) /\ Len(u) = Len(t) + 1 /\ u[Len(t) + 1] = row
      /\ \A i \in 1 .. Len(t) : u[i] = t[i]
    BY <1>2, <1>3
<1>5. u = [i \in 1 .. Len(u) |-> u[i]] /\ Len(u) \in Nat
    BY <1>4
<1>6. \A i \in 1 .. Len(u) : IsRow(u[i])
    BY <1>4 DEF IsLedger
<1>7. IsLedger(u)
    BY <1>5, <1>6 DEF IsLedger
<1>. QED
    BY <1>3, <1>4, <1>7 DEF OneMore

LEMMA AlikeMeans ==
    ASSUME NEW t, NEW u, Alike(t, u), NEW q, RowsMean(t, q)
    PROVE  /\ RowsMean(u, q)
           /\ \A c : CallMeans(c, t, q) => CallMeans(c, u, q)
           /\ \A r : CallsMean(r, t, q) => CallsMean(r, u, q)
<1>1. \A i \in 1 .. Len(u) : RowMeans(u[i], q)
    BY DEF Alike, RowsMean, RowMeans
<1>2. RowsMean(u, q)
    BY <1>1 DEF Alike, RowsMean
<1>3. ASSUME NEW c, CallMeans(c, t, q) PROVE CallMeans(c, u, q)
    BY <1>3 DEF Alike, CallMeans
<1>4. ASSUME NEW r, CallsMean(r, t, q) PROVE CallsMean(r, u, q)
    BY <1>3, <1>4 DEF CallsMean
<1>. QED
    BY <1>2, <1>3, <1>4

LEMMA MoreMeans ==
    ASSUME NEW t, NEW u, NEW row, OneMore(t, u, row), NEW q, RowsMean(t, q),
           RowMeans(row, q), row.type # "withdrawal"
    PROVE  /\ RowsMean(u, q)
           /\ AccountOf(u) = AccountOf(t) + Effect(row)
           /\ \A c : CallMeans(c, t, q) => CallMeans(c, u, q)
           /\ \A r : CallsMean(r, t, q) => CallsMean(r, u, q)
<1>1. /\ Len(t) \in Nat /\ 1 .. Len(u) = (1 .. Len(t)) \cup {Len(t) + 1}
      /\ \A i \in 1 .. Len(u) : i \in 1 .. Len(t) \/ i = Len(t) + 1
    BY DEF OneMore, IsLedger
<1>2. \A i \in 1 .. Len(u) : u[i] = row \/ (i \in 1 .. Len(t) /\ u[i] = t[i])
    BY <1>1 DEF OneMore
<1>3. \A i \in 1 .. Len(u) : RowMeans(u[i], q)
    BY <1>2 DEF RowsMean
<1>4. RowsMean(u, q)
    BY <1>2, <1>3 DEF RowsMean
<1>5. ASSUME NEW c, CallMeans(c, t, q) PROVE CallMeans(c, u, q)
    <2>1. 1 .. Len(t) \subseteq 1 .. Len(u) /\ \A i \in 1 .. Len(t) : u[i] = t[i]
        BY <1>1 DEF OneMore
    <2>. QED
        BY <1>2, <1>5, <2>1 DEF CallMeans
<1>6. ASSUME NEW r, CallsMean(r, t, q) PROVE CallsMean(r, u, q)
    BY <1>5, <1>6 DEF CallsMean
<1>7. AccountOf(u) = AccountOf(t) + Effect(row)
    <2>1. IsLedger(t) /\ IsLedger(u) /\ Len(u) = Len(t) + 1 /\ u[Len(t) + 1] = row
        BY DEF OneMore
    <2>2. \A i \in 1 .. Len(u) : Effect(u[i]) \in Int
        BY <1>4, <2>1, RowsAreInts
    <2>3. \A i \in 1 .. Len(t) : u[i] = t[i]
        BY DEF OneMore
    <2>. QED
        BY <2>1, <2>2, <2>3, AccountGrows
<1>. QED
    BY <1>4, <1>5, <1>6, <1>7

(* One call goes on, and does not wait to record a withdrawal.             *)
LEMMA CallMoves ==
    ASSUME NEW r, NEW t, NEW q, CallsMean(r, t, q), NEW h \in Slots,
           NEW x, CallMeans(x, t, q), x.at # "recordWithdrawal"
    PROVE  CallsMean([r EXCEPT ![h] = x], t, q)
<1>1. PICK s : s = [r EXCEPT ![h] = x]
    OBVIOUS
<1>2. r = [g \in Slots |-> r[g]]
    BY DEF CallsMean
<1>3. s = [g \in Slots |-> s[g]] /\ s[h] = x /\ \A g \in Slots : g # h => s[g] = r[g]
    BY <1>1, <1>2
<1>4. \A g \in Slots : CallMeans(s[g], t, q)
    BY <1>3 DEF CallsMean
<1>5. CallsMean(s, t, q)
    BY <1>3, <1>4 DEF CallsMean
<1>. QED
    BY <1>1, <1>5

(* A step that changes rows, if at all, but adds none: what the history    *)
(* grows by, the balance or the call makes up for.                         *)
LEMMA Moved ==
    ASSUME MoneyInv, NEW h \in Slots, NEW x, NEW a \in Int,
           run' = [run EXCEPT ![h] = x], day' \in Nat, made' \in Nat, requests' = requests,
           CallMeans(x, txs, requests), x.at # "recordWithdrawal",
           Alike(txs, txs'), AccountOf(txs') <= AccountOf(txs) + a,
           IsWallet(wallet'),
           wallet'.balance >= wallet.balance + a + Lag(x) - Lag(run[h])
    PROVE  MoneyInv'
<1>. PICK t, r, w : t = txs' /\ r = run' /\ w = wallet'
    OBVIOUS
<1>1. RowsMean(txs, requests) /\ CallsMean(run, txs, requests) /\ IsWallet(wallet)
      /\ IsRequests(requests)
    BY DEF MoneyInv
<1>2. RowsMean(t, requests)
    BY <1>1, AlikeMeans
<1>3. CallsMean(r, t, requests)
    <2>1. CallsMean(r, txs, requests)
        BY <1>1, CallMoves
    <2>. QED
        BY <1>1, <2>1, AlikeMeans
<1>4. Lag(x) \in Int
    BY LagIsInt
<1>5. LagsOf(r) = LagsOf(run) - Lag(run[h]) + Lag(x) /\ LagsOf(run) \in Int /\ Lag(run[h]) \in Int
    BY <1>1, <1>4, LagsMove
<1>6. AccountOf(txs) \in Int /\ AccountOf(t) \in Int
    BY <1>1, <1>2, RowsAreInts DEF Alike
<1>7. w.balance \in Int /\ wallet.balance \in Int
    BY <1>1 DEF IsWallet
<1>8. wallet.balance >= AccountOf(txs) + LagsOf(run)
    BY DEF MoneyInv
<1>9. w.balance >= AccountOf(t) + LagsOf(r)
    BY <1>4, <1>5, <1>6, <1>7, <1>8
<1>. QED
    BY <1>1, <1>2, <1>3, <1>9 DEF MoneyInv

(* A step that adds a row.                                                 *)
LEMMA Booked ==
    ASSUME MoneyInv, NEW h \in Slots, NEW x, NEW t, NEW row,
           run' = [run EXCEPT ![h] = x], day' \in Nat, made' \in Nat, requests' = requests,
           CallMeans(x, txs, requests), x.at # "recordWithdrawal",
           Alike(txs, t), AccountOf(t) = AccountOf(txs), txs' = Append(t, row),
           IsRow(row), RowMeans(row, requests), row.type # "withdrawal",
           IsWallet(wallet'),
           wallet'.balance >= wallet.balance + Effect(row) + Lag(x) - Lag(run[h])
    PROVE  MoneyInv'
<1>. PICK u, r, w : u = txs' /\ r = run' /\ w = wallet'
    OBVIOUS
<1>1. RowsMean(txs, requests) /\ CallsMean(run, txs, requests) /\ IsWallet(wallet)
      /\ IsRequests(requests)
    BY DEF MoneyInv
<1>2. OneMore(t, u, row)
    BY AppendIs DEF Alike
<1>3. RowsMean(t, requests) /\ CallMeans(x, t, requests) /\ CallsMean(run, t, requests)
    BY <1>1, AlikeMeans
<1>4. CallsMean(r, t, requests)
    BY <1>3, CallMoves
<1>5. /\ RowsMean(u, requests) /\ CallsMean(r, u, requests)
      /\ AccountOf(u) = AccountOf(t) + Effect(row)
    BY <1>2, <1>3, <1>4, MoreMeans
<1>6. Lag(x) \in Int
    BY LagIsInt
<1>7. LagsOf(r) = LagsOf(run) - Lag(run[h]) + Lag(x) /\ LagsOf(run) \in Int /\ Lag(run[h]) \in Int
    BY <1>1, <1>6, LagsMove
<1>8. AccountOf(txs) \in Int /\ Effect(row) \in Int
    <2>1. Effect(row) \in Int
        BY DEF RowMeans, Effect
    <2>. QED
        BY <1>1, <2>1, RowsAreInts DEF Alike
<1>9. w.balance \in Int /\ wallet.balance \in Int
    BY <1>1 DEF IsWallet
<1>10. wallet.balance >= AccountOf(txs) + LagsOf(run)
    BY DEF MoneyInv
<1>11. w.balance >= AccountOf(u) + LagsOf(r)
    BY <1>5, <1>6, <1>7, <1>8, <1>9, <1>10
<1>. QED
    BY <1>1, <1>5, <1>11 DEF MoneyInv

(* A step that leaves the rows alone.                                      *)
LEMMA AlikeItself ==
    ASSUME MoneyInv, WalletInv
    PROVE  /\ Alike(txs, txs) /\ AccountOf(txs) \in Int
           /\ IsWallet(wallet) /\ wallet.balance \in Int
           /\ \A h \in Slots : CallMeans(run[h], txs, requests) /\ Lag(run[h]) \in Int
<1>1. RowsMean(txs, requests) /\ CallsMean(run, txs, requests) /\ IsWallet(wallet)
    BY DEF MoneyInv
<1>2. IsLedger(txs)
    BY DEF WalletInv
<1>3. Alike(txs, txs)
    BY <1>1, <1>2 DEF Alike, RowsMean, RowMeans
<1>4. AccountOf(txs) \in Int
    BY <1>1, <1>2, RowsAreInts
<1>5. \A h \in Slots : CallMeans(run[h], txs, requests) /\ Lag(run[h]) \in Int
    BY <1>1, LagIsInt DEF CallsMean
<1>. QED
    BY <1>1, <1>3, <1>4, <1>5 DEF IsWallet

LEMMA Paid ==
    ASSUME MoneyInv, WalletInv, NEW h \in Slots, NEW x,
           run' = [run EXCEPT ![h] = x], day' \in Nat, made' \in Nat,
           requests' = requests, txs' = txs,
           CallMeans(x, txs, requests), x.at # "recordWithdrawal",
           IsWallet(wallet'), wallet'.balance >= wallet.balance + Lag(x) - Lag(run[h])
    PROVE  MoneyInv'
<1>. PICK a \in Int : a = 0
    OBVIOUS
<1>1. Alike(txs, txs') /\ AccountOf(txs') <= AccountOf(txs) + a
    BY AlikeItself
<1>2. wallet'.balance >= wallet.balance + a + Lag(x) - Lag(run[h])
    BY AlikeItself
<1>. QED
    BY <1>1, <1>2, Moved

LEMMA Waited ==
    ASSUME MoneyInv, WalletInv, NEW h \in Slots, NEW x,
           run' = [run EXCEPT ![h] = x], day' \in Nat, made' \in Nat,
           requests' = requests, txs' = txs, wallet' = wallet,
           CallMeans(x, txs, requests), x.at # "recordWithdrawal", Lag(x) = Lag(run[h])
    PROVE  MoneyInv'
<1>1. IsWallet(wallet') /\ wallet'.balance >= wallet.balance + Lag(x) - Lag(run[h])
    BY AlikeItself
<1>. QED
    BY <1>1, Paid

Special == {"expire", "useCredit", "recordWithdrawal", "confirmRow"}

LEMMA IdleMeans ==
    ASSUME NEW t, NEW q
    PROVE  CallMeans(Idle, t, q) /\ Idle.at = "idle" /\ Lag(Idle) = 0
BY DEF CallMeans, Idle, Lag, Deciding

LEMMA Starts ==
    ASSUME NEW call, NEW at, NEW ref, NEW amount \in Nat, NEW t, NEW q,
           at \notin Special, at \notin Deciding
    PROVE  LET x == Call(call, at, ref, amount)
           IN  /\ CallMeans(x, t, q)
               /\ x.call = call /\ x.at = at /\ x.ref = ref /\ x.amount = amount
BY DEF CallMeans, Call, Special

(* A call goes on to another of its steps.                                 *)
GoesOn(x, c, at) ==
    /\ x = [c EXCEPT !.at = at]
    /\ x.call = c.call /\ x.at = at /\ x.ref = c.ref /\ x.amount = c.amount /\ x.todo = c.todo

LEMMA Continues ==
    ASSUME NEW c, NEW t, NEW q, CallMeans(c, t, q), NEW at, at \notin Special,
           at \in Deciding => c.at \in Deciding
    PROVE  /\ CallMeans([c EXCEPT !.at = at], t, q)
           /\ GoesOn([c EXCEPT !.at = at], c, at)
<1>1. PICK x : x = [c EXCEPT !.at = at]
    OBVIOUS
<1>2. GoesOn(x, c, at)
    BY <1>1 DEF CallMeans, GoesOn
<1>3. x = [call |-> x.call, at |-> x.at, ref |-> x.ref, amount |-> x.amount, todo |-> x.todo]
    BY <1>1 DEF CallMeans
<1>4. CallMeans(x, t, q)
    BY <1>2, <1>3 DEF CallMeans, GoesOn, Special
<1>. QED
    BY <1>1, <1>2, <1>4

(* The balance.                                                            *)
LEMMA Credited ==
    ASSUME MoneyInv, NEW n \in Int, Credit(n) \/ Earn(n)
    PROVE  IsWallet(wallet') /\ wallet'.balance = wallet.balance + n
<1>1. PICK b, e, d : b \in Int /\ wallet = [balance |-> b, earned |-> e, withdrawn |-> d]
    BY DEF MoneyInv, IsWallet
<1>2. \/ wallet' = [balance |-> b + n, earned |-> e, withdrawn |-> d]
      \/ wallet' = [balance |-> b + n, earned |-> e + n, withdrawn |-> d]
    BY <1>1 DEF Credit, Earn
<1>. QED
    BY <1>1, <1>2 DEF IsWallet

LEMMA Debited ==
    ASSUME MoneyInv, NEW n \in Int, Debit(n)
    PROVE  IsWallet(wallet') /\ wallet'.balance = wallet.balance - n
BY DEF MoneyInv, IsWallet, Debit

LEMMA MaxIs ==
    ASSUME NEW a \in Int, NEW b \in Int
    PROVE  Max({a, b}) \in Int /\ Max({a, b}) >= a /\ Max({a, b}) >= b
<1>1. \E x \in {a, b} : \A y \in {a, b} : x >= y
    OBVIOUS
<1>2. PICK m : m = Max({a, b})
    OBVIOUS
<1>3. m \in {a, b} /\ \A y \in {a, b} : m >= y
    BY <1>1, <1>2 DEF Max
<1>. QED
    BY <1>2, <1>3

LEMMA MinIs ==
    ASSUME NEW a \in Int, NEW b \in Int
    PROVE  Min({a, b}) \in Int /\ Min({a, b}) <= a /\ Min({a, b}) <= b
<1>1. \E x \in {a, b} : \A y \in {a, b} : x <= y
    OBVIOUS
<1>2. PICK m : m = Min({a, b})
    OBVIOUS
<1>3. m \in {a, b} /\ \A y \in {a, b} : m <= y
    BY <1>1, <1>2 DEF Min
<1>. QED
    BY <1>2, <1>3

LEMMA DebitedToZero ==
    ASSUME MoneyInv, NEW n \in Int, DebitToZero(n)
    PROVE  IsWallet(wallet') /\ wallet'.balance >= wallet.balance - n
<1>1. wallet.balance \in Int
    BY DEF MoneyInv, IsWallet
<1>2. PICK none, left, m : none = 0 /\ left = wallet.balance - n /\ m = Max({none, left})
    OBVIOUS
<1>3. none \in Int /\ left \in Int
    BY <1>1, <1>2
<1>5. m \in Int /\ m >= left
    BY <1>2, <1>3, MaxIs
<1>4. wallet' = [wallet EXCEPT !.balance = m]
    BY <1>2 DEF DebitToZero
<1>. QED
    BY <1>2, <1>4, <1>5 DEF MoneyInv, IsWallet

(* What is left of a credit, and of all of them, is a number.              *)
LEMMA UnspentIsInt ==
    ASSUME MoneyInv, WalletInv, NEW D, D \subseteq DOMAIN txs
    PROVE  Unspent(D) \in Int
<1>1. DOMAIN txs = 1 .. Len(txs) /\ Len(txs) \in Nat
    BY DEF WalletInv, IsLedger
<1>2. IsFiniteSet(1 .. Len(txs))
    BY <1>1, FS_Interval
<1>3. IsFiniteSet(D)
    BY <1>1, <1>2, FS_Subset
<1>4. PICK f : f = [i \in D |-> txs[i].remaining]
    OBVIOUS
<1>5. \A i \in D : f[i] \in Int
    BY <1>1, <1>4 DEF MoneyInv, RowsMean, RowMeans
<1>6. SumOf(f, D) \in Int
    BY <1>3, <1>5, SumInt
<1>. QED
    BY <1>4, <1>6 DEF Unspent

LEMMA FifoLeftIsInt ==
    ASSUME MoneyInv, WalletInv, NEW i \in DOMAIN txs, NEW amount \in Int
    PROVE  FifoLeft(i, amount) \in Int
<1>1. PICK D : D = {j \in Active : ExpiresFirst(j, i)}
    OBVIOUS
<1>2. D \subseteq DOMAIN txs
    BY <1>1 DEF Active
<1>3. PICK before : before = Unspent(D)
    OBVIOUS
<1>4. before \in Int
    BY <1>2, <1>3, UnspentIsInt
<1>5. txs[i].remaining \in Int
    BY DEF MoneyInv, WalletInv, IsLedger, RowsMean, RowMeans
<1>6. PICK none, due, m : none = 0 /\ due = amount - before /\ m = Max({none, due})
    OBVIOUS
<1>11. none \in Int /\ due \in Int
    BY <1>4, <1>6
<1>7. m \in Int
    BY <1>6, <1>11, MaxIs
<1>8. PICK k : k = Min({txs[i].remaining, m})
    OBVIOUS
<1>9. k \in Int
    BY <1>5, <1>7, <1>8, MinIs
<1>10. FifoLeft(i, amount) = txs[i].remaining - k
    BY <1>1, <1>3, <1>6, <1>8 DEF FifoLeft
<1>. QED
    BY <1>5, <1>9, <1>10

LEMMA NetPaidIsInt ==
    ASSUME MoneyInv, WalletInv, NEW order
    PROVE  NetPaid(order) \in Int
<1>1. DOMAIN txs = 1 .. Len(txs) /\ Len(txs) \in Nat
    BY DEF WalletInv, IsLedger
<1>2. IsFiniteSet(1 .. Len(txs))
    BY <1>1, FS_Interval
<1>3. PICK f : f = [i \in DOMAIN txs |-> txs[i].amount]
    OBVIOUS
<1>4. \A i \in DOMAIN txs : f[i] \in Int
    BY <1>1, <1>3 DEF MoneyInv, RowsMean, RowMeans
<1>5. ASSUME NEW D, D \subseteq DOMAIN txs PROVE SumOf(f, D) \in Int
    <2>1. IsFiniteSet(D)
        BY <1>1, <1>2, <1>5, FS_Subset
    <2>2. \A i \in D : f[i] \in Int
        BY <1>4, <1>5
    <2>. QED
        BY <2>1, <2>2, SumInt
<1>6. PICK p : p = {i \in DOMAIN txs : txs[i].type = "order_payment" /\ txs[i].ref = order}
    OBVIOUS
<1>7. PICK b : b = {i \in DOMAIN txs : txs[i].type = "order_refund" /\ txs[i].ref = order}
    OBVIOUS
<1>8. SumOf(f, p) \in Int /\ SumOf(f, b) \in Int
    BY <1>5, <1>6, <1>7
<1>9. NetPaid(order) = SumOf(f, p) - SumOf(f, b)
    BY <1>3, <1>6, <1>7 DEF NetPaid
<1>. QED
    BY <1>8, <1>9

(* A call made, and a call that goes on, while the money stays.            *)
LEMMA Entered ==
    ASSUME MoneyInv, WalletInv, NEW h \in Slots, NEW call, Called(h, call),
           NEW x, Enters(h, x), wallet' = wallet, txs' = txs, requests' = requests,
           CallMeans(x, txs, requests), x.at # "recordWithdrawal", Lag(x) = 0
    PROVE  MoneyInv'
<1>1. run' = [run EXCEPT ![h] = x] /\ day' \in Nat /\ made' \in Nat
    BY DEF Enters, MoneyInv
<1>2. Lag(run[h]) = 0
    BY IdleMeans DEF Called
<1>. QED
    BY <1>1, <1>2, Waited

LEMMA Went ==
    ASSUME MoneyInv, WalletInv, NEW h \in Slots,
           NEW x, Goto(h, x), wallet' = wallet, txs' = txs, requests' = requests,
           CallMeans(x, txs, requests), x.at # "recordWithdrawal", Lag(x) = Lag(run[h])
    PROVE  MoneyInv'
<1>1. run' = [run EXCEPT ![h] = x] /\ day' \in Nat /\ made' \in Nat
    BY DEF Goto, MoneyInv
<1>. QED
    BY <1>1, Waited

LEMMA Ended ==
    ASSUME MoneyInv, WalletInv, NEW h \in Slots, Done(h),
           wallet' = wallet, txs' = txs, requests' = requests, Lag(run[h]) = 0
    PROVE  MoneyInv'
BY Went, IdleMeans DEF Done

LEMMA BecameQuietly ==
    ASSUME MoneyInv, WalletInv, NEW h \in Slots, NEW at, Becomes(h, at),
           wallet' = wallet, txs' = txs, requests' = requests,
           at \notin Special, at \in Deciding => run[h].at \in Deciding,
           \A x : GoesOn(x, run[h], at) => Lag(x) = Lag(run[h])
    PROVE  MoneyInv'
<1>1. PICK x : x = [run[h] EXCEPT !.at = at]
    OBVIOUS
<1>2. CallMeans(run[h], txs, requests)
    BY AlikeItself
<1>3. CallMeans(x, txs, requests) /\ GoesOn(x, run[h], at)
    BY <1>1, <1>2, Continues
<1>4. Goto(h, x) /\ x.at # "recordWithdrawal"
    BY <1>1, <1>3 DEF Becomes, GoesOn, Special
<1>. QED
    BY <1>3, <1>4, Went

LEMMA SweptMeans ==
    ASSUME NEW r, NEW t, NEW q, CallMeans(r, t, q)
    PROVE  /\ CallMeans(Swept(r), t, q) /\ Lag(Swept(r)) = 0
           /\ Swept(r).at # "recordWithdrawal"
<1>1. CASE AfterSweep(r.call) = "idle"
    BY <1>1, IdleMeans DEF Swept
<1>2. CASE AfterSweep(r.call) = "readBalance"
    <2>1. PICK x : x = [call |-> r.call, at |-> "readBalance", ref |-> r.ref,
                        amount |-> r.amount, todo |-> <<>>]
        OBVIOUS
    <2>2. [r EXCEPT !.at = "readBalance", !.todo = <<>>] = x
        <3>1. PICK c, at, ref, n, todo :
                  r = [call |-> c, at |-> at, ref |-> ref, amount |-> n, todo |-> todo]
            BY DEF CallMeans
        <3>2. PICK y : y = [r EXCEPT !.at = "readBalance", !.todo = <<>>]
            OBVIOUS
        <3>3. /\ y.call = r.call /\ y.at = "readBalance" /\ y.ref = r.ref
              /\ y.amount = r.amount /\ y.todo = <<>>
            BY <3>1, <3>2
        <3>4. y = [call |-> y.call, at |-> y.at, ref |-> y.ref, amount |-> y.amount,
                   todo |-> y.todo]
            BY <3>1, <3>2
        <3>. QED
            BY <2>1, <3>2, <3>3, <3>4
    <2>5. r.amount \in Nat
        BY DEF CallMeans
    <2>3. CallMeans(x, t, q) /\ Lag(x) = 0 /\ x.at = "readBalance"
        BY <2>1, <2>5 DEF CallMeans, Lag, Deciding
    <2>4. Swept(r) = x
        BY <1>2, <2>2 DEF Swept
    <2>. QED
        BY <2>3, <2>4
<1>. QED
    BY <1>1, <1>2 DEF AfterSweep

(* The list of what is overdue, or of what to use up, as a call keeps it.  *)
LEMMA OrdersAre ==
    ASSUME MoneyInv, WalletInv, NEW D, D \subseteq DOMAIN txs, NEW s, s \in SetToSeqs(D)
    PROVE  /\ s \in Seq(D) /\ (D # {} => s # <<>>)
           /\ \A n \in DOMAIN s : s[n] \in DOMAIN txs /\ s[n] \in Int
<1>1. DOMAIN txs = 1 .. Len(txs) /\ Len(txs) \in Nat
    BY DEF WalletInv, IsLedger
<1>2. IsFiniteSet(1 .. Len(txs))
    BY <1>1, FS_Interval
<1>3. IsFiniteSet(D)
    BY <1>1, <1>2, FS_Subset
<1>4. PICK k : k = Cardinality(D)
    OBVIOUS
<1>5. k \in Nat /\ (k = 0 <=> D = {})
    BY <1>3, <1>4, FS_CardinalityType, FS_EmptySet
<1>6. s \in [1 .. k -> D]
    BY <1>4 DEF SetToSeqs
<1>7. s \in Seq(D) /\ Len(s) = k
    BY <1>5, <1>6
<1>. QED
    BY <1>1, <1>5, <1>6, <1>7

LEMMA TodoIs ==
    ASSUME NEW D, NEW s \in Seq(D), NEW f, \A n \in DOMAIN s : s[n] \in Int /\ f[n] \in Int
    PROVE  /\ [n \in DOMAIN s |-> [id |-> s[n], left |-> f[n]]] \in Seq([id : Int, left : Int])
           /\ Len([n \in DOMAIN s |-> [id |-> s[n], left |-> f[n]]]) = Len(s)
<1>1. PICK k \in Nat : DOMAIN s = 1 .. k /\ Len(s) = k
    OBVIOUS
<1>2. PICK u : u = [n \in DOMAIN s |-> [id |-> s[n], left |-> f[n]]]
    OBVIOUS
<1>3. PICK T : T = [id : Int, left : Int]
    OBVIOUS
<1>4. u \in [1 .. k -> T]
    BY <1>1, <1>2, <1>3
<1>5. u \in Seq(T) /\ Len(u) = k
    BY <1>4
<1>. QED
    BY <1>1, <1>2, <1>3, <1>5

LEMMA OverdueReadMeans ==
    ASSUME MoneyInv, WalletInv, NEW r, CallMeans(r, txs, requests),
           NEW x, x \in OverdueRead(r)
    PROVE  CallMeans(x, txs, requests) /\ Lag(x) = 0 /\ x.at # "recordWithdrawal"
<1>1. CASE Overdue = {}
    BY <1>1, SweptMeans DEF OverdueRead
<1>2. CASE Overdue # {}
    <2>. PICK D : D = Overdue
        OBVIOUS
    <2>1. D \subseteq DOMAIN txs /\ D # {}
        BY <1>2 DEF Overdue
    <2>2. PICK s \in SetToSeqs(D) :
              x = [r EXCEPT !.at = "expire",
                            !.todo = [n \in DOMAIN s |-> [id |-> s[n], left |-> txs[s[n]].remaining]]]
        BY <1>2 DEF OverdueRead
    <2>3. /\ s \in Seq(D) /\ s # <<>>
          /\ \A n \in DOMAIN s : s[n] \in DOMAIN txs /\ s[n] \in Int
        BY <2>1, OrdersAre
    <2>4. PICK f : f = [n \in DOMAIN s |-> txs[s[n]].remaining]
        OBVIOUS
    <2>5. \A n \in DOMAIN s : s[n] \in Int /\ f[n] \in Int
        BY <2>3, <2>4 DEF MoneyInv, WalletInv, IsLedger, RowsMean, RowMeans
    <2>6. PICK todo : todo = [n \in DOMAIN s |-> [id |-> s[n], left |-> f[n]]]
        OBVIOUS
    <2>7. todo \in Seq([id : Int, left : Int]) /\ Len(todo) = Len(s)
        BY <2>3, <2>5, <2>6, TodoIs
    <2>8. todo # <<>>
        BY <2>3, <2>7
    <2>9. todo = [n \in DOMAIN s |-> [id |-> s[n], left |-> txs[s[n]].remaining]]
        BY <2>4, <2>6
    <2>10. x = [call |-> r.call, at |-> "expire", ref |-> r.ref, amount |-> r.amount,
                todo |-> todo]
        BY <2>2, <2>9 DEF CallMeans
    <2>11. r.amount \in Nat
        BY DEF CallMeans
    <2>. QED
        BY <2>7, <2>8, <2>10, <2>11 DEF CallMeans, Lag, Deciding
<1>. QED
    BY <1>1, <1>2

(* Rows whose type, amount and status stay are worth what they were.       *)
LEMMA StillWorth ==
    ASSUME MoneyInv, WalletInv, NEW u, Rewritten(u),
           \A i \in 1 .. Len(txs) : /\ u[i].amount = txs[i].amount /\ u[i].status = txs[i].status
                                    /\ u[i].remaining \in Int
    PROVE  Alike(txs, u) /\ AccountOf(u) = AccountOf(txs)
<1>1. IsLedger(txs) /\ IsLedger(u) /\ Len(u) = Len(txs)
    BY DEF WalletInv, Rewritten
<1>2. Alike(txs, u)
    BY <1>1 DEF Alike, Rewritten
<1>3. \A i \in 1 .. Len(txs) : Effect(u[i]) = Effect(txs[i])
    BY DEF Effect, Rewritten
<1>. QED
    BY <1>1, <1>2, <1>3, SameAccount

LEMMA WorthKept ==
    ASSUME NEW t, IsRow(t), NEW v
    PROVE  /\ [t EXCEPT !.remaining = v].amount = t.amount
           /\ [t EXCEPT !.remaining = v].status = t.status
           /\ [t EXCEPT !.remaining = v].remaining = v
           /\ [t EXCEPT !.expires = v].amount = t.amount
           /\ [t EXCEPT !.expires = v].status = t.status
           /\ [t EXCEPT !.expires = v].remaining = t.remaining
           /\ [t EXCEPT !.status = v].amount = t.amount
           /\ [t EXCEPT !.status = v].status = v
           /\ [t EXCEPT !.status = v].remaining = t.remaining
<1>1. PICK type, amount, remaining, expires, status, ref :
          t = [type |-> type, amount |-> amount, remaining |-> remaining,
               expires |-> expires, status |-> status, ref |-> ref]
    BY DEF IsRow, Row
<1>. QED
    BY <1>1

LEMMA FieldAlike ==
    ASSUME MoneyInv, WalletInv, NEW i, NEW v
    PROVE  /\ v \in Int => LET u == [txs EXCEPT ![i].remaining = v]
                           IN  Alike(txs, u) /\ AccountOf(u) = AccountOf(txs)
           /\ LET u == [txs EXCEPT ![i].expires = v]
              IN  Alike(txs, u) /\ AccountOf(u) = AccountOf(txs)
<1>1. IsLedger(txs) /\ DOMAIN txs = 1 .. Len(txs)
    BY DEF WalletInv, IsLedger
<1>2. \A j \in 1 .. Len(txs) : txs[j].remaining \in Int /\ IsRow(txs[j])
    BY <1>1 DEF MoneyInv, RowsMean, RowMeans, IsLedger
<1>3. ASSUME v \in Int, NEW u, u = [txs EXCEPT ![i].remaining = v]
      PROVE  Alike(txs, u) /\ AccountOf(u) = AccountOf(txs)
    <2>1. Rewritten(u)
        BY <1>1, <1>3, FieldRewritten
    <2>2. \A j \in 1 .. Len(txs) :
              u[j] = txs[j] \/ u[j] = [txs[j] EXCEPT !.remaining = v]
        BY <1>1, <1>3
    <2>3. ASSUME NEW j \in 1 .. Len(txs)
          PROVE  /\ u[j].amount = txs[j].amount /\ u[j].status = txs[j].status
                 /\ u[j].remaining \in Int
        <3>1. PICK old : old = txs[j]
            OBVIOUS
        <3>2. PICK new : new = [old EXCEPT !.remaining = v]
            OBVIOUS
        <3>3. new.amount = old.amount /\ new.status = old.status /\ new.remaining \in Int
            BY <1>2, <1>3, <3>1, <3>2, WorthKept
        <3>. QED
            BY <1>2, <2>2, <3>1, <3>2, <3>3
    <2>. QED
        BY <2>1, <2>3, StillWorth
<1>4. ASSUME NEW u, u = [txs EXCEPT ![i].expires = v]
      PROVE  Alike(txs, u) /\ AccountOf(u) = AccountOf(txs)
    <2>1. Rewritten(u)
        BY <1>1, <1>4, FieldRewritten
    <2>2. \A j \in 1 .. Len(txs) :
              u[j] = txs[j] \/ u[j] = [txs[j] EXCEPT !.expires = v]
        BY <1>1, <1>4
    <2>3. ASSUME NEW j \in 1 .. Len(txs)
          PROVE  /\ u[j].amount = txs[j].amount /\ u[j].status = txs[j].status
                 /\ u[j].remaining \in Int
        <3>1. PICK old : old = txs[j]
            OBVIOUS
        <3>2. PICK new : new = [old EXCEPT !.expires = v]
            OBVIOUS
        <3>3. new.amount = old.amount /\ new.status = old.status /\ new.remaining = old.remaining
            BY <1>2, <3>1, <3>2, WorthKept
        <3>. QED
            BY <1>2, <2>2, <3>1, <3>2, <3>3
    <2>. QED
        BY <2>1, <2>3, StillWorth
<1>. QED
    BY <1>3, <1>4

LEMMA Noted ==
    ASSUME MoneyInv, WalletInv, NEW h \in Slots, NEW x, NEW row,
           run' = [run EXCEPT ![h] = x], day' \in Nat, made' \in Nat, requests' = requests,
           CallMeans(x, txs, requests), x.at # "recordWithdrawal",
           txs' = Append(txs, row),
           IsRow(row), RowMeans(row, requests), row.type # "withdrawal",
           IsWallet(wallet'),
           wallet'.balance >= wallet.balance + Effect(row) + Lag(x) - Lag(run[h])
    PROVE  MoneyInv'
BY AlikeItself, Booked

LEMMA RowFields ==
    ASSUME NEW type, NEW amount, NEW remaining, NEW expires, NEW status, NEW ref,
           NEW row, row = Row(type, amount, remaining, expires, status, ref)
    PROVE  /\ IsRow(row) /\ row.type = type /\ row.amount = amount
           /\ row.remaining = remaining /\ row.status = status /\ row.ref = ref
BY DEF Row, IsRow

(* A row that says what has been paid or given.                            *)
LEMMA EntryMeans ==
    ASSUME NEW type, NEW amount \in Int, NEW remaining \in Int, NEW expires, NEW ref, NEW q,
           type # "withdrawal",
           type \in {"order_payment", "affiliate_commission"} => amount \in Nat,
           NEW row, row = Row(type, amount, remaining, expires, "completed", ref)
    PROVE  /\ IsRow(row) /\ RowMeans(row, q) /\ row.type # "withdrawal"
           /\ Effect(row) = IF type = "order_payment" THEN -amount ELSE amount
<1>1. /\ IsRow(row) /\ row.type = type /\ row.amount = amount
      /\ row.remaining = remaining /\ row.status = "completed"
    BY RowFields
<1>. QED
    BY <1>1 DEF RowMeans, Effect

LEMMA TodoSplits ==
    ASSUME NEW T, NEW s, s \in Seq(T), s # <<>>
    PROVE  Head(s) \in T /\ Tail(s) \in Seq(T)
OBVIOUS

(* The sweeps.                                                             *)
LEMMA SweepingKeepsMoney ==
    ASSUME MoneyInv, WalletInv, NEW h \in Slots, Sweeping(h)
    PROVE  MoneyInv'
<1>1. CASE SweepAll(h)
    <2>1. PICK x : x = Call("sweep", "readOverdue", 0, 0)
        OBVIOUS
    <2>2. CallMeans(x, txs, requests) /\ x.at = "readOverdue" /\ Lag(x) = 0
        BY <2>1, Starts DEF Special, Deciding, Lag
    <2>3. Called(h, "sweep") /\ Enters(h, x) /\ UNCHANGED <<wallet, txs, requests>>
        BY <1>1, <2>1 DEF SweepAll
    <2>. QED
        BY <2>2, <2>3, Entered
<1>2. CASE Summary(h)
    <2>1. PICK r : r = Call("summary", "readOverdue", 0, 0)
        OBVIOUS
    <2>2. CallMeans(r, txs, requests)
        BY <2>1, Starts DEF Special, Deciding
    <2>3. PICK x \in OverdueRead(r) : Enters(h, x)
        BY <1>2, <2>1 DEF Summary
    <2>4. CallMeans(x, txs, requests) /\ x.at # "recordWithdrawal" /\ Lag(x) = 0
        BY <2>2, OverdueReadMeans
    <2>5. Called(h, "summary") /\ UNCHANGED <<wallet, txs, requests>>
        BY <1>2 DEF Summary
    <2>. QED
        BY <2>3, <2>4, <2>5, Entered
<1>3. CASE ListCards(h)
    <2>1. UNCHANGED <<wallet, txs, requests, run, day, made>>
        BY <1>3 DEF ListCards
    <2>. QED
        BY <2>1 DEF MoneyInv, IsWallet
<1>4. CASE ReadOverdue(h)
    <2>1. PICK x \in OverdueRead(run[h]) : Goto(h, x)
        BY <1>4 DEF ReadOverdue
    <2>2. CallMeans(x, txs, requests) /\ x.at # "recordWithdrawal" /\ Lag(x) = 0
        BY AlikeItself, OverdueReadMeans
    <2>3. Lag(run[h]) = 0 /\ UNCHANGED <<wallet, txs, requests>>
        BY <1>4 DEF ReadOverdue, At, Lag
    <2>. QED
        BY <2>1, <2>2, <2>3, Went
<1>5. CASE Expire(h)
    <2>1. PICK credit, rest : credit = Head(run[h].todo) /\ rest = Tail(run[h].todo)
        OBVIOUS
    <2>2. /\ run[h].at = "expire" /\ DebitToZero(credit.left) /\ UNCHANGED requests
          /\ txs' = Append([txs EXCEPT ![credit.id].remaining = 0],
                           Entry("expiry", -credit.left, credit.id))
          /\ Goto(h, IF rest = <<>> THEN Swept(run[h]) ELSE [run[h] EXCEPT !.todo = rest])
        BY <1>5, <2>1 DEF Expire, At, Taken
    <2>3. CallMeans(run[h], txs, requests)
        BY AlikeItself
    <2>4. credit \in [id : Int, left : Int] /\ rest \in Seq([id : Int, left : Int])
        <3>1. run[h].todo \in Seq([id : Int, left : Int]) /\ run[h].todo # <<>>
            BY <2>2, <2>3 DEF CallMeans
        <3>. QED
            BY <2>1, <3>1, TodoSplits
    <2>5. PICK x : x = IF rest = <<>> THEN Swept(run[h]) ELSE [run[h] EXCEPT !.todo = rest]
        OBVIOUS
    <2>6. CallMeans(x, txs, requests) /\ Lag(x) = 0 /\ x.at # "recordWithdrawal"
        <3>1. CASE rest = <<>>
            BY <2>3, <2>5, <3>1, SweptMeans
        <3>2. CASE rest # <<>>
            <4>1. x = [run[h] EXCEPT !.todo = rest]
                BY <2>5, <3>2
            <4>2. /\ x.call = run[h].call /\ x.at = run[h].at /\ x.ref = run[h].ref
                  /\ x.amount = run[h].amount /\ x.todo = rest
                  /\ x = [call |-> x.call, at |-> x.at, ref |-> x.ref, amount |-> x.amount,
                          todo |-> x.todo]
                BY <2>3, <4>1 DEF CallMeans
            <4>. QED
                BY <2>2, <2>3, <2>4, <3>2, <4>2 DEF CallMeans, Lag, Deciding
        <3>. QED
            BY <3>1, <3>2
    <2>7. PICK t : t = [txs EXCEPT ![credit.id].remaining = 0]
        OBVIOUS
    <2>8. Alike(txs, t) /\ AccountOf(t) = AccountOf(txs)
        <3>1. 0 \in Int
            OBVIOUS
        <3>. QED
            BY <2>7, <3>1, FieldAlike
    <2>9. PICK row : row = Entry("expiry", -credit.left, credit.id)
        OBVIOUS
    <2>10. /\ IsRow(row) /\ RowMeans(row, requests) /\ row.type # "withdrawal"
           /\ Effect(row) = -credit.left
        <3>1. PICK n, none, to : n = -credit.left /\ none = 0 /\ to = credit.id
            OBVIOUS
        <3>2. n \in Int /\ none \in Int
            BY <2>4, <3>1
        <3>3. row = Row("expiry", n, none, Never, "completed", to)
            BY <2>9, <3>1 DEF Entry
        <3>4. /\ IsRow(row) /\ RowMeans(row, requests) /\ row.type # "withdrawal"
              /\ Effect(row) = n
            BY <3>2, <3>3, EntryMeans
        <3>. QED
            BY <3>1, <3>4
    <2>11. IsWallet(wallet') /\ wallet'.balance >= wallet.balance - credit.left
        BY <2>2, <2>4, DebitedToZero
    <2>12. Lag(run[h]) = 0 /\ wallet.balance \in Int
        BY <2>2, AlikeItself DEF Lag
    <2>13. wallet'.balance >= wallet.balance + Effect(row) + Lag(x) - Lag(run[h])
        BY <2>4, <2>6, <2>10, <2>11, <2>12 DEF IsWallet
    <2>14. run' = [run EXCEPT ![h] = x] /\ day' \in Nat /\ made' \in Nat
        BY <2>2, <2>5 DEF Goto, MoneyInv
    <2>15. txs' = Append(t, row) /\ requests' = requests
        BY <2>2, <2>7, <2>9
    <2>. QED
        BY <2>6, <2>8, <2>10, <2>11, <2>13, <2>14, <2>15, Booked
<1>. QED
    BY <1>1, <1>2, <1>3, <1>4, <1>5 DEF Sweeping

(* Using up credits changes what is left of them.                          *)
LEMMA FifoAlike ==
    ASSUME MoneyInv, WalletInv, NEW amount \in Int
    PROVE  Alike(txs, AfterFifo(amount)) /\ AccountOf(AfterFifo(amount)) = AccountOf(txs)
<1>1. IsLedger(txs) /\ DOMAIN txs = 1 .. Len(txs)
    BY DEF WalletInv, IsLedger
<1>2. \A j \in 1 .. Len(txs) : txs[j].remaining \in Int /\ IsRow(txs[j])
    BY <1>1 DEF MoneyInv, RowsMean, RowMeans, IsLedger
<1>3. PICK u : u = AfterFifo(amount)
    OBVIOUS
<1>4. u = [i \in DOMAIN txs |-> u[i]]
    BY <1>3 DEF AfterFifo
<1>5. \A i \in DOMAIN txs :
          u[i] = txs[i] \/ u[i] = [txs[i] EXCEPT !.remaining = FifoLeft(i, amount)]
    BY <1>3 DEF AfterFifo
<1>6. ASSUME NEW i \in DOMAIN txs
      PROVE  /\ IsRow(u[i]) /\ u[i].type = txs[i].type /\ u[i].ref = txs[i].ref
             /\ u[i].amount = txs[i].amount /\ u[i].status = txs[i].status
             /\ u[i].remaining \in Int
    <2>1. PICK old, v : old = txs[i] /\ v = FifoLeft(i, amount)
        OBVIOUS
    <2>2. PICK new : new = [old EXCEPT !.remaining = v]
        OBVIOUS
    <2>3. IsRow(old) /\ old.remaining \in Int /\ v \in Int
        BY <1>1, <1>2, <2>1, FifoLeftIsInt
    <2>4. IsRow(new) /\ new.type = old.type /\ new.ref = old.ref
        BY <2>2, <2>3, RowKept
    <2>5. new.amount = old.amount /\ new.status = old.status /\ new.remaining \in Int
        BY <2>2, <2>3, WorthKept
    <2>6. u[i] = old \/ u[i] = new
        BY <1>5, <2>1, <2>2
    <2>. QED
        BY <2>1, <2>3, <2>4, <2>5, <2>6
<1>7. Rewritten(u)
    BY <1>1, <1>4, <1>6, Rewrites
<1>8. \A i \in 1 .. Len(txs) : /\ u[i].amount = txs[i].amount /\ u[i].status = txs[i].status
                               /\ u[i].remaining \in Int
    BY <1>1, <1>6
<1>. QED
    BY <1>3, <1>7, <1>8, StillWorth

(* A call goes on, or ends, with a row written.                            *)
LEMMA GoesNoting ==
    ASSUME MoneyInv, WalletInv, NEW h \in Slots, NEW x, NEW type, NEW amount \in Int,
           NEW remaining \in Int, NEW expires, NEW ref,
           type # "withdrawal",
           type \in {"order_payment", "affiliate_commission"} => amount \in Nat,
           txs' = Append(txs, Row(type, amount, remaining, expires, "completed", ref)),
           run' = [run EXCEPT ![h] = x], day' \in Nat, made' \in Nat, requests' = requests,
           CallMeans(x, txs, requests), x.at # "recordWithdrawal",
           IsWallet(wallet'),
           wallet'.balance >= wallet.balance + Lag(x) - Lag(run[h])
                              + (IF type = "order_payment" THEN -amount ELSE amount)
    PROVE  MoneyInv'
<1>1. PICK row : row = Row(type, amount, remaining, expires, "completed", ref)
    OBVIOUS
<1>2. /\ IsRow(row) /\ RowMeans(row, requests) /\ row.type # "withdrawal"
      /\ Effect(row) = IF type = "order_payment" THEN -amount ELSE amount
    <2>1. /\ IsRow(row) /\ row.type = type /\ row.amount = amount
          /\ row.remaining = remaining /\ row.status = "completed"
        BY <1>1, RowFields
    <2>. QED
        BY <2>1 DEF RowMeans, Effect
<1>3. /\ wallet'.balance \in Int /\ wallet.balance \in Int /\ Lag(run[h]) \in Int
      /\ Effect(row) \in Int /\ Lag(x) \in Int
    BY <1>2, AlikeItself, LagIsInt DEF IsWallet
<1>4. wallet'.balance >= wallet.balance + Effect(row) + Lag(x) - Lag(run[h])
    BY <1>2, <1>3
<1>5. txs' = Append(txs, row)
    BY <1>1
<1>. QED
    BY <1>2, <1>4, <1>5, Noted

LEMMA EndsNoting ==
    ASSUME MoneyInv, WalletInv, NEW h \in Slots, NEW type, NEW amount \in Int,
           NEW remaining \in Int, NEW expires, NEW ref,
           type # "withdrawal",
           type \in {"order_payment", "affiliate_commission"} => amount \in Nat,
           txs' = Append(txs, Row(type, amount, remaining, expires, "completed", ref)),
           Done(h), requests' = requests, IsWallet(wallet'),
           wallet'.balance >= wallet.balance - Lag(run[h])
                              + (IF type = "order_payment" THEN -amount ELSE amount)
    PROVE  MoneyInv'
<1>1. PICK x : x = Idle
    OBVIOUS
<1>2. CallMeans(x, txs, requests) /\ x.at # "recordWithdrawal" /\ Lag(x) = 0
    BY <1>1, IdleMeans
<1>3. wallet'.balance \in Int /\ wallet.balance \in Int /\ Lag(run[h]) \in Int
    BY AlikeItself DEF IsWallet
<1>4. wallet'.balance >= wallet.balance + Lag(x) - Lag(run[h])
                         + (IF type = "order_payment" THEN -amount ELSE amount)
    BY <1>2, <1>3
<1>5. run' = [run EXCEPT ![h] = x] /\ day' \in Nat /\ made' \in Nat
    BY <1>1 DEF Done, Goto, MoneyInv
<1>. QED
    BY <1>2, <1>4, <1>5, GoesNoting

LEMMA AmountsAre ==
    /\ \A n \in Amounts : n \in Nat
    /\ \A d \in Validities : d \in Nat
BY WalletAssumption

(* Payments and refunds.                                                   *)
LEMMA PayingKeepsMoney ==
    ASSUME MoneyInv, WalletInv, NEW h \in Slots, Paying(h)
    PROVE  MoneyInv'
<1>. PICK c : c = run[h]
    OBVIOUS
<1>0. CallMeans(c, txs, requests) /\ c.amount \in Nat /\ wallet.balance \in Int /\ IsWallet(wallet)
    BY AlikeItself DEF CallMeans
<1>1. CASE Pay(h)
    <2>1. PICK n \in Amounts : \E x \in OverdueRead(Call("pay", "readOverdue", made + 1, n)) :
                                   Enters(h, x)
        BY <1>1 DEF Pay
    <2>2. PICK r : r = Call("pay", "readOverdue", made + 1, n)
        OBVIOUS
    <2>3. CallMeans(r, txs, requests)
        BY <2>2, AmountsAre, Starts DEF Special, Deciding
    <2>4. PICK x \in OverdueRead(r) : Enters(h, x)
        BY <2>1, <2>2
    <2>5. CallMeans(x, txs, requests) /\ x.at # "recordWithdrawal" /\ Lag(x) = 0
        BY <2>3, OverdueReadMeans
    <2>6. Called(h, "pay") /\ UNCHANGED <<wallet, txs, requests>>
        BY <1>1 DEF Pay
    <2>. QED
        BY <2>4, <2>5, <2>6, Entered
<1>2. CASE ReadBalanceToPay(h)
    <2>1. PICK n, b, m : n = Min({b, m}) /\ b = wallet.balance /\ m = c.amount
        OBVIOUS
    <2>2. n \in Int
        <3>1. b \in Int /\ m \in Int
            BY <1>0, <2>1
        <3>. QED
            BY <2>1, <3>1, MinIs
    <2>3. c.at = "readBalance" /\ UNCHANGED <<wallet, txs, requests>> /\ Lag(run[h]) = 0
        BY <1>2 DEF ReadBalanceToPay, At, Lag
    <2>4. CASE n <= 0
        <3>1. Done(h)
            BY <1>2, <2>1, <2>4 DEF ReadBalanceToPay
        <3>. QED
            BY <2>3, <3>1, Ended
    <2>5. CASE ~(n <= 0)
        <3>1. PICK x : x = [c EXCEPT !.at = "debitTransaction", !.amount = n]
            OBVIOUS
        <3>2. Goto(h, x)
            BY <1>2, <2>1, <2>5, <3>1 DEF ReadBalanceToPay
        <3>3. /\ x.call = c.call /\ x.at = "debitTransaction" /\ x.ref = c.ref
              /\ x.amount = n /\ x.todo = c.todo
              /\ x = [call |-> x.call, at |-> x.at, ref |-> x.ref, amount |-> x.amount,
                      todo |-> x.todo]
            BY <1>0, <3>1 DEF CallMeans
        <3>4. n \in Nat
            BY <2>2, <2>5
        <3>5. CallMeans(x, txs, requests) /\ Lag(x) = 0 /\ x.at # "recordWithdrawal"
            BY <1>0, <3>3, <3>4 DEF CallMeans, Lag, Deciding
        <3>. QED
            BY <2>3, <3>2, <3>5, Went
    <2>. QED
        BY <2>4, <2>5
<1>3. CASE DebitForOrder(h)
    <2>1. c.at = "debitTransaction" /\ requests' = requests /\ Done(h) /\ Lag(run[h]) = 0
        BY <1>3 DEF DebitForOrder, At, Lag
    <2>2. CASE UNCHANGED <<wallet, txs>>
        BY <2>1, <2>2, Ended
    <2>3. CASE Debit(c.amount) /\ txs' = Append(AfterFifo(c.amount),
                                                Entry("order_payment", c.amount, c.ref))
        <3>1. PICK t, row, none : /\ t = AfterFifo(c.amount) /\ none = 0
                                  /\ row = Entry("order_payment", c.amount, c.ref)
            OBVIOUS
        <3>2. Alike(txs, t) /\ AccountOf(t) = AccountOf(txs)
            BY <1>0, <3>1, FifoAlike
        <3>3. row = Row("order_payment", c.amount, none, Never, "completed", c.ref) /\ none \in Int
            BY <3>1 DEF Entry
        <3>4. /\ IsRow(row) /\ RowMeans(row, requests) /\ row.type # "withdrawal"
              /\ Effect(row) = -c.amount
            <4>1. /\ IsRow(row) /\ row.type = "order_payment" /\ row.amount = c.amount
                  /\ row.remaining = none /\ row.status = "completed"
                BY <3>3, RowFields
            <4>. QED
                BY <1>0, <3>3, <4>1 DEF RowMeans, Effect
        <3>5. IsWallet(wallet') /\ wallet'.balance = wallet.balance - c.amount
            BY <1>0, <2>3, Debited
        <3>6. PICK x : x = Idle
            OBVIOUS
        <3>7. CallMeans(x, txs, requests) /\ x.at # "recordWithdrawal" /\ Lag(x) = 0
            BY <3>6, IdleMeans
        <3>8. wallet'.balance >= wallet.balance + Effect(row) + Lag(x) - Lag(run[h])
            BY <1>0, <2>1, <3>4, <3>5, <3>7
        <3>9. run' = [run EXCEPT ![h] = x] /\ day' \in Nat /\ made' \in Nat
            BY <2>1, <3>6 DEF Done, Goto, MoneyInv
        <3>10. txs' = Append(t, row)
            BY <2>3, <3>1
        <3>. QED
            BY <2>1, <3>2, <3>4, <3>5, <3>7, <3>8, <3>9, <3>10, Booked
    <2>. QED
        BY <1>3, <2>2, <2>3 DEF DebitForOrder
<1>4. CASE PayInFull(h)
    <2>1. PICK n \in Amounts : Enters(h, Call("payFull", "debitFull", InFull + made + 1, n))
        BY <1>4 DEF PayInFull
    <2>2. PICK x : x = Call("payFull", "debitFull", InFull + made + 1, n)
        OBVIOUS
    <2>3. CallMeans(x, txs, requests) /\ x.at # "recordWithdrawal" /\ Lag(x) = 0
        BY <2>2, AmountsAre, Starts DEF Special, Deciding, Lag
    <2>4. Called(h, "payFull") /\ UNCHANGED <<wallet, txs, requests>>
        BY <1>4 DEF PayInFull
    <2>. QED
        BY <2>1, <2>2, <2>3, <2>4, Entered
<1>5. CASE DebitInFull(h)
    <2>1. c.at = "debitFull" /\ UNCHANGED <<txs, requests>> /\ Lag(c) = 0
        BY <1>5 DEF DebitInFull, At, Lag
    <2>2. CASE Done(h) /\ UNCHANGED wallet
        BY <2>1, <2>2, Ended
    <2>3. CASE Debit(c.amount) /\ Becomes(h, "recordFull")
        <3>1. PICK x : x = [c EXCEPT !.at = "recordFull"]
            OBVIOUS
        <3>2. CallMeans(x, txs, requests) /\ GoesOn(x, c, "recordFull")
            BY <1>0, <3>1, Continues DEF Special, Deciding
        <3>3. Lag(x) = -c.amount /\ x.at # "recordWithdrawal"
            BY <3>2 DEF GoesOn, Lag
        <3>4. IsWallet(wallet') /\ wallet'.balance = wallet.balance - c.amount
            BY <1>0, <2>3, Debited
        <3>5. wallet'.balance >= wallet.balance + Lag(x) - Lag(run[h])
            BY <1>0, <2>1, <3>3, <3>4
        <3>6. run' = [run EXCEPT ![h] = x] /\ day' \in Nat /\ made' \in Nat
            BY <2>3, <3>1 DEF Becomes, Goto, MoneyInv
        <3>. QED
            BY <2>1, <3>2, <3>3, <3>4, <3>5, <3>6, Paid
    <2>. QED
        BY <1>5, <2>2, <2>3 DEF DebitInFull
<1>6. CASE RecordPayment(h)
    <2>1. c.at = "recordFull" /\ Done(h) /\ UNCHANGED <<wallet, requests>> /\ Lag(c) = -c.amount
        BY <1>6 DEF RecordPayment, At, Lag
    <2>2. PICK none \in Int : none = 0
        OBVIOUS
    <2>3. txs' = Append(txs, Row("order_payment", c.amount, none, Never, "completed", c.ref))
        BY <1>6, <2>2 DEF RecordPayment, Record, Entry
    <2>4. IsWallet(wallet') /\ wallet'.balance >= wallet.balance - Lag(run[h]) + (-c.amount)
        BY <1>0, <2>1
    <2>. QED
        BY <1>0, <2>1, <2>3, <2>4, EndsNoting
<1>7. CASE RefundPortion(h)
    <2>1. PICK i \in DOMAIN txs :
              /\ NetPaid(txs[i].ref) > 0
              /\ Enters(h, Call("refund", "refundTransaction", txs[i].ref, NetPaid(txs[i].ref)))
        BY <1>7 DEF RefundPortion
    <2>2. PICK n : n = NetPaid(txs[i].ref)
        OBVIOUS
    <2>3. n \in Nat
        BY <2>1, <2>2, NetPaidIsInt
    <2>4. PICK x : x = Call("refund", "refundTransaction", txs[i].ref, n)
        OBVIOUS
    <2>5. CallMeans(x, txs, requests) /\ x.at # "recordWithdrawal" /\ Lag(x) = 0
        BY <2>3, <2>4, Starts DEF Special, Deciding, Lag
    <2>6. Called(h, "refund") /\ UNCHANGED <<wallet, txs, requests>>
        BY <1>7 DEF RefundPortion
    <2>. QED
        BY <2>1, <2>2, <2>4, <2>5, <2>6, Entered
<1>8. CASE RefundForOrder(h)
    <2>1. /\ c.at = "refundTransaction" /\ Done(h) /\ requests' = requests /\ Lag(c) = 0
          /\ Credit(c.amount)
        BY <1>8 DEF RefundForOrder, At, Lag
    <2>2. PICK e : txs' = Append(txs, Row("order_refund", c.amount, c.amount, e, "completed", c.ref))
        BY <1>8 DEF RefundForOrder, Record, DatedCredit
    <2>3. IsWallet(wallet') /\ wallet'.balance = wallet.balance + c.amount
        BY <1>0, <2>1, Credited
    <2>4. wallet'.balance >= wallet.balance - Lag(run[h]) + c.amount
        BY <1>0, <2>1, <2>3
    <2>. QED
        BY <1>0, <2>1, <2>2, <2>3, <2>4, EndsNoting
<1>9. CASE RefundInFull(h)
    <2>1. PICK i \in DOMAIN txs :
              /\ txs[i].type = "order_payment" /\ Credit(txs[i].amount)
              /\ Enters(h, Call("refundFull", "recordRefund", txs[i].ref, txs[i].amount))
        BY <1>9 DEF RefundInFull
    <2>2. PICK n : n = txs[i].amount
        OBVIOUS
    <2>3. n \in Nat
        BY <2>1, <2>2 DEF WalletInv, IsLedger, MoneyInv, RowsMean, RowMeans
    <2>4. PICK x : x = Call("refundFull", "recordRefund", txs[i].ref, n)
        OBVIOUS
    <2>5. CallMeans(x, txs, requests) /\ x.at # "recordWithdrawal" /\ Lag(x) = n
        BY <2>3, <2>4, Starts DEF Special, Deciding, Lag
    <2>6. IsWallet(wallet') /\ wallet'.balance = wallet.balance + n
        BY <2>1, <2>2, <2>3, Credited
    <2>7. Lag(run[h]) = 0 /\ UNCHANGED <<txs, requests>>
        BY <1>9, IdleMeans DEF RefundInFull, Called
    <2>8. wallet'.balance >= wallet.balance + Lag(x) - Lag(run[h])
        BY <1>0, <2>3, <2>5, <2>6, <2>7
    <2>9. run' = [run EXCEPT ![h] = x] /\ day' \in Nat /\ made' \in Nat
        BY <2>1, <2>2, <2>4 DEF Enters, MoneyInv
    <2>. QED
        BY <2>5, <2>6, <2>7, <2>8, <2>9, Paid
<1>10. CASE RecordRefund(h)
    <2>1. c.at = "recordRefund" /\ Done(h) /\ UNCHANGED <<wallet, requests>> /\ Lag(c) = c.amount
        BY <1>10 DEF RecordRefund, At, Lag
    <2>2. PICK none \in Int : none = 0
        OBVIOUS
    <2>3. txs' = Append(txs, Row("order_refund", c.amount, none, Never, "completed", c.ref))
        BY <1>10, <2>2 DEF RecordRefund, Record, Entry
    <2>4. IsWallet(wallet') /\ wallet'.balance >= wallet.balance - Lag(run[h]) + c.amount
        BY <1>0, <2>1
    <2>. QED
        BY <1>0, <2>1, <2>3, <2>4, EndsNoting
<1>. QED
    BY <1>1, <1>2, <1>3, <1>4, <1>5, <1>6, <1>7, <1>8, <1>9, <1>10 DEF Paying

LEMMA Became ==
    ASSUME MoneyInv, WalletInv, NEW h \in Slots, NEW at, Becomes(h, at),
           txs' = txs, requests' = requests, at \notin Special,
           at \in Deciding => run[h].at \in Deciding,
           IsWallet(wallet'),
           \A x : GoesOn(x, run[h], at) => wallet'.balance >= wallet.balance + Lag(x) - Lag(run[h])
    PROVE  MoneyInv'
<1>1. PICK x : x = [run[h] EXCEPT !.at = at]
    OBVIOUS
<1>2. CallMeans(run[h], txs, requests)
    BY AlikeItself
<1>3. CallMeans(x, txs, requests) /\ GoesOn(x, run[h], at)
    BY <1>1, <1>2, Continues
<1>4. run' = [run EXCEPT ![h] = x] /\ day' \in Nat /\ made' \in Nat
    BY <1>1 DEF Becomes, Goto, MoneyInv
<1>5. x.at # "recordWithdrawal"
    BY <1>3 DEF GoesOn, Special
<1>. QED
    BY <1>3, <1>4, <1>5, Paid

(* A status that changes.                                                  *)
Restated(u, st) ==
    /\ u = [i \in DOMAIN txs |-> u[i]]
    /\ \A i \in DOMAIN txs : u[i] = txs[i] \/ u[i] = [txs[i] EXCEPT !.status = st]

LEMMA StatusAlike ==
    ASSUME MoneyInv, WalletInv, NEW st, NEW u, Restated(u, st)
    PROVE  /\ Alike(txs, u)
           /\ \A i \in 1 .. Len(txs) : u[i] = txs[i] \/ u[i].status = st
<1>1. IsLedger(txs) /\ DOMAIN txs = 1 .. Len(txs)
    BY DEF WalletInv, IsLedger
<1>2. \A j \in 1 .. Len(txs) : txs[j].remaining \in Int /\ IsRow(txs[j])
    BY <1>1 DEF MoneyInv, RowsMean, RowMeans, IsLedger
<1>3. Rewritten(u)
    BY <1>1, SomeRewritten DEF Restated
<1>4. ASSUME NEW i \in DOMAIN txs
      PROVE  /\ u[i].amount = txs[i].amount /\ u[i].remaining \in Int
             /\ u[i] = txs[i] \/ u[i].status = st
    <2>1. PICK old : old = txs[i]
        OBVIOUS
    <2>2. PICK new : new = [old EXCEPT !.status = st]
        OBVIOUS
    <2>3. IsRow(old) /\ old.remaining \in Int
        BY <1>1, <1>2, <2>1
    <2>4. new.amount = old.amount /\ new.status = st /\ new.remaining = old.remaining
        BY <2>2, <2>3, WorthKept
    <2>5. u[i] = old \/ u[i] = new
        BY <2>1, <2>2 DEF Restated
    <2>. QED
        BY <2>1, <2>3, <2>4, <2>5
<1>. QED
    BY <1>1, <1>3, <1>4 DEF Alike, Rewritten

(* A request that is new, and one that is decided, ask for what they ask.  *)
Asked(q, p) ==
    /\ IsRequests(p) /\ Len(q) <= Len(p)
    /\ \A i \in 1 .. Len(q) : i \in 1 .. Len(p) /\ p[i].amount = q[i].amount

LEMMA AskedMeans ==
    ASSUME NEW q, NEW p, Asked(q, p), NEW t, RowsMean(t, q)
    PROVE  /\ RowsMean(t, p)
           /\ \A c : CallMeans(c, t, q) => CallMeans(c, t, p)
           /\ \A r : CallsMean(r, t, q) => CallsMean(r, t, p)
<1>1. \A i \in 1 .. Len(t) : RowMeans(t[i], p)
    BY DEF Asked, RowsMean, RowMeans
<1>2. RowsMean(t, p)
    BY <1>1 DEF RowsMean
<1>3. ASSUME NEW c, CallMeans(c, t, q) PROVE CallMeans(c, t, p)
    BY <1>3 DEF Asked, CallMeans
<1>4. ASSUME NEW r, CallsMean(r, t, q) PROVE CallsMean(r, t, p)
    BY <1>3, <1>4 DEF CallsMean
<1>. QED
    BY <1>2, <1>3, <1>4

LEMMA StatusAsked ==
    ASSUME NEW q, IsRequests(q), NEW n, NEW st
    PROVE  Asked(q, [q EXCEPT ![n].status = st])
<1>1. PICK p : p = [q EXCEPT ![n].status = st]
    OBVIOUS
<1>2. DOMAIN q = 1 .. Len(q) /\ Len(q) \in Nat
    BY DEF IsRequests
<1>3. PICK k \in Nat : k = Len(q)
    BY <1>2
<1>4. p = [i \in 1 .. k |-> p[i]] /\ DOMAIN p = 1 .. k
    BY <1>1, <1>2, <1>3
<1>5. Len(p) = k
    <2>1. p \in [1 .. k -> {p[i] : i \in 1 .. k}]
        BY <1>4
    <2>2. p \in Seq({p[i] : i \in 1 .. k})
        BY <2>1
    <2>. QED
        BY <1>4, <2>2
<1>6. \A i \in 1 .. k : p[i] = q[i] \/ p[i] = [q[i] EXCEPT !.status = st]
    BY <1>1, <1>2, <1>3
<1>7. ASSUME NEW i \in 1 .. k
      PROVE  p[i] = [amount |-> p[i].amount, status |-> p[i].status] /\ p[i].amount = q[i].amount
    <2>1. PICK old, new : old = q[i] /\ new = [old EXCEPT !.status = st]
        OBVIOUS
    <2>2. old = [amount |-> old.amount, status |-> old.status]
        BY <1>3, <2>1 DEF IsRequests
    <2>3. new = [amount |-> new.amount, status |-> new.status] /\ new.amount = old.amount
        BY <2>1, <2>2
    <2>4. p[i] = old \/ p[i] = new
        BY <1>6, <2>1
    <2>. QED
        BY <2>1, <2>2, <2>3, <2>4
<1>8. IsRequests(p)
    <2>1. \A i \in 1 .. Len(p) : /\ p[i] = [amount |-> p[i].amount, status |-> p[i].status]
                                 /\ p[i].amount \in Nat
        BY <1>3, <1>5, <1>7 DEF IsRequests
    <2>2. Len(p) \in Nat /\ p = [i \in 1 .. Len(p) |-> p[i]]
        BY <1>4, <1>5
    <2>. QED
        BY <2>1, <2>2 DEF IsRequests
<1>10. Len(q) <= Len(p) /\ 1 .. Len(q) = 1 .. k /\ 1 .. Len(p) = 1 .. k
    BY <1>3, <1>5
<1>11. \A i \in 1 .. Len(q) : i \in 1 .. Len(p) /\ p[i].amount = q[i].amount
    BY <1>7, <1>10
<1>9. Asked(q, p)
    BY <1>8, <1>10, <1>11 DEF Asked
<1>. QED
    BY <1>1, <1>9

LEMMA OneMoreAsked ==
    ASSUME NEW q, IsRequests(q), NEW n \in Nat, NEW st
    PROVE  LET p == Append(q, [amount |-> n, status |-> st])
           IN  Asked(q, p) /\ Len(p) = Len(q) + 1 /\ p[Len(q) + 1].amount = n
<1>1. PICK one : one = [amount |-> n, status |-> st]
    OBVIOUS
<1>2. PICK p : p = Append(q, one)
    OBVIOUS
<1>3. PICK T : T = {q[i] : i \in 1 .. Len(q)} \cup {one}
    OBVIOUS
<1>4. q \in [1 .. Len(q) -> T] /\ Len(q) \in Nat /\ one \in T
    BY <1>3 DEF IsRequests
<1>5. q \in Seq(T)
    BY <1>4
<1>6. /\ p \in Seq(T) /\ Len(p) = Len(q) + 1 /\ p[Len(q) + 1] = one
      /\ \A i \in 1 .. Len(q) : p[i] = q[i]
    BY <1>2, <1>4, <1>5
<1>7. p = [i \in 1 .. Len(p) |-> p[i]] /\ Len(p) \in Nat
    BY <1>6
<1>8. \A i \in 1 .. Len(p) : p[i] = one \/ \E j \in 1 .. Len(q) : p[i] = q[j]
    BY <1>4, <1>6
<1>9. \A i \in 1 .. Len(p) : /\ p[i] = [amount |-> p[i].amount, status |-> p[i].status]
                             /\ p[i].amount \in Nat
    BY <1>1, <1>8 DEF IsRequests
<1>10. Asked(q, p)
    BY <1>4, <1>6, <1>7, <1>9 DEF Asked, IsRequests
<1>. QED
    BY <1>1, <1>2, <1>6, <1>10

LEMMA Decided ==
    ASSUME MoneyInv, WalletInv, NEW h \in Slots, NEW x,
           run' = [run EXCEPT ![h] = x], day' \in Nat, made' \in Nat,
           wallet' = wallet, txs' = txs, Asked(requests, requests'),
           CallMeans(x, txs, requests), x.at # "recordWithdrawal", Lag(x) = Lag(run[h])
    PROVE  MoneyInv'
<1>. PICK r, p : r = run' /\ p = requests'
    OBVIOUS
<1>1. RowsMean(txs, requests) /\ CallsMean(run, txs, requests)
    BY DEF MoneyInv
<1>2. CallsMean(r, txs, requests)
    BY <1>1, CallMoves
<1>3. RowsMean(txs, p) /\ CallsMean(r, txs, p)
    BY <1>1, <1>2, AskedMeans
<1>4. LagsOf(r) = LagsOf(run)
    <2>1. Lag(x) \in Int
        BY LagIsInt
    <2>2. /\ LagsOf(run) \in Int /\ Lag(run[h]) \in Int
          /\ LagsOf(r) = LagsOf(run) - Lag(run[h]) + Lag(x)
        BY <1>1, <2>1, LagsMove
    <2>. QED
        BY <2>1, <2>2
<1>. QED
    BY <1>3, <1>4 DEF MoneyInv, IsWallet, Asked

LEMMA PlanMeans ==
    ASSUME MoneyInv, WalletInv, NEW amount \in Int, NEW plan, plan \in FifoPlans(amount)
    PROVE  plan \in Seq([id : Int, left : Int])
<1>1. PICK D : D = {i \in Active : FifoLeft(i, amount) < txs[i].remaining}
    OBVIOUS
<1>2. D \subseteq DOMAIN txs
    BY <1>1 DEF Active
<1>3. PICK s \in SetToSeqs(D) :
          plan = [n \in DOMAIN s |-> [id |-> s[n], left |-> FifoLeft(s[n], amount)]]
    BY <1>1 DEF FifoPlans
<1>4. s \in Seq(D) /\ \A n \in DOMAIN s : s[n] \in DOMAIN txs /\ s[n] \in Int
    BY <1>2, OrdersAre
<1>5. PICK f : f = [n \in DOMAIN s |-> FifoLeft(s[n], amount)]
    OBVIOUS
<1>6. \A n \in DOMAIN s : s[n] \in Int /\ f[n] \in Int
    BY <1>4, <1>5, FifoLeftIsInt
<1>7. plan = [n \in DOMAIN s |-> [id |-> s[n], left |-> f[n]]]
    BY <1>3, <1>5
<1>. QED
    BY <1>4, <1>6, <1>7, TodoIs

(* The withdrawal asked for is written with a reference of its own, and    *)
(* its row by the only call that has it.                                   *)
LEMMA RequestInserted ==
    ASSUME MoneyInv, WalletInv, NEW h \in Slots, InsertRequest(h)
    PROVE  MoneyInv'
<1>1. PICK c, p, r, k : c = run[h] /\ p = requests' /\ r = run' /\ k = Len(requests) + 1
    OBVIOUS
<1>2. PICK x : x = [c EXCEPT !.at = "recordWithdrawal", !.ref = k]
    OBVIOUS
<1>3. /\ c.at = "insertRequest" /\ p = Append(requests, [amount |-> c.amount, status |-> "pending"])
      /\ r = [run EXCEPT ![h] = x] /\ UNCHANGED <<wallet, txs, day, made>>
    BY <1>1, <1>2 DEF InsertRequest, At, Goto
<1>4. /\ RowsMean(txs, requests) /\ CallsMean(run, txs, requests) /\ IsRequests(requests)
      /\ Len(requests) \in Nat
    BY DEF MoneyInv, IsRequests
<1>6. CallMeans(c, txs, requests)
    BY <1>1, AlikeItself
<1>5. Asked(requests, p) /\ Len(p) = k /\ p[k].amount = c.amount
    BY <1>1, <1>3, <1>4, <1>6, OneMoreAsked DEF CallMeans
<1>7. /\ x.call = c.call /\ x.at = "recordWithdrawal" /\ x.ref = k /\ x.amount = c.amount
      /\ x.todo = c.todo
      /\ x = [call |-> x.call, at |-> x.at, ref |-> x.ref, amount |-> x.amount, todo |-> x.todo]
    BY <1>2, <1>6 DEF CallMeans
<1>8. \A i \in 1 .. Len(txs) : txs[i].type = "withdrawal" => txs[i].ref # k
    BY <1>1, <1>4 DEF RowsMean, RowMeans
<1>9. k \in 1 .. Len(p) /\ k \notin 1 .. Len(requests)
    BY <1>1, <1>4, <1>5
<1>10. CallMeans(x, txs, p)
    BY <1>5, <1>6, <1>7, <1>8, <1>9 DEF CallMeans, Deciding
<1>11. RowsMean(txs, p) /\ CallsMean(run, txs, p)
    BY <1>4, <1>5, AskedMeans
<1>12. r = [g \in Slots |-> r[g]] /\ r[h] = x /\ \A g \in Slots : g # h => r[g] = run[g]
    BY <1>3, <1>4 DEF CallsMean
<1>13. \A g \in Slots : CallMeans(r[g], txs, p)
    BY <1>10, <1>11, <1>12 DEF CallsMean
<1>14. \A g \in Slots : run[g].at = "recordWithdrawal" => run[g].ref # k
    BY <1>4, <1>9 DEF CallsMean, CallMeans
<1>15. \A g, f \in Slots : r[g].at = "recordWithdrawal" /\ r[f].at = "recordWithdrawal"
                           /\ r[g].ref = r[f].ref => g = f
    BY <1>4, <1>7, <1>12, <1>14 DEF CallsMean
<1>16. CallsMean(r, txs, p)
    BY <1>12, <1>13, <1>15 DEF CallsMean
<1>17. LagsOf(r) = LagsOf(run)
    <2>1. Lag(x) = -c.amount /\ Lag(c) = -c.amount /\ -c.amount \in Int
        BY <1>3, <1>6, <1>7 DEF Lag, CallMeans
    <2>2. Lag(x) \in Int
        BY <2>1
    <2>3. /\ LagsOf(run) \in Int /\ Lag(run[h]) \in Int
          /\ LagsOf(r) = LagsOf(run) - Lag(run[h]) + Lag(x)
        BY <1>3, <1>4, <2>2, LagsMove
    <2>. QED
        BY <1>1, <2>1, <2>3
<1>. QED
    BY <1>1, <1>3, <1>5, <1>11, <1>16, <1>17 DEF MoneyInv, IsWallet, Asked

LEMMA WithdrawalRecorded ==
    ASSUME MoneyInv, WalletInv, NEW h \in Slots, RecordWithdrawal(h)
    PROVE  MoneyInv'
<1>1. PICK c, u, r, row : /\ c = run[h] /\ u = txs' /\ r = run'
                          /\ row = Row("withdrawal", -c.amount, 0, Never, "pending", c.ref)
    OBVIOUS
<1>2. PICK x : x = Idle
    OBVIOUS
<1>3. /\ c.at = "recordWithdrawal" /\ u = Append(txs, row)
      /\ r = [run EXCEPT ![h] = x] /\ UNCHANGED <<wallet, requests, day, made>>
    BY <1>1, <1>2 DEF RecordWithdrawal, Record, At, Done, Goto
<1>4. /\ RowsMean(txs, requests) /\ CallsMean(run, txs, requests) /\ IsLedger(txs)
      /\ CallMeans(c, txs, requests)
    BY <1>1, AlikeItself DEF MoneyInv, WalletInv
<1>5. c.amount \in Nat /\ c.ref \in 1 .. Len(requests) /\ requests[c.ref].amount = c.amount
    BY <1>3, <1>4 DEF CallMeans
<1>6. /\ IsRow(row) /\ row.type = "withdrawal" /\ row.amount = -c.amount
      /\ row.remaining = 0 /\ row.status = "pending" /\ row.ref = c.ref
    BY <1>1 DEF Row, IsRow
<1>7. RowMeans(row, requests) /\ Effect(row) = -c.amount /\ Effect(row) \in Int
    BY <1>5, <1>6 DEF RowMeans, Effect
<1>8. OneMore(txs, u, row)
    BY <1>3, <1>4, <1>6, AppendIs
<1>9. /\ Len(txs) \in Nat /\ Len(u) = Len(txs) + 1 /\ u[Len(txs) + 1] = row
      /\ \A i \in 1 .. Len(u) :
            (i \in 1 .. Len(txs) /\ u[i] = txs[i]) \/ (i = Len(txs) + 1 /\ u[i] = row)
      /\ \A i \in 1 .. Len(txs) : i \in 1 .. Len(u) /\ u[i] = txs[i]
    BY <1>8 DEF OneMore, IsLedger
<1>10. \A i \in 1 .. Len(txs) : txs[i].type = "withdrawal" => txs[i].ref # c.ref
    BY <1>3, <1>4 DEF CallMeans
<1>11. \A i \in 1 .. Len(u) : RowMeans(u[i], requests)
    BY <1>4, <1>7, <1>9 DEF RowsMean
<1>12. RowsMean(u, requests)
    <2>1. ASSUME NEW i \in 1 .. Len(u), NEW j \in 1 .. Len(u),
                 u[i].type = "withdrawal", u[j].type = "withdrawal", u[i].ref = u[j].ref
          PROVE  i = j
        BY <1>4, <1>6, <1>9, <1>10, <2>1 DEF RowsMean
    <2>. QED
        BY <1>11, <2>1 DEF RowsMean
<1>13. r = [g \in Slots |-> r[g]] /\ r[h] = x /\ \A g \in Slots : g # h => r[g] = run[g]
    BY <1>3, <1>4 DEF CallsMean
<1>14. \A g \in Slots : g # h /\ run[g].at = "recordWithdrawal" => run[g].ref # c.ref
    BY <1>1, <1>3, <1>4 DEF CallsMean
<1>15. ASSUME NEW g \in Slots PROVE CallMeans(r[g], u, requests)
    <2>1. CASE g = h
        BY <1>2, <1>13, <2>1, IdleMeans
    <2>2. CASE g # h
        <3>1. CallMeans(run[g], txs, requests) /\ r[g] = run[g]
            BY <1>4, <1>13, <2>2 DEF CallsMean
        <3>2. PICK d : d = run[g]
            OBVIOUS
        <3>3. d.at = "recordWithdrawal" => d.ref # c.ref
            BY <1>14, <2>2, <3>2
        <3>4. CallMeans(d, txs, requests)
            BY <3>1, <3>2
        <3>5. d.at = "recordWithdrawal" =>
                  \A i \in 1 .. Len(u) : u[i].type = "withdrawal" => u[i].ref # d.ref
            BY <1>6, <1>9, <3>3, <3>4 DEF CallMeans
        <3>6. d.at = "confirmRow" => /\ d.ref \in 1 .. Len(u)
                                     /\ u[d.ref].type = "affiliate_commission"
                                     /\ u[d.ref].amount = d.amount
            BY <1>9, <3>4 DEF CallMeans
        <3>7. CallMeans(d, u, requests)
            BY <3>4, <3>5, <3>6 DEF CallMeans
        <3>. QED
            BY <3>1, <3>2, <3>7
    <2>. QED
        BY <2>1, <2>2
<1>16. CallsMean(r, u, requests)
    <2>1. x.at # "recordWithdrawal"
        BY <1>2, IdleMeans
    <2>2. \A g, f \in Slots : r[g].at = "recordWithdrawal" /\ r[f].at = "recordWithdrawal"
                              /\ r[g].ref = r[f].ref => g = f
        BY <1>4, <1>13, <2>1 DEF CallsMean
    <2>. QED
        BY <1>13, <1>15, <2>2 DEF CallsMean
<1>17. AccountOf(u) = AccountOf(txs) - c.amount /\ AccountOf(txs) \in Int
    <2>1. IsLedger(u)
        BY <1>8 DEF OneMore
    <2>2. \A i \in 1 .. Len(u) : Effect(u[i]) \in Int
        BY <1>12, <2>1, RowsAreInts
    <2>3. \A i \in 1 .. Len(txs) : u[i] = txs[i]
        BY <1>9
    <2>4. AccountOf(u) = AccountOf(txs) + Effect(u[Len(txs) + 1])
        BY <1>4, <1>9, <2>1, <2>2, <2>3, AccountGrows
    <2>5. AccountOf(txs) \in Int
        BY <1>4, RowsAreInts
    <2>. QED
        BY <1>5, <1>7, <1>9, <2>4, <2>5
<1>18. LagsOf(r) = LagsOf(run) + c.amount /\ LagsOf(run) \in Int
    <2>1. Lag(x) = 0 /\ Lag(c) = -c.amount
        BY <1>2, <1>3, IdleMeans DEF Lag
    <2>2. Lag(x) \in Int
        BY <2>1
    <2>3. /\ LagsOf(run) \in Int /\ Lag(run[h]) \in Int
          /\ LagsOf(r) = LagsOf(run) - Lag(run[h]) + Lag(x)
        BY <1>3, <1>4, <2>2, LagsMove
    <2>. QED
        BY <1>1, <1>5, <2>1, <2>3
<1>19. wallet.balance >= AccountOf(u) + LagsOf(r)
    BY <1>5, <1>17, <1>18 DEF MoneyInv, IsWallet
<1>. QED
    BY <1>1, <1>3, <1>12, <1>16, <1>19 DEF MoneyInv, IsWallet, IsRequests

(* A rejected withdrawal is no longer taken, by its own row alone.         *)
LEMMA RejectedRows ==
    ASSUME MoneyInv, WalletInv, NEW ref, NEW n \in Int, requests[ref].amount = n,
           NEW u, u = RowsOfRequest(ref, "rejected"), n \in Nat
    PROVE  Alike(txs, u) /\ AccountOf(u) <= AccountOf(txs) + n
<1>1. IsLedger(txs) /\ DOMAIN txs = 1 .. Len(txs) /\ RowsMean(txs, requests)
    BY DEF WalletInv, IsLedger, MoneyInv
<1>2. PICK st : st = "rejected"
    OBVIOUS
<1>3. Restated(u, st)
    BY <1>2 DEF RowsOfRequest, Restated
<1>4. /\ Alike(txs, u)
      /\ \A i \in 1 .. Len(txs) : u[i] = txs[i] \/ u[i].status = "rejected"
    BY <1>2, <1>3, StatusAlike
<1>5. \A i \in 1 .. Len(txs) :
          u[i] # txs[i] => /\ txs[i].type = "withdrawal" /\ txs[i].ref = ref
                           /\ txs[i].status = "pending"
    BY <1>1 DEF RowsOfRequest
<1>6. IsLedger(u) /\ Len(u) = Len(txs) /\ RowsMean(u, requests)
    BY <1>1, <1>4, AlikeMeans DEF Alike
<1>7. AccountOf(txs) \in Int /\ AccountOf(u) \in Int
    BY <1>1, <1>6, RowsAreInts
<1>8. CASE \A i \in 1 .. Len(txs) : u[i] = txs[i]
    <2>1. AccountOf(u) = AccountOf(txs)
        BY <1>1, <1>6, <1>8, SameAccount
    <2>. QED
        BY <1>4, <1>7, <2>1
<1>9. ASSUME NEW i \in 1 .. Len(txs), u[i] # txs[i]
      PROVE  AccountOf(u) <= AccountOf(txs) + n
    <2>1. \A j \in 1 .. Len(txs) : j # i => u[j] = txs[j]
        BY <1>1, <1>5, <1>9 DEF RowsMean
    <2>2. \A j \in 1 .. Len(txs) : j # i => Effect(u[j]) = Effect(txs[j])
        BY <2>1
    <2>3. Effect(txs[i]) = -n
        BY <1>1, <1>5, <1>9 DEF RowsMean, RowMeans, Effect
    <2>4. Effect(u[i]) = 0
        BY <1>4, <1>9 DEF Effect
    <2>5. \A j \in 1 .. Len(txs) : Effect(txs[j]) \in Int /\ Effect(u[j]) \in Int
        BY <1>1, <1>6, RowsAreInts
    <2>6. AccountOf(u) = AccountOf(txs) - Effect(txs[i]) + Effect(u[i])
        BY <1>1, <1>6, <2>2, <2>5, AccountChanges
    <2>. QED
        BY <1>7, <2>3, <2>4, <2>6
<1>. QED
    BY <1>4, <1>8, <1>9

(* A withdrawal that is completed was taken before.                        *)
LEMMA CompletedRows ==
    ASSUME MoneyInv, WalletInv, NEW ref, NEW u, u = RowsOfRequest(ref, "completed")
    PROVE  Alike(txs, u) /\ AccountOf(u) = AccountOf(txs)
<1>1. IsLedger(txs) /\ DOMAIN txs = 1 .. Len(txs)
    BY DEF WalletInv, IsLedger
<1>2. PICK st : st = "completed"
    OBVIOUS
<1>3. Restated(u, st)
    BY <1>2 DEF RowsOfRequest, Restated
<1>4. /\ Alike(txs, u)
      /\ \A i \in 1 .. Len(txs) : u[i] = txs[i] \/ u[i].status = "completed"
    BY <1>2, <1>3, StatusAlike
<1>5. \A i \in 1 .. Len(txs) :
          u[i] # txs[i] => txs[i].type = "withdrawal" /\ txs[i].status = "pending"
    BY <1>1 DEF RowsOfRequest
<1>6. \A i \in 1 .. Len(txs) : Effect(u[i]) = Effect(txs[i])
    BY <1>4, <1>5 DEF Alike, Effect
<1>. QED
    BY <1>1, <1>4, <1>6, SameAccount DEF Alike

LEMMA WithdrawingKeepsMoney ==
    ASSUME MoneyInv, WalletInv, NEW h \in Slots, Withdrawing(h)
    PROVE  MoneyInv'
<1>. PICK c : c = run[h]
    OBVIOUS
<1>0. /\ CallMeans(c, txs, requests) /\ c.amount \in Nat /\ wallet.balance \in Int
      /\ IsWallet(wallet) /\ Alike(txs, txs)
    BY AlikeItself DEF CallMeans
<1>1. CASE Withdraw(h)
    <2>1. PICK n \in Amounts : \E x \in OverdueRead(Call("withdraw", "readOverdue", 0, n)) :
                                   Enters(h, x)
        BY <1>1 DEF Withdraw
    <2>2. PICK r : r = Call("withdraw", "readOverdue", 0, n)
        OBVIOUS
    <2>3. CallMeans(r, txs, requests)
        BY <2>2, AmountsAre, Starts DEF Special, Deciding
    <2>4. PICK x \in OverdueRead(r) : Enters(h, x)
        BY <2>1, <2>2
    <2>5. CallMeans(x, txs, requests) /\ x.at # "recordWithdrawal" /\ Lag(x) = 0
        BY <2>3, OverdueReadMeans
    <2>6. Called(h, "withdraw") /\ UNCHANGED <<wallet, txs, requests>>
        BY <1>1 DEF Withdraw
    <2>. QED
        BY <2>4, <2>5, <2>6, Entered
<1>2. CASE ReadBalanceToWithdraw(h)
    <2>1. c.at = "readBalance" /\ UNCHANGED <<wallet, txs, requests>> /\ Lag(run[h]) = 0
        BY <1>2 DEF ReadBalanceToWithdraw, At, Lag
    <2>2. CASE Done(h)
        BY <2>1, <2>2, Ended
    <2>3. CASE Becomes(h, "deduct")
        <3>1. \A x : GoesOn(x, run[h], "deduct") => Lag(x) = Lag(run[h])
            BY <2>1 DEF GoesOn, Lag
        <3>2. "deduct" \notin Special /\ "deduct" \notin Deciding
            BY DEF Special, Deciding
        <3>. QED
            BY <2>1, <2>3, <3>1, <3>2, BecameQuietly
    <2>. QED
        BY <1>2, <2>2, <2>3 DEF ReadBalanceToWithdraw
<1>3. CASE AdjustDebit(h)
    <2>1. PICK n \in Amounts : Enters(h, Call("debit", "deduct", 0, n))
        BY <1>3 DEF AdjustDebit
    <2>2. PICK x : x = Call("debit", "deduct", 0, n)
        OBVIOUS
    <2>3. CallMeans(x, txs, requests) /\ x.at # "recordWithdrawal" /\ Lag(x) = 0
        BY <2>2, AmountsAre, Starts DEF Special, Deciding, Lag
    <2>4. Called(h, "debit") /\ UNCHANGED <<wallet, txs, requests>>
        BY <1>3 DEF AdjustDebit
    <2>. QED
        BY <2>1, <2>2, <2>3, <2>4, Entered
<1>4. CASE Deduct(h)
    <2>1. PICK at : at = IF Customer THEN "readCredits" ELSE AfterFifoQuery(c.call)
        OBVIOUS
    <2>2. at \in {"readCredits", "insertRequest", "recordDebit"}
        BY <2>1 DEF AfterFifoQuery
    <2>3. /\ c.at = "deduct" /\ Debit(c.amount) /\ Becomes(h, at)
          /\ UNCHANGED <<txs, requests>> /\ Lag(c) = 0
        BY <1>4, <2>1 DEF Deduct, At, Lag
    <2>4. IsWallet(wallet') /\ wallet'.balance = wallet.balance - c.amount
        BY <1>0, <2>3, Debited
    <2>5. ASSUME NEW x, GoesOn(x, run[h], at)
          PROVE  wallet'.balance >= wallet.balance + Lag(x) - Lag(run[h])
        <3>1. Lag(x) = -c.amount
            BY <2>2, <2>5 DEF GoesOn, Lag
        <3>. QED
            BY <1>0, <2>3, <2>4, <3>1
    <2>6. at \notin Special /\ at \notin Deciding
        BY <2>2 DEF Special, Deciding
    <2>. QED
        BY <2>3, <2>4, <2>5, <2>6, Became
<1>5. CASE ReadCredits(h)
    <2>1. PICK plan \in FifoPlans(c.amount) :
              IF plan = <<>> THEN Becomes(h, AfterFifoQuery(c.call))
              ELSE Goto(h, [c EXCEPT !.at = "useCredit", !.todo = plan])
        BY <1>5 DEF ReadCredits
    <2>2. c.at = "readCredits" /\ UNCHANGED <<wallet, txs, requests>> /\ Lag(c) = -c.amount
        BY <1>5 DEF ReadCredits, At, Lag
    <2>3. CASE plan = <<>>
        <3>1. PICK at : at = AfterFifoQuery(c.call)
            OBVIOUS
        <3>2. at \in {"insertRequest", "recordDebit"} /\ Becomes(h, at)
            BY <2>1, <2>3, <3>1 DEF AfterFifoQuery
        <3>3. \A x : GoesOn(x, run[h], at) => Lag(x) = Lag(run[h])
            BY <2>2, <3>2 DEF GoesOn, Lag
        <3>4. at \notin Special /\ at \notin Deciding
            BY <3>2 DEF Special, Deciding
        <3>. QED
            BY <2>2, <3>2, <3>3, <3>4, BecameQuietly
    <2>4. CASE plan # <<>>
        <3>1. PICK x : x = [c EXCEPT !.at = "useCredit", !.todo = plan]
            OBVIOUS
        <3>2. Goto(h, x)
            BY <2>1, <2>4, <3>1
        <3>3. /\ x.call = c.call /\ x.at = "useCredit" /\ x.ref = c.ref
              /\ x.amount = c.amount /\ x.todo = plan
              /\ x = [call |-> x.call, at |-> x.at, ref |-> x.ref, amount |-> x.amount,
                      todo |-> x.todo]
            BY <1>0, <3>1 DEF CallMeans
        <3>4. plan \in Seq([id : Int, left : Int])
            <4>1. c.amount \in Int
                BY <1>0
            <4>. QED
                BY <4>1, PlanMeans
        <3>5. CallMeans(x, txs, requests) /\ x.at # "recordWithdrawal" /\ Lag(x) = -c.amount
            BY <1>0, <2>4, <3>3, <3>4 DEF CallMeans, Lag, Deciding
        <3>. QED
            BY <2>2, <3>2, <3>5, Went
    <2>. QED
        BY <2>3, <2>4
<1>6. CASE UseCredit(h)
    <2>1. PICK credit, rest : credit = Head(c.todo) /\ rest = Tail(c.todo)
        OBVIOUS
    <2>2. PICK x : x = [c EXCEPT !.todo = rest,
                                 !.at = IF rest = <<>> THEN AfterFifoQuery(c.call) ELSE @]
        OBVIOUS
    <2>3. /\ c.at = "useCredit" /\ UNCHANGED <<wallet, requests>> /\ Lag(c) = -c.amount
          /\ txs' = [txs EXCEPT ![credit.id].remaining = credit.left]
          /\ Goto(h, x)
        BY <1>6, <2>1, <2>2 DEF UseCredit, At, Lag
    <2>4. credit \in [id : Int, left : Int] /\ rest \in Seq([id : Int, left : Int])
        <3>1. c.todo \in Seq([id : Int, left : Int]) /\ c.todo # <<>>
            BY <1>0, <2>3 DEF CallMeans
        <3>. QED
            BY <2>1, <3>1, TodoSplits
    <2>5. /\ x.call = c.call /\ x.ref = c.ref /\ x.amount = c.amount /\ x.todo = rest
          /\ x.at = IF rest = <<>> THEN AfterFifoQuery(c.call) ELSE c.at
          /\ x = [call |-> x.call, at |-> x.at, ref |-> x.ref, amount |-> x.amount,
                  todo |-> x.todo]
        BY <1>0, <2>2 DEF CallMeans
    <2>6. \/ x.at \in {"insertRequest", "recordDebit"}
          \/ x.at = "useCredit" /\ rest # <<>>
        BY <2>3, <2>5 DEF AfterFifoQuery
    <2>7. CallMeans(x, txs, requests) /\ x.at # "recordWithdrawal" /\ Lag(x) = -c.amount
        BY <1>0, <2>4, <2>5, <2>6 DEF CallMeans, Lag, Deciding
    <2>8. Alike(txs, txs') /\ AccountOf(txs') = AccountOf(txs)
        <3>1. PICK t, v, id : /\ v = credit.left /\ id = credit.id
                              /\ t = [txs EXCEPT ![id].remaining = v]
            OBVIOUS
        <3>2. v \in Int
            BY <2>4, <3>1
        <3>3. Alike(txs, t) /\ AccountOf(t) = AccountOf(txs)
            BY <3>1, <3>2, FieldAlike
        <3>. QED
            BY <2>3, <3>1, <3>3
    <2>9. PICK a \in Int : a = 0
        OBVIOUS
    <2>10. AccountOf(txs') <= AccountOf(txs) + a /\ AccountOf(txs) \in Int
        BY <2>8, <2>9, AlikeItself
    <2>11. run' = [run EXCEPT ![h] = x] /\ day' \in Nat /\ made' \in Nat
        BY <2>3 DEF Goto, MoneyInv
    <2>12. IsWallet(wallet') /\ wallet'.balance >= wallet.balance + a + Lag(x) - Lag(run[h])
        BY <1>0, <2>3, <2>7, <2>9
    <2>. QED
        BY <2>3, <2>7, <2>8, <2>10, <2>11, <2>12, Moved
<1>7. CASE InsertRequest(h) \/ RecordWithdrawal(h)
    BY <1>7, RequestInserted, WithdrawalRecorded
<1>8. CASE RecordDebit(h)
    <2>1. PICK x, n, none, zero : /\ x = [c EXCEPT !.at = "readOverdue"] /\ n = -c.amount
                                  /\ none = 0 /\ zero = 0
        OBVIOUS
    <2>2. /\ c.at = "recordDebit" /\ UNCHANGED <<wallet, requests>> /\ Lag(c) = -c.amount
          /\ txs' = Append(txs, Row("adjustment", n, none, Never, "completed", zero))
          /\ Goto(h, x)
        BY <1>8, <2>1 DEF RecordDebit, Record, Entry, Becomes, At, Lag
    <2>3. CallMeans(x, txs, requests) /\ GoesOn(x, c, "readOverdue")
        BY <1>0, <2>1, Continues DEF Special, Deciding
    <2>4. Lag(x) = 0 /\ x.at # "recordWithdrawal"
        BY <2>3 DEF GoesOn, Lag
    <2>5. n \in Int /\ none \in Int /\ IsWallet(wallet')
        BY <1>0, <2>1, <2>2
    <2>6. wallet'.balance >= wallet.balance + Lag(x) - Lag(run[h]) + n
        BY <1>0, <2>1, <2>2, <2>4
    <2>7. run' = [run EXCEPT ![h] = x] /\ day' \in Nat /\ made' \in Nat
        BY <2>2 DEF Goto, MoneyInv
    <2>. QED
        BY <2>2, <2>3, <2>4, <2>5, <2>6, <2>7, GoesNoting
<1>9. CASE ReadRequest(h)
    <2>1. PICK call \in {"approve", "reject"}, i \in DOMAIN requests :
              /\ Called(h, call) /\ UNCHANGED <<wallet, txs, requests>>
              /\ Enters(h, Call(call, "decide", i, requests[i].amount))
        BY <1>9 DEF ReadRequest
    <2>2. PICK n, x : n = requests[i].amount /\ x = Call(call, "decide", i, n)
        OBVIOUS
    <2>3. i \in 1 .. Len(requests)
        BY DEF MoneyInv, IsRequests
    <2>4. n \in Nat
        BY <2>2, <2>3 DEF MoneyInv, IsRequests
    <2>5. /\ x.call = call /\ x.at = "decide" /\ x.ref = i /\ x.amount = n /\ x.todo = <<>>
          /\ x = [call |-> x.call, at |-> x.at, ref |-> x.ref, amount |-> x.amount,
                  todo |-> x.todo]
        BY <2>2 DEF Call
    <2>6. CallMeans(x, txs, requests)
        <3>1. x.ref \in 1 .. Len(requests) /\ requests[x.ref].amount = x.amount
            BY <2>2, <2>3, <2>5
        <3>2. x.todo \in Seq([id : Int, left : Int])
            BY <2>5
        <3>. QED
            BY <2>4, <2>5, <3>1, <3>2 DEF CallMeans
    <2>7. x.at # "recordWithdrawal" /\ Lag(x) = 0
        BY <2>5 DEF Lag
    <2>. QED
        BY <2>1, <2>2, <2>6, <2>7, Entered
<1>10. CASE Decide(h)
    <2>1. /\ c.at = "decide" /\ UNCHANGED <<wallet, txs>> /\ Lag(c) = 0
        BY <1>10 DEF Decide, At, Lag
    <2>2. PICK st \in {"approved", "rejected"}, at \in {"completeRow", "giveBack"} :
              /\ requests' = [requests EXCEPT ![c.ref].status = st]
              /\ Becomes(h, at)
        BY <1>10 DEF Decide
    <2>3. Asked(requests, requests')
        BY <2>2, StatusAsked DEF MoneyInv
    <2>4. PICK x : x = [c EXCEPT !.at = at]
        OBVIOUS
    <2>5. at \notin Special /\ c.at \in Deciding
        BY <2>1 DEF Special, Deciding
    <2>6. CallMeans(x, txs, requests) /\ GoesOn(x, c, at)
        BY <1>0, <2>4, <2>5, Continues
    <2>7. Lag(x) = 0 /\ x.at # "recordWithdrawal"
        BY <2>6 DEF GoesOn, Lag
    <2>8. run' = [run EXCEPT ![h] = x] /\ day' \in Nat /\ made' \in Nat
        BY <2>2, <2>4 DEF Becomes, Goto, MoneyInv
    <2>. QED
        BY <2>1, <2>3, <2>6, <2>7, <2>8, Decided
<1>11. CASE CompleteRow(h)
    <2>1. /\ c.at = "completeRow" /\ UNCHANGED <<wallet, requests>> /\ Lag(c) = 0
          /\ txs' = RowsOfRequest(c.ref, "completed") /\ Becomes(h, "countWithdrawn")
        BY <1>11 DEF CompleteRow, At, Lag
    <2>2. Alike(txs, txs') /\ AccountOf(txs') = AccountOf(txs)
        BY <2>1, CompletedRows
    <2>3. PICK x, a : x = [c EXCEPT !.at = "countWithdrawn"] /\ a = 0
        OBVIOUS
    <2>4. CallMeans(x, txs, requests) /\ GoesOn(x, c, "countWithdrawn")
        <3>1. c.at \in Deciding /\ "countWithdrawn" \notin Special
            BY <2>1 DEF Special, Deciding
        <3>. QED
            BY <1>0, <2>3, <3>1, Continues
    <2>5. Lag(x) = 0 /\ x.at # "recordWithdrawal"
        BY <2>4 DEF GoesOn, Lag
    <2>6. a \in Int /\ AccountOf(txs') <= AccountOf(txs) + a
        BY <2>2, <2>3, AlikeItself
    <2>7. run' = [run EXCEPT ![h] = x] /\ day' \in Nat /\ made' \in Nat
        BY <2>1, <2>3 DEF Becomes, Goto, MoneyInv
    <2>8. IsWallet(wallet') /\ wallet'.balance >= wallet.balance + a + Lag(x) - Lag(run[h])
        BY <1>0, <2>1, <2>3, <2>5
    <2>. QED
        BY <2>1, <2>2, <2>4, <2>5, <2>6, <2>7, <2>8, Moved
<1>12. CASE CountWithdrawn(h)
    <2>1. /\ c.at = "countWithdrawn" /\ Done(h) /\ UNCHANGED <<txs, requests>> /\ Lag(c) = 0
          /\ wallet' = [wallet EXCEPT !.withdrawn = @ + c.amount]
        BY <1>12 DEF CountWithdrawn, At, Lag
    <2>2. IsWallet(wallet') /\ wallet'.balance = wallet.balance
        BY <1>0, <2>1 DEF IsWallet
    <2>3. PICK x : x = Idle
        OBVIOUS
    <2>4. CallMeans(x, txs, requests) /\ x.at # "recordWithdrawal" /\ Lag(x) = 0
        BY <2>3, IdleMeans
    <2>5. run' = [run EXCEPT ![h] = x] /\ day' \in Nat /\ made' \in Nat
        BY <2>1, <2>3 DEF Done, Goto, MoneyInv
    <2>6. wallet'.balance >= wallet.balance + Lag(x) - Lag(run[h])
        BY <1>0, <2>1, <2>2, <2>4
    <2>. QED
        BY <2>1, <2>2, <2>4, <2>5, <2>6, Paid
<1>13. CASE GiveBack(h)
    <2>1. /\ c.at = "giveBack" /\ Becomes(h, "rejectRow") /\ UNCHANGED <<txs, requests>>
          /\ Lag(c) = 0 /\ Credit(c.amount)
        BY <1>13 DEF GiveBack, At, Lag
    <2>2. IsWallet(wallet') /\ wallet'.balance = wallet.balance + c.amount
        BY <1>0, <2>1, Credited
    <2>3. ASSUME NEW x, GoesOn(x, run[h], "rejectRow")
          PROVE  wallet'.balance >= wallet.balance + Lag(x) - Lag(run[h])
        <3>1. Lag(x) = c.amount
            BY <2>3 DEF GoesOn, Lag
        <3>. QED
            BY <1>0, <2>1, <2>2, <3>1
    <2>4. "rejectRow" \notin Special /\ c.at \in Deciding
        BY <2>1 DEF Special, Deciding
    <2>. QED
        BY <2>1, <2>2, <2>3, <2>4, Became
<1>14. CASE RejectRow(h)
    <2>1. /\ c.at = "rejectRow" /\ Done(h) /\ UNCHANGED <<wallet, requests>>
          /\ Lag(c) = c.amount /\ txs' = RowsOfRequest(c.ref, "rejected")
        BY <1>14 DEF RejectRow, At, Lag
    <2>2. PICK n : n = c.amount
        OBVIOUS
    <2>3. n \in Int /\ n \in Nat /\ requests[c.ref].amount = n
        BY <1>0, <2>1, <2>2 DEF CallMeans, Deciding
    <2>4. Alike(txs, txs') /\ AccountOf(txs') <= AccountOf(txs) + n
        BY <2>1, <2>3, RejectedRows
    <2>5. PICK x : x = Idle
        OBVIOUS
    <2>6. CallMeans(x, txs, requests) /\ x.at # "recordWithdrawal" /\ Lag(x) = 0
        BY <2>5, IdleMeans
    <2>7. run' = [run EXCEPT ![h] = x] /\ day' \in Nat /\ made' \in Nat
        BY <2>1, <2>5 DEF Done, Goto, MoneyInv
    <2>8. IsWallet(wallet') /\ wallet'.balance >= wallet.balance + n + Lag(x) - Lag(run[h])
        BY <1>0, <2>1, <2>2, <2>6
    <2>. QED
        BY <2>1, <2>3, <2>4, <2>6, <2>7, <2>8, Moved
<1>. QED
    BY <1>1, <1>2, <1>3, <1>4, <1>5, <1>6, <1>7, <1>8, <1>9, <1>10, <1>11, <1>12, <1>13,
       <1>14 DEF Withdrawing

(* Credits and cards.                                                      *)
LEMMA StartsQuietly ==
    ASSUME MoneyInv, WalletInv, NEW h \in Slots, NEW kind, Called(h, kind),
           NEW call, NEW at, NEW ref, NEW amount \in Nat,
           Enters(h, Call(call, at, ref, amount)),
           wallet' = wallet, txs' = txs, requests' = requests,
           at \in {"readOverdue", "readCard", "writeCard", "claim", "listPending",
                   "recordCommission"}
    PROVE  MoneyInv'
<1>1. PICK x : x = Call(call, at, ref, amount)
    OBVIOUS
<1>2. at \notin Special /\ at \notin Deciding
    BY DEF Special, Deciding
<1>3. CallMeans(x, txs, requests) /\ x.at = at
    BY <1>1, <1>2, Starts
<1>4. Lag(x) = 0 /\ x.at # "recordWithdrawal"
    BY <1>3 DEF Lag
<1>. QED
    BY <1>1, <1>3, <1>4, Entered

LEMMA EntersIdle ==
    ASSUME MoneyInv, WalletInv, NEW h \in Slots, NEW kind, Called(h, kind), Enters(h, Idle),
           wallet' = wallet, txs' = txs, requests' = requests
    PROVE  MoneyInv'
BY Entered, IdleMeans

(* A rewrite that costs nothing, while a call that owes nothing goes on.   *)
LEMMA Rewrote ==
    ASSUME MoneyInv, WalletInv, NEW h \in Slots, NEW kind, Called(h, kind), Enters(h, Idle),
           wallet' = wallet, requests' = requests,
           Alike(txs, txs'), AccountOf(txs') = AccountOf(txs)
    PROVE  MoneyInv'
<1>1. PICK x, a : x = Idle /\ a = 0
    OBVIOUS
<1>2. CallMeans(x, txs, requests) /\ x.at # "recordWithdrawal" /\ Lag(x) = 0
    BY <1>1, IdleMeans
<1>3. Lag(run[h]) = 0
    BY IdleMeans DEF Called
<1>4. /\ a \in Int /\ AccountOf(txs') <= AccountOf(txs) + a /\ IsWallet(wallet')
      /\ wallet'.balance >= wallet.balance + a + Lag(x) - Lag(run[h])
    BY <1>1, <1>2, <1>3, AlikeItself
<1>5. run' = [run EXCEPT ![h] = x] /\ day' \in Nat /\ made' \in Nat
    BY <1>1 DEF Enters, MoneyInv
<1>. QED
    BY <1>2, <1>4, <1>5, Moved

(* Money is given together with the row that says so.                      *)
LEMMA Given ==
    ASSUME MoneyInv, WalletInv, NEW h \in Slots, NEW x, NEW n \in Nat, NEW type, NEW d, NEW ref,
           type \notin {"withdrawal", "order_payment", "affiliate_commission"},
           Earn(n), Record(DatedCredit(type, n, d, ref)),
           run' = [run EXCEPT ![h] = x], day' \in Nat, made' \in Nat, requests' = requests,
           CallMeans(x, txs, requests), x.at # "recordWithdrawal",
           Lag(x) = 0, Lag(run[h]) = 0
    PROVE  MoneyInv'
<1>1. PICK e : txs' = Append(txs, Row(type, n, n, e, "completed", ref))
    BY DEF Record, DatedCredit
<1>2. IsWallet(wallet') /\ wallet'.balance = wallet.balance + n
    BY Credited
<1>3. wallet.balance \in Int
    BY AlikeItself
<1>4. wallet'.balance >= wallet.balance + Lag(x) - Lag(run[h])
                         + (IF type = "order_payment" THEN -n ELSE n)
    BY <1>2, <1>3
<1>5. n \in Int
    OBVIOUS
<1>. QED
    BY <1>1, <1>2, <1>4, <1>5, GoesNoting

LEMMA CreditingKeepsMoney ==
    ASSUME MoneyInv, WalletInv, NEW h \in Slots, Crediting(h)
    PROVE  MoneyInv'
<1>. PICK c : c = run[h]
    OBVIOUS
<1>0. /\ CallMeans(c, txs, requests) /\ c.amount \in Nat /\ wallet.balance \in Int
      /\ IsWallet(wallet)
    BY AlikeItself DEF CallMeans
<1>14. PICK y : y = [c EXCEPT !.at = "readOverdue"]
    OBVIOUS
<1>15. CallMeans(y, txs, requests) /\ y.at # "recordWithdrawal" /\ Lag(y) = 0
    <2>1. "readOverdue" \notin Special /\ "readOverdue" \notin Deciding
        BY DEF Special, Deciding
    <2>2. CallMeans(y, txs, requests) /\ GoesOn(y, c, "readOverdue")
        BY <1>0, <1>14, <2>1, Continues
    <2>. QED
        BY <2>2 DEF GoesOn, Lag
<1>16. ASSUME Becomes(h, "readOverdue")
       PROVE  run' = [run EXCEPT ![h] = y] /\ day' \in Nat /\ made' \in Nat
    BY <1>14, <1>16 DEF Becomes, Goto, MoneyInv
<1>1. CASE AdjustCredit(h)
    <2>1. PICK n \in Amounts : Earn(n) /\ Enters(h, Call("credit", "recordCredit", 0, n))
        BY <1>1 DEF AdjustCredit
    <2>2. PICK x : x = Call("credit", "recordCredit", 0, n)
        OBVIOUS
    <2>3. n \in Nat
        BY AmountsAre
    <2>4. CallMeans(x, txs, requests) /\ x.at # "recordWithdrawal" /\ Lag(x) = n
        BY <2>2, <2>3, Starts DEF Special, Deciding, Lag
    <2>5. IsWallet(wallet') /\ wallet'.balance = wallet.balance + n
        BY <2>1, <2>3, Credited
    <2>6. Lag(run[h]) = 0 /\ UNCHANGED <<txs, requests>>
        BY <1>1, IdleMeans DEF AdjustCredit, Called
    <2>7. wallet'.balance >= wallet.balance + Lag(x) - Lag(run[h])
        BY <1>0, <2>3, <2>4, <2>5, <2>6
    <2>8. run' = [run EXCEPT ![h] = x] /\ day' \in Nat /\ made' \in Nat
        BY <2>1, <2>2 DEF Enters, MoneyInv
    <2>. QED
        BY <2>4, <2>5, <2>6, <2>7, <2>8, Paid
<1>2. CASE RecordCredit(h)
    <2>1. /\ c.at = "recordCredit" /\ Becomes(h, "readOverdue") /\ UNCHANGED <<wallet, requests>>
          /\ Lag(c) = c.amount
        BY <1>2 DEF RecordCredit, At, Lag
    <2>2. PICK zero, n, type : zero = 0 /\ n = c.amount /\ type = "adjustment"
        OBVIOUS
    <2>3. PICK left \in {n, zero} : \E e :
              txs' = Append(txs, Row(type, n, left, e, "completed", zero))
        BY <1>2, <2>2 DEF RecordCredit, Record, DatedCredit, Entry
    <2>4. PICK e : txs' = Append(txs, Row(type, n, left, e, "completed", zero))
        BY <2>3
    <2>5. n \in Int /\ left \in Int
        BY <1>0, <2>2, <2>3
    <2>7. type \notin {"withdrawal", "order_payment", "affiliate_commission"}
        BY <2>2
    <2>8. run' = [run EXCEPT ![h] = y] /\ day' \in Nat /\ made' \in Nat
        BY <1>16, <2>1
    <2>6. IsWallet(wallet') /\ wallet'.balance >= wallet.balance + Lag(y) - Lag(run[h])
              + (IF type = "order_payment" THEN -n ELSE n)
        BY <1>0, <1>15, <2>1, <2>2
    <2>. QED
        BY <1>15, <2>1, <2>4, <2>5, <2>6, <2>7, <2>8, GoesNoting
<1>3. CASE RestoreCredit(h)
    <2>1. PICK i \in DOMAIN txs, d \in Validities :
              /\ Earn(Size(txs[i].amount))
              /\ Record(DatedCredit("restoration", Size(txs[i].amount), d, i))
        BY <1>3 DEF RestoreCredit
    <2>2. PICK n, x : n = Size(txs[i].amount) /\ x = Call("restoreCredit", "readOverdue", 0, 0)
        OBVIOUS
    <2>3. n \in Nat
        <3>1. txs[i].amount \in Int
            BY DEF WalletInv, IsLedger, MoneyInv, RowsMean, RowMeans
        <3>. QED
            BY <2>2, <3>1 DEF Size
    <2>4. CallMeans(x, txs, requests) /\ x.at # "recordWithdrawal" /\ Lag(x) = 0
        BY <2>2, Starts DEF Special, Deciding, Lag
    <2>5. Lag(run[h]) = 0 /\ requests' = requests /\ Enters(h, x)
        BY <1>3, <2>2, IdleMeans DEF RestoreCredit, Called
    <2>6. run' = [run EXCEPT ![h] = x] /\ day' \in Nat /\ made' \in Nat
        BY <2>5 DEF Enters, MoneyInv
    <2>. QED
        BY <2>1, <2>2, <2>3, <2>4, <2>5, <2>6, Given
<1>4. CASE AdjustCreditExpiry(h)
    <2>1. PICK i, v : txs' = [txs EXCEPT ![i].expires = v]
        BY <1>4 DEF AdjustCreditExpiry
    <2>2. /\ Called(h, "adjustExpiry") /\ Enters(h, Idle) /\ UNCHANGED <<wallet, requests>>
        BY <1>4 DEF AdjustCreditExpiry
    <2>3. Alike(txs, txs') /\ AccountOf(txs') = AccountOf(txs)
        BY <2>1, FieldAlike
    <2>. QED
        BY <2>2, <2>3, Rewrote
<1>5. CASE IssueCard(h) \/ RestoreCard(h)
    BY <1>5, EntersIdle DEF IssueCard, RestoreCard
<1>6. CASE Scratch(h)
    <2>1. /\ Called(h, "scratch") /\ Enters(h, Call("scratch", "readCard", 0, 0))
          /\ UNCHANGED <<wallet, txs, requests>>
        BY <1>6 DEF Scratch
    <2>. QED
        BY <2>1, StartsQuietly
<1>7. CASE ReadCard(h)
    <2>1. c.at = "readCard" /\ UNCHANGED <<wallet, txs, requests>> /\ Lag(run[h]) = 0
        BY <1>7 DEF ReadCard, At, Lag
    <2>2. CASE Done(h)
        BY <2>1, <2>2, Ended
    <2>3. CASE Becomes(h, "scratchTransaction")
        <3>1. \A x : GoesOn(x, run[h], "scratchTransaction") => Lag(x) = Lag(run[h])
            BY <2>1 DEF GoesOn, Lag
        <3>2. "scratchTransaction" \notin Special /\ "scratchTransaction" \notin Deciding
            BY DEF Special, Deciding
        <3>. QED
            BY <2>1, <2>3, <3>1, <3>2, BecameQuietly
    <2>. QED
        BY <1>7, <2>2, <2>3 DEF ReadCard
<1>8. CASE ScratchCard(h)
    <2>1. /\ c.at = "scratchTransaction" /\ requests' = requests /\ Lag(run[h]) = 0
          /\ Becomes(h, "readOverdue")
        BY <1>8 DEF ScratchCard, At, Lag
    <2>2. CASE UNCHANGED <<wallet, txs, card>>
        <3>1. \A x : GoesOn(x, run[h], "readOverdue") => Lag(x) = Lag(run[h])
            BY <2>1 DEF GoesOn, Lag
        <3>2. "readOverdue" \notin Special /\ "readOverdue" \notin Deciding
            BY DEF Special, Deciding
        <3>. QED
            BY <2>1, <2>2, <3>1, <3>2, BecameQuietly
    <2>3. ASSUME NEW n \in Amounts, NEW d \in Validities,
                 Record(DatedCredit("scratch_card", n, d, 0)), Earn(n)
          PROVE  MoneyInv'
        <3>1. n \in Nat
            BY AmountsAre
        <3>. QED
            BY <1>15, <1>16, <2>1, <2>3, <3>1, Given
    <2>. QED
        BY <1>8, <2>2, <2>3 DEF ScratchCard
<1>9. CASE ReadCardToAdjust(h)
    <2>1. PICK d \in Validities \cup {0} :
              Enters(h, Call("adjustCard", "writeCard", CardCodes[card.status], day + d))
        BY <1>9 DEF ReadCardToAdjust
    <2>2. PICK n, ref : n = day + d /\ ref = CardCodes[card.status]
        OBVIOUS
    <2>3. n \in Nat
        BY <2>2, AmountsAre DEF MoneyInv
    <2>4. Called(h, "adjustCard") /\ UNCHANGED <<wallet, txs, requests>>
        BY <1>9 DEF ReadCardToAdjust
    <2>5. Enters(h, Call("adjustCard", "writeCard", ref, n))
        BY <2>1, <2>2
    <2>. QED
        BY <2>3, <2>4, <2>5, StartsQuietly
<1>10. CASE AdjustCardExpiry(h)
    <2>1. Done(h) /\ UNCHANGED <<wallet, txs, requests>> /\ Lag(run[h]) = 0
        BY <1>10 DEF AdjustCardExpiry, At, Lag
    <2>. QED
        BY <2>1, Ended
<1>11. CASE ReadFriend(h)
    <2>1. PICK f \in Friends \ rewarded, n \in Amounts :
              Enters(h, Call("reward", "claim", f, n))
        BY <1>11 DEF ReadFriend
    <2>2. n \in Nat
        BY AmountsAre
    <2>3. Called(h, "reward") /\ UNCHANGED <<wallet, txs, requests>>
        BY <1>11 DEF ReadFriend
    <2>. QED
        BY <2>1, <2>2, <2>3, StartsQuietly
<1>12. CASE ClaimReward(h)
    <2>1. /\ c.at = "claim" /\ requests' = requests /\ Lag(run[h]) = 0
        BY <1>12 DEF ClaimReward, At, Lag
    <2>2. CASE Done(h) /\ UNCHANGED <<wallet, txs, rewarded>>
        BY <2>1, <2>2, Ended
    <2>3. ASSUME NEW d \in Validities, Becomes(h, "readOverdue"), Earn(c.amount),
                 Record(DatedCredit("referral_bonus", c.amount, d, c.ref))
          PROVE  MoneyInv'
        BY <1>0, <1>15, <1>16, <2>1, <2>3, Given
    <2>. QED
        BY <1>12, <2>2, <2>3 DEF ClaimReward
<1>. QED
    BY <1>1, <1>2, <1>3, <1>4, <1>5, <1>6, <1>7, <1>8, <1>9, <1>10, <1>11, <1>12 DEF Crediting

(* A commission that is promised or cancelled is not given yet.            *)
LEMMA TurnedRows ==
    ASSUME MoneyInv, WalletInv, NEW from, NEW to, Turn(from, to),
           {from, to} \subseteq {"pending", "cancelled"}
    PROVE  Alike(txs, txs') /\ AccountOf(txs') = AccountOf(txs)
<1>1. IsLedger(txs) /\ DOMAIN txs = 1 .. Len(txs)
    BY DEF WalletInv, IsLedger
<1>2. PICK u : u = txs'
    OBVIOUS
<1>3. Restated(u, to)
    BY <1>2 DEF Turn, Restated
<1>4. /\ Alike(txs, u)
      /\ \A i \in 1 .. Len(txs) : u[i] = txs[i] \/ u[i].status = to
    BY <1>3, StatusAlike
<1>5. \A i \in 1 .. Len(txs) :
          u[i] # txs[i] => txs[i].type = "affiliate_commission" /\ txs[i].status = from
    BY <1>1, <1>2 DEF Turn, Commissions
<1>6. \A i \in 1 .. Len(txs) : Effect(u[i]) = Effect(txs[i])
    BY <1>4, <1>5 DEF Alike, Effect
<1>7. AccountOf(u) = AccountOf(txs)
    BY <1>1, <1>4, <1>6, SameAccount DEF Alike
<1>. QED
    BY <1>2, <1>4, <1>7

(* A commission made a credit adds at most what it is.                     *)
Confirmed(k, n, e) ==
    [txs EXCEPT ![k] = [txs[k] EXCEPT !.status = "completed", !.remaining = n, !.expires = e]]

LEMMA ConfirmedRow ==
    ASSUME MoneyInv, WalletInv, NEW k, k \in 1 .. Len(txs), NEW n \in Nat, NEW e,
           txs[k].type = "affiliate_commission", txs[k].amount = n
    PROVE  /\ Alike(txs, Confirmed(k, n, e))
           /\ AccountOf(Confirmed(k, n, e)) <= AccountOf(txs) + n
<1>16. PICK u : u = Confirmed(k, n, e)
    OBVIOUS
<1>1. IsLedger(txs) /\ DOMAIN txs = 1 .. Len(txs) /\ RowsMean(txs, requests)
    BY DEF WalletInv, IsLedger, MoneyInv
<1>2. PICK old : old = txs[k]
    OBVIOUS
<1>3. PICK new : new = [old EXCEPT !.status = "completed", !.remaining = n, !.expires = e]
    OBVIOUS
<1>4. IsRow(old)
    BY <1>1, <1>2 DEF IsLedger
<1>5. /\ IsRow(new) /\ new.type = old.type /\ new.ref = old.ref /\ new.amount = old.amount
      /\ new.status = "completed" /\ new.remaining = n
    <2>1. PICK type, amount, remaining, expires, status, ref :
              old = [type |-> type, amount |-> amount, remaining |-> remaining,
                     expires |-> expires, status |-> status, ref |-> ref]
        BY <1>4 DEF IsRow, Row
    <2>2. /\ new.type = type /\ new.amount = amount /\ new.remaining = n
          /\ new.expires = e /\ new.status = "completed" /\ new.ref = ref
        BY <1>3, <2>1
    <2>3. new = [type |-> new.type, amount |-> new.amount, remaining |-> new.remaining,
                 expires |-> new.expires, status |-> new.status, ref |-> new.ref]
        BY <1>3, <2>1
    <2>4. IsRow(new)
        BY <2>3 DEF IsRow, Row
    <2>. QED
        BY <2>1, <2>2, <2>4
<1>6. u = [txs EXCEPT ![k] = new]
    BY <1>2, <1>3, <1>16 DEF Confirmed
<1>7. Rewritten(u)
    <2>1. k \in DOMAIN txs => IsRow(new) /\ new.type = txs[k].type /\ new.ref = txs[k].ref
        BY <1>2, <1>5
    <2>2. Rewritten([txs EXCEPT ![k] = new])
        BY <1>1, <2>1, OneRewritten
    <2>. QED
        BY <1>6, <2>2
<1>8. /\ IsLedger(u) /\ Len(u) = Len(txs) /\ u[k] = new
      /\ \A i \in 1 .. Len(txs) : i # k => u[i] = txs[i]
    BY <1>1, <1>6, <1>7 DEF Rewritten
<1>9. Alike(txs, u)
    <2>1. ASSUME NEW i \in 1 .. Len(txs)
          PROVE  /\ u[i].type = txs[i].type /\ u[i].ref = txs[i].ref
                 /\ u[i].amount = txs[i].amount /\ u[i].remaining \in Int
        BY <1>1, <1>2, <1>5, <1>8 DEF RowsMean, RowMeans
    <2>. QED
        BY <1>1, <1>8, <2>1 DEF Alike
<1>10. Effect(new) = n /\ Effect(old) \in {0, n}
    BY <1>2, <1>5 DEF Effect
<1>11. RowsMean(u, requests)
    BY <1>1, <1>9, AlikeMeans
<1>12. \A i \in 1 .. Len(txs) : Effect(txs[i]) \in Int /\ Effect(u[i]) \in Int
    BY <1>1, <1>8, <1>11, RowsAreInts
<1>13. \A i \in 1 .. Len(txs) : i # k => Effect(u[i]) = Effect(txs[i])
    BY <1>8
<1>14. AccountOf(u) = AccountOf(txs) - Effect(txs[k]) + Effect(u[k])
    BY <1>1, <1>8, <1>12, <1>13, AccountChanges
<1>15. AccountOf(txs) \in Int
    BY <1>1, RowsAreInts
<1>. QED
    BY <1>2, <1>8, <1>9, <1>10, <1>14, <1>15, <1>16

LEMMA CommissionKeepsMoney ==
    ASSUME MoneyInv, WalletInv, NEW h \in Slots, Commission(h)
    PROVE  MoneyInv'
<1>. PICK c : c = run[h]
    OBVIOUS
<1>0. /\ CallMeans(c, txs, requests) /\ c.amount \in Nat /\ wallet.balance \in Int
      /\ IsWallet(wallet)
    BY AlikeItself DEF CallMeans
<1>1. CASE RecordPendingCommission(h)
    <2>1. PICK n \in Amounts :
              Record(Row("affiliate_commission", n, 0, Never, "pending", 0))
        BY <1>1 DEF RecordPendingCommission
    <2>2. PICK row, x : /\ row = Row("affiliate_commission", n, 0, Never, "pending", 0)
                        /\ x = Idle
        OBVIOUS
    <2>3. n \in Nat
        BY AmountsAre
    <2>4. /\ IsRow(row) /\ row.type = "affiliate_commission" /\ row.amount = n
          /\ row.remaining = 0 /\ row.status = "pending"
        BY <2>2, RowFields
    <2>5. RowMeans(row, requests) /\ row.type # "withdrawal" /\ Effect(row) = 0
        BY <2>3, <2>4 DEF RowMeans, Effect
    <2>6. CallMeans(x, txs, requests) /\ x.at # "recordWithdrawal" /\ Lag(x) = 0
        BY <2>2, IdleMeans
    <2>7. Lag(run[h]) = 0 /\ UNCHANGED <<wallet, requests>>
        BY <1>1, IdleMeans DEF RecordPendingCommission, Called
    <2>8. IsWallet(wallet') /\ wallet'.balance >= wallet.balance + Effect(row) + Lag(x) - Lag(run[h])
        BY <1>0, <2>5, <2>6, <2>7
    <2>9. run' = [run EXCEPT ![h] = x] /\ day' \in Nat /\ made' \in Nat
        BY <1>1, <2>2 DEF RecordPendingCommission, Enters, MoneyInv
    <2>10. txs' = Append(txs, row)
        BY <2>1, <2>2 DEF Record
    <2>. QED
        BY <2>4, <2>5, <2>6, <2>7, <2>8, <2>9, <2>10, Noted
<1>2. CASE CancelPendingCommission(h) \/ RestorePendingCommission(h)
    <2>1. PICK kind : /\ Called(h, kind) /\ Enters(h, Idle) /\ UNCHANGED <<wallet, requests>>
        BY <1>2 DEF CancelPendingCommission, RestorePendingCommission
    <2>2. PICK from, to : Turn(from, to) /\ {from, to} \subseteq {"pending", "cancelled"}
        BY <1>2 DEF CancelPendingCommission, RestorePendingCommission
    <2>3. Alike(txs, txs') /\ AccountOf(txs') = AccountOf(txs)
        BY <2>2, TurnedRows
    <2>. QED
        BY <2>1, <2>3, Rewrote
<1>3. CASE Confirm(h)
    <2>1. Called(h, "confirm") /\ UNCHANGED <<wallet, txs, requests>>
        BY <1>3 DEF Confirm
    <2>2. CASE Enters(h, Call("confirm", "listPending", 0, 0))
        BY <2>1, <2>2, StartsQuietly
    <2>3. ASSUME NEW n \in Amounts, Enters(h, Call("confirm", "recordCommission", 0, n))
          PROVE  MoneyInv'
        <3>1. n \in Nat
            BY AmountsAre
        <3>. QED
            BY <2>1, <2>3, <3>1, StartsQuietly
    <2>. QED
        BY <1>3, <2>2, <2>3 DEF Confirm
<1>4. CASE ListPending(h)
    <2>1. c.at = "listPending" /\ UNCHANGED <<wallet, txs, requests>> /\ Lag(run[h]) = 0
        BY <1>4 DEF ListPending, At, Lag
    <2>2. CASE Done(h)
        BY <2>1, <2>2, Ended
    <2>3. ASSUME NEW i \in Commissions("pending"),
                 Goto(h, [c EXCEPT !.at = "confirmRow", !.ref = i, !.amount = txs[i].amount])
          PROVE  MoneyInv'
        <3>1. PICK n, x : /\ n = txs[i].amount
                          /\ x = [c EXCEPT !.at = "confirmRow", !.ref = i, !.amount = n]
            OBVIOUS
        <3>2. i \in 1 .. Len(txs) /\ txs[i].type = "affiliate_commission" /\ n \in Nat
            BY <3>1 DEF Commissions, WalletInv, IsLedger, MoneyInv, RowsMean, RowMeans
        <3>3. /\ x.call = c.call /\ x.at = "confirmRow" /\ x.ref = i
              /\ x.amount = n /\ x.todo = c.todo
              /\ x = [call |-> x.call, at |-> x.at, ref |-> x.ref, amount |-> x.amount,
                      todo |-> x.todo]
            BY <1>0, <3>1 DEF CallMeans
        <3>4. CallMeans(x, txs, requests)
            BY <1>0, <3>1, <3>2, <3>3 DEF CallMeans, Deciding
        <3>5. x.at # "recordWithdrawal" /\ Lag(x) = 0 /\ Goto(h, x)
            BY <2>3, <3>1, <3>3 DEF Lag
        <3>. QED
            BY <2>1, <3>4, <3>5, Went
    <2>. QED
        BY <1>4, <2>2, <2>3 DEF ListPending
<1>5. CASE ConfirmRow(h)
    <2>1. PICK d \in Validities :
              txs' = [txs EXCEPT ![c.ref] = [@ EXCEPT !.status = "completed",
                                                     !.remaining = c.amount,
                                                     !.expires = day + d]]
        BY <1>5 DEF ConfirmRow
    <2>2. /\ c.at = "confirmRow" /\ UNCHANGED <<wallet, requests>> /\ Lag(run[h]) = 0
          /\ Becomes(h, "creditCommission")
        BY <1>5 DEF ConfirmRow, At, Lag
    <2>3. PICK n, k, e : n = c.amount /\ k = c.ref /\ e = day + d
        OBVIOUS
    <2>4. /\ k \in 1 .. Len(txs) /\ n \in Nat
          /\ txs[k].type = "affiliate_commission" /\ txs[k].amount = n
        BY <1>0, <2>2, <2>3 DEF CallMeans
    <2>5. Alike(txs, txs') /\ AccountOf(txs') <= AccountOf(txs) + n
        <3>1. PICK t : t = txs'
            OBVIOUS
        <3>2. t = Confirmed(k, n, e)
            BY <2>1, <2>3, <3>1 DEF Confirmed
        <3>3. Alike(txs, t) /\ AccountOf(t) <= AccountOf(txs) + n
            BY <2>4, <3>2, ConfirmedRow
        <3>. QED
            BY <3>1, <3>3
    <2>6. PICK x : x = [c EXCEPT !.at = "creditCommission"]
        OBVIOUS
    <2>7. CallMeans(x, txs, requests) /\ GoesOn(x, c, "creditCommission")
        BY <1>0, <2>6, Continues DEF Special, Deciding
    <2>8. Lag(x) = -n /\ x.at # "recordWithdrawal"
        BY <2>3, <2>7 DEF GoesOn, Lag
    <2>9. run' = [run EXCEPT ![h] = x] /\ day' \in Nat /\ made' \in Nat
        BY <2>2, <2>6 DEF Becomes, Goto, MoneyInv
    <2>10. n \in Int /\ IsWallet(wallet') /\ wallet'.balance >= wallet.balance + n + Lag(x) - Lag(run[h])
        BY <1>0, <2>2, <2>4, <2>8
    <2>. QED
        BY <2>2, <2>5, <2>7, <2>8, <2>9, <2>10, Moved
<1>6. CASE RecordCommission(h)
    <2>1. PICK x, n, none, zero, type :
              /\ x = [c EXCEPT !.at = "creditCommission"] /\ n = c.amount
              /\ none = 0 /\ zero = 0 /\ type = "affiliate_commission"
        OBVIOUS
    <2>2. /\ c.at = "recordCommission" /\ UNCHANGED <<wallet, requests>> /\ Lag(c) = 0
          /\ txs' = Append(txs, Row(type, n, none, Never, "completed", zero))
          /\ Goto(h, x)
        BY <1>6, <2>1 DEF RecordCommission, Record, Entry, Becomes, At, Lag
    <2>3. CallMeans(x, txs, requests) /\ GoesOn(x, c, "creditCommission")
        BY <1>0, <2>1, Continues DEF Special, Deciding
    <2>4. Lag(x) = -n /\ x.at # "recordWithdrawal"
        BY <2>1, <2>3 DEF GoesOn, Lag
    <2>5. n \in Int /\ n \in Nat /\ none \in Int /\ IsWallet(wallet') /\ type # "withdrawal"
        BY <1>0, <2>1, <2>2
    <2>6. wallet'.balance >= wallet.balance + Lag(x) - Lag(run[h])
                             + (IF type = "order_payment" THEN -n ELSE n)
        BY <1>0, <2>1, <2>2, <2>4, <2>5
    <2>7. run' = [run EXCEPT ![h] = x] /\ day' \in Nat /\ made' \in Nat
        BY <2>2 DEF Goto, MoneyInv
    <2>. QED
        BY <2>2, <2>3, <2>4, <2>5, <2>6, <2>7, GoesNoting
<1>7. CASE CreditCommission(h)
    <2>1. /\ c.at = "creditCommission" /\ Done(h) /\ UNCHANGED <<txs, requests>>
          /\ Lag(c) = -c.amount /\ Earn(c.amount)
        BY <1>7 DEF CreditCommission, At, Lag
    <2>2. IsWallet(wallet') /\ wallet'.balance = wallet.balance + c.amount
        BY <1>0, <2>1, Credited
    <2>3. PICK x : x = Idle
        OBVIOUS
    <2>4. CallMeans(x, txs, requests) /\ x.at # "recordWithdrawal" /\ Lag(x) = 0
        BY <2>3, IdleMeans
    <2>5. run' = [run EXCEPT ![h] = x] /\ day' \in Nat /\ made' \in Nat
        BY <2>1, <2>3 DEF Done, Goto, MoneyInv
    <2>6. wallet'.balance >= wallet.balance + Lag(x) - Lag(run[h])
        BY <1>0, <2>1, <2>2, <2>4
    <2>. QED
        BY <2>1, <2>2, <2>4, <2>5, <2>6, Paid
<1>. QED
    BY <1>1, <1>2, <1>3, <1>4, <1>5, <1>6, <1>7 DEF Commission

LEMMA MoneyStep == MoneyInv /\ WalletInv /\ [Next]_vars => MoneyInv'
<1>. SUFFICES ASSUME MoneyInv, WalletInv, [Next]_vars PROVE MoneyInv'
    OBVIOUS
<1>1. CASE UNCHANGED vars \/ Tick
    <2>1. UNCHANGED <<wallet, txs, requests, run, made>> /\ day' \in Nat
        BY <1>1 DEF vars, Tick, MoneyInv
    <2>. QED
        BY <2>1 DEF MoneyInv, IsWallet
<1>. QED
    BY <1>1, SweepingKeepsMoney, PayingKeepsMoney, WithdrawingKeepsMoney, CreditingKeepsMoney,
       CommissionKeepsMoney DEF Next

LEMMA SumOfZeros ==
    ASSUME NEW D, IsFiniteSet(D), NEW f, \A i \in D : f[i] = 0
    PROVE  SumOf(f, D) = 0
<1>1. PICK g : IsSum(g, f, D) /\ SumOf(f, D) = g[D]
    BY SumIs
<1>2. PICK z, b : z = [s \in SUBSET D |-> 0] /\ b = [i \in D |-> 0]
    OBVIOUS
<1>3. IsSum(z, b, D)
    <2>1. \A s \in SUBSET D : s # {} => Some(s) \in s
        BY DEF Some
    <2>2. \A s \in SUBSET D : 0 = IF s = {} THEN 0 ELSE b[Some(s)] + z[s \ {Some(s)}]
        BY <1>2, <2>1
    <2>. QED
        BY <1>2, <2>2 DEF IsSum
<1>4. g[D] = z[D]
    BY <1>1, <1>2, <1>3, SumsAgree
<1>. QED
    BY <1>1, <1>2, <1>4

LEMMA MoneyInit == Init => MoneyInv
<1>. SUFFICES ASSUME Init PROVE MoneyInv
    OBVIOUS
<1>1. PICK n \in Openings, d \in Validities :
          /\ wallet = [balance |-> n, earned |-> n, withdrawn |-> 0]
          /\ txs = IF n = 0 THEN <<>>
                   ELSE IF Customer THEN <<Row("adjustment", n, n, d, "completed", 0)>>
                   ELSE <<Entry("adjustment", n, 0)>>
    BY DEF Init
<1>2. n \in Nat
    BY WalletAssumption
<1>3. IsWallet(wallet) /\ wallet.balance = n
    BY <1>1, <1>2 DEF IsWallet
<1>4. requests = <<>> /\ run = [h \in Slots |-> Idle] /\ day = 0 /\ made = 0
    BY DEF Init
<1>5. IsRequests(requests)
    BY <1>4 DEF IsRequests
<1>6. CallsMean(run, txs, requests) /\ LagsOf(run) = 0
    <2>1. \A h \in Slots : CallMeans(run[h], txs, requests) /\ Lag(run[h]) = 0
                           /\ run[h].at # "recordWithdrawal"
        BY <1>4, IdleMeans
    <2>2. run = [h \in Slots |-> run[h]]
        BY <1>4
    <2>3. CallsMean(run, txs, requests)
        BY <2>1, <2>2 DEF CallsMean
    <2>4. PICK f : f = [h \in Slots |-> Lag(run[h])]
        OBVIOUS
    <2>5. \A h \in Slots : f[h] = 0
        BY <2>1, <2>4
    <2>6. SumOf(f, Slots) = 0
        BY <2>5, SumOfZeros, WalletAssumption
    <2>. QED
        BY <2>3, <2>4, <2>6 DEF LagsOf
<1>7. AccountOf(<<>>) = 0
    <2>1. PICK f : f = [i \in DOMAIN <<>> |-> Effect(<<>>[i])]
        OBVIOUS
    <2>2. SumOf(f, {}) = 0
        BY SumOfNone
    <2>3. DOMAIN <<>> = {}
        OBVIOUS
    <2>. QED
        BY <2>1, <2>2, <2>3 DEF AccountOf
<1>8. CASE txs = <<>>
    <2>1. RowsMean(txs, requests)
        BY <1>8 DEF RowsMean
    <2>. QED
        BY <1>2, <1>3, <1>4, <1>5, <1>6, <1>7, <1>8, <2>1 DEF MoneyInv
<1>9. CASE txs # <<>>
    <2>1. PICK row : row = IF Customer THEN Row("adjustment", n, n, d, "completed", 0)
                           ELSE Entry("adjustment", n, 0)
        OBVIOUS
    <2>2. txs = <<row>>
        BY <1>1, <1>9, <2>1
    <2>3. /\ IsRow(row) /\ row.type = "adjustment" /\ row.amount = n /\ row.status = "completed"
          /\ row.remaining \in {0, n}
        BY <2>1 DEF Entry, Row, IsRow
    <2>4. RowMeans(row, requests) /\ Effect(row) = n
        BY <1>2, <2>3 DEF RowMeans, Effect
    <2>5. Len(txs) = 1 /\ txs[1] = row
        BY <2>2
    <2>6. RowsMean(txs, requests)
        BY <2>3, <2>4, <2>5 DEF RowsMean
    <2>7. IsLedger(txs)
        BY WalletInit DEF WalletInv
    <2>8. AccountOf(txs) = n
        <3>1. PICK e : e = <<>>
            OBVIOUS
        <3>2. IsLedger(e) /\ Len(e) = 0
            BY <3>1 DEF IsLedger
        <3>3. Len(txs) = Len(e) + 1 /\ \A i \in 1 .. Len(e) : txs[i] = e[i]
            BY <2>5, <3>2
        <3>4. \A i \in 1 .. Len(txs) : Effect(txs[i]) \in Int
            BY <1>2, <2>4, <2>5
        <3>5. AccountOf(txs) = AccountOf(e) + Effect(txs[Len(e) + 1])
            BY <2>7, <3>2, <3>3, <3>4, AccountGrows
        <3>. QED
            BY <1>2, <1>7, <2>4, <2>5, <3>1, <3>2, <3>5
    <2>. QED
        BY <1>2, <1>3, <1>4, <1>5, <1>6, <2>6, <2>8 DEF MoneyInv
<1>. QED
    BY <1>8, <1>9

(* No money leaves a wallet without a row that says why, in whatever order *)
(* any number of calls of any amounts get ahead of each other: between     *)
(* calls the balance is at least what the history adds up to.              *)
THEOREM NothingLost == Spec => []NoSilentLoss
<1>1. MoneyInv /\ WalletInv => NoSilentLoss
    <2>. SUFFICES ASSUME MoneyInv, WalletInv, Quiet PROVE wallet.balance >= Accounted
        BY DEF NoSilentLoss
    <2>1. PICK f : f = [h \in Slots |-> Lag(run[h])]
        OBVIOUS
    <2>2. \A h \in Slots : f[h] = 0
        BY <2>1, IdleMeans DEF Quiet
    <2>3. SumOf(f, Slots) = 0
        BY <2>2, SumOfZeros, WalletAssumption
    <2>4. LagsOf(run) = 0
        BY <2>1, <2>3 DEF LagsOf
    <2>5. wallet.balance >= AccountOf(txs) + 0 /\ wallet.balance \in Int
        BY <2>4 DEF MoneyInv, IsWallet
    <2>6. AccountOf(txs) = Accounted
        BY DEF AccountOf, Accounted
    <2>7. AccountOf(txs) \in Int
        BY AlikeItself
    <2>. QED
        BY <2>5, <2>6, <2>7
<1>2. MoneyInv /\ WalletInv /\ [Next]_vars => MoneyInv'
    BY MoneyStep
<1>. QED
    BY <1>1, <1>2, MoneyInit, WalletInvariant, PTL DEF Spec

-----------------------------------------------------------------------------
(* The dated credits of a customer, in calls that do not overlap: what a   *)
(* call leaves of them, and what it still owes them. *)

LeftIn(t) == [i \in DOMAIN t |-> t[i].remaining]
LeftOf(t) == SumOf(LeftIn(t), DOMAIN t)

(* Only a completed row has anything left.                                 *)
RowsFit(t) ==
    \A i \in 1 .. Len(t) : /\ t[i].remaining \in Nat /\ t[i].expires \in Int
                           /\ t[i].remaining > 0 => t[i].status = "completed"

(* Once the credits that are still valid are used up, a debit goes on with *)
(* what the overdue ones are to be taken from.                             *)
Enough(left, t, d, b) ==
    \/ SumOf(left, DOMAIN t) <= b
    \/ \A i \in 1 .. Len(t) : left[i] > 0 => t[i].expires <= d

NoneDue(t, d) == \A i \in 1 .. Len(t) : t[i].remaining > 0 => t[i].expires > d

Named(todo) == {todo[n].id : n \in DOMAIN todo}

(* What is left of each credit once the rest of a plan is carried out.     *)
Planned(t, todo) ==
    [i \in DOMAIN t |->
        IF i \in Named(todo) THEN todo[CHOOSE n \in DOMAIN todo : todo[n].id = i].left
                             ELSE t[i].remaining]

(* A list of credits names each at most once, and each has something left. *)
ListFits(todo, t) ==
    /\ \A n \in DOMAIN todo : /\ todo[n].id \in 1 .. Len(t) /\ todo[n].left \in Nat
                              /\ t[todo[n].id].remaining > 0
    /\ \A m, n \in DOMAIN todo : todo[m].id = todo[n].id => m = n

(* Where a call has yet to bring the balance and the credits together.     *)
Pending == {"creditCommission", "recordCredit", "readCredits", "useCredit", "recordDebit",
            "readOverdue", "expire", "debitFull", "recordFull"}

(* What is left of all the credits is in the balance, but for what the     *)
(* call itself has added to the one and not yet to the other, or has yet   *)
(* to use up; and what it has read, of overdue credits, of the plan of a   *)
(* debit or of the balance, is still so.                                   *)
Fits(c, t, b, d) ==
    /\ RowsFit(t) /\ b \in Nat
    /\ c.at \notin Pending => LeftOf(t) <= b
    /\ c.at = "recordCredit" => LeftOf(t) + c.amount <= b
    /\ c.at \in {"creditCommission", "readCredits"} => LeftOf(t) <= b + c.amount
    /\ c.at \in {"readOverdue", "recordDebit", "expire"} => Enough(LeftIn(t), t, d, b)
    /\ c.at = "expire" =>
          /\ ListFits(c.todo, t)
          /\ \A n \in DOMAIN c.todo : c.todo[n].left = t[c.todo[n].id].remaining
          /\ \A i \in 1 .. Len(t) : t[i].remaining > 0 /\ t[i].expires <= d => i \in Named(c.todo)
    /\ c.at = "useCredit" => ListFits(c.todo, t) /\ Enough(Planned(t, c.todo), t, d, b)
    /\ c.at \in {"readBalance", "debitTransaction"} => NoneDue(t, d)
    /\ c.at \in {"deduct", "readCredits", "useCredit"} /\ c.call = "withdraw" => NoneDue(t, d)
    /\ c.at = "deduct" => c.amount <= b
    /\ c.at \notin {"debitFull", "recordFull"}

(* Between calls everything that is left is in the balance, and the one    *)
(* call in progress fits.                                                  *)
CoverInv == alone /\ dated =>
    /\ Quiet => Fits(Idle, txs, wallet.balance, day)
    /\ \A h \in Slots : run[h] # Idle => Fits(run[h], txs, wallet.balance, day)
    /\ \A g, h \in Slots : run[g] # Idle /\ run[h] # Idle => g = h

-----------------------------------------------------------------------------
(* Sums of parts, of numbers that are not negative. *)

NatsOn(f, S) == \A x \in S : f[x] \in Nat

LEMMA SumOfTwo ==
    ASSUME NEW S, IsFiniteSet(S), NEW f, IntsOn(f, S),
           NEW A \in SUBSET S, NEW B \in SUBSET S, A \cap B = {}
    PROVE  SumOf(f, A \cup B) = SumOf(f, A) + SumOf(f, B)
<1>. DEFINE Wrong == {t \in SUBSET A : SumOf(f, t \cup B) # SumOf(f, t) + SumOf(f, B)}
<1>1. SUFFICES ASSUME A \in Wrong PROVE FALSE
    OBVIOUS
<1>2. IsFiniteSet(A) /\ IsFiniteSet(B)
    BY FS_Subset
<1>3. PICK t \in Wrong : \A u \in Wrong : u \subseteq t => u = t
    <2>1. PICK C : C = Wrong
        OBVIOUS
    <2>2. C \in SUBSET (SUBSET A) /\ C # {}
        BY <1>1, <2>1
    <2>3. \E t \in C : \A u \in C : u \subseteq t => u = t
        BY <1>2, <2>2, Minimal
    <2>. QED
        BY <2>1, <2>3
<1>4. SumOf(f, B) \in Int
    BY <1>2, SumInt DEF IntsOn
<1>5. CASE t = {}
    <2>1. SumOf(f, {}) = 0
        BY SumOfNone
    <2>2. t \cup B = B
        BY <1>5
    <2>. QED
        BY <1>3, <1>4, <1>5, <2>1, <2>2
<1>6. CASE t # {}
    <2>1. PICK y : y \in t
        BY <1>6
    <2>2. PICK u, v, w : u = t \ {y} /\ v = t \cup B /\ w = u \cup B
        OBVIOUS
    <2>3. /\ u \in SUBSET A /\ u \subseteq t /\ u # t /\ v \in SUBSET S /\ y \in v
          /\ v \ {y} = w /\ u \in SUBSET S /\ t \in SUBSET S
        BY <2>1, <2>2
    <2>4. SumOf(f, w) = SumOf(f, u) + SumOf(f, B)
        BY <1>3, <2>2, <2>3
    <2>5. IsFiniteSet(t) /\ IsFiniteSet(u) /\ IsFiniteSet(v) /\ IsFiniteSet(w)
        BY <2>3, FS_Subset
    <2>6. SumOf(f, t) = f[y] + SumOf(f, u)
        BY <2>1, <2>2, <2>3, <2>5, SumWith DEF IntsOn
    <2>7. SumOf(f, v) = f[y] + SumOf(f, w)
        BY <2>2, <2>3, <2>5, SumWith DEF IntsOn
    <2>8. SumOf(f, u) \in Int /\ f[y] \in Int
        BY <2>1, <2>3, <2>5, SumInt DEF IntsOn
    <2>. QED
        BY <1>3, <1>4, <2>2, <2>4, <2>6, <2>7, <2>8
<1>. QED
    BY <1>5, <1>6

LEMMA SumNat ==
    ASSUME NEW S, IsFiniteSet(S), NEW f, NatsOn(f, S)
    PROVE  SumOf(f, S) \in Nat
<1>. DEFINE Wrong == {t \in SUBSET S : SumOf(f, t) \notin Nat}
<1>1. SUFFICES ASSUME S \in Wrong PROVE FALSE
    OBVIOUS
<1>2. PICK t \in Wrong : \A u \in Wrong : u \subseteq t => u = t
    <2>1. PICK C : C = Wrong
        OBVIOUS
    <2>2. C \in SUBSET (SUBSET S) /\ C # {}
        BY <1>1, <2>1
    <2>3. \E t \in C : \A u \in C : u \subseteq t => u = t
        BY <2>2, Minimal
    <2>. QED
        BY <2>1, <2>3
<1>3. t # {}
    BY SumOfNone
<1>4. PICK y : y \in t
    BY <1>3
<1>5. PICK u : u = t \ {y}
    OBVIOUS
<1>6. u \in SUBSET S /\ u \subseteq t /\ u # t /\ IsFiniteSet(t)
    BY <1>4, <1>5, FS_Subset
<1>7. SumOf(f, u) \in Nat
    BY <1>2, <1>6
<1>8. \A x \in t : f[x] \in Int
    BY DEF NatsOn
<1>9. SumOf(f, t) = f[y] + SumOf(f, u)
    BY <1>4, <1>5, <1>6, <1>8, SumWith
<1>. QED
    BY <1>4, <1>7, <1>9 DEF NatsOn

LEMMA SumOfParts ==
    ASSUME NEW S, IsFiniteSet(S), NEW f, NatsOn(f, S),
           NEW A \in SUBSET S, NEW B \in SUBSET S, A \cap B = {}
    PROVE  /\ SumOf(f, A) \in Nat /\ SumOf(f, B) \in Nat /\ SumOf(f, S) \in Nat
           /\ SumOf(f, A) + SumOf(f, B) <= SumOf(f, S)
<1>1. \A u \in SUBSET S : IsFiniteSet(u) /\ NatsOn(f, u) /\ IntsOn(f, u)
    BY FS_Subset DEF NatsOn, IntsOn
<1>2. \A u \in SUBSET S : SumOf(f, u) \in Nat
    BY <1>1, SumNat
<1>3. PICK C, D : C = A \cup B /\ D = S \ C
    OBVIOUS
<1>4. C \in SUBSET S /\ D \in SUBSET S /\ C \cap D = {} /\ C \cup D = S /\ IntsOn(f, S)
    BY <1>1, <1>3
<1>5. SumOf(f, C) = SumOf(f, A) + SumOf(f, B)
    BY <1>3, <1>4, SumOfTwo
<1>6. SumOf(f, S) = SumOf(f, C) + SumOf(f, D)
    BY <1>4, SumOfTwo
<1>. QED
    BY <1>2, <1>4, <1>5, <1>6

LEMMA SumHasEach ==
    ASSUME NEW S, IsFiniteSet(S), NEW f, NatsOn(f, S), NEW y \in S
    PROVE  f[y] <= SumOf(f, S) /\ SumOf(f, S) \in Nat /\ f[y] \in Nat
<1>1. PICK u : u = S \ {y}
    OBVIOUS
<1>2. IsFiniteSet(u) /\ NatsOn(f, u)
    BY <1>1, FS_Subset DEF NatsOn
<1>3. SumOf(f, S) = f[y] + SumOf(f, u)
    BY <1>1, SumWith DEF NatsOn
<1>. QED
    BY <1>2, <1>3, SumNat DEF NatsOn

-----------------------------------------------------------------------------
(* What is left of all credits.                                            *)

LEMMA LeftIs ==
    ASSUME NEW t, IsLedger(t), RowsFit(t)
    PROVE  /\ DOMAIN t = 1 .. Len(t) /\ Len(t) \in Nat /\ IsFiniteSet(1 .. Len(t))
           /\ NatsOn(LeftIn(t), 1 .. Len(t)) /\ IntsOn(LeftIn(t), 1 .. Len(t))
           /\ \A i \in 1 .. Len(t) : LeftIn(t)[i] = t[i].remaining
           /\ LeftOf(t) = SumOf(LeftIn(t), 1 .. Len(t))
           /\ LeftOf(t) \in Nat
<1>1. DOMAIN t = 1 .. Len(t) /\ Len(t) \in Nat
    BY DEF IsLedger
<1>2. IsFiniteSet(1 .. Len(t))
    BY <1>1, FS_Interval
<1>3. \A i \in 1 .. Len(t) : LeftIn(t)[i] = t[i].remaining
    BY <1>1 DEF LeftIn
<1>4. NatsOn(LeftIn(t), 1 .. Len(t)) /\ IntsOn(LeftIn(t), 1 .. Len(t))
    BY <1>3 DEF RowsFit, NatsOn, IntsOn
<1>5. LeftOf(t) = SumOf(LeftIn(t), 1 .. Len(t))
    BY <1>1 DEF LeftOf
<1>. QED
    BY <1>1, <1>2, <1>3, <1>4, <1>5, SumNat

LEMMA SameLeft ==
    ASSUME NEW t, IsLedger(t), NEW u, IsLedger(u), Len(u) = Len(t),
           \A i \in 1 .. Len(t) : u[i].remaining = t[i].remaining
    PROVE  LeftOf(u) = LeftOf(t) /\ LeftIn(u) = LeftIn(t)
<1>1. DOMAIN t = 1 .. Len(t) /\ DOMAIN u = 1 .. Len(t) /\ Len(t) \in Nat
    BY DEF IsLedger
<1>2. LeftIn(u) = LeftIn(t)
    BY <1>1 DEF LeftIn
<1>. QED
    BY <1>1, <1>2 DEF LeftOf

LEMMA LeftGrows ==
    ASSUME NEW t, RowsFit(t), NEW u, NEW row, OneMore(t, u, row),
           row.remaining \in Nat, row.expires \in Int,
           row.remaining > 0 => row.status = "completed"
    PROVE  RowsFit(u) /\ LeftOf(u) = LeftOf(t) + row.remaining
<1>1. PICK n : n = Len(t)
    OBVIOUS
<1>2. /\ IsLedger(t) /\ IsLedger(u) /\ Len(u) = n + 1 /\ n \in Nat
      /\ u[n + 1] = row /\ \A i \in 1 .. n : u[i] = t[i]
    BY <1>1 DEF OneMore, IsLedger
<1>3. \A i \in 1 .. Len(u) : i \in 1 .. n \/ i = n + 1
    BY <1>2
<1>4. RowsFit(u)
    BY <1>1, <1>2, <1>3 DEF RowsFit
<1>5. PICK S, y, f, g : S = 1 .. n /\ y = n + 1 /\ f = LeftIn(t) /\ g = LeftIn(u)
    OBVIOUS
<1>6. S \cup {y} = 1 .. Len(u) /\ y \notin S
    BY <1>2, <1>5
<1>7. /\ IsFiniteSet(S) /\ LeftOf(t) = SumOf(f, S)
      /\ \A i \in S : f[i] = t[i].remaining
    BY <1>1, <1>2, <1>5, LeftIs
<1>8. /\ IntsOn(g, S \cup {y}) /\ LeftOf(u) = SumOf(g, S \cup {y})
      /\ \A i \in S \cup {y} : g[i] = u[i].remaining
    BY <1>2, <1>4, <1>5, <1>6, LeftIs
<1>9. SumOf(g, S \cup {y}) = SumOf(g, S) + g[y]
    BY <1>6, <1>7, <1>8, SumGrows DEF IntsOn
<1>10. \A x \in S : f[x] = g[x]
    BY <1>2, <1>5, <1>7, <1>8
<1>11. SumOf(f, S) = SumOf(g, S)
    BY <1>7, <1>10, SumOfEqual
<1>12. g[y] = row.remaining
    BY <1>2, <1>5, <1>8
<1>. QED
    BY <1>4, <1>7, <1>8, <1>9, <1>11, <1>12

LEMMA LeftChanges ==
    ASSUME NEW t, IsLedger(t), RowsFit(t), NEW u, IsLedger(u), RowsFit(u), Len(u) = Len(t),
           NEW k \in 1 .. Len(t),
           \A i \in 1 .. Len(t) : i # k => u[i].remaining = t[i].remaining
    PROVE  LeftOf(u) = LeftOf(t) - t[k].remaining + u[k].remaining
<1>1. PICK S, f, g : S = 1 .. Len(t) /\ f = LeftIn(t) /\ g = LeftIn(u)
    OBVIOUS
<1>2. /\ IsFiniteSet(S) /\ LeftOf(t) = SumOf(f, S) /\ IntsOn(f, S)
      /\ \A i \in S : f[i] = t[i].remaining
    BY <1>1, LeftIs
<1>3. /\ LeftOf(u) = SumOf(g, S) /\ IntsOn(g, S)
      /\ \A i \in S : g[i] = u[i].remaining
    BY <1>1, LeftIs
<1>4. ButFor(k, f, g, S)
    BY <1>1, <1>2, <1>3 DEF ButFor
<1>5. SumOf(g, S) = SumOf(f, S) - f[k] + g[k]
    BY <1>1, <1>2, <1>3, <1>4, SumChanges
<1>. QED
    BY <1>1, <1>2, <1>3, <1>5

-----------------------------------------------------------------------------
(* First in, first out: what is taken from the credits is the amount, or   *)
(* all there is.                                                           *)

LEMMA MinMaxAre ==
    ASSUME NEW a \in Int, NEW b \in Int
    PROVE  /\ a <= b => Min({a, b}) = a /\ Max({a, b}) = b
           /\ b <= a => Min({a, b}) = b /\ Max({a, b}) = a
<1>1. PICK m, k : m = Min({a, b}) /\ k = Max({a, b})
    OBVIOUS
<1>2. m \in {a, b} /\ m <= a /\ m <= b
    BY <1>1 DEF Min
<1>3. k \in {a, b} /\ k >= a /\ k >= b
    BY <1>1 DEF Max
<1>. QED
    BY <1>1, <1>2, <1>3

Rows == 1 .. Len(txs)

LEMMA ActiveAre ==
    ASSUME IsLedger(txs), RowsFit(txs), day \in Nat
    PROVE  /\ DOMAIN txs = Rows /\ IsFiniteSet(Rows) /\ NatsOn(LeftIn(txs), Rows)
           /\ Active \subseteq Rows /\ Overdue \subseteq Rows /\ Active \cap Overdue = {}
           /\ \A i \in Rows : /\ txs[i].remaining \in Nat /\ txs[i].expires \in Int
                              /\ LeftIn(txs)[i] = txs[i].remaining
                              /\ i \in Active <=> txs[i].remaining > 0 /\ txs[i].expires > day
                              /\ i \in Overdue <=> txs[i].remaining > 0 /\ txs[i].expires <= day
<1>1. /\ DOMAIN txs = Rows /\ IsFiniteSet(Rows) /\ NatsOn(LeftIn(txs), Rows)
      /\ \A i \in Rows : LeftIn(txs)[i] = txs[i].remaining
    BY LeftIs DEF Rows
<1>2. \A i \in Rows : /\ txs[i].remaining \in Nat /\ txs[i].expires \in Int
                      /\ txs[i].remaining > 0 => txs[i].status = "completed"
    BY DEF RowsFit, Rows
<1>3. \A i \in Rows : /\ i \in Active <=> txs[i].remaining > 0 /\ txs[i].expires > day
                      /\ i \in Overdue <=> txs[i].remaining > 0 /\ txs[i].expires <= day
    BY <1>1, <1>2 DEF Active, Overdue
<1>4. Active \subseteq Rows /\ Overdue \subseteq Rows
    BY <1>1 DEF Active, Overdue
<1>5. Active \cap Overdue = {}
    BY <1>2, <1>3, <1>4
<1>. QED
    BY <1>1, <1>2, <1>3, <1>4, <1>5

LEMMA UnspentIs ==
    ASSUME IsLedger(txs), RowsFit(txs), NEW B \in SUBSET Rows
    PROVE  Unspent(B) = SumOf(LeftIn(txs), B) /\ Unspent(B) \in Nat
<1>1. PICK f : f = [i \in B |-> txs[i].remaining]
    OBVIOUS
<1>2. IsFiniteSet(B) /\ NatsOn(LeftIn(txs), B) /\ \A i \in B : f[i] = LeftIn(txs)[i]
    BY <1>1, LeftIs, FS_Subset DEF NatsOn, Rows
<1>3. SumOf(f, B) = SumOf(LeftIn(txs), B)
    BY <1>2, SumOfEqual
<1>. QED
    BY <1>1, <1>2, <1>3, SumNat DEF Unspent

Before(i) == {j \in Active : ExpiresFirst(j, i)}

LEMMA FifoLeftIs ==
    ASSUME IsLedger(txs), RowsFit(txs), day \in Nat, NEW i \in Active, NEW amount \in Nat,
           NEW s, s = SumOf(LeftIn(txs), Before(i))
    PROVE  /\ s \in Nat
           /\ FifoLeft(i, amount) =
                 IF amount <= s THEN txs[i].remaining
                 ELSE IF txs[i].remaining <= amount - s THEN 0
                 ELSE txs[i].remaining - (amount - s)
<1>1. i \in Rows /\ txs[i].remaining \in Nat
    BY ActiveAre
<1>2. Before(i) \in SUBSET Rows
    BY ActiveAre DEF Before
<1>3. Unspent(Before(i)) = s /\ s \in Nat
    BY <1>2, UnspentIs
<1>4. PICK r, m, k : /\ r = txs[i].remaining /\ m = Max({0, amount - s})
                     /\ k = Min({r, m}) /\ FifoLeft(i, amount) = r - k
    BY <1>3 DEF FifoLeft, Before
<1>5. PICK z, q : z = 0 /\ q = amount - s
    OBVIOUS
<1>6. z \in Int /\ q \in Int /\ m = Max({z, q})
    BY <1>3, <1>4, <1>5
<1>7. (q <= z => m = z) /\ (z <= q => m = q)
    BY <1>6, MinMaxAre
<1>8. m \in Nat
    BY <1>3, <1>5, <1>6, <1>7
<1>9. (r <= m => k = r) /\ (m <= r => k = m)
    BY <1>1, <1>4, <1>8, MinMaxAre
<1>. QED
    BY <1>1, <1>3, <1>4, <1>5, <1>7, <1>8, <1>9

LEMMA FifoLeaves ==
    ASSUME IsLedger(txs), RowsFit(txs), day \in Nat, NEW i \in Active, NEW amount \in Nat
    PROVE  FifoLeft(i, amount) \in Nat /\ FifoLeft(i, amount) <= txs[i].remaining
<1>1. PICK s : s = SumOf(LeftIn(txs), Before(i))
    OBVIOUS
<1>2. txs[i].remaining \in Nat
    BY ActiveAre
<1>3. /\ s \in Nat
      /\ FifoLeft(i, amount) = IF amount <= s THEN txs[i].remaining
                               ELSE IF txs[i].remaining <= amount - s THEN 0
                               ELSE txs[i].remaining - (amount - s)
    BY <1>1, FifoLeftIs
<1>. QED
    BY <1>2, <1>3

LEMMA LastToExpire ==
    ASSUME IsLedger(txs), RowsFit(txs), NEW P \in SUBSET Rows, P # {}
    PROVE  \E m \in P : \A i \in P : i # m => ExpiresFirst(i, m)
<1>1. \A i \in Rows : i \in Int /\ txs[i].expires \in Int
    BY DEF RowsFit, Rows
<1>2. IsFiniteSet(P)
    BY LeftIs, FS_Subset DEF Rows
<1>. DEFINE HasLast(t) == \E m \in t : \A i \in t : i # m => ExpiresFirst(i, m)
            Wrong == {t \in SUBSET P : t # {} /\ ~HasLast(t)}
<1>3. SUFFICES ASSUME P \in Wrong PROVE FALSE
    OBVIOUS
<1>4. PICK t \in Wrong : \A u \in Wrong : u \subseteq t => u = t
    <2>1. PICK C : C = Wrong
        OBVIOUS
    <2>2. C \in SUBSET (SUBSET P) /\ C # {}
        BY <1>3, <2>1
    <2>3. \E t \in C : \A u \in C : u \subseteq t => u = t
        BY <1>2, <2>2, Minimal
    <2>. QED
        BY <2>1, <2>3
<1>5. PICK y : y \in t
    BY <1>4
<1>6. PICK u : u = t \ {y}
    OBVIOUS
<1>7. CASE u = {}
    <2>1. t = {y}
        BY <1>5, <1>6, <1>7
    <2>. QED
        BY <1>4, <2>1
<1>8. CASE u # {}
    <2>1. HasLast(u)
        <3>1. u \subseteq t /\ u # t /\ u \in SUBSET P
            BY <1>5, <1>6
        <3>2. u \notin Wrong
            BY <1>4, <3>1
        <3>. HIDE DEF HasLast
        <3>. QED
            BY <1>8, <3>1, <3>2
    <2>2. PICK m \in u : \A i \in u : i # m => ExpiresFirst(i, m)
        BY <2>1
    <2>3. m \in Rows /\ y \in Rows /\ m # y
        BY <1>4, <1>5, <1>6, <2>2
    <2>4. CASE ExpiresFirst(y, m)
        <3>1. \A i \in t : i # m => ExpiresFirst(i, m)
            BY <1>6, <2>2, <2>4
        <3>. QED
            BY <1>4, <1>6, <2>2, <3>1
    <2>5. CASE ExpiresFirst(m, y)
        <3>1. ASSUME NEW i \in t, i # y PROVE ExpiresFirst(i, y)
            <4>1. i = m \/ ExpiresFirst(i, m)
                BY <1>6, <2>2, <3>1
            <4>2. i \in Rows
                BY <1>4
            <4>. QED
                BY <1>1, <2>3, <2>5, <4>1, <4>2 DEF ExpiresFirst
        <3>. QED
            BY <1>4, <1>5, <3>1
    <2>6. ExpiresFirst(y, m) \/ ExpiresFirst(m, y)
        BY <1>1, <2>3 DEF ExpiresFirst
    <2>. QED
        BY <2>4, <2>5, <2>6
<1>. QED
    BY <1>7, <1>8

(* The credits up to some date.                                            *)
Prefix(P) == P \subseteq Active /\ \A i \in P : Before(i) \subseteq P

LEMMA FifoTakes ==
    ASSUME IsLedger(txs), RowsFit(txs), day \in Nat, NEW amount \in Nat,
           NEW f, \A i \in Active : f[i] = FifoLeft(i, amount),
           NEW P, Prefix(P)
    PROVE  LET s == SumOf(LeftIn(txs), P)
           IN  SumOf(f, P) = IF s <= amount THEN 0 ELSE s - amount
<1>1. Active \subseteq Rows /\ IsFiniteSet(Rows) /\ NatsOn(LeftIn(txs), Rows)
    BY ActiveAre
<1>2. PICK g : g = LeftIn(txs)
    OBVIOUS
<1>. DEFINE Right(t) == SumOf(f, t) = IF SumOf(g, t) <= amount THEN 0 ELSE SumOf(g, t) - amount
            Wrong == {t \in SUBSET P : Prefix(t) /\ ~Right(t)}
<1>3. SUFFICES ASSUME P \in Wrong PROVE FALSE
    BY <1>2
<1>4. P \in SUBSET Rows /\ IsFiniteSet(P)
    BY <1>1, FS_Subset DEF Prefix
<1>5. PICK t \in Wrong : \A u \in Wrong : u \subseteq t => u = t
    <2>1. PICK C : C = Wrong
        OBVIOUS
    <2>2. C \in SUBSET (SUBSET P) /\ C # {}
        BY <1>3, <2>1
    <2>3. \E t \in C : \A u \in C : u \subseteq t => u = t
        BY <1>4, <2>2, Minimal
    <2>. QED
        BY <2>1, <2>3
<1>6. CASE t = {}
    <2>1. SumOf(f, {}) = 0 /\ SumOf(g, {}) = 0
        BY SumOfNone
    <2>2. SumOf(f, t) = 0 /\ SumOf(g, t) = 0
        BY <1>6, <2>1
    <2>3. Right(t)
        BY <2>2
    <2>. QED
        BY <1>5, <2>3
<1>7. CASE t # {}
    <2>1. t \in SUBSET Rows /\ t \subseteq Active /\ IsFiniteSet(t)
        <3>1. t \in SUBSET P /\ Prefix(t)
            BY <1>5
        <3>. QED
            BY <1>4, <3>1, FS_Subset DEF Prefix
    <2>2. PICK m \in t : \A i \in t : i # m => ExpiresFirst(i, m)
        BY <1>7, <2>1, LastToExpire
    <2>3. PICK u : u = t \ {m}
        OBVIOUS
    <2>4. ~ExpiresFirst(m, m) /\ \A i \in Rows : ~(ExpiresFirst(m, i) /\ ExpiresFirst(i, m))
        <3>1. \A i \in Rows : i \in Int /\ txs[i].expires \in Int
            BY DEF RowsFit, Rows
        <3>. QED
            BY <2>1, <2>2, <3>1 DEF ExpiresFirst
    <2>5. Before(m) = u
        <3>1. Before(m) \subseteq t
            BY <1>5 DEF Prefix
        <3>2. u \subseteq Before(m)
            BY <2>1, <2>2, <2>3 DEF Before
        <3>. QED
            BY <2>3, <2>4, <3>1, <3>2 DEF Before
    <2>6. Prefix(u)
        <3>1. ASSUME NEW i \in u PROVE Before(i) \subseteq u
            <4>1. Before(i) \subseteq t
                BY <1>5, <2>3 DEF Prefix
            <4>2. m \notin Before(i)
                BY <2>1, <2>2, <2>3, <2>4 DEF Before
            <4>. QED
                BY <2>3, <4>1, <4>2
        <3>. QED
            BY <2>1, <2>3, <3>1 DEF Prefix
    <2>7. Right(u)
        BY <1>5, <2>2, <2>3, <2>6
    <2>8. /\ IsFiniteSet(u) /\ NatsOn(g, u) /\ NatsOn(g, t)
        BY <1>1, <1>2, <2>1, <2>3, FS_Subset DEF NatsOn
    <2>9. PICK s : s = SumOf(g, u)
        OBVIOUS
    <2>10. s \in Nat
        BY <2>8, <2>9, SumNat
    <2>11. SumOf(g, t) = g[m] + s
        BY <2>1, <2>2, <2>3, <2>8, <2>9, SumWith DEF NatsOn
    <2>12. m \in Active /\ m \in Rows /\ g[m] = txs[m].remaining /\ g[m] \in Nat
        BY <1>2, <2>1, <2>2, ActiveAre
    <2>13. FifoLeft(m, amount) = IF amount <= s THEN g[m]
                                 ELSE IF g[m] <= amount - s THEN 0
                                 ELSE g[m] - (amount - s)
        BY <1>2, <2>5, <2>9, <2>12, FifoLeftIs
    <2>14. \A i \in t : f[i] \in Int
        BY <2>1, FifoLeaves
    <2>15. SumOf(f, t) = f[m] + SumOf(f, u)
        BY <2>1, <2>2, <2>3, <2>14, SumWith
    <2>16. f[m] = FifoLeft(m, amount)
        BY <2>12
    <2>17. SumOf(f, u) = IF s <= amount THEN 0 ELSE s - amount
        BY <2>7, <2>9
    <2>18. Right(t)
        BY <2>10, <2>11, <2>12, <2>13, <2>15, <2>16, <2>17
    <2>. QED
        BY <1>5, <2>18
<1>. QED
    BY <1>6, <1>7

LeftAfter(amount) ==
    [i \in DOMAIN txs |-> IF i \in Active THEN FifoLeft(i, amount) ELSE txs[i].remaining]

LEMMA FifoIsEnough ==
    ASSUME IsLedger(txs), RowsFit(txs), day \in Nat, NEW amount \in Nat, NEW b \in Nat,
           LeftOf(txs) <= b + amount
    PROVE  /\ Enough(LeftAfter(amount), txs, day, b)
           /\ \A i \in Rows : LeftAfter(amount)[i] \in Nat
<1>1. PICK f, g, s : /\ f = LeftAfter(amount) /\ g = LeftIn(txs)
                     /\ s = SumOf(LeftIn(txs), Active)
    OBVIOUS
<1>2. PICK D, A, N : D = Rows /\ A = Active /\ N = Rows \ Active
    OBVIOUS
<1>3. /\ DOMAIN txs = D /\ IsFiniteSet(D) /\ NatsOn(g, D) /\ A \in SUBSET D /\ N \in SUBSET D
      /\ A \cap N = {} /\ A \cup N = D
      /\ \A i \in D : /\ txs[i].remaining \in Nat /\ txs[i].expires \in Int
                      /\ g[i] = txs[i].remaining
                      /\ i \in A <=> txs[i].remaining > 0 /\ txs[i].expires > day
    BY <1>1, <1>2, ActiveAre
<1>4. /\ \A i \in A : f[i] = FifoLeft(i, amount)
      /\ \A i \in N : f[i] = g[i]
    BY <1>1, <1>2, <1>3 DEF LeftAfter
<1>5. NatsOn(f, D)
    <2>1. \A i \in A : f[i] \in Nat
        BY <1>2, <1>4, FifoLeaves
    <2>2. \A i \in N : f[i] \in Nat
        BY <1>3, <1>4
    <2>. QED
        BY <1>3, <2>1, <2>2 DEF NatsOn
<1>6. SumOf(f, A) = IF s <= amount THEN 0 ELSE s - amount
    <2>1. Prefix(A)
        BY <1>2 DEF Prefix, Before
    <2>. QED
        BY <1>1, <1>2, <1>4, <2>1, FifoTakes
<1>7. SumOf(f, D) = SumOf(f, A) + SumOf(f, N) /\ SumOf(g, D) = s + SumOf(g, N)
    <2>1. IntsOn(f, D) /\ IntsOn(g, D)
        BY <1>3, <1>5 DEF NatsOn, IntsOn
    <2>2. SumOf(f, A \cup N) = SumOf(f, A) + SumOf(f, N)
        BY <1>3, <2>1, SumOfTwo
    <2>3. SumOf(g, A \cup N) = SumOf(g, A) + SumOf(g, N)
        BY <1>3, <2>1, SumOfTwo
    <2>. QED
        BY <1>1, <1>2, <1>3, <2>2, <2>3
<1>8. SumOf(f, N) = SumOf(g, N)
    BY <1>3, <1>4, FS_Subset, SumOfEqual
<1>9. s \in Nat /\ SumOf(g, N) \in Nat
    BY <1>1, <1>2, <1>3, SumOfParts
<1>10. SumOf(g, D) <= b + amount
    BY <1>1, <1>3 DEF LeftOf
<1>11. CASE s > amount
    <2>1. SumOf(f, D) <= b
        BY <1>6, <1>7, <1>8, <1>9, <1>10, <1>11
    <2>. QED
        BY <1>1, <1>2, <1>3, <1>5, <2>1 DEF Enough, NatsOn
<1>12. CASE s <= amount
    <2>1. SumOf(f, A) = 0
        BY <1>6, <1>12
    <2>2. \A i \in A : f[i] = 0
        <3>1. IsFiniteSet(A) /\ NatsOn(f, A)
            BY <1>3, <1>5, FS_Subset DEF NatsOn
        <3>. QED
            BY <2>1, <3>1, SumHasEach
    <2>3. \A i \in D : f[i] > 0 => txs[i].expires <= day
        BY <1>3, <1>4, <2>2
    <2>4. D = 1 .. Len(txs)
        BY <1>2 DEF Rows
    <2>. QED
        BY <1>1, <1>2, <1>5, <2>3, <2>4 DEF Enough, NatsOn
<1>. QED
    BY <1>9, <1>11, <1>12

LEMMA Listed ==
    ASSUME NEW D, IsFiniteSet(D), NEW s, s \in SetToSeqs(D)
    PROVE  /\ DOMAIN s = 1 .. Cardinality(D)
           /\ \A n \in DOMAIN s : s[n] \in D
           /\ \A m, n \in DOMAIN s : s[m] = s[n] => m = n
           /\ \A i \in D : \E n \in DOMAIN s : s[n] = i
<1>1. PICK k, S : k = Cardinality(D) /\ S = 1 .. k
    OBVIOUS
<1>2. k \in Nat /\ IsFiniteSet(S) /\ Cardinality(S) = k
    BY <1>1, FS_CardinalityType, FS_Interval
<1>3. s \in [S -> D] /\ \A i, j \in S : i # j => s[i] # s[j]
    BY <1>1 DEF SetToSeqs
<1>4. s \in Injection(S, D)
    BY <1>3 DEF Injection, IsInjective
<1>5. s \in Surjection(S, D)
    <2>1. Cardinality(S) = Cardinality(D)
        BY <1>1, <1>2
    <2>. QED
        BY <1>4, <2>1, FS_Injection
<1>. QED
    BY <1>1, <1>3, <1>5 DEF Surjection

LEMMA PlannedIs ==
    ASSUME NEW t, IsLedger(t), NEW todo, ListFits(todo, t)
    PROVE  /\ \A n \in DOMAIN todo : Planned(t, todo)[todo[n].id] = todo[n].left
           /\ \A i \in 1 .. Len(t) : i \notin Named(todo) => Planned(t, todo)[i] = t[i].remaining
           /\ Planned(t, todo) = [i \in 1 .. Len(t) |-> Planned(t, todo)[i]]
<1>1. DOMAIN t = 1 .. Len(t)
    BY DEF IsLedger
<1>2. PICK f : f = Planned(t, todo)
    OBVIOUS
<1>3. f = [i \in 1 .. Len(t) |->
              IF i \in Named(todo) THEN todo[CHOOSE n \in DOMAIN todo : todo[n].id = i].left
                                   ELSE t[i].remaining]
    BY <1>1, <1>2 DEF Planned
<1>4. ASSUME NEW n \in DOMAIN todo PROVE f[todo[n].id] = todo[n].left
    <2>1. PICK i : i = todo[n].id
        OBVIOUS
    <2>2. i \in 1 .. Len(t) /\ i \in Named(todo)
        BY <2>1 DEF ListFits, Named
    <2>3. PICK m : m = (CHOOSE k \in DOMAIN todo : todo[k].id = i)
        OBVIOUS
    <2>4. m \in DOMAIN todo /\ todo[m].id = i
        BY <2>1, <2>3
    <2>5. m = n
        BY <2>1, <2>4 DEF ListFits
    <2>6. f[i] = todo[m].left
        BY <1>3, <2>2, <2>3
    <2>. QED
        BY <2>1, <2>5, <2>6
<1>. QED
    BY <1>2, <1>3, <1>4

LEMMA PlanFits ==
    ASSUME IsLedger(txs), RowsFit(txs), day \in Nat, NEW amount \in Nat,
           NEW plan, plan \in FifoPlans(amount)
    PROVE  ListFits(plan, txs) /\ Planned(txs, plan) = LeftAfter(amount)
<1>1. PICK touched : touched = {i \in Active : FifoLeft(i, amount) < txs[i].remaining}
    OBVIOUS
<1>2. PICK s \in SetToSeqs(touched) :
         plan = [n \in DOMAIN s |-> [id |-> s[n], left |-> FifoLeft(s[n], amount)]]
    BY <1>1 DEF FifoPlans
<1>3. /\ DOMAIN txs = Rows /\ Active \subseteq Rows /\ touched \subseteq Active
      /\ IsFiniteSet(Rows) /\ IsFiniteSet(touched)
      /\ \A i \in Active : txs[i].remaining > 0
    BY <1>1, ActiveAre, FS_Subset
<1>4. /\ \A n \in DOMAIN s : s[n] \in touched
      /\ \A m, n \in DOMAIN s : s[m] = s[n] => m = n
      /\ \A i \in touched : \E n \in DOMAIN s : s[n] = i
    BY <1>3, Listed
<1>5. /\ DOMAIN plan = DOMAIN s
      /\ \A n \in DOMAIN s : plan[n].id = s[n] /\ plan[n].left = FifoLeft(s[n], amount)
    BY <1>2
<1>6. \A i \in Active : FifoLeft(i, amount) \in Nat
    BY FifoLeaves
<1>7. ListFits(plan, txs)
    <2>1. ASSUME NEW n \in DOMAIN plan
          PROVE  /\ plan[n].id \in Rows /\ plan[n].left \in Nat
                 /\ txs[plan[n].id].remaining > 0
        <3>1. n \in DOMAIN s /\ s[n] \in touched /\ s[n] \in Active
            BY <1>3, <1>4, <1>5
        <3>. QED
            BY <1>3, <1>5, <1>6, <3>1
    <2>2. \A m, n \in DOMAIN plan : plan[m].id = plan[n].id => m = n
        BY <1>4, <1>5
    <2>. QED
        BY <2>1, <2>2 DEF ListFits, Rows
<1>8. PICK f, g : f = Planned(txs, plan) /\ g = LeftAfter(amount)
    OBVIOUS
<1>9. /\ f = [i \in Rows |-> f[i]] /\ g = [i \in Rows |-> g[i]]
      /\ \A i \in Rows : g[i] = IF i \in Active THEN FifoLeft(i, amount) ELSE txs[i].remaining
      /\ \A n \in DOMAIN plan : f[plan[n].id] = plan[n].left
      /\ \A i \in Rows : i \notin Named(plan) => f[i] = txs[i].remaining
    BY <1>3, <1>7, <1>8, PlannedIs DEF LeftAfter, Rows
<1>10. ASSUME NEW i \in Rows PROVE f[i] = g[i]
    <2>1. CASE i \in touched
        <3>1. PICK n \in DOMAIN s : s[n] = i
            BY <1>4, <2>1
        <3>. QED
            BY <1>3, <1>5, <1>9, <2>1, <3>1
    <2>2. CASE i \notin touched
        <3>1. i \notin Named(plan)
            BY <1>4, <1>5, <2>2 DEF Named
        <3>2. i \in Active => FifoLeft(i, amount) = txs[i].remaining
            <4>1. i \in Active => ~(FifoLeft(i, amount) < txs[i].remaining)
                BY <1>1, <2>2
            <4>2. txs[i].remaining \in Int
                BY ActiveAre
            <4>. QED
                BY <4>1, <4>2, FifoLeaves
        <3>. QED
            BY <1>9, <3>1, <3>2
    <2>. QED
        BY <2>1, <2>2
<1>. QED
    BY <1>7, <1>8, <1>9, <1>10

-----------------------------------------------------------------------------
(* What fits where a call goes. *)

LEMMA Undue ==
    ASSUME NEW t, IsLedger(t), RowsFit(t), NEW b \in Nat, NEW d \in Int,
           Enough(LeftIn(t), t, d, b), NoneDue(t, d)
    PROVE  LeftOf(t) <= b
<1>1. PICK f, D : f = LeftIn(t) /\ D = 1 .. Len(t)
    OBVIOUS
<1>2. /\ DOMAIN t = D /\ IsFiniteSet(D) /\ LeftOf(t) = SumOf(f, D)
      /\ \A i \in D : f[i] = t[i].remaining /\ f[i] \in Nat /\ t[i].expires \in Int
    BY <1>1, LeftIs DEF RowsFit
<1>3. CASE SumOf(f, D) <= b
    BY <1>2, <1>3
<1>4. CASE ~(SumOf(f, D) <= b)
    <2>1. \A i \in D : f[i] > 0 => t[i].expires <= d
        BY <1>1, <1>2, <1>4 DEF Enough
    <2>2. \A i \in D : f[i] = 0
        BY <1>1, <1>2, <2>1 DEF NoneDue
    <2>3. SumOf(f, D) = 0
        BY <1>2, <2>2, SumOfZeros
    <2>. QED
        BY <1>4, <2>3
<1>. QED
    BY <1>3, <1>4

LEMMA CoveredIsEnough ==
    ASSUME NEW t, NEW b, NEW d, LeftOf(t) <= b
    PROVE  Enough(LeftIn(t), t, d, b)
BY DEF Enough, LeftOf

Fit(h) == Fits(run[h], txs, wallet.balance, day)

Calm(c) == c.at \notin Pending \cup {"readBalance", "debitTransaction", "deduct"}

LEMMA CalmFits ==
    ASSUME NEW c, NEW t, NEW b \in Nat, NEW d, RowsFit(t), LeftOf(t) <= b,
           Calm(c) \/ c.at \in {"readOverdue", "recordDebit"}
    PROVE  Fits(c, t, b, d)
BY CoveredIsEnough DEF Fits, Calm, Pending

LEMMA SweptFits ==
    ASSUME NEW c, NEW s, NEW q, CallMeans(c, s, q), NEW t, IsLedger(t), RowsFit(t),
           NEW b \in Nat, NEW d \in Int, Enough(LeftIn(t), t, d, b), NoneDue(t, d)
    PROVE  Fits(Swept(c), t, b, d)
<1>1. PICK x : x = Swept(c)
    OBVIOUS
<1>2. x.at \in {"idle", "readBalance"}
    BY <1>1 DEF Swept, AfterSweep, CallMeans, Idle
<1>3. LeftOf(t) <= b
    BY Undue
<1>4. Fits(x, t, b, d)
    BY <1>2, <1>3 DEF Fits, Pending
<1>. QED
    BY <1>1, <1>4

LEMMA OverdueReadFits ==
    ASSUME IsLedger(txs), RowsFit(txs), day \in Nat, NEW b \in Nat,
           Enough(LeftIn(txs), txs, day, b),
           NEW c, NEW q, CallMeans(c, txs, q), NEW x, x \in OverdueRead(c)
    PROVE  Fits(x, txs, b, day)
<1>1. /\ DOMAIN txs = Rows /\ IsFiniteSet(Rows) /\ Overdue \subseteq Rows
      /\ \A i \in Rows : /\ txs[i].remaining \in Nat /\ txs[i].expires \in Int
                         /\ i \in Overdue <=> txs[i].remaining > 0 /\ txs[i].expires <= day
    BY ActiveAre
<1>2. CASE Overdue = {}
    <2>1. x = Swept(c)
        BY <1>2 DEF OverdueRead
    <2>2. NoneDue(txs, day)
        BY <1>1, <1>2 DEF NoneDue, Rows
    <2>. QED
        BY <2>1, <2>2, SweptFits
<1>3. CASE Overdue # {}
    <2>1. PICK s \in SetToSeqs(Overdue) :
             x = [c EXCEPT !.at = "expire",
                           !.todo = [n \in DOMAIN s |-> [id |-> s[n], left |-> txs[s[n]].remaining]]]
        BY <1>3 DEF OverdueRead
    <2>2. PICK todo : todo = [n \in DOMAIN s |-> [id |-> s[n], left |-> txs[s[n]].remaining]]
        OBVIOUS
    <2>3. x.at = "expire" /\ x.todo = todo
        BY <2>1, <2>2 DEF CallMeans
    <2>4. IsFiniteSet(Overdue)
        BY <1>1, FS_Subset
    <2>5. /\ \A n \in DOMAIN s : s[n] \in Overdue
          /\ \A m, n \in DOMAIN s : s[m] = s[n] => m = n
          /\ \A i \in Overdue : \E n \in DOMAIN s : s[n] = i
        BY <2>4, Listed
    <2>6. /\ DOMAIN todo = DOMAIN s
          /\ \A n \in DOMAIN s : todo[n].id = s[n] /\ todo[n].left = txs[s[n]].remaining
        BY <2>2
    <2>7. ASSUME NEW n \in DOMAIN todo
          PROVE  /\ todo[n].id \in Rows /\ todo[n].left \in Nat
                 /\ txs[todo[n].id].remaining > 0 /\ todo[n].left = txs[todo[n].id].remaining
        <3>1. n \in DOMAIN s /\ s[n] \in Overdue /\ s[n] \in Rows
            BY <1>1, <2>5, <2>6
        <3>. QED
            BY <1>1, <2>6, <3>1
    <2>8. \A m, n \in DOMAIN todo : todo[m].id = todo[n].id => m = n
        BY <2>5, <2>6
    <2>9. ListFits(todo, txs)
        BY <2>7, <2>8 DEF ListFits, Rows
    <2>10. \A i \in Overdue : i \in Named(todo)
        BY <2>5, <2>6 DEF Named
    <2>11. \A i \in 1 .. Len(txs) :
              txs[i].remaining > 0 /\ txs[i].expires <= day => i \in Named(todo)
        BY <1>1, <2>10 DEF Rows
    <2>. QED
        BY <2>3, <2>7, <2>9, <2>11 DEF Fits, Pending
<1>. QED
    BY <1>2, <1>3

LEMMA MovesOn ==
    ASSUME MoneyInv, NEW h \in Slots, NEW x, run' = [run EXCEPT ![h] = x], day' = day,
           Fits(x, txs', wallet'.balance, day)
    PROVE  Fit(h)'
<1>1. run'[h] = x
    BY DEF MoneyInv, CallsMean
<1>. QED
    BY <1>1 DEF Fit

(* A row more: what is left of it is all that it adds.                     *)
LEMMA RowAdds ==
    ASSUME NEW t, IsLedger(t), RowsFit(t), NEW type, NEW amount, NEW remaining \in Nat,
           NEW expires \in Int, NEW status, NEW ref, remaining > 0 => status = "completed",
           NEW row, row = Row(type, amount, remaining, expires, status, ref)
    PROVE  /\ IsLedger(Append(t, row)) /\ OneMore(t, Append(t, row), row)
           /\ RowsFit(Append(t, row)) /\ LeftOf(Append(t, row)) = LeftOf(t) + remaining
<1>1. IsRow(row) /\ row.remaining = remaining /\ row.expires = expires /\ row.status = status
    BY DEF IsRow, Row
<1>2. PICK u : u = Append(t, row)
    OBVIOUS
<1>3. OneMore(t, u, row) /\ IsLedger(u)
    BY <1>1, <1>2, AppendIs DEF OneMore
<1>4. RowsFit(u) /\ LeftOf(u) = LeftOf(t) + row.remaining
    BY <1>1, <1>3, LeftGrows
<1>. QED
    BY <1>1, <1>2, <1>3, <1>4

LEMMA EntryAdds ==
    ASSUME NEW t, IsLedger(t), RowsFit(t), NEW type, NEW amount, NEW status, NEW ref,
           NEW row, row = Row(type, amount, 0, Never, status, ref)
    PROVE  /\ IsLedger(Append(t, row)) /\ OneMore(t, Append(t, row), row)
           /\ row.remaining = 0 /\ row.expires \in Int
           /\ RowsFit(Append(t, row)) /\ LeftOf(Append(t, row)) = LeftOf(t)
<1>1. PICK none, e : none = 0 /\ e = Never
    OBVIOUS
<1>2. none \in Nat /\ e \in Int /\ (none > 0 => status = "completed")
    BY <1>1, WalletAssumption DEF Never
<1>3. row = Row(type, amount, none, e, status, ref)
    BY <1>1
<1>4. /\ IsLedger(Append(t, row)) /\ OneMore(t, Append(t, row), row)
      /\ RowsFit(Append(t, row)) /\ LeftOf(Append(t, row)) = LeftOf(t) + none
    BY <1>2, <1>3, RowAdds
<1>5. row.remaining = none /\ row.expires = e
    BY <1>3 DEF Row
<1>. QED
    BY <1>1, <1>2, <1>4, <1>5, LeftIs

(* A credit less: a row keeps all but what is left of it.                  *)
IsCredit(t, k) == IsLedger(t) /\ RowsFit(t) /\ k \in 1 .. Len(t) /\ t[k].remaining > 0

UsedTo(t, k, n, u) ==
    /\ IsLedger(u) /\ Len(u) = Len(t) /\ RowsFit(u)
    /\ LeftOf(u) = LeftOf(t) - t[k].remaining + n
    /\ \A i \in 1 .. Len(t) : /\ u[i].remaining = IF i = k THEN n ELSE t[i].remaining
                              /\ u[i].expires = t[i].expires

LEMMA RowUsed ==
    ASSUME NEW t, NEW k, IsCredit(t, k), NEW n \in Nat, NEW u, u = [t EXCEPT ![k].remaining = n]
    PROVE  UsedTo(t, k, n, u)
<1>. USE DEF IsCredit
<1>1. PICK l : l = Len(t)
    OBVIOUS
<1>2. l \in Nat /\ t = [i \in 1 .. l |-> t[i]] /\ \A i \in 1 .. l : IsRow(t[i])
    BY <1>1 DEF IsLedger
<1>3. PICK old, new : old = t[k] /\ new = [t[k] EXCEPT !.remaining = n]
    OBVIOUS
<1>4. u = [i \in 1 .. l |-> IF i = k THEN new ELSE t[i]]
    BY <1>1, <1>2, <1>3
<1>5. /\ IsRow(new) /\ new.remaining = n /\ new.expires = old.expires /\ new.status = old.status
    <2>1. IsRow(old) /\ new = [old EXCEPT !.remaining = n]
        BY <1>1, <1>2, <1>3
    <2>. QED
        BY <2>1, RowKept DEF IsRow, Row
<1>6. Len(u) = l
    BY <1>2, <1>4
<1>7. IsLedger(u)
    <2>1. \A i \in 1 .. l : IsRow(u[i])
        BY <1>2, <1>4, <1>5
    <2>2. u = [i \in 1 .. l |-> u[i]]
        BY <1>4
    <2>. QED
        BY <1>2, <1>6, <2>1, <2>2 DEF IsLedger
<1>8. \A i \in 1 .. l : /\ u[i].remaining = IF i = k THEN n ELSE t[i].remaining
                        /\ u[i].expires = t[i].expires /\ u[i].status = t[i].status
    BY <1>3, <1>4, <1>5
<1>9. RowsFit(u)
    BY <1>1, <1>6, <1>8 DEF RowsFit
<1>10. LeftOf(u) = LeftOf(t) - t[k].remaining + u[k].remaining
    <2>1. Len(u) = Len(t) /\ \A i \in 1 .. Len(t) : i # k => u[i].remaining = t[i].remaining
        BY <1>1, <1>6, <1>8
    <2>. QED
        BY <1>7, <1>9, <2>1, LeftChanges
<1>. QED
    BY <1>1, <1>6, <1>7, <1>8, <1>9, <1>10 DEF UsedTo

LEMMA ListGoesOn ==
    ASSUME NEW T, NEW todo \in Seq(T), todo # <<>>, NEW t, ListFits(todo, t)
    PROVE  /\ 1 \in DOMAIN todo /\ Head(todo) = todo[1]
           /\ \A n \in DOMAIN Tail(todo) : /\ n + 1 \in DOMAIN todo /\ Tail(todo)[n] = todo[n + 1]
                                           /\ todo[n + 1].id # todo[1].id
           /\ \A m, n \in DOMAIN Tail(todo) : Tail(todo)[m].id = Tail(todo)[n].id => m = n
           /\ \A i \in Named(todo) : i = todo[1].id \/ i \in Named(Tail(todo))
<1>1. PICK rest, k : rest = Tail(todo) /\ k = Len(todo)
    OBVIOUS
<1>2. k \in Nat /\ k >= 1 /\ DOMAIN todo = 1 .. k /\ Head(todo) = todo[1]
    BY <1>1
<1>3. DOMAIN rest = 1 .. (k - 1) /\ \A n \in 1 .. (k - 1) : rest[n] = todo[n + 1]
    BY <1>1, <1>2
<1>4. \A m, n \in DOMAIN todo : todo[m].id = todo[n].id => m = n
    BY DEF ListFits
<1>5. \A n \in DOMAIN rest : n + 1 \in DOMAIN todo /\ n + 1 # 1 /\ rest[n] = todo[n + 1]
    BY <1>2, <1>3
<1>6. \A n \in DOMAIN rest : todo[n + 1].id # todo[1].id
    BY <1>2, <1>4, <1>5
<1>7. ASSUME NEW m \in DOMAIN rest, NEW n \in DOMAIN rest, rest[m].id = rest[n].id
      PROVE  m = n
    <2>1. m + 1 = n + 1
        BY <1>4, <1>5, <1>7
    <2>. QED
        BY <1>2, <1>3, <2>1
<1>8. ASSUME NEW i \in Named(todo), i # todo[1].id PROVE i \in Named(rest)
    <2>1. PICK n \in DOMAIN todo : i = todo[n].id
        BY DEF Named
    <2>2. n - 1 \in DOMAIN rest /\ (n - 1) + 1 = n
        <3>1. n # 1 /\ n \in 1 .. k
            BY <1>2, <1>8, <2>1
        <3>. QED
            BY <1>2, <1>3, <3>1
    <2>. QED
        BY <1>5, <2>1, <2>2 DEF Named
<1>. QED
    BY <1>1, <1>2, <1>5, <1>6, <1>7, <1>8

-----------------------------------------------------------------------------
(* Every step of a call that is alone keeps the credits covered. *)

LEMMA FitMeans ==
    ASSUME MoneyInv, WalletInv, NEW h \in Slots, Fit(h)
    PROVE  /\ IsLedger(txs) /\ RowsFit(txs) /\ LeftOf(txs) \in Nat
           /\ wallet.balance \in Nat /\ day \in Nat
           /\ CallMeans(run[h], txs, requests) /\ run[h].amount \in Nat
           /\ run[h].at \notin Pending => LeftOf(txs) <= wallet.balance
           /\ run[h] = Idle => LeftOf(txs) <= wallet.balance
<1>1. IsLedger(txs) /\ day \in Nat
    BY DEF WalletInv, MoneyInv
<1>2. RowsFit(txs) /\ wallet.balance \in Nat
    BY DEF Fit, Fits
<1>3. LeftOf(txs) \in Nat
    BY <1>1, <1>2, LeftIs
<1>4. CallMeans(run[h], txs, requests) /\ run[h].amount \in Nat
    BY AlikeItself DEF CallMeans
<1>5. run[h].at \notin Pending => LeftOf(txs) <= wallet.balance
    BY DEF Fit, Fits
<1>6. run[h] = Idle => run[h].at = "idle"
    BY DEF Idle
<1>7. "idle" \notin Pending
    BY DEF Pending
<1>. QED
    BY <1>1, <1>2, <1>3, <1>4, <1>5, <1>6, <1>7

(* A call waits, or gets money, and no row changes.                        *)
LEMMA RestsFitting ==
    ASSUME MoneyInv, WalletInv, NEW h \in Slots, Fit(h), LeftOf(txs) <= wallet.balance,
           NEW x, run' = [run EXCEPT ![h] = x], day' = day, txs' = txs,
           wallet'.balance \in Int, wallet'.balance >= wallet.balance,
           Calm(x) \/ x.at \in {"readOverdue", "recordDebit"}
    PROVE  Fit(h)'
<1>1. RowsFit(txs') /\ wallet'.balance \in Nat /\ LeftOf(txs') <= wallet'.balance
    BY FitMeans
<1>2. PICK b, t : b = wallet'.balance /\ t = txs'
    OBVIOUS
<1>3. Fits(x, t, b, day)
    BY <1>1, <1>2, CalmFits
<1>. QED
    BY <1>2, <1>3, MovesOn

LEMMA OverdueReadKeeps ==
    ASSUME MoneyInv, WalletInv, NEW h \in Slots, Fit(h),
           NEW c, NEW q, CallMeans(c, txs, q), NEW x, x \in OverdueRead(c),
           Enough(LeftIn(txs), txs, day, wallet.balance),
           run' = [run EXCEPT ![h] = x], day' = day, txs' = txs, wallet' = wallet
    PROVE  Fit(h)'
<1>1. PICK b : b = wallet.balance
    OBVIOUS
<1>2. Fits(x, txs, b, day)
    BY <1>1, FitMeans, OverdueReadFits
<1>. QED
    BY <1>1, <1>2, MovesOn

LEMMA ExpireKeeps ==
    ASSUME MoneyInv, WalletInv, NEW h \in Slots, Fit(h), Expire(h)
    PROVE  Fit(h)'
<1>1. PICK c, todo, rest, k, n : /\ c = run[h] /\ todo = c.todo /\ rest = Tail(todo)
                                 /\ k = todo[1].id /\ n = todo[1].left
    OBVIOUS
<1>2. /\ IsLedger(txs) /\ RowsFit(txs) /\ LeftOf(txs) \in Nat /\ wallet.balance \in Nat
      /\ day \in Nat /\ CallMeans(c, txs, requests)
    BY <1>1, FitMeans
<1>3. c.at = "expire"
    BY <1>1 DEF Expire, At
<1>4. todo \in Seq([id : Int, left : Int]) /\ todo # <<>>
    BY <1>1, <1>2, <1>3 DEF CallMeans
<1>5. /\ ListFits(todo, txs)
      /\ \A m \in DOMAIN todo : todo[m].left = txs[todo[m].id].remaining
      /\ \A i \in 1 .. Len(txs) :
            txs[i].remaining > 0 /\ txs[i].expires <= day => i \in Named(todo)
      /\ Enough(LeftIn(txs), txs, day, wallet.balance)
    BY <1>1, <1>3 DEF Fit, Fits
<1>6. /\ 1 \in DOMAIN todo /\ Head(todo) = todo[1]
      /\ \A m \in DOMAIN rest : /\ m + 1 \in DOMAIN todo /\ rest[m] = todo[m + 1]
                                /\ todo[m + 1].id # k
      /\ \A m, l \in DOMAIN rest : rest[m].id = rest[l].id => m = l
      /\ \A i \in Named(todo) : i = k \/ i \in Named(rest)
    <2>1. PICK T : T = [id : Int, left : Int]
        OBVIOUS
    <2>2. todo \in Seq(T)
        BY <1>4, <2>1
    <2>3. /\ 1 \in DOMAIN todo /\ Head(todo) = todo[1]
          /\ \A m \in DOMAIN Tail(todo) :
                /\ m + 1 \in DOMAIN todo /\ Tail(todo)[m] = todo[m + 1]
                /\ todo[m + 1].id # todo[1].id
          /\ \A m, l \in DOMAIN Tail(todo) : Tail(todo)[m].id = Tail(todo)[l].id => m = l
          /\ \A i \in Named(todo) : i = todo[1].id \/ i \in Named(Tail(todo))
        BY <1>4, <1>5, <2>2, ListGoesOn
    <2>. QED
        BY <1>1, <2>3
<1>7. k \in 1 .. Len(txs) /\ txs[k].remaining > 0 /\ n \in Nat /\ n = txs[k].remaining
    BY <1>1, <1>5, <1>6 DEF ListFits
<1>8. PICK none : none = 0
    OBVIOUS
<1>9. PICK u, row, v : /\ u = [txs EXCEPT ![k].remaining = none]
                       /\ row = Entry("expiry", -n, k) /\ v = Append(u, row)
    OBVIOUS
<1>10. PICK x : x = IF rest = <<>> THEN Swept(c) ELSE [c EXCEPT !.todo = rest]
    OBVIOUS
<1>11. /\ txs' = v /\ DebitToZero(n) /\ run' = [run EXCEPT ![h] = x] /\ day' = day
    BY <1>1, <1>6, <1>8, <1>9, <1>10 DEF Expire, Taken, Goto
<1>12. /\ IsLedger(u) /\ Len(u) = Len(txs) /\ RowsFit(u)
       /\ LeftOf(u) = LeftOf(txs) - n
       /\ \A i \in 1 .. Len(txs) : /\ u[i].remaining = IF i = k THEN none ELSE txs[i].remaining
                                   /\ u[i].expires = txs[i].expires
    <2>1. none \in Nat /\ IsCredit(txs, k)
        BY <1>2, <1>7, <1>8 DEF IsCredit
    <2>2. UsedTo(txs, k, none, u)
        BY <1>9, <2>1, RowUsed
    <2>. QED
        BY <1>2, <1>7, <1>8, <2>2 DEF UsedTo
<1>13. /\ IsLedger(v) /\ OneMore(u, v, row) /\ row.remaining = 0 /\ row.expires \in Int
       /\ RowsFit(v) /\ LeftOf(v) = LeftOf(txs) - n
    <2>1. PICK a : a = -n
        OBVIOUS
    <2>2. row = Row("expiry", a, 0, Never, "completed", k)
        BY <1>9, <2>1 DEF Entry
    <2>. QED
        BY <1>9, <1>12, <2>2, EntryAdds
<1>14. PICK len : len = Len(txs)
    OBVIOUS
<1>15. /\ len \in Nat /\ Len(v) = len + 1
       /\ \A i \in 1 .. len : /\ v[i].remaining = IF i = k THEN 0 ELSE txs[i].remaining
                              /\ v[i].expires = txs[i].expires
       /\ v[len + 1].remaining = 0 /\ v[len + 1].expires \in Int
    BY <1>2, <1>8, <1>12, <1>13, <1>14 DEF OneMore, IsLedger
<1>16. \A i \in 1 .. Len(v) : i \in 1 .. len \/ i = len + 1
    BY <1>15
<1>17. PICK b : b = wallet'.balance
    OBVIOUS
<1>18. b \in Nat /\ b >= wallet.balance - n
    <2>1. PICK z, y : z = 0 /\ y = wallet.balance - n
        OBVIOUS
    <2>2. z \in Int /\ y \in Int
        BY <1>2, <1>7, <2>1
    <2>3. b = Max({z, y})
        BY <1>11, <1>17, <2>1 DEF DebitToZero, MoneyInv, IsWallet
    <2>4. Max({z, y}) \in Int /\ Max({z, y}) >= z /\ Max({z, y}) >= y
        BY <2>2, MaxIs
    <2>. QED
        BY <2>1, <2>2, <2>3, <2>4
<1>19. Enough(LeftIn(v), v, day, b)
    <2>1. CASE LeftOf(txs) <= wallet.balance
        <3>1. LeftOf(v) <= b
            BY <1>2, <1>7, <1>13, <1>18, <2>1
        <3>. QED
            BY <3>1, CoveredIsEnough
    <2>2. CASE ~(LeftOf(txs) <= wallet.balance)
        <3>1. \A i \in 1 .. len : LeftIn(txs)[i] > 0 => txs[i].expires <= day
            BY <1>5, <1>14, <2>2 DEF Enough, LeftOf
        <3>2. \A i \in 1 .. len : txs[i].remaining > 0 => txs[i].expires <= day
            BY <1>2, <1>14, <3>1, LeftIs
        <3>3. \A i \in 1 .. Len(v) : v[i].remaining > 0 => v[i].expires <= day
            BY <1>15, <1>16, <3>2
        <3>4. \A i \in 1 .. Len(v) : LeftIn(v)[i] = v[i].remaining
            BY <1>13, LeftIs
        <3>. QED
            BY <3>3, <3>4 DEF Enough
    <2>. QED
        BY <2>1, <2>2
<1>20. \A i \in 1 .. Len(v) : v[i].remaining > 0 /\ v[i].expires <= day => i \in Named(rest)
    BY <1>5, <1>6, <1>14, <1>15, <1>16
<1>21. CASE rest = <<>>
    <2>1. Named(rest) = {}
        BY <1>21 DEF Named
    <2>2. NoneDue(v, day)
        BY <1>2, <1>13, <1>20, <2>1 DEF NoneDue, RowsFit
    <2>3. Fits(Swept(c), v, b, day)
        BY <1>2, <1>13, <1>18, <1>19, <2>2, SweptFits
    <2>. QED
        BY <1>10, <1>11, <1>17, <1>21, <2>3, MovesOn
<1>22. CASE rest # <<>>
    <2>1. x.at = "expire" /\ x.todo = rest
        BY <1>2, <1>3, <1>10, <1>22 DEF CallMeans
    <2>2. ASSUME NEW m \in DOMAIN rest
          PROVE  /\ rest[m].id \in 1 .. Len(v) /\ rest[m].left \in Nat
                 /\ v[rest[m].id].remaining > 0 /\ rest[m].left = v[rest[m].id].remaining
        <3>1. /\ rest[m].id \in 1 .. len /\ rest[m].id # k /\ rest[m].left \in Nat
              /\ txs[rest[m].id].remaining > 0 /\ rest[m].left = txs[rest[m].id].remaining
            BY <1>5, <1>6, <1>14 DEF ListFits
        <3>. QED
            BY <1>15, <3>1
    <2>3. ListFits(rest, v)
        BY <1>6, <2>2 DEF ListFits
    <2>4. Fits(x, v, b, day)
        BY <1>13, <1>18, <1>19, <1>20, <2>1, <2>2, <2>3 DEF Fits, Pending
    <2>. QED
        BY <1>11, <1>17, <2>4, MovesOn
<1>. QED
    BY <1>21, <1>22

LEMMA SweepingKeepsFit ==
    ASSUME MoneyInv, WalletInv, NEW h \in Slots, Fit(h), Sweeping(h)
    PROVE  Fit(h)'
<1>1. CASE SweepAll(h)
    <2>1. PICK x : x = Call("sweep", "readOverdue", 0, 0)
        OBVIOUS
    <2>2. x.at = "readOverdue"
        BY <2>1 DEF Call
    <2>3. /\ run[h] = Idle /\ run' = [run EXCEPT ![h] = x] /\ day' = day
          /\ wallet' = wallet /\ txs' = txs
        BY <1>1, <2>1 DEF SweepAll, Called, Enters
    <2>4. LeftOf(txs) <= wallet.balance /\ wallet'.balance \in Int
          /\ wallet'.balance >= wallet.balance
        BY <2>3, FitMeans
    <2>. QED
        BY <2>2, <2>3, <2>4, RestsFitting
<1>2. CASE Summary(h)
    <2>1. PICK r : r = Call("summary", "readOverdue", 0, 0)
        OBVIOUS
    <2>2. CallMeans(r, txs, requests)
        BY <2>1, Starts DEF Special, Deciding
    <2>3. PICK x \in OverdueRead(r) : run' = [run EXCEPT ![h] = x] /\ day' = day
        BY <1>2, <2>1 DEF Summary, Enters
    <2>4. run[h] = Idle /\ wallet' = wallet /\ txs' = txs
        BY <1>2 DEF Summary, Called
    <2>5. Enough(LeftIn(txs), txs, day, wallet.balance)
        BY <2>4, FitMeans, CoveredIsEnough
    <2>. QED
        BY <2>2, <2>3, <2>4, <2>5, OverdueReadKeeps
<1>3. CASE ListCards(h)
    BY <1>3 DEF ListCards, Fit
<1>4. CASE ReadOverdue(h)
    <2>1. PICK x \in OverdueRead(run[h]) : run' = [run EXCEPT ![h] = x] /\ day' = day
        BY <1>4 DEF ReadOverdue, Goto
    <2>2. wallet' = wallet /\ txs' = txs /\ run[h].at = "readOverdue"
        BY <1>4 DEF ReadOverdue, At
    <2>3. Enough(LeftIn(txs), txs, day, wallet.balance)
        BY <2>2 DEF Fit, Fits
    <2>4. CallMeans(run[h], txs, requests)
        BY FitMeans
    <2>. QED
        BY <2>1, <2>2, <2>3, <2>4, OverdueReadKeeps
<1>5. CASE Expire(h)
    BY <1>5, ExpireKeeps
<1>. QED
    BY <1>1, <1>2, <1>3, <1>4, <1>5 DEF Sweeping

(* A call adds a row, which promises no more than the balance holds.       *)
LEMMA EntryKeepsFit ==
    ASSUME MoneyInv, WalletInv, NEW h \in Slots, Fit(h), NEW x, NEW type, NEW amount,
           NEW status, NEW ref, txs' = Append(txs, Row(type, amount, 0, Never, status, ref)),
           run' = [run EXCEPT ![h] = x], day' = day,
           wallet'.balance \in Int, LeftOf(txs) <= wallet'.balance,
           Calm(x) \/ x.at \in {"readOverdue", "recordDebit"}
    PROVE  Fit(h)'
<1>1. IsLedger(txs) /\ RowsFit(txs) /\ LeftOf(txs) \in Nat
    BY FitMeans
<1>2. PICK row, b, t : /\ row = Row(type, amount, 0, Never, status, ref)
                       /\ b = wallet'.balance /\ t = txs'
    OBVIOUS
<1>3. RowsFit(t) /\ LeftOf(t) = LeftOf(txs)
    BY <1>1, <1>2, EntryAdds
<1>4. b \in Nat /\ LeftOf(t) <= b
    BY <1>1, <1>2, <1>3
<1>5. Fits(x, t, b, day)
    BY <1>3, <1>4, CalmFits
<1>. QED
    BY <1>2, <1>5, MovesOn

LEMMA DatedKeepsFit ==
    ASSUME MoneyInv, WalletInv, NEW h \in Slots, Fit(h), NEW x, NEW type, NEW n \in Nat,
           NEW d \in Validities, NEW ref, Record(DatedCredit(type, n, d, ref)),
           run' = [run EXCEPT ![h] = x], day' = day,
           wallet'.balance \in Int, LeftOf(txs) + n <= wallet'.balance,
           Calm(x) \/ x.at \in {"readOverdue", "recordDebit"}
    PROVE  Fit(h)'
<1>1. IsLedger(txs) /\ RowsFit(txs) /\ LeftOf(txs) \in Nat /\ day \in Nat
    BY FitMeans
<1>2. PICK e, status : e = day + d /\ status = "completed"
    OBVIOUS
<1>3. e \in Int /\ (n > 0 => status = "completed")
    BY <1>1, <1>2, AmountsAre
<1>4. PICK row, b, t : /\ row = Row(type, n, n, e, status, ref)
                       /\ b = wallet'.balance /\ t = txs'
    OBVIOUS
<1>5. t = Append(txs, row)
    BY <1>2, <1>4 DEF Record, DatedCredit
<1>6. RowsFit(t) /\ LeftOf(t) = LeftOf(txs) + n
    BY <1>1, <1>3, <1>4, <1>5, RowAdds
<1>7. b \in Nat /\ LeftOf(t) <= b
    BY <1>1, <1>4, <1>6
<1>8. Fits(x, t, b, day)
    BY <1>6, <1>7, CalmFits
<1>. QED
    BY <1>4, <1>8, MovesOn

LEMMA CallIs ==
    ASSUME NEW call, NEW at, NEW ref, NEW amount
    PROVE  LET x == Call(call, at, ref, amount)
           IN  x.call = call /\ x.at = at /\ x.ref = ref /\ x.amount = amount
BY DEF Call

LEMMA FifoKeepsRows ==
    ASSUME MoneyInv, WalletInv, RowsFit(txs), NEW amount \in Nat, NEW u, u = AfterFifo(amount)
    PROVE  /\ IsLedger(u) /\ Len(u) = Len(txs) /\ RowsFit(u) /\ LeftIn(u) = LeftAfter(amount)
           /\ \A i \in 1 .. Len(txs) : u[i].expires = txs[i].expires
<1>1. IsLedger(txs) /\ day \in Nat /\ DOMAIN txs = 1 .. Len(txs) /\ amount \in Int
    BY DEF WalletInv, MoneyInv, IsLedger
<1>2. IsLedger(u) /\ Len(u) = Len(txs)
    BY <1>1, FifoAlike DEF Alike
<1>3. ASSUME NEW i \in 1 .. Len(txs)
      PROVE  /\ u[i].expires = txs[i].expires /\ u[i].status = txs[i].status
             /\ u[i].remaining = IF i \in Active THEN FifoLeft(i, amount) ELSE txs[i].remaining
    <2>1. PICK old, left : old = txs[i] /\ left = FifoLeft(i, amount)
        OBVIOUS
    <2>2. u[i] = IF i \in Active THEN [old EXCEPT !.remaining = left] ELSE old
        BY <1>1, <2>1 DEF AfterFifo
    <2>3. IsRow(old)
        BY <1>1, <2>1 DEF IsLedger
    <2>4. PICK new : new = [old EXCEPT !.remaining = left]
        OBVIOUS
    <2>5. new.expires = old.expires /\ new.status = old.status /\ new.remaining = left
        BY <2>3, <2>4 DEF IsRow, Row
    <2>. QED
        BY <2>1, <2>2, <2>4, <2>5
<1>4. \A i \in Active : FifoLeft(i, amount) \in Nat /\ txs[i].remaining > 0
    BY <1>1, ActiveAre, FifoLeaves
<1>5. RowsFit(u)
    BY <1>2, <1>3, <1>4 DEF RowsFit
<1>6. LeftIn(u) = LeftAfter(amount)
    <2>1. DOMAIN u = 1 .. Len(txs)
        BY <1>2 DEF IsLedger
    <2>. QED
        BY <1>1, <1>3, <2>1 DEF LeftIn, LeftAfter
<1>. QED
    BY <1>2, <1>3, <1>5, <1>6

LEMMA DebitForOrderKeeps ==
    ASSUME MoneyInv, WalletInv, NEW h \in Slots, Fit(h), DebitForOrder(h)
    PROVE  Fit(h)'
<1>1. PICK n : n = run[h].amount
    OBVIOUS
<1>2. /\ IsLedger(txs) /\ RowsFit(txs) /\ LeftOf(txs) \in Nat /\ wallet.balance \in Nat
      /\ day \in Nat /\ n \in Nat /\ LeftOf(txs) <= wallet.balance
    BY <1>1, FitMeans DEF DebitForOrder, At, Pending
<1>3. NoneDue(txs, day)
    BY DEF DebitForOrder, At, Fit, Fits
<1>4. Calm(Idle) /\ run' = [run EXCEPT ![h] = Idle] /\ day' = day
    BY DEF Calm, Idle, Pending, DebitForOrder, Done, Goto
<1>5. CASE Covers(n)
    <2>1. PICK u, b : u = AfterFifo(n) /\ b = wallet'.balance
        OBVIOUS
    <2>2. /\ wallet'.balance = wallet.balance - n
          /\ txs' = Append(u, Entry("order_payment", n, run[h].ref))
        BY <1>1, <1>2, <1>5, <2>1, Debited DEF DebitForOrder
    <2>3. b \in Nat /\ LeftOf(txs) <= b + n
        BY <1>2, <1>5, <2>1, <2>2 DEF Covers
    <2>4. /\ IsLedger(u) /\ Len(u) = Len(txs) /\ RowsFit(u) /\ LeftIn(u) = LeftAfter(n)
          /\ \A i \in 1 .. Len(txs) : u[i].expires = txs[i].expires
        BY <1>2, <2>1, FifoKeepsRows
    <2>5. Enough(LeftAfter(n), txs, day, b)
        BY <1>2, <2>3, FifoIsEnough
    <2>6. Enough(LeftIn(u), u, day, b)
        <3>1. DOMAIN u = DOMAIN txs
            BY <1>2, <2>4 DEF IsLedger
        <3>. QED
            BY <2>4, <2>5, <3>1 DEF Enough
    <2>7. NoneDue(u, day)
        <3>1. \A i \in 1 .. Len(txs) : u[i].remaining > 0 => txs[i].remaining > 0
            <4>1. \A i \in 1 .. Len(txs) : u[i].remaining = LeftAfter(n)[i]
                BY <2>4, LeftIs
            <4>2. \A i \in 1 .. Len(txs) : i \notin Active => LeftAfter(n)[i] = txs[i].remaining
                BY <1>2 DEF LeftAfter, IsLedger
            <4>3. \A i \in Active : txs[i].remaining > 0
                BY <1>2, ActiveAre
            <4>. QED
                BY <4>1, <4>2, <4>3
        <3>. QED
            BY <1>3, <2>4, <3>1 DEF NoneDue
    <2>8. LeftOf(u) <= b
        BY <1>2, <2>3, <2>4, <2>6, <2>7, Undue
    <2>9. PICK row, t : row = Entry("order_payment", n, run[h].ref) /\ t = txs'
        OBVIOUS
    <2>10. RowsFit(t) /\ LeftOf(t) = LeftOf(u)
        BY <2>2, <2>4, <2>9, EntryAdds DEF Entry
    <2>11. Fits(Idle, t, b, day)
        BY <1>4, <2>3, <2>8, <2>10, CalmFits
    <2>. QED
        BY <1>4, <2>1, <2>9, <2>11, MovesOn
<1>6. CASE ~Covers(n)
    <2>1. wallet' = wallet /\ txs' = txs
        BY <1>1, <1>6 DEF DebitForOrder
    <2>2. wallet'.balance \in Int /\ wallet'.balance >= wallet.balance
        BY <1>2, <2>1
    <2>. QED
        BY <1>2, <1>4, <2>1, <2>2, RestsFitting
<1>. QED
    BY <1>5, <1>6

LEMMA PayingKeepsFit ==
    ASSUME MoneyInv, WalletInv, NEW h \in Slots, Fit(h), Paying(h),
           run'[h].call # "payFull"
    PROVE  Fit(h)'
<1>1. CASE Pay(h)
    <2>1. PICK n \in Amounts : \E x \in OverdueRead(Call("pay", "readOverdue", made + 1, n)) :
                                  Enters(h, x)
        BY <1>1 DEF Pay
    <2>2. PICK r, o : o = made + 1 /\ r = Call("pay", "readOverdue", o, n)
        OBVIOUS
    <2>3. CallMeans(r, txs, requests)
        BY <2>2, Starts, AmountsAre DEF Special, Deciding
    <2>4. PICK x \in OverdueRead(r) : run' = [run EXCEPT ![h] = x] /\ day' = day
        BY <2>1, <2>2 DEF Enters
    <2>5. run[h] = Idle /\ wallet' = wallet /\ txs' = txs
        BY <1>1 DEF Pay, Called
    <2>6. Enough(LeftIn(txs), txs, day, wallet.balance)
        BY <2>5, FitMeans, CoveredIsEnough
    <2>. QED
        BY <2>3, <2>4, <2>5, <2>6, OverdueReadKeeps
<1>2. CASE ReadBalanceToPay(h)
    <2>1. PICK n : n = Min({wallet.balance, run[h].amount})
        OBVIOUS
    <2>2. /\ run[h].at = "readBalance" /\ wallet' = wallet /\ txs' = txs /\ day' = day
          /\ \/ run' = [run EXCEPT ![h] = Idle]
             \/ run' = [run EXCEPT ![h] = [run[h] EXCEPT !.at = "debitTransaction", !.amount = n]]
        BY <1>2, <2>1 DEF ReadBalanceToPay, At, Done, Goto
    <2>3. /\ LeftOf(txs) <= wallet.balance /\ NoneDue(txs, day)
          /\ wallet'.balance \in Int /\ wallet'.balance >= wallet.balance
          /\ RowsFit(txs) /\ wallet.balance \in Nat
        BY <2>2, FitMeans DEF Fit, Fits, Pending
    <2>4. CASE run' = [run EXCEPT ![h] = Idle]
        <3>1. Calm(Idle)
            BY DEF Calm, Idle, Pending
        <3>. QED
            BY <2>2, <2>3, <2>4, <3>1, RestsFitting
    <2>5. CASE run' = [run EXCEPT ![h] = [run[h] EXCEPT !.at = "debitTransaction", !.amount = n]]
        <3>1. PICK x : x = [run[h] EXCEPT !.at = "debitTransaction", !.amount = n]
            OBVIOUS
        <3>2. x.at = "debitTransaction"
            BY <3>1, FitMeans DEF CallMeans
        <3>3. Fits(x, txs, wallet.balance, day)
            BY <2>3, <3>2 DEF Fits, Pending
        <3>. QED
            BY <2>2, <2>5, <3>1, <3>3, MovesOn
    <2>. QED
        BY <2>2, <2>4, <2>5
<1>3. CASE DebitForOrder(h)
    BY <1>3, DebitForOrderKeeps
<1>4. CASE PayInFull(h)
    <2>1. PICK n \in Amounts : Enters(h, Call("payFull", "debitFull", InFull + made + 1, n))
        BY <1>4 DEF PayInFull
    <2>2. PICK r, o : o = InFull + made + 1 /\ r = Call("payFull", "debitFull", o, n)
        OBVIOUS
    <2>3. run'[h] = r /\ r.call = "payFull"
        BY <2>1, <2>2, CallIs DEF Enters, MoneyInv, CallsMean
    <2>. QED
        BY <2>3
<1>5. CASE DebitInFull(h) \/ RecordPayment(h)
    BY <1>5 DEF DebitInFull, RecordPayment, At, Fit, Fits
<1>6. CASE RefundPortion(h)
    <2>1. PICK i \in DOMAIN txs :
             Enters(h, Call("refund", "refundTransaction", txs[i].ref, NetPaid(txs[i].ref)))
        BY <1>6 DEF RefundPortion
    <2>2. PICK r, o, n : /\ o = txs[i].ref /\ n = NetPaid(o)
                         /\ r = Call("refund", "refundTransaction", o, n)
        OBVIOUS
    <2>3. r.at = "refundTransaction"
        BY <2>2, CallIs
    <2>4. /\ run[h] = Idle /\ run' = [run EXCEPT ![h] = r] /\ day' = day
          /\ wallet' = wallet /\ txs' = txs
        BY <1>6, <2>1, <2>2 DEF RefundPortion, Called, Enters
    <2>5. LeftOf(txs) <= wallet.balance /\ wallet'.balance \in Int
          /\ wallet'.balance >= wallet.balance
        BY <2>4, FitMeans
    <2>6. Calm(r)
        BY <2>3 DEF Calm, Pending
    <2>. QED
        BY <2>4, <2>5, <2>6, RestsFitting
<1>7. CASE RefundForOrder(h)
    <2>1. PICK n : n = run[h].amount
        OBVIOUS
    <2>2. n \in Nat /\ run[h].at = "refundTransaction" /\ n \in Int
        BY <1>7, <2>1, FitMeans DEF RefundForOrder, At
    <2>3. LeftOf(txs) <= wallet.balance /\ LeftOf(txs) \in Nat /\ wallet.balance \in Nat
        BY <2>2, FitMeans DEF Pending
    <2>4. PICK d \in Validities : Record(DatedCredit("order_refund", n, d, run[h].ref))
        BY <1>7, <2>1 DEF RefundForOrder
    <2>5. wallet'.balance = wallet.balance + n
        BY <1>7, <2>1, <2>2, Credited DEF RefundForOrder
    <2>6. run' = [run EXCEPT ![h] = Idle] /\ day' = day
        BY <1>7 DEF RefundForOrder, Done, Goto
    <2>7. wallet'.balance \in Int /\ LeftOf(txs) + n <= wallet'.balance
        BY <2>2, <2>3, <2>5
    <2>8. Calm(Idle)
        BY DEF Calm, Idle, Pending
    <2>. QED
        BY <2>2, <2>4, <2>6, <2>7, <2>8, DatedKeepsFit
<1>8. CASE RefundInFull(h)
    <2>1. PICK i \in DOMAIN txs :
             /\ txs[i].type = "order_payment"
             /\ Credit(txs[i].amount)
             /\ Enters(h, Call("refundFull", "recordRefund", txs[i].ref, txs[i].amount))
        BY <1>8 DEF RefundInFull
    <2>2. PICK r, o, n : /\ o = txs[i].ref /\ n = txs[i].amount
                         /\ r = Call("refundFull", "recordRefund", o, n)
        OBVIOUS
    <2>3. r.at = "recordRefund"
        BY <2>2, CallIs
    <2>4. /\ run[h] = Idle /\ run' = [run EXCEPT ![h] = r] /\ day' = day /\ txs' = txs
        BY <1>8, <2>1, <2>2 DEF RefundInFull, Called, Enters
    <2>5. n \in Nat /\ n \in Int
        <3>1. i \in 1 .. Len(txs)
            BY <2>1 DEF WalletInv, IsLedger
        <3>. QED
            BY <2>1, <2>2, <3>1 DEF MoneyInv, RowsMean, RowMeans
    <2>6. wallet'.balance = wallet.balance + n
        BY <2>1, <2>2, <2>5, Credited
    <2>7. LeftOf(txs) <= wallet.balance /\ wallet'.balance \in Int
          /\ wallet'.balance >= wallet.balance
        BY <2>4, <2>5, <2>6, FitMeans
    <2>8. Calm(r)
        BY <2>3 DEF Calm, Pending
    <2>. QED
        BY <2>4, <2>7, <2>8, RestsFitting
<1>9. CASE RecordRefund(h)
    <2>1. PICK n, o : n = run[h].amount /\ o = run[h].ref
        OBVIOUS
    <2>2. /\ run[h].at = "recordRefund" /\ run' = [run EXCEPT ![h] = Idle] /\ day' = day
          /\ wallet' = wallet
          /\ txs' = Append(txs, Row("order_refund", n, 0, Never, "completed", o))
        BY <1>9, <2>1 DEF RecordRefund, At, Record, Entry, Done, Goto
    <2>3. wallet'.balance \in Int /\ LeftOf(txs) <= wallet'.balance
        BY <2>2, FitMeans DEF Pending
    <2>4. Calm(Idle)
        BY DEF Calm, Idle, Pending
    <2>. QED
        BY <2>2, <2>3, <2>4, EntryKeepsFit
<1>. QED
    BY <1>1, <1>2, <1>3, <1>4, <1>5, <1>6, <1>7, <1>8, <1>9 DEF Paying

LEMMA AfterFifoFits ==
    ASSUME NEW t, IsLedger(t), RowsFit(t), NEW b \in Nat, NEW d \in Int,
           Enough(LeftIn(t), t, d, b), NEW call, call = "withdraw" => NoneDue(t, d),
           NEW x, x.at = AfterFifoQuery(call)
    PROVE  Fits(x, t, b, d)
<1>1. CASE call = "withdraw"
    <2>1. LeftOf(t) <= b
        BY <1>1, Undue
    <2>2. Calm(x)
        BY <1>1 DEF AfterFifoQuery, Calm, Pending
    <2>. QED
        BY <2>1, <2>2, CalmFits
<1>2. CASE call # "withdraw"
    <2>1. x.at = "recordDebit"
        BY <1>2 DEF AfterFifoQuery
    <2>. QED
        BY <2>1 DEF Fits, Pending
<1>. QED
    BY <1>1, <1>2

LEMMA PlannedNothing ==
    ASSUME NEW t
    PROVE  Planned(t, <<>>) = LeftIn(t)
<1>1. Named(<<>>) = {}
    BY DEF Named
<1>. QED
    BY <1>1 DEF Planned, LeftIn

LEMMA ReadCreditsKeeps ==
    ASSUME MoneyInv, WalletInv, NEW h \in Slots, Fit(h), ReadCredits(h)
    PROVE  Fit(h)'
<1>1. PICK c, n, b : c = run[h] /\ n = c.amount /\ b = wallet.balance
    OBVIOUS
<1>2. /\ IsLedger(txs) /\ RowsFit(txs) /\ b \in Nat /\ day \in Nat /\ n \in Nat
      /\ CallMeans(c, txs, requests)
    BY <1>1, FitMeans
<1>3. c.at = "readCredits" /\ wallet' = wallet /\ txs' = txs
    BY <1>1 DEF ReadCredits, At
<1>4. LeftOf(txs) <= b + n /\ (c.call = "withdraw" => NoneDue(txs, day))
    BY <1>1, <1>3 DEF Fit, Fits
<1>5. PICK plan \in FifoPlans(n) :
         IF plan = <<>> THEN Becomes(h, AfterFifoQuery(c.call))
         ELSE Goto(h, [c EXCEPT !.at = "useCredit", !.todo = plan])
    BY <1>1 DEF ReadCredits
<1>6. ListFits(plan, txs) /\ Planned(txs, plan) = LeftAfter(n)
    BY <1>2, PlanFits
<1>7. Enough(Planned(txs, plan), txs, day, b)
    BY <1>2, <1>4, <1>6, FifoIsEnough
<1>8. CASE plan = <<>>
    <2>1. PICK x : x = [c EXCEPT !.at = AfterFifoQuery(c.call)]
        OBVIOUS
    <2>2. x.at = AfterFifoQuery(c.call)
        BY <1>2, <2>1 DEF CallMeans
    <2>3. Enough(LeftIn(txs), txs, day, b)
        BY <1>7, <1>8, PlannedNothing
    <2>4. Fits(x, txs, b, day)
        BY <1>2, <1>4, <2>2, <2>3, AfterFifoFits
    <2>5. run' = [run EXCEPT ![h] = x] /\ day' = day
        BY <1>1, <1>5, <1>8, <2>1 DEF Becomes, Goto
    <2>. QED
        BY <1>1, <1>3, <2>4, <2>5, MovesOn
<1>9. CASE plan # <<>>
    <2>1. PICK x : x = [c EXCEPT !.at = "useCredit", !.todo = plan]
        OBVIOUS
    <2>2. x.at = "useCredit" /\ x.todo = plan /\ x.call = c.call
        BY <1>2, <2>1 DEF CallMeans
    <2>3. Fits(x, txs, b, day)
        BY <1>2, <1>4, <1>6, <1>7, <2>2 DEF Fits, Pending
    <2>4. run' = [run EXCEPT ![h] = x] /\ day' = day
        BY <1>1, <1>5, <1>9, <2>1 DEF Goto
    <2>. QED
        BY <1>1, <1>3, <2>3, <2>4, MovesOn
<1>. QED
    BY <1>8, <1>9

(* A credit that is used up leaves what is planned as it was.              *)
LEMMA UseCreditKeeps ==
    ASSUME MoneyInv, WalletInv, NEW h \in Slots, Fit(h), UseCredit(h)
    PROVE  Fit(h)'
<1>1. PICK c, todo, rest, k, n, b : /\ c = run[h] /\ todo = c.todo /\ rest = Tail(todo)
                                    /\ k = todo[1].id /\ n = todo[1].left /\ b = wallet.balance
    OBVIOUS
<1>2. /\ IsLedger(txs) /\ RowsFit(txs) /\ b \in Nat /\ day \in Nat
      /\ CallMeans(c, txs, requests)
    BY <1>1, FitMeans
<1>3. c.at = "useCredit" /\ wallet' = wallet
    BY <1>1 DEF UseCredit, At
<1>4. todo \in Seq([id : Int, left : Int]) /\ todo # <<>>
    BY <1>1, <1>2, <1>3 DEF CallMeans
<1>5. /\ ListFits(todo, txs) /\ Enough(Planned(txs, todo), txs, day, b)
      /\ c.call = "withdraw" => NoneDue(txs, day)
    BY <1>1, <1>3 DEF Fit, Fits
<1>6. /\ 1 \in DOMAIN todo /\ Head(todo) = todo[1]
      /\ \A m \in DOMAIN rest : /\ m + 1 \in DOMAIN todo /\ rest[m] = todo[m + 1]
                                /\ todo[m + 1].id # k
      /\ \A m, l \in DOMAIN rest : rest[m].id = rest[l].id => m = l
      /\ \A i \in Named(todo) : i = k \/ i \in Named(rest)
    <2>1. PICK T : T = [id : Int, left : Int]
        OBVIOUS
    <2>2. todo \in Seq(T)
        BY <1>4, <2>1
    <2>3. /\ 1 \in DOMAIN todo /\ Head(todo) = todo[1]
          /\ \A m \in DOMAIN Tail(todo) :
                /\ m + 1 \in DOMAIN todo /\ Tail(todo)[m] = todo[m + 1]
                /\ todo[m + 1].id # todo[1].id
          /\ \A m, l \in DOMAIN Tail(todo) : Tail(todo)[m].id = Tail(todo)[l].id => m = l
          /\ \A i \in Named(todo) : i = todo[1].id \/ i \in Named(Tail(todo))
        BY <1>4, <1>5, <2>2, ListGoesOn
    <2>. QED
        BY <1>1, <2>3
<1>7. k \in 1 .. Len(txs) /\ txs[k].remaining > 0 /\ n \in Nat
    BY <1>1, <1>5, <1>6 DEF ListFits
<1>8. PICK u : u = [txs EXCEPT ![k].remaining = n]
    OBVIOUS
<1>9. PICK x : x = [c EXCEPT !.todo = rest,
                             !.at = IF rest = <<>> THEN AfterFifoQuery(c.call) ELSE @]
    OBVIOUS
<1>10. txs' = u /\ run' = [run EXCEPT ![h] = x] /\ day' = day
    BY <1>1, <1>6, <1>8, <1>9 DEF UseCredit, Goto
<1>11. UsedTo(txs, k, n, u)
    <2>1. IsCredit(txs, k)
        BY <1>2, <1>7 DEF IsCredit
    <2>. QED
        BY <1>7, <1>8, <2>1, RowUsed
<1>12. /\ IsLedger(u) /\ Len(u) = Len(txs) /\ RowsFit(u)
       /\ \A i \in 1 .. Len(txs) : /\ u[i].remaining = IF i = k THEN n ELSE txs[i].remaining
                                   /\ u[i].expires = txs[i].expires
    BY <1>11 DEF UsedTo
<1>13. ASSUME NEW m \in DOMAIN rest
       PROVE  /\ rest[m].id \in 1 .. Len(u) /\ rest[m].left \in Nat
              /\ u[rest[m].id].remaining > 0
    <2>1. /\ rest[m].id \in 1 .. Len(txs) /\ rest[m].id # k /\ rest[m].left \in Nat
          /\ txs[rest[m].id].remaining > 0
        BY <1>5, <1>6 DEF ListFits
    <2>. QED
        BY <1>12, <2>1
<1>14. ListFits(rest, u)
    BY <1>6, <1>13 DEF ListFits
<1>15. Planned(u, rest) = Planned(txs, todo)
    <2>1. PICK f, g, D : f = Planned(txs, todo) /\ g = Planned(u, rest) /\ D = 1 .. Len(txs)
        OBVIOUS
    <2>2. /\ f = [i \in D |-> f[i]]
          /\ \A m \in DOMAIN todo : f[todo[m].id] = todo[m].left
          /\ \A i \in D : i \notin Named(todo) => f[i] = txs[i].remaining
        BY <1>2, <1>5, <2>1, PlannedIs
    <2>3. /\ g = [i \in D |-> g[i]]
          /\ \A m \in DOMAIN rest : g[rest[m].id] = rest[m].left
          /\ \A i \in D : i \notin Named(rest) => g[i] = u[i].remaining
        BY <1>12, <1>14, <2>1, PlannedIs
    <2>4. ASSUME NEW i \in D PROVE f[i] = g[i]
        <3>1. CASE i \in Named(rest)
            <4>1. PICK m \in DOMAIN rest : i = rest[m].id
                BY <3>1 DEF Named
            <4>2. m + 1 \in DOMAIN todo /\ rest[m] = todo[m + 1]
                BY <1>6
            <4>3. g[i] = rest[m].left /\ f[i] = todo[m + 1].left
                BY <2>2, <2>3, <4>1, <4>2
            <4>. QED
                BY <4>2, <4>3
        <3>2. CASE i = k
            <4>1. k \notin Named(rest)
                BY <1>6 DEF Named
            <4>2. g[k] = n
                BY <1>7, <1>12, <2>1, <2>3, <4>1
            <4>3. f[k] = n
                BY <1>1, <1>6, <2>2
            <4>. QED
                BY <3>2, <4>2, <4>3
        <3>3. CASE i \notin Named(rest) /\ i # k
            <4>1. i \notin Named(todo)
                BY <1>6, <3>3
            <4>2. u[i].remaining = txs[i].remaining
                BY <1>12, <2>1, <3>3
            <4>. QED
                BY <2>2, <2>3, <3>3, <4>1, <4>2
        <3>. QED
            BY <3>1, <3>2, <3>3
    <2>. QED
        BY <2>1, <2>2, <2>3, <2>4
<1>16. Enough(Planned(u, rest), u, day, b)
    <2>1. DOMAIN u = DOMAIN txs
        BY <1>2, <1>12 DEF IsLedger
    <2>. QED
        BY <1>5, <1>12, <1>15, <2>1 DEF Enough
<1>17. c.call = "withdraw" => NoneDue(u, day)
    BY <1>5, <1>7, <1>12 DEF NoneDue
<1>18. x.todo = rest /\ x.call = c.call
       /\ x.at = IF rest = <<>> THEN AfterFifoQuery(c.call) ELSE c.at
    BY <1>2, <1>9 DEF CallMeans
<1>19. Fits(x, u, b, day)
    <2>1. CASE rest = <<>>
        <3>1. Enough(LeftIn(u), u, day, b)
            BY <1>16, <2>1, PlannedNothing
        <3>2. x.at = AfterFifoQuery(c.call)
            BY <1>18, <2>1
        <3>. QED
            BY <1>2, <1>12, <1>17, <3>1, <3>2, AfterFifoFits
    <2>2. CASE rest # <<>>
        <3>1. x.at = "useCredit"
            BY <1>3, <1>18, <2>2
        <3>. QED
            BY <1>2, <1>12, <1>14, <1>16, <1>17, <1>18, <3>1 DEF Fits, Pending
    <2>. QED
        BY <2>1, <2>2
<1>. QED
    BY <1>1, <1>3, <1>10, <1>19, MovesOn

LEMMA RecordDebitKeeps ==
    ASSUME MoneyInv, WalletInv, NEW h \in Slots, Fit(h), RecordDebit(h)
    PROVE  Fit(h)'
<1>1. PICK c, b, n : c = run[h] /\ b = wallet.balance /\ n = -run[h].amount
    OBVIOUS
<1>2. /\ IsLedger(txs) /\ RowsFit(txs) /\ b \in Nat /\ day \in Nat
      /\ CallMeans(c, txs, requests)
    BY <1>1, FitMeans
<1>3. c.at = "recordDebit" /\ wallet' = wallet
    BY <1>1 DEF RecordDebit, At
<1>4. Enough(LeftIn(txs), txs, day, b)
    BY <1>1, <1>3 DEF Fit, Fits
<1>5. PICK row, t : row = Row("adjustment", n, 0, Never, "completed", 0) /\ t = Append(txs, row)
    OBVIOUS
<1>6. PICK x : x = [c EXCEPT !.at = "readOverdue"]
    OBVIOUS
<1>7. txs' = t /\ run' = [run EXCEPT ![h] = x] /\ day' = day /\ x.at = "readOverdue"
    BY <1>1, <1>2, <1>5, <1>6 DEF RecordDebit, Record, Entry, Becomes, Goto, CallMeans
<1>8. /\ IsLedger(t) /\ OneMore(txs, t, row) /\ row.remaining = 0
      /\ RowsFit(t) /\ LeftOf(t) = LeftOf(txs)
    BY <1>2, <1>5, EntryAdds
<1>9. Enough(LeftIn(t), t, day, b)
    <2>1. CASE LeftOf(txs) <= b
        BY <1>8, <2>1, CoveredIsEnough
    <2>2. CASE ~(LeftOf(txs) <= b)
        <3>1. PICK len : len = Len(txs)
            OBVIOUS
        <3>2. \A i \in 1 .. len : LeftIn(txs)[i] > 0 => txs[i].expires <= day
            BY <1>4, <2>2, <3>1 DEF Enough, LeftOf
        <3>3. \A i \in 1 .. len : txs[i].remaining > 0 => txs[i].expires <= day
            BY <1>2, <3>1, <3>2, LeftIs
        <3>4. /\ len \in Nat /\ Len(t) = len + 1 /\ t[len + 1].remaining = 0
              /\ \A i \in 1 .. len : t[i] = txs[i]
            BY <1>2, <1>8, <3>1 DEF OneMore, IsLedger
        <3>5. \A i \in 1 .. Len(t) : t[i].remaining > 0 => t[i].expires <= day
            <4>1. \A i \in 1 .. Len(t) : i \in 1 .. len \/ i = len + 1
                BY <3>4
            <4>. QED
                BY <3>3, <3>4, <4>1
        <3>6. \A i \in 1 .. Len(t) : LeftIn(t)[i] = t[i].remaining
            BY <1>8, LeftIs
        <3>. QED
            BY <3>5, <3>6 DEF Enough
    <2>. QED
        BY <2>1, <2>2
<1>10. Fits(x, t, b, day)
    BY <1>2, <1>7, <1>8, <1>9 DEF Fits, Pending
<1>. QED
    BY <1>1, <1>3, <1>7, <1>10, MovesOn

(* The status of a row that is not completed says nothing of its credit.   *)
LEMMA RestatedKeepsFit ==
    ASSUME MoneyInv, WalletInv, NEW h \in Slots, Fit(h), LeftOf(txs) <= wallet.balance,
           NEW st, Restated(txs', st),
           \A i \in DOMAIN txs : txs'[i] = txs[i] \/ txs[i].status # "completed",
           NEW x, run' = [run EXCEPT ![h] = x], day' = day, wallet' = wallet, Calm(x)
    PROVE  Fit(h)'
<1>1. IsLedger(txs) /\ RowsFit(txs) /\ wallet.balance \in Nat
    BY FitMeans
<1>2. PICK t, b : t = txs' /\ b = wallet.balance
    OBVIOUS
<1>3. Alike(txs, t)
    BY <1>2, StatusAlike
<1>4. DOMAIN txs = 1 .. Len(txs) /\ IsLedger(t) /\ Len(t) = Len(txs)
    BY <1>1, <1>3 DEF IsLedger, Alike
<1>5. ASSUME NEW i \in 1 .. Len(txs)
      PROVE  /\ t[i].remaining = txs[i].remaining /\ t[i].expires = txs[i].expires
             /\ t[i].remaining > 0 => t[i].status = "completed"
    <2>1. CASE t[i] = txs[i]
        BY <1>1, <2>1 DEF RowsFit
    <2>2. CASE t[i] # txs[i]
        <3>1. PICK old, new : old = txs[i] /\ new = [old EXCEPT !.status = st]
            OBVIOUS
        <3>2. t[i] = new /\ old.status # "completed"
            BY <1>2, <1>4, <2>2, <3>1 DEF Restated
        <3>3. IsRow(old)
            BY <1>1, <3>1 DEF IsLedger
        <3>4. new.remaining = old.remaining /\ new.expires = old.expires
            BY <3>1, <3>3 DEF IsRow, Row
        <3>5. ~(old.remaining > 0)
            BY <1>1, <3>1, <3>2 DEF RowsFit
        <3>. QED
            BY <3>1, <3>2, <3>4, <3>5
    <2>. QED
        BY <2>1, <2>2
<1>6. RowsFit(t)
    BY <1>1, <1>4, <1>5 DEF RowsFit
<1>7. LeftOf(t) = LeftOf(txs)
    BY <1>1, <1>4, <1>5, SameLeft
<1>8. Fits(x, t, b, day)
    BY <1>1, <1>2, <1>6, <1>7, CalmFits
<1>. QED
    BY <1>2, <1>8, MovesOn

LEMMA RequestKeepsFit ==
    ASSUME MoneyInv, WalletInv, NEW h \in Slots, Fit(h), LeftOf(txs) <= wallet.balance,
           NEW ref, NEW st, txs' = RowsOfRequest(ref, st),
           NEW x, run' = [run EXCEPT ![h] = x], day' = day, wallet' = wallet, Calm(x)
    PROVE  Fit(h)'
<1>1. Restated(txs', st)
    BY DEF Restated, RowsOfRequest
<1>2. \A i \in DOMAIN txs : txs'[i] = txs[i] \/ txs[i].status # "completed"
    BY DEF RowsOfRequest
<1>. QED
    BY <1>1, <1>2, RestatedKeepsFit

LEMMA BecomesCalm ==
    ASSUME MoneyInv, WalletInv, NEW h \in Slots, NEW at, Becomes(h, at),
           at \notin Pending \cup {"readBalance", "debitTransaction", "deduct"}
    PROVE  \E x : run' = [run EXCEPT ![h] = x] /\ day' = day /\ Calm(x)
<1>1. PICK c, x : c = run[h] /\ x = [c EXCEPT !.at = at]
    OBVIOUS
<1>2. CallMeans(c, txs, requests)
    BY <1>1, AlikeItself
<1>3. x.at = at
    BY <1>1, <1>2 DEF CallMeans
<1>4. Calm(x)
    BY <1>3 DEF Calm
<1>5. run' = [run EXCEPT ![h] = x] /\ day' = day
    BY <1>1 DEF Becomes, Goto
<1>. QED
    BY <1>4, <1>5

LEMMA DoneIsCalm ==
    ASSUME NEW h, Done(h)
    PROVE  run' = [run EXCEPT ![h] = Idle] /\ day' = day /\ Calm(Idle)
BY DEF Done, Goto, Calm, Idle, Pending

LEMMA DeductKeeps ==
    ASSUME MoneyInv, WalletInv, NEW h \in Slots, Fit(h), Deduct(h), Customer
    PROVE  Fit(h)'
<1>1. PICK c, n, b, a : /\ c = run[h] /\ n = c.amount /\ b = wallet.balance
                        /\ a = wallet'.balance
    OBVIOUS
<1>2. /\ IsLedger(txs) /\ RowsFit(txs) /\ b \in Nat /\ day \in Nat /\ n \in Nat
      /\ CallMeans(c, txs, requests)
    BY <1>1, FitMeans
<1>3. c.at = "deduct" /\ txs' = txs /\ Debit(n)
    BY <1>1 DEF Deduct, At
<1>4. /\ LeftOf(txs) <= b /\ n <= b
      /\ c.call = "withdraw" => NoneDue(txs, day)
    BY <1>1, <1>3 DEF Fit, Fits, Pending
<1>5. n \in Int
    BY <1>2
<1>6. a = b - n
    BY <1>1, <1>3, <1>5, Debited
<1>7. a \in Nat /\ LeftOf(txs) <= a + n
    BY <1>2, <1>4, <1>6
<1>8. PICK x : x = [c EXCEPT !.at = "readCredits"]
    OBVIOUS
<1>9. x.at = "readCredits" /\ x.call = c.call /\ x.amount = n
    BY <1>1, <1>2, <1>8 DEF CallMeans
<1>10. run' = [run EXCEPT ![h] = x] /\ day' = day
    BY <1>1, <1>8 DEF Deduct, Becomes, Goto
<1>11. Fits(x, txs, a, day)
    BY <1>2, <1>4, <1>7, <1>9 DEF Fits, Pending
<1>. QED
    BY <1>1, <1>3, <1>10, <1>11, MovesOn

LEMMA ReadBalanceToWithdrawKeeps ==
    ASSUME MoneyInv, WalletInv, NEW h \in Slots, Fit(h), ReadBalanceToWithdraw(h)
    PROVE  Fit(h)'
<1>1. PICK c, b : c = run[h] /\ b = wallet.balance
    OBVIOUS
<1>2. /\ RowsFit(txs) /\ b \in Nat /\ CallMeans(c, txs, requests)
    BY <1>1, FitMeans
<1>3. c.at = "readBalance" /\ wallet' = wallet /\ txs' = txs
    BY <1>1 DEF ReadBalanceToWithdraw, At
<1>4. LeftOf(txs) <= b /\ NoneDue(txs, day)
    BY <1>1, <1>3 DEF Fit, Fits, Pending
<1>5. CASE Covers(c.amount)
    <2>1. PICK x : x = [c EXCEPT !.at = "deduct"]
        OBVIOUS
    <2>2. x.at = "deduct" /\ x.amount = c.amount /\ c.amount \in Nat
        BY <1>2, <2>1 DEF CallMeans
    <2>3. x.amount <= b
        BY <1>1, <1>2, <1>5, <2>2 DEF Covers
    <2>4. Fits(x, txs, b, day)
        BY <1>2, <1>4, <2>2, <2>3 DEF Fits, Pending
    <2>5. run' = [run EXCEPT ![h] = x] /\ day' = day
        BY <1>1, <1>5, <2>1 DEF ReadBalanceToWithdraw, Becomes, Goto
    <2>. QED
        BY <1>1, <1>3, <2>4, <2>5, MovesOn
<1>6. CASE ~Covers(c.amount)
    <2>1. Done(h)
        BY <1>1, <1>6 DEF ReadBalanceToWithdraw
    <2>2. wallet'.balance \in Int /\ wallet'.balance >= wallet.balance
          /\ LeftOf(txs) <= wallet.balance
        BY <1>1, <1>2, <1>3, <1>4
    <2>3. run' = [run EXCEPT ![h] = Idle] /\ day' = day /\ Calm(Idle)
        BY <2>1, DoneIsCalm
    <2>. QED
        BY <1>3, <2>2, <2>3, RestsFitting
<1>. QED
    BY <1>5, <1>6

LEMMA WithdrawingKeepsFit ==
    ASSUME MoneyInv, WalletInv, NEW h \in Slots, Fit(h), Withdrawing(h), Customer
    PROVE  Fit(h)'
<1>1. CASE Withdraw(h)
    <2>1. PICK n \in Amounts : \E x \in OverdueRead(Call("withdraw", "readOverdue", 0, n)) :
                                  Enters(h, x)
        BY <1>1 DEF Withdraw
    <2>2. PICK r : r = Call("withdraw", "readOverdue", 0, n)
        OBVIOUS
    <2>3. CallMeans(r, txs, requests)
        BY <2>2, Starts, AmountsAre DEF Special, Deciding
    <2>4. PICK x \in OverdueRead(r) : run' = [run EXCEPT ![h] = x] /\ day' = day
        BY <2>1, <2>2 DEF Enters
    <2>5. run[h] = Idle /\ wallet' = wallet /\ txs' = txs
        BY <1>1 DEF Withdraw, Called
    <2>6. Enough(LeftIn(txs), txs, day, wallet.balance)
        BY <2>5, FitMeans, CoveredIsEnough
    <2>. QED
        BY <2>3, <2>4, <2>5, <2>6, OverdueReadKeeps
<1>2. CASE AdjustDebit(h)
    <2>1. PICK n \in Amounts : Covers(n) /\ Enters(h, Call("debit", "deduct", 0, n))
        BY <1>2 DEF AdjustDebit
    <2>2. PICK x : x = Call("debit", "deduct", 0, n)
        OBVIOUS
    <2>3. x.at = "deduct" /\ x.call = "debit" /\ x.amount = n /\ n \in Nat
        BY <2>2, AmountsAre DEF Call
    <2>4. /\ run[h] = Idle /\ run' = [run EXCEPT ![h] = x] /\ day' = day
          /\ wallet' = wallet /\ txs' = txs
        BY <1>2, <2>1, <2>2 DEF AdjustDebit, Called, Enters
    <2>5. /\ RowsFit(txs) /\ wallet.balance \in Nat /\ LeftOf(txs) <= wallet.balance
          /\ n <= wallet.balance
        BY <2>1, <2>3, <2>4, FitMeans DEF Covers
    <2>6. Fits(x, txs, wallet.balance, day)
        BY <2>3, <2>5 DEF Fits, Pending
    <2>. QED
        BY <2>4, <2>6, MovesOn
<1>3. CASE InsertRequest(h)
    <2>1. PICK x : x = [run[h] EXCEPT !.at = "recordWithdrawal", !.ref = Len(requests) + 1]
        OBVIOUS
    <2>2. x.at = "recordWithdrawal"
        BY <2>1, FitMeans DEF CallMeans
    <2>3. /\ run[h].at = "insertRequest" /\ run' = [run EXCEPT ![h] = x] /\ day' = day
          /\ wallet' = wallet /\ txs' = txs
        BY <1>3, <2>1 DEF InsertRequest, At, Goto
    <2>4. LeftOf(txs) <= wallet.balance /\ wallet'.balance \in Int
          /\ wallet'.balance >= wallet.balance
        BY <2>3, FitMeans DEF Pending
    <2>5. Calm(x)
        BY <2>2 DEF Calm, Pending
    <2>. QED
        BY <2>3, <2>4, <2>5, RestsFitting
<1>4. CASE RecordWithdrawal(h)
    <2>1. PICK n, o : n = -run[h].amount /\ o = run[h].ref
        OBVIOUS
    <2>2. /\ run[h].at = "recordWithdrawal" /\ wallet' = wallet
          /\ txs' = Append(txs, Row("withdrawal", n, 0, Never, "pending", o))
        BY <1>4, <2>1 DEF RecordWithdrawal, At, Record
    <2>3. wallet'.balance \in Int /\ LeftOf(txs) <= wallet'.balance
        BY <2>2, FitMeans DEF Pending
    <2>4. run' = [run EXCEPT ![h] = Idle] /\ day' = day /\ Calm(Idle)
        BY <1>4, DoneIsCalm DEF RecordWithdrawal
    <2>. QED
        BY <2>2, <2>3, <2>4, EntryKeepsFit
<1>5. CASE ReadRequest(h)
    <2>1. PICK call \in {"approve", "reject"}, i \in DOMAIN requests :
             /\ Called(h, call) /\ Enters(h, Call(call, "decide", i, requests[i].amount))
             /\ wallet' = wallet /\ txs' = txs
        BY <1>5 DEF ReadRequest
    <2>2. PICK n, x : n = requests[i].amount /\ x = Call(call, "decide", i, n)
        OBVIOUS
    <2>3. x.at = "decide"
        BY <2>2, CallIs
    <2>4. run[h] = Idle /\ run' = [run EXCEPT ![h] = x] /\ day' = day
        BY <2>1, <2>2 DEF Called, Enters
    <2>5. LeftOf(txs) <= wallet.balance /\ wallet'.balance \in Int
          /\ wallet'.balance >= wallet.balance
        BY <2>1, <2>4, FitMeans
    <2>6. Calm(x)
        BY <2>3 DEF Calm, Pending
    <2>. QED
        BY <2>1, <2>4, <2>5, <2>6, RestsFitting
<1>6. CASE Decide(h)
    <2>1. /\ run[h].at = "decide" /\ wallet' = wallet /\ txs' = txs
          /\ Becomes(h, "completeRow") \/ Becomes(h, "giveBack")
        BY <1>6 DEF Decide, At
    <2>2. PICK x : run' = [run EXCEPT ![h] = x] /\ day' = day /\ Calm(x)
        <3>1. CASE Becomes(h, "completeRow")
            BY <3>1, BecomesCalm DEF Pending
        <3>2. CASE Becomes(h, "giveBack")
            BY <3>2, BecomesCalm DEF Pending
        <3>. QED
            BY <2>1, <3>1, <3>2
    <2>3. LeftOf(txs) <= wallet.balance /\ wallet'.balance \in Int
          /\ wallet'.balance >= wallet.balance
        BY <2>1, FitMeans DEF Pending
    <2>. QED
        BY <2>1, <2>2, <2>3, RestsFitting
<1>7. CASE CompleteRow(h)
    <2>1. /\ run[h].at = "completeRow" /\ wallet' = wallet
          /\ txs' = RowsOfRequest(run[h].ref, "completed") /\ Becomes(h, "countWithdrawn")
        BY <1>7 DEF CompleteRow, At
    <2>2. PICK x : run' = [run EXCEPT ![h] = x] /\ day' = day /\ Calm(x)
        BY <2>1, BecomesCalm DEF Pending
    <2>3. LeftOf(txs) <= wallet.balance
        BY <2>1, FitMeans DEF Pending
    <2>. QED
        BY <2>1, <2>2, <2>3, RequestKeepsFit
<1>8. CASE CountWithdrawn(h)
    <2>1. run[h].at = "countWithdrawn" /\ txs' = txs /\ wallet'.balance = wallet.balance
        BY <1>8 DEF CountWithdrawn, At, MoneyInv, IsWallet
    <2>2. run' = [run EXCEPT ![h] = Idle] /\ day' = day /\ Calm(Idle)
        BY <1>8, DoneIsCalm DEF CountWithdrawn
    <2>3. LeftOf(txs) <= wallet.balance /\ wallet'.balance \in Int
          /\ wallet'.balance >= wallet.balance
        BY <2>1, FitMeans DEF Pending
    <2>. QED
        BY <2>1, <2>2, <2>3, RestsFitting
<1>9. CASE GiveBack(h)
    <2>1. PICK n : n = run[h].amount
        OBVIOUS
    <2>2. /\ run[h].at = "giveBack" /\ txs' = txs /\ Credit(n) /\ Becomes(h, "rejectRow")
          /\ n \in Nat /\ n \in Int
        BY <1>9, <2>1, FitMeans DEF GiveBack, At
    <2>3. PICK x : run' = [run EXCEPT ![h] = x] /\ day' = day /\ Calm(x)
        BY <2>2, BecomesCalm DEF Pending
    <2>4. wallet'.balance = wallet.balance + n
        BY <2>2, Credited
    <2>5. LeftOf(txs) <= wallet.balance /\ wallet'.balance \in Int
          /\ wallet'.balance >= wallet.balance
        BY <2>2, <2>4, FitMeans DEF Pending
    <2>. QED
        BY <2>2, <2>3, <2>5, RestsFitting
<1>10. CASE RejectRow(h)
    <2>1. /\ run[h].at = "rejectRow" /\ wallet' = wallet
          /\ txs' = RowsOfRequest(run[h].ref, "rejected")
        BY <1>10 DEF RejectRow, At
    <2>2. run' = [run EXCEPT ![h] = Idle] /\ day' = day /\ Calm(Idle)
        BY <1>10, DoneIsCalm DEF RejectRow
    <2>3. LeftOf(txs) <= wallet.balance
        BY <2>1, FitMeans DEF Pending
    <2>. QED
        BY <2>1, <2>2, <2>3, RequestKeepsFit
<1>. QED
    BY <1>1, <1>2, <1>3, <1>4, <1>5, <1>6, <1>7, <1>8, <1>9, <1>10,
       ReadBalanceToWithdrawKeeps, DeductKeeps, ReadCreditsKeeps, UseCreditKeeps,
       RecordDebitKeeps DEF Withdrawing

LEMMA BecomesAt ==
    ASSUME MoneyInv, WalletInv, NEW h \in Slots, NEW at, Becomes(h, at)
    PROVE  \E x : /\ run' = [run EXCEPT ![h] = x] /\ day' = day
                  /\ x.at = at /\ x.amount = run[h].amount /\ x.call = run[h].call
<1>1. PICK c, x : c = run[h] /\ x = [c EXCEPT !.at = at]
    OBVIOUS
<1>2. CallMeans(c, txs, requests)
    BY <1>1, AlikeItself
<1>3. x.at = at /\ x.amount = c.amount /\ x.call = c.call
    BY <1>1, <1>2 DEF CallMeans
<1>4. run' = [run EXCEPT ![h] = x] /\ day' = day
    BY <1>1 DEF Becomes, Goto
<1>. QED
    BY <1>1, <1>3, <1>4

LEMMA GivenKeepsFit ==
    ASSUME MoneyInv, WalletInv, NEW h \in Slots, Fit(h), LeftOf(txs) <= wallet.balance,
           NEW n \in Nat, NEW type, NEW d \in Validities, NEW ref,
           Earn(n), Record(DatedCredit(type, n, d, ref)),
           NEW x, run' = [run EXCEPT ![h] = x], day' = day, x.at = "readOverdue"
    PROVE  Fit(h)'
<1>1. n \in Int
    OBVIOUS
<1>2. wallet'.balance = wallet.balance + n
    BY <1>1, Credited
<1>3. wallet'.balance \in Int /\ LeftOf(txs) + n <= wallet'.balance
    BY <1>2, FitMeans
<1>. QED
    BY <1>3, DatedKeepsFit

(* A step that changes neither the rows nor the balance.                   *)
LEMMA WaitsFitting ==
    ASSUME MoneyInv, WalletInv, NEW h \in Slots, Fit(h), LeftOf(txs) <= wallet.balance,
           NEW x, run' = [run EXCEPT ![h] = x], day' = day, txs' = txs, wallet' = wallet,
           Calm(x) \/ x.at \in {"readOverdue", "recordDebit"}
    PROVE  Fit(h)'
<1>1. wallet'.balance \in Int /\ wallet'.balance >= wallet.balance
    BY FitMeans
<1>. QED
    BY <1>1, RestsFitting

LEMMA EntersFitting ==
    ASSUME MoneyInv, WalletInv, NEW h \in Slots, Fit(h), NEW kind, Called(h, kind),
           NEW call, NEW at, NEW ref, NEW amount, Enters(h, Call(call, at, ref, amount)),
           txs' = txs, wallet' = wallet,
           at = "readOverdue" \/ at \notin Pending \cup {"readBalance", "debitTransaction", "deduct"}
    PROVE  Fit(h)'
<1>1. PICK x : x = Call(call, at, ref, amount)
    OBVIOUS
<1>2. x.at = at
    BY <1>1, CallIs
<1>3. run[h] = Idle /\ run' = [run EXCEPT ![h] = x] /\ day' = day
    BY <1>1 DEF Called, Enters
<1>4. LeftOf(txs) <= wallet.balance
    BY <1>3, FitMeans
<1>5. Calm(x) \/ x.at \in {"readOverdue", "recordDebit"}
    BY <1>2 DEF Calm
<1>. QED
    BY <1>3, <1>4, <1>5, WaitsFitting

LEMMA EntersIdleFitting ==
    ASSUME MoneyInv, WalletInv, NEW h \in Slots, Fit(h), NEW kind, Called(h, kind),
           Enters(h, Idle), txs' = txs, wallet' = wallet
    PROVE  Fit(h)'
<1>1. run[h] = Idle /\ run' = [run EXCEPT ![h] = Idle] /\ day' = day
    BY DEF Called, Enters
<1>2. LeftOf(txs) <= wallet.balance /\ Calm(Idle)
    BY <1>1, FitMeans DEF Calm, Idle, Pending
<1>. QED
    BY <1>1, <1>2, WaitsFitting

LEMMA RecordCreditKeeps ==
    ASSUME MoneyInv, WalletInv, NEW h \in Slots, Fit(h), RecordCredit(h)
    PROVE  Fit(h)'
<1>1. PICK n : n = run[h].amount
    OBVIOUS
<1>2. run[h].at = "recordCredit" /\ wallet' = wallet /\ n \in Nat
    BY <1>1, FitMeans DEF RecordCredit, At
<1>3. LeftOf(txs) + n <= wallet.balance /\ wallet'.balance \in Int /\ LeftOf(txs) \in Nat
    BY <1>1, <1>2, FitMeans DEF Fit, Fits
<1>4. Becomes(h, "readOverdue")
    BY DEF RecordCredit
<1>5. PICK x : run' = [run EXCEPT ![h] = x] /\ day' = day /\ x.at = "readOverdue"
    BY <1>4, BecomesAt
<1>6. LeftOf(txs) + n <= wallet'.balance /\ LeftOf(txs) <= wallet'.balance
    BY <1>2, <1>3
<1>7. CASE Customer
    <2>1. PICK d \in Validities : Record(DatedCredit("adjustment", n, d, 0))
        BY <1>1, <1>7 DEF RecordCredit
    <2>. QED
        BY <1>2, <1>3, <1>5, <1>6, <2>1, DatedKeepsFit
<1>8. CASE ~Customer
    <2>1. txs' = Append(txs, Row("adjustment", n, 0, Never, "completed", 0))
        BY <1>1, <1>8 DEF RecordCredit, Record, Entry
    <2>. QED
        BY <1>3, <1>5, <1>6, <2>1, EntryKeepsFit
<1>. QED
    BY <1>7, <1>8

LEMMA AdjustCreditExpiryKeeps ==
    ASSUME MoneyInv, WalletInv, NEW h \in Slots, Fit(h), AdjustCreditExpiry(h)
    PROVE  Fit(h)'
<1>1. PICK k \in DOMAIN txs, d \in Validities \cup {0} : txs' = [txs EXCEPT ![k].expires = day + d]
    BY DEF AdjustCreditExpiry
<1>2. /\ run[h] = Idle /\ run' = [run EXCEPT ![h] = Idle] /\ day' = day /\ wallet' = wallet
    BY DEF AdjustCreditExpiry, Called, Enters
<1>3. /\ IsLedger(txs) /\ RowsFit(txs) /\ wallet.balance \in Nat /\ day \in Nat
      /\ LeftOf(txs) <= wallet.balance
    BY <1>2, FitMeans
<1>4. PICK e, u, b : e = day + d /\ u = [txs EXCEPT ![k].expires = e] /\ b = wallet.balance
    OBVIOUS
<1>5. d \in Nat
    BY <1>1, AmountsAre
<1>6. e \in Int /\ txs' = u /\ DOMAIN txs = 1 .. Len(txs)
    BY <1>1, <1>3, <1>4, <1>5 DEF IsLedger
<1>7. IsLedger(u) /\ Len(u) = Len(txs)
    BY <1>4, FieldAlike DEF Alike
<1>8. ASSUME NEW i \in 1 .. Len(txs)
      PROVE  /\ u[i].remaining = txs[i].remaining /\ u[i].status = txs[i].status
             /\ u[i].expires \in Int
    <2>1. PICK old, new : old = txs[i] /\ new = [old EXCEPT !.expires = e]
        OBVIOUS
    <2>2. IsRow(old)
        BY <1>3, <2>1 DEF IsLedger
    <2>3. new.remaining = old.remaining /\ new.status = old.status /\ new.expires = e
        BY <2>1, <2>2 DEF IsRow, Row
    <2>4. u[i] = IF i = k THEN new ELSE old
        BY <1>4, <1>6, <2>1
    <2>5. old.expires \in Int
        BY <1>3, <2>1 DEF RowsFit
    <2>. QED
        BY <1>6, <2>1, <2>3, <2>4, <2>5
<1>9. RowsFit(u)
    BY <1>3, <1>7, <1>8 DEF RowsFit
<1>10. LeftOf(u) = LeftOf(txs)
    BY <1>3, <1>7, <1>8, SameLeft
<1>11. Calm(Idle)
    BY DEF Calm, Idle, Pending
<1>12. Fits(Idle, u, b, day)
    BY <1>3, <1>4, <1>9, <1>10, <1>11, CalmFits
<1>. QED
    BY <1>2, <1>4, <1>6, <1>12, MovesOn

LEMMA CreditingKeepsFit ==
    ASSUME MoneyInv, WalletInv, NEW h \in Slots, Fit(h), Crediting(h)
    PROVE  Fit(h)'
<1>1. CASE AdjustCredit(h)
    <2>1. PICK n \in Amounts : Earn(n) /\ Enters(h, Call("credit", "recordCredit", 0, n))
        BY <1>1 DEF AdjustCredit
    <2>2. PICK x, b : x = Call("credit", "recordCredit", 0, n) /\ b = wallet'.balance
        OBVIOUS
    <2>3. x.at = "recordCredit" /\ x.amount = n /\ n \in Nat /\ n \in Int
        BY <2>2, AmountsAre DEF Call
    <2>4. /\ run[h] = Idle /\ run' = [run EXCEPT ![h] = x] /\ day' = day /\ txs' = txs
        BY <1>1, <2>1, <2>2 DEF AdjustCredit, Called, Enters
    <2>5. /\ RowsFit(txs) /\ LeftOf(txs) \in Nat /\ wallet.balance \in Nat
          /\ LeftOf(txs) <= wallet.balance
        BY <2>4, FitMeans
    <2>6. b = wallet.balance + n
        BY <2>1, <2>2, <2>3, Credited
    <2>7. b \in Nat /\ LeftOf(txs) + n <= b
        BY <2>3, <2>5, <2>6
    <2>8. Fits(x, txs, b, day)
        BY <2>3, <2>5, <2>7 DEF Fits, Pending
    <2>. QED
        BY <2>2, <2>4, <2>8, MovesOn
<1>2. CASE RecordCredit(h)
    BY <1>2, RecordCreditKeeps
<1>3. CASE RestoreCredit(h)
    <2>1. PICK i \in DOMAIN txs, d \in Validities :
             /\ Earn(Size(txs[i].amount))
             /\ Record(DatedCredit("restoration", Size(txs[i].amount), d, i))
        BY <1>3 DEF RestoreCredit
    <2>2. PICK n, x : n = Size(txs[i].amount) /\ x = Call("restoreCredit", "readOverdue", 0, 0)
        OBVIOUS
    <2>3. x.at = "readOverdue"
        BY <2>2, CallIs
    <2>4. run[h] = Idle /\ run' = [run EXCEPT ![h] = x] /\ day' = day
        BY <1>3, <2>2 DEF RestoreCredit, Called, Enters
    <2>5. n \in Nat
        <3>1. i \in 1 .. Len(txs)
            BY <2>1 DEF WalletInv, IsLedger
        <3>2. txs[i].amount \in Int
            BY <3>1 DEF MoneyInv, RowsMean, RowMeans
        <3>. QED
            BY <2>2, <3>2 DEF Size
    <2>6. LeftOf(txs) <= wallet.balance
        BY <2>4, FitMeans
    <2>. QED
        BY <2>1, <2>2, <2>3, <2>4, <2>5, <2>6, GivenKeepsFit
<1>4. CASE AdjustCreditExpiry(h)
    BY <1>4, AdjustCreditExpiryKeeps
<1>5. CASE IssueCard(h) \/ RestoreCard(h)
    <2>1. PICK kind : Called(h, kind) /\ Enters(h, Idle) /\ txs' = txs /\ wallet' = wallet
        BY <1>5 DEF IssueCard, RestoreCard
    <2>. QED
        BY <2>1, EntersIdleFitting
<1>6. CASE Scratch(h)
    <2>1. PICK kind, zero : kind = "scratch" /\ zero = 0
        OBVIOUS
    <2>2. PICK at : at = "readCard"
        OBVIOUS
    <2>3. /\ Called(h, kind) /\ Enters(h, Call(kind, at, zero, zero))
          /\ txs' = txs /\ wallet' = wallet
        BY <1>6, <2>1, <2>2 DEF Scratch
    <2>4. at \notin Pending \cup {"readBalance", "debitTransaction", "deduct"}
        BY <2>2 DEF Pending
    <2>. QED
        BY <2>3, <2>4, EntersFitting
<1>7. CASE ReadCard(h)
    <2>1. /\ run[h].at = "readCard" /\ txs' = txs /\ wallet' = wallet
          /\ Done(h) \/ Becomes(h, "scratchTransaction")
        BY <1>7 DEF ReadCard, At
    <2>2. PICK x : run' = [run EXCEPT ![h] = x] /\ day' = day /\ Calm(x)
        BY <2>1, DoneIsCalm, BecomesCalm DEF Pending
    <2>3. LeftOf(txs) <= wallet.balance
        BY <2>1, FitMeans DEF Pending
    <2>. QED
        BY <2>1, <2>2, <2>3, WaitsFitting
<1>8. CASE ScratchCard(h)
    <2>1. run[h].at = "scratchTransaction" /\ Becomes(h, "readOverdue")
        BY <1>8 DEF ScratchCard, At
    <2>2. PICK x : run' = [run EXCEPT ![h] = x] /\ day' = day /\ x.at = "readOverdue"
        BY <2>1, BecomesAt
    <2>3. LeftOf(txs) <= wallet.balance
        BY <2>1, FitMeans DEF Pending
    <2>4. CASE Scratchable
        <3>1. PICK n \in Amounts, d \in Validities :
                 Record(DatedCredit("scratch_card", n, d, 0)) /\ Earn(n)
            BY <1>8, <2>4 DEF ScratchCard
        <3>2. n \in Nat
            BY AmountsAre
        <3>. QED
            BY <2>2, <2>3, <3>1, <3>2, GivenKeepsFit
    <2>5. CASE ~Scratchable
        <3>1. txs' = txs /\ wallet' = wallet
            BY <1>8, <2>5 DEF ScratchCard
        <3>. QED
            BY <2>2, <2>3, <3>1, WaitsFitting
    <2>. QED
        BY <2>4, <2>5
<1>9. CASE ReadCardToAdjust(h)
    <2>1. PICK d : Enters(h, Call("adjustCard", "writeCard", CardCodes[card.status], day + d))
        BY <1>9 DEF ReadCardToAdjust
    <2>2. PICK kind, at, ref, n : /\ kind = "adjustCard" /\ at = "writeCard"
                                  /\ ref = CardCodes[card.status] /\ n = day + d
        OBVIOUS
    <2>3. /\ Called(h, kind) /\ Enters(h, Call(kind, at, ref, n))
          /\ txs' = txs /\ wallet' = wallet
        BY <1>9, <2>1, <2>2 DEF ReadCardToAdjust
    <2>4. at \notin Pending \cup {"readBalance", "debitTransaction", "deduct"}
        BY <2>2 DEF Pending
    <2>. QED
        BY <2>3, <2>4, EntersFitting
<1>10. CASE AdjustCardExpiry(h)
    <2>1. run[h].at = "writeCard" /\ txs' = txs /\ wallet' = wallet /\ Done(h)
        BY <1>10 DEF AdjustCardExpiry, At
    <2>2. LeftOf(txs) <= wallet.balance
        BY <2>1, FitMeans DEF Pending
    <2>. QED
        BY <2>1, <2>2, DoneIsCalm, WaitsFitting
<1>11. CASE ReadFriend(h)
    <2>1. PICK f, n : Enters(h, Call("reward", "claim", f, n))
        BY <1>11 DEF ReadFriend
    <2>2. PICK kind, at : kind = "reward" /\ at = "claim"
        OBVIOUS
    <2>3. /\ Called(h, kind) /\ Enters(h, Call(kind, at, f, n))
          /\ txs' = txs /\ wallet' = wallet
        BY <1>11, <2>1, <2>2 DEF ReadFriend
    <2>4. at \notin Pending \cup {"readBalance", "debitTransaction", "deduct"}
        BY <2>2 DEF Pending
    <2>. QED
        BY <2>3, <2>4, EntersFitting
<1>12. CASE ClaimReward(h)
    <2>1. run[h].at = "claim"
        BY <1>12 DEF ClaimReward, At
    <2>2. LeftOf(txs) <= wallet.balance /\ run[h].amount \in Nat
        BY <2>1, FitMeans DEF Pending
    <2>3. CASE Claimable(run[h].ref)
        <3>1. PICK n, f : n = run[h].amount /\ f = run[h].ref
            OBVIOUS
        <3>2. PICK d \in Validities : Record(DatedCredit("referral_bonus", n, d, f))
            BY <1>12, <2>3, <3>1 DEF ClaimReward
        <3>3. Earn(n) /\ Becomes(h, "readOverdue")
            BY <1>12, <2>3, <3>1 DEF ClaimReward
        <3>4. PICK x : run' = [run EXCEPT ![h] = x] /\ day' = day /\ x.at = "readOverdue"
            BY <3>3, BecomesAt
        <3>. QED
            BY <2>2, <3>1, <3>2, <3>3, <3>4, GivenKeepsFit
    <2>4. CASE ~Claimable(run[h].ref)
        <3>1. Done(h) /\ txs' = txs /\ wallet' = wallet
            BY <1>12, <2>4 DEF ClaimReward
        <3>. QED
            BY <2>2, <3>1, DoneIsCalm, WaitsFitting
    <2>. QED
        BY <2>3, <2>4
<1>. QED
    BY <1>1, <1>2, <1>3, <1>4, <1>5, <1>6, <1>7, <1>8, <1>9, <1>10, <1>11, <1>12 DEF Crediting

LEMMA ConfirmRowKeeps ==
    ASSUME MoneyInv, WalletInv, NEW h \in Slots, Fit(h), ConfirmRow(h)
    PROVE  Fit(h)'
<1>1. PICK d \in Validities :
          txs' = [txs EXCEPT ![run[h].ref] = [@ EXCEPT !.status = "completed",
                                                       !.remaining = run[h].amount,
                                                       !.expires = day + d]]
    BY DEF ConfirmRow
<1>2. PICK n, k, e, b : n = run[h].amount /\ k = run[h].ref /\ e = day + d /\ b = wallet.balance
    OBVIOUS
<1>3. /\ run[h].at = "confirmRow" /\ wallet' = wallet /\ Becomes(h, "creditCommission")
    BY DEF ConfirmRow, At
<1>4. /\ IsLedger(txs) /\ RowsFit(txs) /\ b \in Nat /\ day \in Nat /\ n \in Nat
      /\ LeftOf(txs) \in Nat /\ LeftOf(txs) <= b /\ CallMeans(run[h], txs, requests)
    BY <1>2, <1>3, FitMeans DEF Pending
<1>5. k \in 1 .. Len(txs) /\ txs[k].type = "affiliate_commission" /\ txs[k].amount = n
    BY <1>2, <1>3, <1>4 DEF CallMeans
<1>6. e \in Int
    BY <1>2, <1>4, AmountsAre
<1>7. PICK old, new : /\ old = txs[k]
                      /\ new = [old EXCEPT !.status = "completed", !.remaining = n, !.expires = e]
    OBVIOUS
<1>8. PICK u : u = [txs EXCEPT ![k] = new]
    OBVIOUS
<1>9. u = Confirmed(k, n, e) /\ txs' = u
    BY <1>1, <1>2, <1>7, <1>8 DEF Confirmed
<1>10. IsLedger(u) /\ Len(u) = Len(txs)
    BY <1>4, <1>5, <1>9, ConfirmedRow DEF Alike
<1>11. new.status = "completed" /\ new.remaining = n /\ new.expires = e
    <2>1. IsRow(old)
        BY <1>4, <1>5, <1>7 DEF IsLedger
    <2>. QED
        BY <1>7, <2>1 DEF IsRow, Row
<1>12. u[k] = new /\ \A i \in 1 .. Len(txs) : i # k => u[i] = txs[i]
    BY <1>4, <1>5, <1>8 DEF IsLedger
<1>13. RowsFit(u)
    BY <1>4, <1>6, <1>10, <1>11, <1>12 DEF RowsFit
<1>14. LeftOf(u) = LeftOf(txs) - txs[k].remaining + u[k].remaining
    <2>1. \A i \in 1 .. Len(txs) : i # k => u[i].remaining = txs[i].remaining
        BY <1>12
    <2>. QED
        BY <1>4, <1>5, <1>10, <1>13, <2>1, LeftChanges
<1>15. txs[k].remaining \in Nat
    BY <1>4, <1>5 DEF RowsFit
<1>16. LeftOf(u) <= b + n
    BY <1>4, <1>11, <1>12, <1>14, <1>15
<1>17. PICK x : /\ run' = [run EXCEPT ![h] = x] /\ day' = day
                /\ x.at = "creditCommission" /\ x.amount = n
    BY <1>2, <1>3, BecomesAt
<1>18. Fits(x, u, b, day)
    BY <1>4, <1>13, <1>16, <1>17 DEF Fits, Pending
<1>. QED
    BY <1>2, <1>3, <1>9, <1>17, <1>18, MovesOn

LEMMA CommissionKeepsFit ==
    ASSUME MoneyInv, WalletInv, NEW h \in Slots, Fit(h), Commission(h)
    PROVE  Fit(h)'
<1>1. CASE RecordPendingCommission(h)
    <2>1. PICK n \in Amounts :
              txs' = Append(txs, Row("affiliate_commission", n, 0, Never, "pending", 0))
        BY <1>1 DEF RecordPendingCommission, Record
    <2>2. run[h] = Idle /\ run' = [run EXCEPT ![h] = Idle] /\ day' = day /\ wallet' = wallet
        BY <1>1 DEF RecordPendingCommission, Called, Enters
    <2>3. wallet'.balance \in Int /\ LeftOf(txs) <= wallet'.balance
        BY <2>2, FitMeans
    <2>4. Calm(Idle)
        BY DEF Calm, Idle, Pending
    <2>. QED
        BY <2>1, <2>2, <2>3, <2>4, EntryKeepsFit
<1>2. CASE CancelPendingCommission(h) \/ RestorePendingCommission(h)
    <2>1. PICK from, to : Turn(from, to) /\ from # "completed"
        BY <1>2 DEF CancelPendingCommission, RestorePendingCommission
    <2>2. run[h] = Idle /\ run' = [run EXCEPT ![h] = Idle] /\ day' = day /\ wallet' = wallet
        BY <1>2 DEF CancelPendingCommission, RestorePendingCommission, Called, Enters
    <2>3. LeftOf(txs) <= wallet.balance /\ Calm(Idle)
        BY <2>2, FitMeans DEF Calm, Idle, Pending
    <2>4. Restated(txs', to)
        BY <2>1 DEF Turn, Restated
    <2>5. \A i \in DOMAIN txs : txs'[i] = txs[i] \/ txs[i].status # "completed"
        BY <2>1 DEF Turn, Commissions
    <2>. QED
        BY <2>2, <2>3, <2>4, <2>5, RestatedKeepsFit
<1>3. CASE Confirm(h)
    <2>1. PICK at, n : Enters(h, Call("confirm", at, 0, n)) /\ at \in {"listPending", "recordCommission"}
        BY <1>3 DEF Confirm
    <2>2. PICK kind, zero : kind = "confirm" /\ zero = 0
        OBVIOUS
    <2>3. Called(h, kind) /\ Enters(h, Call(kind, at, zero, n)) /\ txs' = txs /\ wallet' = wallet
        BY <1>3, <2>1, <2>2 DEF Confirm
    <2>4. at \notin Pending \cup {"readBalance", "debitTransaction", "deduct"}
        BY <2>1 DEF Pending
    <2>. QED
        BY <2>3, <2>4, EntersFitting
<1>4. CASE ListPending(h)
    <2>1. /\ run[h].at = "listPending" /\ txs' = txs /\ wallet' = wallet
          /\ \/ Done(h)
             \/ \E i : Goto(h, [run[h] EXCEPT !.at = "confirmRow", !.ref = i,
                                              !.amount = txs[i].amount])
        BY <1>4 DEF ListPending, At
    <2>2. LeftOf(txs) <= wallet.balance
        BY <2>1, FitMeans DEF Pending
    <2>3. CASE Done(h)
        BY <2>1, <2>2, <2>3, DoneIsCalm, WaitsFitting
    <2>4. ASSUME NEW i, Goto(h, [run[h] EXCEPT !.at = "confirmRow", !.ref = i,
                                               !.amount = txs[i].amount])
          PROVE  Fit(h)'
        <3>1. PICK c, n, x : /\ c = run[h] /\ n = txs[i].amount
                             /\ x = [c EXCEPT !.at = "confirmRow", !.ref = i, !.amount = n]
            OBVIOUS
        <3>2. CallMeans(c, txs, requests)
            BY <3>1, FitMeans
        <3>3. x.at = "confirmRow"
            BY <3>1, <3>2 DEF CallMeans
        <3>4. run' = [run EXCEPT ![h] = x] /\ day' = day /\ Calm(x)
            BY <2>4, <3>1, <3>3 DEF Goto, Calm, Pending
        <3>. QED
            BY <2>1, <2>2, <3>4, WaitsFitting
    <2>. QED
        BY <2>1, <2>3, <2>4
<1>5. CASE ConfirmRow(h)
    BY <1>5, ConfirmRowKeeps
<1>6. CASE RecordCommission(h)
    <2>1. PICK n, b : n = run[h].amount /\ b = wallet.balance
        OBVIOUS
    <2>2. /\ run[h].at = "recordCommission" /\ wallet' = wallet
          /\ Becomes(h, "creditCommission")
        BY <1>6 DEF RecordCommission, At
    <2>3. /\ IsLedger(txs) /\ RowsFit(txs) /\ b \in Nat /\ n \in Nat
          /\ LeftOf(txs) \in Nat /\ LeftOf(txs) <= b
        BY <2>1, <2>2, FitMeans DEF Pending
    <2>4. PICK row, t : /\ row = Row("affiliate_commission", n, 0, Never, "completed", 0)
                        /\ t = Append(txs, row)
        OBVIOUS
    <2>5. txs' = t
        BY <1>6, <2>1, <2>4 DEF RecordCommission, Record, Entry
    <2>6. RowsFit(t) /\ LeftOf(t) = LeftOf(txs)
        BY <2>3, <2>4, EntryAdds
    <2>7. PICK x : /\ run' = [run EXCEPT ![h] = x] /\ day' = day
                   /\ x.at = "creditCommission" /\ x.amount = n
        BY <2>1, <2>2, BecomesAt
    <2>8. LeftOf(t) <= b + n
        BY <2>3, <2>6
    <2>9. Fits(x, t, b, day)
        BY <2>3, <2>6, <2>7, <2>8 DEF Fits, Pending
    <2>. QED
        BY <2>1, <2>2, <2>5, <2>7, <2>9, MovesOn
<1>7. CASE CreditCommission(h)
    <2>1. PICK n, b : n = run[h].amount /\ b = wallet'.balance
        OBVIOUS
    <2>2. run[h].at = "creditCommission" /\ txs' = txs /\ Earn(n) /\ Done(h)
        BY <1>7, <2>1 DEF CreditCommission, At
    <2>3. /\ RowsFit(txs) /\ wallet.balance \in Nat /\ n \in Nat /\ n \in Int
          /\ LeftOf(txs) \in Nat /\ LeftOf(txs) <= wallet.balance + n
        BY <2>1, <2>2, FitMeans DEF Fit, Fits
    <2>4. b = wallet.balance + n
        BY <2>1, <2>2, <2>3, Credited
    <2>5. b \in Nat /\ LeftOf(txs) <= b
        BY <2>3, <2>4
    <2>6. run' = [run EXCEPT ![h] = Idle] /\ day' = day /\ Calm(Idle)
        BY <2>2, DoneIsCalm
    <2>7. Fits(Idle, txs, b, day)
        BY <2>3, <2>5, <2>6, CalmFits
    <2>. QED
        BY <2>1, <2>2, <2>6, <2>7, MovesOn
<1>. QED
    BY <1>1, <1>2, <1>3, <1>4, <1>5, <1>6, <1>7 DEF Commission

-----------------------------------------------------------------------------
(* Calls that do not overlap keep the credits covered. *)

Stepping(h) ==
    Sweeping(h) \/ Paying(h) \/ Withdrawing(h) \/ Crediting(h) \/ Commission(h)

LEMMA OthersWait ==
    ASSUME MoneyInv, NEW h \in Slots, Stepping(h)
    PROVE  \A g \in Slots : g # h => run'[g] = run[g]
<1>1. ASSUME run' = run \/ \E x : run' = [run EXCEPT ![h] = x]
      PROVE  \A g \in Slots : g # h => run'[g] = run[g]
    BY <1>1 DEF MoneyInv, CallsMean
<1>2. CASE Sweeping(h)
    <2>1. run' = run \/ \E x : run' = [run EXCEPT ![h] = x]
        BY <1>2 DEF Sweeping, SweepAll, Summary, ListCards, ReadOverdue, Expire, Enters, Goto
    <2>. QED
        BY <1>1, <2>1
<1>3. CASE Paying(h)
    <2>1. run' = run \/ \E x : run' = [run EXCEPT ![h] = x]
        BY <1>3 DEF Paying, Pay, ReadBalanceToPay, DebitForOrder, PayInFull, DebitInFull,
                    RecordPayment, RefundPortion, RefundForOrder, RefundInFull, RecordRefund,
                    Enters, Becomes, Done, Goto
    <2>. QED
        BY <1>1, <2>1
<1>4. CASE Withdrawing(h)
    <2>1. run' = run \/ \E x : run' = [run EXCEPT ![h] = x]
        BY <1>4 DEF Withdrawing, Withdraw, ReadBalanceToWithdraw, AdjustDebit, Deduct, ReadCredits,
                    UseCredit, InsertRequest, RecordWithdrawal, RecordDebit, ReadRequest, Decide,
                    CompleteRow, CountWithdrawn, GiveBack, RejectRow,
                    Enters, Becomes, Done, Goto
    <2>. QED
        BY <1>1, <2>1
<1>5. CASE Crediting(h)
    <2>1. run' = run \/ \E x : run' = [run EXCEPT ![h] = x]
        BY <1>5 DEF Crediting, AdjustCredit, RecordCredit, RestoreCredit, AdjustCreditExpiry,
                    IssueCard, Scratch, ReadCard, ScratchCard, RestoreCard, ReadCardToAdjust,
                    AdjustCardExpiry, ReadFriend, ClaimReward,
                    Enters, Becomes, Done, Goto
    <2>. QED
        BY <1>1, <2>1
<1>6. CASE Commission(h)
    <2>1. run' = run \/ \E x : run' = [run EXCEPT ![h] = x]
        BY <1>6 DEF Commission, RecordPendingCommission, CancelPendingCommission,
                    RestorePendingCommission, Confirm, ListPending, ConfirmRow, RecordCommission,
                    CreditCommission, Enters, Becomes, Done, Goto
    <2>. QED
        BY <1>1, <2>1
<1>. QED
    BY <1>2, <1>3, <1>4, <1>5, <1>6 DEF Stepping

(* A step of a slot with no call in progress is a new call, or changes     *)
(* nothing but the card.                                                   *)
LEMMA StartsACall ==
    ASSUME MoneyInv, NEW h \in Slots, Stepping(h), run[h] = Idle
    PROVE  made' # made \/ UNCHANGED <<day, wallet, txs, run>>
<1>1. made \in Nat /\ run[h].at = "idle"
    BY DEF MoneyInv, Idle
<1>2. made + 1 # made
    BY <1>1
<1>3. CASE Sweeping(h)
    BY <1>1, <1>2, <1>3 DEF Sweeping, SweepAll, Summary, ListCards, ReadOverdue, Expire, At, Enters
<1>4. CASE Paying(h)
    BY <1>1, <1>2, <1>4
       DEF Paying, Pay, ReadBalanceToPay, DebitForOrder, PayInFull, DebitInFull, RecordPayment,
           RefundPortion, RefundForOrder, RefundInFull, RecordRefund, At, Enters
<1>5. CASE Withdrawing(h)
    BY <1>1, <1>2, <1>5
       DEF Withdrawing, Withdraw, ReadBalanceToWithdraw, AdjustDebit, Deduct, ReadCredits,
           UseCredit, InsertRequest, RecordWithdrawal, RecordDebit, ReadRequest, Decide,
           CompleteRow, CountWithdrawn, GiveBack, RejectRow, At, Enters
<1>6. CASE Crediting(h)
    BY <1>1, <1>2, <1>6
       DEF Crediting, AdjustCredit, RecordCredit, RestoreCredit, AdjustCreditExpiry, IssueCard,
           Scratch, ReadCard, ScratchCard, RestoreCard, ReadCardToAdjust, AdjustCardExpiry,
           ReadFriend, ClaimReward, At, Enters
<1>7. CASE Commission(h)
    BY <1>1, <1>2, <1>7
       DEF Commission, RecordPendingCommission, CancelPendingCommission, RestorePendingCommission,
           Confirm, ListPending, ConfirmRow, RecordCommission, CreditCommission, At, Enters
<1>. QED
    BY <1>3, <1>4, <1>5, <1>6, <1>7 DEF Stepping

LEMMA StepKeepsFit ==
    ASSUME MoneyInv, WalletInv, NEW h \in Slots, Fit(h), Stepping(h), Customer,
           run'[h].call # "payFull"
    PROVE  Fit(h)'
BY SweepingKeepsFit, PayingKeepsFit, WithdrawingKeepsFit, CreditingKeepsFit, CommissionKeepsFit
   DEF Stepping

LEMMA CoverStep ==
    ASSUME MoneyInv, WalletInv, CoverInv, [MCNext]_<<vars, alone, dated, revived>>, Customer
    PROVE  CoverInv'
<1>1. CASE UNCHANGED <<vars, alone, dated, revived>>
    BY <1>1 DEF CoverInv, vars, Quiet
<1>2. CASE MCNext
    <2>1. SUFFICES ASSUME alone', dated'
                   PROVE  /\ Quiet' => Fits(Idle, txs', wallet'.balance, day')
                          /\ \A h \in Slots : run'[h] # Idle =>
                                Fits(run'[h], txs', wallet'.balance, day')
                          /\ \A g, h \in Slots : run'[g] # Idle /\ run'[h] # Idle => g = h
        BY DEF CoverInv
    <2>2. /\ alone /\ dated /\ Next
          /\ (made' = made /\ day' = day) \/ Quiet
          /\ \A h \in Slots : run'[h].call # "payFull"
        BY <1>2, <2>1 DEF MCNext
    <2>3. /\ Quiet => Fits(Idle, txs, wallet.balance, day)
          /\ \A h \in Slots : run[h] # Idle => Fit(h)
          /\ \A g, h \in Slots : run[g] # Idle /\ run[h] # Idle => g = h
        BY <2>2 DEF CoverInv, Fit
    <2>4. CASE Tick
        <3>1. run' = run /\ txs' = txs /\ wallet' = wallet /\ day' # day
            BY <2>4 DEF Tick, MoneyInv
        <3>2. Quiet /\ \A h \in Slots : run'[h] = Idle
            BY <2>2, <3>1 DEF Quiet
        <3>3. PICK b, d : b = wallet.balance /\ d = day'
            OBVIOUS
        <3>4. RowsFit(txs) /\ b \in Nat /\ LeftOf(txs) <= b
            BY <2>3, <3>2, <3>3 DEF Fits, Idle, Pending
        <3>5. Calm(Idle)
            BY DEF Calm, Idle, Pending
        <3>6. Fits(Idle, txs, b, d)
            BY <3>4, <3>5, CalmFits
        <3>. QED
            BY <3>1, <3>2, <3>3, <3>6
    <2>5. ASSUME NEW h \in Slots, Stepping(h)
          PROVE  /\ Quiet' => Fits(Idle, txs', wallet'.balance, day')
                 /\ \A g \in Slots : run'[g] # Idle => Fits(run'[g], txs', wallet'.balance, day')
                 /\ \A f, g \in Slots : run'[f] # Idle /\ run'[g] # Idle => f = g
        <3>1. CASE run[h] = Idle /\ UNCHANGED <<day, wallet, txs, run>>
            BY <2>3, <3>1 DEF Quiet, Fit
        <3>2. CASE run[h] # Idle \/ Quiet
            <4>1. Fit(h)
                BY <2>3, <3>2 DEF Quiet, Fit
            <4>2. Fit(h)'
                BY <2>2, <2>5, <4>1, StepKeepsFit
            <4>3. \A g \in Slots : g # h => run[g] = Idle
                BY <2>3, <3>2 DEF Quiet
            <4>4. \A g \in Slots : g # h => run'[g] = Idle
                BY <2>5, <4>3, OthersWait
            <4>5. Quiet' => run'[h] = Idle
                BY DEF Quiet
            <4>. QED
                BY <4>2, <4>4, <4>5 DEF Fit
        <3>3. made' = made \/ Quiet
            BY <2>2
        <3>. QED
            BY <2>5, <3>1, <3>2, <3>3, StartsACall
    <2>. QED
        BY <2>2, <2>4, <2>5 DEF Next, Stepping
<1>. QED
    BY <1>1, <1>2

LEMMA CoverInit == MCInit => CoverInv
<1>. SUFFICES ASSUME MCInit PROVE CoverInv
    OBVIOUS
<1>1. PICK n \in Openings, e \in Validities :
         /\ wallet = [balance |-> n, earned |-> n, withdrawn |-> 0]
         /\ txs = IF n = 0 THEN <<>>
                  ELSE IF Customer THEN <<Row("adjustment", n, n, e, "completed", 0)>>
                  ELSE <<Entry("adjustment", n, 0)>>
    BY DEF MCInit, Init
<1>2. n \in Nat /\ e \in Int
    BY <1>1, WalletAssumption
<1>3. PICK none, t : none = 0 /\ t = <<>>
    OBVIOUS
<1>4. IsLedger(t) /\ RowsFit(t) /\ Len(t) = 0
    BY <1>3 DEF IsLedger, RowsFit
<1>5. LeftOf(t) = 0
    <2>1. PICK f, D : f = LeftIn(t) /\ D = 1 .. Len(t)
        OBVIOUS
    <2>2. D = {}
        BY <1>4, <2>1
    <2>3. LeftOf(t) = SumOf(f, D)
        BY <1>4, <2>1, LeftIs
    <2>. QED
        BY <2>2, <2>3, SumOfNone
<1>6. RowsFit(txs) /\ LeftOf(txs) <= n
    <2>1. CASE n = 0
        BY <1>1, <1>3, <1>4, <1>5, <2>1
    <2>2. CASE n # 0 /\ Customer
        <3>1. PICK row, type, ok, zero : /\ type = "adjustment" /\ ok = "completed" /\ zero = 0
                                         /\ row = Row(type, n, n, e, ok, zero)
            OBVIOUS
        <3>2. n > 0 => ok = "completed"
            BY <3>1
        <3>3. IsLedger(t) /\ RowsFit(t) /\ row = Row(type, n, n, e, ok, zero)
            BY <1>4, <3>1
        <3>5. RowsFit(Append(t, row)) /\ LeftOf(Append(t, row)) = LeftOf(t) + n
            BY <1>2, <3>2, <3>3, RowAdds
        <3>4. txs = Append(t, row)
            BY <1>1, <1>3, <2>2, <3>1
        <3>. QED
            BY <1>2, <1>5, <3>4, <3>5
    <2>3. CASE n # 0 /\ ~Customer
        <3>1. PICK row, type, ok, zero : /\ type = "adjustment" /\ ok = "completed" /\ zero = 0
                                         /\ row = Row(type, n, 0, Never, ok, zero)
            OBVIOUS
        <3>2. IsLedger(t) /\ RowsFit(t) /\ row = Row(type, n, 0, Never, ok, zero)
            BY <1>4, <3>1
        <3>4. RowsFit(Append(t, row)) /\ LeftOf(Append(t, row)) = LeftOf(t)
            BY <3>2, EntryAdds
        <3>3. txs = Append(t, row)
            BY <1>1, <1>3, <2>3, <3>1 DEF Entry
        <3>. QED
            BY <1>2, <1>5, <3>3, <3>4
    <2>. QED
        BY <2>1, <2>2, <2>3
<1>7. Calm(Idle)
    BY DEF Calm, Idle, Pending
<1>8. Fits(Idle, txs, n, day)
    BY <1>2, <1>6, <1>7, CalmFits
<1>9. run = [h \in Slots |-> Idle] /\ wallet.balance = n
    BY <1>1 DEF MCInit, Init
<1>. QED
    BY <1>8, <1>9 DEF CoverInv

LEMMA MoneyInvariant == Spec => []MoneyInv
<1>1. Init => MoneyInv
    BY MoneyInit
<1>2. MoneyInv /\ WalletInv /\ [Next]_vars => MoneyInv'
    BY MoneyStep
<1>. QED
    BY <1>1, <1>2, WalletInvariant, PTL DEF Spec

LEMMA CoverMeans ==
    ASSUME MoneyInv, WalletInv, CoverInv
    PROVE  CreditsCoveredAlone
<1>. SUFFICES ASSUME alone, dated, Quiet
              PROVE  Unspent(Active) + Unspent(Overdue) <= wallet.balance
    BY DEF CreditsCoveredAlone, CreditsCovered
<1>1. Fits(Idle, txs, wallet.balance, day)
    BY DEF CoverInv
<1>2. /\ IsLedger(txs) /\ day \in Nat /\ RowsFit(txs) /\ wallet.balance \in Nat
      /\ LeftOf(txs) <= wallet.balance
    BY <1>1 DEF Fits, Idle, Pending, WalletInv, MoneyInv
<1>3. PICK f, D, A, B : f = LeftIn(txs) /\ D = Rows /\ A = Active /\ B = Overdue
    OBVIOUS
<1>4. IsFiniteSet(D) /\ NatsOn(f, D) /\ LeftOf(txs) = SumOf(f, D)
    BY <1>2, <1>3, LeftIs DEF Rows
<1>5. A \in SUBSET D /\ B \in SUBSET D /\ A \cap B = {}
    <2>1. A \subseteq D /\ B \subseteq D
        BY <1>2, <1>3, ActiveAre
    <2>2. ASSUME NEW i \in A, i \in B PROVE FALSE
        <3>1. txs[i].expires > day /\ txs[i].expires <= day
            BY <1>3, <2>2 DEF Active, Overdue
        <3>2. txs[i].expires \in Int
            BY <1>2, <1>3, <2>1, <2>2, ActiveAre
        <3>. QED
            BY <1>2, <3>1, <3>2
    <2>. QED
        BY <2>1, <2>2
<1>6. SumOf(f, A) + SumOf(f, B) <= SumOf(f, D)
    BY <1>4, <1>5, SumOfParts
<1>7. Unspent(A) = SumOf(f, A) /\ Unspent(B) = SumOf(f, B)
    BY <1>2, <1>3, <1>5, UnspentIs
<1>8. SumOf(f, A) \in Nat /\ SumOf(f, B) \in Nat /\ SumOf(f, D) \in Nat
    BY <1>4, <1>5, SumOfParts
<1>. QED
    BY <1>2, <1>3, <1>4, <1>6, <1>7, <1>8

(* MCWallet.CreditsCoveredAlone: whatever a customer's calls are, one      *)
(* after the other, and as long as nothing is paid in full past the        *)
(* credits, what is left of the valid and of the overdue credits together  *)
(* is in the wallet between calls.                                         *)
THEOREM CreditsAreCovered ==
    ASSUME Customer
    PROVE  MCSpec => []CreditsCoveredAlone
<1>1. MCInit => CoverInv
    BY CoverInit
<1>2. MoneyInv /\ WalletInv /\ CoverInv /\ [MCNext]_<<vars, alone, dated, revived>> => CoverInv'
    BY CoverStep
<1>3. MoneyInv /\ WalletInv /\ CoverInv => CreditsCoveredAlone
    BY CoverMeans
<1>. QED
    BY <1>1, <1>2, <1>3, HistoryOnlyWatches, WalletInvariant, MoneyInvariant, PTL DEF MCSpec
=============================================================================
