-------------------------- MODULE VendorWithdrawal --------------------------
(***************************************************************************)
(* Vendor payout requests (VendorWithdrawalService).  A vendor's balance   *)
(* is derived from the settlements and the request rows, never stored.     *)
(* request() reads the database four times before it inserts its row, and  *)
(* every await lets other requests, settlements and the admin in between,  *)
(* so each read is an action of its own.  Approving and rejecting are      *)
(* single guarded UPDATEs.                                                 *)
(*                                                                         *)
(* Money is in paise.  A request refused before its first read of the      *)
(* request rows (KYC not verified, no payout destination) changes nothing  *)
(* and is a stuttering step.                                               *)
(***************************************************************************)
EXTENDS Integers

CONSTANTS
    Vendors,
    Sessions,        \* executions of request() that may be in progress
    Owner,           \* [Sessions -> Vendors]: whose request a session runs
    Ids,             \* ids of vendor_withdrawals rows (bounds their number)
    Payouts,         \* vendorPayout of one settlement
    Asks,            \* amounts a vendor may type in; WholeBalance is added
    Limits,          \* minimum withdrawal limits the admin may set
    DefaultLimit,    \* DEFAULT_VENDOR_MIN_WITHDRAWAL_LIMIT
    MaxSettlements   \* bound on the settlements written

ASSUME WithdrawalAssumption ==
    /\ Owner \in [Sessions -> Vendors]
    /\ Payouts \subseteq Nat
    /\ Asks \subseteq Nat \ {0}
    /\ Limits \subseteq Nat \ {0}
    /\ DefaultLimit \in Nat \ {0}
    /\ MaxSettlements \in Nat

VARIABLES
    now,       \* settlements written so far; stands for the clock
    earned,    \* [Vendors -> sum of settlements.vendor_payout]
    totals,    \* [Vendors -> sums of the request amounts per open status]
    rows,      \* [Ids -> vendor_withdrawals row, or NoRow]
    minLimit,  \* platform_settings.vendor_min_withdrawal_limit
    req        \* [Sessions -> where its request() call is and what it read]

vars == <<now, earned, totals, rows, minLimit, req>>

WholeBalance == 0    \* request() called without an amount

Decided == {"approved", "rejected"}
NoRow == [status |-> "none"]

(* periodStart = 0 is the null of the first period; a settlement counts   *)
(* into a row when its number is in start+1 .. end.                        *)
Row == [status: {"pending"} \cup Decided, vendor: Vendors, amount: Nat,
        before: Nat, start: Nat, end: Nat]

Reads == {"earned", "byStatus", "minLimit"}

Request == [pc: {"idle", "open", "reading", "insert"}, asked: Nat,
            left: SUBSET Reads, earned: Nat, committed: Nat, limit: Nat,
            start: Nat]

Idle == [pc |-> "idle", asked |-> 0, left |-> {}, earned |-> 0,
         committed |-> 0, limit |-> 0, start |-> 0]

TypeOK ==
    /\ now \in Nat
    /\ earned \in [Vendors -> Nat]
    /\ totals \in [Vendors -> [pending: Nat, approved: Nat]]
    /\ rows \in [Ids -> Row \cup {NoRow}]
    /\ minLimit \in Nat \ {0}
    /\ req \in [Sessions -> Request]

Init ==
    /\ now = 0
    /\ earned = [v \in Vendors |-> 0]
    /\ totals = [v \in Vendors |-> [pending |-> 0, approved |-> 0]]
    /\ rows = [id \in Ids |-> NoRow]
    /\ minLimit = DefaultLimit
    /\ req = [s \in Sessions |-> Idle]

(* The call s is now as r says. *)
Becomes(s, r) == req' = [req EXCEPT ![s] = r]

PendingOf(v) == {id \in Ids : rows[id].status = "pending" /\ rows[id].vendor = v}
ApprovedOf(v) == {id \in Ids : rows[id].status = "approved" /\ rows[id].vendor = v}

-----------------------------------------------------------------------------
(* request(userId, requested) *)

Start(s) ==
    /\ req[s].pc = "idle"
    /\ \E a \in Asks \cup {WholeBalance} :
          Becomes(s, [Idle EXCEPT !.pc = "open", !.asked = a])
    /\ UNCHANGED <<now, earned, totals, rows, minLimit>>

(* The first read: refuse while a request of this vendor is open. *)
CheckOpen(s) ==
    /\ req[s].pc = "open"
    /\ Becomes(s, IF PendingOf(Owner[s]) # {}
                  THEN Idle
                  ELSE [req[s] EXCEPT !.pc = "reading", !.left = Reads])
    /\ UNCHANGED <<now, earned, totals, rows, minLimit>>

(* getBalance and getMinWithdrawalLimit run side by side in Promise.all:   *)
(* their queries reach the database in any order.                          *)
ReadEarned(s) ==
    /\ "earned" \in req[s].left
    /\ Becomes(s, [req[s] EXCEPT !.left = @ \ {"earned"}, !.earned = earned[Owner[s]]])
    /\ UNCHANGED <<now, earned, totals, rows, minLimit>>

ReadByStatus(s) ==
    /\ "byStatus" \in req[s].left
    /\ Becomes(s, [req[s] EXCEPT !.left = @ \ {"byStatus"},
                     !.committed = totals[Owner[s]].approved + totals[Owner[s]].pending])
    /\ UNCHANGED <<now, earned, totals, rows, minLimit>>

ReadMinLimit(s) ==
    /\ "minLimit" \in req[s].left
    /\ Becomes(s, [req[s] EXCEPT !.left = @ \ {"minLimit"}, !.limit = minLimit])
    /\ UNCHANGED <<now, earned, totals, rows, minLimit>>

(* availableBalance as the session computes it from what it read. *)
Available(s) ==
    IF req[s].earned > req[s].committed THEN req[s].earned - req[s].committed ELSE 0

Amount(s) == IF req[s].asked = WholeBalance THEN Available(s) ELSE req[s].asked

(* Mutant: the amount is not compared with the balance. *)
AcceptableAmount(s) ==
    /\ Available(s) > 0
    /\ Amount(s) > 0
    /\ Amount(s) >= req[s].limit

Acceptable(s) ==
    /\ Available(s) > 0
    /\ Available(s) >= req[s].limit
    /\ Amount(s) > 0
    /\ Amount(s) >= req[s].limit
    /\ Amount(s) <= Available(s)

BalanceRead(s) == req[s].pc = "reading" /\ req[s].left = {}

Refuse(s) ==
    /\ BalanceRead(s)
    /\ ~Acceptable(s)
    /\ Becomes(s, Idle)
    /\ UNCHANGED <<now, earned, totals, rows, minLimit>>

(* Mutant: every period starts at the beginning. *)
IsStartOfTime(v, t) == t = 0

(* The period of the request starts where the last approved one ended. *)
IsLastApprovedEnd(v, t) ==
    \/ ApprovedOf(v) = {} /\ t = 0
    \/ /\ \E id \in ApprovedOf(v) : rows[id].end = t
       /\ \A id \in ApprovedOf(v) : rows[id].end <= t

ReadLastApproved(s) ==
    /\ BalanceRead(s)
    /\ Acceptable(s)
    /\ \E t \in 0 .. now :
          /\ IsLastApprovedEnd(Owner[s], t)
          /\ Becomes(s, [req[s] EXCEPT !.pc = "insert", !.start = t])
    /\ UNCHANGED <<now, earned, totals, rows, minLimit>>

(* vendor_withdrawals_one_pending_idx: a second pending row of a vendor is *)
(* a unique violation (23505).                                             *)
IndexAllows(v) == PendingOf(v) = {}

Insert(s) ==
    /\ req[s].pc = "insert"
    /\ IndexAllows(Owner[s])
    /\ \E id \in Ids :
          /\ rows[id] = NoRow
          /\ rows' = [rows EXCEPT ![id] =
                [status |-> "pending", vendor |-> Owner[s], amount |-> Amount(s),
                 before |-> Available(s), start |-> req[s].start, end |-> now]]
    /\ totals' = [totals EXCEPT ![Owner[s]] =
                     [pending |-> @.pending + Amount(s), approved |-> @.approved]]
    /\ Becomes(s, Idle)
    /\ UNCHANGED <<now, earned, minLimit>>

(* "Two taps at once": the insert is refused and the caller told so. *)
InsertConflict(s) ==
    /\ req[s].pc = "insert"
    /\ ~IndexAllows(Owner[s])
    /\ Becomes(s, Idle)
    /\ UNCHANGED <<now, earned, totals, rows, minLimit>>

-----------------------------------------------------------------------------
(* The admin, and the rest of the system *)

(* UPDATE ... WHERE id = ? AND status = 'pending' *)
StillPending(id) == rows[id].status = "pending"

Approve(id) ==
    /\ StillPending(id)
    /\ rows' = [rows EXCEPT ![id].status = "approved"]
    /\ totals' = [totals EXCEPT ![rows[id].vendor] =
                     [pending |-> @.pending - rows[id].amount,
                      approved |-> @.approved + rows[id].amount]]
    /\ UNCHANGED <<now, earned, minLimit, req>>

Reject(id) ==
    /\ StillPending(id)
    /\ rows' = [rows EXCEPT ![id].status = "rejected"]
    /\ totals' = [totals EXCEPT ![rows[id].vendor] =
                     [pending |-> @.pending - rows[id].amount, approved |-> @.approved]]
    /\ UNCHANGED <<now, earned, minLimit, req>>

UpdateMinLimit ==
    /\ minLimit' \in Limits
    /\ UNCHANGED <<now, earned, totals, rows, req>>

(* SettlementService.generateForDeliveredOrder writes one settlement row. *)
Settle(v) ==
    /\ now < MaxSettlements
    /\ now' = now + 1
    /\ \E p \in Payouts : earned' = [earned EXCEPT ![v] = @ + p]
    /\ UNCHANGED <<totals, rows, minLimit, req>>

RequestStep(s) ==
    \/ Start(s) \/ CheckOpen(s)
    \/ ReadEarned(s) \/ ReadByStatus(s) \/ ReadMinLimit(s)
    \/ Refuse(s) \/ ReadLastApproved(s)
    \/ Insert(s) \/ InsertConflict(s)

Next ==
    \/ \E s \in Sessions : RequestStep(s)
    \/ \E id \in Ids : Approve(id) \/ Reject(id)
    \/ UpdateMinLimit
    \/ \E v \in Vendors : Settle(v)

Spec == Init /\ [][Next]_vars

-----------------------------------------------------------------------------
(* Properties *)

(* No vendor has two calls of request() in progress now.                   *)
Serial ==
    \A s, t \in Sessions :
        Owner[s] = Owner[t] /\ req[s].pc # "idle" /\ req[t].pc # "idle" => s = t

(* The partial unique index of vendor_withdrawals: two taps at once leave  *)
(* one open request, whatever the interleaving of the two calls.           *)
OnePending ==
    \A v \in Vendors : \A a, b \in PendingOf(v) : a = b

(* "A pending request holds its amount back, so a vendor can't request the *)
(* same money twice": what was approved and what is waiting never exceeds  *)
(* what the vendor's settlements earned.                                   *)
NeverOverdrawn ==
    \A v \in Vendors : totals[v].approved + totals[v].pending <= earned[v]

(* "This request covers everything since the last approved one": the       *)
(* periods of two approved requests of a vendor never overlap, so an order *)
(* is shown to the admin as paid by one of them only.                      *)
PeriodsDisjoint ==
    \A v \in Vendors : \A a, b \in ApprovedOf(v) :
        a # b => rows[a].end <= rows[b].start \/ rows[b].end <= rows[a].start

(* "decided once by an admin": an approved or rejected request never       *)
(* changes again, however many admins press the button.                    *)
DecidedOnce ==
    [][\A id \in Ids : rows[id].status \in Decided => rows'[id] = rows[id]]_vars

(* The ledger the payout screen promises.                                  *)
Ledger == INSTANCE PayoutLedger WITH
    held <- [v \in Vendors |-> totals[v].pending],
    paidOut <- [v \in Vendors |-> totals[v].approved]

-----------------------------------------------------------------------------
(* The inductive invariants (VendorWithdrawalProofs). *)

(* The pending sum is the amount of the one pending row. *)
PendingIsHeld ==
    \A v \in Vendors :
        /\ PendingOf(v) = {} => totals[v].pending = 0
        /\ \A id \in PendingOf(v) :
              totals[v].pending = rows[id].amount /\ rows[id].amount > 0

(* A request inserts an amount its own reads allowed. *)
InsertIsAcceptable ==
    \A s \in Sessions :
        /\ req[s].pc # "reading" => req[s].left = {}
        /\ req[s].pc = "insert" => Acceptable(s)

(* Inductive whatever calls overlap. *)
TapInv == TypeOK /\ OnePending /\ PendingIsHeld /\ InsertIsAcceptable

(* What a serial request has read is still true of the vendor when it      *)
(* inserts: nothing is pending, the earnings only grew, what was approved  *)
(* is the same, and so is the end of the last approved period.             *)
ReadsStayValid ==
    \A s \in Sessions : req[s].pc \in {"reading", "insert"} =>
        /\ PendingOf(Owner[s]) = {}
        /\ "earned" \notin req[s].left => req[s].earned <= earned[Owner[s]]
        /\ "byStatus" \notin req[s].left =>
              req[s].committed = totals[Owner[s]].approved + totals[Owner[s]].pending

StartFollows ==
    \A s \in Sessions : req[s].pc = "insert" =>
        /\ req[s].start <= now
        /\ \A id \in ApprovedOf(Owner[s]) : rows[id].end <= req[s].start

(* A pending period starts no earlier than every approved one ends. *)
PeriodsFollow ==
    \A v \in Vendors : \A p \in PendingOf(v) : \A a \in ApprovedOf(v) :
        rows[a].end <= rows[p].start

(* Inductive while requests are serial. *)
SerialInv ==
    /\ NeverOverdrawn
    /\ ReadsStayValid
    /\ StartFollows
    /\ PeriodsFollow
    /\ PeriodsDisjoint
=============================================================================
