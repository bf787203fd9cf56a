----------------------- MODULE VendorWithdrawalProofs -----------------------
(***************************************************************************)
(* Proofs about VendorWithdrawal for every set of vendors, requests,       *)
(* amounts and limits.  TapInv holds whatever calls of request() overlap;  *)
(* SerialInv holds as long as no vendor has had two calls in progress at   *)
(* once, which is what the history of MCVendorWithdrawal records.          *)
(*                                                                         *)
(* Then, about Kyc: withdrawals are refused to whoever is not verified, so *)
(* what a vendor's status says matters here.  KycInv holds for any users,  *)
(* documents and calls, as long as the calls do not overlap.               *)
(***************************************************************************)
EXTENDS MCVendorWithdrawal, MCKyc, TLAPS

(* The steps of request() that only read. *)
ReadStep(s) ==
    \/ Start(s) \/ CheckOpen(s)
    \/ ReadEarned(s) \/ ReadByStatus(s) \/ ReadMinLimit(s)
    \/ Refuse(s) \/ ReadLastApproved(s)
    \/ InsertConflict(s)

(* An amount computed from what was read is an amount. *)
LEMMA AmountType ==
    ASSUME TypeOK, NEW s \in Sessions
    PROVE  Amount(s) \in Nat /\ Available(s) \in Nat
  BY DEF TypeOK, Request, Amount, Available

(* A step that only reads writes no row and moves one call. *)
LEMMA ReadStepFrame ==
    ASSUME TypeOK, NEW s \in Sessions, ReadStep(s)
    PROVE  /\ UNCHANGED <<now, earned, totals, rows, minLimit>>
           /\ \E r \in Request : Becomes(s, r)
  <1> DEFINE Frame == UNCHANGED <<now, earned, totals, rows, minLimit>>
             Moves == \E r \in Request : Becomes(s, r)
  <1>0. /\ req[s] \in Request
        /\ earned[Owner[s]] \in Nat
        /\ totals[Owner[s]].approved \in Nat
        /\ totals[Owner[s]].pending \in Nat
        /\ now \in Nat /\ minLimit \in Nat
    BY WithdrawalAssumption DEF TypeOK, WithdrawalAssumption
  <1>i. Idle \in Request
    BY DEF Idle, Request
  <1>1. CASE Start(s)
    <2>1. PICK a \in Asks \cup {WholeBalance} :
             Becomes(s, [Idle EXCEPT !.pc = "open", !.asked = a])
      BY <1>1 DEF Start
    <2>2. a \in Nat
      BY WithdrawalAssumption DEF WithdrawalAssumption, WholeBalance
    <2>3. [Idle EXCEPT !.pc = "open", !.asked = a] \in Request
      BY <2>2, <1>i DEF Request
    <2>4. QED
      BY <1>1, <2>1, <2>3 DEF Start
  <1>2. CASE CheckOpen(s)
    <2>1. [req[s] EXCEPT !.pc = "reading", !.left = Reads] \in Request
      BY <1>0 DEF Request
    <2>2. QED
      BY <1>2, <1>i, <2>1 DEF CheckOpen
  <1>3. CASE ReadEarned(s)
    <2>1. [req[s] EXCEPT !.left = @ \ {"earned"}, !.earned = earned[Owner[s]]] \in Request
      BY <1>0 DEF Request
    <2>2. QED
      BY <1>3, <2>1 DEF ReadEarned
  <1>4. CASE ReadByStatus(s)
    <2>1. totals[Owner[s]].approved + totals[Owner[s]].pending \in Nat
      BY <1>0
    <2>2. [req[s] EXCEPT !.left = @ \ {"byStatus"},
              !.committed = totals[Owner[s]].approved + totals[Owner[s]].pending] \in Request
      BY <1>0, <2>1 DEF Request
    <2>3. QED
      BY <1>4, <2>2 DEF ReadByStatus
  <1>5. CASE ReadMinLimit(s)
    <2>1. [req[s] EXCEPT !.left = @ \ {"minLimit"}, !.limit = minLimit] \in Request
      BY <1>0 DEF Request
    <2>2. QED
      BY <1>5, <2>1 DEF ReadMinLimit
  <1>6. CASE Refuse(s)
    BY <1>6, <1>i DEF Refuse
  <1>7. CASE ReadLastApproved(s)
    <2>1. PICK t \in 0 .. now : Becomes(s, [req[s] EXCEPT !.pc = "insert", !.start = t])
      BY <1>7 DEF ReadLastApproved
    <2>2. t \in Nat
      BY <1>0
    <2>3. [req[s] EXCEPT !.pc = "insert", !.start = t] \in Request
      BY <1>0, <2>2 DEF Request
    <2>4. QED
      BY <1>7, <2>1, <2>3 DEF ReadLastApproved
  <1>8. CASE InsertConflict(s)
    BY <1>8, <1>i DEF InsertConflict
  <1>9. QED
    BY <1>1, <1>2, <1>3, <1>4, <1>5, <1>6, <1>7, <1>8 DEF ReadStep

-----------------------------------------------------------------------------
(* The amount that reaches the INSERT is one the session's reads allow. *)
LEMMA ReadStepAcceptable ==
    ASSUME TypeOK, InsertIsAcceptable, NEW s \in Sessions, ReadStep(s)
    PROVE  InsertIsAcceptable'
  <1>0. req[s] \in Request /\ s \in DOMAIN req
    BY DEF TypeOK
  <1>1. \A t \in Sessions \ {s} : req'[t] = req[t]
    BY ReadStepFrame DEF Becomes, TypeOK
  <1>2. SUFFICES /\ req'[s].pc # "reading" => req'[s].left = {}
                 /\ req'[s].pc = "insert" => Acceptable(s)'
    BY <1>1 DEF InsertIsAcceptable, Acceptable, Available, Amount
  <1>3. CASE Start(s)
    BY <1>0, <1>3 DEF Start, Becomes, Idle, TypeOK
  <1>4. CASE CheckOpen(s)
    BY <1>0, <1>4 DEF CheckOpen, Becomes, Idle, Request, TypeOK
  <1>5. CASE ReadEarned(s)
    BY <1>0, <1>5 DEF ReadEarned, Becomes, Request, TypeOK, InsertIsAcceptable
  <1>6. CASE ReadByStatus(s)
    BY <1>0, <1>6 DEF ReadByStatus, Becomes, Request, TypeOK, InsertIsAcceptable
  <1>7. CASE ReadMinLimit(s)
    BY <1>0, <1>7 DEF ReadMinLimit, Becomes, Request, TypeOK, InsertIsAcceptable
  <1>8. CASE Refuse(s) \/ InsertConflict(s)
    BY <1>0, <1>8 DEF Refuse, InsertConflict, Becomes, Idle, TypeOK
  <1>9. CASE ReadLastApproved(s)
    <2>1. /\ req'[s].left = {}
          /\ req'[s].earned = req[s].earned
          /\ req'[s].committed = req[s].committed
          /\ req'[s].limit = req[s].limit
          /\ req'[s].asked = req[s].asked
      <3>1. PICK t : req' = [req EXCEPT ![s] = [req[s] EXCEPT !.pc = "insert", !.start = t]]
        BY <1>9 DEF ReadLastApproved, Becomes
      <3>2. req'[s] = [req[s] EXCEPT !.pc = "insert", !.start = t]
        BY <1>0, <3>1
      <3>3. QED
        BY <1>0, <1>9, <3>2 DEF ReadLastApproved, BalanceRead, Request
    <2>2. QED
      BY <1>9, <2>1 DEF ReadLastApproved, Acceptable, Available, Amount
  <1>10. QED
    BY <1>3, <1>4, <1>5, <1>6, <1>7, <1>8, <1>9 DEF ReadStep

LEMMA TapReadStep ==
    ASSUME TapInv, NEW s \in Sessions, ReadStep(s)
    PROVE  TapInv'
  <1> USE DEF TapInv
  <1>1. PICK r \in Request : Becomes(s, r)
    BY ReadStepFrame
  <1>2. UNCHANGED <<now, earned, totals, rows, minLimit>>
    BY ReadStepFrame
  <1>3. TypeOK'
    BY <1>1, <1>2 DEF TypeOK, Becomes
  <1>4. OnePending' /\ PendingIsHeld'
    BY <1>2 DEF OnePending, PendingIsHeld, PendingOf
  <1>5. QED
    BY <1>3, <1>4, ReadStepAcceptable

(* The index refuses a second pending row, so the new row is the only one  *)
(* and its amount is the whole pending sum.                                *)
LEMMA TapInsert ==
    ASSUME TapInv, NEW s \in Sessions, Insert(s)
    PROVE  TapInv'
  <1> USE DEF TapInv
  <1> DEFINE v == Owner[s]
             row == [status |-> "pending", vendor |-> v, amount |-> Amount(s),
                     before |-> Available(s), start |-> req[s].start, end |-> now]
  <1>1. PICK id \in Ids : rows[id] = NoRow /\ rows' = [rows EXCEPT ![id] = row]
    BY DEF Insert
  <1>2. v \in Vendors /\ req[s] \in Request
    BY WithdrawalAssumption DEF WithdrawalAssumption, TypeOK
  <1>3. row \in Row /\ Amount(s) \in Nat
    BY AmountType, <1>2 DEF Row, TypeOK, Request
  <1>4. Amount(s) > 0 /\ PendingOf(v) = {} /\ totals[v].pending = 0
    BY <1>2 DEF Insert, InsertIsAcceptable, Acceptable, IndexAllows, PendingIsHeld
  <1>5. totals' = [totals EXCEPT ![v] =
                      [pending |-> Amount(s), approved |-> totals[v].approved]]
    <2>1. totals[v].pending + Amount(s) = Amount(s)
      BY <1>3, <1>4
    <2>2. QED
      BY <2>1 DEF Insert
  <1>6. PendingOf(v)' = {id}
    BY <1>1, <1>2, <1>4 DEF PendingOf, NoRow, TypeOK
  <1>7. \A u \in Vendors \ {v} : PendingOf(u)' = PendingOf(u) /\ totals'[u] = totals[u]
    BY <1>1, <1>2, <1>5 DEF PendingOf, NoRow, TypeOK
  <1>8. \A i \in Ids \ {id} : rows'[i] = rows[i]
    BY <1>1 DEF TypeOK
  <1>9. TypeOK'
    <2>1. rows' \in [Ids -> Row \cup {NoRow}]
      BY <1>1, <1>3 DEF TypeOK
    <2>2. totals' \in [Vendors -> [pending: Nat, approved: Nat]]
      BY <1>2, <1>3, <1>5 DEF TypeOK
    <2>3. req' \in [Sessions -> Request]
      BY DEF Insert, Becomes, Idle, Request, TypeOK
    <2>4. QED
      BY <2>1, <2>2, <2>3 DEF Insert, TypeOK
  <1>10. OnePending'
    BY <1>6, <1>7 DEF OnePending
  <1>11. PendingIsHeld'
    <2>1. totals'[v].pending = Amount(s) /\ rows'[id].amount = Amount(s)
      BY <1>1, <1>2, <1>5 DEF TypeOK
    <2>2. \A u \in Vendors \ {v} : \A i \in PendingOf(u) : rows'[i] = rows[i]
      BY <1>1, <1>8 DEF PendingOf, NoRow
    <2>3. QED
      BY <1>4, <1>6, <1>7, <2>1, <2>2 DEF PendingIsHeld
  <1>12. InsertIsAcceptable'
    BY DEF Insert, Becomes, Idle, TypeOK, InsertIsAcceptable, Acceptable, Available, Amount
  <1>13. QED
    BY <1>9, <1>10, <1>11, <1>12

(* A decision takes the one pending row of its vendor out of the pending   *)
(* sum, which is then zero.                                                *)
LEMMA DecisionFrame ==
    ASSUME TapInv, NEW id \in Ids, Approve(id) \/ Reject(id),
           NEW v \in Vendors, v = rows[id].vendor
    PROVE  /\ rows[id] \in Row
           /\ rows'[id] \in Row
           /\ rows'[id] = [rows[id] EXCEPT !.status = rows'[id].status]
           /\ rows'[id].status \in Decided
           /\ \A i \in Ids \ {id} : rows'[i] = rows[i]
           /\ PendingOf(v) = {id}
           /\ PendingOf(v)' = {}
           /\ totals'[v].pending = 0
           /\ totals'[v].approved \in Nat
           /\ totals'[v].approved <= totals[v].approved + totals[v].pending
           /\ \A u \in Vendors \ {v} :
                 PendingOf(u)' = PendingOf(u) /\ totals'[u] = totals[u]
           /\ TypeOK'
           /\ UNCHANGED <<now, earned, minLimit, req>>
  <1> USE DEF TapInv
  <1> DEFINE amount == rows[id].amount
  <1>1. rows[id].status = "pending" /\ rows[id] \in Row
    BY DEF Approve, Reject, StillPending, TypeOK, NoRow
  <1>2. v \in Vendors /\ amount \in Nat /\ id \in PendingOf(v)
    BY <1>1 DEF Row, PendingOf
  <1>3. PendingOf(v) = {id}
    BY <1>2 DEF OnePending, PendingOf
  <1>4. totals[v].pending = amount /\ totals[v].approved \in Nat
    BY <1>2 DEF PendingIsHeld, TypeOK
  <1>5. PICK st \in Decided : rows' = [rows EXCEPT ![id].status = st]
    BY DEF Approve, Reject, Decided
  <1>6. rows'[id] = [rows[id] EXCEPT !.status = st] /\ rows'[id] \in Row
    BY <1>1, <1>5 DEF TypeOK, Row, Decided
  <1>7. \A i \in Ids \ {id} : rows'[i] = rows[i]
    BY <1>5 DEF TypeOK
  <1>8. rows' \in [Ids -> Row \cup {NoRow}]
    BY <1>5, <1>6, <1>7 DEF TypeOK
  <1>9. /\ totals' \in [Vendors -> [pending: Nat, approved: Nat]]
        /\ totals'[v].pending = 0
        /\ \A u \in Vendors \ {v} : totals'[u] = totals[u]
    BY <1>2, <1>4 DEF Approve, Reject, TypeOK
  <1>10. PendingOf(v)' = {}
    BY <1>3, <1>6, <1>7 DEF PendingOf, Row, Decided
  <1>11. \A u \in Vendors \ {v} : PendingOf(u)' = PendingOf(u)
    BY <1>1, <1>6, <1>7 DEF PendingOf, Row, Decided
  <1>12. UNCHANGED <<now, earned, minLimit, req>>
    BY DEF Approve, Reject
  <1>13. rows'[id].status = st
    BY <1>1, <1>6 DEF Row
  <1>14. TypeOK'
    BY <1>8, <1>9, <1>12 DEF TypeOK
  <1>15. /\ totals'[v].approved \in Nat
         /\ totals'[v].approved <= totals[v].approved + totals[v].pending
    BY <1>2, <1>4, <1>9 DEF Approve, Reject, TypeOK
  <1>16. QED
    BY <1>1, <1>3, <1>6, <1>7, <1>9, <1>10, <1>11, <1>12, <1>13, <1>14, <1>15

LEMMA TapDecision ==
    ASSUME TapInv, NEW id \in Ids, Approve(id) \/ Reject(id)
    PROVE  TapInv'
  <1> USE DEF TapInv
  <1>v. PICK v \in Vendors : v = rows[id].vendor
    BY DEF Approve, Reject, StillPending, TypeOK, NoRow, Row
  <1>0. /\ PendingOf(v)' = {} /\ totals'[v].pending = 0
        /\ PendingOf(v) = {id}
        /\ \A u \in Vendors \ {v} : PendingOf(u)' = PendingOf(u) /\ totals'[u] = totals[u]
        /\ \A i \in Ids \ {id} : rows'[i] = rows[i]
        /\ TypeOK'
        /\ UNCHANGED <<now, earned, minLimit, req>>
    BY <1>v, DecisionFrame
  <1>1. OnePending'
    <2>1. \A u \in Vendors : \A a, b \in PendingOf(u)' : a = b
      BY <1>0 DEF OnePending
    <2>2. QED
      BY <2>1 DEF OnePending
  <1>2. PendingIsHeld'
    <2>1. \A u \in Vendors \ {v} : \A i \in PendingOf(u) : rows'[i] = rows[i]
      BY <1>0 DEF PendingOf
    <2>2. ASSUME NEW u \in Vendors
          PROVE  /\ PendingOf(u)' = {} => totals'[u].pending = 0
                 /\ \A i \in PendingOf(u)' :
                       totals'[u].pending = rows'[i].amount /\ rows'[i].amount > 0
      BY <1>0, <2>1 DEF PendingIsHeld
    <2>3. QED
      BY <2>2 DEF PendingIsHeld
  <1>3. InsertIsAcceptable'
    BY <1>0 DEF InsertIsAcceptable, Acceptable, Available, Amount
  <1>4. QED
    BY <1>0, <1>1, <1>2, <1>3

LEMMA TapStep == TapInv /\ [Next]_vars => TapInv'
  <1> SUFFICES ASSUME TapInv, [Next]_vars PROVE TapInv'
    OBVIOUS
  <1> USE DEF TapInv
  <1>1. ASSUME NEW s \in Sessions, RequestStep(s) PROVE TapInv'
    BY <1>1, TapReadStep, TapInsert DEF RequestStep, ReadStep
  <1>2. ASSUME NEW id \in Ids, Approve(id) \/ Reject(id) PROVE TapInv'
    BY <1>2, TapDecision
  <1>3. CASE UpdateMinLimit
    <2>1. TypeOK'
      BY <1>3, WithdrawalAssumption DEF WithdrawalAssumption, UpdateMinLimit, TypeOK
    <2>2. QED
      BY <1>3, <2>1 DEF UpdateMinLimit, OnePending, PendingOf, PendingIsHeld,
                        InsertIsAcceptable, Acceptable, Available, Amount
  <1>4. ASSUME NEW v \in Vendors, Settle(v) PROVE TapInv'
    <2>1. TypeOK'
      BY <1>4, WithdrawalAssumption DEF WithdrawalAssumption, Settle, TypeOK
    <2>2. QED
      BY <1>4, <2>1 DEF Settle, OnePending, PendingOf, PendingIsHeld,
                        InsertIsAcceptable, Acceptable, Available, Amount
  <1>5. CASE UNCHANGED vars
    BY <1>5 DEF vars, TypeOK, OnePending, PendingOf, PendingIsHeld,
                InsertIsAcceptable, Acceptable, Available, Amount
  <1>6. QED
    BY <1>1, <1>2, <1>3, <1>4, <1>5 DEF Next

LEMMA TapInit == Init => TapInv
  <1> SUFFICES ASSUME Init PROVE TapInv
    OBVIOUS
  <1>1. TypeOK
    BY WithdrawalAssumption DEF WithdrawalAssumption, Init, TypeOK, Idle, Request
  <1>2. \A v \in Vendors : PendingOf(v) = {}
    BY DEF Init, PendingOf, NoRow
  <1>3. OnePending /\ PendingIsHeld
    BY <1>2 DEF Init, OnePending, PendingIsHeld
  <1>4. InsertIsAcceptable
    BY DEF Init, Idle, InsertIsAcceptable
  <1>5. QED
    BY <1>1, <1>3, <1>4 DEF TapInv

LEMMA TapInvariant == Spec => []TapInv
  BY TapInit, TapStep, PTL DEF Spec

(* Every variable keeps its type; above all the pending sum of a vendor    *)
(* never drops below zero, whatever calls and decisions interleave.        *)
THEOREM TypeCorrect == Spec => []TypeOK
  BY TapInvariant, PTL DEF TapInv

(* The partial unique index keeps one open request per vendor, for any     *)
(* number of overlapping calls of request().                               *)
THEOREM AtMostOnePending == Spec => []OnePending
  BY TapInvariant, PTL DEF TapInv

(* A decided request is never decided again nor edited. *)
THEOREM DecisionsAreFinal == Spec => DecidedOnce
  <1> DEFINE Final == \A id \in Ids : rows[id].status \in Decided => rows'[id] = rows[id]
  <1>1. TapInv /\ [Next]_vars => [Final]_vars
    <2> SUFFICES ASSUME TapInv, Next PROVE Final
      BY DEF vars
    <2>1. ASSUME NEW s \in Sessions, RequestStep(s) PROVE Final
      <3>1. CASE Insert(s)
        <4>1. PICK id \in Ids : /\ rows[id] = NoRow
                                /\ \A i \in Ids \ {id} : rows'[i] = rows[i]
          BY <3>1 DEF Insert, TapInv, TypeOK
        <4>2. QED
          BY <4>1 DEF NoRow, Decided
      <3>2. CASE ReadStep(s)
        BY <3>2, ReadStepFrame DEF TapInv
      <3>3. QED
        BY <2>1, <3>1, <3>2 DEF RequestStep, ReadStep
    <2>2. ASSUME NEW id \in Ids, Approve(id) \/ Reject(id) PROVE Final
      <3>1. rows[id].status = "pending"
        BY <2>2 DEF Approve, Reject, StillPending
      <3>2. QED
        <4>1. PICK v \in Vendors : v = rows[id].vendor
          BY <3>1 DEF TapInv, TypeOK, NoRow, Row
        <4>2. QED
          BY <2>2, <3>1, <4>1, DecisionFrame DEF Decided
    <2>3. ASSUME UpdateMinLimit \/ \E v \in Vendors : Settle(v) PROVE Final
      BY <2>3 DEF UpdateMinLimit, Settle
    <2>4. QED
      BY <2>1, <2>2, <2>3 DEF Next
  <1>2. QED
    BY <1>1, TapInvariant, PTL DEF Spec, DecidedOnce

-----------------------------------------------------------------------------
(* From here on no vendor has two calls of request() in progress: a step   *)
(* starts in a state where that is so.                                     *)

(* What a read step leaves as it was. *)
LEMMA SerialReadStep ==
    ASSUME Serial, TapInv, SerialInv, NEW s \in Sessions, ReadStep(s)
    PROVE  SerialInv'
  <1> USE DEF TapInv, SerialInv
  <1>1. UNCHANGED <<now, earned, totals, rows, minLimit>>
    BY ReadStepFrame
  <1>2. \A t \in Sessions \ {s} : req'[t] = req[t]
    BY ReadStepFrame DEF Becomes, TypeOK
  <1>3. /\ Owner[s] \in Vendors
        /\ req[s] \in Request
        /\ \A v \in Vendors : PendingOf(v)' = PendingOf(v) /\ ApprovedOf(v)' = ApprovedOf(v)
    BY <1>1, WithdrawalAssumption DEF WithdrawalAssumption, TypeOK, PendingOf, ApprovedOf
  <1>4. NeverOverdrawn' /\ PeriodsFollow' /\ PeriodsDisjoint'
    BY <1>1 DEF NeverOverdrawn, PeriodsFollow, PeriodsDisjoint, PendingOf, ApprovedOf
  <1>5. /\ req'[s].pc \in {"reading", "insert"} =>
              /\ PendingOf(Owner[s]) = {}
              /\ "earned" \notin req'[s].left => req'[s].earned <= earned[Owner[s]]
              /\ "byStatus" \notin req'[s].left =>
                    req'[s].committed = totals[Owner[s]].approved + totals[Owner[s]].pending
        /\ req'[s].pc = "insert" =>
              /\ req'[s].start <= now
              /\ \A id \in ApprovedOf(Owner[s]) : rows[id].end <= req'[s].start
    <2> USE DEF Becomes, TypeOK
    <2>0. /\ earned[Owner[s]] \in Nat
          /\ req[s].left # {} => req[s].pc = "reading"
          /\ req[s].pc \in {"reading", "insert"} =>
                /\ PendingOf(Owner[s]) = {}
                /\ "earned" \notin req[s].left => req[s].earned <= earned[Owner[s]]
                /\ "byStatus" \notin req[s].left =>
                      req[s].committed = totals[Owner[s]].approved + totals[Owner[s]].pending
      BY <1>3 DEF ReadsStayValid, InsertIsAcceptable
    <2>1. CASE Start(s)
      <3>1. req'[s].pc = "open"
        BY <1>3, <2>1 DEF Start, Idle
      <3>2. QED
        BY <3>1
    <2>2. CASE CheckOpen(s)
      <3>1. CASE PendingOf(Owner[s]) = {}
        <4>1. req'[s] = [req[s] EXCEPT !.pc = "reading", !.left = Reads]
          BY <1>3, <2>2, <3>1 DEF CheckOpen
        <4>2. QED
          BY <1>3, <3>1, <4>1 DEF Request, Reads
      <3>2. CASE PendingOf(Owner[s]) # {}
        <4>1. req'[s].pc = "idle"
          BY <2>2, <3>2 DEF CheckOpen, Idle
        <4>2. QED
          BY <4>1
      <3>3. QED
        BY <3>1, <3>2
    <2>3. CASE ReadEarned(s)
      <3>1. req'[s] = [req[s] EXCEPT !.left = @ \ {"earned"}, !.earned = earned[Owner[s]]]
        BY <2>3 DEF ReadEarned
      <3>2. QED
        BY <1>3, <2>0, <2>3, <3>1 DEF ReadEarned, Request
    <2>4. CASE ReadByStatus(s)
      <3>1. req'[s] = [req[s] EXCEPT !.left = @ \ {"byStatus"},
                          !.committed = totals[Owner[s]].approved + totals[Owner[s]].pending]
        BY <2>4 DEF ReadByStatus
      <3>2. QED
        BY <1>3, <2>0, <2>4, <3>1 DEF ReadByStatus, Request
    <2>5. CASE ReadMinLimit(s)
      <3>1. req'[s] = [req[s] EXCEPT !.left = @ \ {"minLimit"}, !.limit = minLimit]
        BY <2>5 DEF ReadMinLimit
      <3>2. QED
        BY <1>3, <2>0, <2>5, <3>1 DEF ReadMinLimit, Request
    <2>6. CASE Refuse(s) \/ InsertConflict(s)
      <3>1. req'[s].pc = "idle"
        BY <1>3, <2>6 DEF Refuse, InsertConflict, Idle
      <3>2. QED
        BY <3>1
    <2>7. CASE ReadLastApproved(s)
      <3>1. PICK t \in 0 .. now :
               /\ IsLastApprovedEnd(Owner[s], t)
               /\ req' = [req EXCEPT ![s] = [req[s] EXCEPT !.pc = "insert", !.start = t]]
        BY <2>7 DEF ReadLastApproved
      <3>2. req'[s] = [req[s] EXCEPT !.pc = "insert", !.start = t]
        BY <3>1
      <3>3. t <= now /\ \A id \in ApprovedOf(Owner[s]) : rows[id].end <= t
        BY <3>1 DEF IsLastApprovedEnd
      <3>4. /\ req'[s].start = t
            /\ req'[s].left = req[s].left
            /\ req'[s].earned = req[s].earned
            /\ req'[s].committed = req[s].committed
        BY <1>3, <3>2 DEF Request
      <3>5. req[s].pc = "reading"
        BY <2>7 DEF ReadLastApproved, BalanceRead
      <3>6. QED
        BY <2>0, <3>3, <3>4, <3>5
    <2>8. QED
      BY <2>1, <2>2, <2>3, <2>4, <2>5, <2>6, <2>7 DEF ReadStep
  <1>6. ReadsStayValid'
    BY <1>1, <1>2, <1>3, <1>5 DEF ReadsStayValid, PendingOf
  <1>7. StartFollows'
    BY <1>1, <1>2, <1>3, <1>5 DEF StartFollows, ApprovedOf
  <1>8. QED
    BY <1>4, <1>6, <1>7

(* The row that is inserted is covered by what the session read: nobody    *)
(* else of this vendor could commit money in between.                      *)
LEMMA SerialInsert ==
    ASSUME Serial, TapInv, SerialInv, NEW s \in Sessions, Insert(s)
    PROVE  SerialInv'
  <1> USE DEF TapInv, SerialInv
  <1>1. PICK id \in Ids : /\ rows[id] = NoRow
                          /\ rows' = [rows EXCEPT ![id] =
                                [status |-> "pending", vendor |-> Owner[s],
                                 amount |-> Amount(s), before |-> Available(s),
                                 start |-> req[s].start, end |-> now]]
    BY DEF Insert
  <1>2. PICK v \in Vendors : v = Owner[s]
    BY WithdrawalAssumption DEF WithdrawalAssumption
  <1>3. req[s] \in Request /\ Amount(s) \in Nat /\ Available(s) \in Nat
    BY AmountType DEF TypeOK
  <1>4. /\ Amount(s) <= Available(s)
        /\ Available(s) > 0
        /\ PendingOf(v) = {}
        /\ totals[v].pending = 0
        /\ req[s].earned <= earned[v]
        /\ req[s].committed = totals[v].approved + totals[v].pending
    BY <1>2 DEF Insert, InsertIsAcceptable, Acceptable, ReadsStayValid, PendingIsHeld
  <1>5. totals' = [totals EXCEPT ![v] =
                      [pending |-> totals[v].pending + Amount(s), approved |-> totals[v].approved]]
    BY <1>2 DEF Insert
  <1>6. /\ totals'[v].pending = Amount(s) /\ totals'[v].approved = totals[v].approved
        /\ \A u \in Vendors \ {v} : totals'[u] = totals[u]
    BY <1>3, <1>4, <1>5 DEF TypeOK
  <1>7. NeverOverdrawn'
    <2>1. totals[v].approved + Amount(s) <= earned[v]
      <3>1. /\ totals[v].approved \in Nat /\ earned[v] \in Nat
            /\ req[s].earned \in Nat /\ req[s].committed \in Nat
        BY <1>3 DEF TypeOK, Request
      <3>2. QED
        BY <1>3, <1>4, <3>1 DEF Available
    <2>2. QED
      BY <1>3, <1>6, <2>1 DEF NeverOverdrawn, Insert, TypeOK
  <1>8. /\ \A u \in Vendors : ApprovedOf(u)' = ApprovedOf(u)
        /\ \A u \in Vendors \ {v} : PendingOf(u)' = PendingOf(u)
        /\ PendingOf(v)' = {id}
        /\ \A i \in Ids \ {id} : rows'[i] = rows[i]
        /\ rows'[id].start = req[s].start
        /\ \A u \in Vendors : id \notin ApprovedOf(u) /\ id \notin PendingOf(u)
    BY <1>1, <1>2, <1>4 DEF ApprovedOf, PendingOf, NoRow, TypeOK
  <1>9. /\ req' = [req EXCEPT ![s] = Idle]
        /\ req'[s] = Idle
        /\ \A t \in Sessions \ {s} : req'[t] = req[t] /\ Owner[t] \in Vendors
        /\ \A t \in Sessions \ {s} : req[t].pc # "idle" => Owner[t] # v
        /\ now' = now /\ earned' = earned
    BY <1>2, WithdrawalAssumption DEF Insert, Becomes, TypeOK, Serial, WithdrawalAssumption
  <1>i. req'[s].pc = "idle"
    BY <1>9 DEF Idle
  <1>10. ReadsStayValid'
    <2>1. ASSUME NEW t \in Sessions \ {s}, req[t].pc # "idle"
          PROVE  /\ PendingOf(Owner[t])' = PendingOf(Owner[t])
                 /\ totals'[Owner[t]] = totals[Owner[t]]
      BY <1>6, <1>8, <1>9, <2>1
    <2>2. QED
      BY <1>i, <1>9, <2>1 DEF ReadsStayValid
  <1>11. StartFollows'
    <2>1. ASSUME NEW t \in Sessions \ {s}, req[t].pc # "idle"
          PROVE  /\ ApprovedOf(Owner[t])' = ApprovedOf(Owner[t])
                 /\ \A i \in ApprovedOf(Owner[t]) : rows'[i] = rows[i]
      BY <1>8, <1>9, <2>1 DEF ApprovedOf
    <2>2. QED
      BY <1>i, <1>9, <2>1 DEF StartFollows
  <1>12. PeriodsFollow'
    <2>1. \A a \in ApprovedOf(v) : rows[a].end <= req[s].start /\ rows'[a] = rows[a]
      BY <1>2, <1>8 DEF StartFollows, Insert, ApprovedOf
    <2>2. \A u \in Vendors \ {v} : \A p \in PendingOf(u) : \A a \in ApprovedOf(u) :
             rows'[a] = rows[a] /\ rows'[p] = rows[p]
      BY <1>8 DEF PendingOf, ApprovedOf
    <2>3. ASSUME NEW u \in Vendors, NEW p \in PendingOf(u)', NEW a \in ApprovedOf(u)'
          PROVE  rows'[a].end <= rows'[p].start
      BY <1>8, <2>1, <2>2 DEF PeriodsFollow
    <2>4. QED
      BY <2>3 DEF PeriodsFollow
  <1>13. PeriodsDisjoint'
    <2>1. \A u \in Vendors : \A a \in ApprovedOf(u) : rows'[a] = rows[a]
      BY <1>8 DEF ApprovedOf
    <2>2. QED
      BY <1>8, <2>1 DEF PeriodsDisjoint
  <1>14. QED
    BY <1>7, <1>10, <1>11, <1>12, <1>13

(* While a request of the vendor is decided, no other call of that vendor  *)
(* is past its first read: that read saw the pending row.                  *)
LEMMA SerialDecision ==
    ASSUME Serial, TapInv, SerialInv, NEW id \in Ids, Approve(id) \/ Reject(id)
    PROVE  SerialInv'
  <1> USE DEF TapInv, SerialInv
  <1>1. PICK v \in Vendors : v = rows[id].vendor
    BY DEF Approve, Reject, StillPending, TypeOK, NoRow, Row
  <1>2. /\ rows[id] \in Row /\ rows'[id] \in Row
        /\ rows'[id] = [rows[id] EXCEPT !.status = rows'[id].status]
        /\ \A i \in Ids \ {id} : rows'[i] = rows[i]
        /\ PendingOf(v) = {id}
        /\ PendingOf(v)' = {}
        /\ totals'[v].pending = 0
        /\ totals'[v].approved \in Nat
        /\ totals'[v].approved <= totals[v].approved + totals[v].pending
        /\ \A u \in Vendors \ {v} : PendingOf(u)' = PendingOf(u) /\ totals'[u] = totals[u]
        /\ UNCHANGED <<now, earned, minLimit, req>>
    BY <1>1, DecisionFrame
  <1>3. /\ rows'[id].vendor = v
        /\ rows'[id].start = rows[id].start /\ rows'[id].end = rows[id].end
        /\ \A i \in Ids : rows[i] # NoRow =>
              rows'[i].start = rows[i].start /\ rows'[i].end = rows[i].end
    BY <1>1, <1>2 DEF Row
  <1>4. /\ \A u \in Vendors \ {v} : ApprovedOf(u)' = ApprovedOf(u)
        /\ ApprovedOf(v)' \subseteq ApprovedOf(v) \cup {id}
    BY <1>1, <1>2, <1>3 DEF ApprovedOf
  <1>5. \A t \in Sessions : req[t].pc \in {"reading", "insert"} => Owner[t] \in Vendors \ {v}
    BY <1>2, WithdrawalAssumption DEF ReadsStayValid, WithdrawalAssumption
  <1>6. NeverOverdrawn'
    <2>1. /\ totals[v].approved \in Nat /\ totals[v].pending \in Nat /\ earned[v] \in Nat
          /\ totals[v].approved + totals[v].pending <= earned[v]
      BY DEF TypeOK, NeverOverdrawn
    <2>2. totals'[v].approved + totals'[v].pending <= earned'[v]
      BY <1>2, <2>1
    <2>3. QED
      BY <1>2, <2>2 DEF NeverOverdrawn
  <1>7. ReadsStayValid'
    BY <1>2, <1>5 DEF ReadsStayValid
  <1>8. \A u \in Vendors : \A i \in ApprovedOf(u) \cup PendingOf(u) : rows[i] # NoRow /\ i \in Ids
    BY DEF ApprovedOf, PendingOf, NoRow
  <1>9. StartFollows'
    BY <1>2, <1>3, <1>4, <1>5, <1>8 DEF StartFollows
  <1>10. PeriodsFollow'
    <2>1. ASSUME NEW u \in Vendors, NEW p \in PendingOf(u)', NEW a \in ApprovedOf(u)'
          PROVE  rows'[a].end <= rows'[p].start
      BY <1>2, <1>3, <1>4, <1>8 DEF PeriodsFollow
    <2>2. QED
      BY <2>1 DEF PeriodsFollow
  <1>11. PeriodsDisjoint'
    <2>1. ASSUME NEW u \in Vendors, NEW a \in ApprovedOf(u)', NEW b \in ApprovedOf(u)', a # b
          PROVE  rows'[a].end <= rows'[b].start \/ rows'[b].end <= rows'[a].start
      <3>1. CASE u # v
        BY <1>3, <1>4, <1>8, <2>1, <3>1 DEF PeriodsDisjoint
      <3>2. CASE u = v /\ a \in ApprovedOf(v) /\ b \in ApprovedOf(v)
        BY <1>3, <1>8, <2>1, <3>2 DEF PeriodsDisjoint
      <3>3. CASE u = v /\ a = id /\ b \in ApprovedOf(v)
        BY <1>2, <1>3, <1>8, <3>3 DEF PeriodsFollow
      <3>4. CASE u = v /\ b = id /\ a \in ApprovedOf(v)
        BY <1>2, <1>3, <1>8, <3>4 DEF PeriodsFollow
      <3>5. QED
        BY <1>4, <2>1, <3>1, <3>2, <3>3, <3>4
    <2>2. QED
      BY <2>1 DEF PeriodsDisjoint
  <1>12. QED
    BY <1>6, <1>7, <1>9, <1>10, <1>11

LEMMA SerialStep ==
    ASSUME Serial, TapInv, SerialInv, [Next]_vars
    PROVE  SerialInv'
  <1>1. ASSUME NEW s \in Sessions, RequestStep(s) PROVE SerialInv'
    BY <1>1, SerialReadStep, SerialInsert DEF RequestStep, ReadStep
  <1>2. ASSUME NEW id \in Ids, Approve(id) \/ Reject(id) PROVE SerialInv'
    BY <1>2, SerialDecision
  <1>3. CASE UpdateMinLimit \/ UNCHANGED vars
    BY <1>3 DEF UpdateMinLimit, vars, SerialInv, NeverOverdrawn, ReadsStayValid, StartFollows,
                PeriodsFollow, PeriodsDisjoint, PendingOf, ApprovedOf
  <1>4. ASSUME NEW v \in Vendors, Settle(v) PROVE SerialInv'
    <2> USE DEF SerialInv
    <2>1. \A u \in Vendors : earned[u] \in Nat /\ earned'[u] \in Nat /\ earned[u] <= earned'[u]
      BY <1>4, WithdrawalAssumption DEF WithdrawalAssumption, Settle, TapInv, TypeOK
    <2>2. now \in Nat /\ now' = now + 1 /\ UNCHANGED <<totals, rows, req>>
      BY <1>4 DEF Settle, TapInv, TypeOK
    <2>3. NeverOverdrawn'
      <3>1. \A u \in Vendors : totals[u].approved \in Nat /\ totals[u].pending \in Nat
        BY DEF TapInv, TypeOK
      <3>2. QED
        BY <2>1, <2>2, <3>1 DEF NeverOverdrawn
    <2>4. ReadsStayValid'
      <3>1. \A t \in Sessions : Owner[t] \in Vendors /\ req[t].earned \in Nat
        BY WithdrawalAssumption DEF WithdrawalAssumption, TapInv, TypeOK, Request
      <3>2. QED
        BY <2>1, <2>2, <3>1 DEF ReadsStayValid, PendingOf
    <2>5. StartFollows'
      <3>1. \A t \in Sessions : req[t].start \in Nat
        BY DEF TapInv, TypeOK, Request
      <3>2. QED
        BY <2>2, <3>1 DEF StartFollows, ApprovedOf
    <2>6. PeriodsFollow' /\ PeriodsDisjoint'
      BY <2>2 DEF PeriodsFollow, PeriodsDisjoint, PendingOf, ApprovedOf
    <2>7. QED
      BY <2>3, <2>4, <2>5, <2>6
  <1>5. QED
    BY <1>1, <1>2, <1>3, <1>4 DEF Next

LEMMA MCSpecSteps == MCSpec => Spec
  <1>1. MCInit => Init
    BY DEF MCInit
  <1>2. [MCNext]_<<vars, alone>> => [Next]_vars
    BY DEF MCNext, vars
  <1>3. QED
    BY <1>1, <1>2, PTL DEF MCSpec, Spec

SerialSoFar == alone => Serial /\ SerialInv

LEMMA SerialInvariant == MCSpec => [](TapInv /\ SerialSoFar)
  <1>1. MCInit => SerialSoFar
    BY DEF MCInit, SerialSoFar, Serial, Init, SerialInv, NeverOverdrawn, ReadsStayValid,
           StartFollows, PeriodsFollow, PeriodsDisjoint, PendingOf, ApprovedOf, NoRow, Idle
  <1>2. TapInv /\ SerialSoFar /\ [MCNext]_<<vars, alone>> => SerialSoFar'
    <2>1. ASSUME TapInv, SerialSoFar, MCNext, alone'
          PROVE  Serial' /\ SerialInv'
      BY <2>1, SerialStep DEF MCNext, SerialSoFar
    <2>2. ASSUME SerialSoFar, UNCHANGED <<vars, alone>>
          PROVE  SerialSoFar'
      BY <2>2 DEF vars, SerialSoFar, Serial, SerialInv, NeverOverdrawn, ReadsStayValid,
                  StartFollows, PeriodsFollow, PeriodsDisjoint, PendingOf, ApprovedOf
    <2>3. QED
      BY <2>1, <2>2 DEF SerialSoFar
  <1>3. QED
    BY <1>1, <1>2, MCSpecSteps, TapInvariant, PTL DEF MCSpec

(* While requests are serial a vendor is never paid, or promised, more     *)
(* than the vendor's settlements earned.                                   *)
THEOREM SerialNeverOverdrawn == MCSpec => []NeverOverdrawnAlone
  <1>1. SerialSoFar => NeverOverdrawnAlone
    BY DEF SerialSoFar, SerialInv, NeverOverdrawnAlone
  <1>2. QED
    BY <1>1, SerialInvariant, PTL

(* While requests are serial the periods of approved requests do not       *)
(* overlap.                                                                *)
THEOREM SerialPeriodsDisjoint == MCSpec => []PeriodsDisjointAlone
  <1>1. SerialSoFar => PeriodsDisjointAlone
    BY DEF SerialSoFar, SerialInv, PeriodsDisjointAlone
  <1>2. QED
    BY <1>1, SerialInvariant, PTL

-----------------------------------------------------------------------------
(* Refinement of PayoutLedger *)

HeldBy == [v \in Vendors |-> totals[v].pending]
PaidTo == [v \in Vendors |-> totals[v].approved]

LEMMA LedgerInsert ==
    ASSUME Serial, TapInv, SerialInv, NEW s \in Sessions, Insert(s)
    PROVE  Ledger!Hold(Owner[s])
  <1> USE DEF TapInv, SerialInv
  <1>1. PICK v \in Vendors : v = Owner[s]
    BY WithdrawalAssumption DEF WithdrawalAssumption
  <1>2. /\ Amount(s) \in Nat \ {0}
        /\ Amount(s) <= Available(s) /\ Available(s) > 0
        /\ totals[v].pending = 0
        /\ req[s].earned <= earned[v]
        /\ req[s].committed = totals[v].approved + totals[v].pending
    BY <1>1, AmountType DEF Insert, InsertIsAcceptable, Acceptable, ReadsStayValid, PendingIsHeld
  <1>3. /\ totals[v].approved \in Nat /\ earned[v] \in Nat
        /\ req[s].earned \in Nat /\ req[s].committed \in Nat
    BY DEF TypeOK, Request
  <1>4. totals' = [totals EXCEPT ![v] =
                      [pending |-> totals[v].pending + Amount(s), approved |-> totals[v].approved]]
    BY <1>1 DEF Insert
  <1>5. /\ totals'[v].pending = Amount(s) /\ totals'[v].approved = totals[v].approved
        /\ \A u \in Vendors \ {v} : totals'[u] = totals[u]
    BY <1>2, <1>4 DEF TypeOK
  <1>6. HeldBy' = [HeldBy EXCEPT ![v] = Amount(s)]
    BY <1>5 DEF HeldBy
  <1>7. PaidTo' = PaidTo /\ earned' = earned
    BY <1>5 DEF PaidTo, Insert
  <1>8. Amount(s) \in 1 .. earned[v] - PaidTo[v] - HeldBy[v] /\ HeldBy[v] = 0
    BY <1>2, <1>3 DEF Available, PaidTo, HeldBy
  <1>9. QED
    BY <1>1, <1>6, <1>7, <1>8 DEF Ledger!Hold, Ledger!Free, HeldBy, PaidTo

LEMMA LedgerDecision ==
    ASSUME TapInv, NEW id \in Ids, Approve(id) \/ Reject(id)
    PROVE  \E v \in Vendors : Ledger!PayOut(v) \/ Ledger!Release(v)
  <1> USE DEF TapInv
  <1>1. PICK v \in Vendors : v = rows[id].vendor
    BY DEF Approve, Reject, StillPending, TypeOK, NoRow, Row
  <1>2. /\ rows[id].amount > 0 /\ rows[id].amount \in Nat
        /\ totals[v].pending = rows[id].amount
        /\ totals'[v].pending = 0
        /\ \A u \in Vendors \ {v} : totals'[u] = totals[u]
        /\ earned' = earned
    <2>1. PendingOf(v) = {id} /\ rows[id] \in Row
      BY <1>1, DecisionFrame
    <2>2. QED
      BY <1>1, <2>1, DecisionFrame DEF PendingIsHeld, Row
  <1>3. HeldBy' = [HeldBy EXCEPT ![v] = 0] /\ HeldBy[v] > 0
    BY <1>2 DEF HeldBy
  <1>4. CASE Approve(id)
    <2>1. totals'[v].approved = totals[v].approved + totals[v].pending
      BY <1>1, <1>2, <1>4 DEF Approve, TypeOK
    <2>2. PaidTo' = [PaidTo EXCEPT ![v] = @ + HeldBy[v]]
      BY <1>2, <2>1 DEF PaidTo, HeldBy
    <2>3. QED
      BY <1>2, <1>3, <2>2 DEF Ledger!PayOut, HeldBy, PaidTo
  <1>5. CASE Reject(id)
    <2>1. totals'[v].approved = totals[v].approved
      BY <1>1, <1>5 DEF Reject, TypeOK
    <2>2. PaidTo' = PaidTo
      BY <1>2, <2>1 DEF PaidTo
    <2>3. QED
      BY <1>2, <1>3, <2>2 DEF Ledger!Release, HeldBy, PaidTo
  <1>6. QED
    BY <1>4, <1>5

LEMMA LedgerStep ==
    ASSUME Serial, TapInv, SerialInv, [Next]_vars
    PROVE  [Ledger!Next]_(Ledger!ledgerVars)
  <1> DEFINE Same == UNCHANGED <<earned, totals>>
  <1>1. Same => UNCHANGED Ledger!ledgerVars
    BY DEF Ledger!ledgerVars
  <1>2. ASSUME NEW s \in Sessions, ReadStep(s) PROVE Same
    BY <1>2, ReadStepFrame DEF TapInv
  <1>3. ASSUME NEW s \in Sessions, Insert(s) PROVE Ledger!Next
    BY <1>3, LedgerInsert, WithdrawalAssumption DEF WithdrawalAssumption, Ledger!Next
  <1>4. ASSUME NEW id \in Ids, Approve(id) \/ Reject(id) PROVE Ledger!Next
    BY <1>4, LedgerDecision DEF Ledger!Next
  <1>5. ASSUME NEW v \in Vendors, Settle(v) PROVE Ledger!Next
    <2>1. PICK p \in Payouts : earned' = [earned EXCEPT ![v] = @ + p]
      BY <1>5 DEF Settle
    <2>2. p \in Nat /\ earned \in [Vendors -> Nat]
      BY WithdrawalAssumption DEF WithdrawalAssumption, TapInv, TypeOK
    <2>3. earned' = [earned EXCEPT ![v] = earned'[v]] /\ earned'[v] - earned[v] \in Nat
      BY <2>1, <2>2
    <2>4. QED
      BY <1>5, <2>3 DEF Settle, Ledger!Next, Ledger!Earn
  <1>6. CASE UpdateMinLimit \/ UNCHANGED vars
    BY <1>1, <1>6 DEF UpdateMinLimit, vars
  <1>7. QED
    BY <1>1, <1>2, <1>3, <1>4, <1>5, <1>6 DEF Next, RequestStep, ReadStep

(* While requests are serial the service implements the ledger: money is   *)
(* held only when free, and a held amount is paid out or released whole.   *)
THEOREM SerialLedger == MCSpec => LedgerSpecAlone
  <1>1. MCInit => Ledger!Init
    BY DEF MCInit, Init, Ledger!Init
  <1>2. TapInv /\ SerialSoFar /\ [MCNext]_<<vars, alone>>
          => [alone' => Ledger!Next]_<<Ledger!ledgerVars>>
    <2>1. ASSUME TapInv, SerialSoFar, MCNext, alone'
          PROVE  [alone' => Ledger!Next]_<<Ledger!ledgerVars>>
      BY <2>1, LedgerStep DEF MCNext, SerialSoFar
    <2>2. ASSUME UNCHANGED <<vars, alone>>
          PROVE  UNCHANGED <<Ledger!ledgerVars>>
      BY <2>2 DEF vars, Ledger!ledgerVars
    <2>3. QED
      BY <2>1, <2>2
  <1>3. QED
    BY <1>1, <1>2, SerialInvariant, PTL DEF MCSpec, LedgerSpecAlone

-----------------------------------------------------------------------------
(* The status that withdrawals ask for (module Kyc).                       *)

(* The rows, the mails and the calls keep their shapes.                    *)

(* The users whose status is not that of the documents they have.          *)
unrolled == byHand \cup emptied

Docs == [user : Users, type : Types, upload : Nat, status : Statuses]
Profiles == [kyc : Statuses, online : BOOLEAN]

Queries ==
    [do : {"read", "write", "mail", "dropAll", "delete"}]
      \cup [do : {"newDoc"}, value : Types]
      \cup [do : {"replace"}, id : Nat, value : Types]
      \cup [do : {"judge"}, id : Nat, value : {"verified", "rejected"}]
      \cup [do : {"drop"}, value : SUBSET Nat]
      \cup [do : {"profile"}, value : PartnerFields]
      \cup [do : {"newProfile"}, value : Profiles]
      \cup [do : {"account"}, value : {"active", "suspended"}]

IsCall(c) ==
    /\ c = [what |-> c.what, user |-> c.user, found |-> c.found, rolled |-> c.rolled, todo |-> c.todo]
    /\ c.rolled \in Statuses /\ c.found \in BOOLEAN
    /\ c.todo \in Seq(Queries)
    /\ c = NoCall \/ (c.user \in Users /\ c.todo # <<>>)

Rows ==
    /\ lastId \in Nat /\ DOMAIN docs \subseteq 1 .. lastId
    /\ docs \in [DOMAIN docs -> Docs]
    /\ DOMAIN profile \subseteq Users /\ profile \in [DOMAIN profile -> Profiles]
    /\ account \in [Users -> {"active", "suspended", "none"}]
    /\ mailed \in [Users -> {"none", "verified", "rejected"}]
    /\ cuts \in Nat

Shapes ==
    /\ Rows
    /\ call = [h \in Slots |-> call[h]]
    /\ \A h \in Slots : IsCall(call[h])

-----------------------------------------------------------------------------
(* A call that is the only one, and what is left of it to do.              *)

Told(u) ==
    (\E i \in DOMAIN docs : docs[i].user = u /\ docs[i].status = "rejected") => mailed[u] = "rejected"

StatusTrue(u) ==
    u \in DOMAIN profile \ unrolled =>
      /\ profile[u].kyc = "verified" =>
           /\ \A t \in Mandatory : SameKind(u, t) # {}
           /\ \A i \in DOMAIN docs : docs[i].user = u => docs[i].status = "verified"
      /\ profile[u].kyc = "rejected" => mailed[u] = "rejected"

Settled(u) == Told(u) /\ StatusTrue(u)

Its(c, i) == i \in DOMAIN docs /\ docs[i].user = c.user

(* The first queries of calls that change documents, and all of those that *)
(* do not.                                                                 *)
Uploads(c, q) ==
    \/ q.do = "newDoc"
    \/ q.do = "replace" /\ Its(c, q.id)
    \/ q.do = "drop" /\ \A i \in q.value : Its(c, i)

Edits(q) == q.do \in {"profile", "account", "newProfile", "dropAll", "delete"}

Reading(c) == c.todo = <<[do |-> "read"], [do |-> "write"]>>
ReadingToTell(c) == c.todo = <<[do |-> "read"], [do |-> "write"], [do |-> "mail"]>>

Counted(c) == c.rolled = RolledUp(DocsOf(c.user))

InProgress(c) ==
    \/ c = NoCall /\ \A u \in Users : Settled(u)
    \/ /\ c # NoCall /\ Settled(c.user)
       /\ \A k \in 1 .. Len(c.todo) : Edits(c.todo[k])
    \/ /\ c # NoCall /\ Settled(c.user)
       /\ c.todo = <<c.todo[1], [do |-> "read"], [do |-> "write"]>>
       /\ Uploads(c, c.todo[1])
    \/ /\ c # NoCall /\ Settled(c.user)
       /\ c.todo = <<c.todo[1], [do |-> "read"], [do |-> "write"], [do |-> "mail"]>>
       /\ c.todo[1].do = "judge" /\ Its(c, c.todo[1].id)
    \/ Reading(c) /\ Told(c.user)
    \/ ReadingToTell(c) /\ c.found
    \/ c.todo = <<[do |-> "write"]>> /\ Told(c.user) /\ Counted(c)
    \/ c.todo = <<[do |-> "write"], [do |-> "mail"]>> /\ c.found /\ Counted(c)
    \/ /\ c.todo = <<[do |-> "mail"]>> /\ c.found /\ Counted(c)
       /\ c.user \in DOMAIN profile => profile[c.user].kyc = c.rolled

Only(h) == \A k \in Slots : k # h => call[k] = NoCall

Alone(h) ==
    /\ Only(h) /\ InProgress(call[h])
    /\ \A u \in Users : u # call[h].user => Settled(u)

KycInv ==
    /\ Shapes
    /\ oneCall \in BOOLEAN /\ unrolled \subseteq Users
    /\ oneCall => \E h \in Slots : Alone(h)

(* The lists that calls begin with.                                        *)
LEMMA SameList ==
    ASSUME NEW S, NEW s \in Seq(S), NEW t \in Seq(S), Len(s) = Len(t),
           \A k \in 1 .. Len(s) : s[k] = t[k]
    PROVE  s = t
OBVIOUS

(* Joining short lists of queries.                                         *)
LEMMA Pairs == \A a, b : <<a>> \o <<b>> = <<a, b>>
<1>1. TAKE a, b
<1>2. PICK S, s, u : S = {a, b} /\ s = <<a>> \o <<b>> /\ u = <<a, b>>
    OBVIOUS
<1>3. <<a>> \o <<b>> \in Seq({a, b}) /\ Len(<<a>> \o <<b>>) = 2
    OBVIOUS
<1>4. /\ (<<a>> \o <<b>>)[1] = a
      /\ (<<a>> \o <<b>>)[2] = b
    OBVIOUS
<1>5. u \in Seq(S) /\ Len(u) = 2 /\ \A k \in 1 .. 2 : s[k] = u[k]
    BY <1>2, <1>4
<1>6. s = u
    BY <1>2, <1>3, <1>5, SameList
<1>. QED
    BY <1>2, <1>6

(* A list of three from one and two.                                       *)
LEMMA Triples == \A a, b, c : <<a>> \o <<b, c>> = <<a, b, c>>
<1>1. TAKE a, b, c
<1>2. PICK S, s, u : S = {a, b, c} /\ s = <<a>> \o <<b, c>> /\ u = <<a, b, c>>
    OBVIOUS
<1>3. <<a>> \o <<b, c>> \in Seq({a, b, c}) /\ Len(<<a>> \o <<b, c>>) = 3
    OBVIOUS
<1>4. /\ (<<a>> \o <<b, c>>)[1] = a
      /\ (<<a>> \o <<b, c>>)[2] = b
      /\ (<<a>> \o <<b, c>>)[3] = c
    OBVIOUS
<1>5. u \in Seq(S) /\ Len(u) = 3 /\ \A k \in 1 .. 3 : s[k] = u[k]
    BY <1>2, <1>4
<1>6. s = u
    BY <1>2, <1>3, <1>5, SameList
<1>. QED
    BY <1>2, <1>6

(* A list of three from two and one.                                       *)
LEMMA PairAndOne == \A a, b, c : <<a, b>> \o <<c>> = <<a, b, c>>
<1>1. TAKE a, b, c
<1>2. PICK S, s, u : S = {a, b, c} /\ s = <<a, b>> \o <<c>> /\ u = <<a, b, c>>
    OBVIOUS
<1>3. <<a, b>> \o <<c>> \in Seq({a, b, c}) /\ Len(<<a, b>> \o <<c>>) = 3
    OBVIOUS
<1>4. /\ (<<a, b>> \o <<c>>)[1] = a
      /\ (<<a, b>> \o <<c>>)[2] = b
      /\ (<<a, b>> \o <<c>>)[3] = c
    OBVIOUS
<1>5. u \in Seq(S) /\ Len(u) = 3 /\ \A k \in 1 .. 3 : s[k] = u[k]
    BY <1>2, <1>4
<1>6. s = u
    BY <1>2, <1>3, <1>5, SameList
<1>. QED
    BY <1>2, <1>6

(* A list of four from one and three.                                      *)
LEMMA Quads == \A a, b, c, d : <<a>> \o <<b, c, d>> = <<a, b, c, d>>
<1>1. TAKE a, b, c, d
<1>2. PICK S, s, u : S = {a, b, c, d} /\ s = <<a>> \o <<b, c, d>> /\ u = <<a, b, c, d>>
    OBVIOUS
<1>3. <<a>> \o <<b, c, d>> \in Seq({a, b, c, d}) /\ Len(<<a>> \o <<b, c, d>>) = 4
    OBVIOUS
<1>4. /\ (<<a>> \o <<b, c, d>>)[1] = a
      /\ (<<a>> \o <<b, c, d>>)[2] = b
      /\ (<<a>> \o <<b, c, d>>)[3] = c
      /\ (<<a>> \o <<b, c, d>>)[4] = d
    OBVIOUS
<1>5. u \in Seq(S) /\ Len(u) = 4 /\ \A k \in 1 .. 4 : s[k] = u[k]
    BY <1>2, <1>4
<1>6. s = u
    BY <1>2, <1>3, <1>5, SameList
<1>. QED
    BY <1>2, <1>6

(* What a roll-up, and a roll-up with a mail, set out to do.               *)
LEMMA Lists ==
    /\ RollUp = <<[do |-> "read"], [do |-> "write"]>>
    /\ ThenMail = <<[do |-> "read"], [do |-> "write"], [do |-> "mail"]>>
    /\ \A q : /\ <<q>> \o RollUp = <<q, [do |-> "read"], [do |-> "write"]>>
              /\ <<q>> \o ThenMail = <<q, [do |-> "read"], [do |-> "write"], [do |-> "mail"]>>
<1>1. RollUp = <<[do |-> "read"], [do |-> "write"]>>
    BY Pairs DEF RollUp, Todo
<1>2. ThenMail = <<[do |-> "read"], [do |-> "write"], [do |-> "mail"]>>
    BY <1>1, PairAndOne DEF ThenMail, Todo
<1>3. \A q : <<q>> \o RollUp = <<q, [do |-> "read"], [do |-> "write"]>>
    BY <1>1, Triples
<1>4. \A q : <<q>> \o ThenMail = <<q, [do |-> "read"], [do |-> "write"], [do |-> "mail"]>>
    BY <1>2, Quads
<1>. QED
    BY <1>1, <1>2, <1>3, <1>4

(* Head and tail of a list that is written out.                            *)
LEMMA Tails ==
    /\ \A a : Tail(<<a>>) = <<>> /\ Head(<<a>>) = a
    /\ \A a, b : Tail(<<a, b>>) = <<b>> /\ Head(<<a, b>>) = a
    /\ \A a, b, c : Tail(<<a, b, c>>) = <<b, c>> /\ Head(<<a, b, c>>) = a
    /\ \A a, b, c, d : Tail(<<a, b, c, d>>) = <<b, c, d>> /\ Head(<<a, b, c, d>>) = a
OBVIOUS

(* The queries that calls are made of are queries.                         *)
LEMMA InQueries ==
    /\ \A name \in {"read", "write", "mail", "dropAll", "delete"} : [do |-> name] \in Queries
    /\ \A t \in Types : [do |-> "newDoc", value |-> t] \in Queries
    /\ \A i \in Nat, t \in Types : [do |-> "replace", id |-> i, value |-> t] \in Queries
    /\ \A i \in Nat, s \in {"verified", "rejected"} : [do |-> "judge", id |-> i, value |-> s] \in Queries
    /\ \A S \in SUBSET Nat : [do |-> "drop", value |-> S] \in Queries
    /\ \A f \in PartnerFields : [do |-> "profile", value |-> f] \in Queries
    /\ \A p \in Profiles : [do |-> "newProfile", value |-> p] \in Queries
    /\ \A s \in {"active", "suspended"} : [do |-> "account", value |-> s] \in Queries
BY DEF Queries

(* A query carries what its kind needs.                                    *)
LEMMA QueryIs ==
    ASSUME NEW q \in Queries
    PROVE  /\ q.do = "newDoc" => q.value \in Types
           /\ q.do \in {"replace", "judge"} => q.id \in Nat
           /\ q.do = "judge" => q.value \in {"verified", "rejected"}
           /\ q.do = "profile" => q.value \in PartnerFields
           /\ q.do = "newProfile" => q.value \in Profiles
           /\ q.do = "account" => q.value \in {"active", "suspended"}
           /\ q.do \in {"read", "write", "mail"} => q = [do |-> q.do]
BY DEF Queries

(* An edited row is a row, and keeps the status unless it is edited.       *)
LEMMA EditedIs ==
    ASSUME NEW p \in Profiles, NEW f \in PartnerFields
    PROVE  /\ Edited(p, f) \in Profiles
           /\ "kyc" \notin DOMAIN f => Edited(p, f).kyc = p.kyc
BY DEF Profiles, PartnerFields, Edited

(* Joining nothing and one query.                                          *)
LEMMA NoneBefore == \A a : <<>> \o <<a>> = <<a>>
<1>1. TAKE a
<1>2. PICK S, s, u : S = {a} /\ s = <<>> \o <<a>> /\ u = <<a>>
    OBVIOUS
<1>3. <<>> \o <<a>> \in Seq({a}) /\ Len(<<>> \o <<a>>) = 1 /\ (<<>> \o <<a>>)[1] = a
    OBVIOUS
<1>4. u \in Seq(S) /\ Len(u) = 1 /\ \A k \in 1 .. 1 : s[k] = u[k]
    BY <1>2, <1>3
<1>5. s = u
    BY <1>2, <1>3, <1>4, SameList
<1>. QED
    BY <1>2, <1>5

-----------------------------------------------------------------------------

CallsStay(h) == call' = [k \in Slots |-> call'[k]] /\ \A k \in Slots : k # h => call'[k] = call[k]

(* If one call moves to a call, all of them are calls.                     *)
LEMMA CallsKeep ==
    ASSUME Shapes, NEW h \in Slots, CallsStay(h), IsCall(call'[h])
    PROVE  call' = [k \in Slots |-> call'[k]] /\ \A k \in Slots : IsCall(call'[k])
BY DEF Shapes, CallsStay

(* A free slot holds a call that does nothing.                             *)
LEMMA NoCallIs == IsCall(NoCall)
BY DEF IsCall, NoCall, Statuses

(* A call that has begun is one, with all of its list to do.               *)
LEMMA Begun ==
    ASSUME Shapes, NEW h \in Slots, NEW what, what # "idle", NEW u \in Users,
           NEW todo \in Seq(Queries), todo # <<>>, Begin(h, what, u, todo)
    PROVE  /\ CallsStay(h) /\ IsCall(call'[h]) /\ call'[h] # NoCall
           /\ call'[h].user = u /\ call'[h].found = TRUE /\ call'[h].todo = todo
<1>1. PICK c : c = [NoCall EXCEPT !.what = what, !.user = u, !.todo = todo]
    OBVIOUS
<1>2. /\ c.what = what /\ c.user = u /\ c.found = TRUE /\ c.rolled = "pending" /\ c.todo = todo
      /\ c = [what |-> what, user |-> u, found |-> TRUE, rolled |-> "pending", todo |-> todo]
    BY <1>1 DEF NoCall
<1>3. c # NoCall
    BY <1>2 DEF NoCall
<1>4. IsCall(c)
    BY <1>2 DEF IsCall, Statuses
<1>5. call' = [call EXCEPT ![h] = c]
    BY <1>1 DEF Begin
<1>. QED
    BY <1>2, <1>3, <1>4, <1>5 DEF CallsStay, Shapes

(* What is left of a list after its first query.                           *)
LEMMA RestIs ==
    ASSUME NEW c, IsCall(c), c.todo # <<>>
    PROVE  /\ Head(c.todo) \in Queries /\ Head(c.todo) = c.todo[1]
           /\ Tail(c.todo) \in Seq(Queries) /\ Tail(c.todo) # c.todo
           /\ Len(c.todo) \in Nat /\ Len(Tail(c.todo)) = Len(c.todo) - 1
           /\ \A k \in 1 .. Len(c.todo) - 1 : Tail(c.todo)[k] = c.todo[k + 1]
<1>1. PICK s : s = c.todo
    OBVIOUS
<1>2. s \in Seq(Queries) /\ s # <<>>
    BY <1>1 DEF IsCall
<1>3. Head(s) \in Queries /\ Head(s) = s[1] /\ Tail(s) \in Seq(Queries)
    BY <1>2
<1>4. Len(s) \in Nat /\ Len(s) > 0 /\ Len(Tail(s)) = Len(s) - 1
    BY <1>2
<1>5. \A k \in 1 .. Len(s) - 1 : Tail(s)[k] = s[k + 1]
    BY <1>2
<1>6. Tail(s) # s
    BY <1>4
<1>. QED
    BY <1>1, <1>3, <1>4, <1>5, <1>6

(* A call that goes on has done the first query of its list, or is over.   *)
LEMMA Gone ==
    ASSUME Shapes, NEW h \in Slots, call[h].todo # <<>>,
           NEW found \in BOOLEAN, NEW rolled \in Statuses, GoesWith(h, found, rolled)
    PROVE  /\ CallsStay(h) /\ IsCall(call'[h]) /\ call'[h] # call[h]
           /\ Rest(h) = <<>> => call'[h] = NoCall
           /\ Rest(h) # <<>> =>
                /\ call'[h] # NoCall /\ call'[h].user = call[h].user
                /\ call'[h].found = found /\ call'[h].rolled = rolled /\ call'[h].todo = Rest(h)
<1>1. PICK o : o = call[h]
    OBVIOUS
<1>2. /\ IsCall(o) /\ o.todo # <<>> /\ o # NoCall /\ o.user \in Users
      /\ o = [what |-> o.what, user |-> o.user, found |-> o.found, rolled |-> o.rolled, todo |-> o.todo]
    BY <1>1 DEF Shapes, IsCall, NoCall
<1>3. /\ Rest(h) = Tail(o.todo) /\ Rest(h) \in Seq(Queries) /\ Rest(h) # o.todo
    BY <1>1, <1>2, RestIs DEF Rest
<1>4. PICK c : c = [o EXCEPT !.found = found, !.rolled = rolled, !.todo = Rest(h)]
    OBVIOUS
<1>5. /\ c.what = o.what /\ c.user = o.user /\ c.found = found /\ c.rolled = rolled /\ c.todo = Rest(h)
      /\ c = [what |-> c.what, user |-> c.user, found |-> c.found, rolled |-> c.rolled, todo |-> c.todo]
    BY <1>2, <1>4
<1>6. call' = [call EXCEPT ![h] = IF Rest(h) = <<>> THEN NoCall ELSE c]
    BY <1>1, <1>4 DEF GoesWith
<1>7. CallsStay(h) /\ call'[h] = (IF Rest(h) = <<>> THEN NoCall ELSE c)
    BY <1>6 DEF CallsStay, Shapes
<1>8. CASE Rest(h) = <<>>
    BY <1>1, <1>2, <1>7, <1>8, NoCallIs
<1>9. CASE Rest(h) # <<>>
  <2>1. c # NoCall /\ c # o
      BY <1>3, <1>5, <1>9 DEF NoCall
  <2>2. IsCall(c)
      BY <1>2, <1>3, <1>5, <1>9 DEF IsCall
  <2>. QED
      BY <1>1, <1>5, <1>7, <1>9, <2>1, <2>2
<1>. QED
    BY <1>8, <1>9

(* A call that ends leaves its slot free.                                  *)
LEMMA Ended ==
    ASSUME Shapes, NEW h \in Slots, Ends(h)
    PROVE  CallsStay(h) /\ call'[h] = NoCall /\ IsCall(call'[h])
BY NoCallIs DEF Ends, CallsStay, Shapes

(* Going on without news keeps what the call knows.                        *)
LEMMA Going ==
    ASSUME Shapes, NEW h \in Slots, call[h].todo # <<>>, Goes(h)
    PROVE  GoesWith(h, call[h].found, call[h].rolled) /\ call[h].found \in BOOLEAN /\ call[h].rolled \in Statuses
BY DEF Goes, Shapes, IsCall

(* Documents roll up to a status.                                          *)
LEMMA RolledUpIs == \A D : RolledUp(D) \in Statuses
BY DEF RolledUp, Statuses

(* What is to be done now. *)
LEMMA DoingIs ==
    ASSUME Shapes, NEW h \in Slots, NEW name, Doing(h, name)
    PROVE  /\ IsCall(call[h]) /\ call[h].todo # <<>> /\ call[h] # NoCall /\ call[h].user \in Users
           /\ Now(h) \in Queries /\ Now(h).do = name /\ Now(h) = call[h].todo[1]
BY RestIs DEF Doing, Now, Shapes, IsCall, NoCall

-----------------------------------------------------------------------------
(* Who is settled stays so while nothing of his is touched.                *)

UnrolledNext ==
    unrolled' = {u \in Users : /\ ~Writes(u, {"write"})
                               /\ u \in unrolled \/ Sets(u) \/ Writes(u, {"dropAll"})}

(* A call does one thing at a time.                                        *)
LEMMA DoingOne ==
    ASSUME NEW h, NEW a, NEW b, Doing(h, a), Doing(h, b)
    PROVE  a = b
BY DEF Doing

(* A step of one call sets nobody else by hand.                            *)
LEMMA OthersHands ==
    ASSUME Shapes, NEW h \in Slots, CallsStay(h), UnrolledNext,
           NEW w \in Users, w # call[h].user \/ call[h].todo = <<>>
    PROVE  w \in unrolled' <=> w \in unrolled
BY DEF UnrolledNext, Writes, Sets, CallsStay, Doing

(* Only writing the rolled-up status takes a user off the list.            *)
LEMMA HandsStay ==
    ASSUME Shapes, NEW h \in Slots, CallsStay(h), UnrolledNext, ~Doing(h, "write"), NEW w \in Users, w \in unrolled
    PROVE  w \in unrolled'
BY DEF UnrolledNext, Writes, CallsStay

(* Writing the rolled-up status takes the user off the list.               *)
LEMMA HandsOff ==
    ASSUME Shapes, NEW h \in Slots, CallsStay(h), UnrolledNext, Doing(h, "write"), call'[h] # call[h]
    PROVE  call[h].user \notin unrolled'
BY DEF UnrolledNext, Writes, CallsStay

(* Setting a status, or dropping documents, puts the user on the list.     *)
LEMMA HandsOn ==
    ASSUME Shapes, NEW h \in Slots, CallsStay(h), UnrolledNext, call'[h] # call[h], call[h].user \in Users,
           \/ Doing(h, "newProfile") \/ Doing(h, "dropAll")
           \/ Doing(h, "profile") /\ "kyc" \in DOMAIN Now(h).value
    PROVE  call[h].user \in unrolled'
<1>1. ~Doing(h, "write")
    BY DoingOne
<1>2. ~Writes(call[h].user, {"write"})
    BY <1>1 DEF Writes, CallsStay
<1>3. Sets(call[h].user) \/ Writes(call[h].user, {"dropAll"})
    BY DEF Sets, Writes
<1>. QED
    BY <1>2, <1>3 DEF UnrolledNext

DocsStay(w) ==
    /\ \A i \in DOMAIN docs : docs[i].user = w => i \in DOMAIN docs' /\ docs'[i] = docs[i]
    /\ \A i \in DOMAIN docs' : docs'[i].user = w => i \in DOMAIN docs /\ docs'[i] = docs[i]

(* A user whose rows and mail stay, stays settled.                         *)
LEMMA SettledStays ==
    ASSUME NEW w, Settled(w), DocsStay(w), mailed'[w] = mailed[w], w \in unrolled => w \in unrolled',
           w \in DOMAIN profile' =>
             w \in unrolled' \/ (w \in DOMAIN profile /\ profile'[w].kyc = profile[w].kyc)
    PROVE  Settled(w)'
<1>1. Told(w)'
    BY DEF Settled, Told, DocsStay
<1>2. ASSUME w \in DOMAIN profile' \ unrolled' PROVE StatusTrue(w)'
  <2>1. w \in DOMAIN profile \ unrolled /\ profile'[w].kyc = profile[w].kyc
      BY <1>2
  <2>2. profile'[w].kyc = "rejected" => mailed'[w] = "rejected"
      BY <2>1 DEF Settled, StatusTrue
  <2>3. ASSUME profile'[w].kyc = "verified"
        PROVE  /\ \A t \in Mandatory : SameKind(w, t)' # {}
               /\ \A i \in DOMAIN docs' : docs'[i].user = w => docs'[i].status = "verified"
    <3>1. /\ \A t \in Mandatory : SameKind(w, t) # {}
          /\ \A i \in DOMAIN docs : docs[i].user = w => docs[i].status = "verified"
        BY <2>1, <2>3 DEF Settled, StatusTrue
    <3>2. \A t : SameKind(w, t) \subseteq SameKind(w, t)'
        BY DEF SameKind, DocsStay
    <3>. QED
        BY <3>1, <3>2 DEF DocsStay
  <2>. QED
      BY <2>2, <2>3 DEF StatusTrue
<1>3. StatusTrue(w)'
    BY <1>2 DEF StatusTrue
<1>. QED
    BY <1>1, <1>3 DEF Settled

(* With the documents the same, everybody's stay.                          *)
LEMMA SameDocsStay == docs' = docs => \A w : DocsStay(w)
BY DEF DocsStay

(* What a call that is alone does first tells what it still has to do.     *)
LEMMA HeadShapes ==
    ASSUME NEW c, IsCall(c), c # NoCall, InProgress(c)
    PROVE  /\ c.todo[1].do \in {"newDoc", "replace", "drop"} =>
                /\ Settled(c.user) /\ Uploads(c, c.todo[1])
                /\ c.todo = <<c.todo[1], [do |-> "read"], [do |-> "write"]>>
           /\ c.todo[1].do = "judge" =>
                /\ Settled(c.user) /\ Its(c, c.todo[1].id)
                /\ c.todo = <<c.todo[1], [do |-> "read"], [do |-> "write"], [do |-> "mail"]>>
           /\ c.todo[1].do = "read" => (Reading(c) /\ Told(c.user)) \/ (ReadingToTell(c) /\ c.found)
           /\ c.todo[1].do = "write" =>
                /\ Counted(c)
                /\ \/ c.todo = <<[do |-> "write"]>> /\ Told(c.user)
                   \/ c.todo = <<[do |-> "write"], [do |-> "mail"]>> /\ c.found
           /\ c.todo[1].do = "mail" =>
                /\ c.todo = <<[do |-> "mail"]>> /\ c.found /\ Counted(c)
                /\ c.user \in DOMAIN profile => profile[c.user].kyc = c.rolled
           /\ Edits(c.todo[1]) => Settled(c.user) /\ \A k \in 1 .. Len(c.todo) : Edits(c.todo[k])
<1>1. c.todo # <<>> /\ c.todo \in Seq(Queries) /\ Len(c.todo) \in Nat /\ Len(c.todo) >= 1
  <2>1. PICK s : s = c.todo
      OBVIOUS
  <2>2. s # <<>> /\ s \in Seq(Queries)
      BY <2>1 DEF IsCall
  <2>3. Len(s) \in Nat /\ Len(s) >= 1
      BY <2>2
  <2>. QED
      BY <2>1, <2>2, <2>3
<1>2. PICK q : q = c.todo[1]
    OBVIOUS
<1>3. CASE /\ Settled(c.user)
           /\ \A k \in 1 .. Len(c.todo) : Edits(c.todo[k])
    BY <1>1, <1>3 DEF Edits
<1>4. CASE /\ Settled(c.user)
           /\ c.todo = <<c.todo[1], [do |-> "read"], [do |-> "write"]>> /\ Uploads(c, c.todo[1])
    BY <1>2, <1>4 DEF Edits, Uploads
<1>5. CASE /\ Settled(c.user)
           /\ c.todo = <<c.todo[1], [do |-> "read"], [do |-> "write"], [do |-> "mail"]>>
           /\ c.todo[1].do = "judge" /\ Its(c, c.todo[1].id)
    BY <1>5 DEF Edits
<1>6. CASE Reading(c) /\ Told(c.user)
    BY <1>6 DEF Edits, Reading
<1>7. CASE ReadingToTell(c) /\ c.found
    BY <1>7 DEF Edits, ReadingToTell
<1>8. CASE c.todo = <<[do |-> "write"]>> /\ Told(c.user) /\ Counted(c)
    BY <1>8 DEF Edits
<1>9. CASE c.todo = <<[do |-> "write"], [do |-> "mail"]>> /\ c.found /\ Counted(c)
    BY <1>9 DEF Edits
<1>10. CASE /\ c.todo = <<[do |-> "mail"]>> /\ c.found /\ Counted(c)
            /\ c.user \in DOMAIN profile => profile[c.user].kyc = c.rolled
    BY <1>10 DEF Edits
<1>. QED
    BY <1>3, <1>4, <1>5, <1>6, <1>7, <1>8, <1>9, <1>10 DEF InProgress

-----------------------------------------------------------------------------
(* One step of a call.                                                     *)

Kept(h) == Rows' /\ CallsStay(h) /\ IsCall(call'[h])

(* When to conclude that a call is still alone.                            *)
LEMMA StaysAlone ==
    ASSUME NEW h \in Slots, Alone(h), CallsStay(h), InProgress(call[h])',
           \A u \in Users : u # call'[h].user => Settled(u)'
    PROVE  Alone(h)'
BY DEF Alone, Only, CallsStay

(* Changing one document leaves those of the others.                       *)
LEMMA OneDocStays ==
    ASSUME Rows, NEW i \in DOMAIN docs, DOMAIN docs' = DOMAIN docs,
           \A k \in DOMAIN docs : k # i => docs'[k] = docs[k],
           docs'[i].user = docs[i].user
    PROVE  \A w : w # docs[i].user => DocsStay(w)
BY DEF DocsStay

(* What is left of three queries.                                          *)
LEMMA TailOfThree ==
    ASSUME NEW s, NEW a, NEW b, s = <<s[1], a, b>>
    PROVE  Tail(s) = <<a, b>> /\ Tail(s) # <<>>
<1>1. PICK x : x = s[1]
    OBVIOUS
<1>2. Tail(<<x, a, b>>) = <<a, b>>
    BY Tails
<1>3. <<a, b>> # <<>>
    OBVIOUS
<1>. QED
    BY <1>1, <1>2, <1>3

(* What is left of four queries.                                           *)
LEMMA TailOfFour ==
    ASSUME NEW s, NEW a, NEW b, NEW c, s = <<s[1], a, b, c>>
    PROVE  Tail(s) = <<a, b, c>> /\ Tail(s) # <<>>
<1>1. PICK x : x = s[1]
    OBVIOUS
<1>2. Tail(<<x, a, b, c>>) = <<a, b, c>>
    BY Tails
<1>3. <<a, b, c>> # <<>>
    OBVIOUS
<1>. QED
    BY <1>1, <1>2, <1>3

(* From the first query to the rolling up.                                 *)
LEMMA NewDocKept ==
    ASSUME Shapes, NEW h \in Slots, NewDoc(h)
    PROVE  Kept(h)
<1>1. /\ call[h].todo # <<>> /\ call[h].user \in Users /\ Now(h) \in Queries /\ Now(h).value \in Types
    BY DoingIs, QueryIs DEF NewDoc
<1>2. CASE Ends(h) /\ docs' = docs /\ lastId' = lastId
    BY <1>2, Ended DEF Kept, NewDoc, Shapes, Rows
<1>3. CASE Goes(h) /\ lastId' = lastId + 1
           /\ docs' = [i \in DOMAIN docs \cup {lastId'} |->
                          IF i = lastId'
                          THEN [user |-> call[h].user, type |-> Now(h).value, upload |-> lastId', status |-> "pending"]
                          ELSE docs[i]]
  <2>1. CallsStay(h) /\ IsCall(call'[h])
      BY <1>1, <1>3, Going, Gone
  <2>2. [user |-> call[h].user, type |-> Now(h).value, upload |-> lastId', status |-> "pending"] \in Docs
      BY <1>1, <1>3 DEF Docs, Statuses, Shapes, Rows
  <2>3. lastId' \in Nat /\ DOMAIN docs' \subseteq 1 .. lastId' /\ docs' \in [DOMAIN docs' -> Docs]
      BY <1>3, <2>2 DEF Shapes, Rows
  <2>. QED
      BY <2>1, <2>3 DEF Kept, NewDoc, Shapes, Rows
<1>. QED
    BY <1>2, <1>3 DEF NewDoc

(* Inserting a document leaves the call alone, if it was.                  *)
LEMMA NewDocAlone ==
    ASSUME Shapes, NEW h \in Slots, NewDoc(h), Alone(h), UnrolledNext
    PROVE  Alone(h)'
<1>1. PICK u : u = call[h].user
    OBVIOUS
<1>2. /\ call[h].todo # <<>> /\ IsCall(call[h]) /\ call[h] # NoCall /\ u \in Users
      /\ Now(h) = call[h].todo[1] /\ Now(h).do = "newDoc"
    BY <1>1, DoingIs DEF NewDoc
<1>3. /\ Settled(u)
      /\ call[h].todo = <<call[h].todo[1], [do |-> "read"], [do |-> "write"]>>
    BY <1>1, <1>2, HeadShapes DEF Alone
<1>4. Rest(h) = <<[do |-> "read"], [do |-> "write"]>> /\ Rest(h) # <<>>
    BY <1>3, TailOfThree DEF Rest
<1>5. \A w \in Users : Settled(w)
    BY <1>1, <1>3 DEF Alone
<1>6. CallsStay(h)
    BY NewDocKept DEF Kept
<1>7. \A w \in Users : w \in unrolled => w \in unrolled'
    BY <1>6, HandsStay, DoingOne DEF NewDoc
<1>8. CASE Ends(h) /\ docs' = docs
  <2>1. \A w \in Users : Settled(w)'
      BY <1>5, <1>7, <1>8, SameDocsStay, SettledStays DEF NewDoc
  <2>2. InProgress(call[h])'
      BY <1>8, <2>1, Ended DEF InProgress, Settled, NoCall
  <2>. QED
      BY <1>6, <2>1, <2>2, StaysAlone
<1>9. CASE Goes(h) /\ lastId' = lastId + 1
           /\ docs' = [i \in DOMAIN docs \cup {lastId'} |->
                          IF i = lastId'
                          THEN [user |-> u, type |-> Now(h).value, upload |-> lastId', status |-> "pending"]
                          ELSE docs[i]]
  <2>1. call'[h].user = u /\ call'[h].todo = Rest(h)
      BY <1>1, <1>2, <1>4, <1>9, Going, Gone
  <2>2. lastId' \notin DOMAIN docs
      BY <1>9 DEF Shapes, Rows
  <2>3. \A w : w # u => DocsStay(w)
      BY <1>9, <2>2 DEF DocsStay
  <2>4. \A w \in Users : w # u => Settled(w)'
      BY <1>5, <1>7, <2>3, SettledStays DEF NewDoc
  <2>5. Told(u)'
      BY <1>3, <1>9, <2>2 DEF Told, Settled, NewDoc
  <2>6. InProgress(call[h])'
      BY <1>4, <2>1, <2>5 DEF InProgress, Reading
  <2>. QED
      BY <1>6, <2>1, <2>4, <2>6, StaysAlone
<1>. QED
    BY <1>1, <1>8, <1>9 DEF NewDoc

(* Replacing an upload keeps the shapes and moves one call.                *)
LEMMA ReplaceKept ==
    ASSUME Shapes, NEW h \in Slots, Replace(h)
    PROVE  Kept(h)
<1>1. call[h].todo # <<>> /\ Goes(h) /\ lastId' = lastId + 1
    BY DoingIs DEF Replace
<1>2. CallsStay(h) /\ IsCall(call'[h])
    BY <1>1, Going, Gone
<1>3. ASSUME NEW i \in DOMAIN docs
      PROVE  [docs[i] EXCEPT !.upload = lastId', !.status = "pending"] \in Docs
  <2>1. PICK o : o = docs[i]
      OBVIOUS
  <2>2. o \in Docs /\ lastId' \in Nat
      BY <1>1, <2>1 DEF Shapes, Rows
  <2>3. PICK q : q = [o EXCEPT !.upload = lastId', !.status = "pending"]
      OBVIOUS
  <2>4. q = [user |-> o.user, type |-> o.type, upload |-> lastId', status |-> "pending"]
      BY <2>2, <2>3 DEF Docs
  <2>5. q \in Docs
      BY <2>2, <2>4 DEF Docs, Statuses
  <2>. QED
      BY <2>1, <2>3, <2>5
<1>4. DOMAIN docs' = DOMAIN docs /\ docs' \in [DOMAIN docs -> Docs]
  <2>1. CASE Now(h).id \notin DOMAIN docs
      BY <2>1 DEF Replace, Shapes, Rows
  <2>2. CASE Now(h).id \in DOMAIN docs
    <3>1. docs' = [docs EXCEPT ![Now(h).id] =
                     [docs[Now(h).id] EXCEPT !.upload = lastId', !.status = "pending"]]
        BY <2>2 DEF Replace, Shapes, Rows, Docs
    <3>. QED
        BY <1>3, <2>2, <3>1 DEF Shapes, Rows
  <2>. QED
      BY <2>1, <2>2
<1>5. lastId' \in Nat /\ DOMAIN docs' \subseteq 1 .. lastId'
    BY <1>1, <1>4 DEF Shapes, Rows
<1>. QED
    BY <1>2, <1>4, <1>5 DEF Kept, Replace, Shapes, Rows

(* Replacing an upload leaves the call alone, if it was.                   *)
LEMMA ReplaceAlone ==
    ASSUME Shapes, NEW h \in Slots, Replace(h), Alone(h), UnrolledNext
    PROVE  Alone(h)'
<1>1. PICK u, i : u = call[h].user /\ i = Now(h).id
    OBVIOUS
<1>2. /\ call[h].todo # <<>> /\ IsCall(call[h]) /\ call[h] # NoCall /\ u \in Users
      /\ Now(h) = call[h].todo[1] /\ Now(h).do = "replace"
    BY <1>1, DoingIs DEF Replace
<1>3. /\ Settled(u) /\ i \in DOMAIN docs /\ docs[i].user = u
      /\ call[h].todo = <<call[h].todo[1], [do |-> "read"], [do |-> "write"]>>
    BY <1>1, <1>2, HeadShapes DEF Alone, Uploads, Its
<1>4. Rest(h) = <<[do |-> "read"], [do |-> "write"]>> /\ Rest(h) # <<>>
    BY <1>3, TailOfThree DEF Rest
<1>5. \A w \in Users : Settled(w)
    BY <1>1, <1>3 DEF Alone
<1>6. CallsStay(h)
    BY ReplaceKept DEF Kept
<1>7. \A w \in Users : w \in unrolled => w \in unrolled'
    BY <1>6, HandsStay, DoingOne DEF Replace
<1>8. /\ DOMAIN docs' = DOMAIN docs /\ \A k \in DOMAIN docs : k # i => docs'[k] = docs[k]
      /\ docs'[i].user = docs[i].user /\ docs'[i].status = "pending"
    BY <1>1, <1>3 DEF Replace, Shapes, Rows, Docs
<1>9. call'[h].user = u /\ call'[h].todo = Rest(h)
    BY <1>1, <1>2, <1>4, Going, Gone DEF Replace
<1>10. \A w \in Users : w # u => Settled(w)'
    BY <1>3, <1>5, <1>7, <1>8, OneDocStays, SettledStays DEF Replace, Shapes
<1>11. Told(u)'
    BY <1>3, <1>8 DEF Told, Settled, Replace
<1>12. InProgress(call[h])'
    BY <1>4, <1>9, <1>11 DEF InProgress, Reading
<1>. QED
    BY <1>6, <1>9, <1>10, <1>12, StaysAlone

(* Judging a document keeps the shapes and moves one call.                 *)
LEMMA JudgeKept ==
    ASSUME Shapes, NEW h \in Slots, Judge(h)
    PROVE  Kept(h)
<1>1. call[h].todo # <<>> /\ Now(h).value \in Statuses
    BY DoingIs, QueryIs DEF Judge, Statuses
<1>2. CallsStay(h) /\ IsCall(call'[h])
  <2>1. PICK f : f = (Now(h).id \in DOMAIN docs)
      OBVIOUS
  <2>2. f \in BOOLEAN /\ call[h].rolled \in Statuses
      BY <2>1 DEF Shapes, IsCall
  <2>3. GoesWith(h, f, call[h].rolled)
      BY <2>1 DEF Judge
  <2>. QED
      BY <1>1, <2>2, <2>3, Gone
<1>3. ASSUME NEW i \in DOMAIN docs
      PROVE  [docs[i] EXCEPT !.status = Now(h).value] \in Docs
  <2>1. PICK o, v : o = docs[i] /\ v = Now(h).value
      OBVIOUS
  <2>2. o \in Docs /\ v \in Statuses
      BY <1>1, <2>1 DEF Shapes, Rows
  <2>3. [o EXCEPT !.status = v] \in Docs
      BY <2>2 DEF Docs
  <2>. QED
      BY <2>1, <2>3
<1>4. DOMAIN docs' = DOMAIN docs /\ docs' \in [DOMAIN docs -> Docs]
  <2>1. CASE Now(h).id \notin DOMAIN docs
      BY <2>1 DEF Judge, Shapes, Rows
  <2>2. CASE Now(h).id \in DOMAIN docs
    <3>1. docs' = [docs EXCEPT ![Now(h).id] = [docs[Now(h).id] EXCEPT !.status = Now(h).value]]
        BY <2>2 DEF Judge, Shapes, Rows
    <3>. QED
        BY <1>3, <2>2, <3>1 DEF Shapes, Rows
  <2>. QED
      BY <2>1, <2>2
<1>. QED
    BY <1>2, <1>4 DEF Kept, Judge, Shapes, Rows

(* Judging a document leaves the call alone, if it was.                    *)
LEMMA JudgeAlone ==
    ASSUME Shapes, NEW h \in Slots, Judge(h), Alone(h), UnrolledNext
    PROVE  Alone(h)'
<1>1. PICK u, i : u = call[h].user /\ i = Now(h).id
    OBVIOUS
<1>2. /\ call[h].todo # <<>> /\ IsCall(call[h]) /\ call[h] # NoCall /\ u \in Users
      /\ Now(h) = call[h].todo[1] /\ Now(h).do = "judge"
    BY <1>1, DoingIs DEF Judge
<1>3. /\ Settled(u) /\ i \in DOMAIN docs /\ docs[i].user = u
      /\ call[h].todo = <<call[h].todo[1], [do |-> "read"], [do |-> "write"], [do |-> "mail"]>>
    BY <1>1, <1>2, HeadShapes DEF Alone, Its
<1>4. Rest(h) = <<[do |-> "read"], [do |-> "write"], [do |-> "mail"]>> /\ Rest(h) # <<>>
  <2>1. PICK s, a, b, c : /\ s = call[h].todo /\ a = [do |-> "read"]
                          /\ b = [do |-> "write"] /\ c = [do |-> "mail"]
      OBVIOUS
  <2>2. s = <<s[1], a, b, c>>
      BY <1>3, <2>1
  <2>3. Tail(s) = <<a, b, c>> /\ Tail(s) # <<>>
      BY <2>2, TailOfFour
  <2>. QED
      BY <2>1, <2>3 DEF Rest
<1>5. \A w \in Users : Settled(w)
    BY <1>1, <1>3 DEF Alone
<1>6. CallsStay(h)
    BY JudgeKept DEF Kept
<1>7. \A w \in Users : w \in unrolled => w \in unrolled'
    BY <1>6, HandsStay, DoingOne DEF Judge
<1>8. /\ DOMAIN docs' = DOMAIN docs /\ \A k \in DOMAIN docs : k # i => docs'[k] = docs[k]
      /\ docs'[i].user = docs[i].user
    BY <1>1, <1>3 DEF Judge, Shapes, Rows, Docs
<1>9. call'[h].user = u /\ call'[h].todo = Rest(h) /\ call'[h].found
  <2>1. GoesWith(h, TRUE, call[h].rolled)
      BY <1>1, <1>3 DEF Judge
  <2>2. call[h].rolled \in Statuses
      BY <1>2 DEF IsCall
  <2>. QED
      BY <1>1, <1>2, <1>4, <2>1, <2>2, Gone
<1>10. \A w \in Users : w # u => Settled(w)'
    BY <1>3, <1>5, <1>7, <1>8, OneDocStays, SettledStays DEF Judge, Shapes
<1>11. InProgress(call[h])'
    BY <1>4, <1>9 DEF InProgress, ReadingToTell
<1>. QED
    BY <1>6, <1>9, <1>10, <1>11, StaysAlone

(* Removing a document keeps the shapes and moves one call.                *)
LEMMA DropDocsKept ==
    ASSUME Shapes, NEW h \in Slots, DropDocs(h)
    PROVE  Kept(h)
<1>1. CallsStay(h) /\ IsCall(call'[h])
    BY DoingIs, Going, Gone DEF DropDocs
<1>2. docs' = [i \in DOMAIN docs \ Now(h).value |-> docs[i]]
    BY DEF DropDocs
<1>3. DOMAIN docs' \subseteq DOMAIN docs /\ docs' \in [DOMAIN docs' -> Docs]
    BY <1>2 DEF Shapes, Rows
<1>. QED
    BY <1>1, <1>3 DEF Kept, DropDocs, Shapes, Rows

(* Removing a document leaves the call alone, if it was.                   *)
LEMMA DropDocsAlone ==
    ASSUME Shapes, NEW h \in Slots, DropDocs(h), Alone(h), UnrolledNext
    PROVE  Alone(h)'
<1>1. PICK u, S : u = call[h].user /\ S = Now(h).value
    OBVIOUS
<1>2. /\ call[h].todo # <<>> /\ IsCall(call[h]) /\ call[h] # NoCall /\ u \in Users
      /\ Now(h) = call[h].todo[1] /\ Now(h).do = "drop"
    BY <1>1, DoingIs DEF DropDocs
<1>3. /\ Settled(u) /\ \A i \in S : docs[i].user = u
      /\ call[h].todo = <<call[h].todo[1], [do |-> "read"], [do |-> "write"]>>
    BY <1>1, <1>2, HeadShapes DEF Alone, Uploads, Its
<1>4. Rest(h) = <<[do |-> "read"], [do |-> "write"]>> /\ Rest(h) # <<>>
    BY <1>3, TailOfThree DEF Rest
<1>5. \A w \in Users : Settled(w)
    BY <1>1, <1>3 DEF Alone
<1>6. CallsStay(h)
    BY DropDocsKept DEF Kept
<1>7. \A w \in Users : w \in unrolled => w \in unrolled'
    BY <1>6, HandsStay, DoingOne DEF DropDocs
<1>8. docs' = [i \in DOMAIN docs \ S |-> docs[i]]
    BY <1>1 DEF DropDocs
<1>9. call'[h].user = u /\ call'[h].todo = Rest(h)
    BY <1>1, <1>2, <1>4, Going, Gone DEF DropDocs
<1>10. \A w : w # u => DocsStay(w)
    BY <1>3, <1>8 DEF DocsStay
<1>11. \A w \in Users : w # u => Settled(w)'
    BY <1>5, <1>7, <1>10, SettledStays DEF DropDocs
<1>12. Told(u)'
    BY <1>3, <1>8 DEF Told, Settled, DropDocs
<1>13. InProgress(call[h])'
    BY <1>4, <1>9, <1>12 DEF InProgress, Reading
<1>. QED
    BY <1>6, <1>9, <1>11, <1>13, StaysAlone

(* The rolling up, and the mail.                                           *)
LEMMA ReadDocsKept ==
    ASSUME Shapes, NEW h \in Slots, ReadDocs(h)
    PROVE  Kept(h)
<1>1. CallsStay(h) /\ IsCall(call'[h])
  <2>1. PICK r : r = RolledUp(DocsOf(call[h].user))
      OBVIOUS
  <2>2. r \in Statuses /\ call[h].found \in BOOLEAN
      BY <2>1, RolledUpIs DEF Shapes, IsCall
  <2>3. GoesWith(h, call[h].found, r)
      BY <2>1 DEF ReadDocs
  <2>. QED
      BY <2>2, <2>3, DoingIs, Gone DEF ReadDocs
<1>. QED
    BY <1>1 DEF Kept, ReadDocs, Shapes, Rows

(* Reading the documents leaves the call alone, if it was.                 *)
LEMMA ReadDocsAlone ==
    ASSUME Shapes, NEW h \in Slots, ReadDocs(h), Alone(h), UnrolledNext
    PROVE  Alone(h)'
<1>1. PICK u, r, f : u = call[h].user /\ r = RolledUp(DocsOf(u)) /\ f = call[h].found
    OBVIOUS
<1>2. /\ call[h].todo # <<>> /\ IsCall(call[h]) /\ call[h] # NoCall /\ u \in Users
      /\ Now(h) = call[h].todo[1] /\ Now(h).do = "read"
    BY <1>1, DoingIs DEF ReadDocs
<1>3. (Reading(call[h]) /\ Told(u)) \/ (ReadingToTell(call[h]) /\ f)
    BY <1>1, <1>2, HeadShapes DEF Alone
<1>4. \/ Rest(h) = <<[do |-> "write"]>> /\ Told(u)
      \/ Rest(h) = <<[do |-> "write"], [do |-> "mail"]>> /\ f
  <2>1. PICK s, a, b, c : /\ s = call[h].todo /\ a = [do |-> "read"]
                          /\ b = [do |-> "write"] /\ c = [do |-> "mail"]
      OBVIOUS
  <2>2. (s = <<a, b>> /\ Told(u)) \/ (s = <<a, b, c>> /\ f)
      BY <1>3, <2>1 DEF Reading, ReadingToTell
  <2>3. Tail(<<a, b>>) = <<b>> /\ Tail(<<a, b, c>>) = <<b, c>>
      BY Tails
  <2>4. (Tail(s) = <<b>> /\ Told(u)) \/ (Tail(s) = <<b, c>> /\ f)
      BY <2>2, <2>3
  <2>. QED
      BY <2>1, <2>4 DEF Rest
<1>5. Rest(h) # <<>>
    BY <1>4
<1>6. CallsStay(h)
    BY ReadDocsKept DEF Kept
<1>7. \A w \in Users : w \in unrolled => w \in unrolled'
    BY <1>6, HandsStay, DoingOne DEF ReadDocs
<1>8. /\ call'[h].user = u /\ call'[h].todo = Rest(h)
      /\ call'[h].found = f /\ call'[h].rolled = r
  <2>1. GoesWith(h, f, r) /\ f \in BOOLEAN /\ r \in Statuses
      BY <1>1, <1>2, RolledUpIs DEF ReadDocs, IsCall
  <2>. QED
      BY <1>1, <1>2, <1>5, <2>1, Gone
<1>9. \A w \in Users : w # u => Settled(w)'
    BY <1>1, <1>7, SameDocsStay, SettledStays DEF ReadDocs, Alone
<1>10. RolledUp(DocsOf(u))' = r
    BY <1>1 DEF ReadDocs, DocsOf
<1>11. Counted(call[h])'
    BY <1>8, <1>10 DEF Counted
<1>12. Told(u)' <=> Told(u)
    BY DEF Told, ReadDocs
<1>13. InProgress(call[h])'
    BY <1>4, <1>8, <1>11, <1>12 DEF InProgress
<1>. QED
    BY <1>6, <1>8, <1>9, <1>13, StaysAlone

(* Writing the status keeps the shapes and moves one call.                 *)
LEMMA WriteStatusKept ==
    ASSUME Shapes, NEW h \in Slots, WriteStatus(h)
    PROVE  Kept(h)
<1>1. CallsStay(h) /\ IsCall(call'[h])
    BY DoingIs, Going, Gone DEF WriteStatus
<1>2. call[h].rolled \in Statuses
    BY DEF Shapes, IsCall
<1>3. ASSUME NEW u \in DOMAIN profile
      PROVE  [profile[u] EXCEPT !.kyc = call[h].rolled] \in Profiles
  <2>1. PICK o, v : o = profile[u] /\ v = call[h].rolled
      OBVIOUS
  <2>2. o \in Profiles /\ v \in Statuses
      BY <1>2, <2>1 DEF Shapes, Rows
  <2>3. [o EXCEPT !.kyc = v] \in Profiles
      BY <2>2 DEF Profiles
  <2>. QED
      BY <2>1, <2>3
<1>4. DOMAIN profile' = DOMAIN profile /\ profile' \in [DOMAIN profile -> Profiles]
    BY <1>3 DEF WriteStatus, Shapes, Rows
<1>. QED
    BY <1>1, <1>4 DEF Kept, WriteStatus, Shapes, Rows

(* What is rolled up tells the truth.                                      *)
LEMMA RolledUpTrue ==
    ASSUME NEW u, NEW r, r = RolledUp(DocsOf(u))
    PROVE  /\ r = "rejected" <=> \E i \in DOMAIN docs : docs[i].user = u /\ docs[i].status = "rejected"
           /\ r = "verified" =>
                /\ \A t \in Mandatory : SameKind(u, t) # {}
                /\ \A i \in DOMAIN docs : docs[i].user = u => docs[i].status = "verified"
<1>1. \A d : d \in DocsOf(u) <=> \E i \in DOMAIN docs : docs[i].user = u /\ docs[i] = d
    BY DEF DocsOf
<1>2. r = "rejected" <=> \E d \in DocsOf(u) : d.status = "rejected"
    BY DEF RolledUp
<1>3. r = "rejected" <=> \E i \in DOMAIN docs : docs[i].user = u /\ docs[i].status = "rejected"
    BY <1>1, <1>2
<1>4. ASSUME r = "verified"
      PROVE  /\ \A t \in Mandatory : SameKind(u, t) # {}
             /\ \A i \in DOMAIN docs : docs[i].user = u => docs[i].status = "verified"
  <2>1. Complete(DocsOf(u)) /\ \A d \in DocsOf(u) : d.status = "verified"
      BY <1>4 DEF RolledUp
  <2>2. \A i \in DOMAIN docs : docs[i].user = u => docs[i].status = "verified"
      BY <1>1, <2>1
  <2>3. \A t \in Mandatory : \E i \in DOMAIN docs : docs[i].user = u /\ docs[i].type = t
      BY <1>1, <2>1 DEF Complete
  <2>. QED
      BY <2>2, <2>3 DEF SameKind
<1>. QED
    BY <1>3, <1>4

(* Writing the status leaves the call alone, if it was.                    *)
LEMMA WriteStatusAlone ==
    ASSUME Shapes, NEW h \in Slots, WriteStatus(h), Alone(h), UnrolledNext
    PROVE  Alone(h)'
<1>1. PICK u, r, f : u = call[h].user /\ r = call[h].rolled /\ f = call[h].found
    OBVIOUS
<1>2. /\ call[h].todo # <<>> /\ IsCall(call[h]) /\ call[h] # NoCall /\ u \in Users
      /\ Now(h) = call[h].todo[1] /\ Now(h).do = "write"
    BY <1>1, DoingIs DEF WriteStatus
<1>3. /\ r = RolledUp(DocsOf(u))
      /\ \/ call[h].todo = <<[do |-> "write"]>> /\ Told(u)
         \/ call[h].todo = <<[do |-> "write"], [do |-> "mail"]>> /\ f
    BY <1>1, <1>2, HeadShapes DEF Alone, Counted
<1>4. \/ Rest(h) = <<>> /\ Told(u)
      \/ Rest(h) = <<[do |-> "mail"]>> /\ f
  <2>1. PICK s, b, c : s = call[h].todo /\ b = [do |-> "write"] /\ c = [do |-> "mail"]
      OBVIOUS
  <2>2. (s = <<b>> /\ Told(u)) \/ (s = <<b, c>> /\ f)
      BY <1>3, <2>1
  <2>3. (Tail(s) = <<>> /\ Told(u)) \/ (Tail(s) = <<c>> /\ f)
      BY <2>2, Tails
  <2>. QED
      BY <2>1, <2>3 DEF Rest
<1>5. CallsStay(h) /\ call'[h] # call[h]
    BY <1>2, Going, Gone DEF WriteStatus
<1>6. u \notin unrolled'
    BY <1>1, <1>5, HandsOff DEF WriteStatus
<1>7. \A w \in Users : w # u => (w \in unrolled' <=> w \in unrolled)
    BY <1>1, <1>5, OthersHands
<1>8. \A w \in DOMAIN profile' : w \in DOMAIN profile /\ (w # u => profile'[w].kyc = profile[w].kyc)
    BY <1>1 DEF WriteStatus
<1>9. \A w \in Users : w # u => Settled(w)'
    BY <1>1, <1>7, <1>8, SameDocsStay, SettledStays DEF WriteStatus, Alone
<1>10. u \in DOMAIN profile' => profile'[u].kyc = r
    BY <1>1 DEF WriteStatus, Shapes, Rows, Profiles
<1>11. /\ docs' = docs /\ mailed' = mailed
    BY DEF WriteStatus
<1>12. CASE Rest(h) = <<>> /\ Told(u)
  <2>1. call'[h] = NoCall
      BY <1>2, <1>12, Going, Gone DEF WriteStatus
  <2>2. Told(u)'
      BY <1>11, <1>12 DEF Told
  <2>3. StatusTrue(u)'
    <3>1. SUFFICES ASSUME u \in DOMAIN profile'
                   PROVE  StatusTrue(u)'
        BY DEF StatusTrue
    <3>2. r = "rejected" => mailed'[u] = "rejected"
        BY <1>3, <1>11, <1>12, RolledUpTrue DEF Told
    <3>3. r = "verified" =>
            /\ \A t \in Mandatory : SameKind(u, t)' # {}
            /\ \A i \in DOMAIN docs' : docs'[i].user = u => docs'[i].status = "verified"
      <4>1. r = "verified" =>
                /\ \A t \in Mandatory : SameKind(u, t) # {}
                /\ \A i \in DOMAIN docs : docs[i].user = u => docs[i].status = "verified"
            BY <1>3, RolledUpTrue
      <4>2. \A t : SameKind(u, t)' = SameKind(u, t)
            BY <1>11 DEF SameKind
      <4>. QED
            BY <1>11, <4>1, <4>2
    <3>. QED
        BY <1>10, <3>1, <3>2, <3>3 DEF StatusTrue
  <2>4. \A w \in Users : Settled(w)'
      BY <1>9, <2>2, <2>3 DEF Settled
  <2>5. InProgress(call[h])'
      BY <2>1, <2>4 DEF InProgress, NoCall
  <2>. QED
      BY <1>5, <2>4, <2>5, StaysAlone
<1>13. CASE Rest(h) = <<[do |-> "mail"]>> /\ f
  <2>1. Rest(h) # <<>>
      BY <1>13
  <2>2. /\ call'[h].user = u /\ call'[h].todo = Rest(h)
        /\ call'[h].found = f /\ call'[h].rolled = r
      BY <1>1, <1>2, <2>1, Going, Gone DEF WriteStatus
  <2>3. Counted(call[h])'
      BY <1>3, <1>11, <2>2 DEF Counted, DocsOf
  <2>4. InProgress(call[h])'
      BY <1>10, <1>13, <2>2, <2>3 DEF InProgress
  <2>. QED
      BY <1>5, <1>9, <2>2, <2>4, StaysAlone
<1>. QED
    BY <1>4, <1>12, <1>13

(* The mail keeps the shapes and moves one call.                           *)
LEMMA MailKept ==
    ASSUME Shapes, NEW h \in Slots, Mail(h)
    PROVE  Kept(h)
<1>1. CallsStay(h) /\ IsCall(call'[h])
    BY DoingIs, Going, Gone DEF Mail
<1>2. mailed' \in [Users -> {"none", "verified", "rejected"}]
    BY DEF Mail, Shapes, Rows
<1>. QED
    BY <1>1, <1>2 DEF Kept, Mail, Shapes, Rows

(* The mail leaves the call alone, if it was.                              *)
LEMMA MailAlone ==
    ASSUME Shapes, NEW h \in Slots, Mail(h), Alone(h), UnrolledNext
    PROVE  Alone(h)'
<1>1. PICK u, r : u = call[h].user /\ r = call[h].rolled
    OBVIOUS
<1>2. /\ call[h].todo # <<>> /\ IsCall(call[h]) /\ call[h] # NoCall /\ u \in Users
      /\ Now(h) = call[h].todo[1] /\ Now(h).do = "mail"
    BY <1>1, DoingIs DEF Mail
<1>3. /\ r = RolledUp(DocsOf(u)) /\ call[h].found
      /\ u \in DOMAIN profile => profile[u].kyc = r
      /\ call[h].todo = <<[do |-> "mail"]>>
    BY <1>1, <1>2, HeadShapes DEF Alone, Counted
<1>4. Rest(h) = <<>>
    BY <1>3, Tails DEF Rest
<1>5. CallsStay(h) /\ call'[h] = NoCall
    BY <1>2, <1>4, Going, Gone DEF Mail
<1>6. \A w \in Users : w \in unrolled => w \in unrolled'
    BY <1>5, HandsStay, DoingOne DEF Mail
<1>7. mailed' = IF r \in {"verified", "rejected"} THEN [mailed EXCEPT ![u] = r] ELSE mailed
    BY <1>1, <1>3 DEF Mail
<1>8. \A w \in Users : w # u => mailed'[w] = mailed[w]
    BY <1>7 DEF Shapes, Rows
<1>9. \A w \in Users : w # u => Settled(w)'
    BY <1>1, <1>6, <1>8, SameDocsStay, SettledStays DEF Mail, Alone
<1>10. r = "rejected" => mailed'[u] = "rejected"
    BY <1>2, <1>7 DEF Shapes, Rows
<1>11. docs' = docs /\ profile' = profile
    BY DEF Mail
<1>12. Told(u)'
    BY <1>3, <1>10, <1>11, RolledUpTrue DEF Told
<1>13. StatusTrue(u)'
  <2>1. r = "verified" =>
          /\ \A t \in Mandatory : SameKind(u, t)' # {}
          /\ \A i \in DOMAIN docs' : docs'[i].user = u => docs'[i].status = "verified"
    <3>1. r = "verified" =>
              /\ \A t \in Mandatory : SameKind(u, t) # {}
              /\ \A i \in DOMAIN docs : docs[i].user = u => docs[i].status = "verified"
          BY <1>3, RolledUpTrue
    <3>2. \A t : SameKind(u, t)' = SameKind(u, t)
          BY <1>11 DEF SameKind
    <3>. QED
          BY <1>11, <3>1, <3>2
  <2>. QED
      BY <1>3, <1>10, <1>11, <2>1 DEF StatusTrue
<1>14. \A w \in Users : Settled(w)'
    BY <1>9, <1>12, <1>13 DEF Settled
<1>15. InProgress(call[h])'
    BY <1>5, <1>14 DEF InProgress, NoCall
<1>. QED
    BY <1>5, <1>14, <1>15, StaysAlone

(* The queries of the admin's edits leave everybody settled.               *)
LEMMA EditGoesOn ==
    ASSUME Shapes, NEW h \in Slots, call[h].todo # <<>>, Goes(h),
           \A k \in 1 .. Len(call[h].todo) : Edits(call[h].todo[k]), \A w \in Users : Settled(w)'
    PROVE  InProgress(call[h])'
<1>1. IsCall(call[h]) /\ call[h].user \in Users /\ IsCall(call'[h])
    BY Going, Gone DEF Shapes, IsCall, NoCall
<1>2. CASE Rest(h) = <<>>
    BY <1>2, Going, Gone DEF InProgress, NoCall
<1>3. CASE Rest(h) # <<>>
  <2>1. call'[h] # NoCall /\ call'[h].user = call[h].user /\ call'[h].todo = Rest(h)
      BY <1>3, Going, Gone
  <2>2. PICK s, t, n : s = call[h].todo /\ t = Rest(h) /\ n = Len(s)
      OBVIOUS
  <2>3. /\ n \in Nat /\ Len(t) = n - 1
        /\ \A k \in 1 .. n - 1 : t[k] = s[k + 1]
      BY <1>1, <2>2, RestIs DEF Rest
  <2>4. \A k \in 1 .. n : Edits(s[k])
      BY <2>2
  <2>5. \A k \in 1 .. Len(t) : Edits(t[k])
      BY <2>3, <2>4
  <2>6. \A k \in 1 .. Len(call'[h].todo) : Edits(call'[h].todo[k])
      BY <2>1, <2>2, <2>5
  <2>. QED
      BY <1>1, <2>1, <2>6 DEF InProgress
<1>. QED
    BY <1>2, <1>3

(* A call that is alone and edits, only edits, and all are settled.        *)
LEMMA EditsAlone ==
    ASSUME Shapes, NEW h \in Slots, Alone(h), call[h].todo # <<>>, Edits(call[h].todo[1])
    PROVE  /\ \A k \in 1 .. Len(call[h].todo) : Edits(call[h].todo[k])
           /\ \A w \in Users : Settled(w)
<1>1. IsCall(call[h]) /\ call[h] # NoCall
    BY DEF Shapes, NoCall
<1>. QED
    BY <1>1, HeadShapes DEF Alone

(* Editing a profile keeps the shapes and moves one call.                  *)
LEMMA SetProfileKept ==
    ASSUME Shapes, NEW h \in Slots, SetProfile(h)
    PROVE  Kept(h)
<1>1. CallsStay(h) /\ IsCall(call'[h])
    BY DoingIs, Going, Gone DEF SetProfile
<1>2. Now(h).value \in PartnerFields
    BY DoingIs, QueryIs DEF SetProfile
<1>3. \A u \in DOMAIN profile : Edited(profile[u], Now(h).value) \in Profiles
    BY <1>2, EditedIs DEF Shapes, Rows
<1>4. DOMAIN profile' = DOMAIN profile /\ profile' \in [DOMAIN profile -> Profiles]
    BY <1>3 DEF SetProfile, Shapes, Rows
<1>. QED
    BY <1>1, <1>4 DEF Kept, SetProfile, Shapes, Rows

(* Editing a profile leaves the call alone, if it was.                     *)
LEMMA SetProfileAlone ==
    ASSUME Shapes, NEW h \in Slots, SetProfile(h), Alone(h), UnrolledNext
    PROVE  Alone(h)'
<1>1. PICK u, f : u = call[h].user /\ f = Now(h).value
    OBVIOUS
<1>2. /\ call[h].todo # <<>> /\ u \in Users /\ f \in PartnerFields /\ Edits(call[h].todo[1])
    BY <1>1, DoingIs, QueryIs DEF SetProfile, Edits
<1>3. /\ \A k \in 1 .. Len(call[h].todo) : Edits(call[h].todo[k])
      /\ \A w \in Users : Settled(w)
    BY <1>2, EditsAlone
<1>4. CallsStay(h) /\ call'[h] # call[h]
    BY <1>2, Going, Gone DEF SetProfile
<1>5. \A w \in Users : w \in unrolled => w \in unrolled'
    BY <1>4, HandsStay, DoingOne DEF SetProfile
<1>6. /\ DOMAIN profile' = DOMAIN profile
      /\ \A w \in DOMAIN profile : w # u => profile'[w].kyc = profile[w].kyc
      /\ u \in DOMAIN profile => profile'[u] = Edited(profile[u], f)
    BY <1>1 DEF SetProfile
<1>7. \A w \in DOMAIN profile : w \in unrolled' \/ profile'[w].kyc = profile[w].kyc
  <2>1. "kyc" \in DOMAIN f => u \in unrolled'
      BY <1>1, <1>2, <1>4, HandsOn DEF SetProfile
  <2>2. "kyc" \notin DOMAIN f /\ u \in DOMAIN profile => profile'[u].kyc = profile[u].kyc
      BY <1>2, <1>6, EditedIs DEF Shapes, Rows
  <2>. QED
      BY <1>6, <2>1, <2>2
<1>8. \A w \in Users : Settled(w)'
    BY <1>3, <1>5, <1>6, <1>7, SameDocsStay, SettledStays DEF SetProfile
<1>9. InProgress(call[h])'
    BY <1>2, <1>3, <1>8, EditGoesOn DEF SetProfile
<1>. QED
    BY <1>4, <1>8, <1>9, StaysAlone

(* Editing an account keeps the shapes and moves one call.                 *)
LEMMA SetAccountKept ==
    ASSUME Shapes, NEW h \in Slots, SetAccount(h)
    PROVE  Kept(h)
<1>1. CallsStay(h) /\ IsCall(call'[h])
    BY DoingIs, Going, Gone DEF SetAccount
<1>2. Now(h).value \in {"active", "suspended"} /\ call[h].user \in Users
    BY DoingIs, QueryIs DEF SetAccount
<1>3. account' \in [Users -> {"active", "suspended", "none"}]
    BY <1>2 DEF SetAccount, Shapes, Rows
<1>. QED
    BY <1>1, <1>3 DEF Kept, SetAccount, Shapes, Rows

(* Editing an account leaves the call alone, if it was.                    *)
LEMMA SetAccountAlone ==
    ASSUME Shapes, NEW h \in Slots, SetAccount(h), Alone(h), UnrolledNext
    PROVE  Alone(h)'
<1>1. /\ call[h].todo # <<>> /\ Edits(call[h].todo[1])
    BY DoingIs DEF SetAccount, Edits
<1>2. /\ \A k \in 1 .. Len(call[h].todo) : Edits(call[h].todo[k])
      /\ \A w \in Users : Settled(w)
    BY <1>1, EditsAlone
<1>3. CallsStay(h)
    BY <1>1, Going, Gone DEF SetAccount
<1>4. \A w \in Users : w \in unrolled => w \in unrolled'
    BY <1>3, HandsStay, DoingOne DEF SetAccount
<1>5. \A w \in Users : Settled(w)'
    BY <1>2, <1>4, SameDocsStay, SettledStays DEF SetAccount
<1>6. InProgress(call[h])'
    BY <1>1, <1>2, <1>5, EditGoesOn DEF SetAccount
<1>. QED
    BY <1>3, <1>5, <1>6, StaysAlone

(* Inserting a profile keeps the shapes and moves one call.                *)
LEMMA NewProfileKept ==
    ASSUME Shapes, NEW h \in Slots, NewProfile(h)
    PROVE  Kept(h)
<1>1. /\ call[h].todo # <<>> /\ Now(h).value \in Profiles /\ call[h].user \in Users
    BY DoingIs, QueryIs DEF NewProfile
<1>2. CallsStay(h) /\ IsCall(call'[h])
    BY <1>1, Ended, Going, Gone DEF NewProfile
<1>3. DOMAIN profile' \subseteq Users /\ profile' \in [DOMAIN profile' -> Profiles]
    BY <1>1 DEF NewProfile, Shapes, Rows
<1>. QED
    BY <1>2, <1>3 DEF Kept, NewProfile, Shapes, Rows

(* Inserting a profile leaves the call alone, if it was.                   *)
LEMMA NewProfileAlone ==
    ASSUME Shapes, NEW h \in Slots, NewProfile(h), Alone(h), UnrolledNext
    PROVE  Alone(h)'
<1>1. PICK u : u = call[h].user
    OBVIOUS
<1>2. /\ call[h].todo # <<>> /\ u \in Users /\ Edits(call[h].todo[1]) /\ call[h] # NoCall
    BY <1>1, DoingIs DEF NewProfile, Edits
<1>3. /\ \A k \in 1 .. Len(call[h].todo) : Edits(call[h].todo[k])
      /\ \A w \in Users : Settled(w)
    BY <1>2, EditsAlone
<1>4. CallsStay(h) /\ call'[h] # call[h]
    BY <1>2, Ended, Going, Gone DEF NewProfile
<1>5. \A w \in Users : w \in unrolled => w \in unrolled'
    BY <1>4, HandsStay, DoingOne DEF NewProfile
<1>6. u \in unrolled'
    BY <1>1, <1>2, <1>4, HandsOn DEF NewProfile
<1>7. \A w \in DOMAIN profile' : w \in unrolled' \/ (w \in DOMAIN profile /\ profile'[w].kyc = profile[w].kyc)
    BY <1>1, <1>6 DEF NewProfile
<1>8. \A w \in Users : Settled(w)'
    BY <1>3, <1>5, <1>7, SameDocsStay, SettledStays DEF NewProfile
<1>9. InProgress(call[h])'
  <2>1. CASE Ends(h)
      BY <1>8, <2>1, Ended DEF InProgress, NoCall
  <2>2. CASE Goes(h)
      BY <1>2, <1>3, <1>8, <2>2, EditGoesOn
  <2>. QED
      BY <2>1, <2>2 DEF NewProfile
<1>. QED
    BY <1>4, <1>8, <1>9, StaysAlone

(* Removing all of a rider's documents keeps the shapes and moves one      *)
(* call.                                                                   *)
LEMMA DropAllDocsKept ==
    ASSUME Shapes, NEW h \in Slots, DropAllDocs(h)
    PROVE  Kept(h)
<1>1. CallsStay(h) /\ IsCall(call'[h])
    BY DoingIs, Going, Gone DEF DropAllDocs
<1>2. DOMAIN docs' \subseteq DOMAIN docs /\ docs' \in [DOMAIN docs' -> Docs]
    BY DEF DropAllDocs, Shapes, Rows
<1>. QED
    BY <1>1, <1>2 DEF Kept, DropAllDocs, Shapes, Rows

(* Removing all of a rider's documents leaves the call alone, if it was.   *)
LEMMA DropAllDocsAlone ==
    ASSUME Shapes, NEW h \in Slots, DropAllDocs(h), Alone(h), UnrolledNext
    PROVE  Alone(h)'
<1>1. PICK u : u = call[h].user
    OBVIOUS
<1>2. /\ call[h].todo # <<>> /\ u \in Users /\ Edits(call[h].todo[1]) /\ call[h] # NoCall
    BY <1>1, DoingIs DEF DropAllDocs, Edits
<1>3. /\ \A k \in 1 .. Len(call[h].todo) : Edits(call[h].todo[k])
      /\ \A w \in Users : Settled(w)
    BY <1>2, EditsAlone
<1>4. CallsStay(h) /\ call'[h] # call[h]
    BY <1>2, Going, Gone DEF DropAllDocs
<1>5. \A w \in Users : w \in unrolled => w \in unrolled'
    BY <1>4, HandsStay, DoingOne DEF DropAllDocs
<1>6. u \in unrolled'
    BY <1>1, <1>2, <1>4, HandsOn DEF DropAllDocs
<1>7. docs' = [i \in {i \in DOMAIN docs : docs[i].user # u} |-> docs[i]]
    BY <1>1 DEF DropAllDocs
<1>8. \A w : w # u => DocsStay(w)
    BY <1>7 DEF DocsStay
<1>9. \A w \in Users : w # u => Settled(w)'
    BY <1>3, <1>5, <1>8, SettledStays DEF DropAllDocs
<1>10. Settled(u)'
    BY <1>6, <1>7 DEF Settled, Told, StatusTrue
<1>11. InProgress(call[h])'
    BY <1>2, <1>3, <1>9, <1>10, EditGoesOn DEF DropAllDocs
<1>. QED
    BY <1>4, <1>9, <1>10, <1>11, StaysAlone

(* What is left to do where a user cannot be deleted: edits.               *)
LEMMA ScrubIs ==
    ASSUME NEW what
    PROVE  \E s : /\ s = Scrub(what) /\ s \in Seq(Queries) /\ s # <<>>
                  /\ \A k \in 1 .. Len(s) : Edits(s[k])
<1>1. PICK a, b : a = [do |-> "profile", value |-> [online |-> FALSE]] /\ b = [do |-> "account", value |-> "suspended"]
    OBVIOUS
<1>2. a \in Queries /\ b \in Queries /\ Edits(a) /\ Edits(b)
    BY <1>1, InQueries DEF PartnerFields, Edits
<1>3. CASE what = "deletePartner"
  <2>1. PICK s : s = <<a, b>>
      OBVIOUS
  <2>2. Scrub(what) = s
      BY <1>1, <1>3, <2>1, Pairs DEF Scrub, With
  <2>3. s \in Seq(Queries) /\ s # <<>> /\ Len(s) = 2 /\ s[1] = a /\ s[2] = b
      BY <1>2, <2>1
  <2>. QED
      BY <1>2, <2>2, <2>3
<1>4. CASE what # "deletePartner"
  <2>1. PICK s : s = <<b>>
      OBVIOUS
  <2>2. Scrub(what) = <<>> \o s
      BY <1>1, <1>4, <2>1 DEF Scrub, With
  <2>3. s \in Seq(Queries) /\ s # <<>> /\ Len(s) = 1 /\ s[1] = b
      BY <1>2, <2>1
  <2>4. <<>> \o s = s
      BY <2>1, NoneBefore
  <2>. QED
      BY <1>2, <2>2, <2>3, <2>4
<1>. QED
    BY <1>3, <1>4

(* Deleting or scrubbing a user keeps the shapes and moves one call.       *)
LEMMA HardDeleteKept ==
    ASSUME Shapes, NEW h \in Slots, HardDelete(h)
    PROVE  Kept(h)
<1>1. /\ call[h].todo # <<>> /\ call[h].user \in Users /\ IsCall(call[h]) /\ call[h] # NoCall
    BY DoingIs DEF HardDelete
<1>2. CASE call[h].user \in HasOrders
  <2>1. PICK s : s = Scrub(call[h].what) /\ s \in Seq(Queries) /\ s # <<>>
      BY ScrubIs
  <2>3. call' = [call EXCEPT ![h] = [call[h] EXCEPT !.todo = s]]
      BY <1>2, <2>1 DEF HardDelete, Shapes
  <2>4. PICK o, c : o = call[h] /\ c = [call[h] EXCEPT !.todo = s]
      OBVIOUS
  <2>5. /\ o = [what |-> o.what, user |-> o.user, found |-> o.found, rolled |-> o.rolled, todo |-> o.todo]
        /\ o.rolled \in Statuses /\ o.found \in BOOLEAN /\ o.user \in Users
      BY <1>1, <2>4 DEF IsCall
  <2>6. c = [what |-> o.what, user |-> o.user, found |-> o.found, rolled |-> o.rolled, todo |-> s]
      BY <2>4, <2>5
  <2>8. IsCall(c)
      BY <2>1, <2>5, <2>6 DEF IsCall
  <2>9. CallsStay(h) /\ call'[h] = c
      BY <2>3, <2>4 DEF CallsStay, Shapes
  <2>. QED
      BY <1>2, <2>8, <2>9 DEF Kept, HardDelete, Shapes, Rows
<1>3. CASE call[h].user \notin HasOrders
  <2>1. CallsStay(h) /\ IsCall(call'[h])
      BY <1>1, <1>3, Going, Gone DEF HardDelete
  <2>2. DOMAIN docs' \subseteq DOMAIN docs /\ docs' \in [DOMAIN docs' -> Docs]
      BY <1>3 DEF HardDelete, Shapes, Rows
  <2>3. DOMAIN profile' \subseteq DOMAIN profile /\ profile' \in [DOMAIN profile' -> Profiles]
      BY <1>3 DEF HardDelete, Shapes, Rows
  <2>4. account' \in [Users -> {"active", "suspended", "none"}]
      BY <1>3 DEF HardDelete, Shapes, Rows
  <2>. QED
      BY <2>1, <2>2, <2>3, <2>4 DEF Kept, HardDelete, Shapes, Rows
<1>. QED
    BY <1>2, <1>3

(* Deleting or scrubbing a user leaves the call alone, if it was.          *)
LEMMA HardDeleteAlone ==
    ASSUME Shapes, NEW h \in Slots, HardDelete(h), Alone(h), UnrolledNext
    PROVE  Alone(h)'
<1>1. PICK u : u = call[h].user
    OBVIOUS
<1>2. /\ call[h].todo # <<>> /\ u \in Users /\ Edits(call[h].todo[1]) /\ call[h] # NoCall
      /\ IsCall(call[h])
    BY <1>1, DoingIs DEF HardDelete, Edits
<1>3. /\ \A k \in 1 .. Len(call[h].todo) : Edits(call[h].todo[k])
      /\ \A w \in Users : Settled(w)
    BY <1>2, EditsAlone
<1>4. CallsStay(h)
    BY HardDeleteKept DEF Kept
<1>5. \A w \in Users : w \in unrolled => w \in unrolled'
    BY <1>4, HandsStay, DoingOne DEF HardDelete
<1>6. CASE u \in HasOrders
  <2>1. PICK s : s = Scrub(call[h].what) /\ s # <<>> /\ \A k \in 1 .. Len(s) : Edits(s[k])
      BY ScrubIs
  <2>2. call' = [call EXCEPT ![h] = [call[h] EXCEPT !.todo = s]]
      BY <1>1, <1>6, <2>1 DEF HardDelete, Shapes
  <2>4. call'[h].todo = s /\ call'[h].user = u
      BY <1>1, <1>2, <2>2 DEF Shapes, IsCall
  <2>6. \A w \in Users : Settled(w)'
      BY <1>1, <1>3, <1>5, <1>6, SameDocsStay, SettledStays DEF HardDelete
  <2>7. call'[h] # NoCall
      BY <2>1, <2>4 DEF NoCall
  <2>8. InProgress(call[h])'
      BY <1>2, <2>1, <2>4, <2>6, <2>7 DEF InProgress
  <2>. QED
      BY <1>4, <2>6, <2>8, StaysAlone
<1>7. CASE u \notin HasOrders
  <2>1. /\ docs' = [i \in {i \in DOMAIN docs : docs[i].user # u} |-> docs[i]]
        /\ profile' = [w \in DOMAIN profile \ {u} |-> profile[w]]
        /\ mailed' = mailed
      BY <1>1, <1>7 DEF HardDelete
  <2>2. \A w : w # u => DocsStay(w)
      BY <2>1 DEF DocsStay
  <2>3. \A w \in Users : w # u => Settled(w)'
      BY <1>3, <1>5, <2>1, <2>2, SettledStays
  <2>4. Settled(u)'
      BY <2>1 DEF Settled, Told, StatusTrue
  <2>5. InProgress(call[h])'
      BY <1>1, <1>2, <1>3, <1>7, <2>3, <2>4, EditGoesOn DEF HardDelete
  <2>. QED
      BY <1>4, <2>3, <2>4, <2>5, StaysAlone
<1>. QED
    BY <1>6, <1>7

-----------------------------------------------------------------------------
(* How the calls begin.                                                    *)

(* What a call of user u may set out to do.                                *)
Starts(u, todo) ==
    \/ \A k \in 1 .. Len(todo) : Edits(todo[k])
    \/ /\ todo = <<todo[1], [do |-> "read"], [do |-> "write"]>>
       /\ Uploads([user |-> u], todo[1])
    \/ /\ todo = <<todo[1], [do |-> "read"], [do |-> "write"], [do |-> "mail"]>>
       /\ todo[1].do = "judge" /\ Its([user |-> u], todo[1].id)

Opens(h) ==
    \E what, u, todo :
      /\ what # "idle" /\ u \in Users /\ todo \in Seq(Queries) /\ todo # <<>>
      /\ Starts(u, todo) /\ Begin(h, what, u, todo)

(* A call that opens changes nothing but the slot it takes.                *)
LEMMA OpensKept ==
    ASSUME Shapes, NEW h \in Slots, Opens(h)
    PROVE  Kept(h) /\ cuts' = cuts /\ call'[h] # NoCall
<1>1. PICK what, u, todo :
        /\ what # "idle" /\ u \in Users /\ todo \in Seq(Queries) /\ todo # <<>>
        /\ Starts(u, todo) /\ Begin(h, what, u, todo)
    BY DEF Opens
<1>2. CallsStay(h) /\ IsCall(call'[h]) /\ call'[h] # NoCall
    BY <1>1, Begun
<1>3. Rows' /\ cuts' = cuts
    BY <1>1 DEF Begin, Shapes, Rows
<1>. QED
    BY <1>2, <1>3 DEF Kept

(* Where everybody is settled and no call runs, a call that opens is alone. *)
LEMMA OpensAlone ==
    ASSUME Shapes, NEW h \in Slots, Opens(h), call[h] = NoCall, Only(h),
           \A w \in Users : Settled(w), UnrolledNext
    PROVE  Alone(h)'
<1>1. PICK what, u, todo :
        /\ what # "idle" /\ u \in Users /\ todo \in Seq(Queries) /\ todo # <<>>
        /\ Starts(u, todo) /\ Begin(h, what, u, todo)
    BY DEF Opens
<1>2. /\ CallsStay(h) /\ call'[h] # NoCall
      /\ call'[h].user = u /\ call'[h].todo = todo
    BY <1>1, Begun
<1>3. call[h].todo = <<>>
    BY DEF NoCall
<1>4. \A w \in Users : w \in unrolled => w \in unrolled'
    BY <1>2, <1>3, OthersHands
<1>5. \A w \in Users : Settled(w)'
    BY <1>1, <1>4, SameDocsStay, SettledStays DEF Begin
<1>6. docs' = docs
    BY <1>1 DEF Begin
<1>7. InProgress(call[h])'
    BY <1>1, <1>2, <1>5, <1>6 DEF InProgress, Starts, Uploads, Its
<1>8. \A k \in Slots : k # h => call'[k] = NoCall
    BY <1>2 DEF CallsStay, Only
<1>. QED
    BY <1>5, <1>7, <1>8 DEF Alone, Only

(* A list of one query.                                                    *)
LEMMA OneQuery == \A q \in Queries : <<q>> \in Seq(Queries) /\ <<q>> # <<>> /\ Len(<<q>>) = 1 /\ <<q>>[1] = q
OBVIOUS

(* A list of two.                                                          *)
LEMMA TwoQueries ==
    \A q, r \in Queries :
      <<q, r>> \in Seq(Queries) /\ <<q, r>> # <<>> /\ Len(<<q, r>>) = 2 /\ <<q, r>>[1] = q /\ <<q, r>>[2] = r
OBVIOUS

(* A list of three.                                                        *)
LEMMA ThreeQueries ==
    \A q, r, s \in Queries : <<q, r, s>> \in Seq(Queries) /\ <<q, r, s>> # <<>> /\ <<q, r, s>>[1] = q
OBVIOUS

(* A list of four.                                                         *)
LEMMA FourQueries ==
    \A q, r, s, t \in Queries :
      <<q, r, s, t>> \in Seq(Queries) /\ <<q, r, s, t>> # <<>> /\ <<q, r, s, t>>[1] = q
OBVIOUS

(* Uploading, replacing and removing a document, then the roll-up.         *)
LEMMA UploadOpens ==
    ASSUME NEW h \in Slots, NEW what, what # "idle", NEW u \in Users,
           NEW q \in Queries, Uploads([user |-> u], q), Begin(h, what, u, <<q>> \o RollUp)
    PROVE  Opens(h)
<1>1. PICK a, b : a = [do |-> "read"] /\ b = [do |-> "write"]
    OBVIOUS
<1>2. a \in Queries /\ b \in Queries
    BY <1>1, InQueries
<1>3. PICK s : s = <<q, a, b>>
    OBVIOUS
<1>4. s \in Seq(Queries) /\ s # <<>> /\ s[1] = q
    BY <1>2, <1>3, ThreeQueries
<1>5. Begin(h, what, u, s)
    BY <1>1, <1>3, Lists
<1>6. Starts(u, s)
    BY <1>1, <1>3, <1>4 DEF Starts
<1>. QED
    BY <1>4, <1>5, <1>6 DEF Opens

(* Saving a document, new or again.                                        *)
LEMMA SaveOpens ==
    ASSUME Shapes, NEW h \in Slots, NEW u \in Users, NEW t \in Types, SaveKycDocument(h, u, t)
    PROVE  Opens(h)
<1>1. CASE Existing(u, t) = {}
  <2>1. PICK q : q = [do |-> "newDoc", value |-> t]
      OBVIOUS
  <2>2. q \in Queries /\ q.do = "newDoc"
      BY <2>1, InQueries
  <2>3. Begin(h, "save", u, <<q>> \o RollUp)
      BY <1>1, <2>1 DEF SaveKycDocument, With
  <2>4. Uploads([user |-> u], q)
      BY <2>2 DEF Uploads
  <2>. QED
      BY <2>2, <2>3, <2>4, UploadOpens
<1>2. CASE Existing(u, t) # {}
  <2>1. PICK i \in Existing(u, t) : Begin(h, "save", u, OnDoc("replace", i, t) \o RollUp)
      BY <1>2 DEF SaveKycDocument
  <2>2. i \in DOMAIN docs /\ docs[i].user = u /\ i \in Nat
      BY <2>1 DEF Existing, SameKind, Shapes, Rows
  <2>3. PICK q : q = [do |-> "replace", id |-> i, value |-> t]
      OBVIOUS
  <2>4. q \in Queries /\ q.do = "replace" /\ q.id = i
      BY <2>2, <2>3, InQueries
  <2>5. Begin(h, "save", u, <<q>> \o RollUp)
      BY <2>1, <2>3 DEF OnDoc
  <2>6. Uploads([user |-> u], q)
      BY <2>2, <2>4 DEF Uploads, Its
  <2>. QED
      BY <2>4, <2>5, <2>6, UploadOpens
<1>. QED
    BY <1>1, <1>2

(* Deleting a document.                                                    *)
LEMMA DeleteOpens ==
    ASSUME Shapes, NEW h \in Slots, NEW i \in DOMAIN docs, DeleteKycDocument(h, i)
    PROVE  Opens(h)
<1>1. PICK u : u = docs[i].user
    OBVIOUS
<1>2. u \in Users /\ i \in Nat
    BY <1>1 DEF Shapes, Rows, Docs
<1>3. PICK q : q = [do |-> "drop", value |-> {i}]
    OBVIOUS
<1>4. q \in Queries /\ q.do = "drop" /\ q.value = {i}
    BY <1>2, <1>3, InQueries
<1>5. Begin(h, "delete", u, <<q>> \o RollUp)
    BY <1>1, <1>3 DEF DeleteKycDocument, Removal, With
<1>6. Uploads([user |-> u], q)
    BY <1>1, <1>4 DEF Uploads, Its
<1>. QED
    BY <1>2, <1>4, <1>5, <1>6, UploadOpens

(* A review.                                                               *)
LEMMA ReviewOpens ==
    ASSUME Shapes, NEW h \in Slots, NEW i, NEW s \in {"verified", "rejected"}, ReviewKycDocument(h, i, s)
    PROVE  Opens(h)
<1>1. PICK u : u = docs[i].user
    OBVIOUS
<1>2. i \in DOMAIN docs /\ u \in Users /\ i \in Nat
    BY <1>1 DEF ReviewKycDocument, Shapes, Rows, Docs
<1>3. PICK q, a, b, c : /\ q = [do |-> "judge", id |-> i, value |-> s]
                        /\ a = [do |-> "read"] /\ b = [do |-> "write"] /\ c = [do |-> "mail"]
    OBVIOUS
<1>4. q \in Queries /\ a \in Queries /\ b \in Queries /\ c \in Queries /\ q.do = "judge" /\ q.id = i
    BY <1>2, <1>3, InQueries
<1>5. PICK todo : todo = <<q, a, b, c>>
    OBVIOUS
<1>6. todo \in Seq(Queries) /\ todo # <<>> /\ todo[1] = q
    BY <1>4, <1>5, FourQueries
<1>7. Begin(h, "review", u, <<q>> \o ThenMail)
    BY <1>1, <1>3 DEF ReviewKycDocument, OnDoc
<1>8. Begin(h, "review", u, todo)
    BY <1>3, <1>5, <1>7, Lists
<1>9. Starts(u, todo)
    BY <1>1, <1>2, <1>3, <1>4, <1>5, <1>6 DEF Starts, Its
<1>. QED
    BY <1>2, <1>6, <1>8, <1>9 DEF Opens

(* Calls that set out to do one or two edits.                              *)
LEMMA OneEditOpens ==
    ASSUME NEW h \in Slots, NEW what, what # "idle", NEW u \in Users,
           NEW q \in Queries, Edits(q), Begin(h, what, u, <<q>>)
    PROVE  Opens(h)
<1>1. PICK s : s = <<q>>
    OBVIOUS
<1>2. s \in Seq(Queries) /\ s # <<>> /\ Len(s) = 1 /\ s[1] = q
    BY <1>1, OneQuery
<1>3. Starts(u, s)
    BY <1>2 DEF Starts
<1>. QED
    BY <1>1, <1>2, <1>3 DEF Opens

(* Calls that set out to do two edits.                                     *)
LEMMA TwoEditsOpen ==
    ASSUME NEW h \in Slots, NEW what, what # "idle", NEW u \in Users,
           NEW q \in Queries, NEW r \in Queries, Edits(q), Edits(r), Begin(h, what, u, <<q>> \o <<r>>)
    PROVE  Opens(h)
<1>1. PICK s : s = <<q, r>>
    OBVIOUS
<1>2. s \in Seq(Queries) /\ s # <<>> /\ Len(s) = 2 /\ s[1] = q /\ s[2] = r
    BY <1>1, TwoQueries
<1>3. Starts(u, s)
    BY <1>2 DEF Starts
<1>4. Begin(h, what, u, s)
    BY <1>1, Pairs
<1>. QED
    BY <1>2, <1>3, <1>4 DEF Opens

(* Setting a vendor's status.                                              *)
LEMMA UpdateVendorOpens ==
    ASSUME Shapes, NEW h \in Slots, NEW v \in Merchants, NEW s \in Statuses, UpdateAdminVendor(h, v, s)
    PROVE  Opens(h)
<1>1. PICK q : q = [do |-> "profile", value |-> [kyc |-> s]]
    OBVIOUS
<1>2. [kyc |-> s] \in PartnerFields
    BY DEF PartnerFields
<1>3. q \in Queries /\ q.do = "profile"
    BY <1>1, <1>2, InQueries
<1>4. Begin(h, "updateVendor", v, <<q>>) /\ Edits(q) /\ v \in Users
    BY <1>1, <1>3 DEF UpdateAdminVendor, With, Edits, Users
<1>. QED
    BY <1>3, <1>4, OneEditOpens

(* Creating a rider, with or without an account.                           *)
LEMMA CreatePartnerOpens ==
    ASSUME Shapes, NEW h \in Slots, NEW r \in Riders, NEW s \in Statuses, CreateAdminPartner(h, r, s)
    PROVE  Opens(h)
<1>1. PICK p, q, a : /\ p = [kyc |-> s, online |-> TRUE]
                     /\ q = [do |-> "newProfile", value |-> p] /\ a = [do |-> "account", value |-> "active"]
    OBVIOUS
<1>2. p \in Profiles /\ r \in Users
    BY <1>1 DEF Profiles, Users
<1>3. q \in Queries /\ a \in Queries /\ Edits(q) /\ Edits(a)
    BY <1>1, <1>2, InQueries DEF Edits
<1>4. CASE account[r] = "none"
  <2>1. Begin(h, "createPartner", r, <<a>> \o <<q>>)
      BY <1>1, <1>4 DEF CreateAdminPartner, With
  <2>. QED
      BY <1>2, <1>3, <2>1, TwoEditsOpen
<1>5. CASE account[r] # "none"
  <2>1. Begin(h, "createPartner", r, <<>> \o <<q>>)
      BY <1>1, <1>5 DEF CreateAdminPartner, With
  <2>2. Begin(h, "createPartner", r, <<q>>)
      BY <2>1, NoneBefore
  <2>. QED
      BY <1>2, <1>3, <2>2, OneEditOpens
<1>. QED
    BY <1>4, <1>5

(* Editing a rider.                                                        *)
LEMMA UpdatePartnerOpens ==
    ASSUME Shapes, NEW h \in Slots, NEW r \in Riders, NEW fields \in PartnerFields,
           NEW s \in {"active", "suspended"}, UpdateAdminPartner(h, r, fields, s)
    PROVE  Opens(h)
<1>1. PICK q, a : q = [do |-> "profile", value |-> fields] /\ a = [do |-> "account", value |-> s]
    OBVIOUS
<1>2. q \in Queries /\ a \in Queries
    BY <1>1, InQueries
<1>3. Edits(q) /\ Edits(a) /\ r \in Users
    BY <1>1 DEF Edits, Users
<1>4. Begin(h, "updatePartner", r, <<q>> \o <<a>>)
    BY <1>1 DEF UpdateAdminPartner, With
<1>. QED
    BY <1>2, <1>3, <1>4, TwoEditsOpen

(* Deleting an account: by an admin, or by its user.                       *)
LEMMA EraseOpens ==
    ASSUME NEW h \in Slots, NEW what, what # "idle", NEW u \in Users, Begin(h, what, u, Erase)
    PROVE  Opens(h)
<1>1. PICK q, a : q = [do |-> "dropAll"] /\ a = [do |-> "delete"]
    OBVIOUS
<1>2. q \in Queries /\ a \in Queries /\ Edits(q) /\ Edits(a)
    BY <1>1, InQueries DEF Edits
<1>3. Begin(h, what, u, <<q>> \o <<a>>)
    BY <1>1 DEF Erase, Todo
<1>. QED
    BY <1>2, <1>3, TwoEditsOpen

LEMMA LeaveOpens ==
    ASSUME NEW h \in Slots, NEW what, what # "idle", NEW u \in Users, Begin(h, what, u, Leave)
    PROVE  Opens(h)
<1>1. PICK q, a : q = [do |-> "dropAll"] /\ a = [do |-> "account", value |-> "suspended"]
    OBVIOUS
<1>2. q \in Queries /\ a \in Queries /\ Edits(q) /\ Edits(a)
    BY <1>1, InQueries DEF Edits
<1>3. Begin(h, what, u, <<q>> \o <<a>>)
    BY <1>1 DEF Leave, Todo, With
<1>. QED
    BY <1>2, <1>3, TwoEditsOpen

LEMMA DeletionOpens ==
    ASSUME Shapes, NEW h \in Slots, NEW u \in Users,
           \/ DeleteUser(h, u) \/ DeleteAccount(h, u)
           \/ u \in Riders /\ DeleteAdminPartner(h, u)
           \/ u \in Merchants /\ (DeleteAdminVendor(h, u) \/ DeleteVendorAccount(h, u))
    PROVE  Opens(h)
<1>1. CASE DeleteUser(h, u) \/ DeleteAdminPartner(h, u) \/ DeleteAdminVendor(h, u)
    BY <1>1, EraseOpens DEF DeleteUser, DeleteAdminPartner, DeleteAdminVendor
<1>2. CASE DeleteVendorAccount(h, u) \/ (DeleteAccount(h, u) /\ u \notin Riders)
    BY <1>2, LeaveOpens DEF DeleteVendorAccount, DeleteAccount
<1>3. CASE DeleteAccount(h, u) /\ u \in Riders
  <2>1. PICK p, q, a : /\ p = [do |-> "profile", value |-> [online |-> FALSE]]
                       /\ q = [do |-> "dropAll"] /\ a = [do |-> "account", value |-> "suspended"]
      OBVIOUS
  <2>2. [online |-> FALSE] \in PartnerFields
      BY DEF PartnerFields
  <2>3. p \in Queries /\ q \in Queries /\ a \in Queries /\ Edits(p) /\ Edits(q) /\ Edits(a)
      BY <2>1, <2>2, InQueries DEF Edits
  <2>4. PICK s : s = <<p, q, a>>
      OBVIOUS
  <2>5. s \in Seq(Queries) /\ s # <<>> /\ Len(s) = 3 /\ s[1] = p /\ s[2] = q /\ s[3] = a
      BY <2>3, <2>4
  <2>6. Leave = <<q, a>>
      BY <2>1, Pairs DEF Leave, Todo, With
  <2>7. Begin(h, "deleteAccount", u, s)
      BY <1>3, <2>1, <2>4, <2>6, Triples DEF DeleteAccount, With
  <2>8. Starts(u, s)
      BY <2>3, <2>5 DEF Starts
  <2>. QED
      BY <2>5, <2>7, <2>8 DEF Opens
<1>. QED
    BY <1>1, <1>2, <1>3

-----------------------------------------------------------------------------
(* The steps together.                                                     *)

(* A step of a call other than its being cut short.                        *)
Works(h) ==
    \/ NewDoc(h) \/ Replace(h) \/ Judge(h) \/ DropDocs(h) \/ DropAllDocs(h) \/ ReadDocs(h) \/ WriteStatus(h)
    \/ Mail(h) \/ SetProfile(h) \/ SetAccount(h) \/ NewProfile(h) \/ HardDelete(h)

(* A working step keeps the shapes and moves one call.                     *)
LEMMA WorksKept ==
    ASSUME Shapes, NEW h \in Slots, Works(h)
    PROVE  Kept(h)
BY NewDocKept, ReplaceKept, JudgeKept, DropDocsKept, DropAllDocsKept, ReadDocsKept, WriteStatusKept,
   MailKept, SetProfileKept, SetAccountKept, NewProfileKept, HardDeleteKept DEF Works

(* Only a busy call works.                                                 *)
LEMMA WorksBusy ==
    ASSUME Shapes, NEW h \in Slots, Works(h)
    PROVE  call[h] # NoCall
<1>1. \E name : Doing(h, name)
    BY DEF Works, NewDoc, Replace, Judge, DropDocs, DropAllDocs, ReadDocs, WriteStatus, Mail, SetProfile,
           SetAccount, NewProfile, HardDelete
<1>. QED
    BY <1>1, DoingIs

(* A call that works alone stays alone.                                    *)
LEMMA WorksAlone ==
    ASSUME Shapes, NEW h \in Slots, Works(h), Alone(h), UnrolledNext
    PROVE  Alone(h)'
BY NewDocAlone, ReplaceAlone, JudgeAlone, DropDocsAlone, DropAllDocsAlone, ReadDocsAlone, WriteStatusAlone,
   MailAlone, SetProfileAlone, SetAccountAlone, NewProfileAlone, HardDeleteAlone DEF Works

(* A call that is cut short keeps the shapes, and is counted.              *)
LEMMA CutKept ==
    ASSUME Shapes, NEW h \in Slots, Cut(h)
    PROVE  Kept(h) /\ cuts' # cuts
<1>1. Ends(h) /\ cuts' = cuts + 1 /\ cuts \in Nat
    BY DEF Cut, Shapes, Rows
<1>2. CallsStay(h) /\ IsCall(call'[h])
    BY <1>1, Ended
<1>3. Rows'
    BY <1>1 DEF Cut, Shapes, Rows
<1>. QED
    BY <1>1, <1>2, <1>3 DEF Kept

(* Every step is one of four kinds.                                        *)
LEMMA KycStepIs ==
    ASSUME Shapes, KycNext
    PROVE  \/ \E h \in Slots : Works(h) \/ Cut(h)
           \/ \E h \in Slots : call[h] = NoCall /\ Opens(h)
           \/ UNCHANGED <<account, profile, docs, mailed, call, lastId, cuts>>
<1>1. CASE \E h \in Slots : Step(h)
    BY <1>1 DEF Step, Works
<1>2. CASE ListAllKycDocuments
    BY <1>2 DEF ListAllKycDocuments
<1>3. CASE \E h \in Slots : Free(h) /\ \E u \in Users, t \in Types : SaveKycDocument(h, u, t)
    BY <1>3, SaveOpens DEF Free
<1>4. CASE \E h \in Slots : Free(h) /\ \E i \in DOMAIN docs : DeleteKycDocument(h, i)
    BY <1>4, DeleteOpens DEF Free
<1>5. CASE \E h \in Slots : Free(h) /\ \E i \in DOMAIN screen, s \in {"verified", "rejected"} : ReviewKycDocument(h, i, s)
    BY <1>5, ReviewOpens DEF Free
<1>6. CASE \E h \in Slots : Free(h) /\ \E v \in Merchants, s \in Statuses : UpdateAdminVendor(h, v, s)
    BY <1>6, UpdateVendorOpens DEF Free
<1>7. CASE \E h \in Slots : Free(h) /\ \E r \in Riders, s \in Statuses : CreateAdminPartner(h, r, s)
    BY <1>7, CreatePartnerOpens DEF Free
<1>8. CASE \E h \in Slots : Free(h) /\ \E r \in Riders, fields \in PartnerFields, s \in {"active", "suspended"} :
             UpdateAdminPartner(h, r, fields, s)
    BY <1>8, UpdatePartnerOpens DEF Free
<1>9. CASE \E h \in Slots : Free(h) /\ \E r \in Riders : DeleteAdminPartner(h, r)
    BY <1>9, DeletionOpens DEF Free, Users
<1>10. CASE \E h \in Slots : Free(h) /\ \E v \in Merchants : DeleteAdminVendor(h, v) \/ DeleteVendorAccount(h, v)
    BY <1>10, DeletionOpens DEF Free, Users
<1>11. CASE \E h \in Slots : Free(h) /\ \E u \in Users : DeleteUser(h, u) \/ DeleteAccount(h, u)
    BY <1>11, DeletionOpens DEF Free
<1>. QED
    BY <1>1, <1>2, <1>3, <1>4, <1>5, <1>6, <1>7, <1>8, <1>9, <1>10, <1>11 DEF KycNext

(* What keeps the rows and one call keeps all shapes.                      *)
LEMMA KeptShapes ==
    ASSUME Shapes, NEW h \in Slots, Kept(h)
    PROVE  Shapes'
BY CallsKeep DEF Kept, Shapes

(* While the one slot in use holds no call, everybody is settled.          *)
LEMMA IdleSettled ==
    ASSUME NEW h, Alone(h), call[h] = NoCall
    PROVE  \A u \in Users : Settled(u)
<1>1. NoCall.todo = <<>>
    BY DEF NoCall
<1>2. PICK a, b, c : a = [do |-> "read"] /\ b = [do |-> "write"] /\ c = [do |-> "mail"]
    OBVIOUS
<1>3. <<>> # <<a, b>> /\ <<>> # <<a, b, c>> /\ <<>> # <<b>> /\ <<>> # <<b, c>> /\ <<>> # <<c>>
    OBVIOUS
<1>. QED
    BY <1>1, <1>2, <1>3 DEF Alone, InProgress, Reading, ReadingToTell

(* Where rows and calls stay, so does what was said of them.               *)
LEMMA NothingHappens ==
    ASSUME Shapes, UNCHANGED <<account, profile, docs, mailed, call, lastId, cuts>>
    PROVE  Shapes' /\ (unrolled' = unrolled => \A h \in Slots : Alone(h) => Alone(h)')
<1>1. Shapes'
    BY DEF Shapes, Rows
<1>2. ASSUME unrolled' = unrolled, NEW h \in Slots, Alone(h)
      PROVE  Alone(h)'
  <2>1. \A u : Settled(u)' <=> Settled(u)
      BY <1>2 DEF Settled, Told, StatusTrue, SameKind
  <2>2. DocsOf(call[h].user)' = DocsOf(call[h].user)
      BY DEF DocsOf
  <2>3. \A D : RolledUp(D)' = RolledUp(D)
      BY DEF RolledUp, Complete
  <2>4. Counted(call[h])' <=> Counted(call[h])
      BY DEF Counted, DocsOf, RolledUp, Complete
  <2>5. InProgress(call[h])' <=> InProgress(call[h])
      BY <2>1, <2>4 DEF InProgress, Reading, ReadingToTell, Uploads, Its, Told
  <2>. QED
      BY <1>2, <2>1, <2>5 DEF Alone, Only
<1>. QED
    BY <1>1, <1>2

(* Where nothing is read or written, nobody is set by hand.                *)
LEMMA HandsUnused ==
    ASSUME Shapes, call' = call, UnrolledNext, unrolled \subseteq Users
    PROVE  unrolled' = unrolled
BY DEF UnrolledNext, Writes, Sets

(* The invariant holds at first.                                           *)
LEMMA KycInvFirst == KycAssumption /\ MCKycInit => KycInv
<1>. SUFFICES ASSUME KycAssumption, MCKycInit PROVE KycInv
    OBVIOUS
<1>1. /\ account = FirstAccounts /\ profile = FirstProfiles /\ docs = FirstDocs
      /\ call = [h \in Slots |-> NoCall] /\ lastId = Len(FirstDocs) /\ cuts = 0
      /\ mailed = [u \in Users |->
                     IF \E i \in DOMAIN docs : docs[i].user = u /\ docs[i].status = "rejected"
                     THEN "rejected" ELSE "none"]
    BY DEF MCKycInit, KycInit
<1>2. docs \in Seq(Docs) /\ lastId = Len(docs)
    BY <1>1 DEF KycAssumption, Docs
<1>3. lastId \in Nat /\ DOMAIN docs \subseteq 1 .. lastId /\ docs \in [DOMAIN docs -> Docs]
    BY <1>2
<1>4. mailed \in [Users -> {"none", "verified", "rejected"}]
    BY <1>1
<1>5. /\ DOMAIN profile \subseteq Users /\ profile \in [DOMAIN profile -> Profiles]
      /\ account \in [Users -> {"active", "suspended", "none"}]
    BY <1>1 DEF KycAssumption, Profiles
<1>6. Rows
    BY <1>1, <1>3, <1>4, <1>5 DEF Rows
<1>7. Shapes
    BY <1>1, <1>6, NoCallIs DEF Shapes
<1>8. \A u \in Users : Settled(u)
  <2>1. TAKE u \in Users
  <2>2. Told(u)
      BY <1>1 DEF Told
  <2>3. ASSUME u \in DOMAIN profile \ unrolled
        PROVE  profile[u].kyc = RolledUp(DocsOf(u))
      BY <1>1, <2>3 DEF MCKycInit, unrolled
  <2>4. StatusTrue(u)
      BY <2>2, <2>3, RolledUpTrue DEF StatusTrue, Told
  <2>. QED
      BY <2>2, <2>4 DEF Settled
<1>9. PICK h \in Slots : TRUE
    BY DEF KycAssumption
<1>10. Alone(h)
    BY <1>1, <1>8 DEF Alone, Only, InProgress
<1>11. oneCall = TRUE /\ unrolled \subseteq Users
    BY <1>1, <1>5 DEF MCKycInit, unrolled
<1>. QED
    BY <1>7, <1>10, <1>11 DEF KycInv

(* Every step keeps the invariant.                                         *)
LEMMA KycInvStep == KycInv /\ [MCKycNext]_kycHistory => KycInv'
<1>1. ASSUME KycInv, MCKycNext
      PROVE  KycInv'
  <2>1. Shapes /\ unrolled \subseteq Users /\ UnrolledNext /\ KycNext
    <3>1. UnrolledNext
        BY <1>1 DEF MCKycNext, UnrolledNext, unrolled
    <3>. QED
        BY <1>1, <3>1 DEF KycInv, MCKycNext
  <2>2. oneCall' \in BOOLEAN /\ unrolled' \subseteq Users
      BY <1>1, <2>1 DEF KycInv, MCKycNext, UnrolledNext
  <2>3. ASSUME oneCall'
        PROVE  /\ cuts' = cuts /\ \E h \in Slots : Alone(h)
               /\ \A h, k \in Slots : h # k => call'[h] = NoCall \/ call'[k] = NoCall
      BY <1>1, <2>3 DEF KycInv, MCKycNext
  <2>4. CASE \E h \in Slots : Works(h) \/ Cut(h)
    <3>1. PICK h \in Slots : Works(h) \/ Cut(h)
        BY <2>4
    <3>2. Kept(h)
        BY <2>1, <3>1, WorksKept, CutKept
    <3>3. ASSUME oneCall'
          PROVE  Alone(h)'
      <4>1. PICK k \in Slots : Alone(k)
          BY <2>3, <3>3
      <4>2. Works(h)
          BY <2>1, <2>3, <3>1, <3>3, CutKept
      <4>3. h = k
          BY <2>1, <4>1, <4>2, WorksBusy DEF Alone, Only
      <4>. QED
          BY <2>1, <4>1, <4>2, <4>3, WorksAlone
    <3>. QED
        BY <2>1, <2>2, <3>2, <3>3, KeptShapes DEF KycInv
  <2>5. CASE \E h \in Slots : call[h] = NoCall /\ Opens(h)
    <3>1. PICK h \in Slots : call[h] = NoCall /\ Opens(h)
        BY <2>5
    <3>2. Kept(h) /\ call'[h] # NoCall
        BY <2>1, <3>1, OpensKept
    <3>3. ASSUME oneCall'
          PROVE  Alone(h)'
      <4>1. PICK k \in Slots : Alone(k)
          BY <2>3, <3>3
      <4>2. Only(h)
          BY <2>3, <3>2, <3>3 DEF Only, Kept, CallsStay
      <4>3. call[k] = NoCall
          BY <3>1, <4>2 DEF Only
      <4>4. \A u \in Users : Settled(u)
          BY <4>1, <4>3, IdleSettled
      <4>. QED
          BY <2>1, <3>1, <4>2, <4>4, OpensAlone
    <3>. QED
        BY <2>1, <2>2, <3>2, <3>3, KeptShapes DEF KycInv
  <2>6. CASE UNCHANGED <<account, profile, docs, mailed, call, lastId, cuts>>
    <3>1. unrolled' = unrolled
        BY <2>1, <2>6, HandsUnused
    <3>2. Shapes' /\ \A h \in Slots : Alone(h) => Alone(h)'
        BY <2>1, <2>6, <3>1, NothingHappens
    <3>. QED
        BY <2>2, <2>3, <3>2 DEF KycInv
  <2>. QED
      BY <2>1, <2>4, <2>5, <2>6, KycStepIs
<1>2. ASSUME KycInv, UNCHANGED kycHistory
      PROVE  KycInv'
  <2>1. /\ UNCHANGED <<account, profile, docs, mailed, call, lastId, cuts>>
        /\ unrolled' = unrolled /\ oneCall' = oneCall
      BY <1>2 DEF kycHistory, kycVars, unrolled
  <2>2. Shapes' /\ \A h \in Slots : Alone(h) => Alone(h)'
      BY <1>2, <2>1, NothingHappens DEF KycInv
  <2>. QED
      BY <1>2, <2>1, <2>2 DEF KycInv
<1>. QED
    BY <1>1, <1>2

(* Between calls everybody is settled.                                     *)
LEMMA QuietSettled ==
    ASSUME KycInv, oneCall, Quiet
    PROVE  \A u \in Users : Settled(u)
<1>1. PICK h \in Slots : Alone(h)
    BY DEF KycInv
<1>2. call[h] = NoCall
    BY DEF Quiet
<1>. QED
    BY <1>1, <1>2, IdleSettled

(* Rows and calls keep their shapes; as long as calls did not overlap and  *)
(* none was cut short, the call in progress is alone, everybody else is    *)
(* settled, and what is left of it to do will settle its own user.         *)
THEOREM KycInvHolds == MCKycSpec => []KycInv
<1>1. MCKycInit => KycInv
    BY KycInvFirst, KycAssumption
<1>. QED
    BY <1>1, KycInvStep, PTL DEF MCKycSpec

(* As long as calls do not overlap, whoever counts as verified, without an *)
(* admin having said so or the account having been deleted since the       *)
(* status was rolled up, has sent in every mandatory document, and all     *)
(* that he has sent in is verified (rollUpKycStatus after every upload,    *)
(* removal and review in uploads.service.ts), for any users, kinds and     *)
(* documents.                                                              *)
THEOREM VerifiedMeansDocuments == MCKycSpec => []Verified
<1>1. KycInv => Verified
  <2>1. ASSUME KycInv, oneCall, Quiet
        PROVE  DOMAIN profile \subseteq Users /\ \A u \in Users : StatusTrue(u)
      BY <2>1, QuietSettled DEF Settled, KycInv, Shapes, Rows
  <2>. QED
      BY <2>1 DEF Verified, StatusTrue, unrolled
<1>. QED
    BY <1>1, KycInvHolds, PTL

(* As long as calls do not overlap, whoever is left rejected without an    *)
(* admin having said so was told so by the last mail he got (the mail of   *)
(* reviewKycDocument quotes the status that was rolled up just before).    *)
THEOREM RejectedWereTold == MCKycSpec => []RejectionTold
<1>1. KycInv => RejectionTold
  <2>1. ASSUME KycInv, oneCall, Quiet
        PROVE  DOMAIN profile \subseteq Users /\ \A u \in Users : StatusTrue(u)
      BY <2>1, QuietSettled DEF Settled, KycInv, Shapes, Rows
  <2>. QED
      BY <2>1 DEF RejectionTold, StatusTrue, unrolled
<1>. QED
    BY <1>1, KycInvHolds, PTL
=============================================================================
