--------------------------- MODULE MCOrderPayment ---------------------------
(***************************************************************************)
(* OrderPayment for TLC: an order of 2 or 3 rupees, by the vendor who has  *)
(* it, and a wallet that covers nothing, part or all of it.  Two history   *)
(* variables say how quiet the behaviour has been so far, a third what the *)
(* order cost when it was last paid for.                                   *)
(***************************************************************************)
EXTENDS OrderPayment, TLC

CONSTANTS s1, s2

TwoVendors == <<2, 3>>

VARIABLES
    alone,     \* no two calls have been in progress at once
    \* and as long as they have not:
    restored,  \* a cancelled order was taken up again
    priced     \* the order.total that its latest payments row was made from

mcVars == <<vars, alone, restored, priced>>

Busy == {s \in Sessions : call[s] # Idle}

MCInit == Init /\ alone = TRUE /\ restored = FALSE /\ priced = total

MCNext ==
    /\ Next
    /\ alone' = (alone /\ \A s, t \in Busy' : s = t)
    /\ restored' = (alone' /\ (restored \/ \E s \in Sessions : At(s, "reopen")))
    /\ \/ ~alone' /\ priced' = 0
       \/ alone' /\ Len(rows') = Len(rows) /\ priced' = priced
       \/ alone' /\ Len(rows') > Len(rows)
          /\ \E s \in Sessions : call'[s] # call[s] /\ priced' = call[s].total

MCSpec == MCInit /\ [][MCNext]_mcVars

SessionSymmetry == Permutations({s1, s2})

-----------------------------------------------------------------------------
(* The money adds up as long as the calls come one at a time and a         *)
(* cancelled order stays cancelled (PaymentService.initiate and its        *)
(* refunds): restoring does not take the wallet's part again.  What it     *)
(* adds up to is the total of the time the payment was begun: a vendor     *)
(* whose prices differ, found since, is neither paid nor refunded the      *)
(* difference.                                                             *)
FullyPaidAlone == alone /\ ~restored => Covered(priced)

(* Calls that come one at a time leave one live payment, whatever the      *)
(* customer, the admin and the provider did before.                        *)
OneLivePaymentAlone == alone => OneLivePayment

(* A cancellation nobody interrupts gives everything back.                 *)
CancelRefundsAlone ==
    [][alone' => \A s \in Sessions : CancelEnds(s) =>
          Net = 0 /\ \A i \in DOMAIN rows : rows[i].status # "paid"]_mcVars
=============================================================================
