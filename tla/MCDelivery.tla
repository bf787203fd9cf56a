----------------------------- MODULE MCDelivery -----------------------------
(***************************************************************************)
(* Instances of Delivery for TLC, with a history of the behaviour: some    *)
(* promises are kept only while the process is not restarted and nobody    *)
(* takes the order out of the riders' hands.                               *)
(***************************************************************************)
EXTENDS Delivery, TLC

CONSTANTS r1, r2, r3, h1, h2

TwoRiders == Permutations({r1, r2}) \cup Permutations({h1, h2})

VARIABLES
    calm,   \* no restart, no change of vendor, and no cancelled order was
            \* taken up again: restored, or given a status or a rider by a
            \* handler that began before the cancellation
    alone   \* no two handlers have been at work at once

history == <<calm, alone>>

Revived == status = "cancelled" /\ status' # "cancelled"

NoOverlap == \A g, h \in Slots : run[g] # Idle /\ run[h] # Idle => g = h

MCInit == Init /\ calm = TRUE /\ alone = TRUE

MCNext ==
    /\ \/ Proceed /\ calm' = (calm /\ ~Revived)
       \/ Disturb /\ calm' = FALSE
    /\ alone' = (alone /\ NoOverlap')

MCSpec == MCInit /\ [][MCNext]_<<vars, history>>

MCFairSpec == MCSpec /\ Fairness

(* As long as one handler works at a time, the rider on an undisturbed     *)
(* order is, between handlers, the one whose acceptance is on record.      *)
HeldByItsRiderCalm == calm /\ alone => HeldByItsRider

(* As long as one handler works at a time, no delivery is settled twice,   *)
(* and one that no restart cuts in two is settled.                         *)
SettledOnceCalm == alone => settled <= 1 /\ (calm => SettledOnce)

(* "keep offering until accepted": however handlers overlap, an            *)
(* undisturbed order without a rider has an offer open, a retry timer      *)
(* armed or a handler at work on it.                                       *)
NeverForgottenCalm == calm => NeverForgotten

(* As long as some rider stays available, an undisturbed order is offered  *)
(* again after every refusal.                                              *)
KeepsOfferingCalm == []calm => KeepsOffering
=============================================================================
