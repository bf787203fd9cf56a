---------------------------- MODULE MCFoodOrder ----------------------------
(***************************************************************************)
(* Instances of FoodOrder for TLC, with a history of the behaviour.        *)
(***************************************************************************)
EXTENDS FoodOrder, TLC

CONSTANTS h1, h2, o1, o2, r1, r2

Symmetry == Permutations({h1, h2}) \cup Permutations({r1, r2})

NewAndDelivered == o1 :> "placed" @@ o2 :> "delivered"

VARIABLES
    alone,    \* handlers did not overlap one another, payments or riders
    taken     \* orders that a rider took though they were not being served
history == <<alone, taken>>

Quiet == \A h \in Slots : call[h] = Idle
OneAtWork == \A g, h \in Slots : call[g] # Idle /\ call[h] # Idle => g = h

(* A rider's acceptance does not ask for the order: it may have been       *)
(* cancelled or moved since the offer was made.                            *)
JustTaken ==
    {o \in Orders : Status(o) \notin Serving /\ order'[o].status = "delivery_assigned"}

MCInit == Init /\ alone = TRUE /\ taken = {}
MCNext ==
    /\ Next
    /\ alone' = (alone /\ OneAtWork' /\ (Quiet \/ call' # call))
    /\ taken' = {o \in taken \cup JustTaken : order'[o].status \in Serving}
MCSpec == MCInit /\ [][MCNext]_<<vars, history>>

(* One handler at a time: an order in a kitchen or with a rider is paid    *)
(* and was accepted for the restaurant it is with, unless a rider took it  *)
(* on his own after it was cancelled or moved, and every timeline ends     *)
(* with its order's status.                                                *)
ServedProperlyAlone ==
    alone => TimelineAgrees /\ \A o \in Orders \ taken : ServedByRight(o)

(* A rider only takes what a kitchen has accepted.                         *)
TakenInTurnAlone == alone => taken = {}

(* Ratings count once, and one handler at a time all of them.              *)
RatingsCount == RatedOnce /\ (alone => AverageOfAll)
=============================================================================
