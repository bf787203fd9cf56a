---------------------------- MODULE MCAllocation ----------------------------
(***************************************************************************)
(* Instances of Allocation for TLC, with a history of the behaviour: what  *)
(* holds between handlers holds as long as no two of them overlap and the  *)
(* process is not restarted in the middle of one.                          *)
(***************************************************************************)
EXTENDS Allocation, TLC

CONSTANTS v1, v2, v3, h1, h2

VARIABLES
    alone,      \* no handler has run beside another, or (changeOrderVendor) in
                \* another
    whole,      \* no restart has cut a handler short
    up,         \* the process has not restarted
    waterfall   \* no admin and no customer has called

history == <<alone, whole, up, waterfall>>

MCInit == Init /\ alone = TRUE /\ whole = TRUE /\ up = TRUE /\ waterfall = TRUE

NoOverlap ==
    /\ \A h \in Slots : run[h].target = NoVendor
    /\ \A g, h \in Slots : run[g] # Idle /\ run[h] # Idle => g = h

ByHand == {"adminPay", "cancel", "restorePay", "findOld"}

MCNext ==
    /\ \/ Proceed /\ UNCHANGED <<whole, up>>
       \/ Restart /\ whole' = (whole /\ Quiet) /\ up' = FALSE
    /\ alone' = (alone /\ NoOverlap')
    /\ waterfall' = (waterfall /\ \A h \in Slots : run'[h].at \notin ByHand)

MCSpec == MCInit /\ [][MCNext]_<<vars, history>>

MCFairSpec == MCSpec /\ Fairness

(* One call or timer at a time, however often the order is cancelled,      *)
(* restored, accepted by hand or answered: a placed order that is paid for *)
(* is waiting for a vendor, no two vendors hold it, and an accepted one    *)
(* belongs to the vendor whose acceptance is on record, at its prices.     *)
WithItsVendorAlone ==
    alone /\ whole => SomeVendorAsked /\ OneVendorAsked /\ AcceptedByItsVendor

(* While the process runs, a vendor that was asked is never forgotten: the *)
(* attempt's timer is armed, or a handler at work will arm it or resolve   *)
(* the attempt.                                                            *)
NoLostTimerUp == up => NoLostTimer

(* Unless a restart cuts markFailed in two, a waterfall that gave up       *)
(* leaves the refund in the admin's queue, never a paid order.             *)
FailedIsRefundedAlone == alone /\ whole /\ waterfall => FailedIsRefunded

(* Left to its vendors and timers, one at a time, the search implements    *)
(* VendorSearch, whatever a restart cuts short.                            *)
SearchSpecAlone ==
    Search!Init /\ [][alone' /\ waterfall' => Search!Next]_<<Search!searchVars>>

(* As long as the process runs and nobody calls, a search that has begun   *)
(* ends by itself.                                                         *)
SearchEndsUp == [](up /\ waterfall) => SearchEnds
=============================================================================
