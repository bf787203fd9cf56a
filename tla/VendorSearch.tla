---------------------------- MODULE VendorSearch ----------------------------
(***************************************************************************)
(* What the vendor search of a grocery order promises: the order is        *)
(* offered to one vendor at a time, to nobody twice and to at most         *)
(* MaxAttempts vendors; it is taken only by a vendor that holds the offer, *)
(* and given up only when nobody holds it.                                 *)
(***************************************************************************)
EXTENDS Integers, FiniteSets

CONSTANTS Vendors, MaxAttempts

VARIABLES
    tried,     \* vendors the order was ever offered to
    holder,    \* vendors that hold the offer (at most one)
    result     \* "placed" while the search goes on

searchVars == <<tried, holder, result>>

Init ==
    /\ tried = {}
    /\ holder = {}
    /\ result = "placed"

Offer(v) ==
    /\ result = "placed"
    /\ holder = {}
    /\ v \notin tried
    /\ Cardinality(tried) < MaxAttempts
    /\ tried' = tried \cup {v}
    /\ holder' = {v}
    /\ UNCHANGED result

(* A rejection, or an SLA that passed. *)
Decline ==
    /\ result = "placed"
    /\ holder' = {}
    /\ UNCHANGED <<tried, result>>

Take ==
    /\ result = "placed"
    /\ holder # {}
    /\ result' = "vendor_accepted"
    /\ UNCHANGED <<tried, holder>>

GiveUp ==
    /\ result = "placed"
    /\ holder = {}
    /\ tried # {}
    /\ result' = "failed"
    /\ UNCHANGED <<tried, holder>>

Next == (\E v \in Vendors : Offer(v)) \/ Decline \/ Take \/ GiveUp

Spec == Init /\ [][Next]_searchVars
=============================================================================
