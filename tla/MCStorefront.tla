---------------------------- MODULE MCStorefront ----------------------------
(***************************************************************************)
(* Instances of Storefront for TLC, with a history of the behaviour.       *)
(***************************************************************************)
EXTENDS Storefront

CONSTANTS v1, v2, h1, h2, tick

OneDinner == [s \in {"dinner"} |-> [start |-> 1, end |-> 2]]
NightDinner == [s \in {"dinner"} |-> [start |-> 2, end |-> 1]]

(* Open at the second minute of a day, and at the third.                   *)
EveryDay == [d \in {0, 1} |-> [isOpen |-> TRUE, from |-> 1, to |-> 2]]
Evenings == [d \in {0, 1} |-> [isOpen |-> d = 0, from |-> 2, to |-> 3]]

(* v1 has a store with a schedule, a restaurant and a dish; v2 has none.   *)
OneAccount == v1 :> [status |-> "active", documents |-> TRUE, signedIn |-> TRUE]
OneStore == v1 :> [isOpen |-> FALSE, hours |-> EveryDay, state |-> "closed", shown |-> TRUE]
OneRestaurant == v1 :> [isOpen |-> FALSE, timings |-> [s \in {} |-> 0]]
OneCategory == 1 :> [vendor |-> v1]
OneItem == 2 :> NewItem(1, {"dinner"})
SomeSchedules == {NoHours, Evenings}
SomeTimings == {NightDinner}

VARIABLES
    alone,     \* calls and ticks did not overlap and none was cut short
    forced,    \* the stores closed by hand since their last opening time
    switched   \* the stores whose restaurant was last switched on its own, or made when the store was closed

mcvars == <<vars, alone, forced, switched>>

MCInit == Init /\ alone = TRUE /\ forced = {} /\ switched = {}

WritesOpen(h, table, v) ==
    /\ call'[h] # call[h] /\ call[h].todo # <<>>
    /\ Doing(h).do = "update" /\ Doing(h).table = table /\ Doing(h).id = v
    /\ "isOpen" \in DOMAIN Doing(h).fields

(* A store is closed by hand when that is not what the timer would do.     *)
ClosedFor(v) ==
    /\ v \in DOMAIN store' /\ ~store'[v].isOpen
    /\ store'[v].hours = NoHours \/ store'[v].state = Scheduled(store'[v].hours, now)

OpeningTime(v) ==
    /\ HasStore(v) /\ now' # now
    /\ ~IsWithinSchedule(store[v].hours, now) /\ IsWithinSchedule(store[v].hours, now')

MadeWhileClosed(v) == v \in DOMAIN restaurant' \ DOMAIN restaurant /\ ~store'[v].isOpen

MCNext ==
    /\ Next
    /\ alone' = (alone /\ cuts' = cuts /\ \A h, k \in Slots \cup {Tick} : h # k => call'[h] = Idle \/ call'[k] = Idle)
    /\ forced' = {v \in Vendors :
                    IF \E h \in Slots : WritesOpen(h, "store", v) THEN ClosedFor(v)
                    ELSE v \in forced /\ v \in DOMAIN store' /\ ~OpeningTime(v)}
    /\ switched' = {v \in Vendors :
                      IF \E h \in Slots \cup {Tick} : WritesOpen(h, "restaurant", v)
                      THEN \E h \in Slots : WritesOpen(h, "restaurant", v) /\ call[h].what = "updateRestaurant"
                      ELSE v \in switched \/ MadeWhileClosed(v)}

MCSpec == MCInit /\ [][MCNext]_mcvars /\ Fairness

(* A store closed by hand stays closed until its next opening time:        *)
(* vendor-schedule.service.ts, "a vendor/admin who force-closes mid-day    *)
(* stays closed until the next opening time".                              *)
ClosedStaysClosed == alone => \A v \in forced : HasStore(v) => ~store[v].isOpen

Quiet == alone /\ \A h \in Slots \cup {Tick} : call[h] = Idle

(* When nothing is going on, what the two tables say differs only where    *)
(* the vendor switched the restaurant alone, or it was made, open, for a   *)
(* store that was closed (getOrCreateRestaurant), until either is switched *)
(* again: whoever switches a store switches its restaurant.                *)
SwitchesAgree ==
    Quiet => \A v \in DOMAIN restaurant \ switched : restaurant[v].isOpen = store[v].isOpen

(* The half of it that customers notice first: a store that is open takes  *)
(* orders.                                                                 *)
OpenEverywhere ==
    Quiet => \A v \in DOMAIN restaurant \ switched : store[v].isOpen => restaurant[v].isOpen

=============================================================================
