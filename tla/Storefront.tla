----------------------------- MODULE Storefront -----------------------------
(***************************************************************************)
(* A store as customers see it: the vendor's account and store, its        *)
(* restaurant and menu (catalog.service.ts), and the schedule that opens   *)
(* and closes it (vendor-schedule.service.ts).                             *)
(*                                                                         *)
(* Both vendors.is_open and restaurants.is_open say whether a store takes  *)
(* orders; every call that changes one writes the other after it.  A call  *)
(* reads in its first step; what is left to do is a list of queries, run   *)
(* one per step.  A query that breaks a constraint of the schema, an error *)
(* or a restart ends the call with what it has done so far.  Calls that    *)
(* are refused do nothing and are left out, as are names, places and       *)
(* prices.                                                                 *)
(***************************************************************************)
EXTENDS OpeningTimes, Sequences, FiniteSetsExt, SequencesExt, TLC

CONSTANTS
    Slots,           \* calls that may be in progress at once
    Tick,            \* the slot of the schedule's own timer
    Vendors,
    Schedules,       \* the weekly schedules that are saved
    Timings,         \* the meal windows that are saved
    FirstAccount, FirstStore, FirstRestaurant, FirstCategory, FirstItem,
    MaxClock, MaxCalls, MaxCuts    \* bounds

ASSUME StorefrontAssumption ==
    /\ Tick \notin Slots
    /\ {MaxClock, MaxCalls, MaxCuts} \subseteq Nat

VARIABLES
    db,       \* the tables, each a function from ids to rows, and what was ordered
    call,     \* the calls in progress, and the tick: what, and what is left to do
    now,
    calls, cuts    \* how many calls there were, and how many were cut short

vars == <<db, call, now, calls, cuts>>

None == 0
Idle == [what |-> "idle", todo |-> <<>>]
NotSet == "none"       \* a schedule_state of null
NoHours == [d \in {} |-> None]

account == db.account         \* [status, documents, signedIn], by vendor
store == db.store             \* [isOpen, hours, state, shown], by vendor
restaurant == db.restaurant   \* [isOpen, timings], by vendor
category == db.category       \* [vendor]
item == db.item               \* [cat, on, slots, addons, variants]
orders == db.orders           \* the vendors with an order in food_orders
active == db.active           \* those of them with one in progress
ordered == db.ordered         \* the items of food_order_items

First == [account |-> FirstAccount, store |-> FirstStore, restaurant |-> FirstRestaurant,
          category |-> FirstCategory, item |-> FirstItem, orders |-> {}, active |-> {}, ordered |-> {}]

Init ==
    /\ db = First
    /\ call = [h \in Slots \cup {Tick} |-> Idle]
    /\ now = 0 /\ calls = 0 /\ cuts = 0

MenuOf(v) == {i \in DOMAIN item : category[item[i].cat].vendor = v}
CategoriesOf(v) == {c \in DOMAIN category : category[c].vendor = v}
Active(v) == v \in DOMAIN account /\ account[v].status = "active"
HasStore(v) == v \in DOMAIN store

(* schedule_state as the code compares it.                                 *)
Scheduled(hours, t) == IF IsWithinSchedule(hours, t) THEN "open" ELSE "closed"

-----------------------------------------------------------------------------
(* Queries.                                                                *)

Insert(table, id, row) == <<[do |-> "insert", table |-> table, id |-> id, row |-> row]>>
Update(table, id, fields) == <<[do |-> "update", table |-> table, id |-> id, fields |-> fields]>>
Delete(table, id) == <<[do |-> "delete", table |-> table, id |-> id]>>

NewAccount == [status |-> "active", documents |-> FALSE, signedIn |-> FALSE]
NewStore(shown) == [isOpen |-> TRUE, hours |-> NoHours, state |-> NotSet, shown |-> shown]
NewRestaurant == [isOpen |-> TRUE, timings |-> [s \in {} |-> None]]

(* A row goes together with the rows that hang on it.                      *)
WithoutItems(d, ids) == [d EXCEPT !.item = [i \in DOMAIN @ \ ids |-> @[i]]]
WithoutCategories(d, ids) ==
    [WithoutItems(d, {i \in DOMAIN d.item : d.item[i].cat \in ids})
        EXCEPT !.category = [c \in DOMAIN @ \ ids |-> @[c]]]
WithoutAccount(d, v) ==
    [WithoutCategories(d, {c \in DOMAIN d.category : d.category[c].vendor = v})
        EXCEPT !.account = [w \in DOMAIN @ \ {v} |-> @[w]],
               !.store = [w \in DOMAIN @ \ {v} |-> @[w]],
               !.restaurant = [w \in DOMAIN @ \ {v} |-> @[w]]]

Removed(d, table, id) ==
    CASE table = "item" -> WithoutItems(d, {id})
      [] table = "category" -> WithoutCategories(d, {id})
      [] table = "account" -> WithoutAccount(d, id)

With(table, id, row) == [i \in DOMAIN table \cup {id} |-> IF i = id THEN row ELSE table[i]]
Rewritten(row, fields) == [f \in DOMAIN row |-> IF f \in DOMAIN fields THEN fields[f] ELSE row[f]]

Apply(d, q) ==
    CASE q.do = "insert" -> [d EXCEPT ![q.table] = With(@, q.id, q.row)]
      [] q.do = "update" -> IF q.id \notin DOMAIN d[q.table] THEN d
                            ELSE [d EXCEPT ![q.table][q.id] = Rewritten(@, q.fields)]
      [] q.do = "delete" -> Removed(d, q.table, q.id)
      [] q.do = "add" -> IF q.id \notin DOMAIN d.item THEN d
                         ELSE [d EXCEPT !.item[q.id][q.what] = @ \cup {q.row}]
      [] q.do = "place" -> [d EXCEPT !.orders = @ \cup {q.vendor}, !.active = @ \cup {q.vendor}]
      [] q.do = "items" -> [d EXCEPT !.ordered = @ \cup {q.id}]

(* The references, keys and unique columns of the schema.                  *)
References(d) ==
    /\ DOMAIN d.restaurant \subseteq DOMAIN d.store /\ DOMAIN d.store \subseteq DOMAIN d.account
    /\ \A c \in DOMAIN d.category : d.category[c].vendor \in DOMAIN d.restaurant
    /\ \A i \in DOMAIN d.item : d.item[i].cat \in DOMAIN d.category
    /\ d.orders \subseteq DOMAIN d.restaurant /\ d.ordered \subseteq DOMAIN d.item

ASSUME FirstTables ==
    /\ References(First) /\ IsFiniteSet(DOMAIN FirstStore)
    /\ \A v \in DOMAIN FirstStore : DOMAIN FirstStore[v] = {"isOpen", "hours", "state", "shown"}
    /\ \A v \in DOMAIN FirstRestaurant :
         /\ DOMAIN FirstRestaurant[v] = {"isOpen", "timings"}
         /\ FirstRestaurant[v].isOpen = FirstStore[v].isOpen
    /\ \A i \in DOMAIN FirstItem : DOMAIN FirstItem[i] = {"cat", "on", "slots", "addons", "variants"}

Valid(d, q) ==
    /\ q.do = "insert" => q.id \notin DOMAIN db[q.table]
    /\ q.do = "add" => q.id \in DOMAIN d.item
    /\ References(d)

-----------------------------------------------------------------------------
(* Calls.                                                                  *)

Free(h) == call[h] = Idle /\ calls < MaxCalls

Starts(h, what, todo) ==
    /\ todo # <<>>
    /\ calls' = calls + 1
    /\ call' = [call EXCEPT ![h] = [what |-> what, todo |-> todo]]
    /\ UNCHANGED <<db, now, cuts>>

GoesOn(h, todo) ==
    call' = [call EXCEPT ![h] = IF todo = <<>> THEN Idle ELSE [@ EXCEPT !.todo = todo]]

Doing(h) == Head(call[h].todo)
Rest(h) == Tail(call[h].todo)

Query(h) ==
    /\ call[h].todo # <<>> /\ Doing(h).do \notin {"removeUser", "ensure"}
    /\ LET after == Apply(db, Doing(h)) IN
       IF Valid(after, Doing(h)) THEN db' = after /\ GoesOn(h, Rest(h))
       ELSE GoesOn(h, <<>>) /\ UNCHANGED db
    /\ UNCHANGED <<now, calls, cuts>>

(* An error or a restart in the middle of a call.                          *)
Cut(h) ==
    /\ call[h] # Idle /\ cuts < MaxCuts
    /\ cuts' = cuts + 1
    /\ GoesOn(h, <<>>)
    /\ UNCHANGED <<db, now, calls>>

-----------------------------------------------------------------------------
(* The schedule.  A tick reads the rows and the clock once, and writes to  *)
(* both tables for each row whose scheduled state has changed.             *)

OnSchedule == {v \in DOMAIN store : Active(v) /\ store[v].hours # NoHours}

(* Mutant: the timer looks at the switch instead of schedule_state.        *)
SwitchDiffers(v) == store[v].isOpen # IsWithinSchedule(store[v].hours, now)

(* Mutant: the timer leaves a store alone that is closed.                  *)
OpenAndDue(v) == store[v].isOpen /\ store[v].state # Scheduled(store[v].hours, now)

Due(v) == store[v].state # Scheduled(store[v].hours, now)

Switch(v) ==
    LET open == IsWithinSchedule(store[v].hours, now)
    IN  Update("store", v, [isOpen |-> open, state |-> Scheduled(store[v].hours, now)])
        \o Update("restaurant", v, [isOpen |-> open])

(* Row after row, the store first.                                         *)
Switches(rows) ==
    [k \in 1..2 * Len(rows) |-> Switch(rows[(k + 1) \div 2])[IF k % 2 = 1 THEN 1 ELSE 2]]

TickReads ==
    /\ call[Tick] = Idle
    /\ LET due == {v \in OnSchedule : Due(v)} IN
       /\ due # {}
       /\ \E rows \in SetToSeqs(due) :
            call' = [call EXCEPT ![Tick] = [what |-> "tick", todo |-> Switches(rows)]]
    /\ UNCHANGED <<db, now, calls, cuts>>

TimePasses ==
    /\ now < MaxClock /\ now' = now + 1
    /\ UNCHANGED <<db, call, calls, cuts>>

-----------------------------------------------------------------------------
(* The account and the store.  A deleted account is signed out: a vendor's *)
(* calls start while the account is active.                                *)

EnsureRestaurant(v) == IF v \in DOMAIN restaurant THEN <<>> ELSE Insert("restaurant", v, NewRestaurant)

UpsertVendorProfile(h, v) ==
    Active(v) /\ ~HasStore(v) /\ Starts(h, "upsertVendorProfile", Insert("store", v, NewStore(TRUE)))

SetOpen(v, isOpen) == Update("store", v, [isOpen |-> isOpen]) \o Update("restaurant", v, [isOpen |-> isOpen])

(* updateBusinessHours: without a schedule, and with one.                  *)
ToggleOpen(h, v, isOpen) ==
    Active(v) /\ HasStore(v) /\ Starts(h, "updateBusinessHours", SetOpen(v, isOpen))

UpdateBusinessHours(h, v, isOpen, hours) ==
    LET inWindow == IsWithinSchedule(hours, now)
        new == IF hours = NoHours THEN [isOpen |-> isOpen, hours |-> hours]
               ELSE [isOpen |-> isOpen /\ inWindow, hours |-> hours, state |-> Scheduled(hours, now)]
    IN  /\ Active(v) /\ HasStore(v)
        /\ Starts(h, "updateBusinessHours", Update("store", v, new) \o Update("restaurant", v, [isOpen |-> new.isOpen]))

Closing(v, had) ==
    Update("store", v, [isOpen |-> FALSE])
    \o (IF had THEN Update("restaurant", v, [isOpen |-> FALSE]) ELSE <<>>)
    \o Update("account", v, [status |-> "suspended"])

DeleteVendorAccount(h, v) ==
    /\ Active(v) /\ HasStore(v) /\ v \notin active
    /\ Starts(h, "deleteVendorAccount",
              Update("account", v, [documents |-> FALSE]) \o Closing(v, v \in DOMAIN restaurant)
              \o Update("account", v, [signedIn |-> FALSE]))

(* createAdminVendor: a new account, or an active one without a store, as  *)
(* an attempt cut short leaves it.                                         *)
CreateAdminVendor(h, v, shown) ==
    /\ ~HasStore(v) /\ (v \in DOMAIN account => Active(v))
    /\ Starts(h, "createAdminVendor",
              (IF v \in DOMAIN account THEN <<>> ELSE Insert("account", v, NewAccount))
              \o Insert("store", v, NewStore(shown)) \o <<[do |-> "ensure", id |-> v]>>)

Ensure(h) ==
    /\ call[h].todo # <<>> /\ Doing(h).do = "ensure"
    /\ GoesOn(h, EnsureRestaurant(Doing(h).id) \o Rest(h))
    /\ UNCHANGED <<db, now, calls, cuts>>

ResetAdminVendorPassword(h, v) ==
    HasStore(v) /\ Starts(h, "resetAdminVendorPassword", Update("account", v, [signedIn |-> FALSE]))

(* Mutant: updateAdminVendor writes the one table only.                    *)
OneTable(v, isOpen) == Update("store", v, [isOpen |-> isOpen])

AdminSetOpen(v, isOpen) == SetOpen(v, isOpen)

UpdateAdminVendor(h, v, isOpen) ==
    HasStore(v) /\ Starts(h, "updateAdminVendor", AdminSetOpen(v, isOpen))

ShowInApp(h, v) ==
    HasStore(v) /\ Starts(h, "updateAdminVendor", Update("store", v, [shown |-> ~store[v].shown]))

DeleteAdminVendor(h, v) ==
    /\ HasStore(v) /\ v \notin active
    /\ Starts(h, "deleteAdminVendor",
              Update("account", v, [documents |-> FALSE]) \o Update("account", v, [signedIn |-> FALSE])
              \o <<[do |-> "removeUser", id |-> v, had |-> v \in DOMAIN restaurant]>>)

(* The account goes with all there is of the store, unless an order holds  *)
(* on to it.                                                               *)
RemoveUser(h) ==
    /\ call[h].todo # <<>> /\ Doing(h).do = "removeUser"
    /\ LET v == Doing(h).id IN
       IF v \notin orders THEN db' = WithoutAccount(db, v) /\ GoesOn(h, Rest(h))
       ELSE GoesOn(h, Closing(v, Doing(h).had)) /\ UNCHANGED db
    /\ UNCHANGED <<now, calls, cuts>>

-----------------------------------------------------------------------------
(* The restaurant and its menu.  getOrCreateRestaurant makes the row when  *)
(* it is missing, open.                                                    *)

Fresh == Max(DOMAIN FirstCategory \cup DOMAIN FirstItem \cup {0}) + calls + 1

Mine(v) == Active(v) /\ HasStore(v)

OpenMenu(h, v) == Mine(v) /\ Starts(h, "listMenuItems", EnsureRestaurant(v))

UpdateRestaurant(h, v, isOpen) ==
    Mine(v) /\ Starts(h, "updateRestaurant", EnsureRestaurant(v) \o Update("restaurant", v, [isOpen |-> isOpen]))

UpdateMealTimings(h, v, timings) ==
    Mine(v) /\ Starts(h, "updateMealTimings", EnsureRestaurant(v) \o Update("restaurant", v, [timings |-> timings]))

CreateMenuCategory(h, v) ==
    Mine(v) /\ Starts(h, "createMenuCategory", EnsureRestaurant(v) \o Insert("category", Fresh, [vendor |-> v]))

DeleteMenuCategory(h, v, c) ==
    Mine(v) /\ c \in CategoriesOf(v) /\ Starts(h, "deleteMenuCategory", Delete("category", c))

(* replaceAddons, replaceVariants: the old rows go, then the new ones come *)
(* when there are any.  A list that is not sent stays.                     *)
Replace(i, what, sent) ==
    IF sent = "kept" THEN <<>>
    ELSE Update("item", i, [f \in {what} |-> {}])
         \o (IF sent = "some" THEN <<[do |-> "add", id |-> i, what |-> what, row |-> Fresh]>> ELSE <<>>)

NewItem(c, slots) == [cat |-> c, on |-> TRUE, slots |-> slots, addons |-> {}, variants |-> {}]

CreateMenuItem(h, v, c, slots, addons, variants) ==
    /\ Mine(v) /\ c \in CategoriesOf(v)
    /\ Starts(h, "createMenuItem",
              Insert("item", Fresh, NewItem(c, slots))
              \o Replace(Fresh, "addons", addons) \o Replace(Fresh, "variants", variants))

UpdateMenuItem(h, v, i, fields, addons, variants) ==
    /\ Mine(v) /\ i \in MenuOf(v)
    /\ Starts(h, "updateMenuItem",
              Update("item", i, fields) \o Replace(i, "addons", addons) \o Replace(i, "variants", variants))

DeleteMenuItem(h, v, i) ==
    Mine(v) /\ i \in MenuOf(v) /\ Starts(h, "deleteMenuItem", Delete("item", i))

(* addAdminVendorItem: in the category given or any there is, else in a    *)
(* new one.                                                                *)
AddAdminVendorItem(h, v, variants) ==
    /\ HasStore(v)
    /\ \E c \in IF CategoriesOf(v) = {} THEN {Fresh} ELSE CategoriesOf(v) :
         Starts(h, "addAdminVendorItem",
                EnsureRestaurant(v)
                \o (IF c = Fresh THEN Insert("category", c, [vendor |-> v]) ELSE <<>>)
                \o Insert("item", Fresh, NewItem(c, {}))
                \o (IF variants = "some" THEN Replace(Fresh, "variants", variants) ELSE <<>>))

UpdateAdminVendorItem(h, v, i, fields, addons, variants) ==
    /\ i \in MenuOf(v)
    /\ Starts(h, "updateAdminVendorItem",
              Update("item", i, fields) \o Replace(i, "variants", variants) \o Replace(i, "addons", addons))

DeleteAdminVendorItem(h, v, i) ==
    i \in MenuOf(v) /\ Starts(h, "deleteAdminVendorItem", Delete("item", i))

-----------------------------------------------------------------------------
(* What customers see, and what they may order.                            *)

(* publicListRestaurants, publicGetRestaurant.                             *)
ShownOpen(v) == store[v].isOpen /\ IsVendorOpenNow(store[v].isOpen, store[v].hours, now)

Served(v, i) ==
    item[i].on /\ IsServedNow(item[i].slots, EffectiveMealTimings(restaurant[v].timings), now)

SearchRestaurants == {v \in DOMAIN restaurant : store[v].shown /\ restaurant[v].isOpen}
(* A store without a restaurant gets one when it is listed.                *)
PublicListRestaurants(h, v) ==
    HasStore(v) /\ store[v].shown /\ Starts(h, "publicListRestaurants", EnsureRestaurant(v))

(* priceFoodCart.                                                          *)
TakesOrders(v) ==
    /\ v \in DOMAIN restaurant /\ restaurant[v].isOpen
    /\ IsVendorOpenNow(store[v].isOpen, store[v].hours, now)

CreateFoodOrder(h, v, i) ==
    /\ TakesOrders(v)
    /\ i \in MenuOf(v) /\ Served(v, i)
    /\ Starts(h, "createFoodOrder", <<[do |-> "place", vendor |-> v], [do |-> "items", id |-> i]>>)

(* An order is delivered, or cancelled.                                    *)
OrderEnds(v) ==
    /\ v \in active
    /\ db' = [db EXCEPT !.active = @ \ {v}]
    /\ UNCHANGED <<call, now, calls, cuts>>

-----------------------------------------------------------------------------
MealTags == SUBSET MealSlots

VendorCall(h, v) ==
    \/ UpsertVendorProfile(h, v) \/ DeleteVendorAccount(h, v)
    \/ \E b \in BOOLEAN : ToggleOpen(h, v, b) \/ UpdateRestaurant(h, v, b)
    \/ \E b \in BOOLEAN, hours \in Schedules : UpdateBusinessHours(h, v, b, hours)
    \/ \E t \in Timings : UpdateMealTimings(h, v, t)
    \/ OpenMenu(h, v) \/ CreateMenuCategory(h, v)

MenuCall(h, v) ==
    \/ \E c \in CategoriesOf(v) :
         \/ DeleteMenuCategory(h, v, c)
         \/ \E sent \in {"empty", "some"} : CreateMenuItem(h, v, c, {}, sent, sent)
    \/ \E i \in MenuOf(v) :
         \/ DeleteMenuItem(h, v, i) \/ DeleteAdminVendorItem(h, v, i)
         \/ \E slots \in MealTags : UpdateMenuItem(h, v, i, [slots |-> slots], "kept", "kept")
         \/ \E sent \in {"empty", "some"} : UpdateMenuItem(h, v, i, [on |-> TRUE], sent, sent)
         \/ \E sent \in {"kept", "some"} : UpdateAdminVendorItem(h, v, i, [on |-> FALSE], "kept", sent)

AdminCall(h, v) ==
    \/ CreateAdminVendor(h, v, TRUE)
    \/ \E b \in BOOLEAN : UpdateAdminVendor(h, v, b)
    \/ ResetAdminVendorPassword(h, v) \/ ShowInApp(h, v) \/ DeleteAdminVendor(h, v)
    \/ AddAdminVendorItem(h, v, "some")

CustomerCall(h, v) ==
    \/ PublicListRestaurants(h, v)
    \/ \E i \in MenuOf(v) : CreateFoodOrder(h, v, i)

Next ==
    \/ \E h \in Slots, v \in Vendors :
         Free(h) /\ (VendorCall(h, v) \/ MenuCall(h, v) \/ AdminCall(h, v) \/ CustomerCall(h, v))
    \/ \E h \in Slots : Ensure(h) \/ RemoveUser(h)
    \/ \E h \in Slots \cup {Tick} : Query(h) \/ Cut(h)
    \/ TickReads
    \/ \E v \in Vendors : OrderEnds(v)
    \/ TimePasses

(* The timer fires every twenty seconds and its queries are answered.      *)
Fairness == WF_vars(TickReads) /\ WF_vars(Query(Tick))

Spec == Init /\ [][Next]_vars /\ Fairness

-----------------------------------------------------------------------------
(* However calls, ticks and restarts fall together, the timer catches up   *)
(* with the schedule of every active store (vendor-schedule.service.ts: "A *)
(* restart or missed tick self-heals on the next run").                    *)
FollowsSchedule ==
    <>[](\A v \in Vendors : HasStore(v) /\ Active(v) /\ store[v].hours # NoHours =>
           store[v].state = Scheduled(store[v].hours, now))

(* The same of what the timer is for: with no call by anybody, the         *)
(* restaurant ends up as the schedule says.                                *)
RestaurantSelfHeals ==
    <>[](\A v \in OnSchedule \cap DOMAIN restaurant :
           restaurant[v].isOpen = IsWithinSchedule(store[v].hours, now))

(* catalog.service.ts, publicSearch: "Only what can be ordered at (lat,    *)
(* lng): vendors whose delivery radius covers it and that are open now".   *)
SearchOnlyOpen == \A v \in SearchRestaurants : ShownOpen(v)

(* catalog.service.ts, deleteVendorAccount: "Cannot delete account while   *)
(* you have active orders in progress".                                    *)
NoOrderIsStranded == \A v \in active : Active(v)
=============================================================================
