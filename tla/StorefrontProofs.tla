-------------------------- MODULE StorefrontProofs --------------------------
(***************************************************************************)
(* What a vendor has to sell, in two parts.  A vendor's store: what        *)
(* meal-slots.ts computes for a day of any length, and what holds for      *)
(* every number of vendors, calls, schedules and menus while calls and     *)
(* ticks do not overlap and none is cut short: one closed by hand stays    *)
(* closed, and the two switches agree.  The grocery catalog: a store's     *)
(* call leaves what is not its own, what is for sale is found, and a       *)
(* template that Laoji deletes goes on being sold.                         *)
(***************************************************************************)
EXTENDS MCStorefront, MCStoreCatalog, FiniteSetTheorems, WellFoundedInduction, TLAPS

Handlers == Slots \cup {Tick}
StoreFields == {"isOpen", "hours", "state", "shown"}
RestaurantFields == {"isOpen", "timings"}
ItemFields == {"cat", "on", "slots", "addons", "variants"}
Tables == {"account", "store", "restaurant", "category", "item"}

IsDb(d) ==
    /\ DOMAIN d = Tables \cup {"orders", "active", "ordered"}
    /\ IsFiniteSet(DOMAIN d.store)
    /\ \A v \in DOMAIN d.store : DOMAIN d.store[v] = StoreFields
    /\ \A v \in DOMAIN d.restaurant : DOMAIN d.restaurant[v] = RestaurantFields
    /\ \A i \in DOMAIN d.item : DOMAIN d.item[i] = ItemFields

(* Queries that switch a store, or a restaurant. *)
SetsStore(q) == q.do = "update" /\ q.table = "store" /\ "isOpen" \in DOMAIN q.fields
SetsRestaurant(q) == q.do = "update" /\ q.table = "restaurant" /\ "isOpen" \in DOMAIN q.fields
Follows(q, r) ==
    /\ SetsStore(q) /\ SetsRestaurant(r)
    /\ r.id = q.id /\ r.fields.isOpen = q.fields.isOpen

(* The queries of a call other than an order's. *)
Plain(q) ==
    \/ /\ q.do = "insert" /\ q.table \in Tables
       /\ q.table = "store" => DOMAIN q.row = StoreFields
       /\ q.table = "restaurant" => DOMAIN q.row = RestaurantFields /\ q.row.isOpen
       /\ q.table = "item" => DOMAIN q.row = ItemFields
    \/ /\ q.do = "update" /\ q.table \in Tables \ {"category"}
       /\ q.table = "store" => "isOpen" \in DOMAIN q.fields \/ DOMAIN q.fields = {"shown"}
       /\ q.table = "item" => "cat" \notin DOMAIN q.fields
    \/ q.do = "delete" /\ q.table \in {"category", "item"}
    \/ q.do = "add" /\ q.what \in {"addons", "variants"}
    \/ q.do \in {"ensure", "removeUser"}

Ordering(s) ==
    \/ Len(s) = 2 /\ s[1].do = "place" /\ s[2].do = "items"
    \/ Len(s) = 1 /\ s[1].do = "items"

(* A store that is opened is followed by its restaurant, and a restaurant  *)
(* is switched after its store unless it is switched on its own.           *)
Opens(s) == \A k \in 1..Len(s) :
    SetsStore(s[k]) /\ s[k].fields.isOpen => k + 1 \in 1..Len(s) /\ Follows(s[k], s[k + 1])
Paired(s) == \A k \in 2..Len(s) : SetsRestaurant(s[k]) => Follows(s[k - 1], s[k])

Alone(s) == \A k \in 1..Len(s) :
    /\ s[k].do \in {"insert", "update"} /\ ~SetsStore(s[k])
    /\ SetsRestaurant(s[k]) => s[k].id \in Vendors

IsList(s) == Len(s) \in Nat /\ s = [k \in 1..Len(s) |-> s[k]]

Script(c) ==
    /\ DOMAIN c = {"what", "todo"}
    /\ IsList(c.todo) /\ c.todo # <<>>
    /\ Opens(c.todo)
    /\ IF c.what = "updateRestaurant" THEN Alone(c.todo) ELSE Paired(c.todo)
    /\ IF c.what = "createFoodOrder" THEN Ordering(c.todo)
       ELSE \A k \in 1..Len(c.todo) : Plain(c.todo[k])

WellFormed ==
    /\ IsDb(db) /\ now \in Int /\ cuts \in Int
    /\ call = [h \in Handlers |-> call[h]]
    /\ \A h \in Handlers : call[h] = Idle \/ Script(call[h])
    /\ call[Tick].what # "updateRestaurant"
    /\ forced \subseteq DOMAIN store /\ switched \subseteq Vendors

OneBusy == \A h, k \in Handlers : h # k => call[h] = Idle \/ call[k] = Idle

VendorOf(i) == category[item[i].cat].vendor
OrdersHold == \A i \in ordered : VendorOf(i) \in orders

(* What a call in progress goes on to write is right for what is there.    *)
Awaits(c) == c # Idle /\ SetsRestaurant(c.todo[1]) /\ c.what # "updateRestaurant"
Right(c) ==
    /\ Awaits(c) /\ c.todo[1].id \in DOMAIN store =>
          store[c.todo[1].id].isOpen = c.todo[1].fields.isOpen
    /\ c # Idle /\ c.todo[1].do = "place" =>
          c.todo[2].id \in DOMAIN item /\ VendorOf(c.todo[2].id) = c.todo[1].vendor
    /\ c # Idle /\ c.todo[1].do = "items" =>
          c.todo[1].id \in DOMAIN item /\ VendorOf(c.todo[1].id) \in orders

(* The two tables agree, or are about to.                                  *)
Agrees(v) ==
    store[v].isOpen => \/ restaurant[v].isOpen
                       \/ \E h \in Handlers : Awaits(call[h]) /\ call[h].todo[1].id = v

(* The timer will not open the store before its next opening time, nor     *)
(* does a tick in progress.                                                *)
Stays(v) == ~store[v].isOpen /\ (store[v].state = "open" \/ ~IsWithinSchedule(store[v].hours, now))
Ticks(q) ==
    /\ q.do = "update" /\ q.table \in {"store", "restaurant"}
    /\ q.table = "store" =>
          /\ DOMAIN q.fields = {"isOpen", "state"}
          /\ q.id \in forced => ~q.fields.isOpen /\ ~IsWithinSchedule(store[q.id].hours, now)

InStep ==
    /\ OneBusy /\ References(db) /\ OrdersHold
    /\ \A h \in Handlers : Right(call[h])
    /\ \A v \in DOMAIN restaurant \ switched : Agrees(v)
    /\ \A v \in forced : Stays(v)
    /\ \A k \in 1..Len(call[Tick].todo) : Ticks(call[Tick].todo[k])

FrontInv == WellFormed /\ (alone => InStep)

-----------------------------------------------------------------------------
(* A meal window is open exactly from its start for as long as it lasts.   *)
THEOREM WindowsExact ==
    ASSUME NEW t \in Timing, NEW minute \in Minutes
    PROVE  OpenAsLongAsItLasts(t, minute)
<1>1. /\ MinutesPerDay \in Nat /\ minute \in Int /\ 0 <= minute /\ minute < MinutesPerDay
      /\ t.start \in Int /\ 0 <= t.start /\ t.start < MinutesPerDay
      /\ t.end \in Int /\ 0 <= t.end /\ t.end < MinutesPerDay
      /\ t.start # t.end
  BY OpeningTimesAssumption DEF Timing, Minutes
<1>2. CASE t.start < t.end
  BY <1>1, <1>2 DEF OpenAsLongAsItLasts, IsWithin, Elapsed
<1>3. CASE t.end < t.start
  BY <1>1, <1>3 DEF OpenAsLongAsItLasts, IsWithin, Elapsed
<1> QED BY <1>1, <1>2, <1>3

-----------------------------------------------------------------------------
(* Lists of queries. *)
LEMMA ListInSeq ==
    ASSUME NEW s, IsList(s)
    PROVE  s \in Seq({s[k] : k \in 1..Len(s)})
BY DEF IsList

LEMMA SeqIsList ==
    ASSUME NEW S, NEW s \in Seq(S)
    PROVE  IsList(s)
BY DEF IsList

LEMMA ListCat ==
    ASSUME NEW s, NEW t, IsList(s), IsList(t)
    PROVE  /\ IsList(s \o t) /\ Len(s \o t) = Len(s) + Len(t)
           /\ \A k \in 1..Len(s) : (s \o t)[k] = s[k]
           /\ \A k \in 1..Len(t) : (s \o t)[Len(s) + k] = t[k]
<1> DEFINE S == {s[k] : k \in 1..Len(s)}
           T == {t[k] : k \in 1..Len(t)}
<1>1. s \in Seq(S) /\ t \in Seq(T)
    BY ListInSeq
<1> HIDE DEF S, T
<1>2. s \in Seq(S \cup T) /\ t \in Seq(S \cup T)
  <2>1. \A A, B : Seq(A) \subseteq Seq(A \cup B) /\ Seq(B) \subseteq Seq(A \cup B)
    OBVIOUS
  <2>. QED
    BY <1>1, <2>1
<1>3. s \o t \in Seq(S \cup T)
    BY <1>2
<1>4. IsList(s \o t)
    BY <1>3, SeqIsList
<1>5. Len(s \o t) = Len(s) + Len(t)
    BY <1>2
<1>6. ASSUME NEW k \in 1..Len(s) PROVE (s \o t)[k] = s[k]
    BY <1>2
<1>7. ASSUME NEW k \in 1..Len(t) PROVE (s \o t)[Len(s) + k] = t[k]
    BY <1>2
<1>. QED
    BY <1>4, <1>5, <1>6, <1>7

LEMMA ListTail ==
    ASSUME NEW s, IsList(s), s # <<>>
    PROVE  /\ IsList(Tail(s)) /\ Len(Tail(s)) = Len(s) - 1
           /\ Len(s) \in Nat /\ Len(s) > 0 /\ Head(s) = s[1]
           /\ \A k \in 1..Len(s) - 1 : Tail(s)[k] = s[k + 1]
<1> DEFINE S == {s[k] : k \in 1..Len(s)}
<1>1. s \in Seq(S)
    BY ListInSeq
<1> HIDE DEF S
<1>2. Tail(s) \in Seq(S)
    BY <1>1
<1>3. IsList(Tail(s))
    BY <1>2, SeqIsList
<1>4. Len(Tail(s)) = Len(s) - 1 /\ Len(s) \in Nat /\ Len(s) > 0 /\ Head(s) = s[1]
    BY <1>1
<1>5. ASSUME NEW k \in 1..Len(s) - 1 PROVE Tail(s)[k] = s[k + 1]
    BY <1>1
<1>. QED
    BY <1>3, <1>4, <1>5

LEMMA ListOne ==
    ASSUME NEW q
    PROVE  IsList(<<q>>) /\ Len(<<q>>) = 1 /\ <<q>>[1] = q
BY DEF IsList

LEMMA ListNone ==
    /\ IsList(<<>>) /\ Len(<<>>) = 0 /\ 1..Len(<<>>) = {}
    /\ \A s : IsList(s) /\ Len(s) = 0 => s = <<>>
BY DEF IsList

-----------------------------------------------------------------------------
(* What a query does to the tables. *)
Effect(d, q) ==
    /\ IsDb(d)
    /\ DOMAIN db.store \subseteq DOMAIN d.store
    /\ q.do # "insert" => DOMAIN d.store = DOMAIN db.store
    /\ \A v \in DOMAIN db.store :
         /\ d.store[v].isOpen = IF SetsStore(q) /\ q.id = v THEN q.fields.isOpen ELSE db.store[v].isOpen
         /\ ~(SetsStore(q) /\ q.id = v) =>
              d.store[v].hours = db.store[v].hours /\ d.store[v].state = db.store[v].state
         /\ SetsStore(q) /\ q.id = v /\ DOMAIN q.fields = {"isOpen", "state"} =>
              d.store[v].hours = db.store[v].hours
    /\ \A v \in DOMAIN d.restaurant :
         d.restaurant[v].isOpen = IF v \notin DOMAIN db.restaurant THEN d.restaurant[v].isOpen
                                  ELSE IF SetsRestaurant(q) /\ q.id = v THEN q.fields.isOpen
                                  ELSE db.restaurant[v].isOpen
    /\ \A v \in DOMAIN d.restaurant \ DOMAIN db.restaurant : d.restaurant[v].isOpen
    /\ \A i \in DOMAIN d.item \cap DOMAIN db.item : d.item[i].cat = db.item[i].cat
    /\ \A c \in DOMAIN d.category \cap DOMAIN db.category : d.category[c] = db.category[c]
    /\ q.do \in {"place", "items"} => d.item = db.item /\ d.category = db.category
    /\ d.orders = IF q.do = "place" THEN db.orders \cup {q.vendor} ELSE db.orders
    /\ d.ordered = IF q.do = "items" THEN db.ordered \cup {q.id} ELSE db.ordered

LEMMA Inserting ==
    ASSUME IsDb(db), NEW q, Plain(q), q.do = "insert", q.id \notin DOMAIN db[q.table],
           NEW d, d = Apply(db, q)
    PROVE  Effect(d, q)
<1>1. d = [db EXCEPT ![q.table] = With(db[q.table], q.id, q.row)]
    BY DEF Apply
<1>2. q.table \in Tables /\ Tables \subseteq DOMAIN db
    BY DEF Plain, IsDb
<1>3. /\ DOMAIN d = DOMAIN db
      /\ d[q.table] = With(db[q.table], q.id, q.row)
      /\ \A t \in DOMAIN db \ {q.table} : d[t] = db[t]
    BY <1>1, <1>2
<1>4. /\ DOMAIN d[q.table] = DOMAIN db[q.table] \cup {q.id}
      /\ d[q.table][q.id] = q.row
      /\ \A i \in DOMAIN db[q.table] : d[q.table][i] = db[q.table][i]
    BY <1>3 DEF With
<1>5. CASE q.table = "store"
  <2>1. IsFiniteSet(DOMAIN d.store)
    BY <1>4, <1>5, FS_AddElement DEF IsDb
  <2>. QED
    BY <1>2, <1>3, <1>4, <1>5, <2>1 DEF Effect, IsDb, Plain, SetsStore, SetsRestaurant, Tables
<1>6. CASE q.table = "restaurant"
    BY <1>2, <1>3, <1>4, <1>6 DEF Effect, IsDb, Plain, SetsStore, SetsRestaurant, Tables
<1>7. CASE q.table = "item"
    BY <1>2, <1>3, <1>4, <1>7 DEF Effect, IsDb, Plain, SetsStore, SetsRestaurant, Tables
<1>8. CASE q.table = "category"
    BY <1>2, <1>3, <1>4, <1>8 DEF Effect, IsDb, Plain, SetsStore, SetsRestaurant, Tables
<1>9. CASE q.table = "account"
    BY <1>2, <1>3, <1>4, <1>9 DEF Effect, IsDb, Plain, SetsStore, SetsRestaurant, Tables
<1>. QED
    BY <1>2, <1>5, <1>6, <1>7, <1>8, <1>9 DEF Tables
LEMMA Updating ==
    ASSUME IsDb(db), NEW q, Plain(q), q.do = "update", NEW d, d = Apply(db, q)
    PROVE  Effect(d, q)
<1>1. CASE q.id \notin DOMAIN db[q.table]
  <2>1. d = db
    BY <1>1 DEF Apply
  <2>. QED
    BY <1>1, <2>1 DEF Effect, IsDb, SetsStore, SetsRestaurant
<1>2. CASE q.id \in DOMAIN db[q.table]
  <2>1. d = [db EXCEPT ![q.table][q.id] = Rewritten(db[q.table][q.id], q.fields)]
    BY <1>2 DEF Apply
  <2>2. q.table \in {"account", "store", "restaurant", "item"} /\ Tables \subseteq DOMAIN db
    BY DEF Plain, IsDb, Tables
  <2>3. /\ DOMAIN d = DOMAIN db
        /\ DOMAIN d[q.table] = DOMAIN db[q.table]
        /\ d[q.table][q.id] = Rewritten(db[q.table][q.id], q.fields)
        /\ \A i \in DOMAIN db[q.table] \ {q.id} : d[q.table][i] = db[q.table][i]
        /\ \A t \in DOMAIN db \ {q.table} : d[t] = db[t]
    BY <2>1, <2>2, <1>2 DEF Tables
  <2>4. /\ DOMAIN d[q.table][q.id] = DOMAIN db[q.table][q.id]
        /\ \A f \in DOMAIN db[q.table][q.id] :
             d[q.table][q.id][f] = IF f \in DOMAIN q.fields THEN q.fields[f] ELSE db[q.table][q.id][f]
    BY <2>3 DEF Rewritten
  <2>5. CASE q.table = "store"
    <3>1. DOMAIN db.store[q.id] = StoreFields /\ StoreFields = {"isOpen", "hours", "state", "shown"}
      BY <1>2, <2>5 DEF IsDb, StoreFields
    <3>2. IsDb(d)
      BY <2>2, <2>3, <2>4, <2>5 DEF IsDb, Tables
    <3>3. /\ d.store[q.id].isOpen = IF SetsStore(q) THEN q.fields.isOpen ELSE db.store[q.id].isOpen
          /\ ~SetsStore(q) => d.store[q.id].hours = db.store[q.id].hours /\ d.store[q.id].state = db.store[q.id].state
          /\ SetsStore(q) /\ DOMAIN q.fields = {"isOpen", "state"} => d.store[q.id].hours = db.store[q.id].hours
      BY <2>4, <2>5, <3>1 DEF SetsStore, Plain
    <3>4. \A t \in {"restaurant", "item", "category", "orders", "ordered"} : d[t] = db[t]
      BY <2>3, <2>5 DEF IsDb, Tables
    <3>. QED
      BY <2>3, <2>5, <3>2, <3>3, <3>4 DEF Effect, SetsStore, SetsRestaurant
  <2>6. CASE q.table = "restaurant"
    BY <1>2, <2>2, <2>3, <2>4, <2>6 DEF Effect, IsDb, SetsStore, SetsRestaurant, Tables, RestaurantFields
  <2>7. CASE q.table = "item"
    BY <1>2, <2>2, <2>3, <2>4, <2>7 DEF Effect, IsDb, Plain, SetsStore, SetsRestaurant, Tables, ItemFields
  <2>8. CASE q.table = "account"
    BY <1>2, <2>2, <2>3, <2>4, <2>8 DEF Effect, IsDb, SetsStore, SetsRestaurant, Tables
  <2>. QED
    BY <2>2, <2>5, <2>6, <2>7, <2>8
<1>. QED
    BY <1>1, <1>2

(* What goes with a row. *)
LEMMA ItemsGone ==
    ASSUME NEW d, IsDb(d), NEW ids, NEW e, e = WithoutItems(d, ids)
    PROVE  /\ IsDb(e)
           /\ \A t \in {"account", "store", "restaurant", "category", "orders", "ordered"} : e[t] = d[t]
           /\ DOMAIN e.item = DOMAIN d.item \ ids
           /\ \A i \in DOMAIN e.item : e.item[i] = d.item[i]
<1>1. e = [d EXCEPT !.item = [i \in DOMAIN d.item \ ids |-> d.item[i]]]
    BY DEF WithoutItems
<1>. QED
    BY <1>1 DEF IsDb, Tables

LEMMA CategoriesGone ==
    ASSUME NEW d, IsDb(d), NEW ids, NEW e, e = WithoutCategories(d, ids)
    PROVE  /\ IsDb(e)
           /\ \A t \in {"account", "store", "restaurant", "orders", "ordered"} : e[t] = d[t]
           /\ DOMAIN e.category = DOMAIN d.category \ ids
           /\ \A c \in DOMAIN e.category : e.category[c] = d.category[c]
           /\ DOMAIN e.item = {i \in DOMAIN d.item : d.item[i].cat \notin ids}
           /\ \A i \in DOMAIN e.item : e.item[i] = d.item[i]
<1> DEFINE f == WithoutItems(d, {i \in DOMAIN d.item : d.item[i].cat \in ids})
<1>1. /\ IsDb(f)
      /\ \A t \in {"account", "store", "restaurant", "category", "orders", "ordered"} : f[t] = d[t]
      /\ DOMAIN f.item = {i \in DOMAIN d.item : d.item[i].cat \notin ids}
      /\ \A i \in DOMAIN f.item : f.item[i] = d.item[i]
  <2>1. DOMAIN d.item \ {i \in DOMAIN d.item : d.item[i].cat \in ids} = {i \in DOMAIN d.item : d.item[i].cat \notin ids}
    OBVIOUS
  <2>. QED
    BY ItemsGone, <2>1
<1>2. e = [f EXCEPT !.category = [c \in DOMAIN f.category \ ids |-> f.category[c]]]
    BY DEF WithoutCategories
<1> HIDE DEF f
<1>3. /\ DOMAIN e = DOMAIN f
      /\ e.category = [c \in DOMAIN f.category \ ids |-> f.category[c]]
      /\ \A t \in DOMAIN f \ {"category"} : e[t] = f[t]
    BY <1>1, <1>2 DEF IsDb, Tables
<1>. QED
    BY <1>1, <1>3 DEF IsDb, Tables

LEMMA AccountGone ==
    ASSUME NEW d, IsDb(d), NEW v, NEW e, e = WithoutAccount(d, v)
    PROVE  /\ IsDb(e)
           /\ e.orders = d.orders /\ e.ordered = d.ordered
           /\ \A t \in {"account", "store", "restaurant"} :
                DOMAIN e[t] = DOMAIN d[t] \ {v} /\ \A w \in DOMAIN e[t] : e[t][w] = d[t][w]
           /\ DOMAIN e.category = {c \in DOMAIN d.category : d.category[c].vendor # v}
           /\ \A c \in DOMAIN e.category : e.category[c] = d.category[c]
           /\ DOMAIN e.item = {i \in DOMAIN d.item :
                                 d.item[i].cat \in DOMAIN d.category => d.category[d.item[i].cat].vendor # v}
           /\ \A i \in DOMAIN e.item : e.item[i] = d.item[i]
<1> DEFINE ids == {c \in DOMAIN d.category : d.category[c].vendor = v}
           f == WithoutCategories(d, ids)
<1>1. /\ IsDb(f)
      /\ \A t \in {"account", "store", "restaurant", "orders", "ordered"} : f[t] = d[t]
      /\ DOMAIN f.category = DOMAIN d.category \ ids
      /\ \A c \in DOMAIN f.category : f.category[c] = d.category[c]
      /\ DOMAIN f.item = {i \in DOMAIN d.item : d.item[i].cat \notin ids}
      /\ \A i \in DOMAIN f.item : f.item[i] = d.item[i]
    BY CategoriesGone
<1>2. e = [f EXCEPT !.account = [w \in DOMAIN f.account \ {v} |-> f.account[w]],
                    !.store = [w \in DOMAIN f.store \ {v} |-> f.store[w]],
                    !.restaurant = [w \in DOMAIN f.restaurant \ {v} |-> f.restaurant[w]]]
    BY DEF WithoutAccount
<1>3. /\ DOMAIN f.category = {c \in DOMAIN d.category : d.category[c].vendor # v}
      /\ DOMAIN f.item = {i \in DOMAIN d.item :
                            d.item[i].cat \in DOMAIN d.category => d.category[d.item[i].cat].vendor # v}
    BY <1>1
<1> HIDE DEF f, ids
<1>4. /\ DOMAIN e = DOMAIN f
      /\ \A t \in {"account", "store", "restaurant"} :
           e[t] = [w \in DOMAIN f[t] \ {v} |-> f[t][w]]
      /\ \A t \in DOMAIN f \ {"account", "store", "restaurant"} : e[t] = f[t]
  <2>1. {"account", "store", "restaurant"} \subseteq DOMAIN f
    BY <1>1 DEF IsDb, Tables
  <2>2. DOMAIN e = DOMAIN f
    BY <1>2
  <2>3. /\ e.account = [w \in DOMAIN f.account \ {v} |-> f.account[w]]
        /\ e.store = [w \in DOMAIN f.store \ {v} |-> f.store[w]]
        /\ e.restaurant = [w \in DOMAIN f.restaurant \ {v} |-> f.restaurant[w]]
    BY <1>2, <2>1
  <2>4. ASSUME NEW t \in DOMAIN f \ {"account", "store", "restaurant"}
        PROVE  e[t] = f[t]
    BY <1>2
  <2>. QED
    BY <2>2, <2>3, <2>4
<1>5. \A t \in {"account", "store", "restaurant"} :
        DOMAIN e[t] = DOMAIN d[t] \ {v} /\ \A w \in DOMAIN e[t] : e[t][w] = d[t][w]
    BY <1>1, <1>4
<1>6. IsDb(e)
  <2>1. IsFiniteSet(DOMAIN e.store)
    BY <1>1, <1>5, FS_Subset DEF IsDb
  <2>. QED
    BY <1>1, <1>4, <2>1 DEF IsDb, Tables
<1>7. e.orders = d.orders /\ e.ordered = d.ordered /\ e.category = f.category /\ e.item = f.item
    BY <1>1, <1>4 DEF IsDb, Tables
<1>. QED
    BY <1>1, <1>3, <1>5, <1>6, <1>7

LEMMA Deleting ==
    ASSUME IsDb(db), NEW q, Plain(q), q.do = "delete", NEW d, d = Apply(db, q)
    PROVE  Effect(d, q)
<1>1. d = Removed(db, q.table, q.id) /\ q.table \in {"category", "item"}
    BY DEF Apply, Plain
<1>2. CASE q.table = "item"
  <2>1. d = WithoutItems(db, {q.id})
    BY <1>1, <1>2 DEF Removed
  <2>2. /\ IsDb(d)
        /\ \A t \in {"account", "store", "restaurant", "category", "orders", "ordered"} : d[t] = db[t]
        /\ \A i \in DOMAIN d.item : d.item[i] = db.item[i]
    BY <2>1, ItemsGone
  <2>. QED
    BY <2>2 DEF Effect, SetsStore, SetsRestaurant
<1>3. CASE q.table = "category"
  <2>1. d = WithoutCategories(db, {q.id})
    BY <1>1, <1>3 DEF Removed
  <2>2. /\ IsDb(d)
        /\ \A t \in {"account", "store", "restaurant", "orders", "ordered"} : d[t] = db[t]
        /\ \A c \in DOMAIN d.category : d.category[c] = db.category[c]
        /\ \A i \in DOMAIN d.item : d.item[i] = db.item[i]
    BY <2>1, CategoriesGone
  <2>. QED
    BY <2>2 DEF Effect, SetsStore, SetsRestaurant
<1>. QED
    BY <1>1, <1>2, <1>3

LEMMA Adding ==
    ASSUME IsDb(db), NEW q, Plain(q), q.do = "add", NEW d, d = Apply(db, q)
    PROVE  Effect(d, q)
<1>1. CASE q.id \notin DOMAIN db.item
  <2>1. d = db
    BY <1>1 DEF Apply
  <2>. QED
    BY <2>1 DEF Effect, IsDb, SetsStore, SetsRestaurant
<1>2. CASE q.id \in DOMAIN db.item
  <2>1. d = [db EXCEPT !.item[q.id][q.what] = db.item[q.id][q.what] \cup {q.row}]
    BY <1>2 DEF Apply
  <2>2. q.what \in {"addons", "variants"}
    BY DEF Plain
  <2>3. /\ DOMAIN d = DOMAIN db
        /\ \A t \in {"account", "store", "restaurant", "category", "orders", "ordered"} : d[t] = db[t]
        /\ d.item = [db.item EXCEPT ![q.id][q.what] = db.item[q.id][q.what] \cup {q.row}]
    BY <2>1 DEF IsDb, Tables
  <2>4. /\ DOMAIN d.item = DOMAIN db.item
        /\ \A i \in DOMAIN db.item : DOMAIN d.item[i] = DOMAIN db.item[i] /\ d.item[i].cat = db.item[i].cat
    BY <2>2, <2>3, <1>2 DEF IsDb, ItemFields
  <2>. QED
    BY <2>3, <2>4 DEF Effect, IsDb, SetsStore, SetsRestaurant
<1>. QED
    BY <1>1, <1>2

LEMMA Ordered ==
    ASSUME IsDb(db), NEW q, q.do \in {"place", "items"}, NEW d, d = Apply(db, q)
    PROVE  Effect(d, q)
<1>1. CASE q.do = "place"
  <2>1. d = [db EXCEPT !.orders = db.orders \cup {q.vendor}, !.active = db.active \cup {q.vendor}]
    BY <1>1 DEF Apply
  <2>. QED
    BY <1>1, <2>1 DEF Effect, IsDb, Tables, SetsStore, SetsRestaurant
<1>2. CASE q.do = "items"
  <2>1. d = [db EXCEPT !.ordered = db.ordered \cup {q.id}]
    BY <1>2 DEF Apply
  <2>. QED
    BY <1>2, <2>1 DEF Effect, IsDb, Tables, SetsStore, SetsRestaurant
<1>. QED
    BY <1>1, <1>2

LEMMA Effects ==
    ASSUME IsDb(db), NEW q, Plain(q) \/ q.do \in {"place", "items"}, q.do \notin {"removeUser", "ensure"},
           NEW d, d = Apply(db, q), Valid(d, q)
    PROVE  Effect(d, q)
<1>1. q.do = "insert" => q.id \notin DOMAIN db[q.table]
    BY DEF Valid
<1>2. CASE q.do \in {"place", "items"}
    BY <1>2, Ordered
<1>3. CASE Plain(q)
  <2>1. q.do \in {"insert", "update", "delete", "add"}
    BY <1>3 DEF Plain
  <2>. QED
    BY <1>1, <1>3, <2>1, Inserting, Updating, Deleting, Adding
<1>. QED
    BY <1>2, <1>3
-----------------------------------------------------------------------------
(* What calls are made of: lists that may come one after another. *)
Chunk(s) ==
    /\ IsList(s) /\ Opens(s) /\ Paired(s)
    /\ \A k \in 1..Len(s) : Plain(s[k])
    /\ Len(s) > 0 => ~SetsRestaurant(s[1])

LEMMA ChunkNone == Chunk(<<>>)
<1>1. 2..0 = {}
    OBVIOUS
<1>. QED
    BY <1>1, ListNone DEF Chunk, Opens, Paired

LEMMA ChunkOne ==
    ASSUME NEW q, Plain(q), ~SetsRestaurant(q), SetsStore(q) => ~q.fields.isOpen
    PROVE  Chunk(<<q>>)
BY ListOne DEF Chunk, Opens, Paired

LEMMA ChunkCat ==
    ASSUME NEW s, NEW t, Chunk(s), Chunk(t)
    PROVE  Chunk(s \o t)
<1> DEFINE u == s \o t
<1>1. /\ IsList(u) /\ Len(u) = Len(s) + Len(t) /\ Len(s) \in Nat /\ Len(t) \in Nat
      /\ \A k \in 1..Len(s) : u[k] = s[k]
      /\ \A k \in 1..Len(t) : u[Len(s) + k] = t[k]
    BY ListCat DEF Chunk, IsList
<1> HIDE DEF u
<1>2. ASSUME NEW k \in 1..Len(u)
      PROVE  \/ k \in 1..Len(s) /\ u[k] = s[k]
             \/ k - Len(s) \in 1..Len(t) /\ u[k] = t[k - Len(s)]
  <2>1. CASE k <= Len(s)
    BY <1>1, <2>1
  <2>2. CASE k > Len(s)
    <3>1. k - Len(s) \in 1..Len(t) /\ Len(s) + (k - Len(s)) = k
      BY <1>1, <2>2
    <3>. QED
      BY <1>1, <3>1
  <2>. QED
    BY <1>1, <2>1, <2>2
<1>3. \A k \in 1..Len(u) : Plain(u[k])
    BY <1>2 DEF Chunk
<1>4. ASSUME NEW k \in 1..Len(u), SetsStore(u[k]), u[k].fields.isOpen
      PROVE  k + 1 \in 1..Len(u) /\ Follows(u[k], u[k + 1])
  <2>1. CASE k \in 1..Len(s) /\ u[k] = s[k]
    <3>1. k + 1 \in 1..Len(s) /\ Follows(s[k], s[k + 1])
      BY <1>4, <2>1 DEF Chunk, Opens
    <3>. QED
      BY <1>1, <2>1, <3>1
  <2>2. CASE k - Len(s) \in 1..Len(t) /\ u[k] = t[k - Len(s)]
    <3>1. (k - Len(s)) + 1 \in 1..Len(t) /\ Follows(t[k - Len(s)], t[(k - Len(s)) + 1])
      BY <1>4, <2>2 DEF Chunk, Opens
    <3>2. Len(s) + ((k - Len(s)) + 1) = k + 1 /\ k + 1 \in 1..Len(u)
      BY <1>1, <3>1
    <3>. QED
      BY <1>1, <2>2, <3>1, <3>2
  <2>. QED
    BY <1>2, <2>1, <2>2
<1>5. ASSUME NEW k \in 2..Len(u), SetsRestaurant(u[k])
      PROVE  Follows(u[k - 1], u[k])
  <2>1. CASE k \in 1..Len(s) /\ u[k] = s[k]
    <3>1. k \in 2..Len(s) /\ k - 1 \in 1..Len(s)
      BY <1>1, <2>1
    <3>. QED
      BY <1>1, <1>5, <2>1, <3>1 DEF Chunk, Paired
  <2>2. CASE k - Len(s) \in 1..Len(t) /\ u[k] = t[k - Len(s)]
    <3>1. k - Len(s) # 1
      BY <1>5, <2>2, <1>1 DEF Chunk
    <3>2. k - Len(s) \in 2..Len(t) /\ (k - Len(s)) - 1 \in 1..Len(t) /\ Len(s) + ((k - Len(s)) - 1) = k - 1
      BY <1>1, <2>2, <3>1
    <3>3. Follows(t[(k - Len(s)) - 1], t[k - Len(s)])
      BY <1>5, <2>2, <3>2 DEF Chunk, Paired
    <3>. QED
      BY <1>1, <2>2, <3>2, <3>3
  <2>3. k \in 1..Len(u)
    BY <1>1
  <2>. QED
    BY <1>2, <2>1, <2>2, <2>3
<1>6. Len(u) > 0 => ~SetsRestaurant(u[1])
  <2>1. CASE Len(s) > 0
    BY <1>1, <2>1 DEF Chunk
  <2>2. CASE Len(s) = 0
    BY <1>1, <2>2 DEF Chunk
  <2>. QED
    BY <1>1, <2>1, <2>2
<1>7. Opens(u) /\ Paired(u)
    BY <1>4, <1>5 DEF Opens, Paired
<1>. QED
    BY <1>1, <1>3, <1>6, <1>7 DEF Chunk, u

(* A switch of both tables. *)
LEMMA ChunkPair ==
    ASSUME NEW q, NEW r, Follows(q, r)
    PROVE  Chunk(<<q>> \o <<r>>)
<1> DEFINE u == <<q>> \o <<r>>
<1>1. IsList(u) /\ Len(u) = 2 /\ u[1] = q /\ u[2] = r
  <2>1. /\ IsList(u) /\ Len(u) = Len(<<q>>) + Len(<<r>>)
        /\ \A k \in 1..Len(<<q>>) : u[k] = <<q>>[k]
        /\ \A k \in 1..Len(<<r>>) : u[Len(<<q>>) + k] = <<r>>[k]
    BY ListCat, ListOne
  <2>. QED
    BY <2>1, ListOne
<1> HIDE DEF u
<1>2. ~SetsRestaurant(q) /\ ~SetsStore(r)
    BY DEF Follows, SetsStore, SetsRestaurant
<1>3. Plain(q) /\ Plain(r)
    BY DEF Follows, SetsStore, SetsRestaurant, Plain, Tables
<1>4. \A k \in 1..Len(u) : k = 1 \/ k = 2
    BY <1>1
<1>5. Opens(u)
    BY <1>1, <1>2, <1>4 DEF Opens
<1>6. Paired(u)
    BY <1>1, <1>4 DEF Paired
<1>. QED
    BY <1>1, <1>2, <1>3, <1>4, <1>5, <1>6 DEF Chunk, u

LEMMA ChunkInsert ==
    ASSUME NEW t \in {"account", "category"}, NEW id, NEW row
    PROVE  Chunk(Insert(t, id, row))
<1> DEFINE q == [do |-> "insert", table |-> t, id |-> id, row |-> row]
<1>1. q.do = "insert" /\ q.table = t
    OBVIOUS
<1> HIDE DEF q
<1>2. Plain(q) /\ ~SetsRestaurant(q) /\ ~SetsStore(q)
    BY <1>1 DEF Plain, SetsRestaurant, SetsStore, Tables
<1>. QED
    BY <1>2, ChunkOne DEF Insert, q

LEMMA ChunkNewStore ==
    ASSUME NEW v, NEW row, DOMAIN row = StoreFields
    PROVE  Chunk(Insert("store", v, row))
<1> DEFINE q == [do |-> "insert", table |-> "store", id |-> v, row |-> row]
<1>1. q.do = "insert" /\ q.table = "store" /\ DOMAIN q.row = StoreFields
    OBVIOUS
<1> HIDE DEF q
<1>2. Plain(q) /\ ~SetsRestaurant(q) /\ ~SetsStore(q)
    BY <1>1 DEF Plain, SetsRestaurant, SetsStore, Tables
<1>. QED
    BY <1>2, ChunkOne DEF Insert, q

LEMMA ChunkNewItem ==
    ASSUME NEW i, NEW c, NEW slots
    PROVE  Chunk(Insert("item", i, NewItem(c, slots)))
<1> DEFINE q == [do |-> "insert", table |-> "item", id |-> i, row |-> NewItem(c, slots)]
<1>1. q.do = "insert" /\ q.table = "item" /\ DOMAIN q.row = ItemFields
    BY DEF NewItem, ItemFields
<1> HIDE DEF q
<1>2. Plain(q) /\ ~SetsRestaurant(q) /\ ~SetsStore(q)
    BY <1>1 DEF Plain, SetsRestaurant, SetsStore, Tables
<1>. QED
    BY <1>2, ChunkOne DEF Insert, q

LEMMA ChunkEnsure ==
    ASSUME NEW v
    PROVE  /\ Chunk(EnsureRestaurant(v))
           /\ \A k \in 1..Len(EnsureRestaurant(v)) : EnsureRestaurant(v)[k].do = "insert"
<1> DEFINE q == [do |-> "insert", table |-> "restaurant", id |-> v, row |-> NewRestaurant]
<1>1. q.do = "insert" /\ q.table = "restaurant" /\ DOMAIN q.row = RestaurantFields /\ q.row.isOpen
    BY DEF NewRestaurant, RestaurantFields
<1> HIDE DEF q
<1>2. Plain(q) /\ ~SetsRestaurant(q) /\ ~SetsStore(q)
    BY <1>1 DEF Plain, SetsRestaurant, SetsStore, Tables
<1>3. EnsureRestaurant(v) = <<>> \/ EnsureRestaurant(v) = <<q>>
    BY DEF EnsureRestaurant, Insert, q
<1>. QED
    BY <1>1, <1>2, <1>3, ChunkOne, ChunkNone, ListOne

(* An update of anything but the switches. *)
LEMMA ChunkUpdate ==
    ASSUME NEW t \in {"account", "store", "restaurant", "item"}, NEW id, NEW fields,
           t = "store" => DOMAIN fields = {"shown"},
           t = "restaurant" => "isOpen" \notin DOMAIN fields,
           t = "item" => "cat" \notin DOMAIN fields
    PROVE  Chunk(Update(t, id, fields))
<1> DEFINE q == [do |-> "update", table |-> t, id |-> id, fields |-> fields]
<1>1. q.do = "update" /\ q.table = t /\ q.fields = fields
    OBVIOUS
<1> HIDE DEF q
<1>2. Plain(q) /\ ~SetsRestaurant(q) /\ ~SetsStore(q)
    BY <1>1 DEF Plain, SetsRestaurant, SetsStore, Tables
<1>. QED
    BY <1>2, ChunkOne DEF Update, q

LEMMA ChunkDelete ==
    ASSUME NEW t \in {"category", "item"}, NEW id
    PROVE  Chunk(Delete(t, id))
<1> DEFINE q == [do |-> "delete", table |-> t, id |-> id]
<1>1. q.do = "delete" /\ q.table = t
    OBVIOUS
<1> HIDE DEF q
<1>2. Plain(q) /\ ~SetsRestaurant(q) /\ ~SetsStore(q)
    BY <1>1 DEF Plain, SetsRestaurant, SetsStore
<1>. QED
    BY <1>2, ChunkOne DEF Delete, q

(* The store first, then the restaurant. *)
LEMMA ChunkSwitch ==
    ASSUME NEW v, NEW fields, "isOpen" \in DOMAIN fields, NEW open, open = fields.isOpen
    PROVE  Chunk(Update("store", v, fields) \o Update("restaurant", v, [isOpen |-> open]))
<1> DEFINE q == [do |-> "update", table |-> "store", id |-> v, fields |-> fields]
           r == [do |-> "update", table |-> "restaurant", id |-> v, fields |-> [isOpen |-> open]]
<1>1. /\ q.do = "update" /\ q.table = "store" /\ q.id = v /\ q.fields = fields
      /\ r.do = "update" /\ r.table = "restaurant" /\ r.id = v
      /\ "isOpen" \in DOMAIN r.fields /\ r.fields.isOpen = open
    OBVIOUS
<1> HIDE DEF q, r
<1>2. Follows(q, r)
    BY <1>1 DEF Follows, SetsStore, SetsRestaurant
<1>. QED
    BY <1>2, ChunkPair DEF Update, q, r

LEMMA ChunkClosing ==
    ASSUME NEW v, NEW had
    PROVE  Chunk(Closing(v, had)) /\ Closing(v, had) # <<>>
<1> DEFINE q == [do |-> "update", table |-> "store", id |-> v, fields |-> [isOpen |-> FALSE]]
           a == Update("account", v, [status |-> "suspended"])
<1>1. q.do = "update" /\ q.table = "store" /\ ~q.fields.isOpen /\ "isOpen" \in DOMAIN q.fields
    OBVIOUS
<1>2. Chunk(a)
    BY ChunkUpdate
<1> HIDE DEF q
<1>3. Chunk(<<q>>)
    BY <1>1, ChunkOne DEF Plain, SetsStore, SetsRestaurant, Tables
<1>4. Chunk(Update("store", v, [isOpen |-> FALSE]) \o Update("restaurant", v, [isOpen |-> FALSE]))
    BY ChunkSwitch
<1>5. Chunk((<<q>> \o <<>>) \o a)
    BY <1>2, <1>3, ChunkNone, ChunkCat
<1>6. Chunk((Update("store", v, [isOpen |-> FALSE]) \o Update("restaurant", v, [isOpen |-> FALSE])) \o a)
    BY <1>2, <1>4, ChunkCat
<1>7. Chunk(Closing(v, had))
  <2>1. CASE had
    <3>1. Closing(v, had) = (Update("store", v, [isOpen |-> FALSE]) \o Update("restaurant", v, [isOpen |-> FALSE])) \o a
      BY <2>1 DEF Closing, a
    <3>. QED
      BY <1>6, <3>1
  <2>2. CASE ~had
    <3>1. Closing(v, had) = (<<q>> \o <<>>) \o a
      BY <2>2 DEF Closing, Update, q, a
    <3>. QED
      BY <1>5, <3>1
  <2>. QED
    BY <2>1, <2>2
<1>8. Closing(v, had) # <<>>
  <2>1. PICK s : s = Update("store", v, [isOpen |-> FALSE])
                     \o (IF had THEN Update("restaurant", v, [isOpen |-> FALSE]) ELSE <<>>)
    OBVIOUS
  <2>2. Chunk(s)
    BY <2>1, <1>3, <1>4, ChunkNone, ChunkCat DEF Update, q
  <2>3. Len(s \o a) = Len(s) + Len(a) /\ Len(a) = 1 /\ Len(s) \in Nat
    BY <1>2, <2>2, ListCat, ListOne DEF Chunk, Update, IsList
  <2>4. Closing(v, had) = s \o a
    BY <2>1 DEF Closing
  <2>. QED
    BY <2>3, <2>4, ListOne
<1>. QED
    BY <1>7, <1>8
-----------------------------------------------------------------------------
(* What the history says of a step. *)
LEMMA Histories ==
    ASSUME MCNext
    PROVE  /\ alone' => alone /\ cuts' = cuts /\ OneBusy'
           /\ forced' \subseteq DOMAIN store' /\ switched' \subseteq Vendors
           /\ \A v \in forced' :
                \/ ClosedFor(v)
                \/ v \in forced /\ ~OpeningTime(v) /\ \A h \in Slots : ~WritesOpen(h, "store", v)
           /\ \A v \in forced' : (\A h \in Slots : ~WritesOpen(h, "store", v)) => v \in forced
           /\ \A v \in Vendors \ switched' :
                /\ \A h \in Slots : WritesOpen(h, "restaurant", v) => call[h].what # "updateRestaurant"
                /\ (\A h \in Handlers : ~WritesOpen(h, "restaurant", v)) => v \notin switched
<1>1. alone' => alone /\ cuts' = cuts /\ OneBusy'
    BY DEF MCNext, OneBusy, Handlers
<1>2. forced' = {v \in Vendors :
                    IF \E h \in Slots : WritesOpen(h, "store", v) THEN ClosedFor(v)
                    ELSE v \in forced /\ v \in DOMAIN store' /\ ~OpeningTime(v)}
    BY DEF MCNext
<1>3. switched' = {v \in Vendors :
                      IF \E h \in Handlers : WritesOpen(h, "restaurant", v)
                      THEN \E h \in Slots : WritesOpen(h, "restaurant", v) /\ call[h].what = "updateRestaurant"
                      ELSE v \in switched \/ MadeWhileClosed(v)}
    BY DEF MCNext, Handlers
<1>4. \A v \in forced' : v \in DOMAIN store'
    BY <1>2 DEF ClosedFor
<1>5. \A v \in forced' :
        \/ ClosedFor(v)
        \/ v \in forced /\ ~OpeningTime(v) /\ \A h \in Slots : ~WritesOpen(h, "store", v)
    BY <1>2
<1>7. \A v \in forced' : (\A h \in Slots : ~WritesOpen(h, "store", v)) => v \in forced
    BY <1>2
<1>6. ASSUME NEW v \in Vendors \ switched'
      PROVE  /\ \A h \in Slots : WritesOpen(h, "restaurant", v) => call[h].what # "updateRestaurant"
             /\ (\A h \in Handlers : ~WritesOpen(h, "restaurant", v)) => v \notin switched
  <2>1. Slots \subseteq Handlers
    BY DEF Handlers
  <2>. QED
    BY <1>3, <1>6, <2>1
<1>. QED
    BY <1>1, <1>3, <1>4, <1>5, <1>6, <1>7

LEMMA NeverWithinNoHours ==
    ASSUME NEW t
    PROVE  ~IsWithinSchedule(NoHours, t)
BY DEF IsWithinSchedule, NoHours

LEMMA ClosedByHand ==
    ASSUME NEW v, ClosedFor(v), now' = now
    PROVE  Stays(v)'
<1>1. ~store'[v].isOpen
    BY DEF ClosedFor
<1>2. CASE store'[v].hours = NoHours
    BY <1>1, <1>2, NeverWithinNoHours DEF Stays
<1>3. CASE store'[v].state = Scheduled(store'[v].hours, now)
    BY <1>1, <1>3 DEF Stays, Scheduled
<1>. QED
    BY <1>2, <1>3 DEF ClosedFor

(* A step that leaves the tables and the clock alone. *)
LEMMA StayClosed ==
    ASSUME FrontInv, MCNext, alone', UNCHANGED <<db, now>>
    PROVE  \A v \in forced' : Stays(v)'
<1>1. \A v \in forced : Stays(v)
    BY Histories DEF FrontInv, InStep
<1>2. ASSUME NEW v \in forced', v \in forced
      PROVE  Stays(v)'
    BY <1>1, <1>2 DEF Stays, store
<1>. QED
    BY <1>2, Histories, ClosedByHand

(* The calls after one of them goes on, or ends. *)
LEMMA GoesTo ==
    ASSUME WellFormed, NEW h \in Handlers, NEW t, GoesOn(h, t)
    PROVE  /\ call' = [k \in Handlers |-> call'[k]]
           /\ call'[h] = IF t = <<>> THEN Idle ELSE [call[h] EXCEPT !.todo = t]
           /\ \A k \in Handlers \ {h} : call'[k] = call[k]
BY DEF GoesOn, WellFormed

LEMMA Rewrites ==
    ASSUME NEW c, Script(c), NEW t
    PROVE  /\ DOMAIN [c EXCEPT !.todo = t] = {"what", "todo"}
           /\ [c EXCEPT !.todo = t].what = c.what
           /\ [c EXCEPT !.todo = t].todo = t
BY DEF Script

LEMMA Busy ==
    ASSUME WellFormed, NEW h \in Handlers, call[h].todo # <<>>
    PROVE  /\ call[h] # Idle /\ Script(call[h]) /\ IsList(call[h].todo)
           /\ Doing(h) = call[h].todo[1] /\ Rest(h) = Tail(call[h].todo)
           /\ Len(call[h].todo) \in Nat /\ Len(call[h].todo) > 0
<1>1. call[h] # Idle
    BY DEF Idle
<1>2. Script(call[h])
    BY <1>1 DEF WellFormed
<1>. QED
    BY <1>1, <1>2, ListTail DEF Script, Doing, Rest

LEMMA GoesOnWith ==
    ASSUME WellFormed, NEW h \in Handlers, call[h].todo # <<>>, NEW t, t # <<>>, GoesOn(h, t)
    PROVE  /\ call'[h] = [call[h] EXCEPT !.todo = t]
           /\ call'[h].what = call[h].what /\ call'[h].todo = t /\ call'[h] # Idle
<1>1. PICK o : o = call[h]
    OBVIOUS
<1>2. Script(o) /\ call'[h] = [o EXCEPT !.todo = t]
    BY <1>1, Busy, GoesTo
<1>3. call'[h].what = o.what /\ call'[h].todo = t
    BY <1>2, Rewrites
<1>4. call'[h] # Idle
    BY <1>3 DEF Idle
<1>. QED
    BY <1>1, <1>2, <1>3, <1>4

(* What is left of a call is a call. *)
LEMMA GoingOn ==
    ASSUME NEW c, Script(c), Tail(c.todo) # <<>>
    PROVE  Script([c EXCEPT !.todo = Tail(c.todo)])
<1> DEFINE s == c.todo
           t == Tail(c.todo)
           e == [c EXCEPT !.todo = t]
<1>1. /\ IsList(s) /\ s # <<>> /\ IsList(t) /\ Len(t) = Len(s) - 1 /\ Len(s) \in Nat
      /\ \A k \in 1..Len(s) - 1 : t[k] = s[k + 1]
    BY ListTail DEF Script
<1>2. DOMAIN e = {"what", "todo"} /\ e.what = c.what /\ e.todo = t
    BY Rewrites
<1>3. Opens(s) /\ (IF c.what = "updateRestaurant" THEN Alone(s) ELSE Paired(s))
      /\ (IF c.what = "createFoodOrder" THEN Ordering(s) ELSE \A k \in 1..Len(s) : Plain(s[k]))
    BY DEF Script
<1>4. t # <<>>
    OBVIOUS
<1> HIDE DEF s, t, e
<1>5. \A k \in 1..Len(t) : k + 1 \in 1..Len(s) /\ t[k] = s[k + 1]
    BY <1>1
<1>6. Opens(t)
  <2> SUFFICES ASSUME NEW k \in 1..Len(t), SetsStore(t[k]), t[k].fields.isOpen
               PROVE  k + 1 \in 1..Len(t) /\ Follows(t[k], t[k + 1])
    BY DEF Opens
  <2>1. (k + 1) + 1 \in 1..Len(s) /\ Follows(s[k + 1], s[(k + 1) + 1])
    BY <1>3, <1>5 DEF Opens
  <2>2. k + 1 \in 1..Len(t)
    BY <1>1, <2>1
  <2>. QED
    BY <1>5, <2>1, <2>2
<1>7. ASSUME Paired(s) PROVE Paired(t)
  <2> SUFFICES ASSUME NEW k \in 2..Len(t), SetsRestaurant(t[k])
               PROVE  Follows(t[k - 1], t[k])
    BY DEF Paired
  <2>1. k + 1 \in 2..Len(s) /\ k \in 1..Len(t) /\ k - 1 \in 1..Len(t) /\ (k + 1) - 1 = (k - 1) + 1
    BY <1>1
  <2>2. Follows(s[(k + 1) - 1], s[k + 1])
    BY <1>5, <1>7, <2>1 DEF Paired
  <2>. QED
    BY <1>5, <2>1, <2>2
<1>8. ASSUME Alone(s) PROVE Alone(t)
    BY <1>5, <1>8 DEF Alone
<1>9. ASSUME Ordering(s) PROVE Ordering(t)
  <2>1. Len(s) = 2 /\ s[2].do = "items"
    BY <1>1, <1>4, <1>9, ListNone DEF Ordering
  <2>2. Len(t) = 1 /\ t[1] = s[2]
    BY <1>1, <2>1
  <2>. QED
    BY <2>1, <2>2 DEF Ordering
<1>10. (\A k \in 1..Len(s) : Plain(s[k])) => \A k \in 1..Len(t) : Plain(t[k])
    BY <1>5
<1>11. IF c.what = "updateRestaurant" THEN Alone(t) ELSE Paired(t)
    BY <1>3, <1>7, <1>8
<1>12. IF c.what = "createFoodOrder" THEN Ordering(t) ELSE \A k \in 1..Len(t) : Plain(t[k])
    BY <1>3, <1>9, <1>10
<1>13. Script(e)
    BY <1>1, <1>2, <1>4, <1>6, <1>11, <1>12 DEF Script
<1>. QED
    BY <1>13 DEF e, t

LEMMA Beginning ==
    ASSUME NEW what, NEW todo, Chunk(todo), todo # <<>>, what \notin {"createFoodOrder", "updateRestaurant"}
    PROVE  /\ Script([what |-> what, todo |-> todo])
           /\ ~SetsRestaurant(todo[1]) /\ todo[1].do \notin {"place", "items"}
<1>1. Len(todo) \in Nat /\ Len(todo) > 0
    BY ListTail DEF Chunk
<1>2. 1 \in 1..Len(todo) /\ Plain(todo[1])
    BY <1>1 DEF Chunk
<1>. QED
    BY <1>1, <1>2 DEF Chunk, Script, Plain

-----------------------------------------------------------------------------
(* A call starts. *)
LEMMA Starting ==
    ASSUME FrontInv, MCNext, NEW h \in Slots, Free(h), NEW what, NEW todo, Starts(h, what, todo),
           Script([what |-> what, todo |-> todo]),
           what = "updateRestaurant" \/ ~SetsRestaurant(todo[1]),
           todo[1].do = "place" => todo[2].id \in DOMAIN item /\ VendorOf(todo[2].id) = todo[1].vendor,
           todo[1].do # "items"
    PROVE  FrontInv'
<1>1. h \in Handlers /\ Tick \in Handlers /\ h # Tick
    BY StorefrontAssumption DEF Handlers
<1>2. /\ call' = [k \in Handlers |-> call'[k]]
      /\ call'[h] = [what |-> what, todo |-> todo]
      /\ \A k \in Handlers \ {h} : call'[k] = call[k]
      /\ UNCHANGED <<db, now, cuts>>
    BY <1>1 DEF Starts, FrontInv, WellFormed
<1>3. WellFormed'
    BY <1>1, <1>2, Histories DEF FrontInv, WellFormed
<1>4. ASSUME alone' PROVE InStep'
  <2>1. InStep /\ OneBusy'
    BY <1>4, Histories DEF FrontInv
  <2>2. call'[h] # Idle /\ todo # <<>>
    BY <1>2 DEF Script, Idle
  <2>3. \A k \in Handlers : call[k] = Idle /\ (k # h => call'[k] = Idle)
    BY <1>1, <1>2, <2>1, <2>2 DEF OneBusy, Free
  <2>4. References(db)' /\ OrdersHold'
    BY <1>2, <2>1 DEF InStep, References, OrdersHold, VendorOf, item, category, orders, ordered
  <2>5. \A k \in Handlers : Right(call[k])'
    <3>1. Right(call[h])'
      BY <1>2 DEF Right, Awaits, VendorOf, item, category
    <3>2. ASSUME NEW k \in Handlers, k # h PROVE Right(call[k])'
      BY <2>3, <3>2 DEF Right, Awaits
    <3>. QED
      BY <3>1, <3>2
  <2>6. \A v \in DOMAIN restaurant' \ switched' : Agrees(v)'
    <3> SUFFICES ASSUME NEW v \in DOMAIN restaurant' \ switched', store'[v].isOpen
                 PROVE  restaurant'[v].isOpen
      BY DEF Agrees
    <3>1. \A k \in Handlers : ~WritesOpen(k, "restaurant", v)
      BY <2>3 DEF WritesOpen, Idle
    <3>2. v \notin switched
      BY <3>1, Histories DEF FrontInv, WellFormed
    <3>3. Agrees(v) /\ store[v].isOpen
      BY <1>2, <2>1, <3>2 DEF InStep, restaurant, store
    <3>. QED
      BY <1>2, <2>3, <3>3 DEF Agrees, Awaits, restaurant
  <2>7. \A v \in forced' : Stays(v)'
    BY <1>2, <1>4, StayClosed
  <2>8. call'[Tick].todo = <<>>
    BY <1>1, <2>3 DEF Idle
  <2>9. \A k \in 1..Len(call'[Tick].todo) : Ticks(call[Tick].todo[k])'
    BY <2>8, ListNone
  <2>. QED
    BY <2>1, <2>4, <2>5, <2>6, <2>7, <2>9 DEF InStep
<1>. QED
    BY <1>3, <1>4 DEF FrontInv

LEMMA StartingChunk ==
    ASSUME FrontInv, MCNext, NEW h \in Slots, Free(h), NEW what, NEW todo, Starts(h, what, todo),
           Chunk(todo), what \notin {"createFoodOrder", "updateRestaurant"}
    PROVE  FrontInv'
<1>1. todo # <<>>
    BY DEF Starts
<1>. QED
    BY <1>1, Beginning, Starting

(* The vendor's calls about the store. *)
LEMMA VendorCalls ==
    ASSUME FrontInv, MCNext, NEW h \in Slots, Free(h), NEW v \in Vendors, VendorCall(h, v)
    PROVE  FrontInv'
<1>1. CASE UpsertVendorProfile(h, v)
  <2>1. PICK row : row = NewStore(TRUE)
    OBVIOUS
  <2>2. DOMAIN row = StoreFields
    BY <2>1 DEF NewStore, StoreFields
  <2>3. Chunk(Insert("store", v, row))
    BY <2>2, ChunkNewStore
  <2>4. Starts(h, "upsertVendorProfile", Insert("store", v, row))
    BY <1>1, <2>1 DEF UpsertVendorProfile
  <2>. QED
    BY <2>3, <2>4, StartingChunk
<1>2. CASE DeleteVendorAccount(h, v)
  <2>1. PICK a, b, c : /\ a = Update("account", v, [documents |-> FALSE])
                       /\ b = Closing(v, v \in DOMAIN restaurant)
                       /\ c = Update("account", v, [signedIn |-> FALSE])
    OBVIOUS
  <2>2. Chunk(a) /\ Chunk(b) /\ Chunk(c)
    BY <2>1, ChunkUpdate, ChunkClosing
  <2>3. Chunk(a \o b \o c)
    BY <2>2, ChunkCat
  <2>4. Starts(h, "deleteVendorAccount", a \o b \o c)
    BY <1>2, <2>1 DEF DeleteVendorAccount
  <2>. QED
    BY <2>3, <2>4, StartingChunk
<1>3. ASSUME NEW b \in BOOLEAN, ToggleOpen(h, v, b) PROVE FrontInv'
  <2>1. Chunk(SetOpen(v, b))
    BY ChunkSwitch DEF SetOpen
  <2>. QED
    BY <1>3, <2>1, StartingChunk DEF ToggleOpen
<1>4. ASSUME NEW b \in BOOLEAN, UpdateRestaurant(h, v, b) PROVE FrontInv'
  <2>1. PICK q : q = [do |-> "update", table |-> "restaurant", id |-> v, fields |-> [isOpen |-> b]]
    OBVIOUS
  <2>2. q.do = "update" /\ q.table = "restaurant" /\ q.id = v
    BY <2>1
  <2>3. PICK s : s = EnsureRestaurant(v)
    OBVIOUS
  <2>4. Chunk(s) /\ \A k \in 1..Len(s) : s[k].do = "insert"
    BY <2>3, ChunkEnsure
  <2>5. PICK t : t = s \o <<q>>
    OBVIOUS
  <2>6. /\ IsList(t) /\ Len(t) = Len(s) + 1 /\ Len(s) \in Nat
        /\ \A k \in 1..Len(s) : t[k] = s[k]
        /\ t[Len(s) + 1] = q
    BY <2>4, <2>5, ListCat, ListOne DEF Chunk, IsList
  <2>7. \A k \in 1..Len(t) : (k \in 1..Len(s) /\ t[k] = s[k]) \/ t[k] = q
    BY <2>6
  <2>8. Plain(q) /\ ~SetsStore(q)
    BY <2>2 DEF Plain, SetsStore, Tables
  <2>9. \A k \in 1..Len(t) : Plain(t[k]) /\ ~SetsStore(t[k])
    BY <2>4, <2>7, <2>8 DEF Chunk, SetsStore
  <2>10. Alone(t)
    BY <2>2, <2>4, <2>7, <2>9 DEF Alone, SetsRestaurant
  <2>11. Opens(t) /\ t # <<>>
    BY <2>6, <2>9, ListNone DEF Opens
  <2>12. Script([what |-> "updateRestaurant", todo |-> t])
    BY <2>6, <2>9, <2>10, <2>11 DEF Script
  <2>13. t[1].do \notin {"place", "items"}
    BY <2>6, <2>9 DEF Plain
  <2>14. Starts(h, "updateRestaurant", t)
    BY <1>4, <2>1, <2>3, <2>5 DEF UpdateRestaurant, Update
  <2>. QED
    BY <2>12, <2>13, <2>14, Starting
<1>5. ASSUME NEW b \in BOOLEAN, NEW hours \in Schedules, UpdateBusinessHours(h, v, b, hours)
      PROVE  FrontInv'
  <2>1. PICK new : new = IF hours = NoHours THEN [isOpen |-> b, hours |-> hours]
                         ELSE [isOpen |-> b /\ IsWithinSchedule(hours, now), hours |-> hours,
                               state |-> Scheduled(hours, now)]
    OBVIOUS
  <2>2. "isOpen" \in DOMAIN new
    BY <2>1
  <2>3. Starts(h, "updateBusinessHours",
               Update("store", v, new) \o Update("restaurant", v, [isOpen |-> new.isOpen]))
    BY <1>5, <2>1 DEF UpdateBusinessHours
  <2>. QED
    BY <2>2, <2>3, ChunkSwitch, StartingChunk
<1>6. ASSUME NEW t \in Timings, UpdateMealTimings(h, v, t) PROVE FrontInv'
  <2>1. Chunk(EnsureRestaurant(v) \o Update("restaurant", v, [timings |-> t]))
    BY ChunkEnsure, ChunkUpdate, ChunkCat
  <2>. QED
    BY <1>6, <2>1, StartingChunk DEF UpdateMealTimings
<1>7. CASE OpenMenu(h, v)
    BY <1>7, ChunkEnsure, StartingChunk DEF OpenMenu
<1>8. CASE CreateMenuCategory(h, v)
  <2>1. Chunk(EnsureRestaurant(v) \o Insert("category", Fresh, [vendor |-> v]))
    BY ChunkEnsure, ChunkInsert, ChunkCat
  <2>. QED
    BY <1>8, <2>1, StartingChunk DEF CreateMenuCategory
<1>. QED
    BY <1>1, <1>2, <1>3, <1>4, <1>5, <1>6, <1>7, <1>8 DEF VendorCall

LEMMA ChunkReplace ==
    ASSUME NEW i, NEW what \in {"addons", "variants"}, NEW sent
    PROVE  Chunk(Replace(i, what, sent))
<1>1. PICK q : q = [do |-> "add", id |-> i, what |-> what, row |-> Fresh]
    OBVIOUS
<1>2. q.do = "add" /\ q.what = what
    BY <1>1
<1>3. Chunk(<<q>>)
    BY <1>2, ChunkOne DEF Plain, SetsRestaurant, SetsStore
<1>4. PICK u : u = Update("item", i, [f \in {what} |-> {}])
    OBVIOUS
<1>5. Chunk(u)
  <2>1. "cat" \notin DOMAIN [f \in {what} |-> {}]
    OBVIOUS
  <2>. QED
    BY <1>4, <2>1, ChunkUpdate
<1>6. Chunk(u \o <<q>>) /\ Chunk(u \o <<>>)
    BY <1>3, <1>5, ChunkNone, ChunkCat
<1>. QED
    BY <1>1, <1>4, <1>6, ChunkNone DEF Replace

(* The calls about the menu. *)
LEMMA MenuCalls ==
    ASSUME FrontInv, MCNext, NEW h \in Slots, Free(h), NEW v \in Vendors, MenuCall(h, v)
    PROVE  FrontInv'
<1>1. ASSUME NEW c \in CategoriesOf(v), DeleteMenuCategory(h, v, c) PROVE FrontInv'
    BY <1>1, ChunkDelete, StartingChunk DEF DeleteMenuCategory
<1>2. ASSUME NEW c \in CategoriesOf(v), NEW sent \in {"empty", "some"}, CreateMenuItem(h, v, c, {}, sent, sent)
      PROVE  FrontInv'
  <2>1. Chunk(Insert("item", Fresh, NewItem(c, {})) \o Replace(Fresh, "addons", sent)
              \o Replace(Fresh, "variants", sent))
    BY ChunkNewItem, ChunkReplace, ChunkCat
  <2>. QED
    BY <1>2, <2>1, StartingChunk DEF CreateMenuItem
<1>3. ASSUME NEW i \in MenuOf(v), DeleteMenuItem(h, v, i) \/ DeleteAdminVendorItem(h, v, i)
      PROVE  FrontInv'
    BY <1>3, ChunkDelete, StartingChunk DEF DeleteMenuItem, DeleteAdminVendorItem
<1>4. ASSUME NEW i \in MenuOf(v), NEW fields, NEW addons, NEW variants, "cat" \notin DOMAIN fields,
             UpdateMenuItem(h, v, i, fields, addons, variants)
      PROVE  FrontInv'
  <2>1. Chunk(Update("item", i, fields) \o Replace(i, "addons", addons) \o Replace(i, "variants", variants))
    BY <1>4, ChunkUpdate, ChunkReplace, ChunkCat
  <2>. QED
    BY <1>4, <2>1, StartingChunk DEF UpdateMenuItem
<1>5. ASSUME NEW i \in MenuOf(v), NEW sent \in {"kept", "some"},
             UpdateAdminVendorItem(h, v, i, [on |-> FALSE], "kept", sent)
      PROVE  FrontInv'
  <2>1. PICK f : f = [on |-> FALSE]
    OBVIOUS
  <2>2. "cat" \notin DOMAIN f
    BY <2>1
  <2>3. Chunk(Update("item", i, f) \o Replace(i, "variants", sent) \o Replace(i, "addons", "kept"))
    BY <2>2, ChunkUpdate, ChunkReplace, ChunkCat
  <2>. QED
    BY <1>5, <2>1, <2>3, StartingChunk DEF UpdateAdminVendorItem
<1>6. ASSUME NEW i \in MenuOf(v), NEW slots \in MealTags, UpdateMenuItem(h, v, i, [slots |-> slots], "kept", "kept")
      PROVE  FrontInv'
  <2>1. "cat" \notin DOMAIN [slots |-> slots]
    OBVIOUS
  <2>. QED
    BY <1>4, <1>6, <2>1
<1>7. ASSUME NEW i \in MenuOf(v), NEW sent \in {"empty", "some"}, UpdateMenuItem(h, v, i, [on |-> TRUE], sent, sent)
      PROVE  FrontInv'
  <2>1. "cat" \notin DOMAIN [on |-> TRUE]
    OBVIOUS
  <2>. QED
    BY <1>4, <1>7, <2>1
<1>. QED
    BY <1>1, <1>2, <1>3, <1>5, <1>6, <1>7 DEF MenuCall

(* A query that stands alone in a list. *)
LEMMA ChunkLater ==
    ASSUME NEW q, q.do \in {"ensure", "removeUser"}
    PROVE  Chunk(<<q>>)
BY ChunkOne DEF Plain, SetsStore, SetsRestaurant

(* The admin's calls. *)
LEMMA AdminCalls ==
    ASSUME FrontInv, MCNext, NEW h \in Slots, Free(h), NEW v \in Vendors, AdminCall(h, v)
    PROVE  FrontInv'
<1>1. CASE CreateAdminVendor(h, v, TRUE)
  <2>1. PICK a : a = IF v \in DOMAIN account THEN <<>> ELSE Insert("account", v, NewAccount)
    OBVIOUS
  <2>2. PICK q : q = [do |-> "ensure", id |-> v]
    OBVIOUS
  <2>3. Chunk(a)
    BY <2>1, ChunkNone, ChunkInsert
  <2>4. Chunk(<<q>>)
    BY <2>2, ChunkLater
  <2>5. PICK row : row = NewStore(TRUE)
    OBVIOUS
  <2>6. DOMAIN row = StoreFields
    BY <2>5 DEF NewStore, StoreFields
  <2>7. Chunk(a \o Insert("store", v, row) \o <<q>>)
    BY <2>3, <2>4, <2>6, ChunkNewStore, ChunkCat
  <2>8. Starts(h, "createAdminVendor", a \o Insert("store", v, row) \o <<q>>)
    BY <1>1, <2>1, <2>2, <2>5 DEF CreateAdminVendor
  <2>. QED
    BY <2>7, <2>8, StartingChunk
<1>2. ASSUME NEW b \in BOOLEAN, UpdateAdminVendor(h, v, b) PROVE FrontInv'
  <2>1. Chunk(AdminSetOpen(v, b))
    BY ChunkSwitch DEF AdminSetOpen, SetOpen
  <2>. QED
    BY <1>2, <2>1, StartingChunk DEF UpdateAdminVendor
<1>3. CASE ResetAdminVendorPassword(h, v)
    BY <1>3, ChunkUpdate, StartingChunk DEF ResetAdminVendorPassword
<1>4. CASE ShowInApp(h, v)
  <2>1. PICK f : f = [shown |-> ~store[v].shown]
    OBVIOUS
  <2>2. DOMAIN f = {"shown"}
    BY <2>1
  <2>3. Chunk(Update("store", v, f))
    BY <2>2, ChunkUpdate
  <2>. QED
    BY <1>4, <2>1, <2>3, StartingChunk DEF ShowInApp
<1>5. CASE DeleteAdminVendor(h, v)
  <2>1. PICK a, b, q : /\ a = Update("account", v, [documents |-> FALSE])
                       /\ b = Update("account", v, [signedIn |-> FALSE])
                       /\ q = [do |-> "removeUser", id |-> v, had |-> v \in DOMAIN restaurant]
    OBVIOUS
  <2>2. Chunk(a) /\ Chunk(b)
    BY <2>1, ChunkUpdate
  <2>3. Chunk(<<q>>)
    BY <2>1, ChunkLater
  <2>4. Chunk(a \o b \o <<q>>)
    BY <2>2, <2>3, ChunkCat
  <2>5. Starts(h, "deleteAdminVendor", a \o b \o <<q>>)
    BY <1>5, <2>1 DEF DeleteAdminVendor
  <2>. QED
    BY <2>4, <2>5, StartingChunk
<1>6. CASE AddAdminVendorItem(h, v, "some")
  <2>1. PICK c : Starts(h, "addAdminVendorItem",
                        EnsureRestaurant(v)
                        \o (IF c = Fresh THEN Insert("category", c, [vendor |-> v]) ELSE <<>>)
                        \o Insert("item", Fresh, NewItem(c, {}))
                        \o Replace(Fresh, "variants", "some"))
    BY <1>6 DEF AddAdminVendorItem
  <2>2. PICK a : a = IF c = Fresh THEN Insert("category", c, [vendor |-> v]) ELSE <<>>
    OBVIOUS
  <2>3. Chunk(a)
    BY <2>2, ChunkNone, ChunkInsert
  <2>4. Chunk(EnsureRestaurant(v) \o a \o Insert("item", Fresh, NewItem(c, {})) \o Replace(Fresh, "variants", "some"))
    BY <2>3, ChunkEnsure, ChunkNewItem, ChunkReplace, ChunkCat
  <2>. QED
    BY <2>1, <2>2, <2>4, StartingChunk
<1>. QED
    BY <1>1, <1>2, <1>3, <1>4, <1>5, <1>6 DEF AdminCall

(* The customer's calls. *)
LEMMA CustomerCalls ==
    ASSUME FrontInv, MCNext, NEW h \in Slots, Free(h), NEW v \in Vendors, CustomerCall(h, v)
    PROVE  FrontInv'
<1>1. CASE PublicListRestaurants(h, v)
    BY <1>1, ChunkEnsure, StartingChunk DEF PublicListRestaurants
<1>2. ASSUME NEW i \in MenuOf(v), CreateFoodOrder(h, v, i) PROVE FrontInv'
  <2>1. PICK p, q : p = [do |-> "place", vendor |-> v] /\ q = [do |-> "items", id |-> i]
    OBVIOUS
  <2>2. PICK s : s = <<p, q>>
    OBVIOUS
  <2>3. IsList(s) /\ Len(s) = 2 /\ s[1] = p /\ s[2] = q /\ s # <<>>
    BY <2>2 DEF IsList
  <2>4. p.do = "place" /\ p.vendor = v /\ q.do = "items" /\ q.id = i
    BY <2>1
  <2>5. ~SetsStore(p) /\ ~SetsStore(q) /\ ~SetsRestaurant(p) /\ ~SetsRestaurant(q)
    BY <2>4 DEF SetsStore, SetsRestaurant
  <2>6. \A k \in 1..Len(s) : s[k] = p \/ s[k] = q
    BY <2>3
  <2>7. Opens(s)
    BY <2>5, <2>6 DEF Opens
  <2>8. Paired(s)
    BY <2>3, <2>5, <2>6 DEF Paired
  <2>9. Ordering(s)
    BY <2>3, <2>4 DEF Ordering
  <2>10. Script([what |-> "createFoodOrder", todo |-> s])
    BY <2>3, <2>7, <2>8, <2>9 DEF Script
  <2>11. i \in DOMAIN item /\ VendorOf(i) = v
    BY <1>2 DEF MenuOf, VendorOf
  <2>12. Starts(h, "createFoodOrder", s)
    BY <1>2, <2>1, <2>2 DEF CreateFoodOrder
  <2>. QED
    BY <2>3, <2>4, <2>5, <2>10, <2>11, <2>12, Starting
<1>. QED
    BY <1>1, <1>2 DEF CustomerCall
-----------------------------------------------------------------------------
(* A switch of a restaurant breaks no reference. *)
LEMMA SwitchIsValid ==
    ASSUME IsDb(db), References(db), NEW q, SetsRestaurant(q)
    PROVE  Valid(Apply(db, q), q)
<1>1. q.do = "update" /\ q.table = "restaurant"
    BY DEF SetsRestaurant
<1>2. PICK d : d = Apply(db, q)
    OBVIOUS
<1>3. DOMAIN d.restaurant = DOMAIN db.restaurant
      /\ \A t \in {"account", "store", "category", "item", "orders", "ordered"} : d[t] = db[t]
  <2>1. CASE q.id \notin DOMAIN db.restaurant
    BY <1>1, <1>2, <2>1 DEF Apply
  <2>2. CASE q.id \in DOMAIN db.restaurant
    <3>1. d = [db EXCEPT ![q.table][q.id] = Rewritten(db[q.table][q.id], q.fields)]
      BY <1>1, <1>2, <2>2 DEF Apply
    <3>. QED
      BY <1>1, <3>1 DEF IsDb, Tables
  <2>. QED
    BY <2>1, <2>2
<1>4. References(d)
    BY <1>3 DEF References
<1>. QED
    BY <1>1, <1>2, <1>4 DEF Valid

(* Whose query it is tells who else is at work. *)
LEMMA Acting ==
    ASSUME FrontInv, MCNext, alone', NEW h \in Handlers, call[h].todo # <<>>, NEW t, GoesOn(h, t)
    PROVE  /\ InStep /\ OneBusy'
           /\ \A k \in Handlers \ {h} : call[k] = Idle /\ call'[k] = Idle
<1>1. InStep /\ OneBusy'
    BY Histories DEF FrontInv
<1>2. call[h] # Idle
    BY Busy DEF FrontInv
<1>. QED
    BY <1>1, <1>2, GoesTo DEF InStep, OneBusy, FrontInv

LEMMA QueryWellFormed ==
    ASSUME FrontInv, MCNext, NEW h \in Handlers, Query(h)
    PROVE  WellFormed'
<1> DEFINE q == Doing(h)
<1>1. /\ call[h].todo # <<>> /\ q.do \notin {"removeUser", "ensure"}
      /\ UNCHANGED <<now, cuts>>
      /\ \/ db' = Apply(db, q) /\ Valid(db', q) /\ GoesOn(h, Rest(h))
         \/ GoesOn(h, <<>>) /\ UNCHANGED db
    BY DEF Query
<1>2. /\ WellFormed /\ call[h] # Idle /\ Script(call[h])
      /\ q = call[h].todo[1] /\ Rest(h) = Tail(call[h].todo)
      /\ Len(call[h].todo) \in Nat /\ Len(call[h].todo) > 0
    BY <1>1, Busy DEF FrontInv
<1>3. Plain(q) \/ q.do \in {"place", "items"}
    BY <1>2 DEF Script, Ordering
<1> HIDE DEF q
<1>4. IsDb(db')
    BY <1>1, <1>2, <1>3, Effects DEF Effect, WellFormed
<1>5. ASSUME NEW t, GoesOn(h, t), t = Tail(call[h].todo) \/ t = <<>>
      PROVE  /\ call' = [k \in Handlers |-> call'[k]]
             /\ \A k \in Handlers : call'[k] = Idle \/ Script(call'[k])
             /\ call'[Tick].what # "updateRestaurant"
  <2>1. call'[h] = Idle \/ (call'[h] = [call[h] EXCEPT !.todo = t] /\ t = Tail(call[h].todo) /\ t # <<>>)
    BY <1>2, <1>5, GoesTo
  <2>2. call'[h] = Idle \/ (Script(call'[h]) /\ call'[h].what = call[h].what)
    <3>1. CASE call'[h] = Idle
      BY <3>1
    <3>2. CASE call'[h] = [call[h] EXCEPT !.todo = t] /\ t = Tail(call[h].todo) /\ t # <<>>
      <4>1. Script([call[h] EXCEPT !.todo = Tail(call[h].todo)])
        BY <1>2, <3>2, GoingOn
      <4>2. [call[h] EXCEPT !.todo = Tail(call[h].todo)].what = call[h].what
        BY <1>2, Rewrites
      <4>. QED
        BY <3>2, <4>1, <4>2
    <3>. QED
      BY <2>1, <3>1, <3>2
  <2>3. Idle.what # "updateRestaurant" /\ Tick \in Handlers
    BY DEF Idle, Handlers
  <2>4. \A k \in Handlers : call'[k] = Idle \/ Script(call'[k])
    BY <1>2, <1>5, <2>2, GoesTo DEF WellFormed
  <2>5. call'[Tick].what # "updateRestaurant"
    BY <1>2, <1>5, <2>2, <2>3, GoesTo DEF WellFormed
  <2>. QED
    BY <1>2, <1>5, <2>4, <2>5, GoesTo
<1>6. /\ call' = [k \in Handlers |-> call'[k]]
      /\ \A k \in Handlers : call'[k] = Idle \/ Script(call'[k])
      /\ call'[Tick].what # "updateRestaurant"
    BY <1>1, <1>2, <1>5
<1>. QED
    BY <1>1, <1>2, <1>4, <1>6, Histories DEF WellFormed

(* A query that fails while nothing else is going on. *)
LEMMA QueryFails ==
    ASSUME FrontInv, MCNext, alone', NEW h \in Handlers, Query(h), ~Valid(Apply(db, Doing(h)), Doing(h))
    PROVE  InStep'
<1>1. /\ call[h].todo # <<>> /\ GoesOn(h, <<>>) /\ UNCHANGED <<db, now>>
    BY DEF Query
<1>2. /\ InStep /\ OneBusy'
      /\ \A k \in Handlers \ {h} : call[k] = Idle /\ call'[k] = Idle
      /\ call'[h] = Idle
    BY <1>1, Acting, GoesTo DEF FrontInv
<1>3. \A k \in Handlers : call'[k] = Idle
    BY <1>2
<1>4. Doing(h) = call[h].todo[1]
    BY <1>1, Busy DEF FrontInv
<1>5. ~SetsRestaurant(call[h].todo[1])
    BY <1>2, <1>4, SwitchIsValid DEF FrontInv, WellFormed, InStep
<1>6. References(db)' /\ OrdersHold'
    BY <1>1, <1>2 DEF InStep, References, OrdersHold, VendorOf, item, category, orders, ordered
<1>7. \A k \in Handlers : Right(call[k])'
    BY <1>3 DEF Right, Awaits
<1>8. \A v \in DOMAIN restaurant' \ switched' : Agrees(v)'
  <2> SUFFICES ASSUME NEW v \in DOMAIN restaurant' \ switched', store'[v].isOpen
               PROVE  restaurant'[v].isOpen
    BY DEF Agrees
  <2>1. \A k \in Handlers : ~WritesOpen(k, "restaurant", v)
    BY <1>2, <1>4, <1>5 DEF WritesOpen, SetsRestaurant
  <2>2. v \notin switched
    BY <2>1, Histories DEF FrontInv, WellFormed
  <2>3. Agrees(v) /\ store[v].isOpen
    BY <1>1, <1>2, <2>2 DEF InStep, restaurant, store
  <2>4. \A k \in Handlers : ~Awaits(call[k])
    BY <1>2, <1>5 DEF Awaits
  <2>. QED
    BY <1>1, <2>3, <2>4 DEF Agrees, restaurant
<1>9. \A v \in forced' : Stays(v)'
    BY <1>1, StayClosed
<1>10. \A k \in 1..Len(call'[Tick].todo) : Ticks(call[Tick].todo[k])'
  <2>1. call'[Tick].todo = <<>>
    BY <1>3 DEF Idle, Handlers
  <2>. QED
    BY <2>1, ListNone
<1>. QED
    BY <1>2, <1>6, <1>7, <1>8, <1>9, <1>10 DEF InStep

(* A query that succeeds while nothing else is going on: the orders ... *)
LEMMA QueryKeepsOrders ==
    ASSUME FrontInv, InStep, NEW h \in Handlers, call[h].todo # <<>>, Right(call[h]),
           Effect(db', Doing(h)), References(db')
    PROVE  OrdersHold'
<1> DEFINE q == Doing(h)
<1>1. q = call[h].todo[1] /\ call[h] # Idle
    BY Busy DEF FrontInv
<1>2. Effect(db', q)
    OBVIOUS
<1>3. References(db) /\ OrdersHold
    BY DEF InStep
<1> HIDE DEF q
<1>4. ASSUME NEW i \in DOMAIN db.item, i \in DOMAIN db'.item
      PROVE  VendorOf(i)' = VendorOf(i)
  <2>1. db'.item[i].cat = db.item[i].cat /\ db.item[i].cat \in DOMAIN db.category
        /\ db'.item[i].cat \in DOMAIN db'.category
    BY <1>2, <1>3, <1>4 DEF Effect, References
  <2>2. db'.category[db'.item[i].cat] = db.category[db.item[i].cat]
    BY <1>2, <2>1 DEF Effect
  <2>. QED
    BY <2>2 DEF VendorOf, item, category
<1> SUFFICES ASSUME NEW i \in db'.ordered
             PROVE  VendorOf(i)' \in db'.orders
    BY DEF OrdersHold, ordered, orders
<1>5. db.orders \subseteq db'.orders
    BY <1>2 DEF Effect
<1>6. i \in DOMAIN db'.item
    BY DEF References
<1>7. CASE i \in db.ordered
  <2>1. i \in DOMAIN db.item /\ VendorOf(i) \in db.orders
    BY <1>3, <1>7 DEF References, OrdersHold, ordered, orders
  <2>. QED
    BY <1>4, <1>5, <1>6, <2>1
<1>8. CASE i \notin db.ordered
  <2>1. q.do = "items" /\ q.id = i
    BY <1>2, <1>8 DEF Effect
  <2>2. i \in DOMAIN db.item /\ VendorOf(i) \in db.orders
    BY <1>1, <2>1 DEF Right, item, orders
  <2>. QED
    BY <1>4, <1>5, <1>6, <2>2
<1>. QED
    BY <1>7, <1>8

(* ... and what comes next. *)
LEMMA QueryGoesOnRight ==
    ASSUME FrontInv, InStep, NEW h \in Handlers, call[h].todo # <<>>, GoesOn(h, Rest(h)),
           Effect(db', Doing(h)), References(db')
    PROVE  Right(call[h])'
<1>0. PICK q, s, t, c : q = Doing(h) /\ s = call[h].todo /\ t = Tail(s) /\ c = call'[h]
    OBVIOUS
<1>1. q = s[1] /\ call[h] # Idle /\ Script(call[h]) /\ IsList(s) /\ Rest(h) = t /\ s # <<>>
    BY <1>0, Busy DEF FrontInv
<1>2. Effect(db', q) /\ Right(call[h])
    BY <1>0 DEF InStep
<1>3. CASE t = <<>>
  <2>1. call'[h] = Idle
    BY <1>0, <1>1, <1>3, GoesTo DEF FrontInv
  <2>. QED
    BY <2>1 DEF Right, Awaits
<1>4. CASE t # <<>>
  <2>2. c.what = call[h].what /\ c.todo = t
    BY <1>0, <1>1, <1>4, GoesOnWith DEF FrontInv
  <2>3. Len(s) \in Nat /\ Len(s) > 1 /\ t[1] = s[2]
    <3>1. IsList(t) /\ Len(t) = Len(s) - 1 /\ Len(s) \in Nat /\ Len(s) > 0
          /\ \A k \in 1..Len(s) - 1 : t[k] = s[k + 1]
      BY <1>0, <1>1, ListTail
    <3>2. Len(t) # 0
      BY <1>4, <3>1, ListNone
    <3>3. 1 \in 1..Len(s) - 1
      BY <3>1, <3>2
    <3>. QED
      BY <3>1, <3>3
  <2>4. ASSUME Awaits(c), c.todo[1].id \in DOMAIN store'
        PROVE  store'[c.todo[1].id].isOpen = c.todo[1].fields.isOpen
    <3>1. SetsRestaurant(s[2]) /\ call[h].what # "updateRestaurant" /\ 2 \in 2..Len(s)
      BY <2>2, <2>3, <2>4 DEF Awaits
    <3>2. Follows(s[2 - 1], s[2])
      BY <1>0, <1>1, <3>1 DEF Script, Paired
    <3>3. SetsStore(q) /\ q.id = s[2].id /\ q.fields.isOpen = s[2].fields.isOpen
      BY <1>1, <3>2 DEF Follows
    <3>4. DOMAIN db'.store = DOMAIN db.store
      BY <1>2, <3>3 DEF Effect, SetsStore
    <3>5. db'.store[q.id].isOpen = q.fields.isOpen
      BY <1>2, <2>2, <2>3, <2>4, <3>3, <3>4 DEF Effect, store
    <3>. QED
      BY <2>2, <2>3, <3>3, <3>5 DEF store
  <2>5. ASSUME s[2].do \in {"place", "items"}
        PROVE  s[1].do = "place" /\ s[2].do = "items"
    <3>1. ~Plain(s[2]) /\ 2 \in 1..Len(s)
      BY <2>3, <2>5 DEF Plain
    <3>2. Ordering(s)
      BY <1>0, <1>1, <3>1 DEF Script
    <3>. QED
      BY <2>3, <3>2 DEF Ordering
  <2>6. ASSUME s[2].do = "items"
        PROVE  s[2].id \in DOMAIN item' /\ VendorOf(s[2].id)' \in orders'
    <3>1. q.do = "place"
      BY <1>1, <2>5, <2>6
    <3>2. s[2].id \in DOMAIN item /\ VendorOf(s[2].id) = q.vendor
      BY <1>0, <1>1, <1>2, <3>1 DEF Right
    <3>3. db'.item = db.item /\ db'.category = db.category /\ q.vendor \in db'.orders
      BY <1>2, <3>1 DEF Effect
    <3>. QED
      BY <3>2, <3>3 DEF VendorOf, item, category, orders
  <2>7. s[2].do # "place"
    BY <2>5
  <2>8. c.todo[1] = s[2]
    BY <2>2, <2>3
  <2>. QED
    BY <1>0, <2>4, <2>6, <2>7, <2>8 DEF Right
<1>. QED
    BY <1>3, <1>4
(* ... the two tables ... *)
LEMMA QueryKeepsAgreement ==
    ASSUME FrontInv, MCNext, alone', InStep, NEW h \in Handlers, call[h].todo # <<>>, GoesOn(h, Rest(h)),
           Effect(db', Doing(h)), References(db')
    PROVE  \A v \in DOMAIN restaurant' \ switched' : Agrees(v)'
<1>0. PICK q, s, t, w : q = Doing(h) /\ s = call[h].todo /\ t = Tail(s) /\ w = call[h].what
    OBVIOUS
<1>1. q = s[1] /\ call[h] # Idle /\ Script(call[h]) /\ IsList(s) /\ Rest(h) = t /\ s # <<>>
    BY <1>0, Busy DEF FrontInv
<1>2. /\ Effect(db', q) /\ Right(call[h]) /\ References(db)
      /\ \A k \in Handlers \ {h} : call[k] = Idle /\ call'[k] = Idle
    BY <1>0, Acting DEF InStep
<1>3. /\ Len(s) \in Nat /\ Len(s) > 0 /\ 1 \in 1..Len(s)
      /\ Len(t) = Len(s) - 1 /\ IsList(t) /\ \A k \in 1..Len(s) - 1 : t[k] = s[k + 1]
    BY <1>0, <1>1, ListTail
<1> SUFFICES ASSUME NEW v \in DOMAIN db'.restaurant, v \notin switched', db'.store[v].isOpen
             PROVE  \/ db'.restaurant[v].isOpen
                    \/ \E k \in Handlers : Awaits(call'[k]) /\ call'[k].todo[1].id = v
    BY DEF Agrees, Awaits, store, restaurant
<1>4. v \in DOMAIN db'.store
    BY DEF References
<1>5. CASE v \notin DOMAIN db.restaurant
    BY <1>2, <1>5 DEF Effect
<1>6. CASE v \in DOMAIN db.restaurant
  <2>1. v \in DOMAIN db.store
    BY <1>2, <1>6 DEF References
  <2>2. /\ db'.store[v].isOpen = IF SetsStore(q) /\ q.id = v THEN q.fields.isOpen ELSE db.store[v].isOpen
        /\ db'.restaurant[v].isOpen = IF SetsRestaurant(q) /\ q.id = v THEN q.fields.isOpen
                                      ELSE db.restaurant[v].isOpen
    BY <1>2, <1>6, <2>1 DEF Effect
  <2>3. call'[h] # call[h]
    <3>1. CASE t = <<>>
      BY <1>1, <3>1, GoesTo DEF FrontInv
    <3>2. CASE t # <<>>
      <4>1. call'[h].todo = t
        BY <1>0, <1>1, <3>2, GoesOnWith DEF FrontInv
      <4>2. t # s
        BY <1>3
      <4>. QED
        BY <1>0, <4>1, <4>2
    <3>. QED
      BY <3>1, <3>2
  <2>4. CASE SetsRestaurant(q) /\ q.id = v
    <3>1. WritesOpen(h, "restaurant", v)
      BY <1>0, <1>1, <2>3, <2>4 DEF WritesOpen, SetsRestaurant
    <3>2. w # "updateRestaurant"
      <4>1. CASE h = Tick
        BY <1>0, <4>1 DEF FrontInv, WellFormed
      <4>2. CASE h \in Slots /\ w = "updateRestaurant"
        <5>1. Alone(s)
          BY <1>0, <1>1, <4>2 DEF Script
        <5>2. v \in Vendors
          BY <1>1, <1>3, <2>4, <5>1 DEF Alone
        <5>. QED
          BY <1>0, <3>1, <4>2, <5>2, Histories
      <4>. QED
        BY <4>1, <4>2 DEF Handlers
    <3>3. Awaits(call[h]) /\ call[h].todo[1].id = v /\ call[h].todo[1].fields.isOpen = q.fields.isOpen
      BY <1>0, <1>1, <2>4, <3>2 DEF Awaits
    <3>4. db.store[v].isOpen = q.fields.isOpen
      BY <1>2, <2>1, <3>3 DEF Right, store
    <3>5. ~SetsStore(q)
      BY <2>4 DEF SetsStore, SetsRestaurant
    <3>. QED
      BY <2>2, <2>4, <3>4, <3>5
  <2>5. CASE SetsStore(q) /\ q.id = v
    <3>1. 2 \in 1..Len(s) /\ Follows(s[1], s[2])
      <4>1. Opens(s) /\ s[1].fields.isOpen /\ SetsStore(s[1])
        BY <1>0, <1>1, <2>2, <2>5 DEF Script
      <4>2. 1 + 1 \in 1..Len(s) /\ Follows(s[1], s[1 + 1])
        BY <1>3, <4>1 DEF Opens
      <4>. QED
        BY <4>2
    <3>2. w # "updateRestaurant"
      BY <1>0, <1>1, <1>3, <2>5 DEF Script, Alone
    <3>3. t # <<>> /\ t[1] = s[2]
      <4>1. 1 \in 1..Len(s) - 1 /\ 1 + 1 = 2 /\ Len(t) # 0
        BY <1>3, <3>1
      <4>2. t[1] = s[1 + 1]
        BY <1>3, <4>1
      <4>. QED
        BY <4>1, <4>2, ListNone
    <3>4. call'[h].what = w /\ call'[h].todo = t /\ call'[h] # Idle
      BY <1>0, <1>1, <3>3, GoesOnWith DEF FrontInv
    <3>7. Awaits(call'[h]) /\ call'[h].todo[1].id = v
      BY <1>1, <2>5, <3>1, <3>2, <3>3, <3>4 DEF Awaits, Follows
    <3>. QED
      BY <3>7
  <2>6. CASE ~(SetsRestaurant(q) /\ q.id = v) /\ ~(SetsStore(q) /\ q.id = v)
    <3>1. \A k \in Handlers : ~WritesOpen(k, "restaurant", v)
      BY <1>0, <1>2, <2>6 DEF WritesOpen, SetsRestaurant
    <3>2. v \notin switched
      BY <3>1, Histories DEF FrontInv, WellFormed
    <3>3. Agrees(v) /\ db.store[v].isOpen
      BY <1>6, <2>2, <2>6, <3>2 DEF InStep, restaurant
    <3>4. \A k \in Handlers : ~(Awaits(call[k]) /\ call[k].todo[1].id = v)
      BY <1>0, <1>1, <1>2, <2>6 DEF Awaits
    <3>. QED
      BY <2>2, <2>6, <3>3, <3>4 DEF Agrees, restaurant, store
  <2>. QED
    BY <2>4, <2>5, <2>6
<1>. QED
    BY <1>5, <1>6

(* ... and the stores that are to stay closed. *)
LEMMA QueryKeepsClosed ==
    ASSUME FrontInv, MCNext, alone', InStep, NEW h \in Handlers, call[h].todo # <<>>, GoesOn(h, Rest(h)),
           Effect(db', Doing(h)), now' = now
    PROVE  /\ \A v \in forced' : Stays(v)'
           /\ \A k \in 1..Len(call'[Tick].todo) : Ticks(call[Tick].todo[k])'
<1>0. PICK q, s, t : q = Doing(h) /\ s = call[h].todo /\ t = Tail(s)
    OBVIOUS
<1>1. q = s[1] /\ call[h] # Idle /\ Script(call[h]) /\ IsList(s) /\ Rest(h) = t /\ s # <<>>
    BY <1>0, Busy DEF FrontInv
<1>2. /\ Effect(db', q)
      /\ \A k \in Handlers \ {h} : call[k] = Idle /\ call'[k] = Idle
      /\ forced \subseteq DOMAIN db.store
      /\ \A v \in forced : Stays(v)
    BY <1>0, Acting DEF InStep, FrontInv, WellFormed, store
<1>3. /\ Len(s) \in Nat /\ Len(s) > 0 /\ 1 \in 1..Len(s)
      /\ Len(t) = Len(s) - 1 /\ IsList(t) /\ \A k \in 1..Len(s) - 1 : t[k] = s[k + 1]
    BY <1>0, <1>1, ListTail
<1>4. call'[h] # call[h] /\ (t # <<>> => call'[h].todo = t)
  <2>1. CASE t = <<>>
    BY <1>1, <2>1, GoesTo DEF FrontInv
  <2>2. CASE t # <<>>
    <3>1. call'[h].todo = t
      BY <1>0, <1>1, <2>2, GoesOnWith DEF FrontInv
    <3>2. t # s
      BY <1>3
    <3>3. call'[h] # call[h]
      BY <1>0, <3>1, <3>2
    <3>. QED
      BY <3>1, <3>3
  <2>. QED
    BY <2>1, <2>2
<1>5. h = Tick => \A k \in 1..Len(s) : Ticks(s[k])
    BY <1>0 DEF InStep
<1>6. ASSUME NEW v \in forced', v \in forced, \A k \in Slots : ~WritesOpen(k, "store", v)
      PROVE  /\ Stays(v)'
             /\ h = Tick => db'.store[v].hours = db.store[v].hours
  <2>1. Stays(v) /\ v \in DOMAIN db.store
    BY <1>2, <1>6
  <2>2. CASE SetsStore(q) /\ q.id = v
    <3>1. WritesOpen(h, "store", v)
      BY <1>0, <1>1, <1>4, <2>2 DEF WritesOpen, SetsStore
    <3>2. h = Tick
      BY <1>6, <3>1 DEF Handlers
    <3>3. Ticks(q)
      BY <1>1, <1>3, <1>5, <3>2
    <3>4. DOMAIN q.fields = {"isOpen", "state"} /\ ~q.fields.isOpen /\ ~IsWithinSchedule(db.store[v].hours, now)
      BY <1>6, <2>2, <3>3 DEF Ticks, SetsStore, store
    <3>5. db'.store[v].isOpen = q.fields.isOpen /\ db'.store[v].hours = db.store[v].hours
      BY <1>2, <2>1, <2>2, <3>4 DEF Effect
    <3>. QED
      BY <3>4, <3>5 DEF Stays, store
  <2>3. CASE ~(SetsStore(q) /\ q.id = v)
    <3>1. /\ db'.store[v].isOpen = db.store[v].isOpen
          /\ db'.store[v].hours = db.store[v].hours /\ db'.store[v].state = db.store[v].state
      BY <1>2, <2>1, <2>3 DEF Effect
    <3>. QED
      BY <2>1, <3>1 DEF Stays, store
  <2>. QED
    BY <2>2, <2>3
<1>7. \A v \in forced' : Stays(v)'
    BY <1>6, Histories, ClosedByHand
<1>8. ASSUME NEW k \in 1..Len(call'[Tick].todo)
      PROVE  Ticks(call[Tick].todo[k])'
  <2>1. h = Tick /\ t # <<>>
    <3>1. call'[Tick] # Idle
      BY <1>8, ListNone DEF Idle
    <3>2. h = Tick
      BY <1>2, <3>1 DEF Handlers
    <3>3. t # <<>>
      BY <1>1, <3>1, <3>2, GoesTo DEF FrontInv
    <3>. QED
      BY <3>2, <3>3
  <2>2. PICK r : r = call'[Tick].todo[k]
    OBVIOUS
  <2>3. k \in 1..Len(s) - 1 /\ k + 1 \in 1..Len(s) /\ r = s[k + 1]
    BY <1>3, <1>4, <1>8, <2>1, <2>2
  <2>4. Ticks(r)
    BY <1>5, <2>1, <2>3
  <2>5. ASSUME r.table = "store", r.id \in forced'
        PROVE  ~r.fields.isOpen /\ ~IsWithinSchedule(db'.store[r.id].hours, now')
    <3>1. \A m \in Slots : ~WritesOpen(m, "store", r.id)
      BY <1>2, <2>1, StorefrontAssumption DEF WritesOpen, Handlers
    <3>2. r.id \in forced
      BY <2>5, <3>1, Histories
    <3>3. ~r.fields.isOpen /\ ~IsWithinSchedule(db.store[r.id].hours, now)
      BY <2>4, <2>5, <3>2 DEF Ticks, store
    <3>4. db'.store[r.id].hours = db.store[r.id].hours
      BY <1>6, <2>1, <2>5, <3>1, <3>2
    <3>. QED
      BY <3>3, <3>4
  <2>6. Ticks(r)'
    BY <2>4, <2>5 DEF Ticks, store
  <2>. QED
    BY <2>2, <2>6
<1>. QED
    BY <1>7, <1>8

LEMMA QuerySucceeds ==
    ASSUME FrontInv, MCNext, alone', NEW h \in Handlers, Query(h), Valid(Apply(db, Doing(h)), Doing(h))
    PROVE  InStep'
<1>1. /\ call[h].todo # <<>> /\ Doing(h).do \notin {"removeUser", "ensure"}
      /\ GoesOn(h, Rest(h)) /\ db' = Apply(db, Doing(h)) /\ now' = now
    BY DEF Query
<1>2. /\ InStep /\ OneBusy' /\ IsDb(db) /\ Script(call[h]) /\ Doing(h) = call[h].todo[1]
      /\ \A k \in Handlers \ {h} : call[k] = Idle /\ call'[k] = Idle
      /\ Len(call[h].todo) \in Nat /\ Len(call[h].todo) > 0
    BY <1>1, Acting, Busy DEF FrontInv, WellFormed
<1>3. References(db')
    BY <1>1 DEF Valid
<1>4. Effect(db', Doing(h))
  <2>1. PICK q, d : q = Doing(h) /\ d = db'
    OBVIOUS
  <2>2. Plain(q) \/ q.do \in {"place", "items"}
    BY <1>2, <2>1 DEF Script, Ordering
  <2>3. Effect(d, q)
    BY <1>1, <1>2, <2>1, <2>2, Effects
  <2>. QED
    BY <2>1, <2>3
<1>5. \A k \in Handlers : Right(call[k])'
  <2>1. Right(call[h])'
    BY <1>1, <1>2, <1>3, <1>4, QueryGoesOnRight
  <2>2. ASSUME NEW k \in Handlers, k # h PROVE Right(call[k])'
    BY <1>2, <2>2 DEF Right, Awaits
  <2>. QED
    BY <2>1, <2>2
<1>6. OrdersHold'
    BY <1>1, <1>2, <1>3, <1>4, QueryKeepsOrders DEF InStep
<1>7. \A v \in DOMAIN restaurant' \ switched' : Agrees(v)'
    BY <1>1, <1>2, <1>3, <1>4, QueryKeepsAgreement
<1>8. /\ \A v \in forced' : Stays(v)'
      /\ \A k \in 1..Len(call'[Tick].todo) : Ticks(call[Tick].todo[k])'
    BY <1>1, <1>2, <1>4, QueryKeepsClosed
<1>. QED
    BY <1>2, <1>3, <1>5, <1>6, <1>7, <1>8 DEF InStep, References

LEMMA Queries ==
    ASSUME FrontInv, MCNext, NEW h \in Handlers, Query(h)
    PROVE  FrontInv'
BY QueryWellFormed, QueryFails, QuerySucceeds DEF FrontInv
-----------------------------------------------------------------------------
(* A step of a call that is not a query: it goes on with what may stand    *)
(* anywhere, and no row changes that stays.                                *)
LEMMA Continuing ==
    ASSUME FrontInv, MCNext, NEW h \in Slots, call[h].todo # <<>>, Doing(h).do \in {"ensure", "removeUser"},
           NEW t, GoesOn(h, t), Chunk(t), UNCHANGED <<now, cuts>>,
           IsDb(db'),
           \A v \in DOMAIN db'.store : v \in DOMAIN db.store /\ db'.store[v] = db.store[v],
           \A v \in DOMAIN db'.restaurant : v \in DOMAIN db.restaurant /\ db'.restaurant[v] = db.restaurant[v],
           InStep => References(db') /\ OrdersHold'
    PROVE  FrontInv'
<1>1. h \in Handlers /\ Tick \in Handlers /\ h # Tick /\ WellFormed
    BY StorefrontAssumption DEF Handlers, FrontInv
<1>2. PICK c, s, q : c = call[h] /\ s = c.todo /\ q = s[1]
    OBVIOUS
<1>3. /\ c # Idle /\ Script(c) /\ IsList(s) /\ Doing(h) = q /\ Len(s) \in Nat /\ Len(s) > 0
      /\ q.do \in {"ensure", "removeUser"} /\ 1 \in 1..Len(s)
    BY <1>1, <1>2, Busy
<1>4. c.what \notin {"createFoodOrder", "updateRestaurant"}
    BY <1>2, <1>3 DEF Script, Ordering, Alone
<1>5. ~SetsRestaurant(q) /\ ~SetsStore(q)
    BY <1>3 DEF SetsRestaurant, SetsStore
<1>6. /\ call' = [k \in Handlers |-> call'[k]]
      /\ \A k \in Handlers \ {h} : call'[k] = call[k]
      /\ t = <<>> => call'[h] = Idle
    BY <1>1, GoesTo
<1>7. t # <<>> => /\ call'[h].what = c.what /\ call'[h].todo = t /\ call'[h] # Idle
                  /\ DOMAIN call'[h] = {"what", "todo"}
  <2> SUFFICES ASSUME t # <<>>
               PROVE  /\ call'[h].what = c.what /\ call'[h].todo = t /\ call'[h] # Idle
                      /\ DOMAIN call'[h] = {"what", "todo"}
    OBVIOUS
  <2>1. call'[h] = [c EXCEPT !.todo = t] /\ call'[h].what = c.what /\ call'[h].todo = t /\ call'[h] # Idle
    BY <1>1, <1>2, GoesOnWith
  <2>. QED
    BY <1>3, <2>1, Rewrites
<1>8. call'[h] = Idle \/ Script(call'[h])
  <2>1. CASE t = <<>>
    BY <1>6, <2>1
  <2>2. CASE t # <<>>
    <3>1. PICK o : o = call'[h]
      OBVIOUS
    <3>2. o.what = c.what /\ o.todo = t /\ DOMAIN o = {"what", "todo"}
      BY <1>7, <2>2, <3>1
    <3>3. Script(o)
      BY <1>4, <2>2, <3>2 DEF Script, Chunk
    <3>. QED
      BY <3>1, <3>3
  <2>. QED
    BY <2>1, <2>2
<1>9. WellFormed'
    BY <1>1, <1>6, <1>8, Histories DEF WellFormed
<1>10. \A k \in Handlers : \A tab, v : ~WritesOpen(k, tab, v)
    BY <1>2, <1>3, <1>6 DEF WritesOpen
<1>11. ASSUME alone' PROVE InStep'
  <2>1. InStep /\ OneBusy' /\ \A k \in Handlers \ {h} : call[k] = Idle /\ call'[k] = Idle
    BY <1>1, <1>11, Acting
  <2>2. References(db)' /\ OrdersHold'
    BY <2>1
  <2>3. Right(call[h])'
    <3>1. CASE t = <<>>
      BY <1>6, <3>1 DEF Right, Awaits
    <3>2. CASE t # <<>>
      <4>1. 1 \in 1..Len(t)
        BY <3>2, ListTail DEF Chunk
      <4>2. ~SetsRestaurant(t[1]) /\ t[1].do \notin {"place", "items"}
        BY <4>1 DEF Chunk, Plain
      <4>. QED
        BY <1>7, <3>2, <4>2 DEF Right, Awaits
    <3>. QED
      BY <3>1, <3>2
  <2>4. \A k \in Handlers : Right(call[k])'
    <3>1. ASSUME NEW k \in Handlers, k # h PROVE Right(call[k])'
      BY <2>1, <3>1 DEF Right, Awaits
    <3>. QED
      BY <2>3, <3>1
  <2>5. \A v \in DOMAIN restaurant' \ switched' : Agrees(v)'
    <3> SUFFICES ASSUME NEW v \in DOMAIN db'.restaurant, v \notin switched', db'.store[v].isOpen
                 PROVE  db'.restaurant[v].isOpen
      BY DEF Agrees, store, restaurant
    <3>1. v \in DOMAIN db'.store
      BY <2>2 DEF References
    <3>2. v \notin switched
      BY <1>1, <1>10, Histories DEF WellFormed
    <3>3. v \in DOMAIN db.restaurant /\ Agrees(v) /\ db.store[v].isOpen
      BY <2>1, <3>1, <3>2 DEF InStep, restaurant, store
    <3>4. \A k \in Handlers : ~Awaits(call[k])
      BY <1>2, <1>5, <2>1 DEF Awaits
    <3>. QED
      BY <3>3, <3>4 DEF Agrees, restaurant, store
  <2>6. \A v \in forced' : Stays(v)'
    <3> SUFFICES ASSUME NEW v \in forced' PROVE Stays(v)'
      OBVIOUS
    <3>1. v \in forced /\ v \in DOMAIN db'.store
      BY <1>1, <1>10, Histories DEF Handlers, store
    <3>2. Stays(v)
      BY <2>1, <3>1 DEF InStep
    <3>. QED
      BY <3>1, <3>2 DEF Stays, store
  <2>7. call'[Tick].todo = <<>>
    BY <1>1, <2>1 DEF Idle
  <2>8. \A k \in 1..Len(call'[Tick].todo) : Ticks(call[Tick].todo[k])'
    BY <2>7, ListNone
  <2>. QED
    BY <2>1, <2>2, <2>4, <2>5, <2>6, <2>8 DEF InStep
<1>. QED
    BY <1>9, <1>11 DEF FrontInv

(* What is left after such a step may stand anywhere. *)
LEMMA RestIsChunk ==
    ASSUME WellFormed, NEW h \in Handlers, call[h].todo # <<>>, Doing(h).do \in {"ensure", "removeUser"}
    PROVE  Chunk(Rest(h))
<1>1. PICK c, s, t : c = call[h] /\ s = c.todo /\ t = Tail(s)
    OBVIOUS
<1>2. /\ c # Idle /\ Script(c) /\ IsList(s) /\ s # <<>> /\ Rest(h) = t
      /\ s[1].do \in {"ensure", "removeUser"}
    BY <1>1, Busy
<1>3. /\ IsList(t) /\ Len(t) = Len(s) - 1 /\ Len(s) \in Nat /\ Len(s) > 0
      /\ \A k \in 1..Len(s) - 1 : t[k] = s[k + 1]
    BY <1>1, <1>2, ListTail
<1>4. c.what \notin {"createFoodOrder", "updateRestaurant"}
    BY <1>1, <1>2, <1>3 DEF Script, Ordering, Alone
<1>5. Opens(s) /\ Paired(s) /\ \A k \in 1..Len(s) : Plain(s[k])
    BY <1>1, <1>2, <1>4 DEF Script
<1>6. CASE t = <<>>
    BY <1>2, <1>6, ChunkNone
<1>7. CASE t # <<>>
  <2>1. PICK e : e = [c EXCEPT !.todo = t]
    OBVIOUS
  <2>2. Script(e) /\ e.todo = t /\ e.what = c.what
    BY <1>1, <1>2, <1>7, <2>1, GoingOn, Rewrites
  <2>3. Opens(t) /\ Paired(t) /\ \A k \in 1..Len(t) : Plain(t[k])
    BY <1>4, <2>2 DEF Script
  <2>4. Len(t) > 0 => ~SetsRestaurant(t[1])
    <3> SUFFICES ASSUME Len(t) > 0, SetsRestaurant(t[1]) PROVE FALSE
      OBVIOUS
    <3>1. 1 \in 1..Len(s) - 1 /\ 2 \in 2..Len(s) /\ 1 + 1 = 2 /\ 2 - 1 = 1
      BY <1>3
    <3>2. t[1] = s[2]
      BY <1>3, <3>1
    <3>3. Follows(s[1], s[2])
      BY <1>5, <3>1, <3>2 DEF Paired
    <3>. QED
      BY <1>2, <3>3 DEF Follows, SetsStore
  <2>. QED
    BY <1>2, <1>3, <2>3, <2>4 DEF Chunk
<1>. QED
    BY <1>6, <1>7

LEMMA Ensures ==
    ASSUME FrontInv, MCNext, NEW h \in Slots, Ensure(h)
    PROVE  FrontInv'
<1>1. /\ call[h].todo # <<>> /\ Doing(h).do = "ensure"
      /\ GoesOn(h, EnsureRestaurant(Doing(h).id) \o Rest(h))
      /\ UNCHANGED <<db, now, cuts>> /\ h \in Handlers
    BY DEF Ensure, Handlers
<1>2. Chunk(EnsureRestaurant(Doing(h).id) \o Rest(h))
    BY <1>1, RestIsChunk, ChunkEnsure, ChunkCat DEF FrontInv
<1>3. IsDb(db') /\ (InStep => References(db') /\ OrdersHold')
    BY <1>1 DEF FrontInv, WellFormed, IsDb, InStep, References, OrdersHold, VendorOf,
                item, category, orders, ordered
<1>. QED
    BY <1>1, <1>2, <1>3, Continuing

LEMMA RemovesUser ==
    ASSUME FrontInv, MCNext, NEW h \in Slots, RemoveUser(h)
    PROVE  FrontInv'
<1>1. PICK v : v = Doing(h).id
    OBVIOUS
<1>2. /\ call[h].todo # <<>> /\ Doing(h).do = "removeUser" /\ h \in Handlers
      /\ UNCHANGED <<now, cuts>>
      /\ \/ v \notin orders /\ db' = WithoutAccount(db, v) /\ GoesOn(h, Rest(h))
         \/ GoesOn(h, Closing(v, Doing(h).had)) /\ UNCHANGED db
    BY <1>1 DEF RemoveUser, Handlers
<1>3. CASE v \notin orders /\ db' = WithoutAccount(db, v) /\ GoesOn(h, Rest(h))
  <2>1. Chunk(Rest(h))
    BY <1>2, RestIsChunk DEF FrontInv
  <2>2. PICK e : e = db'
    OBVIOUS
  <2>3. IsDb(db) /\ e = WithoutAccount(db, v)
    BY <1>3, <2>2 DEF FrontInv, WellFormed
  <2>4. /\ IsDb(e)
        /\ e.orders = db.orders /\ e.ordered = db.ordered
        /\ \A t \in {"account", "store", "restaurant"} :
             DOMAIN e[t] = DOMAIN db[t] \ {v} /\ \A w \in DOMAIN e[t] : e[t][w] = db[t][w]
        /\ DOMAIN e.category = {c \in DOMAIN db.category : db.category[c].vendor # v}
        /\ \A c \in DOMAIN e.category : e.category[c] = db.category[c]
        /\ DOMAIN e.item = {i \in DOMAIN db.item :
                              db.item[i].cat \in DOMAIN db.category => db.category[db.item[i].cat].vendor # v}
        /\ \A i \in DOMAIN e.item : e.item[i] = db.item[i]
    BY <2>3, AccountGone
  <2>5. /\ DOMAIN e.account = DOMAIN db.account \ {v}
        /\ DOMAIN e.store = DOMAIN db.store \ {v} /\ \A w \in DOMAIN e.store : e.store[w] = db.store[w]
        /\ DOMAIN e.restaurant = DOMAIN db.restaurant \ {v}
        /\ \A w \in DOMAIN e.restaurant : e.restaurant[w] = db.restaurant[w]
    BY <2>4
  <2>6. ASSUME InStep PROVE References(e) /\ OrdersHold'
    <3>1. References(db) /\ \A i \in db.ordered : VendorOf(i) \in db.orders
      BY <2>6 DEF InStep, OrdersHold, ordered, orders
    <3>2. e.orders \subseteq DOMAIN e.restaurant
      BY <1>3, <2>4, <2>5, <3>1 DEF References, orders
    <3>3. \A i \in DOMAIN e.item : e.item[i].cat \in DOMAIN e.category
      BY <2>4, <3>1 DEF References
    <3>4. \A c \in DOMAIN e.category : e.category[c].vendor \in DOMAIN e.restaurant
      BY <2>4, <2>5, <3>1 DEF References
    <3>5. ASSUME NEW i \in db.ordered
          PROVE  i \in DOMAIN e.item /\ e.category[e.item[i].cat].vendor \in e.orders
      <4>1. i \in DOMAIN db.item /\ db.category[db.item[i].cat].vendor \in db.orders /\ v \notin db.orders
        BY <1>3, <3>1 DEF References, VendorOf, item, category, orders
      <4>2. i \in DOMAIN e.item
        BY <2>4, <4>1
      <4>. QED
        BY <2>4, <3>3, <4>1, <4>2
    <3>6. References(e)
      BY <2>4, <2>5, <3>1, <3>2, <3>3, <3>4, <3>5 DEF References
    <3>7. OrdersHold'
      BY <2>2, <2>4, <3>5 DEF OrdersHold, VendorOf, item, category, ordered, orders
    <3>. QED
      BY <3>6, <3>7
  <2>7. /\ IsDb(db')
        /\ \A w \in DOMAIN db'.store : w \in DOMAIN db.store /\ db'.store[w] = db.store[w]
        /\ \A w \in DOMAIN db'.restaurant : w \in DOMAIN db.restaurant /\ db'.restaurant[w] = db.restaurant[w]
        /\ InStep => References(db') /\ OrdersHold'
    BY <2>2, <2>4, <2>5, <2>6
  <2>. QED
    BY <1>2, <1>3, <2>1, <2>7, Continuing
<1>4. CASE GoesOn(h, Closing(v, Doing(h).had)) /\ UNCHANGED db
  <2>1. Chunk(Closing(v, Doing(h).had))
    BY ChunkClosing
  <2>2. IsDb(db') /\ (InStep => References(db') /\ OrdersHold')
    BY <1>4 DEF FrontInv, WellFormed, IsDb, InStep, References, OrdersHold, VendorOf,
                item, category, orders, ordered
  <2>. QED
    BY <1>2, <1>4, <2>1, <2>2, Continuing
<1>. QED
    BY <1>2, <1>3, <1>4
-----------------------------------------------------------------------------
LEMMA Cuts ==
    ASSUME FrontInv, MCNext, NEW h \in Handlers, Cut(h)
    PROVE  FrontInv'
<1>1. WellFormed /\ cuts' = cuts + 1 /\ GoesOn(h, <<>>) /\ UNCHANGED <<db, now>>
    BY DEF Cut, FrontInv
<1>2. ~alone'
    BY <1>1, Histories DEF WellFormed
<1>3. /\ call' = [k \in Handlers |-> call'[k]]
      /\ call'[h] = Idle
      /\ \A k \in Handlers \ {h} : call'[k] = call[k]
    BY <1>1, GoesTo
<1>4. Idle.what # "updateRestaurant" /\ Tick \in Handlers
    BY DEF Idle, Handlers
<1>5. WellFormed'
    BY <1>1, <1>3, <1>4, Histories DEF WellFormed
<1>. QED
    BY <1>2, <1>5 DEF FrontInv

(* Steps in which no call moves. *)
LEMMA CallsRest ==
    ASSUME FrontInv, MCNext, UNCHANGED <<call, cuts>>, now' \in Int, IsDb(db'),
           db'.store = db.store, db'.restaurant = db.restaurant, db'.category = db.category,
           db'.item = db.item, db'.orders = db.orders, db'.ordered = db.ordered, db'.account = db.account,
           \A v \in forced : v \in forced' /\ InStep /\ Stays(v) =>
             /\ Stays(v)'
             /\ ~IsWithinSchedule(store[v].hours, now) => ~IsWithinSchedule(store[v].hours, now')
    PROVE  FrontInv'
<1>1. WellFormed'
    BY Histories DEF FrontInv, WellFormed
<1>2. \A k \in Handlers : \A tab, v : ~WritesOpen(k, tab, v)
    BY DEF WritesOpen
<1>3. forced' \subseteq forced /\ \A v \in Vendors \ switched' : v \notin switched
    BY <1>2, Histories DEF Handlers
<1>4. ASSUME alone' PROVE InStep'
  <2>1. InStep /\ OneBusy'
    BY <1>4, Histories DEF FrontInv
  <2>2. References(db)' /\ OrdersHold'
    BY <2>1 DEF InStep, References, OrdersHold, VendorOf, item, category, orders, ordered
  <2>3. \A h \in Handlers : Right(call[h])'
    BY <2>1 DEF InStep, Right, Awaits, VendorOf, store, item, category, orders
  <2>4. \A v \in DOMAIN restaurant' \ switched' : Agrees(v)'
    <3> SUFFICES ASSUME NEW v \in DOMAIN db'.restaurant, v \notin switched'
                 PROVE  Agrees(v)'
      BY DEF restaurant
    <3>1. v \notin switched
      BY <1>3 DEF FrontInv, WellFormed
    <3>2. Agrees(v)
      BY <2>1, <3>1 DEF InStep, restaurant
    <3>. QED
      BY <3>2 DEF Agrees, Awaits, store, restaurant
  <2>5. \A v \in forced' : Stays(v)'
    BY <1>3, <2>1 DEF InStep
  <2>6. ASSUME NEW k \in 1..Len(call'[Tick].todo)
        PROVE  Ticks(call[Tick].todo[k])'
    <3>1. PICK r : r = call'[Tick].todo[k]
      OBVIOUS
    <3>2. Ticks(r)
      BY <2>1, <2>6, <3>1 DEF InStep
    <3>3. ASSUME r.table = "store", r.id \in forced'
          PROVE  ~r.fields.isOpen /\ ~IsWithinSchedule(db'.store[r.id].hours, now')
      BY <1>3, <2>1, <3>2, <3>3 DEF Ticks, InStep, store
    <3>4. Ticks(r)'
      BY <3>2, <3>3 DEF Ticks, store
    <3>. QED
      BY <3>1, <3>4
  <2>. QED
    BY <2>1, <2>2, <2>3, <2>4, <2>5, <2>6 DEF InStep
<1>. QED
    BY <1>1, <1>4 DEF FrontInv

LEMMA OrdersEnd ==
    ASSUME FrontInv, MCNext, NEW v \in Vendors, OrderEnds(v)
    PROVE  FrontInv'
<1>1. db' = [db EXCEPT !.active = db.active \ {v}] /\ UNCHANGED <<call, now, cuts>>
    BY DEF OrderEnds
<1>2. IsDb(db) /\ now \in Int
    BY DEF FrontInv, WellFormed
<1>3. IsDb(db') /\ \A t \in Tables \cup {"orders", "ordered"} : db'[t] = db[t]
    BY <1>1, <1>2 DEF IsDb, Tables
<1>4. /\ db'.store = db.store /\ db'.restaurant = db.restaurant /\ db'.category = db.category
      /\ db'.item = db.item /\ db'.orders = db.orders /\ db'.ordered = db.ordered /\ db'.account = db.account
    BY <1>3 DEF Tables
<1>5. ASSUME NEW w \in forced, Stays(w)
      PROVE  Stays(w)' /\ (~IsWithinSchedule(store[w].hours, now) => ~IsWithinSchedule(store[w].hours, now'))
    BY <1>1, <1>4, <1>5 DEF Stays, store
<1>. QED
    BY <1>1, <1>2, <1>3, <1>4, <1>5, CallsRest

(* The clock: a store leaves the ones that are to stay closed when it      *)
(* comes to its opening time.                                              *)
LEMMA ClockMoves ==
    ASSUME FrontInv, MCNext, TimePasses
    PROVE  FrontInv'
<1>1. now' = now + 1 /\ UNCHANGED <<db, call, cuts>> /\ now \in Int /\ IsDb(db)
    BY DEF TimePasses, FrontInv, WellFormed
<1>2. ASSUME NEW w \in forced, w \in forced', Stays(w)
      PROVE  Stays(w)' /\ (~IsWithinSchedule(store[w].hours, now) => ~IsWithinSchedule(store[w].hours, now'))
  <2>1. ~OpeningTime(w)
    <3>1. \A h \in Slots : ~WritesOpen(h, "store", w)
      BY <1>1 DEF WritesOpen
    <3>. QED
      BY <1>2, <3>1 DEF MCNext
  <2>2. w \in DOMAIN store /\ now' # now
    BY <1>1 DEF FrontInv, WellFormed
  <2>3. ~IsWithinSchedule(store[w].hours, now) => ~IsWithinSchedule(store[w].hours, now')
    BY <2>1, <2>2 DEF OpeningTime, HasStore
  <2>. QED
    BY <1>1, <1>2, <2>3 DEF Stays, store
<1>3. IsDb(db') /\ now' \in Int
    BY <1>1 DEF IsDb
<1>. QED
    BY <1>1, <1>2, <1>3, CallsRest

(* The list s holds, two by two, the updates of n stores that are due. *)
Alternates(s, due, n) ==
    \A k \in 1..2 * n : \E v \in due :
        \/ /\ k % 2 = 1 /\ k + 1 \in 1..2 * n
           /\ s[k] = Switch(v)[1] /\ s[k + 1] = Switch(v)[2]
        \/ /\ k % 2 = 0 /\ k - 1 \in 1..2 * n
           /\ s[k - 1] = Switch(v)[1] /\ s[k] = Switch(v)[2]

(* The two updates of a tick for a store. *)
LEMMA Switching ==
    ASSUME NEW rows, NEW due, NEW n \in Nat, rows \in [1..n -> due]
    PROVE  /\ IsList(Switches(rows)) /\ Len(Switches(rows)) = 2 * n
           /\ Alternates(Switches(rows), due, n)
<1>1. Len(rows) = n
    OBVIOUS
<1>2. PICK s : s = Switches(rows)
    OBVIOUS
<1>3. s = [k \in 1..2 * n |-> Switch(rows[(k + 1) \div 2])[IF k % 2 = 1 THEN 1 ELSE 2]]
    BY <1>1, <1>2 DEF Switches
<1>4. IsList(s) /\ Len(s) = 2 * n
    BY <1>3 DEF IsList
<1>5. ASSUME NEW k \in 1..2 * n
      PROVE  \E v \in due :
                \/ /\ k % 2 = 1 /\ k + 1 \in 1..2 * n
                   /\ s[k] = Switch(v)[1] /\ s[k + 1] = Switch(v)[2]
                \/ /\ k % 2 = 0 /\ k - 1 \in 1..2 * n
                   /\ s[k - 1] = Switch(v)[1] /\ s[k] = Switch(v)[2]
  <2>1. PICK j \in 1..n : k = 2 * j - 1 \/ k = 2 * j
    <3>1. (k + 1) \div 2 \in 1..n /\ (k = 2 * ((k + 1) \div 2) - 1 \/ k = 2 * ((k + 1) \div 2))
      OBVIOUS
    <3>. QED
      BY <3>1
  <2>2. /\ 2 * j - 1 \in 1..2 * n /\ 2 * j \in 1..2 * n
        /\ ((2 * j - 1) + 1) \div 2 = j /\ (2 * j + 1) \div 2 = j
        /\ (2 * j - 1) % 2 = 1 /\ (2 * j) % 2 = 0
    BY <2>1
  <2>3. s[2 * j - 1] = Switch(rows[j])[1] /\ s[2 * j] = Switch(rows[j])[2]
    BY <1>3, <2>2
  <2>4. rows[j] \in due
    BY <2>1
  <2>5. CASE k = 2 * j - 1
    <3>1. k % 2 = 1 /\ k + 1 = 2 * j
      BY <2>2, <2>5
    <3>. QED
      BY <2>2, <2>3, <2>4, <2>5, <3>1
  <2>6. CASE k = 2 * j
    <3>1. k % 2 = 0 /\ k - 1 = 2 * j - 1
      BY <2>2, <2>6
    <3>. QED
      BY <2>2, <2>3, <2>4, <2>6, <3>1
  <2>. QED
    BY <2>1, <2>5, <2>6
<1>6. Alternates(s, due, n)
    BY <1>5 DEF Alternates
<1>. QED
    BY <1>2, <1>4, <1>6

LEMMA SwitchIs ==
    ASSUME NEW v
    PROVE  /\ Switch(v)[1].do = "update" /\ Switch(v)[1].table = "store" /\ Switch(v)[1].id = v
           /\ DOMAIN Switch(v)[1].fields = {"isOpen", "state"}
           /\ Switch(v)[1].fields.isOpen = IsWithinSchedule(store[v].hours, now)
           /\ Switch(v)[2].do = "update" /\ Switch(v)[2].table = "restaurant"
           /\ Follows(Switch(v)[1], Switch(v)[2])
<1>1. PICK open : open = IsWithinSchedule(store[v].hours, now)
    OBVIOUS
<1>2. PICK q, r : /\ q = [do |-> "update", table |-> "store", id |-> v,
                          fields |-> [isOpen |-> open, state |-> Scheduled(store[v].hours, now)]]
                  /\ r = [do |-> "update", table |-> "restaurant", id |-> v, fields |-> [isOpen |-> open]]
    OBVIOUS
<1>3. Switch(v) = <<q>> \o <<r>>
    BY <1>1, <1>2 DEF Switch, Update
<1>4. (<<q>> \o <<r>>)[1] = q /\ (<<q>> \o <<r>>)[2] = r
    OBVIOUS
<1>5. /\ q.do = "update" /\ q.table = "store" /\ q.id = v /\ DOMAIN q.fields = {"isOpen", "state"}
      /\ q.fields.isOpen = open
      /\ r.do = "update" /\ r.table = "restaurant" /\ r.id = v /\ "isOpen" \in DOMAIN r.fields
      /\ r.fields.isOpen = open
    BY <1>2
<1>6. Follows(q, r)
    BY <1>5 DEF Follows, SetsStore, SetsRestaurant
<1>. QED
    BY <1>1, <1>3, <1>4, <1>5, <1>6

LEMMA TickStarts ==
    ASSUME FrontInv, MCNext, TickReads
    PROVE  FrontInv'
<1>1. PICK due, rows : /\ due = {v \in OnSchedule : Due(v)} /\ due # {} /\ rows \in SetToSeqs(due)
                       /\ call' = [call EXCEPT ![Tick] = [what |-> "tick", todo |-> Switches(rows)]]
                       /\ call[Tick] = Idle /\ UNCHANGED <<db, now, cuts>>
    BY DEF TickReads
<1>2. PICK n \in Nat : n = Cardinality(due) /\ n > 0
  <2>1. IsFiniteSet(due)
    <3>1. due \subseteq DOMAIN db.store /\ IsFiniteSet(DOMAIN db.store)
      BY <1>1 DEF OnSchedule, store, FrontInv, WellFormed, IsDb
    <3>. QED
      BY <3>1, FS_Subset
  <2>2. Cardinality(due) \in Nat /\ Cardinality(due) # 0
    BY <1>1, <2>1, FS_CardinalityType, FS_EmptySet
  <2>. QED
    BY <2>2
<1>3. rows \in [1..n -> due]
    BY <1>1, <1>2 DEF SetToSeqs
<1>4. PICK s : s = Switches(rows)
    OBVIOUS
<1>5. /\ IsList(s) /\ Len(s) = 2 * n
      /\ \A k \in 1..2 * n : \E v \in due :
            \/ /\ k % 2 = 1 /\ k + 1 \in 1..2 * n
               /\ s[k] = Switch(v)[1] /\ s[k + 1] = Switch(v)[2]
            \/ /\ k % 2 = 0 /\ k - 1 \in 1..2 * n
               /\ s[k - 1] = Switch(v)[1] /\ s[k] = Switch(v)[2]
  <2>1. /\ IsList(Switches(rows)) /\ Len(Switches(rows)) = 2 * n
        /\ Alternates(Switches(rows), due, n)
    BY <1>2, <1>3, Switching
  <2>2. IsList(s) /\ Len(s) = 2 * n /\ Alternates(s, due, n)
    BY <1>4, <2>1
  <2>. QED
    BY <2>2 DEF Alternates
<1>6. s # <<>> /\ 1 \in 1..2 * n /\ 1 % 2 = 1
    BY <1>2, <1>5, ListNone
<1>7. ASSUME NEW k \in 1..2 * n
      PROVE  /\ s[k].do = "update" /\ s[k].table \in {"store", "restaurant"}
             /\ s[k].table = "store" =>
                  /\ SetsStore(s[k]) /\ DOMAIN s[k].fields = {"isOpen", "state"} /\ s[k].id \in due
                  /\ s[k].fields.isOpen = IsWithinSchedule(store[s[k].id].hours, now)
                  /\ k + 1 \in 1..2 * n /\ Follows(s[k], s[k + 1])
             /\ s[k].table = "restaurant" => k # 1 /\ Follows(s[k - 1], s[k])
  <2>1. PICK v \in due :
            \/ /\ k % 2 = 1 /\ k + 1 \in 1..2 * n
               /\ s[k] = Switch(v)[1] /\ s[k + 1] = Switch(v)[2]
            \/ /\ k % 2 = 0 /\ k - 1 \in 1..2 * n
               /\ s[k - 1] = Switch(v)[1] /\ s[k] = Switch(v)[2]
    BY <1>5
  <2>2. PICK a, b : a = Switch(v)[1] /\ b = Switch(v)[2]
    OBVIOUS
  <2>3. /\ a.do = "update" /\ a.table = "store" /\ a.id = v /\ DOMAIN a.fields = {"isOpen", "state"}
        /\ a.fields.isOpen = IsWithinSchedule(store[v].hours, now)
        /\ b.do = "update" /\ b.table = "restaurant" /\ Follows(a, b)
    BY <2>2, SwitchIs
  <2>4. CASE s[k] = a /\ s[k + 1] = b /\ k + 1 \in 1..2 * n
    BY <2>3, <2>4 DEF Follows
  <2>5. CASE s[k - 1] = a /\ s[k] = b /\ k % 2 = 0
    BY <1>6, <2>3, <2>5
  <2>. QED
    BY <2>1, <2>2, <2>4, <2>5
<1>8. Script([what |-> "tick", todo |-> s])
  <2>1. \A k \in 1..Len(s) : Plain(s[k])
    BY <1>5, <1>7 DEF Plain, SetsStore, Tables
  <2>2. Opens(s)
    BY <1>5, <1>7 DEF Opens, SetsStore
  <2>3. Paired(s)
    <3>1. \A k \in 2..Len(s) : k \in 1..2 * n
      BY <1>5
    <3>. QED
      BY <1>7, <3>1 DEF Paired, SetsRestaurant
  <2>. QED
    BY <1>5, <1>6, <2>1, <2>2, <2>3 DEF Script
<1>9. /\ Tick \in Handlers
      /\ call' = [k \in Handlers |-> call'[k]]
      /\ call'[Tick] = [what |-> "tick", todo |-> s]
      /\ \A k \in Handlers \ {Tick} : call'[k] = call[k]
    BY <1>1, <1>4 DEF FrontInv, WellFormed, Handlers
<1>10. call'[Tick] # Idle /\ call'[Tick].todo = s /\ call'[Tick].what = "tick"
    BY <1>6, <1>9 DEF Idle
<1>11. WellFormed'
    BY <1>1, <1>8, <1>9, Histories DEF FrontInv, WellFormed
<1>12. ASSUME alone' PROVE InStep'
  <2>1. InStep /\ OneBusy'
    BY <1>12, Histories DEF FrontInv
  <2>2. \A k \in Handlers : call[k] = Idle /\ (k # Tick => call'[k] = Idle)
    BY <1>1, <1>9, <1>10, <2>1 DEF OneBusy
  <2>3. References(db)' /\ OrdersHold'
    BY <1>1, <2>1 DEF InStep, References, OrdersHold, VendorOf, item, category, orders, ordered
  <2>4. \A k \in Handlers : Right(call[k])'
    <3>1. s[1].do = "update" /\ ~SetsRestaurant(s[1])
      BY <1>6, <1>7 DEF SetsRestaurant
    <3>2. Right(call[Tick])'
      BY <1>10, <3>1 DEF Right, Awaits
    <3>3. ASSUME NEW k \in Handlers, k # Tick PROVE Right(call[k])'
      BY <2>2, <3>3 DEF Right, Awaits
    <3>. QED
      BY <3>2, <3>3
  <2>5. \A k \in Handlers : \A tab, v : ~WritesOpen(k, tab, v)
    BY <2>2 DEF WritesOpen, Idle
  <2>6. \A v \in DOMAIN restaurant' \ switched' : Agrees(v)'
    <3> SUFFICES ASSUME NEW v \in DOMAIN db'.restaurant, v \notin switched', db'.store[v].isOpen
                 PROVE  db'.restaurant[v].isOpen
      BY DEF Agrees, store, restaurant
    <3>1. v \notin switched
      BY <2>5, Histories DEF FrontInv, WellFormed
    <3>2. Agrees(v)
      BY <1>1, <2>1, <3>1 DEF InStep, restaurant
    <3>. QED
      BY <1>1, <2>2, <3>2 DEF Agrees, Awaits, store, restaurant
  <2>7. \A v \in forced' : Stays(v)'
    BY <1>1, <1>12, StayClosed
  <2>8. ASSUME NEW k \in 1..Len(call'[Tick].todo)
        PROVE  Ticks(call[Tick].todo[k])'
    <3>1. PICK r : r = s[k]
      OBVIOUS
    <3>2. k \in 1..2 * n
      BY <1>5, <1>10, <2>8
    <3>3. ASSUME r.table = "store", r.id \in forced'
          PROVE  ~r.fields.isOpen /\ ~IsWithinSchedule(db.store[r.id].hours, now)
      <4>1. r.id \in forced
        BY <2>5, <3>3, Histories DEF Handlers
      <4>2. store[r.id].state = "open" \/ ~IsWithinSchedule(store[r.id].hours, now)
        BY <2>1, <4>1 DEF InStep, Stays
      <4>3. r.id \in due /\ r.fields.isOpen = IsWithinSchedule(store[r.id].hours, now)
        BY <1>7, <3>1, <3>2, <3>3
      <4>4. store[r.id].state # Scheduled(store[r.id].hours, now)
        BY <1>1, <4>3 DEF Due
      <4>. QED
        BY <4>2, <4>3, <4>4 DEF Scheduled, store
    <3>4. Ticks(r)'
      BY <1>1, <1>7, <3>1, <3>2, <3>3 DEF Ticks, store
    <3>. QED
      BY <1>10, <3>1, <3>4
  <2>. QED
    BY <2>1, <2>3, <2>4, <2>6, <2>7, <2>8 DEF InStep
<1>. QED
    BY <1>11, <1>12 DEF FrontInv

-----------------------------------------------------------------------------
LEMMA InitFront == MCInit => FrontInv
<1> SUFFICES ASSUME MCInit PROVE FrontInv
    OBVIOUS
<1>1. /\ db = First /\ call = [h \in Handlers |-> Idle] /\ now = 0 /\ cuts = 0
      /\ alone = TRUE /\ forced = {} /\ switched = {}
    BY DEF MCInit, Init, Handlers
<1>2. /\ DOMAIN First = Tables \cup {"orders", "active", "ordered"}
      /\ First.store = FirstStore /\ First.restaurant = FirstRestaurant /\ First.item = FirstItem
      /\ First.orders = {} /\ First.ordered = {}
    BY DEF First, Tables
<1>3. IsDb(db) /\ References(db)
    BY <1>1, <1>2, FirstTables DEF IsDb, StoreFields, RestaurantFields, ItemFields
<1>4. Tick \in Handlers /\ \A h \in Handlers : call[h] = Idle
    BY <1>1 DEF Handlers
<1>5. WellFormed
    BY <1>1, <1>3, <1>4 DEF WellFormed, Idle
<1>6. \A h \in Handlers : Right(call[h])
    BY <1>4 DEF Right, Awaits
<1>7. \A v \in DOMAIN restaurant : Agrees(v)
    BY <1>1, <1>2, FirstTables DEF Agrees, store, restaurant
<1>8. \A k \in 1..Len(call[Tick].todo) : Ticks(call[Tick].todo[k])
  <2>1. call[Tick].todo = <<>>
    BY <1>4 DEF Idle
  <2>. QED
    BY <2>1, ListNone
<1>9. InStep
    BY <1>1, <1>2, <1>3, <1>4, <1>6, <1>7, <1>8 DEF InStep, OneBusy, OrdersHold, ordered
<1>. QED
    BY <1>5, <1>9 DEF FrontInv

LEMMA StepFront ==
    ASSUME FrontInv, MCNext
    PROVE  FrontInv'
<1>1. Next
    BY DEF MCNext
<1>2. ASSUME NEW h \in Slots, NEW v \in Vendors, Free(h),
             VendorCall(h, v) \/ MenuCall(h, v) \/ AdminCall(h, v) \/ CustomerCall(h, v)
      PROVE  FrontInv'
    BY <1>2, VendorCalls, MenuCalls, AdminCalls, CustomerCalls
<1>3. ASSUME NEW h \in Slots, Ensure(h) \/ RemoveUser(h) PROVE FrontInv'
    BY <1>3, Ensures, RemovesUser
<1>4. ASSUME NEW h \in Slots \cup {Tick}, Query(h) \/ Cut(h) PROVE FrontInv'
    BY <1>4, Queries, Cuts DEF Handlers
<1>5. CASE TickReads
    BY <1>5, TickStarts
<1>6. ASSUME NEW v \in Vendors, OrderEnds(v) PROVE FrontInv'
    BY <1>6, OrdersEnd
<1>7. CASE TimePasses
    BY <1>7, ClockMoves
<1>. QED
    BY <1>1, <1>2, <1>3, <1>4, <1>5, <1>6, <1>7 DEF Next

LEMMA FrontHolds == MCSpec => []FrontInv
<1>1. FrontInv /\ [MCNext]_mcvars => FrontInv'
  <2>1. ASSUME FrontInv, UNCHANGED mcvars PROVE FrontInv'
    <3>1. UNCHANGED <<db, call, now, cuts, alone, forced, switched>>
      BY <2>1 DEF mcvars, vars
    <3>2. WellFormed'
      BY <2>1, <3>1 DEF FrontInv, WellFormed, IsDb, store
    <3>3. ASSUME alone' PROVE InStep'
      <4>1. InStep
        BY <2>1, <3>1, <3>3 DEF FrontInv
      <4>2. OneBusy' /\ References(db)' /\ OrdersHold'
        BY <3>1, <4>1 DEF InStep, OneBusy, References, OrdersHold, VendorOf, item, category, orders, ordered
      <4>3. \A h \in Handlers : Right(call[h])'
        BY <3>1, <4>1 DEF InStep, Right, Awaits, VendorOf, store, item, category, orders
      <4>4. \A v \in DOMAIN restaurant' \ switched' : Agrees(v)'
        BY <3>1, <4>1 DEF InStep, Agrees, Awaits, store, restaurant
      <4>5. \A v \in forced' : Stays(v)'
        BY <3>1, <4>1 DEF InStep, Stays, store
      <4>6. \A k \in 1..Len(call'[Tick].todo) : Ticks(call[Tick].todo[k])'
        BY <3>1, <4>1 DEF InStep, Ticks, store
      <4>. QED
        BY <4>2, <4>3, <4>4, <4>5, <4>6 DEF InStep
    <3>. QED
      BY <3>2, <3>3 DEF FrontInv
  <2>. QED
    BY <2>1, StepFront
<1>. QED
    BY <1>1, InitFront, PTL DEF MCSpec

(* While calls and ticks do not overlap and none is cut short, a store     *)
(* closed by hand stays closed until its next opening time: the timer      *)
(* compares what it would do with schedule_state, not with the switch      *)
(* (vendor-schedule.service.ts).                                           *)
THEOREM StaysClosed == MCSpec => []ClosedStaysClosed
<1>1. FrontInv => ClosedStaysClosed
    BY DEF FrontInv, InStep, Stays, ClosedStaysClosed
<1>. QED
    BY <1>1, FrontHolds, PTL

(* And when nothing is going on, a restaurant that was not switched on its *)
(* own is open whenever its store is: whoever opens a store opens its      *)
(* restaurant too, or it has none.  (That it is closed when its store is   *)
(* is the other half of SwitchesAgree, which TLC checks.)                  *)
THEOREM TablesAgree == MCSpec => []OpenEverywhere
<1>1. FrontInv => OpenEverywhere
    BY DEF FrontInv, InStep, Agrees, Awaits, OpenEverywhere, Quiet, Handlers
<1>. QED
    BY <1>1, FrontHolds, PTL

-----------------------------------------------------------------------------
(* The grocery catalog.  Ids are drawn in order, so some function "own"    *)
(* says of every id drawn so far whose the row is, or would have been; it  *)
(* is not a variable of the model, and the invariant says that there is    *)
(* one.                                                                    *)
(* A set of numbers has a least one. *)
LEMMA LeastOf ==
    ASSUME NEW B \in SUBSET Nat, B # {}
    PROVE  \E n \in B : \A m \in B : ~ (m < n)
<1>1. PICK R : R = OpToRel(<, Nat)
    BY Zenon
<1>2. IsWellFoundedOn(R, Nat)
    BY <1>1, NatLessThanWellFounded, Zenon
<1>3. PICK n \in B : \A m \in B : ~ (<<m, n>> \in R)
    BY <1>2, WFMin
<1>. QED
    BY <1>1, <1>3 DEF OpToRel

(* What lies under a category, level by level. *)
IsDown(f, c) == f = [n \in Nat |-> IF n = 0 THEN {c} ELSE Below(f[n - 1])]
Down(c) == CHOOSE f : IsDown(f, c)
Levels(g, n, c) == g = [i \in 0..n |-> IF i = 0 THEN {c} ELSE Below(g[i - 1])]

LEMMA LevelsExist ==
    ASSUME NEW c
    PROVE  \A n \in Nat : \E g : Levels(g, n, c)
<1>1. SUFFICES ASSUME NEW n \in Nat, ~ \E g : Levels(g, n, c),
                      \A m \in Nat : m < n => \E g : Levels(g, m, c)
               PROVE  FALSE
  <2> DEFINE B == {n \in Nat : ~ \E g : Levels(g, n, c)}
  <2>1. SUFFICES B # {} => FALSE
      OBVIOUS
  <2>2. B \subseteq Nat
      OBVIOUS
  <2>3. CASE B # {}
    <3> HIDE DEF B
    <3>1. PICK n \in B : \A m \in B : ~ (m < n)
        BY <2>2, <2>3, LeastOf
    <3>2. n \in Nat /\ ~ (\E g : Levels(g, n, c)) /\ \A m \in Nat : m < n => \E g : Levels(g, m, c)
        BY <3>1 DEF B
    <3>. QED
        BY <1>1, <3>2
  <2>. QED
      BY <2>3
<1>2. CASE n = 0
  <2> DEFINE g == [i \in 0..0 |-> {c}]
  <2>1. Levels(g, 0, c)
      BY DEF Levels
  <2>. QED
      BY <1>1, <1>2, <2>1
<1>3. CASE n # 0
  <2>1. n - 1 \in Nat /\ n - 1 < n
      BY <1>3
  <2>2. PICK g : Levels(g, n - 1, c)
      BY <1>1, <2>1
  <2> DEFINE k == [i \in 0..n |-> IF i = n THEN Below(g[n - 1]) ELSE g[i]]
  <2>3. k = [i \in 0..n |-> IF i = 0 THEN {c} ELSE Below(k[i - 1])]
    <3>1. ASSUME NEW i \in 0..n PROVE k[i] = IF i = 0 THEN {c} ELSE Below(k[i - 1])
      <4>1. CASE i = 0
          BY <1>3, <2>2, <4>1 DEF Levels
      <4>2. CASE i # 0 /\ i # n
        <5>1. i \in 0..n-1 /\ i - 1 \in 0..n-1 /\ i - 1 # n
            BY <4>2
        <5>2. g[i] = Below(g[i - 1])
            BY <2>2, <4>2, <5>1 DEF Levels
        <5>. QED
            BY <4>2, <5>1, <5>2
      <4>3. CASE i = n
        <5>1. n - 1 \in 0..n /\ n - 1 # n
            BY <1>3
        <5>. QED
            BY <1>3, <4>3, <5>1
      <4>. QED
          BY <4>1, <4>2, <4>3
    <3> HIDE DEF k
    <3>2. k = [i \in 0..n |-> k[i]]
        BY DEF k
    <3>. QED
        BY <3>1, <3>2
  <2> HIDE DEF k
  <2>. QED
      BY <1>1, <2>3 DEF Levels
<1>. QED
    BY <1>2, <1>3

LEMMA LevelsAgree ==
    ASSUME NEW c, NEW m \in Nat, NEW n \in Nat, NEW f, NEW g, Levels(f, m, c), Levels(g, n, c), m <= n
    PROVE  \A i \in 0..m : f[i] = g[i]
<1> DEFINE B == {i \in 0..m : f[i] # g[i]}
<1>1. SUFFICES B # {} => FALSE
    OBVIOUS
<1>2. B \subseteq Nat
    OBVIOUS
<1>3. CASE B # {}
  <2> HIDE DEF B
  <2>1. PICK i \in B : \A j \in B : ~ (j < i)
      BY <1>2, <1>3, LeastOf
  <2>2. i \in 0..m /\ f[i] # g[i] /\ i \in 0..n
      BY <2>1 DEF B
  <2>3. CASE i = 0
      BY <2>2, <2>3 DEF Levels
  <2>4. CASE i # 0
    <3>1. i - 1 \in 0..m /\ i - 1 < i
        BY <2>2, <2>4
    <3>2. f[i - 1] = g[i - 1]
        BY <2>1, <3>1 DEF B
    <3>3. f[i] = Below(f[i - 1]) /\ g[i] = Below(g[i - 1])
        BY <2>2, <2>4 DEF Levels
    <3>. QED
        BY <2>2, <3>2, <3>3
  <2>. QED
      BY <2>3, <2>4
<1>. QED
    BY <1>3

LEMMA DownUnfolds ==
    ASSUME NEW c
    PROVE  IsDown(Down(c), c)
<1> DEFINE level(n) == CHOOSE g : Levels(g, n, c)
<1>1. ASSUME NEW n \in Nat PROVE Levels(level(n), n, c)
    BY LevelsExist
<1> DEFINE F == [n \in Nat |-> level(n)[n]]
<1>2. F = [n \in Nat |-> IF n = 0 THEN {c} ELSE Below(F[n - 1])]
  <2>1. ASSUME NEW n \in Nat PROVE F[n] = IF n = 0 THEN {c} ELSE Below(F[n - 1])
    <3>0. F[n] = level(n)[n] /\ n \in 0..n /\ Levels(level(n), n, c)
        BY <1>1
    <3>1. CASE n = 0
      <4> HIDE DEF F, level
      <4>. QED
          BY <3>0, <3>1 DEF Levels
    <3>2. CASE n # 0
      <4>1. n - 1 \in Nat /\ n - 1 <= n /\ n - 1 \in 0..n-1
          BY <3>2
      <4>2. Levels(level(n), n, c) /\ Levels(level(n - 1), n - 1, c)
          BY <1>1, <4>1
      <4>3. F[n] = level(n)[n] /\ F[n - 1] = level(n - 1)[n - 1]
          BY <4>1
      <4> HIDE DEF level, F
      <4>4. level(n - 1)[n - 1] = level(n)[n - 1]
          BY <4>1, <4>2, LevelsAgree
      <4>5. level(n)[n] = Below(level(n)[n - 1])
          BY <3>0, <3>2, <4>2 DEF Levels
      <4>. QED
          BY <3>2, <4>3, <4>4, <4>5
    <3>. QED
        BY <3>1, <3>2
  <2> HIDE DEF level
  <2>2. F = [n \in Nat |-> F[n]]
      OBVIOUS
  <2> HIDE DEF F
  <2>. QED
      BY <2>1, <2>2
<1> HIDE DEF F
<1>3. IsDown(F, c)
    BY <1>2 DEF IsDown
<1>. QED
    BY <1>3 DEF Down

LEMMA DownStarts ==
    ASSUME NEW c, NEW n \in Nat
    PROVE  c \in Down(c)[n]
<1> DEFINE B == {i \in Nat : c \notin Down(c)[i]}
<1>1. SUFFICES B # {} => FALSE
    OBVIOUS
<1>2. B \subseteq Nat
    OBVIOUS
<1>3. CASE B # {}
  <2> HIDE DEF B
  <2>1. PICK i \in B : \A j \in B : ~ (j < i)
      BY <1>2, <1>3, LeastOf
  <2>2. i \in Nat /\ c \notin Down(c)[i]
      BY <2>1 DEF B
  <2>3. Down(c)[i] = IF i = 0 THEN {c} ELSE Below(Down(c)[i - 1])
      BY <2>2, DownUnfolds DEF IsDown
  <2>4. CASE i # 0
    <3>1. i - 1 \in Nat /\ i - 1 < i
        BY <2>2, <2>4
    <3>2. c \in Down(c)[i - 1]
        BY <2>1, <3>1 DEF B
    <3>. QED
        BY <2>2, <2>3, <2>4, <3>2 DEF Below
  <2>. QED
      BY <2>2, <2>3, <2>4
<1>. QED
    BY <1>3

(* A category holds itself and the stores' copies of it. *)
LEMMA UnderHolds ==
    ASSUME NEW c, IsFiniteSet(DOMAIN categories)
    PROVE  /\ c \in Under(c)
           /\ \A d \in DOMAIN categories :
                categories[d].owner # Laoji /\ categories[d].template = c => d \in Under(c)
<1> DEFINE all == Down(c)[Cardinality(DOMAIN categories)]
<1>1. Under(c) = all \cup {d \in DOMAIN categories : categories[d].owner # Laoji /\ categories[d].template \in all}
    BY Zenon DEF Under, Down, IsDown
<1>2. c \in all
    BY DownStarts, FS_CardinalityType
<1>. QED
    BY <1>1, <1>2

-----------------------------------------------------------------------------
(* Who a row is of.  own says it for every id that was drawn, whether its  *)
(* row is still to be written, in a table, or gone again.                  *)
RowsOf(own, v) == {i \in DOMAIN own : own[i] = v}
Near(own, v) == RowsOf(own, Laoji) \cup RowsOf(own, v)

CategoryIs(own, c, row) ==
    /\ DOMAIN row = CategoryFields /\ row.owner = own[c]
    /\ row.parent \in RowsOf(own, Laoji) \cup {Null}
    /\ row.template \in RowsOf(own, Laoji) \cup {Null}
    /\ own[c] = Laoji => row.template = Null

ProductIs(own, p, row) ==
    /\ DOMAIN row = ProductFields /\ row.owner = own[p]
    /\ row.cat \in Near(own, own[p])
    /\ row.template \in RowsOf(own, Laoji) \cup {Null}
    /\ own[p] = Laoji => row.group = Null

ListingIs(own, l, row) ==
    /\ DOMAIN row = ListingFields /\ row.vendor = own[l] /\ own[l] \in Stores
    /\ row.product \in Near(own, own[l])

SuggestionIs(own, row) ==
    /\ DOMAIN row = SuggestionFields /\ row.vendor \in Stores
    /\ row.cat \in RowsOf(own, Laoji) \cup {Null}
    /\ row.kind = "product" => row.cat # Null

TablesAre(own, d) ==
    /\ DOMAIN d = {"category", "product", "listing", "suggestion", "ordered"}
    /\ \A c \in DOMAIN d.category :
         /\ c \in DOMAIN own /\ CategoryIs(own, c, d.category[c])
         /\ d.category[c].template \in DOMAIN d.category \cup {Null}
    /\ \A p \in DOMAIN d.product :
         p \in DOMAIN own /\ ProductIs(own, p, d.product[p]) /\ d.product[p].cat \in DOMAIN d.category
    /\ \A l \in DOMAIN d.listing :
         l \in DOMAIN own /\ ListingIs(own, l, d.listing[l]) /\ d.listing[l].product \in DOMAIN d.product
    /\ \A s \in DOMAIN d.suggestion : s \in DOMAIN own /\ SuggestionIs(own, d.suggestion[s])

(* What a query may be about, and that a store's is about its own rows.    *)
Inserts(own, by, q) ==
    /\ q.do = "insert" /\ q.id \in DOMAIN own
    /\ by # Laoji /\ q.table = "listing" => own[q.id] = by
    /\ \/ q.table = "category" /\ CategoryIs(own, q.id, q.row)
       \/ q.table = "product" /\ ProductIs(own, q.id, q.row)
       \/ q.table = "listing" /\ ListingIs(own, q.id, q.row)
       \/ q.table = "suggestion" /\ SuggestionIs(own, q.row)

Updates(own, by, q) ==
    /\ q.do = "update" /\ q.id \in DOMAIN own
    /\ by # Laoji => own[q.id] = by
    /\ \/ /\ q.table = "category" /\ DOMAIN q.fields \subseteq CategoryFields \ {"owner"}
          /\ "template" \in DOMAIN q.fields => q.fields.template \in RowsOf(own, Laoji) /\ own[q.id] # Laoji
          /\ "parent" \in DOMAIN q.fields => q.fields.parent \in RowsOf(own, Laoji) \cup {Null}
       \/ /\ q.table = "product" /\ DOMAIN q.fields \subseteq ProductFields \ {"owner", "template"}
          /\ "cat" \in DOMAIN q.fields => q.fields.cat \in Near(own, own[q.id])
          /\ "group" \in DOMAIN q.fields => q.fields.group = Null
       \/ /\ q.table = "listing" /\ DOMAIN q.fields \subseteq ListingFields \ {"vendor"}
          /\ "product" \in DOMAIN q.fields => q.fields.product \in Near(own, own[q.id])
       \/ /\ q.table = "suggestion" /\ DOMAIN q.fields \subseteq SuggestionFields \ {"kind", "vendor"}
          /\ "cat" \in DOMAIN q.fields => q.fields.cat \in RowsOf(own, Laoji)

Moves(own, by, q) ==
    /\ q.do = "refile"
    /\ q.to \in RowsOf(own, Laoji) \/ (q.to \in DOMAIN own /\ q.owners \subseteq {own[q.to]})
    /\ by # Laoji => q.owners \subseteq {by} \/ q.from \in RowsOf(own, by)

Writes(own, by, q) ==
    \/ Inserts(own, by, q)
    \/ Updates(own, by, q)
    \/ Moves(own, by, q)
    \/ /\ q.do = "delete" /\ q.table \in {"category", "product", "listing"}
       /\ by # Laoji => q.ids \subseteq RowsOf(own, by)
    \/ q.do = "restock" /\ (by # Laoji => q.id \in RowsOf(own, by))
    \/ q.do \in {"unlinkProduct", "unlinkTemplates", "unlinkCategories", "deleteListings"} /\ by = Laoji

Reading(own, by, q) ==
    \/ /\ q.do = "dropOwn" /\ q.vendor \in Stores /\ (by # Laoji => q.vendor = by)
    \/ /\ q.do = "sizes" /\ q.listing \in RowsOf(own, q.vendor) /\ q.vendor \in Stores
       /\ by # Laoji => q.vendor = by
       /\ DOMAIN q.wanted \subseteq Units
    \/ /\ q.do = "link" /\ q.id \in RowsOf(own, Laoji) /\ q.vendor \in Stores /\ by = Laoji
    \/ /\ q.do = "detach" /\ by = Laoji
       /\ \A c \in DOMAIN q.rows : c \in RowsOf(own, Laoji) /\ CategoryIs(own, c, q.rows[c])
    \/ /\ q.do = "move" /\ by = Laoji
       /\ \A c \in DOMAIN q.of : c \in RowsOf(own, Laoji) /\ CategoryIs(own, c, q.of[c])
       /\ \A x \in q.left : x[1] \in Stores /\ x[2] \in DOMAIN q.of
    \/ /\ q.do = "handOver" /\ by = Laoji
       /\ q.id \in RowsOf(own, Laoji) /\ ProductIs(own, q.id, q.row)
    \/ /\ q.do = "give" /\ by = Laoji
       /\ q.of.id \in RowsOf(own, Laoji) /\ ProductIs(own, q.of.id, q.of.row)
       /\ \A x \in q.left : x[1] \in Stores /\ x[2] \in RowsOf(own, x[1])

Extends(own, new) == DOMAIN own \subseteq DOMAIN new /\ \A i \in DOMAIN own : new[i] = own[i]

(* Only the first query of a list may make a category a copy of another.   *)
Gives(q) ==
    /\ q.do \in {"insert", "update"} /\ q.table = "category"
    /\ q.do = "insert" => q.row.template # Null
    /\ q.do = "update" => "template" \in DOMAIN q.fields

Mild(s) == \A k \in 1..Len(s) : ~Gives(s[k])
MildAfter(s) == \A k \in 2..Len(s) : ~Gives(s[k])

ListIs(own, by, s) ==
    IsList(s) /\ \A k \in 1..Len(s) : Writes(own, by, s[k]) \/ Reading(own, by, s[k])

EditIs(own, e) ==
    /\ DOMAIN e = {"by", "what", "todo"} /\ e.by \in Owners
    /\ ListIs(own, e.by, e.todo) /\ MildAfter(e.todo)

OwnersKnown(own, n) == n \in Nat /\ own \in [1..n -> Owners]

(* A query that makes a copy finds none yet. *)
Spare(q) ==
    Gives(q) => IF q.do = "insert" THEN Copies(q.row.owner, q.row.template) = {}
                ELSE q.id \in DOMAIN categories => Copies(categories[q.id].owner, q.fields.template) = {}

Fine(own, by, s) == ListIs(own, by, s) /\ Mild(s)
Good(own, by, s) == ListIs(own, by, s) /\ MildAfter(s) /\ (s # <<>> => Spare(s[1]))

(* A call that starts has a good list for the ids it draws. *)
Ready(own, h) ==
    \E by \in Owners, k \in Nat : \E what, todo :
      /\ EditStarts(h, by, what, todo, k)
      /\ \E g : OwnersKnown(g, lastId + k) /\ Extends(own, g) /\ Good(g, by, todo)

CatalogInv ==
    /\ DOMAIN edit = Editors
    /\ \E own : /\ OwnersKnown(own, lastId) /\ TablesAre(own, tables)
                /\ \A h \in Editors : EditIs(own, edit[h])

-----------------------------------------------------------------------------
(* The first sentence of FoundAlways follows. *)
LEMMA RowsFinite ==
    ASSUME NEW own, NEW n, OwnersKnown(own, n), TablesAre(own, tables)
    PROVE  /\ IsFiniteSet(DOMAIN categories) /\ IsFiniteSet(DOMAIN listings)
           /\ DOMAIN categories \subseteq 1..n /\ DOMAIN products \subseteq 1..n /\ DOMAIN listings \subseteq 1..n
<1>1. DOMAIN own = 1..n /\ n \in Nat
    BY DEF OwnersKnown
<1>2. DOMAIN categories \subseteq 1..n /\ DOMAIN products \subseteq 1..n /\ DOMAIN listings \subseteq 1..n
    BY <1>1 DEF TablesAre, categories, products, listings
<1>3. IsFiniteSet(1..n)
    BY <1>1, FS_Interval
<1>. QED
    BY <1>2, <1>3, FS_Subset

LEMMA InTables ==
    ASSUME NEW own, NEW n, OwnersKnown(own, n), TablesAre(own, tables)
    PROVE  /\ \A c \in DOMAIN categories : c \in 1..n /\ CategoryIs(own, c, categories[c])
                                             /\ categories[c].template \in DOMAIN categories \cup {Null}
           /\ \A p \in DOMAIN products : p \in 1..n /\ ProductIs(own, p, products[p])
                                             /\ products[p].cat \in DOMAIN categories
           /\ \A l \in DOMAIN listings : l \in 1..n /\ ListingIs(own, l, listings[l])
                                             /\ listings[l].product \in DOMAIN products
           /\ DOMAIN own = 1..n /\ n \in Nat
           /\ \A i \in 1..n : own[i] \in Owners
<1>1. DOMAIN own = 1..n /\ n \in Nat /\ \A i \in 1..n : own[i] \in Owners
    BY DEF OwnersKnown
<1>. QED
    BY <1>1 DEF TablesAre, categories, products, listings

LEMMA NewestIn ==
    ASSUME NEW S \in SUBSET Nat, S # {}, NEW n \in Nat, \A x \in S : x <= n
    PROVE  Max(S) \in S
<1>1. PICK T : T = {i \in Nat : n - i \in S}
    OBVIOUS
<1>2. T \subseteq Nat /\ T # {}
  <2>1. PICK x \in S : TRUE
      OBVIOUS
  <2>2. n - x \in Nat /\ n - (n - x) = x
      BY <2>1
  <2>. QED
      BY <1>1, <2>1, <2>2
<1>3. PICK i \in T : \A j \in T : ~ (j < i)
    BY <1>2, LeastOf
<1>4. n - i \in S
    BY <1>1, <1>3
<1>5. ASSUME NEW x \in S PROVE n - i >= x
  <2>1. n - x \in Nat /\ n - (n - x) = x
      OBVIOUS
  <2>2. n - x \in T
      BY <1>1, <2>1
  <2>. QED
      BY <1>1, <1>3, <2>1, <2>2
<1>. QED
    BY <1>4, <1>5 DEF Max

LEMMA OldestIn ==
    ASSUME NEW S \in SUBSET Nat, S # {}
    PROVE  Min(S) \in S
<1>1. PICK i \in S : \A j \in S : ~ (j < i)
    BY LeastOf
<1>2. \A j \in S : i <= j
    BY <1>1
<1>. QED
    BY <1>1, <1>2 DEF Min

LEMMA ShopCategoryIs ==
    ASSUME NEW own, NEW n, OwnersKnown(own, n), TablesAre(own, tables), NEW v, NEW c
    PROVE  /\ Copies(v, c) # {} => /\ ShopCategory(v, c) \in DOMAIN categories
                                   /\ categories[ShopCategory(v, c)].owner = v
                                   /\ ShopCategory(v, c) \in RowsOf(own, v)
                                   /\ Max(Copies(v, c)) \in Copies(v, c)
           /\ Copies(v, c) = {} => ShopCategory(v, c) = c
<1>1. CASE Copies(v, c) # {}
  <2>1. Copies(v, c) \subseteq 1..n /\ n \in Nat
      BY InTables DEF Copies
  <2>2. Max(Copies(v, c)) \in Copies(v, c)
    <3>1. Copies(v, c) \in SUBSET Nat /\ \A x \in Copies(v, c) : x <= n
        BY <2>1
    <3>. QED
        BY <1>1, <2>1, <3>1, NewestIn
  <2>3. ShopCategory(v, c) = Max(Copies(v, c))
      BY <1>1 DEF ShopCategory
  <2>. QED
      BY <1>1, <2>2, <2>3, InTables DEF Copies, CategoryIs, RowsOf
<1>. QED
    BY <1>1 DEF ShopCategory

LEMMA FoundHolds ==
    ASSUME NEW own, NEW n, OwnersKnown(own, n), TablesAre(own, tables)
    PROVE  Found
<1>1. SUFFICES ASSUME NEW l \in DOMAIN listings
               PROVE  /\ ForSale(l) => \E c \in CustomerCategories : listings[l].product \in PublicListProducts(c)
                      /\ ShopCategory(listings[l].vendor, products[listings[l].product].cat)
                           \in ListVendorCategories(listings[l].vendor)
    BY DEF Found
<1> DEFINE p == listings[l].product
           c == products[p].cat
           v == listings[l].vendor
<1>2. p \in DOMAIN products /\ c \in DOMAIN categories /\ v \in Stores
    BY InTables DEF ListingIs
<1>3. categories[c].owner \in {Laoji, v}
  <2>1. p \in Near(own, v) /\ own[l] = v
      BY InTables DEF ListingIs
  <2>2. c \in Near(own, own[p]) /\ categories[c].owner = own[c]
      BY <1>2, InTables DEF ProductIs, CategoryIs
  <2>. QED
      BY <2>1, <2>2 DEF Near, RowsOf
<1>4. ASSUME ForSale(l) PROVE \E d \in CustomerCategories : p \in PublicListProducts(d)
  <2>1. ASSUME NEW d, c \in Under(d) PROVE p \in PublicListProducts(d)
      BY <1>4, <2>1 DEF PublicListProducts
  <2>2. CASE categories[c].owner = Laoji \/ categories[c].template = Null
    <3>1. c \in CustomerCategories
        BY <1>2, <2>2 DEF CustomerCategories
    <3>2. c \in Under(c)
        BY RowsFinite, UnderHolds
    <3>. QED
        BY <2>1, <3>1, <3>2
  <2>3. CASE categories[c].owner # Laoji /\ categories[c].template # Null
    <3> DEFINE t == categories[c].template
    <3>1. t \in DOMAIN categories /\ t \in RowsOf(own, Laoji)
        BY <1>2, <2>3, InTables DEF CategoryIs
    <3>2. categories[t].owner = Laoji
        BY <3>1, InTables DEF CategoryIs, RowsOf
    <3>3. t \in CustomerCategories
        BY <3>1, <3>2 DEF CustomerCategories
    <3>4. c \in Under(t)
        BY <1>2, <2>3, RowsFinite, UnderHolds
    <3>. QED
        BY <2>1, <3>3, <3>4
  <2>. QED
      BY <2>2, <2>3
<1>5. ShopCategory(v, c) \in ListVendorCategories(v)
  <2>1. CASE Copies(v, c) # {}
      BY <2>1, ShopCategoryIs DEF ListVendorCategories
  <2>2. CASE Copies(v, c) = {} /\ categories[c].owner = v
      BY <1>2, <2>2, ShopCategoryIs DEF ListVendorCategories
  <2>3. CASE Copies(v, c) = {} /\ categories[c].owner = Laoji
    <3> DEFINE S == {k \in ListingsOf(v) : ShopCategory(v, products[listings[k].product].cat) = c}
    <3>1. ShopCategory(v, c) = c
        BY <2>3, ShopCategoryIs
    <3>2. l \in S
        BY <3>1 DEF ListingsOf
    <3>3. IsFiniteSet(S)
        BY RowsFinite, FS_Subset DEF ListingsOf
    <3>4. Cardinality(S) \in Nat /\ Cardinality(S) # 0
        BY <3>2, <3>3, FS_CardinalityType, FS_EmptySet
    <3>5. ProductCount(v, c) > 0
        BY <3>4 DEF ProductCount
    <3>. QED
        BY <1>2, <2>3, <3>1, <3>5 DEF ListVendorCategories
  <2>. QED
      BY <1>3, <2>1, <2>2, <2>3
<1>. QED
    BY <1>4, <1>5


-----------------------------------------------------------------------------
(* Who a row is of stays as more ids are drawn. *)
LEMMA Grown ==
    ASSUME NEW own, NEW n, OwnersKnown(own, n), NEW k \in Nat, NEW a \in Owners, NEW b \in Owners
    PROVE  \E g : /\ OwnersKnown(g, n + k) /\ Extends(own, g)
                  /\ \A i \in n + 1 .. n + k : i \in DOMAIN g /\ g[i] = IF i = n + 1 THEN a ELSE b
<1>1. n \in Nat /\ own \in [1..n -> Owners]
    BY DEF OwnersKnown
<1> DEFINE g == [i \in 1..n+k |-> IF i \in 1..n THEN own[i] ELSE IF i = n + 1 THEN a ELSE b]
<1>2. OwnersKnown(g, n + k)
    BY <1>1 DEF OwnersKnown
<1>3. Extends(own, g)
    BY <1>1 DEF Extends
<1>4. \A i \in n + 1 .. n + k : i \in DOMAIN g /\ g[i] = IF i = n + 1 THEN a ELSE b
    BY <1>1
<1> HIDE DEF g
<1>. QED
    BY <1>2, <1>3, <1>4

LEMMA Same ==
    ASSUME NEW own
    PROVE  Extends(own, own)
BY DEF Extends

LEMMA MineGrows ==
    ASSUME NEW own, NEW g, Extends(own, g)
    PROVE  /\ \A v : RowsOf(own, v) \subseteq RowsOf(g, v)
           /\ \A v : Near(own, v) \subseteq Near(g, v)
BY DEF Extends, RowsOf, Near

LEMMA RowsStay ==
    ASSUME NEW own, NEW g, Extends(own, g), NEW i \in DOMAIN own, NEW row
    PROVE  /\ i \in DOMAIN g /\ g[i] = own[i]
           /\ CategoryIs(own, i, row) => CategoryIs(g, i, row)
           /\ ProductIs(own, i, row) => ProductIs(g, i, row)
           /\ ListingIs(own, i, row) => ListingIs(g, i, row)
           /\ SuggestionIs(own, row) => SuggestionIs(g, row)
<1>1. i \in DOMAIN g /\ g[i] = own[i]
    BY DEF Extends
<1>2. /\ RowsOf(own, Laoji) \subseteq RowsOf(g, Laoji)
      /\ Near(own, own[i]) \subseteq Near(g, own[i])
    BY MineGrows
<1>3. CategoryIs(own, i, row) => CategoryIs(g, i, row)
    BY <1>1, <1>2 DEF CategoryIs
<1>4. ProductIs(own, i, row) => ProductIs(g, i, row)
    BY <1>1, <1>2 DEF ProductIs
<1>5. ListingIs(own, i, row) => ListingIs(g, i, row)
    BY <1>1, <1>2 DEF ListingIs
<1>6. SuggestionIs(own, row) => SuggestionIs(g, row)
    BY <1>2 DEF SuggestionIs
<1>. QED
    BY <1>1, <1>3, <1>4, <1>5, <1>6

LEMMA TablesStay ==
    ASSUME NEW own, NEW g, Extends(own, g), NEW d, TablesAre(own, d)
    PROVE  TablesAre(g, d)
<1>1. DOMAIN d = {"category", "product", "listing", "suggestion", "ordered"}
    BY DEF TablesAre
<1>2. ASSUME NEW c \in DOMAIN d.category
      PROVE  /\ c \in DOMAIN g /\ CategoryIs(g, c, d.category[c])
             /\ d.category[c].template \in DOMAIN d.category \cup {Null}
  <2>1. c \in DOMAIN own /\ CategoryIs(own, c, d.category[c])
        /\ d.category[c].template \in DOMAIN d.category \cup {Null}
      BY DEF TablesAre
  <2>. QED
      BY <2>1, RowsStay
<1>3. ASSUME NEW p \in DOMAIN d.product
      PROVE  p \in DOMAIN g /\ ProductIs(g, p, d.product[p]) /\ d.product[p].cat \in DOMAIN d.category
  <2>1. p \in DOMAIN own /\ ProductIs(own, p, d.product[p]) /\ d.product[p].cat \in DOMAIN d.category
      BY DEF TablesAre
  <2>. QED
      BY <2>1, RowsStay
<1>4. ASSUME NEW l \in DOMAIN d.listing
      PROVE  l \in DOMAIN g /\ ListingIs(g, l, d.listing[l]) /\ d.listing[l].product \in DOMAIN d.product
  <2>1. l \in DOMAIN own /\ ListingIs(own, l, d.listing[l]) /\ d.listing[l].product \in DOMAIN d.product
      BY DEF TablesAre
  <2>. QED
      BY <2>1, RowsStay
<1>5. ASSUME NEW s \in DOMAIN d.suggestion PROVE s \in DOMAIN g /\ SuggestionIs(g, d.suggestion[s])
  <2>1. s \in DOMAIN own /\ SuggestionIs(own, d.suggestion[s])
      BY DEF TablesAre
  <2>. QED
      BY <2>1, RowsStay
<1>. QED
    BY <1>1, <1>2, <1>3, <1>4, <1>5 DEF TablesAre

LEMMA QueryStays ==
    ASSUME NEW own, NEW g, Extends(own, g), NEW by, NEW q, Writes(own, by, q) \/ Reading(own, by, q)
    PROVE  Writes(g, by, q) \/ Reading(g, by, q)
<1>0. /\ \A v : RowsOf(own, v) \subseteq RowsOf(g, v)
      /\ \A v : Near(own, v) \subseteq Near(g, v)
      /\ \A i \in DOMAIN own : i \in DOMAIN g /\ g[i] = own[i]
    BY MineGrows DEF Extends
<1>1. CASE Inserts(own, by, q)
  <2>1. q.id \in DOMAIN own /\ q.id \in DOMAIN g /\ g[q.id] = own[q.id]
      BY <1>0, <1>1 DEF Inserts
  <2>2. Inserts(g, by, q)
      BY <1>1, <2>1, RowsStay DEF Inserts
  <2>. QED
      BY <2>2 DEF Writes
<1>2. CASE Updates(own, by, q)
  <2>1. q.id \in DOMAIN own /\ q.id \in DOMAIN g /\ g[q.id] = own[q.id]
      BY <1>0, <1>2 DEF Updates
  <2>2. /\ RowsOf(own, Laoji) \subseteq RowsOf(g, Laoji)
        /\ Near(own, own[q.id]) \subseteq Near(g, own[q.id])
      BY <1>0
  <2>3. Updates(g, by, q)
      BY <1>2, <2>1, <2>2 DEF Updates
  <2>. QED
      BY <2>3 DEF Writes
<1>3. CASE Moves(own, by, q)
  <2>1. Moves(g, by, q)
      BY <1>0, <1>3 DEF Moves
  <2>. QED
      BY <2>1 DEF Writes
<1>4. CASE Writes(own, by, q) /\ ~Inserts(own, by, q) /\ ~Updates(own, by, q) /\ ~Moves(own, by, q)
  <2>1. RowsOf(own, by) \subseteq RowsOf(g, by)
      BY <1>0
  <2>. QED
      BY <1>4, <2>1 DEF Writes
<1>5. CASE Reading(own, by, q)
  <2>1. \A c, row : c \in RowsOf(own, Laoji) /\ CategoryIs(own, c, row) => c \in RowsOf(g, Laoji) /\ CategoryIs(g, c, row)
      BY <1>0, RowsStay DEF RowsOf
  <2>2. \A c, row : c \in RowsOf(own, Laoji) /\ ProductIs(own, c, row) => c \in RowsOf(g, Laoji) /\ ProductIs(g, c, row)
      BY <1>0, RowsStay DEF RowsOf
  <2>3. CASE q.do = "move" \/ q.do = "detach"
      BY <1>5, <2>1, <2>3 DEF Reading
  <2>4. CASE q.do = "handOver" \/ q.do = "give"
      BY <1>5, <1>0, <2>2, <2>4 DEF Reading
  <2>5. CASE q.do \notin {"move", "detach", "handOver", "give"}
      BY <1>5, <1>0, <2>5 DEF Reading
  <2>. QED
      BY <2>3, <2>4, <2>5
<1>. QED
    BY <1>1, <1>2, <1>3, <1>4, <1>5

LEMMA EditStays ==
    ASSUME NEW own, NEW g, Extends(own, g), NEW e, EditIs(own, e)
    PROVE  EditIs(g, e)
<1>1. \A k \in 1..Len(e.todo) : Writes(g, e.by, e.todo[k]) \/ Reading(g, e.by, e.todo[k])
    BY QueryStays DEF EditIs, ListIs
<1>. QED
    BY <1>1 DEF EditIs, ListIs

-----------------------------------------------------------------------------
(* Lists of queries. *)
LEMMA OneIs ==
    ASSUME NEW own, NEW by, NEW q, Writes(own, by, q) \/ Reading(own, by, q)
    PROVE  /\ ListIs(own, by, <<q>>) /\ MildAfter(<<q>>)
           /\ ~Gives(q) => Mild(<<q>>)
           /\ <<q>> # <<>> /\ <<q>>[1] = q
<1>1. IsList(<<q>>) /\ Len(<<q>>) = 1 /\ <<q>>[1] = q
    BY ListOne
<1>2. 1..Len(<<q>>) = {1} /\ 2..Len(<<q>>) = {}
    BY <1>1
<1>. QED
    BY <1>1, <1>2 DEF ListIs, Mild, MildAfter

LEMMA NoneIs ==
    ASSUME NEW own, NEW by
    PROVE  ListIs(own, by, <<>>) /\ MildAfter(<<>>) /\ Mild(<<>>)
<1>1. IsList(<<>>) /\ Len(<<>>) = 0 /\ 1..Len(<<>>) = {}
    BY ListNone
<1>2. 2..Len(<<>>) = {}
    BY <1>1
<1>. QED
    BY <1>1, <1>2 DEF ListIs, Mild, MildAfter

LEMMA CatIs ==
    ASSUME NEW own, NEW by, NEW s, NEW t, ListIs(own, by, s), ListIs(own, by, t), Mild(t)
    PROVE  /\ ListIs(own, by, s \o t)
           /\ MildAfter(s) => MildAfter(s \o t)
           /\ Mild(s) => Mild(s \o t)
           /\ s # <<>> => s \o t # <<>> /\ (s \o t)[1] = s[1]
           /\ s = <<>> => s \o t = t
<1>1. IsList(s) /\ IsList(t)
    BY DEF ListIs
<1>2. /\ IsList(s \o t) /\ Len(s \o t) = Len(s) + Len(t)
      /\ \A k \in 1..Len(s) : (s \o t)[k] = s[k]
      /\ \A k \in 1..Len(t) : (s \o t)[Len(s) + k] = t[k]
    BY <1>1, ListCat
<1>3. Len(s) \in Nat /\ Len(t) \in Nat
    BY <1>1 DEF IsList
<1>4. ASSUME NEW k \in 1..Len(s \o t)
      PROVE  \/ k \in 1..Len(s) /\ (s \o t)[k] = s[k]
             \/ k - Len(s) \in 1..Len(t) /\ (s \o t)[k] = t[k - Len(s)]
  <2>1. CASE k <= Len(s)
      BY <1>2, <1>3, <2>1
  <2>2. CASE k > Len(s)
    <3>1. k - Len(s) \in 1..Len(t) /\ Len(s) + (k - Len(s)) = k
        BY <1>2, <1>3, <2>2
    <3>. QED
        BY <1>2, <3>1
  <2>. QED
      BY <1>2, <1>3, <2>1, <2>2
<1>5. ListIs(own, by, s \o t)
    BY <1>2, <1>4 DEF ListIs
<1>6. MildAfter(s) => MildAfter(s \o t)
  <2>1. SUFFICES ASSUME MildAfter(s), NEW k \in 2..Len(s \o t) PROVE ~Gives((s \o t)[k])
      BY DEF MildAfter
  <2>2. k \in 1..Len(s \o t) /\ k >= 2
      BY <1>2, <1>3
  <2>3. CASE k \in 1..Len(s) /\ (s \o t)[k] = s[k]
    <3>1. k \in 2..Len(s)
        BY <1>3, <2>2, <2>3
    <3>. QED
        BY <2>1, <2>3, <3>1 DEF MildAfter
  <2>4. CASE k - Len(s) \in 1..Len(t) /\ (s \o t)[k] = t[k - Len(s)]
      BY <2>4 DEF Mild
  <2>. QED
      BY <1>4, <2>2, <2>3, <2>4
<1>7. Mild(s) => Mild(s \o t)
    BY <1>4 DEF Mild
<1>8. s # <<>> => s \o t # <<>> /\ (s \o t)[1] = s[1]
  <2>1. SUFFICES ASSUME s # <<>> PROVE s \o t # <<>> /\ (s \o t)[1] = s[1]
      OBVIOUS
  <2>2. Len(s) > 0
      BY <1>1, <2>1, ListTail
  <2>3. 1 \in 1..Len(s) /\ Len(s \o t) > 0
      BY <1>2, <1>3, <2>2
  <2>4. Len(<<>>) = 0
      BY ListNone
  <2>. QED
      BY <1>2, <2>3, <2>4
<1>9. s = <<>> => s \o t = t
  <2>1. SUFFICES ASSUME s = <<>> PROVE s \o t = t
      OBVIOUS
  <2>2. Len(s) = 0
      BY <2>1, ListNone
  <2>3. Len(s \o t) = Len(t) /\ \A k \in 1..Len(t) : (s \o t)[k] = t[k]
    <3>1. \A k \in 1..Len(t) : Len(s) + k = k
        BY <1>3, <2>2
    <3>. QED
        BY <1>2, <1>3, <2>2, <3>1
  <2>4. s \o t = [k \in 1..Len(t) |-> (s \o t)[k]] /\ t = [k \in 1..Len(t) |-> t[k]]
      BY <1>1, <1>2, <2>3, Zenon DEF IsList
  <2>. QED
      BY <2>3, <2>4, Zenon
<1>. QED
    BY <1>5, <1>6, <1>7, <1>8, <1>9

LEMMA TailIs ==
    ASSUME NEW own, NEW by, NEW s, ListIs(own, by, s), s # <<>>, MildAfter(s)
    PROVE  /\ ListIs(own, by, Tail(s)) /\ Mild(Tail(s)) /\ MildAfter(Tail(s))
           /\ Writes(own, by, Head(s)) \/ Reading(own, by, Head(s))
           /\ Head(s) = s[1]
<1>1. /\ IsList(Tail(s)) /\ Len(Tail(s)) = Len(s) - 1
      /\ Len(s) \in Nat /\ Len(s) > 0 /\ Head(s) = s[1]
      /\ \A k \in 1..Len(s) - 1 : Tail(s)[k] = s[k + 1]
    BY ListTail DEF ListIs
<1>2. \A k \in 1..Len(Tail(s)) : k + 1 \in 1..Len(s) /\ k + 1 \in 2..Len(s) /\ Tail(s)[k] = s[k + 1]
    BY <1>1
<1>3. 1 \in 1..Len(s)
    BY <1>1
<1>4. 2..Len(Tail(s)) \subseteq 1..Len(Tail(s))
    BY <1>1
<1>. QED
    BY <1>1, <1>2, <1>3, <1>4 DEF ListIs, Mild, MildAfter

-----------------------------------------------------------------------------
(* A write leaves every row of the kind it should be. *)
LEMMA NullIsNoId ==
    ASSUME NEW own, NEW n, OwnersKnown(own, n), NEW v
    PROVE  Null \notin RowsOf(own, v) /\ Null \notin Near(own, v) /\ DOMAIN own = 1..n /\ n \in Nat
BY DEF OwnersKnown, RowsOf, Near, Null

LEMMA RefsAre ==
    ASSUME NEW own, NEW d, Consistent(d),
           DOMAIN d = {"category", "product", "listing", "suggestion", "ordered"},
           \A c \in DOMAIN d.category : c \in DOMAIN own /\ CategoryIs(own, c, d.category[c]),
           \A p \in DOMAIN d.product : p \in DOMAIN own /\ ProductIs(own, p, d.product[p]),
           \A l \in DOMAIN d.listing : l \in DOMAIN own /\ ListingIs(own, l, d.listing[l]),
           \A s \in DOMAIN d.suggestion : s \in DOMAIN own /\ SuggestionIs(own, d.suggestion[s])
    PROVE  TablesAre(own, d)
BY DEF TablesAre, Consistent

LEMMA InsertKeeps ==
    ASSUME NEW own, NEW by, NEW q, TablesAre(own, tables), Inserts(own, by, q),
           ~Taken(q), Consistent(Result(tables, q))
    PROVE  TablesAre(own, Result(tables, q))
<1> DEFINE d == Result(tables, q)
<1>1. d = [tables EXCEPT ![q.table] = WithRow(@, q.id, q.row)]
    BY DEF Result, Inserts
<1>2. DOMAIN tables = {"category", "product", "listing", "suggestion", "ordered"}
    BY DEF TablesAre
<1>3. /\ q.table \in {"category", "product", "listing", "suggestion"} /\ q.id \in DOMAIN own
      /\ q.table = "category" => CategoryIs(own, q.id, q.row)
      /\ q.table = "product" => ProductIs(own, q.id, q.row)
      /\ q.table = "listing" => ListingIs(own, q.id, q.row)
      /\ q.table = "suggestion" => SuggestionIs(own, q.row)
    BY DEF Inserts
<1>4. /\ DOMAIN d = DOMAIN tables
      /\ \A x \in DOMAIN tables : x # q.table => d[x] = tables[x]
      /\ d[q.table] = WithRow(tables[q.table], q.id, q.row)
    BY <1>1, <1>2, <1>3
<1>5. /\ DOMAIN d[q.table] = DOMAIN tables[q.table] \cup {q.id}
      /\ \A i \in DOMAIN d[q.table] : d[q.table][i] = IF i = q.id THEN q.row ELSE tables[q.table][i]
    BY <1>4 DEF WithRow
<1> HIDE DEF d
<1>6. ASSUME NEW c \in DOMAIN d.category PROVE c \in DOMAIN own /\ CategoryIs(own, c, d.category[c])
  <2>1. CASE q.table = "category"
      BY <1>3, <1>5, <2>1 DEF TablesAre
  <2>2. CASE q.table # "category"
      BY <1>2, <1>4, <2>2 DEF TablesAre
  <2>. QED
      BY <2>1, <2>2
<1>7. ASSUME NEW c \in DOMAIN d.product PROVE c \in DOMAIN own /\ ProductIs(own, c, d.product[c])
  <2>1. CASE q.table = "product"
      BY <1>3, <1>5, <2>1 DEF TablesAre
  <2>2. CASE q.table # "product"
      BY <1>2, <1>4, <2>2 DEF TablesAre
  <2>. QED
      BY <2>1, <2>2
<1>8. ASSUME NEW c \in DOMAIN d.listing PROVE c \in DOMAIN own /\ ListingIs(own, c, d.listing[c])
  <2>1. CASE q.table = "listing"
      BY <1>3, <1>5, <2>1 DEF TablesAre
  <2>2. CASE q.table # "listing"
      BY <1>2, <1>4, <2>2 DEF TablesAre
  <2>. QED
      BY <2>1, <2>2
<1>9. ASSUME NEW c \in DOMAIN d.suggestion PROVE c \in DOMAIN own /\ SuggestionIs(own, d.suggestion[c])
  <2>1. CASE q.table = "suggestion"
      BY <1>3, <1>5, <2>1 DEF TablesAre
  <2>2. CASE q.table # "suggestion"
      BY <1>2, <1>4, <2>2 DEF TablesAre
  <2>. QED
      BY <2>1, <2>2
<1>. QED
    BY <1>2, <1>4, <1>6, <1>7, <1>8, <1>9, RefsAre DEF d

LEMMA EditedIs ==
    ASSUME NEW row, NEW fields
    PROVE  /\ DOMAIN Edited(row, fields) = DOMAIN row
           /\ \A k \in DOMAIN row : Edited(row, fields)[k] = IF k \in DOMAIN fields THEN fields[k] ELSE row[k]
BY DEF Edited

LEMMA EditedRow ==
    ASSUME NEW own, NEW n, OwnersKnown(own, n), NEW by, NEW q, Updates(own, by, q), NEW row
    PROVE  /\ q.table = "category" /\ CategoryIs(own, q.id, row) => CategoryIs(own, q.id, Edited(row, q.fields))
           /\ q.table = "product" /\ ProductIs(own, q.id, row) => ProductIs(own, q.id, Edited(row, q.fields))
           /\ q.table = "listing" /\ ListingIs(own, q.id, row) => ListingIs(own, q.id, Edited(row, q.fields))
           /\ q.table = "suggestion" /\ SuggestionIs(own, row) => SuggestionIs(own, Edited(row, q.fields))
<1> DEFINE new == Edited(row, q.fields)
<1>1. /\ DOMAIN new = DOMAIN row
      /\ \A k \in DOMAIN row : new[k] = IF k \in DOMAIN q.fields THEN q.fields[k] ELSE row[k]
    BY EditedIs
<1> HIDE DEF new
<1>2. ASSUME q.table = "category", CategoryIs(own, q.id, row) PROVE CategoryIs(own, q.id, new)
    BY <1>1, <1>2 DEF Updates, CategoryIs, CategoryFields
<1>3. ASSUME q.table = "product", ProductIs(own, q.id, row) PROVE ProductIs(own, q.id, new)
    BY <1>1, <1>3 DEF Updates, ProductIs, ProductFields
<1>4. ASSUME q.table = "listing", ListingIs(own, q.id, row) PROVE ListingIs(own, q.id, new)
    BY <1>1, <1>4 DEF Updates, ListingIs, ListingFields
<1>5. ASSUME q.table = "suggestion", SuggestionIs(own, row) PROVE SuggestionIs(own, new)
  <2>1. Null \notin RowsOf(own, Laoji)
      BY NullIsNoId
  <2>. QED
      BY <1>1, <1>5, <2>1 DEF Updates, SuggestionIs, SuggestionFields
<1>. QED
    BY <1>2, <1>3, <1>4, <1>5 DEF new

LEMMA UpdateKeeps ==
    ASSUME NEW own, NEW n, OwnersKnown(own, n), NEW by, NEW q, TablesAre(own, tables), Updates(own, by, q),
           Consistent(Result(tables, q))
    PROVE  TablesAre(own, Result(tables, q))
<1> DEFINE d == Result(tables, q)
<1>1. d = IF q.id \notin DOMAIN tables[q.table] THEN tables
          ELSE [tables EXCEPT ![q.table][q.id] = Edited(@, q.fields)]
    BY DEF Result, Updates
<1>2. DOMAIN tables = {"category", "product", "listing", "suggestion", "ordered"}
    BY DEF TablesAre
<1>3. q.table \in {"category", "product", "listing", "suggestion"}
    BY DEF Updates
<1>4. CASE q.id \notin DOMAIN tables[q.table]
    BY <1>1, <1>4
<1>5. CASE q.id \in DOMAIN tables[q.table]
  <2>1. /\ DOMAIN d = DOMAIN tables
        /\ \A x \in DOMAIN tables : x # q.table => d[x] = tables[x]
        /\ DOMAIN d[q.table] = DOMAIN tables[q.table]
        /\ \A i \in DOMAIN tables[q.table] :
             d[q.table][i] = IF i = q.id THEN Edited(tables[q.table][i], q.fields) ELSE tables[q.table][i]
      BY <1>1, <1>2, <1>3, <1>5
  <2> HIDE DEF d
  <2>6. ASSUME NEW c \in DOMAIN d.category PROVE c \in DOMAIN own /\ CategoryIs(own, c, d.category[c])
    <3>1. CASE q.table = "category"
      <4>1. c \in DOMAIN own /\ CategoryIs(own, c, tables.category[c])
          BY <2>1, <3>1 DEF TablesAre
      <4>. QED
          BY <2>1, <3>1, <4>1, EditedRow
    <3>2. CASE q.table # "category"
        BY <1>2, <2>1, <3>2 DEF TablesAre
    <3>. QED
        BY <3>1, <3>2
  <2>7. ASSUME NEW c \in DOMAIN d.product PROVE c \in DOMAIN own /\ ProductIs(own, c, d.product[c])
    <3>1. CASE q.table = "product"
      <4>1. c \in DOMAIN own /\ ProductIs(own, c, tables.product[c])
          BY <2>1, <3>1 DEF TablesAre
      <4>. QED
          BY <2>1, <3>1, <4>1, EditedRow
    <3>2. CASE q.table # "product"
        BY <1>2, <2>1, <3>2 DEF TablesAre
    <3>. QED
        BY <3>1, <3>2
  <2>8. ASSUME NEW c \in DOMAIN d.listing PROVE c \in DOMAIN own /\ ListingIs(own, c, d.listing[c])
    <3>1. CASE q.table = "listing"
      <4>1. c \in DOMAIN own /\ ListingIs(own, c, tables.listing[c])
          BY <2>1, <3>1 DEF TablesAre
      <4>. QED
          BY <2>1, <3>1, <4>1, EditedRow
    <3>2. CASE q.table # "listing"
        BY <1>2, <2>1, <3>2 DEF TablesAre
    <3>. QED
        BY <3>1, <3>2
  <2>9. ASSUME NEW c \in DOMAIN d.suggestion PROVE c \in DOMAIN own /\ SuggestionIs(own, d.suggestion[c])
    <3>1. CASE q.table = "suggestion"
      <4>1. c \in DOMAIN own /\ SuggestionIs(own, tables.suggestion[c])
          BY <2>1, <3>1 DEF TablesAre
      <4>. QED
          BY <2>1, <3>1, <4>1, EditedRow
    <3>2. CASE q.table # "suggestion"
        BY <1>2, <2>1, <3>2 DEF TablesAre
    <3>. QED
        BY <3>1, <3>2
  <2>. QED
      BY <1>2, <2>1, <2>6, <2>7, <2>8, <2>9, RefsAre DEF d
<1>. QED
    BY <1>4, <1>5

LEMMA LessKeeps ==
    ASSUME NEW own, TablesAre(own, tables), NEW ids, NEW table \in {"category", "product", "listing"},
           Consistent(Dropped(tables, table, ids))
    PROVE  TablesAre(own, Dropped(tables, table, ids))
<1> DEFINE d == Dropped(tables, table, ids)
<1>1. DOMAIN tables = {"category", "product", "listing", "suggestion", "ordered"}
    BY DEF TablesAre
<1>2. CASE table = "product"
  <2>1. d = MinusProducts(tables, ids)
      BY <1>2 DEF Dropped
  <2>2. /\ DOMAIN d = DOMAIN tables /\ d.category = tables.category /\ d.suggestion = tables.suggestion
        /\ d.product = [p \in DOMAIN tables.product \ ids |->
                          IF tables.product[p].template \in ids THEN [tables.product[p] EXCEPT !.template = Null]
                          ELSE tables.product[p]]
        /\ d.listing = [l \in {l \in DOMAIN tables.listing : tables.listing[l].product \notin ids} |-> tables.listing[l]]
      BY <1>1, <2>1 DEF MinusProducts
  <2> HIDE DEF d
  <2>3. ASSUME NEW p \in DOMAIN d.product PROVE p \in DOMAIN own /\ ProductIs(own, p, d.product[p])
    <3>1. p \in DOMAIN own /\ ProductIs(own, p, tables.product[p])
        BY <2>2 DEF TablesAre
    <3>2. ProductIs(own, p, [tables.product[p] EXCEPT !.template = Null])
        BY <3>1 DEF ProductIs, ProductFields
    <3>. QED
        BY <2>2, <3>1, <3>2
  <2>4. ASSUME NEW l \in DOMAIN d.listing PROVE l \in DOMAIN own /\ ListingIs(own, l, d.listing[l])
      BY <2>2 DEF TablesAre
  <2>5. \A c \in DOMAIN d.category : c \in DOMAIN own /\ CategoryIs(own, c, d.category[c])
      BY <2>2 DEF TablesAre
  <2>6. \A c \in DOMAIN d.suggestion : c \in DOMAIN own /\ SuggestionIs(own, d.suggestion[c])
      BY <2>2 DEF TablesAre
  <2>. QED
      BY <1>1, <2>2, <2>3, <2>4, <2>5, <2>6, RefsAre DEF d
<1>3. CASE table = "category"
  <2>1. d = MinusCategories(tables, ids)
      BY <1>3 DEF Dropped
  <2>2. /\ DOMAIN d = DOMAIN tables /\ d.product = tables.product /\ d.listing = tables.listing
        /\ d.category = [c \in DOMAIN tables.category \ ids |->
                           IF tables.category[c].template \in ids THEN [tables.category[c] EXCEPT !.template = Null]
                           ELSE tables.category[c]]
        /\ d.suggestion = [s \in DOMAIN tables.suggestion |->
                             IF tables.suggestion[s].kind = "category" /\ tables.suggestion[s].cat \in ids
                             THEN [tables.suggestion[s] EXCEPT !.cat = Null] ELSE tables.suggestion[s]]
      BY <1>1, <2>1 DEF MinusCategories
  <2> HIDE DEF d
  <2>3. ASSUME NEW c \in DOMAIN d.category PROVE c \in DOMAIN own /\ CategoryIs(own, c, d.category[c])
    <3>1. c \in DOMAIN own /\ CategoryIs(own, c, tables.category[c])
        BY <2>2 DEF TablesAre
    <3>2. CategoryIs(own, c, [tables.category[c] EXCEPT !.template = Null])
        BY <3>1 DEF CategoryIs, CategoryFields
    <3>. QED
        BY <2>2, <3>1, <3>2
  <2>4. ASSUME NEW s \in DOMAIN d.suggestion PROVE s \in DOMAIN own /\ SuggestionIs(own, d.suggestion[s])
    <3>1. s \in DOMAIN own /\ SuggestionIs(own, tables.suggestion[s])
        BY <2>2 DEF TablesAre
    <3>2. tables.suggestion[s].kind = "category" => SuggestionIs(own, [tables.suggestion[s] EXCEPT !.cat = Null])
        BY <3>1 DEF SuggestionIs, SuggestionFields
    <3>. QED
        BY <2>2, <3>1, <3>2
  <2>5. \A p \in DOMAIN d.product : p \in DOMAIN own /\ ProductIs(own, p, d.product[p])
      BY <2>2 DEF TablesAre
  <2>6. \A l \in DOMAIN d.listing : l \in DOMAIN own /\ ListingIs(own, l, d.listing[l])
      BY <2>2 DEF TablesAre
  <2>. QED
      BY <1>1, <2>2, <2>3, <2>4, <2>5, <2>6, RefsAre DEF d
<1>4. CASE table = "listing"
  <2>2. /\ DOMAIN d = DOMAIN tables /\ d.product = tables.product /\ d.category = tables.category
        /\ d.suggestion = tables.suggestion
        /\ d.listing = [l \in DOMAIN tables.listing \ ids |-> tables.listing[l]]
      BY <1>1, <1>4 DEF Dropped
  <2> HIDE DEF d
  <2>3. \A c \in DOMAIN d.category : c \in DOMAIN own /\ CategoryIs(own, c, d.category[c])
      BY <2>2 DEF TablesAre
  <2>4. \A p \in DOMAIN d.product : p \in DOMAIN own /\ ProductIs(own, p, d.product[p])
      BY <2>2 DEF TablesAre
  <2>5. \A l \in DOMAIN d.listing : l \in DOMAIN own /\ ListingIs(own, l, d.listing[l])
      BY <2>2 DEF TablesAre
  <2>6. \A c \in DOMAIN d.suggestion : c \in DOMAIN own /\ SuggestionIs(own, d.suggestion[c])
      BY <2>2 DEF TablesAre
  <2>. QED
      BY <1>1, <2>2, <2>3, <2>4, <2>5, <2>6, RefsAre DEF d
<1>. QED
    BY <1>2, <1>3, <1>4

(* Fewer listings refer to no less. *)
LEMMA FewerListings ==
    ASSUME NEW own, TablesAre(own, tables), NEW ids
    PROVE  TablesAre(own, Dropped(tables, "listing", ids))
<1> DEFINE d == Dropped(tables, "listing", ids)
<1>1. DOMAIN tables = {"category", "product", "listing", "suggestion", "ordered"}
    BY DEF TablesAre
<1>2. /\ DOMAIN d = DOMAIN tables /\ d.product = tables.product /\ d.category = tables.category
      /\ d.suggestion = tables.suggestion
      /\ d.listing = [l \in DOMAIN tables.listing \ ids |-> tables.listing[l]]
    BY <1>1 DEF Dropped
<1> HIDE DEF d
<1>3. \A c \in DOMAIN d.category : c \in DOMAIN own /\ CategoryIs(own, c, d.category[c])
        /\ d.category[c].template \in DOMAIN d.category \cup {Null}
    BY <1>2 DEF TablesAre
<1>4. \A p \in DOMAIN d.product : p \in DOMAIN own /\ ProductIs(own, p, d.product[p]) /\ d.product[p].cat \in DOMAIN d.category
    BY <1>2 DEF TablesAre
<1>5. \A l \in DOMAIN d.listing : l \in DOMAIN own /\ ListingIs(own, l, d.listing[l]) /\ d.listing[l].product \in DOMAIN d.product
    BY <1>2 DEF TablesAre
<1>6. \A c \in DOMAIN d.suggestion : c \in DOMAIN own /\ SuggestionIs(own, d.suggestion[c])
    BY <1>2 DEF TablesAre
<1>7. TablesAre(own, d)
    BY <1>1, <1>2, <1>3, <1>4, <1>5, <1>6 DEF TablesAre
<1>. QED
    BY <1>7 DEF d

LEMMA RefileKeeps ==
    ASSUME NEW own, NEW n, OwnersKnown(own, n), NEW by \in Owners, NEW q, TablesAre(own, tables), Moves(own, by, q),
           Consistent(Refiled(tables, q))
    PROVE  TablesAre(own, Refiled(tables, q))
<1> DEFINE d == Refiled(tables, q)
<1>1. DOMAIN tables = {"category", "product", "listing", "suggestion", "ordered"}
    BY DEF TablesAre
<1>2. /\ DOMAIN d = DOMAIN tables /\ d.category = tables.category /\ d.suggestion = tables.suggestion
      /\ d.listing = tables.listing
      /\ d.product = [p \in DOMAIN tables.product |->
                        IF tables.product[p].owner \in q.owners /\ tables.product[p].cat = q.from
                        THEN [tables.product[p] EXCEPT !.cat = q.to] ELSE tables.product[p]]
    BY <1>1 DEF Refiled
<1> HIDE DEF d
<1>3. ASSUME NEW p \in DOMAIN d.product PROVE p \in DOMAIN own /\ ProductIs(own, p, d.product[p])
  <2>1. p \in DOMAIN own /\ ProductIs(own, p, tables.product[p])
      BY <1>2 DEF TablesAre
  <2>2. ASSUME tables.product[p].owner \in q.owners
        PROVE  ProductIs(own, p, [tables.product[p] EXCEPT !.cat = q.to])
    <3>1. q.to \in RowsOf(own, Laoji) \/ (q.to \in DOMAIN own /\ q.owners \subseteq {own[q.to]})
        BY DEF Moves
    <3>2. q.to \in Near(own, own[p])
        BY <2>1, <2>2, <3>1 DEF Near, RowsOf, ProductIs
    <3>. QED
        BY <2>1, <3>2 DEF ProductIs, ProductFields
  <2>. QED
      BY <1>2, <2>1, <2>2
<1>4. \A c \in DOMAIN d.category : c \in DOMAIN own /\ CategoryIs(own, c, d.category[c])
    BY <1>2 DEF TablesAre
<1>5. \A l \in DOMAIN d.listing : l \in DOMAIN own /\ ListingIs(own, l, d.listing[l])
    BY <1>2 DEF TablesAre
<1>6. \A c \in DOMAIN d.suggestion : c \in DOMAIN own /\ SuggestionIs(own, d.suggestion[c])
    BY <1>2 DEF TablesAre
<1>. QED
    BY <1>1, <1>2, <1>3, <1>4, <1>5, <1>6, RefsAre DEF d

LEMMA RestockKeeps ==
    ASSUME NEW own, TablesAre(own, tables), NEW l, Consistent(Restocked(tables, l))
    PROVE  TablesAre(own, Restocked(tables, l))
<1> DEFINE d == Restocked(tables, l)
<1>1. DOMAIN tables = {"category", "product", "listing", "suggestion", "ordered"}
    BY DEF TablesAre
<1>2. CASE l \notin DOMAIN tables.listing
    BY <1>2 DEF Restocked
<1>3. CASE l \in DOMAIN tables.listing
  <2>1. PICK row : row = Edited(tables.listing[l], [stock |-> tables.listing[l].stock + 1, on |-> TRUE, eta |-> FALSE])
      OBVIOUS
  <2>2. d = [tables EXCEPT !.listing[l] = row]
      BY <1>1, <1>3, <2>1 DEF Restocked
  <2>3. /\ DOMAIN d = DOMAIN tables /\ d.category = tables.category /\ d.suggestion = tables.suggestion
        /\ d.product = tables.product /\ DOMAIN d.listing = DOMAIN tables.listing
        /\ \A k \in DOMAIN tables.listing : d.listing[k] = IF k = l THEN row ELSE tables.listing[k]
      BY <1>1, <1>3, <2>2
  <2> HIDE DEF d
  <2>4. ASSUME NEW k \in DOMAIN d.listing PROVE k \in DOMAIN own /\ ListingIs(own, k, d.listing[k])
    <3>1. k \in DOMAIN own /\ ListingIs(own, k, tables.listing[k])
        BY <2>3 DEF TablesAre
    <3>2. k = l => DOMAIN row = ListingFields /\ row.vendor = tables.listing[k].vendor /\ row.product = tables.listing[k].product
      <4> DEFINE fields == [stock |-> tables.listing[l].stock + 1, on |-> TRUE, eta |-> FALSE]
      <4>1. DOMAIN fields = {"stock", "on", "eta"}
          OBVIOUS
      <4> HIDE DEF fields
      <4>2. row = Edited(tables.listing[l], fields)
          BY <2>1 DEF fields
      <4>3. /\ DOMAIN row = DOMAIN tables.listing[l]
            /\ \A x \in DOMAIN tables.listing[l] :
                 row[x] = IF x \in DOMAIN fields THEN fields[x] ELSE tables.listing[l][x]
          BY <4>2, EditedIs
      <4>4. k = l => DOMAIN tables.listing[l] = ListingFields
          BY <3>1 DEF ListingIs
      <4>. QED
          BY <4>1, <4>3, <4>4 DEF ListingFields
    <3>. QED
        BY <2>3, <3>1, <3>2 DEF ListingIs
  <2>5. \A c \in DOMAIN d.category : c \in DOMAIN own /\ CategoryIs(own, c, d.category[c])
      BY <2>3 DEF TablesAre
  <2>6. \A p \in DOMAIN d.product : p \in DOMAIN own /\ ProductIs(own, p, d.product[p])
      BY <2>3 DEF TablesAre
  <2>7. \A c \in DOMAIN d.suggestion : c \in DOMAIN own /\ SuggestionIs(own, d.suggestion[c])
      BY <2>3 DEF TablesAre
  <2>. QED
      BY <1>1, <2>3, <2>4, <2>5, <2>6, <2>7, RefsAre DEF d
<1>. QED
    BY <1>2, <1>3

LEMMA UnlinkKeeps ==
    ASSUME NEW own, TablesAre(own, tables), NEW ids
    PROVE  /\ Consistent(UnlinkProducts(tables, ids)) => TablesAre(own, UnlinkProducts(tables, ids))
           /\ Consistent(UnlinkTemplates(tables, ids)) => TablesAre(own, UnlinkTemplates(tables, ids))
           /\ Consistent(UnlinkCategories(tables, ids)) => TablesAre(own, UnlinkCategories(tables, ids))
<1>1. DOMAIN tables = {"category", "product", "listing", "suggestion", "ordered"}
    BY DEF TablesAre
<1>a. /\ \A c \in DOMAIN tables.category : c \in DOMAIN own /\ CategoryIs(own, c, tables.category[c])
      /\ \A p \in DOMAIN tables.product : p \in DOMAIN own /\ ProductIs(own, p, tables.product[p])
      /\ \A l \in DOMAIN tables.listing : l \in DOMAIN own /\ ListingIs(own, l, tables.listing[l])
      /\ \A s \in DOMAIN tables.suggestion : s \in DOMAIN own /\ SuggestionIs(own, tables.suggestion[s])
    BY DEF TablesAre
<1> DEFINE u == UnlinkProducts(tables, ids)
<1>2. /\ DOMAIN u = DOMAIN tables /\ u.category = tables.category /\ u.product = tables.product /\ u.listing = tables.listing
      /\ u.suggestion = [s \in DOMAIN tables.suggestion |->
                           IF tables.suggestion[s].made \in ids
                           THEN [tables.suggestion[s] EXCEPT !.made = Null] ELSE tables.suggestion[s]]
    BY <1>1 DEF UnlinkProducts
<1>3. \A s \in DOMAIN u.suggestion : s \in DOMAIN own /\ SuggestionIs(own, u.suggestion[s])
  <2>1. SUFFICES ASSUME NEW s \in DOMAIN u.suggestion PROVE s \in DOMAIN own /\ SuggestionIs(own, u.suggestion[s])
      OBVIOUS
  <2> HIDE DEF u
  <2>2. s \in DOMAIN own /\ SuggestionIs(own, tables.suggestion[s])
      BY <1>2, <1>a
  <2>3. SuggestionIs(own, [tables.suggestion[s] EXCEPT !.made = Null])
      BY <2>2 DEF SuggestionIs, SuggestionFields
  <2>. QED
      BY <1>2, <2>2, <2>3
<1>4. Consistent(u) => TablesAre(own, u)
  <2> HIDE DEF u
  <2>. QED
      BY <1>1, <1>2, <1>3, <1>a, RefsAre
<1> DEFINE t == UnlinkTemplates(tables, ids)
<1>5. /\ DOMAIN t = DOMAIN tables /\ t.category = tables.category /\ t.listing = tables.listing /\ t.suggestion = u.suggestion
      /\ t.product = [p \in DOMAIN tables.product |->
                        IF tables.product[p].template \in ids
                        THEN [tables.product[p] EXCEPT !.template = Null] ELSE tables.product[p]]
  <2>1. t = [u EXCEPT !.product = [p \in DOMAIN @ |->
                        IF @[p].template \in ids THEN [@[p] EXCEPT !.template = Null] ELSE @[p]]]
      BY DEF UnlinkTemplates
  <2> HIDE DEF u, t
  <2>. QED
      BY <1>1, <1>2, <2>1
<1>6. \A p \in DOMAIN t.product : p \in DOMAIN own /\ ProductIs(own, p, t.product[p])
  <2>1. SUFFICES ASSUME NEW p \in DOMAIN t.product PROVE p \in DOMAIN own /\ ProductIs(own, p, t.product[p])
      OBVIOUS
  <2> HIDE DEF t, u
  <2>2. p \in DOMAIN own /\ ProductIs(own, p, tables.product[p])
      BY <1>5, <1>a
  <2>3. ProductIs(own, p, [tables.product[p] EXCEPT !.template = Null])
      BY <2>2 DEF ProductIs, ProductFields
  <2>. QED
      BY <1>5, <2>2, <2>3
<1>7. Consistent(t) => TablesAre(own, t)
  <2> HIDE DEF u, t
  <2>. QED
      BY <1>1, <1>3, <1>5, <1>6, <1>a, RefsAre
<1> DEFINE c == UnlinkCategories(tables, ids)
<1>8. /\ DOMAIN c = DOMAIN tables /\ c.product = tables.product /\ c.listing = tables.listing
      /\ c.category = [i \in DOMAIN tables.category |->
                              IF tables.category[i].owner # Laoji /\ tables.category[i].parent \in ids
                              THEN [tables.category[i] EXCEPT !.parent = Null] ELSE tables.category[i]]
      /\ DOMAIN c.suggestion = {s \in DOMAIN tables.suggestion :
                                  ~(tables.suggestion[s].kind = "product" /\ tables.suggestion[s].cat \in ids)}
      /\ \A s \in DOMAIN c.suggestion :
           c.suggestion[s] = IF tables.suggestion[s].cat \in ids THEN [tables.suggestion[s] EXCEPT !.cat = Null]
                             ELSE tables.suggestion[s]
    BY <1>1 DEF UnlinkCategories
<1>9. \A i \in DOMAIN c.category : i \in DOMAIN own /\ CategoryIs(own, i, c.category[i])
  <2>1. SUFFICES ASSUME NEW i \in DOMAIN c.category PROVE i \in DOMAIN own /\ CategoryIs(own, i, c.category[i])
      OBVIOUS
  <2> HIDE DEF c
  <2>2. i \in DOMAIN own /\ CategoryIs(own, i, tables.category[i])
      BY <1>8, <1>a
  <2>3. CategoryIs(own, i, [tables.category[i] EXCEPT !.parent = Null])
      BY <2>2 DEF CategoryIs, CategoryFields
  <2>. QED
      BY <1>8, <2>2, <2>3
<1>10. \A s \in DOMAIN c.suggestion : s \in DOMAIN own /\ SuggestionIs(own, c.suggestion[s])
  <2>1. SUFFICES ASSUME NEW s \in DOMAIN c.suggestion PROVE s \in DOMAIN own /\ SuggestionIs(own, c.suggestion[s])
      OBVIOUS
  <2> HIDE DEF c
  <2>2. s \in DOMAIN tables.suggestion /\ s \in DOMAIN own /\ SuggestionIs(own, tables.suggestion[s])
      BY <1>8, <1>a
  <2>3. tables.suggestion[s].kind # "product" => SuggestionIs(own, [tables.suggestion[s] EXCEPT !.cat = Null])
      BY <2>2 DEF SuggestionIs, SuggestionFields
  <2>. QED
      BY <1>8, <2>2, <2>3
<1>11. Consistent(c) => TablesAre(own, c)
  <2> HIDE DEF c
  <2>. QED
      BY <1>1, <1>8, <1>9, <1>10, <1>a, RefsAre
<1>. QED
    BY <1>4, <1>7, <1>11 DEF u, t, c

(* The query that is run next. *)
Runs == {"insert", "update", "delete", "refile", "restock",
         "unlinkProduct", "unlinkTemplates", "unlinkCategories"}

LEMMA ResultKeeps ==
    ASSUME NEW own, NEW n, OwnersKnown(own, n), NEW by \in Owners, NEW q, TablesAre(own, tables),
           Writes(own, by, q), q.do \in Runs, ~Taken(q), Consistent(Result(tables, q))
    PROVE  TablesAre(own, Result(tables, q))
<1>1. CASE Inserts(own, by, q)
    BY <1>1, InsertKeeps
<1>2. CASE Updates(own, by, q)
    BY <1>2, UpdateKeeps
<1>3. CASE Moves(own, by, q)
  <2>1. Result(tables, q) = Refiled(tables, q)
      BY <1>3 DEF Result, Moves
  <2>. QED
      BY <1>3, <2>1, RefileKeeps
<1>4. CASE q.do = "delete" /\ q.table \in {"category", "product", "listing"}
  <2>1. Result(tables, q) = Dropped(tables, q.table, q.ids)
      BY <1>4 DEF Result
  <2>. QED
      BY <1>4, <2>1, LessKeeps
<1>5. CASE q.do = "restock"
  <2>1. Result(tables, q) = Restocked(tables, q.id)
      BY <1>5 DEF Result
  <2>. QED
      BY <2>1, RestockKeeps
<1>6. CASE q.do \in {"unlinkProduct", "unlinkTemplates", "unlinkCategories"}
  <2>1. \/ Result(tables, q) = UnlinkProducts(tables, q.ids)
        \/ Result(tables, q) = UnlinkTemplates(tables, q.ids)
        \/ Result(tables, q) = UnlinkCategories(tables, q.ids)
      BY <1>6 DEF Result
  <2>. QED
      BY <2>1, UnlinkKeeps
<1>. QED
    BY <1>1, <1>2, <1>3, <1>4, <1>5, <1>6 DEF Writes, Runs

-----------------------------------------------------------------------------
(* The sizes of an item, saved in one transaction. *)
LEMMA SizedKeeps ==
    ASSUME NEW own, OwnersKnown(own, lastId), TablesAre(own, tables),
           NEW by, NEW q, q.do = "sizes", Reading(own, by, q),
           q.listing \in DOMAIN listings,
           \A u \in DOMAIN q.wanted : q.wanted[u] \in Siblings(tables, q.vendor, q.listing) \cup {Null},
           NEW at \in SizeOrders(q),
           NEW g, OwnersKnown(g, lastId + 2 + 2 * Cardinality(Added(q))), Extends(own, g),
           \A i \in lastId + 1 .. lastId + 2 + 2 * Cardinality(Added(q)) : g[i] = q.vendor
    PROVE  /\ TablesAre(g, Sized(tables, q, lastId, at))
           /\ Sized(tables, q, lastId, at).category = categories
           /\ \A i \in DOMAIN products : own[i] # q.vendor =>
                i \in DOMAIN Sized(tables, q, lastId, at).product /\ Sized(tables, q, lastId, at).product[i] = products[i]
           /\ \A i \in DOMAIN listings : own[i] # q.vendor =>
                i \in DOMAIN Sized(tables, q, lastId, at).listing /\ Sized(tables, q, lastId, at).listing[i] = listings[i]
<1> DEFINE d == tables
           id == lastId
           l == q.listing
           v == q.vendor
           p == d.listing[l].product
           copied == d.product[p].owner # v /\ DOMAIN q.wanted # {}
           mine == IF copied THEN id + 1 ELSE p
           group == IF d.product[p].group # Null THEN d.product[p].group ELSE id + 2
           primary == [(IF copied THEN [CopyOf(v, p, d.product[p]) EXCEPT !.cat = d.product[p].cat, !.active = TRUE]
                                   ELSE d.product[p])
                         EXCEPT !.group = group, !.label = d.product[p].unit]
           size(u, row) == [row EXCEPT !.cat = primary.cat, !.name = primary.name, !.group = group,
                                       !.unit = u, !.label = u]
           new(u) == id + 1 + 2 * at[u]
           kept == DOMAIN q.wanted \ Added(q)
           of(u) == d.listing[q.wanted[u]].product
           gone == Siblings(d, v, l) \ {q.wanted[u] : u \in kept}
           taken == {d.listing[k].product : k \in gone}
           row(i) ==
             IF i = mine THEN IF DOMAIN q.wanted # {} THEN primary
                              ELSE IF d.product[p].group = Null THEN d.product[p]
                              ELSE Edited(d.product[p], Ungrouped)
             ELSE IF \E u \in Added(q) : new(u) = i
             THEN size(CHOOSE u \in Added(q) : new(u) = i, ProductRow(v, primary.cat, primary.name, "none"))
             ELSE IF i \in taken THEN [Edited(d.product[i], Ungrouped) EXCEPT !.active = FALSE]
             ELSE IF \E u \in kept : of(u) = i THEN size(CHOOSE u \in kept : of(u) = i, d.product[i])
             ELSE d.product[i]
           ps == [i \in DOMAIN d.product \cup {mine} \cup {new(u) : u \in Added(q)} |-> row(i)]
           ls == [i \in (DOMAIN d.listing \ gone) \cup {new(u) + 1 : u \in Added(q)} |->
                         IF i = l THEN [d.listing[l] EXCEPT !.product = mine]
                         ELSE IF \E u \in Added(q) : new(u) + 1 = i
                         THEN ListingRow(v, i - 1, [d.listing[l] EXCEPT !.on = TRUE, !.eta = FALSE])
                         ELSE d.listing[i]]
           s == Sized(tables, q, lastId, at)
<1>1. s = [d EXCEPT !.product = ps, !.listing = ls]
    BY Zenon DEF Sized
<1>2. DOMAIN tables = {"category", "product", "listing", "suggestion", "ordered"}
    BY DEF TablesAre
<1>3. /\ DOMAIN s = DOMAIN tables /\ s.category = tables.category /\ s.suggestion = tables.suggestion
      /\ s.product = ps /\ s.listing = ls
  <2> HIDE DEF s, ps, ls
  <2>. QED
      BY <1>1, <1>2
<1>4. /\ lastId \in Nat /\ DOMAIN own = 1..lastId
      /\ v \in Stores /\ v # Laoji /\ l \in RowsOf(own, v)
      /\ p \in DOMAIN products /\ own[p] \in {Laoji, v} /\ d.product[p].owner = own[p]
      /\ ProductIs(own, p, d.product[p]) /\ d.product[p].cat \in DOMAIN categories
      /\ ListingIs(own, l, d.listing[l])
  <2>1. lastId \in Nat /\ DOMAIN own = 1..lastId
      BY NullIsNoId
  <2>2. v \in Stores /\ l \in RowsOf(own, v)
      BY DEF Reading, Writes
  <2>3. v # Laoji
      BY <2>2, StoreCatalogAssumption
  <2>4. ListingIs(own, l, d.listing[l]) /\ p \in DOMAIN products
      BY DEF TablesAre, listings, products
  <2>5. ProductIs(own, p, d.product[p]) /\ d.product[p].cat \in DOMAIN categories
      BY <2>4 DEF TablesAre, categories, products
  <2>6. own[p] \in {Laoji, v}
      BY <2>2, <2>4 DEF ListingIs, Near, RowsOf
  <2>. QED
      BY <2>1, <2>2, <2>3, <2>4, <2>5, <2>6, Zenon DEF ProductIs
<1>5. /\ Cardinality(Added(q)) \in Nat /\ at \in [Added(q) -> 1 .. Cardinality(Added(q))]
      /\ Added(q) \subseteq DOMAIN q.wanted
  <2>1. DOMAIN q.wanted \subseteq Units
      BY DEF Reading
  <2>2. IsFiniteSet(Added(q))
      BY <2>1, StoreCatalogAssumption, FS_Subset, SMTT(30) DEF Added
  <2>. QED
      BY <2>2, FS_CardinalityType DEF SizeOrders, Injection, Added
<1> DEFINE N == lastId + 2 + 2 * Cardinality(Added(q))
<1>6. /\ \A u \in Added(q) : /\ new(u) \in lastId + 1 .. N /\ new(u) + 1 \in lastId + 1 .. N
                             /\ new(u) \notin DOMAIN own /\ new(u) + 1 \notin DOMAIN own
      /\ id + 1 \in lastId + 1 .. N /\ id + 1 \notin DOMAIN own
    BY <1>4, <1>5, SMTT(30)
<1>7. DOMAIN g = 1 .. N /\ \A i \in lastId + 1 .. N : i \in DOMAIN g /\ g[i] = v
  <2>1. DOMAIN g = 1 .. N
      BY DEF OwnersKnown
  <2>. QED
      BY <1>4, <2>1
<1>8. /\ mine \in DOMAIN g /\ g[mine] \in {Laoji, v}
      /\ ~copied => mine = p /\ g[mine] = own[p]
      /\ DOMAIN q.wanted # {} => g[mine] = v
      /\ copied => mine = id + 1 /\ own[p] = Laoji
  <2>1. p \in DOMAIN own
      BY <1>4, InTables
  <2>2. p \in DOMAIN g /\ g[p] = own[p]
      BY <2>1 DEF Extends
  <2>3. CASE copied
      BY <1>4, <1>6, <1>7, <2>3, Zenon
  <2>4. CASE ~copied
    <3>1. mine = p
        BY <2>4
    <3>2. DOMAIN q.wanted # {} => own[p] = v
        BY <1>4, <2>4, Zenon
    <3> HIDE DEF mine, copied
    <3>. QED
        BY <1>4, <2>2, <2>4, <3>1, <3>2, Zenon
  <2>. QED
      BY <2>3, <2>4, ZenonT(30)
<1>9. ASSUME DOMAIN q.wanted # {}
      PROVE  ProductIs(g, mine, primary) /\ primary.cat \in DOMAIN categories /\ primary.cat \in Near(g, v)
  <2>1. ProductIs(own, p, d.product[p]) /\ p \in DOMAIN own
      BY <1>4, InTables
  <2>2. ProductIs(g, p, d.product[p]) /\ g[p] = own[p]
      BY <2>1, RowsStay
  <2>3. CASE copied
    <3>1. primary = [[CopyOf(v, p, d.product[p]) EXCEPT !.cat = d.product[p].cat, !.active = TRUE]
                         EXCEPT !.group = group, !.label = d.product[p].unit]
        BY <2>3, SMTT(30)
    <3>2. p \in RowsOf(g, Laoji)
        BY <1>8, <2>1, <2>3 DEF RowsOf, Extends
    <3>3. d.product[p].cat \in RowsOf(g, Laoji)
        BY <1>8, <2>2, <2>3 DEF ProductIs, Near
    <3>4. DOMAIN d.product[p] = ProductFields
        BY <2>1 DEF ProductIs
    <3> HIDE DEF group, mine, copied, primary
    <3>5. /\ DOMAIN primary = ProductFields /\ primary.owner = v /\ primary.template = p
          /\ primary.cat = d.product[p].cat
        BY <3>1, <3>4, Zenon DEF CopyOf, ProductFields
    <3>. QED
        BY <1>4, <1>8, <1>9, <3>2, <3>3, <3>5, Zenon DEF ProductIs, Near
  <2>4. CASE ~copied
    <3>1. primary = [d.product[p] EXCEPT !.group = group, !.label = d.product[p].unit]
        BY <2>4, ZenonT(30)
    <3>2. mine = p /\ g[p] = v
        BY <1>8, <1>9, <2>4, SMTT(30)
    <3> HIDE DEF group, mine, copied, primary
    <3>3. DOMAIN d.product[p] = ProductFields
        BY <2>1 DEF ProductIs
    <3>4. /\ DOMAIN primary = ProductFields /\ primary.owner = d.product[p].owner
          /\ primary.template = d.product[p].template /\ primary.cat = d.product[p].cat
        BY <3>1, <3>3, SMTT(30) DEF ProductFields
    <3>. QED
        BY <1>4, <2>2, <3>2, <3>4, ZenonT(30) DEF ProductIs
  <2>. QED
      BY <2>3, <2>4, ZenonT(30)
<1>10. ASSUME NEW u, NEW r, NEW i, ProductIs(g, i, r), g[i] = v, DOMAIN q.wanted # {}
       PROVE  ProductIs(g, i, size(u, r)) /\ size(u, r).cat \in DOMAIN categories
  <2>1. primary.cat \in DOMAIN categories /\ primary.cat \in Near(g, v)
      BY <1>9, <1>10, Zenon
  <2> HIDE DEF primary, group
  <2>2. /\ DOMAIN size(u, r) = ProductFields /\ size(u, r).owner = r.owner /\ size(u, r).template = r.template
        /\ size(u, r).cat = primary.cat
      BY <1>10 DEF ProductIs, ProductFields
  <2> HIDE DEF size
  <2>. QED
      BY <1>4, <1>10, <2>1, <2>2 DEF ProductIs
<1>11. \A k \in Siblings(d, v, l) : /\ k \in DOMAIN listings /\ listings[k].vendor = v /\ k # l
                                    /\ d.listing[k].product \in DOMAIN products
                                    /\ own[d.listing[k].product] = v
  <2>1. \A k \in Siblings(d, v, l) : k \in DOMAIN d.listing /\ k # l /\ d.listing[k].vendor = v
                                      /\ d.product[d.listing[k].product].owner = v
      BY Zenon DEF Siblings
  <2>. QED
      BY <2>1, InTables DEF listings, products, ProductIs
<1>12. \A i \in taken : i \in DOMAIN products /\ own[i] = v
    BY <1>11
<1>13. \A u \in kept : u \in DOMAIN q.wanted /\ q.wanted[u] \in Siblings(d, v, l) /\ of(u) \in DOMAIN products /\ own[of(u)] = v
    BY <1>11 DEF Added
<1>14. \A i \in DOMAIN products : /\ i \in DOMAIN own /\ i \in DOMAIN g /\ g[i] = own[i]
                                  /\ ProductIs(g, i, d.product[i]) /\ d.product[i].cat \in DOMAIN categories
  <2>1. \A i \in DOMAIN products : i \in DOMAIN own /\ ProductIs(own, i, d.product[i]) /\ d.product[i].cat \in DOMAIN categories
      BY InTables DEF products
  <2>. QED
      BY <2>1, RowsStay
<1>15. DOMAIN Ungrouped = {"group", "label"} /\ Ungrouped.group = Null
    BY DEF Ungrouped
<1>16. ASSUME NEW r, NEW i, ProductIs(g, i, r)
       PROVE  /\ ProductIs(g, i, Edited(r, Ungrouped)) /\ Edited(r, Ungrouped).cat = r.cat
              /\ ProductIs(g, i, [Edited(r, Ungrouped) EXCEPT !.active = FALSE])
              /\ [Edited(r, Ungrouped) EXCEPT !.active = FALSE].cat = r.cat
  <2>1. DOMAIN r = ProductFields
      BY <1>16 DEF ProductIs
  <2>2. /\ DOMAIN Edited(r, Ungrouped) = DOMAIN r
        /\ \A k \in DOMAIN r : Edited(r, Ungrouped)[k] = IF k \in DOMAIN Ungrouped THEN Ungrouped[k] ELSE r[k]
      BY EditedIs
  <2>3. PICK e : e = Edited(r, Ungrouped)
      OBVIOUS
  <2>4. DOMAIN e = ProductFields /\ e.owner = r.owner /\ e.cat = r.cat /\ e.template = r.template /\ e.group = Null
      BY <1>15, <2>1, <2>2, <2>3 DEF ProductFields
  <2>5. ProductIs(g, i, e)
      BY <1>16, <2>4 DEF ProductIs
  <2>6. ProductIs(g, i, [e EXCEPT !.active = FALSE]) /\ [e EXCEPT !.active = FALSE].cat = e.cat
      BY <2>4, <2>5 DEF ProductIs, ProductFields
  <2>. QED
      BY <2>3, <2>4, <2>5, <2>6
<1>17. ASSUME NEW i \in DOMAIN ps
       PROVE  i \in DOMAIN g /\ ProductIs(g, i, row(i)) /\ row(i).cat \in DOMAIN categories
  <2>1. CASE i = mine
    <3>1. CASE DOMAIN q.wanted # {}
      <4>1. row(i) = primary
          BY <2>1, <3>1, Zenon
      <4> HIDE DEF row, primary, mine
      <4>. QED
          BY <1>8, <1>9, <2>1, <3>1, <4>1
    <3>2. CASE DOMAIN q.wanted = {}
      <4>1. row(i) = IF d.product[p].group = Null THEN d.product[p] ELSE Edited(d.product[p], Ungrouped)
          BY <2>1, <3>2
      <4>2. i = p
          BY <2>1, <3>2
      <4>3. p \in DOMAIN g /\ ProductIs(g, p, d.product[p]) /\ d.product[p].cat \in DOMAIN categories
          BY <1>4, <1>14, Zenon
      <4>4. ProductIs(g, p, Edited(d.product[p], Ungrouped)) /\ Edited(d.product[p], Ungrouped).cat = d.product[p].cat
          BY <1>16, <4>3, Zenon
      <4> HIDE DEF row, p
      <4>. QED
          BY <4>1, <4>2, <4>3, <4>4
    <3>. QED
        BY <3>1, <3>2, Zenon
  <2>2. CASE i # mine /\ \E u \in Added(q) : new(u) = i
    <3>1. PICK u : u \in Added(q) /\ new(u) = i /\ row(i) = size(u, ProductRow(v, primary.cat, primary.name, "none"))
      <4>1. row(i) = size(CHOOSE u \in Added(q) : new(u) = i, ProductRow(v, primary.cat, primary.name, "none"))
          BY <2>2, Zenon
      <4>2. \E u : u \in Added(q) /\ new(u) = i /\ u = CHOOSE w \in Added(q) : new(w) = i
        <5> HIDE DEF new
        <5>. QED
            BY <2>2, Zenon
      <4> HIDE DEF row, size, primary, new
      <4>. QED
          BY <4>1, <4>2, Zenon
    <3>2. DOMAIN q.wanted # {}
        BY <1>5, <3>1, Zenon
    <3>3. i \in DOMAIN g /\ g[i] = v
      <4> HIDE DEF new
      <4>. QED
          BY <1>6, <1>7, <3>1, Zenon
    <3>4. primary.cat \in Near(g, v)
        BY <1>9, <3>2, Zenon
    <3> HIDE DEF primary, row, new, size
    <3>5. ProductIs(g, i, ProductRow(v, primary.cat, primary.name, "none"))
        BY <1>4, <3>3, <3>4, Zenon DEF ProductRow, ProductIs, ProductFields
    <3>6. ProductIs(g, i, row(i)) /\ row(i).cat \in DOMAIN categories
        BY <1>10, <3>1, <3>2, <3>3, <3>5
    <3>. QED
        BY <3>3, <3>6
  <2>3. CASE i # mine /\ ~(\E u \in Added(q) : new(u) = i) /\ i \in taken
    <3>1. row(i) = [Edited(d.product[i], Ungrouped) EXCEPT !.active = FALSE]
        BY <2>3, Zenon
    <3>2. i \in DOMAIN products
        BY <1>12, <2>3, Zenon
    <3> HIDE DEF row
    <3>. QED
        BY <1>14, <1>16, <3>1, <3>2
  <2>4. CASE i # mine /\ ~(\E u \in Added(q) : new(u) = i) /\ i \notin taken /\ \E u \in kept : of(u) = i
    <3>1. PICK u : u \in kept /\ of(u) = i /\ row(i) = size(u, d.product[i])
      <4>1. row(i) = size(CHOOSE u \in kept : of(u) = i, d.product[i])
          BY <2>4, Zenon
      <4>2. \E u : u \in kept /\ of(u) = i /\ u = CHOOSE w \in kept : of(w) = i
        <5> HIDE DEF of, kept
        <5>. QED
            BY <2>4, Zenon
      <4> HIDE DEF row, size, of, kept
      <4>. QED
          BY <4>1, <4>2, Zenon
    <3>2. DOMAIN q.wanted # {} /\ i \in DOMAIN products /\ own[i] = v
        BY <1>13, <3>1, Zenon
    <3> HIDE DEF row, size, of, kept
    <3>. QED
        BY <1>10, <1>14, <3>1, <3>2
  <2>5. CASE i # mine /\ ~(\E u \in Added(q) : new(u) = i) /\ i \notin taken /\ ~ \E u \in kept : of(u) = i
    <3>1. row(i) = d.product[i]
        BY <2>5, Zenon
    <3>2. i \in DOMAIN products
        BY <2>5, Zenon DEF products
    <3> HIDE DEF row
    <3>. QED
        BY <1>14, <3>1, <3>2
  <2> HIDE DEF row, mine, new, taken, kept, of
  <2>. QED
      BY <2>1, <2>2, <2>3, <2>4, <2>5
<1>18. ASSUME NEW i \in DOMAIN products, own[i] # v PROVE i \in DOMAIN ps /\ row(i) = products[i]
  <2>1. i \in DOMAIN ps
      BY DEF products
  <2>2. i \in DOMAIN own /\ i \notin taken /\ ~ \E u \in kept : of(u) = i
      BY <1>12, <1>13, <1>14, <1>18
  <2>3. ~ \E u \in Added(q) : new(u) = i
      BY <1>6, <2>2
  <2>4. CASE i = mine
    <3>1. i = p /\ DOMAIN q.wanted = {}
      <4>1. ~copied
          BY <1>6, <1>8, <2>2, <2>4, Zenon
      <4>2. g[i] = own[i]
          BY <1>14, SMTT(30)
      <4> HIDE DEF mine, copied
      <4>. QED
          BY <1>8, <1>18, <2>4, <4>1, <4>2
    <3>2. own[p] = Laoji /\ d.product[p].group = Null
        BY <1>4, <1>18, <3>1 DEF ProductIs
    <3>3. row(i) = d.product[p]
        BY <2>4, <3>1, <3>2
    <3>. QED
        BY <2>1, <3>1, <3>3, Zenon DEF products
  <2>5. CASE i # mine
    <3>1. row(i) = d.product[i]
        BY <2>2, <2>3, <2>5
    <3>. QED
        BY <2>1, <3>1, Zenon DEF products
  <2>. QED
      BY <2>4, <2>5, Zenon
<1>19. ASSUME NEW i \in DOMAIN ls
       PROVE  i \in DOMAIN g /\ ListingIs(g, i, ls[i]) /\ ls[i].product \in DOMAIN ps
  <2>0. \A k \in DOMAIN listings : /\ k \in DOMAIN g /\ ListingIs(g, k, d.listing[k]) /\ g[k] = own[k]
                                   /\ d.listing[k].product \in DOMAIN products
    <3>1. \A k \in DOMAIN listings : k \in DOMAIN own /\ ListingIs(own, k, d.listing[k]) /\ d.listing[k].product \in DOMAIN products
        BY InTables DEF listings
    <3>. QED
        BY <3>1, RowsStay
  <2>1. CASE i = l
    <3>1. ls[i] = [d.listing[l] EXCEPT !.product = mine]
        BY <2>1, SMTT(30)
    <3>2. mine \in DOMAIN ps
        OBVIOUS
    <3>3. ListingIs(g, l, d.listing[l]) /\ l \in DOMAIN g /\ g[l] = v
        BY <1>4, <2>0, ZenonT(30) DEF RowsOf
    <3>4. mine \in Near(g, v)
        BY <1>8 DEF Near, RowsOf
    <3> HIDE DEF ls, ps, mine
    <3>. QED
        BY <2>1, <3>1, <3>2, <3>3, <3>4, SMTT(30) DEF ListingIs, ListingFields
  <2>2. CASE i # l /\ \E u \in Added(q) : new(u) + 1 = i
    <3>1. PICK u \in Added(q) : new(u) + 1 = i
        BY <2>2, SMTT(30)
    <3>2. ls[i] = ListingRow(v, i - 1, [d.listing[l] EXCEPT !.on = TRUE, !.eta = FALSE])
        BY <2>2
    <3>3. i - 1 = new(u) /\ new(u) \in DOMAIN ps
      <4>1. at[u] \in Nat /\ lastId \in Nat
          BY <1>4, <1>5
      <4>2. new(u) \in Nat
          BY <4>1, SMTT(30)
      <4>3. new(u) \in DOMAIN ps
          OBVIOUS
      <4> HIDE DEF new, ps
      <4>. QED
          BY <3>1, <4>2, <4>3, SMTT(30)
    <3>4. i \in DOMAIN g /\ g[i] = v /\ i - 1 \in DOMAIN g /\ g[i - 1] = v
      <4> HIDE DEF new
      <4>. QED
          BY <1>6, <1>7, <3>1, <3>3, Zenon
    <3>5. i - 1 \in Near(g, v)
        BY <3>4 DEF Near, RowsOf
    <3> HIDE DEF ls, ps, new
    <3>6. PICK k, terms : k = i - 1 /\ terms = [d.listing[l] EXCEPT !.on = TRUE, !.eta = FALSE]
        OBVIOUS
    <3>7. PICK r : r = ListingRow(v, k, terms)
        OBVIOUS
    <3>8. DOMAIN r = ListingFields /\ r.vendor = v /\ r.product = k
        BY <3>7 DEF ListingRow, ListingFields
    <3>9. ls[i] = r
        BY <3>2, <3>6, <3>7, SMTT(30)
    <3>10. ListingIs(g, i, r)
        BY <1>4, <3>4, <3>5, <3>6, <3>8 DEF ListingIs
    <3>11. r.product \in DOMAIN ps
        BY <3>3, <3>6, <3>8, Zenon
    <3>. QED
        BY <3>4, <3>9, <3>10, <3>11, Zenon
  <2>3. CASE i # l /\ ~ \E u \in Added(q) : new(u) + 1 = i
    <3>1. ls[i] = d.listing[i]
        BY <2>3
    <3>2. i \in DOMAIN listings
        BY <2>3, SMTT(30) DEF listings
    <3>3. \A j \in DOMAIN products : j \in DOMAIN ps
        BY DEF products
    <3> HIDE DEF ls, ps
    <3>. QED
        BY <2>0, <3>1, <3>2, <3>3
  <2>. QED
      BY <2>1, <2>2, <2>3, Zenon
<1>20. ASSUME NEW i \in DOMAIN listings, own[i] # v PROVE i \in DOMAIN ls /\ ls[i] = listings[i]
  <2>1. i \in DOMAIN own /\ listings[i].vendor = own[i]
      BY InTables DEF ListingIs
  <2>2. i \notin gone /\ i # l
      BY <1>4, <1>11, <1>20, <2>1, Zenon DEF RowsOf
  <2>3. ~ \E u \in Added(q) : new(u) + 1 = i
      BY <1>6, <2>1
  <2>. QED
      BY <2>2, <2>3 DEF listings
<1>21. TablesAre(g, s)
  <2>1. /\ \A c \in DOMAIN tables.category : c \in DOMAIN g /\ CategoryIs(g, c, tables.category[c])
               /\ tables.category[c].template \in DOMAIN tables.category \cup {Null}
        /\ \A c \in DOMAIN tables.suggestion : c \in DOMAIN g /\ SuggestionIs(g, tables.suggestion[c])
    <3>1. TablesAre(g, tables)
        BY TablesStay
    <3>. QED
        BY <3>1 DEF TablesAre
  <2>2. \A i \in DOMAIN ps : ps[i] = row(i)
      BY Zenon
  <2> HIDE DEF s, ps, ls, row
  <2>. QED
      BY <1>2, <1>3, <1>17, <1>19, <2>1, <2>2 DEF TablesAre, categories
<1>22. \A i \in DOMAIN ps : ps[i] = row(i)
    BY Zenon
<1> HIDE DEF s, ps, ls, row
<1>. QED
  <2>1. s.category = categories /\ s.product = ps /\ s.listing = ls
      BY <1>3 DEF categories
  <2>. QED
      BY <1>18, <1>20, <1>21, <1>22, <2>1 DEF s

-----------------------------------------------------------------------------
(* What the calls put on their lists. *)
LEMMA FineIsGood ==
    ASSUME NEW own, NEW by, NEW s, Fine(own, by, s)
    PROVE  Good(own, by, s)
<1>1. IsList(s) /\ Len(s) \in Nat
    BY DEF Fine, ListIs, IsList
<1>2. MildAfter(s)
    BY <1>1 DEF Fine, Mild, MildAfter
<1>3. s # <<>> => 1 \in 1..Len(s)
    BY <1>1, ListTail
<1>. QED
    BY <1>2, <1>3 DEF Fine, Good, Mild, Spare

LEMMA FineNone ==
    ASSUME NEW own, NEW by
    PROVE  Fine(own, by, <<>>)
BY NoneIs DEF Fine

LEMMA FineCat ==
    ASSUME NEW own, NEW by, NEW s, NEW t, Fine(own, by, t)
    PROVE  /\ Fine(own, by, s) => Fine(own, by, s \o t)
           /\ Good(own, by, s) => Good(own, by, s \o t)
<1>1. ASSUME Fine(own, by, s) PROVE Fine(own, by, s \o t)
    BY <1>1, CatIs DEF Fine
<1>2. ASSUME Good(own, by, s) PROVE Good(own, by, s \o t)
  <2>1. CASE s = <<>>
    <3>1. s \o t = t
        BY <1>2, <2>1, CatIs DEF Good, Fine
    <3>. QED
        BY <3>1, FineIsGood
  <2>2. CASE s # <<>>
      BY <1>2, <2>2, CatIs DEF Good, Fine
  <2>. QED
      BY <2>1, <2>2
<1>. QED
    BY <1>1, <1>2

LEMMA OneGood ==
    ASSUME NEW own, NEW by, NEW q, Writes(own, by, q) \/ Reading(own, by, q)
    PROVE  /\ Spare(q) => Good(own, by, <<q>>)
           /\ ~Gives(q) => Fine(own, by, <<q>>)
<1>1. ListIs(own, by, <<q>>) /\ MildAfter(<<q>>) /\ <<q>>[1] = q
    BY OneIs
<1>2. ~Gives(q) => Mild(<<q>>)
    BY OneIs
<1>. QED
    BY <1>1, <1>2 DEF Good, Fine

LEMMA NewCategoryRow ==
    ASSUME NEW own, NEW by, NEW id \in DOMAIN own, NEW owner, owner = own[id], NEW t, NEW parent, NEW name, NEW type,
           parent \in RowsOf(own, Laoji) \cup {Null}, t \in RowsOf(own, Laoji) \cup {Null},
           owner = Laoji => t = Null
    PROVE  /\ t = Null => Fine(own, by, InsertRow("category", id, CategoryRow(owner, t, parent, name, type)))
           /\ Copies(owner, t) = {} => Good(own, by, InsertRow("category", id, CategoryRow(owner, t, parent, name, type)))
<1> DEFINE row == CategoryRow(owner, t, parent, name, type)
           q == [do |-> "insert", table |-> "category", id |-> id, row |-> row]
<1>1. CategoryIs(own, id, row) /\ row.owner = owner /\ row.template = t
    BY DEF CategoryIs, CategoryRow, CategoryFields
<1>2. q.do = "insert" /\ q.table = "category" /\ q.id = id /\ q.row = row
    OBVIOUS
<1>3. <<q>> = InsertRow("category", id, row)
    BY DEF InsertRow
<1> HIDE DEF q, row
<1>4. Writes(own, by, q)
    BY <1>1, <1>2 DEF Writes, Inserts
<1>5. t = Null => ~Gives(q)
    BY <1>1, <1>2 DEF Gives
<1>6. Copies(owner, t) = {} => Spare(q)
    BY <1>1, <1>2 DEF Spare
<1>. QED
    BY <1>3, <1>4, <1>5, <1>6, OneGood DEF row

LEMMA NewProductRow ==
    ASSUME NEW own, NEW by, NEW id \in DOMAIN own, NEW row, ProductIs(own, id, row)
    PROVE  Fine(own, by, InsertRow("product", id, row))
<1> DEFINE q == [do |-> "insert", table |-> "product", id |-> id, row |-> row]
<1>1. Writes(own, by, q)
    BY DEF Writes, Inserts
<1>2. ~Gives(q)
    BY DEF Gives
<1>. QED
    BY <1>1, <1>2, OneGood DEF InsertRow

LEMMA NewListingRow ==
    ASSUME NEW own, NEW by, NEW id \in DOMAIN own, NEW v \in Stores, own[id] = v, by # Laoji => by = v,
           NEW p, p \in Near(own, v), NEW terms
    PROVE  Fine(own, by, InsertRow("listing", id, ListingRow(v, p, terms)))
<1> DEFINE row == ListingRow(v, p, terms)
           q == [do |-> "insert", table |-> "listing", id |-> id, row |-> row]
<1>1. ListingIs(own, id, row)
    BY DEF ListingIs, ListingRow, ListingFields
<1> HIDE DEF row
<1>2. Writes(own, by, q)
    BY <1>1 DEF Writes, Inserts
<1>3. ~Gives(q)
    BY DEF Gives
<1>4. InsertRow("listing", id, ListingRow(v, p, terms)) = <<q>>
    BY DEF InsertRow, row
<1>. QED
    BY <1>2, <1>3, <1>4, OneGood

LEMMA NewSuggestionRow ==
    ASSUME NEW own, NEW by, NEW id \in DOMAIN own, NEW v \in Stores, NEW kind, NEW name, NEW unit, NEW c,
           c \in RowsOf(own, Laoji) \cup {Null}, kind = "product" => c # Null
    PROVE  Fine(own, by, InsertRow("suggestion", id, SuggestionRow(kind, v, name, unit, c)))
<1> DEFINE row == SuggestionRow(kind, v, name, unit, c)
           q == [do |-> "insert", table |-> "suggestion", id |-> id, row |-> row]
<1>1. SuggestionIs(own, row)
    BY DEF SuggestionIs, SuggestionRow, SuggestionFields
<1> HIDE DEF row
<1>2. Writes(own, by, q)
    BY <1>1 DEF Writes, Inserts
<1>3. ~Gives(q)
    BY DEF Gives
<1>4. InsertRow("suggestion", id, SuggestionRow(kind, v, name, unit, c)) = <<q>>
    BY DEF InsertRow, row
<1>. QED
    BY <1>2, <1>3, <1>4, OneGood

LEMMA Changed ==
    ASSUME NEW own, NEW by, NEW table, NEW id, NEW fields,
           Updates(own, by, [do |-> "update", table |-> table, id |-> id, fields |-> fields])
    PROVE  /\ table # "category" \/ "template" \notin DOMAIN fields => Fine(own, by, UpdateRow(table, id, fields))
           /\ (id \in DOMAIN categories => Copies(categories[id].owner, fields.template) = {})
                => Good(own, by, UpdateRow(table, id, fields))
<1> DEFINE q == [do |-> "update", table |-> table, id |-> id, fields |-> fields]
<1>0. q.do = "update" /\ q.table = table /\ q.id = id /\ q.fields = fields
    OBVIOUS
<1>1. <<q>> = UpdateRow(table, id, fields)
    BY DEF UpdateRow
<1>2. Updates(own, by, q)
    OBVIOUS
<1> HIDE DEF q
<1>3. Writes(own, by, q)
    BY <1>2 DEF Writes
<1>4. table # "category" \/ "template" \notin DOMAIN fields => ~Gives(q)
    BY <1>0 DEF Gives
<1>5. (id \in DOMAIN categories => Copies(categories[id].owner, fields.template) = {}) => Spare(q)
    BY <1>0 DEF Spare
<1>. QED
    BY <1>1, <1>3, <1>4, <1>5, OneGood

LEMMA Refiles ==
    ASSUME NEW own, NEW by, NEW owners, NEW from, NEW to,
           to \in RowsOf(own, Laoji) \/ (to \in DOMAIN own /\ owners \subseteq {own[to]}),
           by # Laoji => owners \subseteq {by} \/ from \in RowsOf(own, by)
    PROVE  Fine(own, by, Refile(owners, from, to))
<1> DEFINE q == [do |-> "refile", owners |-> owners, from |-> from, to |-> to]
<1>0. q.do = "refile" /\ q.owners = owners /\ q.from = from /\ q.to = to
    OBVIOUS
<1>1. <<q>> = Refile(owners, from, to)
    BY DEF Refile
<1> HIDE DEF q
<1>2. Writes(own, by, q) /\ ~Gives(q)
    BY <1>0 DEF Writes, Moves, Gives
<1>. QED
    BY <1>1, <1>2, OneGood

LEMMA Deletes ==
    ASSUME NEW own, NEW by, NEW table \in {"category", "product", "listing"}, NEW ids,
           by # Laoji => ids \subseteq RowsOf(own, by)
    PROVE  Fine(own, by, DeleteRows(table, ids))
<1> DEFINE q == [do |-> "delete", table |-> table, ids |-> ids]
<1>0. q.do = "delete" /\ q.table = table /\ q.ids = ids
    OBVIOUS
<1>1. <<q>> = DeleteRows(table, ids)
    BY DEF DeleteRows
<1> HIDE DEF q
<1>2. Writes(own, by, q) /\ ~Gives(q)
    BY <1>0 DEF Writes, Gives
<1>. QED
    BY <1>1, <1>2, OneGood

LEMMA OtherQueries ==
    ASSUME NEW own, NEW by, NEW q, Writes(own, by, q) \/ Reading(own, by, q), q.do \notin {"insert", "update"}
    PROVE  Fine(own, by, <<q>>)
<1>1. ~Gives(q)
    BY DEF Gives
<1>. QED
    BY <1>1, OneGood

(* Ids drawn for a call. *)
LEMMA Draws ==
    ASSUME NEW own, OwnersKnown(own, lastId), TablesAre(own, tables), NEW k \in 0..2, NEW a \in Owners, NEW b \in Owners
    PROVE  \E g : /\ OwnersKnown(g, lastId + k) /\ Extends(own, g) /\ TablesAre(g, tables)
                  /\ k > 0 => lastId + 1 \in DOMAIN g /\ g[lastId + 1] = a
                  /\ k > 1 => lastId + 2 \in DOMAIN g /\ g[lastId + 2] = b
<1>1. PICK g : /\ OwnersKnown(g, lastId + k) /\ Extends(own, g)
               /\ \A i \in lastId + 1 .. lastId + k : i \in DOMAIN g /\ g[i] = IF i = lastId + 1 THEN a ELSE b
    BY Grown
<1>2. lastId \in Nat
    BY DEF OwnersKnown
<1>3. TablesAre(g, tables)
    BY <1>1, TablesStay
<1>4. k > 0 => lastId + 1 \in lastId + 1 .. lastId + k
    BY <1>2
<1>5. k > 1 => lastId + 2 \in lastId + 1 .. lastId + k /\ lastId + 2 # lastId + 1
    BY <1>2
<1>. QED
    BY <1>1, <1>3, <1>4, <1>5

LEMMA IsReady ==
    ASSUME NEW own, NEW h, NEW by \in Owners, NEW k \in Nat, NEW what, NEW todo, EditStarts(h, by, what, todo, k),
           NEW g, OwnersKnown(g, lastId + k), Extends(own, g), Good(g, by, todo)
    PROVE  Ready(own, h)
BY DEF Ready

-----------------------------------------------------------------------------
(* The rows a call reads. *)
LEMMA RowFacts ==
    ASSUME NEW g, NEW m, OwnersKnown(g, m), TablesAre(g, tables)
    PROVE  /\ \A c \in DOMAIN categories : /\ c \in DOMAIN g /\ categories[c].owner = g[c] /\ g[c] \in Owners /\ c # Null
                                           /\ categories[c].parent \in RowsOf(g, Laoji) \cup {Null}
                                           /\ categories[c].template \in RowsOf(g, Laoji) \cup {Null}
                                           /\ categories[c].template \in DOMAIN categories \cup {Null}
           /\ \A p \in DOMAIN products : /\ p \in DOMAIN g /\ products[p].owner = g[p] /\ g[p] \in Owners
                                         /\ ProductIs(g, p, products[p]) /\ products[p].cat \in Near(g, g[p])
                                         /\ products[p].cat \in DOMAIN categories
           /\ \A l \in DOMAIN listings : /\ l \in DOMAIN g /\ listings[l].vendor = g[l] /\ g[l] \in Stores
                                         /\ listings[l].product \in Near(g, g[l])
                                         /\ listings[l].product \in DOMAIN products
           /\ \A s \in DOMAIN suggestions : /\ s \in DOMAIN g /\ SuggestionIs(g, suggestions[s])
           /\ m \in Nat /\ DOMAIN g = 1..m /\ Null \notin DOMAIN g
<1>1. DOMAIN g = 1..m /\ m \in Nat /\ \A i \in 1..m : g[i] \in Owners
    BY InTables
<1>2. Null \notin DOMAIN g
    BY <1>1 DEF Null
<1>3. \A c \in DOMAIN categories : /\ c \in DOMAIN g /\ categories[c].owner = g[c] /\ g[c] \in Owners /\ c # Null
                                   /\ categories[c].parent \in RowsOf(g, Laoji) \cup {Null}
                                   /\ categories[c].template \in RowsOf(g, Laoji) \cup {Null}
                                   /\ categories[c].template \in DOMAIN categories \cup {Null}
    BY <1>1, <1>2, InTables DEF CategoryIs
<1>4. \A p \in DOMAIN products : /\ p \in DOMAIN g /\ products[p].owner = g[p] /\ g[p] \in Owners
                                 /\ ProductIs(g, p, products[p]) /\ products[p].cat \in Near(g, g[p])
                                 /\ products[p].cat \in DOMAIN categories
    BY <1>1, InTables DEF ProductIs
<1>5. \A l \in DOMAIN listings : /\ l \in DOMAIN g /\ listings[l].vendor = g[l] /\ g[l] \in Stores
                                 /\ listings[l].product \in Near(g, g[l])
                                 /\ listings[l].product \in DOMAIN products
    BY <1>1, InTables DEF ListingIs
<1>6. \A s \in DOMAIN suggestions : s \in DOMAIN g /\ SuggestionIs(g, suggestions[s])
    BY DEF TablesAre, suggestions
<1>. QED
    BY <1>1, <1>2, <1>3, <1>4, <1>5, <1>6

LEMMA StoresAre ==
    /\ \A v \in Stores : v # Laoji /\ v \in Owners
    /\ Laoji \in Owners
    /\ \A v \in Callers : v \in Stores
    /\ \A v \in Owners : v # Laoji => v \in Stores
BY StoreCatalogAssumption DEF Owners

LEMMA InShop ==
    ASSUME NEW g, NEW m, OwnersKnown(g, m), TablesAre(g, tables), NEW v, NEW c \in Near(g, v)
    PROVE  ShopCategory(v, c) \in Near(g, v)
<1>1. CASE Copies(v, c) = {}
    BY <1>1, ShopCategoryIs
<1>2. CASE Copies(v, c) # {}
    BY <1>2, ShopCategoryIs DEF Near
<1>. QED
    BY <1>1, <1>2

LEMMA UsableIs ==
    ASSUME NEW g, NEW m, OwnersKnown(g, m), TablesAre(g, tables), NEW v, NEW c \in DOMAIN categories, Usable(v, c)
    PROVE  c \in Near(g, v) /\ ShopCategory(v, c) \in Near(g, v)
<1>1. c \in Near(g, v)
    BY RowFacts DEF Usable, Near, RowsOf
<1>. QED
    BY <1>1, InShop

LEMMA OldestOf ==
    ASSUME NEW g, NEW m, OwnersKnown(g, m), TablesAre(g, tables), NEW S, S # {}, S \subseteq DOMAIN categories \/ S \subseteq DOMAIN listings
    PROVE  Min(S) \in S
<1>1. S \in SUBSET Nat
    BY InTables
<1>. QED
    BY <1>1, OldestIn

LEMMA RootIs ==
    ASSUME NEW g, NEW m, OwnersKnown(g, m), TablesAre(g, tables), NEW by, NEW type,
           lastId + 2 \in DOMAIN g, g[lastId + 2] = Laoji
    PROVE  RootOf(type) \in RowsOf(g, Laoji) /\ Fine(g, by, MakeRoot(type))
<1>1. CASE Roots(type) = {}
  <2>1. RootOf(type) \in RowsOf(g, Laoji)
      BY <1>1 DEF RootOf, RowsOf
  <2>2. MakeRoot(type) = InsertRow("category", lastId + 2, CategoryRow(Laoji, Null, Null, type, type))
      BY <1>1 DEF MakeRoot
  <2>. QED
      BY <2>1, <2>2, NewCategoryRow
<1>2. CASE Roots(type) # {}
  <2>1. Min(Roots(type)) \in Roots(type)
      BY <1>2, OldestOf DEF Roots, Named
  <2>2. RootOf(type) \in RowsOf(g, Laoji)
      BY <1>2, <2>1, RowFacts DEF RootOf, Roots, Named, RowsOf
  <2>3. MakeRoot(type) = <<>>
      BY <1>2 DEF MakeRoot
  <2>. QED
      BY <2>2, <2>3, FineNone
<1>. QED
    BY <1>1, <1>2

LEMMA NewCategoryIs ==
    ASSUME NEW g, NEW m, OwnersKnown(g, m), TablesAre(g, tables), NEW v \in Stores, NEW n,
           NEW t \in DOMAIN categories \cup {Null}, t # Null => categories[t].owner = Laoji,
           lastId + 1 \in DOMAIN g, g[lastId + 1] = v, lastId + 2 \in DOMAIN g, g[lastId + 2] = Laoji
    PROVE  Good(g, v, NewCategory(v, t, n))
<1> DEFINE same == Named(v, n)
           offered == {c \in Named(Laoji, n) : VisibleTo(v, c) /\ IsLeaf(c) /\ Copies(v, c) = {}}
           from == IF t # Null THEN t ELSE IF offered # {} THEN Min(offered) ELSE Null
           todo == NewCategory(v, t, n)
<1>0. todo = IF t # Null /\ Copies(v, t) # {} THEN <<>>
        ELSE IF same # {}
        THEN IF t = Null \/ categories[Min(same)].template # Null THEN <<>>
             ELSE UpdateRow("category", Min(same), [template |-> t]) \o Refile({v}, t, Min(same))
        ELSE IF from # Null
        THEN InsertRow("category", lastId + 1, CategoryRow(v, from, categories[from].parent, n, BusinessType(from)))
             \o Refile({v}, from, lastId + 1)
        ELSE MakeRoot(VendorType[v])
             \o InsertRow("category", lastId + 1, CategoryRow(v, Null, RootOf(VendorType[v]), n, VendorType[v]))
    BY DEF NewCategory
<1>1. Good(g, v, <<>>)
    BY FineNone, FineIsGood
<1>a. v # Laoji
    BY StoresAre
<1>2. CASE ~(t # Null /\ Copies(v, t) # {}) /\ same # {} /\ ~(t = Null \/ categories[Min(same)].template # Null)
  <2>1. Min(same) \in same
      BY <1>2, OldestOf DEF Named
  <2>2. PICK c : c = Min(same)
      OBVIOUS
  <2>3. c \in DOMAIN categories /\ categories[c].owner = v
      BY <2>1, <2>2 DEF Named
  <2>4. c \in DOMAIN g /\ g[c] = v /\ t \in RowsOf(g, Laoji) /\ Copies(v, t) = {}
      BY <1>2, <2>3, RowFacts DEF RowsOf
  <2>5. Updates(g, v, [do |-> "update", table |-> "category", id |-> c, fields |-> [template |-> t]])
      BY <1>a, <2>4 DEF Updates, CategoryFields
  <2>6. Good(g, v, UpdateRow("category", c, [template |-> t]))
      BY <2>3, <2>4, <2>5, Changed
  <2>7. Fine(g, v, Refile({v}, t, c))
      BY <2>4, Refiles
  <2>8. todo = UpdateRow("category", c, [template |-> t]) \o Refile({v}, t, c)
      BY <1>0, <1>2, <2>2
  <2> HIDE DEF todo
  <2>. QED
      BY <2>6, <2>7, <2>8, FineCat DEF todo
<1>3. CASE ~(t # Null /\ Copies(v, t) # {}) /\ same = {} /\ from # Null
  <2>1. from \in DOMAIN categories /\ categories[from].owner = Laoji /\ Copies(v, from) = {}
    <3>1. CASE t # Null
        BY <1>3, <3>1
    <3>2. CASE t = Null
      <4>1. offered # {} /\ from = Min(offered)
          BY <1>3, <3>2
      <4>2. Min(offered) \in offered
          BY <4>1, OldestOf DEF Named
      <4>. QED
          BY <4>1, <4>2 DEF Named
    <3>. QED
        BY <3>1, <3>2
  <2>2. PICK f : f = from
      OBVIOUS
  <2>3. f \in RowsOf(g, Laoji) /\ categories[f].parent \in RowsOf(g, Laoji) \cup {Null} /\ Copies(v, f) = {}
    <3> HIDE DEF from
    <3>1. f \in DOMAIN categories /\ categories[f].owner = Laoji /\ Copies(v, f) = {}
        BY <2>1, <2>2
    <3>. QED
        BY <3>1, RowFacts DEF RowsOf
  <2>4. todo = InsertRow("category", lastId + 1, CategoryRow(v, f, categories[f].parent, n, BusinessType(f)))
             \o Refile({v}, f, lastId + 1)
      BY <1>0, <1>3, <2>2
  <2>5. Good(g, v, InsertRow("category", lastId + 1, CategoryRow(v, f, categories[f].parent, n, BusinessType(f))))
      BY <1>a, <2>3, NewCategoryRow
  <2>6. Fine(g, v, Refile({v}, f, lastId + 1))
      BY Refiles
  <2> HIDE DEF todo
  <2>. QED
      BY <2>4, <2>5, <2>6, FineCat DEF todo
<1>4. CASE ~(t # Null /\ Copies(v, t) # {}) /\ same = {} /\ from = Null
  <2>1. todo = MakeRoot(VendorType[v])
             \o InsertRow("category", lastId + 1, CategoryRow(v, Null, RootOf(VendorType[v]), n, VendorType[v]))
      BY <1>0, <1>4
  <2>2. RootOf(VendorType[v]) \in RowsOf(g, Laoji) /\ Fine(g, v, MakeRoot(VendorType[v]))
      BY RootIs
  <2>3. Fine(g, v, InsertRow("category", lastId + 1, CategoryRow(v, Null, RootOf(VendorType[v]), n, VendorType[v])))
      BY <2>2, NewCategoryRow
  <2> HIDE DEF todo
  <2>. QED
      BY <2>1, <2>2, <2>3, FineCat, FineIsGood DEF todo
<1>. QED
    BY <1>0, <1>1, <1>2, <1>3, <1>4

-----------------------------------------------------------------------------
(* A store's calls. *)
LEMMA CategoryCallReady ==
    ASSUME NEW own, OwnersKnown(own, lastId), TablesAre(own, tables), NEW h, NEW v \in Stores, VendorCategoryCall(h, v)
    PROVE  Ready(own, h)
<1>0. v \in Owners /\ v # Laoji /\ Laoji \in Owners /\ 2 \in 0..2 /\ 1 \in 0..2 /\ 2 \in Nat /\ 1 \in Nat
    BY StoresAre
<1>1. PICK g : /\ OwnersKnown(g, lastId + 2) /\ Extends(own, g) /\ TablesAre(g, tables)
               /\ lastId + 1 \in DOMAIN g /\ g[lastId + 1] = v
               /\ lastId + 2 \in DOMAIN g /\ g[lastId + 2] = Laoji
  <2>1. \E g : /\ OwnersKnown(g, lastId + 2) /\ Extends(own, g) /\ TablesAre(g, tables)
               /\ 2 > 0 => lastId + 1 \in DOMAIN g /\ g[lastId + 1] = v
               /\ 2 > 1 => lastId + 2 \in DOMAIN g /\ g[lastId + 2] = Laoji
      BY <1>0, Draws
  <2>. QED
      BY <2>1
<1>2. PICK g1 : /\ OwnersKnown(g1, lastId + 1) /\ Extends(own, g1) /\ TablesAre(g1, tables)
                /\ lastId + 1 \in DOMAIN g1 /\ g1[lastId + 1] = v
  <2>1. \E x : /\ OwnersKnown(x, lastId + 1) /\ Extends(own, x) /\ TablesAre(x, tables)
               /\ 1 > 0 => lastId + 1 \in DOMAIN x /\ x[lastId + 1] = v
               /\ 1 > 1 => lastId + 2 \in DOMAIN x /\ x[lastId + 2] = Laoji
      BY <1>0, Draws
  <2>. QED
      BY <2>1
<1>3. ASSUME NEW n \in Names, NEW t \in DOMAIN categories \cup {Null}, CreateVendorCategory(h, v, t, n)
      PROVE  Ready(own, h)
  <2>1. t # Null => categories[t].owner = Laoji
      BY <1>3 DEF CreateVendorCategory
  <2>2. EditStarts(h, v, "createVendorCategory", NewCategory(v, t, n), 2)
      BY <1>3 DEF CreateVendorCategory
  <2>3. Good(g, v, NewCategory(v, t, n))
      BY <1>1, <2>1, NewCategoryIs
  <2>. QED
      BY <1>0, <1>1, <2>2, <2>3, IsReady
<1>4. ASSUME NEW n \in Names, NEW c \in DOMAIN categories, RenameVendorCategory(h, v, c, n)
      PROVE  Ready(own, h)
  <2>1. PICK s : s = ShopCategory(v, c)
      OBVIOUS
  <2> DEFINE todo == IF categories[s].owner = Laoji THEN NewCategory(v, c, n)
                     ELSE IF Named(v, n) \ {s} # {} THEN <<>>
                     ELSE UpdateRow("category", s, [name |-> n])
  <2>2. Usable(v, c) /\ EditStarts(h, v, "renameVendorCategory", todo, 2)
      BY <1>4, <2>1 DEF RenameVendorCategory
  <2>3. s \in Near(g, v) /\ s \in DOMAIN categories
    <3>1. s \in Near(g, v)
        BY <1>1, <2>1, <2>2, UsableIs
    <3>2. s \in DOMAIN categories
        BY <1>1, <2>1, ShopCategoryIs
    <3>. QED
        BY <3>1, <3>2
  <2>4. CASE categories[s].owner = Laoji
    <3>1. s = c
      <4>1. CASE Copies(v, c) # {}
          BY <1>0, <1>1, <2>1, <2>4, <4>1, ShopCategoryIs
      <4>2. CASE Copies(v, c) = {}
          BY <1>1, <2>1, <4>2, ShopCategoryIs
      <4>. QED
          BY <4>1, <4>2
    <3>2. Good(g, v, NewCategory(v, c, n))
        BY <1>1, <2>4, <3>1, NewCategoryIs
    <3>3. Good(g, v, todo)
        BY <2>4, <3>2
    <3> HIDE DEF todo
    <3>. QED
        BY <1>0, <1>1, <2>2, <3>3, IsReady
  <2>5. CASE categories[s].owner # Laoji
    <3>1. s \in DOMAIN g /\ g[s] = v
        BY <1>1, <2>3, <2>5, RowFacts DEF Near, RowsOf
    <3>2. Updates(g, v, [do |-> "update", table |-> "category", id |-> s, fields |-> [name |-> n]])
        BY <3>1 DEF Updates, CategoryFields
    <3>3. Fine(g, v, UpdateRow("category", s, [name |-> n]))
        BY <3>2, Changed
    <3>4. Good(g, v, todo)
        BY <2>5, <3>3, FineNone, FineIsGood
    <3> HIDE DEF todo
    <3>. QED
        BY <1>0, <1>1, <2>2, <3>4, IsReady
  <2>. QED
      BY <2>4, <2>5
<1>5. ASSUME NEW c \in DOMAIN categories, DeleteVendorCategory(h, v, c)
      PROVE  Ready(own, h)
  <2> DEFINE row == categories[c]
             type == VendorType[v]
             home == IF row.template # Null THEN row.template ELSE row.parent
             to == IF home = Null THEN RootOf(type) ELSE home
             s == IF home = Null THEN MakeRoot(type) ELSE <<>>
             todo == s \o Refile(Stores \cup {Laoji}, c, to) \o DeleteRows("category", {c})
  <2>1. row.owner = v /\ EditStarts(h, v, "deleteVendorCategory", todo, 2)
      BY <1>5 DEF DeleteVendorCategory
  <2>2. c \in RowsOf(g, v)
      BY <1>1, <2>1, RowFacts DEF RowsOf
  <2>3. to \in RowsOf(g, Laoji)
    <3>1. home \in RowsOf(g, Laoji) \cup {Null}
        BY <1>1, RowFacts
    <3>2. RootOf(type) \in RowsOf(g, Laoji)
        BY <1>1, RootIs
    <3> HIDE DEF home
    <3>. QED
        BY <3>1, <3>2
  <2>4. Fine(g, v, s)
    <3>1. Fine(g, v, MakeRoot(type))
        BY <1>1, RootIs
    <3>. QED
        BY <3>1, FineNone
  <2> HIDE DEF to, s
  <2>5. Fine(g, v, Refile(Stores \cup {Laoji}, c, to))
      BY <2>2, <2>3, Refiles
  <2>6. Fine(g, v, DeleteRows("category", {c}))
      BY <2>2, Deletes
  <2>7. Good(g, v, todo)
      BY <2>4, <2>5, <2>6, FineCat, FineIsGood
  <2> HIDE DEF todo
  <2>. QED
      BY <1>0, <1>1, <2>1, <2>7, IsReady
<1>6. ASSUME NEW n \in Names, CreateCategorySuggestion(h, v, n)
      PROVE  Ready(own, h)
  <2>1. EditStarts(h, v, "createCategorySuggestion", InsertRow("suggestion", lastId + 1, SuggestionRow("category", v, n, "none", Null)), 1)
      BY <1>6 DEF CreateCategorySuggestion
  <2>2. Fine(g1, v, InsertRow("suggestion", lastId + 1, SuggestionRow("category", v, n, "none", Null)))
      BY <1>2, NewSuggestionRow
  <2>. QED
      BY <1>0, <1>2, <2>1, <2>2, FineIsGood, IsReady
<1>7. ASSUME NEW n \in Names, NEW c \in DOMAIN categories, CreateProductSuggestion(h, v, c, n, NewUnit)
      PROVE  Ready(own, h)
  <2>1. /\ categories[LaojiCategory(c)].owner = Laoji
        /\ EditStarts(h, v, "createProductSuggestion",
              InsertRow("suggestion", lastId + 1, SuggestionRow("product", v, n, NewUnit, LaojiCategory(c))), 1)
      BY <1>7 DEF CreateProductSuggestion
  <2>2. LaojiCategory(c) \in DOMAIN categories
      BY <1>2, RowFacts DEF LaojiCategory
  <2>3. LaojiCategory(c) \in RowsOf(g1, Laoji) /\ LaojiCategory(c) # Null
      BY <1>2, <2>1, <2>2, RowFacts DEF RowsOf
  <2>4. Fine(g1, v, InsertRow("suggestion", lastId + 1, SuggestionRow("product", v, n, NewUnit, LaojiCategory(c))))
      BY <1>2, <2>3, NewSuggestionRow
  <2>. QED
      BY <1>0, <1>2, <2>1, <2>4, FineIsGood, IsReady
<1>. QED
    BY <1>3, <1>4, <1>5, <1>6, <1>7 DEF VendorCategoryCall

LEMMA CopyIs ==
    ASSUME NEW g, NEW m, OwnersKnown(g, m), TablesAre(g, tables), NEW v \in Stores, NEW p \in DOMAIN g, g[p] = Laoji,
           NEW row, ProductIs(g, p, row), NEW i \in DOMAIN g, g[i] = v
    PROVE  /\ ProductIs(g, i, CopyOf(v, p, row))
           /\ ProductIs(g, i, [CopyOf(v, p, row) EXCEPT !.cat = row.cat, !.active = TRUE])
           /\ CopyOf(v, p, row).name = row.name /\ CopyOf(v, p, row).unit = row.unit /\ CopyOf(v, p, row).active = row.active
<1>1. v # Laoji
    BY StoresAre
<1>2. row.cat \in RowsOf(g, Laoji)
    BY DEF ProductIs, Near
<1>3. ShopCategory(v, row.cat) \in Near(g, v)
    BY <1>2, InShop DEF Near
<1>4. p \in RowsOf(g, Laoji)
    BY DEF RowsOf
<1>5. DOMAIN row = ProductFields
    BY DEF ProductIs
<1> DEFINE copy == CopyOf(v, p, row)
<1>6. /\ DOMAIN copy = ProductFields /\ copy.owner = v /\ copy.template = p /\ copy.cat = ShopCategory(v, row.cat)
      /\ copy.name = row.name /\ copy.unit = row.unit /\ copy.active = row.active
    BY <1>5 DEF CopyOf, ProductFields
<1> HIDE DEF copy
<1>7. ProductIs(g, i, copy)
    BY <1>1, <1>3, <1>4, <1>6 DEF ProductIs
<1> DEFINE again == [copy EXCEPT !.cat = row.cat, !.active = TRUE]
<1>8. DOMAIN again = ProductFields /\ again.owner = v /\ again.template = p /\ again.cat = row.cat
    BY <1>6 DEF ProductFields
<1> HIDE DEF again
<1>9. ProductIs(g, i, again)
    BY <1>1, <1>2, <1>4, <1>8 DEF ProductIs, Near
<1>. QED
    BY <1>6, <1>7, <1>9 DEF again, copy

LEMMA EditedProduct ==
    ASSUME NEW g, NEW m, OwnersKnown(g, m), NEW i \in DOMAIN g, NEW row, ProductIs(g, i, row),
           NEW fields, DOMAIN fields \subseteq {"name", "unit", "cat", "active"},
           "cat" \in DOMAIN fields => fields.cat \in Near(g, g[i])
    PROVE  ProductIs(g, i, Edited(row, fields))
<1> DEFINE q == [do |-> "update", table |-> "product", id |-> i, fields |-> fields]
<1>1. q.do = "update" /\ q.table = "product" /\ q.id = i /\ q.fields = fields
    OBVIOUS
<1> HIDE DEF q
<1>2. Updates(g, g[i], q)
    BY <1>1 DEF Updates, ProductFields
<1>. QED
    BY <1>1, <1>2, EditedRow

LEMMA ChangedProduct ==
    ASSUME NEW g, NEW m, OwnersKnown(g, m), NEW by, NEW i \in DOMAIN g, by # Laoji => g[i] = by,
           NEW fields, DOMAIN fields \subseteq {"name", "unit", "cat", "active"},
           "cat" \in DOMAIN fields => fields.cat \in Near(g, g[i])
    PROVE  Fine(g, by, UpdateRow("product", i, fields))
<1>1. Updates(g, by, [do |-> "update", table |-> "product", id |-> i, fields |-> fields])
    BY DEF Updates, ProductFields
<1>. QED
    BY <1>1, Changed

LEMMA ChangedListing ==
    ASSUME NEW g, NEW m, OwnersKnown(g, m), NEW by, NEW i \in DOMAIN g, by # Laoji => g[i] = by,
           NEW fields, DOMAIN fields \subseteq ListingFields \ {"vendor"},
           "product" \in DOMAIN fields => fields.product \in Near(g, g[i])
    PROVE  Fine(g, by, UpdateRow("listing", i, fields))
<1>1. Updates(g, by, [do |-> "update", table |-> "listing", id |-> i, fields |-> fields])
    BY DEF Updates
<1>. QED
    BY <1>1, Changed

DetailsIs(own, v, details) == DOMAIN details = {"name", "unit", "cat"} /\ details.cat \in Near(own, v)

LEMMA DetailsAre ==
    ASSUME NEW g, NEW m, OwnersKnown(g, m), TablesAre(g, tables), NEW v \in Stores, NEW p \in DOMAIN products,
           p \in Near(g, v), NEW details \in Details(v, p)
    PROVE  DetailsIs(g, v, details)
<1>1. products[p].cat \in Near(g, v)
    BY RowFacts DEF Near, RowsOf
<1>2. ShopCategory(v, products[p].cat) \in Near(g, v)
    BY <1>1, InShop
<1>3. DOMAIN details = {"name", "unit", "cat"} /\ details.cat \in Near(g, v)
  <2> DEFINE shown == AsShown(v, p)
  <2>1. DOMAIN shown = {"name", "unit", "cat"} /\ shown.cat = ShopCategory(v, products[p].cat)
      BY DEF AsShown
  <2>2. \/ details = shown
        \/ \E n \in Names : details = [shown EXCEPT !.name = n]
        \/ \E u \in Units : details = [shown EXCEPT !.unit = u]
        \/ \E c \in DOMAIN categories : Usable(v, c) /\ details = [shown EXCEPT !.cat = c]
      BY DEF Details
  <2>3. \A c \in DOMAIN categories : Usable(v, c) => c \in Near(g, v)
      BY UsableIs
  <2> HIDE DEF shown
  <2>. QED
      BY <1>2, <2>1, <2>2, <2>3
<1>. QED
    BY <1>3 DEF DetailsIs

LEMMA ChangesAre ==
    ASSUME NEW g, NEW m, OwnersKnown(g, m), TablesAre(g, tables), NEW v, NEW p, NEW details, DetailsIs(g, v, details)
    PROVE  /\ DOMAIN Changes(v, p, details) \subseteq {"name", "unit", "cat"}
           /\ "cat" \in DOMAIN Changes(v, p, details) => Changes(v, p, details).cat \in Near(g, v)
<1>3. DOMAIN details = {"name", "unit", "cat"} /\ details.cat \in Near(g, v)
    BY DEF DetailsIs
<1> DEFINE sent == [details EXCEPT !.cat = ShopCategory(v, @)]
           changed == {k \in DOMAIN sent : sent[k] # AsShown(v, p)[k]}
<1>4. ShopCategory(v, details.cat) \in Near(g, v)
    BY <1>3, InShop
<1>5. Changes(v, p, details) = [k \in changed |-> sent[k]]
    BY DEF Changes
<1>6. DOMAIN sent = {"name", "unit", "cat"} /\ sent.cat = ShopCategory(v, details.cat)
    BY <1>3
<1>7. DOMAIN Changes(v, p, details) = changed /\ changed \subseteq {"name", "unit", "cat"}
    BY <1>5, <1>6
<1>8. "cat" \in DOMAIN Changes(v, p, details) => Changes(v, p, details).cat = ShopCategory(v, details.cat)
    BY <1>5, <1>6
<1>. QED
    BY <1>4, <1>7, <1>8

LEMMA ToList ==
    ASSUME NEW g, NEW m, OwnersKnown(g, m), TablesAre(g, tables), NEW v \in Stores, NEW p \in DOMAIN products,
           p \in Near(g, v), NEW details, DetailsIs(g, v, details), NEW id \in DOMAIN g, g[id] = v
    PROVE  /\ Fine(g, v, ProductForListing(v, p, details, id).todo)
           /\ ProductForListing(v, p, details, id).id \in Near(g, v)
<1> DEFINE changes == Changes(v, p, details)
           to == ProductForListing(v, p, details, id)
<1>1. DOMAIN changes \subseteq {"name", "unit", "cat"} /\ ("cat" \in DOMAIN changes => changes.cat \in Near(g, v))
    BY ChangesAre
<1>2. to = IF DOMAIN changes = {} THEN [id |-> p, todo |-> <<>>]
           ELSE IF products[p].owner = v THEN [id |-> p, todo |-> UpdateRow("product", p, changes)]
           ELSE [id |-> id, todo |-> InsertRow("product", id, Edited(CopyOf(v, p, products[p]), changes))]
    BY DEF ProductForListing
<1> HIDE DEF changes
<1>3. id \in Near(g, v)
    BY DEF Near, RowsOf
<1>4. p \in DOMAIN g /\ products[p].owner = g[p] /\ ProductIs(g, p, products[p]) /\ g[p] \in {Laoji, v}
    BY RowFacts DEF Near, RowsOf
<1>5. CASE DOMAIN changes = {}
    BY <1>2, <1>5, FineNone
<1>6. CASE DOMAIN changes # {} /\ products[p].owner = v
  <2>1. Fine(g, v, UpdateRow("product", p, changes))
      BY <1>1, <1>4, <1>6, ChangedProduct
  <2>. QED
      BY <1>2, <1>6, <2>1
<1>7. CASE DOMAIN changes # {} /\ products[p].owner # v
  <2>1. ProductIs(g, id, CopyOf(v, p, products[p]))
      BY <1>4, <1>7, CopyIs, Zenon
  <2>2. ProductIs(g, id, Edited(CopyOf(v, p, products[p]), changes))
      BY <1>1, <2>1, EditedProduct
  <2>3. Fine(g, v, InsertRow("product", id, Edited(CopyOf(v, p, products[p]), changes)))
      BY <2>2, NewProductRow
  <2>. QED
      BY <1>2, <1>3, <1>7, <2>3
<1>. QED
    BY <1>5, <1>6, <1>7

LEMMA SizesAre ==
    ASSUME NEW g, NEW by, NEW v \in Stores, by # Laoji => by = v, NEW l \in RowsOf(g, v),
           NEW unit, NEW sizes \in SizeLists(v, l, unit)
    PROVE  Fine(g, by, sizes)
<1>1. CASE sizes = <<>>
    BY <1>1, FineNone
<1>2. CASE sizes # <<>>
  <2>1. PICK known : known = IF l \in DOMAIN listings THEN Siblings(tables, v, l) ELSE {}
      OBVIOUS
  <2>2. sizes \in {<<[do |-> "sizes", vendor |-> v, listing |-> l, wanted |-> w]>> :
                     w \in UNION {[labels -> known \cup {Null}] : labels \in SUBSET (Units \ {unit})}}
      BY <1>2, <2>1, Zenon DEF SizeLists
  <2>3. PICK w \in UNION {[labels -> known \cup {Null}] : labels \in SUBSET (Units \ {unit})} :
             sizes = <<[do |-> "sizes", vendor |-> v, listing |-> l, wanted |-> w]>>
      BY <2>2
  <2>4. DOMAIN w \subseteq Units
      BY <2>3
  <2> DEFINE q == [do |-> "sizes", vendor |-> v, listing |-> l, wanted |-> w]
  <2>5. Reading(g, by, q) /\ q.do \notin {"insert", "update"}
      BY <2>4 DEF Reading
  <2>. QED
      BY <2>3, <2>5, OtherQueries
<1>. QED
    BY <1>1, <1>2

LEMMA NoSizes ==
    ASSUME NEW v, NEW l, NEW unit
    PROVE  <<>> \in SizeLists(v, l, unit)
BY DEF SizeLists

LEMMA UpdateListingReady ==
    ASSUME NEW own, OwnersKnown(own, lastId), TablesAre(own, tables), NEW h, NEW v \in Stores,
           NEW l \in DOMAIN listings, NEW details, DetailsIs(own, v, details), NEW terms,
           DOMAIN terms = {"price", "stock", "on", "eta"}, NEW unit, NEW sizes \in SizeLists(v, l, unit), NEW what,
           UpdateListing(h, v, l, details, terms, sizes, what)
    PROVE  Ready(own, h)
<1>0. v \in Owners /\ v # Laoji /\ 1 \in 0..2 /\ 1 \in Nat
    BY StoresAre
<1>1. PICK g : /\ OwnersKnown(g, lastId + 1) /\ Extends(own, g) /\ TablesAre(g, tables)
               /\ lastId + 1 \in DOMAIN g /\ g[lastId + 1] = v
  <2>1. \E g : /\ OwnersKnown(g, lastId + 1) /\ Extends(own, g) /\ TablesAre(g, tables)
               /\ 1 > 0 => lastId + 1 \in DOMAIN g /\ g[lastId + 1] = v
               /\ 1 > 1 => lastId + 2 \in DOMAIN g /\ g[lastId + 2] = v
      BY <1>0, Draws
  <2>. QED
      BY <2>1
<1> DEFINE p == listings[l].product
           to == ProductForListing(v, p, details, lastId + 1)
           moved == IF to.id = p THEN <<>> ELSE [product |-> to.id]
           todo == to.todo \o UpdateRow("listing", l, Both(moved, Normalized(terms))) \o sizes
<1>2. /\ listings[l].vendor = v /\ products[p].owner \in {Laoji, v}
      /\ EditStarts(h, v, what, todo, 1)
    BY DEF UpdateListing
<1>3. p \in DOMAIN products /\ p \in Near(g, v) /\ l \in DOMAIN g /\ g[l] = v
    BY <1>1, <1>2, RowFacts
<1>4. Fine(g, v, to.todo) /\ to.id \in Near(g, v)
  <2>1. DetailsIs(g, v, details)
      BY <1>1, MineGrows DEF DetailsIs
  <2>. QED
      BY <1>1, <1>3, <2>1, ToList
<1>5. DOMAIN Normalized(terms) = {"price", "stock", "on", "eta"}
    BY DEF Normalized
<1>6. PICK mv : mv = moved /\ DOMAIN mv \subseteq {"product"} /\ ("product" \in DOMAIN mv => mv.product = to.id)
  <2>1. CASE to.id = p
    <3>1. moved = <<>>
        BY <2>1
    <3>2. DOMAIN <<>> = {}
        OBVIOUS
    <3> HIDE DEF moved, to, p
    <3>. QED
        BY <3>1, <3>2
  <2>2. CASE to.id # p
    <3>1. moved = [product |-> to.id]
        BY <2>2
    <3> HIDE DEF moved, to, p
    <3>. QED
        BY <3>1
  <2>. QED
      BY <2>1, <2>2
<1>a. PICK nt : nt = Normalized(terms) /\ DOMAIN nt = {"price", "stock", "on", "eta"}
    BY <1>5
<1>b. PICK fd : fd = Both(mv, nt)
    OBVIOUS
<1>c. todo = to.todo \o UpdateRow("listing", l, fd) \o sizes
    BY <1>6, <1>a, <1>b
<1> HIDE DEF moved, to, todo
<1>7. /\ DOMAIN fd \subseteq {"product", "price", "stock", "on", "eta"}
      /\ "product" \in DOMAIN fd => fd.product = to.id
  <2>1. /\ DOMAIN fd = DOMAIN mv \cup DOMAIN nt
        /\ \A x \in DOMAIN mv \cup DOMAIN nt : fd[x] = IF x \in DOMAIN mv THEN mv[x] ELSE nt[x]
      BY <1>b DEF Both
  <2>. QED
      BY <1>6, <1>a, <2>1
<1>8. Fine(g, v, UpdateRow("listing", l, fd))
  <2>1. DOMAIN fd \subseteq ListingFields \ {"vendor"}
      BY <1>7 DEF ListingFields
  <2>. QED
      BY <1>1, <1>3, <1>4, <1>7, <2>1, ChangedListing
<1>9. Fine(g, v, sizes)
    BY <1>3, SizesAre DEF RowsOf
<1>10. Good(g, v, todo)
    BY <1>4, <1>8, <1>9, <1>c, FineCat, FineIsGood
<1>. QED
    BY <1>0, <1>1, <1>2, <1>10, IsReady

LEMMA TermsAre ==
    /\ \A t \in Terms : DOMAIN t = {"price", "stock", "on", "eta"}
    /\ \A t \in NewTerms : t \in Terms
    /\ \A l : DOMAIN TermsOf(l) = {"price", "stock", "on", "eta"}
BY DEF NewTerms, TermsOf, Terms

LEMMA DropListingIs ==
    ASSUME NEW g, NEW m, OwnersKnown(g, m), TablesAre(g, tables), NEW by, NEW l \in DOMAIN listings,
           by # Laoji => listings[l].vendor = by, NEW ungroup
    PROVE  Good(g, by, DropListing(l, ungroup))
<1>1. l \in DOMAIN g /\ listings[l].vendor = g[l] /\ g[l] \in Stores
    BY RowFacts
<1> DEFINE q == [do |-> "dropOwn", vendor |-> listings[l].vendor, id |-> listings[l].product, ungroup |-> ungroup]
<1>2. Fine(g, by, DeleteRows("listing", {l}))
    BY <1>1, Deletes DEF RowsOf
<1>3. q.do = "dropOwn" /\ q.vendor = listings[l].vendor
    OBVIOUS
<1>4. DropListing(l, ungroup) = DeleteRows("listing", {l}) \o <<q>>
    BY DEF DropListing
<1> HIDE DEF q
<1>5. Reading(g, by, q)
    BY <1>1, <1>3 DEF Reading
<1>6. Fine(g, by, <<q>>)
    BY <1>3, <1>5, OtherQueries
<1>. QED
    BY <1>2, <1>4, <1>6, FineCat, FineIsGood

LEMMA OwnProductIs ==
    ASSUME NEW g, NEW m, OwnersKnown(g, m), TablesAre(g, tables), NEW by, NEW v \in Stores, by # Laoji => by = v,
           lastId + 1 \in DOMAIN g, g[lastId + 1] = v, lastId + 2 \in DOMAIN g, g[lastId + 2] = v,
           NEW c, c \in Near(g, v), NEW n, NEW u, NEW terms
    PROVE  Fine(g, by, InsertRow("product", lastId + 1, ProductRow(v, c, n, u))
                       \o InsertRow("listing", lastId + 2, ListingRow(v, lastId + 1, terms)))
<1>0. v # Laoji
    BY StoresAre
<1>1. ProductIs(g, lastId + 1, ProductRow(v, c, n, u))
    BY <1>0 DEF ProductIs, ProductRow, ProductFields
<1>2. lastId + 1 \in Near(g, v)
    BY DEF Near, RowsOf
<1>3. Fine(g, by, InsertRow("product", lastId + 1, ProductRow(v, c, n, u)))
    BY <1>1, NewProductRow
<1>4. Fine(g, by, InsertRow("listing", lastId + 2, ListingRow(v, lastId + 1, terms)))
    BY <1>2, NewListingRow
<1>. QED
    BY <1>3, <1>4, FineCat

LEMMA ProductCallReady ==
    ASSUME NEW own, OwnersKnown(own, lastId), TablesAre(own, tables), NEW h, NEW v \in Stores, VendorProductCall(h, v)
    PROVE  Ready(own, h)
<1>0. v \in Owners /\ v # Laoji /\ Laoji \in Owners /\ 2 \in 0..2 /\ 2 \in Nat /\ 0 \in Nat /\ lastId + 0 = lastId
    BY StoresAre DEF OwnersKnown
<1>1. PICK g : /\ OwnersKnown(g, lastId + 2) /\ Extends(own, g) /\ TablesAre(g, tables)
               /\ lastId + 1 \in DOMAIN g /\ g[lastId + 1] = v
               /\ lastId + 2 \in DOMAIN g /\ g[lastId + 2] = v
  <2>1. \E g : /\ OwnersKnown(g, lastId + 2) /\ Extends(own, g) /\ TablesAre(g, tables)
               /\ 2 > 0 => lastId + 1 \in DOMAIN g /\ g[lastId + 1] = v
               /\ 2 > 1 => lastId + 2 \in DOMAIN g /\ g[lastId + 2] = v
      BY <1>0, Draws
  <2>. QED
      BY <2>1
<1>2. lastId + 2 \in RowsOf(g, v)
    BY <1>1 DEF RowsOf
<1>3. ASSUME NEW p \in DOMAIN products, p \in ListVendorCatalogProducts(v) \/ products[p].owner = v,
             NEW t \in NewTerms, NEW d \in Details(v, p), UpsertVendorProduct(h, v, p, d, t)
      PROVE  Ready(own, h)
  <2>1. p \in Near(own, v) /\ p \in Near(g, v)
    <3>1. p \in Near(own, v)
        BY <1>3, RowFacts DEF ListVendorCatalogProducts, Near, RowsOf
    <3>. QED
        BY <1>1, <3>1, MineGrows
  <2>2. DetailsIs(own, v, d) /\ DetailsIs(g, v, d)
      BY <1>1, <2>1, DetailsAre
  <2>3. CASE FindListing(v, p) # {}
    <3>1. PICK l : l = Min(FindListing(v, p))
        OBVIOUS
    <3>2. l \in DOMAIN listings
        BY <2>3, <3>1, OldestOf DEF FindListing, ListingsOf
    <3>3. UpdateListing(h, v, l, d, t, <<>>, "upsertVendorProduct")
        BY <1>3, <2>3, <3>1 DEF UpsertVendorProduct
    <3>4. <<>> \in SizeLists(v, l, "none")
        BY NoSizes
    <3>. QED
        BY <2>2, <3>2, <3>3, <3>4, TermsAre, UpdateListingReady
  <2>4. CASE FindListing(v, p) = {}
    <3> DEFINE to == ProductForListing(v, p, d, lastId + 1)
    <3>1. PICK sizes \in SizeLists(v, lastId + 2, d.unit) :
              EditStarts(h, v, "upsertVendorProduct",
                     to.todo \o InsertRow("listing", lastId + 2, ListingRow(v, to.id, Normalized(t))) \o sizes, 2)
        BY <1>3, <2>4 DEF UpsertVendorProduct
    <3>2. Fine(g, v, to.todo) /\ to.id \in Near(g, v)
        BY <1>1, <2>1, <2>2, ToList
    <3> HIDE DEF to
    <3>3. Fine(g, v, InsertRow("listing", lastId + 2, ListingRow(v, to.id, Normalized(t))))
        BY <1>1, <3>2, NewListingRow
    <3>4. Fine(g, v, sizes)
        BY <1>2, SizesAre
    <3>5. Good(g, v, to.todo \o InsertRow("listing", lastId + 2, ListingRow(v, to.id, Normalized(t))) \o sizes)
        BY <3>2, <3>3, <3>4, FineCat, FineIsGood
    <3>. QED
        BY <1>0, <1>1, <3>1, <3>5, IsReady
  <2>. QED
      BY <2>3, <2>4
<1>4. ASSUME NEW n \in Names, NEW c \in DOMAIN categories, NEW t \in NewTerms,
             CreateVendorProduct(h, v, c, n, NewUnit, t) \/ CreateVendorCustomProduct(h, v, c, n, NewUnit, t)
      PROVE  Ready(own, h)
  <2>1. Usable(v, c)
      BY <1>4 DEF CreateVendorProduct, CreateVendorCustomProduct
  <2>2. ShopCategory(v, c) \in Near(g, v)
      BY <1>1, <2>1, UsableIs
  <2>3. \A terms : Fine(g, v, OwnProduct(v, c, n, NewUnit, terms))
    <3>1. SUFFICES ASSUME NEW terms PROVE Fine(g, v, OwnProduct(v, c, n, NewUnit, terms))
        OBVIOUS
    <3>. QED
        BY <1>1, <2>2, OwnProductIs DEF OwnProduct
  <2>4. CASE CreateVendorProduct(h, v, c, n, NewUnit, t)
    <3>1. PICK sizes \in SizeLists(v, lastId + 2, NewUnit) :
              EditStarts(h, v, "createVendorProduct", OwnProduct(v, c, n, NewUnit, Normalized(t)) \o sizes, 2)
        BY <2>4 DEF CreateVendorProduct
    <3>2. Fine(g, v, sizes)
        BY <1>2, SizesAre
    <3>3. Good(g, v, OwnProduct(v, c, n, NewUnit, Normalized(t)) \o sizes)
        BY <2>3, <3>2, FineCat, FineIsGood
    <3>. QED
        BY <1>0, <1>1, <3>1, <3>3, IsReady
  <2>5. CASE CreateVendorCustomProduct(h, v, c, n, NewUnit, t)
    <3>1. EditStarts(h, v, "createVendorProduct", OwnProduct(v, c, n, NewUnit, [t EXCEPT !.eta = FALSE]), 2)
        BY <2>5 DEF CreateVendorCustomProduct
    <3>2. Good(g, v, OwnProduct(v, c, n, NewUnit, [t EXCEPT !.eta = FALSE]))
        BY <2>3, FineIsGood
    <3>. QED
        BY <1>0, <1>1, <3>1, <3>2, IsReady
  <2>. QED
      BY <1>4, <2>4, <2>5
<1>5. ASSUME NEW l \in ListingsOf(v), NEW d, NEW terms, NEW sizes, NEW u,
             d \in Details(v, listings[l].product), DOMAIN terms = {"price", "stock", "on", "eta"},
             sizes \in SizeLists(v, l, u), UpdateVendorProduct(h, v, l, d, terms, sizes)
      PROVE  Ready(own, h)
  <2>1. l \in DOMAIN listings /\ listings[l].product \in DOMAIN products /\ listings[l].product \in Near(own, v)
      BY RowFacts DEF ListingsOf
  <2>2. DetailsIs(own, v, d)
      BY <1>5, <2>1, DetailsAre
  <2>. QED
      BY <1>5, <2>1, <2>2, UpdateListingReady DEF UpdateVendorProduct
<1>6. ASSUME NEW l \in ListingsOf(v), RestockVendorProduct(h, v, l)
      PROVE  Ready(own, h)
  <2>1. EditStarts(h, v, "restockVendorProduct", <<[do |-> "restock", id |-> l]>>, 0)
      BY <1>6 DEF RestockVendorProduct
  <2>2. l \in RowsOf(own, v)
      BY RowFacts DEF ListingsOf, RowsOf
  <2>3. Writes(own, v, [do |-> "restock", id |-> l])
      BY <2>2 DEF Writes
  <2>4. Good(own, v, <<[do |-> "restock", id |-> l]>>)
      BY <2>3, OtherQueries, FineIsGood
  <2>. QED
      BY <1>0, <2>1, <2>4, Same, IsReady
<1>7. ASSUME NEW l \in ListingsOf(v), DeleteVendorProduct(h, v, l)
      PROVE  Ready(own, h)
  <2>1. EditStarts(h, v, "deleteVendorProduct", DropListing(l, TRUE), 0)
      BY <1>7 DEF DeleteVendorProduct
  <2>2. Good(own, v, DropListing(l, TRUE))
      BY DropListingIs DEF ListingsOf
  <2>. QED
      BY <1>0, <2>1, <2>2, Same, IsReady
<1>8. ASSUME NEW p \in ListVendorCatalogProducts(v) \cup {q \in DOMAIN products : products[q].owner = v}
      PROVE  p \in DOMAIN products /\ (p \in ListVendorCatalogProducts(v) \/ products[p].owner = v)
    BY DEF ListVendorCatalogProducts
<1>9. ASSUME NEW l \in ListingsOf(v)
      PROVE  AsShown(v, listings[l].product) \in Details(v, listings[l].product)
    BY DEF Details
<1>a. CASE \E p \in ListVendorCatalogProducts(v) \cup {q \in DOMAIN products : products[q].owner = v}, t \in NewTerms :
             \E d \in Details(v, p) : UpsertVendorProduct(h, v, p, d, t)
    BY <1>a, <1>3, <1>8
<1>b. CASE \E n \in Names, c \in DOMAIN categories, t \in NewTerms :
             CreateVendorProduct(h, v, c, n, NewUnit, t) \/ CreateVendorCustomProduct(h, v, c, n, NewUnit, t)
    BY <1>b, <1>4
<1>c. ASSUME NEW l \in ListingsOf(v), NEW d \in Details(v, listings[l].product),
             UpdateVendorProduct(h, v, l, d, TermsOf(l), <<>>)
      PROVE  Ready(own, h)
    BY <1>c, <1>5, NoSizes, TermsAre
<1>d. ASSUME NEW l \in ListingsOf(v), NEW t \in Terms,
             UpdateVendorProduct(h, v, l, AsShown(v, listings[l].product), t, <<>>)
      PROVE  Ready(own, h)
    BY <1>d, <1>5, <1>9, NoSizes, TermsAre
<1>e. ASSUME NEW l \in ListingsOf(v), NEW sizes \in SizeLists(v, l, AsShown(v, listings[l].product).unit),
             UpdateVendorProduct(h, v, l, AsShown(v, listings[l].product), TermsOf(l), sizes)
      PROVE  Ready(own, h)
    BY <1>e, <1>5, <1>9, TermsAre
<1>f. CASE \E l \in ListingsOf(v) :
         \/ \E d \in Details(v, listings[l].product) : UpdateVendorProduct(h, v, l, d, TermsOf(l), <<>>)
         \/ \E t \in Terms : UpdateVendorProduct(h, v, l, AsShown(v, listings[l].product), t, <<>>)
         \/ LET shown == AsShown(v, listings[l].product) IN
            \E sizes \in SizeLists(v, l, shown.unit) : UpdateVendorProduct(h, v, l, shown, TermsOf(l), sizes)
         \/ RestockVendorProduct(h, v, l)
         \/ DeleteVendorProduct(h, v, l)
    BY <1>f, <1>6, <1>7, <1>c, <1>d, <1>e
<1>. QED
    BY <1>a, <1>b, <1>f DEF VendorProductCall

-----------------------------------------------------------------------------
(* The admin's calls. *)
LEMMA AdminDraws ==
    ASSUME NEW own, OwnersKnown(own, lastId), TablesAre(own, tables), NEW a \in Owners
    PROVE  /\ \E g : /\ OwnersKnown(g, lastId + 2) /\ Extends(own, g) /\ TablesAre(g, tables)
                     /\ lastId + 1 \in DOMAIN g /\ g[lastId + 1] = a /\ lastId + 2 \in DOMAIN g /\ g[lastId + 2] = a
           /\ \E g : /\ OwnersKnown(g, lastId + 1) /\ Extends(own, g) /\ TablesAre(g, tables)
                     /\ lastId + 1 \in DOMAIN g /\ g[lastId + 1] = a
           /\ OwnersKnown(own, lastId + 0) /\ Extends(own, own)
<1>1. /\ 2 \in 0..2 /\ 1 \in 0..2
    OBVIOUS
<1>2. \E g : /\ OwnersKnown(g, lastId + 2) /\ Extends(own, g) /\ TablesAre(g, tables)
             /\ 2 > 0 => lastId + 1 \in DOMAIN g /\ g[lastId + 1] = a
             /\ 2 > 1 => lastId + 2 \in DOMAIN g /\ g[lastId + 2] = a
    BY <1>1, Draws
<1>3. \E g : /\ OwnersKnown(g, lastId + 1) /\ Extends(own, g) /\ TablesAre(g, tables)
             /\ 1 > 0 => lastId + 1 \in DOMAIN g /\ g[lastId + 1] = a
             /\ 1 > 1 => lastId + 2 \in DOMAIN g /\ g[lastId + 2] = a
    BY <1>1, Draws
<1>4. lastId \in Nat
    BY DEF OwnersKnown
<1>5. lastId + 0 = lastId
    BY <1>4
<1>. QED
    BY <1>2, <1>3, <1>5, Same

LEMMA Numbers == 0 \in Nat /\ 1 \in Nat /\ 2 \in Nat
OBVIOUS

LEMMA SuggestionReady ==
    ASSUME NEW own, OwnersKnown(own, lastId), TablesAre(own, tables), NEW h, NEW s \in DOMAIN suggestions,
           \/ ApproveProductSuggestion(h, s) \/ RejectProductSuggestion(h, s) \/ RejectCategorySuggestion(h, s)
           \/ \E n \in Names, c \in DOMAIN categories \cup {Null} : ApproveCategorySuggestion(h, s, n, c)
    PROVE  Ready(own, h)
<1>0. Laoji \in Owners
    BY StoresAre
<1>1. s \in DOMAIN own /\ SuggestionIs(own, suggestions[s]) /\ suggestions[s].vendor \in Stores
    BY RowFacts DEF SuggestionIs
<1>2. CASE ApproveProductSuggestion(h, s)
  <2> DEFINE row == ProductRow(Laoji, suggestions[s].cat, suggestions[s].name, suggestions[s].unit)
             fields == [status |-> "approved", made |-> lastId + 1]
  <2>1. /\ suggestions[s].kind = "product"
        /\ EditStarts(h, Laoji, "approveProductSuggestion",
                  InsertRow("product", lastId + 1, row) \o UpdateRow("suggestion", s, fields), 1)
      BY <1>2 DEF ApproveProductSuggestion, Pending
  <2>2. PICK g : /\ OwnersKnown(g, lastId + 1) /\ Extends(own, g) /\ TablesAre(g, tables)
                 /\ lastId + 1 \in DOMAIN g /\ g[lastId + 1] = Laoji
      BY <1>0, AdminDraws
  <2>3. s \in DOMAIN g /\ suggestions[s].cat \in RowsOf(g, Laoji)
      BY <1>1, <2>1, <2>2, RowFacts DEF SuggestionIs
  <2>4. ProductIs(g, lastId + 1, row)
      BY <2>2, <2>3 DEF ProductIs, ProductRow, ProductFields, Near
  <2>5. DOMAIN fields = {"status", "made"}
      OBVIOUS
  <2> HIDE DEF row, fields
  <2>6. Fine(g, Laoji, InsertRow("product", lastId + 1, row))
      BY <2>2, <2>4, NewProductRow
  <2>7. Updates(g, Laoji, [do |-> "update", table |-> "suggestion", id |-> s, fields |-> fields])
      BY <2>3, <2>5 DEF Updates, SuggestionFields
  <2>8. Fine(g, Laoji, UpdateRow("suggestion", s, fields))
      BY <2>7, Changed
  <2>9. Good(g, Laoji, InsertRow("product", lastId + 1, row) \o UpdateRow("suggestion", s, fields))
      BY <2>6, <2>8, FineCat, FineIsGood
  <2>. QED
      BY <1>0, <2>1, <2>2, <2>9, Numbers, IsReady
<1>3. CASE RejectProductSuggestion(h, s) \/ RejectCategorySuggestion(h, s)
  <2> DEFINE fields == [status |-> "rejected"]
  <2>1. \E what : EditStarts(h, Laoji, what, UpdateRow("suggestion", s, fields), 0)
      BY <1>3 DEF RejectProductSuggestion, RejectCategorySuggestion
  <2>2. DOMAIN fields = {"status"}
      OBVIOUS
  <2> HIDE DEF fields
  <2>3. Updates(own, Laoji, [do |-> "update", table |-> "suggestion", id |-> s, fields |-> fields])
      BY <1>1, <2>2 DEF Updates, SuggestionFields
  <2>4. Good(own, Laoji, UpdateRow("suggestion", s, fields))
      BY <2>3, Changed, FineIsGood
  <2>. QED
      BY <1>0, <2>1, <2>4, AdminDraws, Numbers, IsReady
<1>4. ASSUME NEW n \in Names, NEW parent \in DOMAIN categories \cup {Null}, ApproveCategorySuggestion(h, s, n, parent)
      PROVE  Ready(own, h)
  <2>1. PICK g : /\ OwnersKnown(g, lastId + 2) /\ Extends(own, g) /\ TablesAre(g, tables)
                 /\ lastId + 1 \in DOMAIN g /\ g[lastId + 1] = Laoji /\ lastId + 2 \in DOMAIN g /\ g[lastId + 2] = Laoji
      BY <1>0, AdminDraws
  <2> DEFINE row == suggestions[s]
             type == VendorType[row.vendor]
             under == IF parent # Null THEN parent ELSE RootOf(type)
             same == {c \in Named(Laoji, n) : categories[c].parent = under}
             c == IF same # {} THEN Min(same) ELSE lastId + 1
             kind == IF parent = Null THEN type ELSE BusinessType(parent)
             first == IF parent = Null THEN MakeRoot(type) ELSE <<>>
             second == IF same # {} THEN <<>> ELSE InsertRow("category", c, CategoryRow(Laoji, Null, under, n, kind))
             fields == [status |-> "approved", cat |-> c]
             link == [do |-> "link", vendor |-> row.vendor, name |-> row.name, id |-> c]
  <2>2. /\ parent # Null => categories[parent].owner = Laoji
        /\ EditStarts(h, Laoji, "approveCategorySuggestion",
                  first \o second \o UpdateRow("suggestion", s, fields) \o <<link>>, 2)
      BY <1>4 DEF ApproveCategorySuggestion
  <2>3. under \in RowsOf(g, Laoji)
    <3>1. CASE parent # Null
        BY <2>1, <2>2, <3>1, RowFacts DEF RowsOf
    <3>2. CASE parent = Null
        BY <2>1, <3>2, RootIs
    <3>. QED
        BY <3>1, <3>2
  <2>4. c \in RowsOf(g, Laoji)
    <3>1. CASE same # {}
      <4>1. Min(same) \in same
        <5>1. same \subseteq DOMAIN categories
            BY DEF Named
        <5> HIDE DEF same
        <5>. QED
            BY <2>1, <3>1, <5>1, OldestOf
      <4>2. Min(same) \in DOMAIN categories /\ categories[Min(same)].owner = Laoji
          BY <4>1 DEF Named
      <4>3. c = Min(same)
          BY <3>1
      <4> HIDE DEF same, c
      <4>. QED
          BY <2>1, <4>2, <4>3, RowFacts DEF RowsOf
    <3>2. CASE same = {}
        BY <2>1, <3>2 DEF RowsOf
    <3>. QED
        BY <3>1, <3>2
  <2>5. Fine(g, Laoji, first)
    <3>1. Fine(g, Laoji, MakeRoot(type))
        BY <2>1, RootIs
    <3>. QED
        BY <3>1, FineNone
  <2>6. Fine(g, Laoji, second)
    <3>1. Fine(g, Laoji, InsertRow("category", lastId + 1, CategoryRow(Laoji, Null, under, n, kind)))
      <4> HIDE DEF under, kind
      <4>. QED
          BY <2>1, <2>3, NewCategoryRow
    <3> HIDE DEF under, kind, same
    <3>. QED
        BY <3>1, FineNone
  <2>7. DOMAIN fields = {"status", "cat"} /\ fields.cat = c
    <3> HIDE DEF c
    <3>. QED
        OBVIOUS
  <2>8. link.do = "link" /\ link.vendor = row.vendor /\ link.id = c
    <3> HIDE DEF c
    <3>. QED
        OBVIOUS
  <2> HIDE DEF first, second, fields, link, c
  <2>9. Updates(g, Laoji, [do |-> "update", table |-> "suggestion", id |-> s, fields |-> fields])
    <3>1. s \in DOMAIN g
        BY <2>1, RowFacts
    <3>. QED
        BY <2>4, <2>7, <3>1 DEF Updates, SuggestionFields
  <2>10. Fine(g, Laoji, UpdateRow("suggestion", s, fields))
      BY <2>9, Changed
  <2>11. Reading(g, Laoji, link)
      BY <1>1, <2>4, <2>8 DEF Reading
  <2>12. Fine(g, Laoji, <<link>>)
      BY <2>8, <2>11, OtherQueries
  <2>13. Good(g, Laoji, first \o second \o UpdateRow("suggestion", s, fields) \o <<link>>)
      BY <2>5, <2>6, <2>10, <2>12, FineCat, FineIsGood
  <2>. QED
      BY <1>0, <2>1, <2>2, <2>13, Numbers, IsReady
<1>. QED
    BY <1>2, <1>3, <1>4

LEMMA AdminCategoryReady ==
    ASSUME NEW own, OwnersKnown(own, lastId), TablesAre(own, tables), NEW h, ~AdminStrays, AdminCategoryCall(h)
    PROVE  Ready(own, h)
<1>0. Laoji \in Owners
    BY StoresAre
<1>1. \A c \in DOMAIN categories : OfLaoji(c) => c \in RowsOf(own, Laoji)
    BY RowFacts DEF OfLaoji, RowsOf
<1>2. ASSUME NEW n \in Names, NEW c \in DOMAIN categories \cup {Null}, CreateCategory(h, n, c)
      PROVE  Ready(own, h)
  <2> DEFINE type == IF c = Null THEN "none" ELSE BusinessType(c)
  <2>1. /\ c # Null => OfLaoji(c)
        /\ EditStarts(h, Laoji, "createCategory", InsertRow("category", lastId + 1, CategoryRow(Laoji, Null, c, n, type)), 1)
      BY <1>2 DEF CreateCategory
  <2>2. PICK g : /\ OwnersKnown(g, lastId + 1) /\ Extends(own, g) /\ TablesAre(g, tables)
                 /\ lastId + 1 \in DOMAIN g /\ g[lastId + 1] = Laoji
      BY <1>0, AdminDraws
  <2>3. c \in RowsOf(g, Laoji) \cup {Null}
      BY <1>1, <2>1, <2>2, MineGrows
  <2> HIDE DEF type
  <2>4. Good(g, Laoji, InsertRow("category", lastId + 1, CategoryRow(Laoji, Null, c, n, type)))
      BY <2>2, <2>3, NewCategoryRow, FineIsGood
  <2>. QED
      BY <1>0, <2>1, <2>2, <2>4, Numbers, IsReady
<1>3. ASSUME NEW n \in Names, NEW c \in DOMAIN categories, RenameCategory(h, c, n)
      PROVE  Ready(own, h)
  <2> DEFINE fields == [name |-> n]
  <2>1. OfLaoji(c) /\ EditStarts(h, Laoji, "updateCategory", UpdateRow("category", c, fields), 0)
      BY <1>3 DEF RenameCategory
  <2>2. DOMAIN fields = {"name"}
      OBVIOUS
  <2> HIDE DEF fields
  <2>3. Updates(own, Laoji, [do |-> "update", table |-> "category", id |-> c, fields |-> fields])
      BY <1>1, <2>1, <2>2 DEF Updates, CategoryFields, RowsOf
  <2>4. Good(own, Laoji, UpdateRow("category", c, fields))
      BY <2>2, <2>3, Changed, FineIsGood
  <2>. QED
      BY <1>0, <2>1, <2>4, AdminDraws, Numbers, IsReady
<1>4. ASSUME NEW c \in DOMAIN categories, NEW d \in DOMAIN categories \cup {Null}, MoveCategory(h, c, d)
      PROVE  Ready(own, h)
  <2> DEFINE fields == IF d = Null THEN [parent |-> Null] ELSE [parent |-> d, type |-> BusinessType(d)]
  <2>1. OfLaoji(c) /\ (d # Null => OfLaoji(d)) /\ EditStarts(h, Laoji, "updateCategory", UpdateRow("category", c, fields), 0)
      BY <1>4 DEF MoveCategory
  <2>2. DOMAIN fields \subseteq {"parent", "type"} /\ fields.parent = d
      OBVIOUS
  <2> HIDE DEF fields
  <2>3. Updates(own, Laoji, [do |-> "update", table |-> "category", id |-> c, fields |-> fields])
      BY <1>1, <2>1, <2>2 DEF Updates, CategoryFields, RowsOf
  <2>4. Good(own, Laoji, UpdateRow("category", c, fields))
      BY <2>2, <2>3, Changed, FineIsGood
  <2>. QED
      BY <1>0, <2>1, <2>4, AdminDraws, Numbers, IsReady
<1>5. ASSUME NEW c \in DOMAIN categories, DeleteCategory(h, c)
      PROVE  Ready(own, h)
  <2> DEFINE sub == {d \in DOMAIN categories : categories[d].parent = c /\ categories[d].owner = Laoji}
             cs == {c} \cup sub
             ps == ProductsIn(cs)
             templates == [do |-> "unlinkTemplates", ids |-> ps]
             off == [do |-> "deleteListings", ids |-> ps]
             detach == [do |-> "detach", rows |-> [d \in cs |-> categories[d]]]
             unlink == [do |-> "unlinkCategories", ids |-> cs]
             first == IF ps = {} THEN <<>> ELSE <<templates>> \o <<off>> \o DeleteRows("product", ps)
  <2>1. /\ categories[c].owner = Laoji
        /\ EditStarts(h, Laoji, "deleteCategory",
             first \o <<detach>> \o <<unlink>> \o DeleteRows("category", sub) \o DeleteRows("category", {c}), 0)
      BY <1>5 DEF DeleteCategory
  <2>2. \A d \in cs : d \in DOMAIN categories /\ d \in RowsOf(own, Laoji) /\ CategoryIs(own, d, categories[d])
      BY <2>1, RowFacts, InTables DEF RowsOf
  <2>3. templates.do = "unlinkTemplates" /\ off.do = "deleteListings" /\ unlink.do = "unlinkCategories"
      OBVIOUS
  <2>4. detach.do = "detach" /\ DOMAIN detach.rows = cs /\ \A d \in cs : detach.rows[d] = categories[d]
    <3> HIDE DEF cs
    <3>. QED
        OBVIOUS
  <2> HIDE DEF templates, off, unlink, detach, cs, ps, sub
  <2>5. Reading(own, Laoji, detach)
      BY <2>2, <2>4 DEF Reading
  <2>6. Fine(own, Laoji, <<templates>>) /\ Fine(own, Laoji, <<off>>) /\ Fine(own, Laoji, <<unlink>>)
      BY <2>3, OtherQueries DEF Writes
  <2>7. Fine(own, Laoji, <<detach>>)
      BY <2>4, <2>5, OtherQueries
  <2>8. Fine(own, Laoji, first)
    <3>1. Fine(own, Laoji, <<templates>> \o <<off>> \o DeleteRows("product", ps))
        BY <2>6, Deletes, FineCat
    <3>. QED
        BY <3>1, FineNone
  <2>9. Fine(own, Laoji, DeleteRows("category", sub)) /\ Fine(own, Laoji, DeleteRows("category", {c}))
      BY Deletes
  <2> HIDE DEF first
  <2>10. Good(own, Laoji, first \o <<detach>> \o <<unlink>> \o DeleteRows("category", sub) \o DeleteRows("category", {c}))
      BY <2>6, <2>7, <2>8, <2>9, FineCat, FineIsGood
  <2>. QED
      BY <1>0, <2>1, <2>10, AdminDraws, Numbers, IsReady
<1>. QED
    BY <1>2, <1>3, <1>4, <1>5, SuggestionReady DEF AdminCategoryCall

LEMMA OnlyIs ==
    ASSUME NEW field, NEW x
    PROVE  \E f : f = Only(field, x) /\ DOMAIN f = {field} /\ f[field] = x
<1>1. PICK f : f = [k \in {field} |-> x]
    OBVIOUS
<1>2. DOMAIN f = {field} /\ f[field] = x
    BY <1>1
<1>. QED
    BY <1>1, <1>2 DEF Only

LEMMA AdminProductReady ==
    ASSUME NEW own, OwnersKnown(own, lastId), TablesAre(own, tables), NEW h, ~AdminStrays, AdminProductCall(h)
    PROVE  Ready(own, h)
<1>0. Laoji \in Owners
    BY StoresAre
<1>1. \A c \in DOMAIN categories : OfLaoji(c) => c \in RowsOf(own, Laoji)
    BY RowFacts DEF OfLaoji, RowsOf
<1>2. ASSUME NEW n \in Names, NEW c \in DOMAIN categories, CreateProduct(h, c, n, NewUnit)
      PROVE  Ready(own, h)
  <2> DEFINE row == ProductRow(Laoji, c, n, NewUnit)
  <2>1. OfLaoji(c) /\ EditStarts(h, Laoji, "createProduct", InsertRow("product", lastId + 1, row), 1)
      BY <1>2 DEF CreateProduct
  <2>2. PICK g : /\ OwnersKnown(g, lastId + 1) /\ Extends(own, g) /\ TablesAre(g, tables)
                 /\ lastId + 1 \in DOMAIN g /\ g[lastId + 1] = Laoji
      BY <1>0, AdminDraws
  <2>3. c \in RowsOf(g, Laoji)
      BY <1>1, <2>1, <2>2, MineGrows
  <2>4. ProductIs(g, lastId + 1, row)
      BY <2>2, <2>3 DEF ProductIs, ProductRow, ProductFields, Near
  <2> HIDE DEF row
  <2>5. Good(g, Laoji, InsertRow("product", lastId + 1, row))
      BY <2>2, <2>4, NewProductRow, FineIsGood
  <2>. QED
      BY <1>0, <2>1, <2>2, <2>5, Numbers, IsReady
<1>3. ASSUME NEW p \in DOMAIN products, NEW field \in {"name", "unit", "cat", "active"}, NEW x,
             field = "cat" => x \in RowsOf(own, Laoji), UpdateProduct(h, p, field, x)
      PROVE  Ready(own, h)
  <2>1. products[p].owner = Laoji /\ EditStarts(h, Laoji, "updateProduct", UpdateRow("product", p, Only(field, x)), 0)
      BY <1>3 DEF UpdateProduct
  <2>2. p \in DOMAIN own /\ own[p] = Laoji
      BY <2>1, RowFacts
  <2>3. "cat" \in DOMAIN Only(field, x) => Only(field, x).cat \in Near(own, own[p])
    <3>0. PICK f : f = Only(field, x) /\ DOMAIN f = {field} /\ f[field] = x
        BY OnlyIs
    <3>1. "cat" \in DOMAIN Only(field, x) => field = "cat" /\ Only(field, x).cat = x
        BY <3>0
    <3>. QED
        BY <1>3, <2>2, <3>1 DEF Near
  <2>4. Fine(own, Laoji, UpdateRow("product", p, Only(field, x)))
    <3>1. PICK f : f = Only(field, x) /\ DOMAIN f = {field} /\ f[field] = x
        BY OnlyIs
    <3>2. DOMAIN f \subseteq {"name", "unit", "cat", "active"}
        BY <3>1
    <3>. QED
        BY <2>2, <2>3, <3>1, <3>2, ChangedProduct
  <2>. QED
      BY <1>0, <2>1, <2>4, AdminDraws, Numbers, FineIsGood, IsReady
<1>4. ASSUME NEW p \in DOMAIN products, DeleteProduct(h, p)
      PROVE  Ready(own, h)
  <2> DEFINE unlink == [do |-> "unlinkProduct", ids |-> {p}]
             give == [do |-> "handOver", id |-> p, row |-> products[p]]
  <2>1. products[p].owner = Laoji
      BY <1>4 DEF DeleteProduct
  <2>2. HandOver(p, products[p]) = <<give>>
      BY <2>1 DEF HandOver
  <2>3. EditStarts(h, Laoji, "deleteProduct", <<unlink>> \o <<give>> \o DeleteRows("product", {p}), 0)
    <3>1. EditStarts(h, Laoji, "deleteProduct", <<unlink>> \o HandOver(p, products[p]) \o DeleteRows("product", {p}), 0)
        BY <1>4 DEF DeleteProduct
    <3>. QED
        BY <2>2, <3>1
  <2>4. p \in RowsOf(own, Laoji) /\ ProductIs(own, p, products[p])
      BY <2>1, RowFacts DEF RowsOf
  <2>5. unlink.do = "unlinkProduct" /\ give.do = "handOver" /\ give.id = p /\ give.row = products[p]
      OBVIOUS
  <2> HIDE DEF unlink, give
  <2>6. Writes(own, Laoji, unlink) /\ Reading(own, Laoji, give)
      BY <2>4, <2>5 DEF Writes, Reading
  <2>7. Fine(own, Laoji, <<unlink>>) /\ Fine(own, Laoji, <<give>>)
      BY <2>5, <2>6, OtherQueries
  <2>8. Fine(own, Laoji, DeleteRows("product", {p}))
      BY Deletes
  <2>9. Good(own, Laoji, <<unlink>> \o <<give>> \o DeleteRows("product", {p}))
      BY <2>7, <2>8, FineCat, FineIsGood
  <2>. QED
      BY <1>0, <2>3, <2>9, AdminDraws, Numbers, IsReady
<1>. QED
    BY <1>1, <1>2, <1>3, <1>4 DEF AdminProductCall

LEMMA AdminItemReady ==
    ASSUME NEW own, OwnersKnown(own, lastId), TablesAre(own, tables), NEW h, ~AdminStrays, AdminItemCall(h)
    PROVE  Ready(own, h)
<1>0. Laoji \in Owners
    BY StoresAre
<1>1. ASSUME NEW v \in Stores, NEW t \in NewTerms, NEW p \in DOMAIN products, AddStoreItem(h, v, p, t)
      PROVE  Ready(own, h)
  <2> DEFINE mine == {l \in ListingsOf(v) : listings[l].product = p}
             l == IF mine = {} THEN lastId + 1 ELSE Min(mine)
             row == ListingRow(v, p, [t EXCEPT !.eta = FALSE])
             fields == [price |-> t.price, stock |-> t.stock, on |-> t.on]
             save == IF mine = {} THEN InsertRow("listing", l, row) ELSE UpdateRow("listing", l, fields)
  <2>1. products[p].owner \in {Laoji, v} /\ \E sizes \in SizeLists(v, l, "none") : EditStarts(h, Laoji, "addAdminVendorItem", save \o sizes, 1)
      BY <1>1 DEF AddStoreItem
  <2>2. PICK sizes \in SizeLists(v, l, "none") : EditStarts(h, Laoji, "addAdminVendorItem", save \o sizes, 1)
      BY <2>1
  <2>3. PICK g : /\ OwnersKnown(g, lastId + 1) /\ Extends(own, g) /\ TablesAre(g, tables)
                 /\ lastId + 1 \in DOMAIN g /\ g[lastId + 1] = v
      BY AdminDraws, StoresAre
  <2>4. p \in Near(g, v)
      BY <2>1, <2>3, RowFacts DEF Near, RowsOf
  <2>5. l \in RowsOf(g, v)
    <3>1. CASE mine = {}
        BY <2>3, <3>1 DEF RowsOf
    <3>2. CASE mine # {}
      <4>1. mine \subseteq DOMAIN listings
          BY DEF ListingsOf
      <4>2. Min(mine) \in mine
        <5> HIDE DEF mine
        <5>. QED
            BY <2>3, <3>2, <4>1, OldestOf
      <4>3. Min(mine) \in DOMAIN listings /\ listings[Min(mine)].vendor = v
          BY <4>2 DEF ListingsOf
      <4>4. l = Min(mine)
          BY <3>2
      <4> HIDE DEF l, mine
      <4>. QED
          BY <2>3, <4>3, <4>4, RowFacts DEF RowsOf
    <3>. QED
        BY <3>1, <3>2
  <2>6. DOMAIN fields = {"price", "stock", "on"}
      OBVIOUS
  <2> HIDE DEF l, fields
  <2>7. Fine(g, Laoji, UpdateRow("listing", l, fields))
      BY <2>3, <2>5, <2>6, ChangedListing DEF RowsOf, ListingFields
  <2>8. Fine(g, Laoji, InsertRow("listing", l, row))
      BY <2>4, <2>5, NewListingRow DEF RowsOf
  <2>9. Fine(g, Laoji, save)
    <3> HIDE DEF row, mine
    <3>. QED
        BY <2>7, <2>8
  <2>10. Fine(g, Laoji, sizes)
      BY <2>2, <2>5, SizesAre
  <2> HIDE DEF save
  <2>11. Good(g, Laoji, save \o sizes)
      BY <2>9, <2>10, FineCat, FineIsGood
  <2>. QED
      BY <1>0, <2>2, <2>3, <2>11, Numbers, IsReady
<1>2. ASSUME NEW v \in Stores, NEW t \in NewTerms, NEW n \in Names, NEW c \in DOMAIN categories,
             AddNewStoreItem(h, v, c, n, NewUnit, t)
      PROVE  Ready(own, h)
  <2> DEFINE todo == InsertRow("product", lastId + 1, ProductRow(v, c, n, NewUnit))
                     \o InsertRow("listing", lastId + 2, ListingRow(v, lastId + 1, [t EXCEPT !.eta = FALSE]))
  <2>1. Usable(v, c) /\ EditStarts(h, Laoji, "addAdminVendorItem", todo, 2)
      BY <1>2 DEF AddNewStoreItem
  <2>2. PICK g : /\ OwnersKnown(g, lastId + 2) /\ Extends(own, g) /\ TablesAre(g, tables)
                 /\ lastId + 1 \in DOMAIN g /\ g[lastId + 1] = v /\ lastId + 2 \in DOMAIN g /\ g[lastId + 2] = v
      BY AdminDraws, StoresAre
  <2>3. c \in Near(g, v)
      BY <2>1, <2>2, UsableIs
  <2>4. Good(g, Laoji, todo)
      BY <2>2, <2>3, OwnProductIs, FineIsGood
  <2> HIDE DEF todo
  <2>. QED
      BY <1>0, <2>1, <2>2, <2>4, Numbers, IsReady
<1>3. ASSUME NEW l \in DOMAIN listings, NEW field \in {"stock", "on"}, NEW x, UpdateStoreTerms(h, l, field, x)
      PROVE  Ready(own, h)
  <2>1. EditStarts(h, Laoji, "updateAdminVendorItem", UpdateRow("listing", l, Only(field, x)), 0)
      BY <1>3 DEF UpdateStoreTerms
  <2>2. l \in DOMAIN own
      BY RowFacts
  <2>3. DOMAIN Only(field, x) \subseteq ListingFields \ {"vendor"} /\ "product" \notin DOMAIN Only(field, x)
    <3>1. PICK f : f = Only(field, x) /\ DOMAIN f = {field} /\ f[field] = x
        BY OnlyIs
    <3>. QED
        BY <3>1 DEF ListingFields
  <2>4. Good(own, Laoji, UpdateRow("listing", l, Only(field, x)))
      BY <2>2, <2>3, ChangedListing, FineIsGood
  <2>. QED
      BY <1>0, <2>1, <2>4, AdminDraws, Numbers, IsReady
<1>4. ASSUME NEW l \in DOMAIN listings, NEW field \in {"name", "unit", "cat"}, NEW x,
             field = "cat" => x \in DOMAIN categories, UpdateStoreItem(h, l, field, x)
      PROVE  Ready(own, h)
  <2> DEFINE p == listings[l].product
             v == listings[l].vendor
             new == Edited([CopyOf(v, p, products[p]) EXCEPT !.cat = products[p].cat, !.active = TRUE], Only(field, x))
             todo == IF products[p].owner = v THEN UpdateRow("product", p, Only(field, x))
                     ELSE InsertRow("product", lastId + 1, new) \o UpdateRow("listing", l, [product |-> lastId + 1])
  <2>1. (field = "cat" => Usable(v, x)) /\ EditStarts(h, Laoji, "updateAdminVendorItem", todo, 1)
      BY <1>4 DEF UpdateStoreItem
  <2>2. v \in Stores /\ l \in DOMAIN own /\ own[l] = v /\ p \in DOMAIN products /\ p \in Near(own, v)
      BY RowFacts
  <2>3. PICK g : /\ OwnersKnown(g, lastId + 1) /\ Extends(own, g) /\ TablesAre(g, tables)
                 /\ lastId + 1 \in DOMAIN g /\ g[lastId + 1] = v
    <3> HIDE DEF v
    <3>. QED
        BY <2>2, AdminDraws, StoresAre
  <2>4. /\ p \in DOMAIN g /\ products[p].owner = g[p] /\ ProductIs(g, p, products[p]) /\ g[p] \in {Laoji, v}
        /\ l \in DOMAIN g /\ g[l] = v
      BY <2>2, <2>3, RowFacts DEF Near, RowsOf, Extends
  <2>5. "cat" \in DOMAIN Only(field, x) => Only(field, x).cat \in Near(g, v)
    <3>0. PICK f : f = Only(field, x) /\ DOMAIN f = {field} /\ f[field] = x
        BY OnlyIs
    <3>1. "cat" \in DOMAIN Only(field, x) => field = "cat" /\ Only(field, x).cat = x
        BY <3>0
    <3>2. field = "cat" => x \in Near(g, v)
        BY <1>4, <2>1, <2>3, UsableIs
    <3>. QED
        BY <3>1, <3>2
  <2>6. DOMAIN Only(field, x) \subseteq {"name", "unit", "cat", "active"}
    <3>1. PICK f : f = Only(field, x) /\ DOMAIN f = {field} /\ f[field] = x
        BY OnlyIs
    <3>. QED
        BY <3>1
  <2>7. CASE products[p].owner = v
    <3>1. todo = UpdateRow("product", p, Only(field, x))
        BY <2>7
    <3> HIDE DEF p, v, todo
    <3>2. Good(g, Laoji, todo)
        BY <2>3, <2>4, <2>5, <2>6, <2>7, <3>1, ChangedProduct, FineIsGood
    <3>. QED
        BY <1>0, <2>1, <2>3, <3>2, Numbers, IsReady
  <2>8. CASE products[p].owner # v
    <3> DEFINE fields == [product |-> lastId + 1]
    <3>1. todo = InsertRow("product", lastId + 1, new) \o UpdateRow("listing", l, fields)
        BY <2>8
    <3>2. ProductIs(g, lastId + 1, [CopyOf(v, p, products[p]) EXCEPT !.cat = products[p].cat, !.active = TRUE])
      <4> HIDE DEF v, p
      <4>. QED
          BY <2>2, <2>3, <2>4, <2>8, CopyIs, Zenon
    <3>3. ProductIs(g, lastId + 1, new)
      <4>1. PICK row : row = [CopyOf(v, p, products[p]) EXCEPT !.cat = products[p].cat, !.active = TRUE]
          OBVIOUS
      <4>2. ProductIs(g, lastId + 1, Edited(row, Only(field, x)))
        <5>1. ProductIs(g, lastId + 1, row)
            BY <3>2, <4>1
        <5> HIDE DEF v
        <5>. QED
            BY <2>3, <2>5, <2>6, <5>1, EditedProduct
      <4>. QED
          BY <4>1, <4>2
    <3>4. DOMAIN fields = {"product"} /\ fields.product = lastId + 1
        OBVIOUS
    <3> HIDE DEF new, fields, todo, v, p
    <3>5. Fine(g, Laoji, InsertRow("product", lastId + 1, new))
        BY <2>3, <3>3, NewProductRow
    <3>6. lastId + 1 \in Near(g, v)
        BY <2>3 DEF Near, RowsOf
    <3>7. Fine(g, Laoji, UpdateRow("listing", l, fields))
        BY <2>3, <2>4, <3>4, <3>6, ChangedListing DEF ListingFields
    <3>8. Good(g, Laoji, todo)
        BY <3>1, <3>5, <3>7, FineCat, FineIsGood
    <3>. QED
        BY <1>0, <2>1, <2>3, <3>8, Numbers, IsReady
  <2>. QED
      BY <2>7, <2>8
<1>5. ASSUME NEW l \in DOMAIN listings, ResizeStoreItem(h, l)
      PROVE  Ready(own, h)
  <2>1. PICK sizes \in SizeLists(listings[l].vendor, l, "none") : EditStarts(h, Laoji, "updateAdminVendorItem", sizes, 0)
      BY <1>5 DEF ResizeStoreItem
  <2>2. listings[l].vendor \in Stores /\ l \in RowsOf(own, listings[l].vendor)
      BY RowFacts DEF RowsOf
  <2>3. Good(own, Laoji, sizes)
      BY <2>1, <2>2, SizesAre, FineIsGood
  <2>. QED
      BY <1>0, <2>1, <2>3, AdminDraws, Numbers, IsReady
<1>6. ASSUME NEW l \in DOMAIN listings, DeleteStoreItem(h, l)
      PROVE  Ready(own, h)
  <2>1. EditStarts(h, Laoji, "deleteAdminVendorItem", DropListing(l, FALSE), 0)
      BY <1>6 DEF DeleteStoreItem
  <2>2. Good(own, Laoji, DropListing(l, FALSE))
      BY DropListingIs
  <2>. QED
      BY <1>0, <2>1, <2>2, AdminDraws, Numbers, IsReady
<1>7. CASE \E v \in Stores, t \in NewTerms :
             \/ \E p \in DOMAIN products : AddStoreItem(h, v, p, t)
             \/ \E n \in Names, c \in DOMAIN categories : AddNewStoreItem(h, v, c, n, NewUnit, t)
    BY <1>7, <1>1, <1>2
<1>8. CASE \E l \in DOMAIN listings :
         \/ \E n \in 0..MaxStock : UpdateStoreTerms(h, l, "stock", n)
         \/ \E b \in BOOLEAN : UpdateStoreTerms(h, l, "on", b)
         \/ \E n \in Names : UpdateStoreItem(h, l, "name", n)
         \/ \E u \in Units : UpdateStoreItem(h, l, "unit", u)
         \/ \E c \in DOMAIN categories : UpdateStoreItem(h, l, "cat", c)
         \/ ResizeStoreItem(h, l)
         \/ DeleteStoreItem(h, l)
    BY <1>8, <1>3, <1>4, <1>5, <1>6
<1>. QED
    BY <1>7, <1>8 DEF AdminItemCall

-----------------------------------------------------------------------------
(* A call goes on: what it leaves to do is a good list again. *)
Goes(own, h) ==
    \E g, todo :
      /\ OwnersKnown(g, lastId') /\ Extends(own, g) /\ TablesAre(g, tables')
      /\ EditGoes(h, todo)
      /\ Fine(g, edit[h].by, todo) \/ (UNCHANGED tables /\ Good(g, edit[h].by, todo))

Known(own, h) ==
    OwnersKnown(own, lastId) /\ TablesAre(own, tables) /\ EditIs(own, edit[h])

LEMMA CallGoesOn ==
    ASSUME NEW own, NEW h, Known(own, h), lastId' = lastId, NEW todo, EditGoes(h, todo),
           \/ TablesAre(own, tables') /\ Fine(own, edit[h].by, todo)
           \/ UNCHANGED tables /\ Good(own, edit[h].by, todo)
           \/ UNCHANGED tables /\ Fine(own, edit[h].by, todo)
    PROVE  Goes(own, h)
<1>1. OwnersKnown(own, lastId') /\ TablesAre(own, tables')
  <2>1. OwnersKnown(own, lastId') /\ TablesAre(own, tables)
      BY DEF Known
  <2>. QED
      BY <2>1
<1>. QED
    BY <1>1, Same DEF Goes

LEMMA NextIs ==
    ASSUME NEW own, NEW h, Known(own, h), edit[h].todo # <<>>
    PROVE  /\ Fine(own, edit[h].by, LaterQueries(h))
           /\ Writes(own, edit[h].by, NextQuery(h)) \/ Reading(own, edit[h].by, NextQuery(h))
           /\ edit[h].by \in Owners
<1>1. ListIs(own, edit[h].by, edit[h].todo) /\ MildAfter(edit[h].todo) /\ edit[h].by \in Owners
    BY DEF Known, EditIs
<1>. QED
    BY <1>1, TailIs DEF LaterQueries, NextQuery, Fine

LEMMA RunQueryGoes ==
    ASSUME NEW own, NEW h, Known(own, h), RunQuery(h)
    PROVE  Goes(own, h)
<1> DEFINE q == NextQuery(h)
<1>1. /\ edit[h].todo # <<>> /\ q.do \in Runs /\ lastId' = lastId
      /\ \/ EditGoes(h, <<>>) /\ UNCHANGED tables
         \/ /\ ~Taken(q) /\ ~Lost(q) /\ Consistent(Result(tables, q))
            /\ tables' = Result(tables, q) /\ EditGoes(h, LaterQueries(h))
    BY DEF RunQuery, Runs
<1>2. CASE EditGoes(h, <<>>) /\ UNCHANGED tables
    BY <1>1, <1>2, FineNone, CallGoesOn
<1>3. CASE /\ ~Taken(q) /\ ~Lost(q) /\ Consistent(Result(tables, q))
           /\ tables' = Result(tables, q) /\ EditGoes(h, LaterQueries(h))
  <2>1. Writes(own, edit[h].by, q) /\ edit[h].by \in Owners
      BY <1>1, NextIs DEF Reading, Runs
  <2>2. TablesAre(own, Result(tables, q))
      BY <1>1, <1>3, <2>1, ResultKeeps DEF Known
  <2>. QED
      BY <1>1, <1>3, <2>2, NextIs, CallGoesOn
<1>. QED
    BY <1>1, <1>2, <1>3

LEMMA DropOwnGoes ==
    ASSUME NEW own, NEW h, Known(own, h), DropOwn(h)
    PROVE  Goes(own, h)
<1> DEFINE q == NextQuery(h)
           by == edit[h].by
           todo == IF q.id \notin DOMAIN products \/ products[q.id].owner # q.vendor THEN <<>>
                   ELSE IF q.id \notin bought THEN DeleteRows("product", {q.id})
                   ELSE IF q.ungroup /\ products[q.id].group # Null
                   THEN UpdateRow("product", q.id, [group |-> Null, label |-> "none"])
                   ELSE <<>>
<1>1. edit[h].todo # <<>> /\ q.do = "dropOwn" /\ EditGoes(h, todo) /\ UNCHANGED <<tables, lastId>>
    BY DEF DropOwn, Reads
<1>2. q.vendor \in Stores /\ (by # Laoji => q.vendor = by)
  <2>1. Reading(own, by, q) \/ Writes(own, by, q)
      BY <1>1, NextIs
  <2>. QED
      BY <1>1, <2>1 DEF Reading, Writes, Inserts, Updates, Moves
<1>3. Fine(own, by, todo)
  <2>1. CASE todo = <<>>
      BY <2>1, FineNone
  <2>2. CASE todo # <<>>
    <3>1. q.id \in DOMAIN products /\ products[q.id].owner = q.vendor
        BY <2>2
    <3>2. q.id \in DOMAIN own /\ own[q.id] = q.vendor
        BY <3>1, RowFacts DEF Known
    <3>3. PICK fields : fields = [group |-> Null, label |-> "none"]
        OBVIOUS
    <3>4. Fine(own, by, DeleteRows("product", {q.id}))
      <4>1. by # Laoji => {q.id} \subseteq RowsOf(own, by)
          BY <1>2, <3>2 DEF RowsOf
      <4>. QED
          BY <4>1, Deletes
    <3>5. Updates(own, by, [do |-> "update", table |-> "product", id |-> q.id, fields |-> fields])
        BY <1>2, <3>2, <3>3 DEF Updates, ProductFields
    <3>6. Fine(own, by, UpdateRow("product", q.id, fields))
        BY <3>5, Changed
    <3>7. todo = DeleteRows("product", {q.id}) \/ todo = UpdateRow("product", q.id, fields)
        BY <2>2, <3>3
    <3> HIDE DEF todo
    <3>. QED
        BY <3>4, <3>6, <3>7
  <2>. QED
      BY <2>1, <2>2
<1>. QED
    BY <1>1, <1>3, CallGoesOn

LEMMA FewAdded ==
    ASSUME NEW own, NEW by, NEW q, q.do = "sizes", Reading(own, by, q)
    PROVE  Cardinality(Added(q)) \in Nat
<1>1. DOMAIN q.wanted \subseteq Units
    BY DEF Reading
<1>2. IsFiniteSet(Units)
    BY StoreCatalogAssumption
<1>3. Added(q) \subseteq Units
    BY <1>1 DEF Added
<1>. QED
    BY <1>2, <1>3, FS_Subset, FS_CardinalityType

LEMMA SyncSizesGoes ==
    ASSUME NEW own, NEW h, Known(own, h), SyncSizes(h)
    PROVE  Goes(own, h)
<1> DEFINE q == NextQuery(h)
           by == edit[h].by
<1>1. edit[h].todo # <<>> /\ q.do = "sizes" /\ EditGoes(h, <<>>)
    BY DEF SyncSizes, Reads
<1>2. Reading(own, by, q)
  <2>1. Reading(own, by, q) \/ Writes(own, by, q)
      BY <1>1, NextIs
  <2>. QED
      BY <1>1, <2>1 DEF Writes, Inserts, Updates, Moves
<1>3. CASE UNCHANGED <<tables, lastId>>
    BY <1>1, <1>3, FineNone, CallGoesOn
<1>4. CASE ~UNCHANGED <<tables, lastId>>
  <2> DEFINE k == 2 + 2 * Cardinality(Added(q))
             m == lastId + 2 + 2 * Cardinality(Added(q))
  <2>1. /\ q.listing \in DOMAIN listings
        /\ \A u \in DOMAIN q.wanted : q.wanted[u] \in Siblings(tables, q.vendor, q.listing) \cup {Null}
        /\ lastId' = m
        /\ \E at \in SizeOrders(q) : tables' = Sized(tables, q, lastId, at)
      BY <1>4 DEF SyncSizes
  <2>2. PICK at \in SizeOrders(q) : tables' = Sized(tables, q, lastId, at)
      BY <2>1
  <2>3. k \in Nat /\ lastId \in Nat /\ lastId + k = m
      BY <1>1, <1>2, FewAdded DEF Known, OwnersKnown
  <2>4. q.vendor \in Owners
      BY <1>1, <1>2, StoresAre DEF Reading
  <2>5. OwnersKnown(own, lastId) /\ TablesAre(own, tables)
      BY DEF Known
  <2>6. \E g : /\ OwnersKnown(g, lastId + k) /\ Extends(own, g)
               /\ \A i \in lastId + 1 .. lastId + k :
                    i \in DOMAIN g /\ g[i] = IF i = lastId + 1 THEN q.vendor ELSE q.vendor
    <3>1. PICK n, a, j : n = lastId /\ a = q.vendor /\ j = k
        OBVIOUS
    <3>2. \E g : /\ OwnersKnown(g, n + j) /\ Extends(own, g)
                  /\ \A i \in n + 1 .. n + j : i \in DOMAIN g /\ g[i] = IF i = n + 1 THEN a ELSE a
      <4>1. OwnersKnown(own, n) /\ j \in Nat /\ a \in Owners
          BY <2>3, <2>4, <2>5, <3>1
      <4>. QED
          BY <4>1, Grown
    <3> HIDE DEF k, q
    <3>. QED
        BY <3>1, <3>2
  <2>7. PICK g : /\ OwnersKnown(g, m) /\ Extends(own, g) /\ \A i \in lastId + 1 .. m : g[i] = q.vendor
    <3> HIDE DEF k, m, q
    <3>. QED
        BY <2>3, <2>6
  <2>8. TablesAre(g, Sized(tables, q, lastId, at))
      BY <1>1, <1>2, <2>1, <2>2, <2>5, <2>7, SizedKeeps
  <2>9. OwnersKnown(g, lastId') /\ TablesAre(g, tables')
      BY <2>1, <2>2, <2>7, <2>8
  <2> HIDE DEF q
  <2>. QED
      BY <1>1, <2>7, <2>9, FineNone DEF Goes
<1>. QED
    BY <1>3, <1>4

LEMMA LinkOwnGoes ==
    ASSUME NEW own, NEW h, Known(own, h), LinkOwn(h)
    PROVE  Goes(own, h)
<1> DEFINE q == NextQuery(h)
           by == edit[h].by
           same == {c \in Named(q.vendor, q.name) : categories[c].template = Null}
           fields == [template |-> q.id]
           todo == IF same = {} \/ Copies(q.vendor, q.id) # {} THEN <<>>
                   ELSE UpdateRow("category", Min(same), fields) \o Refile({q.vendor}, q.id, Min(same))
<1>1. edit[h].todo # <<>> /\ q.do = "link" /\ EditGoes(h, todo) /\ UNCHANGED <<tables, lastId>>
    BY DEF LinkOwn, Reads
<1>2. q.id \in RowsOf(own, Laoji) /\ q.vendor \in Stores /\ by = Laoji
  <2>1. Reading(own, by, q) \/ Writes(own, by, q)
      BY <1>1, NextIs
  <2>. QED
      BY <1>1, <2>1 DEF Reading, Writes, Inserts, Updates, Moves
<1>3. Good(own, by, todo)
  <2>1. CASE todo = <<>>
      BY <2>1, FineNone, FineIsGood
  <2>2. CASE todo # <<>>
    <3>1. same # {} /\ Copies(q.vendor, q.id) = {}
        BY <2>2
    <3>2. same \subseteq DOMAIN categories
        BY DEF Named
    <3>3. Min(same) \in same
      <4> HIDE DEF same
      <4>. QED
          BY <3>1, <3>2, OldestOf DEF Known
    <3>4. PICK c : c = Min(same)
        OBVIOUS
    <3>5. c \in DOMAIN categories /\ categories[c].owner = q.vendor
        BY <3>3, <3>4 DEF Named
    <3>6. c \in DOMAIN own /\ own[c] = q.vendor
        BY <3>5, RowFacts DEF Known
    <3>7. DOMAIN fields = {"template"} /\ fields.template = q.id
        OBVIOUS
    <3>8. todo = UpdateRow("category", c, fields) \o Refile({q.vendor}, q.id, c)
        BY <3>1, <3>4
    <3> HIDE DEF fields, todo, same
    <3>9. Updates(own, by, [do |-> "update", table |-> "category", id |-> c, fields |-> fields])
        BY <1>2, <3>6, <3>7, StoresAre DEF Updates, CategoryFields
    <3>10. Good(own, by, UpdateRow("category", c, fields))
        BY <3>1, <3>5, <3>7, <3>9, Changed
    <3>11. Fine(own, by, Refile({q.vendor}, q.id, c))
        BY <1>2, <3>6, Refiles
    <3>. QED
        BY <3>8, <3>10, <3>11, FineCat
  <2>. QED
      BY <2>1, <2>2
<1>. QED
    BY <1>1, <1>3, CallGoesOn

LEMMA EachIs ==
    ASSUME NEW own, NEW by, NEW what, what \in {"move", "give"}, NEW of, NEW left,
           Reading(own, by, [do |-> what, of |-> of, left |-> left])
    PROVE  Fine(own, by, Each(what, of, left))
<1> DEFINE q == [do |-> what, of |-> of, left |-> left]
<1>1. q.do \notin {"insert", "update"} /\ Reading(own, by, q)
    OBVIOUS
<1>2. Fine(own, by, <<q>>)
    BY <1>1, OtherQueries
<1>. QED
    BY <1>2, FineNone DEF Each

LEMMA DetachGoes ==
    ASSUME NEW own, NEW h, Known(own, h), Detach(h)
    PROVE  Goes(own, h)
<1> DEFINE q == NextQuery(h)
           by == edit[h].by
           gone == q.rows
           rows == [c \in DOMAIN gone |-> [gone[c] EXCEPT !.type = TypeOf(gone[c])]]
           stranded == {<<products[p].owner, products[p].cat>> :
                          p \in {p \in ProductsIn(DOMAIN gone) : products[p].owner # Laoji}}
<1>1. /\ edit[h].todo # <<>> /\ q.do = "detach"
      /\ EditGoes(h, Each("move", rows, stranded) \o LaterQueries(h)) /\ UNCHANGED <<tables, lastId>>
    BY DEF Detach, Reads
<1>2. by = Laoji /\ \A c \in DOMAIN gone : c \in RowsOf(own, Laoji) /\ CategoryIs(own, c, gone[c])
  <2>1. Reading(own, by, q) \/ Writes(own, by, q)
      BY <1>1, NextIs
  <2>. QED
      BY <1>1, <2>1 DEF Reading, Writes, Inserts, Updates, Moves
<1>3. DOMAIN rows = DOMAIN gone /\ \A c \in DOMAIN rows : c \in RowsOf(own, Laoji) /\ CategoryIs(own, c, rows[c])
    BY <1>2 DEF CategoryIs, CategoryFields
<1>4. \A x \in stranded : x[1] \in Stores /\ x[2] \in DOMAIN rows
  <2>1. \A p \in DOMAIN products : products[p].owner \in Owners
      BY RowFacts DEF Known
  <2>. QED
      BY <1>3, <2>1, StoresAre DEF ProductsIn
<1> HIDE DEF rows, stranded
<1> DEFINE m == [do |-> "move", of |-> rows, left |-> stranded]
<1>5. m.do = "move" /\ m.of = rows /\ m.left = stranded
    OBVIOUS
<1>6. Reading(own, by, m)
  <2> HIDE DEF m
  <2>. QED
      BY <1>2, <1>3, <1>4, <1>5 DEF Reading
<1>7. Fine(own, by, Each("move", rows, stranded))
    BY <1>6, EachIs
<1>8. Fine(own, by, Each("move", rows, stranded) \o LaterQueries(h))
    BY <1>1, <1>7, NextIs, FineCat
<1>. QED
    BY <1>1, <1>8, CallGoesOn

LEMMA DrawsOne ==
    ASSUME NEW own, OwnersKnown(own, lastId), TablesAre(own, tables), NEW a \in Owners
    PROVE  \E g : /\ OwnersKnown(g, lastId + 1) /\ Extends(own, g) /\ TablesAre(g, tables)
                  /\ lastId + 1 \in DOMAIN g /\ g[lastId + 1] = a
BY AdminDraws

LEMMA FineStays ==
    ASSUME NEW own, NEW g, Extends(own, g), NEW by, NEW s, Fine(own, by, s)
    PROVE  Fine(g, by, s)
<1>1. \A k \in 1..Len(s) : Writes(g, by, s[k]) \/ Reading(g, by, s[k])
    BY QueryStays DEF Fine, ListIs
<1>. QED
    BY <1>1 DEF Fine, ListIs

LEMMA MoveOneGoes ==
    ASSUME NEW own, NEW h, Known(own, h), MoveOne(h)
    PROVE  Goes(own, h)
<1> DEFINE q == NextQuery(h)
           by == edit[h].by
           rows == q.of
<1>1. edit[h].todo # <<>> /\ q.do = "move" /\ UNCHANGED tables
    BY DEF MoveOne, Reads
<1>2. /\ by = Laoji
      /\ \A c \in DOMAIN rows : c \in RowsOf(own, Laoji) /\ CategoryIs(own, c, rows[c])
      /\ \A x \in q.left : x[1] \in Stores /\ x[2] \in DOMAIN rows
  <2>1. Reading(own, by, q) \/ Writes(own, by, q)
      BY <1>1, NextIs
  <2>. QED
      BY <1>1, <2>1 DEF Reading, Writes, Inserts, Updates, Moves
<1>3. PICK x \in q.left :
        LET row == rows[x[2]]
            copies == Copies(x[1], x[2])
            parent == IF row.parent \in DOMAIN rows THEN Null ELSE row.parent
            next == Each("move", rows, q.left \ {x}) \o LaterQueries(h)
        IN  IF copies # {} THEN EditGoes(h, Refile({x[1]}, x[2], Max(copies)) \o next) /\ UNCHANGED lastId
            ELSE /\ lastId < MaxIds /\ lastId' = lastId + 1
                 /\ EditGoes(h, InsertRow("category", lastId + 1, CategoryRow(x[1], Null, parent, row.name, row.type))
                                  \o Refile({x[1]}, x[2], lastId + 1) \o next)
    BY DEF MoveOne
<1>4. x[1] \in Stores /\ x[1] \in Owners /\ x[2] \in DOMAIN rows
    BY <1>2, StoresAre
<1> DEFINE row == rows[x[2]]
           parent == IF row.parent \in DOMAIN rows THEN Null ELSE row.parent
           next == Each("move", rows, q.left \ {x}) \o LaterQueries(h)
           m == [do |-> "move", of |-> rows, left |-> q.left \ {x}]
<1>5. m.do = "move" /\ m.of = rows /\ m.left = q.left \ {x}
    OBVIOUS
<1>6. Reading(own, by, m)
  <2> HIDE DEF m
  <2>. QED
      BY <1>2, <1>5 DEF Reading
<1>7. Fine(own, by, next)
  <2>1. Fine(own, by, Each("move", rows, q.left \ {x}))
      BY <1>6, EachIs
  <2>. QED
      BY <1>1, <2>1, NextIs, FineCat
<1>8. OwnersKnown(own, lastId) /\ TablesAre(own, tables)
    BY DEF Known
<1>9. CASE Copies(x[1], x[2]) # {}
  <2>1. EditGoes(h, Refile({x[1]}, x[2], Max(Copies(x[1], x[2]))) \o next) /\ UNCHANGED lastId
      BY <1>3, <1>9
  <2>2. Max(Copies(x[1], x[2])) \in Copies(x[1], x[2])
      BY <1>8, <1>9, ShopCategoryIs
  <2>3. PICK c : c = Max(Copies(x[1], x[2]))
      OBVIOUS
  <2>4. c \in DOMAIN own /\ own[c] = x[1]
      BY <1>8, <2>2, <2>3, RowFacts DEF Copies
  <2>5. Fine(own, by, Refile({x[1]}, x[2], c))
      BY <1>2, <2>4, Refiles
  <2>6. Fine(own, by, Refile({x[1]}, x[2], c) \o next)
      BY <1>7, <2>5, FineCat
  <2> HIDE DEF next
  <2>. QED
      BY <1>1, <2>1, <2>3, <2>6, CallGoesOn
<1>10. CASE Copies(x[1], x[2]) = {}
  <2> DEFINE new == InsertRow("category", lastId + 1, CategoryRow(x[1], Null, parent, row.name, row.type))
             move == Refile({x[1]}, x[2], lastId + 1)
  <2>1. lastId' = lastId + 1 /\ EditGoes(h, new \o move \o next)
      BY <1>3, <1>10
  <2>2. PICK g : /\ OwnersKnown(g, lastId + 1) /\ Extends(own, g) /\ TablesAre(g, tables)
                 /\ lastId + 1 \in DOMAIN g /\ g[lastId + 1] = x[1]
      BY <1>4, <1>8, DrawsOne
  <2>3. parent \in RowsOf(g, Laoji) \cup {Null}
    <3>1. row.parent \in RowsOf(own, Laoji) \cup {Null}
        BY <1>2, <1>4 DEF CategoryIs
    <3>. QED
        BY <2>2, <3>1, MineGrows
  <2>4. Fine(g, by, new)
    <3> HIDE DEF row, parent
    <3>. QED
        BY <2>2, <2>3, NewCategoryRow
  <2>5. Fine(g, by, move)
      BY <1>2, <2>2, Refiles
  <2>6. Fine(g, by, next)
    <3> HIDE DEF next
    <3>. QED
        BY <1>7, <2>2, FineStays
  <2> HIDE DEF new, move, next
  <2>7. Fine(g, by, new \o move \o next)
      BY <2>4, <2>5, <2>6, FineCat
  <2>8. OwnersKnown(g, lastId') /\ TablesAre(g, tables')
      BY <1>1, <2>1, <2>2
  <2>. QED
      BY <2>1, <2>2, <2>7, <2>8 DEF Goes
<1>. QED
    BY <1>9, <1>10

LEMMA GiveCopiesGoes ==
    ASSUME NEW own, NEW h, Known(own, h), GiveCopies(h)
    PROVE  Goes(own, h)
<1> DEFINE q == NextQuery(h)
           by == edit[h].by
           stock == {<<listings[l].vendor, l>> : l \in ListingsOfProducts({q.id})}
           m == [do |-> "give", of |-> q, left |-> stock]
<1>1. /\ edit[h].todo # <<>> /\ q.do = "handOver"
      /\ EditGoes(h, Each("give", q, stock) \o LaterQueries(h)) /\ UNCHANGED <<tables, lastId>>
    BY DEF GiveCopies, Reads
<1>2. by = Laoji /\ q.id \in RowsOf(own, Laoji) /\ ProductIs(own, q.id, q.row)
  <2>1. Reading(own, by, q) \/ Writes(own, by, q)
      BY <1>1, NextIs
  <2>. QED
      BY <1>1, <2>1 DEF Reading, Writes, Inserts, Updates, Moves
<1>3. \A x \in stock : x[1] \in Stores /\ x[2] \in RowsOf(own, x[1])
  <2>1. \A l \in DOMAIN listings : listings[l].vendor \in Stores /\ l \in RowsOf(own, listings[l].vendor)
      BY RowFacts DEF Known, RowsOf
  <2>. QED
      BY <2>1 DEF ListingsOfProducts
<1>4. m.do = "give" /\ m.of = q /\ m.left = stock
    OBVIOUS
<1>5. Reading(own, by, m)
  <2> HIDE DEF m, stock, q
  <2>. QED
      BY <1>2, <1>3, <1>4 DEF Reading
<1> HIDE DEF stock
<1>6. Fine(own, by, Each("give", q, stock))
    BY <1>5, EachIs
<1>7. Fine(own, by, Each("give", q, stock) \o LaterQueries(h))
    BY <1>1, <1>6, NextIs, FineCat
<1>. QED
    BY <1>1, <1>7, CallGoesOn

(* The copy a store gets, and its listing of it. *)
LEMMA CopyListed ==
    ASSUME NEW g, OwnersKnown(g, lastId + 1), TablesAre(g, tables), NEW v \in Stores,
           lastId + 1 \in DOMAIN g, g[lastId + 1] = v,
           NEW p \in RowsOf(g, Laoji), NEW row, ProductIs(g, p, row), NEW l \in RowsOf(g, v)
    PROVE  /\ Fine(g, Laoji, InsertRow("product", lastId + 1, CopyOf(v, p, row)))
           /\ Fine(g, Laoji, UpdateRow("listing", l, [product |-> lastId + 1]))
<1>1. ProductIs(g, lastId + 1, CopyOf(v, p, row))
    BY CopyIs, Zenon DEF RowsOf
<1>2. Fine(g, Laoji, InsertRow("product", lastId + 1, CopyOf(v, p, row)))
    BY <1>1, NewProductRow
<1>3. PICK fields : fields = [product |-> lastId + 1] /\ DOMAIN fields = {"product"} /\ fields.product = lastId + 1
  <2>1. PICK f : f = [product |-> lastId + 1]
      OBVIOUS
  <2>. QED
      BY <2>1
<1>4. lastId + 1 \in Near(g, v)
    BY DEF Near, RowsOf
<1>5. Fine(g, Laoji, UpdateRow("listing", l, fields))
    BY <1>3, <1>4, ChangedListing DEF ListingFields, RowsOf
<1>. QED
    BY <1>2, <1>3, <1>5

LEMMA GiveCopyGoes ==
    ASSUME NEW own, NEW h, Known(own, h), GiveCopy(h)
    PROVE  Goes(own, h)
<1> DEFINE q == NextQuery(h)
           by == edit[h].by
           of == q.of
<1>1. edit[h].todo # <<>> /\ q.do = "give" /\ lastId' = lastId + 1 /\ UNCHANGED tables
    BY DEF GiveCopy, Reads
<1>2. /\ by = Laoji /\ of.id \in RowsOf(own, Laoji) /\ ProductIs(own, of.id, of.row)
      /\ \A x \in q.left : x[1] \in Stores /\ x[2] \in RowsOf(own, x[1])
  <2>1. Reading(own, by, q) \/ Writes(own, by, q)
      BY <1>1, NextIs
  <2>. QED
      BY <1>1, <2>1 DEF Reading, Writes, Inserts, Updates, Moves
<1>3. PICK x \in q.left :
         EditGoes(h, InsertRow("product", lastId + 1, CopyOf(x[1], of.id, of.row))
                       \o UpdateRow("listing", x[2], [product |-> lastId + 1])
                       \o Each("give", of, q.left \ {x}) \o LaterQueries(h))
    BY DEF GiveCopy
<1> DEFINE m == [do |-> "give", of |-> of, left |-> q.left \ {x}]
<1>4. m.do = "give" /\ m.of = of /\ m.left = q.left \ {x}
    OBVIOUS
<1>5. Reading(own, by, m)
  <2> HIDE DEF m, of
  <2>. QED
      BY <1>2, <1>4 DEF Reading
<1>6. Fine(own, by, Each("give", of, q.left \ {x}))
    BY <1>5, EachIs
<1>7. OwnersKnown(own, lastId) /\ TablesAre(own, tables) /\ x[1] \in Owners /\ x[1] \in Stores
    BY <1>2, StoresAre DEF Known
<1>8. PICK g : /\ OwnersKnown(g, lastId + 1) /\ Extends(own, g) /\ TablesAre(g, tables)
               /\ lastId + 1 \in DOMAIN g /\ g[lastId + 1] = x[1]
    BY <1>7, DrawsOne
<1>9. of.id \in RowsOf(g, Laoji) /\ x[2] \in RowsOf(g, x[1]) /\ ProductIs(g, of.id, of.row)
  <2>1. of.id \in DOMAIN own
      BY <1>2 DEF RowsOf
  <2>. QED
      BY <1>2, <1>8, <2>1, MineGrows, RowsStay
<1>10. /\ Fine(g, by, InsertRow("product", lastId + 1, CopyOf(x[1], of.id, of.row)))
       /\ Fine(g, by, UpdateRow("listing", x[2], [product |-> lastId + 1]))
    BY <1>2, <1>7, <1>8, <1>9, CopyListed
<1>11. Fine(g, by, Each("give", of, q.left \ {x})) /\ Fine(g, by, LaterQueries(h))
    BY <1>1, <1>6, <1>8, NextIs, FineStays
<1>12. Fine(g, by, InsertRow("product", lastId + 1, CopyOf(x[1], of.id, of.row))
                   \o UpdateRow("listing", x[2], [product |-> lastId + 1])
                   \o Each("give", of, q.left \ {x}) \o LaterQueries(h))
    BY <1>10, <1>11, FineCat
<1>13. OwnersKnown(g, lastId') /\ TablesAre(g, tables')
    BY <1>1, <1>8
<1>. QED
    BY <1>3, <1>8, <1>12, <1>13 DEF Goes

LEMMA DeleteListingsGoes ==
    ASSUME NEW own, NEW h, Known(own, h), DeleteListings(h)
    PROVE  Goes(own, h)
<1>1. /\ edit[h].todo # <<>> /\ EditGoes(h, LaterQueries(h)) /\ lastId' = lastId
      /\ tables' = Dropped(tables, "listing", ListingsOfProducts(NextQuery(h).ids))
    BY DEF DeleteListings, Reads
<1>2. TablesAre(own, tables')
    BY <1>1, FewerListings DEF Known
<1>. QED
    BY <1>1, <1>2, NextIs, CallGoesOn

LEMMA EditCutGoes ==
    ASSUME NEW own, NEW h, Known(own, h), EditCut(h)
    PROVE  Goes(own, h)
BY FineNone, CallGoesOn DEF EditCut

-----------------------------------------------------------------------------
(* CatalogInv is inductive. *)
CallStarts(h) ==
    \/ \E v \in Callers : VendorCategoryCall(h, v) \/ VendorProductCall(h, v)
    \/ AdminCategoryCall(h) \/ AdminProductCall(h) \/ AdminItemCall(h)

CallGoes(h) ==
    \/ RunQuery(h) \/ DropOwn(h) \/ SyncSizes(h) \/ LinkOwn(h) \/ Detach(h) \/ MoveOne(h)
    \/ GiveCopies(h) \/ GiveCopy(h) \/ DeleteListings(h) \/ EditCut(h)

LEMMA CallIsReady ==
    ASSUME NEW own, OwnersKnown(own, lastId), TablesAre(own, tables), ~AdminStrays, NEW h, CallStarts(h)
    PROVE  Ready(own, h)
<1>1. ASSUME NEW v \in Callers, VendorCategoryCall(h, v) PROVE Ready(own, h)
    BY <1>1, StoresAre, CategoryCallReady
<1>2. ASSUME NEW v \in Callers, VendorProductCall(h, v) PROVE Ready(own, h)
    BY <1>2, StoresAre, ProductCallReady
<1>3. CASE AdminCategoryCall(h)
    BY <1>3, AdminCategoryReady
<1>4. CASE AdminProductCall(h)
    BY <1>4, AdminProductReady
<1>5. CASE AdminItemCall(h)
    BY <1>5, AdminItemReady
<1>. QED
    BY <1>1, <1>2, <1>3, <1>4, <1>5 DEF CallStarts

LEMMA CallDoesGo ==
    ASSUME NEW own, NEW h, Known(own, h), CallGoes(h)
    PROVE  Goes(own, h)
<1>1. CASE RunQuery(h)
    BY <1>1, RunQueryGoes
<1>2. CASE DropOwn(h)
    BY <1>2, DropOwnGoes
<1>3. CASE SyncSizes(h)
    BY <1>3, SyncSizesGoes
<1>4. CASE LinkOwn(h)
    BY <1>4, LinkOwnGoes
<1>5. CASE Detach(h)
    BY <1>5, DetachGoes
<1>6. CASE MoveOne(h)
    BY <1>6, MoveOneGoes
<1>7. CASE GiveCopies(h)
    BY <1>7, GiveCopiesGoes
<1>8. CASE GiveCopy(h)
    BY <1>8, GiveCopyGoes
<1>9. CASE DeleteListings(h)
    BY <1>9, DeleteListingsGoes
<1>10. CASE EditCut(h)
    BY <1>10, EditCutGoes
<1>. QED
    BY <1>1, <1>2, <1>3, <1>4, <1>5, <1>6, <1>7, <1>8, <1>9, <1>10 DEF CallGoes

LEMMA NextSplits ==
    ASSUME CatalogNext
    PROVE  \/ \E h \in Editors : MayEdit(h) /\ CallStarts(h)
           \/ \E h \in Editors : CallGoes(h)
           \/ \E l \in DOMAIN listings : Order(l)
BY DEF CatalogNext, CallStarts, CallGoes

LEMMA StartKeeps ==
    ASSUME CatalogInv, NEW h \in Editors, ~AdminStrays, CallStarts(h)
    PROVE  CatalogInv'
<1>1. PICK own : OwnersKnown(own, lastId) /\ TablesAre(own, tables) /\ \A k \in Editors : EditIs(own, edit[k])
    BY DEF CatalogInv
<1>a. PICK by \in Owners, n \in Nat :
        \E what, todo, g : /\ EditStarts(h, by, what, todo, n)
                          /\ OwnersKnown(g, lastId + n) /\ Extends(own, g) /\ Good(g, by, todo)
    BY <1>1, CallIsReady DEF Ready
<1>2. PICK what, todo, g : /\ EditStarts(h, by, what, todo, n)
                           /\ OwnersKnown(g, lastId + n) /\ Extends(own, g) /\ Good(g, by, todo)
    BY <1>a
<1>3. /\ DOMAIN edit = Editors /\ lastId' = lastId + n /\ tables' = tables
      /\ edit' = [edit EXCEPT ![h] = [by |-> by, what |-> what, todo |-> todo]]
    BY <1>2 DEF CatalogInv, EditStarts
<1>4. OwnersKnown(g, lastId') /\ TablesAre(g, tables')
    BY <1>1, <1>2, <1>3, TablesStay
<1>5. ASSUME NEW k \in Editors PROVE EditIs(g, edit'[k])
  <2>1. CASE k = h
    <3>1. PICK e : e = [by |-> by, what |-> what, todo |-> todo]
        OBVIOUS
    <3>2. DOMAIN e = {"by", "what", "todo"} /\ e.by = by /\ e.todo = todo
        BY <3>1
    <3>3. edit'[k] = e
        BY <1>3, <2>1, <3>1
    <3>. QED
        BY <1>2, <3>2, <3>3 DEF EditIs, Good
  <2>2. CASE k # h
    <3>1. edit'[k] = edit[k]
        BY <1>3, <2>2
    <3>2. EditIs(g, edit[k])
        BY <1>1, <1>2, EditStays
    <3>. QED
        BY <3>1, <3>2
  <2>. QED
      BY <2>1, <2>2
<1>6. DOMAIN edit' = Editors
    BY <1>3
<1>. QED
    BY <1>4, <1>5, <1>6 DEF CatalogInv

LEMMA NoEditIs ==
    ASSUME NEW own
    PROVE  EditIs(own, NoEdit) /\ NoEdit.by = Laoji /\ NoEdit.todo = <<>> /\ NoEdit.what = "idle"
<1>1. DOMAIN NoEdit = {"by", "what", "todo"} /\ NoEdit.by = Laoji /\ NoEdit.todo = <<>> /\ NoEdit.what = "idle"
    BY DEF NoEdit
<1>. QED
    BY <1>1, NoneIs, StoresAre DEF EditIs

LEMMA GoneOn ==
    ASSUME NEW h \in Editors, DOMAIN edit = Editors, NEW own, EditIs(own, edit[h]), NEW todo, EditGoes(h, todo)
    PROVE  /\ DOMAIN edit' = Editors
           /\ \A k \in Editors \ {h} : edit'[k] = edit[k]
           /\ todo = <<>> => edit'[h] = NoEdit
           /\ todo # <<>> => /\ DOMAIN edit'[h] = {"by", "what", "todo"} /\ edit'[h].by = edit[h].by
                             /\ edit'[h].what = edit[h].what /\ edit'[h].todo = todo
<1>1. edit' = [edit EXCEPT ![h] = IF todo = <<>> THEN NoEdit ELSE [@ EXCEPT !.todo = todo]]
    BY DEF EditGoes
<1>2. DOMAIN edit[h] = {"by", "what", "todo"}
    BY DEF EditIs
<1>3. PICK e : e = edit[h]
    OBVIOUS
<1>4. PICK f : f = [e EXCEPT !.todo = todo]
    OBVIOUS
<1>5. DOMAIN f = {"by", "what", "todo"} /\ f.by = e.by /\ f.what = e.what /\ f.todo = todo
    BY <1>2, <1>3, <1>4
<1>6. edit'[h] = IF todo = <<>> THEN NoEdit ELSE f
    BY <1>1, <1>3, <1>4
<1>. QED
    BY <1>1, <1>3, <1>5, <1>6

LEMMA GoKeeps ==
    ASSUME CatalogInv, NEW h \in Editors, CallGoes(h)
    PROVE  CatalogInv'
<1>1. PICK own : OwnersKnown(own, lastId) /\ TablesAre(own, tables) /\ \A k \in Editors : EditIs(own, edit[k])
    BY DEF CatalogInv
<1>2. PICK g, todo : /\ OwnersKnown(g, lastId') /\ Extends(own, g) /\ TablesAre(g, tables')
                     /\ EditGoes(h, todo)
                     /\ Fine(g, edit[h].by, todo) \/ Good(g, edit[h].by, todo)
    BY <1>1, CallDoesGo DEF Goes, Known
<1>3. Good(g, edit[h].by, todo)
    BY <1>2, FineIsGood
<1>4. DOMAIN edit = Editors
    BY DEF CatalogInv
<1>5. ASSUME NEW k \in Editors PROVE EditIs(g, edit'[k])
  <2>1. CASE k = h /\ todo = <<>>
      BY <1>1, <1>2, <1>4, <2>1, GoneOn, NoEditIs
  <2>2. CASE k = h /\ todo # <<>>
    <3>1. /\ DOMAIN edit'[h] = {"by", "what", "todo"} /\ edit'[h].by = edit[h].by /\ edit'[h].todo = todo
        BY <1>1, <1>2, <1>4, <2>2, GoneOn
    <3>2. edit[h].by \in Owners
        BY <1>1 DEF EditIs
    <3>. QED
        BY <1>3, <2>2, <3>1, <3>2 DEF EditIs, Good
  <2>3. CASE k # h
    <3>1. edit'[k] = edit[k]
        BY <1>1, <1>2, <1>4, <2>3, GoneOn
    <3>2. EditIs(g, edit[k])
        BY <1>1, <1>2, EditStays
    <3>. QED
        BY <3>1, <3>2
  <2>. QED
      BY <2>1, <2>2, <2>3
<1>6. DOMAIN edit' = Editors
    BY <1>1, <1>2, <1>4, GoneOn
<1>. QED
    BY <1>2, <1>5, <1>6 DEF CatalogInv

LEMMA OrderKeeps ==
    ASSUME CatalogInv, NEW l \in DOMAIN listings, Order(l)
    PROVE  CatalogInv'
<1>1. PICK own : OwnersKnown(own, lastId) /\ TablesAre(own, tables) /\ \A k \in Editors : EditIs(own, edit[k])
    BY DEF CatalogInv
<1>2. edit' = edit /\ lastId' = lastId /\ tables' = [tables EXCEPT !.ordered = @ \cup {listings[l].product}]
    BY DEF Order
<1>3. PICK d : d = [tables EXCEPT !.ordered = @ \cup {listings[l].product}]
    OBVIOUS
<1>4. /\ DOMAIN d = DOMAIN tables /\ d.category = tables.category /\ d.product = tables.product
      /\ d.listing = tables.listing /\ d.suggestion = tables.suggestion
    BY <1>1, <1>3 DEF TablesAre
<1>5. TablesAre(own, d)
    BY <1>1, <1>4 DEF TablesAre
<1>6. TablesAre(own, tables') /\ OwnersKnown(own, lastId')
    BY <1>1, <1>2, <1>3, <1>5
<1>. QED
    BY <1>1, <1>2, <1>6 DEF CatalogInv

LEMMA CatalogNextKeeps ==
    ASSUME CatalogInv, [CatalogNext]_catalogVars, ~AdminStrays
    PROVE  CatalogInv'
<1>1. ASSUME NEW h \in Editors, CallStarts(h) PROVE CatalogInv'
    BY <1>1, StartKeeps
<1>2. ASSUME NEW h \in Editors, CallGoes(h) PROVE CatalogInv'
    BY <1>2, GoKeeps
<1>3. ASSUME NEW l \in DOMAIN listings, Order(l) PROVE CatalogInv'
    BY <1>3, OrderKeeps
<1>4. CASE UNCHANGED catalogVars
    BY <1>4 DEF CatalogInv, catalogVars
<1>. QED
    BY <1>1, <1>2, <1>3, <1>4, NextSplits

LEMMA CatalogInitKeeps ==
    ASSUME CatalogInit
    PROVE  CatalogInv
<1> DEFINE own == [i \in 1..FirstId |->
                     IF i \in DOMAIN FirstCategories THEN FirstCategories[i].owner
                     ELSE IF i \in DOMAIN FirstProducts THEN FirstProducts[i].owner
                     ELSE IF i \in DOMAIN FirstListings THEN FirstListings[i].vendor
                     ELSE Laoji]
<1>1. FirstId \in Nat /\ lastId = FirstId /\ edit = [h \in Editors |-> NoEdit]
    BY StoreCatalogAssumption DEF CatalogInit
<1>2. /\ \A c \in DOMAIN FirstCategories : c \in 1..FirstId /\ FirstCategories[c].owner \in Owners
      /\ \A p \in DOMAIN FirstProducts : p \in 1..FirstId /\ FirstProducts[p].owner \in Owners
                                         /\ p \notin DOMAIN FirstCategories
      /\ \A l \in DOMAIN FirstListings : l \in 1..FirstId /\ FirstListings[l].vendor \in Stores
                                         /\ l \notin DOMAIN FirstCategories /\ l \notin DOMAIN FirstProducts
    BY StoreCatalogAssumption
<1>3. OwnersKnown(own, FirstId)
    BY <1>1, <1>2, StoresAre DEF OwnersKnown, Owners
<1>4. /\ DOMAIN own = 1..FirstId
      /\ \A c \in DOMAIN FirstCategories : c \in DOMAIN own /\ own[c] = FirstCategories[c].owner
      /\ \A p \in DOMAIN FirstProducts : p \in DOMAIN own /\ own[p] = FirstProducts[p].owner
      /\ \A l \in DOMAIN FirstListings : l \in DOMAIN own /\ own[l] = FirstListings[l].vendor
    BY <1>2
<1> HIDE DEF own
<1>5. ASSUME NEW c \in DOMAIN FirstCategories
      PROVE  CategoryIs(own, c, FirstCategories[c]) /\ FirstCategories[c].template \in DOMAIN FirstCategories \cup {Null}
    BY <1>4, StoreCatalogAssumption DEF CategoryIs, RowsOf
<1>6. ASSUME NEW p \in DOMAIN FirstProducts
      PROVE  ProductIs(own, p, FirstProducts[p]) /\ FirstProducts[p].cat \in DOMAIN FirstCategories
    BY <1>4, StoreCatalogAssumption DEF ProductIs, RowsOf, Near
<1>7. ASSUME NEW l \in DOMAIN FirstListings
      PROVE  ListingIs(own, l, FirstListings[l]) /\ FirstListings[l].product \in DOMAIN FirstProducts
    BY <1>4, StoreCatalogAssumption DEF ListingIs, RowsOf, Near
<1>8. TablesAre(own, tables)
  <2>1. /\ DOMAIN tables = {"category", "product", "listing", "suggestion", "ordered"}
        /\ tables.category = FirstCategories /\ tables.product = FirstProducts /\ tables.listing = FirstListings
        /\ tables.suggestion = [i \in {} |-> Null]
      BY DEF CatalogInit
  <2>2. DOMAIN tables.suggestion = {}
      BY <2>1
  <2>. QED
      BY <1>4, <1>5, <1>6, <1>7, <2>1, <2>2 DEF TablesAre
<1>9. DOMAIN edit = Editors /\ \A h \in Editors : EditIs(own, edit[h])
    BY <1>1, NoEditIs
<1>. QED
    BY <1>1, <1>3, <1>8, <1>9 DEF CatalogInv

(* Whatever calls overlap or are cut short, every row of the catalog is    *)
(* its store's or Laoji's and refers only to rows of the same owner or of  *)
(* Laoji, and every query a call has still to run keeps to that            *)
(* (catalog.service.ts, grocery-sizes.service.ts). Where an admin gives a  *)
(* store another's category or product (AdminStrays) it is not so, and the *)
(* next two theorems would be false.                                       *)
THEOREM CatalogInvHolds == ~AdminStrays => (CatalogSpec => []CatalogInv)
<1> SUFFICES ASSUME ~AdminStrays PROVE CatalogSpec => []CatalogInv
    OBVIOUS
<1>1. CatalogInit => CatalogInv
    BY CatalogInitKeeps
<1>2. CatalogInv /\ [CatalogNext]_catalogVars => CatalogInv'
    BY CatalogNextKeeps
<1>. QED
    BY <1>1, <1>2, PTL DEF CatalogSpec

-----------------------------------------------------------------------------
(* One copy of a template per store, while one call runs at a time. *)
OneOfEach(d) ==
    \A c, e \in DOMAIN d.category :
      /\ d.category[c].owner = d.category[e].owner
      /\ d.category[c].template = d.category[e].template
      /\ d.category[c].template # Null
      => c = e

Has(d, v, t) == \E c \in DOMAIN d.category : d.category[c].owner = v /\ d.category[c].template = t

SpareIn(d, q) ==
    /\ Gives(q) /\ q.do = "insert" => ~Has(d, q.row.owner, q.row.template)
    /\ Gives(q) /\ q.do = "update" /\ q.id \in DOMAIN d.category => ~Has(d, d.category[q.id].owner, q.fields.template)

OneAtATime == \A h, k \in Editors : h # k => edit[h] = NoEdit \/ edit[k] = NoEdit

SoleInv ==
    oneEdit => /\ OneOfEach(tables) /\ OneAtATime
               /\ \A h \in Editors : edit[h].todo # <<>> => SpareIn(tables, edit[h].todo[1])

LEMMA SpareIs ==
    ASSUME NEW q, Spare(q)
    PROVE  SpareIn(tables, q)
<1>1. \A v, t : Copies(v, t) = {} => ~Has(tables, v, t)
    BY DEF Copies, Has, categories
<1>. QED
    BY <1>1 DEF Spare, SpareIn, categories

LEMMA MildIsSpare ==
    ASSUME NEW own, NEW by, NEW s, Fine(own, by, s), s # <<>>, NEW d
    PROVE  SpareIn(d, s[1])
<1>1. IsList(s) /\ Len(s) \in Nat /\ Len(s) > 0
    BY ListTail DEF Fine, ListIs, IsList
<1>2. 1 \in 1..Len(s)
    BY <1>1
<1>. QED
    BY <1>2 DEF Fine, Mild, SpareIn

LEMMA FewerCopies ==
    ASSUME NEW d, OneOfEach(d), NEW new,
           \A c \in DOMAIN new.category :
             /\ c \in DOMAIN d.category /\ new.category[c].owner = d.category[c].owner
             /\ new.category[c].template \in {Null, d.category[c].template}
    PROVE  OneOfEach(new)
BY DEF OneOfEach

LEMMA AnotherCopy ==
    ASSUME NEW d, OneOfEach(d), NEW new, NEW i,
           \A c \in DOMAIN new.category \ {i} :
             c \in DOMAIN d.category /\ new.category[c] = d.category[c],
           i \in DOMAIN new.category /\ new.category[i].template # Null
             => ~Has(d, new.category[i].owner, new.category[i].template)
    PROVE  OneOfEach(new)
<1>1. SUFFICES ASSUME NEW c \in DOMAIN new.category, NEW e \in DOMAIN new.category,
                      new.category[c].owner = new.category[e].owner,
                      new.category[c].template = new.category[e].template,
                      new.category[c].template # Null
               PROVE  c = e
    BY DEF OneOfEach
<1>2. CASE c # i /\ e # i
    BY <1>1, <1>2 DEF OneOfEach
<1>3. CASE c = i /\ e # i
  <2>1. e \in DOMAIN d.category /\ new.category[e] = d.category[e]
      BY <1>3
  <2>2. Has(d, new.category[i].owner, new.category[i].template)
      BY <1>1, <1>3, <2>1 DEF Has
  <2>. QED
      BY <1>1, <1>3, <2>2
<1>4. CASE c # i /\ e = i
  <2>1. c \in DOMAIN d.category /\ new.category[c] = d.category[c]
      BY <1>4
  <2>2. Has(d, new.category[i].owner, new.category[i].template)
      BY <1>1, <1>4, <2>1 DEF Has
  <2>. QED
      BY <1>1, <1>4, <2>2
<1>. QED
    BY <1>2, <1>3, <1>4

LEMMA ResultKeepsOne ==
    ASSUME NEW own, TablesAre(own, tables), OneOfEach(tables), NEW by, NEW q, Writes(own, by, q), q.do \in Runs,
           SpareIn(tables, q)
    PROVE  OneOfEach(Result(tables, q))
<1>0. PICK d : d = Result(tables, q)
    OBVIOUS
<1>a. SUFFICES OneOfEach(d)
    BY <1>0
<1>1. DOMAIN tables = {"category", "product", "listing", "suggestion", "ordered"}
    BY DEF TablesAre
<1>2. ASSUME d.category = tables.category PROVE OneOfEach(d)
    BY <1>2 DEF OneOfEach
<1>3. CASE q.do = "insert" /\ q.table = "category"
  <2>1. d = [tables EXCEPT !["category"] = WithRow(@, q.id, q.row)]
      BY <1>0, <1>3 DEF Result
  <2>2. d.category = WithRow(tables.category, q.id, q.row)
      BY <1>1, <2>1
  <2>3. /\ \A c \in DOMAIN d.category \ {q.id} : c \in DOMAIN tables.category /\ d.category[c] = tables.category[c]
        /\ q.id \in DOMAIN d.category => d.category[q.id] = q.row
      BY <2>2 DEF WithRow
  <2>4. q.row.template # Null => ~Has(tables, q.row.owner, q.row.template)
      BY <1>3 DEF SpareIn, Gives
  <2>. QED
      BY <2>3, <2>4, AnotherCopy
<1>4. CASE q.do = "update" /\ q.table = "category" /\ q.id \in DOMAIN tables.category
  <2>1. d = [tables EXCEPT !["category"][q.id] = Edited(@, q.fields)]
      BY <1>0, <1>4 DEF Result
  <2>2. PICK row : row = Edited(tables.category[q.id], q.fields)
      OBVIOUS
  <2>3. d.category = [tables.category EXCEPT ![q.id] = row]
      BY <1>1, <2>1, <2>2
  <2>4. DOMAIN q.fields \subseteq CategoryFields \ {"owner"} /\ DOMAIN tables.category[q.id] = CategoryFields
      BY <1>4 DEF Writes, Updates, Inserts, Moves, TablesAre, CategoryIs
  <2>5. /\ row.owner = tables.category[q.id].owner
        /\ row.template = IF "template" \in DOMAIN q.fields THEN q.fields.template ELSE tables.category[q.id].template
      BY <2>2, <2>4 DEF Edited, CategoryFields
  <2>6. /\ DOMAIN d.category = DOMAIN tables.category
        /\ \A c \in DOMAIN d.category \ {q.id} : d.category[c] = tables.category[c]
        /\ d.category[q.id] = row
      BY <1>4, <2>3
  <2>7. CASE "template" \in DOMAIN q.fields
    <3>1. ~Has(tables, row.owner, row.template)
        BY <1>4, <2>5, <2>7 DEF SpareIn, Gives
    <3>. QED
        BY <2>6, <3>1, AnotherCopy
  <2>8. CASE "template" \notin DOMAIN q.fields
    <3>1. \A c \in DOMAIN d.category :
             /\ c \in DOMAIN tables.category /\ d.category[c].owner = tables.category[c].owner
             /\ d.category[c].template \in {Null, tables.category[c].template}
        BY <2>5, <2>6, <2>8
    <3>. QED
        BY <3>1, FewerCopies
  <2>. QED
      BY <2>7, <2>8
<1>5. CASE q.do = "delete" /\ q.table = "category"
  <2>1. d = MinusCategories(tables, q.ids)
      BY <1>0, <1>5 DEF Result, Dropped
  <2>2. d.category = [c \in DOMAIN tables.category \ q.ids |->
                        IF tables.category[c].template \in q.ids THEN [tables.category[c] EXCEPT !.template = Null]
                        ELSE tables.category[c]]
      BY <1>1, <2>1 DEF MinusCategories
  <2>3. \A c \in DOMAIN tables.category : DOMAIN tables.category[c] = CategoryFields
      BY DEF TablesAre, CategoryIs
  <2>4. \A c \in DOMAIN d.category :
           /\ c \in DOMAIN tables.category /\ d.category[c].owner = tables.category[c].owner
           /\ d.category[c].template \in {Null, tables.category[c].template}
      BY <2>2, <2>3 DEF CategoryFields
  <2>. QED
      BY <2>4, FewerCopies
<1>6. CASE q.do = "unlinkCategories"
  <2>1. d = UnlinkCategories(tables, q.ids)
      BY <1>0, <1>6 DEF Result
  <2>2. d.category = [c \in DOMAIN tables.category |->
                        IF tables.category[c].owner # Laoji /\ tables.category[c].parent \in q.ids
                        THEN [tables.category[c] EXCEPT !.parent = Null] ELSE tables.category[c]]
      BY <1>1, <2>1 DEF UnlinkCategories
  <2>3. \A c \in DOMAIN tables.category : DOMAIN tables.category[c] = CategoryFields
      BY DEF TablesAre, CategoryIs
  <2>4. \A c \in DOMAIN d.category :
           /\ c \in DOMAIN tables.category /\ d.category[c].owner = tables.category[c].owner
           /\ d.category[c].template \in {Null, tables.category[c].template}
      BY <2>2, <2>3 DEF CategoryFields
  <2>. QED
      BY <2>4, FewerCopies
<1>7. CASE q.do = "insert" /\ q.table # "category"
  <2>1. q.table \in {"product", "listing", "suggestion"}
      BY <1>7 DEF Writes, Inserts, Updates, Moves
  <2>2. d = [tables EXCEPT ![q.table] = WithRow(@, q.id, q.row)]
      BY <1>0, <1>7 DEF Result
  <2>. QED
      BY <1>1, <1>2, <2>1, <2>2
<1>8. CASE q.do = "update" /\ ~(q.table = "category" /\ q.id \in DOMAIN tables.category)
  <2>1. q.table \in {"category", "product", "listing", "suggestion"}
      BY <1>8 DEF Writes, Inserts, Updates, Moves
  <2>2. d = IF q.id \notin DOMAIN tables[q.table] THEN tables
            ELSE [tables EXCEPT ![q.table][q.id] = Edited(@, q.fields)]
      BY <1>0, <1>8 DEF Result
  <2>. QED
      BY <1>1, <1>2, <1>8, <2>1, <2>2
<1>9. CASE q.do = "delete" /\ q.table # "category"
  <2>1. d = Dropped(tables, q.table, q.ids)
      BY <1>0, <1>9 DEF Result
  <2>2. d.category = tables.category
      BY <1>1, <1>9, <2>1 DEF Dropped, MinusProducts
  <2>. QED
      BY <1>2, <2>2
<1>10. CASE q.do \in {"refile", "restock", "unlinkProduct", "unlinkTemplates"}
  <2>1. \/ d = Refiled(tables, q)
        \/ d = Restocked(tables, q.id)
        \/ d = UnlinkProducts(tables, q.ids)
        \/ d = UnlinkTemplates(tables, q.ids)
      BY <1>0, <1>10 DEF Result
  <2>2. d.category = tables.category
      BY <1>1, <2>1 DEF Refiled, Restocked, UnlinkProducts, UnlinkTemplates
  <2>. QED
      BY <1>2, <2>2
<1>. QED
    BY <1>3, <1>4, <1>5, <1>6, <1>7, <1>8, <1>9, <1>10 DEF Runs

LEMMA NextSpare ==
    ASSUME NEW own, NEW h, Known(own, h), edit[h].todo # <<>>, SpareIn(tables, edit[h].todo[1])
    PROVE  SpareIn(tables, NextQuery(h))
<1>1. ListIs(own, edit[h].by, edit[h].todo) /\ MildAfter(edit[h].todo)
    BY DEF Known, EditIs
<1>. QED
    BY <1>1, TailIs DEF NextQuery

LEMMA GoKeepsOne ==
    ASSUME NEW own, NEW h, Known(own, h), CallGoes(h), OneOfEach(tables),
           edit[h].todo # <<>> => SpareIn(tables, edit[h].todo[1])
    PROVE  OneOfEach(tables')
<1>0. ASSUME tables'.category = tables.category PROVE OneOfEach(tables')
    BY <1>0 DEF OneOfEach
<1>1. CASE UNCHANGED tables
    BY <1>1
<1>2. CASE RunQuery(h)
  <2> DEFINE q == NextQuery(h)
  <2>1. CASE ~UNCHANGED tables
    <3>1. edit[h].todo # <<>> /\ q.do \in Runs /\ tables' = Result(tables, q)
        BY <1>2, <2>1 DEF RunQuery, Runs
    <3>2. Writes(own, edit[h].by, q)
        BY <3>1, NextIs DEF Reading, Runs
    <3>3. SpareIn(tables, q) /\ TablesAre(own, tables)
        BY <3>1, NextSpare DEF Known
    <3>4. OneOfEach(Result(tables, q))
        BY <3>1, <3>2, <3>3, ResultKeepsOne
    <3>. QED
        BY <3>1, <3>4
  <2>. QED
      BY <1>1, <2>1
<1>3. CASE SyncSizes(h) /\ ~UNCHANGED tables
  <2> DEFINE q == NextQuery(h)
  <2>1. PICK at \in SizeOrders(q) : tables' = Sized(tables, q, lastId, at)
      BY <1>3 DEF SyncSizes
  <2>2. DOMAIN tables = {"category", "product", "listing", "suggestion", "ordered"}
      BY DEF Known, TablesAre
  <2>3. Sized(tables, q, lastId, at).category = tables.category
      BY <2>2 DEF Sized
  <2>. QED
      BY <1>0, <2>1, <2>3
<1>4. CASE DeleteListings(h)
  <2>1. tables' = [tables EXCEPT !.listing = [l \in DOMAIN @ \ ListingsOfProducts(NextQuery(h).ids) |-> @[l]]]
      BY <1>4 DEF DeleteListings, Dropped
  <2>2. DOMAIN tables = {"category", "product", "listing", "suggestion", "ordered"}
      BY DEF Known, TablesAre
  <2>. QED
      BY <1>0, <2>1, <2>2
<1>. QED
    BY <1>1, <1>2, <1>3, <1>4
       DEF CallGoes, DropOwn, LinkOwn, Detach, MoveOne, GiveCopies, GiveCopy, EditCut

LEMMA SoleInvKeeps ==
    ASSUME CatalogInv, SoleInv, MCCatalogNext, ~AdminStrays
    PROVE  SoleInv'
<1>1. SUFFICES ASSUME oneEdit'
               PROVE  /\ OneOfEach(tables') /\ OneAtATime'
                      /\ \A h \in Editors : edit'[h].todo # <<>> => SpareIn(tables', edit'[h].todo[1])
    BY DEF SoleInv
<1>2. /\ CatalogNext /\ oneEdit
      /\ \A h, k \in Editors : h # k /\ edit'[h] # NoEdit => edit'[k] = NoEdit
      /\ \A h \in Editors : edit[h] # NoEdit => edit'[h] # edit[h]
    BY <1>1 DEF MCCatalogNext
<1>3. OneAtATime'
    BY <1>2 DEF OneAtATime
<1>4. /\ OneOfEach(tables) /\ \A h \in Editors : edit[h].todo # <<>> => SpareIn(tables, edit[h].todo[1])
      /\ \A h, k \in Editors : h # k => edit[h] = NoEdit \/ edit[k] = NoEdit
    BY <1>2 DEF SoleInv, OneAtATime
<1>5. PICK own : OwnersKnown(own, lastId) /\ TablesAre(own, tables) /\ \A k \in Editors : EditIs(own, edit[k])
    BY DEF CatalogInv
<1>6. DOMAIN edit = Editors
    BY DEF CatalogInv
<1>7. ASSUME NEW h \in Editors, CallStarts(h)
      PROVE  OneOfEach(tables') /\ \A k \in Editors : edit'[k].todo # <<>> => SpareIn(tables', edit'[k].todo[1])
  <2>a. PICK by \in Owners, n \in Nat :
          \E what, todo, g : /\ EditStarts(h, by, what, todo, n)
                            /\ OwnersKnown(g, lastId + n) /\ Extends(own, g) /\ Good(g, by, todo)
      BY <1>5, <1>7, CallIsReady DEF Ready
  <2>1. PICK what, todo, g : EditStarts(h, by, what, todo, n) /\ Good(g, by, todo)
      BY <2>a
  <2>2. /\ tables' = tables /\ todo # <<>>
        /\ edit' = [edit EXCEPT ![h] = [by |-> by, what |-> what, todo |-> todo]]
      BY <2>1 DEF EditStarts
  <2>3. edit'[h].todo = todo /\ \A k \in Editors \ {h} : edit'[k] = edit[k]
      BY <1>6, <2>2
  <2>4. SpareIn(tables, todo[1])
      BY <2>1, <2>2, SpareIs DEF Good
  <2>. QED
      BY <1>4, <2>2, <2>3, <2>4
<1>8. ASSUME NEW h \in Editors, CallGoes(h)
      PROVE  OneOfEach(tables') /\ \A k \in Editors : edit'[k].todo # <<>> => SpareIn(tables', edit'[k].todo[1])
  <2>1. Known(own, h)
      BY <1>5 DEF Known
  <2>2. OneOfEach(tables')
      BY <1>4, <1>8, <2>1, GoKeepsOne
  <2>3. PICK g, todo : /\ EditGoes(h, todo)
                       /\ Fine(g, edit[h].by, todo) \/ (UNCHANGED tables /\ Good(g, edit[h].by, todo))
      BY <1>8, <2>1, CallDoesGo DEF Goes
  <2>4. /\ \A k \in Editors \ {h} : edit'[k] = edit[k]
        /\ todo = <<>> => edit'[h] = NoEdit
        /\ todo # <<>> => edit'[h].todo = todo
      BY <1>5, <1>6, <2>3, GoneOn
  <2>5. ASSUME NEW k \in Editors, k # h PROVE edit'[k].todo = <<>>
    <3>1. edit[h] # NoEdit
        BY <1>8, <1>5, NoEditIs DEF CallGoes, RunQuery, DropOwn, SyncSizes, LinkOwn, Detach, MoveOne,
                                 GiveCopies, GiveCopy, DeleteListings, EditCut, Reads
    <3>2. edit[k] = NoEdit
        BY <1>4, <2>5, <3>1
    <3>. QED
        BY <2>4, <2>5, <3>2, NoEditIs
  <2>6. edit'[h].todo # <<>> => SpareIn(tables', edit'[h].todo[1])
    <3>1. SUFFICES ASSUME edit'[h].todo # <<>> PROVE SpareIn(tables', edit'[h].todo[1])
        OBVIOUS
    <3>2. todo # <<>> /\ edit'[h].todo = todo
        BY <2>4, <3>1, NoEditIs
    <3>3. CASE Fine(g, edit[h].by, todo)
        BY <3>2, <3>3, MildIsSpare
    <3>4. CASE UNCHANGED tables /\ Good(g, edit[h].by, todo)
      <4>1. SpareIn(tables, todo[1])
          BY <3>2, <3>4, SpareIs DEF Good
      <4>. QED
          BY <3>2, <3>4, <4>1
    <3>. QED
        BY <2>3, <3>3, <3>4
  <2>. QED
      BY <2>2, <2>5, <2>6
<1>9. ASSUME NEW l \in DOMAIN listings, Order(l)
      PROVE  OneOfEach(tables') /\ \A k \in Editors : edit'[k].todo # <<>> => SpareIn(tables', edit'[k].todo[1])
  <2>1. edit' = edit /\ tables' = [tables EXCEPT !.ordered = @ \cup {listings[l].product}]
      BY <1>9 DEF Order
  <2>2. tables'.category = tables.category
      BY <1>5, <2>1 DEF TablesAre
  <2>3. OneOfEach(tables')
      BY <1>4, <2>2 DEF OneOfEach
  <2>4. \A q : SpareIn(tables, q) => SpareIn(tables', q)
      BY <2>2 DEF SpareIn, Has
  <2>. QED
      BY <1>4, <2>1, <2>3, <2>4
<1>. QED
    BY <1>2, <1>3, <1>7, <1>8, <1>9, NextSplits

LEMMA OneCopyHolds ==
    ASSUME CatalogInv, OneOfEach(tables)
    PROVE  OneCopyPerTemplate
<1>1. PICK own : OwnersKnown(own, lastId) /\ TablesAre(own, tables)
    BY DEF CatalogInv
<1>2. SUFFICES ASSUME NEW v \in Stores, NEW t \in DOMAIN categories PROVE Cardinality(Copies(v, t)) <= 1
    BY DEF OneCopyPerTemplate
<1>3. t # Null
    BY <1>1, RowFacts
<1>4. \A c, e \in Copies(v, t) : c = e
    BY <1>3 DEF Copies, OneOfEach, categories
<1>5. CASE Copies(v, t) = {}
    BY <1>5, FS_EmptySet
<1>6. CASE Copies(v, t) # {}
  <2>1. PICK c : c \in Copies(v, t)
      BY <1>6
  <2>2. Copies(v, t) = {c}
      BY <1>4, <2>1
  <2>3. Cardinality({c}) = 1
      BY FS_Singleton
  <2>. QED
      BY <2>2, <2>3
<1>. QED
    BY <1>5, <1>6

LEMMA SoleInvInit ==
    ASSUME MCCatalogInit
    PROVE  SoleInv
<1>1. tables.category = FirstCategories /\ \A h \in Editors : edit[h] = NoEdit
    BY DEF MCCatalogInit, CatalogInit
<1>2. OneOfEach(tables)
  <2>1. SUFFICES ASSUME NEW c \in DOMAIN FirstCategories, NEW e \in DOMAIN FirstCategories,
                        FirstCategories[c].owner = FirstCategories[e].owner,
                        FirstCategories[c].template = FirstCategories[e].template,
                        FirstCategories[c].template # Null, c # e
                 PROVE  FALSE
      BY <1>1 DEF OneOfEach
  <2>2. \A d \in DOMAIN FirstCategories \ {c} :
           <<FirstCategories[d].owner, FirstCategories[d].template>>
             # <<FirstCategories[c].owner, FirstCategories[c].template>>
      BY <2>1, StoreCatalogAssumption
  <2>. QED
      BY <2>1, <2>2
<1>. QED
    BY <1>1, <1>2, NoEditIs DEF SoleInv, OneAtATime

(* What is for sale is found by customers under a category and by its      *)
(* store under one of its own screen, whatever overlaps: the reads of      *)
(* publicListProducts and listVendorCategories follow the copies that      *)
(* overlapping calls leave. As long as calls do not overlap a store has    *)
(* one copy of a template (schema.ts: at most one per vendor).             *)
THEOREM StoresFindWhatTheySell == ~AdminStrays => (MCCatalogSpec => []FoundAlways)
<1> SUFFICES ASSUME ~AdminStrays PROVE MCCatalogSpec => []FoundAlways
    OBVIOUS
<1>1. MCCatalogInit => CatalogInv /\ SoleInv
    BY CatalogInitKeeps, SoleInvInit DEF MCCatalogInit
<1>2. CatalogInv /\ SoleInv /\ [MCCatalogNext]_catalogHistory => (CatalogInv /\ SoleInv)'
  <2>1. SUFFICES ASSUME CatalogInv, SoleInv, [MCCatalogNext]_catalogHistory PROVE CatalogInv' /\ SoleInv'
      OBVIOUS
  <2>2. CASE MCCatalogNext
    <3>1. CatalogNext
        BY <2>2 DEF MCCatalogNext
    <3>. QED
        BY <2>1, <2>2, <3>1, CatalogNextKeeps, SoleInvKeeps
  <2>3. CASE UNCHANGED catalogHistory
    <3>1. UNCHANGED <<tables, edit, lastId, edits, oneEdit>>
        BY <2>3 DEF catalogHistory, catalogVars
    <3>2. CatalogInv'
        BY <2>1, <3>1, CatalogNextKeeps DEF catalogVars
    <3>3. SoleInv'
        BY <2>1, <3>1 DEF SoleInv, OneAtATime
    <3>. QED
        BY <3>2, <3>3
  <2>. QED
      BY <2>1, <2>2, <2>3
<1>3. CatalogInv /\ SoleInv => FoundAlways
  <2>1. ASSUME CatalogInv, SoleInv PROVE FoundAlways
    <3>1. PICK own : OwnersKnown(own, lastId) /\ TablesAre(own, tables)
        BY <2>1 DEF CatalogInv
    <3>2. Found
        BY <3>1, FoundHolds
    <3>3. oneEdit => OneCopyPerTemplate
        BY <2>1, OneCopyHolds DEF SoleInv
    <3>. QED
        BY <3>2, <3>3 DEF FoundAlways
  <2>. QED
      BY <2>1
<1>. QED
    BY <1>1, <1>2, <1>3, PTL DEF MCCatalogSpec

-----------------------------------------------------------------------------
(* What a store's call leaves as it is. *)
KeepsOthers(own, v, d, new) ==
    /\ \A i \in DOMAIN d.category : own[i] # v => i \in DOMAIN new.category /\ new.category[i] = d.category[i]
    /\ \A i \in DOMAIN d.product : own[i] # v => i \in DOMAIN new.product /\ new.product[i] = d.product[i]
    /\ \A i \in DOMAIN d.listing : own[i] # v => i \in DOMAIN new.listing /\ new.listing[i] = d.listing[i]

LEMMA ResultKeepsOthers ==
    ASSUME NEW own, NEW n, OwnersKnown(own, n), TablesAre(own, tables), NEW v, v # Laoji,
           NEW q, Writes(own, v, q), q.do \in Runs, ~Taken(q)
    PROVE  KeepsOthers(own, v, tables, Result(tables, q))
<1>0. PICK d : d = Result(tables, q)
    OBVIOUS
<1>a. SUFFICES KeepsOthers(own, v, tables, d)
    BY <1>0
<1>1. DOMAIN tables = {"category", "product", "listing", "suggestion", "ordered"}
    BY DEF TablesAre
<1>2. /\ \A c \in DOMAIN tables.category : tables.category[c].template \in RowsOf(own, Laoji) \cup {Null}
      /\ \A p \in DOMAIN tables.product : /\ tables.product[p].template \in RowsOf(own, Laoji) \cup {Null}
                                          /\ tables.product[p].cat \in Near(own, own[p])
                                          /\ tables.product[p].owner = own[p]
      /\ \A l \in DOMAIN tables.listing : tables.listing[l].product \in Near(own, own[l])
    BY DEF TablesAre, CategoryIs, ProductIs, ListingIs
<1>3. Null \notin DOMAIN own
    BY RowFacts
<1>4. CASE Inserts(own, v, q)
  <2>1. /\ q.table \in {"category", "product", "listing", "suggestion"}
        /\ q.id \notin DOMAIN tables[q.table]
        /\ d = [tables EXCEPT ![q.table] = WithRow(@, q.id, q.row)]
      BY <1>0, <1>4 DEF Inserts, Taken, Result
  <2>2. \A i \in DOMAIN tables[q.table] :
           i \in DOMAIN WithRow(tables[q.table], q.id, q.row) /\ WithRow(tables[q.table], q.id, q.row)[i] = tables[q.table][i]
      BY <2>1 DEF WithRow
  <2>3. PICK table : table = WithRow(tables[q.table], q.id, q.row)
      OBVIOUS
  <2>4. d = [tables EXCEPT ![q.table] = table]
      BY <2>1, <2>3
  <2>5. \A i \in DOMAIN tables[q.table] : i \in DOMAIN table /\ table[i] = tables[q.table][i]
      BY <2>2, <2>3
  <2>. QED
      BY <1>1, <2>1, <2>4, <2>5 DEF KeepsOthers
<1>5. CASE Updates(own, v, q)
  <2>1. q.table \in {"category", "product", "listing", "suggestion"} /\ own[q.id] = v
      BY <1>5 DEF Updates
  <2>2. CASE q.id \notin DOMAIN tables[q.table]
    <3>1. d = tables
        BY <1>0, <1>5, <2>2 DEF Updates, Result
    <3>. QED
        BY <3>1 DEF KeepsOthers
  <2>3. CASE q.id \in DOMAIN tables[q.table]
    <3>1. PICK row : row = Edited(tables[q.table][q.id], q.fields)
        OBVIOUS
    <3>2. d = [tables EXCEPT ![q.table][q.id] = row]
        BY <1>0, <1>5, <2>3, <3>1 DEF Updates, Result
    <3>. QED
        BY <1>1, <2>1, <2>3, <3>2 DEF KeepsOthers
  <2>. QED
      BY <2>2, <2>3
<1>6. CASE Moves(own, v, q)
  <2>1. q.owners \subseteq {v} \/ q.from \in RowsOf(own, v)
      BY <1>6 DEF Moves
  <2>2. d = Refiled(tables, q)
      BY <1>0, <1>6 DEF Moves, Result
  <2>3. /\ d.category = tables.category /\ d.listing = tables.listing
        /\ d.product = [p \in DOMAIN tables.product |->
                          IF tables.product[p].owner \in q.owners /\ tables.product[p].cat = q.from
                          THEN [tables.product[p] EXCEPT !.cat = q.to] ELSE tables.product[p]]
      BY <1>1, <2>2 DEF Refiled
  <2>4. ASSUME NEW p \in DOMAIN tables.product, own[p] # v
        PROVE  ~(tables.product[p].owner \in q.owners /\ tables.product[p].cat = q.from)
      BY <1>2, <2>1, <2>4 DEF Near, RowsOf
  <2>. QED
      BY <2>3, <2>4 DEF KeepsOthers
<1>7. CASE q.do = "delete" /\ q.table \in {"category", "product", "listing"}
  <2>1. q.ids \subseteq RowsOf(own, v)
      BY <1>7 DEF Writes, Inserts, Updates, Moves
  <2>2. d = Dropped(tables, q.table, q.ids)
      BY <1>0, <1>7 DEF Result
  <2>3. \A i : i \in RowsOf(own, Laoji) \cup {Null} => i \notin q.ids
      BY <1>3, <2>1 DEF RowsOf
  <2>4. CASE q.table = "product"
    <3>1. d = MinusProducts(tables, q.ids)
        BY <2>2, <2>4 DEF Dropped
    <3>2. /\ d.category = tables.category
          /\ d.product = [p \in DOMAIN tables.product \ q.ids |->
                            IF tables.product[p].template \in q.ids THEN [tables.product[p] EXCEPT !.template = Null]
                            ELSE tables.product[p]]
          /\ d.listing = [l \in {l \in DOMAIN tables.listing : tables.listing[l].product \notin q.ids} |-> tables.listing[l]]
        BY <1>1, <3>1 DEF MinusProducts
    <3>3. \A i \in DOMAIN tables.product : own[i] # v => i \notin q.ids /\ tables.product[i].template \notin q.ids
        BY <1>2, <2>1, <2>3 DEF RowsOf
    <3>4. \A l \in DOMAIN tables.listing : own[l] # v => tables.listing[l].product \notin q.ids
        BY <1>2, <2>1 DEF Near, RowsOf
    <3>. QED
        BY <3>2, <3>3, <3>4 DEF KeepsOthers
  <2>5. CASE q.table = "category"
    <3>1. d = MinusCategories(tables, q.ids)
        BY <2>2, <2>5 DEF Dropped
    <3>2. /\ d.product = tables.product /\ d.listing = tables.listing
          /\ d.category = [c \in DOMAIN tables.category \ q.ids |->
                            IF tables.category[c].template \in q.ids THEN [tables.category[c] EXCEPT !.template = Null]
                            ELSE tables.category[c]]
        BY <1>1, <3>1 DEF MinusCategories
    <3>3. \A i \in DOMAIN tables.category : own[i] # v => i \notin q.ids /\ tables.category[i].template \notin q.ids
        BY <1>2, <2>1, <2>3 DEF RowsOf
    <3>. QED
        BY <3>2, <3>3 DEF KeepsOthers
  <2>6. CASE q.table = "listing"
    <3>1. /\ d.category = tables.category /\ d.product = tables.product
          /\ d.listing = [l \in DOMAIN tables.listing \ q.ids |-> tables.listing[l]]
        BY <1>1, <2>2, <2>6 DEF Dropped
    <3>. QED
        BY <2>1, <3>1 DEF KeepsOthers, RowsOf
  <2>. QED
      BY <1>7, <2>4, <2>5, <2>6
<1>8. CASE q.do = "restock"
  <2>1. own[q.id] = v
      BY <1>8 DEF Writes, Inserts, Updates, Moves, RowsOf
  <2>2. d = Restocked(tables, q.id)
      BY <1>0, <1>8 DEF Result
  <2>3. CASE q.id \in DOMAIN tables.listing
    <3>1. PICK row : row = Edited(tables.listing[q.id], [stock |-> tables.listing[q.id].stock + 1, on |-> TRUE, eta |-> FALSE])
        OBVIOUS
    <3>2. d = [tables EXCEPT !.listing[q.id] = row]
        BY <2>2, <2>3, <3>1 DEF Restocked
    <3>. QED
        BY <1>1, <2>1, <2>3, <3>2 DEF KeepsOthers
  <2>4. CASE q.id \notin DOMAIN tables.listing
      BY <2>2, <2>4 DEF Restocked, KeepsOthers
  <2>. QED
      BY <2>3, <2>4
<1>. QED
    BY <1>4, <1>5, <1>6, <1>7, <1>8 DEF Writes, Runs

LEMMA CallKeepsOthers ==
    ASSUME NEW own, NEW h, Known(own, h), CallGoes(h), edit[h].by # Laoji
    PROVE  KeepsOthers(own, edit[h].by, tables, tables')
<1> DEFINE q == NextQuery(h)
           v == edit[h].by
<1>1. CASE UNCHANGED tables
    BY <1>1 DEF KeepsOthers
<1>2. CASE RunQuery(h) /\ ~UNCHANGED tables
  <2>1. edit[h].todo # <<>> /\ q.do \in Runs /\ tables' = Result(tables, q) /\ ~Taken(q)
      BY <1>2 DEF RunQuery, Runs
  <2>2. Writes(own, v, q)
      BY <2>1, NextIs DEF Reading, Runs
  <2>3. KeepsOthers(own, v, tables, Result(tables, q))
      BY <2>1, <2>2, ResultKeepsOthers DEF Known
  <2>. QED
      BY <2>1, <2>3
<1>3. CASE SyncSizes(h) /\ ~UNCHANGED tables
  <2> DEFINE k == 2 + 2 * Cardinality(Added(q))
             m == lastId + 2 + 2 * Cardinality(Added(q))
  <2>1. /\ edit[h].todo # <<>> /\ q.do = "sizes" /\ q.listing \in DOMAIN listings
        /\ \A u \in DOMAIN q.wanted : q.wanted[u] \in Siblings(tables, q.vendor, q.listing) \cup {Null}
        /\ \E at \in SizeOrders(q) : tables' = Sized(tables, q, lastId, at)
      BY <1>3 DEF SyncSizes, Reads
  <2>2. PICK at \in SizeOrders(q) : tables' = Sized(tables, q, lastId, at)
      BY <2>1
  <2>3. Reading(own, v, q)
    <3>1. Reading(own, v, q) \/ Writes(own, v, q)
        BY <2>1, NextIs
    <3>. QED
        BY <2>1, <3>1 DEF Writes, Inserts, Updates, Moves
  <2>4. q.vendor = v
      BY <2>1, <2>3 DEF Reading
  <2>5. OwnersKnown(own, lastId) /\ TablesAre(own, tables) /\ v \in Owners
      BY <2>1, NextIs DEF Known
  <2>6. k \in Nat /\ lastId \in Nat /\ lastId + k = m
      BY <2>1, <2>3, FewAdded DEF Known, OwnersKnown
  <2>7. PICK a, j, i0 : a = v /\ j = k /\ i0 = lastId
      OBVIOUS
  <2>8. \E g : /\ OwnersKnown(g, i0 + j) /\ Extends(own, g)
               /\ \A i \in i0 + 1 .. i0 + j : i \in DOMAIN g /\ g[i] = IF i = i0 + 1 THEN a ELSE a
    <3>1. OwnersKnown(own, i0) /\ j \in Nat /\ a \in Owners
        BY <2>5, <2>6, <2>7
    <3>. QED
        BY <3>1, Grown
  <2>9. PICK g : /\ OwnersKnown(g, m) /\ Extends(own, g) /\ \A i \in lastId + 1 .. m : g[i] = q.vendor
    <3> HIDE DEF k, m, q, v
    <3>. QED
        BY <2>4, <2>6, <2>7, <2>8
  <2>10. /\ Sized(tables, q, lastId, at).category = categories
         /\ \A i \in DOMAIN products : own[i] # q.vendor =>
              i \in DOMAIN Sized(tables, q, lastId, at).product /\ Sized(tables, q, lastId, at).product[i] = products[i]
         /\ \A i \in DOMAIN listings : own[i] # q.vendor =>
              i \in DOMAIN Sized(tables, q, lastId, at).listing /\ Sized(tables, q, lastId, at).listing[i] = listings[i]
      BY <2>1, <2>2, <2>3, <2>5, <2>9, SizedKeeps
  <2>. QED
      BY <2>2, <2>4, <2>10 DEF KeepsOthers, categories, products, listings
<1>4. CASE DeleteListings(h)
  <2>1. edit[h].todo # <<>> /\ q.do = "deleteListings"
      BY <1>4 DEF DeleteListings, Reads
  <2>2. Reading(own, v, q) \/ Writes(own, v, q)
      BY <2>1, NextIs
  <2>. QED
      BY <2>1, <2>2 DEF Reading, Writes, Inserts, Updates, Moves
<1>. QED
    BY <1>1, <1>2, <1>3, <1>4
       DEF CallGoes, DropOwn, LinkOwn, Detach, MoveOne, GiveCopies, GiveCopy, EditCut

LEMMA EditStepIs ==
    ASSUME CatalogInv, CatalogNext, ~AdminStrays, NEW h \in Editors, edit[h] # NoEdit, edit'[h] # edit[h]
    PROVE  CallGoes(h)
<1>1. PICK own : OwnersKnown(own, lastId) /\ TablesAre(own, tables) /\ \A k \in Editors : EditIs(own, edit[k])
    BY DEF CatalogInv
<1>2. DOMAIN edit = Editors
    BY DEF CatalogInv
<1>3. ASSUME NEW k \in Editors, MayEdit(k), CallStarts(k) PROVE FALSE
  <2>1. k # h
      BY <1>3 DEF MayEdit
  <2>2. \E by, what, todo, n : EditStarts(k, by, what, todo, n)
      BY <1>1, <1>3, CallIsReady DEF Ready
  <2>3. \E e : edit' = [edit EXCEPT ![k] = e]
      BY <2>2 DEF EditStarts
  <2>. QED
      BY <1>2, <2>1, <2>3
<1>4. ASSUME NEW k \in Editors, CallGoes(k), k # h PROVE FALSE
  <2>1. PICK todo : EditGoes(k, todo)
      BY <1>1, <1>4, CallDoesGo DEF Goes, Known
  <2>. QED
      BY <1>1, <1>2, <1>4, <2>1, GoneOn
<1>5. ASSUME NEW l \in DOMAIN listings, Order(l) PROVE FALSE
    BY <1>5 DEF Order
<1>. QED
    BY <1>3, <1>4, <1>5, NextSplits

(* No query of a store's call changes or removes a category, a product or  *)
(* a listing that is Laoji's or another store's: the copy that             *)
(* productForListing makes before an edit, and every read that a later     *)
(* query relies on, is of the store's own rows, whatever changed in        *)
(* between (catalog.service.ts).                                           *)
THEOREM OthersStayUntouched == ~AdminStrays => (MCCatalogSpec => OthersUntouched)
<1> SUFFICES ASSUME ~AdminStrays PROVE MCCatalogSpec => OthersUntouched
    OBVIOUS
<1> DEFINE Step ==
      \A h \in Editors :
         LET v == edit[h].by
             owned(row) == row.owner = v
             listed(row) == row.vendor = v
         IN  v # Laoji /\ edit'[h] # edit[h] =>
               /\ Kept(categories, categories', owned)
               /\ Kept(products, products', owned)
               /\ Kept(listings, listings', listed)
<1>1. MCCatalogInit => CatalogInv
    BY CatalogInitKeeps DEF MCCatalogInit
<1>2. CatalogInv /\ [MCCatalogNext]_catalogHistory => CatalogInv'
  <2>1. ASSUME [MCCatalogNext]_catalogHistory PROVE [CatalogNext]_catalogVars
      BY <2>1 DEF MCCatalogNext, catalogHistory, catalogVars
  <2>. QED
      BY <2>1, CatalogNextKeeps
<1>3. CatalogInv /\ [MCCatalogNext]_catalogHistory => [Step]_catalogVars
  <2>1. SUFFICES ASSUME CatalogInv, CatalogNext,
                        NEW h \in Editors, edit[h].by # Laoji, edit'[h] # edit[h]
                 PROVE  /\ \A i \in DOMAIN categories : categories[i].owner # edit[h].by =>
                             i \in DOMAIN categories' /\ categories'[i] = categories[i]
                        /\ \A i \in DOMAIN products : products[i].owner # edit[h].by =>
                             i \in DOMAIN products' /\ products'[i] = products[i]
                        /\ \A i \in DOMAIN listings : listings[i].vendor # edit[h].by =>
                             i \in DOMAIN listings' /\ listings'[i] = listings[i]
      BY DEF Kept, MCCatalogNext, catalogHistory, catalogVars
  <2>2. PICK own : OwnersKnown(own, lastId) /\ TablesAre(own, tables) /\ \A k \in Editors : EditIs(own, edit[k])
      BY <2>1 DEF CatalogInv
  <2>3. CallGoes(h)
      BY <2>1, NoEditIs, EditStepIs
  <2>4. KeepsOthers(own, edit[h].by, tables, tables')
      BY <2>1, <2>2, <2>3, CallKeepsOthers DEF Known
  <2>5. /\ \A i \in DOMAIN categories : categories[i].owner = own[i]
        /\ \A i \in DOMAIN products : products[i].owner = own[i]
        /\ \A i \in DOMAIN listings : listings[i].vendor = own[i]
      BY <2>2, RowFacts
  <2>. QED
      BY <2>4, <2>5 DEF KeepsOthers, categories, products, listings
<1>. QED
    BY <1>1, <1>2, <1>3, PTL DEF MCCatalogSpec, OthersUntouched

-----------------------------------------------------------------------------
(* The stores keep selling a product that Laoji deletes. *)
LEMMA ConsIs ==
    ASSUME NEW x, NEW t, IsList(t)
    PROVE  IsList(<<x>> \o t) /\ <<x>> \o t # <<>> /\ Head(<<x>> \o t) = x /\ Tail(<<x>> \o t) = t
<1>1. IsList(<<x>>) /\ Len(<<x>>) = 1 /\ <<x>>[1] = x
    BY ListOne
<1>2. PICK s : s = <<x>> \o t
    OBVIOUS
<1>3. /\ IsList(s) /\ Len(s) = 1 + Len(t) /\ s[1] = x
      /\ \A k \in 1..Len(t) : s[1 + k] = t[k]
    BY <1>1, <1>2, ListCat
<1>4. Len(t) \in Nat
    BY DEF IsList
<1>5. s # <<>>
    BY <1>3, <1>4, ListNone
<1>6. /\ IsList(Tail(s)) /\ Len(Tail(s)) = Len(t) /\ Head(s) = x
      /\ \A k \in 1..Len(t) : Tail(s)[k] = s[k + 1]
  <2>1. Len(s) - 1 = Len(t)
      BY <1>3, <1>4
  <2>. QED
      BY <1>3, <1>5, <2>1, ListTail
<1>7. \A k \in 1..Len(t) : Tail(s)[k] = t[k]
    BY <1>3, <1>4, <1>6
<1>8. Tail(s) = t
    BY <1>4, <1>6, <1>7 DEF IsList
<1>. QED
    BY <1>2, <1>3, <1>5, <1>6, <1>8

LEMMA CatCat ==
    ASSUME NEW s, NEW t, NEW u, IsList(s), IsList(t), IsList(u)
    PROVE  (s \o t) \o u = s \o (t \o u)
<1> DEFINE S == {s[k] : k \in 1..Len(s)}
           T == {t[k] : k \in 1..Len(t)}
           U == {u[k] : k \in 1..Len(u)}
<1>1. s \in Seq(S) /\ t \in Seq(T) /\ u \in Seq(U)
    BY ListInSeq
<1> HIDE DEF S, T, U
<1>2. PICK A : A = S \cup T \cup U
    OBVIOUS
<1>3. s \in Seq(A) /\ t \in Seq(A) /\ u \in Seq(A)
  <2>1. \A X : X \subseteq A => Seq(X) \subseteq Seq(A)
      OBVIOUS
  <2>2. S \subseteq A /\ T \subseteq A /\ U \subseteq A
      BY <1>2
  <2>. QED
      BY <1>1, <2>1, <2>2
<1>. QED
    BY <1>3

Then(s, t) == s \o t

LEMMA ThenMoves ==
    ASSUME NEW s, NEW t, NEW u, IsList(s), IsList(t), IsList(u)
    PROVE  Then(Then(s, t), u) = Then(s, Then(t, u)) /\ IsList(Then(s, t))
<1>1. (s \o t) \o u = s \o (t \o u)
    BY CatCat, SMTT(30)
<1>2. IsList(s \o t)
    BY ListCat
<1>. QED
    BY <1>1, <1>2, Zenon DEF Then

LEMMA FourCat ==
    ASSUME NEW s, NEW t, NEW u, NEW w, IsList(s), IsList(t), IsList(u), IsList(w)
    PROVE  Then(Then(Then(s, t), u), w) = Then(s, Then(t, Then(u, w)))
<1>1. Then(Then(Then(s, t), u), w) = Then(Then(s, t), Then(u, w))
    BY ThenMoves
<1>. QED
    BY <1>1, ThenMoves

LEMMA NoneCat ==
    ASSUME NEW t, IsList(t)
    PROVE  <<>> \o t = t
<1>1. t \in Seq({t[k] : k \in 1..Len(t)})
    BY ListInSeq
<1>. QED
    BY <1>1

SameFood(row, old) == row.name = old.name /\ row.unit = old.unit /\ row.active = old.active

Sells(d, new) ==
    \A l \in DOMAIN d.listing :
      d.product[d.listing[l].product].owner = Laoji =>
        l \in DOMAIN new.listing /\ SameFood(new.product[new.listing[l].product], d.product[d.listing[l].product])

(* What deleteProduct still has to do. *)
UnlinkOf(p) == [do |-> "unlinkProduct", ids |-> {p}]
GiveOf(d, p) == [do |-> "handOver", id |-> p, row |-> d.product[p]]
LastOf(p) == <<[do |-> "delete", table |-> "product", ids |-> {p}]>>
NewRowOf(i, row) == [do |-> "insert", table |-> "product", id |-> i, row |-> row]
RelistOf(l, i) == [do |-> "update", table |-> "listing", id |-> l, fields |-> [product |-> i]]
Listed(d, p) == {l \in DOMAIN d.listing : d.listing[l].product = p}
LeftOf(d, p) == {<<d.listing[l].vendor, l>> : l \in Listed(d, p)}
LaterOf(d, p, left) == Each("give", GiveOf(d, p), left) \o LastOf(p)

Phase(d, s, p) ==
    /\ p \in DOMAIN d.product /\ d.product[p].owner = Laoji
    /\ \/ s = <<UnlinkOf(p)>> \o (<<GiveOf(d, p)>> \o LastOf(p))
       \/ s = <<GiveOf(d, p)>> \o LastOf(p)
       \/ s = LaterOf(d, p, LeftOf(d, p))
       \/ \E l \in Listed(d, p) : \E i, row :
             /\ SameFood(row, d.product[p])
             /\ s = <<NewRowOf(i, row)>> \o (<<RelistOf(l, i)>> \o LaterOf(d, p, LeftOf(d, p) \ {<<d.listing[l].vendor, l>>}))
       \/ \E l \in Listed(d, p), i \in DOMAIN d.product \ {p} :
             /\ SameFood(d.product[i], d.product[p])
             /\ s = <<RelistOf(l, i)>> \o LaterOf(d, p, LeftOf(d, p) \ {<<d.listing[l].vendor, l>>})

SellInv ==
    oneEdit => \A h \in Editors : edit[h].what = "deleteProduct" => \E p : Phase(tables, edit[h].todo, p)

LEMMA ListsAre ==
    ASSUME NEW d, NEW p, NEW left
    PROVE  /\ IsList(LastOf(p)) /\ IsList(Each("give", GiveOf(d, p), left)) /\ IsList(LaterOf(d, p, left))
           /\ LastOf(p) = DeleteRows("product", {p}) /\ LastOf(p) # <<>>
           /\ left = {} => LaterOf(d, p, left) = LastOf(p)
           /\ Tail(LastOf(p)) = <<>> /\ Head(LastOf(p)) = [do |-> "delete", table |-> "product", ids |-> {p}]
<1>1. PICK q : q = [do |-> "delete", table |-> "product", ids |-> {p}]
    OBVIOUS
<1>2. LastOf(p) = <<q>> /\ IsList(<<q>>) /\ <<q>> # <<>> /\ Tail(<<q>>) = <<>> /\ Head(<<q>>) = q
    BY <1>1, ListOne DEF LastOf
<1>3. IsList(Each("give", GiveOf(d, p), left))
    BY ListOne, ListNone DEF Each
<1>4. IsList(LaterOf(d, p, left))
    BY <1>2, <1>3, ListCat DEF LaterOf
<1>5. left = {} => LaterOf(d, p, left) = LastOf(p)
    BY <1>2, NoneCat DEF LaterOf, Each
<1>. QED
    BY <1>1, <1>2, <1>3, <1>4, <1>5 DEF DeleteRows

(* The first query decides what may run. *)
LEMMA HeadDecides ==
    ASSUME NEW h, CallGoes(h), NEW do, edit[h].todo # <<>>, NextQuery(h).do = do
    PROVE  /\ do \in Runs => RunQuery(h) \/ EditCut(h)
           /\ do = "handOver" => GiveCopies(h) \/ EditCut(h)
           /\ do = "give" => GiveCopy(h) \/ EditCut(h)
BY DEF CallGoes, RunQuery, DropOwn, SyncSizes, LinkOwn, Detach, MoveOne, GiveCopies, GiveCopy, DeleteListings, Reads, Runs

LEMMA SameSells ==
    ASSUME NEW d, NEW new, new.product = d.product, new.listing = d.listing
    PROVE  Sells(d, new)
BY DEF Sells, SameFood

Onward(h, p) ==
    /\ \E todo : EditGoes(h, todo) /\ (todo = <<>> \/ Phase(tables', todo, p))
    /\ Sells(tables, tables')

LEMMA CutSells ==
    ASSUME NEW h, NEW p, EditGoes(h, <<>>), UNCHANGED tables
    PROVE  Onward(h, p)
<1>1. Sells(tables, tables')
    BY SameSells
<1>. QED
    BY <1>1 DEF Onward

LEMMA UnlinkSells ==
    ASSUME NEW own, NEW h, Known(own, h), CallGoes(h), NEW p, p \in DOMAIN products, products[p].owner = Laoji,
           edit[h].todo = <<UnlinkOf(p)>> \o (<<GiveOf(tables, p)>> \o LastOf(p))
    PROVE  Onward(h, p)
<1> DEFINE q == NextQuery(h)
<1>1. /\ edit[h].todo # <<>> /\ q = UnlinkOf(p)
      /\ LaterQueries(h) = <<GiveOf(tables, p)>> \o LastOf(p)
    BY ListsAre, ConsIs DEF NextQuery, LaterQueries
<1>2. q.do = "unlinkProduct" /\ q.ids = {p} /\ q.do \in Runs
    BY <1>1 DEF UnlinkOf, Runs
<1>3. RunQuery(h) \/ EditCut(h)
    BY <1>1, <1>2, HeadDecides
<1>4. CASE EditGoes(h, <<>>) /\ UNCHANGED tables
    BY <1>4, CutSells
<1>5. CASE tables' = Result(tables, q) /\ EditGoes(h, LaterQueries(h))
  <2>1. DOMAIN tables = {"category", "product", "listing", "suggestion", "ordered"}
      BY DEF Known, TablesAre
  <2>2. PICK d : d = tables'
      OBVIOUS
  <2>3. d = UnlinkProducts(tables, q.ids)
      BY <1>2, <1>5, <2>2 DEF Result
  <2>4. d.product = tables.product /\ d.listing = tables.listing
      BY <2>1, <2>3 DEF UnlinkProducts
  <2>5. Phase(d, LaterQueries(h), p)
      BY <1>1, <2>4 DEF Phase, GiveOf, products
  <2>6. Sells(tables, d)
      BY <2>4, SameSells
  <2>. QED
      BY <1>5, <2>2, <2>5, <2>6 DEF Onward
<1>. QED
    BY <1>3, <1>4, <1>5 DEF RunQuery, EditCut

LEMMA GiveSells ==
    ASSUME NEW own, NEW h, Known(own, h), CallGoes(h), NEW p, p \in DOMAIN products, products[p].owner = Laoji,
           edit[h].todo = <<GiveOf(tables, p)>> \o LastOf(p)
    PROVE  Onward(h, p)
<1> DEFINE q == NextQuery(h)
<1>1. /\ edit[h].todo # <<>> /\ q = GiveOf(tables, p) /\ LaterQueries(h) = LastOf(p)
    BY ListsAre, ConsIs DEF NextQuery, LaterQueries
<1>2. q.do = "handOver" /\ q.id = p
    BY <1>1 DEF GiveOf
<1>3. GiveCopies(h) \/ EditCut(h)
    BY <1>1, <1>2, HeadDecides
<1>4. CASE EditCut(h)
    BY <1>4, CutSells DEF EditCut
<1>5. CASE GiveCopies(h)
  <2>1. UNCHANGED tables
      BY <1>5 DEF GiveCopies
  <2>2. LeftOf(tables, p) = {<<listings[l].vendor, l>> : l \in ListingsOfProducts({p})}
      BY DEF LeftOf, Listed, listings, ListingsOfProducts
  <2>3. EditGoes(h, Each("give", GiveOf(tables, p), LeftOf(tables, p)) \o LastOf(p))
      BY <1>1, <1>2, <1>5, <2>2 DEF GiveCopies
  <2>4. Phase(tables, LaterOf(tables, p, LeftOf(tables, p)), p)
      BY DEF Phase, products
  <2>5. Phase(tables', LaterOf(tables, p, LeftOf(tables, p)), p)
      BY <2>1, <2>4
  <2>6. Sells(tables, tables')
      BY <2>1, SameSells
  <2>. QED
      BY <2>3, <2>5, <2>6 DEF Onward, LaterOf
<1>. QED
    BY <1>3, <1>4, <1>5

LEMMA LastSells ==
    ASSUME NEW own, NEW h, Known(own, h), CallGoes(h), NEW p, p \in DOMAIN products, products[p].owner = Laoji,
           edit[h].todo = LastOf(p), LeftOf(tables, p) = {}
    PROVE  Onward(h, p)
<1> DEFINE q == NextQuery(h)
<1>1. /\ edit[h].todo # <<>> /\ q = [do |-> "delete", table |-> "product", ids |-> {p}] /\ LaterQueries(h) = <<>>
    BY ListsAre DEF NextQuery, LaterQueries
<1>2. q.do = "delete" /\ q.table = "product" /\ q.ids = {p} /\ q.do \in Runs
    BY <1>1 DEF Runs
<1>3. RunQuery(h) \/ EditCut(h)
    BY <1>1, <1>2, HeadDecides
<1>4. CASE EditGoes(h, <<>>) /\ UNCHANGED tables
    BY <1>4, CutSells
<1>5. CASE tables' = Result(tables, q) /\ EditGoes(h, LaterQueries(h))
  <2>1. DOMAIN tables = {"category", "product", "listing", "suggestion", "ordered"}
      BY DEF Known, TablesAre
  <2>2. PICK d : d = tables'
      OBVIOUS
  <2>3. d = MinusProducts(tables, {p})
      BY <1>2, <1>5, <2>2 DEF Result, Dropped
  <2>4. /\ d.product = [i \in DOMAIN tables.product \ {p} |->
                          IF tables.product[i].template \in {p} THEN [tables.product[i] EXCEPT !.template = Null]
                          ELSE tables.product[i]]
        /\ d.listing = [l \in {l \in DOMAIN tables.listing : tables.listing[l].product \notin {p}} |-> tables.listing[l]]
      BY <2>1, <2>3 DEF MinusProducts
  <2>5. ASSUME NEW l \in DOMAIN tables.listing PROVE tables.listing[l].product # p
      BY DEF LeftOf, Listed
  <2>6. \A i \in DOMAIN tables.product \ {p} :
           d.product[i].name = tables.product[i].name /\ d.product[i].unit = tables.product[i].unit
           /\ d.product[i].active = tables.product[i].active
    <3>1. \A i \in DOMAIN tables.product : DOMAIN tables.product[i] = ProductFields
        BY DEF Known, TablesAre, ProductIs
    <3>. QED
        BY <2>4, <3>1 DEF ProductFields
  <2>7. \A l \in DOMAIN tables.listing : tables.listing[l].product \in DOMAIN tables.product
      BY DEF Known, TablesAre
  <2>8. \A l \in DOMAIN tables.listing : l \in DOMAIN d.listing /\ d.listing[l] = tables.listing[l]
      BY <2>4, <2>5
  <2>9. Sells(tables, d)
      BY <2>5, <2>6, <2>7, <2>8 DEF Sells, SameFood
  <2>. QED
      BY <1>1, <1>5, <2>2, <2>9 DEF Onward
<1>. QED
    BY <1>3, <1>4, <1>5 DEF RunQuery, EditCut

LEMMA LeftSells ==
    ASSUME NEW own, NEW h, Known(own, h), CallGoes(h), NEW p, p \in DOMAIN products, products[p].owner = Laoji,
           edit[h].todo = LaterOf(tables, p, LeftOf(tables, p))
    PROVE  Onward(h, p)
<1>1. CASE LeftOf(tables, p) = {}
    BY <1>1, ListsAre, LastSells
<1>2. CASE LeftOf(tables, p) # {}
  <2> DEFINE q == NextQuery(h)
             give == [do |-> "give", of |-> GiveOf(tables, p), left |-> LeftOf(tables, p)]
  <2>1. edit[h].todo = <<give>> \o LastOf(p)
      BY <1>2 DEF LaterOf, Each
  <2>2. edit[h].todo # <<>> /\ q = give /\ LaterQueries(h) = LastOf(p)
    <3> HIDE DEF give
    <3>. QED
        BY <2>1, ListsAre, ConsIs DEF NextQuery, LaterQueries
  <2>3. q.do = "give" /\ q.of = GiveOf(tables, p) /\ q.left = LeftOf(tables, p)
      BY <2>2
  <2>4. GiveCopy(h) \/ EditCut(h)
      BY <2>2, <2>3, HeadDecides
  <2>5. CASE EditCut(h)
      BY <2>5, CutSells DEF EditCut
  <2>6. CASE GiveCopy(h)
    <3>1. UNCHANGED tables
        BY <2>6 DEF GiveCopy
    <3>2. PICK x \in LeftOf(tables, p) :
             EditGoes(h, InsertRow("product", lastId + 1, CopyOf(x[1], q.of.id, q.of.row))
                           \o UpdateRow("listing", x[2], [product |-> lastId + 1])
                           \o Each("give", q.of, LeftOf(tables, p) \ {x}) \o LaterQueries(h))
        BY <2>3, <2>6 DEF GiveCopy
    <3>3. PICK l \in Listed(tables, p) : x = <<tables.listing[l].vendor, l>>
        BY <3>2 DEF LeftOf
    <3>4. PICK i, row : i = lastId + 1 /\ row = CopyOf(x[1], p, products[p])
        OBVIOUS
    <3>5. SameFood(row, products[p])
      <4>1. DOMAIN products[p] = ProductFields
          BY DEF Known, TablesAre, ProductIs, products
      <4>. QED
          BY <3>4, <4>1 DEF SameFood, CopyOf, ProductFields
    <3>6. PICK a, b, c : /\ a = <<NewRowOf(i, row)>> /\ b = <<RelistOf(l, i)>>
                         /\ c = Each("give", GiveOf(tables, p), LeftOf(tables, p) \ {x})
        OBVIOUS
    <3>7. /\ a = InsertRow("product", lastId + 1, CopyOf(x[1], q.of.id, q.of.row))
          /\ b = UpdateRow("listing", x[2], [product |-> lastId + 1])
          /\ c = Each("give", q.of, LeftOf(tables, p) \ {x})
      <4>1. q.of.id = p /\ q.of.row = products[p] /\ x[2] = l
          BY <2>3, <3>3 DEF GiveOf, products
      <4>. QED
          BY <2>3, <3>4, <3>6, <4>1 DEF InsertRow, UpdateRow, NewRowOf, RelistOf
    <3>8. IsList(a) /\ IsList(b) /\ IsList(c) /\ IsList(LastOf(p))
        BY <3>6, ListOne, ListsAre
    <3>9. PICK y, z : y = c \o LastOf(p) /\ z = b \o y
        OBVIOUS
    <3>10. PICK e : e = LastOf(p)
        OBVIOUS
    <3>11. PICK todo : todo = a \o z
        OBVIOUS
    <3>a. EditGoes(h, todo)
      <4>1. EditGoes(h, Then(Then(Then(a, b), c), e))
          BY <2>2, <3>2, <3>7, <3>10 DEF Then
      <4>2. IsList(a) /\ IsList(b) /\ IsList(c) /\ IsList(e)
          BY <3>8, <3>10
      <4>3. Then(Then(Then(a, b), c), e) = Then(a, Then(b, Then(c, e)))
          BY <4>2, FourCat
      <4>4. Then(a, Then(b, Then(c, e))) = todo
          BY <3>9, <3>10, <3>11 DEF Then
      <4>. QED
          BY <4>1, <4>3, <4>4
    <3>12. todo = <<NewRowOf(i, row)>> \o (<<RelistOf(l, i)>>
                     \o LaterOf(tables, p, LeftOf(tables, p) \ {<<tables.listing[l].vendor, l>>}))
        BY <3>3, <3>6, <3>9, <3>11 DEF LaterOf
    <3>13. Phase(tables, todo, p)
        BY <3>5, <3>12 DEF Phase, products
    <3>14. Phase(tables', todo, p) /\ Sells(tables, tables')
        BY <3>1, <3>13, SameSells
    <3>. QED
        BY <3>a, <3>14 DEF Onward
  <2>. QED
      BY <2>4, <2>5, <2>6
<1>. QED
    BY <1>1, <1>2

LEMMA InsertSells ==
    ASSUME NEW own, NEW h, Known(own, h), CallGoes(h), NEW p, p \in DOMAIN products, products[p].owner = Laoji,
           NEW l \in Listed(tables, p), NEW i, NEW row, SameFood(row, products[p]),
           edit[h].todo = <<NewRowOf(i, row)>> \o (<<RelistOf(l, i)>>
                            \o LaterOf(tables, p, LeftOf(tables, p) \ {<<tables.listing[l].vendor, l>>}))
    PROVE  Onward(h, p)
<1> DEFINE q == NextQuery(h)
           left == LeftOf(tables, p) \ {<<tables.listing[l].vendor, l>>}
<1>0. IsList(LaterOf(tables, p, left))
    BY ListsAre
<1>1. edit[h].todo # <<>> /\ q = NewRowOf(i, row) /\ LaterQueries(h) = <<RelistOf(l, i)>> \o LaterOf(tables, p, left)
  <2> HIDE DEF left
  <2>1. IsList(<<RelistOf(l, i)>> \o LaterOf(tables, p, left))
      BY <1>0, ConsIs
  <2>. QED
      BY <2>1, ConsIs DEF NextQuery, LaterQueries, left
<1>2. q.do = "insert" /\ q.table = "product" /\ q.id = i /\ q.row = row /\ q.do \in Runs
    BY <1>1 DEF NewRowOf, Runs
<1>3. RunQuery(h) \/ EditCut(h)
    BY <1>1, <1>2, HeadDecides
<1>4. CASE EditGoes(h, <<>>) /\ UNCHANGED tables
    BY <1>4, CutSells
<1>5. CASE tables' = Result(tables, q) /\ EditGoes(h, LaterQueries(h)) /\ ~Taken(q)
  <2>1. DOMAIN tables = {"category", "product", "listing", "suggestion", "ordered"}
      BY DEF Known, TablesAre
  <2>2. PICK d : d = tables'
      OBVIOUS
  <2>3. d = [tables EXCEPT !["product"] = WithRow(@, i, row)]
      BY <1>2, <1>5, <2>2 DEF Result
  <2>4. d.product = WithRow(tables.product, i, row) /\ d.listing = tables.listing
      BY <2>1, <2>3
  <2>5. i \notin DOMAIN tables.product
      BY <1>2, <1>5 DEF Taken
  <2>6. /\ DOMAIN d.product = DOMAIN tables.product \cup {i} /\ d.product[i] = row
        /\ \A k \in DOMAIN tables.product : d.product[k] = tables.product[k]
      BY <2>4, <2>5 DEF WithRow
  <2>7. /\ p \in DOMAIN d.product /\ d.product[p] = tables.product[p] /\ i \in DOMAIN d.product \ {p}
      BY <2>5, <2>6 DEF products
  <2>8. LeftOf(d, p) = LeftOf(tables, p) /\ Listed(d, p) = Listed(tables, p) /\ d.listing[l] = tables.listing[l]
      BY <2>4 DEF LeftOf, Listed
  <2>9. GiveOf(d, p) = GiveOf(tables, p)
      BY <2>7 DEF GiveOf
  <2>10. LaterOf(d, p, left) = LaterOf(tables, p, left)
      BY <2>9 DEF LaterOf
  <2>11. Phase(d, <<RelistOf(l, i)>> \o LaterOf(tables, p, left), p)
    <3>1. SameFood(d.product[i], d.product[p])
        BY <2>6, <2>7 DEF products
    <3>2. left = LeftOf(d, p) \ {<<d.listing[l].vendor, l>>}
        BY <2>8
    <3>3. d.product[p].owner = Laoji
        BY <2>7 DEF products
    <3> HIDE DEF left
    <3>. QED
        BY <2>7, <2>8, <2>10, <3>1, <3>2, <3>3 DEF Phase
  <2>12. Sells(tables, d)
    <3>1. \A k \in DOMAIN tables.listing : tables.listing[k].product \in DOMAIN tables.product
        BY DEF Known, TablesAre
    <3>. QED
        BY <2>4, <2>6, <3>1 DEF Sells, SameFood
  <2>. QED
      BY <1>1, <1>5, <2>2, <2>11, <2>12 DEF Onward
<1>. QED
    BY <1>3, <1>4, <1>5 DEF RunQuery, EditCut

LEMMA RelistSells ==
    ASSUME NEW own, NEW h, Known(own, h), CallGoes(h), NEW p, p \in DOMAIN products, products[p].owner = Laoji,
           NEW l \in Listed(tables, p), NEW i \in DOMAIN products \ {p}, SameFood(products[i], products[p]),
           edit[h].todo = <<RelistOf(l, i)>> \o LaterOf(tables, p, LeftOf(tables, p) \ {<<tables.listing[l].vendor, l>>})
    PROVE  Onward(h, p)
<1> DEFINE q == NextQuery(h)
           left == LeftOf(tables, p) \ {<<tables.listing[l].vendor, l>>}
<1>0. IsList(LaterOf(tables, p, left))
    BY ListsAre
<1>1. edit[h].todo # <<>> /\ q = RelistOf(l, i) /\ LaterQueries(h) = LaterOf(tables, p, left)
  <2> HIDE DEF left
  <2>. QED
      BY <1>0, ConsIs DEF NextQuery, LaterQueries, left
<1>2. q.do = "update" /\ q.table = "listing" /\ q.id = l /\ q.fields = [product |-> i] /\ q.do \in Runs
    BY <1>1 DEF RelistOf, Runs
<1>3. RunQuery(h) \/ EditCut(h)
    BY <1>1, <1>2, HeadDecides
<1>4. CASE EditGoes(h, <<>>) /\ UNCHANGED tables
    BY <1>4, CutSells
<1>5. CASE tables' = Result(tables, q) /\ EditGoes(h, LaterQueries(h))
  <2>1. DOMAIN tables = {"category", "product", "listing", "suggestion", "ordered"}
      BY DEF Known, TablesAre
  <2>2. PICK d : d = tables'
      OBVIOUS
  <2>3. l \in DOMAIN tables.listing /\ tables.listing[l].product = p
      BY DEF Listed
  <2>a. PICK fields : fields = [product |-> i] /\ DOMAIN fields = {"product"} /\ fields.product = i
    <3>1. PICK f : f = [product |-> i]
        OBVIOUS
    <3>. QED
        BY <3>1
  <2>4. PICK row : row = Edited(tables.listing[l], fields)
      OBVIOUS
  <2>5. d = [tables EXCEPT !["listing"][l] = row]
      BY <1>2, <1>5, <2>2, <2>3, <2>4, <2>a DEF Result
  <2>6. /\ d.product = tables.product /\ DOMAIN d.listing = DOMAIN tables.listing /\ d.listing[l] = row
        /\ \A k \in DOMAIN tables.listing \ {l} : d.listing[k] = tables.listing[k]
      BY <2>1, <2>3, <2>5
  <2>7. row.product = i /\ row.vendor = tables.listing[l].vendor
    <3>1. DOMAIN tables.listing[l] = ListingFields
        BY <2>3 DEF Known, TablesAre, ListingIs
    <3>. QED
        BY <2>4, <2>a, <3>1 DEF Edited, ListingFields
  <2>8. i # p /\ i \in DOMAIN tables.product
      BY DEF products
  <2>9. Listed(d, p) = Listed(tables, p) \ {l}
      BY <2>6, <2>7, <2>8 DEF Listed
  <2>10. LeftOf(d, p) = left
    <3>1. LeftOf(d, p) = {<<tables.listing[k].vendor, k>> : k \in Listed(tables, p) \ {l}}
        BY <2>6, <2>9 DEF LeftOf, Listed
    <3>2. ASSUME NEW k \in Listed(tables, p) PROVE <<tables.listing[k].vendor, k>> = <<tables.listing[l].vendor, l>> <=> k = l
        OBVIOUS
    <3>3. ASSUME NEW x PROVE x \in {<<tables.listing[k].vendor, k>> : k \in Listed(tables, p) \ {l}} <=> x \in left
        BY <3>2 DEF LeftOf
    <3>. QED
        BY <3>1, <3>3
  <2>11. Phase(d, LaterOf(tables, p, left), p)
    <3>1. GiveOf(d, p) = GiveOf(tables, p)
        BY <2>6 DEF GiveOf
    <3>2. LaterOf(d, p, left) = LaterOf(tables, p, left)
        BY <3>1 DEF LaterOf
    <3>3. p \in DOMAIN d.product /\ d.product[p].owner = Laoji
        BY <2>6 DEF products
    <3> HIDE DEF left
    <3>. QED
        BY <2>10, <3>2, <3>3 DEF Phase
  <2>12. Sells(tables, d)
    <3>1. SameFood(d.product[d.listing[l].product], tables.product[tables.listing[l].product])
        BY <2>3, <2>6, <2>7 DEF products
    <3>2. ASSUME NEW k \in DOMAIN tables.listing, k # l
          PROVE  SameFood(d.product[d.listing[k].product], tables.product[tables.listing[k].product])
        BY <2>6, <3>2, SMTT(30) DEF SameFood
    <3>. QED
        BY <2>6, <3>1, <3>2 DEF Sells
  <2>. QED
      BY <1>1, <1>5, <2>2, <2>11, <2>12 DEF Onward
<1>. QED
    BY <1>3, <1>4, <1>5 DEF RunQuery, EditCut

LEMMA PhaseGoes ==
    ASSUME NEW own, NEW h, Known(own, h), CallGoes(h), NEW p, Phase(tables, edit[h].todo, p)
    PROVE  Onward(h, p)
<1>1. p \in DOMAIN products /\ products[p].owner = Laoji
    BY DEF Phase, products
<1>2. CASE edit[h].todo = <<UnlinkOf(p)>> \o (<<GiveOf(tables, p)>> \o LastOf(p))
    BY <1>1, <1>2, UnlinkSells
<1>3. CASE edit[h].todo = <<GiveOf(tables, p)>> \o LastOf(p)
    BY <1>1, <1>3, GiveSells
<1>4. CASE edit[h].todo = LaterOf(tables, p, LeftOf(tables, p))
    BY <1>1, <1>4, LeftSells
<1>5. ASSUME NEW l \in Listed(tables, p), NEW i, NEW row, SameFood(row, products[p]),
             edit[h].todo = <<NewRowOf(i, row)>> \o (<<RelistOf(l, i)>>
                              \o LaterOf(tables, p, LeftOf(tables, p) \ {<<tables.listing[l].vendor, l>>}))
      PROVE  Onward(h, p)
    BY <1>1, <1>5, InsertSells
<1>6. ASSUME NEW l \in Listed(tables, p), NEW i \in DOMAIN products \ {p}, SameFood(products[i], products[p]),
             edit[h].todo = <<RelistOf(l, i)>>
                            \o LaterOf(tables, p, LeftOf(tables, p) \ {<<tables.listing[l].vendor, l>>})
      PROVE  Onward(h, p)
    BY <1>1, <1>6, RelistSells
<1>. QED
    BY <1>2, <1>3, <1>4, <1>5, <1>6 DEF Phase, products

(* A call of this name is DeleteProduct, of a product of Laoji's. *)
LEMMA StartNamed ==
    ASSUME NEW h \in Editors, DOMAIN edit = Editors, NEW by, NEW what, NEW todo, NEW n, EditStarts(h, by, what, todo, n)
    PROVE  /\ edit'[h].what = what /\ edit'[h].todo = todo /\ UNCHANGED tables
           /\ \A k \in Editors \ {h} : edit'[k] = edit[k]
BY DEF EditStarts

LEMMA OnlyDeleteProduct ==
    ASSUME NEW h \in Editors, DOMAIN edit = Editors, CallStarts(h), edit'[h].what = "deleteProduct"
    PROVE  \E p \in DOMAIN products : DeleteProduct(h, p)
<1> DEFINE Other == \E by, what, todo, n : what # "deleteProduct" /\ EditStarts(h, by, what, todo, n)
<1>1. ~Other
    BY StartNamed
<1>2. ASSUME NEW v \in Callers, VendorCategoryCall(h, v) PROVE FALSE
  <2>1. Other
      BY <1>2 DEF VendorCategoryCall, CreateVendorCategory, RenameVendorCategory, DeleteVendorCategory,
                  CreateCategorySuggestion, CreateProductSuggestion
  <2>. QED
      BY <1>1, <2>1
<1>3. ASSUME NEW v, NEW l, NEW details, NEW terms, NEW sizes, NEW what, UpdateListing(h, v, l, details, terms, sizes, what),
             what # "deleteProduct"
      PROVE  FALSE
  <2>1. Other
      BY <1>3 DEF UpdateListing
  <2>. QED
      BY <1>1, <2>1
<1>4. ASSUME NEW v, NEW p, NEW details, NEW terms, UpsertVendorProduct(h, v, p, details, terms) PROVE FALSE
  <2>1. CASE FindListing(v, p) # {}
      BY <1>3, <1>4, <2>1 DEF UpsertVendorProduct
  <2>2. CASE FindListing(v, p) = {}
    <3>1. Other
        BY <1>4, <2>2 DEF UpsertVendorProduct
    <3>. QED
        BY <1>1, <3>1
  <2>. QED
      BY <2>1, <2>2
<1>5. ASSUME NEW v, NEW c, NEW n, NEW terms,
             CreateVendorProduct(h, v, c, n, NewUnit, terms) \/ CreateVendorCustomProduct(h, v, c, n, NewUnit, terms)
      PROVE  FALSE
  <2>1. Other
      BY <1>5 DEF CreateVendorProduct, CreateVendorCustomProduct
  <2>. QED
      BY <1>1, <2>1
<1>6. ASSUME NEW v, NEW l, RestockVendorProduct(h, v, l) \/ DeleteVendorProduct(h, v, l) PROVE FALSE
  <2>1. Other
      BY <1>6 DEF RestockVendorProduct, DeleteVendorProduct
  <2>. QED
      BY <1>1, <2>1
<1>7. ASSUME NEW v, NEW l, NEW details, NEW terms, NEW sizes, UpdateVendorProduct(h, v, l, details, terms, sizes)
      PROVE  FALSE
    BY <1>3, <1>7 DEF UpdateVendorProduct
<1>8. ASSUME NEW v \in Callers, VendorProductCall(h, v) PROVE FALSE
    BY <1>4, <1>5, <1>6, <1>7, <1>8 DEF VendorProductCall
<1>9. ASSUME AdminCategoryCall(h) PROVE FALSE
  <2>1. ASSUME NEW n, NEW c, NEW d, CreateCategory(h, n, c) \/ RenameCategory(h, c, n) \/ MoveCategory(h, c, d)
        PROVE  Other
      BY <2>1 DEF CreateCategory, RenameCategory, MoveCategory
  <2>2. ASSUME NEW c, DeleteCategory(h, c) PROVE Other
    <3>1. PICK todo : EditStarts(h, Laoji, "deleteCategory", todo, 0)
        BY <2>2, Zenon DEF DeleteCategory
    <3>. QED
        BY <3>1
  <2>3. ASSUME NEW s, ApproveProductSuggestion(h, s) \/ RejectProductSuggestion(h, s) \/ RejectCategorySuggestion(h, s)
        PROVE  Other
      BY <2>3 DEF ApproveProductSuggestion, RejectProductSuggestion, RejectCategorySuggestion
  <2>4. ASSUME NEW s, NEW n, NEW c, ApproveCategorySuggestion(h, s, n, c) PROVE Other
    <3>1. PICK todo : EditStarts(h, Laoji, "approveCategorySuggestion", todo, 2)
        BY <2>4, Zenon DEF ApproveCategorySuggestion
    <3>. QED
        BY <3>1
  <2> HIDE DEF Other
  <2>. QED
      BY <1>1, <1>9, <2>1, <2>2, <2>3, <2>4 DEF AdminCategoryCall
<1>10. ASSUME AdminItemCall(h) PROVE FALSE
  <2>1. Other
      BY <1>10, Zenon DEF AdminItemCall, AddStoreItem, AddNewStoreItem, UpdateStoreTerms, UpdateStoreItem, ResizeStoreItem,
                   DeleteStoreItem
  <2>. QED
      BY <1>1, <2>1
<1>11. ASSUME AdminProductCall(h) PROVE \E p \in DOMAIN products : DeleteProduct(h, p)
  <2>1. ASSUME NEW c, NEW n, CreateProduct(h, c, n, NewUnit) PROVE FALSE
    <3>1. Other
        BY <2>1 DEF CreateProduct
    <3>. QED
        BY <1>1, <3>1
  <2>2. ASSUME NEW p, NEW field, NEW x, UpdateProduct(h, p, field, x) PROVE FALSE
    <3>1. Other
        BY <2>2 DEF UpdateProduct
    <3>. QED
        BY <1>1, <3>1
  <2>. QED
      BY <1>11, <2>1, <2>2 DEF AdminProductCall
<1>. QED
    BY <1>2, <1>8, <1>9, <1>10, <1>11 DEF CallStarts

LEMMA StartSells ==
    ASSUME NEW own, OwnersKnown(own, lastId), TablesAre(own, tables), ~AdminStrays,
           NEW h \in Editors, DOMAIN edit = Editors, CallStarts(h), edit'[h].what = "deleteProduct"
    PROVE  \E p : Phase(tables', edit'[h].todo, p)
<1>1. PICK p \in DOMAIN products : DeleteProduct(h, p)
    BY OnlyDeleteProduct
<1>2. products[p].owner = Laoji
    BY <1>1 DEF DeleteProduct
<1>3. PICK s, t, u : s = <<UnlinkOf(p)>> /\ t = <<GiveOf(tables, p)>> /\ u = LastOf(p)
    OBVIOUS
<1>4. IsList(s) /\ IsList(t) /\ IsList(u)
    BY <1>3, ListOne, ListsAre
<1>5. HandOver(p, products[p]) = t
    BY <1>2, <1>3 DEF HandOver, GiveOf, products
<1>6. DeleteRows("product", {p}) = u
    BY <1>3, ListsAre
<1>7. EditStarts(h, Laoji, "deleteProduct", (s \o t) \o u, 0)
    BY <1>1, <1>3, <1>5, <1>6 DEF DeleteProduct, UnlinkOf
<1>8. PICK todo : todo = (s \o t) \o u
    OBVIOUS
<1>9. EditStarts(h, Laoji, "deleteProduct", todo, 0)
    BY <1>7, <1>8
<1>10. edit'[h].todo = todo /\ UNCHANGED tables
    BY <1>9, StartNamed
<1>11. todo = s \o (t \o u)
    BY <1>4, <1>8, CatCat
<1>12. Phase(tables, todo, p)
    BY <1>2, <1>3, <1>11 DEF Phase, products
<1>. QED
    BY <1>10, <1>12

LEMMA SellInvKeeps ==
    ASSUME CatalogInv, SoleInv, SellInv, MCCatalogNext, ~AdminStrays
    PROVE  SellInv'
<1>1. SUFFICES ASSUME oneEdit', NEW h \in Editors, edit'[h].what = "deleteProduct"
               PROVE  \E p : Phase(tables', edit'[h].todo, p)
    BY DEF SellInv
<1>2. /\ CatalogNext /\ oneEdit
      /\ \A k \in Editors \ {h} : edit'[h] # NoEdit => edit'[k] = NoEdit
      /\ \A k \in Editors : edit[k] # NoEdit => edit'[k] # edit[k]
    BY <1>1 DEF MCCatalogNext
<1>3. edit'[h] # NoEdit
    BY <1>1, NoEditIs
<1>4. PICK own : OwnersKnown(own, lastId) /\ TablesAre(own, tables) /\ \A k \in Editors : EditIs(own, edit[k])
    BY DEF CatalogInv
<1>5. DOMAIN edit = Editors
    BY DEF CatalogInv
<1>6. ASSUME NEW k \in Editors, MayEdit(k), CallStarts(k) PROVE \E p : Phase(tables', edit'[h].todo, p)
  <2>1. CASE k = h
      BY <1>1, <1>4, <1>5, <1>6, <2>1, StartSells
  <2>2. CASE k # h
    <3>1. \E by, what, todo, n : EditStarts(k, by, what, todo, n)
        BY <1>4, <1>6, CallIsReady DEF Ready
    <3>2. edit'[h] = edit[h]
        BY <1>5, <2>2, <3>1, StartNamed
    <3>. QED
        BY <1>2, <1>3, <3>2
  <2>. QED
      BY <2>1, <2>2
<1>7. ASSUME NEW k \in Editors, CallGoes(k) PROVE \E p : Phase(tables', edit'[h].todo, p)
  <2>0. PICK did : EditGoes(k, did)
      BY <1>4, <1>7, CallDoesGo DEF Goes, Known
  <2>1. CASE k = h
    <3>1. /\ did = <<>> => edit'[h] = NoEdit
          /\ did # <<>> => edit'[h].what = edit[h].what /\ edit'[h].todo = did
        BY <1>4, <1>5, <2>0, <2>1, GoneOn
    <3>2. edit[h].what = "deleteProduct" /\ edit'[h].todo = did /\ did # <<>>
        BY <1>1, <1>3, <3>1
    <3>3. PICK p : Phase(tables, edit[h].todo, p)
        BY <1>2, <3>2 DEF SellInv
    <3>4. Onward(h, p)
        BY <1>4, <1>7, <2>1, <3>3, PhaseGoes DEF Known
    <3>5. PICK todo : EditGoes(h, todo) /\ (todo = <<>> \/ Phase(tables', todo, p))
        BY <3>4 DEF Onward
    <3>6. /\ todo = <<>> => edit'[h] = NoEdit
          /\ todo # <<>> => edit'[h].todo = todo
        BY <1>4, <1>5, <3>5, GoneOn
    <3>7. todo # <<>> /\ edit'[h].todo = todo
        BY <1>3, <3>6
    <3>. QED
        BY <3>5, <3>7
  <2>2. CASE k # h
    <3>1. edit'[h] = edit[h]
        BY <1>4, <1>5, <2>0, <2>2, GoneOn
    <3>. QED
        BY <1>2, <1>3, <3>1
  <2>. QED
      BY <2>1, <2>2
<1>8. ASSUME NEW l \in DOMAIN listings, Order(l) PROVE \E p : Phase(tables', edit'[h].todo, p)
  <2>1. edit' = edit
      BY <1>8 DEF Order
  <2>. QED
      BY <1>2, <1>3, <2>1
<1>. QED
    BY <1>2, <1>6, <1>7, <1>8, NextSplits

(* While calls do not overlap and none is cut short, each query of         *)
(* deleteProduct leaves every listing of a Laoji product selling the same  *)
(* food, and after the last one the copies are what the stores sell        *)
(* (catalog.service.ts, deleteProduct).                                    *)
THEOREM StoresDoKeepSelling == ~AdminStrays => (MCCatalogSpec => StoresKeepSelling)
<1> SUFFICES ASSUME ~AdminStrays PROVE MCCatalogSpec => StoresKeepSelling
    OBVIOUS
<1> DEFINE Inv == CatalogInv /\ SoleInv /\ SellInv
           Step ==
             \A h \in Editors :
                edit[h].what = "deleteProduct" /\ edit'[h] # edit[h] /\ oneEdit' =>
                  \A l \in DOMAIN listings :
                    LET old == products[listings[l].product] IN
                    old.owner = Laoji =>
                      /\ l \in DOMAIN listings'
                      /\ LET new == products'[listings'[l].product] IN
                         <<new.name, new.unit, new.active>> = <<old.name, old.unit, old.active>>
<1>1. MCCatalogInit => Inv
  <2>1. ASSUME MCCatalogInit PROVE SellInv
    <3>1. \A h \in Editors : edit[h] = NoEdit
        BY <2>1 DEF MCCatalogInit, CatalogInit
    <3>. QED
        BY <3>1, NoEditIs DEF SellInv
  <2>. QED
      BY <2>1, CatalogInitKeeps, SoleInvInit DEF MCCatalogInit
<1>2. Inv /\ [MCCatalogNext]_catalogHistory => Inv'
  <2>1. SUFFICES ASSUME CatalogInv, SoleInv, SellInv, [MCCatalogNext]_catalogHistory
                 PROVE  CatalogInv' /\ SoleInv' /\ SellInv'
      OBVIOUS
  <2>2. CASE MCCatalogNext
    <3>1. CatalogNext
        BY <2>2 DEF MCCatalogNext
    <3>. QED
        BY <2>1, <2>2, <3>1, CatalogNextKeeps, SoleInvKeeps, SellInvKeeps
  <2>3. CASE UNCHANGED catalogHistory
    <3>1. UNCHANGED <<tables, edit, lastId, edits, oneEdit>>
        BY <2>3 DEF catalogHistory, catalogVars
    <3>2. CatalogInv'
        BY <2>1, <3>1, CatalogNextKeeps DEF catalogVars
    <3>3. SoleInv'
        BY <2>1, <3>1 DEF SoleInv, OneAtATime
    <3>4. SellInv'
        BY <2>1, <3>1 DEF SellInv
    <3>. QED
        BY <3>2, <3>3, <3>4
  <2>. QED
      BY <2>1, <2>2, <2>3
<1>3. Inv /\ [MCCatalogNext]_catalogHistory => [Step]_catalogHistory
  <2>1. SUFFICES ASSUME CatalogInv, SoleInv, SellInv, MCCatalogNext,
                        NEW h \in Editors, edit[h].what = "deleteProduct", edit'[h] # edit[h], oneEdit',
                        NEW l \in DOMAIN listings, products[listings[l].product].owner = Laoji
                 PROVE  /\ l \in DOMAIN listings'
                        /\ LET new == products'[listings'[l].product]
                               old == products[listings[l].product]
                           IN  <<new.name, new.unit, new.active>> = <<old.name, old.unit, old.active>>
      OBVIOUS
  <2>2. CatalogNext /\ oneEdit
      BY <2>1 DEF MCCatalogNext
  <2>3. edit[h] # NoEdit
      BY <2>1, NoEditIs
  <2>4. CallGoes(h)
      BY <2>1, <2>2, <2>3, EditStepIs
  <2>5. PICK own : OwnersKnown(own, lastId) /\ TablesAre(own, tables) /\ \A k \in Editors : EditIs(own, edit[k])
      BY <2>1 DEF CatalogInv
  <2>6. PICK p : Phase(tables, edit[h].todo, p)
      BY <2>1, <2>2 DEF SellInv
  <2>7. Sells(tables, tables')
      BY <2>4, <2>5, <2>6, PhaseGoes DEF Known, Onward
  <2>8. /\ l \in DOMAIN tables'.listing
        /\ SameFood(tables'.product[tables'.listing[l].product], tables.product[tables.listing[l].product])
      BY <2>1, <2>7 DEF Sells, listings, products
  <2>. QED
      BY <2>8 DEF SameFood, listings, products
<1>. QED
    BY <1>1, <1>2, <1>3, PTL DEF MCCatalogSpec, StoresKeepSelling
=============================================================================
