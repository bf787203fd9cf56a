---------------------------- MODULE StoreCatalog ----------------------------
(***************************************************************************)
(* The grocery catalog (catalog.service.ts, catalog-ownership.ts and       *)
(* grocery-sizes.service.ts).  Laoji's categories and products are         *)
(* templates: a store lists Laoji's products as they are, and gets a       *)
(* category or a product of its own as soon as it changes one.             *)
(*                                                                         *)
(* A call reads what it needs in its first step; what is left to do is a   *)
(* list of queries, run one per step, some of which read again.  A query   *)
(* that breaks a constraint of the schema, or a restart, ends the call     *)
(* with what it has done so far.  Calls that are refused do nothing and    *)
(* are left out, as is everything only the screens read.                   *)
(***************************************************************************)
EXTENDS Integers, Sequences, FiniteSets, FiniteSetsExt, Functions, TLC

CONSTANTS
    Editors,           \* calls that may be in progress at once
    Stores,
    Callers,         \* bound: the vendors that make calls
    Laoji,           \* the owner of the rows whose ownerVendorId is null
    VendorType,      \* Vendors -> vendors.business_type
    Names, Units,    \* what may be typed in as a name, as a unit or a size
    Prices,
    FirstCategories, FirstProducts, FirstListings,   \* rows by id
    FirstId,         \* a bound of their ids
    SizesOn,         \* the setting grocery_sizes_enabled
    AdminStrays,     \* an admin also gives a store what belongs to another
    MaxStock, MaxIds, MaxEdits   \* bounds

Null == 0
Owners == Stores \cup {Laoji}

CategoryFields == {"owner", "template", "parent", "name", "type"}
ProductFields == {"owner", "template", "cat", "name", "unit", "group", "label", "active"}
ListingFields == {"vendor", "product", "price", "stock", "on", "eta"}
SuggestionFields == {"kind", "vendor", "name", "unit", "cat", "status", "made"}

(* At first nothing of a store hangs on another's, as in an empty catalog, *)
(* no store has two copies of a category, and sizes are the stores' own.   *)
ASSUME StoreCatalogAssumption ==
    /\ Laoji \notin Stores /\ Callers \subseteq Stores
    /\ {MaxStock, MaxIds, MaxEdits, FirstId} \subseteq Nat
    /\ {SizesOn, AdminStrays} \subseteq BOOLEAN
    /\ IsFiniteSet(Units)
    /\ \A c \in DOMAIN FirstCategories :
         LET row == FirstCategories[c]
             laojis == {d \in DOMAIN FirstCategories : FirstCategories[d].owner = Laoji}
         IN  /\ c \in 1 .. FirstId /\ DOMAIN row = CategoryFields
             /\ row.owner \in Owners /\ {row.parent, row.template} \subseteq laojis \cup {Null}
             /\ row.owner = Laoji => row.template = Null
             /\ row.template # Null => \A d \in DOMAIN FirstCategories \ {c} :
                  <<FirstCategories[d].owner, FirstCategories[d].template>> # <<row.owner, row.template>>
    /\ \A p \in DOMAIN FirstProducts :
         LET row == FirstProducts[p] IN
         /\ p \in 1 .. FirstId \ DOMAIN FirstCategories /\ DOMAIN row = ProductFields
         /\ row.owner \in Owners
         /\ row.owner = Laoji => row.group = Null
         /\ row.cat \in DOMAIN FirstCategories /\ FirstCategories[row.cat].owner \in {Laoji, row.owner}
         /\ row.template \in {q \in DOMAIN FirstProducts : FirstProducts[q].owner = Laoji} \cup {Null}
    /\ \A l \in DOMAIN FirstListings :
         LET row == FirstListings[l] IN
         /\ l \in 1 .. FirstId \ (DOMAIN FirstCategories \cup DOMAIN FirstProducts) /\ DOMAIN row = ListingFields
         /\ row.vendor \in Stores
         /\ row.product \in DOMAIN FirstProducts /\ FirstProducts[row.product].owner \in {Laoji, row.vendor}

VARIABLES
    tables,         \* the tables, each a function from ids to rows
    edit,       \* the calls in progress: who calls, what, and what is left to do
    lastId,     \* ids are drawn in order
    edits       \* how many calls there were

catalogVars == <<tables, edit, lastId, edits>>

NoEdit == [by |-> Laoji, what |-> "idle", todo |-> <<>>]

categories == tables.category      \* [owner, template, parent, name, type]
products == tables.product        \* [owner, template, cat, name, unit, group, label, active]
listings == tables.listing        \* [vendor, product, price, stock, on, eta]
suggestions == tables.suggestion  \* [kind, vendor, name, unit, cat, status, made]
bought == tables.ordered        \* the products of grocery_order_items

CatalogInit ==
    /\ tables = [category |-> FirstCategories, product |-> FirstProducts, listing |-> FirstListings,
             suggestion |-> [i \in {} |-> Null], ordered |-> {}]
    /\ edit = [h \in Editors |-> NoEdit]
    /\ lastId = FirstId
    /\ edits = 0

(* The references and unique indexes of the schema.                        *)
Consistent(d) ==
    /\ \A c \in DOMAIN d.category :
         {d.category[c].parent, d.category[c].template} \subseteq DOMAIN d.category \cup {Null}
    /\ \A p \in DOMAIN d.product :
         /\ d.product[p].cat \in DOMAIN d.category
         /\ d.product[p].template \in DOMAIN d.product \cup {Null}
    /\ \A l \in DOMAIN d.listing :
         /\ d.listing[l].product \in DOMAIN d.product
         /\ \A k \in DOMAIN d.listing \ {l} :
              <<d.listing[k].vendor, d.listing[k].product>> # <<d.listing[l].vendor, d.listing[l].product>>
    /\ \A s \in DOMAIN d.suggestion :
         /\ d.suggestion[s].cat \in DOMAIN d.category \cup {Null}
         /\ d.suggestion[s].made \in DOMAIN d.product \cup {Null}
    /\ d.ordered \subseteq DOMAIN d.product

-----------------------------------------------------------------------------
(* Where a category shows: catalog-ownership.ts, vendorCategories.         *)

Copies(v, t) == {c \in DOMAIN categories : categories[c].owner = v /\ categories[c].template = t}

(* Of several copies the last one read counts, here the newest.            *)
ShopCategory(v, c) == IF Copies(v, c) = {} THEN c ELSE Max(Copies(v, c))

LaojiCategory(c) ==
    IF categories[c].owner # Laoji /\ categories[c].template # Null THEN categories[c].template ELSE c

TypeOf(row) ==
    IF row.type # "none" THEN row.type
    ELSE IF row.parent \in DOMAIN categories /\ categories[row.parent].type # "none" THEN categories[row.parent].type
    ELSE "grocery"
BusinessType(c) == TypeOf(categories[c])

VisibleTo(v, c) == VendorType[v] \in {"general", BusinessType(c)}
IsTemplateFor(v, c) == categories[c].owner = Laoji /\ VisibleTo(v, c)
IsLeaf(c) == \A d \in DOMAIN categories : categories[d].parent # c
Usable(v, c) == categories[c].owner \in {Laoji, v}
Named(owner, n) == {c \in DOMAIN categories : categories[c].owner = owner /\ categories[c].name = n}

(* The Laoji root of a business type; it has the type's name.              *)
Roots(type) == {c \in Named(Laoji, type) : categories[c].parent = Null /\ categories[c].type = type}

ListingsOf(v) == {l \in DOMAIN listings : listings[l].vendor = v}

-----------------------------------------------------------------------------
(* Queries.                                                                *)

InsertRow(table, id, row) == <<[do |-> "insert", table |-> table, id |-> id, row |-> row]>>
UpdateRow(table, id, fields) == <<[do |-> "update", table |-> table, id |-> id, fields |-> fields]>>
DeleteRows(table, ids) == <<[do |-> "delete", table |-> table, ids |-> ids]>>
Each(what, of, left) == IF left = {} THEN <<>> ELSE <<[do |-> what, of |-> of, left |-> left]>>
Refile(owners, from, to) == <<[do |-> "refile", owners |-> owners, from |-> from, to |-> to]>>

CategoryRow(owner, t, parent, n, type) ==
    [owner |-> owner, template |-> t, parent |-> parent, name |-> n, type |-> type]
ProductRow(owner, c, n, u) ==
    [owner |-> owner, template |-> Null, cat |-> c, name |-> n, unit |-> u,
     group |-> Null, label |-> "none", active |-> TRUE]
ListingRow(v, p, terms) ==
    [vendor |-> v, product |-> p, price |-> terms.price, stock |-> terms.stock, on |-> terms.on, eta |-> terms.eta]
SuggestionRow(kind, v, n, u, c) ==
    [kind |-> kind, vendor |-> v, name |-> n, unit |-> u, cat |-> c, status |-> "pending", made |-> Null]

WithRow(table, id, row) == [i \in DOMAIN table \cup {id} |-> IF i = id THEN row ELSE table[i]]
Edited(row, fields) == [k \in DOMAIN row |-> IF k \in DOMAIN fields THEN fields[k] ELSE row[k]]
Both(f, g) == [k \in DOMAIN f \cup DOMAIN g |-> IF k \in DOMAIN f THEN f[k] ELSE g[k]]
Only(field, x) == [k \in {field} |-> x]

(* A category goes together with the links to it that are set null, a      *)
(* product also with its listings.                                         *)
MinusCategories(d, ids) ==
    [d EXCEPT !.category = [c \in DOMAIN @ \ ids |->
                              IF @[c].template \in ids THEN [@[c] EXCEPT !.template = Null] ELSE @[c]],
              !.suggestion = [s \in DOMAIN @ |->
                              IF @[s].kind = "category" /\ @[s].cat \in ids
                              THEN [@[s] EXCEPT !.cat = Null] ELSE @[s]]]

MinusProducts(d, ids) ==
    [d EXCEPT !.product = [p \in DOMAIN @ \ ids |->
                              IF @[p].template \in ids THEN [@[p] EXCEPT !.template = Null] ELSE @[p]],
              !.listing = [l \in {l \in DOMAIN @ : @[l].product \notin ids} |-> @[l]]]

(* deleteProduct, deleteCategory: suggestions let go of a product, what    *)
(* hangs on a category is let go or goes with it.                          *)
UnlinkProducts(d, ids) ==
    [d EXCEPT !.suggestion = [s \in DOMAIN @ |->
                              IF @[s].made \in ids THEN [@[s] EXCEPT !.made = Null] ELSE @[s]]]

UnlinkTemplates(d, ids) ==
    [UnlinkProducts(d, ids) EXCEPT
        !.product = [p \in DOMAIN @ |->
                       IF @[p].template \in ids THEN [@[p] EXCEPT !.template = Null] ELSE @[p]]]

UnlinkCategories(d, ids) ==
    [d EXCEPT !.category = [c \in DOMAIN @ |->
                              IF @[c].owner # Laoji /\ @[c].parent \in ids
                              THEN [@[c] EXCEPT !.parent = Null] ELSE @[c]],
              !.suggestion = [s \in {s \in DOMAIN @ : ~(@[s].kind = "product" /\ @[s].cat \in ids)} |->
                              IF @[s].cat \in ids THEN [@[s] EXCEPT !.cat = Null] ELSE @[s]]]

Refiled(d, q) ==
    [d EXCEPT !.product = [p \in DOMAIN @ |->
                             IF @[p].owner \in q.owners /\ @[p].cat = q.from
                             THEN [@[p] EXCEPT !.cat = q.to] ELSE @[p]]]

Restocked(d, l) ==
    IF l \notin DOMAIN d.listing THEN d
    ELSE [d EXCEPT !.listing[l] = Edited(@, [stock |-> @.stock + 1, on |-> TRUE, eta |-> FALSE])]

Dropped(d, table, ids) ==
    IF table = "product" THEN MinusProducts(d, ids)
    ELSE IF table = "category" THEN MinusCategories(d, ids)
    ELSE [d EXCEPT !.listing = [l \in DOMAIN @ \ ids |-> @[l]]]

Result(d, q) ==
    CASE q.do = "insert" -> [d EXCEPT ![q.table] = WithRow(@, q.id, q.row)]
      [] q.do = "update" -> IF q.id \notin DOMAIN d[q.table] THEN d
                            ELSE [d EXCEPT ![q.table][q.id] = Edited(@, q.fields)]
      [] q.do = "delete" -> Dropped(d, q.table, q.ids)
      [] q.do = "refile" -> Refiled(d, q)
      [] q.do = "restock" -> Restocked(d, q.id)
      [] q.do = "unlinkProduct" -> UnlinkProducts(d, q.ids)
      [] q.do = "unlinkTemplates" -> UnlinkTemplates(d, q.ids)
      [] q.do = "unlinkCategories" -> UnlinkCategories(d, q.ids)

-----------------------------------------------------------------------------
(* Calls.                                                                  *)

MayEdit(h) == edit[h] = NoEdit /\ edits < MaxEdits

EditStarts(h, by, what, todo, drawn) ==
    /\ todo # <<>>
    /\ edits' = edits + 1
    /\ lastId + drawn <= MaxIds /\ lastId' = lastId + drawn
    /\ edit' = [edit EXCEPT ![h] = [by |-> by, what |-> what, todo |-> todo]]
    /\ UNCHANGED tables

EditGoes(h, todo) ==
    edit' = [edit EXCEPT ![h] = IF todo = <<>> THEN NoEdit ELSE [@ EXCEPT !.todo = todo]]

NextQuery(h) == Head(edit[h].todo)
LaterQueries(h) == Tail(edit[h].todo)
Reads(h, what) == edit[h].todo # <<>> /\ NextQuery(h).do = what

(* Where a handler goes on with the row it has just updated, it fails when *)
(* there is none.                                                          *)
Taken(q) == q.do = "insert" /\ q.id \in DOMAIN tables[q.table]
Lost(q) == q.do = "update" /\ q.table \in {"category", "product"} /\ q.id \notin DOMAIN tables[q.table]

RunQuery(h) ==
    /\ edit[h].todo # <<>>
    /\ NextQuery(h).do \in {"insert", "update", "delete", "refile", "restock",
                        "unlinkProduct", "unlinkTemplates", "unlinkCategories"}
    /\ IF Taken(NextQuery(h)) \/ Lost(NextQuery(h)) \/ ~Consistent(Result(tables, NextQuery(h)))
       THEN EditGoes(h, <<>>) /\ UNCHANGED tables
       ELSE tables' = Result(tables, NextQuery(h)) /\ EditGoes(h, LaterQueries(h))
    /\ UNCHANGED <<lastId, edits>>

(* The process stops in the middle of a call.                              *)
EditCut(h) ==
    /\ edit[h] # NoEdit
    /\ EditGoes(h, <<>>)
    /\ UNCHANGED <<tables, lastId, edits>>

-----------------------------------------------------------------------------
(* A store's categories.                                                   *)

RootOf(type) == IF Roots(type) = {} THEN lastId + 2 ELSE Min(Roots(type))
MakeRoot(type) ==
    IF Roots(type) # {} THEN <<>>
    ELSE InsertRow("category", lastId + 2, CategoryRow(Laoji, Null, Null, type, type))

(* createVendorCategory, from the template t or by its name alone.         *)
NewCategory(v, t, n) ==
    LET same == Named(v, n)
        offered == {c \in Named(Laoji, n) : VisibleTo(v, c) /\ IsLeaf(c) /\ Copies(v, c) = {}}
        from == IF t # Null THEN t ELSE IF offered # {} THEN Min(offered) ELSE Null
    IN  IF t # Null /\ Copies(v, t) # {} THEN <<>>
        ELSE IF same # {}
        THEN IF t = Null \/ categories[Min(same)].template # Null THEN <<>>
             ELSE UpdateRow("category", Min(same), [template |-> t]) \o Refile({v}, t, Min(same))
        ELSE IF from # Null
        THEN InsertRow("category", lastId + 1, CategoryRow(v, from, categories[from].parent, n, BusinessType(from)))
             \o Refile({v}, from, lastId + 1)
        ELSE MakeRoot(VendorType[v])
             \o InsertRow("category", lastId + 1, CategoryRow(v, Null, RootOf(VendorType[v]), n, VendorType[v]))

CreateVendorCategory(h, v, t, n) ==
    /\ t # Null => categories[t].owner = Laoji
    /\ EditStarts(h, v, "createVendorCategory", NewCategory(v, t, n), 2)

RenameVendorCategory(h, v, c, n) ==
    /\ Usable(v, c)
    /\ LET own == ShopCategory(v, c) IN
       EditStarts(h, v, "renameVendorCategory",
              IF categories[own].owner = Laoji THEN NewCategory(v, c, n)
              ELSE IF Named(v, n) \ {own} # {} THEN <<>>
              ELSE UpdateRow("category", own, [name |-> n]), 2)

DeleteVendorCategory(h, v, c) ==
    LET row == categories[c]
        type == VendorType[v]
        home == IF row.template # Null THEN row.template ELSE row.parent
    IN  /\ row.owner = v
        /\ \A l \in ListingsOf(v) : ShopCategory(v, products[listings[l].product].cat) # c
        /\ EditStarts(h, v, "deleteVendorCategory",
                  (IF home = Null THEN MakeRoot(type) ELSE <<>>)
                  \o Refile(Stores \cup {Laoji}, c, IF home = Null THEN RootOf(type) ELSE home)
                  \o DeleteRows("category", {c}), 2)

-----------------------------------------------------------------------------
(* A store's products.                                                     *)

(* A store's copy of a Laoji product.                                      *)
CopyOf(v, p, row) ==
    [row EXCEPT !.owner = v, !.template = p, !.cat = ShopCategory(v, row.cat),
                !.group = Null, !.label = "none"]

(* findListingOf: of the product or of the store's copy of it.             *)
FindListing(v, p) ==
    {l \in ListingsOf(v) :
       LET q == listings[l].product IN q = p \/ (products[q].template = p /\ products[q].owner = v)}

Listable(v, p) ==
    \/ products[p].owner = v
    \/ products[p].owner = Laoji /\ products[p].active /\ VisibleTo(v, products[p].cat)

(* The product p as the store shows it, and what may be sent for it: the   *)
(* apps send every field, changed or not.                                  *)
AsShown(v, p) ==
    [name |-> products[p].name, unit |-> products[p].unit, cat |-> ShopCategory(v, products[p].cat)]

Details(v, p) ==
    LET shown == AsShown(v, p) IN
    {shown} \cup {[shown EXCEPT !.name = n] : n \in Names}
            \cup {[shown EXCEPT !.unit = u] : u \in Units}
            \cup {[shown EXCEPT !.cat = c] : c \in {c \in DOMAIN categories : Usable(v, c)}}

Changes(v, p, details) ==
    LET sent == [details EXCEPT !.cat = ShopCategory(v, @)]
        changed == {k \in DOMAIN sent : sent[k] # AsShown(v, p)[k]}
    IN  [k \in changed |-> sent[k]]

(* Mutant: the store's changes go to the product it lists, whoever owns it *)
InPlace(v, p, details, id) ==
    [id |-> p, todo |-> UpdateRow("product", p, Changes(v, p, details))]

(* productForListing: the product to list, and the queries that make it;   *)
(* id is for a copy.                                                       *)
ProductForListing(v, p, details, id) ==
    LET changes == Changes(v, p, details) IN
    IF DOMAIN changes = {} THEN [id |-> p, todo |-> <<>>]
    ELSE IF products[p].owner = v THEN [id |-> p, todo |-> UpdateRow("product", p, changes)]
    ELSE [id |-> id, todo |-> InsertRow("product", id, Edited(CopyOf(v, p, products[p]), changes))]

Terms == [price : Prices, stock : 0..MaxStock, on : BOOLEAN, eta : BOOLEAN]
Normalized(t) == [t EXCEPT !.eta = @ /\ ~(t.stock > 0 /\ t.on)]

(* The sizes that may be sent with a save: labels, each with the listing   *)
(* that has it now or none.                                                *)
Siblings(d, v, l) ==
    LET p == d.listing[l].product IN
    {k \in DOMAIN d.listing \ {l} :
       LET q == d.listing[k].product IN
       /\ d.listing[k].vendor = v /\ d.product[q].owner = v
       /\ d.product[p].group # Null /\ d.product[q].group = d.product[p].group}

SizeLists(v, l, unit) ==
    LET known == IF l \in DOMAIN listings THEN Siblings(tables, v, l) ELSE {} IN
    {<<>>} \cup
    IF ~SizesOn THEN {}
    ELSE {<<[do |-> "sizes", vendor |-> v, listing |-> l, wanted |-> w]>> :
            w \in UNION {[labels -> known \cup {Null}] : labels \in SUBSET (Units \ {unit})}}

UpdateListing(h, v, l, details, terms, sizes, what) ==
    LET p == listings[l].product
        to == ProductForListing(v, p, details, lastId + 1)
        moved == IF to.id = p THEN <<>> ELSE [product |-> to.id]
    IN  /\ listings[l].vendor = v
        /\ products[p].owner \in {Laoji, v}
        /\ EditStarts(h, v, what, to.todo \o UpdateRow("listing", l, Both(moved, Normalized(terms))) \o sizes, 1)

UpdateVendorProduct(h, v, l, details, terms, sizes) ==
    UpdateListing(h, v, l, details, terms, sizes, "updateVendorProduct")

UpsertVendorProduct(h, v, p, details, terms) ==
    IF FindListing(v, p) # {}
    THEN LET l == Min(FindListing(v, p)) IN
         UpdateListing(h, v, l, details, terms, <<>>, "upsertVendorProduct")
    ELSE LET to == ProductForListing(v, p, details, lastId + 1) IN
         /\ Listable(v, p)
         /\ \E sizes \in SizeLists(v, lastId + 2, details.unit) :
              EditStarts(h, v, "upsertVendorProduct",
                     to.todo \o InsertRow("listing", lastId + 2, ListingRow(v, to.id, Normalized(terms))) \o sizes, 2)

(* A product of the store's own and its listing.                           *)
OwnProduct(v, c, n, u, terms) ==
    InsertRow("product", lastId + 1, ProductRow(v, ShopCategory(v, c), n, u))
    \o InsertRow("listing", lastId + 2, ListingRow(v, lastId + 1, terms))

CreateVendorProduct(h, v, c, n, u, terms) ==
    /\ Usable(v, c)
    /\ \E sizes \in SizeLists(v, lastId + 2, u) :
         EditStarts(h, v, "createVendorProduct", OwnProduct(v, c, n, u, Normalized(terms)) \o sizes, 2)

CreateVendorCustomProduct(h, v, c, n, u, terms) ==
    /\ Usable(v, c)
    /\ EditStarts(h, v, "createVendorProduct", OwnProduct(v, c, n, u, [terms EXCEPT !.eta = FALSE]), 2)

RestockVendorProduct(h, v, l) ==
    /\ listings[l].vendor = v /\ listings[l].stock < MaxStock
    /\ EditStarts(h, v, "restockVendorProduct", <<[do |-> "restock", id |-> l]>>, 0)

(* deleteVendorProduct and deleteAdminVendorItem: the listing, then a      *)
(* product of the store's own unless it was ordered.  The vendor's own     *)
(* delete takes a kept product out of its sizes.                           *)
DropListing(l, ungroup) ==
    DeleteRows("listing", {l})
    \o <<[do |-> "dropOwn", vendor |-> listings[l].vendor, id |-> listings[l].product, ungroup |-> ungroup]>>

DeleteVendorProduct(h, v, l) ==
    listings[l].vendor = v /\ EditStarts(h, v, "deleteVendorProduct", DropListing(l, TRUE), 0)

DropOwn(h) ==
    /\ Reads(h, "dropOwn")
    /\ LET q == NextQuery(h) IN
       EditGoes(h, IF q.id \notin DOMAIN products \/ products[q.id].owner # q.vendor THEN <<>>
                 ELSE IF q.id \notin bought THEN DeleteRows("product", {q.id})
                 ELSE IF q.ungroup /\ products[q.id].group # Null
                 THEN UpdateRow("product", q.id, [group |-> Null, label |-> "none"])
                 ELSE <<>>)
    /\ UNCHANGED <<tables, lastId, edits>>

(* syncSizes, one transaction: the listing's product, copied for the store *)
(* if it is Laoji's, gets a group; the sizes kept are updated, the new     *)
(* ones made, the others taken off.                                        *)
Ungrouped == [group |-> Null, label |-> "none"]

(* The sizes a save adds, in the order at, take two ids each: a product    *)
(* and its listing.                                                        *)
Added(q) == {u \in DOMAIN q.wanted : q.wanted[u] = Null}
SizeOrders(q) == Injection(Added(q), 1 .. Cardinality(Added(q)))

Sized(d, q, id, at) ==
    LET l == q.listing
        v == q.vendor
        p == d.listing[l].product
        copied == d.product[p].owner # v /\ DOMAIN q.wanted # {}
        own == IF copied THEN id + 1 ELSE p
        group == IF d.product[p].group # Null THEN d.product[p].group ELSE id + 2
        primary == [(IF copied THEN [CopyOf(v, p, d.product[p]) EXCEPT !.cat = d.product[p].cat, !.active = TRUE]
                                ELSE d.product[p])
                      EXCEPT !.group = group, !.label = d.product[p].unit]
        size(u, row) == [row EXCEPT !.cat = primary.cat, !.name = primary.name, !.group = group,
                                    !.unit = u, !.label = u]
        new(u) == id + 1 + 2 * at[u]
        kept == DOMAIN q.wanted \ Added(q)
        of(u) == d.listing[q.wanted[u]].product
        gone == Siblings(d, v, l) \ {q.wanted[u] : u \in kept}
        taken == {d.listing[k].product : k \in gone}
        row(i) ==
          IF i = own THEN IF DOMAIN q.wanted # {} THEN primary
                          ELSE IF d.product[p].group = Null THEN d.product[p]
                          ELSE Edited(d.product[p], Ungrouped)
          ELSE IF \E u \in Added(q) : new(u) = i
          THEN size(CHOOSE u \in Added(q) : new(u) = i, ProductRow(v, primary.cat, primary.name, "none"))
          ELSE IF i \in taken THEN [Edited(d.product[i], Ungrouped) EXCEPT !.active = FALSE]
          ELSE IF \E u \in kept : of(u) = i THEN size(CHOOSE u \in kept : of(u) = i, d.product[i])
          ELSE d.product[i]
    IN  [d EXCEPT
          !.product = [i \in DOMAIN @ \cup {own} \cup {new(u) : u \in Added(q)} |-> row(i)],
          !.listing = [i \in (DOMAIN @ \ gone) \cup {new(u) + 1 : u \in Added(q)} |->
                         IF i = l THEN [@[l] EXCEPT !.product = own]
                         ELSE IF \E u \in Added(q) : new(u) + 1 = i
                         THEN ListingRow(v, i - 1, [@[l] EXCEPT !.on = TRUE, !.eta = FALSE])
                         ELSE @[i]]]

SyncSizes(h) ==
    /\ Reads(h, "sizes")
    /\ LET q == NextQuery(h)
           known == IF q.listing \in DOMAIN listings THEN Siblings(tables, q.vendor, q.listing) ELSE {}
       IN  IF /\ q.listing \in DOMAIN listings
              /\ products[listings[q.listing].product].unit \notin DOMAIN q.wanted
              /\ \A u \in DOMAIN q.wanted : q.wanted[u] \in known \cup {Null}
           THEN /\ lastId' = lastId + 2 + 2 * Cardinality(Added(q)) /\ lastId' <= MaxIds
                /\ \E at \in SizeOrders(q) : tables' = Sized(tables, q, lastId, at)
           ELSE UNCHANGED <<tables, lastId>>
    /\ EditGoes(h, <<>>)
    /\ UNCHANGED edits

-----------------------------------------------------------------------------
(* Suggestions.                                                            *)

CreateProductSuggestion(h, v, c, n, u) ==
    /\ Usable(v, c)
    /\ categories[LaojiCategory(c)].owner = Laoji
    /\ EditStarts(h, v, "createProductSuggestion",
              InsertRow("suggestion", lastId + 1, SuggestionRow("product", v, n, u, LaojiCategory(c))), 1)

CreateCategorySuggestion(h, v, n) ==
    /\ ~\E c \in Named(Laoji, n) : VisibleTo(v, c) /\ IsLeaf(c)
    /\ ~\E s \in DOMAIN suggestions :
          /\ suggestions[s].kind = "category" /\ suggestions[s].status = "pending"
          /\ suggestions[s].vendor = v /\ suggestions[s].name = n
    /\ EditStarts(h, v, "createCategorySuggestion",
              InsertRow("suggestion", lastId + 1, SuggestionRow("category", v, n, "none", Null)), 1)

Pending(s, kind) == suggestions[s].kind = kind /\ suggestions[s].status = "pending"

ApproveProductSuggestion(h, s) ==
    /\ Pending(s, "product")
    /\ EditStarts(h, Laoji, "approveProductSuggestion",
              InsertRow("product", lastId + 1,
                     ProductRow(Laoji, suggestions[s].cat, suggestions[s].name, suggestions[s].unit))
              \o UpdateRow("suggestion", s, [status |-> "approved", made |-> lastId + 1]), 1)

RejectProductSuggestion(h, s) ==
    /\ Pending(s, "product")
    /\ EditStarts(h, Laoji, "rejectProductSuggestion", UpdateRow("suggestion", s, [status |-> "rejected"]), 0)

RejectCategorySuggestion(h, s) ==
    /\ Pending(s, "category")
    /\ EditStarts(h, Laoji, "rejectCategorySuggestion", UpdateRow("suggestion", s, [status |-> "rejected"]), 0)

(* Under the root of the store's type, or another parent; then the store's *)
(* own category of the suggested name becomes its copy.                    *)
ApproveCategorySuggestion(h, s, n, parent) ==
    LET row == suggestions[s]
        type == VendorType[row.vendor]
        under == IF parent # Null THEN parent ELSE RootOf(type)
        same == {c \in Named(Laoji, n) : categories[c].parent = under}
        c == IF same # {} THEN Min(same) ELSE lastId + 1
    IN  /\ Pending(s, "category")
        /\ parent # Null => categories[parent].owner = Laoji
        /\ EditStarts(h, Laoji, "approveCategorySuggestion",
                  (IF parent = Null THEN MakeRoot(type) ELSE <<>>)
                  \o (IF same # {} THEN <<>>
                      ELSE InsertRow("category", c,
                                  CategoryRow(Laoji, Null, under, n,
                                              IF parent = Null THEN type ELSE BusinessType(parent))))
                  \o UpdateRow("suggestion", s, [status |-> "approved", cat |-> c])
                  \o <<[do |-> "link", vendor |-> row.vendor, name |-> row.name, id |-> c]>>, 2)

LinkOwn(h) ==
    /\ Reads(h, "link")
    /\ LET q == NextQuery(h)
           own == {c \in Named(q.vendor, q.name) : categories[c].template = Null}
       IN  EditGoes(h, IF own = {} \/ Copies(q.vendor, q.id) # {} THEN <<>>
                     ELSE UpdateRow("category", Min(own), [template |-> q.id])
                          \o Refile({q.vendor}, q.id, Min(own)))
    /\ UNCHANGED <<tables, lastId, edits>>

-----------------------------------------------------------------------------
(* The admin: Laoji's categories and products, and the items of a store.   *)

OfLaoji(c) == AdminStrays \/ categories[c].owner = Laoji

CreateCategory(h, n, parent) ==
    /\ parent # Null => OfLaoji(parent)
    /\ EditStarts(h, Laoji, "createCategory",
              InsertRow("category", lastId + 1,
                     CategoryRow(Laoji, Null, parent, n, IF parent = Null THEN "none" ELSE BusinessType(parent))), 1)

RenameCategory(h, c, n) ==
    OfLaoji(c) /\ EditStarts(h, Laoji, "updateCategory", UpdateRow("category", c, [name |-> n]), 0)

MoveCategory(h, c, parent) ==
    /\ OfLaoji(c) /\ parent # c /\ (parent # Null => OfLaoji(parent))
    /\ EditStarts(h, Laoji, "updateCategory",
              UpdateRow("category", c, IF parent = Null THEN [parent |-> Null]
                                    ELSE [parent |-> parent, type |-> BusinessType(parent)]), 0)

ProductsIn(cs) == {p \in DOMAIN products : products[p].cat \in cs}
ListingsOfProducts(ps) == {l \in DOMAIN listings : listings[l].product \in ps}

DeleteCategory(h, c) ==
    LET sub == {d \in DOMAIN categories : categories[d].parent = c /\ categories[d].owner = Laoji}
        cs == {c} \cup sub
        ps == ProductsIn(cs)
    IN  /\ categories[c].owner = Laoji
        /\ ps \cap bought = {}
        /\ EditStarts(h, Laoji, "deleteCategory",
                  (IF ps = {} THEN <<>>
                   ELSE <<[do |-> "unlinkTemplates", ids |-> ps]>>
                        \o <<[do |-> "deleteListings", ids |-> ps]>>
                        \o DeleteRows("product", ps))
                  \o <<[do |-> "detach", rows |-> [d \in cs |-> categories[d]]]>>
                  \o <<[do |-> "unlinkCategories", ids |-> cs]>>
                  \o DeleteRows("category", sub) \o DeleteRows("category", {c}), 0)

(* detachStoresFromCategories: what stores still have under the categories *)
(* moves to a category of their own, one store and category at a time.     *)
Detach(h) ==
    /\ Reads(h, "detach")
    /\ LET gone == NextQuery(h).rows
           rows == [c \in DOMAIN gone |-> [gone[c] EXCEPT !.type = TypeOf(gone[c])]]
           stranded == {<<products[p].owner, products[p].cat>> :
                          p \in {p \in ProductsIn(DOMAIN gone) : products[p].owner # Laoji}}
       IN  EditGoes(h, Each("move", rows, stranded) \o LaterQueries(h))
    /\ UNCHANGED <<tables, lastId, edits>>

MoveOne(h) ==
    /\ Reads(h, "move")
    /\ \E x \in NextQuery(h).left :
         LET rows == NextQuery(h).of
             row == rows[x[2]]
             copies == Copies(x[1], x[2])
             parent == IF row.parent \in DOMAIN rows THEN Null ELSE row.parent
             next == Each("move", rows, NextQuery(h).left \ {x}) \o LaterQueries(h)
         IN  IF copies # {} THEN EditGoes(h, Refile({x[1]}, x[2], Max(copies)) \o next) /\ UNCHANGED lastId
             ELSE /\ lastId < MaxIds /\ lastId' = lastId + 1
                  /\ EditGoes(h, InsertRow("category", lastId + 1, CategoryRow(x[1], Null, parent, row.name, row.type))
                                   \o Refile({x[1]}, x[2], lastId + 1) \o next)
    /\ UNCHANGED <<tables, edits>>

CreateProduct(h, c, n, u) ==
    /\ OfLaoji(c)
    /\ EditStarts(h, Laoji, "createProduct", InsertRow("product", lastId + 1, ProductRow(Laoji, c, n, u)), 1)

UpdateProduct(h, p, field, x) ==
    /\ AdminStrays \/ products[p].owner = Laoji
    /\ products[p][field] # x
    /\ EditStarts(h, Laoji, "updateProduct", UpdateRow("product", p, Only(field, x)), 0)

(* Mutant: a deleted product goes from every store that lists it.          *)
NoCopies(p, row) == <<[do |-> "deleteListings", ids |-> {p}]>>

HandOver(p, row) ==
    IF row.owner = Laoji THEN <<[do |-> "handOver", id |-> p, row |-> row]>>
    ELSE <<[do |-> "deleteListings", ids |-> {p}]>>

DeleteProduct(h, p) ==
    /\ AdminStrays \/ products[p].owner = Laoji
    /\ p \notin bought
    /\ EditStarts(h, Laoji, "deleteProduct",
              <<[do |-> "unlinkProduct", ids |-> {p}]>> \o HandOver(p, products[p]) \o DeleteRows("product", {p}), 0)

(* Each store that lists the product gets a copy of it, one after another. *)
GiveCopies(h) ==
    /\ Reads(h, "handOver")
    /\ LET q == NextQuery(h)
           stock == {<<listings[l].vendor, l>> : l \in ListingsOfProducts({q.id})}
       IN  EditGoes(h, Each("give", q, stock) \o LaterQueries(h))
    /\ UNCHANGED <<tables, lastId, edits>>

GiveCopy(h) ==
    /\ Reads(h, "give")
    /\ \E x \in NextQuery(h).left :
         LET q == NextQuery(h).of IN
         EditGoes(h, InsertRow("product", lastId + 1, CopyOf(x[1], q.id, q.row))
                       \o UpdateRow("listing", x[2], [product |-> lastId + 1])
                       \o Each("give", q, NextQuery(h).left \ {x}) \o LaterQueries(h))
    /\ lastId < MaxIds /\ lastId' = lastId + 1
    /\ UNCHANGED <<tables, edits>>

DeleteListings(h) ==
    /\ Reads(h, "deleteListings")
    /\ tables' = Dropped(tables, "listing", ListingsOfProducts(NextQuery(h).ids))
    /\ EditGoes(h, LaterQueries(h))
    /\ UNCHANGED <<lastId, edits>>

(* addAdminVendorItem, of a product there is or of a new one.              *)
AddStoreItem(h, v, p, terms) ==
    LET mine == {l \in ListingsOf(v) : listings[l].product = p}
        l == IF mine = {} THEN lastId + 1 ELSE Min(mine)
        save == IF mine = {} THEN InsertRow("listing", l, ListingRow(v, p, [terms EXCEPT !.eta = FALSE]))
                ELSE UpdateRow("listing", l, [price |-> terms.price, stock |-> terms.stock, on |-> terms.on])
    IN  /\ AdminStrays \/ products[p].owner \in {Laoji, v}
        /\ \E sizes \in SizeLists(v, l, "none") : EditStarts(h, Laoji, "addAdminVendorItem", save \o sizes, 1)

AddNewStoreItem(h, v, c, n, u, terms) ==
    /\ AdminStrays \/ Usable(v, c)
    /\ EditStarts(h, Laoji, "addAdminVendorItem",
              InsertRow("product", lastId + 1, ProductRow(v, c, n, u))
              \o InsertRow("listing", lastId + 2, ListingRow(v, lastId + 1, [terms EXCEPT !.eta = FALSE])), 2)

(* updateAdminVendorItem: the listing first, only what was sent, then the  *)
(* store's own product or a copy for it.                                   *)
UpdateStoreTerms(h, l, field, x) ==
    listings[l][field] # x /\ EditStarts(h, Laoji, "updateAdminVendorItem", UpdateRow("listing", l, Only(field, x)), 0)

UpdateStoreItem(h, l, field, x) ==
    LET p == listings[l].product
        v == listings[l].vendor
    IN  /\ products[p][field] # x
        /\ field = "cat" => AdminStrays \/ Usable(v, x)
        /\ EditStarts(h, Laoji, "updateAdminVendorItem",
                  IF products[p].owner = v THEN UpdateRow("product", p, Only(field, x))
                  ELSE InsertRow("product", lastId + 1,
                              Edited([CopyOf(v, p, products[p]) EXCEPT !.cat = products[p].cat, !.active = TRUE], Only(field, x)))
                       \o UpdateRow("listing", l, [product |-> lastId + 1]), 1)

ResizeStoreItem(h, l) ==
    \E sizes \in SizeLists(listings[l].vendor, l, "none") \ {<<>>} :
       EditStarts(h, Laoji, "updateAdminVendorItem", sizes, 0)

DeleteStoreItem(h, l) == EditStarts(h, Laoji, "deleteAdminVendorItem", DropListing(l, FALSE), 0)

(* A customer's order refers to the products it is for.                    *)
Order(l) ==
    /\ listings[l].on /\ listings[l].product \notin bought
    /\ edits < MaxEdits /\ edits' = edits + 1
    /\ tables' = [tables EXCEPT !.ordered = @ \cup {listings[l].product}]
    /\ UNCHANGED <<edit, lastId>>

-----------------------------------------------------------------------------
(* What is shown: to customers and to the store.                           *)

CustomerCategories == {c \in DOMAIN categories : categories[c].owner = Laoji \/ categories[c].template = Null}

Below(S) == S \cup {d \in DOMAIN categories : categories[d].parent \in S}

(* Mutant: a category holds only what is filed right in it or under it.    *)
UnderOnly(c) ==
    LET down[n \in Nat] == IF n = 0 THEN {c} ELSE Below(down[n - 1])
    IN  down[Cardinality(DOMAIN categories)]

(* A category, what is under it, and the stores' copies of these.          *)
Under(c) ==
    LET down[n \in Nat] == IF n = 0 THEN {c} ELSE Below(down[n - 1])
        all == down[Cardinality(DOMAIN categories)]
    IN  all \cup {d \in DOMAIN categories : categories[d].owner # Laoji /\ categories[d].template \in all}

ForSale(l) == listings[l].on /\ products[listings[l].product].active
PublicListProducts(c) ==
    {listings[l].product : l \in {l \in DOMAIN listings : ForSale(l) /\ products[listings[l].product].cat \in Under(c)}}

(* aggregateByProduct keeps the price of the row it meets first, and any   *)
(* may come first.                                                         *)
PublicPrices(p) == {listings[l].price : l \in {l \in ListingsOfProducts({p}) : ForSale(l)}}

ProductCount(v, c) ==
    Cardinality({l \in ListingsOf(v) : ShopCategory(v, products[listings[l].product].cat) = c})

ListVendorCategories(v) ==
    {c \in DOMAIN categories :
       \/ categories[c].owner = v
       \/ /\ categories[c].owner = Laoji /\ Copies(v, c) = {}
          /\ ProductCount(v, c) > 0 \/ (IsTemplateFor(v, c) /\ IsLeaf(c))}

ListVendorCatalogProducts(v) ==
    {p \in DOMAIN products : products[p].owner = Laoji /\ products[p].active /\ IsTemplateFor(v, products[p].cat)}

-----------------------------------------------------------------------------

(* A unit is chosen when a product is changed; new ones come in one.      *)
NewUnit == CHOOSE u \in Units : TRUE

VendorCategoryCall(h, v) ==
    \/ \E n \in Names, t \in DOMAIN categories \cup {Null} : CreateVendorCategory(h, v, t, n)
    \/ \E n \in Names, c \in DOMAIN categories : RenameVendorCategory(h, v, c, n)
    \/ \E c \in DOMAIN categories : DeleteVendorCategory(h, v, c)
    \/ \E n \in Names : CreateCategorySuggestion(h, v, n)
    \/ \E n \in Names, c \in DOMAIN categories : CreateProductSuggestion(h, v, c, n, NewUnit)

TermsOf(l) == [k \in {"price", "stock", "on", "eta"} |-> listings[l][k]]
NewTerms == {t \in Terms : t.on /\ ~t.eta /\ t.stock = MaxStock}

VendorProductCall(h, v) ==
    \/ \E p \in ListVendorCatalogProducts(v) \cup {q \in DOMAIN products : products[q].owner = v}, t \in NewTerms :
         \E d \in Details(v, p) : UpsertVendorProduct(h, v, p, d, t)
    \/ \E n \in Names, c \in DOMAIN categories, t \in NewTerms :
         CreateVendorProduct(h, v, c, n, NewUnit, t) \/ CreateVendorCustomProduct(h, v, c, n, NewUnit, t)
    \/ \E l \in ListingsOf(v) :
         \/ \E d \in Details(v, listings[l].product) : UpdateVendorProduct(h, v, l, d, TermsOf(l), <<>>)
         \/ \E t \in Terms : UpdateVendorProduct(h, v, l, AsShown(v, listings[l].product), t, <<>>)
         \/ LET shown == AsShown(v, listings[l].product) IN
            \E sizes \in SizeLists(v, l, shown.unit) : UpdateVendorProduct(h, v, l, shown, TermsOf(l), sizes)
         \/ RestockVendorProduct(h, v, l)
         \/ DeleteVendorProduct(h, v, l)

AdminCategoryCall(h) ==
    \/ \E n \in Names, c \in DOMAIN categories \cup {Null} : CreateCategory(h, n, c)
    \/ \E n \in Names, c \in DOMAIN categories : RenameCategory(h, c, n)
    \/ \E c \in DOMAIN categories, d \in DOMAIN categories \cup {Null} : MoveCategory(h, c, d)
    \/ \E c \in DOMAIN categories : DeleteCategory(h, c)
    \/ \E s \in DOMAIN suggestions :
         \/ ApproveProductSuggestion(h, s) \/ RejectProductSuggestion(h, s) \/ RejectCategorySuggestion(h, s)
         \/ \E n \in Names, c \in DOMAIN categories \cup {Null} : ApproveCategorySuggestion(h, s, n, c)

AdminProductCall(h) ==
    \/ \E n \in Names, c \in DOMAIN categories : CreateProduct(h, c, n, NewUnit)
    \/ \E p \in DOMAIN products :
         \/ \E n \in Names : UpdateProduct(h, p, "name", n)
         \/ \E u \in Units : UpdateProduct(h, p, "unit", u)
         \/ \E c \in DOMAIN categories : OfLaoji(c) /\ UpdateProduct(h, p, "cat", c)
         \/ \E b \in BOOLEAN : UpdateProduct(h, p, "active", b)
         \/ DeleteProduct(h, p)

AdminItemCall(h) ==
    \/ \E v \in Stores, t \in NewTerms :
         \/ \E p \in DOMAIN products : AddStoreItem(h, v, p, t)
         \/ \E n \in Names, c \in DOMAIN categories : AddNewStoreItem(h, v, c, n, NewUnit, t)
    \/ \E l \in DOMAIN listings :
         \/ \E n \in 0..MaxStock : UpdateStoreTerms(h, l, "stock", n)
         \/ \E b \in BOOLEAN : UpdateStoreTerms(h, l, "on", b)
         \/ \E n \in Names : UpdateStoreItem(h, l, "name", n)
         \/ \E u \in Units : UpdateStoreItem(h, l, "unit", u)
         \/ \E c \in DOMAIN categories : UpdateStoreItem(h, l, "cat", c)
         \/ ResizeStoreItem(h, l)
         \/ DeleteStoreItem(h, l)

CatalogNext ==
    \/ \E h \in Editors :
         \/ /\ MayEdit(h)
            /\ \/ \E v \in Callers : VendorCategoryCall(h, v) \/ VendorProductCall(h, v)
               \/ AdminCategoryCall(h) \/ AdminProductCall(h) \/ AdminItemCall(h)
         \/ RunQuery(h) \/ DropOwn(h) \/ SyncSizes(h) \/ LinkOwn(h) \/ Detach(h) \/ MoveOne(h)
                     \/ GiveCopies(h) \/ GiveCopy(h) \/ DeleteListings(h)
         \/ EditCut(h)
    \/ \E l \in DOMAIN listings : Order(l)

CatalogSpec == CatalogInit /\ [][CatalogNext]_catalogVars

-----------------------------------------------------------------------------
Kept(old, new, mine(_)) ==
    \A i \in DOMAIN old : ~mine(old[i]) => i \in DOMAIN new /\ new[i] = old[i]

(* Whatever calls overlap, a store's call leaves Laoji's categories and    *)
(* products and everything of other stores as they were.                   *)
OthersUntouched ==
    [][\A h \in Editors :
         LET v == edit[h].by
             owned(row) == row.owner = v
             listed(row) == row.vendor = v
         IN  v # Laoji /\ edit'[h] # edit[h] =>
               /\ Kept(categories, categories', owned)
               /\ Kept(products, products', owned)
               /\ Kept(listings, listings', listed)]_catalogVars

(* What is for sale is found by customers under one of their categories,   *)
(* and by its store, which can correct it, under one of its own screen.    *)
Found ==
    \A l \in DOMAIN listings :
      /\ ForSale(l) => \E c \in CustomerCategories : listings[l].product \in PublicListProducts(c)
      /\ ShopCategory(listings[l].vendor, products[listings[l].product].cat) \in ListVendorCategories(listings[l].vendor)

(* schema.ts: "The Laoji category a vendor's category was made from (at    *)
(* most one per vendor)".                                                  *)
OneCopyPerTemplate == \A v \in Stores, t \in DOMAIN categories : Cardinality(Copies(v, t)) <= 1

(* catalog.service.ts, aggregateByProduct: "The price is the cheapest      *)
(* vendor that has it in stock (the cheapest overall if none do)".         *)
CheapestShown ==
    \A p \in DOMAIN products :
      LET sold == {l \in ListingsOfProducts({p}) : ForSale(l)}
          stocked == {l \in sold : listings[l].stock > 0}
      IN  \A x \in PublicPrices(p) :
            x = Min({listings[l].price : l \in IF stocked = {} THEN sold ELSE stocked})

(* catalog.service.ts, deleteCategory: "vendor-owned products pointing to  *)
(* these categories move to store's own category copy".                    *)
OwnProductsMove ==
    [][\A h \in Editors :
         edit[h].what = "deleteCategory" /\ edit'[h] # edit[h] =>
           \A p \in DOMAIN products : products[p].owner # Laoji => p \in DOMAIN products']_catalogVars
=============================================================================
