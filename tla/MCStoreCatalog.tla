--------------------------- MODULE MCStoreCatalog ---------------------------
(***************************************************************************)
(* Instances of StoreCatalog for TLC, with a history of the behaviour.     *)
(***************************************************************************)
EXTENDS StoreCatalog

CONSTANTS s1, s2, e1, e2

Symmetry == Permutations({e1, e2})

AllGrocery == s1 :> "grocery" @@ s2 :> "grocery"

(* Laoji's root, a category under it with a product both stores list, and *)
(* in it a product of s1's own; s1 also has a category of its own.         *)
SomeCategories ==
    1 :> CategoryRow(Laoji, Null, Null, "grocery", "grocery")
    @@ 2 :> CategoryRow(Laoji, Null, 1, "n1", "none")
    @@ 3 :> CategoryRow(s1, Null, 1, "n2", "grocery")
TwoProducts ==
    4 :> ProductRow(Laoji, 2, "n1", "u1")
    @@ 5 :> ProductRow(s1, 2, "n2", "u1")
ThreeListings ==
    6 :> ListingRow(s1, 4, [price |-> 1, stock |-> 1, on |-> TRUE, eta |-> FALSE])
    @@ 7 :> ListingRow(s2, 4, [price |-> 1, stock |-> 0, on |-> TRUE, eta |-> TRUE])
    @@ 8 :> ListingRow(s1, 5, [price |-> 1, stock |-> 1, on |-> TRUE, eta |-> FALSE])

VARIABLE oneEdit    \* calls did not overlap and none was cut short

catalogHistory == <<catalogVars, oneEdit>>

MCCatalogInit == CatalogInit /\ oneEdit = TRUE
MCCatalogNext ==
    /\ CatalogNext
    /\ oneEdit' = (oneEdit /\ \A h \in Editors :
                   /\ edit'[h] # NoEdit => \A k \in Editors \ {h} : edit'[k] = NoEdit
                   /\ edit[h] # NoEdit => edit'[h] # edit[h]
                   /\ ~(edit[h] # NoEdit /\ edit'[h] = NoEdit /\ LaterQueries(h) # <<>>))
MCCatalogSpec == MCCatalogInit /\ [][MCCatalogNext]_catalogHistory

(* What a store sells is found where it is sold, whatever overlaps; and as *)
(* long as calls do not overlap a store has one copy of a template.        *)
FoundAlways == Found /\ (oneEdit => OneCopyPerTemplate)

(* catalog.service.ts, deleteProduct: "A Laoji product is only a template  *)
(* to the stores that stock it: each keeps selling it as its own copy".    *)
StoresKeepSelling ==
    [][\A h \in Editors :
         edit[h].what = "deleteProduct" /\ edit'[h] # edit[h] /\ oneEdit' =>
           \A l \in DOMAIN listings :
             LET old == products[listings[l].product] IN
             old.owner = Laoji =>
               /\ l \in DOMAIN listings'
               /\ LET new == products'[listings'[l].product] IN
                  <<new.name, new.unit, new.active>> = <<old.name, old.unit, old.active>>]_catalogHistory
=============================================================================
