\* Properties the repository states or suggests and the code does not keep.
\* Each of them fails: keep one at a time to see its shortest counterexample.
SPECIFICATION MCCatalogSpec
CONSTANTS
    s1 = s1
    s2 = s2
    e1 = e1
    e2 = e2
    Editors = {e1, e2}
    Stores = {s1, s2}
    Callers = {s1}
    Laoji = Laoji
    VendorType <- AllGrocery
    Names = {"n1", "n2"}
    Units = {"u1", "u2"}
    Prices = {1, 2}
    FirstCategories <- SomeCategories
    FirstProducts <- TwoProducts
    FirstListings <- ThreeListings
    FirstId = 8
    SizesOn = TRUE
    AdminStrays = FALSE
    MaxStock = 1
    MaxIds = 20
    MaxEdits = 2
SYMMETRY Symmetry
INVARIANTS
    CheapestShown
    OneCopyPerTemplate
PROPERTIES
    OwnProductsMove
CHECK_DEADLOCK FALSE
