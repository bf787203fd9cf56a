\* Properties the repository states or suggests and the code does not keep.
\* Each of them fails: keep one at a time to see its shortest counterexample.
CONSTANTS
    h1 = h1
    h2 = h2
    o1 = o1
    o2 = o2
    r1 = r1
    r2 = r2
    Slots = {h1, h2}
    Orders = {o1, o2}
    Restaurants = {r1, r2}
    FirstStatus <- NewAndDelivered
    Stars = {1, 5}
    MaxCalls = 4
SYMMETRY Symmetry
SPECIFICATION MCSpec
INVARIANTS
    AverageOfAll
    AcceptedByItsRestaurant
    TakenInTurnAlone
    CookedOrdersListed
CHECK_DEADLOCK FALSE
