SPECIFICATION Spec
CONSTANTS
    r1 = r1  r2 = r2
    Categories <- TwoIds
    Products <- OneId
    Images <- ThreeIds
    MaxDepth = 3
    Guard = 4
    Requests = {r1, r2}
    productOf <- OfOneProduct
SYMMETRY Symmetry
INVARIANT
    TypeOK
PROPERTIES
    TreeStaysATree
    OnePrimaryStays
    HistoryIsKept
CHECK_DEADLOCK FALSE
