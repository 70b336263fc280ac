SPECIFICATION Spec
CONSTANTS
    c1 = c1  c2 = c2  p1 = p1  p2 = p2  k1 = k1  k2 = k2
    r1 = r1  r2 = r2  r3 = r3  r4 = r4  r5 = r5  staff = staff
    Customers = {c1, c2}
    Products = {p1, p2}
    Keys = {k1}
    Requests = {r1, r2, r3}
    Staff = staff
    OrderIds <- TwoOrders
    MaxLine = 1
    MaxItems = 2
    MaxStock = 1
    Deltas <- FewUnits
    Thresholds = {0}
    MaxMovements = 1
SYMMETRY Symmetry
INVARIANTS
    TypeOK
    StockNotOversold
    NoPhantomHold
    LedgerNeverAhead
    OutboxTellsTheOrders
    OneOrderPerKey
    AnswerMatchesCart
PROPERTIES
    KeysAreIdempotent
    StockIsAtomic
    RetryIsAnswered
