SPECIFICATION Spec
CONSTANTS
    c1 = c1  c2 = c2  o1 = o1  o2 = o2  k1 = k1  k2 = k2  x1 = x1  x2 = x2
    r1 = r1  r2 = r2  r3 = r3  r4 = r4
    Customers = {c1}
    Keys = {k1, k2}
    OrderIds = {o1, o2}
    ownerOf <- OneOwner
    References = {x1}
    Requests = {r1, r2, r3, r4}
    MaxCrashes = 1
SYMMETRY Symmetry
INVARIANTS
    TypeOK
    DecisionsStand
    EvidenceIsItsOwn
    OutboxTellsThePayments
    OneKeyPerPayment
PROPERTY
    PaymentKeysAreIdempotent
