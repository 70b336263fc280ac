SPECIFICATION FairSpec
CONSTANTS
    p1 = p1  p2 = p2  t1 = t1  t2 = t2  t3 = t3
    Products = {p1, p2}
    Transactions = {t1, t2, t3}
    MaxStock = 1
    MaxLine = 1
    Deltas = {1}
INVARIANT
    TypeOK
PROPERTIES
    StockIsAtomic
    EveryTransactionEnds
