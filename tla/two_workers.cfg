SPECIFICATION Spec
CONSTANTS
    p1 = p1
    b1 = b1
    t1 = t1
    Products = {p1}
    Trades = {t1}
    ProductOf <- OneProduct
    BuyerOf <- OwnBuyers
    Keys = {k1, k2, k3}
    Callers = {c1, c2}
    Workers = {w1, w2}
    NoCall = NoCall
    NoTrade = NoTrade
    Handlers = {"request", "accept", "deliver", "confirm", "createOrder", "confirmPayment", "dispute", "refund", "autoConfirm", "settle", "workerCrash"}
SYMMETRY Anonymous
INVARIANTS
    ClaimsAreExclusive
\* Trades, keys and periods run out: the market may stop.
CHECK_DEADLOCK FALSE
