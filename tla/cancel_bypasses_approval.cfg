SPECIFICATION Spec
CONSTANTS
    p1 = p1
    b1 = b1
    t1 = t1
    Products = {p1}
    Trades = {t1}
    ProductOf <- OneProduct
    BuyerOf <- OwnBuyers
    Keys = {k1, k2}
    Callers = {c1, c2}
    Workers = {w1}
    NoCall = NoCall
    NoTrade = NoTrade
    Handlers = {"request", "accept", "createOrder", "confirmPayment", "cancel"}
SYMMETRY Anonymous
INVARIANTS
    ApprovedIsNotBypassed
\* Trades, keys and periods run out: the market may stop.
CHECK_DEADLOCK FALSE
