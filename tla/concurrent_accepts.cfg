SPECIFICATION Spec
CONSTANTS
    p1 = p1
    b1 = b1
    t1 = t1
    Products = {p1}
    Trades = {t1, t2, t3}
    ProductOf <- OneProduct
    BuyerOf <- OwnBuyers
    Keys = {k1, k2, k3}
    Callers = {c1, c2}
    Workers = {w1}
    NoCall = NoCall
    NoTrade = NoTrade
    Handlers = {"request", "accept", "reject", "deliver", "confirm", "createOrder", "confirmPayment", "refund", "remove", "hideProduct", "withdraw", "autoConfirm", "expireUnpaid"}
SYMMETRY Anonymous
INVARIANTS
    OneEngagedTrade
\* Trades, keys and periods run out: the market may stop.
CHECK_DEADLOCK FALSE
