SPECIFICATION SerialSpec
CONSTANTS
    p1 = p1
    b1 = b1
    t1 = t1
    Products = {p1}
    Trades = {t1, t2}
    ProductOf <- OneProduct
    BuyerOf <- OwnBuyers
    Keys = {k1, k2, k3, k4}
    Callers = {c1}
    Workers = {w1}
    NoCall = NoCall
    NoTrade = NoTrade
    Handlers = {"request", "accept", "reject", "deliver", "confirm", "dispute", "cancel", "createOrder", "confirmPayment", "cancelPayment", "refund", "setStatus", "remove", "hideProduct", "withdraw", "autoConfirm", "expireUnpaid", "settle"}
SYMMETRY Anonymous
PROPERTIES
    DeletionIsSafe
\* Trades, keys and periods run out: the market may stop.
CHECK_DEADLOCK FALSE
