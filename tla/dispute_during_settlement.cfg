SPECIFICATION SerialSpec
CONSTANTS
    p1 = p1
    b1 = b1
    t1 = t1
    Products = {p1}
    Trades = {t1}
    ProductOf <- OneProduct
    BuyerOf <- OwnBuyers
    Keys = {k1, k2, k3}
    Callers = {c1}
    Workers = {w1}
    NoCall = NoCall
    NoTrade = NoTrade
    Handlers = {"request", "accept", "createOrder", "confirmPayment", "deliver", "confirm", "dispute", "settle"}
SYMMETRY Anonymous
PROPERTIES
    DisputeStopsSettlement
\* Trades, keys and periods run out: the market may stop.
CHECK_DEADLOCK FALSE
