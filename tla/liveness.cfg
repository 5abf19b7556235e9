SPECIFICATION FairSpec
CONSTANTS
    p1 = p1
    b1 = b1
    t1 = t1
    Products = {p1}
    Trades = {t1}
    ProductOf <- OneProduct
    BuyerOf <- OwnBuyers
    Keys = {k1, k2, k3}
    Callers = {c1}
    Workers = {w1}
    NoCall = NoCall
    NoTrade = NoTrade
    Handlers = {"request", "accept", "reject", "deliver", "confirm", "dispute", "cancel", "createOrder", "confirmPayment", "cancelPayment", "refund", "autoConfirm", "expireUnpaid", "settle"}
PROPERTIES
    DeliveredIsDecided
    ConfirmedIsSettled
    UnpaidIsReleased
\* Trades, keys and periods run out: the market may stop.
CHECK_DEADLOCK FALSE
