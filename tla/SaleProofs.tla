----------------------------- MODULE SaleProofs -----------------------------
(***************************************************************************)
(* The sale of a product, for any trades, products, keys and workers: what *)
(* holds as long as calls do not overlap, and what holds although they do. *)
(*                                                                         *)
(* The handlers write by id what they have read before.  With one caller,  *)
(* and jobs that run between its calls, what a call has read is still true *)
(* when it writes, and so every step moves product, trade and payment      *)
(* together, in one of the ten ways of SaleStep.                           *)
(***************************************************************************)
EXTENDS MarketTypeProofs, FiniteSetTheorems

OneCaller == \A c, d \in Callers : c = d

\* Nobody puts a product on sale, or takes it off sale, by hand.  A product that
\* is deleted was in no use, and needs no hypothesis.
NoRelisting == "setStatus" \notin Handlers
NoHiding == {"hideProduct", "withdraw"} \cap Handlers = {}

-----------------------------------------------------------------------------
(* What a call has read, and is still true when it writes.  A withdrawal   *)
(* is no call here, and may hide a product that is being asked for.        *)
Promised(t) == trade[t] \in EngagedStatuses
Unpromised(t) == \A u \in TradesOf(ProductOf[t]) : ~Promised(u)

Requestable(t) ==
    /\ trade[t] = Absent
    /\ product[ProductOf[t]] # "DELETED"
    /\ NoRelisting => Unpromised(t)
    /\ "withdraw" \notin Handlers => product[ProductOf[t]] = "ACTIVE"
    /\ \A u \in TradesOf(ProductOf[t]) :
          BuyerOf[u] = BuyerOf[t] => trade[u] \notin ActiveTradeStatuses

Removable(p) == \A t \in TradesOf(p) : trade[t] \notin ActiveTradeStatuses

TradeFound(call) ==
    LET t == call.trade
    IN  /\ call.op = "request" => Requestable(t)
        /\ call.op \in {"accept", "reject"} => trade[t] = "REQUESTED"
        /\ call.op = "deliver" => trade[t] = "ACCEPTED" /\ payment[t] = "APPROVED"
        /\ call.op = "confirm" => trade[t] = "DELIVERED" /\ payment[t] = "APPROVED"
        /\ call.op = "dispute" =>
              trade[t] = call.saw /\ trade[t] \in {"ACCEPTED", "DELIVERED", "CONFIRMED"}
        /\ call.op = "cancel" =>
              /\ trade[t] = call.saw /\ trade[t] \in {"REQUESTED", "ACCEPTED"}
              /\ payment[t] # "APPROVED" /\ (call.hasOrder <=> payment[t] # Absent)

PaymentFound(call) ==
    LET t == call.trade
    IN  /\ call.op = "confirmPayment" => trade[t] = "ACCEPTED" /\ payment[t] = "READY"
        /\ call.op = "cancelPayment" =>
              trade[t] = call.saw /\ trade[t] = "ACCEPTED" /\ payment[t] = "APPROVED"
        /\ call.op = "refund" =>
              /\ trade[t] = call.saw /\ trade[t] \in {"CONFIRMED", "DISPUTED"}
              /\ payment[t] = "APPROVED"

ProductFound(call) ==
    LET p == call.product
    IN  /\ call.op = "setStatus" => product[p] # "DELETED" /\ call.to \in {"ACTIVE", "HIDDEN"}
        /\ call.op = "remove" => call.to = "DELETED" /\ Removable(p)
        /\ call.op = "hideProduct" => call.to = "HIDDEN"
        /\ call.op # "withdraw"

FoundBy(call) ==
    /\ call.op \in Handlers
    /\ call.op \in TradeHandlers => TradeFound(call)
    /\ call.op \in PaymentHandlers => PaymentFound(call)
    /\ call.op \in ProductHandlers => ProductFound(call)

FoundStillTrue == \A c \in Callers : calls[c] # NoCall => FoundBy(calls[c])

-----------------------------------------------------------------------------
(* The ways in which a step changes product, trade and payment.            *)
rows == <<product, tradeRows, payment>>

Requested(t) ==
    Requestable(t) /\ MoveTrade(t, Absent, "REQUESTED") /\ UNCHANGED <<product, payment>>

Accepted(t) ==
    /\ trade[t] = "REQUESTED" /\ product[ProductOf[t]] = "ACTIVE"
    /\ product' = [product EXCEPT ![ProductOf[t]] = "RESERVED"]
    /\ trade' = [u \in Trades |-> IF u = t THEN "ACCEPTED"
                                  ELSE IF u \in Competing(t) THEN "REJECTED" ELSE trade[u]]
    /\ history' = [u \in Trades |->
          IF u \in {t} \cup Competing(t)
            THEN Append(history[u], [from |-> "REQUESTED", to |-> trade'[u]])
            ELSE history[u]]
    /\ UNCHANGED payment

\* The payment of t is not open or approved afterwards.
Closes(t) ==
    /\ payment'[t] \notin {"READY", "APPROVED"}
    /\ \A u \in Trades \ {t} : payment'[u] = payment[u]

Refused(t) ==
    /\ trade[t] = "REQUESTED"
    /\ \E to \in {"REJECTED", "CANCELLED"} : MoveTrade(t, "REQUESTED", to)
    /\ UNCHANGED payment \/ Closes(t)
    /\ UNCHANGED product

Released(t) ==
    /\ trade[t] = "ACCEPTED" /\ MoveTrade(t, "ACCEPTED", "CANCELLED")
    /\ Closes(t)
    /\ \/ product' = [product EXCEPT ![ProductOf[t]] = "ACTIVE"]
       \/ product[ProductOf[t]] # "RESERVED" /\ UNCHANGED product

Delivered(t) ==
    /\ trade[t] = "ACCEPTED" /\ MoveTrade(t, "ACCEPTED", "DELIVERED")
    /\ payment[t] = "APPROVED"
    /\ UNCHANGED <<product, payment>>

Confirmed(t) ==
    /\ trade[t] = "DELIVERED" /\ MoveTrade(t, "DELIVERED", "CONFIRMED")
    /\ product' = [product EXCEPT ![ProductOf[t]] = "SOLD"]
    /\ UNCHANGED payment

Disputed(t) ==
    /\ trade[t] \in {"ACCEPTED", "DELIVERED", "CONFIRMED"}
    /\ MoveTrade(t, trade[t], "DISPUTED")
    /\ UNCHANGED payment \/ Closes(t)
    /\ UNCHANGED product

Paid(t) ==
    /\ \/ trade[t] = "ACCEPTED" /\ payment' = [payment EXCEPT ![t] = payment'[t]]
       \/ trade[t] = "DISPUTED" /\ Closes(t)
    /\ UNCHANGED <<product, tradeRows>>

Offered ==
    /\ \A p \in Products : product'[p] # product[p] =>
          \/ product'[p] = "HIDDEN" /\ ~(NoRelisting /\ NoHiding)
          \/ product[p] # "DELETED" /\ product'[p] = "ACTIVE" /\ ~NoRelisting
          \/ product'[p] = "DELETED" /\ Removable(p)
    /\ UNCHANGED <<tradeRows, payment>>

TradeMoves(t) ==
    \/ Requested(t) \/ Accepted(t) \/ Refused(t) \/ Released(t) \/ Delivered(t)
    \/ Confirmed(t) \/ Disputed(t) \/ Paid(t)

SaleStep == UNCHANGED rows \/ Offered \/ \E t \in Trades : TradeMoves(t)

-----------------------------------------------------------------------------
(* What is reserved or sold is promised to one trade; the parts only hold  *)
(* together.                                                               *)
OnePromise ==
    /\ \A t \in Trades : Promised(t) => product[ProductOf[t]] # "ACTIVE"
    /\ \A t, u \in Trades : Promised(t) /\ Promised(u) /\ ProductOf[t] = ProductOf[u] => t = u

PromisedTo(p, t) ==
    /\ ProductOf[t] = p
    /\ product[p] = "RESERVED" => trade[t] \in {"ACCEPTED", "DELIVERED", "DISPUTED"}
    /\ product[p] = "SOLD" => trade[t] \in {"CONFIRMED", "DISPUTED"}

PromisesStand ==
    \A p \in Products :
        product[p] \in {"RESERVED", "SOLD"} => \E t \in Trades : PromisedTo(p, t)

RequestsUnpromised == \A t \in Trades : trade[t] = "REQUESTED" => Unpromised(t)

SaleInv ==
    /\ OnePromise /\ PromisesStand /\ RequestsUnpromised /\ OneActiveTradePerBuyer
    /\ NoHiding => RequestsStayAcceptable

\* All of it is one induction: that a product which was ACTIVE is promised to
\* nobody is part of what a request has found.
SerialPart == TypeOK /\ FoundStillTrue /\ (NoRelisting => SaleInv)

LEMMA CallFound ==
    ASSUME SerialPart, NEW c \in Callers, calls[c] # NoCall
    PROVE  /\ calls[c].op \in Handlers
           /\ calls[c].op \in TradeHandlers => TradeFound(calls[c]) /\ calls[c] \in TradeCall
           /\ calls[c].op \in PaymentHandlers => PaymentFound(calls[c]) /\ calls[c] \in PaymentCall
           /\ calls[c].op \in ProductHandlers => ProductFound(calls[c]) /\ calls[c] \in ProductCall
BY TradeCallTyped, PaymentCallTyped, ProductCallTyped DEF SerialPart, FoundStillTrue, FoundBy

LEMMA TradeServiceSells ==
    ASSUME SerialPart, TradeServiceNext
    PROVE  SaleStep
<1>1. ASSUME NEW c \in Callers, NEW t \in Trades,
             \/ ReadRequest(c, t) \/ ReadAccept(c, t) \/ ReadReject(c, t)
             \/ ReadDeliver(c, t) \/ ReadConfirm(c, t) \/ ReadDispute(c, t)
             \/ ReadCancel(c, t)
      PROVE  SaleStep
  BY <1>1 DEF ReadRequest, ReadAccept, ReadReject, ReadDeliver, ReadConfirm, ReadDispute,
              ReadCancel, Begin, SaleStep, rows, database, tradeRows, paymentRows
<1>2. ASSUME NEW c \in Callers, CreateTrade(c)
      PROVE  \E t \in Trades : TradeMoves(t)
  <2>1. Requestable(calls[c].trade) /\ calls[c].trade \in Trades
    BY <1>2, CallFound DEF CreateTrade, Serving, TradeHandlers, TradeFound, TradeCall
  <2>2. Requested(calls[c].trade)
    BY <1>2, <2>1 DEF CreateTrade, Requested, paymentRows
  <2> QED BY <2>1, <2>2 DEF TradeMoves
<1>3. ASSUME NEW c \in Callers, Accept(c)
      PROVE  \E t \in Trades : TradeMoves(t)
  <2>1. trade[calls[c].trade] = "REQUESTED" /\ calls[c].trade \in Trades
    BY <1>3, CallFound DEF Accept, Serving, TradeHandlers, TradeFound, TradeCall
  <2>2. Accepted(calls[c].trade)
    BY <1>3, <2>1 DEF Accept, Accepted, StillActive, paymentRows
  <2> QED BY <2>1, <2>2 DEF TradeMoves
<1>4. ASSUME NEW c \in Callers, RefuseAccept(c)
      PROVE  SaleStep
  BY <1>4 DEF RefuseAccept, Refuse, SaleStep, rows, database, tradeRows, paymentRows
<1>5. ASSUME NEW c \in Callers, Reject(c)
      PROVE  \E t \in Trades : TradeMoves(t)
  <2>1. trade[calls[c].trade] = "REQUESTED" /\ calls[c].trade \in Trades
    BY <1>5, CallFound DEF Reject, Serving, TradeHandlers, TradeFound, TradeCall
  <2>2. Refused(calls[c].trade)
    BY <1>5, <2>1 DEF Reject, Refused, paymentRows
  <2> QED BY <2>1, <2>2 DEF TradeMoves
<1>6. ASSUME NEW c \in Callers, Deliver(c)
      PROVE  \E t \in Trades : TradeMoves(t)
  <2>1. /\ trade[calls[c].trade] = "ACCEPTED" /\ payment[calls[c].trade] = "APPROVED"
        /\ calls[c].trade \in Trades
    BY <1>6, CallFound DEF Deliver, Serving, TradeHandlers, TradeFound, TradeCall
  <2>2. Delivered(calls[c].trade)
    BY <1>6, <2>1 DEF Deliver, Delivered, paymentRows
  <2> QED BY <2>1, <2>2 DEF TradeMoves
<1>7. ASSUME NEW c \in Callers, Confirm(c)
      PROVE  \E t \in Trades : TradeMoves(t)
  <2>1. trade[calls[c].trade] = "DELIVERED" /\ calls[c].trade \in Trades
    BY <1>7, CallFound DEF Confirm, Serving, TradeHandlers, TradeFound, TradeCall
  <2>2. Confirmed(calls[c].trade)
    BY <1>7, <2>1 DEF Confirm, Confirmed
  <2> QED BY <2>1, <2>2 DEF TradeMoves
<1>8. ASSUME NEW c \in Callers, Dispute(c)
      PROVE  \E t \in Trades : TradeMoves(t)
  <2>1. /\ trade[calls[c].trade] \in {"ACCEPTED", "DELIVERED", "CONFIRMED"}
        /\ trade[calls[c].trade] = calls[c].saw /\ calls[c].trade \in Trades
    BY <1>8, CallFound DEF Dispute, Serving, TradeHandlers, TradeFound, TradeCall
  <2>2. Disputed(calls[c].trade)
    BY <1>8, <2>1 DEF Dispute, Disputed
  <2> QED BY <2>1, <2>2 DEF TradeMoves
<1>9. ASSUME NEW c \in Callers, Cancel(c)
      PROVE  \E t \in Trades : TradeMoves(t)
  <2> DEFINE t == calls[c].trade
  <2>1. /\ trade[t] \in {"REQUESTED", "ACCEPTED"} /\ trade[t] = calls[c].saw
        /\ payment[t] # "APPROVED" /\ (calls[c].hasOrder <=> payment[t] # Absent)
        /\ t \in Trades
    BY <1>9, CallFound DEF Cancel, Serving, TradeHandlers, TradeFound, TradeCall
  <2>2. Closes(t)
    BY <1>9, <2>1 DEF Cancel, CloseOrder, OpenOrder, Closes, TypeOK, SerialPart, Absent
  <2>3. CASE trade[t] = "REQUESTED"
    <3>1. Refused(t)
      BY <1>9, <2>1, <2>2, <2>3 DEF Cancel, Refused
    <3> QED BY <2>1, <3>1 DEF TradeMoves
  <2>4. CASE trade[t] = "ACCEPTED"
    <3>1. MoveTrade(t, "ACCEPTED", "CANCELLED") /\ Unreserve(ProductOf[t])
      BY <1>9, <2>1, <2>4 DEF Cancel
    <3>2. \/ product' = [product EXCEPT ![ProductOf[t]] = "ACTIVE"]
          \/ product[ProductOf[t]] # "RESERVED" /\ UNCHANGED product
      BY <3>1, <2>1, MarketAssumption DEF Unreserve, TypeOK, SerialPart
    <3>3. Released(t)
      BY <2>2, <2>4, <3>1, <3>2 DEF Released
    <3> QED BY <2>1, <3>3 DEF TradeMoves
  <2> QED BY <2>1, <2>3, <2>4
<1> QED
  BY <1>1, <1>2, <1>3, <1>4, <1>5, <1>6, <1>7, <1>8, <1>9 DEF TradeServiceNext, SaleStep

LEMMA PaymentServiceSells ==
    ASSUME SerialPart, PaymentServiceNext
    PROVE  SaleStep
<1>1. ASSUME NEW c \in Callers, NEW t \in Trades, NEW k \in Keys,
             \/ ReadConfirmPayment(c, t, k) \/ ReadCancelPayment(c, t, k)
             \/ ReadRefund(c, t, k)
      PROVE  SaleStep
  BY <1>1 DEF ReadConfirmPayment, ReadCancelPayment, ReadRefund, Begin, SaleStep, rows,
              database, tradeRows, paymentRows
<1>2. ASSUME NEW c \in Callers, NEW t \in Trades, NEW k \in Keys, CreateOrder(c, t, k)
      PROVE  \E u \in Trades : TradeMoves(u)
  <2>1. Paid(t)
    BY <1>2 DEF CreateOrder, Paid, tradeRows, TypeOK, SerialPart
  <2> QED BY <2>1 DEF TradeMoves
<1>3. ASSUME NEW c \in Callers,
             \/ ProviderConfirms(c) \/ ProviderReverses(c)
             \/ RefuseConfirmPayment(c) \/ RefuseReversal(c)
      PROVE  SaleStep
  BY <1>3 DEF ProviderConfirms, ProviderReverses, RefuseConfirmPayment, RefuseReversal,
              Refuse, SaleStep, rows, database, tradeRows, paymentRows
<1>4. ASSUME NEW c \in Callers, ConfirmPayment(c)
      PROVE  \E t \in Trades : TradeMoves(t)
  <2>1. trade[calls[c].trade] = "ACCEPTED" /\ calls[c].trade \in Trades
    BY <1>4, CallFound
    DEF ConfirmPayment, Answered, Serving, PaymentHandlers, PaymentFound, PaymentCall
  <2>2. Paid(calls[c].trade)
    BY <1>4, <2>1 DEF ConfirmPayment, Paid, tradeRows, TypeOK, SerialPart
  <2> QED BY <2>1, <2>2 DEF TradeMoves
<1>5. ASSUME NEW c \in Callers, CancelPayment(c)
      PROVE  \E t \in Trades : TradeMoves(t)
  <2>1. /\ trade[calls[c].trade] = "ACCEPTED" /\ trade[calls[c].trade] = calls[c].saw
        /\ calls[c].trade \in Trades
    BY <1>5, CallFound
    DEF CancelPayment, Answered, Serving, PaymentHandlers, PaymentFound, PaymentCall
  <2>2. Closes(calls[c].trade)
    BY <1>5, <2>1 DEF CancelPayment, Closes, TypeOK, SerialPart
  <2>3. Released(calls[c].trade)
    BY <1>5, <2>1, <2>2 DEF CancelPayment, Released
  <2> QED BY <2>1, <2>3 DEF TradeMoves
<1>6. ASSUME NEW c \in Callers, Refund(c)
      PROVE  \E t \in Trades : TradeMoves(t)
  <2>1. /\ trade[calls[c].trade] \in {"CONFIRMED", "DISPUTED"}
        /\ trade[calls[c].trade] = calls[c].saw /\ calls[c].trade \in Trades
    BY <1>6, CallFound
    DEF Refund, Answered, Serving, PaymentHandlers, PaymentFound, PaymentCall
  <2>2. Closes(calls[c].trade)
    BY <1>6, <2>1 DEF Refund, Closes, TypeOK, SerialPart
  <2>3. Disputed(calls[c].trade) \/ Paid(calls[c].trade)
    BY <1>6, <2>1, <2>2 DEF Refund, Disputed, Paid, tradeRows
  <2> QED BY <2>1, <2>3 DEF TradeMoves
<1> QED
  BY <1>1, <1>2, <1>3, <1>4, <1>5, <1>6 DEF PaymentServiceNext, SaleStep

LEMMA MoveFrom ==
    ASSUME NEW t \in Trades, NEW u \in Trades, NEW from, NEW to, SerialPart,
           MoveTrade(t, from, to)
    PROVE  trade'[u] = IF u = t THEN to ELSE trade[u]
BY DEF MoveTrade, SerialPart, TypeOK

LEMMA NextSells ==
    ASSUME SerialPart, [SerialNext]_vars
    PROVE  SaleStep
<1>1. CASE TradeServiceNext
  BY <1>1, TradeServiceSells
<1>2. CASE PaymentServiceNext
  BY <1>2, PaymentServiceSells
<1>3. ASSUME NEW c \in Callers, NEW p \in Products, NEW op, NEW to, Begin(c, ProductCallOf(op, p, to))
      PROVE  SaleStep
  BY <1>3 DEF Begin, SaleStep, rows, database, tradeRows, paymentRows
<1>4. ASSUME NEW c \in Callers, UpdateProduct(c)
      PROVE  Offered
  <2>1. /\ ProductFound(calls[c]) /\ calls[c].op \in Handlers \cap ProductHandlers
        /\ calls[c].product \in Products
    BY <1>4, CallFound DEF UpdateProduct, ProductCall
  <2>2. \A p \in Products : product'[p] = IF p = calls[c].product THEN calls[c].to ELSE product[p]
    BY <1>4, <2>1 DEF UpdateProduct, SerialPart, TypeOK
  <2>3. \/ calls[c].to = "HIDDEN" /\ ~(NoRelisting /\ NoHiding)
        \/ product[calls[c].product] # "DELETED" /\ calls[c].to = "ACTIVE" /\ ~NoRelisting
        \/ calls[c].to = "DELETED" /\ Removable(calls[c].product)
    BY <2>1 DEF ProductFound, ProductHandlers, NoRelisting, NoHiding
  <2> QED BY <1>4, <2>1, <2>2, <2>3 DEF Offered, UpdateProduct, paymentRows
<1>5. ASSUME NEW author \in SUBSET Products, HideProductsOf(author)
      PROVE  Offered
  BY <1>5 DEF HideProductsOf, Offered, NoHiding, paymentRows
<1>6. ASSUME NEW t \in Trades, AutoConfirm(t)
      PROVE  TradeMoves(t)
  BY <1>6 DEF AutoConfirm, DueForConfirm, TradeMoves, Confirmed
<1>7. ASSUME NEW t \in Trades, ExpireUnpaid(t)
      PROVE  TradeMoves(t)
  <2>1. Closes(t)
    BY <1>7 DEF ExpireUnpaid, DueForExpiry, paymentRows, Closes, Absent
  <2>2. \/ product' = [product EXCEPT ![ProductOf[t]] = "ACTIVE"]
        \/ product[ProductOf[t]] # "RESERVED" /\ UNCHANGED product
    BY <1>7, MarketAssumption DEF ExpireUnpaid, Unreserve, TypeOK, SerialPart
  <2> QED BY <1>7, <2>1, <2>2 DEF ExpireUnpaid, DueForExpiry, Released, TradeMoves
<1>8. ASSUME NEW w \in Workers, SettlementStep(w) \/ WorkerCrash(w)
      PROVE  SaleStep
  BY <1>8 DEF SettlementStep, WorkerCrash, ReleaseHolds, FindDue, Claim, SkipClaim, PayoutSucceeds,
              PayoutFails, SettlePayment, FailSettlement, EndJob, SaleStep, rows, database,
              tradeRows, paymentRows
<1>9. ASSUME NEW c \in Callers, CallLost(c)
      PROVE  SaleStep
  BY <1>9 DEF CallLost, Refuse, SaleStep, rows, database, tradeRows, paymentRows
<1>10. ASSUME NEW t \in Trades, NEW x \in Period, PeriodEnds(t, x)
       PROVE  SaleStep
  BY <1>10 DEF PeriodEnds, SaleStep, rows, tradeRows, paymentRows
<1>11. CASE UNCHANGED vars
  BY <1>11 DEF vars, database, tradeRows, paymentRows, SaleStep, rows
<1> QED
  BY <1>1, <1>2, <1>3, <1>4, <1>5, <1>6, <1>7, <1>8, <1>9, <1>10, <1>11
  DEF SerialNext, ProductServiceNext, ReadSetStatus, ReadRemove, ReadHideProduct,
      MaintenanceNext, SaleStep

-----------------------------------------------------------------------------
(* What a call has read stays true: nothing else writes while it runs, but *)
(* a withdrawal, which only hides what was ACTIVE.                         *)
LEMMA SameRowsFound ==
    ASSUME UNCHANGED rows, NEW call, FoundBy(call)
    PROVE  FoundBy(call)'
BY DEF FoundBy, TradeFound, PaymentFound, ProductFound, Requestable, Unpromised, Promised, Removable,
       rows, tradeRows, TradesOf

LEMMA BeginFound ==
    ASSUME SerialPart, NEW c \in Callers, NEW call, Begin(c, call),
           FoundBy(call)
    PROVE  FoundStillTrue'
<1>1. UNCHANGED rows
  BY DEF Begin, rows, database, paymentRows
<1>2. \A d \in Callers : calls'[d] # NoCall => calls'[d] = call \/ (calls'[d] = calls[d])
  BY DEF Begin, SerialPart, TypeOK
<1>3. FoundBy(call)'
  BY <1>1, SameRowsFound
<1>4. ASSUME NEW d \in Callers, calls[d] # NoCall, calls'[d] = calls[d]
      PROVE  FoundBy(calls[d])'
  <2>1. PICK other : other = calls[d]
    OBVIOUS
  <2>2. FoundBy(other)
    BY <1>4, <2>1 DEF SerialPart, FoundStillTrue
  <2>3. FoundBy(other)'
    BY <1>1, <2>2, SameRowsFound
  <2>4. other = calls'[d]
    BY <1>4, <2>1
  <2> QED BY <2>3, <2>4
<1> QED BY <1>2, <1>3, <1>4 DEF FoundStillTrue

LEMMA AnswerFound ==
    ASSUME OneCaller, SerialPart, NEW c \in Callers, Answer(c)
    PROVE  FoundStillTrue'
BY DEF OneCaller, SerialPart, TypeOK, Answer, FoundStillTrue

LEMMA NoCallFound ==
    ASSUME OneCaller, NEW c \in Callers, calls[c] = NoCall, UNCHANGED calls
    PROVE  FoundStillTrue'
BY DEF OneCaller, FoundStillTrue

LEMMA RequestableThen ==
    ASSUME SerialPart, NEW t \in Trades, trade[t] = Absent, product[ProductOf[t]] = "ACTIVE",
           \A u \in TradesOf(ProductOf[t]) :
              BuyerOf[u] = BuyerOf[t] => trade[u] \notin ActiveTradeStatuses
    PROVE  Requestable(t)
<1>1. ASSUME NoRelisting
      PROVE  Unpromised(t)
  BY <1>1 DEF SerialPart, SaleInv, OnePromise, Unpromised, TradesOf
<1> QED BY <1>1 DEF Requestable

LEMMA NextFound ==
    ASSUME OneCaller, SerialPart, [SerialNext]_vars
    PROVE  FoundStillTrue'
<1>1. ASSUME NEW c \in Callers, NEW t \in Trades,
             \/ ReadRequest(c, t) \/ ReadAccept(c, t) \/ ReadReject(c, t)
             \/ ReadDeliver(c, t) \/ ReadConfirm(c, t) \/ ReadDispute(c, t)
             \/ ReadCancel(c, t)
      PROVE  FoundStillTrue'
  <2>1. PICK op \in TradeHandlers :
          /\ Begin(c, TradeCallOf(op, t))
          /\ \/ op = "request" /\ ReadRequest(c, t)
             \/ op = "accept" /\ ReadAccept(c, t)
             \/ op = "reject" /\ ReadReject(c, t)
             \/ op = "deliver" /\ ReadDeliver(c, t)
             \/ op = "confirm" /\ ReadConfirm(c, t)
             \/ op = "dispute" /\ ReadDispute(c, t)
             \/ op = "cancel" /\ ReadCancel(c, t)
    BY <1>1 DEF ReadRequest, ReadAccept, ReadReject, ReadDeliver, ReadConfirm,
                ReadDispute, ReadCancel, TradeHandlers
  <2>2. PICK call : call = TradeCallOf(op, t)
    OBVIOUS
  <2>3. /\ call.op = op /\ call.trade = t /\ call.saw = trade[t]
        /\ call.hasOrder = (payment[t] # Absent)
    BY <2>2 DEF TradeCallOf
  <2>4. op = "request" => Requestable(t)
    BY <2>1, RequestableThen DEF ReadRequest
  <2>5. TradeFound(call)
    BY <2>1, <2>3, <2>4
    DEF TradeFound, ReadAccept, ReadReject, ReadDeliver, ReadConfirm, ReadDispute, ReadCancel
  <2>6. FoundBy(call)
    BY <2>1, <2>2, <2>3, <2>5 DEF FoundBy, Begin, TradeHandlers, PaymentHandlers, ProductHandlers
  <2> QED BY <2>1, <2>2, <2>6, BeginFound
<1>2. ASSUME NEW c \in Callers,
             \/ CreateTrade(c) \/ Accept(c) \/ RefuseAccept(c) \/ Reject(c) \/ Deliver(c)
             \/ Confirm(c) \/ Dispute(c) \/ Cancel(c)
             \/ ConfirmPayment(c) \/ RefuseConfirmPayment(c)
             \/ CancelPayment(c) \/ Refund(c) \/ RefuseReversal(c)
             \/ UpdateProduct(c) \/ CallLost(c)
      PROVE  FoundStillTrue'
  <2>1. Answer(c)
    BY <1>2 DEF CreateTrade, Accept, RefuseAccept, Reject, Deliver, Confirm, Dispute, Cancel,
                ConfirmPayment, RefuseConfirmPayment, CancelPayment, Refund, RefuseReversal,
                UpdateProduct, CallLost, Refuse
  <2> QED BY <2>1, AnswerFound
<1>3. ASSUME NEW c \in Callers, NEW t \in Trades, NEW k \in Keys,
             \/ ReadConfirmPayment(c, t, k) \/ ReadCancelPayment(c, t, k)
             \/ ReadRefund(c, t, k)
      PROVE  FoundStillTrue'
  <2>1. PICK op \in PaymentHandlers :
          /\ Begin(c, PaymentCallOf(op, t, k))
          /\ \/ op = "confirmPayment" /\ ReadConfirmPayment(c, t, k)
             \/ op = "cancelPayment" /\ ReadCancelPayment(c, t, k)
             \/ op = "refund" /\ ReadRefund(c, t, k)
    BY <1>3 DEF ReadConfirmPayment, ReadCancelPayment, ReadRefund, PaymentHandlers
  <2>2. PICK call : call = PaymentCallOf(op, t, k)
    OBVIOUS
  <2>3. call.op = op /\ call.trade = t /\ call.saw = trade[t]
    BY <2>2 DEF PaymentCallOf
  <2>4. PaymentFound(call)
    BY <2>1, <2>3 DEF PaymentFound, ReadConfirmPayment, ReadCancelPayment, ReadRefund
  <2>5. FoundBy(call)
    BY <2>1, <2>2, <2>3, <2>4 DEF FoundBy, Begin, TradeHandlers, PaymentHandlers, ProductHandlers
  <2> QED BY <2>1, <2>2, <2>5, BeginFound
<1>4. ASSUME NEW c \in Callers, NEW p \in Products,
             \/ \E to \in {"ACTIVE", "HIDDEN"} : ReadSetStatus(c, p, to)
             \/ ReadRemove(c, p) \/ ReadHideProduct(c, p)
      PROVE  FoundStillTrue'
  <2>1. PICK op \in ProductHandlers, to \in ProductStatus :
          /\ Begin(c, ProductCallOf(op, p, to))
          /\ \/ op = "setStatus" /\ to \in {"ACTIVE", "HIDDEN"} /\ product[p] # "DELETED"
             \/ op = "remove" /\ to = "DELETED" /\ Removable(p)
             \/ op = "hideProduct" /\ to = "HIDDEN"
    BY <1>4 DEF ReadSetStatus, ReadRemove, ReadHideProduct, ProductHandlers, ProductStatus,
                Removable, LockingTradeStatuses, ActiveTradeStatuses
  <2>2. PICK call : call = ProductCallOf(op, p, to)
    OBVIOUS
  <2>3. call.op = op /\ call.product = p /\ call.to = to
    BY <2>2 DEF ProductCallOf
  <2>4. ProductFound(call)
    BY <2>1, <2>3 DEF ProductFound
  <2>5. FoundBy(call)
    BY <2>1, <2>2, <2>3, <2>4 DEF FoundBy, Begin, TradeHandlers, PaymentHandlers, ProductHandlers
  <2> QED BY <2>1, <2>2, <2>5, BeginFound
<1>5. ASSUME NEW c \in Callers, NEW t \in Trades, NEW k \in Keys, CreateOrder(c, t, k)
      PROVE  FoundStillTrue'
  BY <1>5, NoCallFound DEF CreateOrder
<1>6. ASSUME NEW c \in Callers, ProviderConfirms(c) \/ ProviderReverses(c)
      PROVE  FoundStillTrue'
  <2>1. PICK call : call = calls[c]
    OBVIOUS
  <2>2. call \in PaymentCall /\ call # NoCall
    BY <1>6, <2>1, PaymentCallTyped DEF ProviderConfirms, ProviderReverses, Unanswered, Serving,
                                        PaymentHandlers, SerialPart
  <2>3. PICK answered : answered = [call EXCEPT !.answered = TRUE]
    OBVIOUS
  <2>4. answered.op = call.op /\ answered.trade = call.trade /\ answered.saw = call.saw
    BY <2>2, <2>3 DEF PaymentCall
  <2>5. FoundBy(call) /\ call.op \in PaymentHandlers
    BY <2>1, <2>2 DEF SerialPart, FoundStillTrue, PaymentCall
  <2>6. FoundBy(answered)
    BY <2>4, <2>5 DEF FoundBy, PaymentFound, TradeHandlers, PaymentHandlers, ProductHandlers
  <2>7. FoundBy(answered)'
    BY <1>6, <2>6, SameRowsFound DEF ProviderConfirms, ProviderReverses, rows, database, paymentRows
  <2>8. \A d \in Callers : calls'[d] = answered
    BY <1>6, <2>1, <2>3 DEF ProviderConfirms, ProviderReverses, SerialPart, TypeOK, OneCaller
  <2> QED BY <2>7, <2>8 DEF FoundStillTrue
<1>7. ASSUME NEW author \in SUBSET Products, HideProductsOf(author)
      PROVE  FoundStillTrue'
  <2>1. "withdraw" \in Handlers /\ UNCHANGED <<trade, payment, calls>>
    BY <1>7 DEF HideProductsOf, tradeRows, paymentRows
  <2>2. \A p \in Products : product[p] # "DELETED" => product'[p] # "DELETED"
    BY <1>7 DEF HideProductsOf
  <2>3. ASSUME NEW c \in Callers, calls[c] # NoCall
        PROVE  FoundBy(calls[c])'
    <3>1. PICK call : call = calls[c]
      OBVIOUS
    <3>2. FoundBy(call) /\ call \in Call
      BY <2>3, <3>1 DEF SerialPart, FoundStillTrue, TypeOK
    <3>3. ASSUME NEW t \in Trades, Requestable(t)
          PROVE  Requestable(t)'
      BY <2>1, <2>2, <3>3, MarketAssumption DEF Requestable, Unpromised, Promised, TradesOf
    <3>4. call.op \in TradeHandlers => TradeFound(call)'
      <4>1. call.op \in TradeHandlers => call.trade \in Trades
        BY <2>3, <3>1, TradeCallTyped DEF TradeCall, SerialPart
      <4> QED BY <2>1, <3>2, <3>3, <4>1 DEF FoundBy, TradeFound
    <3>5. call.op \in PaymentHandlers => PaymentFound(call)'
      BY <2>1, <3>2 DEF FoundBy, PaymentFound
    <3>6. call.op \in ProductHandlers => ProductFound(call)'
      <4>1. call.op \in ProductHandlers => call.product \in Products
        BY <2>3, <3>1, ProductCallTyped DEF ProductCall, SerialPart
      <4> QED BY <2>1, <2>2, <3>2, <4>1 DEF FoundBy, ProductFound, Removable, TradesOf
    <3>7. FoundBy(call)'
      BY <3>2, <3>4, <3>5, <3>6 DEF FoundBy
    <3>8. call = calls'[c]
      BY <2>1, <3>1
    <3> QED BY <3>7, <3>8
  <2> QED BY <2>1, <2>3 DEF FoundStillTrue
<1>8. ASSUME NoCallInFlight, MaintenanceNext \/ \E t \in Trades, x \in Period : PeriodEnds(t, x)
      PROVE  FoundStillTrue'
  <2>1. UNCHANGED calls
    BY <1>8 DEF MaintenanceNext, SettlementStep, WorkerCrash, ReleaseHolds, FindDue, Claim,
                SkipClaim, PayoutSucceeds, PayoutFails, SettlePayment, FailSettlement, EndJob,
                AutoConfirm, ExpireUnpaid, PeriodEnds
  <2> QED BY <1>8, <2>1 DEF NoCallInFlight, FoundStillTrue
<1>9. CASE UNCHANGED vars
  <2>1. UNCHANGED rows /\ UNCHANGED calls
    BY <1>9 DEF vars, database, paymentRows, rows
  <2>2. ASSUME NEW c \in Callers, calls'[c] # NoCall
        PROVE  FoundBy(calls[c])'
    <3>1. PICK call : call = calls[c]
      OBVIOUS
    <3>2. FoundBy(call)'
      BY <2>1, <2>2, <3>1, SameRowsFound DEF SerialPart, FoundStillTrue
    <3>3. call = calls'[c]
      BY <2>1, <3>1
    <3> QED BY <3>2, <3>3
  <2> QED BY <2>2 DEF FoundStillTrue
<1> QED
  BY <1>1, <1>2, <1>3, <1>4, <1>5, <1>6, <1>7, <1>8, <1>9
  DEF SerialNext, TradeServiceNext, PaymentServiceNext, ProductServiceNext

LEMMA SerialIsNext == ASSUME [SerialNext]_vars PROVE [Next]_vars
BY DEF SerialNext, Next

-----------------------------------------------------------------------------
(* Each way of moving the rows keeps the promises.                         *)
LEMMA ReservationFollows ==
    ASSUME OnePromise, PromisesStand
    PROVE  ReservationMatchesTrade
<1>1. ASSUME NEW p \in Products, product[p] = "ACTIVE"
      PROVE  Engaged(p) = {}
  BY <1>1 DEF OnePromise, Promised, Engaged, TradesOf
<1>2. ASSUME NEW p \in Products, product[p] \in {"RESERVED", "SOLD"}
      PROVE  \E t \in Trades : Engaged(p) = {t} /\ PromisedTo(p, t)
  <2>1. PICK t \in Trades : PromisedTo(p, t)
    BY <1>2 DEF PromisesStand
  <2>2. t \in Engaged(p)
    BY <1>2, <2>1 DEF PromisedTo, Engaged, TradesOf, EngagedStatuses
  <2>3. Engaged(p) = {t}
    BY <2>2 DEF OnePromise, Promised, Engaged, TradesOf
  <2> QED BY <2>1, <2>3
<1> QED BY <1>1, <1>2 DEF ReservationMatchesTrade, PromisedTo

LEMMA MovePromises ==
    ASSUME SerialPart, SaleInv, NEW t \in Trades, TradeMoves(t)
    PROVE  OnePromise' /\ PromisesStand'
<1> USE MarketAssumption
<1> DEFINE p == ProductOf[t]
<1>1. ASSUME NEW from, NEW to, MoveTrade(t, from, to)
      PROVE  \A u \in Trades : trade'[u] = IF u = t THEN to ELSE trade[u]
  BY <1>1, MoveFrom
<1>2. CASE Requested(t)
  <2>1. \A u \in Trades : trade'[u] = IF u = t THEN "REQUESTED" ELSE trade[u]
    BY <1>1, <1>2 DEF Requested
  <2>2. trade[t] = Absent /\ UNCHANGED product
    BY <1>2 DEF Requested, Requestable
  <2>3. OnePromise'
    BY <2>1, <2>2 DEF SaleInv, OnePromise, Promised, EngagedStatuses
  <2>4. PromisesStand'
    BY <2>1, <2>2 DEF SaleInv, PromisesStand, PromisedTo, Absent
  <2> QED BY <2>3, <2>4
<1>3. CASE Accepted(t)
  <2>1. \A u \in Trades : trade'[u] = IF u = t THEN "ACCEPTED"
                                      ELSE IF u \in Competing(t) THEN "REJECTED" ELSE trade[u]
    BY <1>3 DEF Accepted
  <2>2. /\ product[p] = "ACTIVE" /\ trade[t] = "REQUESTED"
        /\ \A q \in Products : product'[q] = IF q = p THEN "RESERVED" ELSE product[q]
    BY <1>3 DEF Accepted, SerialPart, TypeOK
  <2>3. \A u \in Competing(t) : trade[u] = "REQUESTED"
    BY DEF Competing
  <2>4. OnePromise'
    BY <2>1, <2>2, <2>3 DEF SaleInv, OnePromise, Promised, EngagedStatuses
  <2>5. PromisesStand'
    BY <2>1, <2>2, <2>3 DEF SaleInv, PromisesStand, PromisedTo
  <2> QED BY <2>4, <2>5
<1>4. CASE Refused(t)
  <2>1. PICK to \in {"REJECTED", "CANCELLED"} :
          \A u \in Trades : trade'[u] = IF u = t THEN to ELSE trade[u]
    BY <1>1, <1>4 DEF Refused
  <2>2. trade[t] = "REQUESTED" /\ UNCHANGED product
    BY <1>4 DEF Refused
  <2>3. OnePromise'
    BY <2>1, <2>2 DEF SaleInv, OnePromise, Promised, EngagedStatuses
  <2>4. PromisesStand'
    BY <2>1, <2>2 DEF SaleInv, PromisesStand, PromisedTo
  <2> QED BY <2>3, <2>4
<1>5. CASE Released(t)
  <2>1. \A u \in Trades : trade'[u] = IF u = t THEN "CANCELLED" ELSE trade[u]
    BY <1>1, <1>5 DEF Released
  <2>2. Promised(t) /\ product[p] # "SOLD"
    <3>1. trade[t] = "ACCEPTED"
      BY <1>5 DEF Released
    <3>2. Promised(t)
      BY <3>1 DEF Promised, EngagedStatuses
    <3> QED BY <3>1, <3>2 DEF SaleInv, OnePromise, PromisesStand, PromisedTo, Promised, EngagedStatuses
  <2>3. /\ \A q \in Products \ {p} : product'[q] = product[q]
        /\ product'[p] \notin {"RESERVED", "SOLD"}
    BY <1>5, <2>2 DEF Released, SerialPart, TypeOK
  <2>4. OnePromise'
    BY <2>1, <2>2, <2>3 DEF SaleInv, OnePromise, Promised, EngagedStatuses
  <2>5. PromisesStand'
    BY <2>1, <2>2, <2>3 DEF SaleInv, PromisesStand, PromisedTo
  <2> QED BY <2>4, <2>5
<1>6. CASE Delivered(t)
  <2>1. \A u \in Trades : trade'[u] = IF u = t THEN "DELIVERED" ELSE trade[u]
    BY <1>1, <1>6 DEF Delivered
  <2>2. trade[t] = "ACCEPTED" /\ UNCHANGED product
    BY <1>6 DEF Delivered
  <2>3. OnePromise'
    BY <2>1, <2>2 DEF SaleInv, OnePromise, Promised, EngagedStatuses
  <2>4. PromisesStand'
    BY <2>1, <2>2 DEF SaleInv, PromisesStand, PromisedTo
  <2> QED BY <2>3, <2>4
<1>7. CASE Confirmed(t)
  <2>1. \A u \in Trades : trade'[u] = IF u = t THEN "CONFIRMED" ELSE trade[u]
    BY <1>1, <1>7 DEF Confirmed
  <2>2. /\ trade[t] = "DELIVERED"
        /\ \A q \in Products : product'[q] = IF q = p THEN "SOLD" ELSE product[q]
    BY <1>7 DEF Confirmed, SerialPart, TypeOK
  <2>3. OnePromise'
    BY <2>1, <2>2 DEF SaleInv, OnePromise, Promised, EngagedStatuses
  <2>4. PromisesStand'
    BY <2>1, <2>2 DEF SaleInv, PromisesStand, PromisedTo
  <2> QED BY <2>3, <2>4
<1>8. CASE Disputed(t)
  <2>1. \A u \in Trades : trade'[u] = IF u = t THEN "DISPUTED" ELSE trade[u]
    BY <1>1, <1>8 DEF Disputed
  <2>2. trade[t] \in {"ACCEPTED", "DELIVERED", "CONFIRMED"} /\ UNCHANGED product
    BY <1>8 DEF Disputed
  <2>3. OnePromise'
    BY <2>1, <2>2 DEF SaleInv, OnePromise, Promised, EngagedStatuses
  <2>4. PromisesStand'
    BY <2>1, <2>2 DEF SaleInv, PromisesStand, PromisedTo
  <2> QED BY <2>3, <2>4
<1>9. CASE Paid(t)
  BY <1>9 DEF Paid, tradeRows, SaleInv, OnePromise, Promised, PromisesStand, PromisedTo
<1> QED BY <1>2, <1>3, <1>4, <1>5, <1>6, <1>7, <1>8, <1>9 DEF TradeMoves

LEMMA MoveUnpromised ==
    ASSUME NoRelisting, SerialPart, SaleInv, NEW t \in Trades, TradeMoves(t)
    PROVE  RequestsUnpromised'
<1>1. ASSUME NEW v \in Trades, NEW u \in Trades, trade'[v] = "REQUESTED",
             trade'[u] \in EngagedStatuses, ProductOf[u] = ProductOf[v]
      PROVE  FALSE
  <2>1. ~(trade[v] = "REQUESTED" /\ trade[u] \in EngagedStatuses)
    BY <1>1 DEF SaleInv, RequestsUnpromised, Unpromised, Promised, TradesOf
  <2>2. ASSUME NEW from, NEW to, MoveTrade(t, from, to)
        PROVE  \A w \in Trades : trade'[w] = IF w = t THEN to ELSE trade[w]
    BY <2>2, MoveFrom
  <2>3. CASE Requested(t)
    <3>1. \A w \in Trades : trade'[w] = IF w = t THEN "REQUESTED" ELSE trade[w]
      BY <2>2, <2>3 DEF Requested
    <3>2. Unpromised(t)
      BY <2>3 DEF Requested, Requestable
    <3> QED BY <1>1, <2>1, <3>1, <3>2 DEF Unpromised, Promised, EngagedStatuses, TradesOf
  <2>4. CASE Accepted(t)
    <3>1. \A w \in Trades : trade'[w] = IF w = t THEN "ACCEPTED"
                                        ELSE IF w \in Competing(t) THEN "REJECTED" ELSE trade[w]
      BY <2>4 DEF Accepted
    <3>2. trade[v] = "REQUESTED" /\ v # t /\ v \notin Competing(t)
      BY <1>1, <3>1
    <3>3. ProductOf[v] # ProductOf[t]
      BY <3>2 DEF Competing, TradesOf
    <3>4. trade[u] \in EngagedStatuses
      BY <1>1, <3>1, <3>3 DEF EngagedStatuses
    <3> QED BY <2>1, <3>2, <3>4
  <2>5. ASSUME NEW to, \A w \in Trades : trade'[w] = IF w = t THEN to ELSE trade[w],
               to # "REQUESTED", to \in EngagedStatuses => trade[t] \in EngagedStatuses
        PROVE  FALSE
    BY <1>1, <2>1, <2>5
  <2>6. CASE Refused(t) \/ Released(t)
    BY <2>2, <2>5, <2>6 DEF Refused, Released, EngagedStatuses
  <2>7. CASE Delivered(t) \/ Confirmed(t) \/ Disputed(t)
    BY <2>2, <2>5, <2>7 DEF Delivered, Confirmed, Disputed, EngagedStatuses
  <2>8. CASE Paid(t)
    BY <1>1, <2>1, <2>8 DEF Paid, tradeRows
  <2> QED BY <2>3, <2>4, <2>6, <2>7, <2>8 DEF TradeMoves
<1> QED BY <1>1 DEF RequestsUnpromised, Unpromised, Promised, TradesOf

LEMMA MoveRequests ==
    ASSUME NoHiding, SerialPart, SaleInv, NEW t \in Trades, TradeMoves(t)
    PROVE  RequestsStayAcceptable'
<1> USE MarketAssumption
<1>1. ASSUME NEW u \in Trades, trade'[u] = "REQUESTED"
      PROVE  product'[ProductOf[u]] = "ACTIVE"
  <2>1. \/ u = t /\ Requested(t)
        \/ trade[u] = "REQUESTED" /\ ~Accepted(t)
        \/ Accepted(t) /\ trade[u] = "REQUESTED" /\ u \notin {t} \cup Competing(t)
    <3>1. CASE Accepted(t)
      BY <1>1, <3>1 DEF Accepted
    <3>2. CASE Paid(t)
      BY <1>1, <3>2 DEF Paid, tradeRows, Accepted
    <3>3. ASSUME NEW from, NEW to, MoveTrade(t, from, to), to # "REQUESTED"
          PROVE  u # t /\ trade[u] = "REQUESTED"
      BY <1>1, <3>3, MoveFrom
    <3>4. CASE Requested(t)
      BY <1>1, <3>4, MoveFrom DEF Requested, Requestable, Accepted, Absent
    <3>5. CASE Refused(t) \/ Released(t) \/ Delivered(t) \/ Confirmed(t) \/ Disputed(t)
      BY <3>3, <3>5, <3>1 DEF Refused, Released, Delivered, Confirmed, Disputed
    <3> QED BY <3>1, <3>2, <3>4, <3>5 DEF TradeMoves
  <2>2. CASE u = t /\ Requested(t)
    BY <2>2 DEF Requested, Requestable, NoHiding
  <2>3. CASE trade[u] = "REQUESTED" /\ ~Accepted(t)
    <3>1. product[ProductOf[u]] = "ACTIVE"
      BY <2>3 DEF SaleInv, RequestsStayAcceptable
    <3>2. CASE Confirmed(t)
      <4>1. Promised(t)
        BY <3>2 DEF Confirmed, Promised, EngagedStatuses
      <4>2. ProductOf[u] # ProductOf[t]
        BY <3>1, <4>1 DEF SaleInv, OnePromise
      <4> QED BY <3>1, <3>2, <4>2 DEF Confirmed, SerialPart, TypeOK
    <3>3. CASE Released(t)
      BY <3>1, <3>3 DEF Released, SerialPart, TypeOK
    <3>4. CASE Requested(t) \/ Refused(t) \/ Delivered(t) \/ Disputed(t) \/ Paid(t)
      BY <3>1, <3>4 DEF Requested, Refused, Delivered, Disputed, Paid
    <3> QED BY <2>3, <3>2, <3>3, <3>4 DEF TradeMoves
  <2>4. CASE Accepted(t) /\ trade[u] = "REQUESTED" /\ u \notin {t} \cup Competing(t)
    <3>1. ProductOf[u] # ProductOf[t] /\ product[ProductOf[u]] = "ACTIVE"
      BY <2>4 DEF Competing, TradesOf, SaleInv, RequestsStayAcceptable
    <3> QED BY <2>4, <3>1 DEF Accepted, SerialPart, TypeOK
  <2> QED BY <2>1, <2>2, <2>3, <2>4
<1> QED BY <1>1 DEF RequestsStayAcceptable

LEMMA MoveBuyers ==
    ASSUME SerialPart, SaleInv, NEW t \in Trades, TradeMoves(t)
    PROVE  OneActiveTradePerBuyer'
<1> DEFINE Active(u) == trade[u] \in ActiveTradeStatuses
           Rivals(u, v) == ProductOf[u] = ProductOf[v] /\ BuyerOf[u] = BuyerOf[v]
<1>1. \A u, v \in Trades : Rivals(u, v) /\ Active(u) /\ Active(v) => u = v
  BY DEF SaleInv, OneActiveTradePerBuyer
<1>2. ASSUME NEW u \in Trades, Active(u)', ~Active(u)
      PROVE  u = t /\ (Requested(t) \/ trade[t] = "CONFIRMED")
  <2>1. ASSUME NEW from, NEW to, MoveTrade(t, from, to)
        PROVE  u = t /\ trade'[t] = to
    BY <1>2, <2>1, MoveFrom
  <2>2. CASE Accepted(t)
    BY <1>2, <2>2 DEF Accepted, ActiveTradeStatuses, Competing
  <2>3. CASE Refused(t)
    BY <1>2, <2>1, <2>3 DEF Refused, ActiveTradeStatuses
  <2>4. CASE Released(t)
    BY <1>2, <2>1, <2>4 DEF Released, ActiveTradeStatuses
  <2>5. CASE Delivered(t)
    BY <1>2, <2>1, <2>5 DEF Delivered, ActiveTradeStatuses
  <2>6. CASE Confirmed(t)
    BY <1>2, <2>1, <2>6 DEF Confirmed, ActiveTradeStatuses
  <2>7. CASE Disputed(t)
    BY <1>2, <2>1, <2>7 DEF Disputed, ActiveTradeStatuses
  <2>8. CASE Requested(t)
    BY <2>1, <2>8 DEF Requested
  <2>9. CASE Paid(t)
    BY <1>2, <2>9 DEF Paid, tradeRows
  <2> QED BY <2>2, <2>3, <2>4, <2>5, <2>6, <2>7, <2>8, <2>9 DEF TradeMoves
<1>3. ASSUME NEW u \in Trades, Active(u), Rivals(t, u), Requested(t)
      PROVE  FALSE
  BY <1>3 DEF Requested, Requestable, TradesOf
<1>4. ASSUME NEW u \in Trades, Active(u), Rivals(t, u), u # t, trade[t] = "CONFIRMED"
      PROVE  FALSE
  <2>1. Promised(t)
    BY <1>4 DEF Promised, EngagedStatuses
  <2>2. ~Promised(u)
    BY <1>4, <2>1 DEF SaleInv, OnePromise
  <2>3. trade[u] = "REQUESTED"
    BY <1>4, <2>2 DEF Promised, ActiveTradeStatuses, EngagedStatuses
  <2> QED
    BY <1>4, <2>1, <2>3 DEF SaleInv, RequestsUnpromised, Unpromised, TradesOf
<1>5. ASSUME NEW u \in Trades, NEW v \in Trades, Rivals(u, v), Active(u)', Active(v)', u # v
      PROVE  FALSE
  BY <1>1, <1>2, <1>3, <1>4, <1>5
<1> QED BY <1>5 DEF OneActiveTradePerBuyer

LEMMA OfferedKeeps ==
    ASSUME NoRelisting, SerialPart, SaleInv, Offered
    PROVE  SaleInv'
<1>1. UNCHANGED trade
  BY DEF Offered, tradeRows
<1>2. \A p \in Products : product'[p] # product[p] =>
          \/ product'[p] = "HIDDEN" /\ ~NoHiding
          \/ product'[p] = "DELETED" /\ Removable(p)
  BY DEF Offered
<1>3. OnePromise' /\ PromisesStand'
  BY <1>1, <1>2, MarketAssumption DEF SaleInv, OnePromise, Promised, PromisesStand, PromisedTo
<1>4. RequestsUnpromised' /\ OneActiveTradePerBuyer'
  BY <1>1 DEF SaleInv, RequestsUnpromised, Unpromised, Promised, TradesOf, OneActiveTradePerBuyer
<1>5. ASSUME NoHiding
      PROVE  RequestsStayAcceptable'
  BY <1>1, <1>2, <1>5, MarketAssumption
  DEF SaleInv, RequestsStayAcceptable, Removable, TradesOf, ActiveTradeStatuses
<1> QED BY <1>3, <1>4, <1>5 DEF SaleInv, NoHiding

LEMMA SaleStepKeeps ==
    ASSUME NoRelisting, SerialPart, SaleInv, SaleStep
    PROVE  SaleInv'
<1>1. CASE UNCHANGED rows
  BY <1>1 DEF rows, tradeRows, SaleInv, OnePromise, Promised, PromisesStand, PromisedTo,
              RequestsUnpromised, Unpromised, TradesOf, RequestsStayAcceptable,
              OneActiveTradePerBuyer, NoHiding
<1>2. ASSUME NEW t \in Trades, TradeMoves(t)
      PROVE  SaleInv'
  BY <1>2, MovePromises, MoveUnpromised, MoveRequests, MoveBuyers DEF SaleInv, NoHiding
<1> QED BY <1>1, <1>2, OfferedKeeps DEF SaleStep

LEMMA InitSells == Init => SaleInv
BY MarketAssumption
DEF Init, SaleInv, OnePromise, Promised, PromisesStand, PromisedTo, EngagedStatuses,
    RequestsUnpromised, Unpromised, TradesOf, RequestsStayAcceptable, OneActiveTradePerBuyer,
    ActiveTradeStatuses, Absent

LEMMA SerialAlways == ASSUME OneCaller PROVE SerialSpec => []SerialPart
<1>1. Init => SerialPart
  <2>1. Init => FoundStillTrue
    BY DEF Init, FoundStillTrue
  <2> QED BY <2>1, InitTyped, InitSells DEF SerialPart
<1>2. SerialPart /\ [SerialNext]_vars => SerialPart'
  <2> SUFFICES ASSUME SerialPart, [SerialNext]_vars PROVE SerialPart'
    OBVIOUS
  <2>1. TypeOK' /\ FoundStillTrue'
    BY NextFound, NextTyped, SerialIsNext DEF SerialPart
  <2>2. NoRelisting => SaleInv'
    BY NextSells, SaleStepKeeps DEF SerialPart
  <2> QED BY <2>1, <2>2 DEF SerialPart, NoRelisting
<1> QED BY <1>1, <1>2, PTL DEF SerialSpec

(* As long as calls do not overlap, and the owner does not set the status  *)
(* of a product by hand: a product is RESERVED or SOLD because of exactly  *)
(* one trade, and an ACTIVE one can be promised, also when products are    *)
(* hidden or deleted meanwhile.                                            *)
THEOREM ReservationsMatch ==
    ASSUME OneCaller, NoRelisting
    PROVE  SerialSpec => []ReservationMatchesTrade
<1>1. SerialPart => ReservationMatchesTrade
  BY ReservationFollows DEF SerialPart, SaleInv
<1> QED BY <1>1, SerialAlways, PTL

(* A buyer has at most one active trade for a product, although only a     *)
(* read before the insert says so.                                         *)
THEOREM BuyersHaveOneTrade ==
    ASSUME OneCaller, NoRelisting
    PROVE  SerialSpec => []OneActiveTradePerBuyer
<1>1. SerialPart => OneActiveTradePerBuyer
  BY DEF SerialPart, SaleInv
<1> QED BY <1>1, SerialAlways, PTL

(* No request is left that the seller could not accept, as long as nobody  *)
(* hides a product by hand either.                                         *)
THEOREM RequestsAcceptable ==
    ASSUME OneCaller, NoRelisting, NoHiding
    PROVE  SerialSpec => []RequestsStayAcceptable
<1>1. SerialPart => RequestsStayAcceptable
  BY DEF SerialPart, SaleInv
<1> QED BY <1>1, SerialAlways, PTL

-----------------------------------------------------------------------------
(* Every move of a trade is legal, and recorded as it was.                 *)
Recorded(u) == history'[u] = Append(history[u], [from |-> trade[u], to |-> trade'[u]])

LEMMA SaleStepIsLegal ==
    ASSUME SerialPart, SaleStep, NEW u \in Trades, trade'[u] # trade[u]
    PROVE  <<trade[u], trade'[u]>> \in LegalMove /\ Recorded(u)
<1>1. PICK t \in Trades : TradeMoves(t)
  BY DEF SaleStep, rows, tradeRows, Offered
<1>2. CASE Accepted(t)
  <2>1. /\ trade'[u] = IF u = t THEN "ACCEPTED"
                       ELSE IF u \in Competing(t) THEN "REJECTED" ELSE trade[u]
        /\ u \in {t} \cup Competing(t) =>
              history'[u] = Append(history[u], [from |-> "REQUESTED", to |-> trade'[u]])
    BY <1>2 DEF Accepted
  <2>2. trade[u] = "REQUESTED" /\ u \in {t} \cup Competing(t)
    BY <1>2, <2>1 DEF Accepted, Competing
  <2> QED BY <2>1, <2>2 DEF LegalMove, Recorded
<1>3. CASE Paid(t)
  BY <1>3 DEF Paid, tradeRows
<1>4. ASSUME NEW from, NEW to, MoveTrade(t, from, to), trade[t] = from, <<from, to>> \in LegalMove
      PROVE  <<trade[u], trade'[u]>> \in LegalMove /\ Recorded(u)
  <2>1. u = t /\ trade'[u] = to
    BY <1>4, MoveFrom
  <2>2. history'[t] = Append(history[t], [from |-> from, to |-> to])
    BY <1>4 DEF MoveTrade, SerialPart, TypeOK
  <2> QED BY <1>4, <2>1, <2>2 DEF Recorded
<1>5. CASE Requested(t) \/ Refused(t) \/ Released(t) \/ Delivered(t) \/ Confirmed(t) \/ Disputed(t)
  <2>1. PICK from, to : MoveTrade(t, from, to) /\ trade[t] = from /\ <<from, to>> \in LegalMove
    BY <1>5 DEF Requested, Requestable, Refused, Released, Delivered, Confirmed, Disputed, LegalMove
  <2> QED BY <1>4, <2>1
<1> QED BY <1>1, <1>2, <1>3, <1>5 DEF TradeMoves

(* As long as calls do not overlap, a trade moves along the table of       *)
(* commands, and the history names the status it really left, although the *)
(* handlers write both by id.                                              *)
THEOREM SerialMovesAreLegal == ASSUME OneCaller PROVE SerialSpec => MovesAreLegal
<1>1. SerialPart /\ [SerialNext]_vars =>
        [\A t \in Trades : trade'[t] # trade[t] =>
          /\ <<trade[t], trade'[t]>> \in LegalMove
          /\ history'[t] = Append(history[t], [from |-> trade[t], to |-> trade'[t]])]_vars
  BY NextSells, SaleStepIsLegal DEF Recorded
<1> QED BY <1>1, SerialAlways, PTL DEF SerialSpec, MovesAreLegal

-----------------------------------------------------------------------------
(* Money and trade.                                                        *)
MoveOf(t, u, from, to) == u = t /\ trade[t] = from /\ trade'[t] = to

LEMMA SaleStepKeepsEscrow ==
    ASSUME SerialPart, EscrowFollowsTrade, SaleStep
    PROVE  EscrowFollowsTrade'
<1>1. CASE UNCHANGED rows \/ Offered
  BY <1>1 DEF rows, tradeRows, Offered, EscrowFollowsTrade
<1>2. ASSUME NEW t \in Trades, TradeMoves(t)
      PROVE  EscrowFollowsTrade'
  <2> DEFINE Follows(u) == /\ payment[u] = "READY" => trade[u] \in {"ACCEPTED", "DISPUTED"}
                           /\ payment[u] = "APPROVED" => trade[u] \in EngagedStatuses
                           /\ trade[u] \in {"DELIVERED", "CONFIRMED"} => payment[u] = "APPROVED"
  <2>0. \A u \in Trades : Follows(u)
    BY DEF EscrowFollowsTrade
  <2>1. ASSUME NEW from, NEW to, MoveTrade(t, from, to)
        PROVE  \A u \in Trades : trade'[u] = IF u = t THEN to ELSE trade[u]
    BY <2>1, MoveFrom
  <2>2. ASSUME NEW u \in Trades
        PROVE  Follows(u)'
    <3>1. Follows(u) /\ Follows(t)
      BY <2>0
    <3>2. CASE Requested(t)
      BY <2>1, <3>1, <3>2 DEF Requested, Requestable, EngagedStatuses, Absent
    <3>3. CASE Accepted(t)
      BY <3>1, <3>3 DEF Accepted, Competing, EngagedStatuses
    <3>4. CASE Refused(t)
      BY <2>1, <3>1, <3>4 DEF Refused, Closes, EngagedStatuses
    <3>5. CASE Released(t)
      BY <2>1, <3>1, <3>5 DEF Released, Closes, EngagedStatuses
    <3>6. CASE Delivered(t)
      BY <2>1, <3>1, <3>6 DEF Delivered, EngagedStatuses
    <3>7. CASE Confirmed(t)
      BY <2>1, <3>1, <3>7 DEF Confirmed, EngagedStatuses
    <3>8. CASE Disputed(t)
      BY <2>1, <3>1, <3>8 DEF Disputed, Closes, EngagedStatuses
    <3>9. CASE Paid(t)
      BY <3>1, <3>9 DEF Paid, Closes, tradeRows, EngagedStatuses, SerialPart, TypeOK
    <3> QED BY <1>2, <3>2, <3>3, <3>4, <3>5, <3>6, <3>7, <3>8, <3>9 DEF TradeMoves
  <2> QED BY <2>2 DEF EscrowFollowsTrade
<1> QED BY <1>1, <1>2 DEF SaleStep

(* As long as calls do not overlap, money is in escrow only for a trade    *)
(* that can still use it, and goods are handed over only for money in      *)
(* escrow.                                                                 *)
THEOREM EscrowAndTradeAgree == ASSUME OneCaller PROVE SerialSpec => []EscrowFollowsTrade
<1>1. Init => EscrowFollowsTrade
  BY DEF Init, EscrowFollowsTrade, Absent
<1>2. SerialPart /\ EscrowFollowsTrade /\ [SerialNext]_vars => EscrowFollowsTrade'
  BY NextSells, SaleStepKeepsEscrow
<1> QED BY <1>1, <1>2, SerialAlways, PTL DEF SerialSpec

-----------------------------------------------------------------------------
(* Deletion, with all the owner's and the administrator's commands.  A     *)
(* trade that was confirmed can still be disputed after the owner deleted  *)
(* the product, so that only the earlier statuses keep it from being       *)
(* deleted.                                                                *)
DeletedIsUnused ==
    \A t \in Trades : product[ProductOf[t]] = "DELETED" =>
        trade[t] \notin {"REQUESTED", "ACCEPTED", "DELIVERED"}

DeletedSafely(p) ==
    /\ product[p] = "DELETED" => product'[p] \in {"DELETED", "HIDDEN"}
    /\ product'[p] = "DELETED" /\ product[p] # "DELETED" => Removable(p)

LEMMA SaleStepDeletesSafely ==
    ASSUME SerialPart, DeletedIsUnused, SaleStep
    PROVE  DeletedIsUnused' /\ \A p \in Products : DeletedSafely(p)
<1> USE MarketAssumption
<1>1. CASE UNCHANGED rows
  BY <1>1 DEF rows, tradeRows, DeletedIsUnused, DeletedSafely
<1>2. CASE Offered
  BY <1>2 DEF Offered, tradeRows, DeletedIsUnused, DeletedSafely, Removable, TradesOf,
              ActiveTradeStatuses
<1>3. ASSUME NEW t \in Trades, TradeMoves(t)
      PROVE  DeletedIsUnused' /\ \A p \in Products : DeletedSafely(p)
  <2>1. \A p \in Products :
          \/ product'[p] = product[p]
          \/ p = ProductOf[t] /\ product[p] # "DELETED" /\ product'[p] # "DELETED"
    BY <1>3 DEF TradeMoves, Requested, Accepted, Refused, Released, Delivered, Confirmed, Disputed,
                Paid, DeletedIsUnused, SerialPart, TypeOK
  <2>2. ASSUME NEW u \in Trades, trade'[u] \in {"REQUESTED", "ACCEPTED", "DELIVERED"},
               trade[u] \notin {"REQUESTED", "ACCEPTED", "DELIVERED"}
        PROVE  u = t /\ Requested(t)
    <3>1. ASSUME NEW from, NEW to, MoveTrade(t, from, to)
          PROVE  u = t /\ trade'[t] = to
      BY <2>2, <3>1, MoveFrom
    <3>2. ~Accepted(t) /\ ~Paid(t)
      BY <2>2 DEF Accepted, Competing, Paid, tradeRows
    <3>3. ~Refused(t) /\ ~Released(t) /\ ~Delivered(t)
      BY <2>2, <3>1 DEF Refused, Released, Delivered
    <3>4. ~Confirmed(t) /\ ~Disputed(t)
      BY <2>2, <3>1 DEF Confirmed, Disputed
    <3> QED BY <1>3, <3>1, <3>2, <3>3, <3>4 DEF TradeMoves, Requested
  <2>3. Requested(t) => product[ProductOf[t]] # "DELETED"
    BY DEF Requested, Requestable
  <2> QED BY <2>1, <2>2, <2>3 DEF DeletedIsUnused, DeletedSafely
<1> QED BY <1>1, <1>2, <1>3 DEF SaleStep

(* As long as calls do not overlap: a product is deleted only when no      *)
(* active trade uses it, and no command of a trade, a payment or a job     *)
(* brings it back, although all of them write the product by id.           *)
THEOREM DeletionsAreSafe == ASSUME OneCaller PROVE SerialSpec => DeletionIsSafe
<1>1. Init => DeletedIsUnused
  BY DEF Init, DeletedIsUnused, Absent
<1>2. SerialPart /\ DeletedIsUnused /\ [SerialNext]_vars => DeletedIsUnused'
  BY NextSells, SaleStepDeletesSafely
<1>3. SerialPart /\ DeletedIsUnused /\ [SerialNext]_vars =>
        [\A p \in Products :
          /\ product[p] = "DELETED" => product'[p] \in {"DELETED", "HIDDEN"}
          /\ product'[p] = "DELETED" /\ product[p] # "DELETED" =>
                \A t \in TradesOf(p) : trade[t] \notin ActiveTradeStatuses]_vars
  BY NextSells, SaleStepDeletesSafely DEF DeletedSafely, Removable
<1> QED BY <1>1, <1>2, <1>3, SerialAlways, PTL DEF SerialSpec, DeletionIsSafe

-----------------------------------------------------------------------------
(* Calls that overlap.  Without the commands that give a trade up or stop  *)
(* it, and without the owner's, a product is still promised only once.     *)
(* All that accepts compete for is the product, whose status they compare  *)
(* when they write.  It becomes ACTIVE again only for a trade that has no  *)
(* order, and a call that will write an engaged status by id has found an  *)
(* order, or is an accept itself.                                          *)
NothingGivenUp == Handlers \cap {"cancel", "cancelPayment", "dispute", "setStatus"} = {}

Advancing(c) == Serving(c, "deliver") \/ Serving(c, "confirm") \/ Serving(c, "refund")

\* Promised, also if a late reject has hidden it from a call that will write again.
Bound(t) == Promised(t) \/ \E c \in Callers : Advancing(c) /\ calls[c].trade = t

BoundInv ==
    /\ \A c \in Callers : calls[c] # NoCall =>
          /\ calls[c].op \in Handlers
          /\ calls[c].op \in ProductHandlers => calls[c].to # "ACTIVE"
    /\ \A c \in Callers : Advancing(c) => payment[calls[c].trade] # Absent
    /\ \A t \in Trades : Bound(t) => product[ProductOf[t]] # "ACTIVE"
    /\ \A t, u \in Trades : Bound(t) /\ Bound(u) /\ ProductOf[t] = ProductOf[u] => t = u

LEMMA BoundIsOne == ASSUME BoundInv PROVE OneEngagedTrade
<1>1. ASSUME NEW p \in Products
      PROVE  Cardinality(Engaged(p)) <= 1
  <2>1. CASE Engaged(p) = {}
    <3>1. Cardinality(Engaged(p)) = 0
      BY <2>1, FS_EmptySet
    <3> QED BY <3>1
  <2>2. ASSUME NEW t \in Engaged(p)
        PROVE  Engaged(p) = {t}
    BY DEF BoundInv, Bound, Promised, Engaged, TradesOf
  <2>3. ASSUME NEW t \in Engaged(p)
        PROVE  Cardinality(Engaged(p)) = 1
    BY <2>2, FS_Singleton
  <2>4. CASE Engaged(p) # {}
    <3>1. PICK t : t \in Engaged(p)
      BY <2>4
    <3>2. Cardinality(Engaged(p)) = 1
      BY <2>3, <3>1
    <3> QED BY <3>2
  <2> QED BY <2>1, <2>4
<1> QED BY <1>1 DEF OneEngagedTrade

\* What a step may do to the calls in flight, and to what they rely on.
LEMMA BeginBound ==
    ASSUME TypeOK, BoundInv, NEW c \in Callers, NEW call, Begin(c, call),
           call.op \in ProductHandlers => call.to # "ACTIVE",
           call.op \in {"deliver", "confirm", "refund"} =>
              Promised(call.trade) /\ payment[call.trade] # Absent
    PROVE  BoundInv'
<1>1. UNCHANGED <<product, trade, payment>> /\ call.op \in Handlers
  BY DEF Begin, database, tradeRows, paymentRows
<1>2. \A d \in Callers : calls'[d] = IF d = c THEN call ELSE calls[d]
  BY DEF Begin, TypeOK
<1>3. \A d \in Callers : Advancing(d)' =>
        \/ Advancing(d) /\ calls'[d] = calls[d]
        \/ calls'[d] = call /\ Promised(call.trade) /\ payment[call.trade] # Absent
  BY <1>2 DEF Advancing, Serving
<1>4. \A t \in Trades : Bound(t)' => Bound(t)
  BY <1>1, <1>3 DEF Bound, Promised
<1> QED BY <1>1, <1>2, <1>3, <1>4 DEF BoundInv

LEMMA FewerBound ==
    ASSUME BoundInv,
           \A c \in Callers : calls'[c] = NoCall \/ calls'[c] = calls[c],
           \A c \in Callers : Advancing(c) => payment'[calls[c].trade] # Absent,
           \A t \in Trades : Promised(t)' => Bound(t),
           \A t \in Trades : Bound(t)' => product'[ProductOf[t]] # "ACTIVE"
    PROVE  BoundInv'
<1>1. \A c \in Callers : Advancing(c)' => Advancing(c) /\ calls'[c] = calls[c]
  BY DEF Advancing, Serving
<1>2. \A t \in Trades : Bound(t)' => Bound(t)
  BY <1>1 DEF Bound
<1> QED BY <1>1, <1>2 DEF BoundInv

LEMMA AdvancingTrade ==
    ASSUME TypeOK, BoundInv, NEW c \in Callers, Advancing(c)
    PROVE  calls[c].trade \in Trades /\ Bound(calls[c].trade) /\ payment[calls[c].trade] # Absent
BY TradeCallTyped, PaymentCallTyped
DEF BoundInv, Bound, Advancing, Serving, TradeHandlers, PaymentHandlers, TradeCall, PaymentCall

LEMMA OrderStays ==
    ASSUME TypeOK, BoundInv, NEW t \in Trades, NEW status, status # Absent,
           payment' = [payment EXCEPT ![t] = status]
    PROVE  \A c \in Callers : Advancing(c) => payment'[calls[c].trade] # Absent
BY AdvancingTrade DEF TypeOK

LEMMA AnswerEndsOne ==
    ASSUME TypeOK, NEW c \in Callers, Answer(c)
    PROVE  \A d \in Callers : calls'[d] = NoCall \/ calls'[d] = calls[d]
BY DEF TypeOK, Answer

\* A call that writes an engaged status has it written for a trade that is bound.
LEMMA MoveBound ==
    ASSUME TypeOK, BoundInv, NEW t \in Trades, NEW from, NEW to, MoveTrade(t, from, to),
           to \in EngagedStatuses => Bound(t)
    PROVE  \A u \in Trades : Promised(u)' => Bound(u)
BY DEF MoveTrade, TypeOK, Promised, Bound

LEMMA OffersNothing ==
    ASSUME BoundInv, \A c \in Callers : calls'[c] = NoCall \/ calls'[c] = calls[c],
           \A c \in Callers : Advancing(c) => payment'[calls[c].trade] # Absent,
           \A u \in Trades : Promised(u)' => Bound(u),
           \A u \in Trades : product[ProductOf[u]] # "ACTIVE" => product'[ProductOf[u]] # "ACTIVE"
    PROVE  BoundInv'
<1>1. \A c \in Callers : Advancing(c)' => Advancing(c) /\ calls'[c] = calls[c]
  BY DEF Advancing, Serving
<1>2. \A t \in Trades : Bound(t)' => Bound(t)
  BY <1>1 DEF Bound
<1>3. \A t \in Trades : Bound(t)' => product'[ProductOf[t]] # "ACTIVE"
  BY <1>2 DEF BoundInv
<1> QED BY <1>3, FewerBound

LEMMA TradeServiceKeepsBound ==
    ASSUME NothingGivenUp, TypeOK, BoundInv, TradeServiceNext
    PROVE  BoundInv'
<1> USE MarketAssumption
<1>1. ASSUME NEW c \in Callers, NEW t \in Trades,
             \/ ReadRequest(c, t) \/ ReadAccept(c, t) \/ ReadReject(c, t)
             \/ ReadDeliver(c, t) \/ ReadConfirm(c, t) \/ ReadDispute(c, t)
             \/ ReadCancel(c, t)
      PROVE  BoundInv'
  <2>1. PICK op \in TradeHandlers :
          /\ Begin(c, TradeCallOf(op, t))
          /\ op \in {"deliver", "confirm"} => Promised(t) /\ payment[t] # Absent
    BY <1>1 DEF ReadRequest, ReadAccept, ReadReject, ReadDeliver, ReadConfirm, ReadDispute,
                ReadCancel, TradeHandlers, Promised, EngagedStatuses, Absent
  <2>2. PICK call : call = TradeCallOf(op, t)
    OBVIOUS
  <2>3. call.op = op /\ call.trade = t
    BY <2>2 DEF TradeCallOf
  <2>4. /\ call.op \notin ProductHandlers
        /\ call.op \in {"deliver", "confirm", "refund"} =>
              Promised(call.trade) /\ payment[call.trade] # Absent
    BY <2>1, <2>3 DEF TradeHandlers, ProductHandlers
  <2> QED BY <2>1, <2>2, <2>4, BeginBound
<1>2. ASSUME NEW c \in Callers, CreateTrade(c) \/ Reject(c) \/ Deliver(c) \/ Confirm(c)
      PROVE  BoundInv'
  <2>1. calls[c].trade \in Trades
    BY <1>2, TradeCallTyped
    DEF CreateTrade, Reject, Deliver, Confirm, Serving, TradeHandlers, TradeCall
  <2>2. PICK from, to : /\ MoveTrade(calls[c].trade, from, to)
                        /\ to \in EngagedStatuses => Advancing(c)
    BY <1>2 DEF CreateTrade, Reject, Deliver, Confirm, EngagedStatuses, Advancing
  <2>3. \A u \in Trades : Promised(u)' => Bound(u)
    BY <2>1, <2>2, AdvancingTrade, MoveBound
  <2>4. Answer(c) /\ UNCHANGED payment
    BY <1>2 DEF CreateTrade, Reject, Deliver, Confirm, paymentRows
  <2>5. \A d \in Callers : Advancing(d) => payment'[calls[d].trade] # Absent
    BY <2>4 DEF BoundInv
  <2>6. \A p \in Products : product[p] # "ACTIVE" => product'[p] # "ACTIVE"
    BY <1>2 DEF CreateTrade, Reject, Deliver, Confirm, TypeOK
  <2> QED BY <2>3, <2>4, <2>5, <2>6, AnswerEndsOne, OffersNothing
<1>3. ASSUME NEW c \in Callers, Accept(c)
      PROVE  BoundInv'
  <2> DEFINE t == calls[c].trade
  <2>1. t \in Trades
    BY <1>3, TradeCallTyped DEF Accept, Serving, TradeHandlers, TradeCall
  <2>2. /\ product[ProductOf[t]] = "ACTIVE" /\ UNCHANGED payment
        /\ \A p \in Products : product'[p] = IF p = ProductOf[t] THEN "RESERVED" ELSE product[p]
    BY <1>3 DEF Accept, StillActive, paymentRows, TypeOK
  <2>3. \A d \in Callers : calls'[d] = NoCall \/ calls'[d] = calls[d]
    BY <1>3, AnswerEndsOne DEF Accept
  <2>4. \A d \in Callers : Advancing(d)' => Advancing(d) /\ calls'[d] = calls[d]
    BY <2>3 DEF Advancing, Serving
  <2>5. \A u \in Trades : Promised(u)' => u = t \/ Promised(u)
    BY <1>3 DEF Accept, Promised, EngagedStatuses
  <2>6. \A u \in Trades : Bound(u)' => u = t \/ (Bound(u) /\ ProductOf[u] # ProductOf[t])
    BY <2>2, <2>4, <2>5 DEF Bound, BoundInv
  <2>7. \A u \in Trades : Bound(u)' => product'[ProductOf[u]] # "ACTIVE"
    BY <2>2, <2>6 DEF BoundInv
  <2> QED BY <2>2, <2>3, <2>4, <2>6, <2>7 DEF BoundInv
<1>4. ASSUME NEW c \in Callers, RefuseAccept(c)
      PROVE  BoundInv'
  <2>1. Answer(c) /\ UNCHANGED <<product, trade, payment>>
    BY <1>4 DEF RefuseAccept, Refuse, database, tradeRows, paymentRows
  <2> QED BY <2>1, AnswerEndsOne, OffersNothing DEF Promised, Bound, BoundInv
<1>5. ASSUME NEW c \in Callers, Dispute(c) \/ Cancel(c)
      PROVE  FALSE
  BY <1>5 DEF Dispute, Cancel, Serving, BoundInv, NothingGivenUp
<1> QED BY <1>1, <1>2, <1>3, <1>4, <1>5 DEF TradeServiceNext

LEMMA RowsSameBound ==
    ASSUME BoundInv, \A c \in Callers : calls'[c] = NoCall \/ calls'[c] = calls[c],
           UNCHANGED <<product, trade, payment>>
    PROVE  BoundInv'
BY OffersNothing DEF Promised, Bound, BoundInv

LEMMA PaymentServiceKeepsBound ==
    ASSUME NothingGivenUp, TypeOK, BoundInv, PaymentServiceNext
    PROVE  BoundInv'
<1>1. ASSUME NEW c \in Callers, NEW t \in Trades, NEW k \in Keys,
             \/ ReadConfirmPayment(c, t, k) \/ ReadCancelPayment(c, t, k)
             \/ ReadRefund(c, t, k)
      PROVE  BoundInv'
  <2>1. PICK op \in PaymentHandlers :
          /\ Begin(c, PaymentCallOf(op, t, k))
          /\ op = "refund" => Promised(t) /\ payment[t] # Absent
    BY <1>1 DEF ReadConfirmPayment, ReadCancelPayment, ReadRefund, PaymentHandlers, Promised,
                EngagedStatuses, Absent
  <2>2. PICK call : call = PaymentCallOf(op, t, k)
    OBVIOUS
  <2>3. call.op = op /\ call.trade = t
    BY <2>2 DEF PaymentCallOf
  <2>4. /\ call.op \notin ProductHandlers
        /\ call.op \in {"deliver", "confirm", "refund"} =>
              Promised(call.trade) /\ payment[call.trade] # Absent
    BY <2>1, <2>3 DEF PaymentHandlers, ProductHandlers
  <2> QED BY <2>1, <2>2, <2>4, BeginBound
<1>2. ASSUME NEW c \in Callers, NEW t \in Trades, NEW k \in Keys, CreateOrder(c, t, k)
      PROVE  BoundInv'
  <2>1. \A d \in Callers : Advancing(d) => payment'[calls[d].trade] # Absent
    BY <1>2, OrderStays DEF CreateOrder, Absent
  <2> QED BY <1>2, <2>1, OffersNothing DEF CreateOrder, tradeRows, Promised, Bound
<1>3. ASSUME NEW c \in Callers, ProviderConfirms(c) \/ ProviderReverses(c)
      PROVE  BoundInv'
  <2>1. calls[c] \in PaymentCall
    BY <1>3, PaymentCallTyped DEF ProviderConfirms, ProviderReverses, Unanswered, Serving,
                                  PaymentHandlers
  <2>2. PICK call : call = [calls[c] EXCEPT !.answered = TRUE]
    OBVIOUS
  <2>3. call.op = calls[c].op /\ call.trade = calls[c].trade /\ call.op \in PaymentHandlers
    BY <2>1, <2>2 DEF PaymentCall
  <2>4. /\ \A d \in Callers : calls'[d] = IF d = c THEN call ELSE calls[d]
        /\ UNCHANGED <<product, trade, payment>> /\ calls[c] # NoCall
    BY <1>3, <2>2 DEF ProviderConfirms, ProviderReverses, Unanswered, Serving, TypeOK, database,
                      tradeRows, paymentRows
  <2>5. \A d \in Callers : Advancing(d)' => Advancing(d) /\ calls'[d].trade = calls[d].trade
    BY <2>3, <2>4 DEF Advancing, Serving
  <2>6. \A t \in Trades : Bound(t)' => Bound(t)
    BY <2>4, <2>5 DEF Bound, Promised
  <2> QED BY <2>3, <2>4, <2>5, <2>6 DEF BoundInv, PaymentHandlers, ProductHandlers
<1>4. ASSUME NEW c \in Callers, RefuseConfirmPayment(c) \/ RefuseReversal(c)
      PROVE  BoundInv'
  <2>1. Answer(c) /\ UNCHANGED <<product, trade, payment>>
    BY <1>4 DEF RefuseConfirmPayment, RefuseReversal, Refuse, database, tradeRows, paymentRows
  <2> QED BY <2>1, AnswerEndsOne, RowsSameBound
<1>5. ASSUME NEW c \in Callers, ConfirmPayment(c)
      PROVE  BoundInv'
  <2>1. calls[c].trade \in Trades
    BY <1>5, PaymentCallTyped DEF ConfirmPayment, Answered, Serving, PaymentHandlers, PaymentCall
  <2>2. \A d \in Callers : Advancing(d) => payment'[calls[d].trade] # Absent
    BY <1>5, <2>1, OrderStays DEF ConfirmPayment, Absent
  <2>3. Answer(c) /\ UNCHANGED <<product, trade>>
    BY <1>5 DEF ConfirmPayment, tradeRows
  <2> QED BY <2>2, <2>3, AnswerEndsOne, OffersNothing DEF Promised, Bound
<1>6. ASSUME NEW c \in Callers, Refund(c)
      PROVE  BoundInv'
  <2>1. calls[c].trade \in Trades /\ Advancing(c)
    BY <1>6, PaymentCallTyped
    DEF Refund, Answered, Serving, PaymentHandlers, PaymentCall, Advancing
  <2>2. \A d \in Callers : Advancing(d) => payment'[calls[d].trade] # Absent
    BY <1>6, <2>1, OrderStays DEF Refund, Absent
  <2>3. \A u \in Trades : Promised(u)' => Bound(u)
    <3>1. CASE UNCHANGED tradeRows
      BY <3>1 DEF tradeRows, Promised, Bound
    <3>2. CASE MoveTrade(calls[c].trade, calls[c].saw, "DISPUTED")
      BY <2>1, <3>2, AdvancingTrade, MoveBound
    <3> QED BY <1>6, <3>1, <3>2 DEF Refund
  <2>4. Answer(c) /\ UNCHANGED product
    BY <1>6 DEF Refund
  <2> QED BY <2>2, <2>3, <2>4, AnswerEndsOne, OffersNothing
<1>7. ASSUME NEW c \in Callers, CancelPayment(c)
      PROVE  FALSE
  BY <1>7 DEF CancelPayment, Answered, Serving, BoundInv, NothingGivenUp
<1> QED BY <1>1, <1>2, <1>3, <1>4, <1>5, <1>6, <1>7 DEF PaymentServiceNext

LEMMA ProductServiceKeepsBound ==
    ASSUME NothingGivenUp, TypeOK, BoundInv, ProductServiceNext
    PROVE  BoundInv'
<1> USE MarketAssumption
<1>1. ASSUME NEW author \in SUBSET Products, HideProductsOf(author)
      PROVE  BoundInv'
  <2>1. \A p \in Products : product[p] # "ACTIVE" => product'[p] # "ACTIVE"
    BY <1>1 DEF HideProductsOf
  <2> QED
    BY <1>1, <2>1, OffersNothing
    DEF HideProductsOf, tradeRows, paymentRows, Promised, Bound, BoundInv
<1>2. ASSUME NEW c \in Callers, NEW p \in Products,
             \/ \E to \in {"ACTIVE", "HIDDEN"} : ReadSetStatus(c, p, to)
             \/ ReadRemove(c, p) \/ ReadHideProduct(c, p)
      PROVE  BoundInv'
  <2>1. PICK op \in ProductHandlers, to \in ProductStatus :
          Begin(c, ProductCallOf(op, p, to)) /\ (op = "setStatus" \/ to # "ACTIVE")
    BY <1>2 DEF ReadSetStatus, ReadRemove, ReadHideProduct, ProductHandlers, ProductStatus
  <2>2. PICK call : call = ProductCallOf(op, p, to)
    OBVIOUS
  <2>3. call.op = op /\ call.to = to
    BY <2>2 DEF ProductCallOf
  <2>4. /\ call.to # "ACTIVE"
        /\ call.op \notin {"deliver", "confirm", "refund"}
    BY <2>1, <2>2, <2>3 DEF Begin, NothingGivenUp, ProductHandlers
  <2> QED BY <2>1, <2>2, <2>4, BeginBound
<1>3. ASSUME NEW c \in Callers, UpdateProduct(c)
      PROVE  BoundInv'
  <2>1. \A p \in Products : product[p] # "ACTIVE" => product'[p] # "ACTIVE"
    BY <1>3 DEF UpdateProduct, BoundInv, TypeOK
  <2>2. Answer(c) /\ UNCHANGED <<trade, payment>>
    BY <1>3 DEF UpdateProduct, tradeRows, paymentRows
  <2> QED BY <2>1, <2>2, AnswerEndsOne, OffersNothing DEF Promised, Bound, BoundInv
<1> QED BY <1>1, <1>2, <1>3 DEF ProductServiceNext

LEMMA JobsKeepBound ==
    ASSUME TypeOK, BoundInv, MaintenanceNext
    PROVE  BoundInv'
<1> USE MarketAssumption
<1>1. ASSUME NEW t \in Trades, AutoConfirm(t)
      PROVE  BoundInv'
  <2>1. MoveTrade(t, "DELIVERED", "CONFIRMED") /\ Bound(t)
    BY <1>1 DEF AutoConfirm, DueForConfirm, Bound, Promised, EngagedStatuses
  <2>2. \A u \in Trades : Promised(u)' => Bound(u)
    BY <2>1, MoveBound
  <2>3. \A p \in Products : product[p] # "ACTIVE" => product'[p] # "ACTIVE"
    BY <1>1 DEF AutoConfirm, TypeOK
  <2> QED BY <1>1, <2>2, <2>3, OffersNothing DEF AutoConfirm, BoundInv
<1>2. ASSUME NEW t \in Trades, ExpireUnpaid(t)
      PROVE  BoundInv'
  <2>1. /\ trade[t] = "ACCEPTED" /\ payment[t] = Absent
        /\ MoveTrade(t, "ACCEPTED", "CANCELLED") /\ UNCHANGED <<payment, calls>>
    BY <1>2 DEF ExpireUnpaid, DueForExpiry, paymentRows
  <2>2. \A u \in Trades : trade'[u] = IF u = t THEN "CANCELLED" ELSE trade[u]
    BY <2>1 DEF MoveTrade, TypeOK
  <2>3. \A c \in Callers : Advancing(c)' => Advancing(c) /\ calls'[c].trade # t
    BY <2>1 DEF Advancing, Serving, BoundInv
  <2>4. \A u \in Trades : Bound(u)' => u # t /\ Bound(u)
    BY <2>1, <2>2, <2>3 DEF Bound, Promised, EngagedStatuses
  <2>5. Bound(t)
    BY <2>1 DEF Bound, Promised, EngagedStatuses
  <2>6. \A u \in Trades : Bound(u)' => ProductOf[u] # ProductOf[t]
    BY <2>4, <2>5 DEF BoundInv
  <2>7. \A p \in Products : p # ProductOf[t] => product'[p] = product[p]
    BY <1>2 DEF ExpireUnpaid, Unreserve, TypeOK
  <2>8. \A u \in Trades : Bound(u)' => product'[ProductOf[u]] # "ACTIVE"
    BY <2>4, <2>6, <2>7 DEF BoundInv
  <2> QED BY <2>1, <2>3, <2>4, <2>8 DEF BoundInv
<1>3. ASSUME NEW w \in Workers, SettlementStep(w) \/ WorkerCrash(w)
      PROVE  BoundInv'
  <2>1. UNCHANGED <<product, trade, payment, calls>>
    BY <1>3 DEF SettlementStep, WorkerCrash, ReleaseHolds, FindDue, Claim, SkipClaim,
                PayoutSucceeds, PayoutFails, SettlePayment, FailSettlement, EndJob, database,
                tradeRows, paymentRows
  <2> QED BY <2>1, RowsSameBound
<1> QED BY <1>1, <1>2, <1>3 DEF MaintenanceNext

LEMMA NextKeepsBound ==
    ASSUME NothingGivenUp, TypeOK, BoundInv, [Next]_vars
    PROVE  BoundInv'
<1>1. ASSUME NEW c \in Callers, CallLost(c)
      PROVE  BoundInv'
  <2>1. Answer(c) /\ UNCHANGED <<product, trade, payment>>
    BY <1>1 DEF CallLost, Refuse, database, tradeRows, paymentRows
  <2> QED BY <2>1, AnswerEndsOne, RowsSameBound
<1>2. ASSUME NEW t \in Trades, NEW x \in Period, PeriodEnds(t, x)
      PROVE  BoundInv'
  BY <1>2, RowsSameBound DEF PeriodEnds, tradeRows, paymentRows
<1>3. CASE UNCHANGED vars
  BY <1>3, RowsSameBound DEF vars, database, tradeRows, paymentRows
<1> QED
  BY <1>1, <1>2, <1>3, TradeServiceKeepsBound, PaymentServiceKeepsBound,
     ProductServiceKeepsBound, JobsKeepBound DEF Next

(* However many calls overlap, accepts, rejects by id, deliveries and      *)
(* confirmations never promise a product twice, as long as no command      *)
(* gives a trade up, disputes it or puts the product back on sale.         *)
THEOREM PromisedOnce == ASSUME NothingGivenUp PROVE Spec => []OneEngagedTrade
<1>1. Init => BoundInv
  BY DEF Init, BoundInv, Bound, Promised, Advancing, Serving, EngagedStatuses, Absent
<1>2. TypeOK /\ BoundInv /\ [Next]_vars => BoundInv'
  BY NextKeepsBound
<1>3. Spec => []BoundInv
  BY <1>1, <1>2, TypeCorrect, PTL DEF Spec
<1>4. BoundInv => OneEngagedTrade
  BY BoundIsOne
<1> QED BY <1>3, <1>4, PTL

=============================================================================
