---------------------------- MODULE TradeService ----------------------------
(***************************************************************************)
(* apps/api/src/trades/trade.service.ts: the commands on a trade.  Every   *)
(* command is a transaction that finds the trade in the status it needs,   *)
(* or throws, and then updates it BY ID: the update does not look at the   *)
(* status again.  Only accept, on the product, and the automatic           *)
(* confirmation, on the trade, use an updateMany with a status condition.  *)
(*                                                                         *)
(* The caller is the participant the command is for (the seller accepts,   *)
(* rejects and delivers, the buyer requests and confirms, either disputes  *)
(* and cancels): for any other user the first read finds nothing.          *)
(***************************************************************************)
EXTENDS MarketState

\* The module constant ACTIVE_TRADE_STATUSES.
ActiveTradeStatuses == {"REQUESTED", "ACCEPTED", "DELIVERED", "DISPUTED"}

TradeCallOf(op, t) ==
    [op |-> op, trade |-> t, saw |-> trade[t], hasOrder |-> payment[t] # Absent]

-----------------------------------------------------------------------------
(* request: the buyer asks for an ACTIVE product, once at a time.  (Blocks *)
(* and neighbourhoods are not part of this state: the buyer is one they    *)
(* let through.)                                                           *)
\* Mutant: the buyer's active trades are not looked up.
ReadRequestAgain(c, t) ==
    /\ trade[t] = Absent /\ ~Busy(t)
    /\ product[ProductOf[t]] = "ACTIVE"
    /\ Begin(c, TradeCallOf("request", t))

ReadRequest(c, t) ==
    /\ trade[t] = Absent /\ ~Busy(t)        \* a fresh id
    /\ product[ProductOf[t]] = "ACTIVE"
    /\ \A u \in TradesOf(ProductOf[t]) :
          BuyerOf[u] = BuyerOf[t] => trade[u] \notin ActiveTradeStatuses
    /\ Begin(c, TradeCallOf("request", t))

CreateTrade(c) ==
    /\ Serving(c, "request")
    /\ MoveTrade(calls[c].trade, Absent, "REQUESTED")
    /\ Answer(c)
    /\ UNCHANGED <<product, paymentRows, elapsed, outside, settling>>

-----------------------------------------------------------------------------
(* accept: reserve the product if it is still ACTIVE, take this trade and  *)
(* reject every other one that is REQUESTED for the same product.          *)
ReadAccept(c, t) ==
    trade[t] = "REQUESTED" /\ Begin(c, TradeCallOf("accept", t))

\* Mutant: nothing competes.
CompetingNone(t) == {}

Competing(t) ==
    {u \in TradesOf(ProductOf[t]) \ {t} : trade[u] = "REQUESTED"}

\* Mutant: the product is updated by id.
StillExists(p) == product[p] # Absent

\* The condition of product.updateMany.
StillActive(p) == product[p] = "ACTIVE"

Accept(c) ==
    LET t == calls[c].trade
        p == ProductOf[t]
    IN  /\ Serving(c, "accept")
        /\ StillActive(p)
        /\ product' = [product EXCEPT ![p] = "RESERVED"]
        /\ trade' = [u \in Trades |-> IF u = t THEN "ACCEPTED"
                                      ELSE IF u \in Competing(t) THEN "REJECTED"
                                      ELSE trade[u]]
        /\ history' = [u \in Trades |->
              IF u \in {t} \cup Competing(t)
                THEN Append(history[u], [from |-> "REQUESTED", to |-> trade'[u]])
                ELSE history[u]]
        /\ elapsed' = Touch({t} \cup Competing(t), elapsed)
        /\ Answer(c)
        /\ UNCHANGED <<paymentRows, outside, settling>>

\* PRODUCT_ALREADY_RESERVED.
RefuseAccept(c) ==
    /\ Serving(c, "accept")
    /\ ~StillActive(ProductOf[calls[c].trade])
    /\ Refuse(c)

-----------------------------------------------------------------------------
(* reject.                                                                 *)
\* Mutant: an accepted trade can be rejected too.
ReadRejectLate(c, t) ==
    trade[t] \in {"REQUESTED", "ACCEPTED"} /\ Begin(c, TradeCallOf("reject", t))

ReadReject(c, t) ==
    trade[t] = "REQUESTED" /\ Begin(c, TradeCallOf("reject", t))

Reject(c) ==
    LET t == calls[c].trade
    IN  /\ Serving(c, "reject")
        /\ MoveTrade(t, "REQUESTED", "REJECTED")
        /\ elapsed' = Touch({t}, elapsed)
        /\ Answer(c)
        /\ UNCHANGED <<product, paymentRows, outside, settling>>

-----------------------------------------------------------------------------
(* deliver: the seller hands the goods over once the money is in escrow;   *)
(* the period to the automatic confirmation starts.                        *)
ReadDeliver(c, t) ==
    /\ trade[t] = "ACCEPTED"
    /\ payment[t] = "APPROVED"
    /\ Begin(c, TradeCallOf("deliver", t))

Deliver(c) ==
    LET t == calls[c].trade
    IN  /\ Serving(c, "deliver")
        /\ MoveTrade(t, "ACCEPTED", "DELIVERED")
        /\ elapsed' = Restart(t, "autoConfirm", Touch({t}, elapsed))
        /\ Answer(c)
        /\ UNCHANGED <<product, paymentRows, outside, settling>>

-----------------------------------------------------------------------------
(* confirm: the buyer has the goods; the product is sold, and the money is *)
(* held for the settlement period, which starts now.                       *)
ReadConfirm(c, t) ==
    /\ trade[t] = "DELIVERED"
    /\ payment[t] = "APPROVED"
    /\ Begin(c, TradeCallOf("confirm", t))

Confirm(c) ==
    LET t == calls[c].trade
    IN  /\ Serving(c, "confirm")
        /\ MoveTrade(t, "DELIVERED", "CONFIRMED")
        /\ product' = [product EXCEPT ![ProductOf[t]] = "SOLD"]
        /\ settlement' = [settlement EXCEPT ![t] = "HOLD"]
        /\ elapsed' = Restart(t, "hold", Touch({t}, elapsed))
        /\ Answer(c)
        /\ UNCHANGED <<payment, ledger, operations, outside, settling>>

-----------------------------------------------------------------------------
(* dispute: from then on the settlement is to stay paused.                 *)
ReadDispute(c, t) ==
    /\ trade[t] \in {"ACCEPTED", "DELIVERED", "CONFIRMED"}
    /\ Begin(c, TradeCallOf("dispute", t))

\* payment.updateMany({ where: { tradeId } }): no row, no effect.
Pause(t) ==
    settlement' = [settlement EXCEPT ![t] = IF payment[t] = Absent THEN @ ELSE "PAUSED"]

Dispute(c) ==
    LET t == calls[c].trade
    IN  /\ Serving(c, "dispute")
        /\ MoveTrade(t, calls[c].saw, "DISPUTED")
        /\ Pause(t)
        /\ elapsed' = Touch({t}, elapsed)
        /\ Answer(c)
        /\ UNCHANGED <<product, payment, ledger, operations, outside, settling>>

-----------------------------------------------------------------------------
(* cancel: either side gives up a trade whose payment is not approved.  A  *)
(* payment order seen by the read is closed if it is still open; an order  *)
(* that came later is not.                                                 *)
ReadCancel(c, t) ==
    /\ trade[t] \in {"REQUESTED", "ACCEPTED"}
    /\ payment[t] # "APPROVED"
    /\ Begin(c, TradeCallOf("cancel", t))

\* Mutant: an approved payment counts as open.
OpenOrderOrPaid == {"READY", "UNCONFIRMED", "FAILED", "APPROVED"}

OpenOrder == {"READY", "UNCONFIRMED", "FAILED"}

\* Mutant: the order is left as it is.
LeaveOrder(t, seen) == UNCHANGED <<payment, settlement>>

\* Mutant: both statuses get the name of the payment's.
CloseOrderAlike(t, seen) ==
    LET closes == seen /\ payment[t] \in OpenOrder
    IN  /\ payment' = [payment EXCEPT ![t] = IF closes THEN "CANCELLED" ELSE @]
        /\ settlement' = [settlement EXCEPT ![t] = IF closes THEN "CANCELLED" ELSE @]

CloseOrder(t, seen) ==
    LET closes == seen /\ payment[t] \in OpenOrder
    IN  /\ payment' = [payment EXCEPT ![t] = IF closes THEN "CANCELLED" ELSE @]
        /\ settlement' = [settlement EXCEPT ![t] = IF closes THEN "PAUSED" ELSE @]

Cancel(c) ==
    LET t == calls[c].trade
    IN  /\ Serving(c, "cancel")
        /\ IF calls[c].saw = "ACCEPTED" THEN Unreserve(ProductOf[t]) ELSE UNCHANGED product
        /\ CloseOrder(t, calls[c].hasOrder)
        /\ MoveTrade(t, calls[c].saw, "CANCELLED")
        /\ elapsed' = Touch({t}, elapsed)
        /\ Answer(c)
        /\ UNCHANGED <<ledger, operations, outside, settling>>

-----------------------------------------------------------------------------
TradeServiceNext ==
    \E c \in Callers :
        \/ \E t \in Trades :
              \/ ReadRequest(c, t) \/ ReadAccept(c, t) \/ ReadReject(c, t)
              \/ ReadDeliver(c, t) \/ ReadConfirm(c, t) \/ ReadDispute(c, t)
              \/ ReadCancel(c, t)
        \/ CreateTrade(c) \/ Accept(c) \/ RefuseAccept(c) \/ Reject(c) \/ Deliver(c)
        \/ Confirm(c) \/ Dispute(c) \/ Cancel(c)

=============================================================================
