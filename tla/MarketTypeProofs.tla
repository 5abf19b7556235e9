-------------------------- MODULE MarketTypeProofs --------------------------
(***************************************************************************)
(* Type correctness of the market, for any trades, products, keys, callers *)
(* and workers.                                                            *)
(***************************************************************************)
EXTENDS Market, TLAPS

-----------------------------------------------------------------------------
(* What the kind of a call says about its record.                          *)

LEMMA TradeCallTyped ==
    ASSUME TypeOK, NEW c \in Callers, calls[c] # NoCall, calls[c].op \in TradeHandlers
    PROVE  calls[c] \in TradeCall
BY DEF TypeOK, Call, TradeCall, PaymentCall, ProductCall, TradeHandlers,
       PaymentHandlers, ProductHandlers

LEMMA PaymentCallTyped ==
    ASSUME TypeOK, NEW c \in Callers, calls[c] # NoCall, calls[c].op \in PaymentHandlers
    PROVE  calls[c] \in PaymentCall
BY DEF TypeOK, Call, TradeCall, PaymentCall, ProductCall, TradeHandlers,
       PaymentHandlers, ProductHandlers

LEMMA ProductCallTyped ==
    ASSUME TypeOK, NEW c \in Callers, calls[c] # NoCall, calls[c].op \in ProductHandlers
    PROVE  calls[c] \in ProductCall
BY DEF TypeOK, Call, TradeCall, PaymentCall, ProductCall, TradeHandlers,
       PaymentHandlers, ProductHandlers

(* The two shapes of a step that changes no row.                           *)
LEMMA BeginTyped ==
    ASSUME TypeOK, NEW c \in Callers, NEW call \in Call, Begin(c, call)
    PROVE  TypeOK'
BY DEF TypeOK, Begin, database, tradeRows, paymentRows, outside

LEMMA RefuseTyped ==
    ASSUME TypeOK, NEW c \in Callers, Refuse(c)
    PROVE  TypeOK'
BY DEF TypeOK, Refuse, Answer, database, tradeRows, paymentRows, outside

LEMMA AnswerTyped ==
    ASSUME TypeOK, NEW c \in Callers, Answer(c)
    PROVE  calls' \in [Callers -> Call \cup {NoCall}]
BY DEF TypeOK, Answer

LEMMA MoveTradeTyped ==
    ASSUME TypeOK, NEW t \in Trades, NEW from \in TradeStatus \cup {Absent},
           NEW to \in TradeStatus, MoveTrade(t, from, to)
    PROVE  /\ trade' \in [Trades -> TradeStatus \cup {Absent}]
           /\ history' \in [Trades -> Seq(Row)]
<1>1. [from |-> from, to |-> to] \in Row
  BY DEF Row
<1>2. trade' \in [Trades -> TradeStatus \cup {Absent}]
  BY DEF TypeOK, MoveTrade
<1>3. Append(history[t], [from |-> from, to |-> to]) \in Seq(Row)
  BY <1>1 DEF TypeOK
<1>4. history' \in [Trades -> Seq(Row)]
  BY <1>3 DEF TypeOK, MoveTrade
<1> QED BY <1>2, <1>4

LEMMA TouchTyped ==
    ASSUME NEW ts, NEW over \in [Trades -> SUBSET Period]
    PROVE  Touch(ts, over) \in [Trades -> SUBSET Period]
BY DEF Touch

LEMMA RestartTyped ==
    ASSUME NEW t, NEW x, NEW over \in [Trades -> SUBSET Period]
    PROVE  Restart(t, x, over) \in [Trades -> SUBSET Period]
BY DEF Restart


-----------------------------------------------------------------------------
(* TradeService.                                                           *)

LEMMA TradeServiceTyped ==
    ASSUME TypeOK, TradeServiceNext
    PROVE  TypeOK'
<1> USE MarketAssumption
<1>1. ASSUME NEW c \in Callers, NEW t \in Trades,
             \/ ReadRequest(c, t) \/ ReadAccept(c, t) \/ ReadReject(c, t)
             \/ ReadDeliver(c, t) \/ ReadConfirm(c, t) \/ ReadDispute(c, t)
             \/ ReadCancel(c, t)
      PROVE  TypeOK'
  <2>1. PICK op \in TradeHandlers : Begin(c, TradeCallOf(op, t))
    BY <1>1 DEF ReadRequest, ReadAccept, ReadReject, ReadDeliver, ReadConfirm,
                ReadDispute, ReadCancel, TradeHandlers
  <2>2. TradeCallOf(op, t) \in Call
    BY DEF TradeCallOf, TypeOK, Call, TradeCall
  <2> QED BY <2>1, <2>2, BeginTyped
<1>2. ASSUME NEW c \in Callers, CreateTrade(c)
      PROVE  TypeOK'
  <2>1. calls[c].trade \in Trades
    BY <1>2, TradeCallTyped DEF CreateTrade, Serving, TradeHandlers, TradeCall
  <2> QED
    BY <1>2, <2>1, AnswerTyped, MoveTradeTyped
    DEF CreateTrade, TypeOK, TradeStatus, paymentRows, outside
<1>3. ASSUME NEW c \in Callers, Accept(c)
      PROVE  TypeOK'
  <2> DEFINE t == calls[c].trade
  <2>1. t \in Trades
    BY <1>3, TradeCallTyped DEF Accept, Serving, TradeHandlers, TradeCall
  <2>2. product' \in [Products -> ProductStatus]
    BY <1>3 DEF Accept, TypeOK, ProductStatus
  <2>3. trade' \in [Trades -> TradeStatus \cup {Absent}]
    BY <1>3 DEF Accept, TypeOK, TradeStatus
  <2>4. ASSUME NEW u \in {t} \cup Competing(t)
        PROVE  [from |-> "REQUESTED", to |-> trade'[u]] \in Row
    BY <1>3, <2>1 DEF Accept, Row, TradeStatus, Competing, TradesOf
  <2>5. ASSUME NEW u \in {t} \cup Competing(t)
        PROVE  Append(history[u], [from |-> "REQUESTED", to |-> trade'[u]]) \in Seq(Row)
    <3>1. history[u] \in Seq(Row)
      BY <2>1 DEF TypeOK, Competing, TradesOf
    <3> QED BY <2>4, <3>1
  <2>6. history' \in [Trades -> Seq(Row)]
    BY <1>3, <2>5 DEF Accept, TypeOK
  <2> QED
    BY <1>3, <2>1, <2>2, <2>3, <2>6, AnswerTyped, TouchTyped
    DEF Accept, TypeOK, paymentRows, outside
<1>4. ASSUME NEW c \in Callers, RefuseAccept(c)
      PROVE  TypeOK'
  BY <1>4, RefuseTyped DEF RefuseAccept
<1>5. ASSUME NEW c \in Callers, Reject(c)
      PROVE  TypeOK'
  <2>1. calls[c].trade \in Trades
    BY <1>5, TradeCallTyped DEF Reject, Serving, TradeHandlers, TradeCall
  <2> QED
    BY <1>5, <2>1, AnswerTyped, MoveTradeTyped, TouchTyped
    DEF Reject, TypeOK, TradeStatus, paymentRows, outside
<1>6. ASSUME NEW c \in Callers, Deliver(c)
      PROVE  TypeOK'
  <2>1. calls[c].trade \in Trades
    BY <1>6, TradeCallTyped DEF Deliver, Serving, TradeHandlers, TradeCall
  <2>2. elapsed' \in [Trades -> SUBSET Period]
    BY <1>6, TouchTyped, RestartTyped DEF Deliver, TypeOK
  <2> QED
    BY <1>6, <2>1, <2>2, AnswerTyped, MoveTradeTyped
    DEF Deliver, TypeOK, TradeStatus, paymentRows, outside
<1>7. ASSUME NEW c \in Callers, Confirm(c)
      PROVE  TypeOK'
  <2>1. calls[c].trade \in Trades
    BY <1>7, TradeCallTyped DEF Confirm, Serving, TradeHandlers, TradeCall
  <2>2. elapsed' \in [Trades -> SUBSET Period]
    BY <1>7, TouchTyped, RestartTyped DEF Confirm, TypeOK
  <2>3. /\ product' \in [Products -> ProductStatus]
        /\ settlement' \in [Trades -> SettlementStatus \cup {Absent}]
    BY <1>7 DEF Confirm, TypeOK, ProductStatus, SettlementStatus
  <2> QED
    BY <1>7, <2>1, <2>2, <2>3, AnswerTyped, MoveTradeTyped
    DEF Confirm, TypeOK, TradeStatus, outside
<1>8. ASSUME NEW c \in Callers, Dispute(c)
      PROVE  TypeOK'
  <2>1. calls[c].trade \in Trades /\ calls[c].saw \in TradeStatus \cup {Absent}
    BY <1>8, TradeCallTyped DEF Dispute, Serving, TradeHandlers, TradeCall
  <2>2. settlement' \in [Trades -> SettlementStatus \cup {Absent}]
    BY <1>8 DEF Dispute, Pause, TypeOK, SettlementStatus
  <2> QED
    BY <1>8, <2>1, <2>2, AnswerTyped, MoveTradeTyped, TouchTyped
    DEF Dispute, TypeOK, TradeStatus, outside
<1>9. ASSUME NEW c \in Callers, Cancel(c)
      PROVE  TypeOK'
  <2>1. calls[c].trade \in Trades /\ calls[c].saw \in TradeStatus \cup {Absent}
    BY <1>9, TradeCallTyped DEF Cancel, Serving, TradeHandlers, TradeCall
  <2>2. product' \in [Products -> ProductStatus]
    BY <1>9 DEF Cancel, Unreserve, TypeOK, ProductStatus
  <2>3. /\ payment' \in [Trades -> PaymentStatus \cup {Absent}]
        /\ settlement' \in [Trades -> SettlementStatus \cup {Absent}]
    BY <1>9 DEF Cancel, CloseOrder, TypeOK, PaymentStatus, SettlementStatus
  <2> QED
    BY <1>9, <2>1, <2>2, <2>3, AnswerTyped, MoveTradeTyped, TouchTyped
    DEF Cancel, TypeOK, TradeStatus, outside
<1> QED
  BY <1>1, <1>2, <1>3, <1>4, <1>5, <1>6, <1>7, <1>8, <1>9 DEF TradeServiceNext

-----------------------------------------------------------------------------
(* PaymentService.                                                         *)

LEMMA RecordTyped ==
    ASSUME TypeOK, NEW k \in Keys, NEW action \in PaymentAction, NEW t \in Trades,
           Record(k, action, t)
    PROVE  operations' \subseteq Operation
BY DEF TypeOK, Record, Operation

LEMMA PostTyped ==
    ASSUME TypeOK, NEW t \in Trades, NEW entry \in LedgerEntryType, Post(t, entry)
    PROVE  ledger' \in [Trades -> SUBSET LedgerEntryType]
BY DEF TypeOK, Post

LEMMA PaymentServiceTyped ==
    ASSUME TypeOK, PaymentServiceNext
    PROVE  TypeOK'
<1> USE MarketAssumption
<1>1. ASSUME NEW c \in Callers, NEW t \in Trades, NEW k \in Keys, CreateOrder(c, t, k)
      PROVE  TypeOK'
  <2>1. operations' \subseteq Operation
    BY <1>1, RecordTyped DEF CreateOrder, PaymentAction
  <2> QED
    BY <1>1, <2>1
    DEF CreateOrder, TypeOK, PaymentStatus, SettlementStatus, tradeRows, outside
<1>2. ASSUME NEW c \in Callers, NEW t \in Trades, NEW k \in Keys,
             \/ ReadConfirmPayment(c, t, k) \/ ReadCancelPayment(c, t, k)
             \/ ReadRefund(c, t, k)
      PROVE  TypeOK'
  <2>1. trade[t] \in TradeStatus
    BY <1>2 DEF ReadConfirmPayment, ReadCancelPayment, ReadRefund, TradeStatus
  <2>2. PICK op \in PaymentHandlers : Begin(c, PaymentCallOf(op, t, k))
    BY <1>2 DEF ReadConfirmPayment, ReadCancelPayment, ReadRefund, PaymentHandlers
  <2>3. PaymentCallOf(op, t, k) \in Call
    BY <2>1 DEF PaymentCallOf, Call, PaymentCall
  <2> QED BY <2>2, <2>3, BeginTyped
<1>3. ASSUME NEW c \in Callers, ProviderConfirms(c) \/ ProviderReverses(c)
      PROVE  TypeOK'
  <2>1. calls[c] \in PaymentCall
    BY <1>3, PaymentCallTyped
    DEF ProviderConfirms, ProviderReverses, Unanswered, Serving, PaymentHandlers
  <2>2. [calls[c] EXCEPT !.answered = TRUE] \in Call
    BY <2>1 DEF PaymentCall, Call
  <2>3. calls' \in [Callers -> Call \cup {NoCall}]
    BY <1>3, <2>2 DEF ProviderConfirms, ProviderReverses, TypeOK
  <2>4. toss' \in [Trades -> ProviderStatus \cup {Absent}]
    BY <1>3 DEF ProviderConfirms, ProviderReverses, TypeOK, ProviderStatus
  <2> QED
    BY <1>3, <2>3, <2>4
    DEF ProviderConfirms, ProviderReverses, TypeOK, database, tradeRows, paymentRows
<1>4. ASSUME NEW c \in Callers, ConfirmPayment(c)
      PROVE  TypeOK'
  <2>1. calls[c].trade \in Trades /\ calls[c].key \in Keys
    BY <1>4, PaymentCallTyped
    DEF ConfirmPayment, Answered, Serving, PaymentHandlers, PaymentCall
  <2>2. /\ operations' \subseteq Operation
        /\ ledger' \in [Trades -> SUBSET LedgerEntryType]
    BY <1>4, <2>1, RecordTyped, PostTyped
    DEF ConfirmPayment, PaymentAction, LedgerEntryType
  <2> QED
    BY <1>4, <2>1, <2>2, AnswerTyped, RestartTyped
    DEF ConfirmPayment, TypeOK, PaymentStatus, tradeRows, outside
<1>5. ASSUME NEW c \in Callers, RefuseConfirmPayment(c) \/ RefuseReversal(c)
      PROVE  TypeOK'
  BY <1>5, RefuseTyped DEF RefuseConfirmPayment, RefuseReversal
<1>6. ASSUME NEW c \in Callers, CancelPayment(c)
      PROVE  TypeOK'
  <2>1. /\ calls[c].trade \in Trades /\ calls[c].key \in Keys
        /\ calls[c].saw \in TradeStatus \cup {Absent}
    BY <1>6, PaymentCallTyped
    DEF CancelPayment, Answered, Serving, PaymentHandlers, PaymentCall
  <2>2. /\ operations' \subseteq Operation
        /\ ledger' \in [Trades -> SUBSET LedgerEntryType]
    BY <1>6, <2>1, RecordTyped, PostTyped
    DEF CancelPayment, PaymentAction, LedgerEntryType
  <2>3. /\ product' \in [Products -> ProductStatus]
        /\ payment' \in [Trades -> PaymentStatus \cup {Absent}]
        /\ settlement' \in [Trades -> SettlementStatus \cup {Absent}]
    BY <1>6 DEF CancelPayment, TypeOK, ProductStatus, PaymentStatus, SettlementStatus
  <2> QED
    BY <1>6, <2>1, <2>2, <2>3, AnswerTyped, MoveTradeTyped, TouchTyped
    DEF CancelPayment, TypeOK, TradeStatus, outside
<1>7. ASSUME NEW c \in Callers, Refund(c)
      PROVE  TypeOK'
  <2>1. /\ calls[c].trade \in Trades /\ calls[c].key \in Keys
        /\ calls[c].saw \in TradeStatus \cup {Absent}
    BY <1>7, PaymentCallTyped
    DEF Refund, Answered, Serving, PaymentHandlers, PaymentCall
  <2>2. /\ operations' \subseteq Operation
        /\ ledger' \in [Trades -> SUBSET LedgerEntryType]
    BY <1>7, <2>1, RecordTyped, PostTyped
    DEF Refund, PaymentAction, LedgerEntryType
  <2>3. /\ payment' \in [Trades -> PaymentStatus \cup {Absent}]
        /\ settlement' \in [Trades -> SettlementStatus \cup {Absent}]
    BY <1>7 DEF Refund, TypeOK, PaymentStatus, SettlementStatus
  <2>4. /\ trade' \in [Trades -> TradeStatus \cup {Absent}]
        /\ history' \in [Trades -> Seq(Row)]
        /\ elapsed' \in [Trades -> SUBSET Period]
    BY <1>7, <2>1, MoveTradeTyped, TouchTyped DEF Refund, TypeOK, TradeStatus, tradeRows
  <2> QED
    BY <1>7, <2>2, <2>3, <2>4, AnswerTyped DEF Refund, TypeOK, outside
<1> QED
  BY <1>1, <1>2, <1>3, <1>4, <1>5, <1>6, <1>7 DEF PaymentServiceNext

-----------------------------------------------------------------------------
(* ProductService and Maintenance.                                         *)

LEMMA ProductServiceTyped ==
    ASSUME TypeOK, ProductServiceNext
    PROVE  TypeOK'
<1>1. ASSUME NEW c \in Callers, NEW p \in Products, NEW op \in ProductHandlers,
             NEW to \in ProductStatus, Begin(c, ProductCallOf(op, p, to))
      PROVE  TypeOK'
  <2>1. ProductCallOf(op, p, to) \in Call
    BY DEF ProductCallOf, Call, ProductCall
  <2> QED BY <1>1, <2>1, BeginTyped
<1>2. ASSUME NEW c \in Callers, UpdateProduct(c)
      PROVE  TypeOK'
  <2>1. calls[c].product \in Products /\ calls[c].to \in ProductStatus
    BY <1>2, ProductCallTyped DEF UpdateProduct, ProductCall
  <2> QED
    BY <1>2, <2>1, AnswerTyped DEF UpdateProduct, TypeOK, tradeRows, paymentRows, outside
<1>3. ASSUME NEW author \in SUBSET Products, HideProductsOf(author)
      PROVE  TypeOK'
  <2>1. product' \in [Products -> ProductStatus]
    BY <1>3 DEF HideProductsOf, TypeOK, ProductStatus
  <2> QED BY <1>3, <2>1 DEF HideProductsOf, TypeOK, tradeRows, paymentRows, outside
<1> QED
  BY <1>1, <1>2, <1>3
  DEF ProductServiceNext, ReadSetStatus, ReadRemove, ReadHideProduct, ProductHandlers,
      ProductStatus

LEMMA JobTyped ==
    ASSUME TypeOK, NEW w \in Workers, NEW job \in SettlementJob,
           settling' = [settling EXCEPT ![w] = job]
    PROVE  settling' \in [Workers -> SettlementJob]
BY DEF TypeOK

LEMMA SettlementStepTyped ==
    ASSUME TypeOK, NEW w \in Workers, SettlementStep(w) \/ WorkerCrash(w)
    PROVE  TypeOK'
<1> USE MarketAssumption
<1>1. settling[w] \in SettlementJob
  BY DEF TypeOK
<1>2. CASE ReleaseHolds(w)
  BY <1>2 DEF ReleaseHolds, TypeOK, SettlementStatus, tradeRows, outside
<1>3. CASE FindDue(w)
  <2>1. [stage |-> "claiming", due |-> Payable, paying |-> NoTrade] \in SettlementJob
    BY DEF SettlementJob, Payable
  <2> QED
    BY <1>3, <2>1, JobTyped DEF FindDue, TypeOK, database, tradeRows, paymentRows, outside
<1>4. ASSUME NEW t \in Trades, Claim(w, t)
      PROVE  TypeOK'
  <2>1. [stage |-> "paying", due |-> settling[w].due \ {t}, paying |-> t] \in SettlementJob
    BY <1>1 DEF SettlementJob
  <2>2. settling' \in [Workers -> SettlementJob]
    BY <1>4, <2>1, JobTyped DEF Claim
  <2> QED
    BY <1>4, <2>2 DEF Claim, TypeOK, SettlementStatus, tradeRows, outside
<1>5. ASSUME NEW t \in Trades, SkipClaim(w, t)
      PROVE  TypeOK'
  <2>1. [settling[w] EXCEPT !.due = @ \ {t}] \in SettlementJob
    BY <1>1 DEF SettlementJob
  <2>2. settling' \in [Workers -> SettlementJob]
    BY <1>5, <2>1, JobTyped DEF SkipClaim
  <2> QED
    BY <1>5, <2>2 DEF SkipClaim, TypeOK, database, tradeRows, paymentRows, outside
<1>6. ASSUME PayoutSucceeds(w) \/ PayoutFails(w)
      PROVE  TypeOK'
  <2>1. settling[w].paying \in Trades
    BY <1>1, <1>6 DEF PayoutSucceeds, PayoutFails, SettlementJob
  <2>2. /\ [settling[w] EXCEPT !.stage = "paid"] \in SettlementJob
        /\ [settling[w] EXCEPT !.stage = "unpaid"] \in SettlementJob
    BY <1>1, <2>1 DEF SettlementJob
  <2>3. settling' \in [Workers -> SettlementJob]
    BY <1>6, <2>2, JobTyped DEF PayoutSucceeds, PayoutFails
  <2>4. payouts' \subseteq Trades
    BY <1>6, <2>1 DEF PayoutSucceeds, PayoutFails, TypeOK
  <2> QED
    BY <1>6, <2>3, <2>4
    DEF PayoutSucceeds, PayoutFails, TypeOK, database, tradeRows, paymentRows
<1>7. ASSUME SettlePayment(w) \/ FailSettlement(w)
      PROVE  TypeOK'
  <2>1. [stage |-> "claiming", due |-> settling[w].due, paying |-> NoTrade] \in SettlementJob
    BY <1>1 DEF SettlementJob
  <2>2. settling' \in [Workers -> SettlementJob]
    BY <1>7, <2>1, JobTyped DEF SettlePayment, FailSettlement, NextItem
  <2>3. ledger' \in [Trades -> SUBSET LedgerEntryType]
    BY <1>7 DEF SettlePayment, FailSettlement, TypeOK, LedgerEntryType
  <2>4. settlement' \in [Trades -> SettlementStatus \cup {Absent}]
    BY <1>7 DEF SettlePayment, FailSettlement, TypeOK, SettlementStatus
  <2> QED
    BY <1>7, <2>2, <2>3, <2>4 DEF SettlePayment, FailSettlement, TypeOK, tradeRows, outside
<1>8. CASE EndJob(w) \/ WorkerCrash(w)
  <2>1. IdleJob \in SettlementJob
    BY DEF IdleJob, SettlementJob
  <2> QED
    BY <1>8, <2>1, JobTyped
    DEF EndJob, WorkerCrash, TypeOK, database, tradeRows, paymentRows, outside
<1> QED
  BY <1>2, <1>3, <1>4, <1>5, <1>6, <1>7, <1>8 DEF SettlementStep

LEMMA TradeJobTyped ==
    ASSUME TypeOK, NEW t \in Trades, AutoConfirm(t) \/ ExpireUnpaid(t)
    PROVE  TypeOK'
<1> USE MarketAssumption
<1>1. CASE AutoConfirm(t)
  <2>1. /\ product' \in [Products -> ProductStatus]
        /\ settlement' \in [Trades -> SettlementStatus \cup {Absent}]
    BY <1>1 DEF AutoConfirm, TypeOK, ProductStatus, SettlementStatus
  <2>2. elapsed' \in [Trades -> SUBSET Period]
    BY <1>1, TouchTyped, RestartTyped DEF AutoConfirm, TypeOK
  <2> QED
    BY <1>1, <2>1, <2>2, MoveTradeTyped DEF AutoConfirm, TypeOK, TradeStatus, outside
<1>2. CASE ExpireUnpaid(t)
  <2>1. product' \in [Products -> ProductStatus]
    BY <1>2 DEF ExpireUnpaid, Unreserve, TypeOK, ProductStatus
  <2> QED
    BY <1>2, <2>1, MoveTradeTyped, TouchTyped
    DEF ExpireUnpaid, TypeOK, TradeStatus, paymentRows, outside
<1> QED BY <1>1, <1>2

-----------------------------------------------------------------------------
(* The composition.                                                        *)

LEMMA InitTyped == Init => TypeOK
BY DEF Init, TypeOK, ProductStatus, IdleJob, SettlementJob

LEMMA NextTyped == TypeOK /\ [Next]_vars => TypeOK'
<1> SUFFICES ASSUME TypeOK, [Next]_vars PROVE TypeOK'
  OBVIOUS
<1>1. CASE TradeServiceNext
  BY <1>1, TradeServiceTyped
<1>2. CASE PaymentServiceNext
  BY <1>2, PaymentServiceTyped
<1>3. CASE ProductServiceNext
  BY <1>3, ProductServiceTyped
<1>4. CASE MaintenanceNext
  BY <1>4, TradeJobTyped, SettlementStepTyped DEF MaintenanceNext
<1>5. ASSUME NEW c \in Callers, CallLost(c)
      PROVE  TypeOK'
  BY <1>5, RefuseTyped DEF CallLost
<1>6. ASSUME NEW t \in Trades, NEW x \in Period, PeriodEnds(t, x)
      PROVE  TypeOK'
  BY <1>6 DEF PeriodEnds, TypeOK, tradeRows, paymentRows, outside
<1>7. CASE UNCHANGED vars
  BY <1>7 DEF vars, TypeOK, database, tradeRows, paymentRows, outside
<1> QED
  BY <1>1, <1>2, <1>3, <1>4, <1>5, <1>6, <1>7 DEF Next

(* Every reachable state of the market has the types of TypeOK: no handler *)
(* or job writes a status its column does not have, in any interleaving.   *)
THEOREM TypeCorrect == Spec => []TypeOK
BY InitTyped, NextTyped, PTL DEF Spec

=============================================================================
