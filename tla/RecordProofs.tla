---------------------------- MODULE RecordProofs ----------------------------
(***************************************************************************)
(* What the market records of trades and payments, for any trades, keys,   *)
(* callers and workers: the history of every trade leads to its status,    *)
(* the market implements PaymentLife, and the idempotency records agree    *)
(* with the ledger.                                                        *)
(*                                                                         *)
(* A call writes, and a provider acts, on what the call found before: the  *)
(* invariant of the payments says what of it must still be so.  It is kept *)
(* by every step of PaymentLife, so that the refinement is proved from it  *)
(* first, and the invariant from the refinement.                           *)
(***************************************************************************)
EXTENDS EscrowProofs

-----------------------------------------------------------------------------
(* The history.  All handlers that write one of history and status write   *)
(* the other in the same transaction, the one that accepts a trade for its *)
(* competitors too.                                                        *)
Leads(rows, status) ==
    status = IF rows = <<>> THEN Absent ELSE rows[Len(rows)].to

LEMMA AppendLeads ==
    ASSUME NEW rows \in Seq(Row), NEW from, NEW to, [from |-> from, to |-> to] \in Row
    PROVE  Leads(Append(rows, [from |-> from, to |-> to]), to)
<1> DEFINE row == [from |-> from, to |-> to]
           longer == Append(rows, row)
<1>1. Len(longer) = Len(rows) + 1 /\ longer[Len(rows) + 1] = row
  OBVIOUS
<1>2. longer # <<>>
  BY <1>1
<1> QED BY <1>1, <1>2 DEF Leads

LEMMA MoveLeads ==
    ASSUME TypeOK, StatusIsLastHistory, NEW t \in Trades,
           NEW from \in TradeStatus \cup {Absent}, NEW to \in TradeStatus,
           MoveTrade(t, from, to)
    PROVE  StatusIsLastHistory'
<1>1. [from |-> from, to |-> to] \in Row
  BY DEF Row
<1>2. history[t] \in Seq(Row)
  BY DEF TypeOK
<1>3. Leads(history'[t], trade'[t])
  BY <1>1, <1>2, AppendLeads DEF MoveTrade, TypeOK
<1>4. \A u \in Trades \ {t} : history'[u] = history[u] /\ trade'[u] = trade[u]
  BY DEF MoveTrade, TypeOK
<1> QED BY <1>3, <1>4 DEF StatusIsLastHistory, Leads

LEMMA AcceptLeads ==
    ASSUME TypeOK, StatusIsLastHistory, NEW c \in Callers, Accept(c)
    PROVE  StatusIsLastHistory'
<1> DEFINE t == calls[c].trade
           moved == {t} \cup Competing(t)
<1>1. ASSUME NEW u \in Trades \cap moved
      PROVE  Leads(history'[u], trade'[u])
  <2>1. trade'[u] \in {"ACCEPTED", "REJECTED"}
    BY <1>1 DEF Accept
  <2>2. history'[u] = Append(history[u], [from |-> "REQUESTED", to |-> trade'[u]])
    BY <1>1 DEF Accept
  <2>3. [from |-> "REQUESTED", to |-> trade'[u]] \in Row
    BY <2>1 DEF Row, TradeStatus
  <2>4. history[u] \in Seq(Row)
    BY DEF TypeOK
  <2> QED BY <2>2, <2>3, <2>4, AppendLeads
<1>2. \A u \in Trades \ moved : history'[u] = history[u] /\ trade'[u] = trade[u]
  BY DEF Accept
<1> QED BY <1>1, <1>2 DEF StatusIsLastHistory, Leads

LEMMA SameRowsLead ==
    ASSUME StatusIsLastHistory, UNCHANGED tradeRows
    PROVE  StatusIsLastHistory'
BY DEF StatusIsLastHistory, tradeRows

LEMMA NextLeads == TypeOK /\ StatusIsLastHistory /\ [Next]_vars => StatusIsLastHistory'
<1> SUFFICES ASSUME TypeOK, StatusIsLastHistory, [Next]_vars
             PROVE  StatusIsLastHistory'
  OBVIOUS
<1>1. ASSUME NEW c \in Callers, NEW op \in TradeHandlers \cup PaymentHandlers,
             Serving(c, op)
      PROVE  /\ calls[c].trade \in Trades
             /\ calls[c].saw \in TradeStatus \cup {Absent}
  BY <1>1, TradeCallTyped, PaymentCallTyped DEF Serving, TradeCall, PaymentCall
<1>2. CASE TradeServiceNext
  <2>1. ASSUME NEW c \in Callers,
               \/ CreateTrade(c) \/ Reject(c) \/ Deliver(c) \/ Confirm(c)
               \/ Dispute(c) \/ Cancel(c)
        PROVE  StatusIsLastHistory'
    BY <1>1, <2>1, MoveLeads
    DEF CreateTrade, Reject, Deliver, Confirm, Dispute, Cancel, TradeHandlers, TradeStatus
  <2>2. ASSUME NEW c \in Callers, NEW t \in Trades,
               \/ ReadRequest(c, t) \/ ReadAccept(c, t) \/ ReadReject(c, t)
               \/ ReadDeliver(c, t) \/ ReadConfirm(c, t) \/ ReadDispute(c, t)
               \/ ReadCancel(c, t)
        PROVE  StatusIsLastHistory'
    BY <2>2, SameRowsLead
    DEF ReadRequest, ReadAccept, ReadReject, ReadDeliver, ReadConfirm, ReadDispute,
        ReadCancel, Begin, database
  <2>3. ASSUME NEW c \in Callers, RefuseAccept(c)
        PROVE  StatusIsLastHistory'
    BY <2>3, SameRowsLead DEF RefuseAccept, Refuse, database
  <2> QED BY <1>2, <2>1, <2>2, <2>3, AcceptLeads DEF TradeServiceNext
<1>3. CASE PaymentServiceNext
  <2>1. ASSUME NEW c \in Callers, CancelPayment(c) \/ Refund(c)
        PROVE  StatusIsLastHistory'
    <3>1. /\ calls[c].trade \in Trades
          /\ calls[c].saw \in TradeStatus \cup {Absent}
      BY <1>1, <2>1 DEF CancelPayment, Refund, Answered, PaymentHandlers
    <3>2. \/ UNCHANGED tradeRows
          \/ \E to \in TradeStatus : MoveTrade(calls[c].trade, calls[c].saw, to)
      BY <2>1 DEF CancelPayment, Refund, TradeStatus
    <3> QED BY <3>1, <3>2, MoveLeads, SameRowsLead
  <2>2. ASSUME NEW c \in Callers, NEW t \in Trades, NEW k \in Keys,
               \/ CreateOrder(c, t, k) \/ ReadConfirmPayment(c, t, k)
               \/ ReadCancelPayment(c, t, k) \/ ReadRefund(c, t, k)
        PROVE  StatusIsLastHistory'
    BY <2>2, SameRowsLead
    DEF CreateOrder, ReadConfirmPayment, ReadCancelPayment, ReadRefund, Begin, database
  <2>3. ASSUME NEW c \in Callers,
               \/ ProviderConfirms(c) \/ ConfirmPayment(c) \/ RefuseConfirmPayment(c)
               \/ ProviderReverses(c) \/ RefuseReversal(c)
        PROVE  StatusIsLastHistory'
    BY <2>3, SameRowsLead
    DEF ProviderConfirms, ConfirmPayment, RefuseConfirmPayment, ProviderReverses,
        RefuseReversal, Refuse, database
  <2> QED BY <1>3, <2>1, <2>2, <2>3 DEF PaymentServiceNext
<1>4. CASE ProductServiceNext
  BY <1>4, SameRowsLead
  DEF ProductServiceNext, ReadSetStatus, ReadRemove, ReadHideProduct, UpdateProduct,
      HideProductsOf, Begin, database
<1>5. CASE MaintenanceNext
  <2>1. ASSUME NEW t \in Trades, AutoConfirm(t) \/ ExpireUnpaid(t)
        PROVE  StatusIsLastHistory'
    BY <2>1, MoveLeads DEF AutoConfirm, ExpireUnpaid, TradeStatus
  <2>2. ASSUME NEW w \in Workers, SettlementStep(w) \/ WorkerCrash(w)
        PROVE  StatusIsLastHistory'
    BY <2>2, SameRowsLead
    DEF SettlementStep, ReleaseHolds, FindDue, Claim, SkipClaim, PayoutSucceeds, PayoutFails,
        SettlePayment, FailSettlement, EndJob, WorkerCrash, database
  <2> QED BY <1>5, <2>1, <2>2 DEF MaintenanceNext
<1>6. CASE \/ \E c \in Callers : CallLost(c)
           \/ \E t \in Trades, x \in Period : PeriodEnds(t, x)
           \/ UNCHANGED vars
  BY <1>6, SameRowsLead DEF CallLost, Refuse, PeriodEnds, vars, database
<1> QED BY <1>2, <1>3, <1>4, <1>5, <1>6 DEF Next

(* The status of a trade is the one its last history row leads to, in      *)
(* every interleaving of the handlers of trade.service.ts, of              *)
(* payment.service.ts and of the jobs that move a trade.                   *)
THEOREM HistoryCorrect == Spec => []StatusIsLastHistory
<1>1. Init => StatusIsLastHistory
  BY DEF Init, StatusIsLastHistory, Absent
<1> QED BY <1>1, NextLeads, TypeCorrect, PTL DEF Spec

-----------------------------------------------------------------------------
(* The life of a payment.                                                  *)
\* What the provider did fits the status, where nothing is in between.
StatusFitsProvider ==
    \A t \in Trades :
        /\ payment[t] = Absent => toss[t] = Absent
        /\ payment[t] = "READY" => toss[t] # "CANCELED"
        /\ payment[t] = "APPROVED" => toss[t] # Absent

\* Approved, or reversed by another call that the provider had answered.
ApprovedOnce(t) ==
    \/ payment[t] = "APPROVED"
    \/ payment[t] \in Life!Reversed /\ toss[t] = "CANCELED"

Reversing(c) == Serving(c, "cancelPayment") \/ Serving(c, "refund")

CallsFoundTheirPayment ==
    \A c \in Callers :
        /\ Serving(c, "confirmPayment") => payment[calls[c].trade] # Absent
        /\ Reversing(c) => ApprovedOnce(calls[c].trade)

LifeInv == StatusFitsProvider /\ CallsFoundTheirPayment

-----------------------------------------------------------------------------
(* Every step is one of PaymentLife, or leaves it alone.                   *)

LEMMA PaymentOfCall ==
    ASSUME TypeOK, NEW c \in Callers,
           Serving(c, "confirmPayment") \/ Reversing(c)
    PROVE  calls[c].trade \in Trades
BY PaymentCallTyped DEF Serving, Reversing, PaymentHandlers, PaymentCall

LEMMA LifeStutters ==
    ASSUME UNCHANGED <<payment, toss>>
    PROVE  UNCHANGED Life!lvars
BY DEF Life!lvars

LEMMA CancelLives ==
    ASSUME TypeOK, EscrowInv, NEW c \in Callers, Cancel(c)
    PROVE  [Life!LifeNext]_(Life!lvars)
<1> DEFINE t == calls[c].trade
<1>1. UNCHANGED toss
  BY DEF Cancel, outside
<1>2. payment' = [payment EXCEPT ![t] =
          IF calls[c].hasOrder /\ payment[t] \in OpenOrder THEN "CANCELLED" ELSE @]
  BY DEF Cancel, CloseOrder
<1>3. CASE t \in Trades /\ payment[t] = "READY" /\ calls[c].hasOrder
  <2>1. payment' = [payment EXCEPT ![t] = "CANCELLED"]
    BY <1>2, <1>3 DEF OpenOrder
  <2> QED BY <1>1, <1>3, <2>1 DEF Life!LifeNext, Life!CloseUnpaid, Life!Becomes
<1>4. CASE ~(t \in Trades /\ payment[t] = "READY" /\ calls[c].hasOrder)
  <2>1. payment' = payment
    BY <1>2, <1>4 DEF OpenOrder, EscrowInv, KnownStatuses, TypeOK
  <2> QED BY <1>1, <2>1, LifeStutters
<1> QED BY <1>3, <1>4

LEMMA PaymentStepLives ==
    ASSUME TypeOK, EscrowInv, LifeInv, PaymentServiceNext
    PROVE  [Life!LifeNext]_(Life!lvars)
<1> USE DEF LifeInv
<1>1. ASSUME NEW c \in Callers, NEW t \in Trades, NEW k \in Keys, CreateOrder(c, t, k)
      PROVE  Life!LifeNext
  BY <1>1 DEF CreateOrder, outside, Absent, Life!LifeNext, Life!Order, Life!Becomes
<1>2. ASSUME NEW c \in Callers, NEW t \in Trades, NEW k \in Keys,
             \/ ReadConfirmPayment(c, t, k) \/ ReadCancelPayment(c, t, k)
             \/ ReadRefund(c, t, k)
      PROVE  UNCHANGED Life!lvars
  BY <1>2, LifeStutters
  DEF ReadConfirmPayment, ReadCancelPayment, ReadRefund, Begin, database, paymentRows, outside
<1>3. ASSUME NEW c \in Callers, ProviderConfirms(c)
      PROVE  [Life!LifeNext]_(Life!lvars)
  <2> DEFINE t == calls[c].trade
  <2>1. t \in Trades /\ payment[t] # Absent
    BY <1>3, PaymentOfCall DEF ProviderConfirms, Unanswered, CallsFoundTheirPayment
  <2>2. UNCHANGED payment
    BY <1>3 DEF ProviderConfirms, database, paymentRows
  <2>3. toss' = [toss EXCEPT ![t] = "DONE"] /\ toss[t] \in {Absent, "DONE"}
    BY <1>3 DEF ProviderConfirms
  <2>4. CASE toss[t] = Absent
    BY <2>1, <2>2, <2>3, <2>4 DEF Absent, Life!LifeNext, Life!Capture, Life!Provides
  <2>5. CASE toss[t] = "DONE"
    <3>1. toss' = toss
      BY <2>1, <2>3, <2>5 DEF TypeOK
    <3> QED BY <2>2, <3>1, LifeStutters
  <2> QED BY <2>3, <2>4, <2>5
<1>4. ASSUME NEW c \in Callers, ConfirmPayment(c)
      PROVE  Life!LifeNext
  <2> DEFINE t == calls[c].trade
  <2>1. t \in Trades /\ payment[t] = "READY" /\ toss[t] # Absent
    BY <1>4, PaymentOfCall
    DEF ConfirmPayment, StillReady, Answered, EscrowInv, ProviderAnswered
  <2>2. toss[t] = "DONE"
    BY <2>1 DEF StatusFitsProvider, TypeOK, ProviderStatus
  <2>3. payment' = [payment EXCEPT ![t] = "APPROVED"] /\ UNCHANGED toss
    BY <1>4 DEF ConfirmPayment, outside
  <2> QED BY <2>1, <2>2, <2>3 DEF Life!LifeNext, Life!Approve, Life!Becomes
<1>5. ASSUME NEW c \in Callers, ProviderReverses(c)
      PROVE  [Life!LifeNext]_(Life!lvars)
  <2> DEFINE t == calls[c].trade
  <2>1. t \in Trades /\ ApprovedOnce(t)
    BY <1>5, PaymentOfCall
    DEF ProviderReverses, Unanswered, Reversing, CallsFoundTheirPayment
  <2>2. /\ UNCHANGED payment
        /\ toss' = [toss EXCEPT ![t] = "CANCELED"] /\ toss[t] # Absent
    BY <1>5 DEF ProviderReverses, database, paymentRows
  <2>3. CASE toss[t] = "CANCELED"
    <3>1. toss' = toss
      BY <2>1, <2>2, <2>3 DEF TypeOK
    <3> QED BY <2>2, <3>1, LifeStutters
  <2>4. CASE toss[t] = "DONE"
    BY <2>1, <2>2, <2>4 DEF ApprovedOnce, Life!LifeNext, Life!GiveBack, Life!Provides
  <2> QED BY <2>1, <2>2, <2>3, <2>4 DEF TypeOK, ProviderStatus
<1>6. ASSUME NEW c \in Callers, CancelPayment(c) \/ Refund(c)
      PROVE  Life!LifeNext
  <2> DEFINE t == calls[c].trade
  <2>1. t \in Trades /\ toss[t] = "CANCELED" /\ ApprovedOnce(t)
    BY <1>6, PaymentOfCall
    DEF CancelPayment, Refund, Answered, Reversing, CallsFoundTheirPayment, EscrowInv,
        ProviderAnswered
  <2>2. PICK s \in Life!Reversed : payment' = [payment EXCEPT ![t] = s]
    BY <1>6 DEF CancelPayment, Refund, Life!Reversed
  <2>3. UNCHANGED toss
    BY <1>6 DEF CancelPayment, Refund, outside
  <2>4. Life!Reverse(t, s)
    BY <2>1, <2>2, <2>3 DEF ApprovedOnce, Life!Reverse, Life!Becomes
  <2> QED BY <2>1, <2>4 DEF Life!LifeNext
<1>7. ASSUME NEW c \in Callers, RefuseConfirmPayment(c) \/ RefuseReversal(c)
      PROVE  UNCHANGED Life!lvars
  BY <1>7, LifeStutters
  DEF RefuseConfirmPayment, RefuseReversal, Refuse, database, paymentRows, outside
<1> QED BY <1>1, <1>2, <1>3, <1>4, <1>5, <1>6, <1>7 DEF PaymentServiceNext

\* No job changes the status of a payment, or what the provider did.
LEMMA SettlementStepLives ==
    ASSUME NEW w \in Workers, SettlementStep(w) \/ WorkerCrash(w)
    PROVE  UNCHANGED <<payment, toss, calls>>
BY DEF SettlementStep, ReleaseHolds, FindDue, Claim, SkipClaim, PayoutSucceeds, PayoutFails,
       SettlePayment, FailSettlement, EndJob, WorkerCrash, database, paymentRows, outside

LEMMA NextLives ==
    TypeOK /\ EscrowInv /\ LifeInv /\ [Next]_vars => [Life!LifeNext]_(Life!lvars)
<1> SUFFICES ASSUME TypeOK, EscrowInv, LifeInv, [Next]_vars
             PROVE  [Life!LifeNext]_(Life!lvars)
  OBVIOUS
<1>1. MoneyUntouched => UNCHANGED Life!lvars
  BY LifeStutters DEF MoneyUntouched
<1>2. CASE TradeServiceNext
  BY <1>1, <1>2, CancelLives, TradeServiceUntouched
<1>3. CASE PaymentServiceNext
  BY <1>3, PaymentStepLives
<1>4. CASE ProductServiceNext
  BY <1>1, <1>4, ProductServiceUntouched
<1>5. CASE MaintenanceNext
  BY <1>1, <1>5, SettlementStepLives, LifeStutters, OtherUntouched DEF MaintenanceNext
<1>6. CASE \/ \E c \in Callers : CallLost(c)
           \/ \E t \in Trades, x \in Period : PeriodEnds(t, x)
           \/ UNCHANGED vars
  BY <1>1, <1>6, OtherUntouched
<1> QED BY <1>2, <1>3, <1>4, <1>5, <1>6 DEF Next

-----------------------------------------------------------------------------
(* The invariant.  A payment call in flight after a step was in flight     *)
(* before it, or has just found its payment.                               *)
CallsGoOn ==
    \A c \in Callers : (Serving(c, "confirmPayment") \/ Reversing(c))' =>
        \/ /\ Serving(c, "confirmPayment")' => Serving(c, "confirmPayment")
           /\ Reversing(c)' => Reversing(c)
           /\ calls'[c].trade = calls[c].trade
        \/ /\ UNCHANGED <<payment, toss>> /\ calls'[c].trade \in Trades
           /\ Serving(c, "confirmPayment")' => payment[calls'[c].trade] = "READY"
           /\ Reversing(c)' => payment[calls'[c].trade] = "APPROVED"

LEMMA AnswerGoesOn ==
    ASSUME TypeOK, NEW c \in Callers, Answer(c)
    PROVE  CallsGoOn
BY DEF TypeOK, Answer, CallsGoOn, Serving, Reversing

LEMMA PaymentStepGoesOn ==
    ASSUME TypeOK, PaymentServiceNext
    PROVE  CallsGoOn
<1>1. ASSUME NEW c \in Callers, NEW t \in Trades, NEW k \in Keys, CreateOrder(c, t, k)
      PROVE  CallsGoOn
  BY <1>1 DEF CreateOrder, CallsGoOn, Serving, Reversing
<1>2. ASSUME NEW c \in Callers, NEW t \in Trades, NEW k \in Keys,
             \/ ReadConfirmPayment(c, t, k) \/ ReadCancelPayment(c, t, k)
             \/ ReadRefund(c, t, k)
      PROVE  CallsGoOn
  <2>1. UNCHANGED <<payment, toss>>
    BY <1>2 DEF ReadConfirmPayment, ReadCancelPayment, ReadRefund, Begin, database,
                paymentRows, outside
  <2>2. PICK op \in PaymentHandlers :
           /\ calls' = [calls EXCEPT ![c] = PaymentCallOf(op, t, k)]
           /\ op = "confirmPayment" => payment[t] = "READY"
           /\ op # "confirmPayment" => payment[t] = "APPROVED"
    BY <1>2 DEF ReadConfirmPayment, ReadCancelPayment, ReadRefund, Begin, PaymentHandlers
  <2>3. /\ calls'[c].trade = t /\ calls'[c].op = op
        /\ \A d \in Callers \ {c} : calls'[d] = calls[d]
    BY <2>2 DEF PaymentCallOf, TypeOK
  <2> QED BY <2>1, <2>2, <2>3 DEF CallsGoOn, Serving, Reversing
<1>3. ASSUME NEW c \in Callers, ProviderConfirms(c) \/ ProviderReverses(c)
      PROVE  CallsGoOn
  <2>1. /\ calls'[c].op = calls[c].op /\ calls'[c].trade = calls[c].trade
        /\ calls[c] # NoCall
        /\ \A d \in Callers \ {c} : calls'[d] = calls[d]
    BY <1>3, AnswerRecorded
    DEF ProviderConfirms, ProviderReverses, Unanswered, Serving, PaymentHandlers
  <2> QED BY <2>1 DEF CallsGoOn, Serving, Reversing
<1>4. ASSUME NEW c \in Callers,
             \/ ConfirmPayment(c) \/ RefuseConfirmPayment(c)
             \/ CancelPayment(c) \/ Refund(c) \/ RefuseReversal(c)
      PROVE  CallsGoOn
  BY <1>4, AnswerGoesOn
  DEF ConfirmPayment, RefuseConfirmPayment, CancelPayment, Refund, RefuseReversal, Refuse
<1> QED BY <1>1, <1>2, <1>3, <1>4 DEF PaymentServiceNext

LEMMA NextGoesOn == TypeOK /\ [Next]_vars => CallsGoOn
<1> SUFFICES ASSUME TypeOK, [Next]_vars PROVE CallsGoOn
  OBVIOUS
<1>1. MoneyUntouched => CallsGoOn
  BY DEF MoneyUntouched, CallsGoOn, Serving, Reversing, TradeHandlers, ProductHandlers
<1>2. CASE TradeServiceNext
  <2>1. ASSUME NEW c \in Callers, Cancel(c)
        PROVE  CallsGoOn
    BY <2>1, AnswerGoesOn DEF Cancel
  <2> QED BY <1>1, <1>2, <2>1, TradeServiceUntouched
<1>3. CASE PaymentServiceNext
  BY <1>3, PaymentStepGoesOn
<1>4. CASE ProductServiceNext
  BY <1>1, <1>4, ProductServiceUntouched
<1>5. CASE MaintenanceNext
  <2>1. UNCHANGED calls => CallsGoOn
    BY DEF CallsGoOn, Serving, Reversing
  <2> QED BY <1>1, <1>5, <2>1, SettlementStepLives, OtherUntouched DEF MaintenanceNext
<1>6. CASE \/ \E c \in Callers : CallLost(c)
           \/ \E t \in Trades, x \in Period : PeriodEnds(t, x)
           \/ UNCHANGED vars
  BY <1>1, <1>6, OtherUntouched
<1> QED BY <1>2, <1>3, <1>4, <1>5, <1>6 DEF Next

\* What a call found is kept by every step of the life of its payment.
LEMMA LifeKeeps ==
    ASSUME TypeOK, StatusFitsProvider, [Life!LifeNext]_(Life!lvars)
    PROVE  /\ StatusFitsProvider'
           /\ \A t \in Trades : /\ payment[t] # Absent => payment'[t] # Absent
                                /\ ApprovedOnce(t) => ApprovedOnce(t)'
<1> USE DEF StatusFitsProvider, ApprovedOnce, Absent, TypeOK, Life!Reversed
<1>1. CASE UNCHANGED Life!lvars
  BY <1>1 DEF Life!lvars
<1>2. ASSUME NEW p \in Trades,
             \/ Life!Order(p) \/ Life!CloseUnpaid(p) \/ Life!Approve(p)
             \/ \E s \in Life!Reversed : Life!Reverse(p, s)
      PROVE  /\ StatusFitsProvider'
             /\ \A t \in Trades : /\ payment[t] # Absent => payment'[t] # Absent
                                  /\ ApprovedOnce(t) => ApprovedOnce(t)'
  BY <1>2 DEF Life!Order, Life!CloseUnpaid, Life!Approve, Life!Reverse, Life!Becomes
<1>3. ASSUME NEW p \in Trades, Life!Capture(p) \/ Life!GiveBack(p)
      PROVE  /\ StatusFitsProvider'
             /\ \A t \in Trades : /\ payment[t] # Absent => payment'[t] # Absent
                                  /\ ApprovedOnce(t) => ApprovedOnce(t)'
  BY <1>3 DEF Life!Capture, Life!GiveBack, Life!Provides
<1> QED BY <1>1, <1>2, <1>3 DEF Life!LifeNext

LEMMA NextLifeInv == TypeOK /\ EscrowInv /\ LifeInv /\ [Next]_vars => LifeInv'
<1> SUFFICES ASSUME TypeOK, EscrowInv, LifeInv, [Next]_vars PROVE LifeInv'
  OBVIOUS
<1>1. /\ StatusFitsProvider'
      /\ \A t \in Trades : /\ payment[t] # Absent => payment'[t] # Absent
                           /\ ApprovedOnce(t) => ApprovedOnce(t)'
  BY NextLives, LifeKeeps DEF LifeInv
<1>2. CallsGoOn
  BY NextGoesOn
<1>3. ASSUME NEW c \in Callers, Serving(c, "confirmPayment")' \/ Reversing(c)'
      PROVE  /\ Serving(c, "confirmPayment")' => payment'[calls'[c].trade] # Absent
             /\ Reversing(c)' => ApprovedOnce(calls[c].trade)'
  <2>1. CASE /\ Serving(c, "confirmPayment")' => Serving(c, "confirmPayment")
             /\ Reversing(c)' => Reversing(c)
             /\ calls'[c].trade = calls[c].trade
    <3>1. calls[c].trade \in Trades
      BY <1>3, <2>1, PaymentOfCall
    <3> QED
      BY <1>1, <2>1, <3>1 DEF LifeInv, CallsFoundTheirPayment, ApprovedOnce
  <2>2. CASE /\ UNCHANGED <<payment, toss>> /\ calls'[c].trade \in Trades
             /\ Serving(c, "confirmPayment")' => payment[calls'[c].trade] = "READY"
             /\ Reversing(c)' => payment[calls'[c].trade] = "APPROVED"
    BY <2>2 DEF ApprovedOnce, Absent
  <2> QED BY <1>2, <1>3, <2>1, <2>2 DEF CallsGoOn
<1> QED BY <1>1, <1>3 DEF LifeInv, CallsFoundTheirPayment

LEMMA InitLifeInv == Init => LifeInv
BY DEF Init, LifeInv, StatusFitsProvider, CallsFoundTheirPayment, Serving, Reversing, Absent

(* Calls in flight act on what they found: an order that exists, a payment *)
(* that was approved (payment.service.ts, confirm and reverse).            *)
THEOREM LifeInvariant == Spec => []LifeInv
BY InitLifeInv, NextLifeInv, TypeCorrect, EscrowInvariant, PTL DEF Spec

(* Whatever calls and jobs overlap, are lost or are repeated, every step   *)
(* is one a payment may take: approved only out of READY and with the      *)
(* money captured, reversed only after the provider gave it back.          *)
THEOREM LifeImplemented == Spec => LifeSpec
<1>1. Init => Life!LifeInit
  BY DEF Init, Life!LifeInit, Absent
<1> QED
  BY <1>1, NextLives, TypeCorrect, EscrowInvariant, LifeInvariant, PTL
  DEF Spec, LifeSpec, Life!LifeSpec

(* A payment that was cancelled or refunded stays so: reverse writes by id *)
(* and late calls commit after it, but none puts the status back.          *)
THEOREM ReversalIsFinal == Spec => ReversedForGood
<1>1. TypeOK /\ EscrowInv /\ LifeInv /\ [Next]_vars =>
         [\A t \in Trades : payment[t] \in {"CANCELLED", "REFUNDED"} =>
                               payment'[t] \in {"CANCELLED", "REFUNDED"}]_vars
  <2> SUFFICES ASSUME TypeOK, EscrowInv, LifeInv, [Next]_vars,
                      NEW t \in Trades, payment[t] \in {"CANCELLED", "REFUNDED"}
               PROVE  payment'[t] \in {"CANCELLED", "REFUNDED"}
    OBVIOUS
  <2>1. CASE UNCHANGED Life!lvars
    BY <2>1 DEF Life!lvars
  <2>2. CASE Life!LifeNext
    BY <2>2
    DEF Life!LifeNext, Life!Order, Life!CloseUnpaid, Life!Capture, Life!Approve,
        Life!GiveBack, Life!Reverse, Life!Becomes, Life!Provides, Life!Reversed, TypeOK
  <2> QED BY <2>1, <2>2, NextLives
<1> QED
  BY <1>1, TypeCorrect, EscrowInvariant, LifeInvariant, PTL DEF Spec, ReversedForGood

-----------------------------------------------------------------------------
(* The records.  An approval or a reversal writes its record and its entry *)
(* in the same transaction, and both unique constraints let it through.    *)
(* The record of an order has no entry: that it is the only one follows    *)
(* from the life of the payment, which never goes back to having no order. *)
OrdersRecorded ==
    \A o \in operations : o.action = "CREATE_ORDER" => payment[o.trade] # Absent

OperationInv == OperationsMatchLedger /\ OrdersRecorded

-----------------------------------------------------------------------------
(* What a step does to records and entries: nothing, the order of a trade, *)
(* or a record with its entry.                                             *)
BooksUntouched ==
    /\ UNCHANGED operations
    /\ \A t \in Trades, a \in DOMAIN EntryOf : EntryOf[a] \in ledger'[t] <=> EntryOf[a] \in ledger[t]

OrderRecorded(t, k) ==
    /\ ~KeyUsed(k) /\ payment[t] = Absent /\ payment'[t] # Absent
    /\ Record(k, "CREATE_ORDER", t)
    /\ UNCHANGED ledger

EntryRecorded(t, k, a) ==
    /\ Recordable(k, EntryOf[a], t)
    /\ Post(t, EntryOf[a])
    /\ Record(k, a, t)

BooksStep ==
    \/ BooksUntouched
    \/ \E t \in Trades, k \in Keys :
          OrderRecorded(t, k) \/ \E a \in DOMAIN EntryOf : EntryRecorded(t, k, a)

LEMMA EntriesDiffer ==
    /\ DOMAIN EntryOf = {"CONFIRM", "CANCEL", "REFUND"}
    /\ EntryOf["CONFIRM"] = "ESCROW_CAPTURE"
    /\ EntryOf["CANCEL"] = "CANCELLATION"
    /\ EntryOf["REFUND"] = "REFUND"
BY DEF EntryOf

LEMMA PaymentServiceBooks ==
    ASSUME TypeOK, PaymentServiceNext
    PROVE  BooksStep
<1>1. ASSUME NEW c \in Callers, NEW t \in Trades, NEW k \in Keys, CreateOrder(c, t, k)
      PROVE  BooksStep
  <2>1. OrderRecorded(t, k)
    BY <1>1 DEF CreateOrder, OrderRecorded, TypeOK, Absent
  <2> QED BY <2>1 DEF BooksStep
<1>2. UNCHANGED <<ledger, operations>> => BooksStep
  BY DEF BooksStep, BooksUntouched
<1>3. ASSUME NEW c \in Callers,
             \/ ProviderConfirms(c) \/ RefuseConfirmPayment(c)
             \/ ProviderReverses(c) \/ RefuseReversal(c)
             \/ \E t \in Trades, k \in Keys :
                   \/ ReadConfirmPayment(c, t, k) \/ ReadCancelPayment(c, t, k)
                   \/ ReadRefund(c, t, k)
      PROVE  BooksStep
  BY <1>2, <1>3
  DEF ProviderConfirms, RefuseConfirmPayment, ProviderReverses, RefuseReversal,
      ReadConfirmPayment, ReadCancelPayment, ReadRefund, Begin, Refuse, database, paymentRows
<1>4. ASSUME NEW c \in Callers, ConfirmPayment(c) \/ CancelPayment(c) \/ Refund(c)
      PROVE  BooksStep
  <2> DEFINE t == calls[c].trade
             k == calls[c].key
  <2>1. t \in Trades /\ k \in Keys
    BY <1>4, PaymentCallTyped
    DEF ConfirmPayment, CancelPayment, Refund, Answered, Serving, PaymentHandlers, PaymentCall
  <2>2. \E a \in DOMAIN EntryOf : EntryRecorded(t, k, a)
    <3>1. CASE ConfirmPayment(c)
      <4>1. EntryRecorded(t, k, "CONFIRM")
        BY <3>1, EntriesDiffer DEF ConfirmPayment, EntryRecorded
      <4> QED BY <4>1, EntriesDiffer
    <3>2. CASE CancelPayment(c)
      <4>1. EntryRecorded(t, k, "CANCEL")
        BY <3>2, EntriesDiffer DEF CancelPayment, EntryRecorded
      <4> QED BY <4>1, EntriesDiffer
    <3>3. CASE Refund(c)
      <4>1. EntryRecorded(t, k, "REFUND")
        BY <3>3, EntriesDiffer DEF Refund, EntryRecorded
      <4> QED BY <4>1, EntriesDiffer
    <3> QED BY <1>4, <3>1, <3>2, <3>3
  <2> QED BY <2>1, <2>2 DEF BooksStep
<1> QED BY <1>1, <1>3, <1>4 DEF PaymentServiceNext

LEMMA SettlementBooks ==
    ASSUME TypeOK, NEW w \in Workers, SettlementStep(w) \/ WorkerCrash(w)
    PROVE  BooksUntouched
<1>1. CASE SettlePayment(w)
  BY <1>1, EntriesDiffer DEF SettlePayment, BooksUntouched, TypeOK
<1>2. CASE ~SettlePayment(w)
  <2>1. UNCHANGED <<ledger, operations>>
    BY <1>2
    DEF SettlementStep, ReleaseHolds, FindDue, Claim, SkipClaim, PayoutSucceeds, PayoutFails,
        FailSettlement, EndJob, WorkerCrash, database, paymentRows
  <2> QED BY <2>1 DEF BooksUntouched
<1> QED BY <1>1, <1>2

LEMMA NextBooks == TypeOK /\ [Next]_vars => BooksStep
<1> SUFFICES ASSUME TypeOK, [Next]_vars PROVE BooksStep
  OBVIOUS
<1>1. UNCHANGED <<ledger, operations>> => BooksStep
  BY DEF BooksStep, BooksUntouched
<1>2. CASE TradeServiceNext
  <2>1. UNCHANGED <<ledger, operations>>
    BY <1>2
    DEF TradeServiceNext, ReadRequest, ReadAccept, ReadReject, ReadDeliver, ReadConfirm,
        ReadDispute, ReadCancel, CreateTrade, Accept, RefuseAccept, Reject, Deliver, Confirm,
        Dispute, Cancel, Begin, Refuse, database, paymentRows
  <2> QED BY <1>1, <2>1
<1>3. CASE PaymentServiceNext
  BY <1>3, PaymentServiceBooks
<1>4. CASE ProductServiceNext
  <2>1. UNCHANGED <<ledger, operations>>
    BY <1>4
    DEF ProductServiceNext, ReadSetStatus, ReadRemove, ReadHideProduct, UpdateProduct,
        HideProductsOf, Begin, database, paymentRows
  <2> QED BY <1>1, <2>1
<1>5. CASE MaintenanceNext
  <2>1. ASSUME NEW t \in Trades, AutoConfirm(t) \/ ExpireUnpaid(t)
        PROVE  UNCHANGED <<ledger, operations>>
    BY <2>1 DEF AutoConfirm, ExpireUnpaid, paymentRows
  <2> QED BY <1>1, <1>5, <2>1, SettlementBooks DEF MaintenanceNext, BooksStep
<1>6. CASE \/ \E c \in Callers : CallLost(c)
           \/ \E t \in Trades, x \in Period : PeriodEnds(t, x)
           \/ UNCHANGED vars
  BY <1>1, <1>6 DEF CallLost, Refuse, PeriodEnds, vars, database, paymentRows
<1> QED BY <1>2, <1>3, <1>4, <1>5, <1>6 DEF Next

-----------------------------------------------------------------------------
LEMMA BooksKeep ==
    ASSUME TypeOK, OperationInv, BooksStep,
           \A t \in Trades : payment[t] # Absent => payment'[t] # Absent
    PROVE  OperationInv'
<1>1. operations \subseteq Operation
  BY DEF TypeOK
<1>2. CASE BooksUntouched
  BY <1>1, <1>2
  DEF BooksUntouched, OperationInv, OperationsMatchLedger, OrdersRecorded, Operation
<1>3. ASSUME NEW t \in Trades, NEW k \in Keys, OrderRecorded(t, k)
      PROVE  OperationInv'
  <2>1. PICK o : o = [key |-> k, action |-> "CREATE_ORDER", trade |-> t]
    OBVIOUS
  <2>2. o.key = k /\ o.action = "CREATE_ORDER" /\ o.trade = t
    BY <2>1
  <2>3. operations' = operations \cup {o} /\ UNCHANGED ledger
    BY <1>3, <2>1 DEF OrderRecorded, Record
  <2>4. \A p \in operations : p.key # k /\ ~(p.trade = t /\ p.action = "CREATE_ORDER")
    BY <1>3 DEF OrderRecorded, KeyUsed, OperationInv, OrdersRecorded
  <2>5. OperationsMatchLedger'
    BY <2>2, <2>3, <2>4, EntriesDiffer DEF OperationInv, OperationsMatchLedger
  <2>6. OrdersRecorded'
    BY <1>1, <1>3, <2>2, <2>3
    DEF OrderRecorded, OperationInv, OrdersRecorded, Operation
  <2> QED BY <2>5, <2>6 DEF OperationInv
<1>4. ASSUME NEW t \in Trades, NEW k \in Keys, NEW a \in DOMAIN EntryOf, EntryRecorded(t, k, a)
      PROVE  OperationInv'
  <2>1. PICK o : o = [key |-> k, action |-> a, trade |-> t]
    OBVIOUS
  <2>2. o.key = k /\ o.action = a /\ o.trade = t
    BY <2>1
  <2>3. operations' = operations \cup {o}
    BY <1>4, <2>1 DEF EntryRecorded, Record
  <2>4. \A p \in operations : p.key # k /\ ~(p.trade = t /\ p.action = a)
    BY <1>4 DEF EntryRecorded, Recordable, KeyUsed, OperationInv, OperationsMatchLedger
  <2>5. \A u \in Trades, b \in DOMAIN EntryOf :
           EntryOf[b] \in ledger'[u] <=> EntryOf[b] \in ledger[u] \/ (u = t /\ b = a)
    BY <1>4, EntriesDiffer DEF EntryRecorded, Post, TypeOK
  <2>6. OperationsMatchLedger'
    BY <2>2, <2>3, <2>4, <2>5 DEF OperationInv, OperationsMatchLedger
  <2>7. OrdersRecorded'
    BY <1>1, <2>2, <2>3, EntriesDiffer DEF OperationInv, OrdersRecorded, Operation
  <2> QED BY <2>6, <2>7 DEF OperationInv
<1> QED BY <1>2, <1>3, <1>4 DEF BooksStep

LEMMA NextOperations ==
    TypeOK /\ EscrowInv /\ LifeInv /\ OperationInv /\ [Next]_vars => OperationInv'
BY NextBooks, NextLives, LifeKeeps, BooksKeep DEF LifeInv

LEMMA InitOperations == Init => OperationInv
BY EntriesDiffer DEF Init, OperationInv, OperationsMatchLedger, OrdersRecorded

(* Every command on a payment that took effect is recorded once and booked *)
(* once, whatever keys the retries of payment.service.ts come with.        *)
THEOREM OperationsCorrect == Spec => []OperationsMatchLedger
<1>1. OperationInv => OperationsMatchLedger
  BY DEF OperationInv
<1> QED
  BY <1>1, InitOperations, NextOperations, TypeCorrect, EscrowInvariant, LifeInvariant, PTL
  DEF Spec

=============================================================================
