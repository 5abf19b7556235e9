---------------------------- MODULE EscrowProofs ----------------------------
(***************************************************************************)
(* The money of the market, for any trades, keys, callers and workers: the *)
(* ledger agrees with the payment status, and the market implements        *)
(* EscrowLedger.                                                           *)
(*                                                                         *)
(* A reversal and a settlement post to the ledger what they found before   *)
(* the answer of a provider, without looking at the payment again.  The    *)
(* inductive invariant says why this is safe: an entry is never removed,   *)
(* so that what a call or a job found then still holds.                    *)
(***************************************************************************)
EXTENDS MarketTypeProofs

\* No handler writes these statuses.
KnownStatuses ==
    \A t \in Trades : payment[t] \notin {"UNCONFIRMED", "FAILED", "CANCEL_PENDING", "REFUND_PENDING"}

Captured(t) == "ESCROW_CAPTURE" \in ledger[t]

\* A call that reverses a payment found it captured.
ReversalsFoundCapture ==
    \A c \in Callers :
        Serving(c, "cancelPayment") \/ Serving(c, "refund") => Captured(calls[c].trade)

\* So did a settlement job, for what it has listed and what it has claimed.
SettlementsFoundCapture ==
    \A w \in Workers :
        /\ \A t \in settling[w].due : Captured(t)
        /\ settling[w].paying # NoTrade => Captured(settling[w].paying)

\* The provider has done what it has answered, and reverses only what is captured.
ProviderAnswered ==
    /\ \A t \in Trades : toss[t] = "CANCELED" => Captured(t)
    /\ \A c \in Callers :
          /\ Answered(c, "confirmPayment") => toss[calls[c].trade] # Absent
          /\ Answered(c, "cancelPayment") \/ Answered(c, "refund") =>
                toss[calls[c].trade] = "CANCELED"

\* A settlement is posted after the payout.
PaidBeforePosted ==
    \A w \in Workers : settling[w].stage = "paid" => settling[w].paying \in payouts

EscrowInv ==
    /\ KnownStatuses
    /\ LedgerMatchesStatus
    /\ ReversalsFoundCapture
    /\ SettlementsFoundCapture
    /\ ProviderAnswered
    /\ PaidBeforePosted

-----------------------------------------------------------------------------
(* Most steps leave the money alone: no payment, entry, provider or job    *)
(* changes, and no call of the payment service starts or is answered.      *)
MoneyUntouched ==
    /\ UNCHANGED <<payment, ledger, toss, payouts, settling>>
    /\ \A c \in Callers : \/ calls'[c] \in {calls[c], NoCall}
                          \/ calls'[c].op \in TradeHandlers \cup ProductHandlers

LEMMA MoneyUntouchedKeeps ==
    ASSUME EscrowInv, MoneyUntouched
    PROVE  EscrowInv'
<1> USE DEF EscrowInv, MoneyUntouched
<1>1. (KnownStatuses /\ LedgerMatchesStatus)'
  BY DEF KnownStatuses, LedgerMatchesStatus
<1>2. ASSUME NEW c \in Callers, NEW op \in PaymentHandlers, Serving(c, op)'
      PROVE  calls'[c] = calls[c] /\ Serving(c, op)
  BY <1>2 DEF Serving, TradeHandlers, ProductHandlers, PaymentHandlers
<1>3. ReversalsFoundCapture'
  BY <1>2 DEF ReversalsFoundCapture, Captured, PaymentHandlers
<1>4. SettlementsFoundCapture'
  BY DEF SettlementsFoundCapture, Captured
<1>5. ProviderAnswered'
  BY <1>2 DEF ProviderAnswered, Captured, Answered, PaymentHandlers
<1>6. PaidBeforePosted'
  BY DEF PaidBeforePosted
<1> QED BY <1>1, <1>3, <1>4, <1>5, <1>6

LEMMA RefuseUntouched ==
    ASSUME NEW c \in Callers, TypeOK, Refuse(c)
    PROVE  MoneyUntouched
BY DEF MoneyUntouched, TypeOK, Refuse, Answer, database, paymentRows, outside

LEMMA BeginUntouched ==
    ASSUME NEW c \in Callers, NEW call, call.op \in TradeHandlers \cup ProductHandlers,
           TypeOK, Begin(c, call)
    PROVE  MoneyUntouched
BY DEF MoneyUntouched, TypeOK, Begin, database, paymentRows, outside

LEMMA TradeServiceUntouched ==
    ASSUME TypeOK, TradeServiceNext, ~ \E c \in Callers : Cancel(c)
    PROVE  MoneyUntouched
<1>1. ASSUME NEW c \in Callers, NEW t \in Trades,
             \/ ReadRequest(c, t) \/ ReadAccept(c, t) \/ ReadReject(c, t)
             \/ ReadDeliver(c, t) \/ ReadConfirm(c, t) \/ ReadDispute(c, t)
             \/ ReadCancel(c, t)
      PROVE  MoneyUntouched
  <2>1. PICK op \in TradeHandlers : Begin(c, TradeCallOf(op, t))
    BY <1>1 DEF ReadRequest, ReadAccept, ReadReject, ReadDeliver, ReadConfirm,
                ReadDispute, ReadCancel, TradeHandlers
  <2> QED BY <2>1, BeginUntouched DEF TradeCallOf
<1>2. ASSUME NEW c \in Callers,
             \/ CreateTrade(c) \/ Accept(c) \/ Reject(c) \/ Deliver(c)
             \/ Confirm(c) \/ Dispute(c)
      PROVE  MoneyUntouched
  BY <1>2 DEF CreateTrade, Accept, Reject, Deliver, Confirm, Dispute, Answer, TypeOK,
              MoneyUntouched, paymentRows, outside
<1>3. ASSUME NEW c \in Callers, RefuseAccept(c)
      PROVE  MoneyUntouched
  BY <1>3, RefuseUntouched DEF RefuseAccept
<1> QED BY <1>1, <1>2, <1>3 DEF TradeServiceNext

LEMMA ProductServiceUntouched ==
    ASSUME TypeOK, ProductServiceNext
    PROVE  MoneyUntouched
<1>1. ASSUME NEW c \in Callers, NEW p \in Products, NEW op \in ProductHandlers, NEW to,
             Begin(c, ProductCallOf(op, p, to))
      PROVE  MoneyUntouched
  BY <1>1, BeginUntouched DEF ProductCallOf
<1>2. ASSUME NEW c \in Callers, UpdateProduct(c)
      PROVE  MoneyUntouched
  BY <1>2 DEF UpdateProduct, Answer, TypeOK, MoneyUntouched, paymentRows, outside
<1>3. ASSUME NEW author \in SUBSET Products, HideProductsOf(author)
      PROVE  MoneyUntouched
  BY <1>3 DEF HideProductsOf, MoneyUntouched, paymentRows, outside
<1> QED
  BY <1>1, <1>2, <1>3
  DEF ProductServiceNext, ReadSetStatus, ReadRemove, ReadHideProduct, ProductHandlers

LEMMA OtherUntouched ==
    ASSUME TypeOK,
           \/ \E t \in Trades : AutoConfirm(t) \/ ExpireUnpaid(t)
           \/ \E w \in Workers : ReleaseHolds(w)
           \/ \E c \in Callers : CallLost(c) \/ RefuseConfirmPayment(c) \/ RefuseReversal(c)
           \/ \E t \in Trades, x \in Period : PeriodEnds(t, x)
           \/ UNCHANGED vars
    PROVE  MoneyUntouched
<1>1. ASSUME NEW t \in Trades, AutoConfirm(t) \/ ExpireUnpaid(t)
      PROVE  MoneyUntouched
  BY <1>1 DEF AutoConfirm, ExpireUnpaid, MoneyUntouched, paymentRows, outside
<1>2. ASSUME NEW w \in Workers, ReleaseHolds(w)
      PROVE  MoneyUntouched
  BY <1>2 DEF ReleaseHolds, MoneyUntouched, outside
<1>3. ASSUME NEW c \in Callers,
             CallLost(c) \/ RefuseConfirmPayment(c) \/ RefuseReversal(c)
      PROVE  MoneyUntouched
  BY <1>3, RefuseUntouched DEF CallLost, RefuseConfirmPayment, RefuseReversal
<1>4. ASSUME NEW t \in Trades, NEW x \in Period, PeriodEnds(t, x)
      PROVE  MoneyUntouched
  BY <1>4 DEF PeriodEnds, MoneyUntouched, paymentRows, outside
<1>5. CASE UNCHANGED vars
  BY <1>5 DEF vars, database, paymentRows, outside, MoneyUntouched
<1> QED BY <1>1, <1>2, <1>3, <1>4, <1>5

-----------------------------------------------------------------------------
(* The steps of calls that touch the money keep the invariant.             *)

\* What a call needs from the invariant carries over to the calls in flight after
\* a step that only answers call c and adds entries to the ledger.
LedgerGrows == \A t \in Trades : ledger[t] \subseteq ledger'[t]

LEMMA AnsweredKeeps ==
    ASSUME TypeOK, EscrowInv, NEW c \in Callers, Answer(c), LedgerGrows,
           UNCHANGED <<toss, payouts, settling>>,
           (KnownStatuses /\ LedgerMatchesStatus)'
    PROVE  EscrowInv'
<1> USE DEF EscrowInv, LedgerGrows, Captured
<1>1. ASSUME NEW d \in Callers, NEW op \in PaymentHandlers, Serving(d, op)'
      PROVE  calls'[d] = calls[d] /\ Serving(d, op) /\ calls[d].trade \in Trades
  <2>1. calls'[d] = calls[d] /\ Serving(d, op)
    BY <1>1 DEF TypeOK, Serving, Answer
  <2> QED BY <2>1, PaymentCallTyped DEF Serving, PaymentCall
<1>2. ReversalsFoundCapture'
  BY <1>1 DEF ReversalsFoundCapture, PaymentHandlers
<1>3. SettlementsFoundCapture'
  BY DEF SettlementsFoundCapture, TypeOK, SettlementJob
<1>4. ProviderAnswered'
  BY <1>1 DEF ProviderAnswered, Answered, PaymentHandlers
<1>5. PaidBeforePosted'
  BY DEF PaidBeforePosted
<1> QED BY <1>2, <1>3, <1>4, <1>5

LEMMA CancelKeeps ==
    ASSUME TypeOK, EscrowInv, NEW c \in Callers, Cancel(c)
    PROVE  EscrowInv'
<1>1. UNCHANGED <<ledger, toss, payouts, settling>> /\ Answer(c)
  BY DEF Cancel, outside
<1>2. KnownStatuses'
  BY DEF Cancel, CloseOrder, KnownStatuses, EscrowInv, TypeOK
<1>3. LedgerMatchesStatus'
  BY <1>1 DEF Cancel, CloseOrder, OpenOrder, KnownStatuses, LedgerMatchesStatus, EscrowInv,
              TypeOK
<1> QED BY <1>1, <1>2, <1>3, AnsweredKeeps DEF LedgerGrows

LEMMA CreateOrderKeeps ==
    ASSUME TypeOK, EscrowInv, NEW c \in Callers, NEW t \in Trades, NEW k \in Keys,
           CreateOrder(c, t, k)
    PROVE  EscrowInv'
<1>1. UNCHANGED <<ledger, toss, payouts, calls, settling>>
  BY DEF CreateOrder, outside
<1>2. (KnownStatuses /\ LedgerMatchesStatus)'
  BY <1>1 DEF CreateOrder, KnownStatuses, LedgerMatchesStatus, EscrowInv, TypeOK
<1> QED
  BY <1>1, <1>2
  DEF EscrowInv, ReversalsFoundCapture, SettlementsFoundCapture, ProviderAnswered,
      PaidBeforePosted, Captured, Serving, Answered

LEMMA ReadPaymentKeeps ==
    ASSUME TypeOK, EscrowInv, NEW c \in Callers, NEW t \in Trades, NEW k \in Keys,
           \/ ReadConfirmPayment(c, t, k) \/ ReadCancelPayment(c, t, k)
           \/ ReadRefund(c, t, k)
    PROVE  EscrowInv'
<1>1. UNCHANGED <<payment, ledger, toss, payouts, settling>>
  BY DEF ReadConfirmPayment, ReadCancelPayment, ReadRefund, Begin, database, paymentRows,
         outside
<1>2. PICK op \in PaymentHandlers :
         /\ calls' = [calls EXCEPT ![c] = PaymentCallOf(op, t, k)]
         /\ op # "confirmPayment" => payment[t] = "APPROVED"
  BY DEF ReadConfirmPayment, ReadCancelPayment, ReadRefund, Begin, PaymentHandlers
<1>3. /\ calls'[c].trade = t /\ calls'[c].op = op /\ ~calls'[c].answered
      /\ \A d \in Callers \ {c} : calls'[d] = calls[d]
  BY <1>2 DEF PaymentCallOf, TypeOK
<1>4. (KnownStatuses /\ LedgerMatchesStatus)'
  BY <1>1 DEF KnownStatuses, LedgerMatchesStatus, EscrowInv
<1>5. ReversalsFoundCapture'
  <2>1. op # "confirmPayment" => Captured(t)
    BY <1>2 DEF EscrowInv, LedgerMatchesStatus, Captured
  <2> QED
    BY <1>1, <1>3, <2>1 DEF EscrowInv, ReversalsFoundCapture, Captured, Serving
<1>6. ProviderAnswered'
  BY <1>1, <1>3 DEF EscrowInv, ProviderAnswered, Captured, Serving, Answered
<1> QED
  BY <1>1, <1>4, <1>5, <1>6
  DEF EscrowInv, SettlementsFoundCapture, PaidBeforePosted, Captured

\* The provider answers call c: its record changes in this only.
LEMMA AnswerRecorded ==
    ASSUME TypeOK, NEW c \in Callers, calls[c] # NoCall, calls[c].op \in PaymentHandlers,
           calls' = [calls EXCEPT ![c].answered = TRUE]
    PROVE  /\ calls'[c].op = calls[c].op /\ calls'[c].trade = calls[c].trade
           /\ calls[c].trade \in Trades
           /\ \A d \in Callers \ {c} : calls'[d] = calls[d]
<1>1. calls[c] \in PaymentCall
  BY PaymentCallTyped
<1> QED BY <1>1 DEF TypeOK, PaymentCall

LEMMA ProviderConfirmsKeeps ==
    ASSUME TypeOK, EscrowInv, NEW c \in Callers, ProviderConfirms(c)
    PROVE  EscrowInv'
<1>1. UNCHANGED <<payment, ledger, payouts, settling>>
  BY DEF ProviderConfirms, database, paymentRows
<1>2. /\ Serving(c, "confirmPayment")
      /\ calls'[c].op = calls[c].op /\ calls'[c].trade = calls[c].trade
      /\ calls[c].trade \in Trades
      /\ \A d \in Callers \ {c} : calls'[d] = calls[d]
  BY AnswerRecorded DEF ProviderConfirms, Unanswered, Serving, PaymentHandlers
<1>3. /\ toss'[calls[c].trade] = "DONE" /\ toss[calls[c].trade] # "CANCELED"
      /\ \A t \in Trades \ {calls[c].trade} : toss'[t] = toss[t]
  BY <1>2 DEF ProviderConfirms, TypeOK, Absent
<1>4. (KnownStatuses /\ LedgerMatchesStatus)'
  BY <1>1 DEF KnownStatuses, LedgerMatchesStatus, EscrowInv
<1>5. ReversalsFoundCapture'
  BY <1>1, <1>2 DEF EscrowInv, ReversalsFoundCapture, Captured, Serving
<1>6. ProviderAnswered'
  <2>1. ASSUME NEW d \in Callers, NEW op \in PaymentHandlers, Serving(d, op)'
        PROVE  calls'[d].trade \in Trades
    <3>1. calls[d] # NoCall /\ calls[d].op = op /\ calls'[d].trade = calls[d].trade
      BY <1>2, <2>1 DEF Serving
    <3> QED BY <3>1, PaymentCallTyped DEF PaymentCall
  <2>2. \A t \in Trades : toss'[t] = "CANCELED" => Captured(t)'
    BY <1>1, <1>3 DEF EscrowInv, ProviderAnswered, Captured
  <2>3. ASSUME NEW d \in Callers, Answered(d, "confirmPayment")'
        PROVE  toss'[calls'[d].trade] # Absent
    BY <1>2, <1>3, <2>1, <2>3
    DEF EscrowInv, ProviderAnswered, Serving, Answered, PaymentHandlers, Absent
  <2>4. ASSUME NEW d \in Callers, (Answered(d, "cancelPayment") \/ Answered(d, "refund"))'
        PROVE  toss'[calls'[d].trade] = "CANCELED"
    BY <1>2, <1>3, <2>1, <2>4
    DEF EscrowInv, ProviderAnswered, Serving, Answered, PaymentHandlers
  <2> QED BY <2>2, <2>3, <2>4 DEF ProviderAnswered
<1> QED
  BY <1>1, <1>4, <1>5, <1>6
  DEF EscrowInv, SettlementsFoundCapture, PaidBeforePosted, Captured

LEMMA ProviderReversesKeeps ==
    ASSUME TypeOK, EscrowInv, NEW c \in Callers, ProviderReverses(c)
    PROVE  EscrowInv'
<1>1. UNCHANGED <<payment, ledger, payouts, settling>>
  BY DEF ProviderReverses, database, paymentRows
<1>2. /\ Serving(c, "cancelPayment") \/ Serving(c, "refund")
      /\ calls'[c].op = calls[c].op /\ calls'[c].trade = calls[c].trade
      /\ calls[c].trade \in Trades
      /\ \A d \in Callers \ {c} : calls'[d] = calls[d]
  BY AnswerRecorded DEF ProviderReverses, Unanswered, Serving, PaymentHandlers
<1>3. /\ toss'[calls[c].trade] = "CANCELED"
      /\ \A t \in Trades \ {calls[c].trade} : toss'[t] = toss[t]
  BY <1>2 DEF ProviderReverses, TypeOK
<1>4. Captured(calls[c].trade)
  BY <1>2 DEF EscrowInv, ReversalsFoundCapture
<1>5. (KnownStatuses /\ LedgerMatchesStatus)'
  BY <1>1 DEF KnownStatuses, LedgerMatchesStatus, EscrowInv
<1>6. ReversalsFoundCapture'
  BY <1>1, <1>2 DEF EscrowInv, ReversalsFoundCapture, Captured, Serving
<1>7. ProviderAnswered'
  <2>1. ASSUME NEW d \in Callers, NEW op \in PaymentHandlers, Serving(d, op)'
        PROVE  calls'[d].trade \in Trades
    <3>1. calls[d] # NoCall /\ calls[d].op = op /\ calls'[d].trade = calls[d].trade
      BY <1>2, <2>1 DEF Serving
    <3> QED BY <3>1, PaymentCallTyped DEF PaymentCall
  <2>2. \A t \in Trades : toss'[t] = "CANCELED" => Captured(t)'
    BY <1>1, <1>3, <1>4 DEF EscrowInv, ProviderAnswered, Captured
  <2>3. ASSUME NEW d \in Callers, Answered(d, "confirmPayment")'
        PROVE  toss'[calls'[d].trade] # Absent
    BY <1>2, <1>3, <2>1, <2>3
    DEF EscrowInv, ProviderAnswered, Serving, Answered, PaymentHandlers, Absent
  <2>4. ASSUME NEW d \in Callers, (Answered(d, "cancelPayment") \/ Answered(d, "refund"))'
        PROVE  toss'[calls'[d].trade] = "CANCELED"
    BY <1>2, <1>3, <2>1, <2>4
    DEF EscrowInv, ProviderAnswered, Serving, Answered, PaymentHandlers
  <2> QED BY <2>2, <2>3, <2>4 DEF ProviderAnswered
<1> QED
  BY <1>1, <1>5, <1>6, <1>7
  DEF EscrowInv, SettlementsFoundCapture, PaidBeforePosted, Captured

LEMMA PostAdds ==
    ASSUME TypeOK, NEW t \in Trades, NEW entry, ledger' = [ledger EXCEPT ![t] = @ \cup {entry}]
    PROVE  /\ ledger'[t] = ledger[t] \cup {entry}
           /\ \A u \in Trades \ {t} : ledger'[u] = ledger[u]
           /\ LedgerGrows
BY DEF TypeOK, LedgerGrows

LEMMA ConfirmPaymentKeeps ==
    ASSUME TypeOK, EscrowInv, NEW c \in Callers, ConfirmPayment(c)
    PROVE  EscrowInv'
<1> DEFINE t == calls[c].trade
<1>1. t \in Trades
  BY PaymentCallTyped DEF ConfirmPayment, Answered, Serving, PaymentHandlers, PaymentCall
<1>2. UNCHANGED <<toss, payouts, settling>> /\ Answer(c)
  BY DEF ConfirmPayment, outside
<1>3. /\ ledger'[t] = ledger[t] \cup {"ESCROW_CAPTURE"}
      /\ \A u \in Trades \ {t} : ledger'[u] = ledger[u]
      /\ LedgerGrows
  BY <1>1, PostAdds DEF ConfirmPayment, Post
<1>4. /\ payment[t] = "READY" /\ payment'[t] = "APPROVED"
      /\ \A u \in Trades \ {t} : payment'[u] = payment[u]
  BY <1>1 DEF ConfirmPayment, StillReady, TypeOK
<1>5. KnownStatuses'
  BY <1>4 DEF KnownStatuses, EscrowInv
<1>6. LedgerMatchesStatus'
  BY <1>3, <1>4 DEF Reversal, LedgerMatchesStatus, EscrowInv, Absent
<1> QED BY <1>2, <1>3, <1>5, <1>6, AnsweredKeeps

LEMMA ReversalKeeps ==
    ASSUME TypeOK, EscrowInv, NEW c \in Callers, CancelPayment(c) \/ Refund(c)
    PROVE  EscrowInv'
<1> DEFINE t == calls[c].trade
<1>1. t \in Trades
  BY PaymentCallTyped
  DEF CancelPayment, Refund, Answered, Serving, PaymentHandlers, PaymentCall
<1>2. UNCHANGED <<toss, payouts, settling>> /\ Answer(c)
  BY DEF CancelPayment, Refund, outside
<1>3. \A u \in Trades \ {t} : payment'[u] = payment[u] /\ ledger'[u] = ledger[u]
  BY <1>1, PostAdds DEF CancelPayment, Refund, Post, TypeOK
<1>4. /\ \/ payment'[t] = "CANCELLED" /\ ledger'[t] = ledger[t] \cup {"CANCELLATION"}
         \/ payment'[t] = "REFUNDED" /\ ledger'[t] = ledger[t] \cup {"REFUND"}
      /\ LedgerGrows
  <2>1. CASE CancelPayment(c)
    BY <1>1, <2>1, PostAdds DEF CancelPayment, Post, TypeOK
  <2>2. CASE Refund(c)
    BY <1>1, <2>2, PostAdds DEF Refund, Post, TypeOK
  <2> QED BY <2>1, <2>2
<1>5. Captured(t)
  BY DEF CancelPayment, Refund, Answered, ReversalsFoundCapture, EscrowInv
<1>6. KnownStatuses'
  BY <1>3, <1>4 DEF KnownStatuses, EscrowInv
<1>7. LedgerMatchesStatus'
  BY <1>3, <1>4, <1>5 DEF Captured, LedgerMatchesStatus, EscrowInv, Absent
<1> QED BY <1>2, <1>4, <1>6, <1>7, AnsweredKeeps

-----------------------------------------------------------------------------
(* So do the steps of the settlement job.                                  *)

LEMMA SettlementStepKeeps ==
    ASSUME TypeOK, EscrowInv, NEW w \in Workers, SettlementStep(w) \/ WorkerCrash(w)
    PROVE  EscrowInv'
<1> USE MarketAssumption DEF EscrowInv
<1>1. settling[w] \in SettlementJob
  BY DEF TypeOK
<1>2. CASE ReleaseHolds(w)
  BY <1>2, OtherUntouched, MoneyUntouchedKeeps
\* A step that touches the job, the payouts and the ledger only.
<1>3. ASSUME NEW job, settling' = [settling EXCEPT ![w] = job],
             UNCHANGED <<payment, toss, calls>>, LedgerGrows, payouts \subseteq payouts',
             LedgerMatchesStatus',
             \A t \in job.due : Captured(t),
             job.paying # NoTrade => Captured(job.paying) /\ job.paying \in Trades,
             job.due \subseteq Trades,
             job.stage = "paid" => job.paying \in payouts'
      PROVE  EscrowInv'
  <2>1. ReversalsFoundCapture'
    BY <1>3, PaymentCallTyped
    DEF ReversalsFoundCapture, LedgerGrows, Captured, Serving, PaymentHandlers, PaymentCall
  <2>2. SettlementsFoundCapture'
    BY <1>3 DEF SettlementsFoundCapture, LedgerGrows, Captured, TypeOK, SettlementJob
  <2>3. ProviderAnswered'
    BY <1>3 DEF ProviderAnswered, LedgerGrows, Captured, Answered, Serving
  <2>4. PaidBeforePosted'
    BY <1>3 DEF PaidBeforePosted, TypeOK
  <2> QED BY <1>3, <2>1, <2>2, <2>3, <2>4 DEF KnownStatuses
<1>4. UNCHANGED ledger => LedgerGrows
  BY DEF LedgerGrows
<1>5. UNCHANGED <<payment, ledger>> => LedgerMatchesStatus'
  BY DEF LedgerMatchesStatus
<1>6. CASE FindDue(w)
  <2>1. \A t \in Payable : Captured(t) /\ t \in Trades
    BY DEF Payable, LedgerMatchesStatus, Captured
  <2>2. UNCHANGED <<payment, ledger, toss, payouts, calls>>
    BY <1>6 DEF FindDue, database, paymentRows, outside
  <2> DEFINE job == [stage |-> "claiming", due |-> Payable, paying |-> NoTrade]
  <2>3. settling' = [settling EXCEPT ![w] = job]
    BY <1>6 DEF FindDue
  <2>4. job.due = Payable /\ job.paying = NoTrade /\ job.stage = "claiming"
    OBVIOUS
  <2> HIDE DEF job
  <2> QED BY <1>3, <1>4, <1>5, <2>1, <2>2, <2>3, <2>4
<1>7. ASSUME NEW t \in Trades, Claim(w, t)
      PROVE  EscrowInv'
  <2> DEFINE job == [stage |-> "paying", due |-> settling[w].due \ {t}, paying |-> t]
  <2>1. settling' = [settling EXCEPT ![w] = job] /\ t \in settling[w].due
    BY <1>7 DEF Claim
  <2>2. UNCHANGED <<payment, ledger, toss, payouts, calls>>
    BY <1>7 DEF Claim, outside
  <2>3. job.due \subseteq Trades /\ \A u \in job.due : Captured(u)
    BY <1>1 DEF SettlementJob, SettlementsFoundCapture
  <2>4. Captured(t)
    BY <2>1 DEF SettlementsFoundCapture
  <2> QED BY <1>3, <1>4, <1>5, <2>1, <2>2, <2>3, <2>4
<1>8. ASSUME NEW t \in Trades, SkipClaim(w, t)
      PROVE  EscrowInv'
  <2> DEFINE job == [settling[w] EXCEPT !.due = @ \ {t}]
  <2>1. settling' = [settling EXCEPT ![w] = job]
    BY <1>8 DEF SkipClaim
  <2>2. UNCHANGED <<payment, ledger, toss, payouts, calls>>
    BY <1>8 DEF SkipClaim, database, paymentRows, outside
  <2>3. /\ job.due = settling[w].due \ {t} /\ job.paying = settling[w].paying
        /\ job.stage = settling[w].stage
    BY <1>1 DEF SettlementJob
  <2>4. /\ job.due \subseteq Trades /\ \A u \in job.due : Captured(u)
        /\ job.paying # NoTrade => Captured(job.paying) /\ job.paying \in Trades
        /\ job.stage = "paid" => job.paying \in payouts
    BY <1>1, <2>3 DEF SettlementJob, SettlementsFoundCapture, PaidBeforePosted
  <2> HIDE DEF job
  <2> QED BY <1>3, <1>4, <1>5, <2>1, <2>2, <2>4
<1>9. ASSUME NEW stage \in {"paid", "unpaid"},
             settling' = [settling EXCEPT ![w].stage = stage],
             settling[w].stage = "paying",
             stage = "paid" => payouts' = payouts \cup {settling[w].paying},
             payouts \subseteq payouts',
             UNCHANGED <<payment, ledger, toss, calls>>
      PROVE  EscrowInv'
  <2> DEFINE job == [settling[w] EXCEPT !.stage = stage]
  <2>1. settling' = [settling EXCEPT ![w] = job]
    BY <1>9
  <2>2. /\ job.due = settling[w].due /\ job.paying = settling[w].paying
        /\ job.stage = stage
    BY <1>1 DEF SettlementJob
  <2>3. /\ job.due \subseteq Trades /\ \A u \in job.due : Captured(u)
        /\ job.paying # NoTrade => Captured(job.paying) /\ job.paying \in Trades
        /\ job.stage = "paid" => job.paying \in payouts'
    BY <1>1, <1>9, <2>2 DEF SettlementJob, SettlementsFoundCapture
  <2> HIDE DEF job
  <2> QED BY <1>3, <1>4, <1>5, <1>9, <2>1, <2>3
<1>10. CASE PayoutSucceeds(w)
  BY <1>9, <1>10 DEF PayoutSucceeds, database, paymentRows
<1>11. CASE PayoutFails(w)
  <2>1. payouts \subseteq payouts'
    BY <1>11 DEF PayoutFails
  <2> QED BY <1>9, <1>11, <2>1 DEF PayoutFails, database, paymentRows
<1>12. CASE SettlePayment(w) \/ FailSettlement(w)
  <2> DEFINE job == [stage |-> "claiming", due |-> settling[w].due, paying |-> NoTrade]
  <2>1. settling' = [settling EXCEPT ![w] = job]
    BY <1>12 DEF SettlePayment, FailSettlement, NextItem
  <2>2. UNCHANGED <<payment, toss, payouts, calls>>
    BY <1>12 DEF SettlePayment, FailSettlement, outside
  <2>3. job.due \subseteq Trades /\ \A u \in job.due : Captured(u)
    BY <1>1 DEF SettlementJob, SettlementsFoundCapture
  <2>4. LedgerGrows
    <3>1. CASE SettlePayment(w)
      <4>1. settling[w].paying \in Trades
        BY <1>1, <3>1 DEF SettlePayment, SettlementJob
      <4> QED BY <3>1, <4>1, PostAdds DEF SettlePayment
    <3>2. CASE FailSettlement(w)
      BY <1>4, <3>2 DEF FailSettlement
    <3> QED BY <1>12, <3>1, <3>2
  <2>5. LedgerMatchesStatus'
    <3>1. CASE SettlePayment(w)
      <4>1. settling[w].paying \in Trades /\ Captured(settling[w].paying)
        BY <1>1, <3>1 DEF SettlePayment, SettlementJob, SettlementsFoundCapture
      <4> QED
        BY <3>1, <4>1 DEF SettlePayment, LedgerMatchesStatus, Reversal, Captured, TypeOK
    <3>2. CASE FailSettlement(w)
      BY <1>5, <3>2 DEF FailSettlement
    <3> QED BY <1>12, <3>1, <3>2
  <2> QED BY <1>3, <2>1, <2>2, <2>3, <2>4, <2>5
<1>13. CASE EndJob(w) \/ WorkerCrash(w)
  <2>1. settling' = [settling EXCEPT ![w] = IdleJob]
    BY <1>13 DEF EndJob, WorkerCrash
  <2>2. UNCHANGED <<payment, ledger, toss, payouts, calls>>
    BY <1>13 DEF EndJob, WorkerCrash, database, paymentRows, outside
  <2>3. IdleJob.due = {} /\ IdleJob.paying = NoTrade /\ IdleJob.stage = "idle"
    BY DEF IdleJob
  <2> QED BY <1>3, <1>4, <1>5, <2>1, <2>2, <2>3
<1> QED
  BY <1>2, <1>6, <1>7, <1>8, <1>10, <1>11, <1>12, <1>13 DEF SettlementStep

-----------------------------------------------------------------------------
(* The invariant holds, and with it LedgerMatchesStatus.                   *)

LEMMA InitEscrow == Init => EscrowInv
BY MarketAssumption
DEF Init, EscrowInv, KnownStatuses, LedgerMatchesStatus, ReversalsFoundCapture,
    SettlementsFoundCapture, ProviderAnswered, PaidBeforePosted, Serving, Answered, IdleJob,
    Absent

LEMMA NextEscrow == TypeOK /\ EscrowInv /\ [Next]_vars => EscrowInv'
<1> SUFFICES ASSUME TypeOK, EscrowInv, [Next]_vars PROVE EscrowInv'
  OBVIOUS
<1>1. CASE TradeServiceNext
  BY <1>1, CancelKeeps, TradeServiceUntouched, MoneyUntouchedKeeps
<1>2. CASE PaymentServiceNext
  BY <1>2, CreateOrderKeeps, ReadPaymentKeeps, ProviderConfirmsKeeps, ProviderReversesKeeps,
     ConfirmPaymentKeeps, ReversalKeeps, OtherUntouched, MoneyUntouchedKeeps
  DEF PaymentServiceNext
<1>3. CASE ProductServiceNext
  BY <1>3, ProductServiceUntouched, MoneyUntouchedKeeps
<1>4. CASE MaintenanceNext
  BY <1>4, SettlementStepKeeps, OtherUntouched, MoneyUntouchedKeeps DEF MaintenanceNext
<1>5. CASE \/ \E c \in Callers : CallLost(c)
           \/ \E t \in Trades, x \in Period : PeriodEnds(t, x)
           \/ UNCHANGED vars
  BY <1>5, OtherUntouched, MoneyUntouchedKeeps
<1> QED BY <1>1, <1>2, <1>3, <1>4, <1>5 DEF Next

(* What a reversal or a settlement found before it called a provider is    *)
(* still so when it posts the result (payment.service.ts, reverse;         *)
(* settlement-maintenance.ts, processDueSettlements).                      *)
THEOREM EscrowInvariant == Spec => []EscrowInv
BY InitEscrow, NextEscrow, TypeCorrect, PTL DEF Spec

(* Whatever calls, lost answers, retries and jobs overlap, the ledger of a *)
(* payment has the entries its status calls for (payment.service.ts and    *)
(* settlement-maintenance.ts write them).                                  *)
THEOREM LedgerCorrect == Spec => []LedgerMatchesStatus
<1>1. EscrowInv => LedgerMatchesStatus
  BY DEF EscrowInv
<1> QED BY <1>1, EscrowInvariant, PTL

-----------------------------------------------------------------------------
(* The market implements EscrowLedger.                                     *)

LEMMA UntouchedStutters ==
    ASSUME UNCHANGED <<toss, payouts, ledger>>
    PROVE  UNCHANGED Escrow!evars
BY DEF Escrow!evars

LEMMA PaymentStepRefines ==
    ASSUME TypeOK, EscrowInv, PaymentServiceNext
    PROVE  [Escrow!EscrowNext]_(Escrow!evars)
<1> USE DEF EscrowInv
<1>1. ASSUME NEW c \in Callers, NEW t \in Trades, NEW k \in Keys,
             \/ CreateOrder(c, t, k) \/ ReadConfirmPayment(c, t, k)
             \/ ReadCancelPayment(c, t, k) \/ ReadRefund(c, t, k)
      PROVE  UNCHANGED Escrow!evars
  BY <1>1, UntouchedStutters
  DEF CreateOrder, ReadConfirmPayment, ReadCancelPayment, ReadRefund, Begin, database,
      paymentRows, outside
<1>2. ASSUME NEW c \in Callers, NEW op \in PaymentHandlers, Serving(c, op)
      PROVE  calls[c].trade \in Trades
  BY <1>2, PaymentCallTyped DEF Serving, PaymentCall
<1>3. ASSUME NEW c \in Callers, ProviderConfirms(c)
      PROVE  [Escrow!EscrowNext]_(Escrow!evars)
  <2> DEFINE t == calls[c].trade
  <2>1. t \in Trades
    BY <1>2, <1>3 DEF ProviderConfirms, Unanswered, PaymentHandlers
  <2>2. UNCHANGED <<ledger, payouts>>
    BY <1>3 DEF ProviderConfirms, database, paymentRows
  <2>3. CASE toss[t] = Absent
    BY <1>3, <2>1, <2>2, <2>3
    DEF ProviderConfirms, Escrow!EscrowNext, Escrow!TakeMoney, Absent
  <2>4. CASE toss[t] = "DONE"
    <3>1. toss' = toss
      BY <1>3, <2>1, <2>4 DEF ProviderConfirms, TypeOK
    <3> QED BY <2>2, <3>1, UntouchedStutters
  <2> QED BY <1>3, <2>3, <2>4 DEF ProviderConfirms
<1>4. ASSUME NEW c \in Callers, ProviderReverses(c)
      PROVE  [Escrow!EscrowNext]_(Escrow!evars)
  <2> DEFINE t == calls[c].trade
  <2>1. t \in Trades /\ Captured(t)
    BY <1>2, <1>4
    DEF ProviderReverses, Unanswered, PaymentHandlers, ReversalsFoundCapture
  <2>2. UNCHANGED <<ledger, payouts>>
    BY <1>4 DEF ProviderReverses, database, paymentRows
  <2>3. CASE toss[t] = "DONE"
    BY <1>4, <2>1, <2>2, <2>3
    DEF ProviderReverses, Captured, Escrow!EscrowNext, Escrow!GiveBack
  <2>4. CASE toss[t] = "CANCELED"
    <3>1. toss' = toss
      BY <1>4, <2>1, <2>4 DEF ProviderReverses, TypeOK
    <3> QED BY <2>2, <3>1, UntouchedStutters
  <2> QED BY <1>4, <2>1, <2>3, <2>4 DEF ProviderReverses, TypeOK, ProviderStatus
<1>5. ASSUME NEW c \in Callers, ConfirmPayment(c)
      PROVE  Escrow!EscrowNext
  <2> DEFINE t == calls[c].trade
  <2>1. t \in Trades
    BY <1>2, <1>5 DEF ConfirmPayment, Answered, PaymentHandlers
  <2>2. ledger[t] = {}
    BY <1>5, <2>1 DEF ConfirmPayment, StillReady, LedgerMatchesStatus
  <2>3. toss[t] = "DONE"
    BY <1>5, <2>1, <2>2
    DEF ConfirmPayment, ProviderAnswered, Captured, TypeOK, ProviderStatus
  <2>4. UNCHANGED <<toss, payouts>> /\ ledger' = [ledger EXCEPT ![t] = @ \cup {"ESCROW_CAPTURE"}]
    BY <1>5 DEF ConfirmPayment, Post, outside
  <2> QED
    BY <2>1, <2>2, <2>3, <2>4 DEF Escrow!EscrowNext, Escrow!BookCapture, Escrow!BookEntry
<1>6. ASSUME NEW c \in Callers, CancelPayment(c) \/ Refund(c)
      PROVE  Escrow!EscrowNext
  <2> DEFINE t == calls[c].trade
  <2>1. t \in Trades /\ toss[t] = "CANCELED"
    BY <1>2, <1>6
    DEF CancelPayment, Refund, Answered, PaymentHandlers, ProviderAnswered
  <2>2. UNCHANGED <<toss, payouts>>
    BY <1>6 DEF CancelPayment, Refund, outside
  <2>3. PICK entry \in {"CANCELLATION", "REFUND"} :
           entry \notin ledger[t] /\ ledger' = [ledger EXCEPT ![t] = @ \cup {entry}]
    BY <1>6 DEF CancelPayment, Refund, Recordable, Post
  <2> QED
    BY <2>1, <2>2, <2>3 DEF Escrow!EscrowNext, Escrow!BookReturn, Escrow!BookEntry
<1>7. ASSUME NEW c \in Callers, RefuseConfirmPayment(c) \/ RefuseReversal(c)
      PROVE  UNCHANGED Escrow!evars
  BY <1>7, UntouchedStutters
  DEF RefuseConfirmPayment, RefuseReversal, Refuse, database, paymentRows, outside
<1> QED BY <1>1, <1>3, <1>4, <1>5, <1>6, <1>7 DEF PaymentServiceNext

LEMMA SettlementStepRefines ==
    ASSUME TypeOK, EscrowInv, NEW w \in Workers, SettlementStep(w) \/ WorkerCrash(w)
    PROVE  [Escrow!EscrowNext]_(Escrow!evars)
<1> USE MarketAssumption DEF EscrowInv
<1> DEFINE t == settling[w].paying
<1>1. settling[w].stage \in {"paying", "paid", "unpaid"} => t \in Trades /\ Captured(t)
  BY DEF TypeOK, SettlementJob, SettlementsFoundCapture
<1>2. ASSUME t \in Trades, Captured(t), payouts' = payouts \cup {t},
             UNCHANGED <<toss, ledger>>
      PROVE  Escrow!EscrowNext
  BY <1>2 DEF Captured, Escrow!EscrowNext, Escrow!PayOut
<1>3. CASE PayoutSucceeds(w)
  BY <1>1, <1>2, <1>3 DEF PayoutSucceeds, database, paymentRows
<1>4. CASE PayoutFails(w)
  BY <1>1, <1>2, <1>4, UntouchedStutters DEF PayoutFails, database, paymentRows
<1>5. CASE SettlePayment(w)
  <2>1. t \in Trades /\ t \in payouts
    BY <1>1, <1>5 DEF SettlePayment, PaidBeforePosted
  <2>2. /\ UNCHANGED <<toss, payouts>> /\ "SETTLEMENT" \notin ledger[t]
        /\ ledger' = [ledger EXCEPT ![t] = @ \cup {"SETTLEMENT"}]
    BY <1>5 DEF SettlePayment, outside
  <2> QED
    BY <2>1, <2>2 DEF Escrow!EscrowNext, Escrow!BookPayout, Escrow!BookEntry
<1>6. CASE \/ ReleaseHolds(w) \/ FindDue(w)
           \/ \E u \in Trades : Claim(w, u) \/ SkipClaim(w, u)
           \/ FailSettlement(w) \/ EndJob(w) \/ WorkerCrash(w)
  BY <1>6, UntouchedStutters
  DEF ReleaseHolds, FindDue, Claim, SkipClaim, FailSettlement, EndJob, WorkerCrash, database,
      paymentRows, outside
<1> QED BY <1>3, <1>4, <1>5, <1>6 DEF SettlementStep

LEMMA NextRefines == TypeOK /\ EscrowInv /\ [Next]_vars => [Escrow!EscrowNext]_(Escrow!evars)
<1> SUFFICES ASSUME TypeOK, EscrowInv, [Next]_vars
             PROVE  [Escrow!EscrowNext]_(Escrow!evars)
  OBVIOUS
<1>1. MoneyUntouched => UNCHANGED Escrow!evars
  BY UntouchedStutters DEF MoneyUntouched
<1>2. CASE TradeServiceNext
  <2>1. ASSUME NEW c \in Callers, Cancel(c)
        PROVE  UNCHANGED Escrow!evars
    BY <2>1, UntouchedStutters DEF Cancel, outside
  <2> QED BY <1>1, <1>2, <2>1, TradeServiceUntouched
<1>3. CASE PaymentServiceNext
  BY <1>3, PaymentStepRefines
<1>4. CASE ProductServiceNext
  BY <1>1, <1>4, ProductServiceUntouched
<1>5. CASE MaintenanceNext
  BY <1>1, <1>5, SettlementStepRefines, OtherUntouched DEF MaintenanceNext
<1>6. CASE \/ \E c \in Callers : CallLost(c)
           \/ \E t \in Trades, x \in Period : PeriodEnds(t, x)
           \/ UNCHANGED vars
  BY <1>1, <1>6, OtherUntouched
<1> QED BY <1>2, <1>3, <1>4, <1>5, <1>6 DEF Next

(* Every behaviour of the market is one of EscrowLedger: entries are only  *)
(* added, once per type and payment, and only for money that has moved at  *)
(* a provider, whatever calls and jobs overlap, are lost or are repeated.  *)
THEOREM EscrowImplemented == Spec => EscrowSpec
<1>1. Init => Escrow!EscrowInit
  BY DEF Init, Escrow!EscrowInit, Absent
<1> QED
  BY <1>1, NextRefines, TypeCorrect, EscrowInvariant, PTL
  DEF Spec, EscrowSpec, Escrow!EscrowSpec

=============================================================================
