--------------------------- MODULE PaymentService ---------------------------
(***************************************************************************)
(* apps/api/src/payments/payment.service.ts and toss-sandbox.adapter.ts:   *)
(* the order of a trade, its approval, its cancellation and its refund.    *)
(*                                                                         *)
(* Approval and reversal are three steps: the read with its checks, the    *)
(* call of the provider, outside of any transaction, and the transaction   *)
(* that writes the result.  A provider that refuses, or cannot be reached, *)
(* ends the call (CallLost); an answer that is lost to the 8 second        *)
(* timeout is the provider's step followed by CallLost.                    *)
(***************************************************************************)
EXTENDS MarketState

KeyUsed(k) == \E o \in operations : o.key = k

\* replay: a key that was recorded is answered from the record (or, for another
\* command, refused with IDEMPOTENCY_KEY_REUSED); nothing is written either way.
\* record: the row of a key is inserted once, or the transaction fails.
Record(k, action, t) ==
    operations' = operations \cup {[key |-> k, action |-> action, trade |-> t]}

\* LedgerEntry is unique by (paymentId, entryType): a second entry of the same
\* type fails the transaction.
RecordableByKey(k, entry, t) == ~KeyUsed(k)     \* mutant: no such constraint

Recordable(k, entry, t) == ~KeyUsed(k) /\ entry \notin ledger[t]

Post(t, entry) == ledger' = [ledger EXCEPT ![t] = @ \cup {entry}]

PaymentCallOf(op, t, k) ==
    [op |-> op, trade |-> t, saw |-> trade[t], key |-> k, answered |-> FALSE]

AnsweredOrNot(c, op) == Serving(c, op)          \* mutant: does not wait

Answered(c, op) == Serving(c, op) /\ calls[c].answered
Unanswered(c, op) == Serving(c, op) /\ ~calls[c].answered

-----------------------------------------------------------------------------
(* createOrder: the trade row is locked (FOR UPDATE) from the read to the  *)
(* commit, and so is one step.                                             *)
CreateOrder(c, t, k) ==
    /\ "createOrder" \in Handlers
    /\ calls[c] = NoCall
    /\ ~KeyUsed(k)
    /\ trade[t] = "ACCEPTED"
    /\ payment[t] = Absent
    /\ product[ProductOf[t]] = "RESERVED"
    /\ payment' = [payment EXCEPT ![t] = "READY"]
    /\ settlement' = [settlement EXCEPT ![t] = "HOLD"]
    /\ Record(k, "CREATE_ORDER", t)
    /\ UNCHANGED <<product, tradeRows, ledger, elapsed, outside, calls, settling>>

-----------------------------------------------------------------------------
(* confirm.                                                                *)
ReadConfirmPayment(c, t, k) ==
    /\ ~KeyUsed(k)
    /\ payment[t] = "READY"
    /\ trade[t] = "ACCEPTED"
    /\ product[ProductOf[t]] = "RESERVED"
    /\ Begin(c, PaymentCallOf("confirmPayment", t, k))

\* toss.confirm: the money is captured, or was by an earlier call of this order.
ProviderConfirms(c) ==
    LET t == calls[c].trade
    IN  /\ Unanswered(c, "confirmPayment")
        /\ toss[t] \in {Absent, "DONE"}
        /\ toss' = [toss EXCEPT ![t] = "DONE"]
        /\ calls' = [calls EXCEPT ![c].answered = TRUE]
        /\ UNCHANGED <<database, payouts, settling>>

\* Mutant: the payment is updated by id.
HasOrder(t) == payment[t] # Absent

\* The condition of payment.updateMany.
StillReady(t) == payment[t] = "READY"

ConfirmPayment(c) ==
    LET t == calls[c].trade
        k == calls[c].key
    IN  /\ Answered(c, "confirmPayment")
        /\ StillReady(t) /\ Recordable(k, "ESCROW_CAPTURE", t)
        /\ payment' = [payment EXCEPT ![t] = "APPROVED"]
        /\ Post(t, "ESCROW_CAPTURE")
        /\ Record(k, "CONFIRM", t)
        /\ elapsed' = Restart(t, "cancelWindow", elapsed)
        /\ Answer(c)
        /\ UNCHANGED <<product, tradeRows, settlement, outside, settling>>

\* PAYMENT_NOT_READY, or a unique constraint: the transaction is rolled back.
RefuseConfirmPayment(c) ==
    LET t == calls[c].trade
    IN  /\ Answered(c, "confirmPayment")
        /\ ~StillReady(t) \/ ~Recordable(calls[c].key, "ESCROW_CAPTURE", t)
        /\ Refuse(c)

-----------------------------------------------------------------------------
(* reverse, for cancel (before the delivery, in the seven days after the   *)
(* approval) and for refund (after the confirmation, or in a dispute).     *)
ReadCancelPayment(c, t, k) ==
    /\ ~KeyUsed(k)
    /\ payment[t] = "APPROVED"
    /\ trade[t] = "ACCEPTED"
    /\ "cancelWindow" \notin elapsed[t]
    /\ Begin(c, PaymentCallOf("cancelPayment", t, k))

ReadRefund(c, t, k) ==
    /\ ~KeyUsed(k)
    /\ payment[t] = "APPROVED"
    /\ trade[t] \in {"CONFIRMED", "DISPUTED"}
    /\ Begin(c, PaymentCallOf("refund", t, k))

\* toss.cancel and toss.refund, which both call the provider's cancel endpoint.
ProviderReverses(c) ==
    LET t == calls[c].trade
    IN  /\ Unanswered(c, "cancelPayment") \/ Unanswered(c, "refund")
        /\ toss[t] # Absent
        /\ toss' = [toss EXCEPT ![t] = "CANCELED"]
        /\ calls' = [calls EXCEPT ![c].answered = TRUE]
        /\ UNCHANGED <<database, payouts, settling>>

CancelPayment(c) ==
    LET t == calls[c].trade
        k == calls[c].key
    IN  /\ Answered(c, "cancelPayment")
        /\ Recordable(k, "CANCELLATION", t)
        /\ payment' = [payment EXCEPT ![t] = "CANCELLED"]
        /\ settlement' = [settlement EXCEPT ![t] = "PAUSED"]
        /\ MoveTrade(t, calls[c].saw, "CANCELLED")
        /\ product' = [product EXCEPT ![ProductOf[t]] = "ACTIVE"]
        /\ Post(t, "CANCELLATION")
        /\ Record(k, "CANCEL", t)
        /\ elapsed' = Touch({t}, elapsed)
        /\ Answer(c)
        /\ UNCHANGED <<outside, settling>>

\* A refund after the confirmation also turns the trade into a dispute.
Refund(c) ==
    LET t == calls[c].trade
        k == calls[c].key
    IN  /\ Answered(c, "refund")
        /\ Recordable(k, "REFUND", t)
        /\ payment' = [payment EXCEPT ![t] = "REFUNDED"]
        /\ settlement' = [settlement EXCEPT ![t] = "PAUSED"]
        /\ IF calls[c].saw = "DISPUTED"
             THEN UNCHANGED <<tradeRows, elapsed>>
             ELSE MoveTrade(t, calls[c].saw, "DISPUTED") /\ elapsed' = Touch({t}, elapsed)
        /\ Post(t, "REFUND")
        /\ Record(k, "REFUND", t)
        /\ Answer(c)
        /\ UNCHANGED <<product, outside, settling>>

RefuseReversal(c) ==
    /\ \/ Answered(c, "cancelPayment")
          /\ ~Recordable(calls[c].key, "CANCELLATION", calls[c].trade)
       \/ Answered(c, "refund")
          /\ ~Recordable(calls[c].key, "REFUND", calls[c].trade)
    /\ Refuse(c)

-----------------------------------------------------------------------------
PaymentServiceNext ==
    \E c \in Callers :
        \/ \E t \in Trades, k \in Keys :
              \/ CreateOrder(c, t, k) \/ ReadConfirmPayment(c, t, k)
              \/ ReadCancelPayment(c, t, k) \/ ReadRefund(c, t, k)
        \/ ProviderConfirms(c) \/ ConfirmPayment(c) \/ RefuseConfirmPayment(c)
        \/ ProviderReverses(c) \/ CancelPayment(c) \/ Refund(c) \/ RefuseReversal(c)

=============================================================================
