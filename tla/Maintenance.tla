----------------------------- MODULE Maintenance -----------------------------
(***************************************************************************)
(* The jobs of apps/worker/src that run every minute: trade-maintenance.ts *)
(* and settlement-maintenance.ts.                                          *)
(*                                                                         *)
(* The automatic confirmation and the expiry of unpaid trades first list   *)
(* the trades that are due, and then, per trade, run a transaction that    *)
(* checks everything again on a row it locks.  The list only decides which *)
(* trades are tried, so each is one step.  The settlement job is a process *)
(* of its own: it claims a payment, calls the payout provider, and posts   *)
(* the result.                                                             *)
(***************************************************************************)
EXTENDS MarketState

-----------------------------------------------------------------------------
(* trade-maintenance.ts.                                                   *)

\* Mutant: the age of the row is looked at, not autoConfirmAt.
DueByAge(t) == trade[t] = "DELIVERED" /\ "unpaid" \in elapsed[t]

DueForConfirm(t) == trade[t] = "DELIVERED" /\ "autoConfirm" \in elapsed[t]

\* confirmDueTrades, for one trade.
AutoConfirm(t) ==
    /\ "autoConfirm" \in Handlers
    /\ DueForConfirm(t)
    /\ MoveTrade(t, "DELIVERED", "CONFIRMED")
    /\ product' = [product EXCEPT ![ProductOf[t]] = "SOLD"]
    /\ IF payment[t] = "APPROVED"
         THEN /\ settlement' = [settlement EXCEPT ![t] = "HOLD"]
              /\ elapsed' = Restart(t, "hold", Touch({t}, elapsed))
         ELSE settlement' = settlement /\ elapsed' = Touch({t}, elapsed)
    /\ UNCHANGED <<payment, ledger, operations, outside, calls, settling>>

\* Mutant: the period of a payment, which an unpaid trade has not.
DueByPayment(t) ==
    trade[t] = "ACCEPTED" /\ payment[t] = Absent /\ "cancelWindow" \in elapsed[t]

DueForExpiry(t) ==
    trade[t] = "ACCEPTED" /\ payment[t] = Absent /\ "unpaid" \in elapsed[t]

\* Mutant: the product stays reserved.
ExpireKeepingProduct(t) ==
    /\ "expireUnpaid" \in Handlers
    /\ DueForExpiry(t)
    /\ MoveTrade(t, "ACCEPTED", "CANCELLED")
    /\ elapsed' = Touch({t}, elapsed)
    /\ UNCHANGED <<product, paymentRows, outside, calls, settling>>

\* cancelExpiredUnpaidTrades, for one trade.
ExpireUnpaid(t) ==
    /\ "expireUnpaid" \in Handlers
    /\ DueForExpiry(t)
    /\ MoveTrade(t, "ACCEPTED", "CANCELLED")
    /\ Unreserve(ProductOf[t])
    /\ elapsed' = Touch({t}, elapsed)
    /\ UNCHANGED <<paymentRows, outside, calls, settling>>

-----------------------------------------------------------------------------
(* settlement-maintenance.ts: processDueSettlements.                       *)

\* Mutant: settlementAvailableAt is not compared.
MaturedAtOnce == {t \in Trades : /\ payment[t] = "APPROVED" /\ settlement[t] = "HOLD"
                                 /\ trade[t] = "CONFIRMED"}

Matured == {t \in Trades : /\ payment[t] = "APPROVED" /\ settlement[t] = "HOLD"
                           /\ "hold" \in elapsed[t] /\ trade[t] = "CONFIRMED"}

\* Mutant: a failed settlement is not tried again.
PayableOnce == {t \in Trades : /\ payment[t] = "APPROVED" /\ trade[t] = "CONFIRMED"
                               /\ settlement[t] = "READY"}

Payable == {t \in Trades : /\ payment[t] = "APPROVED" /\ trade[t] = "CONFIRMED"
                           /\ settlement[t] \in {"READY", "FAILED"}}

\* The first updateMany of the job: payments on hold become READY.
ReleaseHolds(w) ==
    /\ "settle" \in Handlers
    /\ settling[w].stage = "idle" /\ Matured # {}
    /\ settlement' = [t \in Trades |-> IF t \in Matured THEN "READY" ELSE settlement[t]]
    /\ UNCHANGED <<product, tradeRows, payment, ledger, operations, elapsed, outside, calls, settling>>

\* findMany: the payments to settle in this job.
FindDue(w) ==
    /\ "settle" \in Handlers
    /\ settling[w].stage = "idle" /\ Payable # {}
    /\ settling' = [settling EXCEPT ![w] =
                       [stage |-> "claiming", due |-> Payable, paying |-> NoTrade]]
    /\ UNCHANGED <<database, outside, calls>>

\* Mutant: the claim is an update by id.
ClaimableById(t) == settlement[t] # Absent

Claimable(t) == settlement[t] \in {"READY", "FAILED"}

\* The claim looks at the settlement status alone: not at the payment, nor at the trade.
Claim(w, t) ==
    /\ settling[w].stage = "claiming" /\ t \in settling[w].due
    /\ Claimable(t)
    /\ settlement' = [settlement EXCEPT ![t] = "PROCESSING"]
    /\ settling' = [settling EXCEPT ![w] =
                       [stage |-> "paying", due |-> @.due \ {t}, paying |-> t]]
    /\ UNCHANGED <<product, tradeRows, payment, ledger, operations, elapsed, outside, calls>>

SkipClaim(w, t) ==
    /\ settling[w].stage = "claiming" /\ t \in settling[w].due
    /\ ~Claimable(t)
    /\ settling' = [settling EXCEPT ![w].due = @ \ {t}]
    /\ UNCHANGED <<database, outside, calls>>

\* requestPayout: paid once per idempotency key settlement-<paymentId>.
PayoutSucceeds(w) ==
    /\ settling[w].stage = "paying"
    /\ payouts' = payouts \cup {settling[w].paying}
    /\ settling' = [settling EXCEPT ![w].stage = "paid"]
    /\ UNCHANGED <<database, toss, calls>>

\* Refused, or not answered in 10 seconds: the money may have moved.
PayoutFails(w) ==
    /\ settling[w].stage = "paying"
    /\ payouts' \in {payouts, payouts \cup {settling[w].paying}}
    /\ settling' = [settling EXCEPT ![w].stage = "unpaid"]
    /\ UNCHANGED <<database, toss, calls>>

\* The loop goes on with the next payment.
NextItem(w) ==
    settling' = [settling EXCEPT ![w] =
                    [stage |-> "claiming", due |-> @.due, paying |-> NoTrade]]

\* The ledger entry and the settled status; a second SETTLEMENT entry is refused.
SettlePayment(w) ==
    LET t == settling[w].paying
    IN  /\ settling[w].stage = "paid"
        /\ "SETTLEMENT" \notin ledger[t]
        /\ ledger' = [ledger EXCEPT ![t] = @ \cup {"SETTLEMENT"}]
        /\ settlement' = [settlement EXCEPT ![t] = "SETTLED"]
        /\ NextItem(w)
        /\ UNCHANGED <<product, tradeRows, payment, operations, elapsed, outside, calls>>

\* The catch block: the payout failed, or the transaction after it did (because of
\* the unique entry, or of the database).
FailSettlement(w) ==
    LET t == settling[w].paying
    IN  /\ settling[w].stage \in {"paid", "unpaid"}
        /\ settlement' = [settlement EXCEPT ![t] = "FAILED"]
        /\ NextItem(w)
        /\ UNCHANGED <<product, tradeRows, payment, ledger, operations, elapsed, outside, calls>>

EndJob(w) ==
    /\ settling[w].stage = "claiming" /\ settling[w].due = {}
    /\ settling' = [settling EXCEPT ![w] = IdleJob]
    /\ UNCHANGED <<database, outside, calls>>

\* The worker process stops in the middle of the job, and restarts idle.
WorkerCrash(w) ==
    /\ "workerCrash" \in Handlers
    /\ settling[w].stage # "idle"
    /\ settling' = [settling EXCEPT ![w] = IdleJob]
    /\ UNCHANGED <<database, outside, calls>>

SettlementStep(w) ==
    \/ ReleaseHolds(w) \/ FindDue(w)
    \/ \E t \in Trades : Claim(w, t) \/ SkipClaim(w, t)
    \/ PayoutSucceeds(w) \/ PayoutFails(w) \/ SettlePayment(w) \/ FailSettlement(w)
    \/ EndJob(w)

MaintenanceNext ==
    \/ \E t \in Trades : AutoConfirm(t) \/ ExpireUnpaid(t)
    \/ \E w \in Workers : SettlementStep(w) \/ WorkerCrash(w)

=============================================================================
