---------------------------- MODULE MarketState ----------------------------
(***************************************************************************)
(* The state that the API and the worker of gamja-market share: the rows   *)
(* of the PostgreSQL database that a sale goes through (Product, Trade,    *)
(* TradeHistory, Payment, LedgerEntry, PaymentOperation), the two outside  *)
(* services that move money (the Toss payment provider and the payout      *)
(* provider), the clock, and the HTTP calls and worker jobs in flight.     *)
(*                                                                         *)
(* A handler of the API reads rows, decides, and writes.  Prisma runs its  *)
(* transactions at READ COMMITTED, and a row it writes stays locked until  *)
(* the commit, so a handler is two steps here: the step that reads and     *)
(* takes every early return, and the step that writes all it writes at     *)
(* once, with the status conditions of its updateMany calls evaluated      *)
(* then.  What it remembers from the first step is in its call record.     *)
(***************************************************************************)
EXTENDS Naturals, Sequences, FiniteSets

CONSTANTS
    Products,    \* Product.id
    Trades,      \* Trade.id; Payment.tradeId is unique: it names the payment too
    ProductOf,   \* Trade.productId
    BuyerOf,     \* Trade.buyerId
    Keys,        \* the values of the Idempotency-Key header that clients send
    Callers,     \* HTTP calls that can be in flight at the same time
    NoCall,      \* a caller that has no call in flight
    Workers,     \* processes that run the job payment:settlement-release
    NoTrade,     \* a worker that is paying nobody
    Handlers     \* the handlers and jobs that run in this instance

TradeStatus == {"REQUESTED", "ACCEPTED", "REJECTED", "DELIVERED", "CONFIRMED",
                "DISPUTED", "CANCELLED"}
\* No code writes the two that are pending, UNCONFIRMED or FAILED of a payment, nor
\* ADJUSTMENT of the ledger; SETTLED stands for SANDBOX_SETTLED too.
PaymentStatus == {"READY", "APPROVED", "UNCONFIRMED", "FAILED", "CANCEL_PENDING",
                  "CANCELLED", "REFUND_PENDING", "REFUNDED"}
SettlementStatus == {"HOLD", "PAUSED", "READY", "PROCESSING", "SETTLED", "FAILED"}
ProductStatus == {"ACTIVE", "RESERVED", "SOLD", "HIDDEN", "DELETED"}
LedgerEntryType == {"ESCROW_CAPTURE", "CANCELLATION", "REFUND", "SETTLEMENT"}
PaymentAction == {"CREATE_ORDER", "CONFIRM", "CANCEL", "REFUND"}
ProviderStatus == {"DONE", "CANCELED"}

Absent == "absent"                      \* a row that was never inserted

TradeHandlers == {"request", "accept", "reject", "deliver", "confirm", "dispute",
                  "cancel"}
PaymentHandlers == {"createOrder", "confirmPayment", "cancelPayment", "refund"}
ProductHandlers == {"setStatus", "remove", "hideProduct", "withdraw"}
Jobs == {"autoConfirm", "expireUnpaid", "settle", "workerCrash"}

(***************************************************************************)
(* The four periods of seven days the code measures from a timestamp:      *)
(* unpaid from Trade.updatedAt, autoConfirm to Trade.autoConfirmAt,        *)
(* cancelWindow from Payment.approvedAt, hold to                           *)
(* Payment.settlementAvailableAt.                                          *)
(***************************************************************************)
Period == {"unpaid", "autoConfirm", "cancelWindow", "hold"}

ASSUME MarketAssumption ==
    /\ ProductOf \in [Trades -> Products]
    /\ DOMAIN BuyerOf = Trades
    /\ Handlers \subseteq TradeHandlers \cup PaymentHandlers \cup ProductHandlers \cup Jobs
    /\ NoTrade \notin Trades

VARIABLES
    product,     \* [Products -> Product.status]
    trade,       \* [Trades -> Trade.status]
    history,     \* [Trades -> the TradeHistory rows of the trade, oldest first]
    payment,     \* [Trades -> Payment.status]
    settlement,  \* [Trades -> Payment.settlementStatus]
    ledger,      \* [Trades -> entry types of the payment's LedgerEntry rows]
    operations,  \* the PaymentOperation rows
    elapsed,     \* [Trades -> the periods that are over]
    toss,        \* [Trades -> what the payment provider holds for the order]
    payouts,     \* the trades whose seller the payout provider has paid
    calls,       \* [Callers -> the call in flight]
    settling     \* [Workers -> the settlement job in flight]

tradeRows == <<trade, history>>
paymentRows == <<payment, settlement, ledger, operations>>
database == <<product, tradeRows, paymentRows, elapsed>>
outside == <<toss, payouts>>
vars == <<database, outside, calls, settling>>

Row == [from: TradeStatus \cup {Absent}, to: TradeStatus]
Operation == [key: Keys, action: PaymentAction, trade: Trades]

\* What each kind of handler keeps from the step that reads.
TradeCall == [op: TradeHandlers, trade: Trades, saw: TradeStatus \cup {Absent},
              hasOrder: BOOLEAN]
PaymentCall == [op: PaymentHandlers, trade: Trades, saw: TradeStatus, key: Keys,
                answered: BOOLEAN]
ProductCall == [op: ProductHandlers, product: Products, to: ProductStatus]
Call == TradeCall \cup PaymentCall \cup ProductCall

\* due: the payments found and not yet claimed; paying: the one claimed, if any.
SettlementJob ==
    {job \in [stage: {"idle", "claiming", "paying", "paid", "unpaid"},
              due: SUBSET Trades, paying: Trades \cup {NoTrade}] :
        job.paying = NoTrade <=> job.stage \in {"idle", "claiming"}}
IdleJob == [stage |-> "idle", due |-> {}, paying |-> NoTrade]

ASSUME NoCallAssumption == NoCall \notin Call

TypeOK ==
    /\ product \in [Products -> ProductStatus]
    /\ trade \in [Trades -> TradeStatus \cup {Absent}]
    /\ history \in [Trades -> Seq(Row)]
    /\ payment \in [Trades -> PaymentStatus \cup {Absent}]
    /\ settlement \in [Trades -> SettlementStatus \cup {Absent}]
    /\ ledger \in [Trades -> SUBSET LedgerEntryType]
    /\ operations \subseteq Operation
    /\ elapsed \in [Trades -> SUBSET Period]
    /\ toss \in [Trades -> ProviderStatus \cup {Absent}]
    /\ payouts \subseteq Trades
    /\ calls \in [Callers -> Call \cup {NoCall}]
    /\ settling \in [Workers -> SettlementJob]

Init ==
    /\ product = [p \in Products |-> "ACTIVE"]
    /\ trade = [t \in Trades |-> Absent]
    /\ history = [t \in Trades |-> <<>>]
    /\ payment = [t \in Trades |-> Absent]
    /\ settlement = [t \in Trades |-> Absent]
    /\ ledger = [t \in Trades |-> {}]
    /\ operations = {}
    /\ elapsed = [t \in Trades |-> {}]
    /\ toss = [t \in Trades |-> Absent]
    /\ payouts = {}
    /\ calls = [c \in Callers |-> NoCall]
    /\ settling = [w \in Workers |-> IdleJob]

-----------------------------------------------------------------------------
(* Calls in flight.                                                        *)

Serving(c, op) == calls[c] # NoCall /\ calls[c].op = op

\* Caller c sends a call, and its handler has read what it reads.
Begin(c, call) ==
    /\ call.op \in Handlers
    /\ calls[c] = NoCall
    /\ calls' = [calls EXCEPT ![c] = call]
    /\ UNCHANGED <<database, outside, settling>>

Answer(c) == calls' = [calls EXCEPT ![c] = NoCall]

\* The handler throws: its transaction writes nothing.
Refuse(c) == Answer(c) /\ UNCHANGED <<database, outside, settling>>

\* A call of a trade or payment handler about trade t is in flight.
Busy(t) ==
    \/ \E c \in Callers :
          /\ calls[c] # NoCall
          /\ calls[c].op \in TradeHandlers \cup PaymentHandlers
          /\ calls[c].trade = t
    \/ \E w \in Workers : settling[w].paying = t

-----------------------------------------------------------------------------
(* Rows of trades.                                                         *)

TradesOf(p) == {t \in Trades : ProductOf[t] = p}

\* Every update of a trade row sets updatedAt, so the unpaid period restarts.
Touch(ts, over) ==
    [t \in Trades |-> IF t \in ts THEN over[t] \ {"unpaid"} ELSE over[t]]

\* The code takes a new timestamp for period x of trade t.
Restart(t, x, over) == [over EXCEPT ![t] = @ \ {x}]

\* Mutant: no row is written when the trade is not in the expected status.
MoveTradeChecked(t, from, to) ==
    /\ trade' = [trade EXCEPT ![t] = to]
    /\ history' = IF trade[t] = from
                    THEN [history EXCEPT ![t] = Append(@, [from |-> from, to |-> to])]
                    ELSE history

\* The trade moves to status to, and the history row says it left status from.
MoveTrade(t, from, to) ==
    /\ trade' = [trade EXCEPT ![t] = to]
    /\ history' = [history EXCEPT ![t] = Append(@, [from |-> from, to |-> to])]

\* updateMany({ where: { status: RESERVED }, data: { status: ACTIVE } }).
Unreserve(p) ==
    product' = [product EXCEPT ![p] = IF @ = "RESERVED" THEN "ACTIVE" ELSE @]

-----------------------------------------------------------------------------
(* The API process stops, or the database aborts the transaction: the call *)
(* writes nothing, and what the provider did for it stays done.            *)
CallLost(c) == calls[c] # NoCall /\ Refuse(c)

(* A period of trade t ends.  Seven days are long and a call is short (its *)
(* slowest step is an 8 second timeout), so no call about t spans the end  *)
(* of one: a call in flight then reads the same before and after.  A       *)
(* period is only followed where something still depends on it.            *)
PeriodEnds(t, x) ==
    /\ ~Busy(t)
    /\ x \notin elapsed[t]
    /\ \/ x = "unpaid" /\ trade[t] = "ACCEPTED"
       \/ x = "autoConfirm" /\ trade[t] = "DELIVERED"
       \/ x = "cancelWindow" /\ payment[t] = "APPROVED"
       \/ x = "hold" /\ trade[t] = "CONFIRMED"
    /\ elapsed' = [elapsed EXCEPT ![t] = @ \cup {x}]
    /\ UNCHANGED <<product, tradeRows, paymentRows, outside, calls, settling>>

=============================================================================
