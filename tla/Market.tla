------------------------------- MODULE Market -------------------------------
(***************************************************************************)
(* The market: HTTP calls of the trade, payment, product and administration *)
(* services, the worker's jobs, the two providers and the clock, together. *)
(***************************************************************************)
EXTENDS TradeService, PaymentService, ProductService, Maintenance

Next ==
    \/ TradeServiceNext
    \/ PaymentServiceNext
    \/ ProductServiceNext
    \/ MaintenanceNext
    \/ \E c \in Callers : CallLost(c)
    \/ \E t \in Trades, x \in Period : PeriodEnds(t, x)

Spec == Init /\ [][Next]_vars

(* The same market when nothing overlaps: with one caller, and no step of  *)
(* a job or of the clock while that caller's call is in flight.  This is   *)
(* how the tests of the repository exercise it.                            *)
NoCallInFlight == \A c \in Callers : calls[c] = NoCall

SerialNext ==
    \/ TradeServiceNext \/ PaymentServiceNext \/ ProductServiceNext
    \/ \E c \in Callers : CallLost(c)
    \/ /\ NoCallInFlight
       /\ MaintenanceNext \/ \E t \in Trades, x \in Period : PeriodEnds(t, x)

SerialSpec == Init /\ [][SerialNext]_vars

-----------------------------------------------------------------------------
(* Fairness.  Clients owe nothing.  A call ends: its slowest step, the     *)
(* provider request, is aborted after 8 seconds.  Time passes, whatever    *)
(* calls come and go.  The jobs run every minute, the settlement job       *)
(* starts with the release of the holds, and the payout provider is not    *)
(* down for ever.                                                          *)
Fairness ==
    /\ \A c \in Callers : WF_vars(CallLost(c))
    /\ \A t \in Trades, x \in Period : SF_vars(PeriodEnds(t, x))
    /\ \A t \in Trades : WF_vars(AutoConfirm(t)) /\ WF_vars(ExpireUnpaid(t))
    /\ \A w \in Workers :
          /\ WF_vars(SettlementStep(w))
          /\ SF_vars(ReleaseHolds(w)) /\ SF_vars(PayoutSucceeds(w))
          /\ SF_vars(SettlePayment(w))

FairSpec == Spec /\ Fairness

-----------------------------------------------------------------------------
(* What holds whatever is in flight.                                       *)

Reversal == {"CANCELLATION", "REFUND"}

(* Ledger and payment status tell the same story: nothing is booked for an *)
(* order that was not approved, an approved payment is captured and not    *)
(* reversed, and a payment that ended after its approval has the entry of  *)
(* its ending.  payment.service.ts writes both in one transaction, but the *)
(* reversal updates the payment without looking at its status.             *)
LedgerMatchesStatus ==
    \A t \in Trades :
        /\ payment[t] \in {Absent, "READY"} => ledger[t] = {}
        /\ payment[t] = "APPROVED" =>
              "ESCROW_CAPTURE" \in ledger[t] /\ ledger[t] \cap Reversal = {}
        /\ payment[t] = "CANCELLED" =>
              ledger[t] = {} \/ {"ESCROW_CAPTURE", "CANCELLATION"} \subseteq ledger[t]
        /\ payment[t] = "REFUNDED" => {"ESCROW_CAPTURE", "REFUND"} \subseteq ledger[t]

(* The record of idempotency keys and the ledger agree: an approval, a     *)
(* cancellation or a refund is recorded for a payment exactly when it is   *)
(* booked, and no command takes effect twice for a payment, whatever keys  *)
(* the clients retry with.                                                 *)
EntryOf == [CONFIRM |-> "ESCROW_CAPTURE", CANCEL |-> "CANCELLATION", REFUND |-> "REFUND"]

OperationsMatchLedger ==
    /\ \A t \in Trades, a \in DOMAIN EntryOf :
          (\E o \in operations : o.trade = t /\ o.action = a) <=> EntryOf[a] \in ledger[t]
    /\ \A o1, o2 \in operations :
          o1.key = o2.key \/ (o1.trade = o2.trade /\ o1.action = o2.action) => o1 = o2

(* The status of a trade is the one its last history row leads to, in      *)
(* every interleaving of handlers that update the trade by id.             *)
StatusIsLastHistory ==
    \A t \in Trades :
        trade[t] = IF history[t] = <<>> THEN Absent ELSE history[t][Len(history[t])].to

(* The seller is paid only after the settlement period of a confirmation   *)
(* has passed, even if the trade is disputed, refunded or confirmed again  *)
(* while the settlement job runs.                                          *)
PaidOnlyAfterHold ==
    \A t \in payouts :
        /\ "hold" \in elapsed[t]
        /\ \E i \in DOMAIN history[t] : history[t][i].to = "CONFIRMED"

(* A payment that was cancelled or refunded is never approved or open      *)
(* again: no late call puts its status back.                               *)
ReversedForGood ==
    [][\A t \in Trades : payment[t] \in {"CANCELLED", "REFUNDED"} =>
                            payment'[t] \in {"CANCELLED", "REFUNDED"}]_vars

(* Two settlement jobs never pay the same payment at the same time: the    *)
(* claim of one keeps the others off until it has posted the result.       *)
ClaimsAreExclusive ==
    \A w1, w2 \in Workers :
        settling[w1].paying = settling[w2].paying /\ settling[w1].paying # NoTrade => w1 = w2

(* The ledger of the code implements the abstract escrow: each handler's   *)
(* step is a step of EscrowLedger or leaves money and book alone.          *)
Escrow == INSTANCE EscrowLedger WITH provider <- toss, paidOut <- payouts, book <- ledger

EscrowSpec == Escrow!EscrowSpec

(* The payments of the market live as PaymentLife says, which is all that  *)
(* Webhooks knows of them: no call that is late or repeated brings back a  *)
(* closed order or gives back money that was not approved.                 *)
Life == INSTANCE PaymentLife WITH Payments <- Trades, status <- payment, provider <- toss

LifeSpec == Life!LifeSpec

(* A delivered trade does not wait for the buyer for ever, and a sale that *)
(* nobody disputes or reverses ends with the seller being paid.            *)
DeliveredIsDecided ==
    \A t \in Trades : trade[t] = "DELIVERED" ~> trade[t] # "DELIVERED"

ConfirmedIsSettled ==
    \A t \in Trades :
        trade[t] = "CONFIRMED" /\ payment[t] = "APPROVED"
        ~> trade[t] = "DISPUTED" \/ payment[t] = "REFUNDED" \/ "SETTLEMENT" \in ledger[t]

(* A reservation nobody pays for does not lock the product for ever: the   *)
(* trade gets a payment order, or leaves ACCEPTED.                         *)
UnpaidIsReleased ==
    \A t \in Trades :
        trade[t] = "ACCEPTED" /\ payment[t] = Absent
        ~> trade[t] # "ACCEPTED" \/ payment[t] # Absent

-----------------------------------------------------------------------------
(* What holds as long as calls do not overlap; OneEngagedTrade does also   *)
(* when they do, if no command gives a trade up.                           *)

EngagedStatuses == {"ACCEPTED", "DELIVERED", "CONFIRMED", "DISPUTED"}
Engaged(p) == {t \in TradesOf(p) : trade[t] \in EngagedStatuses}

(* No product is promised to two trades: of the trades of a product, at    *)
(* most one has been accepted and not been cancelled.                      *)
OneEngagedTrade == \A p \in Products : Cardinality(Engaged(p)) <= 1

(* A product is RESERVED or SOLD because of exactly one trade, and an      *)
(* ACTIVE one can be promised: the two tables do not drift apart.          *)
ReservationMatchesTrade ==
    \A p \in Products :
        /\ product[p] = "ACTIVE" => Engaged(p) = {}
        /\ product[p] = "RESERVED" => \E t \in Trades : Engaged(p) = {t} /\ trade[t] # "CONFIRMED"
        /\ product[p] = "SOLD" =>
              \E t \in Trades : Engaged(p) = {t} /\ trade[t] \in {"CONFIRMED", "DISPUTED"}

(* No request is left that the seller could not accept: the acceptance of  *)
(* one ends all the others, and no new one gets in.                        *)
RequestsStayAcceptable ==
    \A t \in Trades : trade[t] = "REQUESTED" => product[ProductOf[t]] = "ACTIVE"

(* Money is in escrow only for a trade that can still use it, goods are    *)
(* handed over only for money in escrow, and a cancelled trade leaves no   *)
(* open or approved payment.                                               *)
EscrowFollowsTrade ==
    \A t \in Trades :
        /\ payment[t] = "READY" => trade[t] \in {"ACCEPTED", "DISPUTED"}
        /\ payment[t] = "APPROVED" => trade[t] \in EngagedStatuses
        /\ trade[t] \in {"DELIVERED", "CONFIRMED"} => payment[t] = "APPROVED"

(* A buyer has at most one active trade for a product.                     *)
OneActiveTradePerBuyer ==
    \A t, u \in Trades :
        /\ ProductOf[t] = ProductOf[u] /\ BuyerOf[t] = BuyerOf[u]
        /\ trade[t] \in ActiveTradeStatuses /\ trade[u] \in ActiveTradeStatuses
        => t = u

LegalMove ==
    {<<Absent, "REQUESTED">>, <<"REQUESTED", "ACCEPTED">>, <<"REQUESTED", "REJECTED">>,
     <<"REQUESTED", "CANCELLED">>, <<"ACCEPTED", "DELIVERED">>, <<"ACCEPTED", "CANCELLED">>,
     <<"ACCEPTED", "DISPUTED">>, <<"DELIVERED", "CONFIRMED">>, <<"DELIVERED", "DISPUTED">>,
     <<"CONFIRMED", "DISPUTED">>}

(* A trade moves only along the table of commands in domain-state-model.md *)
(* (as the code extends it by disputes), and the history row written with  *)
(* the move names the status the trade really left.                        *)
MovesAreLegal ==
    [][\A t \in Trades : trade'[t] # trade[t] =>
          /\ <<trade[t], trade'[t]>> \in LegalMove
          /\ history'[t] = Append(history[t], [from |-> trade[t], to |-> trade'[t]])]_vars

(* A product is deleted only when no active trade uses it, and no command  *)
(* of its owner, no trade, payment or job changes a deleted one.  The      *)
(* administrator's command does not look at the status and makes it        *)
(* HIDDEN, from where the owner may put it back on sale.                   *)
DeletionIsSafe ==
    [][\A p \in Products :
          /\ product[p] = "DELETED" => product'[p] \in {"DELETED", "HIDDEN"}
          /\ product'[p] = "DELETED" /\ product[p] # "DELETED" =>
                \A t \in TradesOf(p) : trade[t] \notin ActiveTradeStatuses]_vars

=============================================================================
