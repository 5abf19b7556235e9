--------------------------- MODULE SettlementProofs ---------------------------
(***************************************************************************)
(* The settlement of sales, for any trades, callers and workers: nobody is *)
(* paid before the hold is over, and no two jobs pay the same payment.     *)
(*                                                                         *)
(* Both rest on what the end of a hold means.  From then on the trade is   *)
(* confirmed or disputed, and the only calls about it are disputes and     *)
(* refunds: none that would start the hold again, or make the payment's    *)
(* settlement claimable while a job has it.                                *)
(***************************************************************************)
EXTENDS RecordProofs

\* The trades whose hold is over.
Held == {t \in Trades : "hold" \in elapsed[t]}

WasConfirmed(t) == \E i \in DOMAIN history[t] : history[t][i].to = "CONFIRMED"

HeldIsConfirmed == \A t \in Held : trade[t] \in {"CONFIRMED", "DISPUTED"} /\ WasConfirmed(t)

\* Call c is about a trade, and not one of the two that may come after the hold.
Disturbing(c) ==
    /\ calls[c] # NoCall
    /\ calls[c].op \in (TradeHandlers \cup PaymentHandlers) \ {"dispute", "refund"}

HeldIsLeftAlone == \A c \in Callers : Disturbing(c) => calls[c].trade \notin Held

Released == {"READY", "PROCESSING", "FAILED", "SETTLED"}
ReleasedIsHeld == \A t \in Trades : settlement[t] \in Released => t \in Held

ClaimedIsHeld ==
    \A w \in Workers : settling[w].paying # NoTrade =>
        /\ settling[w].paying \in Held
        /\ settlement[settling[w].paying] \in {"PROCESSING", "PAUSED"}

HoldInv ==
    /\ HeldIsConfirmed
    /\ HeldIsLeftAlone
    /\ ReleasedIsHeld
    /\ ClaimedIsHeld
    /\ ClaimsAreExclusive
    /\ payouts \subseteq Held
-----------------------------------------------------------------------------
(* Calls in flight.                                                        *)

LEMMA CallsLeaveAlone ==
    ASSUME TypeOK, HeldIsLeftAlone, Held' \subseteq Held,
           \A c \in Callers : calls'[c] \in {calls[c], NoCall}
    PROVE  HeldIsLeftAlone'
BY DEF HeldIsLeftAlone, Disturbing

\* A step that changes calls only.
RowsSame == UNCHANGED <<trade, history, settlement, elapsed, payouts, settling>>

LEMMA RowsSameKeep ==
    ASSUME HoldInv, RowsSame, HeldIsLeftAlone'
    PROVE  HoldInv'
BY DEF HoldInv, RowsSame, HeldIsConfirmed, Held, WasConfirmed, ReleasedIsHeld, ClaimedIsHeld,
       ClaimsAreExclusive

LEMMA BeginKeeps ==
    ASSUME TypeOK, HoldInv, NEW c \in Callers, NEW call, Begin(c, call),
           \/ call.op \in ProductHandlers \cup {"dispute", "refund"}
           \/ call.trade \notin Held
    PROVE  HoldInv'
<1>1. RowsSame
  BY DEF Begin, RowsSame, database, tradeRows, paymentRows, outside
<1>2. Held' = Held
  BY <1>1 DEF RowsSame, Held
<1>3. calls' = [calls EXCEPT ![c] = call] /\ calls \in [Callers -> Call \cup {NoCall}]
  BY DEF Begin, TypeOK
<1>4. HeldIsLeftAlone
  BY DEF HoldInv
<1>5. ASSUME NEW d \in Callers, Disturbing(d)'
      PROVE  calls'[d].trade \notin Held
  <2>1. CASE d = c
    BY <1>3, <1>5, <2>1 DEF Disturbing, TradeHandlers, PaymentHandlers, ProductHandlers
  <2>2. CASE d # c
    BY <1>3, <1>4, <1>5, <2>2 DEF Disturbing, HeldIsLeftAlone
  <2> QED BY <2>1, <2>2
<1>6. HeldIsLeftAlone'
  BY <1>2, <1>5 DEF HeldIsLeftAlone
<1> QED BY <1>1, <1>6, RowsSameKeep

\* The provider's answer leaves the call what it is.
LEMMA AnswerSeenKeeps ==
    ASSUME TypeOK, HoldInv, RowsSame, NEW c \in Callers, NEW op \in PaymentHandlers,
           Serving(c, op), calls' = [calls EXCEPT ![c].answered = TRUE]
    PROVE  HoldInv'
<1>1. calls[c] \in PaymentCall
  BY PaymentCallTyped DEF Serving
<1>2. calls'[c].op = calls[c].op /\ calls'[c].trade = calls[c].trade
  BY <1>1 DEF TypeOK, PaymentCall
<1>3. \A d \in Callers \ {c} : calls'[d] = calls[d]
  BY DEF TypeOK
<1>4. Held' = Held
  BY DEF RowsSame, Held
<1>5. HeldIsLeftAlone'
  BY <1>2, <1>3, <1>4 DEF HoldInv, HeldIsLeftAlone, Disturbing, Serving
<1> QED BY <1>5, RowsSameKeep

LEMMA RefuseKeeps ==
    ASSUME TypeOK, HoldInv, NEW c \in Callers, Refuse(c)
    PROVE  HoldInv'
<1>1. RowsSame
  BY DEF Refuse, RowsSame, database, tradeRows, paymentRows, outside
<1>2. \A d \in Callers : calls'[d] \in {calls[d], NoCall}
  BY DEF Refuse, Answer, TypeOK
<1>3. Held' = Held
  BY <1>1 DEF RowsSame, Held
<1>4. HeldIsLeftAlone'
  BY <1>2, <1>3, CallsLeaveAlone DEF HoldInv
<1> QED BY <1>1, <1>4, RowsSameKeep

-----------------------------------------------------------------------------
(* Steps that write rows.                                                  *)

SameRow(t) ==
    /\ trade'[t] = trade[t] /\ history'[t] = history[t] /\ settlement'[t] = settlement[t]
    /\ "hold" \in elapsed'[t] <=> "hold" \in elapsed[t]

\* What happens to trades whose hold is not over, and releases none of them.
LEMMA OthersKeep ==
    ASSUME TypeOK, HoldInv, NEW S \in SUBSET Trades, S \cap Held = {},
           \A t \in Trades \ S : SameRow(t),
           \A t \in S : "hold" \notin elapsed'[t] /\ settlement'[t] \notin Released,
           UNCHANGED <<payouts, settling>>,
           \A c \in Callers : calls'[c] \in {calls[c], NoCall}
    PROVE  HoldInv'
<1>1. Held' = Held
  BY DEF Held, SameRow
<1>2. HeldIsConfirmed'
  BY <1>1 DEF HoldInv, HeldIsConfirmed, Held, SameRow, WasConfirmed
<1>3. HeldIsLeftAlone'
  BY <1>1, CallsLeaveAlone DEF HoldInv
<1>4. ReleasedIsHeld'
  BY <1>1 DEF HoldInv, ReleasedIsHeld, SameRow
<1>5. ClaimedIsHeld'
  BY <1>1 DEF HoldInv, ClaimedIsHeld, Held, SameRow
<1>6. ClaimsAreExclusive' /\ (payouts \subseteq Held)'
  BY <1>1 DEF HoldInv, ClaimsAreExclusive
<1> QED BY <1>2, <1>3, <1>4, <1>5, <1>6 DEF HoldInv

\* A dispute or a refund, before or after the end of the hold.
LEMMA DisputeKeeps ==
    ASSUME TypeOK, HoldInv, NEW t \in Trades,
           \A u \in Trades \ {t} : SameRow(u),
           "hold" \in elapsed'[t] <=> "hold" \in elapsed[t],
           trade'[t] \in {trade[t], "DISPUTED"},
           \/ history'[t] = history[t]
           \/ \E from \in TradeStatus \cup {Absent} :
                 history'[t] = Append(history[t], [from |-> from, to |-> "DISPUTED"]),
           settlement'[t] \in {settlement[t], "PAUSED"},
           UNCHANGED <<payouts, settling>>,
           \A c \in Callers : calls'[c] \in {calls[c], NoCall}
    PROVE  HoldInv'
<1>1. Held' = Held
  BY DEF Held, SameRow
<1>2. WasConfirmed(t) => WasConfirmed(t)'
  <2>1. history[t] \in Seq(Row)
    BY DEF TypeOK
  <2>2. ASSUME NEW from \in TradeStatus \cup {Absent},
               history'[t] = Append(history[t], [from |-> from, to |-> "DISPUTED"])
        PROVE  WasConfirmed(t) => WasConfirmed(t)'
    <3>1. [from |-> from, to |-> "DISPUTED"] \in Row
      BY DEF Row, TradeStatus
    <3>2. /\ Len(history'[t]) = Len(history[t]) + 1
          /\ \A i \in 1 .. Len(history[t]) : history'[t][i] = history[t][i]
      BY <2>1, <2>2, <3>1
    <3>3. /\ DOMAIN history[t] = 1 .. Len(history[t]) /\ Len(history[t]) \in Nat
          /\ DOMAIN history'[t] = 1 .. Len(history'[t])
      BY <2>1, <2>2, <3>1
    <3>4. DOMAIN history[t] \subseteq DOMAIN history'[t]
      BY <3>2, <3>3
    <3> QED BY <3>2, <3>3, <3>4 DEF WasConfirmed
  <2>3. history'[t] = history[t] => (WasConfirmed(t) => WasConfirmed(t)')
    BY DEF WasConfirmed
  <2> QED BY <2>2, <2>3
<1>3. \A u \in Trades \ {t} : WasConfirmed(u) => WasConfirmed(u)'
  BY DEF SameRow, WasConfirmed
<1>4. \A u \in Held : trade'[u] \in {"CONFIRMED", "DISPUTED"}
  BY DEF HoldInv, HeldIsConfirmed, SameRow, Held
<1>5. \A u \in Held : WasConfirmed(u)'
  BY <1>2, <1>3 DEF HoldInv, HeldIsConfirmed, Held
<1>6. HeldIsConfirmed'
  BY <1>1, <1>4, <1>5 DEF HeldIsConfirmed
<1>7. HeldIsLeftAlone'
  BY <1>1, CallsLeaveAlone DEF HoldInv
<1>8. ReleasedIsHeld'
  BY <1>1 DEF HoldInv, ReleasedIsHeld, SameRow, Released
<1>9. ClaimedIsHeld'
  <2>1. ASSUME NEW w \in Workers, settling[w].paying # NoTrade
        PROVE  /\ settling[w].paying \in Held
               /\ settlement'[settling[w].paying] \in {"PROCESSING", "PAUSED"}
    BY <2>1 DEF HoldInv, ClaimedIsHeld, SameRow, Held
  <2> QED BY <1>1, <2>1 DEF ClaimedIsHeld
<1>10. ClaimsAreExclusive' /\ (payouts \subseteq Held)'
  BY <1>1 DEF HoldInv, ClaimsAreExclusive
<1> QED BY <1>6, <1>7, <1>8, <1>9, <1>10 DEF HoldInv

-----------------------------------------------------------------------------
(* The trade commands.                                                     *)

LEMMA TouchHold ==
    ASSUME NEW over \in [Trades -> SUBSET Period], NEW ts, NEW t \in Trades
    PROVE  "hold" \in Touch(ts, over)[t] <=> "hold" \in over[t]
BY DEF Touch

LEMMA RestartHold ==
    ASSUME NEW over \in [Trades -> SUBSET Period], NEW u \in Trades, NEW x, NEW t \in Trades
    PROVE  "hold" \in Restart(u, x, over)[t] <=> "hold" \in over[t] /\ (t # u \/ x # "hold")
BY DEF Restart

\* The trade of a call that comes before the end of the hold.
LEMMA CallOfTrade ==
    ASSUME TypeOK, HoldInv, NEW c \in Callers,
           NEW op \in TradeHandlers \cup PaymentHandlers, Serving(c, op)
    PROVE  /\ calls[c].trade \in Trades
           /\ calls[c].saw \in TradeStatus \cup {Absent}
           /\ op \notin {"dispute", "refund"} =>
                 calls[c].trade \notin Held /\ settlement[calls[c].trade] \notin Released
<1>1. calls[c].trade \in Trades /\ calls[c].saw \in TradeStatus \cup {Absent}
  BY TradeCallTyped, PaymentCallTyped DEF Serving, TradeCall, PaymentCall
<1> QED
  BY <1>1 DEF HoldInv, HeldIsLeftAlone, Disturbing, Serving, ReleasedIsHeld

LEMMA AnswerEnds ==
    ASSUME TypeOK, NEW c \in Callers, Answer(c)
    PROVE  \A d \in Callers : calls'[d] \in {calls[d], NoCall}
BY DEF Answer, TypeOK

LEMMA TradeReadKeeps ==
    ASSUME TypeOK, HoldInv, NEW c \in Callers, NEW t \in Trades,
           \/ ReadRequest(c, t) \/ ReadAccept(c, t) \/ ReadReject(c, t)
           \/ ReadDeliver(c, t) \/ ReadConfirm(c, t) \/ ReadDispute(c, t)
           \/ ReadCancel(c, t)
    PROVE  HoldInv'
<1>1. CASE ReadDispute(c, t)
  BY <1>1, BeginKeeps DEF ReadDispute, TradeCallOf
<1>2. CASE ~ReadDispute(c, t)
  <2>1. PICK op : Begin(c, TradeCallOf(op, t))
    BY <1>2 DEF ReadRequest, ReadAccept, ReadReject, ReadDeliver, ReadConfirm, ReadCancel
  <2>2. trade[t] \notin {"CONFIRMED", "DISPUTED"}
    BY <1>2 DEF ReadRequest, ReadAccept, ReadReject, ReadDeliver, ReadConfirm, ReadCancel,
                Absent
  <2>3. t \notin Held
    BY <2>2 DEF HoldInv, HeldIsConfirmed
  <2> QED BY <2>1, <2>3, BeginKeeps DEF TradeCallOf
<1> QED BY <1>1, <1>2

LEMMA AcceptKeeps ==
    ASSUME TypeOK, HoldInv, NEW c \in Callers, Accept(c)
    PROVE  HoldInv'
<1> DEFINE t == calls[c].trade
           S == {t} \cup Competing(t)
<1>1. t \in Trades \ Held /\ settlement[t] \notin Released
  BY CallOfTrade DEF Accept, TradeHandlers
<1>2. S \in SUBSET Trades
  BY <1>1 DEF Competing, TradesOf
<1>3. S \cap Held = {}
  BY <1>1 DEF Competing, HoldInv, HeldIsConfirmed
<1>4. \A u \in Trades : "hold" \in elapsed'[u] <=> "hold" \in elapsed[u]
  BY TouchHold DEF Accept, TypeOK
<1>5. \A u \in Trades \ S : SameRow(u)
  BY <1>4 DEF Accept, SameRow, paymentRows
<1>6. \A u \in S : "hold" \notin elapsed'[u] /\ settlement'[u] \notin Released
  BY <1>2, <1>3, <1>4 DEF Accept, paymentRows, Held, HoldInv, ReleasedIsHeld
<1>7. UNCHANGED <<payouts, settling>>
  BY DEF Accept, outside
<1>8. \A d \in Callers : calls'[d] \in {calls[d], NoCall}
  BY AnswerEnds DEF Accept
<1> HIDE DEF S
<1> QED BY <1>2, <1>3, <1>5, <1>6, <1>7, <1>8, OthersKeep

\* The commands on one trade that come before the end of its hold.
LEMMA OneTradeKeeps ==
    ASSUME TypeOK, HoldInv, NEW t \in Trades \ Held, NEW from, NEW to,
           MoveTrade(t, from, to) \/ UNCHANGED tradeRows,
           \A u \in Trades \ {t} : settlement'[u] = settlement[u],
           settlement'[t] \notin Released,
           \A u \in Trades \ {t} : "hold" \in elapsed'[u] <=> "hold" \in elapsed[u],
           "hold" \notin elapsed'[t],
           UNCHANGED <<payouts, settling>>,
           \A c \in Callers : calls'[c] \in {calls[c], NoCall}
    PROVE  HoldInv'
<1>1. \A u \in Trades \ {t} : SameRow(u)
  BY DEF SameRow, MoveTrade, TypeOK, tradeRows
<1>2. {t} \in SUBSET Trades /\ {t} \cap Held = {}
  OBVIOUS
<1>3. \A u \in {t} : "hold" \notin elapsed'[u] /\ settlement'[u] \notin Released
  OBVIOUS
<1> QED BY <1>1, <1>2, <1>3, OthersKeep

LEMMA TradeMoveKeeps ==
    ASSUME TypeOK, HoldInv, NEW c \in Callers,
           CreateTrade(c) \/ Reject(c) \/ Deliver(c) \/ Confirm(c) \/ Cancel(c)
    PROVE  HoldInv'
<1> DEFINE t == calls[c].trade
<1>1. t \in Trades \ Held /\ settlement[t] \notin Released
  BY CallOfTrade DEF CreateTrade, Reject, Deliver, Confirm, Cancel, TradeHandlers
<1>2. UNCHANGED <<payouts, settling>> /\ Answer(c)
  BY DEF CreateTrade, Reject, Deliver, Confirm, Cancel, outside
<1>3. \E from, to : MoveTrade(t, from, to)
  BY DEF CreateTrade, Reject, Deliver, Confirm, Cancel
<1>4. /\ \A u \in Trades \ {t} : settlement'[u] = settlement[u]
      /\ settlement'[t] \in {settlement[t], "HOLD", "PAUSED"}
  BY <1>1 DEF CreateTrade, Reject, Deliver, Confirm, Cancel, CloseOrder, TypeOK, paymentRows
<1>5. /\ elapsed \in [Trades -> SUBSET Period]
      /\ Touch({t}, elapsed) \in [Trades -> SUBSET Period]
  BY TouchTyped DEF TypeOK
<1>6. elapsed' \in {elapsed, Touch({t}, elapsed), Restart(t, "autoConfirm", Touch({t}, elapsed)),
                    Restart(t, "hold", Touch({t}, elapsed))}
  BY DEF CreateTrade, Reject, Deliver, Confirm, Cancel
<1>7. /\ \A u \in Trades \ {t} : "hold" \in elapsed'[u] <=> "hold" \in elapsed[u]
      /\ "hold" \notin elapsed'[t]
  <2>1. "hold" \notin elapsed[t]
    BY <1>1 DEF Held
  <2>2. ASSUME NEW u \in Trades
        PROVE  "hold" \in Touch({t}, elapsed)[u] <=> "hold" \in elapsed[u]
    BY <1>5, TouchHold
  <2>3. ASSUME NEW x, elapsed' = Restart(t, x, Touch({t}, elapsed)), NEW u \in Trades
        PROVE  "hold" \in elapsed'[u] <=> "hold" \in elapsed[u] /\ (u # t \/ x # "hold")
    BY <1>1, <1>5, <2>2, <2>3, RestartHold
  <2>4. ASSUME NEW u \in Trades, elapsed' = elapsed \/ elapsed' = Touch({t}, elapsed)
        PROVE  "hold" \in elapsed'[u] <=> "hold" \in elapsed[u]
    BY <2>2, <2>4
  <2> HIDE DEF t
  <2> QED BY <1>1, <1>6, <2>1, <2>3, <2>4
<1>8. settlement'[t] \notin Released
  BY <1>1, <1>4 DEF Released
<1>9. \A d \in Callers : calls'[d] \in {calls[d], NoCall}
  BY <1>2, AnswerEnds
<1> HIDE DEF t
<1> QED BY <1>1, <1>2, <1>3, <1>4, <1>7, <1>8, <1>9, OneTradeKeeps

LEMMA DisputeStepKeeps ==
    ASSUME TypeOK, HoldInv, NEW c \in Callers, Dispute(c) \/ Refund(c)
    PROVE  HoldInv'
<1> DEFINE t == calls[c].trade
<1>1. t \in Trades /\ calls[c].saw \in TradeStatus \cup {Absent}
  BY CallOfTrade DEF Dispute, Refund, Answered, TradeHandlers, PaymentHandlers
<1>2. UNCHANGED <<payouts, settling>> /\ Answer(c)
  BY DEF Dispute, Refund, outside
<1>3. MoveTrade(t, calls[c].saw, "DISPUTED") \/ UNCHANGED tradeRows
  BY DEF Dispute, Refund
<1>4. /\ \A u \in Trades \ {t} : trade'[u] = trade[u] /\ history'[u] = history[u]
      /\ trade'[t] \in {trade[t], "DISPUTED"}
      /\ \/ history'[t] = history[t]
         \/ \E from \in TradeStatus \cup {Absent} :
               history'[t] = Append(history[t], [from |-> from, to |-> "DISPUTED"])
  BY <1>1, <1>3 DEF MoveTrade, TypeOK, tradeRows
<1>5. /\ \A u \in Trades \ {t} : settlement'[u] = settlement[u]
      /\ settlement'[t] \in {settlement[t], "PAUSED"}
  BY <1>1 DEF Dispute, Refund, Pause, TypeOK
<1>6. elapsed' \in {elapsed, Touch({t}, elapsed)}
  BY DEF Dispute, Refund
<1>7. \A u \in Trades : "hold" \in elapsed'[u] <=> "hold" \in elapsed[u]
  BY <1>6, TouchHold DEF TypeOK
<1>8. \A u \in Trades \ {t} : SameRow(u)
  BY <1>4, <1>5, <1>7 DEF SameRow
<1>9. \A d \in Callers : calls'[d] \in {calls[d], NoCall}
  BY <1>2, AnswerEnds
<1> HIDE DEF t
<1> QED BY <1>1, <1>2, <1>4, <1>5, <1>7, <1>8, <1>9, DisputeKeeps

-----------------------------------------------------------------------------
(* The payment and product commands.                                       *)

LEMMA PaymentServiceKeeps ==
    ASSUME TypeOK, HoldInv, PaymentServiceNext
    PROVE  HoldInv'
<1>1. \A t \in Held : trade[t] \notin {"ACCEPTED"}
  BY DEF HoldInv, HeldIsConfirmed
<1>2. ASSUME NEW c \in Callers, NEW t \in Trades, NEW k \in Keys, CreateOrder(c, t, k)
      PROVE  HoldInv'
  <2>1. t \in Trades \ Held /\ "hold" \notin elapsed[t]
    BY <1>1, <1>2 DEF CreateOrder, Held
  <2>2. /\ UNCHANGED tradeRows /\ UNCHANGED <<elapsed, payouts, settling, calls>>
        /\ settlement' = [settlement EXCEPT ![t] = "HOLD"]
    BY <1>2 DEF CreateOrder, outside
  <2>3. /\ \A u \in Trades \ {t} : settlement'[u] = settlement[u]
        /\ settlement'[t] \notin Released
    BY <2>2 DEF TypeOK, Released
  <2> QED BY <2>1, <2>2, <2>3, OneTradeKeeps
<1>3. ASSUME NEW c \in Callers, NEW t \in Trades, NEW k \in Keys,
             ReadConfirmPayment(c, t, k) \/ ReadCancelPayment(c, t, k)
      PROVE  HoldInv'
  <2>1. PICK op : Begin(c, PaymentCallOf(op, t, k))
    BY <1>3 DEF ReadConfirmPayment, ReadCancelPayment
  <2>2. t \notin Held
    BY <1>1, <1>3 DEF ReadConfirmPayment, ReadCancelPayment
  <2> QED BY <2>1, <2>2, BeginKeeps DEF PaymentCallOf
<1>4. ASSUME NEW c \in Callers, NEW t \in Trades, NEW k \in Keys, ReadRefund(c, t, k)
      PROVE  HoldInv'
  BY <1>4, BeginKeeps DEF ReadRefund, PaymentCallOf
<1>5. ASSUME NEW c \in Callers, ProviderConfirms(c) \/ ProviderReverses(c)
      PROVE  HoldInv'
  <2>1. /\ RowsSame
        /\ calls' = [calls EXCEPT ![c].answered = TRUE]
        /\ \E op \in PaymentHandlers : Serving(c, op)
    BY <1>5 DEF ProviderConfirms, ProviderReverses, Unanswered, RowsSame, database, tradeRows,
                paymentRows, PaymentHandlers
  <2> QED BY <2>1, AnswerSeenKeeps
<1>6. ASSUME NEW c \in Callers, ConfirmPayment(c)
      PROVE  HoldInv'
  <2> DEFINE t == calls[c].trade
  <2>1. t \in Trades \ Held /\ settlement[t] \notin Released
    BY <1>6, CallOfTrade DEF ConfirmPayment, Answered, PaymentHandlers
  <2>2. /\ UNCHANGED tradeRows /\ UNCHANGED <<settlement, payouts, settling>> /\ Answer(c)
        /\ elapsed' = Restart(t, "cancelWindow", elapsed)
    BY <1>6 DEF ConfirmPayment, outside
  <2>3. \A u \in Trades : "hold" \in elapsed'[u] <=> "hold" \in elapsed[u]
    BY <2>1, <2>2, RestartHold DEF TypeOK
  <2>4. "hold" \notin elapsed'[t]
    BY <2>1, <2>3 DEF Held
  <2>5. \A d \in Callers : calls'[d] \in {calls[d], NoCall}
    BY <2>2, AnswerEnds
  <2> HIDE DEF t
  <2> QED BY <2>1, <2>2, <2>3, <2>4, <2>5, OneTradeKeeps
<1>7. ASSUME NEW c \in Callers, CancelPayment(c)
      PROVE  HoldInv'
  <2> DEFINE t == calls[c].trade
  <2>1. t \in Trades \ Held
    BY <1>7, CallOfTrade DEF CancelPayment, Answered, PaymentHandlers
  <2>2. /\ MoveTrade(t, calls[c].saw, "CANCELLED") /\ Answer(c)
        /\ UNCHANGED <<payouts, settling>>
        /\ settlement' = [settlement EXCEPT ![t] = "PAUSED"]
        /\ elapsed' = Touch({t}, elapsed)
    BY <1>7 DEF CancelPayment, outside
  <2>3. \A u \in Trades : "hold" \in elapsed'[u] <=> "hold" \in elapsed[u]
    BY <2>2, TouchHold DEF TypeOK
  <2>4. "hold" \notin elapsed'[t]
    BY <2>1, <2>3 DEF Held
  <2>5. /\ \A u \in Trades \ {t} : settlement'[u] = settlement[u]
        /\ settlement'[t] \notin Released
    BY <2>1, <2>2 DEF TypeOK, Released
  <2>6. \A d \in Callers : calls'[d] \in {calls[d], NoCall}
    BY <2>2, AnswerEnds
  <2> HIDE DEF t
  <2> QED BY <2>1, <2>2, <2>3, <2>4, <2>5, <2>6, OneTradeKeeps
<1>8. ASSUME NEW c \in Callers, RefuseConfirmPayment(c) \/ RefuseReversal(c)
      PROVE  HoldInv'
  BY <1>8, RefuseKeeps DEF RefuseConfirmPayment, RefuseReversal
<1> QED
  BY <1>2, <1>3, <1>4, <1>5, <1>6, <1>7, <1>8, DisputeStepKeeps DEF PaymentServiceNext

LEMMA ProductServiceKeeps ==
    ASSUME TypeOK, HoldInv, ProductServiceNext
    PROVE  HoldInv'
<1>1. ASSUME NEW c \in Callers, NEW p \in Products, NEW op \in ProductHandlers, NEW to,
             Begin(c, ProductCallOf(op, p, to))
      PROVE  HoldInv'
  BY <1>1, BeginKeeps DEF ProductCallOf
<1>2. ASSUME RowsSame, \A d \in Callers : calls'[d] \in {calls[d], NoCall}
      PROVE  HoldInv'
  <2>1. Held' = Held
    BY <1>2 DEF RowsSame, Held
  <2>2. HeldIsLeftAlone'
    BY <1>2, <2>1, CallsLeaveAlone DEF HoldInv
  <2> QED BY <1>2, <2>2, RowsSameKeep
<1>3. ASSUME NEW c \in Callers, UpdateProduct(c)
      PROVE  HoldInv'
  <2>1. RowsSame
    BY <1>3 DEF UpdateProduct, RowsSame, tradeRows, paymentRows, outside
  <2>2. \A d \in Callers : calls'[d] \in {calls[d], NoCall}
    BY <1>3, AnswerEnds DEF UpdateProduct
  <2> QED BY <1>2, <2>1, <2>2
<1>4. ASSUME NEW author \in SUBSET Products, HideProductsOf(author)
      PROVE  HoldInv'
  BY <1>2, <1>4 DEF HideProductsOf, RowsSame, tradeRows, paymentRows, outside
<1> QED
  BY <1>1, <1>3, <1>4
  DEF ProductServiceNext, ReadSetStatus, ReadRemove, ReadHideProduct, ProductHandlers

-----------------------------------------------------------------------------
(* The jobs.                                                               *)

LEMMA TradeJobKeeps ==
    ASSUME TypeOK, HoldInv, NEW t \in Trades, AutoConfirm(t) \/ ExpireUnpaid(t)
    PROVE  HoldInv'
<1>1. trade[t] \in {"DELIVERED", "ACCEPTED"}
  BY DEF AutoConfirm, ExpireUnpaid, DueForConfirm, DueForExpiry
<1>2. t \in Trades \ Held /\ settlement[t] \notin Released /\ "hold" \notin elapsed[t]
  BY <1>1 DEF HoldInv, HeldIsConfirmed, ReleasedIsHeld, Held
<1>3. (\E from, to : MoveTrade(t, from, to)) /\ UNCHANGED <<payouts, settling, calls>>
  BY DEF AutoConfirm, ExpireUnpaid, outside
<1>4. settlement' \in {settlement, [settlement EXCEPT ![t] = "HOLD"]}
  BY DEF AutoConfirm, ExpireUnpaid, paymentRows
<1>5. /\ \A u \in Trades \ {t} : settlement'[u] = settlement[u]
      /\ settlement'[t] \notin Released
  BY <1>2, <1>4 DEF TypeOK, Released
<1>6. elapsed' = Touch({t}, elapsed) \/ elapsed' = Restart(t, "hold", Touch({t}, elapsed))
  BY DEF AutoConfirm, ExpireUnpaid
<1>7. ASSUME NEW u \in Trades
      PROVE  /\ u # t => ("hold" \in elapsed'[u] <=> "hold" \in elapsed[u])
             /\ u = t => "hold" \notin elapsed'[u]
  <2>1. Touch({t}, elapsed) \in [Trades -> SUBSET Period]
    BY TouchTyped DEF TypeOK
  <2>2. "hold" \in Touch({t}, elapsed)[u] <=> "hold" \in elapsed[u]
    BY TouchHold DEF TypeOK
  <2>3. "hold" \in Restart(t, "hold", Touch({t}, elapsed))[u]
        <=> "hold" \in Touch({t}, elapsed)[u] /\ u # t
    BY <2>1, RestartHold
  <2> QED BY <1>2, <1>6, <2>2, <2>3
<1> QED BY <1>2, <1>3, <1>5, <1>7, OneTradeKeeps

\* A step of a settlement job that changes no settlement status: it may end the
\* job's claim, or pay for it.
LEMMA JobStepKeeps ==
    ASSUME TypeOK, HoldInv, NEW w \in Workers, NEW job,
           UNCHANGED <<trade, history, settlement, elapsed, calls>>,
           settling' = [settling EXCEPT ![w] = job],
           job.paying \in {settling[w].paying, NoTrade},
           \A t \in payouts' : t \in payouts \/ (t = settling[w].paying /\ t # NoTrade)
    PROVE  HoldInv'
<1>1. Held' = Held
  BY DEF Held
<1>2. \A v \in Workers : settling'[v].paying \in {settling[v].paying, NoTrade}
  BY DEF TypeOK
<1>3. HeldIsConfirmed' /\ HeldIsLeftAlone' /\ ReleasedIsHeld'
  BY <1>1 DEF HoldInv, HeldIsConfirmed, WasConfirmed, HeldIsLeftAlone, Disturbing,
              ReleasedIsHeld
<1>4. ClaimedIsHeld'
  BY <1>1, <1>2 DEF HoldInv, ClaimedIsHeld
<1>5. ClaimsAreExclusive'
  BY <1>2 DEF HoldInv, ClaimsAreExclusive
<1>6. (payouts \subseteq Held)'
  BY <1>1 DEF HoldInv, ClaimedIsHeld
<1> QED BY <1>3, <1>4, <1>5, <1>6 DEF HoldInv

LEMMA ReleaseKeeps ==
    ASSUME TypeOK, HoldInv, NEW w \in Workers, ReleaseHolds(w)
    PROVE  HoldInv'
<1>1. Held' = Held /\ UNCHANGED <<trade, history, calls, settling, payouts>>
  BY DEF ReleaseHolds, Held, tradeRows, outside
<1>2. \A t \in Trades : \/ settlement'[t] = settlement[t]
                        \/ t \in Held /\ settlement[t] = "HOLD"
  BY DEF ReleaseHolds, Matured, Held
<1>3. HeldIsConfirmed' /\ HeldIsLeftAlone'
  BY <1>1 DEF HoldInv, HeldIsConfirmed, WasConfirmed, HeldIsLeftAlone, Disturbing
<1>4. ReleasedIsHeld'
  BY <1>1, <1>2 DEF HoldInv, ReleasedIsHeld
<1>5. ClaimedIsHeld'
  <2>1. ASSUME NEW v \in Workers, settling[v].paying # NoTrade
        PROVE  /\ settling[v].paying \in Held
               /\ settlement'[settling[v].paying] \in {"PROCESSING", "PAUSED"}
    BY <1>2, <2>1 DEF HoldInv, ClaimedIsHeld, Held
  <2> QED BY <1>1, <2>1 DEF ClaimedIsHeld
<1>6. ClaimsAreExclusive' /\ (payouts \subseteq Held)'
  BY <1>1 DEF HoldInv, ClaimsAreExclusive
<1> QED BY <1>3, <1>4, <1>5, <1>6 DEF HoldInv

\* The claim: nobody else has it, because what is claimable is in nobody's hands.
LEMMA ClaimKeeps ==
    ASSUME TypeOK, HoldInv, NEW w \in Workers, NEW t \in Trades, Claim(w, t)
    PROVE  HoldInv'
<1>1. Held' = Held /\ UNCHANGED <<trade, history, calls, payouts>>
  BY DEF Claim, Held, tradeRows, outside
<1>2. settlement[t] \in {"READY", "FAILED"} /\ t \in Held
  BY DEF Claim, Claimable, HoldInv, ReleasedIsHeld, Released
<1>3. settlement' = [settlement EXCEPT ![t] = "PROCESSING"]
  BY DEF Claim
<1>4. /\ settling'[w].paying = t
      /\ \A v \in Workers \ {w} : settling'[v] = settling[v]
  BY DEF Claim, TypeOK
<1>5. \A v \in Workers : settling[v].paying # t
  BY <1>2, MarketAssumption DEF HoldInv, ClaimedIsHeld
<1>6. HeldIsConfirmed' /\ HeldIsLeftAlone'
  BY <1>1 DEF HoldInv, HeldIsConfirmed, WasConfirmed, HeldIsLeftAlone, Disturbing
<1>7. ReleasedIsHeld'
  BY <1>1, <1>2, <1>3 DEF HoldInv, ReleasedIsHeld, TypeOK
<1>8. ClaimedIsHeld'
  <2>1. ASSUME NEW v \in Workers, settling'[v].paying # NoTrade
        PROVE  /\ settling'[v].paying \in Held
               /\ settlement'[settling'[v].paying] \in {"PROCESSING", "PAUSED"}
    <3>1. CASE v = w
      BY <1>2, <1>3, <1>4, <3>1 DEF TypeOK
    <3>2. CASE v # w
      BY <1>3, <1>4, <1>5, <2>1, <3>2 DEF HoldInv, ClaimedIsHeld, TypeOK, Held
    <3> QED BY <3>1, <3>2
  <2> QED BY <1>1, <2>1 DEF ClaimedIsHeld
<1>9. ClaimsAreExclusive'
  BY <1>4, <1>5 DEF HoldInv, ClaimsAreExclusive
<1>10. (payouts \subseteq Held)'
  BY <1>1 DEF HoldInv
<1> QED BY <1>6, <1>7, <1>8, <1>9, <1>10 DEF HoldInv

\* The result is posted: the claim ends with it.
LEMMA ResultKeeps ==
    ASSUME TypeOK, HoldInv, NEW w \in Workers, SettlePayment(w) \/ FailSettlement(w)
    PROVE  HoldInv'
<1>0. settling[w].paying \in Trades
  BY DEF SettlePayment, FailSettlement, TypeOK, SettlementJob
<1>1. PICK t \in Trades : t = settling[w].paying
  BY <1>0
<1>2. t # NoTrade
  BY <1>1, MarketAssumption
<1>3. Held' = Held /\ UNCHANGED <<trade, history, calls, payouts>>
  BY DEF SettlePayment, FailSettlement, Held, tradeRows, outside
<1>4. t \in Held
  BY <1>1, <1>2 DEF HoldInv, ClaimedIsHeld
<1>5. \A u \in Trades \ {t} : settlement'[u] = settlement[u]
  BY <1>1 DEF SettlePayment, FailSettlement, TypeOK
<1>6. /\ settling'[w].paying = NoTrade
      /\ \A v \in Workers \ {w} : settling'[v] = settling[v]
  BY DEF SettlePayment, FailSettlement, NextItem, TypeOK
<1>7. HeldIsConfirmed' /\ HeldIsLeftAlone'
  BY <1>3 DEF HoldInv, HeldIsConfirmed, WasConfirmed, HeldIsLeftAlone, Disturbing
<1>8. ReleasedIsHeld'
  BY <1>3, <1>4, <1>5 DEF HoldInv, ReleasedIsHeld
<1>9. \A v \in Workers \ {w} : settling[v].paying # t
  BY <1>1, <1>2 DEF HoldInv, ClaimsAreExclusive
<1>10. ClaimedIsHeld'
  <2>1. ASSUME NEW v \in Workers, settling'[v].paying # NoTrade
        PROVE  /\ settling'[v].paying \in Held
               /\ settlement'[settling'[v].paying] \in {"PROCESSING", "PAUSED"}
    BY <1>5, <1>6, <1>9, <2>1 DEF HoldInv, ClaimedIsHeld, Held
  <2> QED BY <1>3, <2>1 DEF ClaimedIsHeld
<1>11. ClaimsAreExclusive'
  BY <1>6 DEF HoldInv, ClaimsAreExclusive
<1>12. (payouts \subseteq Held)'
  BY <1>3 DEF HoldInv
<1> QED BY <1>7, <1>8, <1>10, <1>11, <1>12 DEF HoldInv

LEMMA SettlementKeeps ==
    ASSUME TypeOK, HoldInv, NEW w \in Workers, SettlementStep(w) \/ WorkerCrash(w)
    PROVE  HoldInv'
<1>1. CASE FindDue(w) \/ EndJob(w) \/ WorkerCrash(w)
  <2>1. PICK job : settling' = [settling EXCEPT ![w] = job] /\ job.paying = NoTrade
    <3>1. CASE FindDue(w)
      <4>1. PICK job : job = [stage |-> "claiming", due |-> Payable, paying |-> NoTrade]
        OBVIOUS
      <4>2. settling' = [settling EXCEPT ![w] = job]
        BY <3>1, <4>1 DEF FindDue
      <4>3. job.paying = NoTrade
        BY <4>1
      <4> QED BY <4>2, <4>3
    <3>2. CASE EndJob(w) \/ WorkerCrash(w)
      <4>1. PICK job : job = IdleJob
        OBVIOUS
      <4>2. settling' = [settling EXCEPT ![w] = job]
        BY <3>2, <4>1 DEF EndJob, WorkerCrash
      <4>3. job.paying = NoTrade
        BY <4>1 DEF IdleJob
      <4> QED BY <4>2, <4>3
    <3> QED BY <1>1, <3>1, <3>2
  <2>2. UNCHANGED <<trade, history, settlement, elapsed, calls, payouts>>
    BY <1>1 DEF FindDue, EndJob, WorkerCrash, database, tradeRows, paymentRows, outside
  <2> QED BY <2>1, <2>2, JobStepKeeps
<1>2. CASE (\E t \in Trades : SkipClaim(w, t)) \/ PayoutSucceeds(w) \/ PayoutFails(w)
  <2>1. settling[w] \in SettlementJob
    BY DEF TypeOK
  <2>2. PICK job : settling' = [settling EXCEPT ![w] = job] /\ job.paying = settling[w].paying
    <3>1. ASSUME NEW t \in Trades, SkipClaim(w, t)
          PROVE  \E job : /\ settling' = [settling EXCEPT ![w] = job]
                          /\ job.paying = settling[w].paying
      <4>1. settling' = [settling EXCEPT ![w] =
                            [settling[w] EXCEPT !.due = settling[w].due \ {t}]]
        BY <3>1 DEF SkipClaim, TypeOK
      <4>2. [settling[w] EXCEPT !.due = settling[w].due \ {t}].paying = settling[w].paying
        BY <2>1 DEF SettlementJob
      <4> QED BY <4>1, <4>2
    <3>2. ASSUME NEW stage, settling' = [settling EXCEPT ![w].stage = stage]
          PROVE  \E job : /\ settling' = [settling EXCEPT ![w] = job]
                          /\ job.paying = settling[w].paying
      <4>1. settling' = [settling EXCEPT ![w] = [settling[w] EXCEPT !.stage = stage]]
        BY <3>2 DEF TypeOK
      <4>2. [settling[w] EXCEPT !.stage = stage].paying = settling[w].paying
        BY <2>1 DEF SettlementJob
      <4> QED BY <4>1, <4>2
    <3>3. CASE \E t \in Trades : SkipClaim(w, t)
      BY <3>1, <3>3
    <3>4. CASE PayoutSucceeds(w)
      <4>1. settling' = [settling EXCEPT ![w].stage = "paid"]
        BY <3>4 DEF PayoutSucceeds
      <4> QED BY <3>2, <4>1
    <3>5. CASE PayoutFails(w)
      <4>1. settling' = [settling EXCEPT ![w].stage = "unpaid"]
        BY <3>5 DEF PayoutFails
      <4> QED BY <3>2, <4>1
    <3> QED BY <1>2, <3>3, <3>4, <3>5
  <2>3. UNCHANGED <<trade, history, settlement, elapsed, calls>>
    BY <1>2 DEF SkipClaim, PayoutSucceeds, PayoutFails, database, tradeRows, paymentRows
  <2>4. \A t \in payouts' : t \in payouts \/ (t = settling[w].paying /\ t # NoTrade)
    BY <1>2, <2>1 DEF SkipClaim, PayoutSucceeds, PayoutFails, outside, SettlementJob
  <2> QED BY <2>2, <2>3, <2>4, JobStepKeeps
<1> QED
  BY <1>1, <1>2, ReleaseKeeps, ClaimKeeps, ResultKeeps DEF SettlementStep

-----------------------------------------------------------------------------
(* The end of a hold: no call about the trade is in flight then.           *)
LEMMA PeriodKeeps ==
    ASSUME TypeOK, StatusIsLastHistory, HoldInv, NEW t \in Trades, NEW x \in Period,
           PeriodEnds(t, x)
    PROVE  HoldInv'
<1>1. UNCHANGED <<trade, history, settlement, payouts, settling, calls>>
  BY DEF PeriodEnds, tradeRows, paymentRows, outside
<1>2. elapsed' = [elapsed EXCEPT ![t] = elapsed[t] \cup {x}]
  BY DEF PeriodEnds
<1>3. CASE x # "hold"
  <2>1. \A u \in Trades : "hold" \in elapsed'[u] <=> "hold" \in elapsed[u]
    BY <1>2, <1>3 DEF TypeOK
  <2>2. \A u \in Trades \ {t} : SameRow(u)
    BY <1>1, <2>1 DEF SameRow
  <2> QED BY <1>1, <2>1, <2>2, DisputeKeeps
<1>4. CASE x = "hold"
  <2>1. Held' = Held \cup {t}
    BY <1>2, <1>4 DEF Held, TypeOK
  <2>2. trade[t] = "CONFIRMED" /\ ~Busy(t)
    BY <1>4 DEF PeriodEnds
  <2>3. WasConfirmed(t)
    <3>1. history[t] \in Seq(Row)
      BY DEF TypeOK
    <3>2. history[t] # <<>> /\ history[t][Len(history[t])].to = "CONFIRMED"
      BY <2>2 DEF StatusIsLastHistory, Absent
    <3>3. Len(history[t]) \in DOMAIN history[t]
      BY <3>1, <3>2
    <3> QED BY <3>2, <3>3 DEF WasConfirmed
  <2>4. HeldIsConfirmed'
    BY <1>1, <2>1, <2>2, <2>3 DEF HoldInv, HeldIsConfirmed, WasConfirmed
  <2>5. HeldIsLeftAlone'
    BY <1>1, <2>1, <2>2 DEF HoldInv, HeldIsLeftAlone, Disturbing, Busy
  <2>6. ReleasedIsHeld' /\ ClaimedIsHeld' /\ ClaimsAreExclusive' /\ (payouts \subseteq Held)'
    BY <1>1, <2>1 DEF HoldInv, ReleasedIsHeld, ClaimedIsHeld, ClaimsAreExclusive
  <2> QED BY <2>4, <2>5, <2>6 DEF HoldInv
<1> QED BY <1>3, <1>4

LEMMA NextKeepsHolds ==
    TypeOK /\ StatusIsLastHistory /\ HoldInv /\ [Next]_vars => HoldInv'
<1> SUFFICES ASSUME TypeOK, StatusIsLastHistory, HoldInv, [Next]_vars
             PROVE  HoldInv'
  OBVIOUS
<1>1. CASE TradeServiceNext
  BY <1>1, TradeReadKeeps, AcceptKeeps, TradeMoveKeeps, DisputeStepKeeps, RefuseKeeps
  DEF TradeServiceNext, RefuseAccept
<1>2. CASE MaintenanceNext
  BY <1>2, TradeJobKeeps, SettlementKeeps DEF MaintenanceNext
<1>3. CASE UNCHANGED vars
  <2>1. RowsSame /\ UNCHANGED calls
    BY <1>3 DEF vars, RowsSame, database, tradeRows, paymentRows, outside
  <2>2. HeldIsLeftAlone'
    BY <2>1 DEF HoldInv, HeldIsLeftAlone, Disturbing, RowsSame, Held
  <2> QED BY <2>1, <2>2, RowsSameKeep
<1> QED
  BY <1>1, <1>2, <1>3, PaymentServiceKeeps, ProductServiceKeeps, RefuseKeeps, PeriodKeeps
  DEF Next, CallLost

(* What the end of the hold settles, for any number of jobs that crash at  *)
(* any point: the inductive invariant of settlement-maintenance.ts.        *)
THEOREM HoldInvariant == Spec => []HoldInv
<1>1. Init => HoldInv
  BY DEF Init, HoldInv, HeldIsConfirmed, Held, HeldIsLeftAlone, Disturbing, ReleasedIsHeld,
         Released, ClaimedIsHeld, ClaimsAreExclusive, IdleJob, Absent
<1> QED BY <1>1, NextKeepsHolds, TypeCorrect, HistoryCorrect, PTL DEF Spec

(* No seller is paid before the hold of a confirmation is over, however    *)
(* often the trade is confirmed and whatever is disputed meanwhile.        *)
THEOREM PaidAfterHold == Spec => []PaidOnlyAfterHold
<1>1. HoldInv => PaidOnlyAfterHold
  BY DEF HoldInv, PaidOnlyAfterHold, HeldIsConfirmed, WasConfirmed, Held
<1> QED BY <1>1, HoldInvariant, PTL

(* A payment is in the hands of one settlement job at a time: the claim,   *)
(* an updateMany on the settlement status, excludes all the others.        *)
THEOREM ClaimsExclusive == Spec => []ClaimsAreExclusive
<1>1. HoldInv => ClaimsAreExclusive
  BY DEF HoldInv
<1> QED BY <1>1, HoldInvariant, PTL

=============================================================================
