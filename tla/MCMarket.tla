------------------------------ MODULE MCMarket ------------------------------
(***************************************************************************)
(* Small instances of Market for TLC: one product and its trades.          *)
(***************************************************************************)
EXTENDS MarketClaims, TLC

CONSTANTS p1, b1, t1

OneProduct == [t \in Trades |-> p1]
\* Every trade has a buyer of its own, named after the trade.
OwnBuyers == [t \in Trades |-> t]
\* t1 has another buyer than the rest.
TwoBuyers == [t \in Trades |-> IF t = t1 THEN t1 ELSE b1]

\* Neither the specification nor the properties tell trades of a product, callers
\* or idempotency keys apart.
AnonymousCalls == Permutations(Callers) \cup Permutations(Keys)
Anonymous == Permutations(Trades) \cup Permutations(Callers) \cup Permutations(Keys)
=============================================================================
