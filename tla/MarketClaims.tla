---------------------------- MODULE MarketClaims ----------------------------
(***************************************************************************)
(* What the documents of the repository say of the market, where the code  *)
(* does something else in some run.  Every claim names the line it is from.*)
(***************************************************************************)
EXTENDS Market

(* docs/trade-flow-fix-report-2026-07-23.md:39-41: an approved payment     *)
(* cannot be bypassed by the trade's cancel command, and is only handled   *)
(* by the payment's.  So no cancelled trade has an approved payment.       *)
ApprovedIsNotBypassed ==
    \A t \in Trades : trade[t] = "CANCELLED" => payment[t] # "APPROVED"

(* docs/test_plan.md:201 (API-TRADE-010): the settlement stops at once     *)
(* when a cancellation, a refund or a dispute is received.                 *)
DisputeStopsSettlement ==
    [][\A t \in Trades :
          "SETTLEMENT" \in ledger'[t] \ ledger[t] =>
              trade[t] = "CONFIRMED" /\ payment[t] = "APPROVED"]_vars

(* docs/test_plan.md:345 (RES-004): the work of a worker that stopped is   *)
(* resumed.  So a settlement in progress does not stay so for ever.        *)
SettlementResumes ==
    \A t \in Trades : settlement[t] = "PROCESSING" ~> settlement[t] # "PROCESSING"

=============================================================================
