----------------------------- MODULE MCWebhooks -----------------------------
(***************************************************************************)
(* Instances of Webhooks for TLC: nothing tells workers apart, nor         *)
(* webhooks before they arrive.                                            *)
(***************************************************************************)
EXTENDS Webhooks, TLC

Alike == Permutations(Workers) \cup Permutations(Webhooks)
=============================================================================
