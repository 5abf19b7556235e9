----------------------------- MODULE PaymentLife -----------------------------
(***************************************************************************)
(* The life of a payment as the rest of the system may rely on it: its     *)
(* status and what the provider did for its order, without the calls and   *)
(* the trades that drive them.  Market implements it (the property         *)
(* LifeSpec); Webhooks uses it as the environment of the webhook worker.   *)
(***************************************************************************)
CONSTANT Payments

VARIABLES
    status,      \* [Payments -> Payment.status, or "absent" before the order]
    provider     \* [Payments -> what the provider did with the buyer's money]

lvars == <<status, provider>>

\* The statuses that are written; only an approved payment gets a "Reversed" one
\* while the provider knows of it.
Reversed == {"CANCELLED", "REFUNDED"}
LifeStatus == {"absent", "READY", "APPROVED"} \cup Reversed

LifeInit ==
    /\ status = [p \in Payments |-> "absent"]
    /\ provider = [p \in Payments |-> "absent"]

Becomes(p, s) == status' = [status EXCEPT ![p] = s] /\ UNCHANGED provider
Provides(p, s) == provider' = [provider EXCEPT ![p] = s] /\ UNCHANGED status

\* The order is created, and may be closed before anybody approved it.
Order(p) == status[p] = "absent" /\ Becomes(p, "READY")
CloseUnpaid(p) == status[p] = "READY" /\ Becomes(p, "CANCELLED")

\* The provider takes the money of an order (that may be closed by then); the
\* approval is committed after that, or never.
Capture(p) == status[p] # "absent" /\ provider[p] = "absent" /\ Provides(p, "DONE")
Approve(p) == status[p] = "READY" /\ provider[p] = "DONE" /\ Becomes(p, "APPROVED")

\* The provider gives back what was approved, and a cancellation, a refund or
\* both are committed after that.
GiveBack(p) == status[p] = "APPROVED" /\ provider[p] = "DONE" /\ Provides(p, "CANCELED")
Reverse(p, s) ==
    /\ status[p] \in {"APPROVED"} \cup Reversed
    /\ provider[p] = "CANCELED"
    /\ Becomes(p, s)

LifeNext ==
    \E p \in Payments :
        \/ Order(p) \/ CloseUnpaid(p) \/ Capture(p) \/ Approve(p) \/ GiveBack(p)
        \/ \E s \in Reversed : Reverse(p, s)

LifeSpec == LifeInit /\ [][LifeNext]_lvars

=============================================================================
