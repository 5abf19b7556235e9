---------------------------- MODULE EscrowLedger ----------------------------
(***************************************************************************)
(* What the payment side of the market promises about money, with no calls *)
(* and no statuses: for every trade, what the payment provider holds, what *)
(* was paid out to the seller, and the entries of the book (LedgerEntry).  *)
(* An entry is only ever added, at most once per type, and only for money  *)
(* that has really moved; nothing is booked before the capture.            *)
(***************************************************************************)
CONSTANT Trades

VARIABLES
    provider,    \* [Trades -> what the provider did with the buyer's money]
    paidOut,     \* the trades whose seller was paid
    book         \* [Trades -> the entries of the ledger]

evars == <<provider, paidOut, book>>

EscrowInit ==
    /\ provider = [t \in Trades |-> "absent"]
    /\ paidOut = {}
    /\ book = [t \in Trades |-> {}]

\* The provider takes the buyer's money.
TakeMoney(t) ==
    /\ provider[t] = "absent"
    /\ provider' = [provider EXCEPT ![t] = "DONE"]
    /\ UNCHANGED <<paidOut, book>>

\* The provider gives it back: only money that was booked as captured.
GiveBack(t) ==
    /\ provider[t] = "DONE" /\ "ESCROW_CAPTURE" \in book[t]
    /\ provider' = [provider EXCEPT ![t] = "CANCELED"]
    /\ UNCHANGED <<paidOut, book>>

\* The seller is paid: only from money that was booked as captured.
PayOut(t) ==
    /\ "ESCROW_CAPTURE" \in book[t]
    /\ paidOut' = paidOut \cup {t}
    /\ UNCHANGED <<provider, book>>

BookEntry(t, entry) ==
    /\ entry \notin book[t]
    /\ book' = [book EXCEPT ![t] = @ \cup {entry}]
    /\ UNCHANGED <<provider, paidOut>>

BookCapture(t) ==
    provider[t] = "DONE" /\ book[t] = {} /\ BookEntry(t, "ESCROW_CAPTURE")

BookReturn(t) ==
    /\ provider[t] = "CANCELED"
    /\ BookEntry(t, "CANCELLATION") \/ BookEntry(t, "REFUND")

BookPayout(t) == t \in paidOut /\ BookEntry(t, "SETTLEMENT")

EscrowNext ==
    \E t \in Trades :
        \/ TakeMoney(t) \/ GiveBack(t) \/ PayOut(t)
        \/ BookCapture(t) \/ BookReturn(t) \/ BookPayout(t)

EscrowSpec == EscrowInit /\ [][EscrowNext]_evars

=============================================================================
