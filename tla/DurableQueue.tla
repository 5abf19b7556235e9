---------------------------- MODULE DurableQueue ----------------------------
(***************************************************************************)
(* What the outbox promises about the items it was given: every item gets  *)
(* at most one outcome, an item is closed only when it has one, and one    *)
(* that is given up, or that an operator wants handled again, is open      *)
(* again with the outcome it had.                                          *)
(***************************************************************************)
CONSTANTS Items, Outcomes, Undecided

VARIABLES
    outcome,     \* [Items -> the outcome, or Undecided]
    stage        \* [Items -> where the queue has it]

qvars == <<outcome, stage>>

QueueInit ==
    /\ outcome = [i \in Items |-> Undecided]
    /\ stage = [i \in Items |-> "new"]

Moves(i, from, to) == stage[i] \in from /\ stage' = [stage EXCEPT ![i] = to]
Settles(i, o) == outcome[i] = Undecided /\ outcome' = [outcome EXCEPT ![i] = o]

Accept(i) == Moves(i, {"new"}, "open") /\ UNCHANGED outcome
Dismiss(i) == Moves(i, {"new"}, "closed") /\ \E o \in Outcomes : Settles(i, o)
Decide(i) == stage[i] = "open" /\ UNCHANGED stage /\ \E o \in Outcomes : Settles(i, o)
Close(i) == outcome[i] # Undecided /\ Moves(i, {"open"}, "closed") /\ UNCHANGED outcome
GiveUp(i) == Moves(i, {"open"}, "dead") /\ UNCHANGED outcome
Reopen(i) == Moves(i, {"closed", "dead"}, "open") /\ UNCHANGED outcome

QueueNext ==
    \E i \in Items :
        \/ Accept(i) \/ Dismiss(i) \/ Decide(i) \/ Close(i) \/ GiveUp(i) \/ Reopen(i)

QueueSpec == QueueInit /\ [][QueueNext]_qvars

=============================================================================
