------------------------------ MODULE Webhooks ------------------------------
(***************************************************************************)
(* The provider's webhooks, the outbox that carries them to the worker,    *)
(* and the administrator's commands on both: receiveWebhook of             *)
(* payment.service.ts, payment-events.ts and the BullMQ queue of main.ts   *)
(* in the worker, retryOutbox and reconcilePayment of admin.service.ts.    *)
(*                                                                         *)
(* Every webhook is stored with one outbox event, so a webhook names its   *)
(* event.  A worker claims the event, reads the webhook and the payment,   *)
(* asks the provider, and writes: each a step here, because claims grow    *)
(* old, events are retried and payments go on in between.                  *)
(***************************************************************************)
EXTENDS PaymentLife, Integers

CONSTANTS
    Webhooks,     \* PaymentWebhook.transmissionId, unique
    Sequences,    \* the sequence numbers the provider gives
    NoPayment,    \* an order this system does not know
    Workers,      \* worker processes; each runs one job at a time
    NoEvent,      \* a worker without a job
    MaxAttempts,  \* 10 in the code
    Commands,     \* the administrator's commands in this instance
    CrashBound    \* bound: a worker stops only in one of the first attempts

ASSUME WebhookAssumption ==
    /\ Sequences \subseteq Int
    /\ Commands \subseteq {"retry", "reconcile"}
    /\ NoPayment \notin Payments /\ NoEvent \notin Webhooks
    /\ MaxAttempts \in Nat \ {0} /\ CrashBound \in Nat

VARIABLES
    webhook,      \* [Webhooks -> processingStatus, or "absent"]
    paymentId,    \* [Webhooks -> the payment of the webhook's order, or NoPayment]
    sequence,     \* [Webhooks -> PaymentWebhook.sequence]
    event,        \* [Webhooks -> OutboxEvent.status, or "absent"]
    attempts,     \* [Webhooks -> OutboxEvent.attempts]
    due,          \* the events whose availableAt is over
    old,          \* the events claimed more than five minutes ago
    jobs,         \* the events with a waiting job in the BullMQ queue
    worker,       \* [Workers -> the job in progress]
    lastSequence, \* [Payments -> Payment.lastWebhookSequence]
    checked,      \* [Payments -> what the last check against the provider found]
    reconciling   \* the reconciliation in flight

content == <<paymentId, sequence>>
outbox == <<event, attempts, due, old>>
checks == <<lastSequence, checked>>
wvars == <<lvars, webhook, content, outbox, jobs, worker, checks, reconciling>>

Decided == {"PROCESSED", "IGNORED", "FAILED"}
EventStatus == {"PENDING", "PROCESSING", "PROCESSED", "FAILED", "DEAD_LETTER"}
Answer == {"DONE", "CANCELED", "other"}
Finding == {"never", "mismatch"} \cup Answer
Job == [event: Webhooks \cup {NoEvent}, attempt: Nat, saw: LifeStatus,
        stage: {"idle", "claimed", "asking", "agreed", "done", "failed"}, answer: Answer]
Reconciliation == [payment: Payments \cup {NoPayment}, saw: LifeStatus, finding: Finding]

NoJob == [event |-> NoEvent, attempt |-> 0, saw |-> "absent", stage |-> "idle", answer |-> "other"]
NoReconciliation == [payment |-> NoPayment, saw |-> "absent", finding |-> "never"]

TypeOK ==
    /\ status \in [Payments -> LifeStatus]
    /\ provider \in [Payments -> {"absent", "DONE", "CANCELED"}]
    /\ webhook \in [Webhooks -> Decided \cup {"absent", "RECEIVED"}]
    /\ paymentId \in [Webhooks -> Payments \cup {NoPayment}] /\ sequence \in [Webhooks -> Int]
    /\ event \in [Webhooks -> EventStatus \cup {"absent"}]
    /\ attempts \in [Webhooks -> Nat]
    /\ due \subseteq Webhooks /\ old \subseteq Webhooks /\ jobs \subseteq Webhooks
    /\ worker \in [Workers -> Job]
    /\ \A k \in Workers : worker[k].event = NoEvent <=> worker[k].stage = "idle"
    /\ lastSequence \in [Payments -> Nat]
    /\ checked \in [Payments -> Finding]
    /\ reconciling \in Reconciliation

WebhooksInit ==
    /\ LifeInit
    /\ webhook = [w \in Webhooks |-> "absent"]
    /\ paymentId = [w \in Webhooks |-> NoPayment] /\ sequence = [w \in Webhooks |-> 0]
    /\ event = [w \in Webhooks |-> "absent"]
    /\ attempts = [w \in Webhooks |-> 0]
    /\ due = {} /\ old = {} /\ jobs = {}
    /\ worker = [k \in Workers |-> NoJob]
    /\ lastSequence = [p \in Payments |-> 0]
    /\ checked = [p \in Payments |-> "never"]
    /\ reconciling = NoReconciliation

-----------------------------------------------------------------------------
(* receiveWebhook: a transmission that is not known yet is stored with its *)
(* event in one transaction; the unique constraint refuses a second one.   *)
(* The provider sends webhooks for orders that exist, or that are not      *)
(* ours, and may send one with a body that cannot be parsed.               *)
Receive(w) ==
    /\ webhook[w] = "absent"
    /\ webhook' = [webhook EXCEPT ![w] = "RECEIVED"]
    /\ \E p \in {q \in Payments : status[q] # "absent"} \cup {NoPayment}, n \in Sequences :
          paymentId' = [paymentId EXCEPT ![w] = p] /\ sequence' = [sequence EXCEPT ![w] = n]
    /\ event' = [event EXCEPT ![w] = "PENDING"]
    /\ due' = due \cup {w}
    /\ UNCHANGED <<lvars, attempts, old, jobs, worker, checks, reconciling>>

ReceiveInvalid(w) ==
    /\ webhook[w] = "absent"
    /\ webhook' = [webhook EXCEPT ![w] = "FAILED"]
    /\ UNCHANGED <<lvars, content, outbox, jobs, worker, checks, reconciling>>

-----------------------------------------------------------------------------
(* Time: the pause after a failure ends, and a claim grows older than five *)
(* minutes (nothing bounds how long a worker takes for its event).         *)
BackoffEnds(w) ==
    /\ event[w] = "FAILED" /\ w \notin due
    /\ due' = due \cup {w}
    /\ UNCHANGED <<lvars, webhook, content, event, attempts, old, jobs, worker, checks, reconciling>>

ClaimAges(w) ==
    /\ event[w] = "PROCESSING" /\ w \notin old
    /\ old' = old \cup {w}
    /\ UNCHANGED <<lvars, webhook, content, event, attempts, due, jobs, worker, checks, reconciling>>

-----------------------------------------------------------------------------
(* dispatchOutboxJobs, every five seconds.                                 *)
OnlyPending == {"PENDING"}                      \* mutant: failed events are left
Openable == {"PENDING", "FAILED"}
Claimable(w) == event[w] \in Openable /\ w \in due

ReopenStale ==
    /\ old # {}
    /\ event' = [w \in Webhooks |-> IF w \in old THEN "FAILED" ELSE event[w]]
    /\ due' = due \cup old
    /\ old' = {}
    /\ UNCHANGED <<lvars, webhook, content, attempts, jobs, worker, checks, reconciling>>

Held(w) == \E k \in Workers : worker[k].event = w

\* Mutant: the job is added without its jobId.
Add(w) == jobs' = jobs \cup {w}

\* The jobId keeps BullMQ from adding an event that has a job, waiting or active.
AddOnce(w) == w \notin jobs /\ ~Held(w) /\ jobs' = jobs \cup {w}

Enqueue(w) ==
    /\ Claimable(w)
    /\ AddOnce(w)
    /\ UNCHANGED <<lvars, webhook, content, outbox, worker, checks, reconciling>>

-----------------------------------------------------------------------------
(* processOutboxEvent: the claim is an updateMany with a condition; an     *)
(* event that no longer meets it is skipped.                               *)
Claim(k, w) ==
    /\ worker[k] = NoJob /\ w \in jobs
    /\ jobs' = jobs \ {w}
    /\ Claimable(w)
    /\ event' = [event EXCEPT ![w] = "PROCESSING"]
    /\ attempts' = [attempts EXCEPT ![w] = @ + 1]
    /\ old' = old \ {w}
    /\ worker' = [worker EXCEPT ![k] = [NoJob EXCEPT !.event = w, !.stage = "claimed"]]
    /\ UNCHANGED <<lvars, webhook, content, due, checks, reconciling>>

Skip(k, w) ==
    /\ worker[k] = NoJob /\ w \in jobs
    /\ jobs' = jobs \ {w}
    /\ ~Claimable(w)
    /\ UNCHANGED <<lvars, webhook, content, outbox, worker, checks, reconciling>>

Doing(k, stage) == worker[k].stage = stage
EventOf(k) == worker[k].event
Goes(k, stage) == worker' = [worker EXCEPT ![k] = [@ EXCEPT !.stage = stage]]

\* finish: the webhook is updated by id.
Finish(w, s) == webhook' = [webhook EXCEPT ![w] = s]

NewerOrNot(w) == sequence[w] > 0                \* mutant: payment updated by id
Newer(w) == sequence[w] > lastSequence[paymentId[w]]

(* processPaymentWebhook up to the lookup: the event with its attempts,    *)
(* the webhook and its payment are read, and three cases are decided.      *)
Load(k) ==
    LET w == EventOf(k)
        Reads(stage, seen) ==
            worker' = [worker EXCEPT ![k] = [@ EXCEPT !.attempt = attempts[w], !.stage = stage,
                                                      !.saw = seen]]
    IN  /\ Doing(k, "claimed")
        /\ \/ webhook[w] # "RECEIVED" /\ Reads("done", "absent") /\ UNCHANGED webhook
           \/ /\ webhook[w] = "RECEIVED" /\ paymentId[w] = NoPayment
              /\ Finish(w, "FAILED") /\ Reads("done", "absent")
           \/ /\ webhook[w] = "RECEIVED" /\ paymentId[w] # NoPayment
              /\ IF Newer(w)
                   THEN Reads("asking", status[paymentId[w]]) /\ UNCHANGED webhook
                   ELSE Finish(w, "IGNORED") /\ Reads("done", "absent")
           \/ Reads("failed", "absent") /\ UNCHANGED webhook
        /\ UNCHANGED <<lvars, content, outbox, jobs, checks, reconciling>>

\* The provider answers with its status of the payment: any other than these two
\* as long as it has not taken the money.
AsItIs(p) == provider[p]                        \* mutant: no default
AnswerOf(p) == IF provider[p] = "absent" THEN "other" ELSE provider[p]

Expected(answer, seen) ==
    IF answer = "DONE" THEN "APPROVED" ELSE IF answer = "CANCELED" THEN "CANCELLED" ELSE seen

AgreesWhenTaken(answer, seen) == answer # "other"       \* mutant: money is enough
Agrees(answer, seen) == seen = Expected(answer, seen)

(* The lookup is answered.  Order and amount may differ from the payment's *)
(* (the body of the webhook names them), and the status as it was read.    *)
Verify(k) ==
    LET w == EventOf(k)
        answer == AnswerOf(paymentId[w])
    IN  /\ Doing(k, "asking")
        /\ \/ Finish(w, "FAILED") /\ Goes(k, "done")
           \/ /\ Agrees(answer, worker[k].saw)
              /\ worker' = [worker EXCEPT ![k] = [@ EXCEPT !.stage = "agreed", !.answer = answer]]
              /\ UNCHANGED webhook
        /\ UNCHANGED <<lvars, content, outbox, jobs, checks, reconciling>>

(* The transaction: the sequence moves forward, or the webhook came late.  *)
Commit(k) ==
    LET w == EventOf(k)
        p == paymentId[w]
    IN  /\ Doing(k, "agreed")
        /\ IF Newer(w)
             THEN /\ lastSequence' = [lastSequence EXCEPT ![p] = sequence[w]]
                  /\ checked' = [checked EXCEPT ![p] = worker[k].answer]
                  /\ Finish(w, "PROCESSED")
             ELSE UNCHANGED checks /\ Finish(w, "IGNORED")
        /\ Goes(k, "done")
        /\ UNCHANGED <<lvars, content, outbox, jobs, reconciling>>

\* The event is closed by id, whatever its status is by now.
CloseEvent(k) ==
    LET w == EventOf(k)
    IN  /\ Doing(k, "done")
        /\ event' = [event EXCEPT ![w] = "PROCESSED"]
        /\ old' = old \ {w}
        /\ worker' = [worker EXCEPT ![k] = NoJob]
        /\ UNCHANGED <<lvars, webhook, content, attempts, due, jobs, checks, reconciling>>

\* The lookup or the database fails.
Throw(k) ==
    /\ Doing(k, "asking") \/ Doing(k, "agreed") \/ Doing(k, "done")
    /\ Goes(k, "failed")
    /\ UNCHANGED <<lvars, webhook, content, outbox, jobs, checks, reconciling>>

\* The catch block, also by id: another attempt after a pause, or none.
FailEvent(k) ==
    LET w == EventOf(k)
    IN  /\ Doing(k, "failed")
        /\ event' = [event EXCEPT ![w] =
              IF worker[k].attempt >= MaxAttempts THEN "DEAD_LETTER" ELSE "FAILED"]
        /\ due' = due \ {w}
        /\ old' = old \ {w}
        /\ worker' = [worker EXCEPT ![k] = NoJob]
        /\ UNCHANGED <<lvars, webhook, content, attempts, jobs, checks, reconciling>>

\* The process stops.  BullMQ gives its job to another worker, or drops it.
WorkerCrash(k) ==
    /\ ~Doing(k, "idle") /\ attempts[EventOf(k)] < CrashBound
    /\ worker' = [worker EXCEPT ![k] = NoJob]
    /\ jobs' \in {jobs, jobs \cup {EventOf(k)}}
    /\ UNCHANGED <<lvars, webhook, content, outbox, checks, reconciling>>

-----------------------------------------------------------------------------
(* The administrator.                                                      *)
\* retryOutbox, whatever the status of the event is.
RetryOutbox(w) ==
    /\ "retry" \in Commands
    /\ event[w] # "absent"
    /\ event' = [event EXCEPT ![w] = "PENDING"]
    /\ attempts' = [attempts EXCEPT ![w] = 0]
    /\ due' = due \cup {w}
    /\ old' = old \ {w}
    /\ UNCHANGED <<lvars, webhook, content, jobs, worker, checks, reconciling>>

\* Payment.paymentKey is set by the approval.
HasKey(p) == status[p] = "APPROVED" \/ provider[p] = "CANCELED"

(* reconcilePayment: read, ask the provider, and write the finding by id.  *)
(* A payment with a key is one the provider knows, as DONE or CANCELED.    *)
ReadReconcile(p) ==
    /\ "reconcile" \in Commands
    /\ reconciling = NoReconciliation /\ HasKey(p)
    /\ reconciling' = [payment |-> p, saw |-> status[p], finding |-> "never"]
    /\ UNCHANGED <<lvars, webhook, content, outbox, jobs, worker, checks>>

LookupReconcile ==
    LET answer == AnswerOf(reconciling.payment)
    IN  /\ reconciling.payment \in Payments /\ reconciling.finding = "never"
        /\ reconciling' = [reconciling EXCEPT !.finding =
              IF Agrees(answer, reconciling.saw) THEN answer ELSE "mismatch"]
        /\ UNCHANGED <<lvars, webhook, content, outbox, jobs, worker, checks>>

WriteReconcile ==
    /\ reconciling.finding # "never"
    /\ checked' = [checked EXCEPT ![reconciling.payment] = reconciling.finding]
    /\ reconciling' = NoReconciliation
    /\ UNCHANGED <<lvars, webhook, content, outbox, jobs, worker, lastSequence>>

ReconcileFails ==
    /\ reconciling # NoReconciliation
    /\ reconciling' = NoReconciliation
    /\ UNCHANGED <<lvars, webhook, content, outbox, jobs, worker, checks>>

-----------------------------------------------------------------------------
WorkerStep(k) ==
    Load(k) \/ Verify(k) \/ Commit(k) \/ CloseEvent(k) \/ Throw(k) \/ FailEvent(k)

WebhooksNext ==
    \/ \E w \in Webhooks :
          \/ Receive(w) \/ ReceiveInvalid(w) \/ BackoffEnds(w) \/ ClaimAges(w)
          \/ Enqueue(w) \/ RetryOutbox(w)
          \/ \E k \in Workers : Claim(k, w) \/ Skip(k, w)
    \/ ReopenStale
    \/ \E k \in Workers : WorkerStep(k) \/ WorkerCrash(k)
    \/ \E p \in Payments : ReadReconcile(p)
    \/ LookupReconcile \/ WriteReconcile \/ ReconcileFails
    \/ LifeNext /\ UNCHANGED <<webhook, content, outbox, jobs, worker, checks, reconciling>>

WebhooksSpec == WebhooksInit /\ [][WebhooksNext]_wvars

(* Fairness.  Time passes, the dispatch runs every five seconds, the queue *)
(* is first in, first out, and a worker goes on with its job.  Failures    *)
(* and the administrator are free, but the provider and the database are   *)
(* not down for ever for one event, and it is retried by hand only so many *)
(* times.                                                                  *)
WebhooksFairness ==
    /\ WF_wvars(ReopenStale)
    /\ \A k \in Workers : WF_wvars(WorkerStep(k))
    /\ \A w \in Webhooks :
          /\ WF_wvars(BackoffEnds(w)) /\ WF_wvars(ClaimAges(w)) /\ WF_wvars(Enqueue(w))
          /\ SF_wvars(\E k \in Workers : Claim(k, w) \/ Skip(k, w))
          /\ SF_wvars(\E k \in Workers : EventOf(k) = w /\ Load(k))
          /\ SF_wvars(\E k \in Workers : EventOf(k) = w /\ Verify(k))
          /\ SF_wvars(\E k \in Workers : EventOf(k) = w /\ Commit(k))
          /\ <>[][~RetryOutbox(w)]_wvars

FairWebhooksSpec == WebhooksSpec /\ WebhooksFairness

-----------------------------------------------------------------------------
ProcessedOf(p) == {w \in Webhooks : paymentId[w] = p /\ webhook[w] = "PROCESSED"}

(* The sequence of a payment is that of the newest webhook processed for   *)
(* it, and no two processed webhooks share a sequence: webhooks that come  *)
(* late, twice or out of order, on several workers, change nothing.        *)
SequencesInOrder ==
    \A p \in Payments :
        /\ \A w \in ProcessedOf(p) : sequence[w] <= lastSequence[p]
        /\ lastSequence[p] # 0 => \E w \in ProcessedOf(p) : sequence[w] = lastSequence[p]
        /\ \A v, w \in ProcessedOf(p) : sequence[v] = sequence[w] => v = w

(* A payment that was last found in agreement with the provider's DONE was *)
(* approved, and can only have been given back since; with CANCELED, was   *)
(* reversed: although the status is compared as it was before the answer,  *)
(* and the finding is written later by whoever comes last.                 *)
FindingsHold ==
    \A p \in Payments :
        /\ checked[p] = "DONE" => status[p] = "APPROVED" \/ provider[p] = "CANCELED"
        /\ checked[p] = "CANCELED" => status[p] \in Reversed /\ provider[p] = "CANCELED"

(* The outbox is a durable queue: a webhook is decided once, however often *)
(* its event is claimed, reopened while a worker has it, retried by the    *)
(* administrator or dropped by a crash, and its event is only closed with  *)
(* the decision made.                                                      *)
StageOf(w) ==
    IF event[w] = "absent" THEN IF webhook[w] = "absent" THEN "new" ELSE "closed"
    ELSE IF event[w] = "PROCESSED" THEN "closed"
    ELSE IF event[w] = "DEAD_LETTER" THEN "dead" ELSE "open"

Queue == INSTANCE DurableQueue WITH
    Items <- Webhooks, Outcomes <- Decided, Undecided <- "undecided",
    outcome <- [w \in Webhooks |-> IF webhook[w] \in Decided THEN webhook[w] ELSE "undecided"],
    stage <- [w \in Webhooks |-> StageOf(w)]

QueueSpec == Queue!QueueSpec

(* A webhook that was accepted is decided in the end, unless its event is  *)
(* given up: crashes, stale claims and failures only delay it.             *)
WebhooksAreDecided ==
    \A w \in Webhooks :
        webhook[w] = "RECEIVED" ~> webhook[w] # "RECEIVED" \/ event[w] = "DEAD_LETTER"

=============================================================================
