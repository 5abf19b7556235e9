SPECIFICATION FairWebhooksSpec
CONSTANTS
    Payments = {p1}
    Webhooks = {w1}
    Sequences = {1}
    NoPayment = NoPayment
    Workers = {k1, k2}
    NoEvent = NoEvent
    MaxAttempts = 2
    Commands = {"retry", "reconcile"}
    CrashBound = 2
INVARIANTS
    FindingsHold
PROPERTIES
    QueueSpec
    WebhooksAreDecided
\* All webhooks may be decided and all payments reversed.
CHECK_DEADLOCK FALSE
