SPECIFICATION WebhooksSpec
CONSTANTS
    Payments = {p1}
    Webhooks = {w1, w2}
    Sequences = {1, 2}
    NoPayment = NoPayment
    Workers = {k1, k2}
    NoEvent = NoEvent
    MaxAttempts = 2
    Commands = {}
    CrashBound = 2
SYMMETRY Alike
INVARIANTS
    TypeOK
    SequencesInOrder
\* All webhooks may be decided and all payments reversed.
CHECK_DEADLOCK FALSE
