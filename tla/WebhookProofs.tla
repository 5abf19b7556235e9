---------------------------- MODULE WebhookProofs ----------------------------
(***************************************************************************)
(* The outbox and the webhooks, for any payments, webhooks, sequences,     *)
(* workers and commands: the events are a durable queue, sequences only    *)
(* move forward, and what a check found holds.                             *)
(*                                                                         *)
(* A worker decides on what it read when it took the job, and writes by    *)
(* id.  The inductive invariants say why this is safe: an event has one    *)
(* holder, so that a webhook stays undecided as long as a worker decides   *)
(* on it, and what was seen of a payment can only have gone on in its      *)
(* life.                                                                   *)
(***************************************************************************)
EXTENDS Webhooks, TLAPS

\* The jobId of BullMQ.
OneHolder ==
    \A j, k \in Workers : ~Doing(j, "idle") /\ EventOf(j) = EventOf(k) => j = k

\* What a worker may rely on for the event it has.
HoldersDecide ==
    \A k \in Workers :
        /\ ~Doing(k, "idle") =>
              event[EventOf(k)] \in {"PENDING", "PROCESSING", "FAILED"} /\ EventOf(k) \notin jobs
        /\ Doing(k, "asking") \/ Doing(k, "agreed") =>
              webhook[EventOf(k)] = "RECEIVED" /\ paymentId[EventOf(k)] \in Payments
        /\ Doing(k, "done") => webhook[EventOf(k)] \in Decided

\* The row of a webhook and the row of its event.
EventsFollow ==
    \A w \in Webhooks :
        /\ event[w] = "absent" => webhook[w] \in {"absent", "FAILED"} /\ w \notin jobs
        /\ event[w] # "absent" => webhook[w] # "absent"
        /\ event[w] = "PROCESSED" => webhook[w] \in Decided
        /\ w \in old => event[w] = "PROCESSING"

QueueInv == OneHolder /\ HoldersDecide /\ EventsFollow

-----------------------------------------------------------------------------
(* Steps of one worker: what becomes of its record.                        *)
Stage == {"idle", "claimed", "asking", "agreed", "done", "failed"}

\* Worker k gets a record for event w, or none; the other workers keep theirs.
Takes(k, w, stage) ==
    /\ worker' \in [Workers -> Job]
    /\ worker'[k].stage = stage
    /\ worker'[k].event = w
    /\ \A j \in Workers \ {k} : worker'[j] = worker[j]

LEMMA JobTaken ==
    ASSUME TypeOK, NEW k \in Workers, NEW job \in Job, worker' = [worker EXCEPT ![k] = job]
    PROVE  Takes(k, job.event, job.stage) /\ worker'[k] = job
BY DEF TypeOK, Takes

LEMMA StageTaken ==
    ASSUME TypeOK, NEW k \in Workers, NEW stage \in Stage, Goes(k, stage)
    PROVE  /\ Takes(k, EventOf(k), stage)
           /\ worker'[k].saw = worker[k].saw /\ worker'[k].answer = worker[k].answer
<1> DEFINE job == [worker[k] EXCEPT !.stage = stage]
<1>1. worker[k] \in Job
  BY DEF TypeOK
<1>2. /\ job \in Job /\ job.event = EventOf(k) /\ job.stage = stage
      /\ job.saw = worker[k].saw /\ job.answer = worker[k].answer
  BY <1>1 DEF Job, Stage, EventOf
<1>3. worker' = [worker EXCEPT ![k] = job]
  BY DEF Goes
<1> HIDE DEF job
<1> QED BY <1>2, <1>3, JobTaken

LEMMA NothingTaken ==
    ASSUME TypeOK, NEW k \in Workers, worker' = [worker EXCEPT ![k] = NoJob]
    PROVE  Takes(k, NoEvent, "idle")
<1>1. NoJob \in Job /\ NoJob.event = NoEvent /\ NoJob.stage = "idle"
  BY DEF NoJob, Job, Answer, LifeStatus
<1> QED BY <1>1, JobTaken

LEMMA TakesTyped ==
    ASSUME TypeOK, NEW k \in Workers, NEW w, NEW stage, Takes(k, w, stage),
           w = NoEvent <=> stage = "idle"
    PROVE  \A j \in Workers : worker'[j].event = NoEvent <=> worker'[j].stage = "idle"
BY DEF Takes, TypeOK

\* The event a worker has taken up.
LEMMA EventTyped ==
    ASSUME TypeOK, NEW k \in Workers, ~Doing(k, "idle")
    PROVE  EventOf(k) \in Webhooks /\ EventOf(k) # NoEvent
BY WebhookAssumption DEF TypeOK, EventOf, Doing, Job

LEMMA LoadTakes ==
    ASSUME TypeOK, QueueInv, NEW k \in Workers, Load(k)
    PROVE  /\ EventOf(k) \in Webhooks
           /\ UNCHANGED <<lvars, content, outbox, jobs, checks, reconciling>>
           /\ \/ /\ Takes(k, EventOf(k), "asking") /\ UNCHANGED webhook
                 /\ webhook[EventOf(k)] = "RECEIVED" /\ paymentId[EventOf(k)] \in Payments
                 /\ worker'[k].saw = status[paymentId[EventOf(k)]]
              \/ /\ Takes(k, EventOf(k), "done") /\ UNCHANGED webhook
                 /\ webhook[EventOf(k)] \in Decided
              \/ /\ Takes(k, EventOf(k), "done") /\ webhook[EventOf(k)] = "RECEIVED"
                 /\ \E s \in {"FAILED", "IGNORED"} : Finish(EventOf(k), s)
              \/ Takes(k, EventOf(k), "failed") /\ UNCHANGED webhook
<1> DEFINE w == EventOf(k)
<1>1. w \in Webhooks /\ worker[k] \in Job /\ w = worker[k].event /\ ~Doing(k, "idle")
  BY EventTyped DEF Load, Doing, TypeOK, EventOf
<1>2. ASSUME NEW stage \in {"asking", "done", "failed"}, NEW seen \in LifeStatus,
             worker' = [worker EXCEPT ![k] =
                [@ EXCEPT !.attempt = attempts[w], !.stage = stage, !.saw = seen]]
      PROVE  Takes(k, w, stage) /\ worker'[k].saw = seen
  <2> DEFINE job == [worker[k] EXCEPT !.attempt = attempts[w], !.stage = stage, !.saw = seen]
  <2>1. job \in Job /\ job.event = w /\ job.stage = stage /\ job.saw = seen
    BY <1>1 DEF Job, TypeOK
  <2>2. worker' = [worker EXCEPT ![k] = job]
    BY <1>2
  <2> HIDE DEF job
  <2> QED BY <2>1, <2>2, JobTaken
<1>3. "absent" \in LifeStatus /\ \A p \in Payments : status[p] \in LifeStatus
  BY DEF LifeStatus, TypeOK
<1>4. /\ webhook[w] # "RECEIVED" => webhook[w] \in Decided
      /\ paymentId[w] # NoPayment => paymentId[w] \in Payments
  BY <1>1 DEF TypeOK, QueueInv, HoldersDecide, EventsFollow
<1> QED BY <1>1, <1>2, <1>3, <1>4 DEF Load

LEMMA VerifyTakes ==
    ASSUME TypeOK, QueueInv, NEW k \in Workers, Verify(k)
    PROVE  LET p == paymentId[EventOf(k)]
           IN  /\ EventOf(k) \in Webhooks /\ p \in Payments /\ webhook[EventOf(k)] = "RECEIVED"
               /\ UNCHANGED <<lvars, content, outbox, jobs, checks, reconciling>>
               /\ \/ Takes(k, EventOf(k), "done") /\ Finish(EventOf(k), "FAILED")
                  \/ /\ Takes(k, EventOf(k), "agreed") /\ UNCHANGED webhook
                     /\ worker'[k].answer = AnswerOf(p) /\ Agrees(AnswerOf(p), worker[k].saw)
<1> DEFINE w == EventOf(k)
           p == paymentId[w]
<1>1. /\ w \in Webhooks /\ worker[k] \in Job /\ w = worker[k].event
      /\ p \in Payments /\ webhook[w] = "RECEIVED"
  BY EventTyped DEF Verify, Doing, TypeOK, EventOf, QueueInv, HoldersDecide
<1>2. AnswerOf(p) \in Answer
  BY <1>1 DEF AnswerOf, Answer, TypeOK
<1>3. ASSUME worker' = [worker EXCEPT ![k] = [@ EXCEPT !.stage = "agreed", !.answer = AnswerOf(p)]]
      PROVE  Takes(k, w, "agreed") /\ worker'[k].answer = AnswerOf(p)
  <2> DEFINE answer == AnswerOf(p)
             job == [worker[k] EXCEPT !.stage = "agreed", !.answer = answer]
  <2>1. job \in Job /\ job.event = w /\ job.stage = "agreed" /\ job.answer = answer
    BY <1>1, <1>2 DEF Job
  <2>2. worker' = [worker EXCEPT ![k] = job]
    BY <1>3
  <2> HIDE DEF job
  <2> QED BY <2>1, <2>2, JobTaken
<1> QED BY <1>1, <1>3, StageTaken DEF Verify, Stage

-----------------------------------------------------------------------------
(* The types.                                                              *)

LEMMA InitTyped == WebhooksInit => TypeOK
BY WebhookAssumption
DEF WebhooksInit, TypeOK, LifeInit, LifeStatus, NoJob, Job, NoReconciliation, Reconciliation,
    Answer, Finding

LEMMA FinishTyped ==
    ASSUME TypeOK, NEW w, NEW s \in Decided, Finish(w, s)
    PROVE  webhook' \in [Webhooks -> Decided \cup {"absent", "RECEIVED"}]
BY DEF TypeOK, Finish

LEMMA WorkerStepTyped ==
    ASSUME TypeOK, QueueInv, NEW k \in Workers, WorkerStep(k)
    PROVE  TypeOK'
<1> USE DEF lvars, content, outbox, checks
<1>1. CASE Load(k)
  <2>1. ~Doing(k, "idle") /\ EventOf(k) # NoEvent
    BY <1>1, EventTyped DEF Load, Doing
  <2>2. PICK stage \in {"asking", "done", "failed"} : Takes(k, EventOf(k), stage)
    BY <1>1, LoadTakes
  <2>3. webhook' \in [Webhooks -> Decided \cup {"absent", "RECEIVED"}]
    BY <1>1, LoadTakes, FinishTyped DEF TypeOK, Decided
  <2>4. UNCHANGED <<lvars, content, outbox, jobs, checks, reconciling>>
    BY <1>1, LoadTakes
  <2> QED BY <2>1, <2>2, <2>3, <2>4, TakesTyped DEF TypeOK, Takes
<1>2. CASE Verify(k)
  <2>1. ~Doing(k, "idle") /\ EventOf(k) # NoEvent
    BY <1>2, EventTyped DEF Verify, Doing
  <2>2. PICK stage \in {"agreed", "done"} : Takes(k, EventOf(k), stage)
    BY <1>2, VerifyTakes
  <2>3. webhook' \in [Webhooks -> Decided \cup {"absent", "RECEIVED"}]
    BY <1>2, VerifyTakes, FinishTyped DEF TypeOK, Decided
  <2>4. UNCHANGED <<lvars, content, outbox, jobs, checks, reconciling>>
    BY <1>2, VerifyTakes
  <2> QED BY <2>1, <2>2, <2>3, <2>4, TakesTyped DEF TypeOK, Takes
<1>3. CASE Commit(k)
  <2>1. Takes(k, EventOf(k), "done") /\ EventOf(k) # NoEvent /\ EventOf(k) \in Webhooks
    BY <1>3, StageTaken, EventTyped DEF Commit, Stage, Doing
  <2>2. lastSequence' \in [Payments -> Nat] /\ checked' \in [Payments -> Finding]
    <3>1. /\ paymentId[EventOf(k)] \in Payments /\ sequence[EventOf(k)] \in Int
          /\ worker[k].answer \in Finding
      BY <1>3, <2>1 DEF Commit, Doing, QueueInv, HoldersDecide, TypeOK, Job, Finding
    <3> QED BY <1>3, <3>1 DEF Commit, Newer, TypeOK
  <2> QED BY <1>3, <2>1, <2>2, TakesTyped, FinishTyped DEF TypeOK, Takes, Decided, Commit
<1>4. CASE CloseEvent(k)
  BY <1>4, NothingTaken, TakesTyped DEF TypeOK, Takes, CloseEvent, EventStatus
<1>5. CASE Throw(k)
  BY <1>5, StageTaken, EventTyped, TakesTyped DEF TypeOK, Takes, Throw, Stage, Doing
<1>6. CASE FailEvent(k)
  BY <1>6, NothingTaken, TakesTyped DEF TypeOK, Takes, FailEvent, EventStatus
<1> QED BY <1>1, <1>2, <1>3, <1>4, <1>5, <1>6 DEF WorkerStep
LEMMA NextTyped == TypeOK /\ QueueInv /\ [WebhooksNext]_wvars => TypeOK'
<1> SUFFICES ASSUME TypeOK, QueueInv, [WebhooksNext]_wvars PROVE TypeOK'
  OBVIOUS
<1> USE WebhookAssumption DEF lvars, content, outbox, checks
<1>1. ASSUME NEW w \in Webhooks,
             \/ ReceiveInvalid(w) \/ BackoffEnds(w) \/ ClaimAges(w)
             \/ Enqueue(w) \/ RetryOutbox(w)
      PROVE  TypeOK'
  BY <1>1
  DEF TypeOK, ReceiveInvalid, BackoffEnds, ClaimAges, Enqueue, AddOnce, RetryOutbox,
      Decided, EventStatus
<1>2. ASSUME NEW w \in Webhooks, Receive(w)
      PROVE  TypeOK'
  BY <1>2 DEF TypeOK, Receive, EventStatus
<1>3. ASSUME NEW w \in Webhooks, NEW k \in Workers, Claim(k, w)
      PROVE  TypeOK'
  <2> DEFINE job == [NoJob EXCEPT !.event = w, !.stage = "claimed"]
  <2>1. job \in Job /\ job.event = w /\ job.stage = "claimed"
    BY DEF NoJob, Job, Answer, LifeStatus
  <2>2. worker' = [worker EXCEPT ![k] = job]
    BY <1>3 DEF Claim
  <2> HIDE DEF job
  <2>3. Takes(k, w, "claimed")
    BY <2>1, <2>2, JobTaken
  <2> QED BY <1>3, <2>3, TakesTyped DEF TypeOK, Takes, Claim, EventStatus
<1>4. ASSUME NEW w \in Webhooks, NEW k \in Workers, Skip(k, w)
      PROVE  TypeOK'
  BY <1>4 DEF TypeOK, Skip
<1>5. CASE ReopenStale
  BY <1>5 DEF TypeOK, ReopenStale, EventStatus
<1>6. ASSUME NEW k \in Workers, WorkerCrash(k)
      PROVE  TypeOK'
  <2>1. Takes(k, NoEvent, "idle") /\ EventOf(k) \in Webhooks
    BY <1>6, NothingTaken, EventTyped DEF WorkerCrash
  <2> QED BY <1>6, <2>1, TakesTyped DEF TypeOK, Takes, WorkerCrash
<1>7. ASSUME NEW p \in Payments, ReadReconcile(p)
      PROVE  TypeOK'
  BY <1>7 DEF TypeOK, ReadReconcile, Reconciliation, Finding
<1>8. CASE LookupReconcile
  <2>1. reconciling' \in Reconciliation
    BY <1>8 DEF TypeOK, LookupReconcile, Reconciliation, Finding, Answer, AnswerOf
  <2> QED BY <1>8, <2>1 DEF TypeOK, LookupReconcile
<1>9. CASE WriteReconcile \/ ReconcileFails
  BY <1>9
  DEF TypeOK, WriteReconcile, ReconcileFails, NoReconciliation, Reconciliation, Finding,
      LifeStatus
<1>10. CASE LifeNext /\ UNCHANGED <<webhook, content, outbox, jobs, worker, checks, reconciling>>
  <2>1. status' \in [Payments -> LifeStatus] /\ provider' \in [Payments -> {"absent", "DONE", "CANCELED"}]
    BY <1>10
    DEF TypeOK, LifeNext, Order, CloseUnpaid, Capture, Approve, GiveBack, Reverse, Becomes,
        Provides, LifeStatus, Reversed
  <2> QED BY <1>10, <2>1 DEF TypeOK
<1>11. CASE UNCHANGED wvars
  BY <1>11 DEF TypeOK, wvars
<1> QED
  BY <1>1, <1>2, <1>3, <1>4, <1>5, <1>6, <1>7, <1>8, <1>9, <1>10, <1>11, WorkerStepTyped
  DEF WebhooksNext
-----------------------------------------------------------------------------
(* The queue: what a worker may rely on.                                   *)

LEMMA InitQueue == WebhooksInit => QueueInv
BY DEF WebhooksInit, QueueInv, OneHolder, HoldersDecide, EventsFollow, NoJob, Doing

\* A worker goes on with its event, and may decide the webhook.
LEMMA StageKeeps ==
    ASSUME TypeOK, QueueInv, NEW k \in Workers, ~Doing(k, "idle"),
           NEW stage \in Stage \ {"idle"}, Takes(k, EventOf(k), stage),
           UNCHANGED <<event, old, jobs, paymentId>>,
           UNCHANGED webhook \/ \E s \in Decided : Finish(EventOf(k), s),
           stage \in {"asking", "agreed"} =>
              UNCHANGED webhook /\ webhook[EventOf(k)] = "RECEIVED"
              /\ paymentId[EventOf(k)] \in Payments,
           stage = "done" => webhook'[EventOf(k)] \in Decided
    PROVE  QueueInv'
<1> DEFINE w == EventOf(k)
<1>1. w \in Webhooks /\ w # NoEvent
  BY EventTyped
<1>2. \A j \in Workers : EventOf(j)' = EventOf(j)
  BY DEF Takes, EventOf
<1>3. \A j \in Workers \ {k} : EventOf(j) # w /\ \A s \in Stage : Doing(j, s)' = Doing(j, s)
  BY DEF Takes, Doing, QueueInv, OneHolder
<1>4. \A v \in Webhooks : webhook'[v] = webhook[v] \/ (v = w /\ webhook'[v] \in Decided)
  BY <1>1 DEF Finish, TypeOK
<1>5. OneHolder'
  BY <1>2, <1>3 DEF QueueInv, OneHolder, Stage, Doing, Takes
<1>6. HoldersDecide'
  <2> SUFFICES ASSUME NEW j \in Workers
               PROVE  /\ ~Doing(j, "idle")' =>
                            /\ event'[EventOf(j)'] \in {"PENDING", "PROCESSING", "FAILED"}
                            /\ EventOf(j)' \notin jobs'
                      /\ (Doing(j, "asking") \/ Doing(j, "agreed"))' =>
                            webhook'[EventOf(j)'] = "RECEIVED" /\ paymentId'[EventOf(j)'] \in Payments
                      /\ Doing(j, "done")' => webhook'[EventOf(j)'] \in Decided
    BY DEF HoldersDecide
  <2>1. CASE j = k
    BY <1>2, <2>1 DEF QueueInv, HoldersDecide, Takes, Doing
  <2>2. CASE j # k
    <3>1. ~Doing(j, "idle") => EventOf(j) \in Webhooks /\ webhook'[EventOf(j)] = webhook[EventOf(j)]
      BY <1>3, <1>4, <2>2, EventTyped
    <3>2. \A s \in Stage : Doing(j, s)' = Doing(j, s)
      BY <1>3, <2>2
    <3> QED BY <1>2, <3>1, <3>2 DEF QueueInv, HoldersDecide, Doing, Stage
  <2> QED BY <2>1, <2>2
<1>7. EventsFollow'
  <2>1. event[w] # "absent"
    BY DEF QueueInv, HoldersDecide
  <2> QED BY <1>4, <2>1 DEF QueueInv, EventsFollow, Decided
<1> QED BY <1>5, <1>6, <1>7 DEF QueueInv

\* A worker lets its event go; its job may come back.
LEMMA EndKeeps ==
    ASSUME TypeOK, QueueInv, NEW k \in Workers, ~Doing(k, "idle"), Takes(k, NoEvent, "idle"),
           UNCHANGED <<webhook, paymentId>>, jobs' \subseteq jobs \cup {EventOf(k)},
           NEW e \in EventStatus, old' \subseteq old,
           event' = event \/ (event' = [event EXCEPT ![EventOf(k)] = e] /\ EventOf(k) \notin old'),
           event' # event /\ e = "PROCESSED" => webhook[EventOf(k)] \in Decided
    PROVE  QueueInv'
<1> DEFINE w == EventOf(k)
<1>1. w \in Webhooks /\ w # NoEvent
  BY EventTyped
<1>2. /\ Doing(k, "idle")' /\ EventOf(k)' = NoEvent
      /\ \A j \in Workers \ {k} : EventOf(j)' = EventOf(j) /\ (\A s : Doing(j, s)' = Doing(j, s))
  BY DEF Takes, EventOf, Doing
<1>3. \A j \in Workers \ {k} : ~Doing(j, "idle") => EventOf(j) # w /\ EventOf(j) \in Webhooks
  BY EventTyped DEF QueueInv, OneHolder
<1>4. \A v \in Webhooks \ {w} : event'[v] = event[v]
  BY <1>1 DEF TypeOK
<1>5. OneHolder'
  <2> SUFFICES ASSUME NEW i \in Workers, NEW j \in Workers,
                      ~Doing(i, "idle")', EventOf(i)' = EventOf(j)'
               PROVE  i = j
    BY DEF OneHolder
  <2>1. i # k /\ ~Doing(i, "idle") /\ EventOf(i) \in Webhooks
    BY <1>2, <1>3
  <2>2. j # k
    BY <1>2, <2>1, WebhookAssumption
  <2> QED BY <1>2, <2>1, <2>2 DEF QueueInv, OneHolder
<1>6. HoldersDecide'
  BY <1>2, <1>3, <1>4 DEF QueueInv, HoldersDecide, Doing
<1>7. EventsFollow'
  <2>1. event[w] \in {"PENDING", "PROCESSING", "FAILED"} /\ webhook[w] # "absent"
    BY <1>1 DEF QueueInv, HoldersDecide, EventsFollow
  <2>2. event'[w] = event[w] \/ (event'[w] = e /\ w \notin old')
    BY <1>1 DEF TypeOK
  <2>3. \A v \in Webhooks : event'[v] # "absent" <=> event[v] # "absent"
    BY <1>4, <2>1, <2>2 DEF EventStatus
  <2>4. event'[w] = "PROCESSED" => webhook[w] \in Decided
    BY <1>1, <2>1, <2>2
  <2> QED BY <1>4, <2>1, <2>2, <2>3, <2>4 DEF QueueInv, EventsFollow
<1> QED BY <1>5, <1>6, <1>7 DEF QueueInv

LEMMA WorkerStepKeeps ==
    ASSUME TypeOK, QueueInv, NEW k \in Workers, WorkerStep(k)
    PROVE  QueueInv'
<1> USE DEF content, outbox, checks
<1>1. CASE Load(k)
  <2>1. ~Doing(k, "idle")
    BY <1>1 DEF Load, Doing
  <2>2. EventOf(k) \in Webhooks /\ UNCHANGED <<event, old, jobs, paymentId>>
    BY <1>1, LoadTakes
  <2>3. ASSUME NEW s \in {"FAILED", "IGNORED"}, Finish(EventOf(k), s)
        PROVE  webhook'[EventOf(k)] \in Decided
    BY <2>2, <2>3 DEF Finish, Decided, TypeOK
  <2> QED BY <1>1, <2>1, <2>2, <2>3, LoadTakes, StageKeeps DEF Stage, Decided
<1>2. CASE Verify(k)
  <2>1. ~Doing(k, "idle")
    BY <1>2 DEF Verify, Doing
  <2>2. /\ EventOf(k) \in Webhooks /\ paymentId[EventOf(k)] \in Payments
        /\ webhook[EventOf(k)] = "RECEIVED"
        /\ UNCHANGED <<event, old, jobs, paymentId>>
    BY <1>2, VerifyTakes
  <2>3. ASSUME Finish(EventOf(k), "FAILED")
        PROVE  webhook'[EventOf(k)] \in Decided
    BY <2>2, <2>3 DEF Finish, Decided, TypeOK
  <2> QED BY <1>2, <2>1, <2>2, <2>3, VerifyTakes, StageKeeps DEF Stage, Decided
<1>3. CASE Commit(k)
  <2>1. ~Doing(k, "idle") /\ EventOf(k) \in Webhooks /\ Takes(k, EventOf(k), "done")
    BY <1>3, EventTyped, StageTaken DEF Commit, Doing, Stage
  <2>2. PICK s \in Decided : Finish(EventOf(k), s)
    BY <1>3 DEF Commit, Decided
  <2>3. webhook'[EventOf(k)] \in Decided
    BY <2>1, <2>2 DEF Finish, TypeOK
  <2>4. UNCHANGED <<event, old, jobs, paymentId>>
    BY <1>3 DEF Commit
  <2> QED BY <2>1, <2>2, <2>3, <2>4, StageKeeps DEF Stage
<1>4. CASE CloseEvent(k)
  <2>1. Takes(k, NoEvent, "idle") /\ ~Doing(k, "idle")
    BY <1>4, NothingTaken DEF CloseEvent, Doing
  <2>2. webhook[EventOf(k)] \in Decided
    BY <1>4 DEF CloseEvent, QueueInv, HoldersDecide
  <2> QED BY <1>4, <2>1, <2>2, EndKeeps DEF CloseEvent, EventStatus
<1>5. CASE Throw(k)
  <2>1. ~Doing(k, "idle") /\ Takes(k, EventOf(k), "failed")
    BY <1>5, StageTaken DEF Throw, Doing, Stage
  <2> QED BY <1>5, <2>1, StageKeeps DEF Throw, Stage
<1>6. CASE FailEvent(k)
  <2>1. Takes(k, NoEvent, "idle") /\ ~Doing(k, "idle")
    BY <1>6, NothingTaken DEF FailEvent, Doing
  <2>2. PICK e \in {"DEAD_LETTER", "FAILED"} : event' = [event EXCEPT ![EventOf(k)] = e]
    BY <1>6 DEF FailEvent
  <2> QED BY <1>6, <2>1, <2>2, EndKeeps DEF FailEvent, EventStatus
<1> QED BY <1>1, <1>2, <1>3, <1>4, <1>5, <1>6 DEF WorkerStep

LEMMA ClaimKeeps ==
    ASSUME TypeOK, QueueInv, NEW k \in Workers, NEW w \in Webhooks, Claim(k, w)
    PROVE  QueueInv'
<1> DEFINE job == [NoJob EXCEPT !.event = w, !.stage = "claimed"]
<1>1. job \in Job /\ job.event = w /\ job.stage = "claimed"
  BY DEF NoJob, Job, Answer, LifeStatus
<1>2. worker' = [worker EXCEPT ![k] = job]
  BY DEF Claim
<1> HIDE DEF job
<1>3. Takes(k, w, "claimed")
  BY <1>1, <1>2, JobTaken
<1>4. /\ Doing(k, "claimed")' /\ EventOf(k)' = w
      /\ \A j \in Workers \ {k} : EventOf(j)' = EventOf(j) /\ (\A s : Doing(j, s)' = Doing(j, s))
  BY <1>3 DEF Takes, EventOf, Doing
<1>5. \A j \in Workers : ~Doing(j, "idle") => EventOf(j) # w
  BY DEF Claim, QueueInv, HoldersDecide
<1>6. \A j \in Workers : Doing(j, "idle") => EventOf(j) # w
  BY WebhookAssumption DEF Doing, EventOf, TypeOK
<1>7. \A v \in Webhooks \ {w} : event'[v] = event[v]
  BY DEF Claim, TypeOK
<1>8. event'[w] = "PROCESSING" /\ jobs' = jobs \ {w} /\ old' \subseteq old
  BY DEF Claim, TypeOK
<1>9. UNCHANGED <<webhook, paymentId>> /\ event[w] # "absent"
  BY DEF Claim, content, Claimable, Openable
<1>10. OneHolder'
  BY <1>4, <1>5, <1>6 DEF QueueInv, OneHolder
<1>11. HoldersDecide'
  <2>1. \A j \in Workers \ {k} : ~Doing(j, "idle") => EventOf(j) \in Webhooks
    BY EventTyped
  <2> QED BY <1>4, <1>5, <1>7, <1>8, <1>9, <2>1 DEF QueueInv, HoldersDecide, Doing
<1>12. EventsFollow'
  BY <1>7, <1>8, <1>9 DEF QueueInv, EventsFollow
<1> QED BY <1>10, <1>11, <1>12 DEF QueueInv

LEMMA NextQueue == TypeOK /\ QueueInv /\ [WebhooksNext]_wvars => QueueInv'
<1> SUFFICES ASSUME TypeOK, QueueInv, [WebhooksNext]_wvars PROVE QueueInv'
  OBVIOUS
<1> USE DEF content, outbox, checks
<1>0. \A k \in Workers : ~Doing(k, "idle") => EventOf(k) \in Webhooks /\ EventOf(k) # NoEvent
  BY EventTyped
<1>1. ASSUME UNCHANGED <<webhook, paymentId, event, old, jobs, worker>>
      PROVE  QueueInv'
  BY <1>1 DEF QueueInv, OneHolder, HoldersDecide, EventsFollow, Doing, EventOf
<1>2. ASSUME NEW w \in Webhooks, BackoffEnds(w)
      PROVE  QueueInv'
  BY <1>1, <1>2 DEF BackoffEnds
<1>3. ASSUME NEW w \in Webhooks, ReceiveInvalid(w) \/ Receive(w)
      PROVE  QueueInv'
  <2>1. webhook[w] = "absent" /\ event[w] = "absent" /\ w \notin jobs
    BY <1>3 DEF ReceiveInvalid, Receive, QueueInv, EventsFollow
  <2>2. \A k \in Workers : ~Doing(k, "idle") => EventOf(k) # w
    BY <2>1 DEF QueueInv, HoldersDecide
  <2>3. \A v \in Webhooks \ {w} : /\ webhook'[v] = webhook[v] /\ event'[v] = event[v]
                                  /\ paymentId'[v] = paymentId[v]
    BY <1>3 DEF ReceiveInvalid, Receive, TypeOK
  <2>4. /\ UNCHANGED <<old, jobs, worker>>
        /\ \/ webhook'[w] = "FAILED" /\ event'[w] = "absent"
           \/ webhook'[w] = "RECEIVED" /\ event'[w] = "PENDING"
    BY <1>3, <2>1 DEF ReceiveInvalid, Receive, TypeOK
  <2> QED
    BY <1>0, <2>1, <2>2, <2>3, <2>4
    DEF QueueInv, OneHolder, HoldersDecide, EventsFollow, Doing, EventOf
<1>4. ASSUME NEW w \in Webhooks, ClaimAges(w)
      PROVE  QueueInv'
  BY <1>4 DEF ClaimAges, QueueInv, OneHolder, HoldersDecide, EventsFollow, Doing, EventOf
<1>5. ASSUME NEW w \in Webhooks, Enqueue(w)
      PROVE  QueueInv'
  <2>1. \A k \in Workers : EventOf(k) # w
    BY <1>5 DEF Enqueue, AddOnce, Held, EventOf
  <2>2. event[w] # "absent" /\ jobs' = jobs \cup {w} /\ UNCHANGED <<webhook, paymentId, event, old, worker>>
    BY <1>5 DEF Enqueue, AddOnce, Claimable, Openable
  <2> QED
    BY <2>1, <2>2 DEF QueueInv, OneHolder, HoldersDecide, EventsFollow, Doing, EventOf
<1>6. ASSUME NEW w \in Webhooks, RetryOutbox(w)
      PROVE  QueueInv'
  BY <1>0, <1>6
  DEF RetryOutbox, QueueInv, OneHolder, HoldersDecide, EventsFollow, Doing, EventOf, TypeOK
<1>7. ASSUME NEW w \in Webhooks, NEW k \in Workers, Skip(k, w)
      PROVE  QueueInv'
  BY <1>7 DEF Skip, QueueInv, OneHolder, HoldersDecide, EventsFollow, Doing, EventOf
<1>8. CASE ReopenStale
  BY <1>0, <1>8
  DEF ReopenStale, QueueInv, OneHolder, HoldersDecide, EventsFollow, Doing, EventOf, TypeOK
<1>9. ASSUME NEW k \in Workers, WorkerCrash(k)
      PROVE  QueueInv'
  <2>1. Takes(k, NoEvent, "idle") /\ ~Doing(k, "idle")
    BY <1>9, NothingTaken DEF WorkerCrash
  <2>2. jobs' \subseteq jobs \cup {EventOf(k)} /\ UNCHANGED <<webhook, paymentId, event, old>>
    BY <1>9 DEF WorkerCrash
  <2>3. "FAILED" \in EventStatus
    BY DEF EventStatus
  <2> QED BY <2>1, <2>2, <2>3, EndKeeps
<1>10. CASE \/ \E p \in Payments : ReadReconcile(p)
            \/ LookupReconcile \/ WriteReconcile \/ ReconcileFails
            \/ UNCHANGED <<webhook, content, outbox, jobs, worker, checks, reconciling>>
            \/ UNCHANGED wvars
  BY <1>1, <1>10 DEF ReadReconcile, LookupReconcile, WriteReconcile, ReconcileFails, wvars
<1> QED
  BY <1>2, <1>3, <1>4, <1>5, <1>6, <1>7, <1>8, <1>9, <1>10, ClaimKeeps, WorkerStepKeeps
  DEF WebhooksNext

(* No step of the webhook pipeline writes a value its column cannot hold,  *)
(* and a worker only asks the provider about payments that exist.          *)
THEOREM WebhooksTyped == WebhooksSpec => []TypeOK
BY InitTyped, InitQueue, NextTyped, NextQueue, PTL DEF WebhooksSpec

(* An event has one holder; its webhook stays undecided as long as the     *)
(* holder decides (payment-events.ts, processOutboxEvent).                 *)
THEOREM HoldersRely == WebhooksSpec => []QueueInv
BY InitQueue, NextQueue, WebhooksTyped, PTL DEF WebhooksSpec
-----------------------------------------------------------------------------
(* Every step is one of DurableQueue, or leaves it alone.                  *)

LEMMA StageMoves ==
    ASSUME NEW w \in Webhooks, NEW from, StageOf(w) \in from,
           \A v \in Webhooks \ {w} : StageOf(v)' = StageOf(v)
    PROVE  Queue!Moves(w, from, StageOf(w)')
BY DEF Queue!Moves

LEMMA OutcomeSettles ==
    ASSUME TypeOK, NEW w \in Webhooks, webhook[w] \notin Decided, NEW s \in Decided,
           Finish(w, s)
    PROVE  Queue!Settles(w, s)
BY DEF Queue!Settles, Finish, TypeOK

LEMMA QueueStutters ==
    ASSUME TypeOK,
           \A w \in Webhooks : /\ webhook'[w] = webhook[w]
                               /\ StageOf(w)' = StageOf(w)
    PROVE  UNCHANGED Queue!qvars
BY DEF Queue!qvars, TypeOK, Decided

\* A worker that has an event may decide its webhook.
LEMMA DecideQueues ==
    ASSUME TypeOK, QueueInv, NEW k \in Workers, ~Doing(k, "idle"),
           webhook[EventOf(k)] = "RECEIVED", NEW s \in Decided, Finish(EventOf(k), s),
           UNCHANGED event
    PROVE  Queue!QueueNext
<1> DEFINE w == EventOf(k)
<1>1. w \in Webhooks /\ event[w] \in {"PENDING", "PROCESSING", "FAILED"}
  BY EventTyped DEF QueueInv, HoldersDecide
<1>2. \A v \in Webhooks : StageOf(v)' = StageOf(v)
  BY <1>1 DEF StageOf, Finish, TypeOK
<1>3. StageOf(w) = "open"
  BY <1>1 DEF StageOf
<1>4. Queue!Settles(w, s)
  BY <1>1, OutcomeSettles DEF Decided
<1> QED BY <1>1, <1>2, <1>3, <1>4 DEF Queue!QueueNext, Queue!Decide

LEMMA WorkerStepQueues ==
    ASSUME TypeOK, QueueInv, NEW k \in Workers, WorkerStep(k)
    PROVE  [Queue!QueueNext]_(Queue!qvars)
<1>1. UNCHANGED <<webhook, event>> => UNCHANGED Queue!qvars
  BY QueueStutters DEF StageOf
<1>2. PICK w \in Webhooks :
         /\ w = EventOf(k) /\ ~Doing(k, "idle")
         /\ event[w] \in {"PENDING", "PROCESSING", "FAILED"}
  BY EventTyped
  DEF WorkerStep, Load, Verify, Commit, CloseEvent, Throw, FailEvent, Doing, QueueInv,
      HoldersDecide
<1>3. CASE Load(k)
  BY <1>1, <1>2, <1>3, LoadTakes, DecideQueues DEF outbox, Decided
<1>4. CASE Verify(k)
  BY <1>1, <1>2, <1>4, VerifyTakes, DecideQueues DEF outbox, Decided
<1>5. CASE Commit(k)
  BY <1>2, <1>5, DecideQueues DEF Commit, outbox, Decided, QueueInv, HoldersDecide
\* The event is closed or given up, or stays open.
<1>6. ASSUME NEW e \in {"PROCESSED", "DEAD_LETTER", "FAILED"},
             event' = [event EXCEPT ![w] = e], UNCHANGED webhook,
             e = "PROCESSED" => webhook[w] \in Decided
      PROVE  [Queue!QueueNext]_(Queue!qvars)
  <2>1. event'[w] = e /\ \A v \in Webhooks \ {w} : StageOf(v)' = StageOf(v)
    BY <1>2, <1>6 DEF StageOf, TypeOK
  <2>2. /\ StageOf(w) = "open"
        /\ StageOf(w)' = IF e = "PROCESSED" THEN "closed"
                         ELSE IF e = "DEAD_LETTER" THEN "dead" ELSE "open"
    BY <1>2, <2>1 DEF StageOf
  <2>3. CASE e = "FAILED"
    BY <1>6, <2>1, <2>2, <2>3, QueueStutters
  <2>4. CASE e # "FAILED"
    <3>1. Queue!Moves(w, {"open"}, StageOf(w)')
      BY <1>2, <2>1, <2>2, StageMoves
    <3> QED
      BY <1>2, <1>6, <2>2, <2>4, <3>1
      DEF Queue!QueueNext, Queue!Close, Queue!GiveUp, Decided
  <2> QED BY <2>3, <2>4
<1>7. CASE CloseEvent(k)
  BY <1>2, <1>6, <1>7 DEF CloseEvent, QueueInv, HoldersDecide
<1>8. CASE FailEvent(k)
  BY <1>2, <1>6, <1>8 DEF FailEvent
<1>9. CASE Throw(k)
  BY <1>1, <1>9 DEF Throw, outbox
<1> QED BY <1>3, <1>4, <1>5, <1>7, <1>8, <1>9 DEF WorkerStep

LEMMA NextQueues ==
    TypeOK /\ QueueInv /\ [WebhooksNext]_wvars => [Queue!QueueNext]_(Queue!qvars)
<1> SUFFICES ASSUME TypeOK, QueueInv, [WebhooksNext]_wvars
             PROVE  [Queue!QueueNext]_(Queue!qvars)
  OBVIOUS
<1>1. UNCHANGED <<webhook, event>> => UNCHANGED Queue!qvars
  BY QueueStutters DEF StageOf
<1>2. ASSUME NEW w \in Webhooks, Receive(w)
      PROVE  Queue!QueueNext
  <2>1. webhook[w] = "absent" /\ webhook'[w] = "RECEIVED" /\ event[w] = "absent" /\ event'[w] = "PENDING"
    BY <1>2 DEF Receive, QueueInv, EventsFollow, TypeOK
  <2>2. \A v \in Webhooks \ {w} : webhook'[v] = webhook[v] /\ event'[v] = event[v]
    BY <1>2 DEF Receive, TypeOK
  <2>3. Queue!Moves(w, {"new"}, "open")
    BY <2>1, <2>2 DEF StageOf, Queue!Moves
  <2>4. \A v \in Webhooks : (IF webhook'[v] \in Decided THEN webhook'[v] ELSE "undecided")
                             = IF webhook[v] \in Decided THEN webhook[v] ELSE "undecided"
    BY <2>1, <2>2 DEF Decided
  <2> QED BY <2>3, <2>4 DEF Queue!QueueNext, Queue!Accept
<1>3. ASSUME NEW w \in Webhooks, ReceiveInvalid(w)
      PROVE  Queue!QueueNext
  <2>1. webhook[w] = "absent" /\ event[w] = "absent" /\ Finish(w, "FAILED") /\ UNCHANGED event
    BY <1>3 DEF ReceiveInvalid, Finish, outbox, QueueInv, EventsFollow
  <2>2. webhook'[w] = "FAILED" /\ \A v \in Webhooks \ {w} : webhook'[v] = webhook[v]
    BY <2>1 DEF Finish, TypeOK
  <2>3. Queue!Moves(w, {"new"}, "closed")
    BY <2>1, <2>2 DEF StageOf, Queue!Moves
  <2>4. Queue!Settles(w, "FAILED")
    BY <2>1, OutcomeSettles DEF Decided
  <2> QED BY <2>3, <2>4 DEF Queue!QueueNext, Queue!Dismiss, Decided
<1>4. ASSUME NEW w \in Webhooks, RetryOutbox(w)
      PROVE  [Queue!QueueNext]_(Queue!qvars)
  <2>1. event[w] # "absent" /\ event'[w] = "PENDING" /\ UNCHANGED webhook
    BY <1>4 DEF RetryOutbox, TypeOK
  <2>2. \A v \in Webhooks \ {w} : StageOf(v)' = StageOf(v)
    BY <1>4 DEF RetryOutbox, StageOf, TypeOK
  <2>3. StageOf(w) \in {"open", "closed", "dead"} /\ StageOf(w)' = "open"
    BY <2>1 DEF StageOf
  <2>4. CASE StageOf(w) = "open"
    BY <2>1, <2>2, <2>3, <2>4, QueueStutters
  <2>5. CASE StageOf(w) # "open"
    <3>1. Queue!Moves(w, {"closed", "dead"}, "open")
      BY <2>2, <2>3, <2>5, StageMoves
    <3> QED BY <2>1, <3>1 DEF Queue!QueueNext, Queue!Reopen
  <2> QED BY <2>4, <2>5
\* Claimed or opened again, an event stays open.
<1>5. ASSUME UNCHANGED webhook,
             \A w \in Webhooks : event'[w] # event[w] =>
                event[w] \in {"PENDING", "PROCESSING", "FAILED"}
                /\ event'[w] \in {"PENDING", "PROCESSING", "FAILED"}
      PROVE  UNCHANGED Queue!qvars
  <2>1. \A w \in Webhooks : StageOf(w)' = StageOf(w)
    BY <1>5 DEF StageOf
  <2> QED BY <1>5, <2>1, QueueStutters
<1>6. ASSUME NEW k \in Workers, NEW w \in Webhooks, Claim(k, w)
      PROVE  UNCHANGED Queue!qvars
  BY <1>5, <1>6 DEF Claim, Claimable, Openable, TypeOK
<1>7. CASE ReopenStale
  BY <1>5, <1>7 DEF ReopenStale, QueueInv, EventsFollow
<1>8. CASE \/ \E w \in Webhooks :
                 \/ BackoffEnds(w) \/ ClaimAges(w) \/ Enqueue(w)
                 \/ \E k \in Workers : Skip(k, w)
           \/ \E k \in Workers : WorkerCrash(k)
           \/ \E p \in Payments : ReadReconcile(p)
           \/ LookupReconcile \/ WriteReconcile \/ ReconcileFails
           \/ UNCHANGED <<webhook, content, outbox, jobs, worker, checks, reconciling>>
           \/ UNCHANGED wvars
  BY <1>1, <1>8
  DEF BackoffEnds, ClaimAges, Enqueue, Skip, WorkerCrash, ReadReconcile, LookupReconcile,
      WriteReconcile, ReconcileFails, outbox, wvars
<1> QED
  BY <1>2, <1>3, <1>4, <1>6, <1>7, <1>8, WorkerStepQueues DEF WebhooksNext

(* The outbox is a durable queue: a webhook is decided once, and its event *)
(* is closed only with the decision made, however often it is claimed,     *)
(* reopened, retried or dropped by a crash (payment-events.ts).            *)
THEOREM QueueImplemented == WebhooksSpec => QueueSpec
<1>1. WebhooksInit => Queue!QueueInit
  BY DEF WebhooksInit, Queue!QueueInit, StageOf, Decided
<1> QED
  BY <1>1, NextQueues, WebhooksTyped, HoldersRely, PTL
  DEF WebhooksSpec, QueueSpec, Queue!QueueSpec
-----------------------------------------------------------------------------
(* The sequences.                                                          *)

\* A webhook arrives, or is decided but not processed.
LEMMA OtherwiseDecided ==
    ASSUME TypeOK, SequencesInOrder, UNCHANGED lastSequence,
           \A w \in Webhooks :
              \/ webhook'[w] = webhook[w] /\ paymentId'[w] = paymentId[w] /\ sequence'[w] = sequence[w]
              \/ webhook[w] # "PROCESSED" /\ webhook'[w] # "PROCESSED"
    PROVE  SequencesInOrder'
<1>1. ASSUME NEW p \in Payments
      PROVE  /\ ProcessedOf(p)' = ProcessedOf(p)
             /\ \A w \in ProcessedOf(p) : sequence'[w] = sequence[w]
  BY DEF ProcessedOf
<1> QED BY <1>1 DEF SequencesInOrder

LEMMA CommitOrders ==
    ASSUME TypeOK, QueueInv, SequencesInOrder, NEW k \in Workers, Commit(k)
    PROVE  SequencesInOrder'
<1>1. PICK w \in Webhooks, p \in Payments :
         w = EventOf(k) /\ p = paymentId[w] /\ webhook[w] = "RECEIVED"
  BY EventTyped DEF Commit, Doing, QueueInv, HoldersDecide
<1>2. UNCHANGED content
  BY DEF Commit
<1>3. CASE ~Newer(w)
  <2>1. Finish(w, "IGNORED") /\ UNCHANGED lastSequence
    BY <1>1, <1>3 DEF Commit, checks
  <2>2. \A v \in Webhooks : webhook'[v] = webhook[v] \/ (v = w /\ webhook'[v] = "IGNORED")
    BY <1>1, <2>1 DEF Finish, TypeOK
  <2> QED BY <1>1, <1>2, <2>1, <2>2, OtherwiseDecided DEF content
<1>4. CASE Newer(w)
  <2>1. /\ webhook' = [webhook EXCEPT ![w] = "PROCESSED"]
        /\ lastSequence' = [lastSequence EXCEPT ![p] = sequence[w]]
    BY <1>1, <1>4 DEF Commit, Finish
  <2>2. /\ webhook'[w] = "PROCESSED" /\ lastSequence'[p] = sequence[w]
        /\ \A v \in Webhooks \ {w} : webhook'[v] = webhook[v]
        /\ \A q \in Payments \ {p} : lastSequence'[q] = lastSequence[q]
    BY <1>1, <2>1 DEF TypeOK
  <2>3. ProcessedOf(p)' = ProcessedOf(p) \cup {w}
    BY <1>1, <1>2, <2>2 DEF ProcessedOf, content
  <2>4. \A q \in Payments \ {p} : ProcessedOf(q)' = ProcessedOf(q)
    BY <1>1, <1>2, <2>2 DEF ProcessedOf, content
  <2>5. sequence[w] > lastSequence[p] /\ lastSequence[p] \in Nat /\ sequence[w] \in Int
    BY <1>1, <1>4 DEF Newer, TypeOK
  <2>6. \A v \in ProcessedOf(p) : sequence[v] \in Int /\ sequence[v] <= lastSequence[p]
    BY <1>1 DEF SequencesInOrder, ProcessedOf, TypeOK
  <2>7. \A v \in ProcessedOf(p) : sequence[v] < sequence[w]
    BY <2>5, <2>6
  <2>8. ASSUME NEW q \in Payments
        PROVE  /\ \A v \in ProcessedOf(q)' : sequence'[v] <= lastSequence'[q]
               /\ lastSequence'[q] # 0 => \E v \in ProcessedOf(q)' : sequence'[v] = lastSequence'[q]
               /\ \A u, v \in ProcessedOf(q)' : sequence'[u] = sequence'[v] => u = v
    <3>1. CASE q # p
      BY <1>2, <2>2, <2>4, <3>1 DEF SequencesInOrder, content
    <3>2. CASE q = p
      <4>1. \A u, v \in ProcessedOf(p) : sequence[u] = sequence[v] => u = v
        BY <1>1 DEF SequencesInOrder
      <4>2. ProcessedOf(q)' = ProcessedOf(p) \cup {w} /\ lastSequence'[q] = sequence[w]
        BY <2>2, <2>3, <3>2
      <4> QED BY <1>2, <2>5, <2>6, <2>7, <4>1, <4>2 DEF content
    <3> QED BY <3>1, <3>2
  <2> QED BY <2>8 DEF SequencesInOrder
<1> QED BY <1>3, <1>4

LEMMA NextOrders ==
    TypeOK /\ QueueInv /\ SequencesInOrder /\ [WebhooksNext]_wvars => SequencesInOrder'
<1> SUFFICES ASSUME TypeOK, QueueInv, SequencesInOrder, [WebhooksNext]_wvars
             PROVE  SequencesInOrder'
  OBVIOUS
<1> USE DEF content, checks
<1>1. UNCHANGED <<webhook, content, lastSequence>> => SequencesInOrder'
  BY DEF SequencesInOrder, ProcessedOf
<1>2. ASSUME NEW w \in Webhooks, Receive(w) \/ ReceiveInvalid(w)
      PROVE  SequencesInOrder'
  <2>1. webhook[w] = "absent" /\ webhook'[w] \in {"RECEIVED", "FAILED"} /\ UNCHANGED lastSequence
    BY <1>2 DEF Receive, ReceiveInvalid, TypeOK
  <2>2. \A v \in Webhooks \ {w} : /\ webhook'[v] = webhook[v] /\ paymentId'[v] = paymentId[v]
                                  /\ sequence'[v] = sequence[v]
    BY <1>2 DEF Receive, ReceiveInvalid, TypeOK
  <2> QED BY <2>1, <2>2, OtherwiseDecided
\* A worker decides on an event, without processing it.
<1>3. ASSUME NEW k \in Workers, NEW s \in {"FAILED", "IGNORED"}, Finish(EventOf(k), s),
             webhook[EventOf(k)] = "RECEIVED", UNCHANGED <<content, lastSequence>>
      PROVE  SequencesInOrder'
  <2>1. \A v \in Webhooks : webhook'[v] = webhook[v] \/ (v = EventOf(k) /\ webhook'[v] = s)
    BY <1>3 DEF Finish, TypeOK
  <2> QED BY <1>3, <2>1, OtherwiseDecided
<1>4. ASSUME NEW k \in Workers, Load(k)
      PROVE  SequencesInOrder'
  BY <1>1, <1>3, <1>4, LoadTakes
<1>5. ASSUME NEW k \in Workers, Verify(k)
      PROVE  SequencesInOrder'
  BY <1>1, <1>3, <1>5, VerifyTakes
<1>6. CASE \/ \E w \in Webhooks :
                 \/ BackoffEnds(w) \/ ClaimAges(w) \/ Enqueue(w) \/ RetryOutbox(w)
                 \/ \E k \in Workers : Claim(k, w) \/ Skip(k, w)
           \/ ReopenStale
           \/ \E k \in Workers : CloseEvent(k) \/ Throw(k) \/ FailEvent(k) \/ WorkerCrash(k)
           \/ \E p \in Payments : ReadReconcile(p)
           \/ LookupReconcile \/ WriteReconcile \/ ReconcileFails
           \/ UNCHANGED <<webhook, content, outbox, jobs, worker, checks, reconciling>>
           \/ UNCHANGED wvars
  BY <1>1, <1>6
  DEF BackoffEnds, ClaimAges, Enqueue, RetryOutbox, Claim, Skip, ReopenStale, CloseEvent, Throw,
      FailEvent, WorkerCrash, ReadReconcile, LookupReconcile, WriteReconcile, ReconcileFails,
      wvars
<1> QED
  BY <1>2, <1>4, <1>5, <1>6, CommitOrders DEF WebhooksNext, WorkerStep

(* Webhooks that come late, twice or out of order, to any number of        *)
(* workers, never take a payment's sequence back, and no sequence is       *)
(* processed twice (payment-events.ts, the transaction of                  *)
(* processPaymentWebhook).                                                 *)
THEOREM SequencesOrdered == WebhooksSpec => []SequencesInOrder
<1>1. WebhooksInit => SequencesInOrder
  BY DEF WebhooksInit, SequencesInOrder, ProcessedOf
<1> QED BY <1>1, NextOrders, WebhooksTyped, HoldersRely, PTL DEF WebhooksSpec

-----------------------------------------------------------------------------
(* The findings.  What was seen of a payment, or found, still holds.       *)
Seen(p, saw) ==
    /\ saw = "APPROVED" => status[p] = "APPROVED" \/ provider[p] = "CANCELED"
    /\ saw \in Reversed => status[p] \in Reversed

Holds(p, finding) ==
    /\ finding = "DONE" => status[p] = "APPROVED" \/ provider[p] = "CANCELED"
    /\ finding = "CANCELED" => status[p] \in Reversed /\ provider[p] = "CANCELED"

FindingsInv ==
    /\ \A p \in Payments : Holds(p, checked[p])
    /\ \A k \in Workers :
          /\ Doing(k, "asking") => Seen(paymentId[EventOf(k)], worker[k].saw)
          /\ Doing(k, "agreed") => Holds(paymentId[EventOf(k)], worker[k].answer)
    /\ reconciling.payment \in Payments =>
          /\ Seen(reconciling.payment, reconciling.saw)
          /\ Holds(reconciling.payment, reconciling.finding)
    /\ reconciling.finding # "never" => reconciling.payment \in Payments

\* The life of a payment only goes on.
LEMMA LifeGoesOn ==
    ASSUME TypeOK, LifeNext \/ UNCHANGED lvars, NEW p \in Payments, NEW x
    PROVE  (Seen(p, x) => Seen(p, x)') /\ (Holds(p, x) => Holds(p, x)')
<1>1. /\ status[p] = "APPROVED" \/ provider[p] = "CANCELED" =>
            status'[p] = "APPROVED" \/ provider'[p] = "CANCELED"
      /\ status[p] \in Reversed => status'[p] \in Reversed
      /\ provider[p] = "CANCELED" => provider'[p] = "CANCELED"
  BY DEF LifeNext, Order, CloseUnpaid, Capture, Approve, GiveBack, Reverse, Becomes, Provides,
         Reversed, TypeOK, lvars
<1> QED BY <1>1 DEF Seen, Holds

LEMMA AgreementHolds ==
    ASSUME TypeOK, NEW p \in Payments, NEW saw, Seen(p, saw), Agrees(AnswerOf(p), saw)
    PROVE  Holds(p, AnswerOf(p))
BY DEF TypeOK, Seen, Agrees, Expected, AnswerOf, Holds, Reversed

\* What a worker knows, after a step of another one.
LEMMA WorkerKnows ==
    ASSUME TypeOK, QueueInv, FindingsInv, NEW k \in Workers, worker'[k] = worker[k],
           LifeNext \/ UNCHANGED lvars,
           Doing(k, "asking") \/ Doing(k, "agreed") => paymentId'[EventOf(k)] = paymentId[EventOf(k)]
    PROVE  /\ Doing(k, "asking")' => Seen(paymentId[EventOf(k)], worker[k].saw)'
           /\ Doing(k, "agreed")' => Holds(paymentId[EventOf(k)], worker[k].answer)'
<1>1. Doing(k, "asking") \/ Doing(k, "agreed") => paymentId[EventOf(k)] \in Payments
  BY DEF QueueInv, HoldersDecide
<1>2. ASSUME Doing(k, "asking")
      PROVE  Seen(paymentId[EventOf(k)], worker[k].saw)'
  <2> DEFINE p == paymentId[EventOf(k)]
  <2>1. PICK q \in Payments, x \in LifeStatus : q = p /\ x = worker[k].saw
    BY <1>1, <1>2 DEF TypeOK, Job
  <2>2. Seen(q, x)'
    BY <1>2, <2>1, LifeGoesOn DEF FindingsInv
  <2>3. q = paymentId'[EventOf(k)'] /\ x = worker'[k].saw
    BY <1>2, <2>1 DEF EventOf
  <2> QED BY <2>2, <2>3 DEF Seen
<1>3. ASSUME Doing(k, "agreed")
      PROVE  Holds(paymentId[EventOf(k)], worker[k].answer)'
  <2> DEFINE p == paymentId[EventOf(k)]
  <2>1. PICK q \in Payments, x \in Answer : q = p /\ x = worker[k].answer
    BY <1>1, <1>3 DEF TypeOK, Job
  <2>2. Holds(q, x)'
    BY <1>3, <2>1, LifeGoesOn DEF FindingsInv
  <2>3. q = paymentId'[EventOf(k)'] /\ x = worker'[k].answer
    BY <1>3, <2>1 DEF EventOf
  <2> QED BY <2>2, <2>3 DEF Holds
<1> QED BY <1>2, <1>3 DEF Doing
\* The parts of FindingsInv.
ChecksHold == \A p \in Payments : Holds(p, checked[p])

WorkersKnow ==
    \A k \in Workers :
        /\ Doing(k, "asking") => Seen(paymentId[EventOf(k)], worker[k].saw)
        /\ Doing(k, "agreed") => Holds(paymentId[EventOf(k)], worker[k].answer)

ReconciliationKnows ==
    /\ reconciling.payment \in Payments =>
          /\ Seen(reconciling.payment, reconciling.saw)
          /\ Holds(reconciling.payment, reconciling.finding)
    /\ reconciling.finding # "never" => reconciling.payment \in Payments

\* A worker that has no more to decide knows nothing.
LEMMA OthersKnow ==
    ASSUME TypeOK, QueueInv, FindingsInv, LifeNext \/ UNCHANGED lvars, UNCHANGED paymentId,
           NEW k \in Workers, \A j \in Workers \ {k} : worker'[j] = worker[j],
           ~Doing(k, "asking")' /\ ~Doing(k, "agreed")'
    PROVE  WorkersKnow'
<1> SUFFICES ASSUME NEW j \in Workers
             PROVE  /\ Doing(j, "asking")' => Seen(paymentId[EventOf(j)], worker[j].saw)'
                    /\ Doing(j, "agreed")' => Holds(paymentId[EventOf(j)], worker[j].answer)'
  BY DEF WorkersKnow
<1>1. CASE j = k
  BY <1>1
<1>2. CASE j # k
  BY <1>2, WorkerKnows
<1> QED BY <1>1, <1>2

LEMMA WorkerStepFinds ==
    ASSUME TypeOK, QueueInv, FindingsInv, NEW k \in Workers, WorkerStep(k)
    PROVE  FindingsInv'
<1> USE DEF checks, content, outbox
<1>1. UNCHANGED <<lvars, paymentId, reconciling>>
  BY LoadTakes, VerifyTakes DEF WorkerStep, Commit, CloseEvent, Throw, FailEvent
<1>2. ReconciliationKnows'
  BY <1>1 DEF FindingsInv, ReconciliationKnows, Seen, Holds, lvars
<1>3. \A j \in Workers \ {k} : worker'[j] = worker[j]
  BY LoadTakes, VerifyTakes, StageTaken, NothingTaken
  DEF WorkerStep, Commit, CloseEvent, Throw, FailEvent, Takes, Stage
<1>4. ASSUME NEW j \in Workers \ {k}
      PROVE  /\ Doing(j, "asking")' => Seen(paymentId[EventOf(j)], worker[j].saw)'
             /\ Doing(j, "agreed")' => Holds(paymentId[EventOf(j)], worker[j].answer)'
  BY <1>1, <1>3, WorkerKnows
<1>5. UNCHANGED checked => ChecksHold'
  BY <1>1 DEF FindingsInv, ChecksHold, Holds, lvars
<1>6. ASSUME Doing(k, "asking")' => Seen(paymentId[EventOf(k)], worker[k].saw)',
             Doing(k, "agreed")' => Holds(paymentId[EventOf(k)], worker[k].answer)',
             ChecksHold'
      PROVE  FindingsInv'
  BY <1>2, <1>4, <1>6 DEF FindingsInv, ChecksHold, ReconciliationKnows
<1>7. CASE Load(k)
  <2>1. CASE /\ Takes(k, EventOf(k), "asking") /\ paymentId[EventOf(k)] \in Payments
             /\ worker'[k].saw = status[paymentId[EventOf(k)]]
    <3>1. Doing(k, "asking")' /\ EventOf(k)' = EventOf(k)
      BY <2>1 DEF Takes, Doing, EventOf
    <3>2. Seen(paymentId[EventOf(k)], worker[k].saw)'
      BY <1>1, <2>1, <3>1 DEF Seen, lvars
    <3>3. ~Doing(k, "agreed")'
      BY <3>1 DEF Doing
    <3> QED BY <1>5, <1>6, <1>7, <3>2, <3>3 DEF Load
  <2>2. CASE Takes(k, EventOf(k), "done") \/ Takes(k, EventOf(k), "failed")
    BY <1>5, <1>6, <1>7, <2>2 DEF Load, Takes, Doing
  <2> QED BY <1>7, <2>1, <2>2, LoadTakes
<1>8. CASE Verify(k)
  <2>1. UNCHANGED checked
    BY <1>8 DEF Verify
  <2>2. CASE Takes(k, EventOf(k), "done")
    BY <1>5, <1>6, <2>1, <2>2 DEF Takes, Doing
  <2>3. CASE /\ Takes(k, EventOf(k), "agreed") /\ paymentId[EventOf(k)] \in Payments
             /\ worker'[k].answer = AnswerOf(paymentId[EventOf(k)])
             /\ Agrees(AnswerOf(paymentId[EventOf(k)]), worker[k].saw)
    <3>1. Seen(paymentId[EventOf(k)], worker[k].saw)
      BY <1>8 DEF Verify, FindingsInv
    <3>2. worker[k].saw \in LifeStatus
      BY DEF TypeOK, Job
    <3>3. PICK p \in Payments, x \in LifeStatus : p = paymentId[EventOf(k)] /\ x = worker[k].saw
      BY <2>3, <3>2
    <3>4. Holds(p, AnswerOf(p))
      BY <2>3, <3>1, <3>3, AgreementHolds
    <3>5. Doing(k, "agreed")' /\ EventOf(k)' = EventOf(k)
      BY <2>3 DEF Takes, Doing, EventOf
    <3>6. paymentId'[EventOf(k)'] = p /\ worker'[k].answer = AnswerOf(p)
      BY <1>1, <2>3, <3>3, <3>5
    <3>7. Holds(paymentId[EventOf(k)], worker[k].answer)'
      BY <1>1, <3>4, <3>6 DEF Holds, lvars
    <3>8. ~Doing(k, "asking")'
      BY <3>5 DEF Doing
    <3> QED BY <1>5, <1>6, <2>1, <3>7, <3>8
  <2> QED BY <1>8, <2>2, <2>3, VerifyTakes
<1>9. CASE Commit(k)
  <2>1. Holds(paymentId[EventOf(k)], worker[k].answer) /\ paymentId[EventOf(k)] \in Payments
    BY <1>9 DEF Commit, FindingsInv, QueueInv, HoldersDecide
  <2>2. \/ UNCHANGED checked
        \/ checked' = [checked EXCEPT ![paymentId[EventOf(k)]] = worker[k].answer]
    BY <1>9 DEF Commit
  <2>3. \A p \in Payments :
           checked'[p] = checked[p] \/ (p = paymentId[EventOf(k)] /\ checked'[p] = worker[k].answer)
    BY <2>1, <2>2 DEF TypeOK
  <2>4. ChecksHold'
    BY <1>1, <2>1, <2>3 DEF FindingsInv, ChecksHold, Holds, lvars
  <2>5. ~Doing(k, "asking")' /\ ~Doing(k, "agreed")'
    BY <1>9, StageTaken DEF Commit, Stage, Takes, Doing
  <2> QED BY <1>6, <2>4, <2>5
<1>10. CASE CloseEvent(k) \/ Throw(k) \/ FailEvent(k)
  <2>1. ~Doing(k, "asking")' /\ ~Doing(k, "agreed")'
    BY <1>10, StageTaken, NothingTaken
    DEF CloseEvent, Throw, FailEvent, Stage, Takes, Doing
  <2> QED BY <1>5, <1>6, <1>10, <2>1 DEF CloseEvent, Throw, FailEvent
<1> QED BY <1>7, <1>8, <1>9, <1>10 DEF WorkerStep

LEMMA ChecksGoOn ==
    ASSUME TypeOK, FindingsInv, LifeNext \/ UNCHANGED lvars
    PROVE  /\ UNCHANGED checked => ChecksHold'
           /\ UNCHANGED reconciling => ReconciliationKnows'
<1>1. ASSUME UNCHANGED checked, NEW p \in Payments
      PROVE  Holds(p, checked[p])'
  <2>1. PICK x \in Finding : x = checked[p] /\ Holds(p, x)
    BY DEF TypeOK, FindingsInv
  <2>2. Holds(p, x)'
    BY <2>1, LifeGoesOn
  <2> QED BY <1>1, <2>1, <2>2
<1>2. ASSUME UNCHANGED reconciling, reconciling.payment \in Payments
      PROVE  /\ Seen(reconciling.payment, reconciling.saw)'
             /\ Holds(reconciling.payment, reconciling.finding)'
  <2>1. PICK p \in Payments, x \in LifeStatus, y \in Finding :
           p = reconciling.payment /\ x = reconciling.saw /\ y = reconciling.finding
    BY <1>2 DEF TypeOK, Reconciliation
  <2>2. Seen(p, x)' /\ Holds(p, y)'
    BY <1>2, <2>1, LifeGoesOn DEF FindingsInv
  <2> QED BY <1>2, <2>1, <2>2
<1>3. UNCHANGED reconciling => (reconciling.finding # "never" => reconciling.payment \in Payments)'
  BY DEF FindingsInv
<1> QED BY <1>1, <1>2, <1>3 DEF ChecksHold, ReconciliationKnows

LEMMA ReconcileFinds ==
    ASSUME TypeOK, QueueInv, FindingsInv,
           \/ \E p \in Payments : ReadReconcile(p)
           \/ LookupReconcile \/ WriteReconcile \/ ReconcileFails
    PROVE  FindingsInv'
<1> USE DEF checks, content
<1>1. UNCHANGED <<lvars, worker, paymentId>>
  BY DEF ReadReconcile, LookupReconcile, WriteReconcile, ReconcileFails
<1>2. WorkersKnow'
  BY <1>1, WorkerKnows DEF WorkersKnow
<1>3. ASSUME ChecksHold', ReconciliationKnows'
      PROVE  FindingsInv'
  BY <1>2, <1>3 DEF FindingsInv, ChecksHold, WorkersKnow, ReconciliationKnows
<1>4. ASSUME NEW p \in Payments, ReadReconcile(p)
      PROVE  FindingsInv'
  <2>1. /\ reconciling'.payment = p /\ reconciling'.saw = status'[p]
        /\ reconciling'.finding = "never" /\ UNCHANGED checked
    BY <1>1, <1>4 DEF ReadReconcile, lvars
  <2>2. ReconciliationKnows'
    BY <2>1 DEF ReconciliationKnows, Seen, Holds
  <2> QED BY <1>1, <1>3, <2>1, <2>2, ChecksGoOn
<1>5. CASE LookupReconcile
  <2>1. PICK p \in Payments, x \in LifeStatus : p = reconciling.payment /\ x = reconciling.saw
    BY <1>5 DEF LookupReconcile, TypeOK, Reconciliation
  <2> DEFINE finding == IF Agrees(AnswerOf(p), x) THEN AnswerOf(p) ELSE "mismatch"
  <2>2. /\ reconciling'.payment = p /\ reconciling'.saw = x /\ reconciling'.finding = finding
        /\ UNCHANGED checked
    BY <1>5, <2>1 DEF LookupReconcile, TypeOK, Reconciliation
  <2>3. Seen(p, x) /\ Holds(p, finding)
    BY <2>1, AgreementHolds DEF FindingsInv, Holds
  <2>4. ReconciliationKnows'
    BY <1>1, <2>2, <2>3 DEF ReconciliationKnows, Seen, Holds, lvars
  <2> QED BY <1>1, <1>3, <2>2, <2>4, ChecksGoOn
<1>6. CASE WriteReconcile \/ ReconcileFails
  <2>1. reconciling'.payment \notin Payments /\ reconciling'.finding = "never"
    BY <1>6, WebhookAssumption DEF WriteReconcile, ReconcileFails, NoReconciliation
  <2>2. ReconciliationKnows'
    BY <2>1 DEF ReconciliationKnows
  <2>3. CASE WriteReconcile
    <3>1. /\ Holds(reconciling.payment, reconciling.finding) /\ reconciling.payment \in Payments
          /\ checked' = [checked EXCEPT ![reconciling.payment] = reconciling.finding]
      BY <2>3 DEF WriteReconcile, FindingsInv
    <3>2. \A p \in Payments :
             checked'[p] = checked[p] \/ (p = reconciling.payment /\ checked'[p] = reconciling.finding)
      BY <3>1 DEF TypeOK
    <3>3. ChecksHold'
      BY <1>1, <3>1, <3>2 DEF FindingsInv, ChecksHold, Holds, lvars
    <3> QED BY <1>3, <2>2, <3>3
  <2>4. CASE ReconcileFails
    BY <1>1, <1>3, <2>2, <2>4, ChecksGoOn DEF ReconcileFails
  <2> QED BY <1>6, <2>3, <2>4
<1> QED BY <1>4, <1>5, <1>6

LEMMA NextFinds == TypeOK /\ QueueInv /\ FindingsInv /\ [WebhooksNext]_wvars => FindingsInv'
<1> SUFFICES ASSUME TypeOK, QueueInv, FindingsInv, [WebhooksNext]_wvars PROVE FindingsInv'
  OBVIOUS
<1> USE DEF checks, content, outbox
<1>1. ASSUME LifeNext \/ UNCHANGED lvars, UNCHANGED <<checked, reconciling>>, WorkersKnow'
      PROVE  FindingsInv'
  BY <1>1, ChecksGoOn DEF FindingsInv, ChecksHold, WorkersKnow, ReconciliationKnows
<1>2. ASSUME LifeNext \/ UNCHANGED lvars, UNCHANGED <<worker, paymentId, checked, reconciling>>
      PROVE  FindingsInv'
  BY <1>1, <1>2, WorkerKnows DEF WorkersKnow
<1>3. ASSUME NEW w \in Webhooks, Receive(w)
      PROVE  FindingsInv'
  <2>1. \A k \in Workers : Doing(k, "asking") \/ Doing(k, "agreed") =>
           EventOf(k) \in Webhooks \ {w}
    BY <1>3, EventTyped DEF Receive, QueueInv, HoldersDecide, Doing
  <2>2. \A v \in Webhooks \ {w} : paymentId'[v] = paymentId[v]
    BY <1>3 DEF Receive, TypeOK
  <2>3. UNCHANGED <<lvars, worker, checked, reconciling>>
    BY <1>3 DEF Receive
  <2>4. WorkersKnow'
    BY <2>1, <2>2, <2>3, WorkerKnows DEF WorkersKnow
  <2> QED BY <1>1, <2>3, <2>4
<1>4. ASSUME NEW w \in Webhooks, NEW k \in Workers, Claim(k, w)
      PROVE  FindingsInv'
  <2> DEFINE job == [NoJob EXCEPT !.event = w, !.stage = "claimed"]
  <2>1. job \in Job /\ job.stage = "claimed"
    BY DEF NoJob, Job, Answer, LifeStatus
  <2>2. worker' = [worker EXCEPT ![k] = job]
    BY <1>4 DEF Claim
  <2> HIDE DEF job
  <2>3. /\ \A j \in Workers \ {k} : worker'[j] = worker[j]
        /\ ~Doing(k, "asking")' /\ ~Doing(k, "agreed")'
    BY <2>1, <2>2, JobTaken DEF Takes, Doing
  <2>4. UNCHANGED <<lvars, paymentId, checked, reconciling>>
    BY <1>4 DEF Claim
  <2> QED BY <1>1, <2>3, <2>4, OthersKnow
<1>5. ASSUME NEW k \in Workers, WorkerCrash(k)
      PROVE  FindingsInv'
  <2>1. /\ \A j \in Workers \ {k} : worker'[j] = worker[j]
        /\ ~Doing(k, "asking")' /\ ~Doing(k, "agreed")'
    BY <1>5, NothingTaken DEF WorkerCrash, Takes, Doing
  <2>2. UNCHANGED <<lvars, paymentId, checked, reconciling>>
    BY <1>5 DEF WorkerCrash
  <2> QED BY <1>1, <2>1, <2>2, OthersKnow
<1>6. CASE \/ \E w \in Webhooks :
                 \/ ReceiveInvalid(w) \/ BackoffEnds(w) \/ ClaimAges(w) \/ Enqueue(w)
                 \/ RetryOutbox(w) \/ \E k \in Workers : Skip(k, w)
           \/ ReopenStale
           \/ LifeNext /\ UNCHANGED <<webhook, content, outbox, jobs, worker, checks, reconciling>>
           \/ UNCHANGED wvars
  BY <1>2, <1>6
  DEF ReceiveInvalid, BackoffEnds, ClaimAges, Enqueue, RetryOutbox, Skip, ReopenStale, wvars
<1> QED
  BY <1>3, <1>4, <1>5, <1>6, WorkerStepFinds, ReconcileFinds DEF WebhooksNext

(* What a check of a payment against the provider found is still so,       *)
(* although the status was read before the provider answered and others    *)
(* went on meanwhile (payment-events.ts, processPaymentWebhook;            *)
(* admin.service.ts, reconcilePayment).                                    *)
THEOREM FindingsStand == WebhooksSpec => []FindingsHold
<1>1. WebhooksInit => FindingsInv
  BY WebhookAssumption
  DEF WebhooksInit, FindingsInv, Holds, NoJob, Doing, NoReconciliation
<1>2. FindingsInv => FindingsHold
  BY DEF FindingsInv, Holds, FindingsHold
<1> QED BY <1>1, <1>2, NextFinds, WebhooksTyped, HoldersRely, PTL DEF WebhooksSpec
=============================================================================
