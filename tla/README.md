# Gamja Market: a verification development in TLA+

Gamja Market is a second-hand market: sellers offer products, buyers request a trade, the
buyer pays into escrow through Toss, the seller delivers, the buyer confirms, and after a
holding period a worker pays the seller. This directory models the part of the system that
decides who gets the product and where the money goes, the webhooks that compare it with the
provider, the accounts and the chat, checks it with TLC, and proves with TLAPS every safety property
that is checked. Paths below are relative to the repository.

## 1. Inventory

| Component | Source | State | Operations | Interacts with |
| --- | --- | --- | --- | --- |
| Trades | `apps/api/src/trades/trade.service.ts` | `Trade`, `TradeHistory` | request, accept, reject, deliver, confirm, dispute, cancel | products (reserve, sell), payments (pause, close the order), chat (opens a room) |
| Payments | `apps/api/src/payments/payment.service.ts` | `Payment`, `LedgerEntry`, `PaymentOperation` | createOrder, confirm, cancel, refund, receiveWebhook | the Toss adapter between read and write; trades and products on reversal; the outbox |
| Payment provider adapter | `.../payments/toss-sandbox.adapter.ts` | held by the provider | confirm, cancel, refund, lookup; 8 second timeout | called by payments, admin and the outbox worker |
| Trade jobs | `apps/worker/src/trade-maintenance.ts` | none of its own | confirmDueTrades, cancelExpiredUnpaidTrades, every minute | trades, products, payments |
| Settlement job | `apps/worker/src/settlement-maintenance.ts` | a list in memory | processDueSettlements, every minute | payments; the payout provider, 10 second timeout |
| Products | `apps/api/src/products/product.service.ts` | `Product` | create, update, setStatus, remove, search | trades |
| Administration | `apps/api/src/admin/admin.service.ts` | audit log | hideProduct, setUserStatus, retryOutbox, reconcilePayment, resolveReport | nearly all tables |
| Outbox and webhooks | `apps/worker/src/payment-events.ts`, `receiveWebhook` | `OutboxEvent`, `PaymentWebhook` | dispatch, process, retry, dead letter | payments, the provider's lookup |
| Authentication | `apps/api/src/auth/auth.service.ts` and guards | users, verification codes, login throttle, sessions | register, verify, login, logout, reset, withdraw | products, trades (withdrawal) |
| Chat | `apps/api/src/chats/chat.service.ts`, `chat.gateway.ts` | rooms, messages, reads, sockets | send, read, subscribe, relationship refresh | safety |
| Safety | `apps/api/src/safety/safety.service.ts` | blocks, reports | block, unblock, report | chat, trades |
| Password policy, observability, web, contracts, ui | | none that is shared | pure functions, I/O, user interface | |

What is hard here:

* Concurrency. The API runs many requests at once on one PostgreSQL database at READ
  COMMITTED. Most commands are "find the row in the right status, then update it by id", so the
  status is not looked at again when the row is written. Only accept (on the product), the
  approval (on the payment), cancel (on the order), the jobs and the claim of a settlement write
  with a condition.
* Calls between read and write. Approval and reversal call the provider after their checks and
  before their transaction; the settlement job calls the payout provider between its claim and
  its result. Whatever happens in between is not seen.
* Failures. A provider's answer can be lost after the money moved; the client retries with the
  same or with another idempotency key; the worker can stop between the claim and the result.
* Time. Four periods of seven days decide what the jobs and the reversal may do; a claim on an
  event is good for five minutes, whatever its worker does; codes, locks and windows of the
  throttle have periods of their own.
* Callbacks. A block calls a listener after its commit, which refreshes the rooms of the sockets of
  both users, in steps nobody waits for.
* Visibility. A message gets its `createdAt` when its insert is issued, and others see it when the
  insert is committed.

What makes each component correct:

* Trades: a product is promised to one trade; moves follow the table of commands; the history
  leads to the status; a delivered trade is eventually decided, an unpaid one released.
* Payments: ledger and status agree; an operation takes effect once per payment, whatever keys
  are used; a reversed payment stays reversed; entries are booked only for money that moved.
* Settlement: paid only after the hold, by one worker at a time; every undisputed sale is paid.
* Products: reservation and trade agree; a product in use is not deleted.
* Outbox and webhooks: a webhook is decided once, however often its event is processed; an
  event is closed only with the decision made; the sequence of a payment only moves forward; a
  finding of agreement with the provider is justified; every webhook is decided or given up.
* Authentication: guesses and unused codes stay within their limits when requests overlap, and the
  failed logins that overlapping requests lose stay few; a closed account keeps no sessions but
  those of logins in flight.
* Chat and safety: what was acknowledged is stored; what counts as read was shown, but for messages
  that were being inserted; a socket loses no subscription when refreshes overlap; reports are
  limited.

`PROJECT.json` lists every hazard found, at its line, with the properties that cover it or the
reason why none does.

## 2. Modules

| Module | Models |
| --- | --- |
| `MarketState` | the shared rows, the two providers, the clock, the calls and jobs in flight, `TypeOK`, `Init`, and what all handlers use |
| `TradeService` | the seven commands on a trade |
| `PaymentService` | createOrder, confirm, cancel, refund, the idempotency record and the Toss adapter |
| `ProductService` | setStatus, remove, hideProduct, and the hiding of the products of an owner who withdraws |
| `Maintenance` | automatic confirmation, expiry of unpaid trades, the settlement job |
| `Market` | the composition: `Next`, `Spec`, the serial and the fair specification, all properties, the refinement mapping |
| `EscrowLedger` | the abstract specification of the money: what the providers hold and what the book says |
| `PaymentLife` | the abstract life of a payment: its status and what the provider did; `Market` implements it, `Webhooks` uses it as its environment |
| `Webhooks` | receiveWebhook, the outbox and its dispatch, the BullMQ jobs, the webhook worker, retryOutbox, reconcilePayment |
| `DurableQueue` | the abstract specification of the outbox: one outcome for each item, closed only with it |
| `Accounts` | sign-up, codes, password reset, login and throttle, sessions, withdrawal, setUserStatus |
| `Chat` | rooms, messages, reads, sockets and their refreshes, blocks, reports, resolveReport; every command asks `Accounts` for an active session |
| `Community` | the composition of `Accounts` and `Chat` |
| `MarketClaims` | claims of the repository's documents |
| `MCMarket` | instances for TLC: which trade is of which product and buyer, symmetry |
| `MCWebhooks`, `MCCommunity` | instances for TLC: symmetry, first tokens, scenes |
| `MarketTypeProofs` | theorems about `Market`: types, and the shapes of calls |
| `EscrowProofs`, `RecordProofs`, `SettlementProofs` | the money; history, life of a payment and operations; holds and claims |
| `SaleProofs` | product, trade and payment together: what holds when calls do not overlap, and the one promise although they do |
| `WebhookProofs` | theorems about `Webhooks` |
| `CommunityTypeProofs`, `CommunityProofs` | theorems about `Community`: types and the throttle; messages, reads, subscriptions, failed logins and the limits |

Three systems are checked on their own: the market, the webhooks and the community. The webhook
worker reads payments and never changes their status, so it needs of the market only the life of
a payment: `Webhooks` extends `PaymentLife`, and the refinement `LifeSpec` (checked, and proved)
says that the market is such an environment. Accounts meet the market in the withdrawal, which
hides the active products: that half is `HideProductsOf` of `ProductService`, the other `Withdraw`
of `Accounts`. A trade request opens the chat room of the trade: that is `CreateRoom` of `Chat`.

### State and code

`product`, `trade`, `payment` and `settlement` are the status columns, "absent" standing for a
row that was never inserted. `history[t]` is the sequence of `TradeHistory` rows. `ledger[t]`
is the set of entry types of the payment (a set, because `LedgerEntry` is unique by payment and
type). `operations` holds the `PaymentOperation` rows. `Payment.tradeId` is unique, so the
trade names the payment. `toss[t]` is what the provider did for the order, `payouts` the trades
whose seller was paid. `elapsed[t]` is the set of periods that are over: a timestamp is
modelled by whether seven days have passed since the code took it, and taking a new one
(`Restart`, or `updatedAt` by `Touch`) puts the period back.

A command is two steps: `ReadX` takes every check and early return of the handler and puts what
it remembers into the call record of a caller; `X` does every write at once. Rows stay locked
from their first write to the commit and the conditions of `updateMany` are evaluated on the
latest committed row, so the writes of one transaction can be taken as one step at its end.
Where the transaction is refused by its own condition or by a unique constraint there is a
`RefuseX`. A payment command has the provider's step in between. `CallLost` ends any call at any
point: the provider refused or did not answer, the process stopped, the database aborted the
transaction (deadlocks among the row locks included). An answer that is lost after the money
moved is the provider's step followed by `CallLost`. `createOrder` and the expiry lock the trade
row from their read on, and are one step.

The settlement job is `ReleaseHolds`, `FindDue`, then per payment `Claim` or `SkipClaim`,
`PayoutSucceeds` or `PayoutFails` (the payout may have happened anyway), `SettlePayment` or
`FailSettlement`, and `EndJob`. `WorkerCrash` stops it anywhere.

An outbox event belongs to one webhook (`receiveWebhook` inserts both in one transaction, and
nothing else inserts events that do anything), so both are named by the webhook. `webhook`,
`event` and `attempts` are the columns; `due` stands for `availableAt` and `old` for a
`claimedAt` of more than five minutes ago. `jobs` are the waiting jobs of BullMQ and `worker[k]`
the job in progress with what it has read. Processing an event is `Claim` or `Skip`, `Load` (the
event, the webhook, the payment), `Verify` (the lookup and the comparison), `Commit`, then
`CloseEvent`; `Throw` and `FailEvent` are the catch block. Claims and writes by id are those of
the code: a worker whose claim grew old goes on and writes its result by id over the status the
event was reopened with, or over the administrator's. What keeps a second worker from the same
event is the jobId (`AddOnce`); `OneHolder` in `WebhookProofs` proves that it does.

A request to `Accounts` or `Chat` runs its statements one by one: each read and each later write
is a step, and `call[c]` has what it read. `codes` is the table `VerificationCode` by id, with rows of
no user where there is none; ids grow with `createdAt`, and a new row gets one that no row has and no
request knows (`Fresh`).
`throttle[u]` is the row of `LoginThrottle`, `session` has the rows by token. A login is `Login` (the
throttle is read), then `PasswordRight` or `PasswordWrong` (the user is read, and the password
compared), then `ClearThrottle` and `OpenSession`, or `RecordFailure`, which counts from the row that
`Login` read. `counted` is a history variable: how often the row got to each count in its window.

`messages` has the messages in the order of `createdAt`, and `stored` says which of them are
committed: `StampMessage` issues the insert, `StoreMessage` commits it, or `FindExisting` answers
from the row that has its id. A time is a number of messages: `viewedAt` and `lastRead` say how many
there were. `shown` and `acknowledged` are what the clients saw. `Block` and `Unblock` write the
row, and `Notify` is the listener. `joined[s]` are the chat rooms of a socket and `refreshing[s]`
has a slot for each run of `refreshSubscriptions` in flight: a run leaves the rooms when it starts
(`Refreshed`, `Connect`), lists them (`ListRooms`) and joins them (`JoinRooms`). A list that fails
rejects a promise nobody handles, which ends a Node process: `ProcessEnds` drops the requests in
flight and the sockets. `entered` is a history variable, the rooms a socket was ever joined to.

### Abstractions

* The reads of one handler are one snapshot. Checks of participants, neighbourhoods, blocks,
  amounts and payment keys are taken to succeed: a caller that fails one gets an error and
  changes nothing.
* A period of a trade ends only while no call about that trade is in flight and no job is
  paying it: seven days are long, a call lasts seconds. A provider whose effect arrives after
  the API gave up is not modelled beyond the lost answer, which happens before `CallLost`.
* `request` uses a trade identifier no call in flight is using: identifiers are fresh.
* `SETTLED` stands for `SANDBOX_SETTLED` too. `findMany ... take: 50` is not bounded: the
  instances are smaller. `UNCONFIRMED`, `FAILED`, `CANCEL_PENDING` and `REFUND_PENDING` are
  values of the column `Payment.status` that no code writes (proved: `KnownStatuses` in
  `EscrowProofs`), and no code writes `REVIEWING` of a report.
* `Init` has the products created and active; creation and the fields that `update` changes are
  not part of the state.
* A webhook's signature and body are checked before anything is stored; what is left is a body that
  can be parsed (`Receive`) or not (`ReceiveInvalid`). Order and amount that differ from the
  payment's are a choice of `Verify`. In test mode the code processes the webhook in the request;
  the model has the mode of production.
* A job that BullMQ takes from a living worker, because it lost its lock, is not modelled; the job
  of a crashed worker is (it waits again, or is gone).
* Passwords, tokens and codes are right or wrong: `PasswordRight` or `PasswordWrong`, `GuessRight` or
  `GuessWrong`. Neighbourhoods and profile data are left out.
* `createdAt` and `viewedAt` are taken from one clock, and no two of them are equal. An insert whose
  request has ended without an answer (`CallLost`, `ProcessEnds`) is committed by then or never.
* A block or unblock that is committed is answered by the database as long as the process lives, so
  that its listener runs: `CallLost` does not apply between the two.
* A period of an account (ten minutes of a code, fifteen of the throttle, the minute of reports)
  ends only while no request of the user is in flight.
* The gateway runs in one API process, as in the repository's `compose.yaml`; leaving the rooms is
  one step with the start of the refresh, as joining and leaving happen in the memory of that
  process. What is emitted is not modelled, except the message that is
  acknowledged.
* A replay of a recorded key answers from the record and changes nothing, and so is not a step.

## 3. Runs

`Handlers` is the named bound of the runs of the market: the handlers and jobs that are called in
it. The other bounds are the sizes of `Trades`, `Callers`, `Keys` and `Workers`. In the webhook
runs, `CrashBound` is the number of attempts in which a worker may stop, and `Commands` are the
administrator's commands. In `community`, `Scenes` are the commands of each user that occur
together, of which a behaviour has one, each with a bound on the inserts of messages (`inserts`) and
on the logins of a user that clear the throttle (`clears`), and `Refreshes` is the set of refreshes
that may be in flight for one socket. Every run says `CHECK_DEADLOCK FALSE`, because a finite market
stops when its trades are over and its keys are used. Trades, callers and keys are symmetric
wherever nothing tells them apart; runs with liveness use no symmetry.

| Run | Instance | What it shows |
| --- | --- | --- |
| `one_call` | 3 trades of one product, two buyers, one call at a time, 4 keys, deletion of the product | product, trade and payment rows stay consistent when commands do not overlap: `ReservationMatchesTrade`, `RequestsStayAcceptable`, `EscrowFollowsTrade`, `OneActiveTradePerBuyer`, `MovesAreLegal` |
| `two_calls` | 1 trade, 2 overlapping calls, 4 keys, worker that crashes | in every interleaving: `TypeOK`, `LedgerMatchesStatus`, `OperationsMatchLedger`, `StatusIsLastHistory`, `PaidOnlyAfterHold`, `ReversedForGood`, and the refinements `EscrowSpec` and `LifeSpec` |
| `concurrent_accepts` | 3 trades of one product, 2 overlapping calls, 3 keys, with refund, remove, hideProduct, withdraw, but not cancel, cancelPayment, dispute, setStatus | a product is promised once: `OneEngagedTrade` |
| `two_workers` | 1 trade, 2 workers that crash, 2 overlapping calls, 3 keys, with dispute, refund and both confirmations | `ClaimsAreExclusive` |
| `owner` | 2 trades, every handler and job, owner (also withdrawing) and administrator, one call at a time | `DeletionIsSafe` |
| `liveness` | 1 trade, fair jobs and clock, no crashes | `DeliveredIsDecided`, `ConfirmedIsSettled`, `UnpaidIsReleased` |
| `webhooks` | 2 webhooks of one payment, 2 workers that crash, 2 sequence numbers, 2 attempts | `TypeOK`, `SequencesInOrder` |
| `one_webhook` | 1 webhook, 2 workers that crash, the administrator's commands, 2 attempts, fairness | `FindingsHold`, the refinement `QueueSpec`, `WebhooksAreDecided` |
| `community` | 2 users, 2 overlapping requests, 9 scenes, 2 sockets, 2 or 3 inserts of messages, limits of 2 and 3 | `TypeOK`, `GuessesAreBounded`, `FewUnusedCodes`, `LostFailuresAreBounded`, `FewSessionsSurvive`, `AcknowledgedIsStored`, `FewReadsUnseen`, `SubscriptionsSurvive`, `ReportsAreLimited` |
| `cancel_bypasses_approval` | 1 trade, 2 calls | violates `ApprovedIsNotBypassed` |
| `dispute_during_settlement` | 1 trade | violates `DisputeStopsSettlement` |
| `crashed_settlement` | 1 trade, a worker that crashes, fairness | violates `SettlementResumes` |

Why the bounds are enough to make the cases happen: three trades are a winner and two
competitors, of which two share a buyer; two callers are every pair of overlapping handlers;
four keys let one payment be ordered, approved and reversed with a key left for a retry; two
workers are enough for a double claim. Two webhooks of one payment with two sequence numbers are
in order, out of order or equal; two workers and a claim that grows old are the worker that
writes late over another; of two attempts the first fails and the second gives up. The limits of
five, three and a hundred are two, three and two in `community`, so that they are reached; the
scenes group the commands that touch the same rows, since the others change nothing the property
reads. Two requests of any kind overlap, and two sockets with two refreshes each overtake each
other. Two inserts are a message that counts as read without having been shown, and one more that must
not; three are an id that is used again while it is taken. A login may clear the throttle twice while
failures are counted from the rows it deletes. Two scenes are
not symmetric, to keep them small: the buyer and the seller both read, and the seller sends; both
connect and block, and the buyer opens and enters the room.

`FewSessionsSurvive` and `GuessesAreBounded` allow one more for each request in flight, because
the code does: it checks first and writes later. `SubscriptionsSurvive` says that none is lost; a
refresh that listed its rooms before a block does join them after it. It allows a room to be missing
between the commit of an unblock and its listener.

Two properties bound what the code loses, because it does lose something:

* `FewReadsUnseen`. `detail` takes its time before it reads the messages, so whatever is sent in
  between is not covered by the reading time. A message that was stamped before that time and is
  committed after the read is covered, and was not shown. At any moment a reading time covers at most
  as many of these as there are other requests.
* `LostFailuresAreBounded`. A failure is counted from the row that the login read first. Of two that
  read the same row one is lost; one that read a lower count takes the count back, and with it lifts a
  lock. `counted[u][k]` is how often the row got to the count `k` since its window began (0 is the
  beginning, or a login that cleared it). Each count is reached at most as often as the count below it,
  times the number of requests that may be in flight, and none beyond the limit is ever reached. With
  one request at a time this is the limit of the code; with more it is what the overlap costs. The
  bound is per count: with `n` requests at a time and no login that succeeds, a window has at most
  `n + n^2 + ...` failures, with the limit as the last exponent.

Why `one_call` and `owner` are serial (`SerialSpec`): their properties relate several tables, and
the code does not keep them when calls overlap. A request that read the product as active can be
inserted after an acceptance; two requests of one buyer can both find no active trade; a
deletion can find no trade and delete after a request was inserted; a cancellation can read the
trade before an order exists and leave the order open. `one_call` leaves out three commands on
products: the owner may set a reserved product active, and one that is hidden or whose owner
withdraws keeps its requests. `SerialSpec` is how the tests of the repository run the program.

`OneEngagedTrade` is checked with two overlapping calls, but without four commands: the condition on
the product decides between any number of acceptances, and rejections, deliveries, confirmations,
refunds and deletions that commit late cannot undo it. It is not a property of the whole code. With
cancel, cancelPayment or dispute in the instance, one that read the trade earlier and commits late
frees the product under its new trade, or brings a closed trade back, and a second trade gets in;
with setStatus, the owner may put a reserved product back on sale. What does hold under overlapping
calls is checked under `Spec`.

### Where the code and its documents differ

* `cancel_bypasses_approval`: `trade.service.ts:219` looks at the payment status it read. If the
  approval commits before cancel writes, the conditional update of the order matches nothing, its
  count is ignored, and the trade is cancelled around an approved payment.
* `dispute_during_settlement`: after the claim, the settlement job writes its result by id, so a
  dispute received meanwhile does not stop it.
* `crashed_settlement`: a payment whose worker stopped after the claim stays PROCESSING; no job
  looks for that status.

### Fairness

`FairSpec` assumes nothing of clients. A call ends (`CallLost` weakly fair): its slowest step is
aborted after 8 seconds. Time passes (`PeriodEnds` strongly fair, since calls come and go). The
jobs run every minute (weak fairness of their steps). `ReleaseHolds`, `PayoutSucceeds` and
`SettlePayment` are strongly fair: each run of the job starts with the release, and a payout
that is asked for again and again, with the same idempotency key, succeeds in the end and is
posted in the end. Crashes are left out of the `liveness` run: `crashed_settlement` shows what
they do.

`FairWebhooksSpec` assumes that time passes, that the dispatch runs (every five seconds), that a
worker with a job goes on (weak fairness of its steps), and that the queue serves every job (strong
fairness of the claim, as another claim may come first). The lookup and the database may fail any
number of times, but not for ever for one event: `Load`, `Verify` and `Commit` of an event are
strongly fair. The administrator retries an event finitely often. Without the last two assumptions
the property still has the dead letter as its way out; the bound of crashes (`CrashBound`) keeps
attempts finite.

## 4. Proofs

The theorems about the market are about `Spec` (in `SaleProofs` also about `SerialSpec`) and hold
for any sets of products, trades, keys, callers and workers. They assume `MarketAssumption` (each
trade has a product and a buyer, `Handlers` names handlers, `NoTrade` is no trade) and
`NoCallAssumption` (`NoCall` is no call record).

* `TypeCorrect`: `Spec => []TypeOK`. A call record is of one of three shapes, told apart by its
  `op`; the lemmas `TradeCallTyped`, `PaymentCallTyped`, `ProductCallTyped` recover the shape. A
  settlement job's type says that it has a claimed payment exactly in the stages of the payout;
  without this the payouts could not be typed.
* `EscrowInvariant`: `Spec => []EscrowInv`. `LedgerMatchesStatus` is not inductive: a reversal
  posts what it decided before it called the provider. `EscrowInv` adds what such a call knows
  and what stays true, because entries are only added: the reversals in flight found the payment
  captured (`ReversalsFoundCapture`), so did the settlement jobs (`SettlementsFoundCapture`), an
  answer means that the provider acted and reverses only what is captured (`ProviderAnswered`),
  a settlement is posted after the payout (`PaidBeforePosted`). Most steps do not touch the
  money, and are dealt with by one lemma (`MoneyUntouchedKeeps`).
* `LedgerCorrect`: `Spec => []LedgerMatchesStatus`, from it.
* `EscrowImplemented`: `Spec => EscrowSpec`: with `provider <- toss`, `paidOut <- payouts`,
  `book <- ledger` every step of the market is a step of `EscrowLedger` or a stutter.
* `HistoryCorrect`: `Spec => []StatusIsLastHistory`; the property is inductive over `TypeOK`.
* `LifeInvariant`, `LifeImplemented` (`Spec => LifeSpec`) and `ReversalIsFinal`
  (`Spec => ReversedForGood`). An approval commits on the condition that the payment is still
  READY, a reversal by id: `LifeInv` says that the statuses fit what the provider did
  (`StatusFitsProvider`) and that a reversal in flight is about a payment that was approved once
  (`CallsFoundTheirPayment`); with `EscrowInv`, its commit is a `Reverse` of `PaymentLife`.
* `OperationsCorrect`: `Spec => []OperationsMatchLedger`. The strengthening says that the entries
  an operation stands for are there once it is recorded, and uses that entries are only added.
* `HoldInvariant`, `PaidAfterHold` and `ClaimsExclusive`. `HoldInv` says of the trades whose hold
  is over that they were confirmed and are confirmed or in dispute (`HeldIsConfirmed`), that no
  call in flight but a dispute or a refund is about them (`HeldIsLeftAlone`), that only their
  settlements are released (`ReleasedIsHeld`), and that a claimed one is PROCESSING, or PAUSED by a
  dispute (`ClaimedIsHeld`). The second is why no late commit takes the trade back, and the last is
  why a second job, which needs READY or FAILED, cannot claim it.

`WebhookProofs` is about `WebhooksSpec`, for any payments, webhooks and workers, under
`WebhookAssumption`.

* `WebhooksTyped` and `HoldersRely`: `QueueInv` says what a worker at each stage relies on (its
  event was accepted; once it is at `done` the webhook is decided; decisions are final), and that
  no two workers have the same event (`OneHolder`), although claims grow old and are reopened.
* `QueueImplemented`: `WebhooksSpec => QueueSpec`, from it: each step is one of `DurableQueue` or a
  stutter.
* `SequencesOrdered`: `WebhooksSpec => []SequencesInOrder`; it holds because the commit compares
  the sequence again in its update.
* `FindingsStand`: `WebhooksSpec => []FindingsHold`; the strengthening says that a status, an
  answer or a finding that a worker or a reconciliation still has in hand stays true in the sense
  of `FindingsHold`, because payments only go on as `PaymentLife` allows.

`SaleProofs` is about product, trade and payment together. Its hypotheses on `Handlers` and `Callers`
are each there because the code breaks the property without it: with one command more, or with calls
that overlap, TLC finds a counterexample (section 3 says which).

* Six theorems are about `SerialSpec` with one caller (`OneCaller`). The key is `FoundStillTrue`: what
  a call has read is still true when it writes. Each kind of call has its own formula (`TradeFound`,
  `PaymentFound`, `ProductFound`), and `SerialNext` keeps them, since jobs and the clock run between
  calls only. From it every step moves product, trade and payment in one of ten ways (`SaleStep`:
  a request, an acceptance, a refusal, a release, ..., nothing), which `NextSells` proves once for all
  handlers. Every invariant then needs these ten cases only.
  * `SerialMovesAreLegal`: `SerialSpec => MovesAreLegal`, and `EscrowAndTradeAgree`:
    `SerialSpec => []EscrowFollowsTrade`, for all handlers.
  * `DeletionsAreSafe`: `SerialSpec => DeletionIsSafe`, for all handlers. The strengthening
    `DeletedIsUnused` says that no trade on a deleted product is requested, accepted or delivered (a
    confirmed one can still be disputed after the deletion): that is why a release or a confirmation,
    which write the product whatever it is, never bring it back.
  * `ReservationsMatch` and `BuyersHaveOneTrade` hold if the owner does not set the status of a
    product by hand (`NoRelisting`), `RequestsAcceptable` if nobody hides one either (`NoHiding`).
    They need each other: `SaleInv` says that a product for sale is promised to nobody and no
    product is promised twice (`OnePromise`), that a reserved or sold one is promised
    (`PromisesStand`), and that no request is about a promised product (`RequestsUnpromised`).
    That a request in flight found its product promised to nobody comes from `OnePromise`,
    and so `SerialPart` proves types, `FoundStillTrue` and `SaleInv` in one induction.
* `PromisedOnce`: `Spec => []OneEngagedTrade` for any number of overlapping calls, if none of
  the commands that give a trade up, dispute it or put the product on sale is called
  (`NothingGivenUp`). `OneEngagedTrade` is not inductive, because a delivery, a confirmation or a
  refund by id could bring a trade back: `BoundInv` counts a trade as bound from its acceptance on,
  and also while such a call about it is in flight (`Bound`); a bound trade's product is not on sale,
  and no product has two.

`CommunityTypeProofs` and `CommunityProofs` are about `Spec` of `Community`, for any users, rooms,
codes, tokens, sockets and requests in flight, under the assumptions of `Accounts` and `Chat`
(the set of requests in flight is finite, limits are numbers, first tokens differ, `NoCall` is no
request).

* `CommunityTypeCorrect`: `Spec => []TypeOK`. A request is one of eight kinds, told apart by its
  step. The throttle's type bounds its count by the limit, which needs `FailsBelowLimit`: a failure
  is counted from a row that was below the limit, or anew, since a row at the limit is locked or its
  window is over (`LockedAtLimit`). The same invariant says that the times a request has in hand lie
  in the past, and that an insert in flight is that of the message at its time.
* A step changes no request but its own (`Elsewhere`, and the lemmas that say it for `Begins`,
  `Goes` and `Ends`), so each of the invariants that follow only looks at the steps that touch what
  it is about.
* `AcknowledgedStored`: a request at its answer has its message stored, and messages are never
  changed (`SendInv`).
* `FewReadMessagesUnseen`: what a reading time owes the member (`Owed`) are the messages it covers
  that are stored and were not shown, and those whose insert is in flight. `ReadInv` says that the
  reading times, and the times of reads about to be marked, owe no more than there are other
  requests: when the messages are read, only inserts in flight are owed (`FewPending`), and whatever
  gets its time later lies beyond. A commit only moves a message from one part of what is owed to
  the other.
* `SubscriptionsAreKept`: a room a socket lost is on the list of a refresh that will join it, or
  will be listed by one that has only started or is about to (`Notifying`), or is blocked
  (`SubscriptionInv`). A request between its commit and its listener stays there until the listener
  runs (`NoticesStay`).
* `LostFailuresBounded`: each time the row gets to a count, as many failures may be counted from it
  as there are requests. `LossInv` says that what was counted at `k + 1`, with what may still be
  (`Outstanding`: all requests while the row is at `k`, then those that have read it there), stays
  within that. A row whose window is over has been seen so by every login in flight (`PastIsSeen`).
* `GuessesBounded`, `UnusedCodesBounded`, `SessionsBounded` and `ReportsBounded` share one argument:
  a request checks a limit in one statement and uses it up in a later one. The invariants count a
  request from its check on: what is used up and the requests that are about to use up more stay
  together within the bound of the property. For sessions this is what remains of the logins that
  were in flight when the account was closed; for codes, the requests between their deletion and
  their creation.

Only model-checked are the liveness properties, under fairness: `DeliveredIsDecided`,
`ConfirmedIsSettled`, `UnpaidIsReleased` and `WebhooksAreDecided`; they are beyond the prover. Every
invariant, action property and refinement of the passing runs is stated by a theorem. The three
claims of documents (`MarketClaims`) are violated, and so have none.

What is left to prove: an abstract specification of a sale, stated as a module that the serial market
implements (`SaleStep` is what its next-state relation maps to), and the promise of the chat to a
sender as a refinement.

## 5. Not modelled

* The price a trade copies from the product when it is requested, and the fields that the
  product's update writes: data that no command decides on later. The search only reads.
* `setNeighborhood` and the checks of neighbourhoods: they refuse a call and change nothing else.
* What the gateway emits, besides the answer to a sender, and several API processes with the Redis
  adapter.
* The delivery of codes, passwords, hashes, and the request throttler in front of the API.
* Loss of a BullMQ lock by a living worker, and the processing of a webhook within its request,
  which the code has for tests only.
* The administrator's retry during the last running attempt may end in DEAD_LETTER, since the
  attempts were read before it; `WebhooksAreDecided` counts that as given up.
* No property denies what the code lets happen by design or by omission, listed with its lines in
  `PROJECT.json`: a withdrawn account that is reinstated, a message sent to somebody who blocks the
  sender at that moment, an owner who sets a reserved product active, an administrator who makes a
  deleted product HIDDEN, an acceptance that a late rejection overwrites. The limit of three codes in
  ten minutes counts rows that the next issue deletes, so only codes that were used count; no property
  bounds how often codes are issued.
* A block that is committed although its request failed: the listener is never called, and the
  sockets keep their rooms until their next refresh.
* The web front end (a client that sends any command at any time), observability and health (input
  and output only), the password policy (a pure function on strings with its own tests), and the
  shared packages: types, and the generated database client, which is most of the repository's
  TypeScript and has no logic of its own.
