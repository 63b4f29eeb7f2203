# Verification of the HanStone server

TLA+ models, model-checking configurations and machine-checked proofs for the
server of this repository (`server/src`, NestJS over PostgreSQL through
Prisma). The site sells subscriptions and text books, teaches Go through
lessons and problems ("missions"), processes lesson videos, lets schools set
homework for their classes, and publishes what operators and users write. What
is hard
to get right in it is what happens between two awaits of a request, between
two requests, and between a worker and everybody else; that is what the
modules describe.

1. [Inventory](#1-inventory)
2. [How the code is modelled](#2-how-the-code-is-modelled)
3. [Modules](#3-modules)
4. [Runs, bounds, fairness](#4-runs-bounds-fairness)
5. [Proofs](#5-proofs)
6. [Where code and documentation disagree](#6-where-code-and-documentation-disagree)
7. [What is not modelled](#7-what-is-not-modelled)
8. [Plan](#8-plan)

## 1. Inventory

| Component | State it keeps | Operations | Correct if |
|---|---|---|---|
| Subscription payments (`subscription/subscription.service.ts`) | `SubscriptionOrder`, `AccountSubscription`, `SubscriptionRefund` | `createCheckout`, `verifyPayment`, `syncWebhook`, `reconcileOrder`, `refund` | the order and its subscription tell the same story, a subscription is backed by collected money, money collected is never left unanswered |
| Toss Payments adapter (`components/payments`) | none of its own; the payments are at Toss | `confirmPayment`, `getPayment`, `cancelPayment` with idempotency keys | repeating a call is harmless, statuses are mapped so that no unpaid payment looks paid |
| Book store (`store/store.service.ts`) | `StoreProduct.stockQuantity`, `StoreOrder` and items, `StoreCartItem` | cart, `checkout`, `confirm`, webhook, `refund`, the expiry sweep, run by the product list and the checkout | stock is neither lost nor sold twice, `PAID` and `CANCELED` agree with Toss |
| Mission attempts (`mission/mission.service.ts`) | `MissionAttempt`, `MissionMove`, `RewardGrant` | `start`, `submitMove`, `useHint`, `retry`, time limit | the position is the one the logged moves lead to, an outcome was earned, the reward is granted once |
| Go engine (`mission/go-engine.ts`) | pure functions over a board | `playMove`, `collectGroup`, `evaluateMove` | the engine plays by the rules of Go |
| Mission editing (`mission/mission-admin.service.ts`) | mission versions | draft, validate, publish, archive | only solvable problems are published |
| Lesson video pipeline (`content/lesson-video*.ts`, `content/lesson-hls-transcode-worker.service.ts`) | `LessonVideoAsset`, `HlsTranscodeJob`, `ObjectDeletionJob`, `Lesson.videoAssetKey`, the object store | upload, completion, malware scan, attachment, transcoding, activation, deletion | a lesson plays an existing, scanned video, the newest one; nothing is forgotten in a queue |
| Accounts and sessions (`auth`) | `User`, `Session`, `AccountToken`, `OAuthAccount`, `OAuthLoginAttempt` | sign-up, sign-in, refresh, reset, verification, link, unlink, deletion | a one-use secret works once, a deleted account stays anonymous |
| Account mail outbox, inquiry outbox (`mail`, `inquiry`) | `AccountMailJob`, `InquiryNotificationJob` | enqueue, claim, send, complete, take over, retry, bounce | every mail comes to rest, and leaves no more often than it was tried |
| Inquiries (`inquiry/inquiry.service.ts`) | `Inquiry`, notifications | answer, edit, reopen, close | an answered inquiry is announced, with the answer it has |
| Guardians (`guardian`) | `GuardianInvitation`, `GuardianLink`, `GuardianConsent` | invite, expire, accept, revoke | an invitation makes one link |
| Organizations, classes and seats (`organization`) | organization, members, seats, classes, enrolments, invite codes | limits, enrolment, codes, staffing, class goal | no more seats than the contract, one student per code |
| Class assignments (`organization/class-assignment*.ts`) | homework, items, targets, notifications | draft, edit, publish, cancel, comment, reassign, remind | who has not done homework that falls due is told so |
| Materials and class packages (`material`, `class-helper`) | packages, their revisions, their files | create, edit, restore, publish, archive | files in use are kept, the history is what was |
| Managed files (the four upload services and the clean-up worker) | file rows, objects, deletion jobs | upload, complete and scan, schedule, delete | no row in use loses its object, no object stays behind |
| Lesson and mission editing (`content/lesson-admin`, `mission/mission-admin`) | status, video, definition | create, edit, review, schedule, publish, archive | what is public may be |
| Community and notices (`community`, `editorial`) | posts, reports, notices, attachments | write, review, report, hide, archive | moderation decides about what it saw |
| Notifications, QR codes | one row per owner | mark as read, look up | |
| Rate limits, configuration, health | counters, environment | | |
| Release and operations tooling, web front end | evidence files, a cache of the server's state | | |

How they interact. The browser talks to the server over HTTP, to Toss through
a payment widget, and to the object store with signed policies. Toss calls a
webhook, which the server treats as a hint to read the payment again.
Subscription and store share the Toss adapter and nothing else. Workers (scan,
transcode, cleanup, two mail outboxes, assignment reminders) are separate
processes; they meet the request handlers and each other only in database
rows and in objects, through status columns, attempt counters and lock times.
`go-engine` is called by `submitMove`. Subscription state decides what
`content` lets an account play. Accounts, guardians and inquiries put mails
into the outboxes within their own transactions, and the mail workers read the
account again before they send. Classes are set the lessons and missions that
editors publish, and homework reads what students did in them. Materials,
packages, posts, notices and inquiries take files out of one pool, which one
worker cleans.

Hard behaviour, by origin:

* rows read before an await and used after it (every payment handler,
  `submitMove`, `useHint`, completeUpload, the transaction of the transcode
  worker, seat limits, session refresh);
* money that moves outside the database: a confirmation or cancellation is
  made at Toss and then recorded, and the process may die in between;
* webhooks: lost, duplicated, late, in any order with the buyer's own request;
* queues with leases: takeover after a stale lock, attempts that run out,
  side effects (deleting an object, sending a mail) before their record,
  results written by id alone after the lease is over;
* serializable transactions next to read-committed ones that take no part in
  the order PostgreSQL finds for them;
* optimistic revisions: two editors of one package, and the files of both;
* secrets that are good once, presented twice at the same moment;
* expiry without a timer: reservations come back only when the shop is used;
* boundary arithmetic: partial refunds adding up to a full one, the last item
  in stock, edge and corner points of the board.

`PROJECT.json` lists each hazard at its line, with the properties that cover
it or the reason none does.

## 2. How the code is modelled

* **Requests are processes.** A handler is cut at every await on something
  that another process may change or see: one action reads a row, a later one
  writes, and the request remembers only what the code remembers. A Prisma
  `$transaction` whose writes do not depend on a read inside it is one action.
  A transaction that reads and then writes without a condition is cut in two
  where the database's default isolation (READ COMMITTED) lets another
  transaction in between; `LessonVideo` depends on it.
* **Conditional updates** (`updateMany ... where status ...`) are actions with
  that condition as a guard, and the handler's other branch is another action.
* **A request can die** between any two of its actions (`RequestDies`,
  bounded by `MaxFaults`); a lost answer and a crash look alike to the rows.
* **Requests of the later modules** have two steps, `Requests` gives both their
  form: what the controller and the reads before the transaction decide on
  (`Enter`), and the transaction (`End`, or `Continue` when there is a third).
  A refused request changes nothing and is no step. A *scenario* names the
  operations a behaviour may ask for and how many; each run checks several, so
  that operations which meet in one place of the code are explored fully and
  those that never meet do not multiply.
* **Isolation.** A read-committed update of many rows sees those that were there
  when the request read, or those that are there when it runs: the model chooses
  (`NewToken`, `CreateInvitation`, `CreateClassInviteCode`). A serializable
  transaction reads a snapshot (`Snapshot`) and commits unless a row it writes
  has changed, or another serializable one has changed what it read.
* **A unique index** is a guard of the commit; the request that loses is refused.
* **Toss** is the external environment of `TossPayments`: it collects, aborts,
  expires and returns money on its own, replays answers to a used idempotency
  key, and delivers webhooks until one is acknowledged.
* **Time** is events: an order's expiry, a grace period, a subscription's end
  and a mission's time limit happen at any moment once they can.
* **Data** is abstract. Users, orders, payments and move ids are model values;
  a board hash is the position itself (the code's hash is a serialisation of
  the board, so equality means the same); a mission's solution tree is a
  constant; addresses, audit rows, texts and views are left out.

Names follow the code: `order[o].status`, `finalizePaidOrder`,
`stockQuantity`, `collectGroup` have recognisable counterparts, and
`PROJECT.json` maps each definition to its lines.

Definitions marked *Variant* or *Mutant* next to an operator are the same operator with
one plausible mistake in it. No specification uses them; they exist so that each
property can be shown to notice the mistake.

## 3. Modules

| Module | What it models |
|---|---|
| `TossPayments` | the payments at Toss, the adapter's status map, confirmation, cancellation and replay under an idempotency key |
| `SubscriptionLedger` | what the books of the subscriptions promise, one row per order beside the money at Toss: the abstract specification |
| `SubscriptionOrders` | the five payment handlers, order expiry, subscription end; extends `TossPayments`, and is shown to implement `SubscriptionLedger` |
| `SubscriptionOrdersProofs` | theorems about it, the refinement among them |
| `StoreOrders` | cart, checkout with stock reservation, confirmation, webhook, refund, sweep; extends `TossPayments` |
| `StoreOrdersProofs` | theorems about it |
| `MissionAttempt` | attempts, moves, hints, retries, time limit, reward |
| `MissionAttemptProofs` | theorems about it |
| `GoRules` | the rules of Go, stated without an algorithm: the abstract specification |
| `GoEngine` | `playMove` and `collectGroup` as the code has them: flood fill over a stack, captures neighbour by neighbour; extends `GoRules` and is shown to implement it |
| `GoEngineProofs` | theorems about the rules, and that the engine implements them |
| `LessonVideo` | one lesson's uploads, the editors' requests, the three workers and the object store |
| `LessonVideoProofs` | theorems about it |
| `Requests` | requests in flight and scenarios; extended by the three systems below |
| `DeliveryBudget` | what an outbox promises of its mails: the abstract specification |
| `MailOutbox` | both outboxes: jobs, workers, SMTP, the operator's retry, bounces |
| `AccountTables`, `Accounts`, `Guardians`, `InquiryDesk` | the tables, and the services that write them |
| `AccountSystem` | these with `MailOutbox`; shown to implement `DeliveryBudget` |
| `AccountSystemProofs` | theorems about it, the refinement among them |
| `Organizations`, `ClassAssignments` | an organization, its seats, staff, classes and codes; the homework of its classes and the reminder worker |
| `ClassroomSystem` | both |
| `OrganizationsProofs` | theorems about seats, codes and the types of both |
| `ManagedFiles` | uploaded files, their scan, the clean-up worker |
| `Catalogue` | lessons and missions as editors publish them |
| `Packages` | teaching materials and class packages with revisions and files; extends both |
| `CommunityPosts` | posts, reviews, reports, notices, inquiries and their attachments |
| `PublishingSystem` | all four |
| `PublishingSystemProofs` | theorems about it |
| `MC*` | constants of the small instances |

### Subscription payments

`order`, `subscription` and `refunds` are the three tables; `toss` and
`notice` are Toss's payments and undelivered webhooks; `req[r]` is what a
request in flight remembers (program counter, order, payment, the amount it
read, the status it read). `CheckoutRead`/`CheckoutCreate` are
`createCheckout` before and after its await; `VerifyStart`, `ConfirmAtToss`,
`ConfirmReplayed`, `ConfirmRejected` and `FinalizePaidOrder` are
`verifyPayment`; the `Hook...` actions are `syncWebhook` and, through
`SyncStart`, a reconciliation of one order; the refund actions are `refund`
and `applyRefund`, which the webhook path shares.

`SubscriptionLedger` is the same service without requests: `book` has one row per
order, `money` what was collected under each key and what went back, and an order is
sold, failed, voided or refunded by one step that sees both. `Books` and `Money` are
the refinement mapping (a row is read in the subscription once there is one, in the
order before), and `KeepsTheLedger` says that no handler, whatever overtook it since
it read Toss, writes what the ledger would not allow at that moment. The ledger lets
a refund be booked at any sum up to what went back, not only at the latest one: that
is what the code does (section 6).

### Book store

`stock`, `order`, `cart`, with `toss`, `notice` and `req` as above.
`SweepRead`/`SweepRelease` are `releaseExpiredReservations`, which `listProducts`
and `createCheckout` run first, and nothing else does: one conditional release
after another. `WebhookWrite` uses
the order read by `WebhookGetPayment`, as the code does; that is where the two
counterexamples of section 6 come from.

### Missions and the Go engine

`MoveRead`, `MoveCheck` (replay by `clientMoveId`) and `MoveApply` (the
transaction: conditional update, log entry, completion, reward) are
`submitMove`. A node of the constant tree stands for a position; scripted
replies count into `moveCount` as they do in the code. A failure node leaves
the attempt `IN_PROGRESS` with no move to make, which is what the code does.

`GoRules` defines a group as the least closed set of one colour, and a move by
what it must leave. `GoEngine` has the algorithm: `Turn` is one turn of the flood
fill's loop over its stack, and `Flood` runs it as a recursive function for as many
turns as a board can need (`Enough`). `RulesFollowed` checks that
every step of the engine is a step of the rules, `ReasonsAgree` that it also
refuses exactly what the rules refuse, for the reason they do.

### Lesson video

`upload`, `transcode` and `deletion` are the three tables by upload, `playing`
is `Lesson.videoAssetKey`, `stored` the keys in the store; `scanner`,
`transcoder` and `cleaner` are the workers with the key their transaction
read. Assumptions, each of which the code or its deployment justifies:

* one worker of each kind (`deploy/compose.production.yaml`). A job in work
  while its worker is elsewhere was left by a worker that died, and its lock
  goes stale. With two transcode workers on one job, one may remove the
  package the other has attached.
* an operator activates packages of his own, not the package of a job that an
  editor has told to run again.
* an error happens before a transaction commits. A commit whose
  acknowledgement is lost is not modelled; after one, the transcode worker
  would remove the package it has just attached.
* a deletion may be due at any time: the retention time has no lower bound,
  which makes the model's deletions earlier than the real ones, never later.
* jobs in `ERROR` may be due at any time, the scanner may call any file
  infected, and need not repeat its verdict.

`completeUpload` reads a row, asks the object store for its head and first bytes,
and then writes the row by its id (`lesson-video.service.ts:202` to `:216`);
`retryScan` does the same in less time. Nothing bounds how long that takes, so in the
model a request may end at any time, or never. A write that comes after another
request completed the upload, or after a scan of it ended, puts a video that the
lesson plays back into the scan queue. There it can be rejected while it is played, or
be attached a second time after a package replaced it: its deletion may then be under
way, past the count of lessons, and the lesson plays an object that is deleted next.
This is what the code does, so no property excludes it. `overwritten`, a history
variable that no action reads, collects the uploads whose row was written over in
this way: those whose status at the write was not the one the request had read.
`PlayedIsReady`, the mp4 part of `LiveVideoIsStored`, and `MissingIsQueued` speak of
the other uploads. They say that such a write is the *only* way to these
consequences, and that it harms no other upload: retries, repeated calls that find
the row as they read it, takeovers of stale locks, scans and transcodes that end late,
errors and deaths between any two steps do not have them. Packages stay stored and
older mp4s stay behind newer ones whatever the requests write over.

`MissingIsQueued` does not promise that a loss is recorded. The cleanup worker
selects a deletion in `ERROR` only while it has attempts left, and nothing queues it
again afterwards; if the attempt that deleted the object was the last one, and
failed or died before its transaction, the upload stays `READY` without its object for
good (`DeletionSpent`). The property says that there is no other way to lose the
record, and that it takes as many errors or deaths as a deletion has attempts: a job
is never closed while the loss is not recorded, and never left alone with attempts
remaining. The run has two attempts and one fault, so in it the exception never
applies and the property is that the deletion is in work or will be selected again; the
theorem has the exception and any number of both.

### Accounts, guardians, inquiries and their mails

Rows of a table are numbered in the order they are made; `user`, `session`,
`token`, `social`, `state`, `invitation`, `guards` (links with their consents)
and `inquiry` are the tables. `token`, `state` and `invitation` count in `uses`
the effects that presenting them had. A mail job belongs to a token row
(`TokenJob`) or to a version of an answer (`AnswerJob`).

In `Accounts`, `Start...` is what a handler does before its transaction, and
the name of the method is the transaction. What each transaction reads again
and what it does not is the point: `ConfirmReset` is conditional on the token,
`Refresh` revokes the session by its token whatever became of it, `OpenSession`
reads nothing again. `ClaimState` is the conditional claim of an OAuth state;
the provider's answer then decides between the callbacks.

In `MailOutbox`, a worker's steps are `Pick` (select), `CloseStale` or `Claim`
(conditional on the status and the attempts selected), `Check` (the inquiry
worker reads the answer again), `Skip`, `Send`, `RecordSent`, `RecordError`. A
worker may be slower than the lock: a job in `SENDING` may be selected at any
time. Results are written by id alone, as in the code, so a slow worker
overwrites another's. SMTP may take a mail and lose the answer.

`DeliveryBudget` keeps three numbers per job: tries granted, tries made, mails
sent. `MailWithinBudget` maps a claim to `Try`, an acceptance by SMTP to
`Mail`, and the operator's retry to `Grant`.

### Classrooms

`Organizations` has one organization. `enrollStudent` and
`claimClassInviteCode` are the serializable transactions: `Snapshot` reads seats
and enrolments, `TakeSeat` commits if `Serializable` allows it. The limit they
compare with is the snapshot's for an enrolment and the one read before the
transaction for a claim; `updateOrganization` counts the seats before it writes
the limit. `endStudentEnrollment` takes no part in the serializable order
(`EndStudentEnrollment`, `CountClasses`). `ceiling` remembers the highest limit
so far.

`ClassAssignments` has homework with its items, targets and revision, the
notifications it makes, and the reminder worker: one scan reads up to `Take`
rows that fall due, and writes their notices one homework after another. What
students did is read from `learned`, which the lesson and the mission systems
write.

### Publishing

`ManagedFiles` is the part that four services have in common: a row, the upload,
the scan (its verdict is written by id alone), and the worker that deletes rows
nothing uses, each on the condition it was selected by, and then the object.
A file's `place` is the set of its foreign keys. `Packages` has the revision
check of materials and class packages: the update is conditional on the revision,
everything else (what the history keeps, which files are put aside) was decided
on the row read before. `Catalogue` is what packages refer to. `CommunityPosts`
takes files out of the same pool.

## 4. Runs, bounds, fairness

| Run | Checks | Instance |
|---|---|---|
| `subscription_core` | `TypeOK`, `ReconciliationClean`, `RefundsAreBacked`, `KeepsTheLedger` | 1 order, 2 payments for it, 2 requests, price 2, one lost request |
| `subscription_liveness` | `IssuedOnlyIfCollected`, `CollectedMoneySettles` | 1 order, 1 payment at either of two prices, 2 requests, one lost |
| `subscription_refund_undone` | `FullRefundIsFinal` is violated | 1 order, partial and full refund |
| `store_core` | `TypeOK`, `StockNeverLost`, `PaidIsCollected`, `CanceledIsReturned`, `PaidStaysPaid`, `MoneyIsAnswered`, `ReservationComesBack` | 1 order, baskets of one and two copies of a book with one in stock, 2 requests, one lost |
| `store_stock_twice` | `StockReturnedOnce` is violated | 1 order, 2 requests |
| `mission_core` | `TypeOK`, `PositionMatchesLog`, `OutcomeIsEarned`, `FinishedStaysFinished` | 1 attempt, 2 requests, 2 move ids, one retry, one hint |
| `go_engine` | `ReasonsAgree`, `RulesFollowed`, `NothingNewDies`, `PrisonersBalance` | 3 x 3 board, four starting positions |
| `video_core` | `TypeOK`, `PlayedIsReady`, `LiveVideoIsStored`, `MissingIsQueued`, `NewerMp4Stays`, `UploadsAreAnswered` | 2 uploads, an operator's package, 1 request, one fault, 2 attempts per scan and deletion, 1 per transcode |
| `video_older_replaces` | `NewerVideoStays` is violated | 2 uploads |
| `accounts_core` | `TypeOK`, `OneTimeOnly`, `DeletedStaysAnonymous`, `AnswerIsNotified`, `MailWithinBudget`, `MailSettles` | nine scenarios of 2 to 6 requests, two in flight, 3 rows a table, 3 identities at 2 providers, two mail workers, 2 attempts, one fault, one retry by the operator |
| `classroom_core` | `TypeOK`, `SeatsWithinCeiling`, `CodeAdmitsOne`, `DueSoonIsReminded` | five scenarios of 4 to 6 requests, two in flight, 2 members, 2 students, 2 classes, 2 codes, 2 pieces of homework, one death of the reminder worker |
| `publishing_core` | `TypeOK`, `FilesAreKept`, `HistoryIsFaithful` | six scenarios of 4 to 6 requests, two in flight, 2 users, up to 3 files, one package, one post, one notice, one inquiry |

Why the bounds are enough. Two requests in flight give every order of two
handlers' reads and writes; the code holds no lock that three would interact
on. One order with two payments has the double payment; a price of 2 has a
partial and a full refund; collisions between orders (a payment key used for
another order, order ids drawn twice) are covered by the proofs, which hold for
any number of them. One item in stock is the boundary. Two baskets have the
checkout that fits and the one that does not. On the board, 3 x 3 is the
smallest with corner, edge and centre; the four positions contain a ko, a
group around a point of its own, a group touched twice by one capturing move
and a stone drawn without a liberty; the bound is `MaxCaptures`. Two uploads are
what "older" and "newer" need; two attempts of a scan are the first, and the last, and
one fault makes the first end early; a deletion
has two as well, so that one that failed is due again. A transcode has one attempt in the run; that it
is taken over or tried again is covered by the proofs only, which hold for any
number of attempts, faults and requests. One request is enough to write over a row,
since a scan may end between its two steps.

The three systems of scenarios (`MCAccountSystem`, `MCClassroomSystem`,
`MCPublishingSystem` say what each is for): `requests` bounds how many a
behaviour makes, two of them at once for the same reason as above, and the
largest scenarios have six because a chain such as invite, accept, revoke, delete
wants that many. Three rows of a table hold an account and its successor, a
session and two renewals of it, or two concurrent resets and their third. Two
mail workers are a slow one and the one that takes over. With one seat and two
students the last seat is contested; the limit scenario moves the limit across
the number of seats taken. `Take = 2` is the number of pieces of homework, so the
model never fills a scan: that more than 200 that fall due at once may keep the
later ones waiting is outside the instance. A package of two kinds of file has the
edit that replaces one and keeps the other; three files have the one put aside,
the one in use and the one to come.

No run checks deadlock: every system here may come to rest (no request in
flight, all payments settled).

Bounds named in the modules: `MaxFaults` (requests or workers that die, errors
TLC may choose), `MaxRetries` (retries of an attempt), `MaxCaptures`,
`MaxItems` (the code's own limit), `MaxReopens` (retries of a mail by the
operator), `MaxDeaths` (of the reminder worker), `InFlight` and the `requests` of
a scenario. Symmetry is used in the runs without a
liveness property, over requests, payments or move ids, which the
specifications treat alike.

Fairness, and why the code justifies it:

* a request that has started goes on (`WF` of its next action): Node runs its
  continuation; it may die first, up to the bound;
* Toss repeats a webhook until it is acknowledged (`SF` of `WebhookStart` per
  payment). It is strong because the finite pool of requests may be taken by
  other handlers again and again, while a real server accepts another request;
* products are listed or a checkout begun again (`SF` of `SweepRead`): nothing else
  runs the sweep. `ReservationComesBack` is to be read with this premise;
* the scan worker polls for ever and is restarted when it dies (`WF` of
  `ScanStep`). Nothing is assumed of the transcoder, the cleaner, or of editors
  beginning or ending anything;
* each mail worker goes on (`WF` of `MailStep` per worker): `runForever` polls,
  and a worker that dies is restarted, up to the bound of deaths. SMTP may refuse
  every mail. `MailSettles` concerns jobs whose table has a worker in the scenario;
* the reminder worker polls (`WF` of `WorkerStep`). No request is assumed to
  arrive, and none to end.

`UploadsAreAnswered` excepts an upload whose worker died during the last
attempt (`ScanLost`): the selection wants `attempts < max`, so the row stays
`SCANNING`, and `retryScan` only accepts `ERROR`. The same holds for a
transcode. It is what the code does, and the property says so in its
statement. It also claims nothing while another upload waits in the queue: scans are
fair as a whole, and editors who queue the other upload again and again could keep
the worker busy with it for ever.

## 5. Proofs

`tlapm` checks every proof of the eight `...Proofs` modules. Every safety property
that a passing run checks, invariant or action property, is a theorem for all values
of the constants; a run shows it on one instance, and that its hypotheses can be met.
What is left to TLC are the liveness properties (see the end of this section).

The proofs share a shape. None of the properties is inductive, because a request, a
worker or a webhook acts on what it read earlier. The invariant `IInv` of a module says
what each of them may still rely on; lemmas called `...Grows` or `...Rises` say what no
step takes back, so that whoever waits may go on relying on it; and there is a lemma
for each action about the row it writes. TLC checked each `IInv` on the instance of
the component's run before it was proved (1.6 million states for publishing, 2.8 million
for the videos, 2.1 million for `LedgerInv` below).

**Subscriptions**, for any sets of users, orders, payments, requests and
prices and any number of faults (assumptions: prices are positive naturals,
`None` is neither user nor order nor payment):

| Theorem | States |
|---|---|
| `TypeCorrect` | `Spec => []TypeOK` |
| `BooksAgree` | `Spec => []ReconciliationClean` |
| `IssuedIsCollected` | `Spec => []IssuedOnlyIfCollected` |
| `RefundsBacked` | `Spec => []RefundsAreBacked` |
| `ImplementsLedger` | `Spec => KeepsTheLedger`, that is, `SubscriptionOrders` implements `SubscriptionLedger` |

None of these is inductive: a suspended request may be about to write what it
read long ago. The invariant `IInv` adds what each waiting request may rely on.

* `TossInv`: what Toss guarantees (cancelled at most what was paid, `CANCELED`
  exactly when all of it went back), and that an answer remembered under the
  idempotency key as paid was for the order's amount;
* `OrderInv`: the row's payment belongs to the order; pending and failed
  orders have no subscription; the rows of an issued order agree in owner,
  amount, payment and refund;
* `ReqInv`: by program counter. A request about to finalize or to apply a
  refund holds a payment of its order, of the right amount, that Toss approved,
  and what it read of it is not *ahead* of Toss (`Read`). It may be behind: a
  stale partial refund can be written over a newer one, so no stronger relation
  holds, and `FullRefundIsFinal` is false;
* `FreshIds`: two checkouts never draw the same id;
* `BackedInv`, `RowInv`: rows and ledger against Toss, for orders paid once.

What makes it inductive is that nothing a request relies on is taken back: the
`Grows...` lemmas say that orders keep existing, approved payments stay
approved, cancelled amounts only grow and issued subscriptions stay issued.
Every other conjunct is then the business of the one order or request that
moves (`...Inv` lemmas, one per action).

The refinement needs more than `IInv`: a webhook writes a failure or a cancellation
it read before, and the ledger wants it to be true when it is written. `LedgerInv`
adds it. A branch chosen on an aborted or a completely cancelled payment finds it so
still, because these two are the states a payment does not leave (`TossEnds`); a
payment is opened at the price of a plan. `TossOrRows` says that no step moves rows
and money together, so a step is one of Toss's (`TossKeepsLedger`: collect once, then
return more) or one of a handler's, and for those there is a lemma for each kind of
write (`CheckoutPlaces`, `FinalizeSells`, `HookFails`, `HookVoids`, `RefundBooks`).
The code tests a refund with `>=` and the ledger with `=`: a refund is complete in the
same cases because Toss never returns more than it collected.

**Go**, for a board of any size and any starting positions:

| Theorem | States |
|---|---|
| `NothingDies` | `RulesSpec => NothingNewDies`: no move leaves a stone without a liberty that had one, or was not there, before |
| `EnginePlaysByTheRules` | `Spec => RulesFollowed`: the engine implements the rules |
| `EngineReasons` | `Spec => []ReasonsAgree`: it answers every move as they do |
| `EngineCounts` | `Spec => PrisonersBalance` |
| `EngineTypes` | boards stay boards, prisoners are counted in naturals |

The first is not obvious: a move fills a liberty and joins groups, and taking
stones off changes groups everywhere. The proof goes through groups as least
closed sets: a stone is dead as soon as some closed set of its colour around
it has no liberty (`DeadInside`). A group that is dead after the move does not
hold the new stone (suicide is refused), and if it is the opponent's it does not
touch it either (it would have been taken off); so it was, before the move, a
closed set of one colour without a liberty (`OpponentBreathes`,
`MoverBreathes`), and its stones were dead already.

For the engine there are two more things to show.

* *The flood fill finds the group* (`FloodIsGroup`). After `n` turns (`Filling`), what
  is seen or on the stack belongs to the group, what touches a seen stone of the colour
  is seen or on the stack, and five times the points not seen, plus the length of the
  stack, plus `n`, is at most five times the points of the board and one: a turn drops a
  point from the stack, or sees a new one and pushes at most four. After `Enough` turns
  the stack is empty, so the seen stones are closed, and the group is the least
  closed set. It is an induction over the turns of a loop. The induction theorems of
  the library take operators and are of no use here, so `Induction` is stated for a *set*
  of numbers and derived from the well-foundedness of finite sets under inclusion;
  `Iterates` derives from it that the recursive function exists.
* *Captures one after the other are captures at once* (`CaptureIsRules`). The code
  looks at the four neighbours in turn, on a board from which earlier groups are
  already gone. Stones of one colour that form a closed set touch no other stone of
  that colour, so to take them off changes no other group of the colour and gives it no
  liberty (`Removal`); a group touched twice is gone the second time and counted once
  (`TakeStep`).

**Accounts and mails**, for any number of rows, addresses, identities, inquiries,
requests in flight, workers and attempts (`MailAssumption`: workers are finitely
many and a job has at least one attempt; `AccountAssumption`: each token and each
version of an answer has a job of its own number, scenarios only name rows and
workers there are):

| Theorem | States |
|---|---|
| `AccountTypesCorrect` | `Spec => []TypeOK`, with a bound on the mails of a job |
| `SecretsWorkOnce` | `Spec => []OneTimeOnly` |
| `AnonymousForGood` | `Spec => []DeletedStaysAnonymous` |
| `AnswersNotified` | `Spec => []AnswerIsNotified` |
| `OutboxesKeepBudget` | `Spec => MailWithinBudget`: the refinement |

The invariant `IInv` has a part per table and three that relate them:

* a secret that is still live has had no effect (`TokenInv`, `StateInv`,
  `InvitationInv`), so the conditional update that ends it is the only way to its
  effect;
* a confirmation in flight holds a token of its user, and that token is not live
  if the user is deleted (`ConfirmOK`). A deletion therefore stops it although it
  never reads the account again: `anonymizeAccount` kills the tokens in the same
  transaction;
* the job of a token or an answer that is still to come has no attempts (`Fresh`),
  so that writing it takes none away.

For the outboxes, `WorkerOK` says what a worker has that selected a job (a try left,
or an overdue one to close), and `Room` that the mails sent and the workers about to
send one (`Holders`) together never exceed the job's tries. A worker whose lock was
taken over keeps its place among the holders, so its late mail is counted; an
overwritten result changes no attempts; a job put back has used up exactly
`MaxAttempts`. Each step is then a step of `DeliveryBudget` or a stutter
(`Kept`), which the lemmas carry along with the invariant.

**Organizations**, for any number of students, classes, codes and requests, and any
changes of the limit (`SchoolAssumption`: students are finitely many,
`Unlimited` is not a number, a scenario starts with limits and staff there are;
`WorkAssumption`: the reminder worker dies finitely often):

| Theorem | States |
|---|---|
| `ClassroomTypes` | `Spec => []TypeOK`, of the organization and its homework |
| `SeatsAreBounded` | `Spec => []SeatsWithinCeiling` |
| `CodesAdmitOne` | `Spec => []CodeAdmitsOne` |

A transaction that has read its snapshot commits much later, against seats that
have changed. `ReqOK` says what it may rely on: one more than the seats it saw
fits below the ceiling. The seats at its commit are a subset of those it saw
(`Serializable`), whatever read-committed departures did in between, so its own
seat fits too (`OneMore`), and the ceiling only rises (`Rises`). A code that is not
consumed has no uses, which makes the conditional claim the only way to use it.

The types need an invariant as well (`TypeInv`): what a commit writes was put together
by an earlier read, so `Carries` says for each operation what its request holds, and
`HomeworkInv` that homework which was made has a revision, and that the worker
announces only such homework, although it works through one read while homework is edited.

**Book store**, for any number of buyers, products, orders, payments, requests and faults
(`StoreAssumption`: products have a stock, baskets and prices are numbers, an amount is
positive; `TossNoneAssumption`):

| Theorem | States |
|---|---|
| `StoreTypes` | `Spec => []TypeOK` |
| `StoreStock` | `Spec => []StockNeverLost` |
| `StorePaid` | `Spec => []PaidIsCollected` |
| `StoreCanceled` | `Spec => []CanceledIsReturned` |
| `StorePaidStays` | `Spec => PaidStaysPaid` |

`TossInv` and `ReqInv` are as for subscriptions. For the stock, the units that orders
hold are a finite set (`HeldUnits`), so that each step is a statement about which
units join or leave it: `StockInv` says that shelf and held units never fall short of the
initial stock. A release and a reservation balance. A webhook that releases what was
released before adds to the shelf without taking from the held units, which is
why the invariant is an inequality; section 6 has the run that shows it. `OrderInv`
relates the flags `reserved` and `released` to the status of an order, and a webhook's
`held`, read earlier, to them (`HookRead`).

**Missions**, for any solution tree, any number of attempts, moves, requests and retries
(`MissionAssumption`: a tree with a root, scores and limits that are numbers):

| Theorem | States |
|---|---|
| `MissionTypes` | `Spec => []TypeOK`, the score between 0 and the base score |
| `MissionPosition` | `Spec => []PositionMatchesLog` |
| `MissionOutcome` | `Spec => []OutcomeIsEarned` |
| `MissionFinished` | `Spec => FinishedStaysFinished` |

`MoveApply` writes what was computed from a row read before. What makes that safe
is the condition of its update: the row still has the position that was read. As
`moveCount` is the number of moves the log confirms for this start (`PositionInv`), and
the log only grows, an unchanged `moveCount` and start mean that no move was confirmed
in between. `LogInv` keeps entries of later starts out of the log; `ReqInv` says that a
move goes on from an open row only, which has fewer mistakes than the limit.

**Publishing**, for any number of users, files, packages, posts, lessons and requests
(`PublishingAssumption`: files are finitely many, packages are no posts, a scenario
starts with files that are there and have one place):

| Theorem | States |
|---|---|
| `PublishingTypes` | `Spec => []TypeOK` |
| `PublishingFiles` | `Spec => []FilesAreKept` |
| `PublishingHistory` | `Spec => HistoryIsFaithful` |

An edit reads a package with its text and files before its transaction, and writes
what it read into the history. It relies on the revision alone: `EditInv` says that
if the package still has the revision it read, it has the text and the files it
read as well, because both change with the revision only (`PackageGrows`). For the
files, `FileInv` relates a row, its object and its place: in use means stored, with
one place, and not purged; the clean-up purges a row and queues its object in one
transaction. That a package has a file of each kind it needs (`PackageInv`) is what
`create` checked before its transaction, so it is part of what a request carries
(`CreateInv`).

**Lesson video**, for any number of uploads, packages, requests, attempts and faults
(`VideoAssumption`: attempts are positive, `None` is no key and no upload):

| Theorem | States |
|---|---|
| `VideoTypes` | `Spec => []TypeOK` |
| `VideoNewer` | `Spec => NewerMp4Stays` |
| `VideoReady` | `Spec => []PlayedIsReady` |
| `VideoStored` | `Spec => []LiveVideoIsStored` |
| `VideoMissing` | `Spec => []MissingIsQueued` |

None has a hypothesis about the requests, which may be as slow as they like. Only the
scanner makes an mp4 the lesson's video, and what it saw is still true when it attaches
(`SeenMp4Inv`). For each upload that no request wrote over, the invariant has four parts:
the upload the scanner has in hand is marked so, and its object is kept (`ScanInv`);
whatever anybody saw as the lesson's video has been scanned (`SeenInv`); what is played
is scanned and stored (`PlayedInv`); and past the cleaner's count of lessons its mp4 is
not played and cannot be again (`DeletionInv`). What makes them inductive is
`RequestInv`: a request holds the status it read, `UPLOADING` or `ERROR`, so that one
whose write finds it unchanged finds an upload that nobody has in hand, plays or is
deleting. For packages there are two parts that hold for every upload: one that is
played is stored (`LiveInv`), and one in the making is not played yet (`PackageInv`). A
step of anyone but the transcoder keeps them if it leaves packages alone
(`Bystander`). That a deletion is given up only after as many faults as it has attempts
is an invariant of its own (`DeletionBudget`): an attempt is counted when it is claimed
and paid for with an error or a death when it ends without closing the job.

**Only model-checked** are the liveness properties (`CollectedMoneySettles`,
`MoneyIsAnswered`, `ReservationComesBack`, `MailSettles`, `DueSoonIsReminded`,
`UploadsAreAnswered`): the prover does not reason about fairness and `ENABLED`.

## 6. Where code and documentation disagree

Each has a run that shows it (`docs/` quoted in `PROJECT.json`):

* **A full refund can be undone** (`subscription_refund_undone`).
  `applyRefund` writes the cumulative amount of a payment it read before its
  transaction. Two webhooks, one read after a partial and one after the full
  return, written in the other order, leave the subscription active.
* **Stock comes back twice** (`store_stock_twice`). `syncWebhook` decides on a
  stale row that it has to release the reservation; the sweep has done so.
* **An older video replaces a newer one** (`video_older_replaces`). The
  transcode worker compares and then updates the lesson without a condition.

Noticed while reading, without a run:

* Two checkouts at once can create two pending orders for a user
  (`subscription.service.ts:245` reads before it creates; `TOSS_TEST_PAYMENT.md`
  says the pending order is reused). `ReconciliationClean` is per order and
  holds for both.
* A wrong answer costs 10 points in `mission.service.ts:754` and 20 in
  `OPERATIONS_POLICY.md:31`; the models take the code's value.
* A late payment oversells: after the reservation was released and the copy sold
  again, the webhook of the first payment sets that order `PAID` as well
  (`store.service.ts:436`).
* A wrong move may go uncounted: the conditional write compares the position,
  which a wrong move leaves unchanged, so one of two concurrent wrong moves
  overwrites the other's penalty (`mission.service.ts:250`).
* A hint that reads the attempt before it is finished changes the hints and the score
  of a finished attempt. `FinishedStaysFinished` covers status, position and
  mistakes, not the score.
* `retry` overwrites the attempt row (`mission.service.ts:421`), while
  `OPERATIONS_POLICY.md:45` says that a retry does not overwrite the first
  attempt's record ("재도전해도 첫 시도 기록을 덮어쓰지 않습니다"); the reward stays.
  Homework that asked for the mission is unfinished again.
* `BACKEND_INTEGRATION.md:361` says that published homework is locked.
  `class-assignment.service.ts:121` checks `DRAFT` before its transaction and
  updates without a condition: an edit in flight at the publication changes it.
* `BACKEND_INTEGRATION.md:546` on community moderation: `community.service.ts:239`
  and the archiving beside it write by id what was decided on an earlier read, so
  an approval may publish a text its operator has not seen.
* Two refreshes of one session each create a session, and a refresh or sign-in
  that read the account before a reset leaves a session after it
  (`auth.service.ts:881`). Two reset requests at once leave two valid tokens
  (`:321`). Two unlinks at once each count the other's link, and the account is
  left without a way to sign in (`:804`). A session or link written after a deletion
  stays in its table; it admits nobody, as every request looks for an active
  account.
* A limit lowered while a claim is in flight is exceeded by that claim, or set below
  the seats already taken; `SeatsWithinCeiling` therefore bounds by the highest
  limit so far. `endStudentEnrollment` (`organization-management.service.ts:455`)
  gives back the seat of a student whom a serializable enrolment is just placing in
  another class: enrolled, without a seat. A student who deletes the account keeps
  the seat. Two administrators may suspend each other at once, and none is left
  (`:178`).
* An edit of a published mission is not checked again before learners see it
  (`BADUK_MISSION_GAME.md:165`), and a lesson may be published on a video that was
  taken away after the check (`lesson-admin.service.ts:254`).
* A slow mail worker's result overwrites that of the one which took over, and the
  encrypted token is kept after an error as long as another attempt was expected
  when it was claimed (`account-mail-worker.service.ts:129`).
* Two overlapping `completeUpload` of one file write their verdicts by id: a file
  that one scan rejected may be `READY` by the other's
  (`material-asset.service.ts:90`).
* A reassigned target is a new row, so that its comments' versions start again; a
  report made of a post while it is being hidden stays `OPEN`.
* `BACKEND_INTEGRATION.md:432` says that the store has no stock; the code has.
* `validateMissionDefinition` accepts a node whose forbidden and accepted moves
  overlap, and initial positions with stones that have no liberty; `GoEngine`
  includes such a position.
* A `completeUpload` that writes late puts a video that is played back into the scan
  queue (`lesson-video.service.ts:207`; section 3), and a deletion whose last attempt
  fails after the object is gone leaves its upload `READY` for good
  (`lesson-video-cleanup-worker.service.ts:376`).
* Toss's answer lists cancellations with a status each; the adapter adds up all of them,
  done or not (`toss-payments.provider.ts:148`). In the model every cancellation is
  done.

## 7. What is not modelled

`PROJECT.json` gives the reason per component.

* **No state of their own, or none that anything else reads**: the social sign-in
  adapters, notifications' read marks, QR lookups, rate limits (one atomic increment
  per window), configuration, health probes.
* **Single rows with one writer and no files**: consultations, FAQ entries,
  pop-ups, step progress of a lesson.
* **Sequential string work**: HLS manifests, media URLs and their signatures, the wire
  protocol of the object store (request signing, multipart, ranges), the invocation
  of ffmpeg, the parsing of environment variables, validation of forms and of
  missions' solution trees.
* **Release and operations tooling**: offline programs that read evidence files and
  report on them; they share no state with the product.
* **The front end**: React views and static pages over the API. The older static pages
  hold an SGF viewer and drawing code without shared state.
* **Reads**: dashboards, lists, statistics, exports.

These are most of the repository's lines: front end, object-store protocol,
configuration and release tooling are about half, controllers, validation, reads and
views a good part of the rest. The code with interleavings, leases, retries and
deletions, which is what a model is for, is a minority, and that part is modelled.

Of modelled components: the minor-consent gate and catalogue of subscriptions;
shipping addresses; mission catalogue and statistics; preview and review comments of
missions; inside `go-engine`, the search of the solution tree; the retention times of
files (any unused file may be due); the lock and retry of deletion jobs in
`ManagedFiles`, which `LessonVideo` has.

## 8. Plan

Modelled in this order because money comes first, then what a learner can lose,
then what a lesson shows, then accounts, schools and what is published. What is
left:

1. `MissionTree`: `validateMissionDefinition` and the tree search as functions against
   a reference definition; `MissionAttempt` composed with `GoEngine` and with the
   retrying client (`src/features/mission/api.ts`).
2. Session and link rows of deleted accounts, and the limit in force rather than the
   ceiling, as properties of the code once it compares again what it read.
