# A TLA+ model of the event-driven e-commerce system

The system takes orders over HTTP and handles them by choreography: nine NestJS
services that talk over Kafka topics alone. Each that keeps rows has a Postgres database
of its own, but for the order producer and the order consumer, which share `order_db`
(docker/docker-compose.yml:33,49); Redis has the inventory's locks and OpenSearch what users search.
There is no coordinator. That an order ends well depends on how each service
marks, updates and emits, in which order, and on what its retries do with half
the work done. These modules model that, one step per `await`, with duplicated
messages, failed calls that may have taken effect, crashes and expiring leases:
each service first, then the gateway with the producer (`OrderIntake`) and the
inventory with the services behind it (`OrderSaga`).

All paths below are relative to the repository's root; `apps/x` is
`apps/x-microservice/src` where that is unambiguous.

## 1. Inventory of the system

| Component | State it keeps | Operations | Modelled in |
|---|---|---|---|
| API gateway (`apps/api-gateway`) | none | proxies `POST /orders`, `GET /orders/:id`; search | `OrderIntake` (the POST) |
| Order producer (`apps/order-producer`) | `orders`, `outbox` | `createOrder`, `getOrder`; outbox worker: `tick` every 500 ms | `OrderOutbox`, `OrderIntake` |
| Inventory consumer (`apps/inventory-consumer`) | `products.availableStock`, `reservations`, `processed_events`; Redis keys | `handleOrderCreated`, `handlePaymentFailed`, `releaseExpiredReservations` every 60 s | `Inventory`, `StockLedger`, `Redis` |
| Payment consumer (`apps/payment-consumer`) | `processed_events` | `handleStockReserved` | `Fulfilment` |
| Shipping consumer (`apps/shipping-consumer`) | `shipments`, `processed_events` | `handlePaymentCaptured` | `Fulfilment` |
| Order consumer (`apps/order-consumer`) | `orders.status`, `processed_events` | `markConfirmed`, `markCancelled` | `Fulfilment` |
| Messageria consumer (`apps/messageria-consumer`) | `processed_events` | five notifications | `Fulfilment` |
| Order read model (`apps/order-read-model-consumer`) | an OpenSearch document per order | `applyEvent` | `OrderReadModel` |
| Audit consumer (`apps/opensearch-consumer`) | a buffer in memory, an OpenSearch index | `onModuleInit`, `indexEvent`, `flush` at 50 events and every 2 s | `AuditIndexer` |
| Kafka library (`libs/kafka`) | none | `emit`, `emitToDlq`, `withRetryAndDlq`, `bootstrapKafkaConsumer` | inside the modules that call it |
| Redis library (`libs/redis`) | connection | `setNxEx`, `deleteIfValue` (`get`, `set`, `del` have no caller) | `Redis` |
| OpenSearch library (`libs/opensearch`) | connection | `ensureIndex`, `bulkIndex`, the client | `AuditIndexer`, `OrderReadModel` |
| Contracts, config (`libs/contracts`, `libs/config`) | none | names, types, environment | not modelled |

### How they interact

```
 POST /orders -> order-producer: orders + outbox in one transaction
   outbox worker  --OrderCreated-->       order.events
   inventory      --StockReserved | StockReservationFailed | StockReleased--> inventory.events
   payment        --PaymentCaptured-->    payment.events      (PaymentFailed: no producer in the repository)
   shipping       --ShipmentCreated-->    shipping.events
   order consumer --OrderConfirmed | OrderCancelled--> order.events
   messageria     --NotificationSent-->   notification.events
   read model, audit consumer: read all of them
```

Every consumer does the same with a message: look it up in `processed_events`,
and then, under `withRetryAndDlq` (4 attempts by default, then the service's DLQ
topic), mark it processed, update its own table and emit the answer. The
inventory marks in the same transaction as it reserves; the others mark first.

### What is hard

* **Duplicates and concurrency.** The outbox publishes at least once, its ticks
  overlap, and after a rebalance two instances may hold the same message.
* **Half-done work.** Marking, updating and emitting are different calls. A retry
  runs the handler again after any prefix of them, each with or without effect.
* **Leases.** Product locks (30 s) and the job's key (55 s) run out while their
  holders work on; values identify an order or a service, not a holder.
* **Timers.** The expiry job races failed payments for the same rows.
* **Delivery.** No offset is ever committed (`libs/kafka/src/kafka.consumer.ts:47`,
  `autoCommit: false`) and groups start at the end of their topics (line 44).
* **Starting and stopping.** Replicas start together and race to create an index; no
  service enables shutdown hooks, so nothing runs on a SIGTERM.
* **Between services.** A service acts on what another one's event says about the
  other's database: `StockReserved` must not run ahead of the rows, nor outlive them.
* **Ordering.** Kafka orders one partition of one topic; an order's events are
  spread over five topics.

### What makes each component correct

* *Inventory*: available stock and open reservations always add up to the
  seeded stock; an order is reserved whole, once, and given back once; payment is
  never asked for on stock nobody took; every answer that is missing cost a failed call of
  its own; no lock is forgotten, no two handlers wait
  for each other, one run of the job at a time; reservations and locks end.
* *Order producer*: every committed order is published; none is marked that was
  not; the number of copies is bounded by what went wrong; a POST makes one order at
  most, and a 201 is only sent for an order that is committed.
* *Payment, shipping, order, messageria*: an order has one outcome, final, announced
  once at most, and is confirmed only if paid and shipped; duplicates add no answers;
  an event that was marked is answered or in a DLQ, or else cost all attempts and a
  failed `emitToDlq`; reserved orders get decided.
* *Read model*: a document shows no event twice, those of a topic in their order,
  and its two fields agree. (It ought to show every event; it does not.)
* *Audit*: what was received is indexed but for what failures cost: a failed request one
  batch at most, the end of a process what that process held; the buffer is bounded, and a
  replica comes up.
* *The services together*: paid stock is held until its payment fails or its time is over,
  and an order lives one life (`OrderLifecycle`), whichever service is asked.

`PROJECT.json` lists the hazards one by one, at their lines, with the properties
that cover them.

## 2. Modules

| Module | Role | What corresponds to what |
|---|---|---|
| `StockData` | constants of the stock | `Demand` is what `aggregateByProductId` returns; a row is `<<order, product, copy>>`, one for each reserving copy of the order's event |
| `StockLedger` | abstract specification | stock and reservations as one table: reserve a whole order, release or expire a row |
| `Redis` | keys | `SET NX EX`, compare-and-delete, expiry |
| `Inventory` | the service in full | `pc` is the await a handler has reached, `attempt` the loop of `withRetryAndDlq`, `keys` is `lockedKeys`, `claim` the rows `findMany` returned; `jobPc`, `jobClaim` likewise for the job |
| `InventoryProperties` | its properties, fairness, and its refinement of `StockLedger` | |
| `OrderOutbox` | order and outbox rows, overlapping ticks | `batch` is what a tick has left of its `findMany` |
| `Fulfilment` | four consumers over one log | `pending` is what a group has not taken yet, `Answer` the event each service emits for each it consumes |
| `FulfilmentProperties` | its properties | |
| `OrderIntake` | extends `OrderOutbox` by gateway and handler | `reply` is what the client reads, `handler` the await of `createOrder`, `orderOf` the order a POST has led to |
| `OrderLifecycle` | abstract specification | an order's life: reserved, paid or declined, shipped, decided, told |
| `OrderSaga` | `Inventory` and `Fulfilment` over one log | a step is one of either, or of both where `StockReserved` is emitted |
| `OrderReadModel` | one order's document | `existing` is what `get` returned |
| `AuditIndexer` | the audit consumer's replicas and their index | `requests` are the bulk requests not answered yet, `buffer` the buffered documents by `eventId` |
| `MC*` | instances for TLC | orders, stock and messages of the runs |
| `*Proofs` | theorems | section 5 |

`Inventory` composes `Redis` and `StockData` and instantiates `StockLedger` with
its own variables, so the refinement mapping is the identity on `stock` and
`reservation`: the ledger sees the database and nothing of locks, handlers or Kafka.

`OrderLifecycle` is implemented twice. `Fulfilment` maps it to topics and tables: an order
is reserved once `StockReserved` is in the log. `OrderSaga` maps it to the inventory's
database: an order is reserved once its rows are committed, so that an event that
ran ahead of the transaction would be a payment of an order not yet reserved.

`OrderSaga` extends `InventoryProperties` and instantiates `FulfilmentProperties` with
variables of its own for what the two modules name alike. The messages of `Inventory`
are an inbox; `Deliver` takes one once the log has the event it is a copy of.

Definitions marked *mutated form* stand next to the definition they change. No
specification uses them; each is a bug one could plausibly write (a dropped
`NX`, a missing condition of an `updateMany`, a cursor in place of `publishedAt`),
and swapping it in breaks the property that is there to catch it.

### Modelling decisions

* **One step per await.** Node runs a handler alone between two awaits. A Postgres
  transaction is one step, where it commits: its conditional updates (`updateMany`
  with a `where` on stock or status) hold their row locks to the end, and products
  are updated in sorted order. Its first read is a step of its own
  (`CheckInTransaction`), since under READ COMMITTED others may commit in between.
* **A failed call** may have had its effect or not (`Landed`), and leads where the
  code's `catch`, `finally` and `withRetryAndDlq` lead. In payment, shipping, order and
  messageria `isEventProcessed` is awaited outside of the wrapper: its error leaves the
  handler, NestJS gives it to kafkajs, and kafkajs delivers the message again (`Redeliver`),
  and restarts the consumer once its own retries are used up (a `Rejoin`). The number of failures is
  bounded by `MaxErrors`, that of crashes and rejoins by `MaxCrashes`, `MaxRestarts`.
* **One message at a time** per instance or worker, as kafkajs runs `eachMessage`.
  Several instances stand for a group with several members; the order consumer
  has two workers at one order, as its two topics may belong to different members.
* **The gateway** waits 10 s (`app.module.ts`) and does not tell the producer when it gives
  up: `GatewayTimesOut` may come before, between and after the producer's steps.
* **Crashes lose the message.** With no committed offset and `fromBeginning: false`, a
  restarted group goes on at the end of its topics; copies in the inbox stand for
  what is published again. `Rejoin` lets a group skip any part of its backlog.
* **Time** is events: a key may expire (only when its holder is gone, unless
  `LeaseMayLapse`), a reservation becomes overdue, at any moment.
* **PaymentFailed** has no producer in the repository. It is an external message that
  can arrive once `StockReserved` was emitted.
* **Event ids.** The outbox publishes with the row's id, so copies share it; every
  other emit makes a fresh one (`uuid`), also when it is repeated by a retry. In
  `AuditIndexer` an event is its id, as in the index.
* **Group membership.** A member that is put out of its group while it handles an event
  would finish the event next to the topic's new owner. `Fulfilment` has this (several
  workers of one group); `OrderReadModel` does not: there a topic changes hands
  between events or with the death of its worker.
* **Messages** keep type, order and copy; quantities, prices, addresses, trace ids
  and wording are left out.

## 3. Runs

| Run (cfg) | Question | Bounds, and why they are enough |
|---|---|---|
| `duplicates` (`InventoryDuplicates`) | Is stock reserved once and given back once? | 1 order, 2 products, published twice, payment fails; 2 instances, 1 run of the job, 2 attempts, 1 failure, 1 crash. Two copies are the least that race; two products make releases and lock loops partial |
| `contention` (`InventoryContention`) | Are locks taken in order and freed? Does stock balance when leases lapse? | 2 orders of the same 2 products, one scarce, one order published twice; 2 instances, 2 runs of the job; leases lapse, the job's too. Two keys and two holders are the least for a cycle, two runs the least to sweep the same rows |
| `faults` (`InventoryFaults`) | What do failures at every await do, is every missing answer paid for, and does everything end? | 1 order, 2 products, 1 instance, 2 runs of the job, 2 attempts, 3 failures, 1 crash: every label can fail on the last attempt, and the DLQ call too |
| `outbox` (`Intake`) | What can overlapping ticks do? What is a 201 worth? | 2 POSTs, 3 order ids (a transaction that failed after it committed uses one), 2 ticks that take 1 row each, 2 failures, 1 crash: an order may wait behind another, two ticks may be at one row, and both failures may hit the same one. With more rows to a tick nothing new can happen to a row but that it waits longer; the proofs of section 5 are for any `Take` |
| `outcomes` (`FulfilmentOutcomes`) | Can an order have two outcomes, or none? | 1 `StockReserved`, 1 `PaymentFailed`, 2 order workers that race, 2 attempts, 2 failures (a repeated emit, or a retry that fails), 1 crash or rejoin |
| `handler_retries` (`FulfilmentRetries`) | Do duplicates or retries add or lose answers? | payment and messageria, a duplicated event; one failure more than attempts, so that `emitToDlq` may be the last to fail, 1 crash or rejoin |
| `saga` (`Saga`) | Do the services agree about an order? | 1 order of 2 units of 1 product, OrderCreated published twice, 1 PaymentFailed, 1 instance and the expiry job, a worker each of payment, shipping and order, 1 failed call of the inventory: StockReserved may go out three times, before or after payment, expiry and release. What single services do under more failures is the other runs' business |
| `read_model` (`ReadModel`) | Is what the document shows in order, and do its fields agree? | 2 workers, the eight events of a confirmed order over five topics, one of them a duplicate, 1 failure, 1 crash or rejoin |
| `audit` (`Audit`) | What does the audit index lose, and when? | 2 replicas, 3 events published twice, batches of 2, 2 requests under way per replica, 1 failure, 1 stop: batches fill up, are flushed half full, and overlap |

Three runs, one property each, show where the program does something else than
its documentation says; TLC prints the shortest way there.

| Run | What the code does | What is said |
|---|---|---|
| `skips` | no offset is committed; a group that rejoins skips its backlog | README.md:58, README.md:131 |
| `read_model_swallows` | `applyEvent` catches everything, so nothing is retried or sent to `order.dlq` | README.md:32 |
| `paid_stock_expires` | nothing takes a paid order's rows out of RESERVED, so the job gives back the stock of paid and confirmed orders after 15 minutes | inventory.constants.ts:9 payment must complete before, or the job releases |

`paid_stock_expires` and `PaidIsHeld` are two sides of one matter: up to its 15
minutes a paid order's stock is safe from everything but a PaymentFailed, after
them nothing keeps it.

Variants of these runs show more of the kind, by a change of one constant or property:

* In `duplicates`, the order's StockReserved may be published twice with different ids: the
  duplicate's `return` (inventory.service.ts:126) leaves the transaction only. So
  payment and shipping may answer twice; `OneOutcome` and `ImplementsLifecycle` hold
  all the same.
* Half-done work that a retry takes for a duplicate is done by nobody. One failed call is
  enough for a reserved order that is told TECHNICAL_FAILURE, or for released stock that
  nobody is told of; two for a reserved order that is told nothing and is in no DLQ.
  `HandledIsAnswered` says that this is what it takes: an answer is missing, or is not the
  truth, for a failed call of its own, and `ReservationsEnd` that the stock comes back. A
  crash is excused altogether: what an instance had in hand goes unanswered. With one failed
  call a CONFIRMED order is never announced (`OrdersAreDecided` asks for the announcement
  only while no call failed).
* `JobExclusive` and `ReservedOnce` fail with `LeaseMayLapse = TRUE` (two jobs; two
  copies of one order): keys are never renewed, so a run of the job that outlives
  its 55 s, or a transaction entered near the end of a lock's 30 s, is not alone
  (against inventory.constants.ts:22 and README.md:132). `ImplementsLedger` still holds: the
  conditional updates keep the stock balanced.
* In `handler_retries`, with two workers of messageria and no failure, a duplicate is answered
  twice (against README.md:132): both look before either marks. Three copies of the
  event give no third answer (`DuplicatesAreSkipped`).
* `AnsweredOrDlq` counts to the failure of `emitToDlq`, and the run reaches it: asked for
  one more failed call per lost event (`MaxAttempts + 2`) it fails in `handler_retries`, on an
  event whose every attempt failed, and whose `emitToDlq` did too.
* A document may show OrderConfirmed before ShipmentCreated, with one worker and no
  failure: topics are read independently of each other (README.md:134 holds per topic).
* `HandledOrInDlq` fails with two workers and no failure: the later write undoes the
  earlier one.

Deadlock is checked in the runs of `Inventory`, where the expiry job never ends.
Of the others, `Saga.cfg` checks it too, for the same reason; `OrderIntake`,
`Fulfilment`, `OrderReadModel` and `AuditIndexer` stop when nothing is left to do
(`CHECK_DEADLOCK FALSE`). Symmetry (of instances and runs of the job) is
used in `duplicates` and `contention`, which have no liveness.

## 4. Fairness

Weak fairness only, and only of what the runtime schedules by itself: brokers
deliver (`Receive`), the event loop resumes handlers (`HandlerStep`), intervals keep
firing (`JobStep`, `TickStep`), and time passes (`LockExpires`,
`ReservationOverdue`), a started replica goes on (`CheckIndex`, `CreateIndex`), the audit
consumer's timer fires (`Timer`) and OpenSearch answers (`BulkIndexed`). Failures are never obliged to happen or to stop, except
that their number is bounded. Retries need no fairness of their own: a retry is
the handler's next step.

No fairness is asked of clients, of the gateway's timeout or of `Start`. `OrderSaga` is checked
for safety only: its liveness is that of its parts, and what one part needs of the other
(a StockReserved that comes) is no more than `OrdersAreDecided` assumes.
`paid_stock_expires` runs under `SagaFairness`, the fairness of both parts, so that its
counterexample does not rest on a system that stops.

`EveryOrderIsPublished` excuses neither failures nor crashes. `ReceivedIsIndexed` excuses the
events that are lost, and `LossIsBounded` says which those can be: no blanket excuse for a
failed request or the end of a process.

`OrdersAreDecided` excuses an order whose event is in a DLQ, or would be but for a failed
`emitToDlq` (more than `MaxAttempts` failures, beyond the bound of `outcomes`), or that met
a crash or a rejoin; the run `skips` shows that the last is needed.

## 5. Proofs

The theorems hold for every value of the constants that the named assumptions
allow: any number of orders, products, instances, ticks, workers, attempts, failures
and crashes.

| Module | Theorems | Argument |
|---|---|---|
| `StockLedgerProofs` | `LedgerConservation` | the sum over rows of a product changes by what its stock changes by; a sum over a finite set is a fold, and one lemma says what changing the summand does to it |
| `InventoryProofs` | `TypeCorrect` | `TypeOK` is inductive: it ties each label to the type of message being handled |
| | `InventoryImplementsLedger`, `InventoryConservesStock`, `InventoryReservedIsBacked` | `RefinementInv`: no two handlers or undelivered messages are the same copy, a handler's claims are rows of its order that exist, and the rows of a copy not yet reserved are fresh. Without the last, a reserving step would not be one of the ledger's. Conservation is the ledger's theorem carried over. `AnnouncementInv` relates emitting to the processed event |
| | `InventoryRefusalIsFinal` | `RefusalInv`: while no call fails a handler passes once through the labels where it is undecided, and up to there nothing was emitted for its copy; a handler that refuses has left its rows alone, and no two handlers have the same copy |
| | `InventoryHandledIsAnswered` | `AnswerInv` charges each failed call where it happens. `Gaps` are the answers that nobody is on the way to give: the event is marked and no handler is at a label that leads to the answer (`Leading`), or it is not and a message of it was dropped. A handler that gives an attempt up before the event is marked is charged as well (`GivingUp`), since a failed `emitToDlq` later leaves two answers missing at once, outcome and verdict. Gaps and charged attempts together are never more than the failed calls; a step that adds one is the failed call of one handler (`GapSteps`, `OneFails`) |
| `InventoryLockProofs` | `ReserveIsMutex`, `OrderIsReservedOnce`, `FailedPaymentReturns`, `JobIsExclusive` | assume `~LeaseMayLapse`. `LockInv`: a handler's keys carry its order in Redis until the order is processed, handlers with a common key are apart, a handler about to commit is the first of its order, and a PaymentFailed only exists for an announced order. `ReturnInv` follows the claims of the releasing handler; `JobInv` ties running to the key |
| | `LocksAreDeadlockFree` | for finitely many products, whatever the leases do. `LockOrder`: the keys a handler has are below those it wants, and none is left when a retry begins. Of the keys a set of handlers waits for take the highest (strict inclusion of sets of products is well-founded): its holder waits for none in the set |
| | `LocksAreReleased` | `HolderInv`: a lock's holder also finds his own value in it. "Someone has this key in hand" alone is not inductive, since a handler whose lease lapsed would drop it and leave the next one's value behind |
| `OutboxProofs` | `OutboxTypeCorrect`, `PublishedRowsAreEmitted` | `EmittedInv`: a tick about to set `publishedAt` has emitted the row it is at. That a batch is never empty needs the least element of a set of ids (well-foundedness of `<`) |
| | `CopiesHaveABound` | `CountInv` counts who may still emit a row: once it is marked, what was emitted and the ticks that read it before stay within the bound; before, every tick counts that has not just emitted it. `CopiesAreBounded` alone says nothing of the ticks still to come |
| | `IntakeRunsTheOutbox`, `IntakeTypeCorrect`, `PostsOrderOnce`, `CreatedMeansCommitted` | a step of gateway and handler is one of the producer or leaves its rows alone; `PostsInv`: a handler still in its transaction has made no order, and orders belong to POSTs |
| `FulfilmentProofs` | `FulfilmentTypeCorrect`, `ConfirmedAreShipped`, `OrdersHaveOneOutcome` | every step is quiet, decides, ships or emits (`Shape`). `ShipInv`: a ShipmentCreated in the log means a shipment and a payment. `OutcomeInv`: leaving PENDING gives one worker the right to announce, emitting uses it up, so announcements and announcers of an order are never two |
| | `FulfilmentImplementsLifecycle` | under `TypeInv`, `ShipInv` and `OutcomeInv` every shape of a step is a step of the lifecycle, and what others publish has its cause |
| | `HandledAreAnswered` | assumes finitely many workers. `IdsInv`: the same id is the same event (`SameIds`), and only published events are marked. `LossInv` needs more of the witness than the property says: a worker past the check, since one that has yet to look would skip the event. It counts `MaxAttempts + 1` failed calls for each event without a trace (`UntracedEvents`), and one for each attempt a worker has behind it (`Spent`): when `emitToDlq` fails, the event takes with it what its worker has spent, plus that failure |
| | `DuplicatesSkipped` | assumes finitely many workers. `SkipInv`: answers emitted plus workers that owe one are within what was paid: the ids marked, times the service's workers, plus the failed calls. Marking an id for the first time may let every worker of the service past the check with it, and no later step can; an emission takes one off what is owed. Answers of different services and kinds are not mixed up (`AnswersDiffer`) |
| `SagaProofs` | `SagaRunsInventory`, `SagaRunsFulfilment` | each part of the composition runs as its own specification says, so all its invariants hold there |
| | `PaidStockIsHeld`, `SagaIsALife` | what the parts know of each other: a StockReserved in the log was emitted by the inventory (`LogInv`), a row is EXPIRED only after its time (`ExpiredInv`) and RELEASED only after a PaymentFailed of its order (`DeclinedInv`). With `ReservedIsBacked` a paid order has its rows, and nothing else takes them out of RESERVED |
| `ReadModelProofs` | `TimelineIsInTopicOrder`, `StatusFitsTimeline` | `DocInv`: not the document alone but every copy of it that a worker holds is well formed and shows no event still to come, since any copy may be written over newer updates |
| `AuditProofs` | `AuditTypeCorrect`, `BatchesStayBounded`, `LossStaysBounded`, `AReplicaStarts` | `BatchInv`: the buffer is below `BatchSize` before each event, so a batch is at most that; a loss is what a request, or a process that ended, held and no one else. `LossStep` holds because requests, and replicas, keep their events apart. `StartInv`: as long as no replica is up, none is dead, and no index stands in the way of one that is about to create it |

The assumptions are the modules' own (`StockAssumption`, `InventoryAssumption`,
`OutboxAssumption`, `IntakeAssumption`, `FulfilmentAssumption`, `SagaAssumption`,
`ReadModelAssumption`, `AuditAssumption`): finite sets, bounds that are numbers, keys
that differ from orders, an event type that belongs to one topic. TLC evaluates them in every run.

Every invariant and every action property that a passing run checks is stated by one of
these theorems. Model-checked only: liveness (`ReservationsEnd`, `LocksGetFreed`,
`EveryOrderIsPublished`, `OrdersAreDecided`, `ReceivedIsIndexed`), which is out of the
prover's reach, as it rests on fairness and so on ENABLED, and the three counterexamples.

`DuplicatesSkipped` needs its factor: two workers of a service that both look before either
marks answer a duplicate twice. With one worker to a service, as in `handler_retries`, the
bound is one answer for each event.

## 6. Not modelled

* `GET /orders/:id` and the search of the API gateway: they read and change nothing (the search
  first ensures its index exists, by the code that `AuditIndexer` models).
* The first creation of the read model's index; the same code again.
* Encoded events (`emitEncoded`, the schema registry, snappy): no service calls them.
* `payment.service.ts` `handleStockReservationFailed`: no controller calls it, so
  nothing happens to an order whose stock could not be reserved: it stays PENDING.
* `order.service.ts` of the producer holds a second copy of `markConfirmed`,
  `markCancelled` and the processed-event methods without callers.
* `get`, `set` and `del` of `libs/redis`, without callers. (README.md:15 speaks of a TTL of 15
  minutes for product locks; the code's is 30 s, the 15 minutes are the reservation's.)
* Generated Prisma clients. They are nine tenths of the repository's TypeScript (29,000 of
  32,000 lines, in `apps/*/src/generated/prisma`), are produced from the
  `schema.prisma` files, and hold no logic of this system; so the lines that `PROJECT.json` maps are a
  small part of all lines and most of those written by hand that change state.
* Containers, migrations, seeds, configuration, names and types.
* Partial effects inside Postgres, Redis, Kafka and OpenSearch themselves.

## 7. Plan

Done: (1) `StockLedger`, `Inventory` and their proofs: the only place where concurrent
writers share state under locks; (2) `OrderOutbox`, then with the gateway `OrderIntake`; (3)
`Fulfilment`, `OrderLifecycle`; (4) `OrderReadModel`; (5) `OrderSaga`; (6) `AuditIndexer`.

What is left: should a service come to consume `StockReservationFailed`, or to emit
`PaymentFailed`, their actions in place of the external ones, and liveness of `OrderSaga`.
