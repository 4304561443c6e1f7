# supply-chain-saga: specifications and proofs

TLA+ models of the supply-chain-saga services, the TLC runs that check them on
small instances, and TLAPS proofs of the results that matter most for every
instance. Paths below are relative to the repository (`src/`).

## 1. The system

| Component | State it keeps | Operations | Interacts through |
|---|---|---|---|
| gateway (NestJS) | Redis `idem:<method>:<route>:<key>` records `pending`/`done` | forward a request; reserve and finalize its key | HTTP to the four services |
| orders-svc (NestJS, TypeORM) | `orders`, `order_items`, `order_commit_progress` | create, approve, cancel; handlers of payment, shipping and inventory events | HTTP and NATS requests in, NATS events in, outbox out |
| payments-svc (NestJS, TypeORM) | `payments` | create, transition (AUTHORIZE, CAPTURE, CANCEL, REFUND), retry, void | HTTP and NATS requests in, outbox out |
| inventory-svc (Express, pg) | `inventory` (row per sku and location), `inventory_events`, Redis responses | reserve, commit, release, adjust, move | HTTP in, outbox out |
| shipping-svc (Express, pg) | `shipments`, `shipment_events`, Redis responses | create, cancel, mark shipped | HTTP in, outbox out |
| outbox | table `outbox`: status, attempts, next_attempt_at, unique idempotency_key | enqueue (inside a domain transaction), claim, publish, markPublished, markFailed | written by every service, read by every worker |
| outbox workers (one per service) | claimed batches in memory, the NATS client's buffer | a dispatch per `setInterval` tick, not awaited | `FOR UPDATE SKIP LOCKED`, NATS subject `<service>.events.v1` |

A client request goes through the gateway to a service, which changes its own
tables and inserts an outbox row in one transaction. The service's worker
publishes the row; orders-svc subscribes to the other services' subjects and
advances the order (PENDING, RESERVED, PAID, SHIPPED, CANCELED). All services
share one Postgres database (`docker-compose.yml`, `DB_NAME`), and so one table
`outbox`.

What is hard in it:

- **Overlap.** Dispatch ticks are not awaited, several workers poll one table,
  and Nest runs event handlers concurrently. Orders, payments and shipments are
  read without locks in READ COMMITTED transactions and written later.
- **Failure.** A worker can die between claim, publish and mark; statements fail
  or lose their reply; the NATS client buffers; core NATS redelivers nothing.
- **Retries.** Clients, gateway and outbox repeat requests and messages; keys are
  remembered in Redis (with a TTL, after the fact) and by unique indexes.
- **Locks.** Inventory moves lock two rows in the order the request names them.

What makes each component correct:

- outbox: no row dispatched twice at once; publications bounded by attempts;
  FAILED exactly when attempts are used up; every event settles; PUBLISHED
  means the message is out.
- orders: one order per key, one charge per approve key, no status without its
  event, readiness only when the inventory says so; and while no transaction commits
  on a stale reading, canceled and paid implies refund requested, every event once,
  shipped is final, readiness announced.
- inventory: never oversold, the history accounts for the stock, every change
  has its event, a request takes effect once, no lock held for ever.
- payments: a key takes effect once, money moves in order, a customer is charged
  once, a capture disappears only by a refund.
- shipping: one shipment per key, a shipment leaves once, a client told "ok" was
  told the truth.
- gateway: one forwarded request per key while its record lives, agreeing answers,
  no key pending for ever; with inventory-svc behind it, one change of the stock.
- fulfilment: an order is SHIPPED only because a shipment of its was, and a shipment
  reaches its order.

`PROJECT.json` lists every hazard at its source line ("hazards") with the
properties aimed at it, or why there is none yet.

## 2. The modules

| Module | Models |
|---|---|
| `OutboxLedger` | what an outbox promises its producers: attempts one at a time, at most one publication per attempt, done only after a publication, dead only after `MaxAttempts` failed attempts |
| `OutboxDispatch` | `outbox.service.ts`, `worker.ts`, `nats.publisher.ts` (orders, payments) and `outbox.worker.js`, `outbox.model.js` (inventory, shipping): one algorithm in four copies |
| `OutboxDispatchProofs` | theorems about `OutboxDispatch` |
| `Orders` | `orders.service.ts` and `orders.message.controller.ts` |
| `OrdersProofs` | theorems about `Orders` |
| `Payments` | `payments.service.ts`, its entity and `addPaymentEvent` |
| `PaymentsProofs` | theorems about `Payments` |
| `Inventory` | `inventory.service.js`, its models, `middleware/idempotency.js`, `common/error.js` and the outbox insert |
| `InventoryProofs` | theorems about `Inventory` |
| `Shipping` | `shipping.service.js`, its models, controllers, `middleware/idempotency.js`, `common/error.js` |
| `ShippingProofs` | theorems about `Shipping` |
| `Gateway` | the gateway's `idempotency.interceptor.ts` and `idempotency.service.ts`: what a client may rely on whatever service is behind it |
| `GatewayInventory` | composition of `Gateway` and `Inventory`: `routes/inventory.controller.ts` and the HTTP exchange with its timeout; implements `KeyedService` and `Inventory` |
| `KeyedService` | what an Idempotency-Key promises a client: one effect and one answer per slot, the answer after the effect, until the slot is forgotten |
| `GatewayInventoryProofs` | theorems about `Gateway`, the two refinements of the composition (`KeyedService`, `Inventory`) and the end-to-end theorems |
| `Fulfilment` | composition of `Shipping`, `OutboxLedger` and `Orders`: from `markShipped` to `onShippingEvent` |
| `FulfilmentProofs` | theorems about `Fulfilment` |
| `SumTheorems` | lemmas about sums over finite sets, which the models count events with |
| `MC*` | small instances for TLC |

A definition named `X`, with a comment "Mutant of Y", is a plausible bug in `Y`.
It is no part of a specification; putting it in the place of `Y` must make the
property that guards against it fail (`PROJECT.json`, "mutants").

### OutboxDispatch

A *runner* `<<worker, slot>>` is one call of `dispatchOnce`/`runOnce`; `Slots`
bounds how many calls of a worker overlap. `pc` is where the call is: the claim
transaction (`ClaimSelect`, then `ClaimCommit` or `ClaimAbort`), then, for the
earliest event of its batch, `Publish`, `MarkPublished`, `MarkFailed` or their
failing forms, each in the order and with the consequences of the code's two
`catch` blocks: a failing `markPublished` leads to `markFailed` although the
event is out; a failing `markFailed` abandons the rest of the batch. `seen` is
`ev.attempts` as the claim read it, which `markFailed` uses to choose FAILED,
while the column counts by itself. `Locked` stands for the row locks of open
claims. `pending` is the NATS client's buffer, emptied by `Flush` and lost by
`Crash`. Rows are numbered by `created_at`; since that is the transaction's
start, `Enqueue` may make them visible in any order. The backoff's length is
left out: a delayed row is not due until `BackoffElapses`.

A worker takes any due row, whichever service recorded it: the services share one
database, as `docker-compose.yml` says, so the module's rows are all services' rows.

Assumed: the SQL's columns exist as the SQL names them (the entity declares
camelCase ones), and a batch is processed in claim order.

The table's unique `idempotency_key` is shared as well, so the README's "duplicates are
deduped per service" (`README.md:70`) is not what the schema does. Every service inserts
the client's bare key. Where the insert is plain (orders, payments) a key that another
service took makes the transaction fail, which is an outcome of `Fail`; where it says
`ON CONFLICT DO NOTHING` (inventory, shipping) the event silently disappears. `Inventory`
and `Shipping` name the keys another service may take `SharedKeys`.

### Orders

A request or message opens a transaction in one of `Txs`. Its read step
(`CreateRead`, `ApproveRead`, `PaymentRead`, ...) records what it saw; a later
step writes and commits what that reading decided, with everything the code
does in between: checks, the order's columns, the outbox rows and their unique
keys. TypeORM's `save` writes the value the code put into the entity, whatever
another transaction committed meanwhile, so a write is absolute. Guards that
make the code return or throw before it changes anything are guards of the read
step. `onInventoryEvent` has three steps, because it reads the other progress
rows after saving its own (`CommitSave` keeps what it read in `read`, `CommitCommit`
decides by it): an INSERT of the same row waits and
then violates the unique index, an UPDATE waits and overwrites. `Fail` is any
failure of an open transaction: rollback, and the handler swallows it. The
derived outbox keys are grouped per request; two lines of one SKU collide
(`HasRepeatedSku`). The outbox is a count of events per type.

Messages are about existing orders, may come in any order, and each at most
`Copies[m]` times, because the outbox publishes a row again after a lost reply; a
message whose handler failed is gone, as with core NATS.

`raced` is a history variable, read by no action: the orders on which a transaction
committed although what it had read of them had changed since. What the missing lock
breaks is stated for the other orders (`CancelCompensates`, `AnnouncedOnce`,
`ReadyIsAnnounced`, `ShippedIsFinal`), and so under overlap, redelivery and failure; for
every order hold `OneOrderPerKey`, `ChargedOncePerKey`, `StatusIsAnnounced` and
`ReadyIsJustified`. The last counts deliveries, for the accumulator cannot tell a second
delivery from a second commit: that a repeated partial commit makes an order ready
before its lines are committed is the violation of `OrdersRedelivery`.

### Payments

A call is served in one of `Txs`: `Read` (`findOne`, the checks and the
assignments to the entity), `Reload` (`save` reads the row again and notes which
columns differ, `dirty`), then the update of those columns. For a transition the
update, its event and the unique outbox key are one commit (`TransitionCommit`);
for retry and void `SaveCommit` is a commit of its own and `Announce` comes
later, or never. Update, insert and commit are one step although the row lock is
taken at the update: nobody else can see or change the row in between. `Sources`
and `Target` are the status machine of the `switch` and of retry and void.
Amounts are reduced to whether they are set.

`raced` is a history variable, read by no action: the payments that were saved
over a row which had changed since the call read it. The properties that need
the missing lock are stated for the other payments, so one run shows both what
holds for every interleaving (`AppliedOncePerKey`, `MoneyInOrder`) and that it is
a lost update, and nothing else, that can charge a customer twice or cancel a
captured payment (`ChargedOnce`, `CaptureIsKept`).

### Inventory

A handler looks its key up (`Arrive`), waits for its row (`Lock`, or `NotFound`,
`Refuse`), for a move also for the destination (`LockDestination`), then writes
and commits (`Commit`), and only then stores its response (`Respond`). `Refuse`
covers the insufficient-stock answers, which are stored and replayed, and the
errors of a move, which are not: the error handler refers to an undefined
variable and never reaches `res.json`. `Rollback` is any failing statement,
`DeadlockAbort` Postgres ending a cycle of moves. One SKU is followed through its
locations, since SKUs share neither rows nor locks. `ledger` sums the
`inventory_events` of a row per type. `outbox` holds the rows of all services:
`Elsewhere` is another service committing an event under a key of `SharedKeys`.
`EveryChangeAnnounced` therefore says that a change has an event under its key, not
that the event is its own, and that an event of inventory-svc tells of a change that
was committed.

`IndexIsPartial` is how `db.js` declares `uq_outbox_idem`. With TRUE, which is
what the file says, no stock transaction can commit (`InventoryPartialIndex`);
the other runs use FALSE, a full unique index on the key, because that is the
only setting under which the rest of the code does anything.

### Shipping

A handler looks its key up (`Arrive`: a stored answer is replayed at once), reads
without a lock (`CreateRead`, `UpdateRead`), commits what that reading decided
(`CreateCommit`, `UpdateCommit`) and then stores and sends its answer (`Respond`).
`UpdateCommit` writes an absolute status, whatever another handler committed since
the read. Unlike in inventory-svc the error handler works, and answers through
the wrapped `res.json`: `Fail` leads to a stored "error", which a retry gets back.
`Refused` are the statements that cannot succeed: a second insert under one key,
and every outbox insert when the index is partial, as in Inventory. The audit
table `shipping_events` is written in the same transaction and read by nothing;
it is left out. `told` and `raced` are history variables. With a key of `SharedKeys`
the outbox insert may do nothing, and the shipment is created or changed unannounced.

A cancel or ship may name an unknown id: the 404 is stored like any answer, and
replayed. No client guesses an id that `uuid()` has yet to give (`IsFresh`).

### Gateway and GatewayInventory

A call of the interceptor reads the record of its key (`Ask`), tries `SET NX`
(`Reserve`), passes the request on (`Forward`), gets the answer (`Answer`), and
stores it (`Finalize`). The read and the `SET NX` are two Redis commands, so calls
overlap between them. `Fail` is every way out that is not a success; the
interceptor has no `catchError`, so the record stays `pending` until its time to
live is over (`Expire`). A slot stands for method, route and key; two requests of
one slot have different bodies. `expired` remembers the slots whose record ran
out: what the gateway promises, it promises for 30 minutes.

`GatewayInventory` joins the two ends of the HTTP exchange. `Post` is `Forward` and
`Inventory.Arrive` at once; `Handle` is a step of the handler and, when it ends with
`{ success: true }`, the answer to the call that waits for it. A refused request is
a 409, which axios throws, and so is a failure of the call. `GiveUp` is the timeout
of `app.module.ts` or the end of the gateway: the handler goes on for nobody.
`link` says who waits for whom. `InventoryAlone` is what happens at inventory-svc
without the gateway: a crash, a stored response that runs out, a key taken elsewhere.

`KeyedService` knows neither records nor handlers nor answers on their way, only how
often a request took effect and what clients were told. That the composition implements
it is a statement about both services: the second record must cover what the first
forgets to ask, and a client may be told only after the commit.

### Fulfilment

`Shipping` and `Orders` run as they are, with their own failures, retries and
overlaps. Between them stands `OutboxLedger`, which `OutboxDispatch` is proved to
implement: a `ShipmentShipped` row is recorded in the transaction that emits the
event (`Record`), taken by the worker of any service (`Take`), published up to once per
attempt (`Send`, or `SendMissed` when nobody is subscribed or another service's worker
publishes it under its own subject), completed or given back (`Settle`). `Strand` leaves
the row PROCESSING for ever: its worker died after the claim, a `markFailed` threw, or
the dispatch hangs. `Heard` is the type
`onShippingEvent` acts on; rows of other types have no consumer and are left out.
`missed` remembers the orders one of whose notices got lost after publication: no
subscriber, another subject, or a handler that failed and swallowed its error.

## 3. The runs

| Run | Instance | Shows |
|---|---|---|
| `OutboxSafety` | 2 workers, 2 rows, batch 2, 2 attempts, every fault | `NoDoubleClaim`, `PublishBound`, `FailedAtCap`, and that the dispatcher implements `OutboxLedger` |
| `OutboxLiveness` | 1 worker with 2 overlapping ticks, 3 rows, batch 2, failing publishes | `EveryEventSettles`, `PublishedNotLost` |
| `OutboxStrands` | 1 row, crashes | *violation*: a crash after the claim strands the row in PROCESSING |
| `OrdersConcurrent` | 2 orders, one with a repeated SKU, 2 keys, 2 transactions, a capture and a partial commit delivered twice, a second commit, a shipment, failures | `OneOrderPerKey`, `ChargedOncePerKey`, `StatusIsAnnounced`, `ReadyIsJustified` for every order; `CancelCompensates`, `AnnouncedOnce`, `ReadyIsAnnounced`, `ShippedIsFinal` for those outside `raced` |
| `OrdersRedelivery` | 1 order, 1 transaction, partial commits delivered up to twice | *violation* (`RedeliveryIsAbsorbed`): a redelivered partial commit makes an order ready |
| `OrdersCancelRace` | 2 transactions | *violation* (`EveryCancelCompensates`): a capture during a cancel is never refunded |
| `PaymentsSafety` | 2 payments, 4 keys, 2 calls at a time, one retry or void, failures | `AppliedOncePerKey`, `MoneyInOrder`, `ChargedOnce`, `CaptureIsKept` |
| `InventorySafety` | 2 handlers, 4 requests sent twice (2 moves in opposite directions), crashes, expiry, failing statements, a key another service may take | `NeverOversold`, `HistoryExplainsStock`, `EveryChangeAnnounced`, `RequestsFinish` |
| `GatewayInventory` | 1 key with 2 bodies, each sent twice, 2 calls, 2 handlers, timeouts, crashes, expiry, failing statements | `ForwardedOnce`, `AnswersAgree`, `AppliedOnce`, `SuccessIsApplied`, `PendingEnds`, and that the composition implements `KeyedService` |
| `ShippingSafety` | 2 handlers, 2 creates of one key, a ship sent twice, a cancel, crashes, expiry, failing statements, a key another service may take | `OneShipmentPerKey`, `OkIsTrue`, `ShippedOnce` |
| `Fulfilment` | 1 order, 1 shipment, create, ship, cancel, 2 transactions of orders-svc, 2 attempts per event, lost messages, stranded rows, every failure | `OrderShippedIsShipped`, `NoticesAreBounded`, `ShipmentReachesOrder` |
| `InventoryPartialIndex` | 1 reserve | *violation*: no stock change commits under the partial index |

**Why these bounds.** Every race in these components is between two actors over
one row, order or key, so two runners, transactions or handlers are enough to
show it; a third adds only another party to the same race. Two attempts reach
the cap both by counting and at the boundary; three rows with batches of two make
a dispatch leave a row to the next one. Two units in two partial commits, of two
SKUs, distinguish partial from full and one line from all lines. Two units of
stock against reserves of two and one force refusals. Four keys take a payment
from its creation to its refund, or to a second capture. One key with two bodies,
each sent twice, gives the gateway a retry, a reuse of the key and, with a record
that expires, a second life of the slot. In `Fulfilment` a second event of one
shipment needs a lost update in shipping-svc, and two attempts per event make
repeated and given-up deliveries; one handler of shipping-svc is enough there,
because `ShippingSafety` interleaves two. What these instances show for a few
actors, the theorems of section 4 show for any number of them.

**Stale commits.** No run excludes overlap. Some properties are stated for the orders,
payments or shipments outside the history variable `raced`, which names exactly those a
transaction wrote on an overwritten reading; nothing else is excused. Within `raced` TLC
finds each of them broken: the unrefunded capture (`OrdersCancelRace`), two last commits
that miss each other's progress row (`ReadyIsAnnounced`), a shipped order that an
overlapping cancel overwrites (`ShippedIsFinal`), two deliveries of one capture that both
announce it (`AnnouncedOnce`). It is the missing lock, not the logic of a handler, that
breaks them.

`CHECK_DEADLOCK FALSE` stands in every run but those of the dispatcher, because requests,
messages and copies are bounded and the system may be done; the dispatcher never stops,
and its runs check for deadlock.

**Fairness.** `OutboxDispatch`: weak fairness of each runner (`setInterval` keeps
ticking, and an awaited statement returns or throws), of backoffs elapsing, and
of a connected client flushing. That fits the TypeORM workers, which release the
claim's connection before they publish. `runOnce` of the JS workers keeps it while
`markPublished` and `markFailed` ask the pool for another, so overlapping ticks may
exhaust the pool and wait for each other; for those two copies `OutboxLiveness` holds as
long as their ticks leave a connection free. `Inventory`: strong fairness of what a handler does when no statement fails
(`Proceed`), because Postgres queues the waiters of a row lock; a wait may not
count on a failure to end it. `GatewayInventory`: weak fairness of `Expire`, the time
to live that Redis enforces, and of nothing else; a call may hang or die.
`Fulfilment`: a queued row is taken, because some worker keeps polling; a taken one is
sent or settled unless it is stranded; open transactions of orders-svc end, and a delivered
message gets its handler however many requests are being served, because Nest starts one
for it (`Txs` is a bound of the model, hence strong fairness); of shipping-svc nothing.
`Orders`, `Payments` and `Shipping` state no liveness. Nothing is
assumed of faults, crashes or requests.

## 4. The proofs

The constants are arbitrary throughout: any orders, payments, shipments, rows and
locations, any number of transactions, handlers, calls and workers, any faults. The
assumptions are the named `ASSUME`s of the modules, and TLC evaluates them in every
run. They say what kind of thing a constant is; the ones that say more are: the sets
a sum ranges over are finite (`FiniteAssumption` of `Orders`, `Payments` and
`Fulfilment`; a table and what a broker delivered are finite at any moment), limits are
positive (`LimitAssumption`), and a slot of the gateway is the method, route and key by
which inventory-svc stores its answers (`SlotAssumption`). A hypothesis that not every
deployment satisfies is no assumption of a module but stands in the theorem; there is one,
no `"crash"` in `OutboxPublishedNotLost`. The `Spec` of each theorem has no
fairness; a `FairSpec` implies it.

Every safety invariant and every action property of the passing runs is a theorem.

`SumTheorems`: what a total is worth when one summand changes, grows or is compared
with another. `SumFunction` is a fold, that is, a recursive function; that the recursion
has exactly one solution is proved by a least counterexample among the finite subsets
(`SmallestCounterexample`, from the well-foundedness of strict inclusion), which needs no
induction theorem with an operator parameter. The rest follows from taking one element
out of the sum (`SumRemove`).

`OutboxDispatchProofs`: `OutboxTypeCorrect`, `OutboxNoDoubleClaim`,
`OutboxPublishBound`, `OutboxFailedAtCap`, `OutboxPublishedNotLost`, and the refinement
`OutboxImplementsLedger`. The properties are not inductive. `IInv` adds what each stage
of a dispatch knows about its batch (`BatchMatchesStage`: rows in hand are PENDING while
locked, then PROCESSING, except the one whose `markPublished` lost its reply), that the
attempts read at the claim are still current (`SeenIsCurrent`, the reason why deciding
FAILED from a stale-looking value is sound), and how many attempts and publications a
status allows (`CountsMatchStatus`, `SendsInHand`). That a PUBLISHED row is out needs
`MarkedIsOut`, the same of the row a dispatch is about to mark, and is stated for
workers that do not die: a crash takes the client's buffer with it. For the refinement,
`Phase` maps a row's status to the ledger's phases, a PUBLISHED row being "held" until
its dispatch lets go of it; one lemma per action gives the ledger step it maps to, or
that it is invisible.

`InventoryProofs`: the type invariant, `NeverOversold`, `HistoryExplainsStock`,
`EveryChangeAnnounced`. `NeverOversold` needs to know that a handler past its check
still holds its lock and that the check still holds (`LockedIsChecked`); that no other
handler can have changed the row in between is what the row lock is for, and the
proof uses it at that one place.

`OrdersProofs`, for every interleaving: the type invariant, `OneOrderPerKey`,
`StatusIsAnnounced`, `ChargedOncePerKey`. The first three together are inductive. Every
step either sets a status together with its event or leaves statuses and only adds
events, and a stale write is no exception: it writes the status whose event it inserts.
A charge and the key that stands for it are added in one commit (`ChargedInv`).
`ReadyIsJustified`: `JustifiedInv` carries the quantity from the delivery through the
transaction that works on it to the progress row; a transaction that overwrites the
progress of another loses a quantity, which can delay readiness and never feign it.

`OrdersProofs`, for orders outside `raced`, with any overlap, redelivery and failures:
`CancelCompensates`, `AnnouncedOnce`, `ReadyIsAnnounced`, `ShippedIsFinal`. `History` says
that the events of an order tell its past: a status that was left has its event, a
capture that was canceled its refund, nothing was announced twice. A commit that is not
stale writes what the latest row implies, and one that is stale puts its order into
`raced`, for good; so of an open transaction the step needs only what it
decided by its own reading (`Decided`), not that the reading still holds.

`PaymentsProofs`: the type invariant, `AppliedOncePerKey`, `MoneyInOrder`, `ChargedOnce`,
`CaptureIsKept`. A save writes the columns that differed at its second read, so a row can
mix what several calls decided. Two facts tame it. Each column is `Justified` by an event
on its own, which gives `MoneyInOrder` for every interleaving. And the statuses are ranked
(`Rank`): without a lost update a payment never returns to a lower rank, so a save that
meets the row its call read also met it at its second read (`Fresh`), and writes
exactly what it decided; then rows stay `Coherent` and the events `Counted`.
`AppliedOncePerKey` counts: each used key adds one keyed event, in the commit that takes
the key (`KeysInv`).

`ShippingProofs`: the type invariant, `OneShipmentPerKey`, `OkIsTrue`, `ShippedOnce`.
`IInv` says what a handler has decided from what it read (`HandlerKnows`), that rows,
origins and events are consistent, and that every stored "ok" is true (`CacheIsTrue`);
`Fulfilled` is never taken back, so an answer that was true when stored is true
whenever it is replayed.

`GatewayInventoryProofs`, of the gateway alone: the type invariant, `ForwardedOnce`,
`AnswersAgree`. `HolderOwns` is the argument: past its `SET NX` a call whose slot has not
expired finds its own record there, alone; so the unconditional overwrite of `finalize`
is safe for the time to live.

`GatewayInventoryProofs`, of the composition: `SystemImplementsKeyedService`,
`SystemImplementsInventory`, `SystemTypeCorrect`, `SystemAppliesOnce`,
`SystemSuccessIsApplied`. Every step of the composition is a step of `Gateway` or leaves
its variables alone (`StepIsGatewayStep`), and the same of `Inventory`, so what is proved
of either holds for both together. `OnceInv` carries "forwarded at most once" through
inventory-svc: in a slot that lasts nothing is applied before it is forwarded
(`UnsentIsUntouched`), and a handler that may still commit is the only one and the first
(`OpenIsFirst`). `BackedInv` carries "committed" back: handler, stored response, answered
call, record and told client are each backed by a commit. The two together give the refinement
(`StepIsKeyedStep`): a commit is the first effect of its slot (`CommitIsApply`), and what a
client is told has had its effect and repeats every earlier answer (`ToldIsTell`).

`FulfilmentProofs`: `FulfilmentImplementsShipping` and `FulfilmentImplementsLedger` (the
composition lets its two upstream parts behave as they do alone),
`FulfilmentOrderShippedIsShipped` and `FulfilmentNoticesAreBounded`. The first fact about
the saga travels from the transaction that emits `ShipmentShipped` through the ledger
(`LedgerInv`), the inbox and the transactions of orders-svc (`OrdersInv`) to the status.
The bound counts along the same way (`NoticesInv`): the notices an order has given, the
transactions about to give one and the messages that wait are together no more than the
publications of its rows, of which the ledger allows `MaxAttempts` each, and there are no
more rows than announcements.

Only model-checked: the liveness properties (`EveryEventSettles`,
`RequestsFinish`, `PendingEnds`, `ShipmentReachesOrder`). Fairness and ENABLED are outside
the prover's reach.

## 5. What is not modelled

- Tracing, logging, Swagger, health checks, validation of payload shapes, response
  bodies: no state that the properties could tell apart.
- The gateway's orders and payments routes: they forward as the inventory routes do.
  orders-svc and payments-svc have no Redis middleware; a request that arrives
  repeatedly is an input of `Orders` and `Payments`.
- The payment leg of the saga. `transition` announces `PaymentCAPTURE`
  (`payments.service.ts:239`), `onPaymentEvent` waits for `PaymentCaptured`
  (`orders.message.controller.ts:126`): composed as they are, no capture reaches its
  order. `Orders` is checked with the message its handler expects.
- The inventory leg. `InventoryCommitted` reaches `Orders` as a message with an order
  and a quantity; the stock row has no owner, so a composition could relate the two
  only through the payload.
- The connection pool of the JS services: see the fairness of `OutboxDispatch`.
- Schema bootstrap: which service creates the shared `outbox` table first, and with
  which column names. `OutboxDispatch` assumes the columns its SQL names; the partial
  unique index is the parameter `IndexIsPartial`.

Some behaviour is in the models and has no property, because nothing in the
repository promises otherwise: an event may be published by another service's worker
under that worker's subject; two lines of one SKU make an order that can never be
approved; `retry` leads a payment to a status only cancel and void leave; retry and
void may lose their event; `adjust` may make a quantity negative; commit and release do
not ask whose reservation they use; a shipment event turns a canceled order into a
shipped one, and an overlapping cancel may turn a shipped order into a canceled one
(which is why `ShipmentReachesOrder` is about the order's announcement and not its
final status); a create of a shipment that reuses a key for another order is answered "ok"
with the first order's shipment; a key that another service used first silences an event
of inventory-svc or shipping-svc; without the gateway a retry that overlaps its first request is executed
twice.

What could come next: the invariants of `Orders` as theorems of `Fulfilment`, through a
refinement like those of its upstream parts; the payment leg, once the event names agree;
the schema bootstrap as a module of its own.
