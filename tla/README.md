# flash-deal: a TLA+ development

flash-deal sells a limited stock in a short window. By default the API takes units
from Redis with a Lua script, publishes an order to Kafka and answers 202, and a
consumer group writes the order to MySQL; with two switches off it does all of it in
MySQL before it answers. These modules model both paths and the components around
them; TLC checks them on small instances and TLAPS proves what matters most for every
value of the constants. Source paths below are relative to `src/`.

## 1. Inventory

| Part | Source | State | Operations | What makes it correct |
|---|---|---|---|---|
| Seckill service and handler | `internal/service/seckill.go`, `kafka_order_creator.go`, `internal/handler/seckill.go` | where each request is; the answer sent | read activity, window check, deduct, token, publish, answer | a 202 only for a paid unit and a stored message; nothing published unpaid |
| Redis stock gate | `internal/repo/stock_redis_repo.go`, `scripts/stock_deduct.lua` | `stock:{id}`, `user_buy:{id}:{user}`, their TTLs | the script | units are conserved; per-user limit; no oversell |
| Queue tokens | `internal/service/queue_token.go` | `queue:{token}` | New, resolve, expire | success only after an answered insert; never back to queued |
| Kafka | `internal/infra/kafka/producer.go`, `topics.go` | order topic, DLQ, committed offset | write (lost, doubled), fetch, commit | no acknowledged message is lost |
| Consumer loop | `internal/infra/kafka/consumer.go`, `cmd/consumer/main.go` | message in hand, attempt, context | fetch, parse, attempts, DLQ callback, commit, SIGTERM | a message committed away has a row or a DLQ entry |
| Materializer and order table | `internal/service/order_materializer.go`, `internal/repo/*order_repo.go` | order rows, `uk_idem`, primary key | insert, token, MarkFailed, GetByID | at most one order per (user, token); handling twice is harmless |
| Circuit breaker | `internal/infra/breaker/breaker.go`, around the insert | closed, open, half-open; counts | Do | good orders are placed; nothing is committed away |
| Admin, seed | `internal/service/admin.go`, `cmd/seed/main.go` | activity row | create, warm | a warm does not sell a unit twice |
| Reconcile sweeper | `internal/service/reconcile.go` | what one check has read | read Redis, then each shard | reported drift is explained; lost units are reported |
| Rate limiter | `internal/middleware/ratelimit.go` | token bucket, per-user counter with TTL | Allow, INCR, EXPIRE | the limit of a minute; nobody locked out |
| Idempotency middleware | `internal/middleware/idempotency.go` | `idem:{activity}:{user}:{token}` | SETNX, GET, handler, cache write, expire | one handler run per key; replays agree; no key stranded |
| Order ids | `cmd/api/main.go` (`nextID`) | clock, counter of a process | read clock, add | an id names one order |
| Shard key | `pkg/shardkey/shardkey.go` | none | pure functions | total, in range |
| SQL stock (synchronous mode) | `internal/repo/stock_repo.go` | `activities.total_stock` | conditional UPDATE, SELECT | units are conserved |
| API process | `cmd/api/main.go` | the wiring of the above | start, die | the parts keep their promises when composed |
| Configuration, logging, metrics, tracing, request ids, connections | `internal/config`, `internal/infra/...` | start-up parameters | | outside the models |

**Interactions.** A POST /v1/seckill passes the rate limiter (Redis), the idempotency
middleware (Redis), and reaches the service. The API reads MySQL (activity), runs one
script in Redis (the only atomic step over stock and `user_buy`), writes the queue
token in Redis, then writes Kafka. The consumer reads Kafka, writes MySQL through the
breaker, writes the token, and commits to Kafka. There is no transaction across two
stores and nothing gives a unit back: every pair of adjacent calls is a place to fail,
crash or interleave. The admin's `Warm` writes the same stock key the script
decrements, on the advice of a sweeper that reads Redis and MySQL at different moments.

**Hard behaviours.** Redis and Kafka clients that retry behind the caller's back; a
write that fails and took effect; a rebalance that leaves two members with one message;
a SIGTERM that cancels the context of the handler, the DLQ callback and the commit
while the commit still may go through; Redis keys with different lives; INCR and EXPIRE
as two commands; the idempotency key that outlives the process that set it; ids made in
two steps. The list with source lines is `hazards` in `PROJECT.json`.

## 2. Modules

| Module | Contents |
|---|---|
| `FlashDeal` | the order path: API, Redis, tokens, Kafka, consumer group, MySQL; its properties and the parts of its inductive invariant |
| `Sale` | the abstract specification: lots of units, payment, promise, order |
| `FlashDealSale` | the refinement mapping from `FlashDeal` to `Sale` |
| `Reconcile` | the sweeper between the steps of `FlashDeal` |
| `Breaker` | `FlashDeal` with a circuit breaker around the insert of each consumer |
| `HttpCalls` | HTTP requests, API processes and the budget of faults the middlewares share |
| `RateLimit` | the rate limiter of one user's requests |
| `Idempotency` | the idempotency middleware for one key |
| `FrontDoor` | limiter and middleware in the order `cmd/api` wires them |
| `ShardKey` | the pure functions of `pkg/shardkey`, with Go's division and a width |
| `SyncSale` | the synchronous mode: MySQL stock, order ids, shards; it implements `Sale` too |
| `FlashDealClaims` | a statement of the repository's documents that the order path does not keep |
| `MCFlashDeal`, `MCReconcile`, `MCBreaker`, `MCFrontDoor`, `MCSyncSale` | constants for TLC |
| `FlashDealProofs` | `TypeOK` is an invariant |
| `FlashDealLedgerProofs` | the ledger of units: conservation and per-user limit |
| `FlashDealOrderProofs` | from the unit to the order: `NothingUnpaid`, `AckedIsLogged`, `SuccessHasRow`, `NoOversell`; `FlashDeal` implements `Sale` |
| `FlashDealLossProofs` | what becomes of a message: `TokenNeverRequeued`, `LossNeedsExhaustion`, and `Bookkeeping` as a whole |
| `ReconcileProofs` | what a finding of the sweeper means |
| `BreakerProofs` | what a breaker can do to the orders, and why it opens |
| `FrontDoorProofs` | the invariants of the key; the composition implements `Idempotency`; the bound of a minute; who leaves a counter behind |
| `SyncSaleProofs` | both indexes of the shard key are in range; the invariants of the synchronous mode, and that it implements `Sale` |

### FlashDeal and the code

A request `r` is one run of `SeckillService.Seckill`. `pc[r]` names the next call it
makes, so every interleaving between two calls is explored:

| `pc[r]` | code | actions |
|---|---|---|
| `fetch` | `seckill.go:76-91` GetByID and the window | `FetchActivity`, `ReadFails` |
| `deduct` | `seckill.go:93-111` DeductForUser | `DeductOk`, `DeductRefused`, `DeductLostReply`, `ReadFails` |
| `token` | `seckill.go:112-117` queue.New | `NewToken`, `FallbackToken` |
| `produce` | `seckill.go:118-136` CreateWithToken | `Produce`, `ProduceTwice`, `ProduceFails` |
| `done` | the answer in `resp[r]` | |

Consumer `c` is one process in `Consumer.Run`; `cpc[c]` is `poll`, or the next call for
the record `log[off[c]]`: `insert`, `set` (token), `mark` (MarkFailed), `dlq`, `commit`, and
`reject`, `skip` for a record that does not parse (`consumer.go:66-72`), which another
producer puts on the topic (`PublishGarbage`). `att[c]` is the attempt of the loop at
`consumer.go:87`. Each failing call is an action of its own that may have had its effect
(`InsertFails`, `SetTokenFails`, `CommitFails`, and the second disjunct of `MarkFailed`,
`SendDLQ` and `Skip`, whose errors the code drops). `stopping` are consumers whose context
is cancelled; for them every call fails, at no cost in faults, and may still have had its
effect. `owner` is the member the partition is assigned to: `Assign` to another member is
a rebalance, and the old owner goes on with what it has in hand, commit included.

Data is abstracted. A message and a token are the request that made them; its order id is
`IdOf[r]`, and nothing says that two requests have different ones, for `nextID` does not either (run
`claim_ids`). `IsDuplicateKey` is what `order_repo.go:88-92` makes of error 1062: `uk_idem`
(`HasRow`) or the primary key (`IdTaken`), which the consumer takes for a success alike.
`Unstorable` are orders MySQL refuses on every attempt, at no cost in faults: `binding:"required"`
lets a negative user id in and the column is unsigned. Two requests with one id whose `New` failed
would share a queue token; the model keeps them apart. Backoff, headers and metrics are left out. There is one activity, whose
units are `Total`, and one partition: the producer hashes by user id
(`producer.go`), so the messages that can meet in one row or one token share a
partition, and partitions do not interact otherwise, but for ids. A user's rows live in the shard
`ShardOf` gives, and ids meet only within one. A `SET` of the stock that the Redis client sends again
after a lost reply is one more `Warm`. Units are labelled in the history variable `sold` with the request, its
how-manieth unit it is and the warm it came from; `taken` counts per request. No guard
that models the code reads them but `UserBuyMayExpire`, which uses `sold` in place of a
clock: `user_buy` gets its 24 hours at the purchase, the stock key got its own at an
earlier `Warm`, so `user_buy` cannot expire before the stock that purchase came from.

`Slip` operators next to the actions are plausible bugs (a dropped guard, a swapped
order). No specification uses them; they exist to show that each property can fail.

### Reconcile, Breaker and the code

`Reconcile` puts `ReconcileService.Check` between the steps of `FlashDeal`: `ReadStock` is
the activity and `GET stock:{id}` (`reconcile.go:77-85`), `CountShard` one `SELECT COUNT(*)`
after the other (`:106-112`), and the last of them reports the drift (`:90-96`). `finding` keeps
the drift and, as history, how many units had no order when the check began and what was sold
and written since. `OperatorWaits` is the one person in the model: stock that was warmed is
warmed again only after a finding (`:6-7`).

`Breaker` gives every consumer process a `gobreaker` of its own (`cmd/consumer/main.go:98-108`),
through which the insert goes (`order_materializer.go:48-54`). `Do` is an insert that is let
through; the breaker counts its error as `Create` returned it, so a duplicate, by either key, is a
failure to it. `Refused` is `ErrOpenState`: one failed attempt. `TimePasses` stands for the interval of a
closed and the timeout of an open breaker, at any moment; since one consumer handles one message
at a time, no two calls meet in a breaker. `Renew` are the steps that end a process; the next one
has a closed breaker. The library is external: `Succeed`, `Fail`, `Allows` and `TimePasses` state
what `gobreaker` does for calls that come one at a time.

### FrontDoor, RateLimit, Idempotency and the code

`FrontDoor` is the chain before the handler of POST /v1/seckill (`cmd/api/main.go:149-165`), for
calls of one user with one key, in several processes; calls `Elsewhere` go to other routes, which
have the limiter and no middleware. `at[c]` is where a call is in the limiter,
`pc[c]` where it is behind it. In `RateLimit` (`ratelimit.go`) `Allow` takes a token of the
process's bucket or answers 429, and looks for the header; `Incr` is INCR, after which the call
that made the key goes on to EXPIRE (`SetTTL`) and the others are judged. INCR and EXPIRE may fail,
and an INCR whose reply is lost is sent again. `Tick` is time: buckets fill, and the counter goes
when its TTL ends, `Window` ticks to a minute. `age[c]` is history: how long ago the counter
admitted `c`. So is `stranded`: the calls that made the counter and whose EXPIRE was lost.

In `Idempotency` a call goes `setnx`, then `handle` and `store` if it set the key, `get` if it
did not, or `bypass` when the middleware fails open or the key vanished. A response is named by
the call whose handler made it. gin sends it when the chain returns, so the client has it only
after the cache write was tried. `life` counts how often the key expired; `runs` records each
handler run and the life it fell in. The key does not expire under a call that holds it: that
would take a request of 24 hours. Response bodies stay far below the 16 KiB buffer, so the
overflow branch (`idempotency.go:123-132`) is not modelled. To this module a failure in the limiter is `FaultElsewhere`.

### SyncSale, ShardKey and the code

With `lua_stock` and `kafka_order` off (`cmd/api/main.go:102-131`), `Seckill` does everything
itself. `pc[r]` runs through `fetch`, `update` and `select` (`stock_repo.go:42`, `:54`), `clock` and
`count` (the two halves of `nextID`, `cmd/api/main.go:134`), `token`, `insert`
(`sharded_order_repo.go:21-34`, or `order_repo.go:46-58` when `DBCount` is 0), `reply` or
`duplicate`, and `done`. `clock` is shared by the processes of one machine, `counter` is per
process; `StepBack` sets the clock back, once per fault, with the activity's window if it comes to
that. `IsDuplicateKey` is what MySQL reports as 1062 (`order_repo.go:89-92`): `uk_idem` and the
primary key alike. User ids are any `int64`: `binding:"required"` refuses only 0, while
`orders_0.user_id` is unsigned, so `InsertFails` refuses the row of a negative user without any
fault. `older[r]` is history: the requests of the process that had their id when `r` read the
clock.

`ShardKey` states `DBIndex` and `TableIndex` with division that truncates towards zero and negation
that wraps at the width `MaxInt`.

## 3. Runs

| Run | Instance | Shows |
|---|---|---|
| `core` | 3 requests of 2 users: an order sent twice, whose second send has the other user's id; 1 unit, 2 warms, 1 consumer, 1 retry, 3 faults | safety of the whole path, the inductive invariant, and refinement of `Sale` |
| `group` | 2 orders of one user, one of which MySQL refuses; 2 consumers (symmetric), keys expire, 2 warms of 2 units, limit 1, 2 faults, 1 SIGTERM | redelivery, rebalance with a message in hand and late commits keep rows, tokens and offset consistent (`Bookkeeping`, which `core` checks for one consumer); conservation and limit when stock is warmed twice and keys expire |
| `live` | 2 orders, one of which MySQL refuses; 2 consumers, 1 fault, 1 retry, 1 record that does not parse | every 202 becomes a row, or a DLQ entry if MySQL refuses it; every such token is resolved |
| `front` | 3 calls of one key, one without the header, 2 processes, limit 1, minute of 2 ticks, 2 faults, 1 expiry | the limiter and the middleware in one chain |
| `minute` | 5 calls of one user to any route, 2 processes, limit 2, minute of 2 ticks, 1 fault | two windows in one minute: three calls admitted, never four; who leaves a counter behind |
| `sync` | 4 requests: one order twice through 2 processes, a user of the same shard, a negative user; 2 units, 3 shards, 2 faults, one of which may set the clock back | the synchronous mode, and refinement of `Sale` |
| `drift` | 3 requests (two are one order, and two have one id in different shards) of 2 users in 2 shards, 1 fault | what a finding means, and that the sweeper gets it right in the end |
| `breaker` | 3 orders with one id (buyers symmetric) and one that MySQL refuses; `Volume` 3, ratio 70, 1 retry, 1 fault, 1 SIGTERM | what an open breaker can and cannot do to orders |
| `claim_*` | smallest instance that shows it | one statement of a document or comment that the code does not keep (section 6) |

**Bounds.** `MaxFaults` bounds failed, doubled or lost calls, crashes and stale rebalances
together; `MaxStops` SIGTERMs; `MaxGarbage` records that do not parse; `MaxWarms` warms;
`MaxExpiries` lives of the idempotency key; `MaxClock` the nanoseconds that pass in `SyncSale`. They
cap the number of accidents, not where they happen.
`cmd/consumer` retries 3 times; the runs use 0 or 1, because the loop treats all attempts but the
last alike and what tells the cases apart is whether attempts run out before faults do (`core`: 3
faults against 1 retry reach the DLQ callback and its failure) or after (`live`).
Two consumers are enough for a message in two hands. Stock runs out at three requests for two warms
of one unit in `core`; `group` re-warms too, and its limit of 1 with 2 units makes the per-user limit
bite. In `front` one call in another process outlives a crash. In `minute` a limit of 2 and a minute
of two ticks let one call into the end of a window and two into the next, which five calls reach with
those that find the limit. The breaker of `breaker` looks at three calls in place of five, which id
clashes and two attempts at the refused order reach together; at its ratio of 70 % two clashes alone,
or the two attempts alone, are not enough. Repeats of one key are in `claim_breaker`; one probe closes
the breaker of `breaker`, two that of `claim_breaker`. `sync` has two users of one shard in one process,
so that two overlapping `nextID` meet in the primary key, and two processes whose counters agree. What
is proved (section 5) does not depend on any of these numbers.

**Deadlock** is not checked: once every request is answered, the log is committed
and the bounds are used up, the system rests.

**Fairness.** In `FairSpec` the API goes on with a request it has received, a consumer that
has the partition goes on in its loop, and an unowned partition is assigned to a running member: the
group coordinator does that, and the deployment restarts a consumer that exits. Nothing is assumed
of the admin, the clock or the SIGTERMs. A failed call counts as a step of its caller, so fairness
does not force success; that faults are bounded does. `AckedIsMaterialised` and `TokenResolves` need
the bound to be at most the number of retries: with one more, the attempts can run out and the
message goes to the DLQ. In `DoorSpec` a call that has arrived goes on, time goes by and the key has a
TTL; nothing makes a client send a call. In `FairSweepSpec` the ticker of `ReconcileService.Run` fires
again and again and a check goes on; the order path is under no fairness.

## 4. Properties

The order path:

* `StockConservation`: while the stock key lives, units left plus units the script took
  since the last Warm are `TotalStock`, lost replies and re-runs of the script included.
* `NoOversell`: orders never exceed `Total * warms`. With one Warm this is the
  README's "no oversell". Each further Warm puts `Total` units on sale again, sold or
  not (`admin.go:35`; `cmd/seed/main.go:69` warms on every run), so the bound counts warms.
* `PerUserLimit`: no user is sold more than the limit of one warmed stock. The limit counts
  units, not orders: a lost reply can use up a user's limit.
* `AckedIsLogged`, `NothingUnpaid`: the order unit, message, answer; nothing downstream
  without payment.
* `SuccessHasRow`: a token reads `success` only if its (user, token) pair has an order, or another
  order of the shard has its id. The second case is what the code does to a clash: it reports
  success and there is no order.
* `LossNeedsExhaustion`: without SIGTERM, a committed message has a row, a row of the same id or a DLQ
  entry, unless every attempt failed and the DLQ write failed too; for an order MySQL refuses, that
  write alone has to fail.
* `Bookkeeping`: the invariant the proofs carry through the order path (section 5), in ten named parts.
* `TokenNeverRequeued`: `NewToken` comes before `Produce`, so a fast consumer's verdict is
  never overwritten.
* `AckedIsMaterialised`, `TokenResolves`: liveness, see above. The insert of every order with a 202 is
  answered in the end; one that MySQL refuses ends in the DLQ, unless a fault hit its only write there.
  A record that does not parse must not stop the orders behind it.
* `ImplementsSale`: Redis, Kafka, the group and MySQL together are one simple sale; so is the
  synchronous mode.

The components around it:

* `FindingExplained`: of a stock warmed once, the drift a check reports is at most the units that had
  no order when it began, falls short of them by no more than the orders written since, and is
  negative only by units sold since. `DriftSurfaces`: once the sale is quiet the sweeper reports
  exactly the units that were lost on the way.
* `DeadLetterHasCause`: while every call is answered, an order MySQL would take is dead-lettered only if
  the topic holds enough clashes, of keys or of ids, and attempts at refused rows to trip a breaker.
  `NothingSlipsAway`: without SIGTERM each order that is lost has cost a fault of its own, open breaker
  or not; the mutant that skips a refused message loses them for nothing.
* `HandledOnce`, `HolderIsAlone`, `ReplayIsFirst`, `AnswerStable`, `KeyFreed`: the idempotency
  middleware, behind the limiter.
* `MinuteBound`: in any stretch of a minute the counter admits at most `2 * limit - 1` calls of a user.
  The comment at `ratelimit.go:18` calls it a sliding window; it is a fixed one that opens with the
  first call, and this bound is what it keeps. `CounterKept`: the counter is without a TTL just as
  long as one call, the one that made it, has still to send EXPIRE or has lost it. `CounterEnds`: it
  goes away, whatever else fails in the chain, unless such a call lost its EXPIRE; then the user is
  locked out until someone deletes the key.
* `UnitsAddUp`: units left and units taken are `TotalStock`, although UPDATE and SELECT are two
  statements. `IdsIncrease`: an id is above every id its process had made before the call read the
  clock, as long as the clock is not set back. `ReadYourOrder`: an order promised is the one row that
  GetByID finds. `DuplicateHasCause`: a 409 has an order of the same token behind it, or an id made by
  another process, an overlapping call or a clock that was set back. `ShardExists`: Create finds a
  database for every user id.

Every property of a passing run has a mutant in `PROJECT.json`: one changed definition
with which TLC finds it violated.

**What the models teach.** With a breaker, where `FlashDeal` needs `MaxRetries + 2` failures to lose
an acknowledged order that no key and no column refuses, one failed DLQ write is enough: four attempts take 600 ms, the breaker stays
open for 10 s, so an open breaker drains the topic into the DLQ. An id made twice is refused with a
409 in the synchronous mode; in the asynchronous mode the consumer takes the same error for a success
(`order_materializer.go:55`) and the order is lost with its token reading `success`, while nothing fails:
the second case of `SuccessHasRow`, `LossNeedsExhaustion` and `AckedIsMaterialised`. The middleware
caches whatever the handler answered, a 500 included, for 24 hours. In the synchronous mode the queue
token is set to `queued` and nothing ever resolves it. A 429 of the per-user counter has already
taken a token of the global bucket. A negative user id costs a unit in both modes, and in the
asynchronous one it also fails every attempt, which counts against the breaker.

## 5. Proofs

The theorems hold for any finite set of requests or calls, any users, tokens, processes and
consumers, any stock, limits, retries, shards, widths and bounds. The assumptions are the named
`ASSUME`s of the modules: sets are finite, functions have their domains, numbers are naturals
(positive where the code divides or waits), `NoConsumer` is no member, a call is none of the key's
other values, and there are no more shards than an `int` can count.

1. `Typing`: `TypeOK` of the order path is inductive by itself. One lemma per actor, one step per
   action. The point is that the topic only grows, so offsets stay inside it (`LogGrows`), and that a
   busy consumer has fetched at least one message (`MessageType`).
2. `Conservation`, `UserLimitHolds`. `StockConservation` is not inductive: a Warm makes the new lot's
   count start at zero only if no recorded unit already belongs to it. `Ledger` adds that every
   unit's label is at most the current warm and at most the request's count, so a new label is
   new (`UnitIsNew`), and that all units sold plus those live never exceed `Total * warms`.
   `UserLedger` ties what a user bought of the lot on sale to `user_buy`; it survives
   the expiry of `user_buy` because of the lives of the two keys. `UnitSteps` reduces all
   of `Next` to the four steps that touch units.
3. `NothingUnpaidHolds`, `AckedIsLoggedHolds`, `SuccessHasRowHolds`. They are strengthened with
   `PaidFirst` (a request past the script has its unit), `AnsweredOnce` and `RowBeforeToken` (a consumer
   about to write success has seen the row, or its id taken). `ServeSteps` and `ConsumeSteps` say once what
   a step of one actor can do; each preservation lemma uses only that.
4. `NeverMoreOrdersThanUnits`: rows are of paid requests, each paid request has a unit of its own, and
   units never exceed the lots.
5. `Implementation`: `Init` maps to `Sale`'s, and each step to `Offer` (Warm), `Pay` (the script, answered or
   not), `Promise` (a 202), `Place` (an insert that clashes with nothing) or a stutter. `Pay` needs the ledger,
   `Promise` and `Place` need `PaidFirst` and `NothingUnpaid`, and that no step takes a promise back needs
   `AnsweredOnce`.
6. `TokenStaysResolved`: a token is resolved only for a message of the topic, and a request with a message is
   past `NewToken` (`TokenFirst`), so no `queued` is written after a verdict.
7. `LossNeedsEveryFailure`. `LossNeedsExhaustion` speaks of the committed offset only; what is inductive is
   `TrailKept`: the messages before the one in a consumer's hands, that one when it is about to commit, and all that
   a waiting owner has fetched are accounted for (a row, a clash, a DLQ entry), or are orders whose loss the
   faults so far can pay for (`Affordable`). It is stated for any such set, `Trail(L)`, so that 9 can use it
   with another. A late commit of an old owner, or a new owner that starts over from the committed offset, then finds everything accounted for behind it. The step that could
   break it is a failed DLQ write, and `AttemptsCost` says what led there: without SIGTERM, attempt `n` has cost
   `n` faults and giving up one more than there are retries, but for an order MySQL refuses, so one more for the
   write pays `LossCost`. `PoisonIsGarbage` covers the commit without an attempt. `TracesKept` (rows, DLQ entries
   and messages stay) is what every step of every actor keeps. `BookkeepingHolds` collects all of it.
8. `FindingIsExplained`. The sweeper reads the stock and then one shard after the other while orders are
   written. `CheckInv` compares what it has counted with two sets of rows: `Behind`, the shards it has
   been to, and `Ahead`. It has counted no more than is behind it, and what was there when it began is counted or
   ahead. The remainder it read goes with the units sold at that moment by the ledger, for a stock
   warmed once. The order path keeps its invariant under the sweeper (`PathHolds`), whose failed count is a
   fault like any other.
9. The breaker. A refusal is the one step it adds to the order path (`BreakerStep`), so the invariant carries over
   (`BehindBreaker`). `NothingIsLost` reuses 7 through `TraceInv`: without SIGTERM there is a set `L` of no more
   orders than faults for which `Trail(L)` holds; only a failed DLQ write adds to it, and that write is a fault.
   `ClashesOpenBreakers` needs `CauseInv`: while nothing fails one member has the partition from the first
   assignment on, every row is of a message it has inserted, and its breaker has counted no more failures than
   the messages behind it explain (`Behind`): every attempt at a refused row, and a first attempt at an order
   whose key or id came before. A failing attempt is then one more of them (`FailCounts`), and a breaker that
   trips on `n` failures of at least `Volume` calls has `n` of them behind it (`FailFits`). `BreakerTyping` says what
   the counts of a breaker are in each state.
10. `HolderAlone`, `HandlerRunsOnce`, `FirstIsReplayed`, `AnswerStays`: the invariant `KeyInv` adds two facts to
   the type. `RunsInOrder`: the life of a key that is absent, or whose holder is still on its way to the
   handler, has no guarded run yet, and a call about to store has run. `PastTheKey`: a call gets past the key
   only after a failure or an expiry.
11. `DoorImplements`: with the limiter's variables hidden, a step of `FrontDoor` is a step of `Idempotency` or
   changes nothing of it, so the three invariants of the key carry over (`DoorKeepsKey`).
   `MinuteIsBounded` needs a strengthening that names what the code never stores: the calls the current counter
   admitted (`Cur`) and those of the counter before it that may be younger than a minute (`Old`). While the
   counter has a TTL, one call of `Cur` is as old as the counter, so it is a minute old when the next window
   opens: `Old` never holds more than `limit - 1`. `DoorTyping` bounds the counter by the calls past the INCR
   and the faults (`CountInv`): only a lost reply counts a call twice. `CounterIsKept` rests on `StrandInv`: a
   counter without a TTL has one call owing it one (`Owing`); a counter of 0, or with a TTL, has none.
12. `IndexesAreInRange`: both functions of `pkg/shardkey`, from two facts on division of naturals. The exception is
   real: with one database the bucket of the least `int64` is that number, its negation wraps, and
   `TableIndex` is negative.
13. The synchronous mode: `UnitsAreKept` rests on `PaidOnce` (who has a unit is where in the path), `IdsGrow` on
   `IdPast` (what each call read is not after the clock, what the process counted is not above its counter),
   `OrdersAreFound` and `DuplicatesHaveCause` on `RowInv` (a row carries its request's shard and id, and no two
   rows share both). `SyncImplements` maps UPDATE, Create and the 202 to `Pay`, `Place` and `Promise`.

Model-checked only: liveness (`AckedIsMaterialised`, `TokenResolves`, `KeyFreed`, `CounterEnds`, `DriftSurfaces`), which
the prover does not reach. Every safety invariant and action property of the runs, and each refinement, is a theorem.
The strengthenings that no run lists (`CheckInv`, `CauseInv`, `CountInv`, `TraceInv`) were model-checked on the instances
of `drift`, `breaker` and `front` before they were proved.

## 6. Where documents and code differ

| Run | Document | Code |
|---|---|---|
| `claim_sigterm` | `plan/risks.md:17`: commit after the insert or the DLQ; `reports/chaos.md` "Zero loss after consumer restart" | one SIGTERM with a message in hand fails every attempt and the DLQ write, and the commit may still be stored |
| `claim_ids` | `order_repo.go:18`: `ErrOrderDuplicate` means `uk_idem` was hit | two overlapping calls of `nextID` make one id, and the primary key answers the same error to a buyer who has no order (`cmd/api/main.go:134`) |
| `claim_topup` | `reconcile.go:6-7`: an operator may top up with `Warm`; `README.md:27`: no oversell | a transient drift invites a Warm over live stock, and more than `TotalStock` orders are placed |
| `claim_breaker` | `order_materializer.go:40-41`: a duplicate insert is a success | to the breaker it is a failure: repeats of one order open it, and another buyer's order is dead-lettered while MySQL works |

Seen while modelling, without a run of their own:

* A token that reads `success` after a client retry names the id of the message, which is not the id of the row
  when an earlier message of the same token was inserted (`order_materializer.go:55-59`; `plan/api_spec.md:85`).
* When the insert works and the token write fails on every attempt, the token reads `failed` though the order
  exists (`order_materializer.go:60`).
* When the cache write of the idempotency middleware fails, the key reads `processing` for 24 hours although the
  client has its answer (`idempotency.go:112`; the comment at `:107` has only the timeout in mind). `KeyFreed` says
  that it ends.
* `ratelimit.go:18` and `plan/data_model.md:54` say sliding window; it is a fixed one, see `MinuteBound`: in run
  `minute` three calls pass within a minute whose limit is two.
* `ratelimit.go:20-21` says that Redis errors fail open. An error of EXPIRE, or a lost reply of the first INCR, does
  the opposite: the counter has no TTL and in the end the user is refused for good. `CounterKept` states it.
* An id that is made twice loses an order in the asynchronous mode too, see `SuccessHasRow`; `claim_ids` shows the
  making of it where the buyer gets to see it.

Two things the documents leave open are kept as the code has them and are not counted as
differences: a unit whose request then fails is never given back (`seckill.go:127`; the
sweeper reports it), and the DLQ write's error is dropped before the
commit (`cmd/consumer/main.go:126`), which is why `LossNeedsExhaustion` excepts it.

## 7. Not modelled

* Configuration, logging, metrics, tracing, request ids and connection pools: start-up parameters and
  observability; no state the order path depends on. Reading tokens (`OrderByToken`) changes no state.
* A restart of Redis from its append-only file, which undoes the deductions of the last second
  (`deploy/docker-compose.yml:29`). It breaks the ledger by design and the repository states nothing it should
  keep; with such an action every property of the stock would hold only between restarts. A failed call to
  Redis, Kafka or MySQL is modelled everywhere.
* The composition of `FrontDoor` with the whole of `FlashDeal`: `DoorImplements` says what reaches the handler, and
  the runs of `FlashDeal` let two requests of one token reach the service (`core`, `drift`, `breaker`),
  which is what the middleware lets through at worst. The product of the two has too many
  states for TLC.
* More than one activity or partition, HTTP bodies and codes, the overflow of the response buffer.

## 8. Plan

1. Two activities that share the topic and the consumer, to see whether one sale's poison or breaker delays
   another's orders.
2. `nextID` of `SyncSale` in the asynchronous mode, in place of the ids `IdOf` gives: which interleavings of
   the API, and not only which ids, cost an order there.
3. A `SET` of `Warm` that is sent again within the one call, with the lots of `Sale` to match.
