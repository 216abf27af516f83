# CrossHedge: specifications, model checking and proofs

CrossHedge opens and closes *hedge groups*: a position on one venue and the
opposite position on another one (Hyperliquid, Binance, MetaTrader 5).  What
has to be right is first the execution protocol around the orders: the two
venues fail independently, answers get lost, the process restarts, and an order
sent twice or a leg forgotten is money lost.  Around it are the parts that feed
it (signals, quotes, sessions, limits) and the parts that live on what it
records (fills, positions, results).  This directory models them in TLA+, checks
the models with TLC on small instances and proves the properties that matter
most with TLAPS.

## 1. The system

| component | state | operations |
|---|---|---|
| coordinator, intents (`execution/coordinator.py`, `intents.py`, `actions.py`) | `HedgeGroup`, `ExecutionIntent`, `ExecutionLeg`, `ExecutionOutbox` rows | create open / close / recovery intent, in the API process, one transaction each |
| execution worker (`execution/outbox_worker.py`, `worker_main.py`) | the rows above, `VenueOrder`, `ExecutionEvent`; claims and results in memory | repairs, claim, dispatch, submit (one thread per leg), record results, recover without resubmission, reconcile |
| event projection (`execution/venue_events.py`, `event_projection.py`) | an in-memory queue, the reconciliation flag, `Fill` and position rows | enqueue (network threads), project a batch (worker thread) |
| maker-then-market (`execution/maker_state.py`) | dynamic legs and outboxes of one intent | hedge increments, time-to-live, cancellation, market fallback, compensation |
| voiding (`execution/voiding.py`) | all rows of a group | archive a group without exposure, in the API process |
| probes (`execution/probe_runs.py`, `venues/hybrid_probe.py`) | `ProbeRun` rows, Redis state and lock | real minimal order, flatten, confirm flat |
| MT5 gateway (`mt5_gateway/`, `venues/mt5/redis_connector.py`) | Redis streams, idempotency keys | RPC over a stream, redelivery, order polling |
| connectors and private streams (`venues/`) | caches of tickers, positions, orders | submit, cancel, query; user streams |
| credentials (`exchanges/credentials.py`, `venues/manager.py`) | credential rows, connectors kept per process | save, test, build, invalidate |
| hedge pool (`execution/hedge_pool.py`) | a Redis hash of group snapshots | merge, upsert, conditional transitions under WATCH |
| positions and readiness (`execution/readiness.py`, `reconciler.py`) | the positions table | replace, project, block an opening |
| opening and closing (`market/scanner.py`, `execution/auto_executor.py`, `auto_closer.py`) | opportunity rows, capacity lock | select, open, close |
| circuit breaker (`execution/circuit_breaker.py`) | windows, baseline, threshold | trip, cool down, adapt |
| sessions and tradability (`market/mt5_schedule.py`, `mt5_sessions.py`, `mt5_tradability.py`) | calendar rows, Redis keys, quarantine rows | say whether an order may go out |
| market data (`workers/market_data.py`, `market/quotes.py`, `venues/binance/orderbook.py`) | quote cache, local order book | copy, refresh, synchronize |
| scanner, strategy, costs (`market/scanner.py`, `strategy/`) | the scan state, spread history | turn quotes into executable rows |
| results (`execution/pnl.py`, `fees.py`) | fills, fees, realized result of a group | refresh a closed group |
| legacy reconciler (`execution/reconciler.py`) | legacy `Order` rows | refresh orders, escalate groups |
| scheduler (`workers/scheduler.py`) | timers and flags | run a job when the previous round is over |
| analytics, diagnostics, API, frontend | none of their own that decides anything | reading and presentation |

One worker process drives all commands; the API process creates them and runs
the scheduler with its jobs; venues and their private streams are the
environment.  Database and Redis are what survives a crash of the worker: the
event queue, the results of the calls on their way, the caches of the connectors
and the reconciliation flag do not.

The behaviours that are hard are listed in `PROJECT.json` under `hazards`, at
the line where each bites: submissions that time out and arrive later, crashes
between two commits, claims taken again after their lease, events that overtake
answers, events lost while a stream is down, copies of state (pool, positions,
quotes, connectors) that are written by several processes without an order, and
groups projected from half of the facts.

## 2. Modules

Specifications that have an MC module or run as they are:

| module | models |
|---|---|
| `ExecutionStatus` | status sets and pure projections: report to order, report to leg, leg statuses to intent and group (`outbox_worker.py`, `venue_events.py`) |
| `OutboxWorker` (`MCOutboxWorker`, `OutboxWorkerProofs`) | the worker protocol, its rows, queue, failures, venues |
| `StableOrder` | abstract: what the protocol promises of one order; `OutboxWorker` refines it |
| `Mt5Gateway` (`MCMt5Gateway`, `Mt5GatewayProofs`) | the remote calls to MetaTrader 5 over a Redis stream: caller, consumer group, gateway, idempotency keys |
| `MakerThenMarket` (`MakerThenMarketProofs`) | one intent in the style maker_then_market: its state machine, legs created on the way, cancellations |

Parts around the worker, put together by `ExecutionParts`, run by
`MCExecutionParts`, proved in `ExecutionLemmas`, `EventAndGroupProofs` and
`ExecutionPartsProofs`:

| module | models |
|---|---|
| `HedgeGroups` | the commands of one group (open, close, recover, void) in the API process, beside the worker |
| `VenueEvents` | batches of reports of one order and the three writers of its ledger |
| `PrivateStreams` | how a report reaches the worker: user streams, the order poller of the gateway, the recovery after a gap |
| `Connectors` | one order through one connector: what is sent, how often, and what the caller is told |
| `ProbeRuns` | probe runs over one account position |
| `HybridProbe` | a paper command answered after a real minimal order |
| `HedgePool` | the Redis pool of group snapshots and its writers |
| `LegacyReconciler` | a group of an earlier version, refreshed by the API process |
| `LivePositions` | the positions table of a venue and the opening it blocks |
| `Credentials` | credentials of a venue and the connectors made from them |
| `Financials` | what a closed group earned |
| `Scheduler` | the timers of the API process |

Parts that decide what to trade, put together by `MarketParts`, run by
`MCMarketParts`, proved in `MarketLemmas` and `MarketPartsProofs`:

| module | models |
|---|---|
| `Opening` | from a signal to an opening intent: scan state, rows, automatic executor, users |
| `CircuitBreaker` | the breaker of one symbol |
| `Mt5Schedule` | the local trading calendar of an MT5 symbol |
| `Mt5Tradability` | the shared gate in front of an MT5 order, with its quarantine |
| `Pricing` | operators only: spreads, sizes, fees, signals, gates |
| `Scanner` (with `Pricing`) | one symbol in a scan |
| `SpreadHistory` | the buckets of the spread history |
| `OrderBooks` | the local order book of Binance |
| `Quotes` | from a ticker to a decision that rests on it |

Every module marks, with a comment "bugs the runs must notice", definitions
that no action uses: slightly wrong versions of the code, each of which makes
one of the properties fail.  They show that the properties are not vacuous.
## 3. OutboxWorker

### State

| variable | code |
|---|---|
| `intent`, `outbox`, `leg`, `group` | `status` of `ExecutionIntent`, `ExecutionOutbox`, `ExecutionLeg`, `HedgeGroup` |
| `order[l]` | the `VenueOrder` row of leg `l`: `status` and `filled_quantity`; `NONE` when there is no row |
| `logged` | legs with an `ExecutionEvent` row, which two repairs look for |
| `prev[i]` | `previous_group_status` in the payload of the outbox |
| `refusals` | legs whose `ExecutionEvent` tells of a refusal (10018) with an unknown result |
| `plan[l]` | `venue_order_quantity`, in lots; 0 when the leg does not exist |
| `venue`, `wire` | the order as its venue has it; timed out submissions that may still arrive |
| `queue`, `gap` | the event queue and the reconciliation flag of `venue_events.py` |
| `online`, `ever` | private stream connected, and connected before in this process |
| `phase`, `fresh`, `stale`, `sending`, `result` | the worker between two commits: claims, calls in threads, their results |
| `submitted`, `asked` | history, for the properties only |

A leg is a pair of an intent and a leg key, its venue is that of the key.  The
id of an order is derived from its leg (`_client_order_id`), so the row of the
leg stands for the id.  Quantities are lots; prices, fees, errors and audit
rows are left out.

### Actions

`CreateIntent` is the transaction of `create_open_intent` and
`create_close_intent`; a close plan may be any element of `Plans`, which covers
every residual the coordinator can compute.  `InheritUnsent` and
`InheritRefused` start from the rows that the repairs of earlier versions look
for (a command marked SENT whose legs were never dispatched; a refusal of a
closed MT5 market, retcode 10018, recorded as an unknown result).

`RollBackStale` and `RequeueUnsent` are the two repairs at the head of the
loop, `Claim` is `_claim_outbox`.  `_process_claim` is cut at its commits:
`Dispatch` ends with the commit that puts the order ids on disk, `Submit(l)` is
one call in a thread (acknowledged, rejected, answer lost though the venue took
the order, timed out with the order still on its way), `RecordResults` is the
rest.  `DeferClaim` is the closed MT5 gate, `Recover` is
`_recover_without_resubmit`.

`Project(l)` is `project_venue_events_once` for one event of leg `l`;
`QueryOrders` is `reconcile_execution_orders_once`, run by `Start` before the
loop and by `Reconcile` when the flag is set.  `VenueProgress`, `Arrive`,
`Connect`, `Disconnect` and `Crash` are the environment.

Modelling decisions a reader should know:

- Time is abstracted.  The claim lease (30 s), the repair age (300 s) and the
  MT5 back-off may pass between any two steps, so that a `PROCESSING` row may
  be claimed again as soon as the worker is idle.
- The code has one FIFO queue of events; the model has one per leg, which
  allows every order between legs and so more behaviours.  A batch is modelled
  as its events one after the other: the intent and group are recomputed from
  all leg statuses each time.
- `Crash` needs no case for a call on its way: a submission whose caller dies is
  one whose answer is lost or that times out, followed by the crash.
- `Recover` gives `FinishCommand` the orders as they were before it
  (`visible`): sessions do not flush on query (`autoflush=False`,
  `db/session.py:75`), so that `filled_any` is computed from the old rows.
- `Reconcile` clears `gap` before the queries, as the loop does; a query that
  fails is not repeated.
- A venue reports only what it has done: cumulative fills, in order on the
  stream of a venue.  Nothing the venue has filled is ever taken back.

### Runs

| run | instance | what it shows |
|---|---|---|
| `open` | one opening intent or the rows an earlier version left of it, two legs, two lots on one, a crash, a dropped stream | types; at most one submission per leg; COMPLETED, failed and recorded fills are true of the venue; fills never decrease; refinement of `StableOrder` |
| `close_after_open` | an opening then a closing intent of the same group, a crash | the repair of stale closings never touches a command that went out; a closed group has a wholly filled closing |
| `settles` | fair, a crash, a dropped stream | every claim is decided |
| `stale_fills` | no fault at all | finding: a group goes to *failed* with a filled leg |

Two legs are what a hedge group has, and every hazard of the list needs at most
two of them.  A partial fill needs two lots on one leg.  One crash lets every
claim be taken a second time, in either state of its rows; a second one repeats
the same alternatives from rows that the first already reaches.  One dropped
stream loses any suffix of the reports of a leg.  The proofs remove these
bounds for the safety properties they cover.

### Fairness

`FairSpec` assumes: the worker starts and its calls end (weak fairness of
`Start`, `Submit`, `ProcessClaim`; every call has a time-out); each iteration of
the loop drains the queue, honours the flag and claims what is due, so that
none of them is postponed for ever by the others (strong fairness of `Project`,
`Reconcile`, `Claim`: each is enabled whenever the worker is idle, which it is
again and again, not all the time); streams reconnect (weak fairness of
`Connect`: the stream loops back off and retry).  Venues, failures and the API
process owe nothing.

## 4. Mt5Gateway

### State

| variable | code |
|---|---|
| `caller` | how a call of `_rpc` ended: accepted with a ticket, rejected (`MT5GatewayError`), unknown (`TimeoutError`) |
| `message`, `old` | the command in the stream and in the consumer group; pending for 30 s |
| `response` | first entry of the response stream of the request, the one `_rpc` reads |
| `cached`, `guard` | result key (a day) and state key of an idempotency key |
| `taken` | orders the terminal has for a key |
| `phase`, `batch`, `tries`, `data` | the command thread of the gateway between two Redis operations |

### Actions

`FailFast`, `Send`, `Receive`, `GiveUp` are `_rpc`.  The command thread runs
`Boot`, `ClaimOld` (`_recover_pending`), `Read` (`XREADGROUP`), then handles its
batch in order: `CheckCached`, `CheckGuarded`, `CheckFresh` are the beginning of
`_handle`, `Query` and the four `Order...`/`TryNextMode` actions are the
terminal and `_send_with_filling_fallback`, `Store`, `Release`, `AnswerOk`,
`Ack` the end of the `try` block, `AnswerError` and `AckError` the `except`
block.  Every Redis operation inside `try` may raise, before or after its
effect (`Tried`), and leads to the refusal; in the `except` block (`Caught`) it
ends the session.  `Crash` may come between any two operations.

Decisions: requests are numbered in the order they enter the stream; `Age`
comes only after the caller has stopped waiting (15 s are less than 30 s); Redis
is durable (AOF, `docker-compose.yml`); requests with a key are submissions (a
cancellation takes the same path and has no filling modes); the length limit of
the stream and the 60 s expiry of the response stream are left out, as is the
order poller (`poller.py`).

### Runs

| run | instance | what it shows |
|---|---|---|
| `gateway_once` | two calls with one key and a query; a crash, a Redis failure, a lost reply of `order_send` and an expired result, each at any point | types; a second order only after a lost reply or an expiry; equal answers, accepted orders exist, nothing is acknowledged unanswered |
| `gateway_rejected` | one call, one Redis failure | the finding below |

Two calls with one key are a repetition, each of which can be redelivered; one
fault of each kind combines with the others in every order (the proofs have any
number of each).  Deadlock is off: a gateway with no command waits.  No
liveness is claimed of the gateway.

`OutboxWorker` treats a submission the venue refused as one that left nothing
there.  The gateway does not guarantee that (finding `gateway_rejected`), so for
MT5 legs the results of section 3 hold under that assumption only.

## 5. MakerThenMarket

One intent of the style `maker_then_market`: `maker_state.py` with the
transactions of the worker that call it.

### State

`db` is the intent's part of the database; every transaction is a function from
`db` to `db`, so that `Advance`, which is `advance_maker_intent`, can end each of
them.

| field or variable | code |
|---|---|
| `db.intent`, `db.group`, `db.leg`, `db.order` | as in OutboxWorker, for the legs of one intent |
| `db.outbox` | the outbox rows in the order of their ids: submissions and cancellations, one leg each |
| `db.qty` | `venue_order_quantity` of a leg; 0 while the leg does not exist |
| `db.finished` | the group event `maker_..._completed` of the intent exists |
| `expired` | `maker_ttl_seconds` have passed since the maker leg was created |
| `venue`, `wire`, `queue`, `online`, `ever`, `gap`, `phase`, `fresh`, `stale`, `result`, `submitted` | as in OutboxWorker |

The legs are the maker, its fallback, one compensation and hedge increments 1 to
`Target`; one lot of hedge covers one lot of maker (`hedge_target_quantity` over
`maker_target_quantity`).

### Actions

`Advance` has the order of the code: cancellation, fallback, hedge, failed
hedge, completion; each returns after one step.  `Project` reads all events that
are queued and then advances once.  `enqueue_execution_leg` raises for an intent
that is over: `Raises` says when, and then the transaction has no effect except
that the events are gone (`Project`), or the rest of the claims is dropped
(`AdvanceAfter`).  `Timer` is `advance_execution_timers_once`; the repairs, `Claim`,
`Defer`, `Dispatch`, `Submit`, `Record`, `Recover`, `Start`, `Reconcile` are those
of OutboxWorker for commands of one leg, `Cancel` and `RecoverCancel` are
`_process_cancel_claim`.

Decisions: market orders are over as soon as their venue has them, though the
answer may say ACCEPTED and the report come later; a cancellation may be accepted
for an order that is over (`hyperliquid/connector.py:332` ignores the venue's
answer, and Binance reports that case as an error, which is `CancelRaises`);
whether the venue acts on a cancellation is left to it.  Left out: spreads, the
group's quantities, the opportunity row, specifications that cannot be read
(`_maker_spec`), the claim limit of 20 rows.

### Runs

| run | instance | what it shows |
|---|---|---|
| `maker_fallback` | open, two lots, fallback, no fault | types; hedges follow fills, the fallback waits for the end of the maker order and takes just the rest, no event is lost |
| `maker_restart` | close, one lot, automatic flattening, a crash, a disconnection, an unanswered submission | nothing is sent twice; an intent that is over has left nothing at the venues, compensations included; whole groups are whole |
| `maker_hedged` | open, one lot, a crash, fairness | fills the worker knows of are hedged, or given to an operator |
| `maker_unhedged` | two lots, fairness | the finding below |

Two lots are the least with which an order can be filled in part, a second
increment exist and the fallback take a rest; two unread reports let an event be
stale.  An intent that gave lots back is exempt from the
part of `OverMeansMatched` and `FillsAreRecorded` that says no order is left
working: `_handle_failed_hedge` (`maker_state.py:277`) ends the intent after its
compensation without asking whether the maker order or the fallback still works
(section 9), which any instance of two lots with automatic flattening shows.  `maker_hedged`
has one lot and no disconnection: with two the property fails as
`maker_unhedged` shows, and with a disconnection it fails the same way, since
an ACCEPTED report that was queued before the reconciliation query sets the leg
of an order that is over back to SUBMITTED, and the timer cancels it again.
Deadlock is off: an intent ends.

Fairness (`maker_hedged`, `maker_unhedged`): the loop of the worker runs each of
its steps again and again, time passes, streams reconnect.  Nothing is assumed
of the venues, and nothing of the repairs.

## 6. The parts around the worker (`ExecutionParts`)

Each part has a module of its own, with its state, its actions and its
properties, and is checked alone: the parts share no state, so that
`ExecutionParts` chooses one of them at the start, and a behaviour runs that
part on as many of the sixteen variables as it has.  `MCExecutionParts` extends it
with the three functions a configuration cannot write; all other constants have
their values in `ExecutionParts.cfg`.  A property of the run is
the conjunction of the properties of the parts that ask the same question.  What
connects the parts are assumptions one makes of another, named below; they are
not composed, since the state spaces would multiply and each hazard lies within
one part and its environment.  Deadlock is off: bounded parts end.

| part | instance | properties |
|---|---|---|
| `HedgeGroups` | two venues, two lots and one, three commands, a crash | `OneAtWork`, `OneActive`, `GroupFollowsLatest` |
| `VenueEvents` | two lots, one drop of the stream, one repetition, the reconciler beside | `NeverOvercounted`, `LedgerCovers`, `FilledIsKnown` |
| `LegacyReconciler` | two platforms, two lots | `LegacyLedgerReal`, `OpenOnBothSides`, `ShadowIsReal` |
| `HybridProbe` | two probes, one of them a maker, one fault, which may be the loss of the maker's lock | `SafeMeansClosed`, `ExposedIsLocked`, `EntersOnce` |
| `ProbeRuns` | two runs of two lots on one account | `FlatMeansClosed` |
| `HedgePool` | five ticks, loads beside writers | `LoadRepairs` |
| `Connectors` | four kinds, up to five units, step two, three filling modes | `AnswersAreTrue` |
| `PrivateStreams` | three kinds, four reports, two faults | `NoSilentLoss` |
| `Financials` | two prices of opening fills, both commission conventions | `RealizedIsCash` |
| `Credentials` | two payloads, two callers, two saves | `RightsFollow`, `ReadyCanTrade` |
| `LivePositions` | two positions, three ways to follow a venue, three changes, two faults | `TableFollows`, `ReadyIsExplained` |
| `Scheduler` | two jobs, two starts | `NeverForgotten`, `FlagIsHeld` |

**HedgeGroups** (`coordinator.py`, `actions.py`, `voiding.py`).  The commands of
one group are transactions that lock the group row; the worker projects onto the
same rows without that lock.  Closing and recovery plans are made of the
residuals of the ledger (`_fill_residuals`), not of the orders.  The worker is
coarser than in OutboxWorker: a command is taken, dispatched, sent leg by leg,
recorded.  At no time are two commands of a group at work, and the group shows
what its latest command came to.  `LateEvents` is FALSE: a command comes only
when the streams owe nothing; section 9 says what happens otherwise.  `StreamFills` is FALSE: fills come by the answers and the queries; with
TRUE (fill events besides) the same properties hold, in 775 127 states.

**VenueEvents** (`venue_events.py`, `event_projection.py`, `fills.py`).  An order
event has the cumulative quantity, a fill event one trade; both, the answers of
the gateway and the API process's reconciler write the same ledger.  Batches have
every size, an event may come twice or be lost.  A lot is one trade, which names
the fill event.

**PrivateStreams** (`venues/*/`, `mt5_gateway/poller.py`, `worker_main.py`).  A
report is known, on its way, or about to be asked for.  Three things are excluded
by history variables, because the code does lose them: reports older than the
first connection (no reconciliation is asked for), those a failed query has
passed over, those of a gateway that was restarted.

**Connectors** (`venues/binance/`, `hyperliquid/`, `paper/`, `mt5/`).  The worker
reads an exception either as "the order does not exist" or as "nobody knows".
What is called certain is so, a call that sends more than once (the clock of
Binance, the filling modes of MT5) leaves one order, and an order called over is
over.  Quantities are in units, `Step` of which make one step of the venue.  A
lost reply of `order_send`, which the gateway takes for an unsupported filling
mode, is left to `Mt5Gateway`, where it is counted.

**ProbeRuns, HybridProbe** (`probe_runs.py`, `hybrid_probe.py`,
`order_event_waiter.py`).  A run is FLAT only when the account's position is what
it was; with two runs on one account the baseline of one contains the lots of the
other.  The hybrid probe keeps its state in Redis between calls, under a lock that
expires.  `CrashAtSubmit` is FALSE (section 9).  `held` is what a probe has opened
and not closed, `position` the account's lots of the symbol, which the code asks
for before the entry and at the end; a closing order is for what its entry
filled (`Size`).

**HedgePool** (`hedge_pool.py`).  Writers put snapshots without looking; a load
compares versions.  One undisturbed load repairs whatever the races left.

**LegacyReconciler** (`reconciler.py`).  One pass refreshes the two orders of a
group from the venue, by cumulative quantity or by the list of trades, moves the
group and writes the shadow intent.

**LivePositions** (`reconciler.py`, `venue_events.py`, `readiness.py`).  MT5 is
polled by a snapshot, Hyperliquid and Binance keep a cache their stream updates.
The table that blocks openings follows the account but for changes nobody was
told of (`missed`).  `EarlyUpdates` and `SilentErrors` are FALSE (section 9).

**Credentials** (`exchanges/credentials.py`, `venues/manager.py`, the exchange
routes).  Two threads ask for a connector while its row is saved, deleted and
tested.  No connector that may trade is handed out for a row that is read-only,
and a venue that is ready can trade.  `Shown` gives both payloads the same
fingerprint, which is what redaction does to two keys of equal shape.

**Financials** (`pnl.py`, `fees.py`).  Order and fill channels write one row in
turn, so that price and commission go back and forth; when both are through and
the group was reconciled since, its result is the cash that changed hands.
Averages are kept times two, which makes them integers.

**Scheduler** (`workers/scheduler.py`).  One chain of timers per job and start.
Every job has a round to come, and a flag is set only while a round is at work.

## 7. The parts that decide what to trade (`MarketParts`)

`MarketParts` and the run `market_parts` are built like `ExecutionParts` and
`execution_parts`.

| part | instance | properties |
|---|---|---|
| `Opening` | one signal, two rows, a user, one group allowed | `OverrunIsBounded`, `ExecutingIsOwned` |
| `CircuitBreaker` | two directions, two spreads, six quotes, three ticks | `TripIsWarranted` |
| `Mt5Schedule` | six templates and windows over midnight and the weekend, every half minute that matters | `ScheduleIsTrue` |
| `Mt5Tradability` | one side, one loss of Redis, one change of the market | `BlockHolds` |
| `Scanner` with `Pricing` | three kinds of pair, prices 0, 1 and 3 | `ScanIsSound` |
| `SpreadHistory` | three buckets, three samples in each, a rollback or restart | `BucketsAreWhole` |
| `OrderBooks` | four updates cut into events in every way, two levels | `BookIsTrue` |
| `Quotes` | two legs, staleness two ticks, synchrony one | `DecisionsAreFresh` |

**Opening** (`scanner.py`, `auto_executor.py`, `coordinator.py`).  The capacity
lock covers the count but not the commit, so that the limit can be overrun, by no
more than the openers beside one.  The model has one process; the lock is one of
a process only, and a second API process would add its openers.

**CircuitBreaker** (`circuit_breaker.py`).  Jitter is the share of changes of sign
in a window, in sixtieths, which every window of the instance divides.  The
percentile is an order statistic: the sample that no more than three quarters are
below and more than three quarters are not above.  A trip has
a direction that turned in its window and a ratio beyond the multiple of all but a
quarter of the samples.

**Mt5Schedule** (`mt5_schedule.py`).  Time is in half minutes, the finest step
of the templates.  The code's search over three days is compared with a reference
definition round the week, for each template at the edges of every window and
their neighbours, between which no answer changes; and a symbol opens when it is
said to, so that the retry of a held command comes in time.

**Mt5Tradability** (`mt5_tradability.py`, `mt5_sessions.py`).  Key in Redis, row
in the database, state in memory; an update is read, decide, write.  A
committed quarantine is answered "not allowed" until it is over, by both readers,
whatever the two processes write meanwhile, and again from the first refresh
after Redis lost it.

**Scanner, Pricing** (`scanner.py`, `spread_math.py`, `position_sizing.py`,
`cost.py`, `statistical_signal.py`).  A scan reads what it needs step by step; all
of it may change in between, so that each read is a choice.  At most
one direction of a symbol is executable, never one of a pair that is only shown,
and the row of the symbol says so exactly when a direction does.  Prices are
integers; the code computes with floats.

**SpreadHistory** (`scanner.py`).  The accumulator belongs to the process, the
row to the transaction.

**OrderBooks** (`venues/binance/orderbook.py`).  A snapshot may show any update;
events are lost, repeated and late.  A synchronized book is the exchange's.

**Quotes** (`workers/market_data.py`, `quotes.py`, `preflight.py`,
`auto_closer.py`).  A quote has the age since it was received, which the checks
see, and the age since the exchange showed it, which nobody sees.  A decision
rests on prices within the bounds the code checks plus the time of one
transmission, although two threads write quotes out of order.

Some formulas are kept in the modules though no run checks them, since the code
does not satisfy them in full (section 9): `OutboxWorker.UnknownIsQueried`,
`MakerThenMarket.FailedMeansOver`, `HedgePool.NewGroupKept`,
`PrivateStreams.RecoveryIsRetried`; `HedgePool.AheadMeansOpen` is a
consequence a reader may want.

## 8. Findings

| run | where | what |
|---|---|---|
| `stale_fills` | `outbox_worker.py:1154` | recovery computes `filled_any` before its own fills are flushed; a group goes to *failed*, reason "all unfilled", with a filled leg |
| `gateway_rejected` | `mt5_gateway/main.py:137` | a Redis error after the trade is answered like a refusal, which the connector takes as proof that no order exists |
| `maker_unhedged` | `venue_events.py:339` | the CANCELED event of a partly filled maker leaves its leg PARTIALLY_FILLED, taken for working: it is cancelled again and again and its fill is not hedged, while a query of the same order would have ended the leg |

The counterexample of each is what TLC prints for the run.

## 9. Further disagreements

They came up while modelling and are not among the runs, but a constant or a
formula shows each.

Execution:

- `venue_events.py:332`: an event of one leg marks the command SENT while the
  other leg is UNKNOWN; nothing queries that one until a restart or reconnection
  (`OutboxWorker.UnknownIsQueried`, one opening intent, fair).
- `maker_state.py:296`: a failed hedge that was given back ends the intent while
  the maker order still rests; it is never cancelled, and a later fill raises and
  is lost (`MakerThenMarket.FailedMeansOver`, two lots, no fallback, flattening).
- `maker_state.py:260`: what is given back includes lots whose hedge is still on
  its way; both fill and the position turns around.
- `outbox_worker.py:609`: a cancellation accepted after the end sets the intent
  to RUNNING, where it stays.
- `outbox_worker.py:249`: the timer marks a command SENT that a crashed worker
  had claimed and not dispatched; the repair of such commands sends it later.
- `coordinator.py:487`: a superseded intent is not protected from late events,
  which complete it again after its recovery is at work: `HedgeGroups!OneAtWork`
  fails with `LateEvents <- TRUE`.
- `native_connector.py:412`: no answer from `order_send` is handled like an
  unsupported filling mode and the order is sent again.  `RepeatsAreCounted`
  counts such repetitions.
- `mt5_gateway/main.py:132`: a pending command outlives the result key that
  protects it; `taken[k] <= 1` fails with `MaxExpiries = 1` and a crash.
- `hybrid_probe.py:4`: "never resubmits" does not hold for a crash between the
  submission and the save after it: `EntersOnce` fails with `CrashAtSubmit <- TRUE`.
- `order_event_waiter.py`: a seeded answer overwrites a newer snapshot of the
  stream; the wait then lasts to its timeout.
- `worker_main.py:53` says that a step of the recovery that fails is retried;
  `sync_live_positions` swallows its failures and a failed query is passed over
  (`PrivateStreams.RecoveryIsRetried`).  The first connection of a process asks
  for no reconciliation, and the MT5 reader never starts when the gateway's
  heartbeat is missing at the start (`redis_connector.py:60`).
- `hyperliquid/connector.py`: a cancellation's answer is ignored, and an order
  cancelled for want of margin is REJECTED even with fills.
- The legacy reconciler passes over a group once it has a shadow intent, so that
  each gets one pass, though its docstring says it asks again for groups in
  between.

State beside the database:

- `hedge_pool.py:94`: a group created while a load runs is taken out of the pool
  again, and the comment says that it is not (`HedgePool.NewGroupKept`).
- `reconciler.py:189` says that only a whole snapshot replaces the positions.
  Binance calls its cache ready at the first incremental update, and
  `native_connector.py:128` takes an error for "no positions":
  `LivePositions!TableFollows` fails with `EarlyUpdates` or `SilentErrors` TRUE.
- Positions are matched with groups by symbol and size: a failed group of the
  same size hides an orphan, two groups of one symbol look like one.
- The fingerprint of credentials hashes redacted values; the worker's process,
  which nobody invalidates, keeps a connector with old credentials until it is
  restarted (`manager.py:30` says otherwise).  With `Overlap <- TRUE` the result
  of a test of old credentials overwrites a save.
- `scheduler.py:51`: after a stop and a start a job may have two chains of rounds,
  and `scanner_job` has no flag that would keep them apart.

Decisions:

- A rollback of `persist_scan_state` or an exception of the auto executor sets a
  row back to *executable* over whatever it had become (`auto_executor.py:147`);
  a voided intent leaves its row *executing*.
- A reload of the breaker's settings overwrites the adapted threshold; `block()`
  is called by nobody.
- `evaluate_auto_close` documents a holding time and a minimal profit it does not
  check; `fees.py` documents rebates that `commission_cost` cuts to zero; pairs
  that are only shown are not checked for reversed quotes; realized results leave
  out funding and swap.

## 10. What is proved

Theorems are about every value of the constants: any number of legs, lots,
commands, rows, threads, faults.  Each rests only on the `ASSUME` of its module,
which says no more than what the constants are; the two compositions collect the
assumptions of their parts (`PartsAssumption`).  Every proof has the same plan: an
inductive invariant, one lemma per action (or group of actions) that preserves it,
and the property as a consequence.  The tables give the property of a run that a
theorem states.

### The worker (`OutboxWorkerProofs`)

`TypeCorrect`, `InvariantHolds`, `SubmittedOnce`, `StableIdFirst`,
`UnsentUntouched`, and `WorkerKeepsPromise`: the worker implements `StableOrder`.
"Submitted at most once" is not inductive: nothing in it says why a claim that is
dispatched was never dispatched before.  `SubmissionInv` says it: as long as the
outbox row is PENDING or CANCELED, or claimed and not yet dispatched, no leg has
an order row (`IntentSafe`); without an order row nothing was sent; a leg whose
call is on its way was not sent before, and has its row (`LegSafe`).  The repairs
keep it because they look for order rows, not at leg statuses.  The projections of
reports (`RecordResults`, `Recover`, `Project`, `Start`, `Reconcile`) share one
lemma, since all they do to an order is to keep it recorded.  `SubmissionInv` and
`StableIdPersistedFirst` are in no run, since the theorems say more.

The rest of the safety of the worker rests on `TruthInv`, beside `SubmissionInv`:
`TruthHolds`, from which `FillsAreReal`, `FillsStay`, `CompletedIsFilled`,
`FailedIsOver` and `ClosedIsFilled` follow.  None of these is inductive, since an
answer that is applied may have been given, queued or lost and asked for again
long before.  `TruthInv` says of each leg that its order row, every report in the
queue, the answer of its call and a refusal on record are true of its venue now
(`LegSound`), which survives the moves of a venue because fills only grow and an
order that is over stays over; of each intent that its completion rests on filled
legs, and that a closing intent exists only beside a filled opening
(`IntentSound`: without it a late report on the opening could undo the verdict on
the closing); of each group what its last verdict rests on (`GroupSound`).  All
transactions that book reports are shown to be one kind of step (`Booking`), and
so are those that tell nothing of a venue (`QuietKeeps`).

### The gateway (`Mt5GatewayProofs`)

`GatewayTypeCorrect`; `AnswersAreSound`, from which `AcceptedCallsAreReal` and
`NoCommandDropped` follow; `OnceHolds`, `OneOrderAndTheLosses`,
`AcceptedCallsAgree`: at most one order per key plus one per lost reply and
expired result, and equal answers until the first of them.  The invariant is
`Protected`: from the trade on, the state key is set until the result is on
record, unless a loss accounts for the order.

### Maker-then-market (`MakerThenMarketProofs`)

| theorem | property |
|---|---|
| `MakerTypeCorrect` | `TypeOK` |
| `SentAtMostOnce` | `SubmittedOnce` |
| `HedgesFollow` | `HedgeFollowsMaker` |
| `FallbackIsLast` | `FallbackAfterMaker` |
| `NeverOverfilled` | `NoOverfill` |
| `OverIsMatched` | `OverMeansMatched` |
| `WholeIsHedged` | `WholeMeansWhole` |
| `ReportsAreKept` | `FillsAreRecorded`, an action property |

for any target, both kinds of intent, with and without fallback and flattening.
The invariant is about the database as every transaction leaves it (`Sound`): the
quantities of the legs are those their roles allow and have one submission each; no
order was sent without its row; what is recorded never exceeds the venue, and a
leg that is over is over there, with all its fills recorded (`RecordsAreTrue`); the
fallback covers what the maker order, at its end, left open (`FallbackCovers`);
the hedges asked for never exceed the maker's fills (`Covered`).  `OverKnows` is
`OverMeansMatched` restated of what the worker *knows*, without which the step
that ends an intent on recorded fills could not be told to be right about the
venue.  Around the database every report in a queue is true of its venue, a
settled one for good (`ReportsAreTrue`), a claim that is at hand was never sent
(`FreshIsUnsent`), and the call on its way is recorded (`InFlightIsRecorded`,
`ResultIsTrue`).  Since each transaction is a function of `db`, there is one lemma
per function (`RunningSound`, `RequestCancelSound`, `EnqueueSound`, `AnswerSound`,
`AdvanceSound`), and the actions combine them (`Commits`).

The sums over hedges (`OfHedges`) and the books after all reports of a queue
(`Read`) are recursive functions.  That such a function exists and unfolds as it
is defined is proved by induction over the index (`Induction`, from the
well-foundedness of the natural numbers: a set that contains 0 and with n also
n + 1 contains every number); the library's theorems that take an operator are
not used.

`OverMeansMatched` and `FillsAreRecorded` exempt an intent that gave lots back.
The attempt to prove them without showed that they are false, for two lots with
automatic flattening or with a fallback: `_handle_failed_hedge`
(`maker_state.py:277`) ends the intent after its compensation while the maker
order or the fallback still works (section 9).

### Event batches (`EventAndGroupProofs`)

Any order size, drops and repetitions: `OrdersAreNotOvercounted`,
`NoFillIsLacking`, `FilledOrdersAreKnown`.  The first needs that every report,
wherever it is (in the queue, projected, in an answer), and the order itself say
no more than the venue has done (`TruthInv`).  The second is about what is *not*
there: the ledger counts at least the fill events that were projected, and as long
as nothing was missed every filled lot has its event projected or in the queue
(`LedgerInv`).  For the third, an older snapshot must not be applied after the
last one: whatever follows the last snapshot in the queue is a repetition of what
is projected or ahead of it (`KnownInv`, `Repeated`), and a batch skips it.

### The parts around the worker (`ExecutionLemmas`, `EventAndGroupProofs`, `ExecutionPartsProofs`)

| theorem | property | for |
|---|---|---|
| `NothingIsLost` | `NoSilentLoss` | all constants |
| `LoadsRepair` | `LoadRepairs` | all constants |
| `TrueLedgers` | `LedgersAreTrue` | `~EarlyUpdates /\ ~SilentErrors` |
| `SafeProbes` | `ProbesAreSafe` | `~CrashAtSubmit` |
| `TrueAnswers` | `AnswersAreTrue` | `~Overlap` |
| `RealizedCash` | `RealizedIsCash` | `~LateAnswers` |
| `OneIntentAtWork` | `OneAtWork` | `~LateEvents` |
| `TrueGroups` | `GroupsAreTrue` | `~LateEvents` |
| `TypesHold` | `TypeOK` | all of the above but `~Overlap` |

A hypothesis names a constant that admits a behaviour for which the property is
false; the run has the same value, and section 9 says what the code does there.
`LateAnswers` is the late answer of a gateway that brings an older price and fee
after a newer report; `LateEvents` lets a command come while a stream still owes a
report.  The types of a part whose invariant has a hypothesis are proved under it, since
they rest on that invariant; whether they need it is not settled.
With these, every invariant of `execution_parts` is a theorem.

`ExecutionLemmas` proves each part with its variables under names of their own
(`L` in `ExecutionPartsProofs`), and `EventAndGroupProofs` does so for `VenueEvents`
and `HedgeGroups` (`Reports`); the lemmas `Same...` say that the part in
`ExecutionParts`, on the shared variables, is the same, and `PartsInvariance` that
the invariant of the part that runs always holds.  The invariants:

- `HedgeGroups` (`GroupInv`), for any number of commands and crashes and any lots,
  with or without fills on the streams: the two properties say what the *latest*
  command came to, but what threatens them is what earlier ones left behind.
  So the invariant says of each leg that neither its row, nor the answer of a call
  under way, nor a report still owed says more than its venue has done (`LegIs`,
  `RowIs`, `ReportIsTrue`); of each command that another one followed that nothing
  of it can move any more, at a venue or in a row, and that something of the group
  was filled before (`PastIs`), which needs that a plan made of residuals asks for
  something only where something was filled (`ExposureIsFilled`); and of the newest
  that the group shows what its rows tell (`NewestIs`).  The hard case is the void:
  it closes the rows of legs whose order may work at the venue, after a call whose
  answer was lost.  Nothing comes of it because no leg of the other venue then has a
  fill on record that a command could rest on (`VoidCloses`).
- `PrivateStreams`: what was reported is known, on its way (wire or queue), about
  to be asked for, or excused; the gateway's poller watches an order that is not
  over and has emitted no more than there is (`PollerInv`).
- `Connectors`: a call that goes on has had no order taken (`Untaken`), and an
  order that is over has the size asked for, rounded only at Binance (`Placed`).
- `LegacyReconciler`: a row says that an order is over only when it is
  (`RowsAreReal`), and a group that was opened or closed has both sides in the
  ledger (`BothRecorded`), which is more than its status says.
- `LivePositions`: per position, what is on its way ends with the account, and
  where nothing is on its way the table, or the table a sync is about to commit,
  has it already (`Following`); a sync runs only as the worker starts, with the
  cache equal to the account (`Syncing`).
- `HedgePool`: versions only grow and no copy is younger than the row (`Ages`);
  a load nothing disturbed has read the row as it is (`Undisturbed`).
- `ProbeRuns`: what is known of an order is true, and final once the leg is
  (`OrderOf`); the exit is of what the entry filled when it was final (`Chained`).
  With it, one run's lots are its own whatever the others do to the account, and
  the sum over all runs is bounded by induction over them (`SumIsBounded`).
- `HybridProbe`: what the thread knows at each step (`ThreadInv`), what venue,
  saved state and waiter know of each probe (`ProbeInv`), and, while no lock has
  expired, that only the owner of the lock has a position or a working order, and
  the account's position is the owner's (`LocksInv`): this makes the look at the
  account before the end a proof that the probe itself is flat.
- `Financials`: once both channels have told of all of an order its row is the
  exchange's, and no more before (`PaidOf`); a result that is not out of date is
  what the rows say (`ResultIs`).  The sums and averages over the two legs are
  unfolded.
- `Credentials`: a connector is kept under the identity of the row it was made
  from (`RightsInv`), and a test under way is about the row as it is
  (`TestsAreOfTheRow`).
- `Scheduler`: a job of a scheduler that is up keeps the round of its last start,
  whose timer only a stop cancels (`RoundToCome`), and the rounds of later starts
  have not begun (`NotBegun`).

The models of five parts were restated where they could not be reasoned about:
`HybridProbe` keeps the account's position, which the code asks for, instead of
summing fills of all probes, and closes for what the entry filled; the newest of
several reports in `PrivateStreams` is a maximum instead of a fold;
`LivePositions` assumes that there are finitely many positions.  `HedgeGroups` sums
over commands with a recursive function, has quantities of any size, and assumes
two venues, as a hedge has in the code.  `ProbeRuns` assumes finitely many runs.  The
type of what a probe holds at a venue is an integer: after its lock has expired a
closing order may be sent again, and the bound in terms of one order's quantity
that the type had is not one for all constants.  So were two of `MarketParts`: `CircuitBreaker` speaks of the moves of a window as a set of indices
and of a percentile by counts, where it filtered and sorted sequences (TLC found
the two forms equal on all short sequences), and `SpreadHistory` bounds the
samples of a bucket instead of those of a run.

### The parts that decide what to trade (`MarketLemmas`, `MarketPartsProofs`)

| theorem | property |
|---|---|
| `OverrunBound` | `OverrunIsBounded` |
| `SoundScans` | `ScanIsSound` |
| `WholeBuckets` | `BucketsAreWhole` |
| `TrueMarketData` | `MarketDataIsTrue` |
| `TrueTradability` | `TradableIsTrue` |
| `WarrantedTrips` | `TripIsWarranted` |
| `PartsTypes` | `TypeOK` |

for all constants, with the same layout: each invariant of `market_parts` is a
theorem.  The invariants:

- `Opening`: a group that is flushed and not committed belongs to one opener, and
  each opener has one at a time (`FlushedInv`); the check is made by each of them
  under the lock, so that the count goes over the limit only by those beside it.
  `ExecutingRowsAreOwned` says of the rows whose group they have.
- `Scanner`, `Pricing`: a direction is executable only if it earns more than a
  guard that is never negative, and the entry spreads of quotes that are not
  reversed never add up to a gain (`OneWayPays`), so that both directions cannot
  be worth it at once; the invariant carries that from the rows of a scan to those
  it stores.
- `SpreadHistory`: the samples of the bucket in memory and of the row add up to
  those taken (`Counted`), and the accumulator is of the newest bucket; what has
  been counted in either never exceeds what was taken (`Capped`), which bounds their
  types.
- `CircuitBreaker`: each direction's ratio is that of its window (`BreakerInv`),
  whose samples are in the order of time and no further apart than the detection
  time (`InOrder`, `Short`).  A ratio above zero needs a change of sign, and two moves
  one after another that go opposite ways, however many equal spreads lie between
  them, give the turn (`MovesMakeTurn`).  There is a sample at every index of the
  sorted ones, the least with more than the index not above it (`SampleAtIndex`), and
  so at most a quarter of the samples reach a ratio beyond the multiple of the 75th
  percentile (`FewAbove`).
- `OrderBooks`: the copy is the exchange's book after the update it names, for
  every update a snapshot or a row of events can bring it to; a level stays what it
  is over the updates of other levels (`LevelKept`).
- `Quotes`: a stamp is never older than the price it is put on, and lags by one
  transmission at most (`Truthful`); a decision rests only on quotes whose stamps
  it compared.
- `Mt5Schedule`: no invariant but arithmetic.  For *any* set of windows and any
  moment, the session found is the one the week prescribes, and the time to the
  next opening leads to one, with none before: a start within the coming week is
  the start of one of the eight days the code looks through (`StartsByDay`), and
  weeks are alike (`WeeksApart`).
- `Mt5Tradability`: while Redis can be trusted the key lasts at least as long as
  the quarantine, and neither is longer than one quarantine from now (`Held`); the
  first refresh after a loss brings the key back.

### Only model-checked

- the liveness properties `CommandSettles` and `FillsAreHedged` (liveness and
  ENABLED are out of the prover's reach);
- what section 9 says the code does outside the hypotheses of a theorem.

Every invariant and every action property of a passing run is a theorem.  Where a
proof needs induction over numbers (the sum over the commands of a group, the
books after the reports of a queue, the sum of what the runs hold on one account)
it uses a lemma about sets of numbers, `Induction`, proved from the well-foundedness
of the natural numbers, instead of the library's theorems, whose operator parameter
no installed prover can instantiate.


## 11. Not modelled

- Carry costs, analytics, diagnostics, replay, equity history: reports in
  floating point over rows that the modelled parts write.  They decide nothing
  and have no protocol.
- API routes, authentication, settings, frontend, migrations, start-up of the
  database: request handling and presentation.  Where a route changes the state
  of a component (credentials, groups, sessions, voiding), the change is an action
  of that component.  Hyperliquid account-history rebuilding of legacy orders is
  a one-time repair of rows of the first version.
- Gateway: heartbeats, instrument snapshots, the bootstrap of the terminal.  They
  write values with a lifetime that readers only test for presence.
- Connectors: signing, instrument metadata, market subscriptions.
- Market data: the depth weighting of the order book cache.
- Scanner: statistics in floating point (percentiles and deviations are inputs
  that a scan reads); strategy conditions of a close.
- Risk engine: drawdown and notional figures.
- Results: the unrealized result of an open group.

## 12. What is left

1. Composition of `OutboxWorker` with `VenueEvents` (batches with fill events) and
   with `Mt5Gateway` (a refusal that is none, section 4), each with its own
   abstract promise.
2. Heartbeats of the gateway with the readiness checks that rest on them.
