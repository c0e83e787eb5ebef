# Bot trader: a TLA+ verification project

Bot trader is a multi-tenant trading-signal service: strategies are evaluated on
market data, the signals they produce are delivered to subscribers' channels
(chat, e-mail, webhooks, or orders on an exchange), and backtests, outcomes and
billing surround that core. It is a FastAPI process and arq workers over one
PostgreSQL database (SQLAlchemy, READ COMMITTED) and one Redis. The
specifications in this directory model the parts of it where concurrency, failure
and ordering decide whether it is correct. Source paths below are relative to
`src/app/`.

## 1. The system

### Components

| component | code | state it keeps | operations |
|---|---|---|---|
| signal generation | `services/signal_service.py`, `workers/scheduled_signals.py`, `api/v1/signals.py` | `signals` rows; Redis daily counter, cooldown and last-run keys | generate, force, the 5-minute cron |
| delivery | `workers/deliver_signal.py`, `workers/retry_delivery.py`, `services/delivery_service.py`, `repositories/delivery.py` | `signal_deliveries` rows; queued jobs | fan out, send, mark, retry, give up |
| circuit breaker | `core/circuit_breaker.py` | Redis failure counter and open flag per channel | ask, record failure, record success |
| throttles | `workers/deliver_signal.py` 33-64, 282-356 | Redis minute and hour counters | filters, quiet hours, rate limits |
| API rate limit | `api/middleware/rate_limit.py` | Redis window counter | admit or refuse |
| exchange channel | `channels/exchange.py` | the account on the exchange | gate, close opposing, enter, stop loss, take profit |
| notification channels | `channels/*.py` | none | send, health check |
| channel management | `services/channel_service.py`, `repositories/channel.py`, `workers/health_check_channels.py` | `channels` rows, encrypted configuration; Redis failure counter | CRUD, test, ping |
| neutral notifications | `workers/notify_neutral.py` | none | tell the channels of matching subscriptions |
| outcomes | `services/outcome_service.py`, `workers/compute_outcomes.py`, `workers/deliver_outcomes.py` | `signal_outcomes` rows, `signals.is_profitable` | resolve, notify |
| backtest jobs | `services/backtest_service.py`, `workers/run_backtest.py`, `repositories/backtest.py` | `backtests`, `backtest_trades` rows; one job each | submit, cancel, run |
| market data | `core/market_data.py` | none | fetch, page, retry, fall back |
| backtest engine | `core/backtest_engine.py` | none | simulate, summarise |
| strategies' rules | `strategies/*.py` | none | a verdict from indicator readings |
| plans and limits | `core/plan_limits.py`, `services/plan_service.py`, `api/v1/admin.py` | `plans`, overrides | resolve, check capacity, administer |
| strategies, subscriptions | `services/strategy_service.py`, `services/subscription_service.py` | their rows | CRUD, matching |
| billing | `services/billing_service.py`, `payments/` | the tenant's plan and status | checkout, webhook events |
| accounts, API keys | `services/auth_service.py`, `services/api_key_service.py`, `dependencies.py` | `users`, `tenants`, `api_keys` | register, log in, rotate, revoke, authenticate |
| indicators, formatters, exports, schemas, migrations, frontend | | none of their own | |

### How they interact

* A request is one database transaction, committed after the handler returns
  (`db/session.py`). A job has the transactions it opens itself. Within a session each
  row is one mapped instance: read again it is not refreshed, and what differs on it is
  written before the next query.
* `scheduled_signals` and the API call `generate_signal`, which inserts a signal,
  calls `fan_out_signal` (one `signal_deliveries` row per matching subscription) and
  queues `deliver_signal`. That job sends, marks, and queues `retry_delivery` jobs,
  each of which may queue the next. A verdict of no signal queues `notify_neutral`.
* The nightly `compute_outcomes` resolves expired signals and queues `deliver_outcomes`.
* Putting a job on the queue, a Redis command and a message sent to a channel take
  effect at once. Database changes take effect at commit. Most of what is hard in this
  code is the gap between the two.
* arq runs up to 20 jobs at a time, each for up to `job_timeout` = 600 s. A job whose
  worker dies is run again, up to `max_tries` = 3 times. A job that raises or times out is
  finished and not run again (`workers/settings.py` 30-42).
* The payment provider calls the webhook at least once an event, in any order.

### What makes each component correct, and what is hard

* Delivery: a row says *sent* only if the channel accepted a message; no row is given
  up early; nothing is sent twice unless something failed; retries end. Hard: the commit
  comes after the sends, jobs overlap, jobs are replayed.
* Circuit breaker: it opens on a run of failures, and closes. Hard: two commands, two
  lifetimes, many callers.
* Throttles and rate limit: no window lets through more than its limit. Hard: the key is
  made before the counter is counted.
* Backtest jobs: a result is stored whole and once; a cancelled one is not run; every
  one ends. Hard: three writers of one row, a job queued before its row exists.
* Market data and engine: a frame without holes from one provider; trades that follow one
  another. Hard: retries in the middle of a page sequence; the ends of the series.
* Signal generation: caps and cooldowns hold for concurrent callers; the cron serves
  every strategy. Hard: gates in Redis, signals in PostgreSQL, overlapping cron runs.
* Exchange channel: position and exposure limits hold; every entry has its stop.
  Hard: check, then order; crash in between.
* Channel management: configurations are sealed at rest, updates stay, alerts mean what
  they say. Hard: configurations opened in place, locks held across sends, a counter
  outside the transaction.
* Outcomes: each expired signal is resolved once and reported once.
* Billing: the plan follows the provider's subscription. Limits: never exceeded. Accounts:
  whole, and keys stay revoked. Hard: events in any order, check-then-act, stale rows.

`PROJECT.json` lists every component with its status under `components` and, under
`hazards`, each place where one of these difficulties bites.

## 2. The modules

| module | what it is |
|---|---|
| `DeliveryLifecycle` | abstract specification of a delivery row: which status follows which, by the fan-out and by retries, one attempt per move, *sent* only after an acceptance |
| `Delivery` | the fan-out and retry jobs over the rows; implements `DeliveryLifecycle` |
| `CircuitBreaker` | the breaker's two keys with their times to live, and concurrent calls |
| `FixedWindow` | abstract specification of a fixed-window limiter |
| `Throttling` | the API's limit and a delivery's filters, quiet hours and counters; its API part implements `FixedWindow` |
| `StrategyRules` | the decision rules of the six strategies, as operators |
| `SignalGeneration` | API requests, cron runs, and the gates of `generate_signal`; extends `StrategyRules` |
| `ExchangeChannel` | concurrent sends of exchange channels, their orders, the account and the market |
| `ChannelTypes` | what each channel type accepts, reads, and takes for a success, as operators |
| `ChannelStore` | the rows of channels and the transactions that load or change one; extends `ChannelTypes` |
| `BacktestJob` | request, cancellation and job of each backtest as transactions on its row |
| `MarketFeed` | the providers and what one answer holds, as operators |
| `MarketData` | the two fetches, request by request; extends `MarketFeed` |
| `BacktestEngine` | the simulators, bar by bar, under any execution parameters |
| `PositionBook` | abstract specification of a sequence of positions over the bars |
| `BacktestPipeline` | composes `MarketData` and `BacktestEngine`; implements `PositionBook` |
| `Outcomes` | resolving expired signals; extends `MarketFeed` |
| `PlanLimits` | resolution of limits, and the checks, as operators |
| `Accounts` | registrations and requests about API keys |
| `PaymentAdapters` | how the three adapters read an event, as operators |
| `Billing` | subscriptions at the provider, its events, and the webhook; extends `PaymentAdapters` |
| `Tenancy` | composes `Accounts`, `Billing` and `PlanLimits` with requests that create strategies and channels, and the admin API |
| `DeliveryProofs`, `CircuitBreakerProofs`, `BacktestProofs`, `ExchangeChannelProofs`, `SignalGenerationProofs`, `ThrottlingProofs`, `ChannelStoreProofs`, `TenancyProofs` | theorems and their proofs; `BacktestProofs` is about `BacktestJob` and `BacktestPipeline` |
| `MC...` | small instances for TLC: functions for the constants, workloads, symmetry sets |

`Delivery` contains the breaker in an untimed form (a key may expire at any moment), so
that its properties hold whatever the times; `CircuitBreaker` contains the times and
leaves out the rows. In the same way `Delivery` lets any filter pass or not, and
`Throttling` has the filters and leaves out the rows. Operators named in a comment
"Mutant:" are plausible bugs. No specification uses them: substituting one for the
definition after it must break the property it is listed with in `PROJECT.json`.

### Delivery

`row` holds committed rows, `draft` the uncommitted version of a row together with the
job that holds its lock. `deliver[s]` is the `deliver_signal` job of signal `s`: it goes
through `loop` (line 145), `send` (232) and `mark` (235-271) for each row, and commits at
the end. `retry[r]` is a `retry_delivery` job: `queued`, `send`, `mark`, `commit`.
`UpdateStatus` is the conditional UPDATE of `repositories/delivery.py` 63-81: it waits for
the lock and re-evaluates its clause on the committed row. `DeliverDies` and `RetryDies`
end a job and roll its transaction back; its messages, counters and queued jobs stay.
`DeliverRaises` is a job that raises or times out. `DeliverStatementFails` is one that
fails inside the loop's try. `DeleteRow` is the cascade of a deleted subscription or
channel. `acked` and `rejected` are history: what each channel answered.

`DeliveryLifecycle` allows what the docstrings say: a failed delivery that is retried may
become *sent* or *retrying*. `ImplementsLifecycle` says that `Delivery` makes no move beyond
these; that it never makes some of them is what `AcceptedRetriesAreRecorded` shows.

Initial rows: pending deliveries whose tenant the migration has filled in. (As
`SignalGeneration` shows, `fan_out_signal` itself fails to insert new ones; the delivery
jobs are modelled for the rows there are and for the day that is repaired.)

### CircuitBreaker

`count`/`countTtl` and `openTtl` are the keys and their seconds left. `RecordFailure`
is the pipeline of lines 51-54, `Trip` the SETEX of line 57, `RecordSuccess` the DEL of
line 61; `Tick` is time. Threshold, window and recovery timeout are independent of one
another, as a channel may override each (`deliver_signal.py` 174-180). `recent` and `since`
are history, in terms of which the properties say what the counter means.

### Throttling

A request or a delivery passes `Gates` one after another. `Stamp` makes the key of the
gate's window from the clock, `Count` increments the counter under it, up to `MaxStall`
ticks later, and sets its time to live again: `2 * window` for the API (`rate_limit.py` 38),
the window itself for the others (`deliver_signal.py` 62, 349). `Wanted` is the channel's
filters, `InQuietWindow` the comparison of times as text, to the minute (`Before`), and
`IsQuietHour` holds in no timezone that is not in `Zones`, since the exception of an unknown
one is taken for no (`deliver_signal.py` 38-42). `RedisFails` is a counter that cannot be
reached: the API lets the request through, a delivery fails and is left to the retry job,
which asks no limit. `passes` is history.

### SignalGeneration and StrategyRules

`call[k]` is a `generate_signal` or `force_signal` call of an API request or a cron run; its
phases are the Redis commands of lines 126-139 and the insert and commit after them.
`daily`, `cooldownUntil` and `lastRun` are Redis keys; `signals` are committed rows. A cron
run visits the strategies in `todo` in any order (the query has no ORDER BY), skipping those
within their interval and recording the run time after each call. A strategy that raises is
logged and the run goes on (phase `raised`); `CronFails` is an error outside that, in
`list_active`, in reading a last run, or in recording one, which the outer `except` of lines
90-91 turns into the end of the run. `day`, `checked` and `set` of a call are history: the
day it was counted on, and when it asked for the cooldown key and set it; a forced signal
has none of them. `InsertsSucceed` is the NOT NULL constraint of migration 0007; `Matches`
the matching of subscriptions.

What a strategy makes of the market is `Rule(class, reading)`: a reading holds the values
the rule compares, in whole numbers (prices, an RSI, a confidence in thousandths), and
each of the six rules is translated with its thresholds from its parameters. `Mirror` is
the market upside down.

### ExchangeChannel

`phase[s]` is the exchange call the send `s` makes next; `SendStarts` is the gating and
the loading of markets, the actions from `LooksForOpposing` to `PlacesProfit` are the
steps 3 to 9 of `_execute`, and between any two of them other sends and the market
(`Fills`, `StopFires`, `ProfitIsTaken`) move the account: `position`, `resting` limit
orders, `stops` and `profits`. The account nets to one signed position, counted in units
of one entry; `Answers` is what `_fetch_open_positions` returns, which is nothing when
the query fails. `SendsAgain` and `SendDies` are what the delivery jobs do with a send
that fails or is lost. `entries`, `stale` and `exposed` are history: entry orders of each
signal, entries placed on an account that was not as last seen, units whose stop is
known to be missing.

### ChannelStore and ChannelTypes

`row[c]` is a committed row: the version of its configuration, whether it is sealed or in
the clear (`form`), and its flags. A session `s` is one transaction, of a request, a job
or the health cron: `seen[s]` is its identity map, `dirty[s]` the channels whose opened
configuration `_decrypt_config` (`repositories/channel.py` 44, 69, 94, 103) has assigned to the
mapped instance, `held[s]` the rows it has locked by a flush. `Flush` is that write,
`Commit` publishes it: over a configuration another transaction has stored since, for
UPDATE writes the attribute whatever it now is. `Abort` is a deadlock PostgreSQL breaks, a
timeout or a death, at any time. `Visit` is one turn of the loops of `deliver_signal`,
`notify_neutral` and `deliver_outcomes`; `List`, `Probe`, `Record` are the health cron.
`failures` is its Redis counter; `streak`, `alerts`, `spared` and `opened` are history.
`ChannelTypes` says which keys a configuration needs (`Requires`) and a sender reads
(`Reads`), and for each answer whether `Sent` and `Healthy` hold.

### BacktestJob

`submit[b]`: the quota is checked, the row inserted and the job queued, the request
committed. `cancel[b]`: the status is read, the row updated, the request committed.
`job[b].phase` follows the job's three transactions: `claim`-`claimed` (lines 55-69),
`run`-`write`-`written` (71-210), `fail`-`failed` (223-233); in `ack` arq has yet to
store the result. The `Update`/`Commit`/`Rollback` triple is the row lock. `stopped` is
history: cancelled while no worker was running it.

### BacktestPipeline: MarketData and BacktestEngine

In `MarketData` a bar is its opening time. `TryProvider` takes the next provider of
`OrderedProviders`; `BinancePage`, `DeribitAnswers` and `BitfinexAnswers` are its HTTP
answers, `TransientError` what `_call_with_retry` retries from the first page on,
`HardError` everything else. `Hand` gives the frame to `BacktestEngine`: the outer loop is
`SkipBar` or `EnterAt`, the scan for an early exit `ScanBar`, the end of the tenor
`Expire`; `Close` records the trade and `NextBar` sets the loop's index. Signals and
closing prices are any of small sets, chosen when the loop first looks at a bar. A trade
keeps the sign of its profit, capped and rounded to a `Grain` as `pnl_pct` is to four
decimals: none, a trace that the rounding may lose, or clear; beside it whether the capital
grew. `execution_params` is a dict nobody validates (`schemas/strategy.py` 18): holdings,
tenor, cap, premium and size are any whole numbers, and a negative holding leaves a position
before it was entered. `EngineRaises` is an exception of the series of signals, of a
simulator or of the summary. `ImplementsBook` maps this to `PositionBook`.

### Outcomes

A resolver goes through `Load`, `Price` for each signal, `Store`. `PriceIsFound` is the
rule of `fetch_ohlcv` applied to what `_fetch_close_at` asks for; `InsertIsAccepted` the
constraints on the batch. `DeliverOutcomes` is the job that tells the channels.

### Tenancy: Accounts, Billing, PlanLimits

In `Accounts` a registration reads the e-mail, tries names, and inserts; an insert that
meets a unique value fails. A key request loads the row, and writes the attributes it
changed. In `Billing` `Subscribe`, `SwitchPlan`, `PaymentFails`, `PaymentSucceeds` and
`Cancel` are the customer at the provider, each emitting its events in the provider's own
vocabulary (`Goes`: active, or with a payment due, in which a plan can be switched as
well); `Receive` parses one and loads the tenant, `Apply` writes what changed.
`surprises` is history: events that came late, again, overlapping, or with a price no
plan has. In `Tenancy` a creating request authenticates, reads its limits, counts, checks
the name and inserts, a query each; `Administer` is the admin API. `peak` and `raced` are
history: the highest limits a request of the tenant has found, and the rows inserted when
others had come that the request's count did not see.

Workspaces that exist at first have an owner (`OwnerOf`). The default tenant of migration
0007 has none until `scripts/seed_owner.py` is run, which is not modelled: `AccountsAreWhole`
is about registrations.

## 3. What is checked

Each run is listed with its properties in `PROJECT.json`; each property's comment in its
module says which behaviour of the code it is about. A type invariant that is proved is
checked by TLC only where it bounds something as well, in `pipeline` and `tenancy`.

| run | instance | result |
|---|---|---|
| `delivery_one` | one row, 2 attempts, 1 death of 2 tries, 1 failed job, 1 deletion, fairness | `SentWasAcked`, `DuplicatesNeedFaults`, `DlqOnlyAfterAllAttempts`, `AllJobsFinish`, `PendingIsResolved` hold |
| `delivery_fanout` | two rows in one transaction, 3 tries, 1 death, 1 failed job, 1 deletion | `SentIsFinalWithoutCrashes` holds; `Delivery` implements `DeliveryLifecycle` |
| `breaker` | 2 calls, threshold 3, window 3, recovery 2 (shorter than the window), 1 death, fairness of time | `CountIsRun`, `FullCountHasWaited`, `OpenLapses` hold |
| `throttle` | 4 API requests of one key, or 3 deliveries to one channel, or one filtered beside two with quiet hours from 23:30 to 8:15, one of them in an unknown timezone; limits of 1, windows of 3 and 4 ticks, counts up to 2 ticks late | `WindowsAreKept`, `TwiceTheLimitAtMost`, `QuietHoursAreKept` hold; the API's limiter implements `FixedWindow` |
| `generation` | 3 requests that generate or force on one strategy with cap 1 and cooldown 2, over two days; or 2 overlapping cron runs over 2 strategies, with 1 death, timeout or failure of Redis or the database; all six rules over a grid of readings on both sides of every threshold | `CapMissesOnlyUncounted`, `GapShortByDelayOnly`, `EveryStrategyIsServed`, `VerdictsMirror` hold |
| `exchange` | 3 sends, market and limit, buying and selling, 2 tries, 1 fault | `ExcessNeedsStaleLooks`, `RepeatsNeedFaults`, `PositionIsProtected` hold |
| `channels` | 4 channels, 4 subscriptions, 4 transactions of one of six workloads | `SealedUntilRead`, `OnlyFirstReadersUndoUpdates`, `AlertsAreConsecutive`, `OneBroadcastPerChannel` hold |
| `backtest` | 2 backtests, limit 1, one death, timeout and failed call, fairness | `ResultIsStoredOnce`, `StoppedStaysStopped`, `QueuedIsResolved`, `NobodyWaitsForEver` hold |
| `pipeline` | 4 bars, pages of 2 and 3, 2 attempts, three providers that hold too little, one page, several or more than the range; 3 prices (a profit lost in the rounding, one at the target), 3 signals, all trade types, holdings that go forward and one that goes back, fairness | `TypeOKPipeline`, `FrameIsComplete`, `FallbackIsExhaustive`, `PipelineEnds` (unless a holding is negative) hold; the simulation implements `PositionBook` |
| `tenancy` | 3 registrations for one name, 3 requests about one key, 6 events of each provider, or 4 with 1 repeat and 2 webhooks at a time, 3 requests for one quota of 1 or 2, 2 admin requests | `TypeOK`, `AccountsAreWhole`, `RevokedStaysRevoked`, `InOrderEventsGiveProviderPlan`, `QuotaExceededOnlyByRaces`, `PlansOfTenantsExist` hold |

Two runs must find a violation: each shows a disagreement between the code and one of its
own comments, which `findings` quotes.

| run | what happens |
|---|---|
| `retry_recorded` | `AcceptedRetriesAreRecorded`: a retry whose message the channel accepts leaves its row *failed*, where `retry_delivery.py` 36 has it marked sent; no fault is needed |
| `outcomes_unresolved` | `ExpiredSignalsAreResolved`: a price needs fifty bars and two are asked for, so no expired signal ever gets its outcome |

### Where the code differs from what it says

The properties that hold are stated as the code allows, and their exceptions are worth a
reader's attention. These behaviours are in the models, as the code has them.

Delivery and breaker:

* A message delivered by a retry stays *failed* (the finding of `retry_recorded`), so
  `deliver_outcomes` never reports on it. Nor is a failing retry ever recorded as
  *retrying*: `mark_retrying` (`repositories/delivery.py` 112) does not match *failed*.
* The guard against replays (`deliver_signal.py` 151-152) reads the session's cached row
  and sends again what another job has marked meanwhile.
* A retry neither asks the breaker nor reports to it (`retry_delivery.py` 95-115), though
  an open one is to "block calls"; nor does it pass the throttles.
* `max_retries = 0` means the global limit (`cfg.max_retries or ...`, line 120).
* Every failure refreshes the breaker's window (`circuit_breaker.py` 53), so it counts a
  run of failures with no gap as long as the window (`CountIsRun`), not the failures of
  the last window. A success between the count and the flag does not keep it closed.
* A channel may have a recovery timeout shorter than its window (`_base.py` 46-48 asks only
  for one second each). Its breaker then closes with the counter at the threshold, and its
  first failure opens it again (`FullCountHasWaited`); with the defaults (300 s, 60 s) it
  starts from zero.

Throttles and rate limit:

* `rate_limit.py` 1-5 speaks of a token bucket and a sliding window; it is a fixed window,
  which admits twice its limit around a boundary (`TwiceTheLimitAtMost`). All requests
  without an API key share one bucket.
* The counters of deliveries live no longer than their window, so a call counted late
  starts a new one (`WindowsAreKept` excepts it), and they count what is then dropped.
* Quiet hours in a timezone that does not exist, which no schema refuses
  (`schemas/subscription.py` 19), hold nothing back; a unit test has it so. Hours are compared
  as text: one written with one digit, which the validator accepts, gives the wrong window.
  `delivery_delay_seconds` is never used.

Signals:

* Signals of the cron, and all that match a subscription, are rolled back: their rows lack
  `tenant_id` (`signal_service.py` 97, `scheduled_signals.py` 67, migration 0007). The
  gates' keys stay.
* The monthly and daily quotas are counted before the insert; requests that overlap pass
  together.
* The "hard cap on signals fired per UTC day" (`types/strategy.py` 21) bounds the calls
  counted on a day, and a call is counted before it evaluates: a signal of a call from before
  midnight falls on the next day, whose own are still to come. Forced signals are not counted
  (`CapMissesOnlyUncounted`).
* The "minimum gap in minutes between consecutive signals" (`types/strategy.py` 24) is timed
  from the SET of the cooldown key, not from the signal, so it is short by what comes between
  (`GapShortByDelayOnly`). Calls that overlap between the EXISTS and the SET both pass, and
  forced signals neither ask for the key nor set it.
* Redis or the database failing outside a strategy's own try ends the whole cron run, with
  the rest of the strategies unserved until the next (`scheduled_signals.py` 90-91).
* The daily cap counts evaluations, neutral ones too, and the cron's run time is written
  after the call, so overlapping runs evaluate a strategy twice.
* An RSI of exactly 0 is read as 50 (`or 50` in `vwap_reversion`, `macd_rsi`,
  `adx_trend`); `VerdictsMirror` excepts it. A strong VWAP signal may have a lower
  confidence than a mild one, so a threshold can stop the strong and pass the mild.
  `suppress_duplicate_signals` is never read. `ema_crossover` and `macd_rsi` have no
  warm-up check beyond two bars.
* Matching and fan-out look at every tenant's subscriptions.

Exchange:

* An exception in the rounding of a risk order's price fails the send after its entry is
  placed (`exchange.py` 497, 527, 550), so the retry trades again, though both functions
  say that they log and continue. `RepeatsNeedFaults` counts it as a fault.
* The total exposure is summed over the positions of the traded symbol only
  (`exchange.py` 264), and does not see resting orders (`ExcessNeedsStaleLooks`).

Channels:

* A configuration lies in the clear from its first read on, though `models/channel.py` 23
  and `schemas/channel.py` 11 say that it is encrypted at rest: `SealedUntilRead` is all
  that holds. A first reader that commits after an update undoes it
  (`OnlyFirstReadersUndoUpdates`).
* The API's health check hands a result object to a boolean column: the request fails and
  rolls back, unless the sender raised.
* The keys an e-mail configuration must have (`types/channel_config/_notification.py` 63-74)
  are not those its sender reads: one the sender can use ends the whole `deliver_signal`
  job, one that passes cannot send.
* WhatsApp channels are in the schema's list and cannot be created. A webhook that answers
  HEAD with any status below 500 is healthy though its sends fail. The transactions of the
  jobs hold row locks during sends.
* The docstring of `types/channel_config` has each channel validate in its constructor;
  only the exchange does. Configurations with a top-level key `data` are not considered.

Backtests and market data:

* A job that exceeds `job_timeout` leaves its backtest *running* for ever
  (`run_backtest.py` 46, 223: CancelledError is not an Exception), and a job that runs
  before its row commits leaves it *pending* (`backtest_service.py` 42); `QueuedIsResolved`
  excepts both.
* A backtest's claim overwrites a cancellation committed after the job read the status
  (`run_backtest.py` 64-69); `StoppedStaysStopped` speaks only of cancellations at rest.
* `fetch_ohlcv_range` and `run_backtest.py` 40 speak of 200 bars; the code requires 50.
  `since` is ignored by Deribit and Bitfinex, and Bitfinex answers only the oldest part of a
  range that is too long (`FrameIsComplete`). A `date_to` at midnight excludes the last day.
* A tenor in days is counted in bars. A signal on the last bar is entered and expires on
  it. Futures raise NotImplementedError. A losing option's `pnl_pct` is not the capital it
  lost, and a short can make the capital negative.
* Wins are counted after `pnl_pct` is rounded to four decimals (`backtest_engine.py` 174,
  286, 393): a smaller profit makes the capital grow and is no win, or is one, when it is
  rounded up. A cap of zero (line 157) leaves no profit at all (`Fair`, in `PositionBook`).
* `execution_params` is never validated, so the bounds of `types/strategy.py` 42-45 hold
  nowhere: a `hold_bars` of -1 leaves each position the bar before it was entered, the loop
  comes back to the same bar, and as the code is synchronous the worker runs no other job
  again (`PipelineEnds` excepts it). A premium or size that is negative or zero turns wins
  away from the capital.

Outcomes: beside the finding, the rows of a batch lack `tenant_id`
(`outcome_service.py` 138-148), and the API route passes on the list of outcomes as a
number.

Tenants:

* Quotas are exceeded by requests that overlap (`QuotaExceededOnlyByRaces`); inactive
  strategies count; an empty allowlist allows everything.
* Strategy names are looked up across tenants.
* A late, repeated or overlapping event may leave a tenant on another plan than it pays for
  (`InOrderEventsGiveProviderPlan` excepts them). Nothing in the code sets
  `provider_customer_id`.
* `subscription.updated` always sets *active* (`billing_service.py` 62-66): a tenant that
  switches plans with a payment due is active until the next event, though every event came
  in order (`InOrderEventsGiveProviderPlan` has this exception too).
* Deleting the plan "free" when nobody is on it makes registrations and cancellations fail.
* Of two registrations for one workspace name one fails, though another name was free. Of
  two concurrent rotations one returns a key that is already dead. An admin's new API
  key is never stored: its row has no tenant.

### Bounds, and why they are enough

Every bound is a constant. `MaxCrashes`, `MaxRaises`, `MaxDeletes`, `MaxTimeouts`,
`MaxErrors` and `MaxFaults` count faults; `MaxTries` bounds the replays of a job, or the
sends of one delivery: two allow a replay, three a replay of a replay. `MaxCount` caps the
breaker's counter above its threshold, `MaxTime` and `MaxNow` the clock: long enough for two
days, two windows, or an interval to pass between two overlapping runs. `MaxStall` lets a
count come after its window. `MaxEvents` is a subscription that is cancelled and taken up
again, or one with a failed payment, changes and a cancellation (`Bounded`, in `MCTenancy`,
allows fewer where an event is late or repeated or an admin interferes); `MaxBack` is how
many different trades are recorded where a holding goes back and the loop does not end; `MaxRepeats` one event
delivered again; `MaxAdmin` a plan that is deleted and created, or a limit that goes down
and up. `MaxPage` and `BatchSize` make four bars several pages. `RetryJobs` are identities
reused when a job is finished; four are more than one row's chain and its replays have in
flight at once in these instances. Two rows are what it takes for a transaction to commit
one mark and lose another; two backtests or two requests for a race; two strategies for one
to raise before another; three sends for two to add to a position that a third reduces,
under an exposure limit of one entry and position limits of one and two; four health runs
for an alert with a run rolled back among them. Where the parts of a module share no state
the instances use `Workloads`, sets of actors that are at work in one behaviour: together
their states would multiply and show nothing more. Symmetry is declared in
`delivery_fanout`, `generation`, `throttle` and `tenancy`, over identities that no constant
tells apart, and in no run that checks liveness.

### Fairness

Weak fairness of the steps of jobs and of requests that have begun, in `Delivery`,
`BacktestJob` and `Outcomes`: arq polls its queue and runs every due job, and asyncio
resumes every coroutine that can go on. In `CircuitBreaker` time passes. In
`BacktestPipeline` the job's coroutine is run, and a request is answered or times out,
which is a step too (`ClientTimeout(total=20)`). Nothing makes a user submit or cancel, a
send succeed, or a fault happen. No liveness property assumes strong fairness.

`CHECK_DEADLOCK FALSE` is set where the modelled work ends (all jobs done, the clock at
its bound).

## 4. What is proved

TLAPS checks these for every value of the constants that satisfies the named ASSUMEs. Two
theorems have a hypothesis more, which is in their statement: `ApiLimiterIsFixedWindow` and
`RulesFavourNoSide`.

* `TypeCorrect` of `Delivery`, `CircuitBreaker`, `BacktestJob`, `ExchangeChannel`,
  `SignalGeneration`, `Throttling`, `ChannelStore` and `Tenancy`.
* `SentRowsWereAcked`, `DlqRowsWereTried`. The invariants are not inductive: a commit
  publishes what the draft says, and the draft says what the job learned earlier. The
  strengthening `Evidence` (in `Delivery`) states the same of drafts (`RowEvidence`), of
  jobs in their mark phase (`DeliverEvidence`) and of every queued retry, whose attempt
  number is at most one more than the failures the channel has answered (`RetryEvidence`).
* `CopiesAreBoundedByFaults`, from `Budget`: the copies of a row that were accepted, and the
  jobs that may yet send one (`Senders`), are together no more than the faults plus one. A
  step sends a copy and is a sender no more (`Delivers`), hands the right to send on to
  another job (`HandsOver`), or is a fault, which returns it to a job at most once.
* `SentRowsStaySent`, from `OneHand`: while no worker has died, at most one job can still
  mark a row, and none can once a draft or the row says *sent*.
* `DeliveryImplementsLifecycle`: every step of `Delivery` is a step of
  `DeliveryLifecycle` or leaves its variables alone. It needs `Evidence`, and that a
  draft is always one allowed move away from the committed row under it.
* `FullCountsHaveWaited`, from `FlagFollowsFailure`: while no worker has died, a counter at its
  threshold has a call about to trip, or a flag set no earlier than the last failure; so the
  flag has as long to live as the recovery timeout has left since then. Nothing is assumed
  of how window and recovery timeout compare.
* `CounterCountsRuns`, from `CountedRun`: the key has as long to live as the last failure is
  from being a window ago, and the counter is at least n, for any n up to the threshold, just
  when the n-th last failure belongs to the run.
* `LimitsHold` (of `Throttling`), from `Kept`: a counter that has not expired is at least
  the number of calls passed in time. A window's key cannot expire before the window has
  ended, since each count sets its life again, so what passes after it expired is late.
* `BurstsAreBounded`, from `Began`, that no call passes before its window begins: any stretch
  of one window's length meets two windows, each of which holds its limit.
* `QuietHoursHold`, from `Quieted`: what a delivery's first gate has decided is what the
  local time of its stamp says, or nothing in a timezone there is not. That the comparison of
  texts is one of minutes, on a clock that goes round, is `QuietWindow`.
* `ApiLimiterIsFixedWindow`, from `Counted`: the counter of a window knows all of its calls
  for as long as one can come. The key lives for two windows, so this holds if a request
  waits no longer than one window between making the key and counting under it: the
  hypothesis `ApiStalls`, without which the middleware's limiter is not a fixed window.
* `CapHolds`, from `Capped`: a strategy's counter for a day is at least the number of calls
  the gate has let through, and the cap is too. INCR makes it so: each of two racing calls
  sees its own value. A day's signals are then those of the calls counted on it and the rest.
* `CooldownHolds`, from `Marked`, `Separated` and `Entered`: the times a call checked and set
  the key are past, and the key outlives the cooldown of every call that set it (a later setter
  only extends it, because time has not gone back); so a call that was not vetoed waited out
  every cooldown set before it asked, and its signal came no earlier than it asked.
* `CronServesAll`, from `Served`: a strategy a run no longer has to do was last run within
  its interval of the run's start, whatever other runs wrote, since a run time only grows; and
  a run that is done, and has not failed, has nothing to do.
* `RulesFavourNoSide`: `VerdictsMirror` for thresholds that lie symmetrically around 50
  (`SymmetricThresholds`, as the defaults do; others favour a side because they say so) and
  whole readings in the indicators' ranges (`WholeReadings`). One lemma a rule; for the
  divergence, `argmin` of the mirrored window is `argmax` of the window, since only the order
  of its values counts (`FirstLeastOfSameOrder`). The run's instance satisfies both.
* `ResultsAreStoredOnce`, `StoppedBacktestsStay`, from `Consistency`: per backtest, when
  the row exists (`Existence`), who holds its lock and what the draft is going to commit
  (`Lock`), that a job still working implies no result yet (`Result`), and that nobody
  works on a backtest cancelled at rest (`Stopped`). A step belongs to one backtest
  (`StepsAreLocal`) and leaves the others alone (`Frame`).
* `PipelineTypeCorrect`, `FramesAreComplete`, `EveryProviderIsAsked`, from `Running`. Its
  parts: of each provider it is known whether it is still in the queue or why it was given
  up (`NoneForgotten`); while Binance is paged through, the bars collected are all it holds
  before the cursor (`PagesJoin`), which a page that is not the last extends up to its last
  bar (`PagesJoinUp`) and a retry empties along with the cursor.
* `SimulationIsABook`, from `Simulating`: unless a holding is negative, the scan is not beyond
  the bar the position is due. Each trade recorded is a fair one (`RecordIsFair`): a win is a
  profit of more than half a grain, a clear profit one of a grain or more, and multiplied by a
  grain or by a positive position size a profit keeps its sign (`ProductSign`).
* `RepeatsAreFaults`, from `EntriesAreFaults`: a send that has yet to enter has entered
  before only if a fault brought it back.
* `ExcessIsAccounted`, from `Accounted`: a send about to enter has seen room for one more.
* `PositionsAreProtected`, from `Protected`. The property speaks of sides on which something
  is held, and a fill can begin to hold: the invariant must also cover the orders that rest
  while nothing is. Each step of a send trades a placing send against a stop or an exposed
  entry (`PlacingChanges`, `SendKeepsProtection`), each step of the market a stop against a
  unit (`MarketKeepsProtection`).
* `StaysSealed` and `UpdatesStay` (of `ChannelStore`). `Locks`: only a busy transaction has
  anything to write, it has read it sealed, and what it has locked is still there.
  `RowStep` says once what any step does to a row on behalf of one transaction: nothing but
  its flags (`Untouched`), the version it had read, in the clear (`WritesBack`), a new
  configuration, sealed (`Renewed`), or its end; `TypesKept` shows that every step is one.
  `Dated`, that nothing is newer than the last version written, then makes `WritesBack` the
  only step by which a version can fall.
* `OnceAChannel`: only a visit sends, and only to a channel the run has not done.
* `AlertsMeanThree`, from `Honest`: one health run is busy at a time, and what the counter
  holds, with the failure found and not yet counted, is no more than the streak of failures,
  unless a success has not reached the counter. Runs that are rolled back and counters that
  expire only lose counts.

* `RevocationIsFinal`, `PlansStay` (of `Tenancy`): whatever row a key request loaded, what it
  writes never turns an inactive key on; and no step deletes a plan a tenant is on, or puts a
  tenant on one that is not there.
* `AccountsStayWhole`, from `Owned`: users and tenants that exist are one to one, and a
  registration that reported success is such a pair. The type invariant is needed here, with
  `NamesAreLeft`: a registration that meets a taken name has another to try, as the numbered
  names never end (`BillingAssumption`).
* `QuotasHoldButForRaces`, from `RoomWasFound`: no limits a request holds are above the peak
  of its tenant, and a request past its count had room for one more than it counted. The
  limits of plans and overrides are any integers, as the admin API validates none.
* `EventsInOrderAreFollowed`, from `Ordered`. The subscription is what all its events together
  say (`SaidAll`), but for an update, which says *active* of one that has a payment due
  (`Matches`); and while nothing surprising has happened to a customer, the tenant's row
  is what the events applied so far say, the later ones are still to be delivered, and the
  one a webhook is about to write is the next of them, read over the row as it stands
  (`AppliedInOrder`). That no two webhooks write for one customer is part of it.

Where an argument is an induction over numbers, it takes the least counterexample
(`LeastNatural`, from the well-foundedness of the natural numbers): the library's induction
theorems take an operator as a parameter, which the provers cannot instantiate.

Every safety property and every refinement that a passing run checks is proved. Only
model-checked: the liveness properties (`AllJobsFinish`, `PendingIsResolved`, `OpenLapses`,
`QueuedIsResolved`, `NobodyWaitsForEver`, `PipelineEnds`), since neither fairness nor
ENABLED is within the prover's reach.

## 5. What is not modelled

The text of messages (formatters), the numbers of indicators and the regime detector
(floating point over price series), exports, the frontend, migrations other than the
constraints they set, connection pools, request validation, pages that list or read rows.
`ExchangeChannel` leaves out sizing, the per-direction limit and accounts with several
symbols. Of strategies and subscriptions the requests that edit or deactivate one row are
left out, and checkout and portal requests, which call the provider and change nothing.
`ChannelStore` leaves out `GET /channels` and `get_by_name`, which open what they load as the
modelled reads do, and the limit of a hundred of the health cron's `list_active`. `MarketData`
takes Deribit's one answer to hold the whole range. `PlansOfTenantsExist` rests on the foreign
key from tenants to plans, which is taken to do what it says.

## 6. What could be added

1. `ExchangeChannel` with two symbols: sizing and the per-direction limit.
2. Editing subscriptions and strategies while signals are fanned out.
3. Proofs: `Outcomes`, once a resolver can succeed; that each run's `Workloads` are
   independent of one another.
