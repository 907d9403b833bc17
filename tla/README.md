# TLA+ models of numbersML

numbersML reads aggregate trades from Binance, builds one candle per symbol and second, stores it, computes
indicators, runs strategies on them and sends their signals to paper or live orders; it backtests strategies, trains
models on what it recorded, and keeps the tables all of this rests on. The modules here model these parts with their
interleavings and failures. TLC checks what each part promises on small instances, and TLAPS proves the promises of
the core for every value of the constants. Paths below are relative to `src/numbersML/src/`, and `file.py:12` names a
line. `PROJECT.json` maps every definition to the lines it stands for and lists hazards, runs, mutants and theorems.

Contents: [Inventory](#inventory) · [Modules](#modules) · [Runs](#runs) · [Limits of the promises](#limits-of-the-promises)
· [Proofs](#proofs) · [Not modelled](#not-modelled) · [What comes next](#what-comes-next)

## Inventory

Everything of the pipeline runs in one asyncio event loop: what runs between two awaits is atomic, and the order of
tasks at awaits is not fixed. Strategies alone run in threads. Requests of the API run in an event loop too, each
statement with a connection and a transaction of its own unless the code opens one. Command-line jobs and trainings
are processes beside it that share the tables and files.

| Component | State it keeps | Operations | Module |
|---|---|---|---|
| `pipeline/aggregator.py` | open window, pending candles, last close, last emitted second | `add_trade`, `tick`, `flush` | TradeAggregator |
| `pipeline/recovery.py` | `_last_trade_id`, its row in `pipeline_state` | `initialize`, `process_trade`, `_recover_gap`, `_persist_state`, `close` | RecoveryManager |
| `pipeline/database_writer.py` | buffer, flush task, lock | `write_candle`, `flush`, `_flush_loop`, `_flush_batch`, `stop` | DatabaseWriter |
| `pipeline/websocket_manager.py` | `_running`, `_ws`, `_reconnect_delay` | `start`, `_connect`, `_reconnect`, `_message_loop`, `stop` | WebSocketManager |
| `pipeline/service.py` | the parts above, the ticker task | `start`, `_initial_recovery`, `_on_trade`, `_ticker_loop`, `_execute_ticket`, `stop`, `stop_pipeline` | TradePipeline, PipelineShutdown |
| indicator calculator and buffers, wide vectors, `cli/backfill.py`, `gap_fill.py`, `recalculate.py` | candles, indicator rows, vectors, caches | a second of the pipeline; fill, backfill, recalculate | CandleJobs |
| `indicators/` | none: arrays over a buffer | every indicator | Indicators |
| `pipeline/strategy_runner.py`, `strategy_executor.py`, `live_market_service.py` | loaded strategies, reload times, signal history, `strategy_signals`, orders | `execute_tick`, `hot_reload`, routing, retries, take-profit | StrategyRunner |
| `domain/strategies/price_statistics.py` with the preload of the runner | samples and cached averages per symbol | preload, record, refresh, ask | PriceStatistics |
| `infrastructure/redis/message_bus.py`, `application/services/strategy_runner.py` | connections, listeners, channels, callbacks | start, subscribe, listen, reconnect, tick, publish, stop | TickRunner |
| `application/services/risk_guardrails.py`, `emergency_stop.py` | risk states, kill switches, active stops | check, report, record results; stop and release | RiskGuardrails, EmergencyStop |
| `application/services/strategy_lifecycle.py` | runtime states, the manager's instances, row, events | activate, deactivate, pause, resume, errors | StrategyLifecycle |
| strategy routes, repository, `strategy_lifecycle_service.py` | the row, its versions, the active one | every request that writes them, query by query | StrategyStore |
| configuration checks, `llm_strategy_service.py` | what versions say | create, new version, activate, generate, modify | Configurations |
| `routes/strategy_backtest.py` and its repository | jobs in memory, result rows | submit, run, save, ask, delete, restart | BacktestJobs |
| `backtest_engine.py`, paper and backtest market, `strategies/user`, `domain/strategies` | cash, positions, tracked positions, beliefs | a candle of a backtest; an order | SimulatedMarket, UserStrategies, Backtest |
| `infrastructure/market/` (live service, Binance client, filters, normaliser) | orders under three keys, cached rules | place, cancel, ask, with retries | OrderFilters, LiveOrders |
| symbol registry, indicator registry, volatile collector | `symbols`, `indicator_definitions`, collected trades | synchronise, requests, collect | Registry |
| `application/services/audit_logger.py` | memory, table | log, flush, stop | AuditTrail |
| `ml/`, `pipeline/target_value.py`, `routes/ml.py` | samples, splits, targets, checkpoints, caches | cut, label, smooth, train, serve, predict, backtest | TrainingSets, SignalBacktests, ModelFiles, Research |

How they meet:

```
 Binance ──ws──> WebSocketManager ──_on_trade──> RecoveryManager ──process──> TradeAggregator
    └────REST (gaps, initial recovery)──────────────┘                              │ tick_all, each second
                                                                                   v
   candles_1s <──upsert── DatabaseWriter <──ticket── TradePipeline._ticker_loop ──> indicators, wide vectors
       ^                                                                           │ same ticket, last step
       └── backfill, gap fill, recalculate (CandleJobs)                            v
 strategies table ──hot_reload──> StrategyRunner <──execute_tick── price statistics (PriceStatistics)
       ^                              └──route──> LiveMarketService (LiveOrders) ──> exchange, strategy_signals
       │
 API clients ──> StrategyLifecycle, StrategyStore, Configurations, BacktestJobs, Registry
 operator ──> EmergencyStop ──> RiskGuardrails          message bus <──> Redis runner (TickRunner)
 recorded seconds ──> TrainingSets ──> ModelFiles ──> predictions ──> SignalBacktests   (Research)
```

The hard behaviours and where they bite:

- *Order of arrival against the clock*: a trade may come after the tick of its second; a tick may come twice for a
  second or skip some; recovered trades come late and all at once (aggregator, pipeline, jobs).
- *State kept over an await*: `_last_trade_id` is advanced before the write that persists it; lifecycle operations
  save a status they chose before; requests write rows they read earlier; the bus goes through a list of callbacks that
  grows meanwhile, and the first tick waits between a reload and its threads (recovery, lifecycle, store, registry,
  bus, runner).
- *Cancellation and kills*: `stop()` cancels tasks at any await; the process dies anywhere (recovery, writer,
  pipeline, runner, jobs).
- *Lost answers and retries*: an order taken whose answer is lost, an insert committed although its task was
  cancelled, a gap whose request fails (runner, live orders, writer, recovery, backtest jobs).
- *Check and act*: an order is checked against positions that are reported later (guardrails); a cache is asked and
  read in two steps (filters).
- *The same thing kept twice or three times*: positions of engine, market service and strategy; orders under three
  keys; checkpoint and normalisation files of several trainings.
- *Looking ahead*: values, labels and splits made of rows that come later than they claim (jobs, research).

`PROJECT.json` lists each hazard at its line with the properties that would catch it going wrong.

## Modules

A module has the state of its part as VARIABLES, one action per operation or per stretch between two awaits, and its
properties at the end. Modules whose name begins with MC put instances together for TLC. Parts that share no variable
are checked side by side: a constant-time choice (`side`, `study`) says which of them moves, so that one run covers
several parts with the state space of a sum and not of a product.

### The way of a trade

**TradeAggregator**: one symbol's aggregator. A trade is its number and the second of its timestamp; a candle is its
second, the set of its trades and its close, the number of the trade whose price it carries. `AddTrade` is `add_trade`
with its roll of the window, including a trade older than the open window. `Tick(w)` is `tick`: a pending candle
first, then the open window if it is over, then a flat candle. `orderly` is a history variable: every trade came
before the tick of its second, and no one has called `flush()`.

**RecoveryManager** and **TradeFeed**: one task runs the whole code of a symbol; `pc` is the await it is suspended at.
A REST answer of at most `BatchLimit` ids is handed over trade by trade, and each trade whose id is divisible by
`PersistEvery` is persisted before it reaches the aggregator, as in `process_trade`. Requests and writes may fail, the
socket may close, the process may be stopped or killed at every await. `stop()` is a task of its own: it ends the
socket if start() has made one, reads the id, writes it some time later, and then the feed's task is cancelled; in
between the feed goes on and persists on another connection. Ctrl-C cancels the feed first. TradeFeed is the abstract
specification: within a life of the process the ids given to the aggregator only grow, and grow by one until something
fails.
`ImplementsFeed` is the refinement, with `feed <- log, lossy <- faulty`.

**DatabaseWriter**: the buffered writer of one symbol with the three tasks that share its lock. A candle is its second
and a version that grows with every candle written. A flush is a step that takes the lock and one that ends it: stored
in one transaction, failed (the buffer stays), or cancelled, when it is not known whether it was committed.

**TradePipeline**: the aggregator (INSTANCE) fed by a stream that restarts behind the persisted id and drained by the
ticker into a writer that stores in order, later or never: of RecoveryManager and DatabaseWriter it uses what they
promise. The writer looks the symbol up until it has found it once (`known`); a candle whose look-up fails is skipped.

**WebSocketManager** and **PipelineShutdown**: the connection loop with its backoff, and one pipeline from `start()` to
the end of `stop()`, composed of that loop and of DatabaseWriter's actions. The parts are torn down one by one while
`start()` goes on, a client may call again, and Ctrl-C cancels `start()`.

**CandleJobs**: the tables candles_1s, candle_indicators and wide_vectors with the live pipeline and the jobs beside
it. Of a value only the times of the candles it was computed from are kept, of a vector the times it took of each
symbol, since the properties are about those.

**Indicators**: every indicator as an array over a buffer, in exact fractions (of Bollinger's deviation the square),
with the calculator's buffer of one symbol. What numpy leaves NaN is None.

### From a tick to an order

**StrategyRunner**: reload of the strategies, a thread per strategy with its timeout, deduplication over the signal
history, the order with its retries, the take-profit order and the row. The first tick waits for the preload of the
prices between its reload and its threads (`Preload`). The exchange may take an order and the answer be lost, and it may
take the same client order id again, so an order is told by the attempt that placed it.

**PriceStatistics**: the averages strategies ask for. A price is told by its time and an average by the samples it is
of. The first tick preloads the last week from the candles, or page by page from Binance; the pages may fail.

**TickRunner**: strategies on a message bus. A listener is a task of the bus that reads one connection, goes through
the callbacks of a channel by their place in a list that may grow, and lets others move where it publishes a signal.
`start()` may be called again; one call ends before the next.

**OrderFilters** and **LiveOrders**: rounding, clamping and adjusting in the two layers in front of the exchange, on
integers in the unit of the last printed decimal; and the calls of several tasks over them. The service keeps its
orders in one dictionary under three kinds of key whose values are shared, mutable objects: `orders` maps keys to
`objects`. A request may be lost, refused, or carried out and its answer lost.

**SimulatedMarket**, **UserStrategies** and **Backtest**: the paper and the backtest market, sixteen strategies with
what they believe to hold, and the engine's candle loop. What an indicator reads is arbitrary; slippage and fee are in
parts of `Scale`, so that money is exact.

### Control

**RiskGuardrails** and **EmergencyStop**: no coroutine of the guardrails waits, so a call is a step. Amounts are
counted in units of one order. `held`, `balance` and `lossToday` are the account as it is; `risk[s].reported` is what
the service was told, and callers may have `MaxUnreported` orders checked and not reported. EmergencyStop extends the
module with stops recorded under the second and the level, which is what a stop id is made of.

**StrategyLifecycle**: one strategy; each client has at most one operation under way, and `job` says at which await it
is and what it read before. Registry of the manager, runtime state, row and last event are separate variables because
the code writes them at different times. The manager stores an instance under a string and is asked for a UUID
(`Found`), so what an operation would do to an instance it found never happens.

**StrategyStore** and **Configurations**: the row and its versions as every request writes them, query by query; and
what the versions say and which request checks it.

**BacktestJobs**: jobs known to their process only, results saved before a job is called completed, strategies deleted
meanwhile.

**Registry** and **AuditTrail**: the table of symbols under its synchronisation, the requests and the collector, with
the table of indicators; and the audit logger between memory and table.

### Research

**TrainingSets**, **SignalBacktests** and **ModelFiles**, put together by **Research**: which rows samples, splits,
labels and smoothed targets are made of, which rows a signal is shown, and which files trainings write and the server
loads. A value is represented by the seconds it was computed from.

## Runs

States and times are of `tlc -workers 2`.

| Run | Instance | What it shows |
|---|---|---|
| ingest | 4 trades, seconds 0-3; 5 ids, 2 starts, persisted every 3, answers of 2. 275 k states, 67 s | Every trade in one candle, complete candles while trades are timely, each handed out in the end. Ids in order and without repetition in a life; loss only in a gap broken off or at an id due for persisting; the persisted id goes back by a late write of `close()` only, and recoveries end. |
| shutdown | 3 connections, delays to 4, 3 candles of one second, batches of 2. 96 k, 75 s | No candle dropped or replaced by an older one; lost connections come back with their backoff; every stop ends and leaves no task, no candle and no connection, but those of a reconnection, replaced by the loop's own connect, and one being opened. |
| pipeline_shrinks | 3 trades, seconds 0-3, 2 starts | Finding: a late trade's candle replaces the stored one. |
| stop | 2 strategies, 2 symbols, limits of 2, cap 1, losses 4 and 30 on 20, 2 days, 2 unreported orders, 3 active stops, 2 seconds. 450 k, 89 s | Limits exceeded by unreported orders only; no order beyond today's loss and no kill short of it; stopped strategies do not trade and no switch outlives its stop, up to the stated exceptions. |
| deactivated_runs | 1 client | Finding: the instance of a deactivated strategy stays in the manager and runs. |
| strategies | 3 clients; 4 requests of 2 clients, 3 versions, 13 configurations. 499 k, 70 s | An active strategy has an instance that was started, and never two; the state moves along its table, undisturbed operations leave row and event in agreement; versions are numbered without gaps and are checked where they are checked, a save loses only what it could not see, a backtest alone has its own prices. |
| runner | 2 strategies, seconds 0-3, 3 signals, 1 retry; 1 channel, 2 ticks, 1 break, 3 calls; 2 symbols, an hour of 2, a week of 4, pages of 2. 1.45 M, 57 s | Repeats caught, no order behind an answered one, take-profit after an answered BUY, rows tell of answers, deactivations take effect, but for a first tick that waits for the preload; on the bus each tick of the current connection is worked on once and in order; averages are fresh, of the last week unless the preload began with older candles, and count no price twice. |
| backtest | 5 prices, up to 7 candles, 3 open positions, 4 orders. 698 k, 46 s | No account goes negative, no order makes it richer, the three books agree, nobody buys twice what it holds. |
| jobs | 2 symbols, 6 seconds, answers of 2, chunks of 3, batches of 2. 1.97 M, 156 s | No value of later candles but in the row of a second that the pipeline came to after a later one, gaps close to their last second, recalculations reach every row but those a limit cut off or a writer stored behind them. |
| orders | 2 tasks, 3 calls, 3 orders, 1 retry, 2 rule books. 2.25 M, 107 s | Every order at the exchange is in the table, no status is told that is not so, and the exchange holds what was asked for, worth a minimum the client was told. |
| research | 6 to 15 seconds by study, 2 trainings of 2 epochs. 2.26 M, 92 s | Splits share no second, smoothed targets have whole windows, predictions look back only, and so do a backtest's signals unless vectors are laid over other seconds' candles; backtests hold one position; a model is served with its own parameters unless trainings met. |
| operations | 3 trades, 2 starts; 2 symbols, 2 clients, 2 requests; 4 candles, 3 sets of parameters; 3 events; 2 jobs. 1.12 M, 95 s | Stored candles hold their trades over stops and kills, and each trade is stored or lost in a way that is named; a synchronisation takes effect; answers are true, but for the PUT of a configuration entry; what is collected or logged is kept; indicators stay in range and follow their definition. |

Why the bounds are enough for the cases that matter:

- *ingest*: four trades over three seconds give two trades in one window with one on either side, a late trade for a
  window emitted, pending or open, and a backlog of two pending candles. Five ids contain a persistence point, a gap
  longer than an answer, a gap inside the recovery of another and a restart on either side of the persistence point.
- *shutdown*: three versions of a second put two into one batch and one into the next, with each flush cancelled once;
  three failures take the delay past its maximum (8 > 4); three connections are a start, a break and a reconnection,
  whose connection the loop's own replaces before a stop.
- *stop*: a loss of 4 on 20 is at the limit of 20 percent, 30 is more than the account. Two orders before a report
  exceed a cap of one, and two symbols reach the limits of positions and of units. Three stops are needed for two that
  overlap under a third. `StopsOverQuiet` keeps stops to states in which a strategy holds and reported nothing, and a
  second unreported order (`Overshot`) to one strategy before the first result and midnight: the limits are about what
  each strategy holds, the loss of the day about none of it, and holding changes nothing about stops.
- *strategies*: three clients because a third can undo what an operation did between the reads of two others; four
  requests are a lost update, its repetition and two readers.
- *runner*: the debounce time is longer than the reload interval, as in the code (30 > 5), the window longer than a
  tick, and one retry lets a lost answer be followed by a second order or a refusal. The third signal is what tells a search
  through the history from a look at its end; `LastIsOnlyRouted` does not follow it to the exchange, where it would
  only repeat the second. On the bus, three calls are a start, a stop and the start behind it, or a start while the
  first of two ticks is at hand; one failed read leaves two listeners and two connections. A week of two
  days, pages of two klines and three candles recorded put a preload on either side of `Enough`.
- *backtest*: seven candles open and close a grid level and use it again; the other strategies need fewer to believe
  something that is not so. Three open positions on a grid of six levels are the fewest with which two positions share
  entry price and quantity while a third one lies between them.
- *jobs*: the budget of failures pays for late candles too, since either is one disturbance of the pipeline; no trade
  is stamped ahead of the clock, and the ring of the buffer is kept as an upper bound of what it holds. `Chunk` 3 with
  two symbols ends a chunk in the middle of a second; six seconds are a window with a gap, a batch boundary in it and
  live seconds behind it.
- *orders*: two tasks suffice for every overlap of an answer with another call; the rule books have a step that is a
  power of ten and a minimum in MIN_NOTIONAL, or a step that is not and a minimum in NOTIONAL.
- *research*: the lengths are the smallest with a gap, a horizon and a border in each split; two trainings share files
  in every order; NaN is one of the losses.
- *operations*: per part as in the table; two clients and two requests are a check and an act with another's between.
  Of the three definitions of indicators, one has a buffer too short for its ADX, its %D and its signal line.

Clock, trades, requests and starts are bounded by guards in the modules; runs that reach these bounds stop there,
hence `CHECK_DEADLOCK FALSE` with the reason in each configuration. Symmetry is used over strategies, symbols, clients,
tasks and jobs where nothing tells them apart, never in a run with a liveness property.

Every property of a passing run has a mutant in `PROJECT.json`: a definition changed the way a plausible bug would
change the code (a guard dropped, a comparison off by one, a reset forgotten), under which TLC finds that property
violated. The mutated forms stand next to the definitions they replace.

### Fairness

- `ingest` (`IngestSpec`): weak fairness of the ticks, since the ticker loop (`service.py:179`) never ends while the
  pipeline runs, of the recovery's steps, since aiohttp and asyncpg time out and a request is answered or fails, and
  of reading the socket. Nothing is assumed of trades or of `flush()`, and no request is assumed to succeed.
- `shutdown` (`LiveSpec`): weak fairness of the socket's waits and reads, of the flush loop's timer and of the steps of
  `stop()`; strong fairness of a successful connect and of a successful flush, because the property is about an
  exchange and a database that do not stay down.
- The other runs check safety only.

### Findings

- `pipeline_shrinks` (`pipeline/database_writer.py:156`): the upsert replaces a stored candle, while a late trade, or
  one recovered after a restart, opens a second candle for its second. The row then counts the later trades only.
- `deactivated_runs` (`strategy_lifecycle.py:222`): the instance is looked up by a UUID where the manager's keys are
  strings (`strategy_loader.py:136`), so a deactivation, said to stop tick processing (`:221`), removes nothing.

## Limits of the promises

Many properties hold with an exception, and the exception is a behaviour of the code worth knowing. The conditions in
the properties name them; what is said here and is not a finding is not a run of its own. Seven definitions stand in
the modules as promises one might expect and the code does not keep: `SymbolStopHolds` (EmergencyStop), `RunningRuns`
(StrategyLifecycle), `ModifiesCurrent` (StrategyStore), `EntriesAreFound` (Registry), `EmaFollowsItsFormula`
(Indicators), `RecalculatesAll` and `FilledGetIndicators` (CandleJobs).

**Trade data**

- Aggregator. `tick()` returns one pending candle, though its docstring says it drains the queue (`aggregator.py:166`):
  a backlog leaves one candle per second.
- Recovery. `_recover_gap` breaks off at the first failing request (`recovery.py:318`) and its caller goes on behind
  the gap, although `:285` speaks of recovering it. An id is persisted before the aggregator has it (`recovery.py:273`,
  `service.py:284`), so a kill there loses it. After a kill the candle of the second that was open is built from what
  is recovered, and `stop()` drops what the aggregator holds (`service.py:472`, against the graceful stop of `:450`).
  The id `close()` read may be written behind a newer one (`recovery.py:403`), since the feed is cancelled only after it
  (`service.py:676`): the persisted id goes back, and the next start aggregates those trades again.
- WebSocket. After a successful `_reconnect` the loop connects again (`websocket_manager.py:246`, `:311`): the first of
  the two is replaced and never closed, so each reconnection leaves one open. `stop()` closes the one connection it
  knows (`:334`); one being opened stays open.
- Writer. While the database is down the buffer grows without limit (`database_writer.py:117`). A candle is lost when
  its symbol cannot be looked up (`:305`), and the buffer when the last flush fails (`:181`), with the id ahead of it.
- Jobs. The pipeline computes a candle's row from a buffer that may hold later ones when the aggregator emits an older
  second behind (`service.py:139`, `aggregator.py:149`): such a row (`overtaken`) looks ahead, no recalculation replaces
  it, since it exists, and the vector of its second carries it. A single missing second is never a gap; the last second of a gap stays missing when full answers end one second
  short of it. The gap fill stores one indicator row per symbol, at `now()`; a recalculation leaves out the symbols of
  the last second of a chunk that its limit cut; vectors made anew do not replace stored ones. A backfill includes the
  second in progress and never writes its checkpoint.
- Indicators. The filter behind the exponential average starts with the seed itself, without the factor
  (1 - multiplier) (`trend.py:135`), so the average of a constant price is not that price and the value behind the seed
  leaves the formula of the comment (`:132`); the averages of the RSI are filtered the same way (`momentum.py:86`). A
  buffer of `max(200, period + 20)` is too short for an ADX of a long period, and a stochastic's %D
  needs `k + d - 1` candles of `max + 20`; OBV and VWAP depend on where the buffer starts; opens are zeros.

**From tick to order**

- Runner. One row that fails to load delays every reload, deactivations included, by 30 s (`strategy_runner.py:628`). A
  limit BUY answered NEW counts as EXECUTED, and its take-profit order is placed before anything was bought (`:522`).
  A thread that timed out runs on beside the next one (`strategy_executor.py:88`): the model ignores its result, as the
  code does, and no property is about it. The signal history is ordered by tick and not by time, so the window of the
  deduplication is shorter by up to the timeout. The first tick preloads prices between its reload and its threads
  (`strategy_runner.py:344`), as long as Binance takes, so a strategy deactivated meanwhile still runs in it. An order
  whose answer is lost is placed again under its client order id, which the exchange refuses only while the first is
  open.
- Price statistics. The preload happens at the first tick only, whatever comes of it, so strategies activated later
  have averages of what was recorded since. Pages read before three errors are used. The seconds of the preload may be
  counted twice; the averages of a paused symbol may be days old.
- Redis runners. After a failed read the new connection hears no channel known before, also after `stop()` and
  `start()`: such a runner works on no tick of it. Every `start()` adds the callback again, and to a list that is being
  gone through, so a tick at hand is worked on twice, which the promise leaves out (it is not of the current
  connection). A stop during the listener's sleep of 5 s is undone by `connect()`; each failed read adds a listener.
  The enhanced runner asks the manager for UUIDs (`strategy_runner_enhanced.py:203`) and finds nobody. Only tests
  construct these runners.
- Orders. An answer read before a cancel and stored behind calls the order open; a refresh updates the key asked for
  and the exchange's id only. Every failure is retried, lost answers too, so an order may be placed twice or be
  unknown. The client keeps default rules for good after one failed `exchangeInfo`, and of fetched ones it reads a
  minimum in MIN_NOTIONAL only (`binance_exchange_client.py:119`), while the engine reads NOTIONAL too
  (`binance_filters.py:313`): against the latter a client without the engine checks nothing. The engine clamps prices and
  raises quantities to the minimum; the adjustments of half a percent get lost in ticks, and the third is never used.
- Backtest. The grid's SELL never finds an engine position, since no strategy sends `sell_level_index`; a BUY it cannot
  pay marks its level used; an odd `grid_size` fails (`grid_strategy.py:119`). The paper service fills LIMIT orders at
  once. At `max_open_positions` a strategy is not asked, so one that closes by a SELL cannot sell. Of two positions of
  equal entry and quantity the engine drops its first record, whichever was hit, so the grid's books agree on what is
  open and not on the order; nothing asks for the order, since its SELLs close nothing.

**Control**

- Guardrails. Orders checked before the last one is reported overshoot the limits (`risk_guardrails.py:234`), and nothing
  under `src/` calls `update_position_state`: hence `MaxUnreported`. An account at or below zero is not checked for a
  loss (`:323`). `unregister_strategy` forgets loss and kill switch (`:181`), and the enhanced runner calls it with
  every deactivation. After midnight the old loss counts until the day's first result resets it (`:216`, `:508`).
- Emergency stop. The release of one of two stops lifts the switch they share (`emergency_stop.py:229`); a stop of the
  same second and level overwrites the record of the first (`:123`); a stop by symbol reports strategies and sets no
  switch (`:146`).
- Lifecycle. An activated instance is never found again (finding `deactivated_runs`): pauses and errors do not reach it
  either, and after a deactivation or a failed start only a restart of the process makes an activation possible. Ticks
  come to it when a runner shares the manager (`TickRunner`). PAUSED to ERROR is written though `VALID_TRANSITIONS` lacks it (`runtime.py:31`); a failing save leaves the
  state changed; activation pins the version of the first activation (`strategy_lifecycle.py:114`); resuming a stopped
  strategy gives RUNNING without an instance (`:362`); a save writes the whole row (`strategy_repository_pg.py:51`).
- Strategy tables. `transition()` passes a dictionary for a jsonb column and fails; deleting a strategy with signals
  violates a foreign key; a save behind a deletion brings the row back without versions. The modify route starts from
  `versions[-1]`, the oldest, where its comment says the current (`strategies.py:949`).
- Configurations. Only the choice of an active version and the paths of the language model validate; creation and
  `/versions` do not. "live" is looked for as a substring, and generated strategies have no active version.
- Backtest jobs. Jobs are known to their process only; an INSERT committed with a lost answer leaves a failed job with
  a row; progress is invisible between 0.1 and the end, since the candle loop never awaits.
- Registry. The PUT of a configuration entry is answered 200 when there is no such row (`config_manager.py:171`), where
  its docstring lists 404 (`routes/config.py:143`). A NULL `min_notional` compares as unchanged
  (`asset_sync_service.py:370`): it stays until another value of its row changes, and `SyncTakesEffect` does not promise
  more. A synchronisation overwrites what an operator set, counts halted and unparsable symbols as delisted, and an empty
  list deactivates everything; `--no-auto-activate` deactivates every listed symbol. `POST /api/indicators` can
  never register (`indicator_manager.py:175`), and statements on `symbols.exchange` and `system_config.id` name columns
  that do not exist. The collector never reconnects and loses its buffer when interrupted.
- Audit. The migrations have no table `audit_log` and nothing calls `start()`; events logged during an awaited COPY are
  cleared uncopied, and a failed COPY may be repeated.

**Research**

- The tests of the entry model never trade: they ask for a prediction with a threshold (`routes/backtest.py:501`,
  `ml/backtest.py:76`, `:231`), which `EntryPointModel.predict` does not take (`ml/entry_model.py:236`), and end with a
  TypeError, as does `routes/entry_signals.py:64`. `walk_forward_backtest`, which nothing calls, also stops its training
  early on the rows it is to be tested on (`:73`, `entry_model.py:166`), against its docstring (`:30`), and its labels
  look past their fold; `EntryPointDataset` gives filtered rows the first timestamps.
- `backtest_trading_tcn.py` lays vectors over candles by their place, so each candle without a vector lets it look
  ahead by a row; the route with a threshold of zero or less would take rows without a score for signals. Smoothed targets are stored with `"use_future": False` (`target_value.py:682`).
- Trainings share `norm_params.npz` and `checkpoint.pt`; a model loaded between the saving of weights and the copy of
  the parameters stays in the cache without normalisation; a NaN loss resets early stopping; a resumed training takes
  the checkpoint's loss as the best (`ml/train.py:373`). Routes never trade a position opened on the last candle.

## Proofs

Eight modules, each extending those it is about, hold the theorems. What they assume of constants are the named
`ASSUME`s of those modules, and TLC evaluates them in the runs. TLAPS checks every leaf. A proof has one lemma per
part of the inductive invariant, with a case per action. Where a step writes a record or a sequence, a lemma of its
own (`...Effect`) says first what is different afterwards, and the cases use that.

**IngestProofs**, of the aggregator: for any number of trades and ticks. TypeOK and WindowPurity are inductive. `Lossless` goes by
cases over what a step moves: a roll moves the open window to the queue, a tick a candle from queue or window to the
emitted ones, and a new trade enters the open window. `NoDuplicates` alone is not inductive, since a new trade could be
in an older candle: WindowPurity bounds the ids of every candle by the length of the tape. `Partition` is both.
`CandlesAlwaysTell` needs `Timeliness`, true as long as delivery was orderly: candles come in the order of their
seconds (`InOrder`), nothing of a second is to come once its candle is closed (`Closed`), a candle holds all trades of
its second (`Contents`), and `last_close` is the newest trade before the open window (`LastPrice`, `FlatPrices`).

**IngestProofs**, of the recovery manager: for any ids, answer size and persistence interval. `IInv` says who may hold what (`Holdings`),
that the persisted id is at most the last one and that at most the newest (`Bounds`), that a recovery worked off its gap
up to the id in hand (`GapWorkedOff`), what is still to be read (`Unread`) and what the aggregator was given (`Fed`).
A lost id is then in a gap that broke off or was due for persisting: `LossesAlwaysExplained`. `CursorAdvances` is the
safety half of RecoveryAdvances; `Bounds` bounds the id `close()` holds, too, which its late write brings back. `Implementation` is the refinement: initial states map to initial ones, and
`StepsOfTheFeed` maps every step to a step of TradeFeed or a stutter.

**PipelineShutdownProofs**: for any seconds, batch size and number of candles. Of the writer: the buffer ascends by
version and holds candles that were written (`Ordered`); for each second in it some buffered version is at least the
stored one (`BufferNewest`). This makes a repeated batch harmless: after a cancelled flush of unknown outcome the same
candles are written again, and as the last one of a second is the newest, no row goes back. The upsert takes the largest
index of a second, which exists by well-foundedness. `StepsOfTheWriter` then shows that each step of the pipeline is a
step of the writer or a stutter (`UsesItsWriter`), so the writer's theorems hold of the pipeline without a second proof.
`StopAlwaysLeavesNothing` rests on who holds the lock (`LockHolders`), what is torn down at each point of `stop()`
(`TakenDown`), and which connections may be open, replaced ones and the last (`Connection`). Of the socket there is no such refinement, since a
cancelled `start()` ends its loop at any await; only its types are carried over.

**TradingProofs**, of the guardrails: for any strategies, symbols, limits, balances, results and stops, over RiskGuardrails and the
stops on top of it. Exposure is a fold over the symbols; what an order adds to it (`SumsAfter`) is proved by the
smallest counterexample, a set of symbols for which the sum is wrong and no smaller set's is, which needs no induction
theorem. `LimitsAlwaysHold` adds to each limit the orders not reported; `LossLimitAlwaysHolds` ties the loss the service
knows to the day's loss; `StopsAlwaysTellKills` needs both directions, a stop behind each switch and a switch behind
each stop.

**TradingProofs**, of the orders: for any tasks, calls, rules and retries. `Core` describes objects under their keys, and `Guarded`
that a creating call looked its id up before its first await, and what may have happened since. `CoreKept` shows that
calls which leave the tables alone keep it. `TableInv` follows an answer from exchange to table, `WithinInv` a request
through both layers of rounding. The arithmetic is in `ClientRounds` and `EngineRounds`, which are statements about the
operators alone: what truncation, clamping and half-up rounding may do to a quantity or a price, for all rules.

**StrategyLifecycleProofs**: for any set of clients. `IInv` is TypeOK with `OneActivation`, `ActiveHasInstance` and
`Registration`: from the load of an activation on the state has an entry. While it initialises, the registered instance
is its own and not started, so the state can only be STOPPED, which the next step moves along the table. `NeverFound`
says that nobody takes the instance away meanwhile, since the keys differ. `RowsFollow` has a second invariant: while an operation is alone no one else is under way (`OthersIdle`),
it writes the state it chose (`AloneWritesState`), and row, event and state agree except while it is writing
(`AgreeUnlessWritten`). The rows and versions of MCStrategies have an invariant of their own, `StoreInv`, for any
requests side by side. A step is described once, by what it does to the request it is of and by what the others learn of
it (`Steps`, `Shapes`); each part is then kept for all other requests at once. `KnowsRow` says what a request about to
write still knows: every field of the row it read, but for those written since. `OwnStats` says whose prices the
statistics are made of between the steps of a backtest. `Activations` ties the three statements of an activation
together across deletions: one that found its version in an earlier life of the strategy marks nothing. `TextsInv` says
of each version which checks its request made. It needs that a configuration's mode is paper or live
(ConfigurationsAssumption), which the routes and the schema make sure of.

**StrategyRunnerProofs**: for any strategies, intervals and retries. `TimesOfResults` and `TimesOfSignals` say when
results and signals of the history were made, from which `RepeatsCaught` follows with the timeout as its slack; `Routing`
relates the step of a routing to the orders and answers it has, `TickWasAllowed` the current tick to the reload due.
The runners beside it share no variable with it, so each has an invariant of its own (`SidesKeep`). On the bus, `HeardOnce`
says that a channel the current connection hears has the callback once, since it is asked of Redis when it becomes known
and never again; `WireInOrder` that what waits there is in order and `Newer` than what was worked on; and `TicksInHand`
that a tick in a listener's hands is older than those that wait (`Ahead`), and newer than all work until a callback has it. Of the prices, `SInv` says that samples and what a preload has
read so far rise, that an average is of samples of its hour or day, and that nothing older than a week is kept between
two refreshes but what the first preload found. A filtered list is told by its places (`AtFacts`), whose order is by
rank, so that what holds of a list and its places holds of what is left of it.

**CandleJobsProofs**: for any symbols, buffer, chunk, batch and hour. `IInv` says that tables, buffers and caches hold
nothing later than the second they are of or at, or than the `newest` the pipeline came to before an overtaken one
(`TablesOK`, `PipelineOK`), and of each job what it has dealt with: a
gap is still to be filled or `Closed`; a candle of the range that a recalculation has passed has indicators, is in the
batch that is not written yet or is noted as cut (`DealtWith`, `Behind`); a time with indicators has a vector when the
cursor is behind it, or is among those being inserted. The pipeline goes on beside the job, so each of these is kept
also by what the pipeline stores meanwhile (`UnseenOK`, `DisturbedOK`). That a gap is closed when the answers reach its
end is the arithmetic of `GapIsClosed`. `OwnSecondKept` is the step behind OwnSecondFirst.

**OperationsProofs**: for any clients, symbols, trades, events and jobs. `PartsBehave` shows that the parts, side by
side, behave as their own specifications say, so each is reasoned about alone. `RegistryInv` describes the tables, the
synchronisation and the requests under way. What a step does to rows is said once for all of them (`TableMoves`: no
row goes but by a deletion; `Apart`: outside the synchronisation only rows that are noted change), and each part of the
invariant is kept by any step that does no more. `CallOK` says that a request about to write has found a row which only
a deletion can have taken since; `SyncTells` what the synchronisation knows of a row nobody touched: as it is to be once
seen, as it was read before, and on the list of those to be switched off if it has to be. `AuditInv` needs to know what
a copy under way clears without having copied it (`CopiesOfEvents`), `JobsInv` that a task has no row until it saves
(`TaskOfJob`), `CollectInv` that what was received stays in buffer, table or those left out. Of the pipeline, `Purity`
follows the trades of a candle through all queues into the table. `Timely` says what the first run may rely on while no
trade was late: trades still to come are of the present second (`OpenWindow`), so a window that is over has all its
trades (`Settled`), and so has a flat candle, since every trade that was received is in the open window, in the queue or
of a second handed out before (`InOrder`). It speaks of the first run only: `StoredNeverShrinks` shows what the second
one does. `ProcessedIsKept` is inductive with the order of the ids (`Counted`).

**OperationsProofs**, of the indicators: for any candles whose prices are in order and any parameters above 1. That the
buffer is empty or as long as the parameters ask for is the only invariant (TypeOK); all else is about the operators.
`Gcd` is a recursive function over pairs, so that it exists is shown by stages (`StagesTo`) and what it computes by the
smallest counterexample: it divides, and it grows with its arguments by a common factor (`GcdOfMore`). From there a
fraction in lowest terms is known by any n / d of its value (`Is`, `IsUnique`), and sums, differences and orders of
fractions follow as for numbers. A difference of two running sums is the sum of the window between them (`WindowSum`), also
where the input begins with NaN (`ValidIs`, `SmaIs`), and a mean, a Wilder average or a smoothed sum stays in the bounds of its
values (`MeanBetween`, `WilderIs`, `SmoothOrdered`). +DM and -DM never exceed the true range of their candle, because its
close lies between low and high (`RangeIs`); so the directional indices stay below 100, and the sums behind RSI and MFI
are never negative, whatever the filter makes of its seed.

**ResearchProofs**: for any seconds recorded or filled, calculations, tasks, trainings and any numbers the scripts are
given. The order of seconds goes by rank (`RankFacts`): the i-th of a set is the one with i up to it, so nothing has to
be counted through, and `OrderedFacts` says what follows of a sequence made so. `TestInv` follows a backtest: the trades so far
and the open position, which no row passed over has asked to leave. `LookingBackInv` adds the rows a test goes through,
which rise, and the tasks, whose values are of rows up to their own (`PredictionsAreOld`). For smoothed targets
`ReadsCandles` says what became of the rows a calculation read: the i-th is still a candle, and at most `late` candles
have come or been filled in before it; `StandsIn` what the statements behind it have left of each value it stored. That
the clearing reaches every bare edge is then a count: `Width - Shift` rows are cleared and at most `Shift` are bare at
either end. The samples are made in one step, so there the work is about the operators: that splits which share no
instant share no second (the shares are of a second's parts), that a label ends before the next split begins, and that
`argmax`, which gives the first row when none is reached, tells a gain before a loss all the same. `FilesInv` says of
each training how its loss to beat relates to its best epoch (`Steady`), that its file holds that epoch unless one of
the same name wrote over it (`HasItsFile`), and whose parameters may lie beside a model (`NormsExplained`).

**ResearchProofs**, of the tests on a simulated market: for any prices, quantities, slippage, fees, limits and lengths,
and each of the sixteen strategies. `BooksInv` says that the cash and what the open positions cost make up the initial
balance and the trades' results, that each position opened is open or has made its trade, and, while the test runs
(`Running`), that engine and market keep the same records, as many as the strategy counts. Same records means each as
often, since the engine drops its first record of an entry and quantity and not the one that was hit. A SELL closes the
oldest, so for strategies that give one the order must agree too; it does because the exits of such a position depend
on its entry alone (`Aims`), so that positions the engine cannot tell apart are hit together (`Together`). For the grid
`LevelsInUse` ties each position to a level in use, whose next level is where it is closed: a crossing that frees the
level has closed the position before (`LevelsFit`). Sums over sequences and what a candle closes go through their items
one by one: by the smallest set for which a statement on sums would be wrong (`SumOnFacts` and what follows), and by
the first item at which one on exits would be (`Climb`), which again needs no induction theorem. `OrdersInv` is about
orders given by hand: a fill at the market's price or worse cannot make anyone richer (`FairFill`).

TLC finds these invariants true in the runs' instances or ones close to them (`RInv` with three clients, 1.4 M states).
The proofs corrected what had been assumed: a deactivation takes effect in time only with a positive debounce time; a
limit of unreported orders must be positive for the bound on positions; WithinTheRequest, as first stated, held of the
rules of the run and not of all; FilesAreTheirs of two trainings and not of three, since the history kept the last
training that had written a name and not all whose best model bears it; and RunnersAreSound's averages of a week not of
all instances: when the first tick's candle was over a week old at the end of its preload, the samples that came
meanwhile are not pruned for an hour (`OfTheLastWeek` now says so). That engine and market keep their records in one
order held of a grid with two positions only, and the exits of macd_momentum told its positions apart in a model that let
it buy without a take-profit, which `_signal_buy` never does (`macd_momentum_strategy.py:344`): hence the third position
in the run, the order required where a SELL depends on it, and the take-profit in UserStrategies. The indicators were
modelled without the early return of `_calculate_adx` (`trend.py:280`), and the runs' parameters never reached it: a
buffer shorter than two periods has no ADX, and a %D or a signal line may be missing too. IndicatorsSound now says when.

Only model-checked:

- Liveness: EventuallyEmitted, NothingHangs and the second half of RecoveryAdvances rest on fairness and ENABLED, which
  TLAPS does not handle.
- StoredNeverShrinks is violated by TradePipeline, and DeactivatedRests by StrategyLifecycle: these are findings.

## Not modelled

| Part | Why |
|---|---|
| networks of `ml/` (layers, losses, command lines), external features | floating-point numerics |
| exchange data clients | HTTP and sockets; their answers, failures and losses are external actions of the callers |
| enrichment and recalculation services, gap detector | cannot run: `conn.listen` and `conn.notification` do not exist in asyncpg, and nothing starts them |
| data quality guard, anomaly detector | thresholds over single values; the pipeline logs the report and stores the value (`indicator_calculator.py:343`) |
| monitoring, administration services | counts for people to read, single statements on configuration tables |
| signal and output caches | bounded memory of the dashboard that nothing reads back |
| other repositories, API reads, dashboard | SQL and views; those that write are actions of the modules above |

Left out of modelled components: several symbols at a time (each has its own aggregator, recovery and writer, which
share nothing), counters, callbacks and breach records, ratios of reports, `recover_missing_trades` and `unsubscribe`
(no caller), the order router (`order_router.py:104` calls a method its normaliser lacks), `start_pipeline` (a second
overlapping call can lose a pipeline) and a second `stop_pipeline` (answers "stopped" while the first one flushes). What
is left out of each component is in its note in `PROJECT.json`.

## What comes next

Every safety property of the runs that holds is proved. What is left are liveness, which needs a prover for fairness
and ENABLED, and what the notes of the components modelled partly leave out.
