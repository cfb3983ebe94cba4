# Verification of the trading bot

TLA+ models of the trading bot: the C++ engine (backtest and live), the Python bot
it talks to, from its strategy file to its orders, and the research tool chain that
decides what the bot trades. TLC checks small instances; TLAPS proves for every
instance what the trailing stop, the sizing, the backtest's replay and books, the
orders of the live engine, the bot's history and orders, the research backtest, the
training pipeline and the parameter sweep promise.

## 1. The system

Paths are relative to the repository. A *bar* is a closed candlestick.

| Part | State it keeps | Operations | Where it can go wrong |
|---|---|---|---|
| `TrailingStop` (`live_engine/src/core/trailing_stop.*`) | side, hard stop, running extreme, indicator, period, window of the last bars | `configure`, `observe`, `on_entry`, `on_bar`, `reset` | parity with the label; the window over several positions; one-way trailing |
| `RiskManager` (`live_engine/src/core/risk_manager.*`) | balance, position, stop price, entry price, under one mutex | `update_*`, `set_stop_price`, `clear_stop`, `calculate_target_size` | sizing limits; callers that need two calls are not atomic |
| `MockExecutor` (`live_engine/src/backtest/mock_executor.*`) | resting limit orders, current bar, trailing stop, trade records | `set_market`, `send_order`, `arm_trailing_exit`, `check_and_execute_stop` | the ledger; a late order that rests and is filled unprotected |
| `DataReplayer`, `main_backtest` | line of the CSV | `run` | the lock-step with Python |
| `IpcServer` (`live_engine/src/core/ipc_server.*`) | two ZeroMQ sockets, queue of order updates | `publish_kline`, `publish_kline_and_wait`, `wait_for_python`, `handle_json`, `pump_order_updates` | acknowledgements; refused orders; `send_order`, `set_stop_price` and `arm_trailing_exit` are three steps |
| `OrderTracker` (`live_engine/src/live/order_tracker.*`) | map from client order id to order, with a "reported" flag | `register_order`, `on_order_update`, `mark_cancel_requested`, `get_timed_out_orders`, `has_open_order`, `prune` | messages before registration, two reporters of one end |
| `BinanceLiveExecutor` (`live_engine/src/live/binance_live_executor.*`) | tracker, trailing stop, "fired" flag, monitor thread | `send_order`, `monitor_loop`, `check_trailing_exit`, `arm_trailing_exit` | REST calls that block between a read and its use; lost answers; a close nobody looks after |
| `main_live`, market feed (`live_engine/src/live/main_live.cpp`, `binance_ws.cpp`) | market queue, reconnect flag | stream callback, engine loop, start with a position | four threads; a stream that loses messages, a feed that misses bars |
| `StrategyWrapper` (`core/strategy_wrapper.py`) | IDLE / WAITING_CLOSE, `_saw_position`, indicators | `on_bar`, `on_order_update` | re-entering while a position is open; waiting for ever |
| ZMQ client, feeder, gateway (`live_strategy/`) | sockets, copies of the engine's account, REST pages | `start_listening`, `fetch`, `_on_kline`, `send_order` | order and number of acknowledgements; the seam of history and live bars; an exception ends the loop |
| `LiveTurtleBot`, `strategy_factory` (`live_strategy/live_trend_bot.py`, `core/strategy_factory.py`) | the settings | `_bot_kwargs_from_yaml`, `build_strategy_from_config`, `start` | one file read by two readers |
| `ExecutionSpec`, `OrderPayload` (`core/`) | none | `to_dict`, `from_dict` | the spelling of the values on the wire; strings where enums are expected |
| Indicators (`research/indicator_spec.py`, `features.py`, `features_incremental.py`) | monotone deques, running sums, returns | `add_indicators`, `push`, `update` | a streaming tracker that is not the frame's column, gaps in the data |
| Triggers (`research/triggers/`) | none | `generate_signals`, the row form | a window filled from the future |
| Labelers (`research/labeling.py`) | none | `compute_labels` | ties and ends of the frame; agreement with the engine |
| Sizers and gates (`execution/`) | rolling peak | `size`, `allow_entry` | budgets; NaN |
| Research backtest (`research/backtest.py`) | capital, open trade, peaks, trades, refusals | one pass over the bars | lost events, overlapping trades, fees |
| Dataset builders (`research/dataset_builder.py`) | none | `build_dataset`, `build_ml_dataset` | a label among the features |
| Pipeline and evaluator (`research/pipeline_runner.py`, `evaluator.py`) | model and feature list on disk | `run`, `time_series_split`, `save` | leaks between folds; two files, one model |
| Parameter sweep (`research/param_sweep.py`, `phase3b_sweep.py`) | pool of processes, rows | `run_parameter_sweep` | hanging and dying workers, ranking |

How they interact:

* **Backtest.** One C++ thread: for each line of the CSV it moves the market
  (`set_market`), tests the stop, publishes the bar with the account's position
  on a PUB socket and reads a PULL socket until Python's acknowledgement. Python
  decides on the bar, sends at most one order, then the acknowledgement, down one
  PUSH socket. The handshake publishes a ping every 500 ms until the first
  acknowledgement.
* **Live.** Four threads share `RiskManager` and `OrderTracker`: the engine loop
  (queued order updates out, stop test and publication of a bar), the receive
  thread (orders from Python), the order monitor (query, cancel, chase) and the
  private stream's callback (fills and positions). Nothing is persisted. The bot is
  one thread: it subscribes, reads REST pages into its indicators, then listens.
* **Research.** A frame of bars gives indicator columns, columns give events, events
  give labels and features; a backtest replays them, a pipeline trains a model on them,
  a sweep does either for every combination of a grid. The columns, the
  triggers' row form and the feature callables are the ones the live bot uses.

## 2. Modules

| Module | Models | State and actions |
|---|---|---|
| `TrailingStop` | the class, as operators on a record with its fields | the three deques are one `window` of bars; `on_bar` is `InForce`, `Hit`, `ExitPrice`, `AfterBar` |
| `RatchetStop` | what the class promises: side, stop in force, bar | `Open`, `Idle`, `Hold` (never looser), `Close` (on the first bar that reaches the stop, and only then) |
| `TrailingExit` | the class driven by either host, beside `TrailingExitLabeler` | `Enter` is `arm_trailing_exit` on a filled position; `NextBar` is one bar; `ObserveFirst` selects the host; `history` is every bar since the start |
| `RiskManager` | the account and `calculate_target_size` | operators; lots of 0.001, ticks, and cents of a tick-lot |
| `StrategyBrain` | the gate of `on_bar`, and `on_order_update` | operators; which bars give a signal is left to the user of the module |
| `MockExecutor` | the backtest's exchange | operators on a record `ex` |
| `Backtest` | engine thread, two pipes, Python process | `Ping`, `ReadBar`, `RunStop`, `Publish`, `ReceiveOrder`, `ReceiveAck`, `AckTimeout`, `EndOfData`; `Connect`, `HandlePing`, `PassBar`, `EnterOnBar`, `SendAck`, `PythonDies` |
| `OrderTracker` | the tracker | operators on the map |
| `LiveOrders` | the life of an order in the live engine | one program counter per thread; `Post`, `PostUnanswered`, `Register` for `place_order_internal` in any thread; `RxTake`, `RxCheckOpen`, `RxArm`; `Pump`, `CheckStop`, `PublishKline`; `Collect`, `Query`, `Cancel`, `Sync`, `Mark`, `Report`; the exchange's `Trade`, `Expire`; the stream's `Deliver`, `Disconnect` |
| `BotConfig` | both readers of a strategy file, the defaults, `to_dict` | `Banner` and `Settings` of what `main()` is started with |
| `LiveTrading` | a live session: bot, engine, exchange, market | bot: `StartBot`, `FetchPage`, `WarmUp`, `WarmUpFails`, `HearBar`, `HearSignal`, `HearSignalRaises`, `HearOrderUpdate`, `BotDies`; receive thread: `RxRefuse`, `RxAccept`, `RxUnanswered`, `RxSetStop`, `RxArm`; engine loop: `CheckFlat`, `CheckHeld`, `CheckHit`, `CloseSent`, `CloseUnanswered`, `CloseRefused`, `Publish`, `MissBar`; stream: `Subscribe`, `Deliver`, `Disconnect`; `RestartEngine`; the exchange's `Fill`, `Expire`, `Liquidate`, `MarketCloses` |
| `Indicators` | the columns over a frame and the trackers beside them | operators; a tracker is a record with its deque or its sum |
| `Features`, `Triggers`, `Labelers`, `Sizers` | feature callables, nine entry rules, six labelers, three sizers and three gates | operators on frames, rows and parameters |
| `ResearchStudy` | a frame that grows bar by bar, the streaming indicators beside it, then `research/backtest.py` over it; the data set builders | `NewBar`, `Start`, `ReplayBar` (one pass of the position loop); `Report`, `build_dataset`, `build_ml_dataset` |
| `Evaluation` | the training pipeline and its two files | `Load`, `ScoreTrial`, `Conclude`, `SaveModel`, `SaveFeatures`, `Stop` |
| `ParamSweep` | the pool of worker processes and its caller | `Submit`, `Take`, `Finish`, `WorkerDies`, `Collect`, `CollectTimeout`, `Leave`, `RunNext` |
| `Sorting` | `sorted()`, a date range of an archive, `sort_values` | `SortedBy` a key that differs from element to element; `Ascending` |
| `MC*` | instances for TLC | |
| `*_proofs` | theorems and their proofs | |

`TrailingExit` uses `TrailingStop` and refines `RatchetStop`. `Backtest` composes
`MockExecutor` (with `RiskManager` and `TrailingStop`) and `StrategyBrain`.
`LiveOrders` composes `OrderTracker` and `StrategyBrain`. `LiveTrading` composes
`BotConfig`, `StrategyBrain`, `RiskManager` and `TrailingStop`. `Triggers` stands on
`Features` and `Indicators`, `Labelers` on `Triggers`, `ResearchStudy` on `Labelers`,
`Sizers` and `Sorting`, which `Evaluation` and `ParamSweep` use too; `MCResearch` runs the three research programs, which share nothing.

Choices that a reader should know:

* `Backtest`: volume appears only as the set of resting orders whose queue the bar
  clears; slippage is a fixed number of ticks; the impact multiplier, which scales
  it, is left out. Python's `hard_stop_mode "none"` is the stop 0. Wire type is
  `"market"`, as Python writes it, which `send_order` takes for a limit order.
* `LiveOrders`: entries are on one side and of one size, since the code treats the
  sides alike. The brain takes a message when it is published; the latency
  of both pipes is in `toEngine`. The trailing level is left open (a bar may hit the
  stop or not): `TrailingExit` has it. `check_trailing_exit` reads the position
  twice; an update between the reads commutes with one of them. The tracker's
  callback is part of the update that fires it. A test of a price or a balance that
  may refuse (`calculate_target_size`, the ticker of `reprice_order`) is a free
  choice.
* `LiveTrading`: a bar is its number in the market's history; whether it gives a
  signal or reaches the stop is a free choice, but a window that is not full gives no
  signal. Entries have no timeout, as every file under `config/` has it, and are filled
  whole, so the order monitor does not appear. The receive thread's test and
  `send_order` are one step (`LiveOrders` splits them); an order's end goes to the bot
  in one step where the code queues it for the engine loop.
* Research: prices are small integers, means are sums, deviations are compared by
  their squares, returns are differences of prices and the volume stands for its
  logarithm; the Kalman filter and the boosted trees are arbitrary functions. An ATR,
  a mean or a deviation is thus exact, and rounding is not modelled.
* Left out of `OrderTracker`: `prune`. It removes orders already reported, and
  every other method treats those as it treats an absent one.
* `CLOSE_LONG` and `CLOSE_SHORT` of `handle_json` are not modelled: no code in the
  repository sends them.
* The engine's documented spelling of policies (`i_order_executor.h:10-14`) is upper
  case; Python writes lower case. The entry specs of `LiveOrders.cfg` hold both,
  its exit spec is Python's default.
* An operator or action under a comment "Mutant" is a plausible bug, kept
  beside the original; no specification uses it.

## 3. Runs

| Run | Instance | Shows |
|---|---|---|
| `trailing_live` | 5 bar shapes, period 2, 6 bars, both indicators | `WindowIsRecentHistory`, `ParityWithLabeler`, `NeverExitsBeforeLabeler`, and that the stop implements `RatchetStop` |
| `trailing_mock` | the same in the mock's order of calls | `ParityWithLabeler` is violated |
| `backtest` | 3 bar shapes, 4 bars, 2 pings, stops on both sides and missing | `SingleExposure`, `LedgerOfRoundTrips`, `ProtectedPosition`, `BudgetedEntry`, `LagBoundedByPings`, `ReplayEnds` |
| `backtest_late_orders` | the same | `OrdersAppliedFirst` is violated |
| `backtest_waiting` | the same | `WaitingBrainHasExposure` is violated |
| `live_orders` | 1 lot, 2 orders, 1 signal, 1 lost answer, 1 lost stream message, four entry specs | `OneLiveOrderPerChain`, `ChaseBounded`, `ReportedEndIsTrue`, `TimedOrdersSettle` |
| `live_orders_duplicate_entry` | 3 orders, 2 signals, nothing lost | `OneEntryAtATime` is violated |
| `live_orders_double_fill` | 2 lots, nothing lost | `NoDoubleFill` is violated |
| `live_orders_untimed` | Python's default specs, nothing lost, every thread and the stream go on | `EndedOrdersSettle` is violated |
| `live_trading` | 8 bars of history, pages of 4, 3 bars, 2 starts, 1 fault of any kind, seven ways to start the bot | `HistoryIsMarket`, `WarmStart`, `OrderOnTheWire`, `OneExposure`, `WatchedByItsOwnStop`, `FiredStopIsClosing` |
| `live_trading_execution` | the same | `ConfiguredBotTrades` is violated |
| `research` | frames of up to 5 bars of 4 shapes, nine studies; four pipelines; a 2x2 grid with 2 workers | stream against frame (`StreamMatchesFrame`, `StreamSkipsGaps`, `LiveDecisionMatchesFrame`), no lookahead (`EventsAreFinal`, `SettledLabelsAreFinal`), `TripleBarrierLoopAgrees`, the backtest (`EveryEventAccounted`, `PeakOfWindow`, `RiskWithinBudget`, `ReportMatchesLedger`), `DatasetIsConsistent`, the pipeline (`ScoredOutOfSample`, `FoldsPurged`, `SavedPairMatches`), the sweep (`SweepIsComplete`, `BestRowFirst`, `SweepEnds`) |

Why the bounds are enough. Six bars of period 2 hold a warm-up, a trade from
entry to exit and a second entry on the trimmed window. Four bars of the replay hold
an entry, a stop, the re-arming and the next entry, at a lag of up to one bar; two
pings are the first that leave a spare acknowledgement. Two orders are an order and
its follow-up, or an entry and its close; one lost answer can be put at every REST
call, one lost message at every event. `LiveOrders` never stops (the engine loop
goes on), so its runs check deadlock. In `live_trading` the warm-up takes two or three
pages and the last may run into the first bar of the market; three bars are an entry,
a stop and the next entry; a lag of one bar is what puts the subscription before, between or
after the pages and their bars; the second start meets the first bot's position, and
one fault can come at any step. In `research` windows are two or three bars long, so five bars fill
one, drop a bar from it and come to a gap again; every trigger, labeler, sizer, gate
and order type is in one of the nine studies; a pipeline has up to three folds on evenly or
unevenly spaced events; four jobs on two workers queue, hang, raise or lose a worker.
Replays, bounded histories and sessions, and the research programs end, so their runs
do not check deadlock.

Fairness. `Backtest!FairSpec` assumes that the engine thread keeps running: every
wait of it has a wall-clock deadline (`recv_until_ack`, `wait_for_python`), and
nothing is assumed of Python. `LiveOrders!FairSpec` assumes that the order monitor
keeps running: it is a thread of its own on a 10 s timer whose REST calls have
timeouts. Nothing is assumed of the exchange, the stream or the brain: the orders that
settle do so by the monitor alone. `LiveOrders!EngineFairSpec`, which
`live_orders_untimed` is checked under, adds the other threads and the stream, so
that its counterexample is no message that was simply not delivered yet. The sweep's
caller and workers are assumed to keep running; a timeout or the death of a worker may
come or not, and a job that hangs hangs for ever. `LiveTrading` has no fairness.

## 4. What the runs say of the code

Violated, one run each:

* **Backtest parity** (`trailing_mock`). `MockExecutor::set_market` observes a bar
  before `check_and_execute_stop` tests it, so the trailing level includes the bar
  itself; `trailing_stop.h` asks for the other order and promises the labeler's
  exits. The live executor keeps the order.
* **Spare acknowledgements** (`backtest_late_orders`). Every ping is acknowledged,
  one is awaited. Each spare one lets the replay run one bar ahead for the rest of
  the run; orders are then filled against a later bar, or rest and are filled with no
  stop armed. `LagBoundedByPings` says how far it goes.
* **A brain that waits for nothing** (`backtest_waiting`). A refused entry is not
  reported and a one-bar position is never seen; `WAITING_CLOSE` has no other exit in
  the backtest.
* **Duplicate entry** (`live_orders_duplicate_entry`), **double fill**
  (`live_orders_double_fill`). Races of the monitor with the stream, for orders whose
  policy is in the engine's spelling.
* **Untimed order** (`live_orders_untimed`). The stream's callback tells a fill while
  another thread is between the answer of the POST and `register_order()`: the message is
  dropped, the order is registered as new, and without a timeout nobody asks again and
  no entry is accepted any more. No thread stands still and nothing is lost.
* **A bot that cannot trade** (`live_trading_execution`). `parse_execution_spec()` hands
  the file's strings to an `ExecutionSpec` whose `to_dict()` takes `.value` of enums. A file with
  `execution.entry` or `execution.exit`, as `README.md` and four strategies under
  `config/` have it, gives a bot that dies of its first order. Where the order type is
  `limit_post_only`, in four others, the banner's reader raises before (`KnownNames`).

A passing property whose statement has an exception says where the promise ends:

* `ChaseBounded` says of an order whose policy is in lower case that nothing follows it
  up: `monitor_loop()` compares with `"MARKET"` and `"REPRICE"`, Python sends `"market"` and
  `"reprice"`, and every timed-out order falls to the default branch. The trailing exit's
  default is `"market"`: a close still open after its timeout is canceled and abandoned,
  where `execution_spec.py:41-43` promises a market order.
* `OneExposure` excepts a second start of the bot and a restarted engine whose
  position query failed: a new brain is idle and asks nobody, and a blind engine
  accepts its order, so the position is entered twice.
* `WatchedByItsOwnStop` excepts a bar that is tested between the fill and
  `set_stop_price()`: it arms the stop of an earlier order, or 0, and as
  `arm_now_locked()` leaves an armed stop alone nothing corrects it. A position closed
  from outside and followed by a new one between two bars keeps the old stop, too.
  And it excepts an entry whose answer was lost or did not parse (`RxUnanswered`): the
  exchange has the order, `send_order()` is false, and `handle_json()` neither sets the
  stop nor arms; when it fills, `check_trailing_exit()` arms the stop of an earlier
  order, or 0.
* `FiredStopIsClosing` excepts closes that were refused, expired or abandoned: the
  position stays with no stop, since `check_trailing_exit()` ignores the answer and
  `trailing_fired_` silences it. A stop that fires before `arm_trailing_exit()` is
  forgotten by it and fires a second close. So does a second bot, which the run's one
  fault is too few to show: the stop fires, the position goes before its close is sent,
  and the new bot's entry arms a stop that fires while the first close still works.
  A close whose answer was lost (`CloseUnanswered`) is not tracked, so `has_open_order()`
  lets the next entry pass beside it; it does no harm until the position goes by something
  else. An entry whose answer was lost and that fills before the next bar looks like the
  position whose stop has fired, and gets none.
* `HistoryIsMarket` excepts the seam: the first live bar is the one after the
  subscription reached the engine, the last REST bar the one before the first page was
  asked for. Bars between are lost, or fed twice. A feed that was down
  leaves a gap, and an engine that restarts another. A REST page that fails leaves
  the bot cold, with the pages it had already.
* `WarmStart` speaks of entry, exit and trend windows: the ATR's and the volume's are
  not in `warmup_period`. An order decided while the ATR is not there is sized with an ATR
  of 1.0 (`strategy_wrapper.py:203-204`). One decided while the exit channel is NaN raises in
  the sizer and ends the bot (`HearSignalRaises`), unless the sizer is the volatility
  target, which never looks at the stop and sends the NaN; a bot that starts cold
  may come to either.
* `OrderOnTheWire` compares the lookback with the banner's only where the file names one
  that both readers ask for (`NamesTrail`); their defaults differ.
* `StreamMatchesFrame` excepts windows without volume and the volume score after a bar
  without volume: pandas propagates the gap, the tracker skips it. The model's
  inputs differ until the gap has left the window.
* `EventsAreFinal` excepts frames shorter than a back-filled window: there `bfill()`
  puts values of later bars into a signal.
* `TripleBarrierLoopAgrees` excepts an ATR barrier on the entry's own price: only the
  vectorised form moves it off, so the loop's trade ends on the next row.
* `FoldsPurged` begins at the second fold: the first trains up to the row before its
  validation rows, whatever the gap. The gap is an average and is capped below the
  fold's size, which the property excepts as well.
* `ReportMatchesLedger` compares fees for market orders of a backtest whose commission is
  0.0005 only. `total_fees` is computed from that literal (`ReportedCommission`), whatever
  `commission` the trades were booked with and also for limit orders that paid the maker's
  rate; at any other rate the report and the ledger disagree. Nothing in the repository
  says what `total_fees` is.
* `DatasetIsConsistent` holds of `prepare_features()` for every labeler. Of
  `build_ml_dataset()` it excepts three things that go wrong there:
  - the features in its metadata are every column but those it names, and `y_norm`,
    `raw_return` and `stop_distance` are not named: a data set labelled by a fixed horizon
    offers the trade's outcome as an input, one of a triple-barrier labeler object its
    stop. Only the triple-barrier method of a dict is clean. `prepare_features()` has a
    list of its own that excludes them;
  - a `FixedHorizonLabeler` is given up to 14400 bars as its held time, whatever its
    horizon, beside an exit row that keeps to the horizon (`HeldCap`);
  - the turtle, trailing and mean-reversion labelers give no `return_atr`, which the
    reordering of the columns asks for: a `KeyError` (`Reorders`, `Unbuildable`).
* `BestRowFirst` speaks of the rows that are kept; `phase3b_sweep` drops every row as
  soon as one job failed, since a missing error counts as one.
* `SweepEnds` excepts a job that hangs: `result(timeout)` kills nothing, and leaving the
  pool waits for it.
* `SavedPairMatches` excepts a run that was stopped between the two files.

## 5. Proofs

Checked by TLAPS for every value of the constants and behaviours of any length.

* `TrailingStop_proofs`: minima, maxima and sums of a window exist and are prices
  (`TrailingLevelNat`); `observe` keeps the newest end of the window
  (`TrimmedIsNewestEnd`) and moves nothing else; a bar without an exit moves the stop
  only in the position's favour (`TrailsOneWay`).
* `TrailingExit_proofs`: `TypeCorrect` (`[]TypeOK`), `WindowCorrect`
  (`[]WindowIsRecentHistory`) and `ImplementsRatchet` (`Spec => RatchetSpec`), for both
  orders of the host's calls. `TypeOK` becomes inductive once the history is known to be
  non-empty (`Typed`). `WindowIsRecentHistory` does not: that the window has a full period
  when a trade exits rests on its length while the position is open, which rests on
  the warm-up before the entry; `Windowed` adds the period, which is 0 or the
  configured one, and those lengths. The refinement needs `Typed` and, for each bar,
  `StepOutcome`: in either order the side and the stop in force change alike.
  `LiveHostMatchesLabeler` and `LiveHostIsNeverEarly` (`[]ParityWithLabeler`,
  `[]NeverExitsBeforeLabeler`) are about the live host: their hypothesis is that a bar is
  observed after it was tested (`~ObserveFirst`); in the mock's order parity is false
  (`trailing_mock`). Parity compares a closed trade with the labeler's exit bar, so its
  invariant, `Shadowing`, speaks of open trades: the stop of a trade entered with a trimmed
  window is the labeler's for the next bar, and no bar so far has reached one of the
  labeler's (`Shadows`); a trade whose window was longer stands no tighter, which is all the
  second property needs, as every later bar keeps it so.
* `Backtest_proofs`: every safety property of `Backtest`, for any CSV, any number of
  bars and pings, either spelling of the order type, any slippage and fee. One
  invariant, `BacktestInv`, has four parts beside the types.
  - `Exposed`. `OneExposureInBacktest` (`[]SingleExposure`) counts the pipe, the resting
    orders and the position; what keeps the count is what the brain will have seen when
    it comes to each kline under way. Those reports run through "none, some, none": once
    a held position was reported nothing is in the pipe (`Reported`), and a kline
    without a position behind one that had it says that it is over, now and in
    every later kline (`Ended`), so that an idle brain finds nothing left (`Rearmed`).
  - `InTime`. `LagIsBounded` (`[]LagBoundedByPings`): a read is paid for by an
    acknowledgement and an acknowledgement by a kline, so reads, acknowledgements under
    way, the one owed and klines under way are together at most the klines published
    (`PaidFor`). What lies before a bar's own acknowledgement was paid for by
    earlier klines and by pings (`BarInTime`), and the order keeps that bound when it
    leaves (`OrderInTime`).
  - `Books`. `LedgerBalances` (`[]LedgerOfRoundTrips`): after an odd number of records
    the last is the fill that opened what is held, after an even number
    nothing is held; so the next fill pairs with the last.
  - `Prompt`. With at most one ping the bound of `InTime` leaves no slack: an order is
    taken while the bar it was decided on is current, crosses its close and is filled at
    once. `PositionsAreProtected` and `EntriesAreBudgeted` (`[]ProtectedPosition`,
    `[]BudgetedEntry`) follow from the fill and from `SizeWithinBudgets`: the floored
    size times the stop distance is at most the risk budget, the position at most the
    leverage, and no size is given to an order without a stop on its losing side.

  `BacktestTypes` is `[]TypeOK`. `process_pending_orders()` is a fold; as at most one
  order ever rests, the proof unfolds it for none and for one. A closing fill whose
  price after slippage is not positive is refused by `execute_fill()`, and the stop object
  is disarmed all the same: with a fixed slippage above the price a position would lose
  its stop. `apply_slippage()` takes a fraction of the price, which `SlippageAssumption`
  says of the fixed number of ticks; the proof showed that it is needed.
* `LiveOrders_proofs`: every safety property of `LiveOrders`, for any number of lots,
  orders, signals, lost answers and lost messages. `OrdersInv` adds to the types:
  - an ended order never changes, what the stream and the queue carry about an end is its
    end, and a monitor that has marked or is about to report a cancel has had it confirmed
    (`EndsAreReportedTruly`, `[]ReportedEndIsTrue`);
  - an order that was followed up, or is about to be, is not live, and it was reported,
    so no monitor takes it up again; hence of a chain only the newest order can be live
    (`ChasesWorkOneOrder`, `[]OneLiveOrderPerChain`);
  - the orders of a chain and those its policy still leaves to the newest add up to the
    bound (`Within`), while that order is being posted, registered or tracked (`ChasesEnd`,
    `[]ChaseBounded`);
  - the net position is a sum over the orders, and no message carries more than was ordered
    (`LiveOrdersTypes`, `[]TypeOK`).

  That a sum over a finite set changes by what one of its elements changes by is proved by
  induction over its parts, stated as well-foundedness of a number, not through the
  library's induction rule.
* `LiveTrading_proofs`: `OrdersAsConfigured` (`[]OrderOnTheWire`). The invariant adds
  that `toEngine` is a sequence; the one action that puts an order on it, `HearSignal`,
  has turned the channel to the losing side, and the two readers of a file are compared
  case by case.
  In the same module, `HistoryIsTheMarket` (`[]HistoryIsMarket`) and `WarmBotIsReady`
  (`[]WarmStart`), by one invariant, `HistoryInv`. `HistoryIsMarket` speaks of what was fed;
  for the next bar to follow it, the bars in the inbox must be those from some bar `e`
  on, each once and in order (`UnderWay`), `e` must be the bar the indicators wait for
  (`Awaited`), and before the subscription the inbox must be empty (`NotJoined`). The
  REST pages end with the bar that was forming at the first of them and have no gap
  (`Pages`), however many bars the market closes meanwhile, so that dropping the last
  row leaves exactly the closed ones; and they are as many as the windows need or as
  there are (`Warm`). A fault counter never falls, which carries the exceptions.
* `LiveExposure_proofs`: `OnePositionAtATime` (`[]OneExposure`), for one bot start and
  no engine restart that starts blind, which are the property's own exceptions, and any
  number of all other faults. No process knows the position: the bot reads it in klines
  and account messages that come late or never. The invariant, `ExposureInv`, speaks of
  the bot's *view*: whether it saw a position, what the messages in its inbox say, the
  engine's position, what the account messages under way to the engine say, and the
  exchange's position, in that order (`View`). Of the view it keeps (`Gate`):
  - nothing in an idle bot's view is a position, and no order is working, so that it may
    send an entry;
  - in a waiting bot's view a position that goes does not come back, so that a bar which
    lets it go on says the truth by the time the next entry arrives;
  - at most one message tells of an entry that ended without a fill, and then no entry
    is working and no position was or will be seen (`on_order_update` may free the bot).

  Each message passed on makes the view shorter and no worse (`Calmer`, `Thins`), each
  fill or new message makes it longer at its end, and losing a message only leaves words
  out. What the exchange holds (`Sole`) is one order at most on its way or working, or
  one position. The invariant was first checked by TLC on `LiveTrading`'s instance.
* In the same module, on top of `ExposureInv`: `StopIsItsOrders`
  (`[]WatchedByItsOwnStop`) and `FiredStopCloses` (`[]FiredStopIsClosing`), for one bot,
  an engine that was not restarted and no bar that is checked between a fill and
  `set_stop_price()` (the first also without a liquidation or an entry whose answer was
  lost, the second without a lost answer of a close beside one of these); bots that die,
  refused, expired and lost orders and news, and each lost answer alone are covered. The invariant, `StopsInv`, adds:
  - the engine's part of the view: while an entry is on its way or at work it shows no
    position (`EngineGate`), so the stop is armed for the order that filled;
  - a close is sent once: between the hit and the close the bot cannot take the position
    for gone (`StillHeld`), so no entry follows; while the close works, its number is
    among the tracked, which makes `has_open_order()` refuse every entry, and once the
    engine hears that the position went it hears of no other, which keeps
    `check_trailing_exit()` from arming again (`OneClose`);
  - numbers are given once, and the news of an order's end comes when it is no more
    (`Numbered`), so no news of an earlier order takes the close off the tracked ones;
  - all that is told of positions is the one of the last order rx took; until its stop
    fires none goes, afterwards none comes; from `set_stop_price()` on the risk
    manager's stop is that order's, and so is the one that watches (`OwnStop`).
* `Research_proofs`, on `Evaluation`, `ParamSweep` and `Sizers`, each as a program of
  its own, and on the operators of a study (what holds of sums and extremes, of a frame,
  its labels and a tracker of the stream, whatever the study does with them):
  - `PairStaysTogether` (`[]SavedPairMatches`), whose invariant adds which columns the
    model under way was fitted on at each stage.
  - `ModelsAreScoredOutOfSample` (`[]ScoredOutOfSample`) and `LabelsArePurged`
    (`[]FoldsPurged`). The invariant, `Scored`, says that what was scored so far are the
    first trials of the configuration loaded, so that both are facts about `Trials`.
    They rest on `Ascending`: the k-th element of a finite set of rows has k-1 before it
    (`SortedAscending`), so later places hold later rows (`EventsInOrder`), and the folds are
    intervals of places (`FoldsFit`, `SplitInside`, `FoldsStayApart`). For the purge, in
    evenly spaced events two places are that many distances apart
    (`PlacesTimesDistance`, by the least counterexample), and `label_gap()` is at least the
    horizon over the distance (`GapCoversHorizon`).
  - `SweepCoversGrid` and `SweepRanksBestFirst` (`[]SweepIsComplete`, `[]BestRowFirst`).
    The caller may leave only when every future has its row, and on a broken pool only
    what was not yet collected fails; `SweepInv` therefore relates the state of each
    job, the path the caller is on and the rows it has (`JobsFollowPath`, `RowsFollowJobs`),
    and `RowsAreRanked` what the final table is: the rows ordered by a key that is
    different for each, which is all `SortedByKey` needs.
  - `FixedRiskWithinBudget` and `HalfKellyWithinBudget`, the budgets of Python's sizers,
    whose floors are taken in another order than the engine's: what `RiskWithinBudget`
    rests on in the research backtest.
* `Study_proofs`: the research backtest and the streaming indicators, for any bars,
  studies, window and capital. The backtest has one invariant, `StudyInv`. Its first part types the frame: every column of every row,
  the channels, deviations and returns among them, is an integer or the missing value
  (`ReadInv`), from which every trigger gives a signal per row and each labeler a label
  whose exit bar lies in the frame and not before its entry. Its second part,
  `ReplayInv`, is what one pass of the loop keeps; the pass has five stages (the gate's
  deque, the end of the open trade, the events of the row, the new trade, the equity)
  and a lemma for each of them.
  - `EventsAreAccounted` (`[]EveryEventAccounted`), by `EventInv`: the pointer stands at
    the first event not before the row, what it left behind is traded or counted as
    refused, or lies between the entry and the exit of a trade, and each trade begins
    after the one before it ended.
  - `DequeHoldsPeak` (`[]PeakOfWindow`), by `WindowInv`: the deque's rows ascend and lie
    in the window, their equities descend, and every row of the window that is not in it
    is followed by one in it of no less equity (`Deque`). Popping from either end, a
    window that is passed in one row and an equity that equals the last all keep that.
  - `TradesKeepBudget` (`[]RiskWithinBudget`), by `LedgerInv`: the capital is the initial one
    and the profits and losses so far, and each trade is sound for the capital at its
    opening (`CapitalAt`), a prefix sum that later trades leave alone.
  - `ReportAgrees` (`[]ReportMatchesLedger`) from the same: winners and losers are
    disjoint sets of trades, and the sum over all is that over both, since what is
    in neither is 0 (`SumOfSigns`). That the last equity is the capital, so that the report's
    return is the ledger's, takes more (`MarkedInv`): a trade's exit bar lies in the frame, so one
    that is open after the last row was opened on it (`StillOpen`), at its close, and its
    equity is marked with nothing.

  The stream adds a second invariant, `StreamInv`, that `StudyInv` carries: a tracker of
  sums holds the last values it was pushed with their sum and their sum of squares
  (`Summed`), a deque the rows of its window that no later one passes (`Peaks`, the argument
  of `DequeHoldsPeak`), the trackers of the volume the bars that traded (`TradedVolumes`), and
  each row that was returned is the frame's (`RowInv`). A bar that arrives leaves the earlier
  rows of the frame as they are, so only the new row has to be compared (`NewRow`).
  - `StreamIsFrame` (`[]StreamMatchesFrame`), and `GapsAreSkipped` (`[]StreamSkipsGaps`) for
    the bars without volume, which the trackers of the volume never see.
  - `LiveIsStudy` (`[]LiveDecisionMatchesFrame`): equal rows give equal signals because a bar
    does not close above its channel and below it at once (`ChannelOrdered`): the live rule
    tries the long side first, the study writes the short side last.

  The labels need the frame only.
  - `DatasetsAgree` (`[]DatasetIsConsistent`): the columns of every labeler's rows are named
    (`LabelsNamed`) and all of them are excluded by `prepare_features()`, so what is left of
    a data set is the features, in every row; `EventsInv` says that a replay has a label at
    each event and at least one. For `build_ml_dataset()` the columns of each method's label
    after its completion are named too (`CompletedNamed`, `MlHeld`): those of the triple
    barrier and at most `AddedColumns`, or, for the three labelers that cannot be built,
    none called `return_atr` (`MlLacking`).
  - `LoopIsVectorised` (`[]TripleBarrierLoopAgrees`): a recursion that goes on until a row
    stops it gives what the least of those rows gives (`ScanResult`; that it has a solution
    is `ScanExists`), and the first touch of either barrier is that row. The guard of the
    vectorised form moves a barrier only when it lies on the entry, because an ATR is
    never negative (`AtrNotNegative`).
  - `LabelsAreFinal` (`SettledLabelsAreFinal`, a property of steps): the rows that end a trade
    in the longer frame are those of the shorter one and perhaps the new row, and a new
    row is never the first of them when there was one before (`FirstStays`).

  The signals need one more invariant, `SignalInv`: the events are those of the frame as
  it is, and every row has a residual of the pair's filter.
  - `SignalsAreFinal` (`EventsAreFinal`, a property of steps), a lemma for each of the nine
    rules. A window that ends at a row reads the rows up to it (`SeriesStays`); a row
    that is filled from the next known one stays once the last row is known
    (`FillStays`), and that is what `NothingToFill` gives: the ATR's window, the band's
    volume (`WindowTrades`) and the residuals' window (`ResidualsAreFull`) end in a full
    one. The two loops over the rows, the cooldown and the pair's position, have a
    solution up to every row, and two that agree on the rows so far agree on the
    next (`CooldownStays`, `PositionsStay`).

  `SumFunction` unfolds to a recursion over subsets. That the recursion has a solution
  and that the solution adds is proved from the least cardinality of a counterexample,
  without the library's induction rule.

Assumptions are the named ones of the modules: bars with positive prices and
low <= close <= high, a positive period, positive risk divisors; a slippage that leaves a
price (`SlippageAssumption`, the code's is a fraction of the price) and an order type that
is not the word that marks an acknowledgement (`WireAssumption`); pages and history of
at least one bar, and periods that are natural numbers (`StartedAssumption`); a model's
missing value is not a number; configurations that test on data after the data they train
on (`PipelinesAssumption`), and grids of finitely many values, none of them empty
(`GridAssumption`); in the research frame, bars of natural numbers with a positive close
and a low that is at most the high, each with a residual of the pair's filter, which it
yields for every bar (`BarsAssumption`), positive periods (`PeriodsAssumption`), windows of
at least one row and cooldowns that count rows (`ParamsAssumption`), barriers that are
natural numbers or fractions (`ExitsAssumption`), sizers whose parameters are natural numbers and a labeler that
reports `barrier_hit` (`StudiesAssumption`; the backtest reads it of every label,
`backtest.py:110`, and the fixed horizon's have none).

Only model-checked: all liveness (fairness and ENABLED are out of the prover's reach).

## 6. Plan

1. Hazards without a property: `reprice_order()` without a market price, a canceled
   update with the copy's filled quantity, the receive thread that reads `executor_`
   before it is written, a residue below one lot. The first two are steps of
   `LiveOrders`, and need a statement of what a brain may assume; so does a position
   whose entry nobody tracked.
2. Larger instances: two lots in `LiveTrading`, with the order monitor of `LiveOrders`
   in it.

## 7. Not modelled

Signing, listen keys, JSON and MessagePack; the statistics of a report (Sharpe ratio,
deciles, `trigger_analysis.py`); boosted trees and the Kalman filter's arithmetic;
downloads, file conversion, scripts and command lines; floating-point rounding.
`StrategyWrapper.from_yaml` and `on_position_closed` have no caller, `prune`,
`CLOSE_LONG` and `CLOSE_SHORT` no effect or no sender. `PROJECT.json` lists every part
with its reason, and the hazards with the properties that cover them.
