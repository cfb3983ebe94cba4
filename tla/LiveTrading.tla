---------------------------- MODULE LiveTrading -----------------------------
(***************************************************************************)
(* A live session: the Python bot (feeder, ZMQ client, StrategyWrapper,    *)
(* gateway) from its start-up to its orders, and the part of the C++       *)
(* engine that watches the position those orders open.                     *)
(*                                                                         *)
(*   bot     one thread: start(), REST warm-up, start_listening()          *)
(*   rx      IpcServer::receive_loop: handle_json() of an entry            *)
(*   main    main_live.cpp's loop: check_trailing_exit, publish_kline      *)
(*   stream  the private WebSocket: positions and ends of orders           *)
(*                                                                         *)
(* A bar is its number in the market's history; what a bar looks like, and *)
(* so whether it gives a signal or reaches the stop, is left open.  Entries *)
(* carry no timeout, as DEFAULT_ENTRY_EXECUTION and every file under       *)
(* config/ have it, so the order monitor never touches one: LiveOrders has *)
(* the monitor.                                                            *)
(***************************************************************************)
EXTENDS BotConfig, StrategyBrain, SequencesExt, FiniteSetsExt

CONSTANTS
  Started,      \* what main() may be started with
  History,      \* bars closed before the session
  Batch,        \* klines per REST page (1500)
  MaxBars,      \* bound: bars the market closes
  MaxLag,       \* bound: bars the engine is behind the market
  MaxStarts,    \* bound: starts of the bot
  MaxFaults     \* bound: faults, all kinds together

ASSUME SessionAssumption ==
  /\ History \in Nat \ {0} /\ Batch \in Nat \ {0}
  /\ MaxBars \in Nat /\ MaxLag \in Nat /\ MaxStarts \in Nat /\ MaxFaults \in Nat

\* Whatever main() is started with, the periods it comes to are numbers of bars.
IndicatorSettings ==
  [entry_period : Nat, exit_period : Nat, atr_period : Nat, ma_period : Nat]
ASSUME StartedAssumption == \A s \in Started : Settings(s).indicators \in IndicatorSettings

VARIABLES
  closed,      \* bars the market has closed
  published,   \* bars main is through with
  start,       \* what the operator starts main() with
  bot,
  inbox,       \* messages on their way to the bot's SUB socket
  toEngine,    \* orders on their way to rx
  account,     \* risk_, a RiskManager
  watch,       \* trailing_stop_, a TrailingStop; its window is left out
  fired,       \* trailing_fired_
  tracked,     \* OrderTracker: which orders it takes for open
  rx, main,
  exch,        \* the exchange: net position and working orders
  stream,      \* user-stream messages under way
  count        \* the bounded events so far

botVars == <<start, bot>>
engineVars == <<account, watch, fired, tracked, rx>>
vars == <<closed, published, botVars, inbox, toEngine, engineVars, main, exch, stream, count>>

settings == Settings(start)

Risk == INSTANCE RiskManager WITH RiskShare <- 1, Leverage <- 1, Cents <- 1
TS == INSTANCE TrailingStop

\* What may go wrong, and how often it did.
Faults == {"died", "rest", "lost", "unfilled", "liquidated", "engine", "blind", "raced",
           "missed", "unanswered", "untracked"}
FaultsLeft(kinds) ==
  LET Times(kind) == count.faults[kind]
  IN  MapThenSumSet(Times, Faults) + Cardinality(kinds) <= MaxFaults
AfterFaults(kinds) == [k \in Faults |-> IF k \in kinds THEN count.faults[k] + 1
                                                       ELSE count.faults[k]]
Fault(kinds) ==
  FaultsLeft(kinds) /\ count' = [count EXCEPT !.faults = AfterFaults(kinds)]

\* An order is placed and nobody is told.
FaultPlaced(kinds) ==
  /\ FaultsLeft(kinds)
  /\ count' = [count EXCEPT !.placed = @ + 1, !.faults = AfterFaults(kinds)]

-----------------------------------------------------------------------------
(***************************************************************************)
(* LiveTurtleBot.start(): connect, warm up, listen.  rows are raw_klines,  *)
(* absorbed what the streaming indicators were fed, no longer than the     *)
(* longest of them remembers.  firstPage and joined are where the market   *)
(* and the engine stood at the first REST page and when the subscription   *)
(* reached the engine; 0 is not yet.                                       *)
(***************************************************************************)
NewBot(phase) ==
  [phase |-> phase, subscribed |-> FALSE, rows |-> <<>>, absorbed |-> <<>>,
   brain |-> FreshBrain, cold |-> TRUE, firstPage |-> 0, joined |-> 0]

Remembered(absorbed) ==
  LET ind == settings.indicators
      most == Longest({ind.entry_period, ind.exit_period, ind.atr_period, ind.ma_period})
  IN  IF Len(absorbed) > most THEN SubSeq(absorbed, Len(absorbed) - most + 1, Len(absorbed))
                              ELSE absorbed

\* main() and start() up to connect(): sockets are lazy, the engine need not be there.
StartBot ==
  /\ bot.phase = "down" /\ count.starts < MaxStarts
  /\ Starts(start)
  /\ bot' \in {NewBot("warmup"), NewBot("listening")}           \* --no-warmup
  /\ inbox' = <<>>
  /\ count' = [count EXCEPT !.starts = @ + 1]
  /\ UNCHANGED <<closed, published, start, toEngine, engineVars, main, exch, stream>>

\* The engine's PUB socket learns of the subscription; what it published before is gone.
Subscribe ==
  /\ bot.phase # "down" /\ ~bot.subscribed
  /\ bot' = [bot EXCEPT !.subscribed = TRUE, !.joined = published]
  /\ UNCHANGED <<closed, published, start, inbox, toEngine, engineVars, main, exch, stream, count>>

\* _warmup_buffer(): window_size + 5.
fetch_limit == settings.warmup_period + 1 + 5

\* The newest page ends with the bar that is still forming.
Page ==
  LET last == IF bot.rows = <<>> THEN closed + 1 ELSE Head(bot.rows) - 1
      first == IF last > Batch THEN last - Batch + 1 ELSE 1
  IN  [i \in 1..(last - first + 1) |-> first + i - 1]

FetchPage ==
  /\ bot.phase = "warmup" /\ Len(bot.rows) < fetch_limit /\ Page # <<>>
  /\ bot' = [bot EXCEPT !.rows = Page \o bot.rows,
                        !.firstPage = IF bot.rows = <<>> THEN closed ELSE @]
  /\ UNCHANGED <<closed, published, start, inbox, toEngine, engineVars, main, exch, stream, count>>

\* Mutant: the forming bar is taken for a closed one.
AllRows(rows) == rows

ClosedRows(rows) == IF Len(rows) > 1 THEN Front(rows) ELSE rows

\* The pages are complete or used up: the closed bars go into the indicators.
WarmUp ==
  /\ bot.phase = "warmup" /\ bot.rows # <<>>
  /\ Len(bot.rows) >= fetch_limit \/ Page = <<>>
  /\ bot' = [bot EXCEPT !.phase = "listening", !.rows = <<>>, !.cold = FALSE,
                        !.absorbed = Remembered(ClosedRows(bot.rows))]
  /\ UNCHANGED <<closed, published, start, inbox, toEngine, engineVars, main, exch, stream, count>>

\* Any page fails: the pages before it are dropped too, and the bot starts cold.
WarmUpFails ==
  /\ bot.phase = "warmup"
  /\ bot' = [bot EXCEPT !.phase = "listening", !.rows = <<>>]
  /\ Fault({"rest"})
  /\ UNCHANGED <<closed, published, start, inbox, toEngine, engineVars, main, exch, stream>>

-----------------------------------------------------------------------------
(***************************************************************************)
(* StrategyWrapper.on_bar().  A window is full when it has been fed its    *)
(* period, without the bar at hand; before that its value is NaN, which no *)
(* comparison of a trigger passes.                                         *)
(***************************************************************************)
Full(period) == Len(bot.absorbed) >= period

\* AdamBreakoutTrigger, TrendFilteredBreakoutTrigger (long only by default).
Signals ==
  IF ~Full(settings.indicators.entry_period) THEN {}
  ELSE IF settings.trigger # "trend_breakout" THEN {1, -1}
  ELSE IF Full(settings.indicators.ma_period) THEN {1} ELSE {}

\* BracketExit.initial_stop(), of the bar an order was decided on: 0 for none, -1 for NaN.
\* A missing ATR is 0 among the features and 1 to the exit, so it does give a stop.
InitialStop(bar) ==
  CASE settings.hard_stop_mode = "donchian" ->
         IF Full(settings.indicators.exit_period) THEN bar ELSE -1
    [] settings.hard_stop_mode = "atr" -> bar
    [] OTHER -> 0

\* math.floor() of a NaN raises.  VolatilityTargetingSizer takes the ATR whatever the stop,
\* so its order is sent with the NaN.
SizingRaises(bar) == settings.sizer # "volatility_targeting" /\ InitialStop(bar) = -1

\* Mutant: the configured channel goes out whatever the side.
TrailingAsConfigured(side) == settings.trailing

\* The channel of the position's losing side; the moving average serves both.
TrailingFor(side) ==
  CASE settings.trailing = "donchian_low" /\ side < 0 -> "donchian_high"
    [] settings.trailing = "donchian_high" /\ side > 0 -> "donchian_low"
    [] OTHER -> settings.trailing

OrderPayload(side, bar) ==
  [side |-> side, stop |-> InitialStop(bar), indicator |-> TrailingFor(side),
   period |-> settings.indicators.exit_period,
   entry |-> settings.entry_execution, exit |-> settings.exit_execution]

\* A message of the engine, taken off the SUB socket by start_listening().
Hear ==
  /\ bot.phase = "listening" /\ inbox # <<>>
  /\ inbox' = Tail(inbox)

Fed(bar) == Remembered(Append(bot.absorbed, bar))

\* Nothing comes of the bar: it waits, or there is no event, the model says no, the size is 0.
HearBar ==
  /\ Hear /\ Head(inbox).kind = "kline"
  /\ bot' = [bot EXCEPT !.absorbed = Fed(Head(inbox).bar),
                        !.brain = AfterGate(bot.brain, Head(inbox).position)]
  /\ UNCHANGED <<closed, published, start, toEngine, engineVars, main, exch, stream, count>>

HearSignal(side) ==
  LET m == Head(inbox)
      order == OrderPayload(side, m.bar)
      sent == Serialisable(order.entry) /\ Serialisable(order.exit)
  IN  /\ Hear /\ m.kind = "kline"
      /\ MayEnter(bot.brain, m.position) /\ side \in Signals
      /\ ~SizingRaises(m.bar) /\ sent
      /\ toEngine' = Append(toEngine, order)
      /\ bot' = [bot EXCEPT !.absorbed = Fed(m.bar), !.brain = Entered(bot.brain, m.position)]
      /\ UNCHANGED <<closed, published, start, engineVars, main, exch, stream, count>>

\* The sizer or to_dict() raises: start_listening() closes its sockets and main() ends.
HearSignalRaises(side) ==
  LET m == Head(inbox)
      order == OrderPayload(side, m.bar)
  IN  /\ Hear /\ m.kind = "kline"
      /\ MayEnter(bot.brain, m.position) /\ side \in Signals
      /\ SizingRaises(m.bar) \/ ~(Serialisable(order.entry) /\ Serialisable(order.exit))
      /\ bot' = NewBot("down")
      /\ UNCHANGED <<closed, published, start, toEngine, engineVars, main, exch, stream, count>>

HearOrderUpdate ==
  /\ Hear /\ Head(inbox).kind = "order_update"
  /\ bot' = [bot EXCEPT !.brain = OnOrderUpdate(bot.brain, Head(inbox))]
  /\ UNCHANGED <<closed, published, start, toEngine, engineVars, main, exch, stream, count>>

\* The process ends at any time: nothing of it is kept.
BotDies ==
  /\ bot.phase # "down"
  /\ bot' = NewBot("down")
  /\ Fault({"died"})
  /\ UNCHANGED <<closed, published, start, inbox, toEngine, engineVars, main, exch, stream>>

-----------------------------------------------------------------------------
(***************************************************************************)
(* The market, and the exchange as the engine uses it (both outside this   *)
(* repository).  An order is one lot, or as many as the position it        *)
(* closes; a reduce-only order never turns the position.                   *)
(***************************************************************************)
MarketCloses ==
  /\ closed < History + MaxBars /\ closed - published < MaxLag
  /\ closed' = closed + 1
  /\ UNCHANGED <<published, botVars, inbox, toEngine, engineVars, main, exch, stream, count>>

Sign(n) == IF n > 0 THEN 1 ELSE IF n < 0 THEN -1 ELSE 0
Size(n) == n * Sign(n)

Order(id, side, lots, reduceOnly) ==
  [id |-> id, side |-> side, lots |-> lots, reduceOnly |-> reduceOnly]

Reduces(o) == Sign(exch.net) = -o.side
NetAfter(o) ==
  IF o.reduceOnly /\ Size(exch.net) < o.lots THEN 0 ELSE exch.net + o.side * o.lots

AccountMessage(net) == [kind |-> "account", position |-> net]
OrderMessage(o, status, filled) ==
  [kind |-> "order", id |-> o.id, status |-> status, filled |-> filled,
   reduceOnly |-> o.reduceOnly]

\* The exchange fills the order: the account's message comes before the order's.
Fills(o) ==
  /\ o.reduceOnly => Reduces(o)
  /\ exch' = [net |-> NetAfter(o), working |-> exch.working \ {o}]
  /\ stream' = stream \o <<AccountMessage(NetAfter(o)), OrderMessage(o, "FILLED", o.lots)>>

Fill(o) ==
  /\ Fills(o)
  /\ UNCHANGED <<closed, published, botVars, inbox, toEngine, engineVars, main, count>>

\* An order ends unfilled: the exchange expires it, or its timeout abandons a close.
Expire(o) ==
  /\ exch' = [exch EXCEPT !.working = @ \ {o}]
  /\ stream' = Append(stream, OrderMessage(o, "EXPIRED", 0))
  /\ IF o.reduceOnly /\ exch.net # 0 THEN Fault({"unfilled"}) ELSE UNCHANGED count
  /\ UNCHANGED <<closed, published, botVars, inbox, toEngine, engineVars, main>>

\* The position is closed by something else than the engine.
Liquidate ==
  /\ exch.net # 0
  /\ exch' = [exch EXCEPT !.net = 0]
  /\ stream' = Append(stream, AccountMessage(0))
  /\ Fault({"liquidated"})
  /\ UNCHANGED <<closed, published, botVars, inbox, toEngine, engineVars, main>>

-----------------------------------------------------------------------------
(***************************************************************************)
(* stream: the callback of main_live.cpp; an order's end goes through      *)
(* queue_order_update() and pump_order_updates() to the bot.               *)
(***************************************************************************)
ToBot(message) == inbox' = IF bot.subscribed THEN Append(inbox, message) ELSE inbox

Deliver ==
  /\ stream # <<>>
  /\ stream' = Tail(stream)
  /\ LET m == Head(stream)
     IN  IF m.kind = "account"
         THEN account' = Risk!UpdatePosition(account, m.position) /\ UNCHANGED <<tracked, inbox>>
         ELSE /\ tracked' = tracked \ {m.id}
              /\ IF m.id \in tracked
                 THEN ToBot([kind |-> "order_update", status |-> m.status, filled |-> m.filled,
                             reduceOnly |-> m.reduceOnly, reason |-> ""])
                 ELSE UNCHANGED inbox
              /\ UNCHANGED account
  /\ UNCHANGED <<closed, published, botVars, toEngine, watch, fired, rx, main, exch, count>>

Disconnect ==
  /\ stream # <<>>
  /\ stream' = Tail(stream)
  /\ Fault({"lost"})
  /\ UNCHANGED <<closed, published, botVars, inbox, toEngine, engineVars, main, exch>>

-----------------------------------------------------------------------------
(***************************************************************************)
(* rx: handle_json() of BUY and SELL.  It refuses in a position, beside an *)
(* open order and without a valid stop (calculate_target_size, which also  *)
(* refuses for reasons of price and balance); a NaN stop makes a NaN size, *)
(* which the exchange refuses.                                             *)
(***************************************************************************)
Idle(order) == [pc |-> "idle", order |-> order]
NoOrder == [side |-> 0, stop |-> 0]

RxRefuse ==
  /\ rx.pc = "idle" /\ toEngine # <<>>
  /\ toEngine' = Tail(toEngine)
  /\ UNCHANGED <<closed, published, botVars, inbox, engineVars, main, exch, stream, count>>

\* send_order(): the order rests, or is filled when the answer comes.
RxAccept ==
  LET signal == Head(toEngine)
      o == Order(count.placed + 1, signal.side, 1, FALSE)
  IN  /\ rx.pc = "idle" /\ toEngine # <<>>
      /\ account.position = 0 /\ tracked = {} /\ signal.stop > 0
      /\ toEngine' = Tail(toEngine)
      /\ \/ /\ exch' = [exch EXCEPT !.working = @ \cup {o}]
            /\ tracked' = {o.id} /\ UNCHANGED stream
         \/ Fills(o) /\ UNCHANGED tracked
      /\ rx' = [pc |-> "stop", order |-> signal]
      /\ count' = [count EXCEPT !.placed = @ + 1]
      /\ UNCHANGED <<closed, published, botVars, inbox, account, watch, fired, main>>

\* The exchange takes the order, its answer is lost or does not parse: send_order() is
\* false, so no stop is set, nothing is armed, and nobody tracks the order.
RxUnanswered ==
  LET signal == Head(toEngine)
      o == Order(count.placed + 1, signal.side, 1, FALSE)
  IN  /\ rx.pc = "idle" /\ toEngine # <<>>
      /\ account.position = 0 /\ tracked = {} /\ signal.stop > 0
      /\ toEngine' = Tail(toEngine)
      /\ \/ exch' = [exch EXCEPT !.working = @ \cup {o}] /\ UNCHANGED stream
         \/ Fills(o)
      /\ FaultPlaced({"unanswered"})
      /\ UNCHANGED <<closed, published, botVars, inbox, engineVars, main>>

\* Mutant: a stop that is there already is kept.
RxSetFirstStop ==
  /\ rx.pc = "stop"
  /\ account' = [account EXCEPT !.stop = IF @ = 0 THEN rx.order.stop ELSE @]
  /\ rx' = [rx EXCEPT !.pc = "arm"]
  /\ UNCHANGED <<closed, published, botVars, inbox, toEngine, watch, fired, tracked, main,
                 exch, stream, count>>

\* set_stop_price().
RxSetStop ==
  /\ rx.pc = "stop"
  /\ account' = [account EXCEPT !.stop = rx.order.stop]
  /\ rx' = [rx EXCEPT !.pc = "arm"]
  /\ UNCHANGED <<closed, published, botVars, inbox, toEngine, watch, fired, tracked, main,
                 exch, stream, count>>

\* arm_now_locked().
Armed(w) ==
  IF w.side # 0 \/ account.position = 0 THEN w
  ELSE TS!OnEntry(w, Sign(account.position), account.stop)

\* arm_trailing_exit().
RxArm ==
  /\ rx.pc = "arm"
  /\ fired' = FALSE
  /\ watch' = Armed(TS!Configure(watch, rx.order.indicator, rx.order.period))
  /\ rx' = [rx EXCEPT !.pc = "idle"]
  /\ UNCHANGED <<closed, published, botVars, inbox, toEngine, account, tracked, main,
                 exch, stream, count>>

-----------------------------------------------------------------------------
(***************************************************************************)
(* main: check_trailing_exit() of a bar, then publish_kline() of it.       *)
(***************************************************************************)
NextBar == main.pc = "idle" /\ published < closed

UncheckedBut == UNCHANGED <<closed, published, botVars, inbox, toEngine, account, tracked, rx,
                            exch, stream>>
Unchecked == UncheckedBut /\ UNCHANGED count

\* The position is there while handle_json() is still on its way to arm_trailing_exit().
Raced == IF rx.pc = "idle" THEN UNCHANGED count ELSE Fault({"raced"})

CheckFlat ==
  /\ NextBar /\ account.position = 0
  /\ watch' = TS!Reset(watch) /\ fired' = FALSE
  /\ main' = [main EXCEPT !.pc = "publish"]
  /\ Unchecked

CheckHeld ==
  /\ NextBar /\ account.position # 0
  /\ watch' = IF fired THEN watch ELSE Armed(watch)
  /\ main' = [main EXCEPT !.pc = "publish"]
  /\ UNCHANGED fired /\ Raced /\ UncheckedBut

\* Mutant: a stop that has fired fires again.
CheckHitAgain ==
  /\ NextBar /\ account.position # 0
  /\ watch' = TS!Reset(Armed(watch)) /\ fired' = TRUE
  /\ main' = [pc |-> "close", position |-> account.position]
  /\ Raced /\ UncheckedBut

\* The bar reaches the stop in force.
CheckHit ==
  /\ NextBar /\ account.position # 0 /\ ~fired
  /\ watch' = TS!Reset(Armed(watch)) /\ fired' = TRUE
  /\ main' = [pc |-> "close", position |-> account.position]
  /\ Raced /\ UncheckedBut

CloseOrder == Order(count.placed + 1, -Sign(main.position), Size(main.position), TRUE)

\* send_order() of the close; whether it was accepted is not looked at.
CloseSent ==
  LET o == CloseOrder
  IN  /\ main.pc = "close"
      /\ main' = [main EXCEPT !.pc = "publish"]
      /\ \/ /\ exch' = [exch EXCEPT !.working = @ \cup {o}]
            /\ tracked' = tracked \cup {o.id} /\ UNCHANGED stream
         \/ Fills(o) /\ UNCHANGED tracked
      /\ count' = [count EXCEPT !.placed = @ + 1]
      /\ UNCHANGED <<closed, published, botVars, inbox, toEngine, account, watch, fired, rx>>

\* The close rests at the exchange, its answer is lost: nobody tracks it.
CloseUnanswered ==
  /\ main.pc = "close"
  /\ main' = [main EXCEPT !.pc = "publish"]
  /\ exch' = [exch EXCEPT !.working = @ \cup {CloseOrder}]
  /\ FaultPlaced({"untracked"})
  /\ UNCHANGED <<closed, published, botVars, inbox, toEngine, engineVars, stream>>

CloseRefused ==
  /\ main.pc = "close"
  /\ main' = [main EXCEPT !.pc = "publish"]
  /\ IF exch.net # 0 THEN Fault({"unfilled"}) ELSE UNCHANGED count
  /\ UNCHANGED <<closed, published, botVars, inbox, toEngine, engineVars, exch, stream>>

Publish ==
  /\ main.pc = "publish"
  /\ published' = published + 1
  /\ main' = [main EXCEPT !.pc = "idle"]
  /\ ToBot([kind |-> "kline", bar |-> published + 1, position |-> account.position])
  /\ UNCHANGED <<closed, botVars, toEngine, engineVars, exch, stream, count>>

\* The market feed was down while a bar closed: it reconnects, and nobody asks for the bar.
MissBar ==
  /\ NextBar
  /\ published' = published + 1
  /\ Fault({"missed"})
  /\ UNCHANGED <<closed, botVars, inbox, toEngine, engineVars, main, exch, stream>>

(***************************************************************************)
(* The engine ends and is started again.  Its memory is gone; the position *)
(* is asked for, and taken for 0 if the query fails (main_live.cpp:74-86). *)
(* The feed goes on with the next bar, the bot subscribes again.           *)
(***************************************************************************)
RestartEngine ==
  /\ \E blind \in BOOLEAN :
       /\ account' = Risk!UpdatePosition(Risk!OpenAccount(0), IF blind THEN 0 ELSE exch.net)
       /\ Fault(IF blind THEN {"engine", "blind"} ELSE {"engine"})
  /\ watch' = TS!FreshStop /\ fired' = FALSE /\ tracked' = {}
  /\ rx' = Idle(NoOrder) /\ main' = [pc |-> "idle", position |-> 0]
  /\ stream' = <<>>
  /\ published' = closed
  /\ bot' = [bot EXCEPT !.subscribed = FALSE]
  /\ UNCHANGED <<closed, start, inbox, toEngine, exch>>

-----------------------------------------------------------------------------
Init ==
  /\ closed = History /\ published = History
  /\ start \in Started
  /\ bot = NewBot("down")
  /\ inbox = <<>> /\ toEngine = <<>>
  /\ account = Risk!OpenAccount(0)
  /\ watch = TS!FreshStop /\ fired = FALSE /\ tracked = {}
  /\ rx = Idle(NoOrder) /\ main = [pc |-> "idle", position |-> 0]
  /\ exch = [net |-> 0, working |-> {}] /\ stream = <<>>
  /\ count = [starts |-> 0, placed |-> 0, faults |-> [k \in Faults |-> 0]]

Bot ==
  \/ StartBot \/ FetchPage \/ WarmUp \/ WarmUpFails
  \/ HearBar \/ HearOrderUpdate
  \/ \E side \in {1, -1} : HearSignal(side) \/ HearSignalRaises(side)
  \/ BotDies
Rx == RxRefuse \/ RxAccept \/ RxUnanswered \/ RxSetStop \/ RxArm
Main == \/ CheckFlat \/ CheckHeld \/ CheckHit
        \/ CloseSent \/ CloseUnanswered \/ CloseRefused \/ Publish \/ MissBar
Exchange == \/ MarketCloses \/ Liquidate
            \/ \E o \in exch.working : Fill(o) \/ Expire(o)
Stream == Subscribe \/ Deliver \/ Disconnect

Next == Bot \/ Rx \/ Main \/ Exchange \/ Stream \/ RestartEngine

Spec == Init /\ [][Next]_vars

-----------------------------------------------------------------------------
\* Nothing but what the property is about went wrong.
Without(kinds) == \A k \in kinds : count.faults[k] = 0

(***************************************************************************)
(* What the bot decides on is the market: the bars its indicators were fed *)
(* follow one another, over the REST pages, the forming bar, the queued    *)
(* bars and the live ones.  The one seam is between the last REST bar and  *)
(* the first live one, which is the bar after the subscription reached the *)
(* engine: bars in between are missing, or fed twice, unless the engine    *)
(* stood where the exchange stood (zmq_feeder.py:107-170,                  *)
(* live_trend_bot.py:182-189).  A gap of the market feed stays a gap.      *)
(***************************************************************************)
HistoryIsMarket ==
  Without({"engine", "missed"}) =>
    \A i \in 1..(Len(bot.absorbed) - 1) :
      LET bar == bot.absorbed[i]
          next == bot.absorbed[i + 1]
      IN  \/ next = bar + 1
          \/ ~bot.cold /\ bar = bot.firstPage /\ next = bot.joined + 1

(***************************************************************************)
(* A bot that was warmed up from a long enough history may decide on the   *)
(* first bar it hears: the windows of entry, exit and trend are full, "so  *)
(* the incremental indicators are fully warm" (zmq_feeder.py:53-55).  The  *)
(* ATR's and the volume's windows are not among them.                      *)
(***************************************************************************)
WarmStart ==
  LET ind == settings.indicators
      longest == Longest({ind.entry_period, ind.exit_period, ind.ma_period})
  IN  bot.phase = "listening" /\ ~bot.cold /\ bot.firstPage >= longest =>
        Full(ind.entry_period) /\ Full(ind.exit_period) /\ Full(ind.ma_period)

(***************************************************************************)
(* An order that reaches the engine trails the channel on its losing side  *)
(* ("otherwise ... the bracket exit degenerates", zmq_gateway.py:38-39),   *)
(* over the lookback that the start-up banner printed, where the file      *)
(* names one: the banner's reader of the file and the bot's agree on it.   *)
(***************************************************************************)
OrderOnTheWire ==
  \A o \in Range(toEngine) :
    /\ o.indicator # IF o.side > 0 THEN "donchian_high" ELSE "donchian_low"
    /\ start.source = "file" /\ NamesTrail(start.file) => o.period = Banner(start.file).trail

(***************************************************************************)
(* A bot that was built from a strategy file trades on it, "running the    *)
(* live/backtest engine needs only `--config <path>`"                      *)
(* (live_trend_bot.py:207-208): it does not end of its own on a signal.    *)
(* It does where the file has an execution section: the first order raises *)
(* in to_dict() (strategy_factory.py:119-129, execution_spec.py:60-67).    *)
(* A stop that is not there yet is another matter and left out.            *)
(***************************************************************************)
ConfiguredBotTrades ==
  [][bot.phase = "listening" /\ bot'.phase = "down" =>
       count' # count \/ SizingRaises(Head(inbox).bar)]_vars

(***************************************************************************)
(* One entry at a time: the brain waits until it saw its position come and *)
(* go, so no second entry is taken however late fills and positions are    *)
(* told, even if they are lost or the engine starts anew; it takes a new   *)
(* bot, or an engine that could not ask for its position                   *)
(* (strategy_wrapper.py:136-157, ipc_server.cpp:222-256).                  *)
(***************************************************************************)
OneExposure ==
  count.starts <= 1 /\ Without({"blind"}) =>
    Size(exch.net) + Cardinality({o \in exch.working : ~o.reduceOnly}) <= 1

(***************************************************************************)
(* The stop that watches a position is the one its own order carried       *)
(* (ipc_server.cpp:250-254, binance_live_executor.cpp:212-230).  Not so if *)
(* a bar is checked between the fill and set_stop_price(): it arms the stop *)
(* of an earlier order, or 0, and nothing corrects it.  A position that     *)
(* something else closed and a new one opened between two bars keep the    *)
(* old stop too, and so does the entry a second bot adds to a position.    *)
(* An entry whose answer was lost sets no stop at all: its position is     *)
(* watched by the stop of an earlier order, or by 0.                       *)
(***************************************************************************)
WatchedByItsOwnStop ==
  count.starts <= 1 /\ Without({"engine", "liquidated", "raced", "unanswered"})
    /\ watch.side # 0 =>
    watch.side = rx.order.side /\ watch.hard = rx.order.stop

(***************************************************************************)
(* A stop that fired has one close at work until the position is gone,     *)
(* whatever bars come meanwhile; a close that was refused or ended unfilled *)
(* leaves the position without a stop (binance_live_executor.cpp:232-279). *)
(* A second bot breaks it: if the position goes while main is between the  *)
(* hit and the close, its entry may arm a new stop before the close of the *)
(* old one is sent, and that stop has a close of its own.  So does a close *)
(* that nobody tracks, if the position goes by something else: the next    *)
(* entry is taken beside it.  An entry whose answer was lost arms nothing: *)
(* filled before the next bar, its position is taken for the one whose     *)
(* stop has fired.                                                         *)
(***************************************************************************)
FiredStopIsClosing ==
  LET closes == {o \in exch.working : o.reduceOnly}
  IN  count.starts <= 1 /\ Without({"engine", "raced"})
        /\ (Without({"untracked"}) \/ Without({"liquidated", "unanswered"})) =>
        /\ Cardinality(closes) <= 1
        /\ fired /\ exch.net # 0 /\ main.pc # "close" /\ rx.pc = "idle"
             /\ Without({"unfilled", "liquidated", "unanswered"}) => closes # {}
=============================================================================
