------------------------------ MODULE Backtest ------------------------------
(***************************************************************************)
(* The backtest: one C++ thread (DataReplayer, MockExecutor, IpcServer in  *)
(* sync mode) and one Python process (BinanceZmqClient, the feeder, the    *)
(* StrategyWrapper and the gateway), joined by two ZeroMQ pipes.           *)
(*                                                                         *)
(*   toBrain  PUB/SUB, klines; what is published before Python subscribes  *)
(*            is lost                                                      *)
(*   toEngine PUSH/PULL, orders and acknowledgements, in sending order     *)
(*                                                                         *)
(* Bar number n is the line of the CSV, carried as open_time; 0 is a ping. *)
(***************************************************************************)
EXTENDS MockExecutor, StrategyBrain

CONSTANTS
  BarSet,         \* the bars the CSV may hold
  Stops,          \* hard stops the strategy may compute (0: hard_stop_mode "none")
  WireType,       \* order_type as Python writes it
  Period,         \* trailing_exit_period
  InitialBalance,
  MaxBars,        \* bound: lines of the CSV
  MaxPings        \* bound: pings of wait_for_python()

ASSUME BarSetAssumption == BarSet \subseteq Bar /\ BarSet # {}
ASSUME StopsAssumption  == Stops \subseteq Nat
ASSUME PeriodAssumption == Period \in Nat \ {0}
ASSUME BoundAssumption  == MaxBars \in Nat /\ MaxPings \in Nat /\ InitialBalance \in Nat

\* An acknowledgement is told from an order by its type.
ASSUME WireAssumption == WireType # "ack"

\* apply_slippage() takes a fraction of a price: what is left is a price.
ASSUME SlippageAssumption ==
  /\ \A bar \in BarSet : Slip < bar.close
  /\ \A stop \in Stops \ {0} : Slip < stop

VARIABLES
  ex,         \* MockExecutor and RiskManager
  phase,      \* where the C++ thread is
  n,          \* lines read
  pings,
  brain,      \* StrategyWrapper
  py,         \* "off", "listening", "acking", "dead"
  toBrain,
  toEngine

vars == <<ex, phase, n, pings, brain, py, toBrain, toEngine>>

Phases == {"waiting", "market", "stop", "publish", "receiving", "done"}

NoBar == [low |-> 0, high |-> 0, close |-> 0]
Kline == [n : 0..MaxBars, close : Nat, position : Int, closed : BOOLEAN]

KlineOf(number, bar, closed) ==
  [n |-> number, close |-> bar.close, position |-> ex.risk.position, closed |-> closed]

Ack == [type |-> "ack"]

\* A PUSH socket keeps the sending order.
SentOvertaking(messages, message) == <<message>> \o messages

Sent(messages, message) == Append(messages, message)

Init ==
  /\ ex = [risk |-> OpenAccount(InitialBalance), ts |-> FreshStop, pending |-> <<>>,
           bar |-> NoBar, trades |-> <<>>]
  /\ phase = "waiting" /\ n = 0 /\ pings = 0
  /\ brain = FreshBrain /\ py = "off"
  /\ toBrain = <<>> /\ toEngine = <<>>

-----------------------------------------------------------------------------
(***************************************************************************)
(* The C++ thread.                                                         *)
(***************************************************************************)

\* wait_for_python(): each round publishes one more ping, then listens 500 ms.
Ping ==
  /\ phase = "waiting" /\ pings < MaxPings
  /\ pings' = pings + 1
  /\ toBrain' = IF py = "off" THEN toBrain ELSE Append(toBrain, KlineOf(0, NoBar, FALSE))
  /\ UNCHANGED <<ex, phase, n, brain, py, toEngine>>

\* set_market() on the next line of the CSV.
ReadBar(bar, cleared) ==
  /\ phase = "market" /\ n < MaxBars
  /\ n' = n + 1
  /\ ex' = SetMarket(ex, bar, cleared)
  /\ phase' = "stop"
  /\ UNCHANGED <<pings, brain, py, toBrain, toEngine>>

EndOfData ==
  /\ phase = "market" /\ n = MaxBars
  /\ phase' = "done"
  /\ UNCHANGED <<ex, n, pings, brain, py, toBrain, toEngine>>

RunStop ==
  /\ phase = "stop"
  /\ ex' = CheckStop(ex)
  /\ phase' = "publish"
  /\ UNCHANGED <<n, pings, brain, py, toBrain, toEngine>>

Publish ==
  /\ phase = "publish"
  /\ toBrain' = IF py = "off" THEN toBrain ELSE Append(toBrain, KlineOf(n, ex.bar, TRUE))
  /\ phase' = "receiving"
  /\ UNCHANGED <<ex, n, pings, brain, py, toEngine>>

(***************************************************************************)
(* handle_json() for BUY and SELL.  A refused order leaves no trace and no *)
(* answer.  has_open_order() is the interface's default, FALSE, in the     *)
(* MockExecutor.                                                           *)
(***************************************************************************)
SideSpecific(action) == IF action = "BUY" THEN "donchian_low" ELSE "donchian_high"

Sized(msg) == TargetSize(ex.risk, msg.action, msg.price, msg.stop)

Accepts(msg) == ex.risk.position = 0 /\ Sized(msg) > 0

OrderOf(msg) == [side |-> msg.action, qty |-> Sized(msg), price |-> msg.price,
                 reduceOnly |-> FALSE, type |-> msg.type]

ArmBeforeStop(sent, msg) ==
  LET armed == ArmTrailing(sent, SideSpecific(msg.action), Period)
  IN  [armed EXCEPT !.risk.stop = msg.stop]

Protect(sent, msg) ==
  ArmTrailing([sent EXCEPT !.risk.stop = msg.stop], SideSpecific(msg.action), Period)

HandleOpen(msg) ==
  IF ~Accepts(msg) THEN ex
  ELSE LET sent == SendOrder(ex, OrderOf(msg))
       IN  IF sent.ok THEN Protect(sent.ex, msg) ELSE ex

\* recv_until_ack(): an order is handled where it is met, an ack ends the wait.
ReceiveOrder ==
  /\ phase \in {"waiting", "receiving"}
  /\ toEngine # <<>> /\ Head(toEngine).type # "ack"
  /\ ex' = HandleOpen(Head(toEngine))
  /\ toEngine' = Tail(toEngine)
  /\ UNCHANGED <<phase, n, pings, brain, py, toBrain>>

ReceiveAck ==
  /\ phase \in {"waiting", "receiving"}
  /\ toEngine # <<>> /\ Head(toEngine).type = "ack"
  /\ toEngine' = Tail(toEngine)
  /\ phase' = "market"
  /\ UNCHANGED <<ex, n, pings, brain, py, toBrain>>

\* 60 s without an ack, or wait_for_python() giving up, ends the replay.
NoTimeoutOnBars ==
  /\ phase = "waiting"
  /\ phase' = "done"
  /\ UNCHANGED <<ex, n, pings, brain, py, toBrain, toEngine>>

AckTimeout ==
  /\ phase \in {"waiting", "receiving"}
  /\ phase' = "done"
  /\ UNCHANGED <<ex, n, pings, brain, py, toBrain, toEngine>>

-----------------------------------------------------------------------------
(***************************************************************************)
(* The Python process.                                                     *)
(***************************************************************************)
Connect ==
  /\ py = "off"
  /\ py' = "listening"
  /\ UNCHANGED <<ex, phase, n, pings, brain, toBrain, toEngine>>

\* An unfinished bar only refreshes the feeder's copies: no decision is made on it.
HandlePing ==
  /\ py = "listening" /\ toBrain # <<>> /\ ~Head(toBrain).closed
  /\ toBrain' = Tail(toBrain)
  /\ py' = "acking"
  /\ UNCHANGED <<ex, phase, n, pings, brain, toEngine>>

\* on_bar() without an order: gated, no signal, filtered or sized to zero.
PassBar ==
  /\ py = "listening" /\ toBrain # <<>> /\ Head(toBrain).closed
  /\ brain' = AfterGate(brain, Head(toBrain).position)
  /\ toBrain' = Tail(toBrain)
  /\ py' = "acking"
  /\ UNCHANGED <<ex, phase, n, pings, toEngine>>

\* on_bar() with a signal: the order leaves before the bar is acknowledged.
EnterOnBar(action, stop) ==
  /\ py = "listening" /\ toBrain # <<>> /\ Head(toBrain).closed
  /\ MayEnter(brain, Head(toBrain).position)
  /\ brain' = Entered(brain, Head(toBrain).position)
  /\ toEngine' = Sent(toEngine, [type |-> WireType, action |-> action, stop |-> stop,
                                 price |-> Head(toBrain).close, n |-> Head(toBrain).n])
  /\ toBrain' = Tail(toBrain)
  /\ py' = "acking"
  /\ UNCHANGED <<ex, phase, n, pings>>

SendAck ==
  /\ py = "acking"
  /\ toEngine' = Sent(toEngine, Ack)
  /\ py' = "listening"
  /\ UNCHANGED <<ex, phase, n, pings, brain, toBrain>>

\* An exception in the callback ends start_listening() and closes the sockets.
PythonDies ==
  /\ py \in {"listening", "acking"}
  /\ py' = "dead"
  /\ UNCHANGED <<ex, phase, n, pings, brain, toBrain, toEngine>>

Next ==
  \/ Ping \/ EndOfData \/ RunStop \/ Publish \/ ReceiveOrder \/ ReceiveAck \/ AckTimeout
  \/ \E bar \in BarSet, cleared \in SUBSET DOMAIN ex.pending : ReadBar(bar, cleared)
  \/ Connect \/ HandlePing \/ PassBar \/ SendAck \/ PythonDies
  \/ \E action \in {"BUY", "SELL"}, stop \in Stops : EnterOnBar(action, stop)

Engine ==
  \/ Ping \/ EndOfData \/ RunStop \/ Publish \/ ReceiveOrder \/ ReceiveAck \/ AckTimeout
  \/ \E bar \in BarSet, cleared \in SUBSET DOMAIN ex.pending : ReadBar(bar, cleared)

Spec == Init /\ [][Next]_vars

\* The C++ thread keeps running; every wait of it carries a wall-clock deadline.
FairSpec == Spec /\ WF_vars(Engine)

-----------------------------------------------------------------------------
Orders == {i \in DOMAIN toEngine : toEngine[i].type # "ack"}

TypeOK ==
  /\ ex.risk \in Account
  /\ ex.ts \in Stop
  /\ \A i \in DOMAIN ex.pending :
       ex.pending[i].qty > 0 /\ ex.pending[i].price > 0 /\ ~ex.pending[i].reduceOnly
  /\ phase \in Phases /\ n \in 0..MaxBars /\ pings \in 0..MaxPings
  /\ brain \in Brain /\ py \in {"off", "listening", "acking", "dead"}
  /\ toBrain \in Seq(Kline)
  /\ Orders # {} => brain.state = "WAITING_CLOSE"

(***************************************************************************)
(* ipc_server.h:27, "wait until Python ACKs (orders applied first)": the   *)
(* replay has not moved past the bar an order was decided on.              *)
(***************************************************************************)
OrdersAppliedFirst == \A i \in Orders : toEngine[i].n = n

(***************************************************************************)
(* What the code does keep: each ping after the first may leave one        *)
(* acknowledgement too many in the pipe, and the replay runs ahead of the  *)
(* strategy by at most that many bars.                                     *)
(***************************************************************************)
LagBoundedByPings ==
  \A i \in Orders : toEngine[i].n <= n /\ n <= toEngine[i].n + pings - 1

(***************************************************************************)
(* The brain gates on what klines carry, the engine on its own position,   *)
(* and neither sees the pipe: still there is never more than one entry on  *)
(* its way, resting or held (strategy_wrapper.py:147-151, "the brain       *)
(* re-enters on every bar while a position is open").                      *)
(***************************************************************************)
SingleExposure ==
  Cardinality(Orders) + Len(ex.pending) + Abs(SideOf(ex.risk.position)) <= 1

(***************************************************************************)
(* trades.csv is a ledger of round trips: an opening record, then one that *)
(* closes all of it at the profit between the two prices; each record's    *)
(* balance is the one before it plus its profit less its fee, from the     *)
(* initial balance to the one the account holds.                           *)
(***************************************************************************)
Trades == ex.trades

BalanceBefore(i) == IF i = 1 THEN InitialBalance ELSE Trades[i - 1].balanceAfter

LedgerOfRoundTrips ==
  /\ ex.risk.balance = BalanceBefore(Len(Trades) + 1)
  /\ \A i \in DOMAIN Trades :
       /\ Trades[i].balanceAfter = BalanceBefore(i) + Trades[i].pnl - Trades[i].fee
       /\ Trades[i].opens <=> (i % 2 = 1)
       /\ ~Trades[i].opens =>
            /\ Trades[i].qty = Trades[i - 1].qty
            /\ Trades[i].side # Trades[i - 1].side
            /\ Trades[i].positionAfter = 0
            /\ Trades[i].pnl = Cents * Trades[i].qty *
                 (IF Trades[i].side = "SELL" THEN Trades[i].price - Trades[i - 1].price
                                             ELSE Trades[i - 1].price - Trades[i].price)

(***************************************************************************)
(* Whenever the replay is not inside a handler, a position is watched: the *)
(* stop object is armed on its side, with the hard stop the account shows, *)
(* and that stop was on the losing side of the fill.  A late order can     *)
(* rest and be filled with nothing armed, so the claim is for a replay     *)
(* that needed one ping.                                                   *)
(***************************************************************************)
ProtectedPosition ==
  pings <= 1 /\ ex.risk.position # 0 =>
    /\ ex.ts.side = SideOf(ex.risk.position)
    /\ ex.ts.hard = ex.risk.stop
    /\ ex.ts.hard > 0
    /\ IF ex.risk.position > 0 THEN ex.ts.hard < ex.risk.entry
                               ELSE ex.ts.hard > ex.risk.entry
    /\ ex.ts.indicator = (IF ex.risk.position > 0 THEN "donchian_low" ELSE "donchian_high")

(***************************************************************************)
(* An entry risks at most one risk budget between its signal price and its *)
(* hard stop, and at most Leverage times the balance, both of the balance  *)
(* before the fill's fee.                                                  *)
(***************************************************************************)
BudgetedEntry ==
  pings <= 1 /\ ex.risk.position # 0 =>
    LET qty    == Abs(ex.risk.position)
        signal == IF ex.risk.position > 0 THEN ex.risk.entry - Slip ELSE ex.risk.entry + Slip
        before == ex.risk.balance + Fee(ex.risk.entry, qty)
    IN  /\ qty * Cents * RiskShare * Distance(signal, ex.risk.stop) <= before
        /\ qty * Cents * signal <= Leverage * before

(***************************************************************************)
(* strategy_wrapper.py:141-142, "a zero position means the exit has fired  *)
(* and we can re-arm": a brain that waits for a close has something left   *)
(* to wait for, in the position, in a pipe or resting.                     *)
(***************************************************************************)
WaitingBrainHasExposure ==
  brain.state = "WAITING_CLOSE" /\ phase = "market" /\ pings <= 1 =>
    ex.risk.position # 0 \/ brain.saw \/ Orders # {} \/ ex.pending # <<>>

\* Whatever Python does or stops doing, the replay comes to its report.
ReplayEnds == <>(phase = "done")
=============================================================================
