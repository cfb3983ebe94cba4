---------------------------- MODULE MockExecutor ----------------------------
(***************************************************************************)
(* The backtest's exchange (live_engine/src/backtest/mock_executor.cpp) as *)
(* operators over the state its methods share with the RiskManager:        *)
(*   risk     the account,            ts      the trailing stop,           *)
(*   pending  resting limit orders,   bar     current_bar_,                *)
(*   trades   the records of trades.csv.                                   *)
(* Slippage is a fixed number of ticks against the order (the impact       *)
(* multiplier only scales it) and a fee is FeeRate cents per tick-lot.     *)
(***************************************************************************)
EXTENDS RiskManager, TrailingStop, SequencesExt

CONSTANTS Slip, FeeRate

ASSUME CostAssumption == Slip \in Nat /\ FeeRate \in Nat

Abs(x) == IF x < 0 THEN -x ELSE x
SideOf(position) == IF position > 0 THEN 1 ELSE IF position < 0 THEN -1 ELSE 0

Fee(price, qty) == price * qty * FeeRate
Slipped(side, price) == IF side = "BUY" THEN price + Slip ELSE price - Slip

(***************************************************************************)
(* execute_fill().  A fill against the position, or a reduce-only one,     *)
(* closes at most what is held; any other opens or adds.                   *)
(***************************************************************************)
Record(side, qty, price, pnl, opens, risk) ==
  [side |-> side, qty |-> qty, price |-> price, fee |-> Fee(price, qty), pnl |-> pnl,
   opens |-> opens, balanceAfter |-> risk.balance, positionAfter |-> risk.position]

CloseFill(ex, side, qty, price) ==
  LET pos    == ex.risk.position
      closed == Smaller(qty, Abs(pos))
      pnl    == Cents * closed * (IF pos > 0 THEN price - ex.risk.entry
                                             ELSE ex.risk.entry - price)
      left   == IF pos > 0 THEN pos - closed ELSE pos + closed
      risk   == UpdatePosition([ex.risk EXCEPT !.balance = @ + pnl - Fee(price, closed)], left)
  IN  [ex EXCEPT !.risk = risk,
                 !.trades = Append(@, Record(side, closed, price, pnl, FALSE, risk))]

FeelessOpenFill(ex, side, qty, price) ==
  LET pos  == ex.risk.position + (IF side = "BUY" THEN qty ELSE -qty)
      risk == [ex.risk EXCEPT !.position = pos, !.entry = price]
  IN  [ex EXCEPT !.risk = risk, !.trades = Append(@, Record(side, qty, price, 0, TRUE, risk))]

OpenFill(ex, side, qty, price) ==
  LET held == ex.risk.position
      pos  == held + (IF side = "BUY" THEN qty ELSE -qty)
      mean == IF held = 0 THEN price
              ELSE (ex.risk.entry * Abs(held) + price * qty) \div Abs(pos)
      risk == [UpdatePosition([ex.risk EXCEPT !.balance = @ - Fee(price, qty)], pos)
                 EXCEPT !.entry = mean]
  IN  [ex EXCEPT !.risk = risk,
                 !.trades = Append(@, Record(side, qty, price, 0, TRUE, risk))]

Closes(ex, side, reduceOnly) ==
  \/ reduceOnly
  \/ side = "SELL" /\ ex.risk.position > 0
  \/ side = "BUY" /\ ex.risk.position < 0

Fill(ex, side, qty, price, reduceOnly) ==
  CASE qty <= 0 \/ price <= 0 -> [ok |-> FALSE, ex |-> ex]
    [] qty > 0 /\ price > 0 /\ Closes(ex, side, reduceOnly) ->
         IF ex.risk.position = 0 THEN [ok |-> FALSE, ex |-> ex]
         ELSE [ok |-> TRUE, ex |-> CloseFill(ex, side, qty, price)]
    [] OTHER -> [ok |-> TRUE, ex |-> OpenFill(ex, side, qty, price)]

(***************************************************************************)
(* process_pending_orders().  A price traded through fills; a price only   *)
(* touched consumes the queue ahead, and cleared says of which orders the  *)
(* bar's volume consumed all of it.  An order leaves the queue when its    *)
(* fill was attempted, whatever execute_fill() answered.                   *)
(***************************************************************************)
Through(order, bar) == \/ order.side = "BUY" /\ bar.low < order.price
                       \/ order.side = "SELL" /\ bar.high > order.price
Touched(order, bar) == \/ order.side = "BUY" /\ bar.low = order.price
                       \/ order.side = "SELL" /\ bar.high = order.price

ProcessPending(ex, bar, cleared) ==
  LET Done(i) == \/ Through(ex.pending[i], bar)
                 \/ Touched(ex.pending[i], bar) /\ i \in cleared
      Try(acc, i) == IF Done(i)
                     THEN Fill(acc, ex.pending[i].side, ex.pending[i].qty,
                               ex.pending[i].price, ex.pending[i].reduceOnly).ex
                     ELSE [acc EXCEPT !.pending = Append(@, ex.pending[i])]
  IN  FoldLeft(Try, [ex EXCEPT !.pending = <<>>], [i \in DOMAIN ex.pending |-> i])

\* set_market(): the window takes the bar before the stop is tested against it.
SetMarket(ex, bar, cleared) ==
  ProcessPending([ex EXCEPT !.bar = bar, !.ts = Observe(ex.ts, bar)], bar, cleared)

(***************************************************************************)
(* send_order().  Only the upper-case types are immediate; everything else *)
(* is a limit order, filled at the close when it crosses the close and     *)
(* left resting when it does not.                                          *)
(***************************************************************************)
Crosses(ex, order) == \/ order.side = "BUY" /\ order.price >= ex.bar.close
                      \/ order.side = "SELL" /\ order.price <= ex.bar.close

SendOrder(ex, order) ==
  CASE order.qty <= 0 \/ order.price <= 0 -> [ok |-> FALSE, ex |-> ex]
    [] order.qty > 0 /\ order.price > 0 /\ order.type \in {"MARKET", "IOC"} ->
         Fill(ex, order.side, order.qty, Slipped(order.side, order.price), order.reduceOnly)
    [] order.qty > 0 /\ order.price > 0 /\ order.type \notin {"MARKET", "IOC"}
         /\ Crosses(ex, order) ->
         Fill(ex, order.side, order.qty, Slipped(order.side, ex.bar.close), order.reduceOnly)
    [] OTHER -> [ok |-> TRUE, ex |-> [ex EXCEPT !.pending = Append(@, order)]]

\* arm_trailing_exit(): reads the position and the stop the caller has just set.
ArmTrailing(ex, indicator, period) ==
  IF indicator = "none" \/ period <= 0 THEN ex
  ELSE [ex EXCEPT !.ts = OnEntry(Configure(ex.ts, indicator, period),
                                 SideOf(ex.risk.position), ex.risk.stop)]

\* check_and_execute_stop(): the whole position leaves on the bar that reaches the stop.
CheckStop(ex) ==
  IF ex.risk.position = 0 THEN ex
  ELSE IF ~Hit(ex.ts, ex.bar) THEN [ex EXCEPT !.ts = AfterBar(ex.ts, ex.bar)]
  ELSE LET side == IF ex.risk.position > 0 THEN "SELL" ELSE "BUY"
       IN  Fill([ex EXCEPT !.ts = AfterBar(ex.ts, ex.bar)], side, Abs(ex.risk.position),
                Slipped(side, ExitPrice(ex.ts, ex.bar)), TRUE).ex
=============================================================================
