--------------------------- MODULE ResearchStudy ----------------------------
(***************************************************************************)
(* A research study: bars arrive one by one, in the frame and in the       *)
(* streaming indicators a live strategy keeps; then one configuration of   *)
(* trigger, labeler, sizer, gate and order type is replayed over the frame *)
(* by research/backtest.py, a bar a step.                                  *)
(*                                                                         *)
(* Reading the bars one by one is how the project knows what a value of    *)
(* the frame may depend on: a row that changes when a later bar arrives    *)
(* was computed from the future.                                           *)
(***************************************************************************)
EXTENDS Labelers, Sizers, Sorting

CONSTANTS Bars,           \* the bars that may arrive
          MaxBars,        \* bound: length of the frame
          Studies,        \* the configurations, see Start
          InitialCapital,
          HeldCap,        \* the 14400 bars build_ml_dataset assumes of a labeler object
          RiskWindow,     \* bars the drawdown gate looks back
          LimitTimeoutBars,
          MakerCommission, TakerCommission,  \* rates over FeeUnit
          ReportedCommission,                \* the rate the metrics count fees with
          FeeUnit

ASSUME StudyAssumption ==
  /\ MaxBars \in Nat \ {0} /\ RiskWindow \in Nat \ {0} /\ LimitTimeoutBars \in Nat
  /\ InitialCapital \in Nat \ {0} /\ FeeUnit \in Nat \ {0}
  /\ ReportedCommission \in Nat /\ MakerCommission \in Nat /\ TakerCommission \in Nat
  /\ HeldCap \in Nat

\* Every bar is one, and has a residual of the pair's filter.
ASSUME BarsAssumption ==
  \A bar \in Bars : IsBar(bar) /\ "spread" \in DOMAIN bar /\ bar.spread \in Int

\* The names a study may give (labels of the fixed horizon lack the barrier_hit that the
\* loop reads), and parameters that are numbers.
ASSUME StudiesAssumption ==
  \A s \in Studies :
    /\ s.trigger \in TriggerNames /\ s.labeler \in LabelerNames \ {"horizon"}
    /\ s.strength \in Nat /\ s.commission \in Nat /\ s.sizer.max_leverage \in Nat
    /\ \/ s.sizer.sizer \in {"volatility", "fixed"} /\ s.sizer.risk_pct \in Nat
       \/ /\ s.sizer.sizer = "kelly" /\ s.sizer.max_risk_cap \in Nat
          /\ s.sizer.win_rate \in Nat /\ s.sizer.profit_factor \in Nat

VARIABLES ind,      \* add_indicators of the bars so far
          events,   \* what every trigger's generate_signals returns for them
          stream,   \* IncrementalIndicators of the same bars
          rows,     \* the row update() returned for each bar
          phase,    \* "reading", "replay" or "done"
          study,    \* the configuration being replayed
          bt        \* the backtest's variables

studyVars == <<ind, events, stream, rows, phase, study, bt>>

NoTrade == [size |-> 0]
NewBacktest ==
  [labels |-> <<>>, i |-> 0, capital |-> InitialCapital,
   open |-> NoTrade, trades |-> <<>>, equity |-> <<>>, window |-> <<>>, ptr |-> 1,
   refused |-> {}]

StudyInit ==
  /\ ind = <<>> /\ events = [t \in TriggerNames |-> <<>>] /\ stream = NewIndicators /\ rows = <<>>
  /\ phase = "reading" /\ study = None /\ bt = NewBacktest

\* A bar closes: the live side updates its indicators with it.
NewBar(bar) ==
  /\ phase = "reading" /\ Len(ind) < MaxBars
  /\ ind' = AddIndicators(Append(ind, bar))
  /\ events' = [t \in TriggerNames |-> Signals(t, ind')]
  /\ rows' = Append(rows, StreamRow(stream, bar))
  /\ stream' = Absorb(stream, bar)
  /\ UNCHANGED <<phase, study, bt>>

-----------------------------------------------------------------------------
(* lightweight_backtest.  A study is a record: trigger, labeler, sizer (with *)
(* its parameters), gate, strength, commission, limit (the entry is a      *)
(* post-only limit order) and ml (an entry filter decides too).            *)

EventIdx(b) == Ascending(DOMAIN b.labels)

\* Everything before the loop: indicators, events, labels.  A study without an
\* event ends at once.
Start(s) ==
  LET labels == Labels(s.labeler, ind, events[s.trigger])
  IN /\ phase = "reading" /\ Len(ind) = MaxBars
     /\ study' = s
     /\ phase' = IF DOMAIN labels = {} THEN "done" ELSE "replay"
     /\ bt' = [NewBacktest EXCEPT !.labels = labels]
     /\ UNCHANGED <<ind, events, stream, rows>>

Side(b) == events[study.trigger][b.i]

\* The open trade's result is booked at its exit row.
CloseTrade(b) ==
  IF b.open # NoTrade /\ b.i >= b.open.exit_idx
    THEN [b EXCEPT !.capital = @ + b.open.pnl, !.trades = Append(@, b.open), !.open = NoTrade]
    ELSE b

\* Mutant: the event of the row itself is dropped too.
SkipPastRow(b) ==
  LET idx == EventIdx(b)
  IN [b EXCEPT !.ptr = First({k \in b.ptr .. Len(idx) : idx[k] > b.i}, Len(idx) + 1)]

\* Events the loop has passed are dropped.
SkipPast(b) ==
  LET idx == EventIdx(b)
  IN [b EXCEPT !.ptr = First({k \in b.ptr .. Len(idx) : idx[k] >= b.i}, Len(idx) + 1)]

\* A post-only entry counts as filled when one of the next rows trades through it.
Filled(b, label) ==
  \E k \in b.i+1 .. Least(b.i + LimitTimeoutBars, Len(ind)) :
     IF Side(b) = 1 THEN ind[k].low <= label.entry_price
                         ELSE ind[k].high >= label.entry_price

Drawdown(b) ==
  LET peak == IF b.window = <<>> THEN b.capital ELSE b.equity[Head(b.window)]
  IN IF peak > 0 THEN <<peak - b.capital, peak>> ELSE <<0, 1>>

Fee(rate, amount) == (rate * amount) \div FeeUnit

\* Mutant: the exit costs nothing.
EntryFeeOnly(s, label, size) == Fee(s.commission, label.entry_price * size)

Fees(s, label, size) ==
  IF s.limit
    THEN Fee(MakerCommission, label.entry_price * size)
         + Fee(IF label.barrier_hit = "upper" THEN MakerCommission ELSE TakerCommission,
               label.exit_price * size)
    ELSE Fee(s.commission, (label.entry_price + label.exit_price) * size)

SizeOf(s, b, label) ==
  LET atr == IF ind[b.i].atr = NaN THEN One ELSE AtrPrice(ind[b.i].atr)
      sd  == IF "stop_distance" \notin DOMAIN label THEN None
             ELSE IF label.stop_distance = NaN THEN None ELSE label.stop_distance
  IN calculate_size(s.sizer, s.strength, atr, b.capital, label.entry_price, sd)

OpenTrade(s, b, label, size) ==
  LET side == Side(b)
      raw == side * (label.exit_price - label.entry_price) * size
  IN [entry_idx |-> b.i, exit_idx |-> label.exit_idx, side |-> side,
      entry_price |-> label.entry_price, exit_price |-> label.exit_price, size |-> size,
      raw |-> raw, pnl |-> raw - Fees(s, label, size), reason |-> label.barrier_hit,
      stop_distance |-> IF "stop_distance" \in DOMAIN label THEN label.stop_distance ELSE NaN]

\* The event at this row, if the loop is flat: fill, gate, filter, size, trade.
\* `score` is whether the model's score is over the threshold.
TryOpen(s, b, score) ==
  IF b.open # NoTrade \/ b.ptr > Len(EventIdx(b)) THEN b
  ELSE IF EventIdx(b)[b.ptr] # b.i THEN b
  ELSE LET label == b.labels[b.i]
           size == SizeOf(s, b, label)
           allowed ==
             /\ s.limit => Filled(b, label)
             /\ check_risk_limits(s.gate, [current_drawdown |-> Drawdown(b), current_position |-> 0])
             /\ s.ml => score
             /\ size > 0
       IN IF allowed
            THEN [b EXCEPT !.ptr = @ + 1, !.open = OpenTrade(s, b, label, size)]
            ELSE [b EXCEPT !.ptr = @ + 1, !.refused = @ \cup {b.i}]

\* Mutant: the front leaves the window one row late.
MarkLate(b) ==
  LET unrealized == IF b.open = NoTrade THEN 0
                    ELSE b.open.side * (ind[b.i].close - b.open.entry_price) * b.open.size
      equity == Append(b.equity, b.capital + unrealized)
      kept == Max({0} \cup {k \in DOMAIN b.window : b.equity[b.window[k]] > Last(equity)})
      window == Append(SubSeq(b.window, 1, kept), b.i)
  IN [b EXCEPT !.equity = equity,
               !.window = IF Head(window) < b.i - RiskWindow THEN Tail(window) ELSE window]

\* Equity is marked to the close, and a deque keeps the rows that may be the peak.
Mark(b) ==
  LET unrealized == IF b.open = NoTrade THEN 0
                    ELSE b.open.side * (ind[b.i].close - b.open.entry_price) * b.open.size
      equity == Append(b.equity, b.capital + unrealized)
      kept == Max({0} \cup {k \in DOMAIN b.window : b.equity[b.window[k]] > Last(equity)})
      window == Append(SubSeq(b.window, 1, kept), b.i)
  IN [b EXCEPT !.equity = equity,
               !.window = IF Head(window) <= b.i - RiskWindow THEN Tail(window) ELSE window]

\* One pass of the loop, and the end of the frame.
ReplayBar(score) ==
  /\ phase = "replay"
  /\ score \/ study.ml
  /\ bt' = Mark(TryOpen(study, SkipPast(CloseTrade([bt EXCEPT !.i = @ + 1])), score))
  /\ phase' = IF bt'.i = Len(ind) THEN "done" ELSE "replay"
  /\ UNCHANGED <<ind, events, stream, rows, study>>

StudyNext ==
  \/ \E bar \in Bars : NewBar(bar)
  \/ \E s \in Studies : Start(s)
  \/ \E score \in BOOLEAN : ReplayBar(score)

-----------------------------------------------------------------------------
(* What the backtest reports (_compute_metrics and its caller): the return *)
(* is the last equity's, the fees are counted at a rate of the metrics'    *)
(* own, whatever commission the trades paid.                               *)

Winners(pnls) == {k \in DOMAIN pnls : pnls[k] > 0}
Losers(pnls) == {k \in DOMAIN pnls : pnls[k] < 0}

Report(b) ==
  LET pnls == [k \in DOMAIN b.trades |-> b.trades[k].pnl]
      fees == [k \in DOMAIN b.trades |->
                 LET t == b.trades[k]
                 IN Fee(ReportedCommission, (t.entry_price + t.exit_price) * t.size)]
  IN [final_capital |-> b.capital,
      total_return |-> IF b.equity = <<>> THEN 0 ELSE Last(b.equity) - InitialCapital,
      n_trades |-> Len(pnls),
      n_wins |-> Cardinality(Winners(pnls)), n_losses |-> Cardinality(Losers(pnls)),
      gain |-> SumFunctionOnSet(pnls, Winners(pnls)), loss |-> SumFunctionOnSet(pnls, Losers(pnls)),
      total_fees |-> SumSeq(fees)]

-----------------------------------------------------------------------------
(* The data sets a model is trained on.                                    *)

\* pipeline_runner.build_dataset: a row an event, features joined with labels.
build_dataset(labeler, frame, signals) ==
  [ev \in EventRows(signals) |->
     default_feature_set(frame[ev]) ++ Label(labeler, frame, ev, signals[ev])]

\* Mutant: the columns of the newer labelers are forgotten.
ExcludeOldColumns ==
  {"label", "barrier_hit", "exit_idx", "n_bars_held", "entry_price", "exit_price",
   "actual_return", "return_atr", "raw_return", "y_norm", "truncated", "event_time", "side"}

\* ModelEvaluator.prepare_features: every column but the excluded ones.
feature_exclude ==
  {"label", "barrier_hit", "exit_idx", "n_bars_held", "entry_price", "exit_price",
   "actual_return", "return_atr", "raw_return", "y_norm", "truncated", "event_time", "side",
   "stop_distance", "r_multiple"}

prepare_features(dataset) ==
  (UNION {DOMAIN dataset[ev] : ev \in DOMAIN dataset}) \ feature_exclude

\* build_ml_dataset completes the labels of a horizon: the bars held are capped and
\* the cut-off is judged by a horizon; y_norm stands in for the label and its returns.
FromReturn(label) ==
  IF "y_norm" \in DOMAIN label
    THEN [label |-> SignOf(label.y_norm), actual_return |-> label.raw_return,
          return_atr |-> label.y_norm]
    ELSE [c \in {} |-> 0]

Completed(label, frame, ev, cap, horizon) ==
  label ++ FromReturn(label) ++
  [barrier_hit |-> "fixed_horizon", n_bars_held |-> Least(cap, Len(frame) - ev),
   truncated |-> ev + horizon > Len(frame)]

\* Its labels: of a labeler object, or of the method a dict names.
DictMethods == {"triple_barrier", "fixed_horizon"}

MlLabel(method, frame, ev, side) ==
  CASE method = "triple_barrier" -> TripleBarrier(frame, ev, side, Exits.triple)
    [] method = "fixed_horizon" ->
         LET h == Exits.horizon.horizon
         IN Completed(FixedHorizon(frame, ev, side, Exits.horizon), frame, ev, h, h)
    [] OTHER -> Completed(Label(method, frame, ev, side), frame, ev, HeldCap,
                          IF method = "horizon" THEN Exits.horizon.horizon ELSE HeldCap)

meta_cols == {"event_time", "side", "entry_price", "label", "barrier_hit", "exit_idx",
              "n_bars_held", "exit_price", "actual_return", "return_atr", "truncated"}

\* The rows as joined, before the columns are reordered.
build_ml_dataset(method, frame, signals) ==
  [ev \in EventRows(signals) |->
     default_feature_set(frame[ev])
     ++ [side |-> signals[ev], entry_price |-> frame[ev].close, event_time |-> ev]
     ++ MlLabel(method, frame, ev, signals[ev])]

ColumnsOf(dataset) == UNION {DOMAIN dataset[ev] : ev \in DOMAIN dataset}

\* The reordering asks for every column of meta_cols: one that is missing is a KeyError.
Reorders(dataset) == meta_cols \subseteq ColumnsOf(dataset)

feature_names(dataset) == ColumnsOf(dataset) \ meta_cols

-----------------------------------------------------------------------------
(* Properties of the frame, the stream and the labels.                     *)

HasVolume(i) == ind[i].volume > 0
Window(i) == Max({1, i - Period("vol_ma")}) .. i - 1
VolumeSeen(i) == i <= Period("vol_ma") \/ \E k \in Window(i) : HasVolume(k)
NoGapBefore(i) == \A k \in 1..i : HasVolume(k)

\* A streaming row is the frame's row: the channels, the ATR, the mean and the
\* returns always, the volume ratios unless the window has no volume at all (0/0 and
\* x/0 are treated differently), the volume score while no bar was without volume
\* (features_incremental.py promises the semantics of add_indicators).
StreamMatchesFrame ==
  phase = "reading" =>
    \A i \in DOMAIN ind :
         /\ \A n \in Published \cup {"ret", "channel_pos"} : rows[i][n] = ind[i][n]
         /\ VolumeSeen(i) => \A n \in {"vol_ratio", "taker_buy_ratio"} : rows[i][n] = ind[i][n]
         /\ NoGapBefore(i) => rows[i].vol_zscore = ind[i].vol_zscore

\* With bars without volume, the streaming mean and deviation of the log volume
\* are those of the last vol_period bars that traded.
StreamSkipsGaps ==
  phase = "reading" =>
  LET traded == Ascending({i \in DOMAIN ind : HasVolume(i)})
      volumes == [k \in DOMAIN traded |-> ind[traded[k]].volume]
  IN \A name \in {"vol_mean", "vol_std"} :
       TrackerValue(stream.trackers[name], name) =
         Rolling(volumes, ROLLING_SPEC[name].op, Period(name), Len(traded))

\* On every bar the strategy decides live as the study does on the frame: the same
\* signal, and, where the volume window has no gap, the same model inputs.
LiveDecisionMatchesFrame ==
  phase = "reading" =>
    LET Trend(long_only) == [long_only |-> long_only]
    IN \A i \in DOMAIN ind :
         /\ AdamRow(rows[i]) = AdamBreakout(ind)[i]
         /\ \A b \in BOOLEAN :
              TrendRow(rows[i], Trend(b)) = TrendFilteredBreakout(ind, Trend(b))[i]
         /\ NoGapBefore(i) => default_feature_set(rows[i]) = default_feature_set(ind[i])

\* Is no row of the frame still waiting for a later bar to fill a window?  Three rules
\* and the pairs rule back-fill.
NothingToFill(trigger) ==
  CASE trigger = "vwap" -> /\ Len(ind) > Params.vwap.regime_atr
                           /\ Len(ind) >= Params.vwap.vwap_window
                           /\ \E k \in Len(ind) - Params.vwap.vwap_window + 1 .. Len(ind) : HasVolume(k)
    [] trigger = "climax" -> Len(ind) > Params.climax.atr_period
    [] trigger = "absorption" -> Len(ind) > Params.absorption.atr_period
    [] trigger = "pairs" -> Len(ind) >= Params.pairs.zscore_window
    [] OTHER -> TRUE

\* No lookahead: a bar that arrives never changes a signal of an earlier row, once
\* the rules that back-fill a window have nothing left to fill.
EventsAreFinal ==
  [][phase' = "reading" =>
       \A t \in TriggerNames : NothingToFill(t) => IsPrefix(events[t], events[t]')]_ind

\* A trade whose exit the frame contains has the same label however the market goes on.
SettledLabelsAreFinal ==
  [][phase' = "reading" =>
       \A l \in LabelerNames, i \in DOMAIN ind, side \in {1, -1} :
         LET label == Label(l, ind, i, side)
         IN Settled(label, ind) => label = Label(l, ind', i, side)]_ind

\* The ATR puts a barrier on the entry itself: it is 0, or too small to be a price.
BarrierOnEntry(frame, i, side, p) ==
  LET b == AtrBarriers(frame, i, side, p) IN frame[i].close \in {b.tp, b.sl}

\* The vectorised triple barrier and its reference loop agree on every entry, except
\* that the loop has no guard against a barrier on the entry.
TripleBarrierLoopAgrees ==
  phase = "reading" =>
    \A p \in {Exits.triple, Exits.triple_atr}, i \in DOMAIN ind, side \in {1, -1} :
         \/ p.mode = "atr" /\ BarrierOnEntry(ind, i, side, p)
         \/ TripleBarrier(ind, i, side, p) = TripleBarrierLoop(ind, i, side, p)

-----------------------------------------------------------------------------
(* Properties of the backtest and the data sets.                           *)

AllTrades == IF bt.open = NoTrade THEN bt.trades ELSE Append(bt.trades, bt.open)

\* No event is lost: every one the loop has passed was traded, refused, or came while
\* a trade was open; and no two trades overlap.
EveryEventAccounted ==
  /\ \A e \in DOMAIN bt.labels : e <= bt.i =>
       \/ e \in bt.refused
       \/ \E k \in DOMAIN AllTrades :
            LET t == AllTrades[k] IN t.entry_idx = e \/ (t.entry_idx < e /\ e < t.exit_idx)
  /\ \A k \in DOMAIN AllTrades :
       /\ AllTrades[k].entry_idx \notin bt.refused
       /\ k > 1 => AllTrades[k-1].exit_idx <= AllTrades[k].entry_idx

\* The deque's front is the highest equity of the last RiskWindow bars.
PeakOfWindow ==
  bt.i > 0 =>
    bt.equity[Head(bt.window)] =
      Max({bt.equity[k] : k \in Max({1, bt.i - RiskWindow + 1}) .. bt.i})

Booked(k) == InitialCapital + SumSeq([j \in 1..k-1 |-> bt.trades[j].pnl])

\* Every trade is sized by the capital the trades before it left: at most the risk
\* budget at its stop, and at most the leverage.
RiskWithinBudget ==
  \A k \in DOMAIN AllTrades :
    LET t == AllTrades[k]
        p == study.sizer
        Budget(pct) == 100 * t.size * t.stop_distance <= pct * Booked(k)
    IN /\ t.size * t.entry_price <= p.max_leverage * Booked(k)
       /\ p.sizer = "fixed" => Budget(p.risk_pct)
       /\ p.sizer = "kelly" => Budget(p.max_risk_cap)

\* What the report says agrees with the ledger: the capital is the initial one and
\* every profit and loss, the return of the equity curve is the capital's (nothing is
\* left open with a result nobody booked), and for market orders at the metrics' own
\* rate the fees reported are those paid.  At another commission they are not.
ReportMatchesLedger ==
  phase = "done" =>
    LET r == Report(bt)
        raw == SumSeq([k \in DOMAIN bt.trades |-> bt.trades[k].raw])
    IN /\ r.final_capital = InitialCapital + r.gain + r.loss
       /\ r.total_return = r.final_capital - InitialCapital
       /\ ~study.limit /\ study.commission = ReportedCommission =>
            r.final_capital = InitialCapital + raw - r.total_fees

\* The data sets of the study's events, each built with a labeler or a method.
ModelInputs == DOMAIN default_feature_set(ind[1])
DatasetOf(method) == build_ml_dataset(method, ind, events[study.trigger])
MlMethods == DictMethods \cup LabelerNames

\* Labelers whose labels have no return_atr: build_ml_dataset raises on them.
Unbuildable == {"turtle", "trailing", "reversion"}

\* Whatever the labeler, prepare_features leaves the inputs alone.  build_ml_dataset's
\* own list of features is right for the triple-barrier method; to the other methods' it
\* adds columns that tell what followed the event, at most these three.  A cut-off trade
\* leaves at the last row, and the bars held agree with the exit row, but for a labeler
\* object with another horizon than the builder assumes.
DatasetIsConsistent ==
  (phase = "replay" /\ bt.i = 0) =>
    /\ \A l \in LabelerNames :
         prepare_features(build_dataset(l, ind, events[study.trigger])) = ModelInputs
    /\ \A m \in MlMethods :
         LET data == DatasetOf(m)
         IN /\ m \notin Unbuildable => Reorders(data)
            /\ Reorders(data) =>
                 /\ feature_names(data) \ {"y_norm", "raw_return", "stop_distance"} = ModelInputs
                 /\ m = "triple_barrier" => feature_names(data) = ModelInputs
                 /\ \A ev \in DOMAIN data : data[ev].truncated => data[ev].exit_idx = Len(ind)
                 /\ m # "horizon" \/ Exits.horizon.horizon = HeldCap =>
                      \A ev \in DOMAIN data : data[ev].n_bars_held = data[ev].exit_idx - ev
=============================================================================
