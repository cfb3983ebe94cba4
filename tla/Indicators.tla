----------------------------- MODULE Indicators -----------------------------
(***************************************************************************)
(* The rolling indicators of research/indicator_spec.py and their two      *)
(* interpreters: research/features.py computes a column over a whole frame *)
(* (pandas), research/features_incremental.py keeps one tracker a column   *)
(* and pushes a bar at a time.                                             *)
(*                                                                         *)
(* A frame is a sequence of bars; row i of the code is element i+1 here.   *)
(* NaN is the missing number.  A mean is kept as its sum (in units of      *)
(* 1/period) and a deviation as period * sum of squares - square of the    *)
(* sum (period^2 times the variance), so that both are exact integers.     *)
(* The logarithm of a volume is the volume itself: the code uses only that *)
(* it is a number unless the volume is 0.                                  *)
(***************************************************************************)
EXTENDS Integers, Sequences, FiniteSets, SequencesExt

CONSTANTS NaN,      \* the missing number
          Inf,      \* what a division by zero gives in a frame
          Periods   \* [entry_period, exit_period, atr_period, vol_period, ma_period]

ASSUME NaNAssumption == NaN \notin Int
ASSUME PeriodsAssumption ==
  Periods \in [{"entry_period", "exit_period", "atr_period", "vol_period", "ma_period"} -> Nat \ {0}]

\* A bar has whole prices, of which the low is at most the high and the close is
\* positive, and a volume.
IsBar(bar) ==
  /\ {"high", "low", "close", "volume", "taker_buy_base"} \subseteq DOMAIN bar
  /\ bar.close \in Nat \ {0} /\ bar.high \in Nat /\ bar.low \in Nat /\ bar.low <= bar.high
  /\ bar.volume \in Nat /\ bar.taker_buy_base \in Nat

RollingSpec(op, input, period) == [op |-> op, input |-> input, period |-> period]

ROLLING_SPEC ==
  [entry_high |-> RollingSpec("max", "high", "entry_period"),
   entry_low  |-> RollingSpec("min", "low", "entry_period"),
   exit_high  |-> RollingSpec("max", "high", "exit_period"),
   exit_low   |-> RollingSpec("min", "low", "exit_period"),
   atr        |-> RollingSpec("mean", "true_range", "atr_period"),
   vol_ma     |-> RollingSpec("mean", "volume", "vol_period"),
   vol_mean   |-> RollingSpec("mean", "log_volume", "vol_period"),
   vol_std    |-> RollingSpec("std", "log_volume", "vol_period"),
   ma         |-> RollingSpec("mean", "close", "ma_period"),
   close_std  |-> RollingSpec("std", "close", "ma_period"),
   taker_sum  |-> RollingSpec("sum", "taker_buy_base", "vol_period"),
   vol_sum    |-> RollingSpec("sum", "volume", "vol_period")]

Names == DOMAIN ROLLING_SPEC
Period(name) == Periods[ROLLING_SPEC[name].period]

\* The rolling columns a live row has and those a frame keeps.
Published == {"entry_high", "entry_low", "exit_high", "exit_low", "atr", "ma"}
Kept == Names \ {"vol_mean", "vol_std", "taker_sum", "vol_sum"}

\* Two records in one; a column of both is f's.
f ++ g == [c \in DOMAIN f \cup DOMAIN g |-> IF c \in DOMAIN f THEN f[c] ELSE g[c]]

Gap(x, y) == IF x >= y THEN x - y ELSE y - x
Square(x) == x * x
SumSeq(s) == SumFunction(s)
SumSquares(s) == SumFunction([k \in DOMAIN s |-> Square(s[k])])

-----------------------------------------------------------------------------
(* The frame (pandas).                                                     *)

\* input_series: the column an indicator is computed from.  The first row has
\* no previous close, and the row maximum skips what is missing.
InputAt(df, input, i) ==
  CASE input = "log_volume" -> IF df[i].volume = 0 THEN NaN ELSE df[i].volume
    [] input = "true_range" ->
         Max({df[i].high - df[i].low} \cup
             (IF i = 1 THEN {}
              ELSE {Gap(df[i].high, df[i-1].close), Gap(df[i].low, df[i-1].close)}))
    [] OTHER -> df[i][input]
InputSeries(df, input) == [i \in DOMAIN df |-> InputAt(df, input, i)]

Aggregate(op, period, window) ==
  CASE op = "max" -> Max(ToSet(window))
    [] op = "min" -> Min(ToSet(window))
    [] op \in {"mean", "sum"} -> SumSeq(window)
    [] op = "std" -> period * SumSquares(window) - Square(SumSeq(window))

\* series.rolling(period).op() at row i: missing until the window is full, and
\* whenever a value of the window is.
Rolling(s, op, period, i) ==
  IF i < period THEN NaN
  ELSE LET window == [k \in 1..period |-> s[i - period + k]]
       IN IF NaN \in ToSet(window) THEN NaN ELSE Aggregate(op, period, window)

\* The rolling columns of add_indicators: .shift(1) moves each one row down.
ColumnAt(df, name, i) ==
  IF i = 1 THEN NaN
  ELSE Rolling(InputSeries(df, ROLLING_SPEC[name].input), ROLLING_SPEC[name].op, Period(name), i - 1)
Column(df, name) == [i \in DOMAIN df |-> ColumnAt(df, name, i)]

Quotient(x, y) ==
  IF x = NaN \/ y = NaN THEN NaN
  ELSE IF y # 0 THEN <<x, y>> ELSE IF x = 0 THEN NaN ELSE Inf

Minus(x, y) == IF NaN \in {x, y} THEN NaN ELSE x - y
Clip(x, lo, hi) == IF x < lo THEN lo ELSE IF x > hi THEN hi ELSE x

\* channel_pos: where the close lies in the entry channel, as a fraction.
ChannelPos(close, entry_low, entry_high) ==
  LET range == Minus(entry_high, entry_low)
  IN IF range = NaN THEN <<1, 2>>
     ELSE IF range <= 0 THEN <<1, 2>> ELSE <<Clip(close - entry_low, 0, range), range>>

ReturnPeriods == {5, 10, 30}

\* The element-wise columns of add_indicators.
FrameDerived(df, col, i) ==
  LET bar == df[i]
      logv == InputAt(df, "log_volume", i)
  IN [vol_ratio |-> Quotient(bar.volume, col["vol_ma"]),
      vol_zscore |->
         IF col["vol_std"] = 0 THEN NaN
         ELSE Quotient(Minus(IF logv = NaN THEN NaN ELSE Period("vol_mean") * logv,
                             col["vol_mean"]), col["vol_std"]),
      channel_pos |-> ChannelPos(bar.close, col["entry_low"], col["entry_high"]),
      ret |-> [p \in ReturnPeriods |-> IF i <= p THEN NaN ELSE <<bar.close, df[i-p].close>>],
      taker_buy_ratio |-> Quotient(col["taker_sum"], col["vol_sum"])]

\* add_indicators: the frame's bars with their columns, one record a row; a column
\* that is there is computed anew.
AddIndicators(df) ==
  [i \in DOMAIN df |->
     LET col == [n \in Names |-> ColumnAt(df, n, i)]
     IN FrameDerived(df, col, i) ++ [n \in Kept |-> col[n]] ++ df[i]]

-----------------------------------------------------------------------------
(* The stream (IncrementalIndicators).  A tracker holds what the code's     *)
(* five classes hold: a monotone deque of values with their number, or the *)
(* last values with their sum and sum of squares.                          *)

NewTracker == [dq |-> <<>>, vals |-> <<>>, sum |-> 0, sumsq |-> 0, seq |-> 0]

\* Does the deque keep `old` when `new` is pushed behind it?
Outranks(op, old, new) == IF op = "max" THEN old > new ELSE old < new

\* Mutant: the front leaves the deque one value late.
PushExtremeLate(t, op, period, v) ==
  LET kept == Max({0} \cup {k \in DOMAIN t.dq : Outranks(op, t.dq[k].value, v)})
      dq == Append(SubSeq(t.dq, 1, kept), [value |-> v, seq |-> t.seq])
      first == Min({k \in DOMAIN dq : dq[k].seq >= t.seq - period})
  IN [t EXCEPT !.dq = SubSeq(dq, first, Len(dq)), !.seq = @ + 1]

\* _RollingMax.push, _RollingMin.push: pop what `v` outranks, append it, drop
\* from the front what left the window.
PushExtreme(t, op, period, v) ==
  LET kept == Max({0} \cup {k \in DOMAIN t.dq : Outranks(op, t.dq[k].value, v)})
      dq == Append(SubSeq(t.dq, 1, kept), [value |-> v, seq |-> t.seq])
      cutoff == t.seq + 1 - period
      first == Min({k \in DOMAIN dq : dq[k].seq >= cutoff})
  IN [t EXCEPT !.dq = SubSeq(dq, first, Len(dq)), !.seq = @ + 1]

\* _RollingMean.push, _RollingSum.push, _RollingStd.push.
PushSum(t, period, v) ==
  LET vals == Append(t.vals, v)
      full == Len(vals) > period
      old == IF full THEN Head(vals) ELSE 0
  IN [t EXCEPT !.vals = IF full THEN Tail(vals) ELSE vals,
               !.sum = @ + v - old, !.sumsq = @ + Square(v) - Square(old),
               !.seq = @ + 1]

Push(t, name, v) ==
  LET op == ROLLING_SPEC[name].op
  IN IF op \in {"max", "min"} THEN PushExtreme(t, op, Period(name), v)
     ELSE PushSum(t, Period(name), v)

\* value(): missing until `period` values were pushed.
TrackerValue(t, name) ==
  LET op == ROLLING_SPEC[name].op
  IN IF t.seq < Period(name) THEN NaN
     ELSE IF op \in {"max", "min"} THEN Head(t.dq).value
     ELSE IF op = "std" THEN Period(name) * t.sumsq - Square(t.sum) ELSE t.sum

\* input_value: the current bar's input; `prev` is the previous close or NaN.
InputValue(bar, prev, input) ==
  CASE input = "log_volume" -> IF bar.volume > 0 THEN bar.volume ELSE NaN
    [] input = "true_range" ->
         IF prev = NaN THEN bar.high - bar.low
         ELSE Max({bar.high - bar.low, Gap(bar.high, prev), Gap(bar.low, prev)})
    [] OTHER -> bar[input]

\* IncrementalIndicators.__init__
NewIndicators == [trackers |-> [n \in Names |-> NewTracker], closes |-> <<>>, prev |-> NaN]

\* Mutant: a missing input is pushed as 0.
AbsorbGapsAsZero(ind, bar) ==
  [trackers |-> [n \in Names |->
      LET v == InputValue(bar, ind.prev, ROLLING_SPEC[n].input)
      IN Push(ind.trackers[n], n, IF v = NaN THEN 0 ELSE v)],
   closes |-> LET cs == Append(ind.closes, bar.close)
              IN SubSeq(cs, Max({1, Len(cs) - Max(ReturnPeriods) + 1}), Len(cs)),
   prev |-> bar.close]

\* update(), the part that moves the state: missing inputs are not pushed.
Absorb(ind, bar) ==
  [trackers |-> [n \in Names |->
      LET v == InputValue(bar, ind.prev, ROLLING_SPEC[n].input)
      IN IF v = NaN THEN ind.trackers[n] ELSE Push(ind.trackers[n], n, v)],
   closes |-> LET cs == Append(ind.closes, bar.close)
              IN SubSeq(cs, Max({1, Len(cs) - Max(ReturnPeriods) + 1}), Len(cs)),
   prev |-> bar.close]

\* update(), the row it returns: every value is read before the bar is pushed.
StreamDerived(ind, bar, vals) ==
  LET logv == InputValue(bar, ind.prev, "log_volume")
  IN [vol_ratio |-> IF vals["vol_ma"] = 0 THEN NaN ELSE Quotient(bar.volume, vals["vol_ma"]),
      vol_zscore |->
         IF vals["vol_std"] = 0 THEN NaN
         ELSE Quotient(Minus(IF logv = NaN THEN NaN ELSE Period("vol_mean") * logv,
                             vals["vol_mean"]), vals["vol_std"]),
      channel_pos |-> ChannelPos(bar.close, vals["entry_low"], vals["entry_high"]),
      ret |-> [p \in ReturnPeriods |->
                 IF Len(ind.closes) < p THEN NaN
                 ELSE <<bar.close, ind.closes[Len(ind.closes) - p + 1]>>],
      taker_buy_ratio |-> IF vals["vol_sum"] = 0 THEN NaN
                          ELSE Quotient(vals["taker_sum"], vals["vol_sum"])]

StreamRow(ind, bar) ==
  LET vals == [n \in Names |-> TrackerValue(ind.trackers[n], n)]
  IN [close |-> bar.close] ++ [n \in Published |-> vals[n]] ++ StreamDerived(ind, bar, vals)
=============================================================================
