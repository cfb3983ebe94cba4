------------------------------ MODULE Triggers ------------------------------
(***************************************************************************)
(* The entry rules of research/triggers: what each generate_signals()      *)
(* returns for a frame, a signal of 1, -1 or 0 a row, and what the two     *)
(* that a live strategy may use return for one streaming row.              *)
(*                                                                         *)
(* A comparison with a mean or a deviation is made on the sums: x > k *    *)
(* std(w) of a window of n is n*x > k * sqrt(n^2 * var(w)).  Multipliers   *)
(* are in tenths, order-flow imbalance and taker ratios in hundredths.     *)
(***************************************************************************)
EXTENDS Features

CONSTANT Params     \* the parameters of every trigger, in one record

\* Windows have at least one row, and a cooldown is a number of rows.
ASSUME ParamsAssumption ==
  /\ {Params.ofi.ofi_window, Params.vwap.vwap_window, Params.vwap.ofi_window,
      Params.vwap.regime_atr, Params.climax.trades_window, Params.climax.atr_period,
      Params.climax.ofi_window, Params.absorption.vol_window, Params.absorption.atr_period,
      Params.pairs.zscore_window} \subseteq Nat \ {0}
  /\ {Params.vwap.cooldown, Params.climax.cooldown, Params.absorption.cooldown,
      Params.pairs.cooldown} \subseteq Nat
  /\ \A t \in {"vwap", "climax", "absorption"} :
       Params[t].regime_filter => Params[t].regime_window \in Nat \ {0}

-----------------------------------------------------------------------------
(* Bars of the microstructure data set.                                    *)

\* aggregate_monthly_file: one minute of trades, [price, quantity, maker] each,
\* becomes one bar; a minute without trades has no bar.  `spread` stands for the
\* residual the Kalman filter finds at the bar.
Aggregated(trades, spread) ==
  LET prices == {trades[i].price : i \in DOMAIN trades}
      volume == FoldLeft(LAMBDA a, t : a + t.quantity, 0, trades)
      taker  == FoldLeft(LAMBDA a, t : IF t.maker THEN a ELSE a + t.quantity, 0, trades)
      turnover == FoldLeft(LAMBDA a, t : a + t.price * t.quantity, 0, trades)
  IN [open |-> Head(trades).price, high |-> Max(prices), low |-> Min(prices),
      close |-> Last(trades).price, volume |-> volume, taker_buy_base |-> taker,
      trades |-> Len(trades), vwap |-> turnover \div volume,
      ofi |-> (100 * (taker - (volume - taker))) \div volume,
      taker_ratio |-> (100 * taker) \div volume, spread |-> spread]

-----------------------------------------------------------------------------
(* Helpers shared by the rules.                                            *)

Field(df, f) == [i \in DOMAIN df |-> df[i][f]]

\* x > k/10 * sqrt(v), for k >= 0 and v >= 0
ExceedsRoot(x, k, v) == x > 0 /\ 100 * Square(x) > Square(k) * v
ReachesRoot(x, k, v) == x >= 0 /\ 100 * Square(x) >= Square(k) * v

\* A missing operand makes a comparison false.
Above(x, y) == NaN \notin {x, y} /\ x > y
Below(x, y) == NaN \notin {x, y} /\ x < y

\* Series.bfill(): a missing value is taken from the next row that has one, here a
\* row of `known`.
FillFrom(known, s) ==
  [i \in DOMAIN s |-> LET later == {j \in known : j >= i}
                      IN IF later = {} THEN NaN ELSE s[Min(later)]]
BackFill(s) == FillFrom({j \in DOMAIN s : s[j] # NaN}, s)

\* The triggers' own true range: np.maximum does not skip what is missing.
TrueRange(df) == [InputSeries(df, "true_range") EXCEPT ![1] = NaN]

RollingSeries(s, op, period) == [i \in DOMAIN s |-> Rolling(s, op, period, i)]

Atr(df, period) == BackFill(RollingSeries(TrueRange(df), "mean", period))

\* The value at a place of the sorted window.
Quantile(window, rank) ==
  CHOOSE x \in ToSet(window) :
    /\ Cardinality({k \in DOMAIN window : window[k] < x}) < rank
    /\ Cardinality({k \in DOMAIN window : window[k] <= x}) >= rank

\* atr <= atr.rolling(window).quantile(q); `rank` is the place of the quantile
\* in the sorted window.
RegimeOk(atr, p, i) ==
  \/ ~p.regime_filter
  \/ /\ i >= p.regime_window
     /\ LET window == [k \in 1..p.regime_window |-> atr[i - p.regime_window + k]]
        IN NaN \notin ToSet(window) /\ atr[i] <= Quantile(window, p.regime_rank)

\* A short signal is written over a long one.
Signal(long, short) == IF short THEN -1 ELSE IF long THEN 1 ELSE 0

\* Mutant: of signals close to each other the last is kept.
CooldownKeepsLast(signals, cooldown) ==
  [i \in DOMAIN signals |->
     IF \E j \in i+1 .. Min({i + cooldown - 1, Len(signals)}) : signals[j] # 0 THEN 0 ELSE signals[i]]

\* The cooldown loop: a signal less than `cooldown` rows behind the last one
\* kept is cleared.
Cooldown(signals, cooldown) ==
  LET kept[i \in 0 .. Len(signals)] ==    \* the last row kept up to row i
        IF i = 0 THEN -cooldown
        ELSE IF signals[i] # 0 /\ i - kept[i-1] >= cooldown THEN i ELSE kept[i-1]
  IN [i \in DOMAIN signals |-> IF kept[i] = i THEN signals[i] ELSE 0]

-----------------------------------------------------------------------------
(* Channel breakouts.  `ind` is the frame with its indicator columns.      *)

\* intensity = (close - channel) / ATR, the ATR being 1.0 when it is not positive
TurtleBreakout(ind, p) ==
  [i \in DOMAIN ind |->
     LET row == ind[i]
         atr == IF row.atr = NaN THEN AtrUnit ELSE IF row.atr > 0 THEN row.atr ELSE AtrUnit
         Intense(gap) == 10 * Period("atr") * gap > p.intensity * atr
         long  == Above(row.close, row.entry_high) /\ Intense(row.close - row.entry_high)
         short == Below(row.close, row.entry_low) /\ Intense(row.entry_low - row.close)
     IN Signal(long, short)]

AdamBreakout(ind) ==
  [i \in DOMAIN ind |-> Signal(Above(ind[i].close, ind[i].entry_high),
                               Below(ind[i].close, ind[i].entry_low))]

\* Mutant: a missing channel reads as 0.
AdamRowMissingIsZero(row) ==
  LET high == SafeLoc(row, "entry_high", 0)
      low  == SafeLoc(row, "entry_low", 0)
  IN IF Above(row.close, high) THEN 1 ELSE IF Below(row.close, low) THEN -1 ELSE 0

\* The dictionary path of the same rule: a missing key reads as missing.
AdamRow(row) ==
  LET high == SafeLoc(row, "entry_high", NaN)
      low  == SafeLoc(row, "entry_low", NaN)
  IN IF Above(row.close, high) THEN 1 ELSE IF Below(row.close, low) THEN -1 ELSE 0

\* close > ma, the mean being a sum of ma_period closes
AboveMean(close, sum) == sum # NaN /\ Period("ma") * close > sum
BelowMean(close, sum) == sum # NaN /\ Period("ma") * close < sum

TrendFilteredBreakout(ind, p) ==
  [i \in DOMAIN ind |->
     LET row == ind[i]
         long  == Above(row.close, row.entry_high) /\ AboveMean(row.close, row.ma)
         short == Below(row.close, row.entry_low) /\ BelowMean(row.close, row.ma)
     IN Signal(long, short /\ ~p.long_only)]

TrendRow(row, p) ==
  LET high == SafeLoc(row, "entry_high", NaN)
      low  == SafeLoc(row, "entry_low", NaN)
      mean == SafeLoc(row, "ma", NaN)
      long == Above(row.close, high) /\ AboveMean(row.close, mean)
  IN IF p.long_only THEN (IF long THEN 1 ELSE 0)
     ELSE IF long THEN 1
     ELSE IF Below(row.close, low) /\ BelowMean(row.close, mean) THEN -1 ELSE 0

\* close < ma - num_std * std and close > ma + num_std * std, on shifted windows
BollingerMeanReversion(df, p) ==
  LET ma  == Column(df, "ma")
      std == Column(df, "close_std")
      n   == Period("ma")
  IN [i \in DOMAIN df |->
        Signal(ma[i] # NaN /\ ExceedsRoot(ma[i] - n * df[i].close, p.num_std, std[i]),
               ma[i] # NaN /\ ~p.long_only
                 /\ ExceedsRoot(n * df[i].close - ma[i], p.num_std, std[i]))]

-----------------------------------------------------------------------------
(* Order-flow rules on the microstructure data set.                        *)

\* The channel is shifted one row, the trend and the flow are not; the flow's
\* mean needs only half a window.
OFIMomentum(df, p) ==
  LET high == Column(df, "entry_high")
      low  == Column(df, "entry_low")
      trend == RollingSeries(Field(df, "close"), "mean", Period("ma"))
      Flow(i) == SubSeq(Field(df, "ofi"), Max({1, i - p.ofi_window + 1}), i)
      FlowBeyond(i, sign) ==
        /\ Len(Flow(i)) >= p.ofi_window \div 2
        /\ sign * SumSeq(Flow(i)) > p.ofi_threshold * Len(Flow(i))
  IN [i \in DOMAIN df |->
        Signal(Above(df[i].close, high[i]) /\ FlowBeyond(i, 1) /\ AboveMean(df[i].close, trend[i]),
               ~p.long_only /\ Below(df[i].close, low[i]) /\ FlowBeyond(i, -1)
                 /\ BelowMean(df[i].close, trend[i]))]

\* The mean flow of a full window beyond a threshold, in one direction.
MeanFlow(df, window, i) == Rolling(Field(df, "ofi"), "sum", window, i)

\* Volume-weighted price and spread of the window: sums of price * volume,
\* price^2 * volume and volume.  A window that is not full or has no volume takes
\* the price of the next one that is, and no spread.
VwapWindow(df, window) ==
  LET pv  == RollingSeries([i \in DOMAIN df |-> df[i].close * df[i].volume], "sum", window)
      pv2 == RollingSeries([i \in DOMAIN df |-> Square(df[i].close) * df[i].volume], "sum", window)
      vol == RollingSeries(Field(df, "volume"), "sum", window)
      Filled(own, later) ==
        [i \in DOMAIN own |-> IF own[i] = NaN /\ later[i] # NaN
                              THEN [later[i] EXCEPT !.var = 0] ELSE own[i]]
      traded == {i \in DOMAIN df : vol[i] \notin {NaN, 0}}
      Settle(own) == Filled(own, FillFrom(traded, own))
  IN Settle([i \in DOMAIN df |-> IF i \notin traded THEN NaN
               ELSE [pv |-> pv[i], vol |-> vol[i], var |-> pv2[i] * vol[i] - Square(pv[i])]])

DynamicVWAPBand(df, p) ==
  LET atr  == Atr(df, p.regime_atr)
      Flow(i) == MeanFlow(df, p.ofi_window, i)
      Reached(gap, var) == ReachesRoot(gap, p.band_mult, var)
      At(i, band, under) ==
        IF band = NaN THEN 0
        ELSE Signal(Reached(under, band.var) /\ Above(Flow(i), p.ofi_window * p.ofi_threshold),
                    Reached(-under, band.var) /\ Below(Flow(i), -p.ofi_window * p.ofi_threshold))
      Row(i, band) == At(i, band, IF band = NaN THEN 0 ELSE band.pv - band.vol * df[i].close)
      Rows(bands) == [i \in DOMAIN df |-> IF RegimeOk(atr, p, i) THEN Row(i, bands[i]) ELSE 0]
  IN Cooldown(Rows(VwapWindow(df, p.vwap_window)), p.cooldown)

\* trades > mean + mult * std, std with ddof = 1 and 1 in place of 0
TradesBurst(df, p, i) ==
  LET n == p.trades_window
      sum == Rolling(Field(df, "trades"), "sum", n, i)
      var == Rolling(Field(df, "trades"), "std", n, i)
      over == n * df[i].trades - sum
  IN /\ sum # NaN
     /\ IF var = 0 THEN 10 * over > p.trades_std_mult * n
        ELSE over > 0 /\ 100 * (n - 1) * Square(over) > Square(p.trades_std_mult) * n * var

LiquidationClimax(df, p) ==
  LET atr == Atr(df, p.atr_period)
      Flow(i) == MeanFlow(df, p.ofi_window, i)
      Stretched(i, gap) ==     \* gap / ATR > deviation_mult
        /\ atr[i] \notin {NaN, 0}
        /\ 10 * p.atr_period * gap > p.deviation_mult * atr[i]
      long(i)  == Stretched(i, df[i].vwap - df[i].close) /\ Above(Flow(i), -10 * p.ofi_window)
      short(i) == Stretched(i, df[i].close - df[i].vwap) /\ Below(Flow(i), 10 * p.ofi_window)
  IN Cooldown([i \in DOMAIN df |->
       IF TradesBurst(df, p, i) /\ RegimeOk(atr, p, i) THEN Signal(long(i), short(i)) ELSE 0],
       p.cooldown)

AbsorptionDivergence(df, p) ==
  LET atr == Atr(df, p.atr_period)
      volMa == RollingSeries(Field(df, "volume"), "sum", p.vol_window)
      Surge(i) == volMa[i] # NaN /\ 10 * p.vol_window * df[i].volume > p.vol_mult * volMa[i]
      Absorbed(i) == /\ atr[i] # NaN
                     /\ 10 * p.atr_period * Gap(df[i].close, df[i].open)
                          <= p.absorption_ratio * atr[i]
      Shadow(i, part) == df[i].high # df[i].low /\ 5 * part >= 2 * (df[i].high - df[i].low)
      long(i)  == /\ df[i].taker_ratio < p.taker_low
                  /\ Absorbed(i) \/ Shadow(i, Min({df[i].open, df[i].close}) - df[i].low)
      short(i) == /\ df[i].taker_ratio > p.taker_high
                  /\ Absorbed(i) \/ Shadow(i, df[i].high - Max({df[i].open, df[i].close}))
  IN Cooldown([i \in DOMAIN df |->
       IF Surge(i) /\ RegimeOk(atr, p, i) THEN Signal(long(i), short(i)) ELSE 0], p.cooldown)

-----------------------------------------------------------------------------
(* Pairs.  The filter's residual at a row is an input (the bar's spread).  *)

\* The rolling z-score of the residuals, back-filled: [dev, var] with
\* z = dev / sqrt(var), where var is 1.0 instead of 0.
ZScores(df, window) ==
  LET res == Field(df, "spread")
      sum == RollingSeries(res, "sum", window)
      var == RollingSeries(res, "std", window)
      full == {i \in DOMAIN df : sum[i] # NaN}
  IN FillFrom(full, [i \in DOMAIN df |-> IF i \notin full THEN NaN
       ELSE [dev |-> window * res[i] - sum[i],
             var |-> IF var[i] = 0 THEN Square(window)
                     ELSE (window * var[i]) \div (window - 1)]])

\* z >= k/10 for any sign of k
ZAtLeast(z, k) == IF k >= 0 THEN ReachesRoot(z.dev, k, z.var) ELSE ~ExceedsRoot(-z.dev, -k, z.var)
ZAtMost(z, k) == ZAtLeast([z EXCEPT !.dev = -@], -k)

\* generate_pair_signals: the position opens beyond entry_z once the cooldown since
\* the last entry is over, and closes inside exit_z or beyond stop_z.
KalmanPairs(df, p) ==
  LET zs == ZScores(df, p.zscore_window)
      Step(was, t) ==
        LET z == zs[t]
            Enter(side) == [pos |-> side, last |-> t]
            Leave(out) == [was EXCEPT !.pos = IF out THEN 0 ELSE @]
        IN CASE z = NaN -> was
             [] z # NaN /\ was.pos = 0 ->
                  IF t - was.last < p.cooldown THEN was
                  ELSE IF ZAtLeast(z, p.entry_z) THEN Enter(-1)
                  ELSE IF ZAtMost(z, -p.entry_z) THEN Enter(1) ELSE was
             [] z # NaN /\ was.pos = 1 -> Leave(ZAtLeast(z, -p.exit_z) \/ ZAtMost(z, -p.stop_z))
             [] z # NaN /\ was.pos = -1 -> Leave(ZAtMost(z, p.exit_z) \/ ZAtLeast(z, p.stop_z))
      held[t \in 0 .. Len(df)] ==
        IF t = 0 THEN [pos |-> 0, last |-> -p.cooldown] ELSE Step(held[t-1], t)
  IN [t \in DOMAIN df |-> IF held[t].last # t THEN 0 ELSE IF held[t].pos = 1 THEN 1 ELSE -1]

-----------------------------------------------------------------------------
TriggerNames ==
  {"turtle", "adam", "trend", "bollinger", "ofi", "vwap", "climax", "absorption", "pairs"}

\* generate_signals of the named trigger, for a frame with its indicator columns.
Signals(trigger, ind) ==
  CASE trigger = "turtle"     -> TurtleBreakout(ind, Params.turtle)
    [] trigger = "adam"       -> AdamBreakout(ind)
    [] trigger = "trend"      -> TrendFilteredBreakout(ind, Params.trend)
    [] trigger = "bollinger"  -> BollingerMeanReversion(ind, Params.bollinger)
    [] trigger = "ofi"        -> OFIMomentum(ind, Params.ofi)
    [] trigger = "vwap"       -> DynamicVWAPBand(ind, Params.vwap)
    [] trigger = "climax"     -> LiquidationClimax(ind, Params.climax)
    [] trigger = "absorption" -> AbsorptionDivergence(ind, Params.absorption)
    [] trigger = "pairs"      -> KalmanPairs(ind, Params.pairs)
=============================================================================
