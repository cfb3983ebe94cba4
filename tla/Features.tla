------------------------------ MODULE Features ------------------------------
(***************************************************************************)
(* The feature callables of research/features.py: readers of one row of    *)
(* the indicator columns, with a fallback for what is missing.  The same   *)
(* code reads a row of the research frame and the one-row frame the live   *)
(* StrategyWrapper builds from the streaming indicators.                   *)
(*                                                                         *)
(* A quotient of the code is the pair <<numerator, denominator>>.          *)
(***************************************************************************)
EXTENDS Indicators

CONSTANT One    \* the price 1.0 in the model's units

ASSUME OneAssumption == One \in Nat \ {0}

\* _safe_loc: the value of a column, or the fallback when the column does not
\* exist or its value is missing.
SafeLoc(row, col, fallback) ==
  IF col \in DOMAIN row /\ row[col] # NaN THEN row[col] ELSE fallback

SafeReturn(row, p) == IF row.ret[p] = NaN THEN <<1, 1>> ELSE row.ret[p]

AtrUnit == Period("atr") * One

feature_atr(row) ==
  LET atr == SafeLoc(row, "atr", 0) IN [atr |-> atr, atr_pct |-> <<atr, row.close>>]

feature_breakout_intensity(row) ==
  LET high == SafeLoc(row, "entry_high", NaN)
      low  == SafeLoc(row, "entry_low", NaN)
      seen == SafeLoc(row, "atr", AtrUnit)
      atr  == IF seen <= 0 THEN AtrUnit ELSE seen
  IN [long_intensity  |-> IF high = NaN THEN <<0, 1>> ELSE <<row.close - high, atr>>,
      short_intensity |-> IF low = NaN THEN <<0, 1>> ELSE <<low - row.close, atr>>]

feature_volume_ratio(row) ==
  [vol_ratio  |-> SafeLoc(row, "vol_ratio", <<1, 1>>),
   vol_zscore |-> SafeLoc(row, "vol_zscore", <<0, 1>>)]

feature_channel_position(row) == [channel_pos |-> SafeLoc(row, "channel_pos", <<1, 2>>)]

feature_donchian_width(row) ==
  LET width == Minus(SafeLoc(row, "entry_high", NaN), SafeLoc(row, "entry_low", NaN))
  IN [channel_width_pct |-> IF width = NaN THEN <<0, 1>> ELSE <<width, row.close>>]

feature_lagged_returns(row) == [ret |-> [p \in ReturnPeriods |-> SafeReturn(row, p)]]

feature_taker_flow(row) == [taker_buy_ratio |-> SafeLoc(row, "taker_buy_ratio", <<1, 2>>)]

\* The moving average is a sum of ma_period closes: close / ma > 1.01 reads
\* 100 * ma_period * close > 101 * sum.
feature_trend_filter(row) ==
  LET sum == SafeLoc(row, "ma", NaN)
      lhs == 100 * Period("ma") * row.close
  IN IF sum = NaN THEN [trend_direction |-> 0, ma_ratio |-> <<1, 1>>]
     ELSE IF sum <= 0 THEN [trend_direction |-> 0, ma_ratio |-> <<1, 1>>]
     ELSE [trend_direction |-> IF lhs > 101 * sum THEN 1 ELSE IF lhs < 99 * sum THEN -1 ELSE 0,
           ma_ratio |-> <<Period("ma") * row.close, sum>>]

\* close_std is kept as period^2 times the variance; the score is signed.
feature_bollinger_zscore(row) ==
  LET sum == SafeLoc(row, "ma", NaN)
      var == SafeLoc(row, "close_std", NaN)
      flat == [bollinger_zscore |-> <<0, 1>>]
  IN IF NaN \in {sum, var} THEN flat
     ELSE IF var <= 0 THEN flat
     ELSE [bollinger_zscore |-> <<Period("ma") * row.close - sum, var>>]

\* CompositeFeature.compute_one, for the two sets the module offers.
default_feature_set(row) ==
  feature_atr(row) ++ feature_breakout_intensity(row) ++ feature_volume_ratio(row)
  ++ feature_channel_position(row) ++ feature_donchian_width(row)
  ++ feature_lagged_returns(row) ++ feature_taker_flow(row) ++ feature_trend_filter(row)

mean_reversion_feature_set(row) ==
  feature_bollinger_zscore(row) ++ feature_atr(row) ++ feature_volume_ratio(row)
  ++ feature_lagged_returns(row) ++ feature_taker_flow(row) ++ feature_trend_filter(row)
=============================================================================
