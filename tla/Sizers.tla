------------------------------- MODULE Sizers -------------------------------
(***************************************************************************)
(* The position sizers of execution/sizers.py and the entry gates of       *)
(* execution/risk_managers.py, shared by the research backtest and the     *)
(* live StrategyWrapper.                                                    *)
(*                                                                         *)
(* A size is a whole number of lots of min_size; money is in the units of  *)
(* price * lot.  Percentages are whole, the profit factor is in tenths, a  *)
(* signal strength (an ATR multiplier) in halves.  A sizer's parameters    *)
(* are a record p.  None is the argument left out.                         *)
(***************************************************************************)
EXTENDS Integers

CONSTANT None

ASSUME NoneAssumption == None \notin Int

Least(x, y) == IF x <= y THEN x ELSE y

\* Mutant: no cap by notional.
Uncapped(p, size, equity, entry) == size

\* The cap by notional and the floor to whole lots, common to the three.
Capped(p, size, equity, entry) ==
  IF entry = None THEN size
  ELSE IF entry > 0 THEN Least(size, (equity * p.max_leverage) \div entry) ELSE size

\* VolatilityTargetingSizer: the stop is strength * ATR, whatever the caller's is.
VolatilityTargeting(p, strength, atr, equity, entry) ==
  IF equity <= 0 \/ atr <= 0 \/ strength <= 0 THEN 0
  ELSE Capped(p, (2 * equity * p.risk_pct) \div (100 * strength * atr), equity, entry)

\* FixedRiskSizer: the loss at the caller's stop is risk_pct of the equity.
FixedRisk(p, equity, entry, stop_distance) ==
  IF equity <= 0 \/ stop_distance = None THEN 0
  ELSE IF stop_distance <= 0 THEN 0
  ELSE Capped(p, (equity * p.risk_pct) \div (100 * stop_distance), equity, entry)

\* Half of Kelly's fraction (p*b - q) / b as a numerator over 200 * profit_factor; a
\* strength strictly between 0 and 1 is taken as the win probability.
KellyNumerator(p, strength) ==
  LET win == IF strength = 1 THEN 50 ELSE p.win_rate
  IN win * p.profit_factor - 10 * (100 - win)

\* HalfKellySizer: the smaller of half Kelly and the cap.
HalfKelly(p, strength, equity, entry, stop_distance) ==
  LET edge == KellyNumerator(p, strength)
      scale == 200 * p.profit_factor
      capped == 100 * edge > p.max_risk_cap * scale
      size == IF capped THEN (equity * p.max_risk_cap) \div (100 * stop_distance)
              ELSE (equity * edge) \div (scale * stop_distance)
  IN IF equity <= 0 \/ stop_distance = None THEN 0
     ELSE IF stop_distance <= 0 \/ p.profit_factor <= 0 \/ edge <= 0 THEN 0
     ELSE Capped(p, size, equity, entry)

\* calculate_size of the sizer p names; the backtest hands over every argument.
calculate_size(p, strength, atr, equity, entry, stop_distance) ==
  CASE p.sizer = "volatility" -> VolatilityTargeting(p, strength, atr, equity, entry)
    [] p.sizer = "fixed"      -> FixedRisk(p, equity, entry, stop_distance)
    [] p.sizer = "kelly"      -> HalfKelly(p, strength, equity, entry, stop_distance)

-----------------------------------------------------------------------------
\* check_risk_limits.  A portfolio state is a record; what a gate reads and the
\* state lacks counts as 0 or False.  The drawdown is a pair <<loss, peak>>.
Key(state, key, default) == IF key \in DOMAIN state THEN state[key] ELSE default

MaxDrawdownGate(max_dd_pct, state) ==
  LET dd == Key(state, "current_drawdown", <<0, 1>>)
  IN 100 * dd[1] < max_dd_pct * dd[2]

LivePositionGate(state) ==
  /\ ~Key(state, "has_pending_order", FALSE)
  /\ Key(state, "current_position", 0) = 0

check_risk_limits(gate, state) ==
  CASE gate.kind = "max_drawdown"  -> MaxDrawdownGate(gate.max_dd_pct, state)
    [] gate.kind = "allow_all"     -> TRUE
    [] gate.kind = "live_position" -> LivePositionGate(state)
=============================================================================
