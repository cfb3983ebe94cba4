----------------------------- MODULE MCResearch -----------------------------
(* Small instance of the research tool chain.                              *)
EXTENDS ResearchStudy, Evaluation, ParamSweep

Trade(price, quantity, maker) == [price |-> price, quantity |-> quantity, maker |-> maker]

MCPeriods == [entry_period |-> 2, exit_period |-> 2, atr_period |-> 2, vol_period |-> 2, ma_period |-> 3]

\* A hammer, a rally, a drop, and a minute nobody traded in.
MCBars ==
  {Aggregated(<<Trade(36, 1, TRUE), Trade(12, 2, TRUE), Trade(36, 1, FALSE)>>, 0),
   Aggregated(<<Trade(48, 3, FALSE), Trade(60, 3, FALSE)>>, 3),
   Aggregated(<<Trade(36, 7, TRUE), Trade(12, 1, TRUE), Trade(24, 1, TRUE)>>, -3),
   [open |-> 48, high |-> 48, low |-> 48, close |-> 48, volume |-> 0, taker_buy_base |-> 0,
    trades |-> 0, vwap |-> 48, ofi |-> 0, taker_ratio |-> 0, spread |-> 1]}

MCParams ==
  [turtle |-> [intensity |-> 0],
   trend |-> [long_only |-> FALSE],
   bollinger |-> [num_std |-> 10, long_only |-> FALSE],
   ofi |-> [ofi_window |-> 2, ofi_threshold |-> 5, long_only |-> FALSE],
   vwap |-> [vwap_window |-> 2, band_mult |-> 5, ofi_window |-> 2, ofi_threshold |-> 2,
             cooldown |-> 2, regime_filter |-> TRUE, regime_window |-> 3, regime_rank |-> 2,
             regime_atr |-> 2],
   climax |-> [trades_window |-> 2, trades_std_mult |-> 5, deviation_mult |-> 2, atr_period |-> 2,
               ofi_window |-> 2, cooldown |-> 2, regime_filter |-> FALSE],
   absorption |-> [vol_window |-> 2, vol_mult |-> 12, taker_high |-> 70, taker_low |-> 30,
                   absorption_ratio |-> 5, atr_period |-> 2, cooldown |-> 2,
                   regime_filter |-> FALSE],
   pairs |-> [zscore_window |-> 3, entry_z |-> 8, exit_z |-> 2, stop_z |-> 11, cooldown |-> 2]]

MCExits ==
  [triple |-> [mode |-> "pct", up |-> <<3, 2>>, down |-> <<3, 4>>, horizon |-> 2],
   triple_atr |-> [mode |-> "atr", upper |-> 4, lower |-> 2, horizon |-> 2],
   turtle |-> [mult |-> 6], reversion |-> [num_std |-> 10, max_hold |-> 2],
   horizon |-> [horizon |-> 2]]

Fixed == [sizer |-> "fixed", risk_pct |-> 30, max_leverage |-> 1]
Kelly == [sizer |-> "kelly", win_rate |-> 45, profit_factor |-> 20, max_risk_cap |-> 8,
          max_leverage |-> 5]
Volatility == [sizer |-> "volatility", risk_pct |-> 10, max_leverage |-> 1]
AllowAll == [kind |-> "allow_all"]
MaxDrawdown == [kind |-> "max_drawdown", max_dd_pct |-> 5]

Study(trigger, labeler, sizer, gate, commission, limit, ml) ==
  [trigger |-> trigger, labeler |-> labeler, sizer |-> sizer, gate |-> gate,
   strength |-> 2, commission |-> commission, limit |-> limit, ml |-> ml]

MCStudies ==
  {Study("adam", "trailing", Fixed, AllowAll, 5, FALSE, FALSE),
   Study("turtle", "turtle", Volatility, MaxDrawdown, 5, FALSE, FALSE),
   Study("trend", "triple_atr", Fixed, MaxDrawdown, 5, TRUE, FALSE),
   Study("bollinger", "reversion", Kelly, AllowAll, 5, FALSE, TRUE),
   Study("ofi", "triple", Fixed, AllowAll, 5, TRUE, FALSE),
   Study("vwap", "triple", Kelly, MaxDrawdown, 5, TRUE, FALSE),
   Study("climax", "triple", Fixed, AllowAll, 5, FALSE, FALSE),
   Study("absorption", "triple", Fixed, AllowAll, 5, TRUE, FALSE),
   Study("pairs", "triple", Volatility, AllowAll, 2, FALSE, FALSE)}

MCGrid == [entry_period |-> {10, 20}, atr_mult |-> {2, 3}]

\* Evenly spaced events, then irregular ones.
MCEventBars == {2 * k : k \in 0..13} \cup {40, 41, 42, 50, 51, 60, 62, 63}

Pipeline(train, test, folds, horizon, columns) ==
  [train_range |-> train, test_range |-> test, cv_folds |-> folds, train_split |-> 80,
   horizon |-> horizon, columns |-> columns]

MCScores == {-4, 1, 6}

MCPipelines ==
  {Pipeline(<<0, 28>>, <<>>, 2, 5, {"atr"}),
   Pipeline(<<0, 70>>, <<>>, 3, 4, {"atr", "ma"}),
   Pipeline(<<0, 28>>, <<28, 70>>, 1, 4, {"ma"}),
   Pipeline(<<30, 70>>, <<>>, 1, 4, {"atr"})}

-----------------------------------------------------------------------------
(* The three programs share nothing but the machine: each run is of one.   *)

VARIABLE program

vars == <<program, studyVars, evaluationVars, sweepVars>>

Init ==
  /\ program \in {"study", "evaluation", "sweep"}
  /\ StudyInit
  /\ EvaluationInit /\ (program # "evaluation" => pipeline = CHOOSE p \in Pipelines : TRUE)
  /\ SweepInit /\ (program # "sweep" => nature = [j \in Jobs |-> "hangs"])

Others(run) ==
  /\ UNCHANGED program
  /\ run # "study" => UNCHANGED studyVars
  /\ run # "evaluation" => UNCHANGED evaluationVars
  /\ run # "sweep" => UNCHANGED sweepVars

RunStudy == program = "study" /\ StudyNext /\ Others("study")
RunEvaluation == program = "evaluation" /\ EvaluationNext /\ Others("evaluation")
RunSweep == program = "sweep" /\ SweepNext /\ Others("sweep")

Next == RunStudy \/ RunEvaluation \/ RunSweep

Spec == Init /\ [][Next]_vars /\ WF_vars(program = "sweep" /\ SweepStep /\ Others("sweep"))
=============================================================================
