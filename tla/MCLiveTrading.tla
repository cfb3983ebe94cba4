--------------------------- MODULE MCLiveTrading ----------------------------
EXTENDS LiveTrading

\* The code's literals in units of about 1080 bars, the factory's trend window cut to 3.
MCDefault == [entry |-> 2, trail |-> 1, atr |-> 2, vol |-> 2, ma |-> 3, period |-> 3]

Market == [order |-> "market", timeout |-> 0, policy |-> "cancel"]
MarketExit == [order |-> "market", timeout |-> 3000, policy |-> "market"]

\* live_trend_bot.py without --config.
Flags(trigger, period, trail, trend, mode) ==
  [source |-> "flags",
   flags |-> [trigger |-> trigger, period |-> period, trail_period |-> trail,
              trend_period |-> trend, hard_stop_mode |-> mode,
              entry |-> Market, exitExecution |-> MarketExit]]

\* A file that names a trigger and nothing else.
Bare(trigger) ==
  [trigger |-> trigger, params |-> [entry_period |-> 0, period |-> 0, trend_period |-> 0],
   period |-> 0, trend_period |-> 0, trail_period |-> 0,
   indicators |-> [entry_period |-> 0, exit_period |-> 0, atr_period |-> 0, ma_period |-> 0],
   labeler |-> [trail_period |-> 0],
   exit |-> [trail_period |-> 0, indicator |-> "absent", hard_stop_mode |-> "donchian"],
   sizer |-> "fixed_risk", risk |-> "max_drawdown",
   entry |-> NoSection, exitExecution |-> NoSection]

File(f) == [source |-> "file", file |-> f]

\* config/trend_breakout_highfreq.yaml, which spells out its execution, and without it.
Highfreq ==
  [Bare("trend_breakout") EXCEPT
     !.params = [entry_period |-> 2, period |-> 0, trend_period |-> 8],
     !.indicators = [entry_period |-> 2, exit_period |-> 2, atr_period |-> 2, ma_period |-> 8],
     !.labeler.trail_period = 1, !.entry = Market, !.exitExecution = MarketExit]
HighfreqDefaults == [Highfreq EXCEPT !.entry = NoSection, !.exitExecution = NoSection]

\* Both sides, an exit window longer than the entry's, a short's channel in the file.
TwoSided ==
  [Bare("adam_breakout") EXCEPT
     !.params.period = 1,
     !.indicators = [entry_period |-> 1, exit_period |-> 2, atr_period |-> 1, ma_period |-> 1],
     !.exit.indicator = "donchian_high"]

\* A sizer that does not look at the stop, and an ATR that the warm-up does not cover.
ColdAtr ==
  [TwoSided EXCEPT !.sizer = "volatility_targeting", !.indicators.atr_period = 9]

\* config/liquidation_climax.yaml has an order type that no enum knows.
PostOnly == [HighfreqDefaults EXCEPT !.entry.order = "limit_post_only"]

MCStarted ==
  {Flags("trend_breakout", 1, 2, 0, "atr"), File(Highfreq), File(HighfreqDefaults),
   File(TwoSided), File(ColdAtr),
   File([TwoSided EXCEPT !.risk = "allow_all"]), File(PostOnly)}
=============================================================================
