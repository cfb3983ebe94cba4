----------------------------- MODULE BotConfig ------------------------------
(***************************************************************************)
(* How a live bot gets its settings.  A strategy file (config/*.yaml) is   *)
(* read twice: by _bot_kwargs_from_yaml() of live_trend_bot.py for the     *)
(* banner that main() prints, and by build_strategy_from_config() of       *)
(* core/strategy_factory.py for the bot that runs.  Without a file the     *)
(* constructor of LiveTurtleBot takes the command line's flags.            *)
(*                                                                         *)
(* A file is a record with a field per key that either reader looks up; 0  *)
(* (or "absent") is a key that is not there.  Periods are in bars, and     *)
(* the literals of the code are scaled down by Default.                    *)
(***************************************************************************)
EXTENDS Integers, FiniteSets

CONSTANT Default    \* the literals: entry, trail, atr, vol, ma (factory), period (live)

DefaultNames == {"entry", "trail", "atr", "vol", "ma", "period"}
ASSUME DefaultAssumption == Default \in [DefaultNames -> Nat \ {0}]

\* Python's chain of "or" / .get(key, default): the first that is there.
Or(x, y) == IF x # 0 THEN x ELSE y
Longest(S) == CHOOSE n \in S : \A m \in S : m <= n

-----------------------------------------------------------------------------
(***************************************************************************)
(* ExecutionSpec.  typed says that its fields are the enums that to_dict() *)
(* takes .value of; ExecutionSpec.from_dict() makes them,                  *)
(* parse_execution_spec() hands over the file's strings as they are.  The  *)
(* time in force and the number of attempts are left out.                  *)
(***************************************************************************)
NoSection == [order |-> "absent", timeout |-> 0, policy |-> "absent"]

ExecSpec(section, typed) == [section |-> section, typed |-> typed]

DEFAULT_ENTRY_EXECUTION ==
  ExecSpec([order |-> "market", timeout |-> 0, policy |-> "cancel"], TRUE)
DEFAULT_EXIT_EXECUTION ==
  ExecSpec([order |-> "market", timeout |-> 3000, policy |-> "market"], TRUE)

from_dict(section) == ExecSpec(section, TRUE)

\* Its enums raise a ValueError for a name they do not have.
KnownNames(section) ==
  /\ section.order \in {"absent", "market", "limit", "limit_maker"}
  /\ section.policy \in {"absent", "cancel", "reprice", "market"}

parse_execution_spec(section) ==
  IF section = NoSection THEN DEFAULT_ENTRY_EXECUTION ELSE ExecSpec(section, FALSE)

\* ExecutionSpec.to_dict(), which OrderPayload.to_dict() calls for both specs.
Serialisable(spec) == spec.typed

-----------------------------------------------------------------------------
(***************************************************************************)
(* build_strategy_from_config().                                           *)
(***************************************************************************)
\* The trigger's parameters; without any, the file's top level and the defaults.
TriggerParams(f) ==
  IF f.params # [entry_period |-> 0, period |-> 0, trend_period |-> 0] THEN f.params
  ELSE LET entry == Or(f.period, Default.entry)
       IN  IF f.trigger = "trend_breakout"
           THEN [entry_period |-> entry, period |-> 0,
                 trend_period |-> Or(f.trend_period, 4 * entry)]
           ELSE [entry_period |-> 0, period |-> entry, trend_period |-> 0]

\* trigger_cls(**trigger_params), sizer_cls(...) and risk_cls(max_dd_pct=...) take no
\* other names: a wrong one is a TypeError, and there is no bot.
Builds(f) ==
  /\ IF f.trigger = "trend_breakout" THEN f.params.period = 0
     ELSE f.params.entry_period = 0 /\ f.params.trend_period = 0
  /\ f.risk = "max_drawdown"

\* Mutant: the research labels' lookback is not asked.
TrailWithoutLabeler(f) == Or(f.exit.trail_period, Or(f.indicators.exit_period,
                                                     Or(f.trail_period, Default.trail)))

TrailPeriod(f) ==
  Or(f.exit.trail_period,
     Or(f.labeler.trail_period,
        Or(f.indicators.exit_period, Or(f.trail_period, Default.trail))))

\* TrailingExitIndicator(...), or donchian_low for a name it does not know.
TrailIndicator(f) ==
  IF f.exit.indicator \in {"donchian_low", "donchian_high", "moving_average"}
  THEN f.exit.indicator ELSE "donchian_low"

IndicatorParams(f) ==
  LET params == TriggerParams(f)
  IN  [entry_period |-> Or(f.indicators.entry_period,
                           Or(params.entry_period, Or(params.period, Default.entry))),
       exit_period  |-> TrailPeriod(f),
       atr_period   |-> Or(f.indicators.atr_period, Default.atr),
       ma_period    |-> Or(params.trend_period, Or(f.indicators.ma_period, Default.ma))]

\* Mutant: the trend filter's lookback is forgotten.
WarmupWithoutTrend(ind) == Longest({ind.entry_period, ind.exit_period})

\* The ATR's lookback is not among them.
WarmupPeriod(ind) == Longest({ind.entry_period, ind.exit_period, ind.ma_period})

build_strategy_from_config(f) ==
  LET ind == IndicatorParams(f)
  IN  [trigger |-> f.trigger, indicators |-> ind, warmup_period |-> WarmupPeriod(ind),
       trailing |-> TrailIndicator(f), hard_stop_mode |-> f.exit.hard_stop_mode,
       sizer |-> f.sizer,
       entry_execution |-> parse_execution_spec(f.entry),
       exit_execution |-> parse_execution_spec(f.exitExecution)]

-----------------------------------------------------------------------------
(***************************************************************************)
(* LiveTurtleBot.__init__() with the flags of main().  The flags become    *)
(* execution specs with from_dict().                                       *)
(***************************************************************************)
FlagsTrend(flags) ==
  IF flags.trigger = "trend_breakout" THEN Or(flags.trend_period, 4 * flags.period) ELSE 0

LiveTurtleBot(flags) ==
  LET trend == FlagsTrend(flags)
  IN  [trigger |-> flags.trigger,
       indicators |-> [entry_period |-> flags.period, exit_period |-> flags.trail_period,
                       atr_period |-> flags.period, ma_period |-> trend],
       warmup_period |-> Longest({flags.period, flags.trail_period, trend}),
       trailing |-> "donchian_low", hard_stop_mode |-> flags.hard_stop_mode,
       sizer |-> "fixed_risk",
       entry_execution |-> from_dict(flags.entry),
       exit_execution |-> from_dict(flags.exitExecution)]

-----------------------------------------------------------------------------
(***************************************************************************)
(* _bot_kwargs_from_yaml(), the settings main() prints beside the file's   *)
(* name before it builds the bot from the same file.                       *)
(***************************************************************************)
BannerPeriod(f) == Or(f.params.entry_period, Default.period)

BannerTrail(f) ==
  Or(f.labeler.trail_period, Or(f.indicators.exit_period, BannerPeriod(f) \div 2))

\* The exit's default differs from the factory's, which gives an exit the entry's.
Banner(f) ==
  [period |-> BannerPeriod(f), trail |-> BannerTrail(f), trend |-> f.params.trend_period,
   entry_execution |-> IF f.entry = NoSection THEN DEFAULT_ENTRY_EXECUTION
                       ELSE from_dict(f.entry),
   exit_execution |-> IF f.exitExecution = NoSection THEN DEFAULT_EXIT_EXECUTION
                      ELSE from_dict(f.exitExecution)]

(***************************************************************************)
(* A start of main(): the settings of the bot that runs, if one does.  The *)
(* flags, or the banner's reader of the file, make the enums first.        *)
(***************************************************************************)
Starts(start) ==
  IF start.source = "flags"
  THEN KnownNames(start.flags.entry) /\ KnownNames(start.flags.exitExecution)
  ELSE /\ KnownNames(start.file.entry) /\ KnownNames(start.file.exitExecution)
       /\ Builds(start.file)

Settings(start) == IF start.source = "flags" THEN LiveTurtleBot(start.flags)
                   ELSE build_strategy_from_config(start.file)

\* The file names the lookback of the exit once: in the labels or the indicators.
NamesTrail(f) ==
  /\ f.exit.trail_period = 0
  /\ f.labeler.trail_period # 0 \/ f.indicators.exit_period # 0
=============================================================================
