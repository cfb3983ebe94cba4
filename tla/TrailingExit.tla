---------------------------- MODULE TrailingExit ----------------------------
(***************************************************************************)
(* A TrailingStop driven by its host, one closed bar at a time, beside the *)
(* research labeler that the stop is meant to reproduce.                   *)
(*                                                                         *)
(* ObserveFirst = FALSE is the order of BinanceLiveExecutor                *)
(* (check_trailing_exit: on_bar, then observe), the one trailing_stop.h    *)
(* asks for.  ObserveFirst = TRUE is the order of MockExecutor             *)
(* (set_market: observe, then check_and_execute_stop: on_bar).             *)
(*                                                                         *)
(* history is every bar since the host started.  trade is the open         *)
(* position, or the last one closed; at = 0 when there was none.           *)
(***************************************************************************)
EXTENDS TrailingStop

CONSTANTS
  BarSet,         \* the bars the market may print
  Period,         \* trailing_exit_period, also add_indicators' exit_period
  ObserveFirst,   \* which host drives the stop
  Modes,          \* the configured trailing indicators
  MaxBars         \* bound: how many bars a behaviour has

ASSUME BarSetAssumption == BarSet \subseteq Bar /\ BarSet # {}
ASSUME PeriodAssumption == Period \in Nat \ {0}
ASSUME HostAssumption   == ObserveFirst \in BOOLEAN
ASSUME ModesAssumption  == Modes \subseteq {"donchian", "moving_average"}
ASSUME BoundAssumption  == MaxBars \in Nat

VARIABLES history, ts, trade
vars == <<history, ts, trade>>

Now == Len(history)

Trade == [at : Nat, side : Sides, hard : Nat, mode : {"donchian", "moving_average"},
          trimmed : BOOLEAN, exitAt : Nat, price : Nat]

NoTrade == [at |-> 0, side |-> 0, hard |-> 0, mode |-> "donchian",
            trimmed |-> FALSE, exitAt |-> 0, price |-> 0]

-----------------------------------------------------------------------------
(***************************************************************************)
(* The research side.  exit_low and exit_high of bar k are the channel of  *)
(* the Period bars before k (rolling(N).min().shift(1)).                   *)
(***************************************************************************)
Previous(k) == (k - Period)..(k - 1)
ExitLow(k) == Min({history[j].low : j \in Previous(k)})
ExitHigh(k) == Max({history[j].high : j \in Previous(k)})

Channel(side, k) == IF side > 0 THEN ExitLow(k) ELSE ExitHigh(k)

\* TrailingExitLabeler: the stop that bar k is tested against, for an event at bar ev.
LabelerStop(ev, side, k) ==
  IF side > 0 THEN Max({ExitLow(j) : j \in ev..(k - 1)})
              ELSE Min({ExitHigh(j) : j \in ev..(k - 1)})

LabelerHits(ev, side) ==
  {k \in (ev + 1)..Now :
     IF side > 0 THEN history[k].low <= LabelerStop(ev, side, k)
                 ELSE history[k].high >= LabelerStop(ev, side, k)}

\* The exit bar of the label, 0 for "still_open".
LabelerExit(ev, side) ==
  IF LabelerHits(ev, side) = {} THEN 0 ELSE Min(LabelerHits(ev, side))

LabelerPrice(ev, side) ==
  LET k == LabelerExit(ev, side)
  IN  IF side > 0 THEN Smaller(history[k].close, LabelerStop(ev, side, k))
                  ELSE Larger(history[k].close, LabelerStop(ev, side, k))

-----------------------------------------------------------------------------
Init == /\ history \in {<<b>> : b \in BarSet}
        /\ ts = Observe(FreshStop, history[1])
        /\ trade = NoTrade

(***************************************************************************)
(* arm_trailing_exit(): the host configures the indicator and, the fill    *)
(* being in, seeds the stop with the order's hard stop.  The risk manager  *)
(* lets no hard stop through that is not on the losing side of the close.  *)
(***************************************************************************)
IndicatorFor(side, mode) ==
  CASE mode = "moving_average" -> "moving_average"
    [] side > 0 /\ mode = "donchian" -> "donchian_low"
    [] OTHER -> "donchian_high"

Enter(side, mode, hard) ==
  /\ ts.side = 0
  /\ Now > Period
  /\ IF side > 0 THEN hard < history[Now].close ELSE hard > history[Now].close
  /\ ts' = OnEntry(Configure(ts, IndicatorFor(side, mode), Period), side, hard)
  /\ trade' = [at |-> Now, side |-> side, hard |-> hard, mode |-> mode,
               trimmed |-> ts.period = Period, exitAt |-> 0, price |-> 0]
  /\ UNCHANGED history

\* The bar's effect on the stop, in the host's order of the two calls.
Step(bar) ==
  IF ObserveFirst THEN AfterBar(Observe(ts, bar), bar)
                  ELSE Observe(AfterBar(ts, bar), bar)

NextBar(bar) ==
  /\ Now < MaxBars
  /\ history' = Append(history, bar)
  /\ ts' = Step(bar)
  /\ trade' = IF Hit(ts, bar)
              THEN [trade EXCEPT !.exitAt = Now + 1, !.price = ExitPrice(ts, bar)]
              ELSE trade

HardStops == {b.low : b \in BarSet} \cup {b.high : b \in BarSet}

Next ==
  \/ \E side \in {-1, 1}, mode \in Modes, hard \in HardStops : Enter(side, mode, hard)
  \/ \E bar \in BarSet : NextBar(bar)

Spec == Init /\ [][Next]_vars

-----------------------------------------------------------------------------
\* Type invariant; a flat stop keeps no level of the position it protected.
TypeOK ==
  /\ history \in Seq(BarSet)
  /\ ts \in Stop
  /\ trade \in Trade
  /\ ts.side = 0 => ts.hard = 0 /\ ts.extreme = 0

(***************************************************************************)
(* The lookback window is the newest end of the history: never a gap, a    *)
(* bar out of order or a bar of another position's life                    *)
(* (trailing_stop.h:16-19, "The window persists across positions").        *)
(***************************************************************************)
WindowIsRecentHistory ==
  /\ Len(ts.window) <= Now
  /\ \A i \in DOMAIN ts.window : ts.window[i] = history[Now - Len(ts.window) + i]
  /\ trade.exitAt # 0 => Len(ts.window) = Period

\* A Donchian trade entered on the channel itself, as the labeler enters.
ChannelTrade ==
  /\ trade.at # 0
  /\ trade.mode = "donchian"
  /\ trade.hard = Channel(trade.side, trade.at)

(***************************************************************************)
(* trailing_stop.h:9, "Semantics match the Python TrailingExitLabeler      *)
(* exactly": the streaming stop leaves a trade on the labeler's exit bar,  *)
(* at its price, and until then stands at the labeler's stop.  Trades      *)
(* opened before the window was ever trimmed are the next property's.      *)
(***************************************************************************)
ParityWithLabeler ==
  ChannelTrade /\ trade.trimmed =>
    /\ trade.exitAt = LabelerExit(trade.at, trade.side)
    /\ trade.exitAt # 0 => trade.price = LabelerPrice(trade.at, trade.side)
    /\ trade.exitAt = 0 => InForce(ts) = LabelerStop(trade.at, trade.side, Now + 1)

(***************************************************************************)
(* The first trade after a start is armed while the window still holds     *)
(* every bar since the start (period_ was 0).  Its first trailing level    *)
(* comes from too long a lookback; that may only ever leave the stop       *)
(* looser than the labeler's, so a label's exit is never later than the    *)
(* engine's.                                                               *)
(***************************************************************************)
NeverExitsBeforeLabeler ==
  ChannelTrade /\ trade.exitAt # 0 =>
    LabelerExit(trade.at, trade.side) \in (trade.at + 1)..trade.exitAt

\* The stop, whatever the indicator, keeps RatchetStop's promise.
Ratchet == INSTANCE RatchetStop WITH side <- ts.side, stop <- InForce(ts),
                                     bar <- history[Now]
RatchetSpec == Ratchet!Spec

=============================================================================
