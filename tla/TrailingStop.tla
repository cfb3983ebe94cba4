---------------------------- MODULE TrailingStop ----------------------------
(***************************************************************************)
(* The C++ class TrailingStop (live_engine/src/core/trailing_stop.cpp) as  *)
(* operators over its private fields.  One instance lives in the backtest  *)
(* MockExecutor and one in the BinanceLiveExecutor; the modules that model *)
(* those hold a record of type Stop and apply these operators to it.       *)
(*                                                                         *)
(* Prices are integers (price ticks); 0 is the code's 0.0, "no price".     *)
(* The three deques lows_, highs_ and closes_ grow and shrink together,    *)
(* so they are one sequence of bars.                                       *)
(***************************************************************************)
EXTENDS Integers, Sequences, FiniteSetsExt

Larger(a, b) == IF a < b THEN b ELSE a      \* std::max
Smaller(a, b) == IF b < a THEN b ELSE a     \* std::min

Indicators == {"none", "donchian_low", "donchian_high", "moving_average"}
Sides == {-1, 0, 1}

\* The bars an exchange can print.
Bar == {b \in [low : Nat \ {0}, high : Nat \ {0}, close : Nat \ {0}] :
          b.low <= b.close /\ b.close <= b.high}

Stop == [side : Sides, hard : Nat, extreme : Nat, indicator : Indicators,
         period : Nat, window : Seq(Bar)]

(***************************************************************************)
(* The constructor's values, configure(), on_entry() and reset().  reset() *)
(* keeps the window, the indicator and the period.                         *)
(***************************************************************************)
FreshStop == [side |-> 0, hard |-> 0, extreme |-> 0, indicator |-> "none",
              period |-> 0, window |-> <<>>]

Configure(ts, indicator, period) ==
  [ts EXCEPT !.indicator = indicator, !.period = period]

OnEntry(ts, side, hard) ==
  [ts EXCEPT !.side = side, !.hard = hard, !.extreme = hard]

ResetSideOnly(ts) == [ts EXCEPT !.side = 0]

Reset(ts) == [ts EXCEPT !.side = 0, !.hard = 0, !.extreme = 0]

(***************************************************************************)
(* observe(): the newest bar enters, the oldest leave once a period is     *)
(* configured.  Before that the window is not trimmed.                     *)
(***************************************************************************)
KeepOldest(window, period) ==
  IF period > 0 /\ Len(window) > period THEN SubSeq(window, 1, period) ELSE window

KeepEverything(window, period) == window

Trimmed(window, period) ==
  IF period > 0 /\ Len(window) > period
  THEN SubSeq(window, Len(window) - period + 1, Len(window))
  ELSE window

Observe(ts, bar) ==
  [ts EXCEPT !.window = Trimmed(Append(ts.window, bar), ts.period)]

(***************************************************************************)
(* trailing_level().  The moving average is a rational number in the code; *)
(* instances whose prices are multiples of the period's divisors make the  *)
(* division exact.                                                         *)
(***************************************************************************)
Lows(window) == {window[i].low : i \in DOMAIN window}
Highs(window) == {window[i].high : i \in DOMAIN window}

CloseSum(window) ==
  LET sum[i \in 0..Len(window)] == IF i = 0 THEN 0 ELSE sum[i - 1] + window[i].close
  IN  sum[Len(window)]

TrailingLevel(ts) ==
  CASE ts.window = <<>> -> 0
    [] ts.indicator = "donchian_low" /\ ts.window # <<>> -> Min(Lows(ts.window))
    [] ts.indicator = "donchian_high" /\ ts.window # <<>> -> Max(Highs(ts.window))
    [] ts.indicator = "moving_average" /\ ts.window # <<>> ->
         CloseSum(ts.window) \div Len(ts.window)
    [] OTHER -> 0

(***************************************************************************)
(* on_bar(): the stop in force, whether the bar reaches it, the price the  *)
(* exit is booked at, and the stop object afterwards.                      *)
(***************************************************************************)
InForceWithNewLevel(ts) ==
  IF ts.side > 0 THEN Larger(ts.extreme, TrailingLevel(ts))
                 ELSE Smaller(ts.extreme, TrailingLevel(ts))

InForce(ts) ==
  IF ts.side > 0 THEN Larger(ts.hard, ts.extreme) ELSE Smaller(ts.hard, ts.extreme)

Hit(ts, bar) ==
  \/ ts.side > 0 /\ bar.low <= InForce(ts)
  \/ ts.side < 0 /\ bar.high >= InForce(ts)

ExitPrice(ts, bar) ==
  IF ts.side > 0 THEN Smaller(bar.close, InForce(ts))
                 ELSE Larger(bar.close, InForce(ts))

FollowLevel(ts) ==
  IF ts.side = 0 THEN ts
  ELSE [ts EXCEPT !.hard = TrailingLevel(ts), !.extreme = TrailingLevel(ts)]

Trailed(ts) ==
  CASE ts.side > 0 -> [ts EXCEPT !.extreme = Larger(ts.extreme, TrailingLevel(ts))]
    [] ts.side < 0 -> [ts EXCEPT !.extreme = Smaller(ts.extreme, TrailingLevel(ts))]
    [] OTHER -> ts

AfterBar(ts, bar) == IF Hit(ts, bar) THEN Reset(ts) ELSE Trailed(ts)

=============================================================================
