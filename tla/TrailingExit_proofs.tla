------------------------- MODULE TrailingExit_proofs -------------------------
(***************************************************************************)
(* Theorems about TrailingExit, for every set of bars, every period, both  *)
(* hosts, every indicator and behaviours of any length: its type           *)
(* correctness, that it implements RatchetStop, and that its window is the *)
(* recent history.                                                         *)
(***************************************************************************)
EXTENDS TrailingExit, TrailingStop_proofs

LEMMA BarSetBar == BarSet \subseteq Bar /\ Seq(BarSet) \subseteq Seq(Bar)
BY BarSetAssumption

LEMMA PeriodNat == Period \in Nat \ {0}
BY PeriodAssumption

\* A bar's effect on a well-typed stop, in either host's order of the calls.
LEMMA StepStop ==
  ASSUME ts \in Stop, NEW bar \in Bar
  PROVE  Step(bar) \in Stop
<1>1. Observe(ts, bar) \in Stop /\ AfterBar(ts, bar) \in Stop
  BY ObserveStop, AfterBarStop
<1>2. AfterBar(Observe(ts, bar), bar) \in Stop /\ Observe(AfterBar(ts, bar), bar) \in Stop
  BY <1>1, ObserveStop, AfterBarStop
<1>3. QED BY <1>2 DEF Step

\* What a bar does to the side and to the stop in force does not depend on the host.
LEMMA StepOutcome ==
  ASSUME ts \in Stop, NEW bar \in Bar
  PROVE  /\ Step(bar).side = AfterBar(ts, bar).side
         /\ Hit(ts, bar) => /\ Step(bar).side = 0 /\ Step(bar).hard = 0
                            /\ Step(bar).extreme = 0
         /\ ~Hit(ts, bar) =>
              /\ Step(bar).side = ts.side
              /\ Step(bar).hard = ts.hard
              /\ ts.side > 0 => InForce(Step(bar)) >= InForce(ts)
              /\ ts.side < 0 => InForce(Step(bar)) <= InForce(ts)
              /\ ts.side = 0 => Step(bar).extreme = ts.extreme
<1> DEFINE seen == Observe(ts, bar)
<1>1. seen \in Stop
  BY ObserveStop
<1>2. /\ seen.side = ts.side /\ seen.hard = ts.hard /\ seen.extreme = ts.extreme
      /\ InForce(seen) = InForce(ts) /\ Hit(seen, bar) = Hit(ts, bar)
  BY ObserveKeepsStop
<1> HIDE DEF seen
<1>3. ASSUME NEW t \in Stop
      PROVE  /\ Reset(t).side = 0 /\ Reset(t).hard = 0 /\ Reset(t).extreme = 0
             /\ Trailed(t).side = t.side /\ Trailed(t).hard = t.hard
             /\ t.side > 0 => InForce(Trailed(t)) >= InForce(t)
             /\ t.side < 0 => InForce(Trailed(t)) <= InForce(t)
             /\ t.side = 0 => Trailed(t).extreme = t.extreme
  <2>1. Reset(t).side = 0 /\ Reset(t).hard = 0 /\ Reset(t).extreme = 0
    BY <1>3 DEF Reset, Stop
  <2>2. Trailed(t).hard = t.hard
    BY <1>3 DEF Trailed, Stop
  <2>3. QED BY <1>3, <2>1, <2>2, TrailsOneWay
<1>4. CASE ObserveFirst
  <2>1. Step(bar) = AfterBar(seen, bar)
    BY <1>4 DEF Step, seen
  <2>2. QED BY <1>1, <1>2, <1>3, <2>1 DEF AfterBar
<1>5. CASE ~ObserveFirst
  <2>1. Step(bar) = Observe(AfterBar(ts, bar), bar)
    BY <1>5 DEF Step
  <2>2. AfterBar(ts, bar) \in Stop
    BY AfterBarStop
  <2>3. /\ Step(bar).side = AfterBar(ts, bar).side
        /\ Step(bar).hard = AfterBar(ts, bar).hard
        /\ Step(bar).extreme = AfterBar(ts, bar).extreme
        /\ InForce(Step(bar)) = InForce(AfterBar(ts, bar))
    BY <2>1, <2>2, ObserveKeepsStop
  <2>4. QED BY <1>3, <2>3 DEF AfterBar
<1>6. QED BY <1>4, <1>5

-----------------------------------------------------------------------------
(***************************************************************************)
(* Type correctness.  The history is never empty, which TypeOK does not    *)
(* say and the step needs.                                                 *)
(***************************************************************************)
Typed == TypeOK /\ history # <<>>

LEMMA HardStopsNat == HardStops \subseteq Nat
<1>1. \A b \in Bar : b.low \in Nat /\ b.high \in Nat
  BY DEF Bar
<1>2. QED BY <1>1, BarSetBar DEF HardStops

\* arm_trailing_exit() leaves a well-typed stop that stands at the order's hard stop.
LEMMA EnterStop ==
  ASSUME ts \in Stop, NEW side \in {-1, 1}, NEW mode, NEW hard \in Nat
  PROVE  LET armed == OnEntry(Configure(ts, IndicatorFor(side, mode), Period), side, hard)
         IN  /\ armed \in Stop
             /\ armed.side = side /\ armed.hard = hard /\ armed.extreme = hard
             /\ armed.period = Period /\ armed.window = ts.window
             /\ InForce(armed) = hard
<1> DEFINE set == Configure(ts, IndicatorFor(side, mode), Period)
           armed == OnEntry(set, side, hard)
<1>1. IndicatorFor(side, mode) \in Indicators
  BY DEF IndicatorFor, Indicators
<1>2. set \in Stop /\ set.period = Period /\ set.window = ts.window
  BY <1>1, PeriodNat DEF Configure, Stop
<1> HIDE DEF set
<1>3. /\ armed \in Stop
      /\ armed.side = side /\ armed.hard = hard /\ armed.extreme = hard
      /\ armed.period = Period /\ armed.window = ts.window
  BY <1>2 DEF OnEntry, Stop, Sides
<1> HIDE DEF armed
<1>4. InForce(armed) = hard
  BY <1>3 DEF InForce, Larger, Smaller
<1>5. QED BY <1>3, <1>4 DEF armed, set

\* exit_price is a price.
LEMMA ExitPriceNat ==
  ASSUME ts \in Stop, NEW bar \in Bar
  PROVE  ExitPrice(ts, bar) \in Nat
<1>1. InForce(ts) \in Nat /\ bar.close \in Nat
  BY InForceNat DEF Bar
<1>2. QED BY <1>1 DEF ExitPrice, Larger, Smaller

LEMMA TypedInit == Init => Typed
<1> SUFFICES ASSUME Init PROVE Typed
  OBVIOUS
<1>1. PICK b \in BarSet : history = <<b>>
  BY DEF Init
<1>2. history \in Seq(BarSet) /\ history # <<>> /\ history[1] = b /\ b \in Bar
  BY <1>1, BarSetBar
<1>3. FreshStop \in Stop
  BY DEF FreshStop, Stop, Sides, Indicators
<1>4. ts \in Stop
  BY <1>2, <1>3, ObserveStop DEF Init
<1>5. ts.hard = 0 /\ ts.extreme = 0
  <2>1. FreshStop.hard = 0 /\ FreshStop.extreme = 0
    BY DEF FreshStop
  <2>2. QED BY <1>2, <1>3, <2>1, ObserveKeepsStop DEF Init
<1>6. trade \in Trade
  BY DEF Init, NoTrade, Trade, Sides
<1>7. QED BY <1>2, <1>4, <1>5, <1>6 DEF Typed, TypeOK

LEMMA TypedStep == Typed /\ [Next]_vars => Typed'
<1> SUFFICES ASSUME Typed, [Next]_vars PROVE Typed'
  OBVIOUS
<1>1. /\ history \in Seq(BarSet) /\ history # <<>> /\ ts \in Stop /\ trade \in Trade
      /\ ts.side = 0 => ts.hard = 0 /\ ts.extreme = 0
  BY DEF Typed, TypeOK
<1>2. ASSUME NEW side \in {-1, 1}, NEW mode \in Modes, NEW hard \in HardStops,
             Enter(side, mode, hard)
      PROVE  Typed'
  <2>1. hard \in Nat /\ mode \in {"donchian", "moving_average"}
    BY HardStopsNat, ModesAssumption
  <2>2. ts' \in Stop /\ ts'.side = side
    BY <1>1, <1>2, <2>1, EnterStop DEF Enter
  <2>3. history' = history
    BY <1>2 DEF Enter
  <2>4. Now \in Nat
    BY <1>1 DEF Now
  <2>5. trade' \in Trade
    BY <1>2, <2>1, <2>4 DEF Enter, Trade, Sides
  <2>6. QED BY <1>1, <2>2, <2>3, <2>5 DEF Typed, TypeOK
<1>3. ASSUME NEW bar \in BarSet, NextBar(bar) PROVE Typed'
  <2>1. bar \in Bar /\ Now \in Nat
    BY <1>1, BarSetBar DEF Now
  <2>2. history' \in Seq(BarSet) /\ history' # <<>>
    BY <1>1, <1>3 DEF NextBar
  <2>3. ts' = Step(bar)
    BY <1>3 DEF NextBar
  <2>4. ts' \in Stop
    BY <1>1, <2>1, <2>3, StepStop
  <2>5. ts'.side = 0 => ts'.hard = 0 /\ ts'.extreme = 0
    BY <1>1, <2>1, <2>3, StepOutcome
  <2>6. trade' \in Trade
    <3>1. ExitPrice(ts, bar) \in Nat
      BY <1>1, <2>1, ExitPriceNat
    <3>2. [trade EXCEPT !.exitAt = Now + 1, !.price = ExitPrice(ts, bar)] \in Trade
      <4>1. Now + 1 \in Nat
        BY <2>1
      <4>2. \A e \in Nat, p \in Nat :
              [trade EXCEPT !.exitAt = e, !.price = p] \in Trade
        BY <1>1 DEF Trade
      <4>3. QED BY <3>1, <4>1, <4>2
    <3>3. QED BY <1>1, <1>3, <3>2 DEF NextBar
  <2>7. QED BY <2>2, <2>4, <2>5, <2>6 DEF Typed, TypeOK
<1>4. CASE UNCHANGED vars
  BY <1>1, <1>4 DEF Typed, TypeOK, vars
<1>5. QED BY <1>2, <1>3, <1>4 DEF Next

(***************************************************************************)
(* Every state has its type: the stop's levels are prices, its window a    *)
(* sequence of bars, and a flat stop keeps no level.                       *)
(***************************************************************************)
THEOREM TypeCorrect == Spec => []TypeOK
<1>1. Typed => TypeOK
  BY DEF Typed
<1>2. QED BY <1>1, TypedInit, TypedStep, PTL DEF Spec

-----------------------------------------------------------------------------
(***************************************************************************)
(* RatchetStop.  The refinement mapping reads the side and the stop in     *)
(* force off the TrailingStop and the bar off the end of the history.      *)
(***************************************************************************)
LEMMA RatchetInit == Init => Ratchet!Init
<1> SUFFICES ASSUME Init PROVE Ratchet!Init
  OBVIOUS
<1>1. PICK b \in BarSet : history = <<b>>
  BY DEF Init
<1>2. history[Now] = b /\ history[1] = b /\ b \in Bar
  BY <1>1, BarSetBar DEF Now
<1>3. FreshStop \in Stop /\ FreshStop.side = 0 /\ InForce(FreshStop) = 0
  BY DEF FreshStop, Stop, Sides, Indicators, InForce, Smaller
<1>4. ts.side = 0 /\ InForce(ts) = 0
  BY <1>2, <1>3, ObserveKeepsStop DEF Init
<1>5. QED BY <1>2, <1>4 DEF Ratchet!Init

LEMMA RatchetStep == Typed /\ [Next]_vars => [Ratchet!Next]_Ratchet!vars
<1> SUFFICES ASSUME Typed, [Next]_vars PROVE [Ratchet!Next]_Ratchet!vars
  OBVIOUS
<1>1. /\ history \in Seq(BarSet) /\ ts \in Stop
      /\ ts.side = 0 => ts.hard = 0 /\ ts.extreme = 0
      /\ ts.side \in Sides
  BY DEF Typed, TypeOK, Stop
<1>2. ASSUME NEW side \in {-1, 1}, NEW mode \in Modes, NEW hard \in HardStops,
             Enter(side, mode, hard)
      PROVE  Ratchet!Open
  <2>1. hard \in Nat
    BY HardStopsNat
  <2>2. ts'.side = side /\ InForce(ts') = hard
    BY <1>1, <1>2, <2>1, EnterStop DEF Enter
  <2>3. ts.side = 0 /\ history' = history
    BY <1>2 DEF Enter
  <2>4. (InForce(ts))' = InForce(ts') /\ (history[Now])' = history[Now]
    BY <2>3 DEF Now, InForce, Larger, Smaller
  <2>5. QED BY <2>1, <2>2, <2>3, <2>4 DEF Ratchet!Open
<1>3. ASSUME NEW bar \in BarSet, NextBar(bar)
      PROVE  Ratchet!Idle \/ Ratchet!Hold \/ Ratchet!Close
  <2>1. bar \in Bar /\ ts' = Step(bar) /\ history' = Append(history, bar)
    BY <1>3, BarSetBar DEF NextBar
  <2>2. (history[Now])' = bar
    BY <1>1, <2>1 DEF Now
  <2>3. (InForce(ts))' = InForce(ts') /\ InForce(ts) \in Nat /\ InForce(ts') \in Nat
    <3>1. ts' \in Stop
      BY <1>1, <2>1, StepStop
    <3>2. QED BY <1>1, <3>1, InForceNat DEF InForce, Larger, Smaller
  <2>4. CASE Hit(ts, bar)
    <3>1. ts.side # 0 /\ Ratchet!Reached(bar)
      BY <2>4 DEF Hit, Ratchet!Reached
    <3>2. ts'.side = 0 /\ ts'.hard = 0 /\ ts'.extreme = 0
      BY <1>1, <2>1, <2>4, StepOutcome
    <3>3. InForce(ts') = 0
      BY <3>2 DEF InForce, Smaller
    <3>4. Ratchet!Close
      BY <2>2, <2>3, <3>1, <3>2, <3>3 DEF Ratchet!Close
    <3>5. QED BY <3>4
  <2>5. CASE ~Hit(ts, bar) /\ ts.side = 0
    <3>1. ts'.side = 0 /\ ts'.hard = ts.hard /\ ts'.extreme = ts.extreme
      BY <1>1, <2>1, <2>5, StepOutcome
    <3>2. InForce(ts') = InForce(ts)
      BY <2>5, <3>1 DEF InForce
    <3>3. Ratchet!Idle
      BY <2>2, <2>3, <2>5, <3>1, <3>2 DEF Ratchet!Idle
    <3>4. QED BY <3>3
  <2>6. CASE ~Hit(ts, bar) /\ ts.side # 0
    <3>1. /\ ts'.side = ts.side
          /\ ts.side > 0 => InForce(ts') >= InForce(ts)
          /\ ts.side < 0 => InForce(ts') <= InForce(ts)
      BY <1>1, <2>1, <2>6, StepOutcome
    <3>2. ~Ratchet!Reached(bar)
      BY <2>6 DEF Hit, Ratchet!Reached
    <3>3. ts.side > 0 \/ ts.side < 0
      BY <1>1, <2>6 DEF Sides
    <3>4. Ratchet!AtLeastAsTight(InForce(ts'))
      BY <3>1, <3>3 DEF Ratchet!AtLeastAsTight
    <3>5. Ratchet!Hold
      BY <2>2, <2>3, <2>6, <3>1, <3>2, <3>4 DEF Ratchet!Hold
    <3>6. QED BY <3>5
  <2>7. QED BY <2>4, <2>5, <2>6
<1>4. CASE UNCHANGED vars
  BY <1>4 DEF vars, Ratchet!vars, InForce, Larger, Smaller, Now
<1>5. QED BY <1>2, <1>3, <1>4 DEF Next, Ratchet!Next

(***************************************************************************)
(* The TrailingStop, whatever its indicator and whichever host drives it,  *)
(* implements RatchetStop: it closes on the first bar that reaches the     *)
(* stop in force, and until then never loosens it.                         *)
(***************************************************************************)
THEOREM ImplementsRatchet == Spec => RatchetSpec
<1>1. Spec => []Typed
  BY TypedInit, TypedStep, PTL DEF Spec
<1>2. QED BY <1>1, RatchetInit, RatchetStep, PTL DEF Spec, RatchetSpec, Ratchet!Spec

-----------------------------------------------------------------------------
(***************************************************************************)
(* The lookback window.  WindowIsRecentHistory is not inductive: that the  *)
(* window has the full period when a trade exits rests on its length while *)
(* the position is open, which rests on the warm-up before the entry.      *)
(***************************************************************************)
Windowed ==
  /\ Typed
  /\ Len(ts.window) <= Now
  /\ \A i \in DOMAIN ts.window : ts.window[i] = history[Now - Len(ts.window) + i]
  /\ ts.period \in {0, Period}
  /\ ts.period = 0 => ts.side = 0 /\ Len(ts.window) = Now
  /\ ts.period # 0 => Len(ts.window) >= Period
  /\ trade.exitAt # 0 => ts.period # 0 /\ Len(ts.window) = Period

\* In either order, a bar goes through the window once and leaves the period alone.
LEMMA StepWindow ==
  ASSUME ts \in Stop, NEW bar \in Bar
  PROVE  /\ Step(bar).window = Trimmed(Append(ts.window, bar), ts.period)
         /\ Step(bar).period = ts.period
<1>1. ASSUME NEW t \in Stop
      PROVE  /\ Observe(t, bar) \in Stop
             /\ Observe(t, bar).window = Trimmed(Append(t.window, bar), t.period)
             /\ Observe(t, bar).period = t.period
  BY ObserveStop, ObserveKeepsStop DEF Observe, Stop
<1>2. ASSUME NEW t \in Stop
      PROVE  /\ AfterBar(t, bar) \in Stop
             /\ AfterBar(t, bar).window = t.window
             /\ AfterBar(t, bar).period = t.period
  <2>1. Reset(t).window = t.window /\ Reset(t).period = t.period
    BY DEF Reset, Stop
  <2>2. Trailed(t).window = t.window /\ Trailed(t).period = t.period
    BY DEF Trailed, Stop
  <2>3. QED BY <2>1, <2>2, AfterBarStop DEF AfterBar
<1>3. QED BY <1>1, <1>2 DEF Step

\* A bar appended to a window that is the newest end of the history leaves it so.
LEMMA NewestEndGrows ==
  ASSUME NEW w \in Seq(Bar), NEW h \in Seq(Bar), NEW bar \in Bar, NEW p \in Nat,
         Len(w) <= Len(h),
         \A i \in DOMAIN w : w[i] = h[Len(h) - Len(w) + i]
  PROVE  LET w2 == Trimmed(Append(w, bar), p)
             h2 == Append(h, bar)
         IN  /\ Len(w2) <= Len(h2)
             /\ \A i \in DOMAIN w2 : w2[i] = h2[Len(h2) - Len(w2) + i]
<1> DEFINE a  == Append(w, bar)
           w2 == Trimmed(a, p)
           h2 == Append(h, bar)
<1>1. a \in Seq(Bar) /\ Len(a) = Len(w) + 1 /\ Len(h2) = Len(h) + 1
  OBVIOUS
<1>2. \A j \in 1..Len(a) : a[j] = h2[Len(h2) - Len(a) + j]
  <2> SUFFICES ASSUME NEW j \in 1..Len(a) PROVE a[j] = h2[Len(h2) - Len(a) + j]
    OBVIOUS
  <2>1. CASE j = Len(w) + 1
    BY <1>1, <2>1
  <2>2. CASE j \in 1..Len(w)
    <3> DEFINE k == Len(h) - Len(w) + j
    <3>1. a[j] = w[j] /\ w[j] = h[k]
      BY <2>2
    <3>2. k \in 1..Len(h)
      BY <2>2
    <3>3. h2[k] = h[k]
      BY <3>2
    <3>4. Len(h2) - Len(a) + j = k
      BY <1>1, <2>2
    <3>5. QED BY <3>1, <3>3, <3>4
  <2>3. QED BY <1>1, <2>1, <2>2
<1> HIDE DEF a
<1>3. /\ w2 \in Seq(Bar) /\ Len(w2) <= Len(a)
      /\ \A i \in 1..Len(w2) : w2[i] = a[Len(a) - Len(w2) + i]
  <2>1. Len(w2) = IF p > 0 /\ Len(a) > p THEN p ELSE Len(a)
    BY <1>1, TrimmedIsNewestEnd
  <2>2. \A i \in 1..Len(w2) : w2[i] = a[Len(a) - Len(w2) + i]
    BY <1>1, TrimmedIsNewestEnd
  <2>3. w2 \in Seq(Bar)
    BY <1>1, TrimmedIsNewestEnd
  <2> HIDE DEF w2
  <2>4. Len(w2) <= Len(a)
    <3>1. Len(a) \in Nat
      BY <1>1
    <3>2. QED BY <2>1, <3>1
  <2>5. QED BY <2>2, <2>3, <2>4
<1> HIDE DEF w2
<1>4. ASSUME NEW i \in 1..Len(w2) PROVE w2[i] = h2[Len(h2) - Len(w2) + i]
  <2>1. Len(a) - Len(w2) + i \in 1..Len(a)
    BY <1>1, <1>3
  <2>2. Len(h2) - Len(a) + (Len(a) - Len(w2) + i) = Len(h2) - Len(w2) + i
    BY <1>1, <1>3
  <2>3. QED BY <1>2, <1>3, <2>1, <2>2
<1>5. Len(w2) <= Len(h2)
  BY <1>1, <1>3
<1>6. DOMAIN w2 = 1..Len(w2)
  BY <1>3
<1>7. QED BY <1>4, <1>5, <1>6 DEF w2, a

LEMMA WindowedInit == Init => Windowed
<1> SUFFICES ASSUME Init PROVE Windowed
  OBVIOUS
<1>1. PICK b \in BarSet : history = <<b>>
  BY DEF Init
<1>2. b \in Bar /\ history[1] = b /\ Now = 1
  BY <1>1, BarSetBar DEF Now
<1>3. /\ FreshStop \in Stop /\ FreshStop.window = <<>> /\ FreshStop.period = 0
      /\ FreshStop.side = 0
  BY DEF FreshStop, Stop, Sides, Indicators
<1>4. ts = Observe(FreshStop, b)
  BY <1>2 DEF Init
<1>5. ts.period = 0 /\ ts.side = 0
  BY <1>2, <1>3, <1>4, ObserveKeepsStop
<1>6. ts.window = <<b>>
  <2>1. ts.window = Trimmed(Append(<<>>, b), 0)
    BY <1>3, <1>4 DEF Observe, Stop
  <2>2. QED BY <2>1 DEF Trimmed
<1>7. trade.exitAt = 0
  BY DEF Init, NoTrade
<1>8. QED BY <1>1, <1>2, <1>5, <1>6, <1>7, TypedInit DEF Windowed

LEMMA WindowedStep == Windowed /\ [Next]_vars => Windowed'
<1> SUFFICES ASSUME Windowed, [Next]_vars PROVE Windowed'
  OBVIOUS
<1>1. Typed' /\ history \in Seq(BarSet) /\ history \in Seq(Bar) /\ ts \in Stop
  BY TypedStep, BarSetBar DEF Windowed, Typed, TypeOK
<1>2. ts.window \in Seq(Bar) /\ ts.period \in Nat /\ Now \in Nat /\ trade \in Trade
  BY <1>1 DEF Stop, Now, Windowed, Typed, TypeOK
<1>3. ASSUME NEW side \in {-1, 1}, NEW mode \in Modes, NEW hard \in HardStops,
             Enter(side, mode, hard)
      PROVE  Windowed'
  <2>1. hard \in Nat /\ Period # 0
    BY HardStopsNat, PeriodNat
  <2>2. ts'.window = ts.window /\ ts'.period = Period
    BY <1>1, <1>3, <2>1, EnterStop DEF Enter
  <2>3. history' = history /\ Now' = Now /\ Now > Period
    BY <1>3 DEF Enter, Now
  <2>4. trade'.exitAt = 0
    BY <1>3 DEF Enter
  <2>5. Len(ts.window) >= Period
    BY <1>2, <2>3, PeriodNat DEF Windowed
  <2>6. QED BY <1>1, <2>1, <2>2, <2>3, <2>4, <2>5 DEF Windowed
<1>4. ASSUME NEW bar \in BarSet, NextBar(bar) PROVE Windowed'
  <2>1. bar \in Bar /\ history' = Append(history, bar) /\ ts' = Step(bar)
    BY <1>4, BarSetBar DEF NextBar
  <2>2. /\ ts'.window = Trimmed(Append(ts.window, bar), ts.period)
        /\ ts'.period = ts.period
    BY <1>1, <2>1, StepWindow
  <2>3. /\ Len(ts'.window) <= Now'
        /\ \A i \in DOMAIN ts'.window : ts'.window[i] = history'[Now' - Len(ts'.window) + i]
    <3>1. /\ Len(ts.window) <= Len(history)
          /\ \A i \in DOMAIN ts.window :
               ts.window[i] = history[Len(history) - Len(ts.window) + i]
      BY DEF Windowed, Now
    <3> DEFINE w2 == Trimmed(Append(ts.window, bar), ts.period)
               h2 == Append(history, bar)
    <3>2. /\ Len(w2) <= Len(h2)
          /\ \A i \in DOMAIN w2 : w2[i] = h2[Len(h2) - Len(w2) + i]
      BY <1>1, <1>2, <2>1, <3>1, NewestEndGrows
    <3>3. Now' = Len(history') /\ history' = h2 /\ ts'.window = w2
      BY <2>1, <2>2 DEF Now
    <3> HIDE DEF w2, h2
    <3>4. QED BY <3>2, <3>3
  <2>4. /\ Len(ts'.window) = IF ts.period > 0 /\ Len(ts.window) + 1 > ts.period
                             THEN ts.period ELSE Len(ts.window) + 1
        /\ Now' = Now + 1
    <3>1. Append(ts.window, bar) \in Seq(Bar)
          /\ Len(Append(ts.window, bar)) = Len(ts.window) + 1
      BY <1>2, <2>1
    <3>2. Len(ts'.window) = IF ts.period > 0 /\ Len(Append(ts.window, bar)) > ts.period
                            THEN ts.period ELSE Len(Append(ts.window, bar))
      BY <1>2, <2>2, <3>1, TrimmedIsNewestEnd
    <3>3. Now' = Now + 1
      BY <1>1, <2>1 DEF Now
    <3>4. QED BY <3>1, <3>2, <3>3
  <2>5. CASE ts.period = 0
    <3>1. ts.side = 0 /\ ~Hit(ts, bar)
      BY <2>5 DEF Windowed, Hit
    <3>2. ts'.side = 0
      BY <1>1, <2>1, <3>1, StepOutcome
    <3>3. trade' = trade /\ trade.exitAt = 0
      BY <1>4, <2>5, <3>1 DEF NextBar, Windowed
    <3>4. Len(ts'.window) = Now'
      BY <1>2, <2>4, <2>5 DEF Windowed
    <3>5. QED BY <1>1, <2>2, <2>3, <2>5, <3>2, <3>3, <3>4 DEF Windowed
  <2>6. CASE ts.period # 0
    <3>1. ts.period = Period /\ Len(ts.window) >= Period
      BY <2>6 DEF Windowed
    <3>2. Len(ts'.window) = Period
      BY <1>2, <2>4, <3>1, PeriodNat
    <3>3. QED BY <1>1, <2>2, <2>3, <2>6, <3>1, <3>2, PeriodNat DEF Windowed
  <2>7. QED BY <2>5, <2>6
<1>5. CASE UNCHANGED vars
  BY <1>1, <1>5 DEF Windowed, vars, Now
<1>6. QED BY <1>3, <1>4, <1>5 DEF Next

(***************************************************************************)
(* The window is at all times the newest end of the history, with no gap,  *)
(* no bar out of order and, once a trade is over, exactly one period long: *)
(* closing a position never costs the next one its lookback.               *)
(***************************************************************************)
THEOREM WindowCorrect == Spec => []WindowIsRecentHistory
<1>1. Windowed => WindowIsRecentHistory
  BY DEF Windowed, WindowIsRecentHistory
<1>2. QED BY <1>1, WindowedInit, WindowedStep, PTL DEF Spec

-----------------------------------------------------------------------------
(***************************************************************************)
(* Parity with the labeler, for the host that tests a bar before it shows  *)
(* it to the stop.  The facts below say what the channel and the labeler's *)
(* stop are: extremes that exist, that new bars leave alone, and that grow *)
(* by one channel value a bar.                                             *)
(***************************************************************************)
LEMMA MaxIs ==
  ASSUME NEW S, S \subseteq Nat, NEW x \in S, \A y \in S : y <= x
  PROVE  Max(S) = x
<1>1. \E m \in S : \A y \in S : m >= y
  OBVIOUS
<1>2. Max(S) \in S /\ \A y \in S : Max(S) >= y
  BY <1>1 DEF Max
<1>3. Max(S) \in Nat /\ x \in Nat /\ Max(S) <= x /\ x <= Max(S)
  BY <1>2
<1>4. QED BY <1>3

LEMMA MinIs ==
  ASSUME NEW S, S \subseteq Nat, NEW x \in S, \A y \in S : x <= y
  PROVE  Min(S) = x
<1>1. Min(S) \in S /\ \A y \in S : Min(S) <= y
  BY MinIsLeast
<1>2. Min(S) \in Nat /\ x \in Nat /\ Min(S) <= x /\ x <= Min(S)
  BY <1>1
<1>3. QED BY <1>2

\* The values a function takes on an interval have a least and a greatest one.
Values(f, a, b) == {f[j] : j \in a..b}

LEMMA ExtremesOnInterval ==
  ASSUME NEW a \in Nat, NEW b \in Nat, a <= b, NEW f, \A j \in a..b : f[j] \in Nat
  PROVE  /\ Min(Values(f, a, b)) \in Values(f, a, b)
         /\ \A j \in a..b : Min(Values(f, a, b)) <= f[j]
         /\ Max(Values(f, a, b)) \in Values(f, a, b)
         /\ \A j \in a..b : f[j] <= Max(Values(f, a, b))
<1> DEFINE S == Values(f, a, b)
           n == b - a + 1
           h == [i \in 1..n |-> f[a + i - 1]]
<1>1. S \subseteq Nat /\ S # {} /\ \A j \in a..b : f[j] \in S
  <2>1. a \in a..b
    OBVIOUS
  <2>2. QED BY <2>1 DEF Values
<1>2. Min(S) \in S /\ \A y \in S : Min(S) <= y
  <2> HIDE DEF S
  <2>1. QED BY <1>1, MinIsLeast
<1>3. n \in Nat /\ n \in 1..n /\ h \in [1..n -> Nat]
  <2>1. \A i \in 1..n : a + i - 1 \in a..b
    OBVIOUS
  <2>2. QED BY <2>1
<1>4. PICK k \in 1..n : \A i \in 1..n : h[i] <= h[k]
  <2> HIDE DEF n, h
  <2>1. QED BY <1>3, GreatestValue
<1>5. ASSUME NEW j \in a..b PROVE f[j] <= f[a + k - 1]
  <2>1. j - a + 1 \in 1..n /\ a + (j - a + 1) - 1 = j
    OBVIOUS
  <2>2. h[j - a + 1] = f[j] /\ h[k] = f[a + k - 1]
    BY <2>1
  <2>3. QED BY <1>4, <2>1, <2>2
<1>6. f[a + k - 1] \in S /\ \A y \in S : y <= f[a + k - 1]
  <2>1. a + k - 1 \in a..b
    OBVIOUS
  <2>2. QED BY <1>5, <2>1 DEF Values
<1>7. Max(S) = f[a + k - 1]
  <2> HIDE DEF S
  <2>1. QED BY <1>1, <1>6, MaxIs
<1>8. QED BY <1>1, <1>2, <1>5, <1>6, <1>7

\* Channel values are prices, and they bound the bars they are taken over.
LEMMA ChannelIsExtreme ==
  ASSUME history \in Seq(Bar), NEW k \in (Period + 1)..(Now + 1)
  PROVE  /\ Previous(k) \subseteq 1..Now
         /\ ExitLow(k) \in {history[j].low : j \in Previous(k)}
         /\ \A j \in Previous(k) : ExitLow(k) <= history[j].low
         /\ ExitHigh(k) \in {history[j].high : j \in Previous(k)}
         /\ \A j \in Previous(k) : history[j].high <= ExitHigh(k)
         /\ ExitLow(k) \in Nat /\ ExitHigh(k) \in Nat
<1> DEFINE a == k - Period
           b == k - 1
           low == [j \in 1..Now |-> history[j].low]
           high == [j \in 1..Now |-> history[j].high]
<1>1. Now \in Nat /\ Now = Len(history) /\ Period \in Nat \ {0}
  BY PeriodNat DEF Now
<1>2. a \in Nat /\ b \in Nat /\ a <= b /\ \A j \in a..b : j \in 1..Now
  BY <1>1
<1>3. \A j \in 1..Now : history[j].low \in Nat /\ history[j].high \in Nat
  <2>1. \A j \in 1..Now : history[j] \in Bar
    BY <1>1
  <2>2. \A x \in Bar : x.low \in Nat /\ x.high \in Nat
    BY DEF Bar
  <2>3. QED BY <2>1, <2>2
<1>4. Previous(k) = a..b
  BY DEF Previous
<1>5. \A j \in a..b : /\ low[j] = history[j].low /\ low[j] \in Nat
                      /\ high[j] = history[j].high /\ high[j] \in Nat
  BY <1>2, <1>3
<1> HIDE DEF a, b, low, high
<1>6. /\ Values(low, a, b) = {history[j].low : j \in a..b}
      /\ Values(high, a, b) = {history[j].high : j \in a..b}
  BY <1>5 DEF Values
<1>7. /\ Min(Values(low, a, b)) \in Values(low, a, b)
      /\ \A j \in a..b : Min(Values(low, a, b)) <= low[j]
  BY <1>2, <1>5, ExtremesOnInterval
<1>8. /\ Max(Values(high, a, b)) \in Values(high, a, b)
      /\ \A j \in a..b : high[j] <= Max(Values(high, a, b))
  BY <1>2, <1>5, ExtremesOnInterval
<1>9. /\ ExitLow(k) = Min(Values(low, a, b))
      /\ ExitHigh(k) = Max(Values(high, a, b))
  BY <1>4, <1>6 DEF ExitLow, ExitHigh
<1>10. ExitLow(k) \in Nat /\ ExitHigh(k) \in Nat
  BY <1>5, <1>6, <1>7, <1>8, <1>9
<1>11. QED BY <1>2, <1>4, <1>5, <1>6, <1>7, <1>8, <1>9, <1>10

\* A new bar changes no channel value that was already defined, nor an old bar.
LEMMA ChannelKept ==
  ASSUME history \in Seq(Bar), NEW bar \in Bar, history' = Append(history, bar)
  PROVE  /\ Now' = Now + 1 /\ Now \in Nat /\ history'[Now + 1] = bar
         /\ \A j \in 1..Now : history'[j] = history[j]
         /\ \A k \in (Period + 1)..(Now + 1) :
              ExitLow(k)' = ExitLow(k) /\ ExitHigh(k)' = ExitHigh(k)
<1>1. Now' = Now + 1 /\ Now \in Nat /\ history'[Now + 1] = bar
  BY DEF Now
<1>2. \A j \in 1..Now : history'[j] = history[j]
  BY DEF Now
<1>3. ASSUME NEW k \in (Period + 1)..(Now + 1)
      PROVE  ExitLow(k)' = ExitLow(k) /\ ExitHigh(k)' = ExitHigh(k)
  <2>1. \A j \in Previous(k) : history'[j] = history[j]
    BY <1>2, ChannelIsExtreme
  <2>2. /\ {history'[j].low : j \in Previous(k)} = {history[j].low : j \in Previous(k)}
        /\ {history'[j].high : j \in Previous(k)} = {history[j].high : j \in Previous(k)}
    BY <2>1
  <2>3. QED BY <2>2 DEF ExitLow, ExitHigh, Previous
<1>4. QED BY <1>1, <1>2, <1>3

(***************************************************************************)
(* The labeler's stop for bar k is the tightest channel value of the bars  *)
(* from the event on.                                                      *)
(***************************************************************************)
LEMMA LabelerStopIsTightest ==
  ASSUME history \in Seq(Bar), NEW ev \in (Period + 1)..Now, NEW side,
         NEW k \in (ev + 1)..(Now + 1)
  PROVE  /\ LabelerStop(ev, side, k) \in Nat
         /\ side > 0 =>
              /\ LabelerStop(ev, side, k) \in {ExitLow(j) : j \in ev..(k - 1)}
              /\ \A j \in ev..(k - 1) : ExitLow(j) <= LabelerStop(ev, side, k)
         /\ ~(side > 0) =>
              /\ LabelerStop(ev, side, k) \in {ExitHigh(j) : j \in ev..(k - 1)}
              /\ \A j \in ev..(k - 1) : LabelerStop(ev, side, k) <= ExitHigh(j)
<1> DEFINE b == k - 1
           low == [j \in ev..b |-> ExitLow(j)]
           high == [j \in ev..b |-> ExitHigh(j)]
<1>1. Now \in Nat /\ Period \in Nat \ {0}
  BY PeriodNat DEF Now
<1>2. ev \in Nat /\ b \in Nat /\ ev <= b /\ \A j \in ev..b : j \in (Period + 1)..(Now + 1)
  BY <1>1
<1>3. \A j \in ev..b : ExitLow(j) \in Nat /\ ExitHigh(j) \in Nat
  BY <1>2, ChannelIsExtreme
<1>4. \A j \in ev..b : /\ low[j] = ExitLow(j) /\ low[j] \in Nat
                       /\ high[j] = ExitHigh(j) /\ high[j] \in Nat
  BY <1>3
<1> HIDE DEF low, high
<1>5. /\ Values(low, ev, b) = {ExitLow(j) : j \in ev..b}
      /\ Values(high, ev, b) = {ExitHigh(j) : j \in ev..b}
  BY <1>4 DEF Values
<1>6. /\ Max(Values(low, ev, b)) \in Values(low, ev, b)
      /\ \A j \in ev..b : low[j] <= Max(Values(low, ev, b))
      /\ Min(Values(high, ev, b)) \in Values(high, ev, b)
      /\ \A j \in ev..b : Min(Values(high, ev, b)) <= high[j]
  <2> HIDE DEF b
  <2>1. QED BY <1>2, <1>4, ExtremesOnInterval
<1>7. LabelerStop(ev, side, k) = IF side > 0 THEN Max(Values(low, ev, b))
                                             ELSE Min(Values(high, ev, b))
  BY <1>5 DEF LabelerStop
<1> HIDE DEF b
<1>8. QED BY <1>4, <1>5, <1>6, <1>7 DEF b

\* At the bar after the event the stop is the channel of the event's own bar.
LEMMA LabelerStopStarts ==
  ASSUME history \in Seq(Bar), NEW ev \in (Period + 1)..Now, NEW side
  PROVE  LabelerStop(ev, side, ev + 1) = Channel(side, ev)
<1>1. Now \in Nat /\ Period \in Nat \ {0}
  BY PeriodNat DEF Now
<1>2. ev + 1 \in (ev + 1)..(Now + 1) /\ ev..((ev + 1) - 1) = {ev}
  BY <1>1
<1>3. /\ side > 0 => LabelerStop(ev, side, ev + 1) \in {ExitLow(j) : j \in {ev}}
      /\ ~(side > 0) => LabelerStop(ev, side, ev + 1) \in {ExitHigh(j) : j \in {ev}}
  BY <1>2, LabelerStopIsTightest
<1>4. QED BY <1>3 DEF Channel

\* Each bar tightens it to the bar's own channel, where that is tighter.
LEMMA LabelerStopGrows ==
  ASSUME history \in Seq(Bar), NEW ev \in (Period + 1)..Now, NEW side,
         NEW k \in (ev + 1)..Now
  PROVE  LabelerStop(ev, side, k + 1) =
           IF side > 0 THEN Larger(LabelerStop(ev, side, k), ExitLow(k))
                       ELSE Smaller(LabelerStop(ev, side, k), ExitHigh(k))
<1> DEFINE old == LabelerStop(ev, side, k)
           new == LabelerStop(ev, side, k + 1)
<1>1. /\ Now \in Nat /\ Period \in Nat \ {0}
      /\ k \in (ev + 1)..(Now + 1) /\ k + 1 \in (ev + 1)..(Now + 1)
      /\ k \in (Period + 1)..(Now + 1)
      /\ \A j : j \in ev..((k + 1) - 1) <=> j \in ev..(k - 1) \/ j = k
  BY PeriodNat DEF Now
<1>2. ExitLow(k) \in Nat /\ ExitHigh(k) \in Nat
  BY <1>1, ChannelIsExtreme
<1>3. /\ old \in Nat
      /\ side > 0 => /\ \E j \in ev..(k - 1) : old = ExitLow(j)
                     /\ \A j \in ev..(k - 1) : ExitLow(j) <= old
      /\ ~(side > 0) => /\ \E j \in ev..(k - 1) : old = ExitHigh(j)
                        /\ \A j \in ev..(k - 1) : old <= ExitHigh(j)
  BY <1>1, LabelerStopIsTightest
<1>4. /\ new \in Nat
      /\ side > 0 => /\ \E j \in ev..((k + 1) - 1) : new = ExitLow(j)
                     /\ \A j \in ev..((k + 1) - 1) : ExitLow(j) <= new
      /\ ~(side > 0) => /\ \E j \in ev..((k + 1) - 1) : new = ExitHigh(j)
                        /\ \A j \in ev..((k + 1) - 1) : new <= ExitHigh(j)
  BY <1>1, LabelerStopIsTightest
<1> HIDE DEF old, new
<1>5. CASE side > 0
  <2>1. old <= new /\ ExitLow(k) <= new
    BY <1>1, <1>3, <1>4, <1>5
  <2>2. new = ExitLow(k) \/ new <= old
    BY <1>1, <1>3, <1>4, <1>5
  <2>3. new = Larger(old, ExitLow(k))
    BY <1>2, <1>3, <1>4, <2>1, <2>2 DEF Larger
  <2>4. QED BY <1>5, <2>3 DEF old, new
<1>6. CASE ~(side > 0)
  <2>1. new <= old /\ new <= ExitHigh(k)
    BY <1>1, <1>3, <1>4, <1>6
  <2>2. new = ExitHigh(k) \/ old <= new
    BY <1>1, <1>3, <1>4, <1>6
  <2>3. new = Smaller(old, ExitHigh(k))
    BY <1>2, <1>3, <1>4, <2>1, <2>2 DEF Smaller
  <2>4. QED BY <1>6, <2>3 DEF old, new
<1>7. QED BY <1>5, <1>6

\* The same of the state that a step leads to.
LEMMA LabelerStopGrowsNext ==
  ASSUME NEW ev, NEW side, NEW k
  PROVE  (history \in Seq(Bar) /\ ev \in (Period + 1)..Now /\ k \in (ev + 1)..Now =>
            LabelerStop(ev, side, k + 1) =
              IF side > 0 THEN Larger(LabelerStop(ev, side, k), ExitLow(k))
                          ELSE Smaller(LabelerStop(ev, side, k), ExitHigh(k)))'
<1>1. history \in Seq(Bar) /\ ev \in (Period + 1)..Now /\ k \in (ev + 1)..Now =>
        LabelerStop(ev, side, k + 1) =
          IF side > 0 THEN Larger(LabelerStop(ev, side, k), ExitLow(k))
                      ELSE Smaller(LabelerStop(ev, side, k), ExitHigh(k))
  BY LabelerStopGrows
<1>2. QED BY <1>1, PTL

(***************************************************************************)
(* The trailing level against the channel of the next bar: equal to it     *)
(* when the window holds one period, and never tighter when, before the    *)
(* first trade, it holds more.                                             *)
(***************************************************************************)
LEMMA LevelAgainstChannel ==
  ASSUME Windowed, Len(ts.window) >= Period
  PROVE  /\ Now + 1 \in (Period + 1)..(Now + 1)
         /\ Min(Lows(ts.window)) <= ExitLow(Now + 1)
         /\ ExitHigh(Now + 1) <= Max(Highs(ts.window))
         /\ Len(ts.window) = Period => /\ Min(Lows(ts.window)) = ExitLow(Now + 1)
                                       /\ Max(Highs(ts.window)) = ExitHigh(Now + 1)
<1> DEFINE w == ts.window
<1>1. /\ history \in Seq(Bar) /\ w \in Seq(Bar) /\ Len(w) \in Nat /\ Len(w) >= Period
      /\ Now \in Nat /\ Len(w) <= Now /\ Period \in Nat \ {0}
      /\ \A i \in 1..Len(w) : w[i] = history[Now - Len(w) + i]
  BY BarSetBar, PeriodNat DEF Windowed, Typed, TypeOK, Stop, Now
<1> HIDE DEF w
<1>2. w # <<>> /\ Now + 1 \in (Period + 1)..(Now + 1)
  BY <1>1
<1>3. Previous(Now + 1) = (Now + 1 - Period)..Now
  BY <1>1 DEF Previous
<1>4. \A j \in Previous(Now + 1) : \E i \in 1..Len(w) : w[i] = history[j]
  <2> SUFFICES ASSUME NEW j \in Previous(Now + 1)
               PROVE  \E i \in 1..Len(w) : w[i] = history[j]
    OBVIOUS
  <2>1. j - (Now - Len(w)) \in 1..Len(w) /\ Now - Len(w) + (j - (Now - Len(w))) = j
    BY <1>1, <1>3
  <2>2. QED BY <1>1, <2>1
<1>5. /\ Min(Lows(w)) \in Nat /\ Max(Highs(w)) \in Nat
      /\ \A i \in 1..Len(w) : Min(Lows(w)) <= w[i].low /\ w[i].high <= Max(Highs(w))
  BY <1>1, <1>2, LowestLow, HighestHigh
<1>6. /\ \E j \in Previous(Now + 1) : ExitLow(Now + 1) = history[j].low
      /\ \E j \in Previous(Now + 1) : ExitHigh(Now + 1) = history[j].high
  BY <1>1, <1>2, ChannelIsExtreme
<1>7. Min(Lows(w)) <= ExitLow(Now + 1) /\ ExitHigh(Now + 1) <= Max(Highs(w))
  BY <1>4, <1>5, <1>6
<1>8. ASSUME Len(w) = Period
      PROVE  Min(Lows(w)) = ExitLow(Now + 1) /\ Max(Highs(w)) = ExitHigh(Now + 1)
  <2>1. \A i \in 1..Len(w) : \E j \in Previous(Now + 1) : w[i] = history[j]
    <3> SUFFICES ASSUME NEW i \in 1..Len(w)
                 PROVE  \E j \in Previous(Now + 1) : w[i] = history[j]
      OBVIOUS
    <3>1. Now - Len(w) + i \in Previous(Now + 1)
      BY <1>1, <1>3, <1>8
    <3>2. QED BY <1>1, <3>1
  <2>2. Lows(w) = {history[j].low : j \in Previous(Now + 1)}
    <3>1. DOMAIN w = 1..Len(w)
      BY <1>1
    <3>2. \A x \in Lows(w) : x \in {history[j].low : j \in Previous(Now + 1)}
      BY <2>1, <3>1 DEF Lows
    <3>3. \A x \in {history[j].low : j \in Previous(Now + 1)} : x \in Lows(w)
      BY <1>4, <3>1 DEF Lows
    <3>4. QED BY <3>2, <3>3
  <2>3. Highs(w) = {history[j].high : j \in Previous(Now + 1)}
    <3>1. DOMAIN w = 1..Len(w)
      BY <1>1
    <3>2. \A x \in Highs(w) : x \in {history[j].high : j \in Previous(Now + 1)}
      BY <2>1, <3>1 DEF Highs
    <3>3. \A x \in {history[j].high : j \in Previous(Now + 1)} : x \in Highs(w)
      BY <1>4, <3>1 DEF Highs
    <3>4. QED BY <3>2, <3>3
  <2>4. QED BY <2>2, <2>3 DEF ExitLow, ExitHigh
<1>9. QED BY <1>2, <1>7, <1>8 DEF w

(***************************************************************************)
(* The inductive invariant.  Reaches is the labeler's test of one bar.     *)
(* Tracks ties the trade to the stop that guards it; Shadows places the    *)
(* stop of an open channel trade relative to the labeler's; Settled says   *)
(* of a closed one that its exit bar was the labeler's too, at its price.  *)
(***************************************************************************)
Reaches(ev, side, k) ==
  IF side > 0 THEN history[k].low <= LabelerStop(ev, side, k)
              ELSE history[k].high >= LabelerStop(ev, side, k)

Tracks ==
  /\ ts.side # 0 <=> trade.at # 0 /\ trade.exitAt = 0
  /\ ts.side = 0 /\ ts.period # 0 => trade.exitAt # 0
  /\ trade.at # 0 => trade.side \in {-1, 1} /\ trade.at \in (Period + 1)..Now
  /\ trade.exitAt # 0 => trade.at # 0 /\ trade.exitAt \in (trade.at + 1)..Now
  /\ ts.side # 0 => /\ ts.side = trade.side
                    /\ ts.indicator = IndicatorFor(trade.side, trade.mode)
                    /\ ts.period = Period
                    /\ trade.trimmed => Len(ts.window) = Period

\* The stop of a trade entered at bar ev is as loose as the labeler's or looser.
Shadows(ev, side, trimmed) ==
  /\ side > 0 => InForce(ts) <= LabelerStop(ev, side, Now + 1)
  /\ side < 0 => InForce(ts) >= LabelerStop(ev, side, Now + 1)
  /\ trimmed => /\ InForce(ts) = LabelerStop(ev, side, Now + 1)
                /\ \A k \in (ev + 1)..Now : ~Reaches(ev, side, k)

BookedPrice(ev, side, k) ==
  IF side > 0 THEN Smaller(history[k].close, LabelerStop(ev, side, k))
              ELSE Larger(history[k].close, LabelerStop(ev, side, k))

Settled(ev, side, trimmed, exitAt, price) ==
  /\ Reaches(ev, side, exitAt)
  /\ trimmed => /\ price = BookedPrice(ev, side, exitAt)
                /\ \A k \in (ev + 1)..(exitAt - 1) : ~Reaches(ev, side, k)

Shadowing ==
  /\ Windowed
  /\ Tracks
  /\ ChannelTrade /\ trade.exitAt = 0 => Shadows(trade.at, trade.side, trade.trimmed)
  /\ ChannelTrade /\ trade.exitAt # 0 =>
       Settled(trade.at, trade.side, trade.trimmed, trade.exitAt, trade.price)

LEMMA ShadowingInit == Init => Shadowing
<1> SUFFICES ASSUME Init PROVE Shadowing
  OBVIOUS
<1>1. trade.at = 0 /\ trade.exitAt = 0
  BY DEF Init, NoTrade
<1>2. PICK b \in BarSet : history[1] = b /\ b \in Bar
  BY BarSetBar DEF Init
<1>3. FreshStop \in Stop /\ FreshStop.side = 0 /\ FreshStop.period = 0
  BY DEF FreshStop, Stop, Sides, Indicators
<1>4. ts.side = 0 /\ ts.period = 0
  BY <1>2, <1>3, ObserveKeepsStop DEF Init
<1>5. QED BY <1>1, <1>4, WindowedInit DEF Shadowing, Tracks, ChannelTrade

\* What was decided about a bar stays decided as the history grows.
LEMMA LabelerKept ==
  ASSUME history \in Seq(Bar), NEW bar \in Bar, history' = Append(history, bar),
         NEW ev \in (Period + 1)..Now, NEW side
  PROVE  /\ Channel(side, ev)' = Channel(side, ev)
         /\ \A k \in (ev + 1)..(Now + 1) : LabelerStop(ev, side, k)' = LabelerStop(ev, side, k)
         /\ \A k \in (ev + 1)..Now : /\ Reaches(ev, side, k)' <=> Reaches(ev, side, k)
                                     /\ BookedPrice(ev, side, k)' = BookedPrice(ev, side, k)
<1>1. /\ Now \in Nat /\ Period \in Nat \ {0} /\ ev \in (Period + 1)..(Now + 1)
      /\ \A j \in 1..Now : history'[j] = history[j]
      /\ \A k \in (Period + 1)..(Now + 1) :
           ExitLow(k)' = ExitLow(k) /\ ExitHigh(k)' = ExitHigh(k)
  BY ChannelKept, PeriodNat DEF Now
<1>2. Channel(side, ev)' = Channel(side, ev)
  BY <1>1 DEF Channel
<1>3. ASSUME NEW k \in (ev + 1)..(Now + 1)
      PROVE  LabelerStop(ev, side, k)' = LabelerStop(ev, side, k)
  <2>1. \A j \in ev..(k - 1) : ExitLow(j)' = ExitLow(j) /\ ExitHigh(j)' = ExitHigh(j)
    BY <1>1
  <2>2. /\ {ExitLow(j)' : j \in ev..(k - 1)} = {ExitLow(j) : j \in ev..(k - 1)}
        /\ {ExitHigh(j)' : j \in ev..(k - 1)} = {ExitHigh(j) : j \in ev..(k - 1)}
    BY <2>1
  <2>3. QED BY <2>2 DEF LabelerStop
<1>4. ASSUME NEW k \in (ev + 1)..Now
      PROVE  /\ Reaches(ev, side, k)' <=> Reaches(ev, side, k)
             /\ BookedPrice(ev, side, k)' = BookedPrice(ev, side, k)
  <2>1. k \in (ev + 1)..(Now + 1) /\ k \in 1..Now
    BY <1>1
  <2>2. LabelerStop(ev, side, k)' = LabelerStop(ev, side, k) /\ history'[k] = history[k]
    BY <1>1, <1>3, <2>1
  <2>3. QED BY <2>2 DEF Reaches, BookedPrice, Smaller, Larger
<1>5. QED BY <1>2, <1>3, <1>4

\* A bar that does not reach the stop, in the live host's order of the two calls.
LEMMA StepTrails ==
  ASSUME ~ObserveFirst, ts \in Stop, NEW bar \in Bar, ~Hit(ts, bar), ts.side # 0
  PROVE  /\ Step(bar).indicator = ts.indicator
         /\ InForce(Step(bar)) = IF ts.side > 0 THEN Larger(InForce(ts), TrailingLevel(ts))
                                                ELSE Smaller(InForce(ts), TrailingLevel(ts))
<1>1. Step(bar) = Observe(Trailed(ts), bar)
  BY DEF Step, AfterBar
<1>2. Trailed(ts) \in Stop
  BY AfterBarStop DEF AfterBar
<1>3. InForce(Step(bar)) = InForce(Trailed(ts)) /\ Step(bar).indicator = Trailed(ts).indicator
  <2>1. InForce(Observe(Trailed(ts), bar)) = InForce(Trailed(ts))
    BY <1>2, ObserveKeepsStop
  <2>2. Observe(Trailed(ts), bar).indicator = Trailed(ts).indicator
    BY <1>2, ObserveStop DEF Stop
  <2>3. QED BY <1>1, <2>1, <2>2
<1>4. TrailingLevel(ts) \in Nat /\ ts.hard \in Nat /\ ts.extreme \in Nat /\ ts.side \in {-1, 1}
  BY TrailingLevelNat DEF Stop, Sides
<1>5. CASE ts.side = 1
  <2>1. Trailed(ts) = [ts EXCEPT !.extreme = Larger(ts.extreme, TrailingLevel(ts))]
    BY <1>5 DEF Trailed
  <2>2. /\ Trailed(ts).side = 1 /\ Trailed(ts).hard = ts.hard
        /\ Trailed(ts).indicator = ts.indicator
        /\ Trailed(ts).extreme = Larger(ts.extreme, TrailingLevel(ts))
    BY <1>5, <2>1 DEF Stop
  <2>3. QED BY <1>3, <1>4, <1>5, <2>2 DEF InForce, Larger
<1>6. CASE ts.side = -1
  <2>1. Trailed(ts) = [ts EXCEPT !.extreme = Smaller(ts.extreme, TrailingLevel(ts))]
    BY <1>6 DEF Trailed
  <2>2. /\ Trailed(ts).side = -1 /\ Trailed(ts).hard = ts.hard
        /\ Trailed(ts).indicator = ts.indicator
        /\ Trailed(ts).extreme = Smaller(ts.extreme, TrailingLevel(ts))
    BY <1>6, <2>1 DEF Stop
  <2>3. QED BY <1>3, <1>4, <1>6, <2>2 DEF InForce, Smaller
<1>7. QED BY <1>4, <1>5, <1>6

\* A window that holds exactly one period still does after a bar.
LEMMA StepKeepsPeriod ==
  ASSUME ts \in Stop, NEW bar \in Bar, ts.period = Period, Len(ts.window) = Period
  PROVE  Len(Step(bar).window) = Period
<1>1. ts.window \in Seq(Bar) /\ Period \in Nat \ {0}
  BY PeriodNat DEF Stop
<1>2. Append(ts.window, bar) \in Seq(Bar) /\ Len(Append(ts.window, bar)) = Period + 1
  BY <1>1
<1>3. Len(Trimmed(Append(ts.window, bar), Period)) = Period
  <2> DEFINE a == Append(ts.window, bar)
  <2> HIDE DEF a
  <2>1. Len(Trimmed(a, Period)) = IF Period > 0 /\ Len(a) > Period THEN Period ELSE Len(a)
    BY <1>1, <1>2, TrimmedIsNewestEnd DEF a
  <2>2. Len(a) = Period + 1
    BY <1>2 DEF a
  <2>3. QED BY <1>1, <2>1, <2>2 DEF a
<1>4. QED BY <1>3, StepWindow

\* An entry on the channel starts level with the labeler, that tests the next bar.
LEMMA ShadowingEnter ==
  ASSUME Shadowing, NEW side \in {-1, 1}, NEW mode \in Modes, NEW hard \in HardStops,
         Enter(side, mode, hard)
  PROVE  Shadowing'
<1>1. /\ Windowed' /\ history \in Seq(Bar) /\ ts \in Stop /\ hard \in Nat
      /\ Now \in Nat /\ Period \in Nat \ {0} /\ Now > Period
  <2>1. Windowed /\ Next
    BY DEF Shadowing, Next
  <2>2. Windowed'
    BY <2>1, WindowedStep
  <2>3. history \in Seq(BarSet) /\ ts \in Stop
    BY <2>1 DEF Windowed, Typed, TypeOK
  <2>4. history \in Seq(Bar) /\ hard \in Nat /\ Period \in Nat \ {0}
    BY <2>3, BarSetBar, HardStopsNat, PeriodNat
  <2>5. Now \in Nat /\ Now > Period
    BY <2>3 DEF Now, Enter
  <2>6. QED BY <2>2, <2>3, <2>4, <2>5
<1>2. /\ ts'.side = side /\ ts'.period = Period /\ ts'.window = ts.window
      /\ InForce(ts') = hard
  BY <1>1, EnterStop DEF Enter
<1>3. ts'.indicator = IndicatorFor(side, mode)
  <2>1. ts' = OnEntry(Configure(ts, IndicatorFor(side, mode), Period), side, hard)
    BY DEF Enter
  <2>2. QED BY <1>1, <2>1 DEF OnEntry, Configure, Stop
<1>4. /\ trade'.at = Now /\ trade'.side = side /\ trade'.hard = hard /\ trade'.mode = mode
      /\ trade'.trimmed <=> ts.period = Period
      /\ trade'.exitAt = 0 /\ history' = history /\ ts.side = 0
  BY DEF Enter
<1>5. trade'.trimmed => Len(ts.window) = Period
  BY <1>1, <1>4 DEF Shadowing, Tracks, Windowed
<1>6. Tracks'
  <2>1. Now' = Now /\ Now \in (Period + 1)..Now /\ Now # 0 /\ side # 0
    BY <1>1, <1>4 DEF Now
  <2>2. QED BY <1>1, <1>2, <1>3, <1>4, <1>5, <2>1 DEF Tracks
<1>7. ASSUME hard = Channel(side, Now)
      PROVE  Shadows(trade.at, trade.side, trade.trimmed)'
  <2>1. PICK ev, trimmed : ev = Now /\ trimmed = trade'.trimmed
    OBVIOUS
  <2>2. LabelerStop(ev, side, ev + 1) = hard /\ ev \in Nat
    BY <1>1, <1>7, <2>1, LabelerStopStarts
  <2>3. /\ LabelerStop(ev, side, Now + 1)' = hard /\ InForce(ts)' = hard
        /\ (ev + 1)..Now' = {}
    <3>1. Now' = ev /\ LabelerStop(ev, side, ev + 1)' = LabelerStop(ev, side, ev + 1)
      BY <1>4, <2>1 DEF Now, LabelerStop, ExitLow, ExitHigh, Previous
    <3>2. LabelerStop(ev, side, Now + 1)' = LabelerStop(ev, side, ev + 1)
      BY <3>1
    <3>3. InForce(ts)' = hard
      BY <1>2 DEF InForce, Larger, Smaller
    <3>4. QED BY <2>2, <3>1, <3>2, <3>3
  <2>4. Shadows(ev, side, trimmed)'
    BY <1>1, <2>3 DEF Shadows
  <2>5. QED BY <1>4, <2>1, <2>4
<1>8. ChannelTrade' => hard = Channel(side, Now)
  <2>1. Channel(trade.side, trade.at)' = Channel(side, Now)
    BY <1>4 DEF Channel, ExitLow, ExitHigh, Previous
  <2>2. QED BY <1>4, <2>1 DEF ChannelTrade
<1>9. QED BY <1>1, <1>4, <1>6, <1>7, <1>8 DEF Shadowing

\* A bar that stops the trade out is one the labeler stops it out on as well.
LEMMA ShadowingExit ==
  ASSUME ~ObserveFirst, Shadowing, NEW bar \in BarSet, NextBar(bar), Hit(ts, bar)
  PROVE  Shadowing'
<1>1. /\ Windowed' /\ history \in Seq(Bar) /\ ts \in Stop /\ bar \in Bar /\ Now \in Nat
      /\ Period \in Nat \ {0} /\ history' = Append(history, bar) /\ ts' = Step(bar)
  <2>1. Windowed' /\ history' = Append(history, bar) /\ ts' = Step(bar)
    BY WindowedStep DEF Shadowing, Next, NextBar
  <2>2. history \in Seq(Bar) /\ ts \in Stop /\ bar \in Bar
    BY BarSetBar DEF Shadowing, Windowed, Typed, TypeOK
  <2>3. QED BY <2>1, <2>2, PeriodNat DEF Now
<1>2. PICK t \in Trade : t = trade
  BY DEF Shadowing, Windowed, Typed, TypeOK
<1>3. ts.side # 0 /\ ts'.side = 0 /\ ts'.period = ts.period
  BY <1>1, StepOutcome, StepWindow DEF Hit
<1>4. /\ ts.side = t.side /\ t.side \in {-1, 1} /\ t.exitAt = 0 /\ t.at # 0
      /\ t.at \in (Period + 1)..Now
  BY <1>2, <1>3 DEF Shadowing, Tracks
<1>5. /\ trade'.at = t.at /\ trade'.side = t.side /\ trade'.hard = t.hard
      /\ trade'.mode = t.mode /\ trade'.trimmed = t.trimmed
      /\ trade'.exitAt = Now + 1 /\ trade'.price = ExitPrice(ts, bar)
  <2>1. trade' = [t EXCEPT !.exitAt = Now + 1, !.price = ExitPrice(ts, bar)]
    BY <1>2 DEF NextBar
  <2>2. QED BY <2>1 DEF Trade
<1>6. Now' = Now + 1
  BY <1>1, ChannelKept
<1>7. Tracks'
  <2>1. Now + 1 \in (t.at + 1)..(Now + 1) /\ Now + 1 # 0 /\ t.at \in (Period + 1)..(Now + 1)
    BY <1>1, <1>4
  <2>2. QED BY <1>3, <1>4, <1>5, <1>6, <2>1 DEF Tracks
<1>8. ASSUME t.mode = "donchian", t.hard = Channel(t.side, t.at)
      PROVE  Settled(trade.at, trade.side, trade.trimmed, trade.exitAt, trade.price)'
  <2>1. PICK ev, side, trimmed, k, price :
           /\ ev = t.at /\ side = t.side /\ trimmed = t.trimmed /\ k = Now + 1
           /\ price = ExitPrice(ts, bar)
    OBVIOUS
  <2>2. Shadows(ev, side, trimmed)
    BY <1>2, <1>4, <1>8, <2>1 DEF Shadowing, ChannelTrade
  <2>3. /\ ev \in (Period + 1)..Now /\ side \in {-1, 1} /\ ts.side = side
        /\ k = Now + 1 /\ k \in (ev + 1)..(Now + 1)
    BY <1>1, <1>4, <2>1
  <2>4. /\ LabelerStop(ev, side, k)' = LabelerStop(ev, side, k)
        /\ LabelerStop(ev, side, k) \in Nat
        /\ \A j \in (ev + 1)..Now : Reaches(ev, side, j)' <=> Reaches(ev, side, j)
        /\ history'[k] = bar
    BY <1>1, <2>3, LabelerKept, LabelerStopIsTightest, ChannelKept
  <2>5. InForce(ts) \in Nat /\ bar.low \in Nat /\ bar.high \in Nat
    BY <1>1, InForceNat DEF Bar
  <2>6. Reaches(ev, side, k)'
    <3>1. IF side > 0 THEN bar.low <= LabelerStop(ev, side, k)
                      ELSE bar.high >= LabelerStop(ev, side, k)
      BY <2>2, <2>3, <2>4, <2>5 DEF Shadows, Hit
    <3>2. QED BY <2>4, <3>1 DEF Reaches
  <2>7. ASSUME trimmed
        PROVE  /\ price = BookedPrice(ev, side, k)'
               /\ \A j \in (ev + 1)..(k - 1) : ~Reaches(ev, side, j)'
    <3>1. InForce(ts) = LabelerStop(ev, side, k) /\ k - 1 = Now
          /\ \A j \in (ev + 1)..Now : ~Reaches(ev, side, j)
      BY <1>1, <2>2, <2>3, <2>7 DEF Shadows
    <3>2. BookedPrice(ev, side, k)' = IF side > 0 THEN Smaller(bar.close, InForce(ts))
                                                  ELSE Larger(bar.close, InForce(ts))
      BY <2>4, <3>1 DEF BookedPrice, Smaller, Larger
    <3>3. QED BY <2>1, <2>3, <2>4, <3>1, <3>2 DEF ExitPrice
  <2>8. Settled(ev, side, trimmed, k, price)'
    BY <2>6, <2>7 DEF Settled
  <2>9. /\ trade'.at = ev /\ trade'.side = side /\ trade'.trimmed = trimmed
        /\ trade'.exitAt = k /\ trade'.price = price
    BY <1>5, <2>1
  <2>10. QED BY <2>8, <2>9
<1>9. ChannelTrade' => t.mode = "donchian" /\ t.hard = Channel(t.side, t.at)
  <2>1. Channel(t.side, t.at)' = Channel(t.side, t.at)
    BY <1>1, <1>4, LabelerKept
  <2>2. Channel(trade.side, trade.at)' = Channel(t.side, t.at)'
    BY <1>5 DEF Channel
  <2>3. QED BY <1>5, <2>1, <2>2 DEF ChannelTrade
<1>10. trade'.exitAt # 0
  BY <1>1, <1>5
<1>11. QED BY <1>1, <1>7, <1>8, <1>9, <1>10 DEF Shadowing

\* While there is no position, what was settled stays settled.
LEMMA ShadowingFlat ==
  ASSUME Shadowing, NEW bar \in BarSet, NextBar(bar), ts.side = 0
  PROVE  Shadowing'
<1>1. /\ Windowed' /\ history \in Seq(Bar) /\ ts \in Stop /\ bar \in Bar /\ Now \in Nat
      /\ Period \in Nat \ {0} /\ history' = Append(history, bar) /\ ts' = Step(bar)
  <2>1. Windowed' /\ history' = Append(history, bar) /\ ts' = Step(bar)
    BY WindowedStep DEF Shadowing, Next, NextBar
  <2>2. history \in Seq(Bar) /\ ts \in Stop /\ bar \in Bar
    BY BarSetBar DEF Shadowing, Windowed, Typed, TypeOK
  <2>3. QED BY <2>1, <2>2, PeriodNat DEF Now
<1>2. trade' = trade /\ ts'.side = 0 /\ ts'.period = ts.period /\ Now' = Now + 1
  <2>1. ~Hit(ts, bar)
    BY DEF Hit
  <2>2. trade' = trade
    BY <2>1 DEF NextBar
  <2>3. ts'.side = 0 /\ ts'.period = ts.period
    BY <1>1, <2>1, StepOutcome, StepWindow
  <2>4. QED BY <1>1, <2>2, <2>3, ChannelKept
<1>3. PICK t \in Trade : t = trade
  BY DEF Shadowing, Windowed, Typed, TypeOK
<1>4. /\ t.at # 0 => t.exitAt # 0 /\ t.side \in {-1, 1} /\ t.at \in (Period + 1)..Now
      /\ t.exitAt # 0 => t.at # 0 /\ t.exitAt \in (t.at + 1)..Now
  BY <1>3 DEF Shadowing, Tracks
<1>5. Tracks'
  <2>1. \A n \in (Period + 1)..Now : n \in (Period + 1)..(Now + 1)
    BY <1>1
  <2>2. t.exitAt # 0 => t.exitAt \in (t.at + 1)..(Now + 1)
    BY <1>1, <1>4
  <2>3. QED BY <1>2, <1>3, <1>4, <2>1, <2>2 DEF Shadowing, Tracks
<1>6. ASSUME t.exitAt # 0, t.mode = "donchian", t.hard = Channel(t.side, t.at)
      PROVE  Settled(t.at, t.side, t.trimmed, t.exitAt, t.price)'
  <2>1. Settled(t.at, t.side, t.trimmed, t.exitAt, t.price)
    BY <1>3, <1>4, <1>6 DEF Shadowing, ChannelTrade
  <2>2. /\ \A k \in (t.at + 1)..Now :
             /\ Reaches(t.at, t.side, k)' <=> Reaches(t.at, t.side, k)
             /\ BookedPrice(t.at, t.side, k)' = BookedPrice(t.at, t.side, k)
    BY <1>1, <1>4, <1>6, LabelerKept
  <2>3. /\ t.exitAt \in (t.at + 1)..Now
        /\ \A k \in (t.at + 1)..(t.exitAt - 1) : k \in (t.at + 1)..Now
    BY <1>1, <1>4, <1>6
  <2>4. QED BY <2>1, <2>2, <2>3 DEF Settled
<1>7. ChannelTrade' => t.at # 0 /\ t.mode = "donchian" /\ t.hard = Channel(t.side, t.at)
  <2>1. t.at # 0 => Channel(t.side, t.at)' = Channel(t.side, t.at)
    BY <1>1, <1>4, LabelerKept
  <2>2. Channel(trade.side, trade.at)' = Channel(t.side, t.at)'
    BY <1>2, <1>3 DEF Channel
  <2>3. QED BY <1>2, <1>3, <2>1, <2>2 DEF ChannelTrade
<1>8. QED BY <1>1, <1>2, <1>3, <1>4, <1>5, <1>6, <1>7 DEF Shadowing

(***************************************************************************)
(* A bar that leaves the trade open trails the stop by the level of the    *)
(* window the bar is not in yet: the channel value of the bar itself.      *)
(***************************************************************************)
LEMMA ShadowingHold ==
  ASSUME ~ObserveFirst, Shadowing, NEW bar \in BarSet, NextBar(bar),
         ts.side # 0, ~Hit(ts, bar)
  PROVE  Shadowing'
<1>1. /\ Windowed' /\ history \in Seq(Bar) /\ ts \in Stop /\ bar \in Bar /\ Now \in Nat
      /\ Period \in Nat \ {0} /\ history' = Append(history, bar) /\ ts' = Step(bar)
  <2>1. Windowed' /\ history' = Append(history, bar) /\ ts' = Step(bar)
    BY WindowedStep DEF Shadowing, Next, NextBar
  <2>2. history \in Seq(Bar) /\ ts \in Stop /\ bar \in Bar
    BY BarSetBar DEF Shadowing, Windowed, Typed, TypeOK
  <2>3. QED BY <2>1, <2>2, PeriodNat DEF Now
<1>2. PICK t \in Trade : t = trade
  BY DEF Shadowing, Windowed, Typed, TypeOK
<1>3. /\ ts.side = t.side /\ t.side \in {-1, 1} /\ t.exitAt = 0 /\ t.at # 0
      /\ t.at \in (Period + 1)..Now /\ ts.period = Period
      /\ ts.indicator = IndicatorFor(t.side, t.mode)
      /\ t.trimmed => Len(ts.window) = Period
  BY <1>2 DEF Shadowing, Tracks
<1>4. /\ ts'.side = ts.side /\ ts'.period = ts.period /\ ts'.indicator = ts.indicator
      /\ InForce(ts') = IF ts.side > 0 THEN Larger(InForce(ts), TrailingLevel(ts))
                                       ELSE Smaller(InForce(ts), TrailingLevel(ts))
  BY <1>1, StepOutcome, StepWindow, StepTrails
<1>5. trade' = t /\ Now' = Now + 1
  BY <1>1, <1>2, ChannelKept DEF NextBar
<1>6. t.trimmed => Len(ts'.window) = Period
  BY <1>1, <1>3, StepKeepsPeriod
<1>7. Tracks'
  <2>1. t.at \in (Period + 1)..(Now + 1)
    BY <1>1, <1>3
  <2>2. QED BY <1>3, <1>4, <1>5, <1>6, <2>1 DEF Tracks
<1>8. ASSUME t.mode = "donchian", t.hard = Channel(t.side, t.at)
      PROVE  Shadows(trade.at, trade.side, trade.trimmed)'
  <2>1. PICK ev, side, trimmed, k, L, level :
           /\ ev = t.at /\ side = t.side /\ trimmed = t.trimmed /\ k = Now + 1
           /\ L = InForce(ts) /\ level = TrailingLevel(ts)
    OBVIOUS
  <2>2. Shadows(ev, side, trimmed)
    BY <1>2, <1>3, <1>8, <2>1 DEF Shadowing, ChannelTrade
  <2>3. /\ ev \in (Period + 1)..Now /\ side \in {-1, 1} /\ ts.side = side
        /\ k = Now + 1 /\ k \in (ev + 1)..(Now + 1) /\ k \in Nat /\ Now' = k
    BY <1>1, <1>3, <1>5, <2>1
  <2>4. /\ LabelerStop(ev, side, k) \in Nat /\ L \in Nat /\ level \in Nat
        /\ bar.low \in Nat /\ bar.high \in Nat
    BY <1>1, <2>1, <2>3, LabelerStopIsTightest, InForceNat, TrailingLevelNat DEF Bar
  <2>5. /\ ExitLow(k) \in Nat /\ ExitHigh(k) \in Nat
        /\ side > 0 => level <= ExitLow(k) /\ (trimmed => level = ExitLow(k))
        /\ side < 0 => ExitHigh(k) <= level /\ (trimmed => level = ExitHigh(k))
    <3>1. /\ Windowed /\ Len(ts.window) >= Period /\ ts.window # <<>>
      BY <1>1, <1>3 DEF Shadowing, Windowed
    <3>2. /\ k \in (Period + 1)..(Now + 1)
          /\ Min(Lows(ts.window)) <= ExitLow(k)
          /\ ExitHigh(k) <= Max(Highs(ts.window))
          /\ trimmed => /\ Min(Lows(ts.window)) = ExitLow(k)
                        /\ Max(Highs(ts.window)) = ExitHigh(k)
      BY <1>3, <2>1, <3>1, LevelAgainstChannel
    <3>3. ExitLow(k) \in Nat /\ ExitHigh(k) \in Nat
      BY <1>1, <3>2, ChannelIsExtreme
    <3>4. /\ side > 0 => level = Min(Lows(ts.window))
          /\ side < 0 => level = Max(Highs(ts.window))
      BY <1>3, <1>8, <2>1, <3>1 DEF TrailingLevel, IndicatorFor
    <3>5. QED BY <3>2, <3>3, <3>4
  <2>6. /\ LabelerStop(ev, side, k)' = LabelerStop(ev, side, k)
        /\ \A j \in (ev + 1)..Now : Reaches(ev, side, j)' <=> Reaches(ev, side, j)
        /\ ExitLow(k)' = ExitLow(k) /\ ExitHigh(k)' = ExitHigh(k)
        /\ history'[k] = bar
    <3>1. k \in (Period + 1)..(Now + 1)
      BY <1>1, <2>3
    <3>2. QED BY <1>1, <2>3, <3>1, LabelerKept, ChannelKept
  <2>7. LabelerStop(ev, side, k + 1)' =
          IF side > 0 THEN Larger(LabelerStop(ev, side, k), ExitLow(k))
                      ELSE Smaller(LabelerStop(ev, side, k), ExitHigh(k))
    <3>1. history' \in Seq(Bar) /\ ev \in (Period + 1)..Now' /\ k \in (ev + 1)..Now'
      BY <1>1, <2>3
    <3>2. LabelerStop(ev, side, k + 1)' =
            (IF side > 0 THEN Larger(LabelerStop(ev, side, k), ExitLow(k))
                         ELSE Smaller(LabelerStop(ev, side, k), ExitHigh(k)))'
      BY <3>1, LabelerStopGrowsNext
    <3>3. QED BY <2>6, <3>2 DEF Larger, Smaller
  <2>8. /\ side > 0 => InForce(ts)' = Larger(L, level) /\ L <= LabelerStop(ev, side, k)
        /\ side < 0 => InForce(ts)' = Smaller(L, level) /\ L >= LabelerStop(ev, side, k)
        /\ trimmed => L = LabelerStop(ev, side, k)
    <3>1. InForce(ts)' = InForce(ts')
      BY DEF InForce, Larger, Smaller
    <3>2. /\ side > 0 => InForce(ts') = Larger(L, level)
          /\ side < 0 => InForce(ts') = Smaller(L, level)
      BY <1>4, <2>1, <2>3
    <3>3. QED BY <2>1, <2>2, <2>3, <3>1, <3>2 DEF Shadows
  <2>9. /\ side > 0 => InForce(ts)' <= LabelerStop(ev, side, Now + 1)'
        /\ side < 0 => InForce(ts)' >= LabelerStop(ev, side, Now + 1)'
        /\ trimmed => InForce(ts)' = LabelerStop(ev, side, Now + 1)'
    <3>1. LabelerStop(ev, side, Now + 1)' = LabelerStop(ev, side, k + 1)'
      BY <2>3
    <3>2. CASE side = 1
      BY <2>4, <2>5, <2>7, <2>8, <3>1, <3>2 DEF Larger
    <3>3. CASE side = -1
      BY <2>4, <2>5, <2>7, <2>8, <3>1, <3>3 DEF Smaller
    <3>4. QED BY <2>3, <3>2, <3>3
  <2>10. trimmed => \A j \in (ev + 1)..Now' : ~Reaches(ev, side, j)'
    <3>1. ASSUME trimmed PROVE ~Reaches(ev, side, k)'
      <4>1. IF side > 0 THEN ~(bar.low <= LabelerStop(ev, side, k))
                        ELSE ~(bar.high >= LabelerStop(ev, side, k))
        BY <2>1, <2>3, <2>4, <2>8, <3>1 DEF Hit
      <4>2. QED BY <2>6, <4>1 DEF Reaches
    <3>2. ASSUME trimmed, NEW j \in (ev + 1)..Now PROVE ~Reaches(ev, side, j)'
      BY <2>2, <2>6, <3>2 DEF Shadows
    <3>3. \A j \in (ev + 1)..Now' : j = k \/ j \in (ev + 1)..Now
      BY <1>1, <2>3
    <3>4. QED BY <3>1, <3>2, <3>3
  <2>11. Shadows(ev, side, trimmed)'
    BY <2>9, <2>10 DEF Shadows
  <2>12. trade'.at = ev /\ trade'.side = side /\ trade'.trimmed = trimmed
    BY <1>5, <2>1
  <2>13. QED BY <2>11, <2>12
<1>9. ChannelTrade' => t.mode = "donchian" /\ t.hard = Channel(t.side, t.at)
  <2>1. Channel(t.side, t.at)' = Channel(t.side, t.at)
    BY <1>1, <1>3, LabelerKept
  <2>2. Channel(trade.side, trade.at)' = Channel(t.side, t.at)'
    BY <1>5 DEF Channel
  <2>3. QED BY <1>5, <2>1, <2>2 DEF ChannelTrade
<1>10. QED BY <1>1, <1>3, <1>5, <1>7, <1>8, <1>9 DEF Shadowing

LEMMA ShadowingStep == ~ObserveFirst /\ Shadowing /\ [Next]_vars => Shadowing'
<1> SUFFICES ASSUME ~ObserveFirst, Shadowing, [Next]_vars PROVE Shadowing'
  OBVIOUS
<1>1. ASSUME NEW side \in {-1, 1}, NEW mode \in Modes, NEW hard \in HardStops,
             Enter(side, mode, hard)
      PROVE  Shadowing'
  BY <1>1, ShadowingEnter
<1>2. ASSUME NEW bar \in BarSet, NextBar(bar) PROVE Shadowing'
  <2>1. CASE Hit(ts, bar)
    BY <1>2, <2>1, ShadowingExit
  <2>2. CASE ts.side = 0
    BY <1>2, <2>2, ShadowingFlat
  <2>3. CASE ts.side # 0 /\ ~Hit(ts, bar)
    BY <1>2, <2>3, ShadowingHold
  <2>4. QED BY <2>1, <2>2, <2>3
<1>3. CASE UNCHANGED vars
  <2>1. Windowed'
    BY WindowedStep DEF Shadowing
  <2>2. Tracks'
    BY <1>3 DEF Shadowing, Tracks, vars, Now
  <2>3. ChannelTrade' <=> ChannelTrade
    BY <1>3 DEF ChannelTrade, Channel, ExitLow, ExitHigh, Previous, vars
  <2>4. /\ Shadows(trade.at, trade.side, trade.trimmed)'
             <=> Shadows(trade.at, trade.side, trade.trimmed)
        /\ Settled(trade.at, trade.side, trade.trimmed, trade.exitAt, trade.price)'
             <=> Settled(trade.at, trade.side, trade.trimmed, trade.exitAt, trade.price)
    <3>1. history' = history /\ ts' = ts /\ trade' = trade /\ Now' = Now
      BY <1>3 DEF vars, Now
    <3>2. InForce(ts)' = InForce(ts)
      BY <3>1 DEF InForce, Larger, Smaller
    <3>3. ASSUME NEW ev, NEW side, NEW k
          PROVE  /\ LabelerStop(ev, side, k)' = LabelerStop(ev, side, k)
                 /\ Reaches(ev, side, k)' <=> Reaches(ev, side, k)
                 /\ BookedPrice(ev, side, k)' = BookedPrice(ev, side, k)
      <4>1. LabelerStop(ev, side, k)' = LabelerStop(ev, side, k)
        BY <3>1 DEF LabelerStop, ExitLow, ExitHigh, Previous
      <4>2. QED BY <3>1, <4>1 DEF Reaches, BookedPrice, Larger, Smaller
    <3>4. PICK t : t = trade
      OBVIOUS
    <3>5. LabelerStop(t.at, t.side, Now + 1)' = LabelerStop(t.at, t.side, Now + 1)
      <4>1. PICK k : k = Now + 1
        OBVIOUS
      <4>2. LabelerStop(t.at, t.side, k)' = LabelerStop(t.at, t.side, k)
        BY <3>3
      <4>3. Now' + 1 = k
        BY <3>1, <4>1
      <4>4. QED BY <4>1, <4>2, <4>3
    <3>6. Shadows(t.at, t.side, t.trimmed)' <=> Shadows(t.at, t.side, t.trimmed)
      BY <3>1, <3>2, <3>3, <3>5 DEF Shadows
    <3>7. Settled(t.at, t.side, t.trimmed, t.exitAt, t.price)'
             <=> Settled(t.at, t.side, t.trimmed, t.exitAt, t.price)
      BY <3>3 DEF Settled
    <3>8. trade' = t
      BY <3>1, <3>4
    <3>9. QED BY <3>4, <3>6, <3>7, <3>8
  <2>5. QED BY <1>3, <2>1, <2>2, <2>3, <2>4 DEF Shadowing, vars
<1>4. QED BY <1>1, <1>2, <1>3 DEF Next

LEMMA HitsAreReached ==
  ASSUME NEW ev, NEW side, NEW k
  PROVE  k \in LabelerHits(ev, side) <=> k \in (ev + 1)..Now /\ Reaches(ev, side, k)
BY DEF LabelerHits, Reaches

(***************************************************************************)
(* In the live engine, which tests a closed bar before it shows it to the  *)
(* stop, a channel trade leaves on the labeler's exit bar at the labeler's *)
(* price, and until then stands at the labeler's stop: what                *)
(* trailing_stop.h:9 asks, for every market, period and history length.    *)
(***************************************************************************)
THEOREM LiveHostMatchesLabeler ==
  ASSUME ~ObserveFirst
  PROVE  Spec => []ParityWithLabeler
<1>1. Spec => []Shadowing
  <2>1. Shadowing /\ [Next]_vars => Shadowing'
    BY ShadowingStep
  <2>2. QED BY ShadowingInit, <2>1, PTL DEF Spec
<1>2. ASSUME Shadowing, ChannelTrade, trade.trimmed
      PROVE  /\ trade.exitAt = LabelerExit(trade.at, trade.side)
             /\ trade.exitAt # 0 => trade.price = LabelerPrice(trade.at, trade.side)
             /\ trade.exitAt = 0 =>
                  InForce(ts) = LabelerStop(trade.at, trade.side, Now + 1)
  <2> DEFINE hits == LabelerHits(trade.at, trade.side)
  <2>1. /\ trade.at \in (Period + 1)..Now /\ Now \in Nat /\ Period \in Nat
        /\ trade.exitAt # 0 => trade.exitAt \in (trade.at + 1)..Now
        /\ hits \subseteq (trade.at + 1)..Now
    BY <1>2, PeriodNat
       DEF Shadowing, Windowed, Tracks, ChannelTrade, Typed, TypeOK, Now, LabelerHits
  <2>2. CASE trade.exitAt = 0
    <3>1. Shadows(trade.at, trade.side, trade.trimmed)
      BY <1>2, <2>2 DEF Shadowing
    <3>2. hits = {}
      BY <1>2, <2>1, <3>1, HitsAreReached DEF Shadows
    <3>3. QED BY <1>2, <2>2, <3>1, <3>2 DEF Shadows, LabelerExit
  <2>3. CASE trade.exitAt # 0
    <3>1. Settled(trade.at, trade.side, trade.trimmed, trade.exitAt, trade.price)
      BY <1>2, <2>3 DEF Shadowing
    <3>2. trade.exitAt \in hits
      BY <2>1, <2>3, <3>1, HitsAreReached DEF Settled
    <3>3. \A k \in hits : trade.exitAt <= k
      <4>1. SUFFICES ASSUME NEW k \in hits, ~(trade.exitAt <= k) PROVE FALSE
        OBVIOUS
      <4>2. k \in (trade.at + 1)..(trade.exitAt - 1)
        BY <2>1, <2>3, <4>1
      <4>3. Reaches(trade.at, trade.side, k)
        BY <4>1, HitsAreReached
      <4>4. QED BY <1>2, <3>1, <4>2, <4>3 DEF Settled
    <3>4. hits \subseteq Nat
      BY <2>1
    <3>5. Min(hits) = trade.exitAt
      <4> HIDE DEF hits
      <4>1. QED BY <3>2, <3>3, <3>4, MinIs
    <3>6. trade.exitAt = LabelerExit(trade.at, trade.side)
      BY <3>2, <3>5 DEF LabelerExit
    <3>7. QED BY <1>2, <2>3, <3>1, <3>6 DEF Settled, BookedPrice, LabelerPrice
  <2>4. QED BY <2>2, <2>3
<1>3. Shadowing => ParityWithLabeler
  BY <1>2 DEF ParityWithLabeler
<1>4. QED BY <1>1, <1>3, PTL

(***************************************************************************)
(* Nor does the live engine ever leave a channel trade before the labeler  *)
(* has: the first trade after a start, which begins with too long a        *)
(* lookback, included.                                                     *)
(***************************************************************************)
THEOREM LiveHostIsNeverEarly ==
  ASSUME ~ObserveFirst
  PROVE  Spec => []NeverExitsBeforeLabeler
<1>1. Spec => []Shadowing
  <2>1. Shadowing /\ [Next]_vars => Shadowing'
    BY ShadowingStep
  <2>2. QED BY ShadowingInit, <2>1, PTL DEF Spec
<1>2. ASSUME Shadowing, ChannelTrade, trade.exitAt # 0
      PROVE  LabelerExit(trade.at, trade.side) \in (trade.at + 1)..trade.exitAt
  <2> DEFINE hits == LabelerHits(trade.at, trade.side)
  <2>1. /\ trade.at \in (Period + 1)..Now /\ Now \in Nat /\ Period \in Nat
        /\ trade.exitAt \in (trade.at + 1)..Now
        /\ hits \subseteq (trade.at + 1)..Now
    BY <1>2, PeriodNat
       DEF Shadowing, Windowed, Tracks, ChannelTrade, Typed, TypeOK, Now, LabelerHits
  <2>2. Settled(trade.at, trade.side, trade.trimmed, trade.exitAt, trade.price)
    BY <1>2 DEF Shadowing
  <2>3. trade.exitAt \in hits
    BY <2>1, <2>2, HitsAreReached DEF Settled
  <2>4. hits \subseteq Nat
    BY <2>1
  <2>5. Min(hits) \in hits /\ Min(hits) <= trade.exitAt
    <3> HIDE DEF hits
    <3>1. QED BY <2>3, <2>4, MinIsLeast
  <2>6. LabelerExit(trade.at, trade.side) = Min(hits)
    BY <2>3 DEF LabelerExit
  <2>7. Min(hits) \in (trade.at + 1)..Now
    BY <2>1, <2>5
  <2> HIDE DEF hits
  <2>8. QED BY <2>1, <2>5, <2>6, <2>7
<1>3. Shadowing => NeverExitsBeforeLabeler
  BY <1>2 DEF NeverExitsBeforeLabeler
<1>4. QED BY <1>1, <1>3, PTL
==============================================================================
