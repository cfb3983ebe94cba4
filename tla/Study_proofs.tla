---------------------------- MODULE Study_proofs ----------------------------
(***************************************************************************)
(* A research study, whatever the bars, the configurations and the         *)
(* bounds: every event the backtest passes is accounted for and no two     *)
(* trades overlap, the deque of the drawdown gate holds the peak of its    *)
(* window, every trade keeps the budget of the capital that was there when *)
(* it was opened, and the report agrees with the ledger.  The indicators   *)
(* fed one bar at a time give the frame's rows, and the live rule that     *)
(* reads them gives the study's signal.  The data sets take no column of a *)
(* label for an input, the two forms of the triple barrier write the same  *)
(* rows, and a label whose trade has ended is final, like the signals of   *)
(* every rule that has no window left to fill.                             *)
(*                                                                         *)
(* Each of the five steps of one pass of the loop is shown to keep its     *)
(* part of the invariant.  The stream's part relates each tracker to the   *)
(* values it was pushed and each row that was given to the row of the      *)
(* frame.  What holds of a frame, its labels and a tracker by themselves   *)
(* is in Research_proofs.                                                  *)
(***************************************************************************)
EXTENDS Research_proofs, ResearchStudy, SequenceTheorems

-----------------------------------------------------------------------------
(* The frame a study has read, and its signals.                            *)

\* A signal for every row.
IsSignals(s, n) == DOMAIN s = 1..n /\ \A i \in 1..n : s[i] \in {1, -1, 0}

LEMMA SignalValue ==
  ASSUME NEW long, NEW short
  PROVE  Signal(long, short) \in {1, -1, 0}
BY DEF Signal

LEMMA CooldownKeeps ==
  ASSUME NEW n, NEW s, IsSignals(s, n), NEW cooldown
  PROVE  IsSignals(Cooldown(s, cooldown), n)
BY DEF Cooldown, IsSignals

LEMMA SignalsAreTyped ==
  ASSUME NEW frame, NEW n, Frame(frame, n), NEW trigger \in TriggerNames
  PROVE  IsSignals(Signals(trigger, frame), n)
<1>1. DOMAIN frame = 1..n
  BY DEF Frame
<1>2. CASE trigger = "turtle"
  BY <1>1, <1>2, SignalValue DEF Signals, TurtleBreakout, IsSignals
<1>3. CASE trigger = "adam"
  BY <1>1, <1>3, SignalValue DEF Signals, AdamBreakout, IsSignals
<1>4. CASE trigger = "trend"
  BY <1>1, <1>4, SignalValue DEF Signals, TrendFilteredBreakout, IsSignals
<1>5. CASE trigger = "bollinger"
  BY <1>1, <1>5, SignalValue DEF Signals, BollingerMeanReversion, IsSignals
<1>6. CASE trigger = "ofi"
  BY <1>1, <1>6, SignalValue DEF Signals, OFIMomentum, IsSignals
<1>7. CASE trigger = "vwap"
  BY <1>1, <1>7, SignalValue, CooldownKeeps DEF Signals, DynamicVWAPBand, IsSignals
<1>8. CASE trigger = "climax"
  BY <1>1, <1>8, SignalValue, CooldownKeeps DEF Signals, LiquidationClimax, IsSignals
<1>9. CASE trigger = "absorption"
  BY <1>1, <1>9, SignalValue, CooldownKeeps DEF Signals, AbsorptionDivergence, IsSignals
<1>10. CASE trigger = "pairs"
  BY <1>1, <1>10 DEF Signals, KalmanPairs, IsSignals
<1>11. QED
  BY <1>2, <1>3, <1>4, <1>5, <1>6, <1>7, <1>8, <1>9, <1>10 DEF TriggerNames

\* One more bar: the indicators of the frame, computed anew.
LEMMA FrameGrows ==
  ASSUME NEW frame, Sequence(frame), Indicated(frame, Len(frame)), NEW bar, IsBar(bar)
  PROVE  LET more == AddIndicators(Append(frame, bar))
         IN Sequence(more) /\ Len(more) = Len(frame) + 1 /\ Indicated(more, Len(frame) + 1)
<1> DEFINE df == Append(frame, bar)
           n == Len(frame) + 1
           more == AddIndicators(df)
<1>1. /\ Len(frame) \in Nat /\ n \in Nat /\ DOMAIN df = 1..n
      /\ \A k \in 1..Len(frame) : df[k] = frame[k]
      /\ df[n] = bar
  BY Appended
<1>2. Frame(df, n)
  <2> HIDE DEF df
  <2>1. ASSUME NEW i \in 1..n PROVE IsBar(df[i])
    <3>1. i \in 1..Len(frame) \/ i = n
      BY <1>1
    <3>2. CASE i \in 1..Len(frame)
      BY <1>1, <3>2 DEF Indicated, Frame
    <3>3. CASE i = n
      BY <1>1, <3>3
    <3>4. QED BY <3>1, <3>2, <3>3
  <2>2. QED BY <1>1, <2>1 DEF Frame
<1> HIDE DEF n, df
<1>3. DOMAIN df = 1..n /\ n \in Nat
  BY <1>2 DEF Frame
<1>4. more = [i \in 1..n |-> more[i]] /\ DOMAIN more = 1..n
  BY <1>3 DEF AddIndicators
<1>5. ASSUME NEW i \in 1..n
      PROVE  IsBar(more[i]) /\ \A name \in Kept : more[i][name] \in Value
  <2>1. IsBar(more[i]) /\ \A name \in Kept : more[i][name] = ColumnAt(df, name, i)
    BY <1>2, FrameRow
  <2>2. ASSUME NEW name \in Kept PROVE ColumnAt(df, name, i) \in Value
    <3>1. name \in Names
      BY DEF Kept
    <3>2. QED BY <1>2, <3>1, ColumnTyped
  <2>3. QED BY <2>1, <2>2
<1> HIDE DEF more
<1>6. Sequence(more) /\ Len(more) = n
  BY <1>3, <1>4, FunctionIsSequence
<1>7. Indicated(more, n)
  BY <1>3, <1>4, <1>5, <1>6 DEF Indicated, Frame
<1>8. QED BY <1>6, <1>7 DEF more, df, n

\* The labels of a study: of event rows, with the side of the signal.
LabelsOn(labels, frame, signals, n) ==
  /\ DOMAIN labels \subseteq 1..n
  /\ \A ev \in DOMAIN labels : LabelTyped(labels[ev], frame, ev) /\ signals[ev] \in {1, -1}

LEMMA StudyLabels ==
  ASSUME NEW frame, NEW n, Indicated(frame, n), NEW signals, IsSignals(signals, n),
         NEW labeler \in LabelerNames
  PROVE  LabelsOn(Labels(labeler, frame, signals), frame, signals, n)
<1> DEFINE E == EventRows(signals)
<1>1. E \subseteq 1..n /\ \A ev \in E : signals[ev] \in {1, -1}
  BY DEF EventRows, IsSignals
<1>2. DOMAIN Labels(labeler, frame, signals) = E
  BY DEF Labels
<1>3. ASSUME NEW ev \in E PROVE LabelTyped(Labels(labeler, frame, signals)[ev], frame, ev)
  <2>1. Labels(labeler, frame, signals)[ev] = Label(labeler, frame, ev, signals[ev])
    BY DEF Labels
  <2>2. ev \in 1..n /\ signals[ev] \in {1, -1}
    BY <1>1
  <2>3. QED BY <2>1, <2>2, LabelsAreTyped
<1> HIDE DEF E
<1>4. QED BY <1>1, <1>2, <1>3 DEF LabelsOn

ReadInv ==
  /\ Sequence(ind) /\ Indicated(ind, Len(ind)) /\ Len(ind) <= MaxBars
  /\ \A t \in TriggerNames : IsSignals(events[t], Len(ind))
  /\ phase \in {"reading", "replay", "done"}
  /\ phase = "reading" => bt = NewBacktest
  /\ phase # "reading" => /\ study \in Studies /\ Len(ind) = MaxBars
                          /\ LabelsOn(bt.labels, ind, events[study.trigger], Len(ind))

LEMMA ReadInit == StudyInit => ReadInv
<1> SUFFICES ASSUME StudyInit PROVE ReadInv
  OBVIOUS
<1>1. ind = <<>> /\ phase = "reading" /\ bt = NewBacktest /\ events = [t \in TriggerNames |-> <<>>]
  BY DEF StudyInit
<1>2. Sequence(ind) /\ Len(ind) = 0 /\ DOMAIN ind = 1..0
  <2>1. <<>> \in Seq({})
    OBVIOUS
  <2>2. QED BY <1>1, <2>1 DEF Sequence
<1>3. Indicated(ind, Len(ind))
  BY <1>2 DEF Indicated, Frame
<1>4. \A t \in TriggerNames : IsSignals(events[t], Len(ind))
  BY <1>1, <1>2 DEF IsSignals
<1>5. QED BY <1>1, <1>2, <1>3, <1>4, StudyAssumption DEF ReadInv

-----------------------------------------------------------------------------
(* The steps of one pass of the loop.                                      *)

BtFields == {"labels", "i", "capital", "open", "trades", "equity", "window", "ptr", "refused"}

LEMMA NewFields == DOMAIN NewBacktest = BtFields
BY DEF NewBacktest, BtFields

LEMMA Advanced ==
  ASSUME NEW b, DOMAIN b = BtFields
  PROVE  LET a == [b EXCEPT !.i = @ + 1]
         IN /\ DOMAIN a = BtFields /\ a.i = b.i + 1
            /\ a.labels = b.labels /\ a.capital = b.capital /\ a.open = b.open
            /\ a.trades = b.trades /\ a.equity = b.equity /\ a.window = b.window
            /\ a.ptr = b.ptr /\ a.refused = b.refused
BY DEF BtFields

LEMMA Closed ==
  ASSUME NEW b, DOMAIN b = BtFields
  PROVE  LET a == CloseTrade(b)
         IN /\ DOMAIN a = BtFields
            /\ a.labels = b.labels /\ a.i = b.i /\ a.equity = b.equity /\ a.window = b.window
            /\ a.ptr = b.ptr /\ a.refused = b.refused
            /\ \/ /\ b.open # NoTrade /\ b.i >= b.open.exit_idx /\ a.open = NoTrade
                  /\ a.capital = b.capital + b.open.pnl /\ a.trades = Append(b.trades, b.open)
               \/ /\ b.open # NoTrade => ~(b.i >= b.open.exit_idx)
                  /\ a.open = b.open /\ a.capital = b.capital /\ a.trades = b.trades
<1>1. CASE b.open # NoTrade /\ b.i >= b.open.exit_idx
  <2> DEFINE a == [b EXCEPT !.capital = @ + b.open.pnl, !.trades = Append(@, b.open),
                            !.open = NoTrade]
  <2>1. CloseTrade(b) = a
    BY <1>1 DEF CloseTrade
  <2>2. /\ DOMAIN a = BtFields
        /\ a.labels = b.labels /\ a.i = b.i /\ a.equity = b.equity /\ a.window = b.window
        /\ a.ptr = b.ptr /\ a.refused = b.refused /\ a.open = NoTrade
        /\ a.capital = b.capital + b.open.pnl /\ a.trades = Append(b.trades, b.open)
    BY DEF BtFields
  <2> HIDE DEF a
  <2>3. QED BY <1>1, <2>1, <2>2
<1>2. CASE ~(b.open # NoTrade /\ b.i >= b.open.exit_idx)
  <2>1. CloseTrade(b) = b
    BY <1>2 DEF CloseTrade
  <2>2. QED BY <1>2, <2>1
<1>3. QED BY <1>1, <1>2

LEMMA Skipped ==
  ASSUME NEW b, DOMAIN b = BtFields
  PROVE  LET a == SkipPast(b)
             idx == EventIdx(b)
         IN /\ DOMAIN a = BtFields
            /\ a.labels = b.labels /\ a.i = b.i /\ a.capital = b.capital /\ a.open = b.open
            /\ a.trades = b.trades /\ a.equity = b.equity /\ a.window = b.window
            /\ a.refused = b.refused
            /\ a.ptr = First({k \in b.ptr .. Len(idx) : idx[k] >= b.i}, Len(idx) + 1)
<1> DEFINE next == First({k \in b.ptr .. Len(EventIdx(b)) : EventIdx(b)[k] >= b.i},
                         Len(EventIdx(b)) + 1)
<1>1. SkipPast(b) = [b EXCEPT !.ptr = next]
  BY DEF SkipPast
<1> HIDE DEF next
<1>2. QED BY <1>1 DEF BtFields, next

\* The event at row i is traded or refused; else nothing happens.
Flat(b) == b.open = NoTrade /\ ~(b.ptr > Len(EventIdx(b))) /\ EventIdx(b)[b.ptr] = b.i

SizeAt(s, b) == SizeOf(s, b, b.labels[b.i])
TradeAt(s, b) == OpenTrade(s, b, b.labels[b.i], SizeAt(s, b))

Passes(b, a) == ~Flat(b) /\ a.ptr = b.ptr /\ a.open = b.open /\ a.refused = b.refused
Refuses(b, a) ==
  Flat(b) /\ a.ptr = b.ptr + 1 /\ a.open = b.open /\ a.refused = b.refused \cup {b.i}
Opens(s, b, a) ==
  /\ Flat(b) /\ a.ptr = b.ptr + 1 /\ a.refused = b.refused
  /\ SizeAt(s, b) > 0 /\ a.open = TradeAt(s, b)

LEMMA Tried ==
  ASSUME NEW s, NEW b, DOMAIN b = BtFields, NEW score
  PROVE  LET a == TryOpen(s, b, score)
         IN /\ DOMAIN a = BtFields
            /\ a.labels = b.labels /\ a.i = b.i /\ a.capital = b.capital /\ a.trades = b.trades
            /\ a.equity = b.equity /\ a.window = b.window
            /\ Passes(b, a) \/ Refuses(b, a) \/ Opens(s, b, a)
<1> DEFINE label == b.labels[b.i]
           size == SizeOf(s, b, label)
           trade == OpenTrade(s, b, label, size)
           opened == [b EXCEPT !.ptr = @ + 1, !.open = trade]
           declined == [b EXCEPT !.ptr = @ + 1, !.refused = @ \cup {b.i}]
<1>1. CASE ~Flat(b)
  BY <1>1 DEF TryOpen, Flat, Passes
<1>2. CASE Flat(b)
  <2>1. TryOpen(s, b, score) = declined \/ (TryOpen(s, b, score) = opened /\ size > 0)
    BY <1>2 DEF TryOpen, Flat
  <2> HIDE DEF label, size, trade
  <2>2. /\ DOMAIN declined = BtFields
        /\ declined.labels = b.labels /\ declined.i = b.i /\ declined.capital = b.capital
        /\ declined.trades = b.trades /\ declined.equity = b.equity
        /\ declined.window = b.window /\ declined.ptr = b.ptr + 1 /\ declined.open = b.open
        /\ declined.refused = b.refused \cup {b.i}
    BY DEF BtFields
  <2>3. /\ DOMAIN opened = BtFields
        /\ opened.labels = b.labels /\ opened.i = b.i /\ opened.capital = b.capital
        /\ opened.trades = b.trades /\ opened.equity = b.equity
        /\ opened.window = b.window /\ opened.ptr = b.ptr + 1 /\ opened.open = trade
        /\ opened.refused = b.refused
    BY DEF BtFields
  <2> HIDE DEF opened, declined
  <2>4. Refuses(b, declined)
    BY <1>2, <2>2 DEF Refuses
  <2>5. size > 0 => Opens(s, b, opened)
    BY <1>2, <2>3 DEF Opens, SizeAt, TradeAt, label, size, trade
  <2>6. QED BY <2>1, <2>2, <2>3, <2>4, <2>5
<1>3. QED BY <1>1, <1>2

Unrealized(b) ==
  IF b.open = NoTrade THEN 0 ELSE b.open.side * (ind[b.i].close - b.open.entry_price) * b.open.size

LEMMA Marked ==
  ASSUME NEW b, DOMAIN b = BtFields
  PROVE  LET a == Mark(b)
             kept == Max({0} \cup {k \in DOMAIN b.window : b.equity[b.window[k]] > Last(a.equity)})
             window == Append(SubSeq(b.window, 1, kept), b.i)
         IN /\ DOMAIN a = BtFields
            /\ a.labels = b.labels /\ a.i = b.i /\ a.capital = b.capital /\ a.trades = b.trades
            /\ a.open = b.open /\ a.ptr = b.ptr /\ a.refused = b.refused
            /\ a.equity = Append(b.equity, b.capital + Unrealized(b))
            /\ a.window = IF Head(window) <= b.i - RiskWindow THEN Tail(window) ELSE window
<1> DEFINE equity == Append(b.equity, b.capital + Unrealized(b))
           kept == Max({0} \cup {k \in DOMAIN b.window : b.equity[b.window[k]] > Last(equity)})
           window == Append(SubSeq(b.window, 1, kept), b.i)
           last == IF Head(window) <= b.i - RiskWindow THEN Tail(window) ELSE window
           a == [b EXCEPT !.equity = equity, !.window = last]
<1>1. Mark(b) = a
  BY DEF Mark, Unrealized
<1>2. /\ DOMAIN a = BtFields
      /\ a.labels = b.labels /\ a.i = b.i /\ a.capital = b.capital /\ a.trades = b.trades
      /\ a.open = b.open /\ a.ptr = b.ptr /\ a.refused = b.refused
      /\ a.equity = equity /\ a.window = last
  <2> HIDE DEF equity, last
  <2>1. QED BY DEF BtFields
<1> HIDE DEF a
<1>3. a.equity = equity /\ a.window = last
  BY <1>2
<1>4. QED BY <1>1, <1>2

-----------------------------------------------------------------------------
(* A size keeps the budget.                                                *)

LEMMA VolatilityWithinLeverage ==
  ASSUME NEW p, p.risk_pct \in Nat, p.max_leverage \in Nat, NEW strength \in Nat, NEW atr \in Int,
         NEW equity \in Int, NEW entry \in Nat \ {0}
  PROVE  LET size == VolatilityTargeting(p, strength, atr, equity, entry)
         IN size \in Nat /\ (size > 0 => equity > 0 /\ size * entry <= equity * p.max_leverage)
<1> DEFINE size == VolatilityTargeting(p, strength, atr, equity, entry)
<1>1. CASE equity <= 0 \/ atr <= 0 \/ strength <= 0
  <2>1. size = 0
    BY <1>1 DEF VolatilityTargeting
  <2> HIDE DEF size
  <2>2. size \in Nat /\ ~(size > 0)
    BY <2>1
  <2>3. QED BY <2>2 DEF size
<1>2. CASE ~(equity <= 0 \/ atr <= 0 \/ strength <= 0)
  <2> DEFINE num == 2 * equity * p.risk_pct
             den == 100 * strength * atr
             full == num \div den
  <2>1. size = Capped(p, full, equity, entry)
    BY <1>2 DEF VolatilityTargeting
  <2>2. num \in Nat
    BY <1>2
  <2>3. den \in Nat \ {0}
    <3>1. strength \in Nat \ {0} /\ atr \in Nat \ {0}
      BY <1>2
    <3>2. strength * atr \in Nat \ {0}
      BY <3>1, ProductPositive
    <3>3. den = 100 * (strength * atr)
      BY <3>1
    <3>4. QED BY <3>2, <3>3
  <2> HIDE DEF num, den
  <2>4. full \in Nat
    BY <2>2, <2>3, Floored
  <2> HIDE DEF full, size
  <2>5. equity \in Nat /\ equity > 0 /\ entry # None
    BY <1>2, NoneAssumption
  <2>6. size \in Nat /\ size * entry <= equity * p.max_leverage
    BY <2>1, <2>4, <2>5, CappedSize
  <2>7. QED BY <2>5, <2>6 DEF size
<1>3. QED BY <1>1, <1>2

\* What every size of a study keeps.
SizeFits(p, size, equity, entry, sd) ==
  size > 0 =>
    /\ size * entry <= equity * p.max_leverage
    /\ p.sizer = "fixed" => sd \in Int /\ 100 * size * sd <= p.risk_pct * equity
    /\ p.sizer = "kelly" => sd \in Int /\ 100 * size * sd <= p.max_risk_cap * equity

LEMMA StudySizeFits ==
  ASSUME NEW s \in Studies, NEW atr \in Int, NEW equity \in Int, NEW entry \in Nat \ {0},
         NEW sd \in Int \cup {None}
  PROVE  LET size == calculate_size(s.sizer, s.strength, atr, equity, entry, sd)
         IN size \in Nat /\ SizeFits(s.sizer, size, equity, entry, sd)
<1> DEFINE p == s.sizer
           size == calculate_size(p, s.strength, atr, equity, entry, sd)
<1>1. /\ s.strength \in Nat /\ p.max_leverage \in Nat
      /\ \/ p.sizer \in {"volatility", "fixed"} /\ p.risk_pct \in Nat
         \/ /\ p.sizer = "kelly" /\ p.max_risk_cap \in Nat
            /\ p.win_rate \in Nat /\ p.profit_factor \in Nat
  BY StudiesAssumption
<1> HIDE DEF p
<1>2. CASE p.sizer = "volatility"
  <2>1. size = VolatilityTargeting(p, s.strength, atr, equity, entry)
    BY <1>2 DEF calculate_size
  <2> HIDE DEF size
  <2>2. p.risk_pct \in Nat
    BY <1>1, <1>2
  <2>3. size \in Nat /\ (size > 0 => equity > 0 /\ size * entry <= equity * p.max_leverage)
    BY <1>1, <2>1, <2>2, VolatilityWithinLeverage
  <2>4. SizeFits(p, size, equity, entry, sd)
    BY <1>2, <2>3 DEF SizeFits
  <2>5. QED BY <2>3, <2>4 DEF size, p
<1>3. CASE p.sizer = "fixed"
  <2>1. size = FixedRisk(p, equity, entry, sd)
    BY <1>3 DEF calculate_size
  <2>2. CASE equity <= 0 \/ sd = None
    <3>1. size = 0
      BY <2>1, <2>2 DEF FixedRisk
    <3> HIDE DEF size
    <3>2. QED BY <3>1 DEF SizeFits, size, p
  <2>3. CASE ~(equity <= 0 \/ sd = None)
    <3> HIDE DEF size
    <3>1. equity \in Nat /\ sd \in Int /\ p.risk_pct \in Nat
      BY <1>1, <1>3, <2>3
    <3>2. size \in Nat /\ size * entry <= equity * p.max_leverage
      BY <1>1, <2>1, <3>1, FixedRiskWithinBudget, NoneAssumption
    <3>3. sd > 0 => 100 * size * sd <= p.risk_pct * equity
      BY <1>1, <2>1, <3>1, FixedRiskWithinBudget, NoneAssumption
    <3>4. size > 0 => sd > 0
      BY <2>1, <2>3, <3>1 DEF FixedRisk
    <3>5. SizeFits(p, size, equity, entry, sd)
      BY <1>3, <3>1, <3>2, <3>3, <3>4 DEF SizeFits
    <3>6. QED BY <3>2, <3>5 DEF size, p
  <2>4. QED BY <2>2, <2>3
<1>4. CASE p.sizer = "kelly"
  <2>1. size = HalfKelly(p, s.strength, equity, entry, sd)
    BY <1>4 DEF calculate_size
  <2>2. CASE equity <= 0 \/ sd = None
    <3>1. size = 0
      BY <2>1, <2>2 DEF HalfKelly
    <3> HIDE DEF size
    <3>2. QED BY <3>1 DEF SizeFits, size, p
  <2>3. CASE ~(equity <= 0 \/ sd = None)
    <3> HIDE DEF size
    <3>1. /\ equity \in Nat /\ sd \in Int /\ p.max_risk_cap \in Nat
          /\ p.win_rate \in Nat /\ p.profit_factor \in Nat
      BY <1>1, <1>4, <2>3
    <3>2. size \in Nat /\ size * entry <= equity * p.max_leverage
      BY <1>1, <2>1, <3>1, HalfKellyWithinBudget, NoneAssumption
    <3>3. sd > 0 => 100 * size * sd <= p.max_risk_cap * equity
      BY <1>1, <2>1, <3>1, HalfKellyWithinBudget, NoneAssumption
    <3>4. size > 0 => sd > 0
      BY <2>1, <2>3, <3>1 DEF HalfKelly
    <3>5. SizeFits(p, size, equity, entry, sd)
      BY <1>4, <3>1, <3>2, <3>3, <3>4 DEF SizeFits
    <3>6. QED BY <3>2, <3>5 DEF size, p
  <2>4. QED BY <2>2, <2>3
<1>5. QED BY <1>1, <1>2, <1>3, <1>4

-----------------------------------------------------------------------------
(* Events: what the loop has passed is accounted for.                      *)

LEMMA EventOrder ==
  ASSUME NEW b, NEW n \in Nat, DOMAIN b.labels \subseteq 1..n
  PROVE  LET idx == EventIdx(b)
         IN /\ Len(idx) \in Nat
            /\ \A k \in 1..Len(idx) : idx[k] \in DOMAIN b.labels /\ idx[k] \in Int
            /\ \A e \in DOMAIN b.labels : e \in Int /\ \E k \in 1..Len(idx) : idx[k] = e
            /\ \A j, k \in 1..Len(idx) : j < k => idx[j] < idx[k]
<1> DEFINE S == DOMAIN b.labels
           idx == Ascending(S)
<1>1. S \subseteq Int /\ IsFiniteSet(S)
  <2> DEFINE J == 1..n
  <2>1. J \subseteq Int /\ IsFiniteSet(J)
    BY FS_Interval
  <2>2. S \subseteq J
    OBVIOUS
  <2> HIDE DEF J, S
  <2>3. QED BY <2>1, <2>2, FS_Subset
<1> HIDE DEF S
<1>2. /\ Cardinality(S) \in Nat
      /\ idx \in [1..Cardinality(S) -> S]
      /\ Len(idx) = Cardinality(S)
  BY <1>1, SortedAscending
<1>3. \A x \in S : \E k \in 1..Cardinality(S) : idx[k] = x
  BY <1>1, SortedAscending
<1>4. \A j, k \in 1..Cardinality(S) : j < k => idx[j] < idx[k]
  BY <1>1, SortedAscending
<1> HIDE DEF idx
<1>5. EventIdx(b) = idx
  BY DEF EventIdx, idx, S
<1>6. QED BY <1>1, <1>2, <1>3, <1>4, <1>5 DEF S

\* A trade that begins at row e, or is open there.
Covers(t, e) == t.entry_idx = e \/ (t.entry_idx < e /\ e < t.exit_idx)
TradedBy(trades, e) == \E k \in 1..Len(trades) : Covers(trades[k], e)
Accounted(b, e) == e \in b.refused \/ (b.open # NoTrade /\ Covers(b.open, e)) \/ TradedBy(b.trades, e)

LEMMA TradedByMore ==
  ASSUME NEW trades, Sequence(trades), NEW t, NEW e
  PROVE  /\ TradedBy(trades, e) => TradedBy(Append(trades, t), e)
         /\ Covers(t, e) => TradedBy(Append(trades, t), e)
<1> DEFINE more == Append(trades, t)
<1>1. /\ Len(trades) \in Nat /\ Len(more) = Len(trades) + 1
      /\ \A k \in 1..Len(trades) : more[k] = trades[k]
      /\ more[Len(trades)+1] = t
  BY Appended
<1> HIDE DEF more
<1>2. ASSUME TradedBy(trades, e) PROVE TradedBy(more, e)
  <2>1. PICK k \in 1..Len(trades) : Covers(trades[k], e)
    BY <1>2 DEF TradedBy
  <2>2. k \in 1..Len(more) /\ more[k] = trades[k]
    BY <1>1
  <2>3. QED BY <2>1, <2>2 DEF TradedBy
<1>3. ASSUME Covers(t, e) PROVE TradedBy(more, e)
  <2>1. Len(trades)+1 \in 1..Len(more)
    BY <1>1
  <2>2. QED BY <1>1, <1>3, <2>1 DEF TradedBy
<1>4. QED BY <1>2, <1>3 DEF more

\* The rows up to i are done.
PassedInv(b, i) ==
  \A k \in 1..Len(EventIdx(b)) : k < b.ptr => EventIdx(b)[k] <= i
DoneInv(b, i) ==
  \A e \in DOMAIN b.labels : e <= i => Accounted(b, e)
ApartInv(b, i) ==
  /\ \A r \in b.refused : r \in Int /\ r <= i
  /\ \A k \in 1..Len(b.trades) :
       LET t == b.trades[k]
       IN /\ t.entry_idx \in Int /\ t.exit_idx \in Int /\ t.entry_idx <= i /\ t.exit_idx <= b.i
          /\ t.entry_idx \notin b.refused
          /\ k > 1 => b.trades[k-1].exit_idx <= t.entry_idx
  /\ b.open # NoTrade =>
       /\ b.open.entry_idx \in Int /\ b.open.exit_idx \in Int /\ b.open.entry_idx <= i
       /\ b.open.entry_idx \notin b.refused
       /\ Len(b.trades) > 0 => b.trades[Len(b.trades)].exit_idx <= b.open.entry_idx
EventInv(b, i) ==
  /\ DOMAIN b = BtFields /\ b.i \in Nat /\ b.ptr \in Nat \ {0} /\ Sequence(b.trades)
  /\ PassedInv(b, i) /\ DoneInv(b, i) /\ ApartInv(b, i)

LEMMA EventsAdvance ==
  ASSUME NEW b, EventInv(b, b.i)
  PROVE  LET a == [b EXCEPT !.i = @ + 1]
         IN a.i = b.i + 1 /\ a.labels = b.labels /\ EventInv(a, b.i)
<1> DEFINE a == [b EXCEPT !.i = @ + 1]
<1>1. /\ DOMAIN a = BtFields /\ a.i = b.i + 1
      /\ a.labels = b.labels /\ a.open = b.open /\ a.trades = b.trades
      /\ a.ptr = b.ptr /\ a.refused = b.refused
  BY Advanced DEF EventInv
<1> HIDE DEF a
<1>2. /\ b.i \in Nat /\ b.ptr \in Nat \ {0} /\ Sequence(b.trades)
      /\ PassedInv(b, b.i) /\ DoneInv(b, b.i) /\ ApartInv(b, b.i)
  BY DEF EventInv
<1>3. PassedInv(a, b.i)
  BY <1>1, <1>2 DEF PassedInv, EventIdx
<1>4. DoneInv(a, b.i)
  BY <1>1, <1>2 DEF DoneInv, Accounted
<1>5. ApartInv(a, b.i)
  BY <1>1, <1>2 DEF ApartInv
<1>6. QED BY <1>1, <1>2, <1>3, <1>4, <1>5 DEF EventInv, a

LEMMA EventsClose ==
  ASSUME NEW b, NEW i \in Int, EventInv(b, i)
  PROVE  LET a == CloseTrade(b)
         IN /\ a.i = b.i /\ a.labels = b.labels /\ EventInv(a, i)
            /\ a.open # NoTrade => a.i < a.open.exit_idx
<1> DEFINE a == CloseTrade(b)
<1>1. /\ DOMAIN a = BtFields
      /\ a.labels = b.labels /\ a.i = b.i /\ a.ptr = b.ptr /\ a.refused = b.refused
      /\ \/ /\ b.open # NoTrade /\ b.i >= b.open.exit_idx /\ a.open = NoTrade
            /\ a.trades = Append(b.trades, b.open)
         \/ /\ b.open # NoTrade => ~(b.i >= b.open.exit_idx)
            /\ a.open = b.open /\ a.trades = b.trades
  BY Closed DEF EventInv
<1> HIDE DEF a
<1>2. /\ b.i \in Nat /\ b.ptr \in Nat \ {0} /\ Sequence(b.trades)
      /\ PassedInv(b, i) /\ DoneInv(b, i) /\ ApartInv(b, i)
  BY DEF EventInv
<1>3. PassedInv(a, i)
  BY <1>1, <1>2 DEF PassedInv, EventIdx
<1>4. CASE /\ b.open # NoTrade /\ b.i >= b.open.exit_idx /\ a.open = NoTrade
           /\ a.trades = Append(b.trades, b.open)
  <2>1. ASSUME NEW e, Accounted(b, e) PROVE Accounted(a, e)
    BY <1>1, <1>2, <1>4, <2>1, TradedByMore DEF Accounted
  <2>2. DoneInv(a, i)
    BY <1>1, <1>2, <2>1 DEF DoneInv
  <2> DEFINE n == Len(b.trades)
  <2>3. /\ n \in Nat /\ Len(a.trades) = n + 1 /\ Sequence(a.trades)
        /\ \A k \in 1..n : a.trades[k] = b.trades[k]
        /\ a.trades[n+1] = b.open
    BY <1>2, <1>4, Appended
  <2>4. ApartInv(a, i)
    <3>1. \A r \in a.refused : r \in Int /\ r <= i
      BY <1>1, <1>2 DEF ApartInv
    <3>2. ASSUME NEW k \in 1..Len(a.trades)
          PROVE  LET t == a.trades[k]
                 IN /\ t.entry_idx \in Int /\ t.exit_idx \in Int
                    /\ t.entry_idx <= i /\ t.exit_idx <= a.i
                    /\ t.entry_idx \notin a.refused
                    /\ k > 1 => a.trades[k-1].exit_idx <= t.entry_idx
      <4>1. CASE k \in 1..n
        <5>1. a.trades[k] = b.trades[k] /\ (k > 1 => a.trades[k-1] = b.trades[k-1])
          <6>1. n \in Nat /\ \A j \in 1..n : a.trades[j] = b.trades[j]
            BY <2>3
          <6>2. k > 1 => k - 1 \in 1..n
            BY <4>1, <6>1
          <6> HIDE DEF n
          <6>3. QED BY <4>1, <6>1, <6>2
        <5>2. QED BY <1>1, <1>2, <4>1, <5>1 DEF ApartInv
      <4>2. CASE k = n + 1
        <5>1. a.trades[k] = b.open
          BY <2>3, <4>2
        <5>2. k > 1 => n > 0 /\ a.trades[k-1] = b.trades[n]
          BY <2>3, <4>2
        <5>3. QED BY <1>1, <1>2, <1>4, <5>1, <5>2 DEF ApartInv
      <4>3. QED BY <2>3, <4>1, <4>2
    <3>3. QED BY <1>4, <3>1, <3>2 DEF ApartInv
  <2>5. EventInv(a, i)
    BY <1>1, <1>2, <1>3, <2>2, <2>3, <2>4 DEF EventInv
  <2>6. QED BY <1>1, <1>4, <2>5 DEF a
<1>5. CASE /\ b.open # NoTrade => ~(b.i >= b.open.exit_idx)
           /\ a.open = b.open /\ a.trades = b.trades
  <2>1. DoneInv(a, i)
    BY <1>1, <1>2, <1>5 DEF DoneInv, Accounted
  <2>2. ApartInv(a, i)
    BY <1>1, <1>2, <1>5 DEF ApartInv
  <2>3. a.open # NoTrade => a.i < a.open.exit_idx
    BY <1>1, <1>2, <1>5 DEF ApartInv
  <2>4. EventInv(a, i)
    BY <1>1, <1>2, <1>3, <1>5, <2>1, <2>2 DEF EventInv
  <2>5. QED BY <1>1, <2>3, <2>4 DEF a
<1>6. QED BY <1>1, <1>4, <1>5

\* After the skip, the event of the row, if there is one, is the next.
LEMMA EventsSkip ==
  ASSUME NEW b, NEW n \in Nat, DOMAIN b.labels \subseteq 1..n, EventInv(b, b.i - 1),
         b.open # NoTrade => b.i < b.open.exit_idx
  PROVE  LET a == SkipPast(b)
         IN /\ a.i = b.i /\ a.labels = b.labels /\ EventInv(a, a.i - 1)
            /\ a.open # NoTrade => a.i < a.open.exit_idx
            /\ a.i \in DOMAIN a.labels =>
                 a.ptr <= Len(EventIdx(a)) /\ EventIdx(a)[a.ptr] = a.i
<1> DEFINE a == SkipPast(b)
           idx == EventIdx(b)
           hits == {k \in b.ptr .. Len(idx) : idx[k] >= b.i}
<1>1. /\ DOMAIN a = BtFields
      /\ a.labels = b.labels /\ a.i = b.i /\ a.open = b.open /\ a.trades = b.trades
      /\ a.refused = b.refused /\ a.ptr = First(hits, Len(idx) + 1)
  BY Skipped DEF EventInv
<1>2. /\ b.i \in Nat /\ b.ptr \in Nat \ {0} /\ Sequence(b.trades)
      /\ PassedInv(b, b.i - 1) /\ DoneInv(b, b.i - 1) /\ ApartInv(b, b.i - 1)
  BY DEF EventInv
<1>3. /\ Len(idx) \in Nat
      /\ \A k \in 1..Len(idx) : idx[k] \in DOMAIN b.labels /\ idx[k] \in Int
      /\ \A e \in DOMAIN b.labels : e \in Int /\ \E k \in 1..Len(idx) : idx[k] = e
      /\ \A j, k \in 1..Len(idx) : j < k => idx[j] < idx[k]
  BY EventOrder
<1>4. EventIdx(a) = idx
  BY <1>1 DEF EventIdx
<1> HIDE DEF a, idx
<1> DEFINE m == Len(idx)
<1>5. hits \in SUBSET (b.ptr .. m) /\ hits \in SUBSET Int
  OBVIOUS
<1>6. \A k \in b.ptr .. m : k \notin hits => idx[k] < b.i
  BY <1>2, <1>3
<1>7. \A k \in hits : k \in b.ptr..m /\ idx[k] >= b.i
  OBVIOUS
<1> HIDE DEF m, hits
<1>8. m \in Nat /\ b.ptr \in Int /\ m + 1 \in Int
  BY <1>2, <1>3 DEF m
<1>9. /\ hits # {} => a.ptr \in hits /\ \A k \in hits : a.ptr <= k
      /\ hits = {} => a.ptr = m + 1
  <2>1. IsFiniteSet(hits)
    <3> DEFINE J == b.ptr .. m
    <3>1. IsFiniteSet(J)
      BY <1>8, FS_Interval
    <3>2. hits \subseteq J
      BY <1>5
    <3> HIDE DEF J
    <3>3. QED BY <3>1, <3>2, FS_Subset
  <2>2. hits # {} => Min(hits) \in hits /\ \A k \in hits : Min(hits) <= k
    BY <1>5, <2>1, MinOfFinite
  <2>3. QED BY <1>1, <2>2 DEF First, m
<1>10. a.ptr \in Nat \ {0} /\ \A k \in b.ptr .. m : k < a.ptr => k \notin hits
  <2>1. CASE hits = {}
    BY <1>8, <1>9, <2>1
  <2>2. CASE hits # {}
    <3>1. a.ptr \in b.ptr .. m
      BY <1>5, <1>9, <2>2
    <3>2. \A k \in hits : k \in Int
      BY <1>5
    <3>3. QED BY <1>2, <1>8, <1>9, <2>2, <3>1, <3>2
  <2>3. QED BY <2>1, <2>2
<1>11. PassedInv(a, a.i - 1)
  <2>1. ASSUME NEW k \in 1..m, k < a.ptr PROVE idx[k] <= b.i - 1
    <3>1. CASE k < b.ptr
      BY <1>2, <1>4, <2>1, <3>1 DEF PassedInv, idx, m
    <3>2. CASE ~(k < b.ptr)
      <4>1. k \in b.ptr .. m
        BY <1>2, <1>8, <3>2
      <4>2. idx[k] < b.i
        BY <1>6, <1>10, <2>1, <4>1
      <4>3. idx[k] \in Int
        BY <1>3 DEF m
      <4>4. QED BY <1>2, <4>2, <4>3
    <3>3. QED BY <3>1, <3>2
  <2>2. QED BY <1>1, <1>4, <2>1 DEF PassedInv, m
<1>12. DoneInv(a, a.i - 1)
  BY <1>1, <1>2 DEF DoneInv, Accounted
<1>13. ApartInv(a, a.i - 1)
  BY <1>1, <1>2 DEF ApartInv
<1>14. EventInv(a, a.i - 1)
  BY <1>1, <1>2, <1>10, <1>11, <1>12, <1>13 DEF EventInv
<1>15. ASSUME a.i \in DOMAIN a.labels PROVE a.ptr <= m /\ idx[a.ptr] = a.i
  <2>1. PICK k \in 1..m : idx[k] = b.i
    BY <1>1, <1>3, <1>15 DEF m
  <2>2. ~(k < b.ptr)
    <3>1. ASSUME k < b.ptr PROVE idx[k] <= b.i - 1
      BY <1>2, <3>1 DEF PassedInv, idx, m
    <3>2. QED BY <1>2, <2>1, <3>1
  <2>3. k \in b.ptr .. m
    BY <1>2, <1>8, <2>2
  <2>4. k \in hits
    BY <1>2, <2>1, <2>3 DEF hits, m
  <2>5. a.ptr \in hits /\ a.ptr <= k
    BY <1>9, <2>4
  <2>6. a.ptr \in 1..m /\ idx[a.ptr] >= b.i
    BY <1>2, <1>7, <1>8, <2>5
  <2>7. a.ptr = k \/ a.ptr < k
    BY <2>5, <2>6
  <2>8. CASE a.ptr < k
    <3>1. idx[a.ptr] < idx[k] /\ idx[a.ptr] \in Int
      BY <1>3, <2>6, <2>8 DEF m
    <3>2. QED BY <1>2, <2>1, <2>6, <3>1
  <2>9. CASE a.ptr = k
    BY <1>1, <2>1, <2>6, <2>9
  <2>10. QED BY <2>7, <2>8, <2>9
<1>16. a.open # NoTrade => a.i < a.open.exit_idx
  BY <1>1
<1>17. QED BY <1>1, <1>4, <1>14, <1>15, <1>16 DEF a, m

\* The event of the row is traded or refused, or a trade is open.
LEMMA EventsTry ==
  ASSUME NEW s, NEW b, NEW score, EventInv(b, b.i - 1),
         b.open # NoTrade => b.i < b.open.exit_idx,
         b.i \in DOMAIN b.labels => b.ptr <= Len(EventIdx(b)) /\ EventIdx(b)[b.ptr] = b.i,
         Len(EventIdx(b)) \in Nat,
         \A k \in 1..Len(EventIdx(b)) : EventIdx(b)[k] \in DOMAIN b.labels /\ EventIdx(b)[k] \in Int,
         \A e \in DOMAIN b.labels : e \in Int /\ b.labels[e].exit_idx \in Int
  PROVE  LET a == TryOpen(s, b, score)
         IN a.i = b.i /\ a.labels = b.labels /\ EventInv(a, a.i)
<1> DEFINE a == TryOpen(s, b, score)
           idx == EventIdx(b)
           label == b.labels[b.i]
           size == SizeOf(s, b, label)
           trade == OpenTrade(s, b, label, size)
<1>1. /\ DOMAIN a = BtFields
      /\ a.labels = b.labels /\ a.i = b.i /\ a.trades = b.trades
      /\ \/ ~Flat(b) /\ a.ptr = b.ptr /\ a.open = b.open /\ a.refused = b.refused
         \/ /\ Flat(b) /\ a.ptr = b.ptr + 1 /\ a.open = b.open
            /\ a.refused = b.refused \cup {b.i}
         \/ /\ Flat(b) /\ a.ptr = b.ptr + 1 /\ a.refused = b.refused
            /\ size > 0 /\ a.open = trade
  <2>1. DOMAIN b = BtFields
    BY DEF EventInv
  <2>2. /\ DOMAIN a = BtFields
        /\ a.labels = b.labels /\ a.i = b.i /\ a.trades = b.trades
        /\ Passes(b, a) \/ Refuses(b, a) \/ Opens(s, b, a)
    BY <2>1, Tried
  <2>3. size = SizeAt(s, b) /\ trade = TradeAt(s, b)
    BY DEF SizeAt, TradeAt
  <2> HIDE DEF a, size, trade
  <2>4. QED BY <2>2, <2>3 DEF Passes, Refuses, Opens
<1>2. /\ b.i \in Nat /\ b.ptr \in Nat \ {0} /\ Sequence(b.trades)
      /\ PassedInv(b, b.i - 1) /\ DoneInv(b, b.i - 1) /\ ApartInv(b, b.i - 1)
  BY DEF EventInv
<1>3. trade.entry_idx = b.i /\ trade.exit_idx = label.exit_idx /\ trade.size = size
  BY DEF OpenTrade
<1>4. Flat(b) => b.i \in DOMAIN b.labels /\ label.exit_idx \in Int /\ b.open = NoTrade
  BY <1>2 DEF Flat
<1>5. Len(b.trades) \in Nat /\ EventIdx(a) = idx
  BY <1>1, <1>2, SequenceShape DEF EventIdx
<1> HIDE DEF a, trade, size, label, idx
<1>6. PassedInv(a, a.i)
  <2>1. ASSUME NEW k \in 1..Len(idx), k < a.ptr PROVE idx[k] <= b.i
    <3>1. CASE k < b.ptr
      <4>1. idx[k] <= b.i - 1 /\ idx[k] \in Int
        BY <1>2, <3>1 DEF PassedInv, idx
      <4>2. QED BY <1>2, <4>1
    <3>2. CASE ~(k < b.ptr)
      <4>1. Flat(b) /\ k = b.ptr
        BY <1>1, <1>2, <2>1, <3>2
      <4>2. idx[b.ptr] = b.i
        BY <4>1 DEF Flat, idx
      <4>3. QED BY <1>2, <4>1, <4>2
    <3>3. QED BY <3>1, <3>2
  <2>2. QED BY <1>1, <1>5, <2>1 DEF PassedInv
<1>7. a.open # NoTrade =>
        a.open = b.open \/ (Flat(b) /\ a.open = trade /\ a.refused = b.refused)
  BY <1>1
<1>8. ASSUME NEW e, Accounted(b, e) PROVE Accounted(a, e)
  BY <1>1, <1>4, <1>8 DEF Accounted
<1>9. DoneInv(a, a.i)
  <2>1. ASSUME NEW e \in DOMAIN b.labels, e <= b.i PROVE Accounted(a, e)
    <3>1. CASE e <= b.i - 1
      BY <1>2, <1>8, <3>1 DEF DoneInv
    <3>2. CASE ~(e <= b.i - 1)
      <4>1. e = b.i
        BY <1>2, <2>1, <3>2
      <4>2. b.ptr <= Len(EventIdx(b)) /\ EventIdx(b)[b.ptr] = b.i
        BY <4>1
      <4>3. CASE Flat(b) /\ a.refused = b.refused \cup {b.i}
        BY <4>1, <4>3 DEF Accounted
      <4>4. CASE Flat(b) /\ size > 0 /\ a.open = trade
        <5>1. trade # NoTrade
          BY <1>3, <4>4 DEF NoTrade
        <5>2. Covers(a.open, e)
          BY <1>3, <4>1, <4>4 DEF Covers
        <5>3. QED BY <4>4, <5>1, <5>2 DEF Accounted
      <4>5. CASE ~Flat(b) /\ a.open = b.open
        <5>1. b.open # NoTrade
          BY <1>2, <1>5, <4>2, <4>5 DEF Flat
        <5>2. b.open.entry_idx \in Int /\ b.open.entry_idx <= b.i - 1
          BY <1>2, <5>1 DEF ApartInv
        <5>3. Covers(b.open, e)
          BY <1>2, <4>1, <5>1, <5>2 DEF Covers
        <5>4. QED BY <4>5, <5>1, <5>3 DEF Accounted
      <4>6. QED BY <1>1, <4>3, <4>4, <4>5
    <3>3. QED BY <3>1, <3>2
  <2>2. QED BY <1>1, <2>1 DEF DoneInv
<1>10. ApartInv(a, a.i)
  <2>1. ASSUME NEW r \in a.refused PROVE r \in Int /\ r <= b.i
    <3>1. r \in b.refused \/ r = b.i
      BY <1>1
    <3>2. r \in b.refused => r \in Int /\ r <= b.i - 1
      BY <1>2 DEF ApartInv
    <3>3. QED BY <1>2, <3>1, <3>2
  <2>2. ASSUME NEW x, x \in Int, x <= b.i - 1, x \notin b.refused PROVE x \notin a.refused
    <3>1. x # b.i
      BY <1>2, <2>2
    <3>2. QED BY <1>1, <2>2, <3>1
  <2>3. ASSUME NEW k \in 1..Len(a.trades)
        PROVE  LET t == a.trades[k]
               IN /\ t.entry_idx \in Int /\ t.exit_idx \in Int
                  /\ t.entry_idx <= a.i /\ t.exit_idx <= a.i
                  /\ t.entry_idx \notin a.refused
                  /\ k > 1 => a.trades[k-1].exit_idx <= t.entry_idx
    <3> DEFINE t == b.trades[k]
    <3>1. /\ t.entry_idx \in Int /\ t.exit_idx \in Int /\ t.entry_idx <= b.i - 1
          /\ t.exit_idx <= b.i /\ t.entry_idx \notin b.refused
          /\ k > 1 => b.trades[k-1].exit_idx <= t.entry_idx
      BY <1>1, <1>2 DEF ApartInv
    <3>2. t.entry_idx \notin a.refused
      BY <2>2, <3>1
    <3> HIDE DEF t
    <3>3. t.entry_idx <= b.i
      BY <1>2, <3>1
    <3>4. QED BY <1>1, <3>1, <3>2, <3>3 DEF t
  <2>4. ASSUME a.open # NoTrade
        PROVE  /\ a.open.entry_idx \in Int /\ a.open.exit_idx \in Int /\ a.open.entry_idx <= a.i
               /\ a.open.entry_idx \notin a.refused
               /\ Len(a.trades) > 0 => a.trades[Len(a.trades)].exit_idx <= a.open.entry_idx
    <3>1. CASE a.open = b.open
      <4>1. /\ b.open.entry_idx \in Int /\ b.open.exit_idx \in Int /\ b.open.entry_idx <= b.i - 1
            /\ b.open.entry_idx \notin b.refused
            /\ Len(b.trades) > 0 => b.trades[Len(b.trades)].exit_idx <= b.open.entry_idx
        BY <1>2, <2>4, <3>1 DEF ApartInv
      <4>2. b.open.entry_idx \notin a.refused
        BY <2>2, <4>1
      <4>3. b.open.entry_idx <= b.i
        BY <1>2, <4>1
      <4>4. QED BY <1>1, <3>1, <4>1, <4>2, <4>3
    <3>2. CASE Flat(b) /\ a.open = trade /\ a.refused = b.refused
      <4>1. a.open.entry_idx = b.i /\ a.open.exit_idx \in Int
        BY <1>3, <1>4, <3>2
      <4>2. b.i \notin b.refused
        <5>1. b.i \in b.refused => b.i <= b.i - 1
          BY <1>2 DEF ApartInv
        <5>2. QED BY <1>2, <5>1
      <4>3. Len(b.trades) > 0 => b.trades[Len(b.trades)].exit_idx <= b.i
        BY <1>2, <1>5 DEF ApartInv
      <4>4. QED BY <1>1, <1>2, <3>2, <4>1, <4>2, <4>3
    <3>3. QED BY <1>7, <2>4, <3>1, <3>2
  <2>5. QED BY <1>1, <2>1, <2>3, <2>4 DEF ApartInv
<1>11. a.ptr \in Nat \ {0}
  BY <1>1, <1>2
<1>12. EventInv(a, a.i)
  BY <1>1, <1>2, <1>6, <1>9, <1>10, <1>11 DEF EventInv
<1>13. QED BY <1>1, <1>12 DEF a

LEMMA EventsMark ==
  ASSUME NEW b, EventInv(b, b.i)
  PROVE  LET a == Mark(b)
         IN a.i = b.i /\ a.labels = b.labels /\ EventInv(a, a.i)
<1> DEFINE a == Mark(b)
<1>1. /\ DOMAIN a = BtFields /\ a.labels = b.labels /\ a.i = b.i /\ a.trades = b.trades
      /\ a.open = b.open /\ a.ptr = b.ptr /\ a.refused = b.refused
  BY Marked DEF EventInv
<1> HIDE DEF a
<1>2. /\ b.i \in Nat /\ b.ptr \in Nat \ {0} /\ Sequence(b.trades)
      /\ PassedInv(b, b.i) /\ DoneInv(b, b.i) /\ ApartInv(b, b.i)
  BY DEF EventInv
<1>3. PassedInv(a, a.i) /\ DoneInv(a, a.i) /\ ApartInv(a, a.i)
  BY <1>1, <1>2 DEF PassedInv, DoneInv, ApartInv, EventIdx, Accounted
<1>4. QED BY <1>1, <1>2, <1>3 DEF EventInv, a

-----------------------------------------------------------------------------
(* The ledger: the capital is what the trades left.                        *)

TradeTyped(t) ==
  /\ t.entry_idx \in Int /\ t.exit_idx \in Int /\ t.entry_price \in Nat \ {0}
  /\ t.exit_price \in Int /\ t.size \in Nat \ {0} /\ t.side \in Int /\ t.raw \in Int
  /\ t.pnl \in Int

\* A market order's fees are those the report counts.
MarketPaid(t) ==
  ~study.limit => t.pnl = t.raw - Fee(study.commission, (t.entry_price + t.exit_price) * t.size)

\* The trade keeps the budget of the capital it was opened with.
Budgeted(t, capital) ==
  /\ t.size * t.entry_price <= study.sizer.max_leverage * capital
  /\ study.sizer.sizer = "fixed" => 100 * t.size * t.stop_distance <= study.sizer.risk_pct * capital
  /\ study.sizer.sizer = "kelly" =>
       100 * t.size * t.stop_distance <= study.sizer.max_risk_cap * capital

Sound(t, capital) == TradeTyped(t) /\ MarketPaid(t) /\ Budgeted(t, capital)

Pnls(trades, n) == [j \in 1..n |-> trades[j].pnl]
CapitalAt(trades, k) == InitialCapital + SumSeq(Pnls(trades, k - 1))

LedgerInv(b) ==
  /\ DOMAIN b = BtFields /\ b.i \in Int /\ b.ptr \in Nat \ {0} /\ b.capital \in Int
  /\ Sequence(b.trades)
  /\ b.capital = CapitalAt(b.trades, Len(b.trades) + 1)
  /\ \A k \in 1..Len(b.trades) : Sound(b.trades[k], CapitalAt(b.trades, k))
  /\ b.open # NoTrade => Sound(b.open, b.capital)

LEMMA FeeInt ==
  ASSUME NEW rate \in Nat, NEW amount \in Int
  PROVE  Fee(rate, amount) \in Int
<1> DEFINE x == rate * amount
<1>1. x \in Int /\ FeeUnit \in Nat \ {0}
  BY StudyAssumption
<1> HIDE DEF x
<1>2. x \div FeeUnit \in Int
  BY <1>1
<1>3. QED BY <1>2 DEF Fee, x

LEMMA OpenedSound ==
  ASSUME study \in Studies, NEW b, b.capital \in Int, NEW n, Indicated(ind, n), b.i \in 1..n,
         LabelTyped(b.labels[b.i], ind, b.i), events[study.trigger][b.i] \in {1, -1},
         SizeAt(study, b) > 0
  PROVE  /\ TradeAt(study, b) # NoTrade
         /\ Sound(TradeAt(study, b), b.capital)
<1> DEFINE label == b.labels[b.i]
           size == SizeAt(study, b)
           t == TradeAt(study, b)
           side == Side(b)
           raw == side * (label.exit_price - label.entry_price) * size
           fees == Fees(study, label, size)
           p == study.sizer
           atr == IF ind[b.i].atr = NaN THEN One ELSE AtrPrice(ind[b.i].atr)
           sd == IF "stop_distance" \notin DOMAIN label THEN None
                 ELSE IF label.stop_distance = NaN THEN None ELSE label.stop_distance
<1>1. /\ label.entry_price \in Nat \ {0} /\ label.exit_price \in Int /\ label.exit_idx \in Int
      /\ "stop_distance" \in DOMAIN label => label.stop_distance \in Value
  BY DEF LabelTyped
<1>2. side \in {1, -1}
  BY DEF Side
<1>3. atr \in Int
  <2>1. ind[b.i].atr \in Value
    BY RowTyped
  <2>2. QED BY <2>1, AtrTyped, OneAssumption
<1>4. sd \in Int \cup {None}
  BY <1>1 DEF Value
<1>5. size = calculate_size(p, study.strength, atr, b.capital, label.entry_price, sd)
  BY DEF SizeAt, SizeOf
<1>6. sd \in Int => "stop_distance" \in DOMAIN label /\ label.stop_distance = sd
  BY NoneAssumption
<1>7. /\ t.entry_idx = b.i /\ t.exit_idx = label.exit_idx /\ t.entry_price = label.entry_price
      /\ t.exit_price = label.exit_price /\ t.size = size /\ t.side = side /\ t.raw = raw
      /\ t.pnl = raw - fees
      /\ "stop_distance" \in DOMAIN label => t.stop_distance = label.stop_distance
  BY DEF TradeAt, OpenTrade
<1>8. size > 0
  OBVIOUS
<1> HIDE DEF label, size, t, side, atr, sd
<1>9. size \in Nat /\ SizeFits(p, size, b.capital, label.entry_price, sd)
  BY <1>1, <1>3, <1>4, <1>5, StudySizeFits
<1>10. raw \in Int
  BY <1>1, <1>2, <1>9
<1>11. fees \in Int
  <2>1. label.entry_price * size \in Int /\ label.exit_price * size \in Int
        /\ (label.entry_price + label.exit_price) * size \in Int
    BY <1>1, <1>9
  <2>2. /\ Fee(MakerCommission, label.entry_price * size) \in Int
        /\ Fee(MakerCommission, label.exit_price * size) \in Int
        /\ Fee(TakerCommission, label.exit_price * size) \in Int
        /\ Fee(study.commission, (label.entry_price + label.exit_price) * size) \in Int
    BY <2>1, FeeInt, StudyAssumption, StudiesAssumption
  <2>3. QED BY <2>2 DEF Fees
<1>12. ~study.limit => fees = Fee(study.commission, (label.entry_price + label.exit_price) * size)
  BY DEF Fees
<1>13. TradeTyped(t)
  <2> HIDE DEF raw, fees
  <2>1. raw - fees \in Int
    BY <1>10, <1>11
  <2>2. b.i \in Int
    BY DEF Indicated, Frame
  <2>3. QED BY <1>1, <1>2, <1>7, <1>8, <1>9, <1>10, <2>1, <2>2 DEF TradeTyped
<1>14. MarketPaid(t)
  BY <1>7, <1>12 DEF MarketPaid
<1>15. Budgeted(t, b.capital)
  <2>1. p.max_leverage \in Nat /\ label.entry_price \in Int
    BY <1>1, StudiesAssumption
  <2>2. size * label.entry_price <= b.capital * p.max_leverage
    BY <1>8, <1>9 DEF SizeFits
  <2>3. b.capital * p.max_leverage = p.max_leverage * b.capital
    <3> HIDE DEF p
    <3>1. QED BY <2>1
  <2>4. p.sizer = "fixed" => 100 * size * t.stop_distance <= p.risk_pct * b.capital
    BY <1>6, <1>7, <1>8, <1>9 DEF SizeFits
  <2>5. p.sizer = "kelly" => 100 * size * t.stop_distance <= p.max_risk_cap * b.capital
    BY <1>6, <1>7, <1>8, <1>9 DEF SizeFits
  <2>6. QED BY <1>7, <2>2, <2>3, <2>4, <2>5 DEF Budgeted
<1>16. t # NoTrade
  BY <1>7, <1>8 DEF NoTrade
<1>17. QED BY <1>13, <1>14, <1>15, <1>16 DEF Sound, t

\* One more trade: the capital before it, and after.
LEMMA CapitalGrows ==
  ASSUME NEW trades, Sequence(trades), \A k \in 1..Len(trades) : trades[k].pnl \in Int,
         NEW t, t.pnl \in Int
  PROVE  LET more == Append(trades, t)
             n == Len(trades)
         IN /\ \A k \in 1..n+1 : CapitalAt(more, k) = CapitalAt(trades, k)
            /\ CapitalAt(more, n + 2) = CapitalAt(trades, n + 1) + t.pnl
            /\ CapitalAt(trades, n + 1) \in Int
<1> DEFINE more == Append(trades, t)
           n == Len(trades)
<1>1. n \in Nat /\ (\A k \in 1..n : more[k] = trades[k]) /\ more[n+1] = t
  BY Appended
<1> HIDE DEF more, n
<1>2. ASSUME NEW k \in 1..n+1 PROVE CapitalAt(more, k) = CapitalAt(trades, k)
  <2>1. \A j \in 1..k-1 : more[j].pnl = trades[j].pnl
    BY <1>1
  <2>2. Pnls(more, k - 1) = Pnls(trades, k - 1)
    BY <2>1 DEF Pnls
  <2>3. QED BY <2>2 DEF CapitalAt
<1> DEFINE h == Pnls(trades, n)
           g == Pnls(more, n + 1)
<1>3. h \in [1..n -> Int]
  BY DEF Pnls, n
<1>4. g \in [1..(n+1) -> Int] /\ (\A j \in 1..n : g[j] = h[j]) /\ g[n+1] = t.pnl
  <2>1. ASSUME NEW j \in 1..n+1
        PROVE  more[j].pnl \in Int /\ (j # n+1 => more[j].pnl = trades[j].pnl)
    <3>1. j \in 1..n \/ j = n + 1
      BY <1>1
    <3>2. QED BY <1>1, <3>1 DEF n
  <2>2. QED BY <1>1, <2>1 DEF Pnls
<1> HIDE DEF h, g
<1>5. SumSeq(g) = SumSeq(h) + t.pnl /\ SumSeq(h) \in Int
  BY <1>1, <1>3, <1>4, SumSeqGrows, SumSeqInt
<1>6. n + 1 - 1 = n /\ n + 2 - 1 = n + 1
  BY <1>1
<1>7. CapitalAt(trades, n + 1) = InitialCapital + SumSeq(h)
      /\ CapitalAt(more, n + 2) = InitialCapital + SumSeq(g)
  <2>1. ASSUME NEW ts, NEW k, NEW m, k - 1 = m
        PROVE  CapitalAt(ts, k) = InitialCapital + SumSeq(Pnls(ts, m))
    BY <2>1, Zenon DEF CapitalAt
  <2> DEFINE k == n + 1
             l == n + 2
  <2>2. k - 1 = n /\ l - 1 = k
    BY <1>1
  <2>3. g = Pnls(more, k)
    BY DEF g
  <2> HIDE DEF k, l
  <2>4. CapitalAt(trades, k) = InitialCapital + SumSeq(h)
    BY <2>1, <2>2 DEF h
  <2>5. CapitalAt(more, l) = InitialCapital + SumSeq(g)
    BY <2>1, <2>2, <2>3
  <2>6. QED BY <2>4, <2>5 DEF k, l
<1>8. InitialCapital \in Int
  BY StudyAssumption
<1>9. QED BY <1>2, <1>5, <1>7, <1>8 DEF more, n

LEMMA LedgerAdvance ==
  ASSUME NEW b, LedgerInv(b)
  PROVE  LedgerInv([b EXCEPT !.i = @ + 1])
<1> DEFINE a == [b EXCEPT !.i = @ + 1]
<1>1. /\ DOMAIN a = BtFields /\ a.i = b.i + 1 /\ a.capital = b.capital /\ a.open = b.open
      /\ a.trades = b.trades /\ a.ptr = b.ptr
  BY Advanced DEF LedgerInv
<1> HIDE DEF a
<1>2. LedgerInv(a)
  BY <1>1 DEF LedgerInv
<1>3. QED BY <1>2 DEF a

LEMMA LedgerClose ==
  ASSUME NEW b, LedgerInv(b)
  PROVE  LedgerInv(CloseTrade(b))
<1> DEFINE a == CloseTrade(b)
<1>1. /\ DOMAIN a = BtFields /\ a.i = b.i /\ a.ptr = b.ptr
      /\ \/ /\ b.open # NoTrade /\ a.open = NoTrade
            /\ a.capital = b.capital + b.open.pnl /\ a.trades = Append(b.trades, b.open)
         \/ a.open = b.open /\ a.capital = b.capital /\ a.trades = b.trades
  BY Closed DEF LedgerInv
<1> HIDE DEF a
<1>2. /\ b.i \in Int /\ b.ptr \in Nat \ {0} /\ b.capital \in Int /\ Sequence(b.trades)
      /\ b.capital = CapitalAt(b.trades, Len(b.trades) + 1)
      /\ \A k \in 1..Len(b.trades) : Sound(b.trades[k], CapitalAt(b.trades, k))
      /\ b.open # NoTrade => Sound(b.open, b.capital)
  BY DEF LedgerInv
<1>3. CASE a.open = b.open /\ a.capital = b.capital /\ a.trades = b.trades
  BY <1>1, <1>2, <1>3 DEF LedgerInv, a
<1>4. CASE /\ b.open # NoTrade /\ a.open = NoTrade
           /\ a.capital = b.capital + b.open.pnl /\ a.trades = Append(b.trades, b.open)
  <2> DEFINE n == Len(b.trades)
             more == Append(b.trades, b.open)
  <2>1. /\ n \in Nat /\ Len(more) = n + 1 /\ Sequence(more)
        /\ \A k \in 1..n : more[k] = b.trades[k]
        /\ more[n+1] = b.open
    BY <1>2, Appended
  <2>2. b.open.pnl \in Int /\ \A k \in 1..n : b.trades[k].pnl \in Int
    BY <1>2, <1>4 DEF Sound, TradeTyped
  <2>3. /\ \A k \in 1..n+1 : CapitalAt(more, k) = CapitalAt(b.trades, k)
        /\ CapitalAt(more, n + 2) = CapitalAt(b.trades, n + 1) + b.open.pnl
    BY <1>2, <2>2, CapitalGrows
  <2> HIDE DEF n, more
  <2>4. ASSUME NEW k \in 1..n+1 PROVE Sound(more[k], CapitalAt(more, k))
    <3>1. k \in 1..n \/ k = n + 1
      BY <2>1
    <3>2. CASE k \in 1..n
      <4>1. Sound(b.trades[k], CapitalAt(b.trades, k))
        BY <1>2, <3>2 DEF n
      <4>2. more[k] = b.trades[k] /\ CapitalAt(more, k) = CapitalAt(b.trades, k)
        BY <2>1, <2>3, <3>2
      <4>3. QED BY <4>1, <4>2
    <3>3. CASE k = n + 1
      <4>1. Sound(b.open, b.capital) /\ b.capital = CapitalAt(b.trades, n + 1)
        BY <1>2, <1>4 DEF n
      <4>2. more[k] = b.open /\ CapitalAt(more, k) = CapitalAt(b.trades, n + 1)
        BY <2>1, <2>3, <3>3
      <4>3. QED BY <4>1, <4>2
    <3>4. QED BY <3>1, <3>2, <3>3
  <2>5. a.capital \in Int /\ a.capital = CapitalAt(more, n + 2)
    BY <1>2, <1>4, <2>2, <2>3 DEF n
  <2>6. n + 1 + 1 = n + 2
    BY <2>1
  <2>7. LedgerInv(a)
    BY <1>1, <1>2, <1>4, <2>1, <2>4, <2>5, <2>6 DEF LedgerInv, more
  <2>8. QED BY <2>7 DEF a
<1>5. QED BY <1>1, <1>3, <1>4

LEMMA LedgerSkip ==
  ASSUME NEW b, LedgerInv(b), SkipPast(b).ptr \in Nat \ {0}
  PROVE  LedgerInv(SkipPast(b))
<1> DEFINE a == SkipPast(b)
<1>1. /\ DOMAIN a = BtFields /\ a.i = b.i /\ a.capital = b.capital /\ a.open = b.open
      /\ a.trades = b.trades
  BY Skipped DEF LedgerInv
<1>2. a.ptr \in Nat \ {0}
  OBVIOUS
<1> HIDE DEF a
<1>3. LedgerInv(a)
  BY <1>1, <1>2 DEF LedgerInv
<1>4. QED BY <1>3 DEF a

LEMMA LedgerTry ==
  ASSUME study \in Studies, NEW b, LedgerInv(b), NEW n, Indicated(ind, n), NEW score,
         LabelsOn(b.labels, ind, events[study.trigger], n),
         \A k \in 1..Len(EventIdx(b)) : EventIdx(b)[k] \in DOMAIN b.labels,
         Len(EventIdx(b)) \in Nat
  PROVE  LedgerInv(TryOpen(study, b, score))
<1> DEFINE a == TryOpen(study, b, score)
<1>1. /\ DOMAIN a = BtFields /\ a.i = b.i /\ a.capital = b.capital /\ a.trades = b.trades
      /\ Passes(b, a) \/ Refuses(b, a) \/ Opens(study, b, a)
  <2>1. DOMAIN b = BtFields
    BY DEF LedgerInv
  <2>2. QED BY <2>1, Tried
<1> HIDE DEF a
<1>2. a.ptr \in Nat \ {0}
  <2>1. a.ptr = b.ptr \/ a.ptr = b.ptr + 1
    BY <1>1 DEF Passes, Refuses, Opens
  <2>2. QED BY <2>1 DEF LedgerInv
<1>3. a.open # NoTrade => Sound(a.open, a.capital)
  <2>1. CASE Passes(b, a) \/ Refuses(b, a)
    <3>1. a.open = b.open
      BY <2>1 DEF Passes, Refuses
    <3>2. QED BY <1>1, <3>1 DEF LedgerInv
  <2>2. CASE Opens(study, b, a)
    <3>1. Flat(b) /\ SizeAt(study, b) > 0 /\ a.open = TradeAt(study, b)
      BY <2>2 DEF Opens
    <3>2. b.i \in DOMAIN b.labels
      BY <3>1 DEF Flat, LedgerInv
    <3>3. /\ b.i \in 1..n /\ LabelTyped(b.labels[b.i], ind, b.i)
          /\ events[study.trigger][b.i] \in {1, -1}
      BY <3>2 DEF LabelsOn
    <3>4. b.capital \in Int
      BY DEF LedgerInv
    <3>5. Sound(TradeAt(study, b), b.capital)
      BY <3>1, <3>3, <3>4, OpenedSound
    <3>6. QED BY <1>1, <3>1, <3>5
  <2>3. QED BY <1>1, <2>1, <2>2
<1>4. LedgerInv(a)
  BY <1>1, <1>2, <1>3 DEF LedgerInv
<1>5. QED BY <1>4 DEF a

LEMMA LedgerMark ==
  ASSUME NEW b, LedgerInv(b)
  PROVE  LedgerInv(Mark(b))
<1> DEFINE a == Mark(b)
<1>1. /\ DOMAIN a = BtFields /\ a.i = b.i /\ a.capital = b.capital /\ a.trades = b.trades
      /\ a.open = b.open /\ a.ptr = b.ptr
  BY Marked DEF LedgerInv
<1> HIDE DEF a
<1>2. LedgerInv(a)
  BY <1>1 DEF LedgerInv
<1>3. QED BY <1>2 DEF a

-----------------------------------------------------------------------------
(* The deque of the drawdown gate: its front is the peak of the window.    *)

Descends(window, equity) ==
  \A k, l \in 1..Len(window) :
    k < l => window[k] < window[l] /\ equity[window[k]] > equity[window[l]]

\* Every row from `low` on is dominated by a row of the deque behind it.
Dominated(window, equity, low, i) ==
  \A j \in 1..i :
    j >= low => \E k \in 1..Len(window) : window[k] >= j /\ equity[window[k]] >= equity[j]

InRows(window, low, i) ==
  \A k \in 1..Len(window) : window[k] \in 1..i /\ window[k] >= low

Deque(window, equity, i) ==
  /\ window \in Seq(Int) /\ equity \in Seq(Int) /\ Len(equity) = i /\ i \in Nat
  /\ InRows(window, i - RiskWindow + 1, i)
  /\ Descends(window, equity)
  /\ Dominated(window, equity, i - RiskWindow + 1, i)

LEMMA RowsKept ==
  ASSUME NEW i \in Nat, NEW window, NEW equity, Deque(window, equity, i), NEW v \in Int
  PROVE  LET kept == Max({0} \cup {k \in DOMAIN window : equity[window[k]] > v})
         IN /\ kept \in 0..Len(window)
            /\ \A k \in 1..Len(window) : equity[window[k]] \in Int
            /\ \A k \in 1..Len(window) : k <= kept => equity[window[k]] > v
            /\ \A k \in 1..Len(window) : k > kept => equity[window[k]] <= v
<1> DEFINE m == Len(window)
           hits == {k \in DOMAIN window : equity[window[k]] > v}
           S == {0} \cup hits
           kept == Max(S)
<1>1. m \in Nat /\ DOMAIN window = 1..m
  BY DEF Deque
<1>2. \A k \in 1..m : equity[window[k]] \in Int
  BY DEF Deque, InRows
<1>3. \A k \in 1..m : k \in hits <=> equity[window[k]] > v
  BY <1>1
<1>4. hits \subseteq 1..m
  BY <1>1
<1> HIDE DEF hits
<1>5. S \subseteq Int /\ IsFiniteSet(S) /\ S # {} /\ 0 \in S /\ \A x \in S : x = 0 \/ x \in hits
  <2> DEFINE J == 0..m
  <2>1. IsFiniteSet(J) /\ J \subseteq Int
    BY <1>1, FS_Interval
  <2>2. S \subseteq J
    BY <1>1, <1>4
  <2>3. S # {} /\ 0 \in S /\ \A x \in S : x = 0 \/ x \in hits
    OBVIOUS
  <2> HIDE DEF J, S
  <2>4. QED BY <2>1, <2>2, <2>3, FS_Subset
<1>6. hits \subseteq S
  OBVIOUS
<1> HIDE DEF S
<1>7. kept \in S /\ \A y \in S : y <= kept
  BY <1>5, MaxOfFinite
<1> HIDE DEF kept
<1>8. kept \in 0..m /\ (kept = 0 \/ kept \in hits)
  BY <1>1, <1>4, <1>5, <1>7
<1>9. ASSUME NEW k \in 1..m, k <= kept PROVE equity[window[k]] > v
  <2>1. kept \in hits /\ kept \in 1..m
    BY <1>1, <1>8, <1>9
  <2>2. equity[window[kept]] > v
    BY <1>3, <2>1
  <2>3. k = kept \/ k < kept
    BY <1>8, <1>9
  <2>4. CASE k < kept
    <3>1. equity[window[k]] > equity[window[kept]]
      BY <2>1, <2>4 DEF Deque, Descends, m
    <3>2. equity[window[k]] \in Int /\ equity[window[kept]] \in Int
      BY <1>2, <2>1
    <3>3. QED BY <2>2, <3>1, <3>2
  <2>5. QED BY <2>2, <2>3, <2>4
<1>10. ASSUME NEW k \in 1..m, k > kept PROVE equity[window[k]] <= v
  <2>1. k \notin hits
    <3>1. ASSUME k \in hits PROVE FALSE
      <4>1. k <= kept
        BY <1>6, <1>7, <3>1
      <4>2. QED BY <1>8, <1>10, <4>1
    <3>2. QED BY <3>1
  <2>2. QED BY <1>2, <1>3, <2>1
<1>11. QED BY <1>2, <1>8, <1>9, <1>10 DEF kept, S, hits, m

LEMMA DequePushed ==
  ASSUME NEW i \in Nat \ {0}, NEW window, NEW equity, Deque(window, equity, i - 1), NEW v \in Int
  PROVE  LET more == Append(equity, v)
             kept == Max({0} \cup {k \in DOMAIN window : equity[window[k]] > v})
             w == Append(SubSeq(window, 1, kept), i)
         IN Deque(IF Head(w) <= i - RiskWindow THEN Tail(w) ELSE w, more, i)
<1> DEFINE more == Append(equity, v)
           kept == Max({0} \cup {k \in DOMAIN window : equity[window[k]] > v})
           w == Append(SubSeq(window, 1, kept), i)
           last == IF Head(w) <= i - RiskWindow THEN Tail(w) ELSE w
           low == i - RiskWindow
<1>1. i - 1 \in Nat
  OBVIOUS
<1>2. /\ kept \in 0..Len(window)
      /\ \A k \in 1..Len(window) : equity[window[k]] \in Int
      /\ \A k \in 1..Len(window) : k <= kept => equity[window[k]] > v
      /\ \A k \in 1..Len(window) : k > kept => equity[window[k]] <= v
  BY <1>1, RowsKept
<1> HIDE DEF kept
<1>3. /\ window \in Seq(Int) /\ equity \in Seq(Int) /\ Len(equity) = i - 1
      /\ InRows(window, low, i - 1) /\ Descends(window, equity)
      /\ Dominated(window, equity, low, i - 1)
  <2>1. i - 1 - RiskWindow + 1 = low
    BY StudyAssumption
  <2> HIDE DEF low
  <2>2. QED BY <2>1 DEF Deque
<1>4. more \in Seq(Int) /\ Len(more) = i /\ (\A j \in 1..i-1 : more[j] = equity[j]) /\ more[i] = v
  BY <1>3
<1>5. w \in Seq(Int) /\ Len(w) = kept + 1 /\ (\A k \in 1..kept : w[k] = window[k]) /\ w[kept+1] = i
  BY <1>2, <1>3
<1>6. Head(w) = w[1] /\ Tail(w) \in Seq(Int) /\ Len(Tail(w)) = kept
      /\ \A k \in 1..kept : Tail(w)[k] = w[k+1]
  <2> HIDE DEF w
  <2>1. kept \in Nat /\ w # <<>>
    BY <1>2, <1>5
  <2>2. QED BY <1>5, <2>1
<1>7. last = IF w[1] <= low THEN Tail(w) ELSE w
  BY <1>6
<1>8. low \in Int
  BY StudyAssumption
<1>9. RiskWindow \in Nat \ {0}
  BY StudyAssumption
<1>10. low < i
  BY <1>9
<1> HIDE DEF more, w, last, low
<1>11. kept \in Nat
  BY <1>2
<1>12. \A k \in 1..kept : window[k] \in 1..i-1 /\ window[k] >= low
  BY <1>2, <1>3 DEF InRows
<1>13. InRows(w, low, i)
  <2>1. ASSUME NEW k \in 1..Len(w) PROVE w[k] \in 1..i /\ w[k] >= low
    <3>1. k \in 1..kept \/ k = kept + 1
      BY <1>5, <1>11
    <3>2. CASE k \in 1..kept
      BY <1>5, <1>8, <1>12, <3>2
    <3>3. CASE k = kept + 1
      BY <1>5, <1>8, <1>10, <3>3
    <3>4. QED BY <3>1, <3>2, <3>3
  <2>2. QED BY <2>1 DEF InRows
<1>14. Descends(w, more)
  <2>1. ASSUME NEW k \in 1..Len(w), NEW l \in 1..Len(w), k < l
        PROVE  w[k] < w[l] /\ more[w[k]] > more[w[l]]
    <3>1. k \in 1..kept /\ k \in 1..Len(window)
      BY <1>2, <1>5, <1>11, <2>1
    <3>2. w[k] = window[k] /\ window[k] \in 1..i-1 /\ more[w[k]] = equity[window[k]]
      BY <1>4, <1>5, <1>12, <3>1
    <3>3. l \in 1..kept \/ l = kept + 1
      BY <1>5, <1>11
    <3>4. CASE l \in 1..kept
      <4>1. w[l] = window[l] /\ more[w[l]] = equity[window[l]] /\ l \in 1..Len(window)
        BY <1>2, <1>4, <1>5, <1>12, <3>4
      <4>2. window[k] < window[l] /\ equity[window[k]] > equity[window[l]]
        BY <1>3, <2>1, <3>1, <4>1 DEF Descends
      <4>3. QED BY <3>2, <4>1, <4>2
    <3>5. CASE l = kept + 1
      <4>1. w[l] = i /\ more[w[l]] = v
        BY <1>4, <1>5, <3>5
      <4>2. equity[window[k]] > v
        BY <1>2, <3>1, <1>11
      <4>3. QED BY <3>2, <4>1, <4>2
    <3>6. QED BY <3>3, <3>4, <3>5
  <2>2. QED BY <2>1 DEF Descends
<1>15. Dominated(w, more, low + 1, i)
  <2>1. ASSUME NEW j \in 1..i, j >= low + 1
        PROVE  \E k \in 1..Len(w) : w[k] >= j /\ more[w[k]] >= more[j]
    <3>1. kept + 1 \in 1..Len(w) /\ w[kept+1] = i /\ more[w[kept+1]] = v
      BY <1>4, <1>5, <1>11
    <3>2. CASE j = i
      <4>1. w[kept+1] >= j /\ more[w[kept+1]] >= more[j]
        BY <1>4, <3>1, <3>2
      <4>2. QED BY <3>1, <4>1
    <3>3. CASE j # i
      <4>1. j \in 1..i-1 /\ j >= low
        BY <1>8, <2>1, <3>3
      <4>2. PICK k \in 1..Len(window) : window[k] >= j /\ equity[window[k]] >= equity[j]
        BY <1>3, <4>1 DEF Dominated
      <4>3. more[j] = equity[j] /\ equity[j] \in Int /\ equity[window[k]] \in Int
        <5>1. equity[j] \in Int
          BY <1>3, <4>1
        <5>2. equity[window[k]] \in Int
          BY <1>2
        <5>3. QED BY <1>4, <4>1, <5>1, <5>2
      <4>4. CASE k <= kept
        <5>1. k \in 1..kept /\ k \in 1..Len(w)
          BY <1>5, <1>11, <4>4
        <5>2. w[k] = window[k] /\ more[w[k]] = equity[window[k]]
          BY <1>4, <1>5, <1>12, <5>1
        <5>3. w[k] >= j /\ more[w[k]] >= more[j]
          BY <4>2, <4>3, <5>2
        <5>4. QED BY <5>1, <5>3
      <4>5. CASE ~(k <= kept)
        <5>1. equity[window[k]] <= v
          BY <1>2, <1>11, <4>5
        <5>2. w[kept+1] >= j /\ more[w[kept+1]] >= more[j]
          BY <3>1, <4>1, <4>2, <4>3, <5>1
        <5>3. QED BY <3>1, <5>2
      <4>6. QED BY <4>4, <4>5
    <3>4. QED BY <3>2, <3>3
  <2>2. QED BY <2>1 DEF Dominated
<1>16. low + 1 = i - RiskWindow + 1
  BY DEF low
<1>17. CASE ~(w[1] <= low)
  <2>1. last = w
    BY <1>7, <1>17
  <2>2. InRows(w, low + 1, i)
    <3>1. ASSUME NEW k \in 1..Len(w) PROVE w[k] \in 1..i /\ w[k] >= low + 1
      <4>1. w[k] \in 1..i /\ w[1] \in Int /\ 1 \in 1..Len(w)
        BY <1>5, <1>11, <1>13 DEF InRows
      <4>2. k = 1 \/ 1 < k
        OBVIOUS
      <4>3. w[1] <= w[k]
        BY <1>14, <4>1, <4>2 DEF Descends
      <4>4. QED BY <1>8, <1>17, <4>1, <4>3
    <3>2. QED BY <3>1 DEF InRows
  <2>3. QED BY <1>4, <1>5, <1>14, <1>15, <1>16, <2>1, <2>2 DEF Deque, last, w, kept, more
<1>18. CASE w[1] <= low
  <2> DEFINE t == Tail(w)
  <2>1. last = t
    BY <1>7, <1>18
  <2>2. t \in Seq(Int) /\ Len(t) = kept /\ \A k \in 1..kept : t[k] = w[k+1]
    BY <1>6
  <2>3. \A k \in 1..kept : k + 1 \in 1..Len(w) /\ 1 \in 1..Len(w) /\ 1 < k + 1
    BY <1>5, <1>11
  <2> HIDE DEF t
  <2>4. InRows(t, low + 1, i)
    <3>1. ASSUME NEW k \in 1..kept PROVE t[k] \in 1..i /\ t[k] >= low + 1
      <4>1. w[k+1] \in 1..i /\ w[1] \in 1..i /\ w[1] >= low
        BY <1>13, <2>3 DEF InRows
      <4>2. w[1] < w[k+1]
        BY <1>14, <2>3 DEF Descends
      <4>3. t[k] = w[k+1]
        BY <2>2
      <4>4. QED BY <1>8, <4>1, <4>2, <4>3
    <3>2. QED BY <2>2, <3>1 DEF InRows
  <2>5. Descends(t, more)
    <3>1. ASSUME NEW k \in 1..kept, NEW l \in 1..kept, k < l
          PROVE  t[k] < t[l] /\ more[t[k]] > more[t[l]]
      <4>1. k + 1 \in 1..Len(w) /\ l + 1 \in 1..Len(w) /\ k + 1 < l + 1
        BY <2>3, <3>1
      <4>2. w[k+1] < w[l+1] /\ more[w[k+1]] > more[w[l+1]]
        BY <1>14, <4>1 DEF Descends
      <4>3. QED BY <2>2, <4>2
    <3>2. QED BY <2>2, <3>1 DEF Descends
  <2>6. Dominated(t, more, low + 1, i)
    <3>1. ASSUME NEW j \in 1..i, j >= low + 1
          PROVE  \E k \in 1..kept : t[k] >= j /\ more[t[k]] >= more[j]
      <4>1. PICK k \in 1..Len(w) : w[k] >= j /\ more[w[k]] >= more[j]
        BY <1>15, <3>1 DEF Dominated
      <4>2. k # 1
        <5>1. w[1] \in 1..i
          BY <1>5, <1>11, <1>13 DEF InRows
        <5>2. QED BY <1>8, <1>18, <3>1, <4>1, <5>1
      <4>3. k - 1 \in 1..kept /\ k - 1 + 1 = k
        BY <1>5, <1>11, <4>2
      <4>4. t[k-1] = w[k]
        BY <2>2, <4>3
      <4>5. QED BY <4>1, <4>3, <4>4
    <3>2. QED BY <2>2, <3>1 DEF Dominated
  <2>7. Deque(t, more, i)
    BY <1>4, <1>16, <2>2, <2>4, <2>5, <2>6 DEF Deque
  <2>8. QED BY <2>1, <2>7 DEF last, w, kept, more
<1>19. QED BY <1>17, <1>18

LEMMA PeakIsMax ==
  ASSUME NEW i \in Nat \ {0}, NEW window, NEW equity, Deque(window, equity, i)
  PROVE  equity[Head(window)] = Max({equity[k] : k \in Max({1, i - RiskWindow + 1}) .. i})
<1> DEFINE low == i - RiskWindow + 1
           from == Max({1, low})
           S == {equity[k] : k \in from .. i}
           m == equity[window[1]]
<1>1. low \in Int /\ low <= i /\ RiskWindow \in Nat
  BY StudyAssumption
<1>2. /\ window \in Seq(Int) /\ equity \in Seq(Int) /\ Len(equity) = i
      /\ InRows(window, low, i) /\ Descends(window, equity) /\ Dominated(window, equity, low, i)
  BY DEF Deque
<1> HIDE DEF low
<1>3. from = (IF 1 <= low THEN low ELSE 1)
  BY <1>1, MaxOfTwo
<1> HIDE DEF from
<1>4. from \in 1..i /\ \A k \in from..i : k \in 1..i /\ k >= low
  BY <1>1, <1>3
<1>5. Len(window) \in Nat /\ Len(window) > 0
  <2>1. PICK k \in 1..Len(window) : window[k] >= i
    BY <1>1, <1>2 DEF Dominated
  <2>2. QED BY <1>2, <2>1
<1>6. 1 \in 1..Len(window) /\ Head(window) = window[1]
  BY <1>2, <1>5
<1>7. window[1] \in from..i
  <2>1. window[1] \in 1..i /\ window[1] >= low
    BY <1>2, <1>6 DEF InRows
  <2>2. QED BY <1>1, <1>3, <2>1
<1>8. \A k \in 1..i : equity[k] \in Int
  BY <1>2
<1>9. m \in S /\ S \subseteq Int
  BY <1>4, <1>7, <1>8
<1>10. ASSUME NEW y \in S PROVE y <= m
  <2>1. PICK j \in from..i : y = equity[j]
    OBVIOUS
  <2>2. j \in 1..i /\ j >= low
    BY <1>4
  <2>3. PICK k \in 1..Len(window) : window[k] >= j /\ equity[window[k]] >= equity[j]
    BY <1>2, <2>2 DEF Dominated
  <2>4. window[k] \in 1..i
    BY <1>2, <2>3 DEF InRows
  <2>5. k = 1 \/ 1 < k
    OBVIOUS
  <2>6. m >= equity[window[k]]
    <3>1. m \in Int /\ equity[window[k]] \in Int
      BY <1>4, <1>7, <1>8, <2>4
    <3>2. CASE 1 < k
      <4>1. m > equity[window[k]]
        BY <1>2, <1>6, <3>2 DEF Descends
      <4>2. QED BY <3>1, <4>1
    <3>3. QED BY <2>5, <3>1, <3>2
  <2>7. m \in Int /\ equity[window[k]] \in Int /\ equity[j] \in Int
    BY <1>4, <1>7, <1>8, <2>2, <2>4
  <2>8. QED BY <2>1, <2>3, <2>6, <2>7
<1> HIDE DEF S, m
<1>11. Max(S) = m
  BY <1>9, <1>10, MaxIs
<1>12. QED BY <1>6, <1>11 DEF S, m, from, low

WindowInv(b, i) == DOMAIN b = BtFields /\ b.i \in Nat /\ Deque(b.window, b.equity, i)

LEMMA WindowMark ==
  ASSUME NEW b, WindowInv(b, b.i - 1), b.i > 0, LedgerInv(b), ind[b.i].close \in Int
  PROVE  WindowInv(Mark(b), b.i)
<1> DEFINE a == Mark(b)
           v == b.capital + Unrealized(b)
           kept == Max({0} \cup {k \in DOMAIN b.window : b.equity[b.window[k]] > v})
           w == Append(SubSeq(b.window, 1, kept), b.i)
<1>1. DOMAIN b = BtFields /\ b.i \in Nat \ {0} /\ Deque(b.window, b.equity, b.i - 1)
  BY DEF WindowInv
<1>2. v \in Int
  <2>1. b.capital \in Int /\ (b.open # NoTrade =>
          b.open.side \in Int /\ b.open.entry_price \in Int /\ b.open.size \in Int)
    BY DEF LedgerInv, Sound, TradeTyped
  <2>2. Unrealized(b) \in Int
    BY <2>1 DEF Unrealized
  <2>3. QED BY <2>1, <2>2
<1>3. /\ DOMAIN a = BtFields /\ a.i = b.i /\ a.equity = Append(b.equity, v)
      /\ LET k == Max({0} \cup {j \in DOMAIN b.window : b.equity[b.window[j]] > Last(a.equity)})
             x == Append(SubSeq(b.window, 1, k), b.i)
         IN a.window = IF Head(x) <= b.i - RiskWindow THEN Tail(x) ELSE x
  BY <1>1, Marked
<1> HIDE DEF a, v
<1>4. Last(a.equity) = v
  <2>1. b.equity \in Seq(Int)
    BY <1>1 DEF Deque
  <2>2. QED BY <1>2, <1>3, <2>1 DEF Last
<1>5. a.window = IF Head(w) <= b.i - RiskWindow THEN Tail(w) ELSE w
  BY <1>3, <1>4
<1>6. Deque(a.window, a.equity, b.i)
  <2> DEFINE last == IF Head(w) <= b.i - RiskWindow THEN Tail(w) ELSE w
             more == Append(b.equity, v)
  <2>1. Deque(last, more, b.i)
    BY <1>1, <1>2, DequePushed
  <2>2. a.window = last /\ a.equity = more
    BY <1>3, <1>5
  <2> HIDE DEF last, more
  <2>3. QED BY <2>1, <2>2
<1>7. QED BY <1>1, <1>3, <1>6 DEF WindowInv, a

-----------------------------------------------------------------------------
(* Equity and capital: nothing is left open whose result nobody books.     *)

\* The trade entered at the close of its row, and leaves at a row of the frame.
Priced(t) ==
  /\ t.entry_price = ind[t.entry_idx].close /\ t.exit_idx \in Int /\ t.exit_idx <= Len(ind)

\* An open trade has its exit ahead, or has just been opened.
StillOpen(b) ==
  b.open # NoTrade => Priced(b.open) /\ (b.i < b.open.exit_idx \/ b.open.entry_idx = b.i)

MarkedInv(b) ==
  /\ StillOpen(b)
  /\ b.i = 0 => b.capital = InitialCapital /\ b.equity = <<>>
  /\ b.i > 0 => b.equity # <<>> /\ Last(b.equity) = b.capital + Unrealized(b)

LEMMA OpenTry ==
  ASSUME NEW s, NEW b, NEW score, DOMAIN b = BtFields, NEW n, Indicated(ind, n),
         b.open # NoTrade => Priced(b.open) /\ b.i < b.open.exit_idx,
         LabelsOn(b.labels, ind, events[study.trigger], n), b.ptr \in Nat \ {0},
         Len(EventIdx(b)) \in Nat,
         \A k \in 1..Len(EventIdx(b)) : EventIdx(b)[k] \in DOMAIN b.labels
  PROVE  StillOpen(TryOpen(s, b, score))
<1> DEFINE a == TryOpen(s, b, score)
<1>1. a.i = b.i /\ (Passes(b, a) \/ Refuses(b, a) \/ Opens(s, b, a))
  BY Tried
<1> HIDE DEF a
<1>2. CASE Passes(b, a) \/ Refuses(b, a)
  <2>1. a.open = b.open
    BY <1>2 DEF Passes, Refuses
  <2>2. StillOpen(a)
    BY <1>1, <2>1 DEF StillOpen
  <2>3. QED BY <2>2 DEF a
<1>3. CASE Opens(s, b, a)
  <2>1. Flat(b) /\ a.open = TradeAt(s, b)
    BY <1>3 DEF Opens
  <2>2. b.i \in DOMAIN b.labels
    BY <2>1 DEF Flat
  <2>3. LabelTyped(b.labels[b.i], ind, b.i)
    BY <2>2 DEF LabelsOn
  <2> DEFINE t == TradeAt(s, b)
             label == b.labels[b.i]
  <2>4. t.entry_idx = b.i /\ t.entry_price = label.entry_price /\ t.exit_idx = label.exit_idx
    BY DEF TradeAt, OpenTrade
  <2> HIDE DEF t
  <2>5. Priced(t) /\ t.entry_idx = b.i
    BY <2>3, <2>4 DEF Priced, LabelTyped
  <2>6. StillOpen(a)
    BY <1>1, <2>1, <2>5 DEF StillOpen, t
  <2>7. QED BY <2>6 DEF a
<1>4. QED BY <1>1, <1>2, <1>3

\* The equity of a row is marked to its close.
LEMMA MarkMarks ==
  ASSUME NEW b, DOMAIN b = BtFields, StillOpen(b), b.i \in Nat \ {0}, b.equity \in Seq(Int),
         b.capital + Unrealized(b) \in Int
  PROVE  MarkedInv(Mark(b))
<1> DEFINE a == Mark(b)
           v == b.capital + Unrealized(b)
<1>1. /\ a.i = b.i /\ a.capital = b.capital /\ a.open = b.open
      /\ a.equity = Append(b.equity, v)
  BY Marked
<1> HIDE DEF a
<1>2. Unrealized(a) = Unrealized(b) /\ StillOpen(a)
  BY <1>1 DEF Unrealized, StillOpen
<1>3. v \in Int
  OBVIOUS
<1>4. v = a.capital + Unrealized(a)
  BY <1>1, <1>2
<1> HIDE DEF v
<1>5. a.equity # <<>> /\ Last(a.equity) = v
  <2> DEFINE q == b.equity
             more == Append(q, v)
  <2>1. q \in Seq(Int)
    OBVIOUS
  <2> HIDE DEF q
  <2>2. Len(more) = Len(q) + 1 /\ Len(q) \in Nat /\ more[Len(q) + 1] = v
    BY <1>3, <2>1
  <2>3. a.equity = more
    BY <1>1 DEF q
  <2> HIDE DEF more
  <2>4. more # <<>>
    <3>1. SUFFICES ASSUME more = <<>> PROVE FALSE
      OBVIOUS
    <3>2. Len(more) = 0
      BY <3>1
    <3>3. QED BY <2>2, <3>2
  <2>5. Last(more) = v
    BY <2>2 DEF Last
  <2>6. QED BY <2>3, <2>4, <2>5
<1>6. MarkedInv(a)
  BY <1>1, <1>2, <1>4, <1>5 DEF MarkedInv
<1>7. QED BY <1>6 DEF a

-----------------------------------------------------------------------------
(* The invariant of a study.                                               *)

StudySpec == StudyInit /\ [][StudyNext]_studyVars

ReplayInv(b) == EventInv(b, b.i) /\ LedgerInv(b) /\ WindowInv(b, b.i)

StudyInv ==
  /\ ReadInv
  /\ ReplayInv(bt) /\ MarkedInv(bt)
  /\ phase = "replay" => bt.i < Len(ind)
  /\ phase = "done" => bt.i \in {0, Len(ind)}

\* A study that has not begun.
Fresh(b, labels) ==
  /\ DOMAIN b = BtFields /\ b.labels = labels /\ b.i = 0 /\ b.capital = InitialCapital
  /\ b.open = NoTrade /\ b.trades = <<>> /\ b.equity = <<>> /\ b.window = <<>>
  /\ b.ptr = 1 /\ b.refused = {}

LEMMA NewIsFresh ==
  ASSUME NEW labels
  PROVE  Fresh(NewBacktest, <<>>) /\ Fresh([NewBacktest EXCEPT !.labels = labels], labels)
BY DEF Fresh, NewBacktest, BtFields

LEMMA FreshInv ==
  ASSUME NEW labels, NEW n \in Nat, DOMAIN labels \subseteq 1..n, NEW b, Fresh(b, labels)
  PROVE  ReplayInv(b)
<1>1. /\ DOMAIN b = BtFields /\ b.labels = labels /\ b.i = 0 /\ b.capital = InitialCapital
      /\ b.open = NoTrade /\ b.trades = <<>> /\ b.equity = <<>> /\ b.window = <<>>
      /\ b.ptr = 1 /\ b.refused = {}
  BY DEF Fresh
<1>2. Sequence(b.trades) /\ Len(b.trades) = 0
  <2>1. <<>> \in Seq({})
    OBVIOUS
  <2>2. QED BY <1>1, <2>1 DEF Sequence
<1>3. \A e \in DOMAIN labels : ~(e <= 0)
  OBVIOUS
<1>4. EventInv(b, b.i)
  BY <1>1, <1>2, <1>3 DEF EventInv, PassedInv, DoneInv, ApartInv
<1>5. b.capital \in Int /\ b.capital = CapitalAt(b.trades, 0 + 1)
  <2> DEFINE h == Pnls(b.trades, 0)
  <2>1. h \in [{} -> Int]
    BY DEF Pnls
  <2> HIDE DEF h
  <2>2. SumSeq(h) = 0
    BY <2>1, SumSeqEmpty
  <2>3. CapitalAt(b.trades, 0 + 1) = InitialCapital + SumSeq(h)
    BY DEF CapitalAt, h
  <2>4. InitialCapital \in Int
    BY StudyAssumption
  <2>5. QED BY <1>1, <2>2, <2>3, <2>4
<1>6. LedgerInv(b)
  BY <1>1, <1>2, <1>5 DEF LedgerInv
<1>7. Deque(b.window, b.equity, b.i)
  BY <1>1 DEF Deque, InRows, Descends, Dominated
<1>8. WindowInv(b, b.i)
  BY <1>1, <1>7 DEF WindowInv
<1>9. QED BY <1>1, <1>4, <1>6, <1>8 DEF ReplayInv

LEMMA FreshMarked ==
  ASSUME NEW b, b.open = NoTrade, b.i = 0, b.capital = InitialCapital, b.equity = <<>>
  PROVE  MarkedInv(b)
BY DEF MarkedInv, StillOpen

LEMMA StudyInitInv == StudyInit => StudyInv
<1> SUFFICES ASSUME StudyInit PROVE StudyInv
  OBVIOUS
<1>1. ReadInv /\ phase = "reading" /\ bt = NewBacktest
  BY ReadInit DEF StudyInit
<1>2. DOMAIN <<>> \subseteq 1..0
  OBVIOUS
<1>3. Fresh(NewBacktest, <<>>)
  BY NewIsFresh
<1>4. ReplayInv(NewBacktest)
  BY <1>2, <1>3, FreshInv
<1>5. MarkedInv(NewBacktest)
  BY <1>3, FreshMarked DEF Fresh
<1>6. QED BY <1>1, <1>4, <1>5 DEF StudyInv

LEMMA BarInv ==
  ASSUME StudyInv, NEW bar \in Bars, NewBar(bar)
  PROVE  StudyInv'
<1>1. IsBar(bar)
  BY BarsAssumption
<1>2. /\ phase = "reading" /\ Len(ind) < MaxBars /\ ind' = AddIndicators(Append(ind, bar))
      /\ events' = [t \in TriggerNames |-> Signals(t, ind')]
      /\ phase' = phase /\ study' = study /\ bt' = bt
  BY DEF NewBar
<1>3. Sequence(ind) /\ Indicated(ind, Len(ind)) /\ bt = NewBacktest /\ Len(ind) \in Nat
  BY <1>2, SequenceShape DEF StudyInv, ReadInv
<1>4. Sequence(ind') /\ Len(ind') = Len(ind) + 1 /\ Indicated(ind', Len(ind) + 1)
  BY <1>1, <1>2, <1>3, FrameGrows
<1>5. Indicated(ind', Len(ind'))
  BY <1>4
<1>6. Len(ind') <= MaxBars
  BY <1>2, <1>3, <1>4, StudyAssumption
<1>7. ASSUME NEW t \in TriggerNames PROVE IsSignals(events'[t], Len(ind'))
  <2>1. Frame(ind', Len(ind'))
    BY <1>5 DEF Indicated
  <2>2. IsSignals(Signals(t, ind'), Len(ind'))
    BY <2>1, SignalsAreTyped
  <2>3. QED BY <1>2, <2>2
<1>8. ReadInv'
  BY <1>2, <1>3, <1>4, <1>5, <1>6, <1>7 DEF ReadInv
<1>9. ReplayInv(bt)'
  <2>1. ReplayInv(bt) /\ bt.trades = <<>> /\ bt.open = NoTrade
    BY <1>3 DEF StudyInv, NewBacktest
  <2>2. LedgerInv(bt)'
    BY <1>2, <2>1 DEF ReplayInv, LedgerInv, CapitalAt, Pnls
  <2>3. QED BY <1>2, <2>1, <2>2 DEF ReplayInv, EventInv, PassedInv, DoneInv, ApartInv, WindowInv,
             EventIdx, Accounted, TradedBy
<1>10. MarkedInv(bt)'
  <2>1. bt'.open = NoTrade /\ bt'.i = 0 /\ bt'.capital = InitialCapital /\ bt'.equity = <<>>
    BY <1>2, <1>3 DEF NewBacktest
  <2>2. QED BY <2>1 DEF MarkedInv, StillOpen
<1>11. QED BY <1>2, <1>8, <1>9, <1>10 DEF StudyInv

LEMMA StartInv ==
  ASSUME StudyInv, NEW s \in Studies, Start(s)
  PROVE  StudyInv'
<1> DEFINE labels == Labels(s.labeler, ind, events[s.trigger])
           b == [NewBacktest EXCEPT !.labels = labels]
<1>1. /\ phase = "reading" /\ Len(ind) = MaxBars /\ study' = s /\ bt' = b
      /\ phase' \in {"done", "replay"}
      /\ ind' = ind /\ events' = events
  BY DEF Start
<1>2. /\ Sequence(ind) /\ Indicated(ind, Len(ind)) /\ Len(ind) \in Nat
      /\ \A t \in TriggerNames : IsSignals(events[t], Len(ind))
  BY SequenceShape DEF StudyInv, ReadInv
<1>3. s.trigger \in TriggerNames /\ s.labeler \in LabelerNames
  BY StudiesAssumption
<1>4. LabelsOn(labels, ind, events[s.trigger], Len(ind))
  BY <1>2, <1>3, StudyLabels
<1> HIDE DEF labels
<1>5. b.labels = labels /\ b.i = 0 /\ ReplayInv(b)
  <2>1. Fresh(b, labels)
    BY NewIsFresh
  <2>2. DOMAIN labels \subseteq 1..Len(ind)
    BY <1>4 DEF LabelsOn
  <2> HIDE DEF b
  <2>3. ReplayInv(b)
    BY <1>2, <2>1, <2>2, FreshInv
  <2>4. QED BY <2>1, <2>3 DEF Fresh
<1>6. b.open = NoTrade /\ b.trades = <<>> /\ b.capital = InitialCapital /\ b.equity = <<>>
  BY DEF NewBacktest
<1> HIDE DEF b
<1>7. ReadInv'
  BY <1>1, <1>2, <1>4, <1>5, StudyAssumption DEF ReadInv
<1>8. ReplayInv(bt)'
  <2>1. LedgerInv(bt)'
    BY <1>1, <1>5, <1>6 DEF ReplayInv, LedgerInv, CapitalAt, Pnls
  <2>2. QED BY <1>1, <1>5, <2>1 DEF ReplayInv, EventInv, PassedInv, DoneInv, ApartInv, WindowInv,
             EventIdx, Accounted, TradedBy
<1>9. bt'.i < Len(ind') /\ bt'.i = 0
  BY <1>1, <1>5, StudyAssumption
<1>10. MarkedInv(bt)'
  BY <1>1, <1>5, <1>6 DEF MarkedInv, StillOpen
<1>11. QED BY <1>7, <1>8, <1>9, <1>10 DEF StudyInv

\* One pass of the loop.
LEMMA PassInv ==
  ASSUME study \in Studies, NEW n \in Nat, Indicated(ind, n), NEW b, ReplayInv(b), b.i < n,
         LabelsOn(b.labels, ind, events[study.trigger], n), NEW score
  PROVE  LET a == Mark(TryOpen(study, SkipPast(CloseTrade([b EXCEPT !.i = @ + 1])), score))
         IN /\ ReplayInv(a) /\ a.i = b.i + 1 /\ a.labels = b.labels
            /\ StillOpen(b) => MarkedInv(a)
<1> DEFINE b1 == [b EXCEPT !.i = @ + 1]
           b2 == CloseTrade(b1)
           b3 == SkipPast(b2)
           b4 == TryOpen(study, b3, score)
           b5 == Mark(b4)
           E == DOMAIN b.labels
<1>1. EventInv(b, b.i) /\ LedgerInv(b) /\ WindowInv(b, b.i) /\ b.i \in Nat /\ DOMAIN b = BtFields
  BY DEF ReplayInv, EventInv
<1>2. E \subseteq 1..n
  BY DEF LabelsOn
<1>3. /\ b1.i = b.i + 1 /\ b1.labels = b.labels /\ EventInv(b1, b.i) /\ LedgerInv(b1)
      /\ b1.window = b.window /\ b1.equity = b.equity /\ DOMAIN b1 = BtFields
      /\ b1.open = b.open
  BY <1>1, EventsAdvance, LedgerAdvance, Advanced
<1> HIDE DEF b1
<1>4. /\ b2.i = b.i + 1 /\ b2.labels = b.labels /\ EventInv(b2, b.i) /\ LedgerInv(b2)
      /\ b2.open # NoTrade => b2.i < b2.open.exit_idx
  BY <1>1, <1>3, EventsClose, LedgerClose
<1>5. /\ b2.window = b.window /\ b2.equity = b.equity /\ DOMAIN b2 = BtFields
      /\ b2.open = b.open \/ b2.open = NoTrade
  BY <1>3, Closed
<1> HIDE DEF b2
<1>6. b2.i - 1 = b.i
  BY <1>1, <1>4
<1>7. EventInv(b2, b2.i - 1) /\ DOMAIN b2.labels \subseteq 1..n
  BY <1>2, <1>4, <1>6
<1>8. /\ b3.i = b.i + 1 /\ b3.labels = b.labels /\ EventInv(b3, b3.i - 1)
      /\ b3.open # NoTrade => b3.i < b3.open.exit_idx
      /\ b3.i \in DOMAIN b3.labels => b3.ptr <= Len(EventIdx(b3)) /\ EventIdx(b3)[b3.ptr] = b3.i
  BY <1>4, <1>7, EventsSkip
<1>9. LedgerInv(b3)
  BY <1>4, <1>8, LedgerSkip DEF EventInv
<1>10. /\ b3.window = b.window /\ b3.equity = b.equity /\ DOMAIN b3 = BtFields
       /\ b3.open = b2.open
  BY <1>5, Skipped
<1> HIDE DEF b3
<1>11. /\ Len(EventIdx(b3)) \in Nat
       /\ \A k \in 1..Len(EventIdx(b3)) :
            EventIdx(b3)[k] \in DOMAIN b3.labels /\ EventIdx(b3)[k] \in Int
  BY <1>2, <1>8, EventOrder
<1>12. \A e \in DOMAIN b3.labels : e \in Int /\ b3.labels[e].exit_idx \in Int
  BY <1>2, <1>8 DEF LabelsOn, LabelTyped
<1>13. b4.i = b3.i /\ b4.labels = b3.labels /\ EventInv(b4, b4.i)
  BY <1>8, <1>11, <1>12, EventsTry
<1>14. LedgerInv(b4)
  <2>1. LabelsOn(b3.labels, ind, events[study.trigger], n)
    BY <1>8
  <2>2. QED BY <1>9, <1>11, <2>1, LedgerTry
<1>24. StillOpen(b) => StillOpen(b4)
  <2>1. SUFFICES ASSUME StillOpen(b) PROVE StillOpen(b4)
    OBVIOUS
  <2>2. b3.open # NoTrade => Priced(b3.open) /\ b3.i < b3.open.exit_idx
    BY <1>5, <1>8, <1>10, <2>1 DEF StillOpen
  <2>3. LabelsOn(b3.labels, ind, events[study.trigger], n) /\ b3.ptr \in Nat \ {0}
    BY <1>8 DEF EventInv
  <2>4. QED BY <1>10, <1>11, <2>2, <2>3, OpenTry
<1>15. b4.window = b.window /\ b4.equity = b.equity /\ DOMAIN b4 = BtFields
  BY <1>10, Tried
<1> HIDE DEF b4
<1>16. b5.i = b4.i /\ b5.labels = b4.labels /\ EventInv(b5, b5.i) /\ LedgerInv(b5)
  BY <1>13, <1>14, EventsMark, LedgerMark
<1>17. b4.i = b.i + 1 /\ b4.i - 1 = b.i /\ b4.i \in 1..n /\ b4.i > 0
  BY <1>1, <1>8, <1>13
<1>18. WindowInv(b4, b4.i - 1)
  BY <1>1, <1>15, <1>17 DEF WindowInv
<1>19. ind[b4.i].close \in Int
  BY <1>17, RowTyped
<1>20. WindowInv(b5, b4.i)
  BY <1>14, <1>17, <1>18, <1>19, WindowMark
<1>25. StillOpen(b) => MarkedInv(b5)
  <2>1. SUFFICES ASSUME StillOpen(b) PROVE MarkedInv(b5)
    OBVIOUS
  <2>2. b4.equity \in Seq(Int)
    BY <1>18 DEF WindowInv, Deque
  <2>3. b4.capital + Unrealized(b4) \in Int
    <3>1. b4.capital \in Int /\ (b4.open # NoTrade =>
            b4.open.side \in Int /\ b4.open.entry_price \in Int /\ b4.open.size \in Int)
      BY <1>14 DEF LedgerInv, Sound, TradeTyped
    <3>2. Unrealized(b4) \in Int
      BY <1>19, <3>1 DEF Unrealized
    <3>3. QED BY <3>1, <3>2
  <2>4. b4.i \in Nat \ {0} /\ StillOpen(b4)
    BY <1>17, <1>24, <2>1
  <2>5. QED BY <1>15, <2>2, <2>3, <2>4, MarkMarks
<1> HIDE DEF b5
<1>21. ReplayInv(b5) /\ b5.i = b.i + 1 /\ b5.labels = b.labels
  BY <1>8, <1>13, <1>16, <1>17, <1>20 DEF ReplayInv
<1>22. QED BY <1>21, <1>25 DEF b1, b2, b3, b4, b5

LEMMA ReplayBarInv ==
  ASSUME StudyInv, NEW score, ReplayBar(score)
  PROVE  StudyInv'
<1> DEFINE a == Mark(TryOpen(study, SkipPast(CloseTrade([bt EXCEPT !.i = @ + 1])), score))
<1>1. /\ phase = "replay" /\ bt' = a /\ phase' = IF bt'.i = Len(ind) THEN "done" ELSE "replay"
      /\ ind' = ind /\ events' = events /\ study' = study
  BY DEF ReplayBar
<1>2. /\ Sequence(ind) /\ Indicated(ind, Len(ind)) /\ Len(ind) \in Nat /\ study \in Studies
      /\ LabelsOn(bt.labels, ind, events[study.trigger], Len(ind))
      /\ ReplayInv(bt) /\ bt.i < Len(ind) /\ bt.i \in Nat
  BY <1>1, SequenceShape DEF StudyInv, ReadInv, ReplayInv, EventInv
<1>3. ReplayInv(a) /\ a.i = bt.i + 1 /\ a.labels = bt.labels /\ MarkedInv(a)
  <2>1. StillOpen(bt)
    BY DEF StudyInv, MarkedInv
  <2>2. QED BY <1>2, <2>1, PassInv
<1> HIDE DEF a
<1>4. ReplayInv(bt)'
  <2>1. LedgerInv(bt)'
    BY <1>1, <1>3 DEF ReplayInv, LedgerInv, CapitalAt, Pnls, Sound, MarketPaid, Budgeted, TradeTyped
  <2>2. QED BY <1>1, <1>3, <2>1 DEF ReplayInv, EventInv, PassedInv, DoneInv, ApartInv, WindowInv,
             EventIdx, Accounted, TradedBy
<1>5. IF bt'.i = Len(ind') THEN phase' = "done" ELSE bt'.i < Len(ind') /\ phase' = "replay"
  BY <1>1, <1>2, <1>3
<1>6. ReadInv'
  BY <1>1, <1>2, <1>3, StudyAssumption DEF StudyInv, ReadInv
<1>7. MarkedInv(bt)'
  BY <1>1, <1>3 DEF MarkedInv, StillOpen, Priced, Unrealized
<1>8. QED BY <1>1, <1>4, <1>5, <1>6, <1>7 DEF StudyInv

LEMMA StudyNextInv == StudyInv /\ [StudyNext]_studyVars => StudyInv'
<1> SUFFICES ASSUME StudyInv, [StudyNext]_studyVars PROVE StudyInv'
  OBVIOUS
<1>1. CASE \E bar \in Bars : NewBar(bar)
  BY <1>1, BarInv
<1>2. CASE \E s \in Studies : Start(s)
  BY <1>2, StartInv
<1>3. CASE \E score \in BOOLEAN : ReplayBar(score)
  BY <1>3, ReplayBarInv
<1>4. CASE UNCHANGED studyVars
  <2>1. ind' = ind /\ events' = events /\ phase' = phase /\ study' = study /\ bt' = bt
    BY <1>4 DEF studyVars
  <2>2. ReadInv'
    BY <2>1 DEF StudyInv, ReadInv
  <2>3. LedgerInv(bt)'
    BY <2>1 DEF StudyInv, ReplayInv, LedgerInv, CapitalAt, Pnls, Sound, MarketPaid, Budgeted,
        TradeTyped
  <2>4. ReplayInv(bt)'
    BY <2>1, <2>3 DEF StudyInv, ReplayInv, EventInv, PassedInv, DoneInv, ApartInv, WindowInv,
        EventIdx, Accounted, TradedBy
  <2>5. MarkedInv(bt)'
    BY <2>1 DEF StudyInv, MarkedInv, StillOpen, Priced, Unrealized
  <2>6. QED BY <2>1, <2>2, <2>4, <2>5 DEF StudyInv
<1>5. QED BY <1>1, <1>2, <1>3, <1>4 DEF StudyNext

LEMMA StudyInvariant == StudySpec => []StudyInv
<1>1. QED BY StudyInitInv, StudyNextInv, PTL DEF StudySpec

LEMMA AllTradesShape ==
  ASSUME StudyInv
  PROVE  /\ bt.i \in Nat /\ Sequence(bt.trades) /\ Len(bt.trades) \in Nat
         /\ DOMAIN bt.trades = 1..Len(bt.trades)
         /\ bt.open = NoTrade => AllTrades = bt.trades /\ DOMAIN AllTrades = 1..Len(bt.trades)
         /\ bt.open # NoTrade =>
              /\ DOMAIN AllTrades = 1..Len(bt.trades)+1
              /\ \A k \in 1..Len(bt.trades) : AllTrades[k] = bt.trades[k]
              /\ AllTrades[Len(bt.trades)+1] = bt.open
<1>1. bt.i \in Nat /\ Sequence(bt.trades)
  BY DEF StudyInv, ReplayInv, EventInv
<1>2. Len(bt.trades) \in Nat /\ DOMAIN bt.trades = 1..Len(bt.trades)
  BY <1>1, SequenceShape
<1>3. CASE bt.open = NoTrade
  BY <1>1, <1>2, <1>3 DEF AllTrades
<1>4. CASE bt.open # NoTrade
  <2>1. AllTrades = Append(bt.trades, bt.open)
    BY <1>4 DEF AllTrades
  <2>2. QED BY <1>1, <1>2, <1>4, <2>1, Appended
<1>5. QED BY <1>3, <1>4

LEMMA InvAccounts == StudyInv => EveryEventAccounted
<1> SUFFICES ASSUME StudyInv PROVE EveryEventAccounted
  OBVIOUS
<1> DEFINE n == Len(bt.trades)
           T == AllTrades
<1>1. /\ bt.i \in Nat /\ n \in Nat
      /\ bt.open = NoTrade => T = bt.trades /\ DOMAIN T = 1..n
      /\ bt.open # NoTrade =>
           DOMAIN T = 1..n+1 /\ (\A k \in 1..n : T[k] = bt.trades[k]) /\ T[n+1] = bt.open
  BY AllTradesShape
<1>2. DoneInv(bt, bt.i) /\ ApartInv(bt, bt.i)
  BY DEF StudyInv, ReplayInv, EventInv
<1> HIDE DEF n, T
<1>3. \A k \in 1..n : k \in DOMAIN T /\ T[k] = bt.trades[k]
  BY <1>1
<1>4. bt.open # NoTrade => n + 1 \in DOMAIN T /\ T[n+1] = bt.open
  BY <1>1
<1>5. ASSUME NEW e \in DOMAIN bt.labels, e <= bt.i
      PROVE  e \in bt.refused \/ \E k \in DOMAIN T : Covers(T[k], e)
  <2>1. Accounted(bt, e)
    BY <1>2, <1>5 DEF DoneInv
  <2>2. CASE bt.open # NoTrade /\ Covers(bt.open, e)
    BY <1>4, <2>2
  <2>3. CASE TradedBy(bt.trades, e)
    <3>1. PICK k \in 1..n : Covers(bt.trades[k], e)
      BY <2>3 DEF TradedBy, n
    <3>2. QED BY <1>3, <3>1
  <2>4. QED BY <2>1, <2>2, <2>3 DEF Accounted
<1>6. ASSUME NEW k \in DOMAIN T
      PROVE  T[k].entry_idx \notin bt.refused /\ (k > 1 => T[k-1].exit_idx <= T[k].entry_idx)
  <2>1. k \in 1..n \/ (bt.open # NoTrade /\ k = n + 1)
    BY <1>1
  <2>2. CASE k \in 1..n
    <3>1. T[k] = bt.trades[k] /\ (k > 1 => T[k-1] = bt.trades[k-1])
      BY <1>1, <1>3, <2>2
    <3>2. QED BY <1>2, <2>2, <3>1 DEF ApartInv, n
  <2>3. CASE bt.open # NoTrade /\ k = n + 1
    <3>1. T[k] = bt.open /\ (k > 1 => n > 0 /\ T[k-1] = bt.trades[n])
      BY <1>1, <1>3, <1>4, <2>3
    <3>2. QED BY <1>2, <2>3, <3>1 DEF ApartInv, n
  <2>4. QED BY <2>1, <2>2, <2>3
<1>7. QED BY <1>5, <1>6 DEF EveryEventAccounted, Covers, T

LEMMA InvPeak == StudyInv => PeakOfWindow
<1> SUFFICES ASSUME StudyInv, bt.i > 0
             PROVE  bt.equity[Head(bt.window)]
                      = Max({bt.equity[k] : k \in Max({1, bt.i - RiskWindow + 1}) .. bt.i})
  BY DEF PeakOfWindow
<1>1. bt.i \in Nat \ {0} /\ Deque(bt.window, bt.equity, bt.i)
  BY DEF StudyInv, ReplayInv, WindowInv
<1>2. QED BY <1>1, PeakIsMax

LEMMA InvBudget == StudyInv => RiskWithinBudget
<1> SUFFICES ASSUME StudyInv PROVE RiskWithinBudget
  OBVIOUS
<1> DEFINE n == Len(bt.trades)
           T == AllTrades
<1>1. /\ n \in Nat
      /\ bt.open = NoTrade => T = bt.trades /\ DOMAIN T = 1..n
      /\ bt.open # NoTrade =>
           DOMAIN T = 1..n+1 /\ (\A k \in 1..n : T[k] = bt.trades[k]) /\ T[n+1] = bt.open
  BY AllTradesShape
<1>2. LedgerInv(bt)
  BY DEF StudyInv, ReplayInv
<1> HIDE DEF n, T
<1>3. ASSUME NEW k PROVE Booked(k) = CapitalAt(bt.trades, k)
  BY DEF Booked, CapitalAt, Pnls
<1>4. ASSUME NEW k \in DOMAIN T PROVE Budgeted(T[k], Booked(k))
  <2>1. k \in 1..n \/ (bt.open # NoTrade /\ k = n + 1)
    BY <1>1
  <2>2. CASE k \in 1..n
    <3>1. T[k] = bt.trades[k]
      BY <1>1, <2>2
    <3>2. Sound(bt.trades[k], CapitalAt(bt.trades, k))
      BY <1>2, <2>2 DEF LedgerInv, n
    <3>3. QED BY <1>3, <3>1, <3>2 DEF Sound
  <2>3. CASE bt.open # NoTrade /\ k = n + 1
    <3>1. T[k] = bt.open
      BY <1>1, <2>3
    <3>2. Sound(bt.open, bt.capital) /\ bt.capital = CapitalAt(bt.trades, n + 1)
      BY <1>2, <2>3 DEF LedgerInv, n
    <3>3. QED BY <1>3, <2>3, <3>1, <3>2 DEF Sound
  <2>4. QED BY <2>1, <2>2, <2>3
<1>5. QED BY <1>4 DEF RiskWithinBudget, Budgeted, T

\* At the end every result is booked: what is open was entered at the last close.
LEMMA DoneEquity ==
  ASSUME StudyInv, phase = "done"
  PROVE  (IF bt.equity = <<>> THEN 0 ELSE Last(bt.equity) - InitialCapital)
           = bt.capital - InitialCapital
<1>1. MarkedInv(bt) /\ LedgerInv(bt) /\ bt.i \in {0, Len(ind)} /\ bt.capital \in Int
  BY DEF StudyInv, ReplayInv, LedgerInv
<1>2. InitialCapital \in Int
  BY StudyAssumption
<1>3. CASE bt.i = 0
  BY <1>1, <1>2, <1>3 DEF MarkedInv
<1>4. CASE bt.i # 0
  <2>1. bt.i = Len(ind) /\ bt.i \in Nat \ {0}
    BY <1>1, <1>4, SequenceShape DEF StudyInv, ReadInv
  <2>2. Unrealized(bt) = 0
    <3>1. SUFFICES ASSUME bt.open # NoTrade PROVE Unrealized(bt) = 0
      BY DEF Unrealized
    <3>2. Priced(bt.open) /\ bt.open.entry_idx = bt.i
      BY <1>1, <2>1, <3>1 DEF MarkedInv, StillOpen, Priced
    <3>3. bt.open.side \in Int /\ bt.open.size \in Int /\ bt.open.entry_price \in Int
      BY <1>1, <3>1 DEF LedgerInv, Sound, TradeTyped
    <3>4. ind[bt.i].close = bt.open.entry_price
      BY <3>2 DEF Priced
    <3>5. Unrealized(bt) = bt.open.side * (bt.open.entry_price - bt.open.entry_price) * bt.open.size
      BY <3>1, <3>4 DEF Unrealized
    <3> DEFINE price == bt.open.entry_price
               side == bt.open.side
               size == bt.open.size
    <3>6. price \in Int /\ side \in Int /\ size \in Int
      BY <3>3
    <3> HIDE DEF price, side, size
    <3>7. price - price = 0 /\ side * 0 = 0 /\ 0 * size = 0
      BY <3>6
    <3>8. QED BY <3>5, <3>7 DEF price, side, size
  <2>3. bt.equity # <<>> /\ Last(bt.equity) = bt.capital
    BY <1>1, <2>1, <2>2 DEF MarkedInv
  <2>4. QED BY <2>3
<1>5. QED BY <1>3, <1>4

LEMMA InvReport == StudyInv => ReportMatchesLedger
<1> SUFFICES ASSUME StudyInv PROVE ReportMatchesLedger
  OBVIOUS
<1> DEFINE n == Len(bt.trades)
           S == 1..n
           pnls == [k \in DOMAIN bt.trades |-> bt.trades[k].pnl]
           raws == [k \in DOMAIN bt.trades |-> bt.trades[k].raw]
           fees == [k \in DOMAIN bt.trades |->
                 Fee(ReportedCommission, (bt.trades[k].entry_price + bt.trades[k].exit_price)
                                 * bt.trades[k].size)]
           r == Report(bt)
           W == Winners(pnls)
           L == Losers(pnls)
<1>1. n \in Nat /\ DOMAIN bt.trades = S
  BY AllTradesShape
<1>2. LedgerInv(bt)
  BY DEF StudyInv, ReplayInv
<1>3. \A k \in S : TradeTyped(bt.trades[k]) /\ MarketPaid(bt.trades[k])
  BY <1>2 DEF LedgerInv, Sound
<1>4. /\ r.final_capital = bt.capital
      /\ r.total_return = IF bt.equity = <<>> THEN 0 ELSE Last(bt.equity) - InitialCapital
      /\ r.gain = SumFunctionOnSet(pnls, W) /\ r.loss = SumFunctionOnSet(pnls, L)
      /\ r.total_fees = SumSeq(fees)
  BY DEF Report
<1>5. IsFiniteSet(S)
  <2>1. 1 \in Int /\ n \in Int
    BY <1>1
  <2>2. QED BY <2>1, FS_Interval
<1>6. pnls \in [S -> Int] /\ raws \in [S -> Int]
  BY <1>1, <1>3 DEF TradeTyped
<1>7. fees \in [S -> Int]
  <2>1. ASSUME NEW k \in S
        PROVE  Fee(ReportedCommission, (bt.trades[k].entry_price + bt.trades[k].exit_price)
                               * bt.trades[k].size) \in Int
    <3> DEFINE amount == (bt.trades[k].entry_price + bt.trades[k].exit_price) * bt.trades[k].size
    <3>1. amount \in Int
      <4>1. /\ bt.trades[k].entry_price \in Int /\ bt.trades[k].exit_price \in Int
            /\ bt.trades[k].size \in Int
        BY <1>3 DEF TradeTyped
      <4>2. QED BY <4>1
    <3> HIDE DEF amount
    <3>2. Fee(ReportedCommission, amount) \in Int
      BY <3>1, FeeInt, StudyAssumption
    <3>3. QED BY <3>2 DEF amount
  <2>2. QED BY <1>1, <2>1
<1>8. W = {x \in S : pnls[x] > 0} /\ L = {x \in S : pnls[x] < 0}
  BY <1>1 DEF Winners, Losers
<1>10. pnls = Pnls(bt.trades, n)
  BY <1>1 DEF Pnls
<1>11. \A k \in S : pnls[k] = bt.trades[k].pnl /\ raws[k] = bt.trades[k].raw
  BY <1>1
<1>12. ~study.limit /\ study.commission = ReportedCommission =>
         \A k \in S : pnls[k] = raws[k] - fees[k]
  BY <1>1, <1>3, <1>11 DEF MarketPaid
<1> DEFINE sum == SumFunction(pnls)
<1> HIDE DEF r, fees, raws, pnls
<1>13. bt.capital = InitialCapital + sum
  <2>1. n + 1 - 1 = n
    BY <1>1
  <2>2. bt.capital = InitialCapital + SumSeq(Pnls(bt.trades, n + 1 - 1))
    BY <1>2 DEF LedgerInv, CapitalAt
  <2>3. SumSeq(pnls) = sum
    BY DEF SumSeq
  <2>4. QED BY <1>10, <2>1, <2>2, <2>3
<1>14. W \in SUBSET S /\ L \in SUBSET S /\ W \cap L = {}
  BY <1>6, <1>8
<1> HIDE DEF S, W, L
<1>15. /\ SumFunctionOnSet(pnls, W) \in Int /\ SumFunctionOnSet(pnls, L) \in Int
       /\ sum = SumFunctionOnSet(pnls, W) + SumFunctionOnSet(pnls, L)
  <2>1. /\ SumFunctionOnSet(pnls, {x \in S : pnls[x] > 0}) \in Int
        /\ SumFunctionOnSet(pnls, {x \in S : pnls[x] < 0}) \in Int
        /\ SumFunction(pnls) = SumFunctionOnSet(pnls, {x \in S : pnls[x] > 0})
                               + SumFunctionOnSet(pnls, {x \in S : pnls[x] < 0})
    BY <1>5, <1>6, SumOfSigns
  <2>2. QED BY <1>8, <2>1, Zenon DEF sum
<1> HIDE DEF sum
<1>16. r.final_capital = InitialCapital + r.gain + r.loss
  <2>1. InitialCapital \in Int
    BY StudyAssumption
  <2>2. QED BY <1>4, <1>13, <1>15, <2>1
<1>17. ~study.limit /\ study.commission = ReportedCommission =>
         r.final_capital = InitialCapital + SumSeq(raws) - r.total_fees
  <2>1. SUFFICES ASSUME ~study.limit, study.commission = ReportedCommission
                 PROVE  r.final_capital = InitialCapital + SumSeq(raws) - r.total_fees
    OBVIOUS
  <2>2. Differences(S, raws, fees, pnls)
    BY <1>6, <1>7, <1>12, <2>1 DEF Differences
  <2>3. /\ SumFunction(raws) \in Int /\ SumFunction(fees) \in Int
        /\ SumFunction(pnls) = SumFunction(raws) - SumFunction(fees)
    BY <1>5, <2>2, SumOfDifferences
  <2>4. SumSeq(raws) = SumFunction(raws) /\ SumSeq(fees) = SumFunction(fees)
    BY DEF SumSeq
  <2>5. InitialCapital \in Int
    BY StudyAssumption
  <2>6. QED BY <1>4, <1>13, <2>3, <2>4, <2>5 DEF sum
<1>18. phase = "done" => r.total_return = r.final_capital - InitialCapital
  <2>1. SUFFICES ASSUME phase = "done" PROVE r.total_return = r.final_capital - InitialCapital
    OBVIOUS
  <2>2. QED BY <1>4, <2>1, DoneEquity
<1>19. QED BY <1>16, <1>17, <1>18 DEF ReportMatchesLedger, r, raws

(***************************************************************************)
(* Every event that the loop has passed was traded, refused by the fill, a *)
(* gate, the filter or the size, or came while a trade was open, and no    *)
(* two trades overlap: an open trade is closed before the row's event is   *)
(* looked at, and the pointer drops only events of earlier rows            *)
(* (src/research/backtest.py:135-224).                                     *)
(***************************************************************************)
THEOREM EventsAreAccounted == StudySpec => []EveryEventAccounted
BY StudyInvariant, InvAccounts, PTL

(***************************************************************************)
(* The front of the monotone deque is the highest equity of the last       *)
(* RiskWindow bars, whatever was popped from either end, so the drawdown   *)
(* gate measures from the window's peak (src/research/backtest.py:174-181, *)
(* 226-236).                                                               *)
(***************************************************************************)
THEOREM DequeHoldsPeak == StudySpec => []PeakOfWindow
BY StudyInvariant, InvPeak, PTL

(***************************************************************************)
(* Each trade was opened with at most max_leverage times, and loses at its *)
(* stop at most the configured share of, the capital that the trades       *)
(* before it left (src/research/backtest.py:194-224,                       *)
(* src/execution/sizers.py).                                               *)
(***************************************************************************)
THEOREM TradesKeepBudget == StudySpec => []RiskWithinBudget
BY StudyInvariant, InvBudget, PTL

(***************************************************************************)
(* The report's final capital is the initial one with the profits and      *)
(* losses of the ledger; the return, taken from the equity curve, is the   *)
(* capital's, so no result is left open and unbooked when the frame ends;  *)
(* and for market orders that pay the rate the metrics assume, it is the   *)
(* raw results less the fees reported.  For another commission nothing is  *)
(* claimed of the fees reported: the metrics do not know it                *)
(* (src/research/backtest.py:216, 226-255, 290-308).                       *)
(***************************************************************************)
THEOREM ReportAgrees == StudySpec => []ReportMatchesLedger
BY StudyInvariant, InvReport, PTL

-----------------------------------------------------------------------------
(* The stream holds what the frame's bars say.                             *)

LogNames == {"vol_mean", "vol_std"}
InputOf(name) == ROLLING_SPEC[name].input

LEMMA InputsOf ==
  ASSUME NEW name \in Names
  PROVE  InputOf(name) = "log_volume" <=> name \in LogNames
BY DEF Names, InputOf, LogNames, ROLLING_SPEC, RollingSpec

StreamFits(st, frame, n) ==
  /\ st.prev = IF n = 0 THEN NaN ELSE frame[n].close
  /\ st.closes = Recent(Field(frame, "close"), n, 30)
  /\ \A name \in Names \ LogNames :
       Tracks(st.trackers[name], name, InputSeries(frame, InputOf(name)), n)
  /\ \A name \in LogNames :
       Tracks(st.trackers[name], name, TradedVolumes(frame), Cardinality(Traded(frame)))

LEMMA LongestReturn == Max(ReturnPeriods) = 30
<1>1. ReturnPeriods \subseteq Int /\ 30 \in ReturnPeriods /\ \A y \in ReturnPeriods : y <= 30
  BY DEF ReturnPeriods
<1>2. QED BY <1>1, MaxIs

LEMMA ClosesPushed ==
  ASSUME NEW n \in Nat, NEW s, NEW q, \A k \in 1..(n+1) : q[k] \in Int,
         \A k \in 1..n : q[k] = s[k]
  PROVE  LET cs == Append(Recent(s, n, 30), q[n+1])
         IN SubSeq(cs, Max({1, Len(cs) - Max(ReturnPeriods) + 1}), Len(cs)) = Recent(q, n + 1, 30)
<1> DEFINE m == Least(n, 30)
           was == Recent(s, n, 30)
           now == Recent(q, n + 1, 30)
           cs == Append(was, q[n+1])
           from == Max({1, Len(cs) - Max(ReturnPeriods) + 1})
           out == SubSeq(cs, from, Len(cs))
<1>1. m \in Nat /\ m = IF n <= 30 THEN n ELSE 30
  BY LeastIs
<1>2. (\A k \in 1..n : s[k] \in Int) /\ n + 1 \in Nat /\ q[n+1] \in Int
  <2>1. n + 1 \in 1..(n+1) /\ \A k \in 1..n : k \in 1..(n+1)
    OBVIOUS
  <2>2. QED BY <2>1
<1>3. was \in Seq(Int) /\ Len(was) = m /\ was \in [1..m -> Int]
  <2>1. 30 \in Nat /\ \A k \in 1..n : s[k] \in Int
    BY <1>2
  <2>2. ASSUME NEW p \in Nat
        PROVE  Recent(s, n, p) \in Seq(Int) /\ Len(Recent(s, n, p)) = Least(n, p)
               /\ Recent(s, n, p) \in [1..Least(n, p) -> Int]
    BY <2>1, RecentShape
  <2>3. QED BY <2>1, <2>2
<1>4. \A k \in 1..m : was[k] = q[n - m + k]
  <2>1. \A k \in 1..m : n - m + k \in 1..n
    BY <1>1
  <2>2. was = [k \in 1..m |-> s[n - m + k]]
    BY DEF Recent
  <2> HIDE DEF was, m
  <2>3. QED BY <2>1, <2>2
<1> HIDE DEF was, m
<1>5. cs \in Seq(Int) /\ Len(cs) = m + 1 /\ (\A k \in 1..m : cs[k] = was[k]) /\ cs[m+1] = q[n+1]
  BY <1>1, <1>2, <1>3
<1> HIDE DEF cs
<1>6. \A k \in 1..(m+1) : cs[k] = q[n - m + k]
  <2>1. \A k \in 1..(m+1) : k \in 1..m \/ k = m + 1
    BY <1>1
  <2>2. n - m + (m + 1) = n + 1
    BY <1>1
  <2>3. QED BY <1>4, <1>5, <2>1, <2>2
<1>7. from = IF 1 <= m - 28 THEN m - 28 ELSE 1
  <2>1. Len(cs) - Max(ReturnPeriods) + 1 = m - 28
    BY <1>1, <1>5, LongestReturn
  <2>2. from = Max({1, m - 28})
    BY <2>1
  <2>3. m - 28 \in Int
    BY <1>1
  <2> HIDE DEF from
  <2>4. QED BY <2>2, <2>3, MaxOfTwo
<1> HIDE DEF from
<1> DEFINE l == Least(n + 1, 30)
           b == m + 1
<1>8. from \in Nat \ {0} /\ b \in Nat /\ b <= Len(cs) /\ from <= b + 1 /\ b - from + 1 = l
      /\ l \in Nat /\ \A k \in 1..l : from + k - 1 \in 1..(m+1) /\ n - m + (from + k - 1) = n + 1 - l + k
  <2>1. l = IF n + 1 <= 30 THEN n + 1 ELSE 30
    BY <1>2, LeastIs
  <2> HIDE DEF l
  <2>2. QED BY <1>1, <1>5, <1>7, <2>1
<1> HIDE DEF l, b
<1>9. /\ Sequence(SubSeq(cs, from, b)) /\ Len(SubSeq(cs, from, b)) = b - from + 1
      /\ \A k \in 1..(b - from + 1) : SubSeq(cs, from, b)[k] = cs[from + k - 1]
  <2>1. Sequence(cs)
    BY <1>5 DEF Sequence
  <2>2. QED BY <1>8, <2>1, SubSeqIs
<1>10. out = SubSeq(cs, from, b)
  BY <1>5 DEF b
<1> HIDE DEF out
<1>11. DOMAIN out = 1..l
  BY <1>8, <1>9, <1>10, SequenceShape
<1>12. \A k \in 1..l : out[k] = q[n + 1 - l + k]
  BY <1>6, <1>8, <1>9, <1>10
<1>13. out = [k \in 1..l |-> out[k]]
  <2>1. PICK T : out \in Seq(T)
    BY <1>9, <1>10 DEF Sequence
  <2>2. QED BY <1>11, <2>1
<1>14. now = [k \in 1..l |-> now[k]] /\ \A k \in 1..l : now[k] = q[n + 1 - l + k]
  <2>1. ASSUME NEW N \in Int, NEW L, L = Least(N, 30)
        PROVE  Recent(q, N, 30) = [k \in 1..L |-> q[N - L + k]]
    BY <2>1 DEF Recent
  <2> DEFINE N == n + 1
  <2>2. l = Least(N, 30) /\ now = Recent(q, N, 30) /\ N \in Int
    BY DEF l
  <2>3. N = n + 1
    OBVIOUS
  <2> HIDE DEF N, now
  <2>4. now = [k \in 1..l |-> q[N - l + k]]
    BY <2>1, <2>2
  <2>5. \A k \in 1..l : now[k] = q[N - l + k]
    BY <2>4
  <2>6. now = [k \in 1..l |-> now[k]]
    BY <2>4, <2>5
  <2> DEFINE r(k) == q[n + 1 - l + k]
  <2>7. ASSUME NEW k \in 1..l PROVE now[k] = r(k)
    <3>1. N - l + k = n + 1 - l + k
      BY <1>8, <2>3
    <3> DEFINE i == n + 1 - l + k
    <3>2. now[k] = q[N - l + k]
      BY <2>5
    <3>3. N - l + k = i
      BY <3>1
    <3> HIDE DEF i
    <3>4. now[k] = q[i]
      BY <3>2, <3>3
    <3>5. QED BY <3>4 DEF i
  <2>8. QED BY <2>6, <2>7
<1>15. out = now
  <2> HIDE DEF now
  <2>1. QED BY <1>12, <1>13, <1>14
<1>16. QED BY <1>15 DEF out, now, cs, from, was

\* The live input of a bar is the frame's.
LEMMA InputArrives ==
  ASSUME NEW frame, NEW more, NEW n, Continues(frame, more, n),
         NEW bar, \A f \in Fields : more[n+1][f] = bar[f],
         NEW prev, prev = (IF n = 0 THEN NaN ELSE frame[n].close), NEW input \in Inputs
  PROVE  InputValue(bar, prev, input) = InputAt(more, input, n + 1)
<1>1. n \in Nat /\ (n # 0 => more[n] = frame[n] /\ more[n].close \in Int)
      /\ IsBar(more[n+1])
  <2>1. n \in Nat /\ Frame(more, n + 1)
    BY DEF Continues, Frame
  <2>2. n + 1 \in 1..(n+1) /\ (n # 0 => n \in 1..n /\ n \in 1..(n+1))
    BY <2>1
  <2>3. QED BY <2>1, <2>2 DEF Continues, Frame, IsBar
<1>2. /\ bar.high = more[n+1].high /\ bar.low = more[n+1].low /\ bar.volume = more[n+1].volume
      /\ bar.close = more[n+1].close /\ bar.taker_buy_base = more[n+1].taker_buy_base
  BY DEF Fields
<1>3. CASE input = "true_range"
  <2> DEFINE a == bar.high - bar.low
             b == Gap(bar.high, prev)
             c == Gap(bar.low, prev)
  <2>1. CASE n = 0
    <3>1. a \in Int
      BY <1>1, <1>2 DEF IsBar
    <3>2. InputValue(bar, prev, input) = a
      BY <1>3, <2>1 DEF InputValue
    <3>3. InputAt(more, input, n + 1) = Max({a} \cup {})
      BY <1>2, <1>3, <2>1 DEF InputAt
    <3> HIDE DEF a
    <3>4. {a} \cup {} = {a} /\ {a} \subseteq Int /\ a \in {a} /\ \A y \in {a} : y <= a
      BY <3>1
    <3>5. Max({a}) = a
      BY <3>4, MaxIs
    <3>6. QED BY <3>2, <3>3, <3>4, <3>5
  <2>2. CASE n # 0
    <3>1. prev # NaN /\ prev = more[n].close /\ n + 1 # 1 /\ n + 1 - 1 = n
      BY <1>1, <2>2, NaNAssumption
    <3>2. InputValue(bar, prev, input) = Max({a, b, c})
      BY <1>3, <3>1 DEF InputValue
    <3>3. InputAt(more, input, n + 1) = Max({a} \cup {b, c})
      <4> DEFINE i == n + 1
      <4>1. i # 1 /\ i - 1 = n
        BY <1>1, <2>2
      <4>2. more[i].high = bar.high /\ more[i].low = bar.low
        BY <1>2
      <4> HIDE DEF i
      <4>3. InputAt(more, input, i) = Max({a} \cup {b, c})
        BY <1>3, <3>1, <4>1, <4>2 DEF InputAt
      <4>4. QED BY <4>3 DEF i
    <3> HIDE DEF a, b, c
    <3>4. {a} \cup {b, c} = {a, b, c}
      OBVIOUS
    <3>5. QED BY <3>2, <3>3, <3>4
  <2>3. QED BY <2>1, <2>2
<1>4. CASE input = "log_volume"
  <2>1. bar.volume \in Nat
    BY <1>1, <1>2 DEF IsBar
  <2>2. QED BY <1>2, <1>4, <2>1 DEF InputValue, InputAt
<1>5. CASE input \notin {"true_range", "log_volume"}
  BY <1>2, <1>5 DEF InputValue, InputAt, Inputs
<1>6. QED BY <1>3, <1>4, <1>5

LEMMA SeriesGrows ==
  ASSUME NEW frame, NEW more, NEW n, Continues(frame, more, n), NEW input \in Inputs \ {"log_volume"}
  PROVE  /\ n \in Nat
         /\ \A k \in 1..(n+1) : InputSeries(more, input)[k] = InputAt(more, input, k)
         /\ \A k \in 1..(n+1) : InputSeries(more, input)[k] \in Int
         /\ \A k \in 1..n : InputSeries(more, input)[k] = InputSeries(frame, input)[k]
<1>1. /\ n \in Nat /\ Frame(frame, n) /\ Frame(more, n + 1)
      /\ DOMAIN frame = 1..n /\ DOMAIN more = 1..(n+1)
  BY DEF Continues, Frame
<1>2. \A k \in 1..(n+1) : InputSeries(more, input)[k] = InputAt(more, input, k)
  BY <1>1 DEF InputSeries
<1>3. \A k \in 1..(n+1) : InputAt(more, input, k) \in Int
  BY <1>1, InputTyped
<1>4. ASSUME NEW k \in 1..n PROVE InputSeries(more, input)[k] = InputSeries(frame, input)[k]
  <2>1. k \in 1..(n+1) /\ k \in Nat \ {0}
    BY <1>1
  <2>2. SameBars(more, frame, k)
    <3>1. \A j \in 1..k : j \in 1..n
      BY <1>1
    <3>2. QED BY <3>1 DEF SameBars, Continues
  <2>3. InputAt(more, input, k) = InputAt(frame, input, k)
    BY <2>1, <2>2, InputSame
  <2>4. QED BY <1>1, <1>2, <2>1, <2>3 DEF InputSeries
<1>5. QED BY <1>1, <1>2, <1>3, <1>4

LEMMA StreamAbsorbs ==
  ASSUME NEW frame, NEW more, NEW n, Continues(frame, more, n),
         NEW bar, \A f \in Fields : more[n+1][f] = bar[f],
         NEW st, StreamFits(st, frame, n)
  PROVE  StreamFits(Absorb(st, bar), more, n + 1)
<1> DEFINE new == Absorb(st, bar)
           Arriving(name) == InputValue(bar, st.prev, ROLLING_SPEC[name].input)
<1>1. /\ new.prev = bar.close
      /\ new.closes = LET cs == Append(st.closes, bar.close)
                      IN SubSeq(cs, Max({1, Len(cs) - Max(ReturnPeriods) + 1}), Len(cs))
      /\ \A name \in Names : new.trackers[name] =
           IF Arriving(name) = NaN THEN st.trackers[name] ELSE Push(st.trackers[name], name, Arriving(name))
  BY DEF Absorb
<1>2. /\ n \in Nat /\ Frame(frame, n) /\ Frame(more, n + 1)
      /\ DOMAIN frame = 1..n /\ DOMAIN more = 1..(n+1) /\ IsBar(more[n+1])
  <2>1. n \in Nat
    BY DEF Continues, Frame
  <2>2. n + 1 \in 1..(n+1)
    BY <2>1
  <2>3. QED BY <2>1, <2>2 DEF Continues, Frame
<1> HIDE DEF new
<1>3. more[n+1].close = bar.close /\ more[n+1].volume = bar.volume /\ more[n+1].volume \in Nat
  BY <1>2 DEF Fields, IsBar
<1>4. new.prev = IF n + 1 = 0 THEN NaN ELSE more[n+1].close
  BY <1>1, <1>2, <1>3
<1>5. new.closes = Recent(Field(more, "close"), n + 1, 30)
  <2> DEFINE s == Field(frame, "close")
             q == Field(more, "close")
  <2>1. \A k \in 1..(n+1) : q[k] = more[k].close
    BY <1>2 DEF Field
  <2>2. \A k \in 1..(n+1) : q[k] \in Int
    BY <1>2, <2>1 DEF Frame, IsBar
  <2>3. \A k \in 1..n : q[k] = s[k]
    <3>1. \A k \in 1..n : k \in 1..(n+1) /\ s[k] = frame[k].close
      BY <1>2 DEF Field
    <3>2. QED BY <2>1, <3>1 DEF Continues
  <2>4. q[n+1] = bar.close
    <3>1. n + 1 \in 1..(n+1)
      BY <1>2
    <3>2. QED BY <1>3, <2>1, <3>1
  <2>5. st.closes = Recent(s, n, 30)
    BY DEF StreamFits
  <2> HIDE DEF s, q
  <2>6. LET cs == Append(Recent(s, n, 30), q[n+1])
        IN SubSeq(cs, Max({1, Len(cs) - Max(ReturnPeriods) + 1}), Len(cs)) = Recent(q, n + 1, 30)
    BY <1>2, <2>2, <2>3, ClosesPushed
  <2>7. new.closes = Recent(q, n + 1, 30)
    BY <1>1, <2>4, <2>5, <2>6
  <2>8. QED BY <2>7 DEF q
<1>6. ASSUME NEW name \in Names PROVE Arriving(name) = InputAt(more, InputOf(name), n + 1)
  <2>1. InputOf(name) \in Inputs
    BY SpecTyped DEF InputOf
  <2>2. st.prev = (IF n = 0 THEN NaN ELSE frame[n].close)
    BY DEF StreamFits
  <2>3. InputValue(bar, st.prev, InputOf(name)) = InputAt(more, InputOf(name), n + 1)
    BY <2>1, <2>2, InputArrives
  <2>4. QED BY <2>3 DEF InputOf
<1> HIDE DEF Arriving
<1>7. ASSUME NEW name \in Names \ LogNames
      PROVE  Tracks(new.trackers[name], name, InputSeries(more, InputOf(name)), n + 1)
  <2> DEFINE s == InputSeries(frame, InputOf(name))
             q == InputSeries(more, InputOf(name))
  <2>1. InputOf(name) \in Inputs \ {"log_volume"}
    BY SpecTyped, InputsOf DEF InputOf
  <2>2. /\ \A k \in 1..(n+1) : q[k] = InputAt(more, InputOf(name), k)
        /\ \A k \in 1..(n+1) : q[k] \in Int
        /\ \A k \in 1..n : q[k] = s[k]
    BY <2>1, SeriesGrows
  <2>3. Tracks(st.trackers[name], name, s, n)
    BY DEF StreamFits
  <2> HIDE DEF s, q
  <2>4. n + 1 \in 1..(n+1)
    BY <1>2
  <2>5. Arriving(name) = q[n+1] /\ Arriving(name) # NaN
    BY <1>6, <2>2, <2>4, NaNAssumption
  <2>6. Tracks(Push(st.trackers[name], name, q[n+1]), name, q, n + 1)
    BY <1>2, <2>2, <2>3, TracksPushed
  <2>7. new.trackers[name] = Push(st.trackers[name], name, q[n+1])
    BY <1>1, <2>5
  <2>8. QED BY <2>6, <2>7 DEF q
<1>8. ASSUME NEW name \in LogNames
      PROVE  Tracks(new.trackers[name], name, TradedVolumes(more), Cardinality(Traded(more)))
  <2> DEFINE s == TradedVolumes(frame)
             q == TradedVolumes(more)
             m == Cardinality(Traded(frame))
             v == more[n+1].volume
  <2>1. name \in Names /\ InputOf(name) = "log_volume"
    BY DEF LogNames, Names, InputOf, ROLLING_SPEC, RollingSpec
  <2>2. Tracks(st.trackers[name], name, s, m)
    BY DEF StreamFits
  <2>3. Arriving(name) = IF v = 0 THEN NaN ELSE v
    BY <1>6, <2>1 DEF InputAt
  <2>4. IF v > 0
          THEN /\ Cardinality(Traded(more)) = m + 1
               /\ \A k \in 1..m : q[k] = s[k]
               /\ q[m+1] = v
          ELSE Traded(more) = Traded(frame) /\ q = s
    BY TradedGrows
  <2>5. m \in Nat
    BY <1>2, TradedRows
  <2>6. \A k \in 1..Cardinality(Traded(more)) : q[k] \in Int
    <3>1. \A k \in 1..Cardinality(Traded(more)) : q[k] \in Nat \ {0}
      BY <1>2, TradedRows
    <3> HIDE DEF q
    <3>2. QED BY <3>1
  <2>7. v \in Nat
    BY <1>3
  <2> HIDE DEF s, q, m, v
  <2>8. CASE v > 0
    <3>1. \A k \in 1..(m+1) : q[k] \in Int
      BY <2>4, <2>6, <2>8
    <3>2. Tracks(Push(st.trackers[name], name, q[m+1]), name, q, m + 1)
      BY <2>1, <2>2, <2>4, <2>5, <2>8, <3>1, TracksPushed
    <3>3. Arriving(name) = q[m+1] /\ Arriving(name) # NaN
      BY <2>3, <2>4, <2>7, <2>8, NaNAssumption
    <3>4. new.trackers[name] = Push(st.trackers[name], name, q[m+1])
      BY <1>1, <2>1, <3>3
    <3>5. QED BY <2>4, <2>8, <3>2, <3>4 DEF q
  <2>9. CASE ~(v > 0)
    <3>1. Arriving(name) = NaN
      BY <2>3, <2>7, <2>9
    <3>2. new.trackers[name] = st.trackers[name]
      BY <1>1, <2>1, <3>1
    <3>3. QED BY <2>2, <2>4, <2>9, <3>2 DEF q, s, m
  <2>10. QED BY <2>8, <2>9
<1>9. StreamFits(new, more, n + 1)
  BY <1>4, <1>5, <1>7, <1>8 DEF StreamFits
<1>10. QED BY <1>9 DEF new

\* A sum of numbers that are not negative, of which one is positive, is positive.
LEMMA SumPositive ==
  ASSUME NEW n \in Nat, NEW h \in [1..n -> Int], \A i \in 1..n : h[i] >= 0,
         NEW c \in 1..n, h[c] > 0
  PROVE  SumSeq(h) > 0
<1> DEFINE S == 1..n
<1>1. IsFiniteSet(S) /\ h \in [S -> Int] /\ c \in S /\ \A x \in S : h[x] \in Int /\ h[x] >= 0
  <2>1. IsFiniteSet(S)
    BY FS_Interval
  <2>2. \A x \in S : h[x] \in Int /\ h[x] >= 0
    OBVIOUS
  <2>3. QED BY <2>1, <2>2
<1>2. SumSeq(h) = SumFunction(h)
  BY DEF SumSeq
<1> HIDE DEF S
<1>3. PICK g : SumFunction(h) = g[S] /\ Adds(h, S, g)
  BY <1>1, SumOf
<1> DEFINE Good == {s \in SUBSET S : g[s] >= 0 /\ (c \in s => g[s] > 0)}
<1>4. {} \in Good
  BY <1>3 DEF Adds
<1>5. ASSUME NEW s \in SUBSET S, s # {}, \A x \in s : s \ {x} \in Good
      PROVE  s \in Good
  <2> DEFINE p == Pick(s)
             a == g[s \ {p}]
  <2>1. p \in s
    BY <1>1, <1>5, PartOf
  <2>2. s \ {p} \in SUBSET S /\ s \ {p} \in Good
    BY <1>5, <2>1
  <2>3. g[s] = h[p] + a /\ a \in Int /\ g[s] \in Int
    BY <1>3, <2>1, <2>2 DEF Adds
  <2>4. a >= 0 /\ (c \in s \ {p} => a > 0) /\ h[p] \in Int /\ h[p] >= 0
    BY <1>1, <2>1, <2>2
  <2> HIDE DEF a
  <2>5. CASE p = c
    BY <1>1, <2>3, <2>4, <2>5
  <2>6. CASE p # c
    BY <2>1, <2>3, <2>4, <2>6
  <2>7. QED BY <2>5, <2>6
<1>6. Good \in SUBSET (SUBSET S)
  OBVIOUS
<1>7. \A s \in SUBSET S : s \in Good
  <2> HIDE DEF Good
  <2>1. QED BY <1>1, <1>4, <1>5, <1>6, PartsInduction
<1>8. S \in Good
  BY <1>7
<1>9. QED BY <1>1, <1>2, <1>3, <1>8

\* What a tracker says before a bar is pushed is what the frame has at the bar's row.
LEMMA ValueArrives ==
  ASSUME NEW frame, NEW more, NEW n, Continues(frame, more, n), NEW st, StreamFits(st, frame, n),
         NEW name \in Names \ LogNames
  PROVE  TrackerValue(st.trackers[name], name) = ColumnAt(more, name, n + 1)
<1> DEFINE s == InputSeries(frame, InputOf(name))
           q == InputSeries(more, InputOf(name))
           op == ROLLING_SPEC[name].op
           period == Period(name)
<1>1. InputOf(name) \in Inputs \ {"log_volume"} /\ period \in Nat \ {0}
  BY SpecTyped, InputsOf DEF InputOf
<1>2. /\ n \in Nat
      /\ \A k \in 1..(n+1) : q[k] \in Int
      /\ \A k \in 1..n : q[k] = s[k]
  BY <1>1, SeriesGrows
<1>3. Tracks(st.trackers[name], name, s, n)
  BY DEF StreamFits
<1> HIDE DEF s, q
<1>4. \A k \in 1..n : s[k] \in Int /\ s[k] = q[k]
  <2>1. \A k \in 1..n : k \in 1..(n+1)
    BY <1>2
  <2>2. QED BY <1>2, <2>1
<1>5. TrackerValue(st.trackers[name], name) = Rolling(s, op, period, n)
  BY <1>2, <1>3, <1>4, TrackerReads
<1>6. Rolling(s, op, period, n) = Rolling(q, op, period, n)
  <2>1. n \in Int
    BY <1>2
  <2> HIDE DEF op, period
  <2>2. QED BY <1>1, <1>4, <2>1, RollingSame
<1>7. ASSUME NEW i, i = n + 1 PROVE ColumnAt(more, name, i) = IF i = 1 THEN NaN ELSE Rolling(q, op, period, i - 1)
  BY DEF ColumnAt, q, InputOf
<1>8. CASE n = 0
  <2>1. Rolling(q, op, period, n) = NaN
    BY <1>1, <1>8 DEF Rolling
  <2>2. ColumnAt(more, name, n + 1) = NaN
    BY <1>7, <1>8
  <2>3. QED BY <1>5, <1>6, <2>1, <2>2
<1>9. CASE n # 0
  <2> DEFINE i == n + 1
  <2>1. i # 1 /\ i - 1 = n /\ i = n + 1
    BY <1>2, <1>9
  <2> HIDE DEF i, op, period
  <2>2. ColumnAt(more, name, i) = Rolling(q, op, period, n)
    BY <1>7, <2>1
  <2>3. QED BY <1>5, <1>6, <2>2 DEF i, op, period
<1>10. QED BY <1>8, <1>9

\* So for the log volumes too, while every bar had a volume.
LEMMA LogValueArrives ==
  ASSUME NEW frame, NEW more, NEW n, Continues(frame, more, n), NEW st, StreamFits(st, frame, n),
         NEW name \in LogNames, \A k \in 1..n : more[k].volume > 0
  PROVE  TrackerValue(st.trackers[name], name) = ColumnAt(more, name, n + 1)
<1> DEFINE s == TradedVolumes(frame)
           q == InputSeries(more, InputOf(name))
           op == ROLLING_SPEC[name].op
           period == Period(name)
           m == Cardinality(Traded(frame))
<1>1. /\ n \in Nat /\ Frame(frame, n) /\ Frame(more, n + 1)
      /\ DOMAIN frame = 1..n /\ DOMAIN more = 1..(n+1) /\ \A i \in 1..n : more[i] = frame[i]
  BY DEF Continues, Frame
<1>2. name \in Names /\ InputOf(name) = "log_volume" /\ period \in Nat \ {0}
  BY SpecTyped DEF LogNames, Names, InputOf, ROLLING_SPEC, RollingSpec
<1>3. \A k \in 1..n : frame[k].volume > 0
  BY <1>1
<1>4. m = n /\ \A k \in 1..n : s[k] = InputSeries(frame, "log_volume")[k]
  BY <1>1, <1>3, NoGapTraded
<1>5. Tracks(st.trackers[name], name, s, m)
  BY DEF StreamFits
<1>6. \A k \in 1..m : s[k] \in Int
  <2>1. \A k \in 1..Cardinality(Traded(frame)) : s[k] \in Nat \ {0}
    BY <1>1, TradedRows
  <2> HIDE DEF s
  <2>2. QED BY <2>1
<1>7. \A k \in 1..n : s[k] = q[k]
  <2>1. ASSUME NEW k \in 1..n PROVE q[k] = InputSeries(frame, "log_volume")[k]
    <3>1. k \in 1..(n+1)
      BY <1>1
    <3>2. /\ q[k] = InputAt(more, "log_volume", k)
          /\ InputSeries(frame, "log_volume")[k] = InputAt(frame, "log_volume", k)
      BY <1>1, <1>2, <3>1 DEF InputSeries
    <3>3. more[k] = frame[k]
      BY <1>1
    <3>4. InputAt(more, "log_volume", k) = InputAt(frame, "log_volume", k)
      BY <3>3 DEF InputAt
    <3>5. QED BY <3>2, <3>4
  <2>2. QED BY <1>4, <2>1
<1> HIDE DEF s, q, m
<1>8. TrackerValue(st.trackers[name], name) = Rolling(s, op, period, n)
  BY <1>1, <1>2, <1>4, <1>5, <1>6, TrackerReads
<1>9. Rolling(s, op, period, n) = Rolling(q, op, period, n)
  <2>1. n \in Int
    BY <1>1
  <2> HIDE DEF op, period
  <2>2. QED BY <1>2, <1>7, <2>1, RollingSame
<1>10. ASSUME NEW i, i = n + 1
       PROVE  ColumnAt(more, name, i) = IF i = 1 THEN NaN ELSE Rolling(q, op, period, i - 1)
  BY DEF ColumnAt, q, InputOf
<1>11. CASE n = 0
  <2>1. Rolling(q, op, period, n) = NaN
    BY <1>2, <1>11 DEF Rolling
  <2>2. ColumnAt(more, name, n + 1) = NaN
    BY <1>10, <1>11
  <2>3. QED BY <1>8, <1>9, <2>1, <2>2
<1>12. CASE n # 0
  <2> DEFINE i == n + 1
  <2>1. i # 1 /\ i - 1 = n /\ i = n + 1
    BY <1>1, <1>12
  <2> HIDE DEF i, op, period
  <2>2. ColumnAt(more, name, i) = Rolling(q, op, period, n)
    BY <1>10, <2>1
  <2>3. QED BY <1>8, <1>9, <2>2 DEF i, op, period
<1>13. QED BY <1>11, <1>12

\* Is there a bar with volume in the volume window of row i?
SeenAt(frame, i) ==
  i <= Period("vol_ma") \/ \E k \in Max({1, i - Period("vol_ma")}) .. i - 1 : frame[k].volume > 0
FullAt(frame, i) == \A k \in 1..i : frame[k].volume > 0

\* Then the volumes of the window do not sum to 0.
LEMMA VolumeSums ==
  ASSUME NEW frame, NEW n, Frame(frame, n), NEW i \in 1..n, SeenAt(frame, i),
         NEW name \in {"vol_ma", "vol_sum"}
  PROVE  ColumnAt(frame, name, i) # 0
<1> DEFINE s == InputSeries(frame, "volume")
           period == Period("vol_ma")
           op == ROLLING_SPEC[name].op
           w == [k \in 1..period |-> s[i - 1 - period + k]]
<1>1. /\ n \in Nat /\ DOMAIN frame = 1..n /\ NaN # 0
      /\ \A k \in 1..n : frame[k].volume \in Nat
  BY NaNAssumption DEF Frame, IsBar
<1>2. /\ name \in Names /\ ROLLING_SPEC[name].input = "volume" /\ Period(name) = period
      /\ op \in {"mean", "sum"} /\ period \in Nat \ {0}
  BY PeriodsAssumption DEF Names, ROLLING_SPEC, RollingSpec, Period
<1>3. \A k \in 1..n : s[k] = frame[k].volume
  BY <1>1 DEF InputSeries, InputAt
<1>4. CASE i = 1
  BY <1>1, <1>4 DEF ColumnAt
<1>5. CASE i # 1
  <2> DEFINE m == i - 1
  <2>1. ColumnAt(frame, name, i) = Rolling(s, op, period, m)
    BY <1>2, <1>5 DEF ColumnAt
  <2>2. m \in Nat /\ m <= n
    BY <1>1
  <2>3. CASE i <= period
    <3>1. m < period
      BY <1>1, <1>2, <2>3
    <3> HIDE DEF s, op, period, m
    <3>2. Rolling(s, op, period, m) = NaN
      BY <3>1 DEF Rolling
    <3>3. QED BY <1>1, <2>1, <3>2
  <2>4. CASE ~(i <= period)
    <3>1. PICK k \in Max({1, i - period}) .. i - 1 : frame[k].volume > 0
      BY <2>4 DEF SeenAt
    <3> HIDE DEF period
    <3>2. Max({1, i - period}) = i - period
      <4> DEFINE S == {1, i - period}
      <4>1. S \subseteq Int /\ i - period \in S /\ \A y \in S : y <= i - period
        BY <1>1, <1>2, <2>4
      <4> HIDE DEF S
      <4>2. Max(S) = i - period
        BY <4>1, MaxIs
      <4>3. QED BY <4>2 DEF S
    <3>3. k \in i - period .. i - 1
      BY <3>1, <3>2
    <3> DEFINE c == k - (i - 1 - period)
    <3>4. c \in 1..period /\ i - 1 - period + c = k
      BY <1>1, <1>2, <2>4, <3>3
    <3>5. \A j \in 1..period : i - 1 - period + j \in 1..n
      BY <1>1, <1>2, <2>4
    <3>6. \A j \in 1..period : w[j] = frame[i - 1 - period + j].volume /\ w[j] \in Nat
      BY <1>1, <1>3, <3>5
    <3>7. w[c] = frame[k].volume
      BY <3>4, <3>6
    <3>8. w \in [1..period -> Int]
      BY <3>6
    <3> HIDE DEF w, c
    <3>9. SumSeq(w) > 0 /\ SumSeq(w) \in Int
      <4>1. \A j \in 1..period : w[j] >= 0
        BY <3>6
      <4>2. w[c] > 0
        BY <3>1, <3>7
      <4>3. SumSeq(w) > 0
        BY <1>2, <3>4, <3>8, <4>1, <4>2, SumPositive
      <4>4. QED BY <1>2, <3>8, <4>3, SumSeqInt
    <3>10. NaN \notin ToSet(w)
      BY <1>2, <3>8, WindowValues, NaNAssumption
    <3>11. Rolling(s, op, period, m) = Aggregate(op, period, w)
      <4>1. ~(m < period)
        BY <1>1, <1>2, <2>4
      <4>2. w = [j \in 1..period |-> s[m - period + j]]
        BY DEF w
      <4> HIDE DEF s, op, m
      <4>3. QED BY <3>10, <4>1, <4>2 DEF Rolling
    <3>12. Aggregate(op, period, w) = SumSeq(w)
      <4> HIDE DEF op
      <4>1. QED BY <1>2 DEF Aggregate
    <3> HIDE DEF m, op, s
    <3>13. QED BY <2>1, <3>9, <3>11, <3>12 DEF period
  <2>5. QED BY <2>3, <2>4
<1>6. QED BY <1>4, <1>5

RowNames == {"close"} \cup Published \cup DerivedNames

StreamVals(st) == [name \in Names |-> TrackerValue(st.trackers[name], name)]

LEMMA RowShape ==
  ASSUME NEW st, NEW bar
  PROVE  /\ DOMAIN StreamRow(st, bar) = RowNames
         /\ StreamRow(st, bar).close = bar.close
         /\ \A name \in Published : StreamRow(st, bar)[name] = TrackerValue(st.trackers[name], name)
         /\ \A c \in DerivedNames : StreamRow(st, bar)[c] = StreamDerived(st, bar, StreamVals(st))[c]
<1> DEFINE a == [close |-> bar.close]
           b == [n \in Published |-> StreamVals(st)[n]]
           d == StreamDerived(st, bar, StreamVals(st))
<1>1. StreamRow(st, bar) = a ++ b ++ d
  BY DEF StreamRow, StreamVals
<1>2. DOMAIN d = DerivedNames
  BY DEF StreamDerived, DerivedNames
<1>3. /\ Published \subseteq Names /\ Published \cap DerivedNames = {}
      /\ "close" \notin Published /\ "close" \notin DerivedNames
  BY DEF Published, Names, ROLLING_SPEC, DerivedNames
<1>4. DOMAIN a = {"close"} /\ a["close"] = bar.close
  OBVIOUS
<1>5. DOMAIN b = Published /\ \A name \in Published : b[name] = TrackerValue(st.trackers[name], name)
  BY <1>3 DEF StreamVals
<1> HIDE DEF a, b, d
<1> DEFINE e == a ++ b
<1>6. DOMAIN e = {"close"} \cup Published
  BY <1>4, <1>5 DEF ++
<1>7. e["close"] = bar.close /\ \A name \in Published : e[name] = b[name]
  BY <1>3, <1>4, <1>5 DEF ++
<1> HIDE DEF e
<1>8. StreamRow(st, bar) = e ++ d
  BY <1>1 DEF e
<1>9. DOMAIN (e ++ d) = RowNames
  BY <1>2, <1>6 DEF ++, RowNames
<1>10. \A x \in {"close"} \cup Published : (e ++ d)[x] = e[x]
  BY <1>6 DEF ++
<1>11. \A c \in DerivedNames : (e ++ d)[c] = d[c]
  <2>1. \A c \in DerivedNames : c \notin DOMAIN e
    BY <1>3, <1>6
  <2>2. QED BY <1>2, <2>1 DEF ++
<1>12. QED BY <1>5, <1>7, <1>8, <1>9, <1>10, <1>11 DEF d

\* The row the stream returned for bar i of a frame.
RowInv(row, frame, i) ==
  /\ DOMAIN row = RowNames /\ row.close = frame[i].close
  /\ \A name \in Published \cup {"ret", "channel_pos"} : row[name] = frame[i][name]
  /\ SeenAt(frame, i) => \A name \in {"vol_ratio", "taker_buy_ratio"} : row[name] = frame[i][name]
  /\ FullAt(frame, i) => row.vol_zscore = frame[i].vol_zscore

\* The returns: the closes kept reach back far enough.
LEMMA ReturnArrives ==
  ASSUME NEW frame, NEW more, NEW n, Continues(frame, more, n), NEW closes,
         closes = Recent(Field(frame, "close"), n, 30), NEW p \in ReturnPeriods
  PROVE  /\ Len(closes) < p <=> n + 1 <= p
         /\ ~(n + 1 <= p) => closes[Len(closes) - p + 1] = more[n + 1 - p].close
<1> DEFINE s == Field(frame, "close")
           m == Least(n, 30)
<1>1. /\ n \in Nat /\ Frame(frame, n) /\ DOMAIN frame = 1..n /\ \A i \in 1..n : more[i] = frame[i]
  BY DEF Continues, Frame
<1>2. \A k \in 1..n : s[k] = frame[k].close /\ s[k] \in Int
  BY <1>1 DEF Field, Frame, IsBar
<1>3. m \in Nat /\ m = IF n <= 30 THEN n ELSE 30
  <2>1. n \in Int /\ 30 \in Int /\ n \in Nat
    BY <1>1
  <2>2. Least(n, 30) = IF n <= 30 THEN n ELSE 30
    BY <2>1, LeastIs
  <2>3. QED BY <2>1, <2>2
<1>4. p \in Nat \ {0} /\ p <= 30
  BY DEF ReturnPeriods
<1> HIDE DEF s
<1>5. Len(closes) = m
  <2>1. \A k \in 1..n : s[k] \in Int
    BY <1>2
  <2>2. ASSUME NEW c \in Nat PROVE Len(Recent(s, n, c)) = Least(n, c)
    BY <1>1, <2>1, RecentShape
  <2>3. closes = Recent(s, n, 30)
    BY DEF s
  <2>4. QED BY <2>2, <2>3
<1>6. closes = [k \in 1..m |-> s[n - m + k]]
  BY DEF Recent, s
<1> HIDE DEF m
<1>7. Len(closes) < p <=> n + 1 <= p
  <2> DEFINE L == Len(closes)
  <2>1. L = m
    BY <1>5
  <2> HIDE DEF L
  <2>2. L < p => n + 1 <= p
    BY <1>1, <1>3, <1>4, <2>1
  <2>3. n + 1 <= p => L < p
    BY <1>1, <1>3, <1>4, <2>1
  <2>4. QED BY <2>2, <2>3 DEF L
<1>8. ASSUME ~(n + 1 <= p) PROVE closes[Len(closes) - p + 1] = more[n + 1 - p].close
  <2> DEFINE k == m - p + 1
             i == n - m + k
  <2>1. k \in 1..m /\ i \in 1..n /\ i = n + 1 - p
    BY <1>1, <1>3, <1>4, <1>8
  <2>2. closes[k] = s[i]
    BY <1>6, <2>1
  <2>3. Len(closes) - p + 1 = k
    BY <1>5
  <2>4. n + 1 - p = i
    BY <2>1
  <2> HIDE DEF k, i
  <2>5. QED BY <1>1, <1>2, <2>1, <2>2, <2>3, <2>4
<1>9. QED BY <1>7, <1>8

LEMMA NewRow ==
  ASSUME NEW frame, NEW more, NEW n, Continues(frame, more, n), Stands(more),
         NEW bar, \A f \in Fields : more[n+1][f] = bar[f],
         NEW st, StreamFits(st, frame, n)
  PROVE  RowInv(StreamRow(st, bar), more, n + 1)
<1> DEFINE i == n + 1
           row == StreamRow(st, bar)
           vals == StreamVals(st)
           col == [name \in Names |-> ColumnAt(more, name, i)]
           d == StreamDerived(st, bar, vals)
           e == FrameDerived(more, col, i)
<1>1. /\ n \in Nat /\ Frame(more, n + 1) /\ DOMAIN more = 1..i /\ i \in 1..i /\ i \in DOMAIN more
      /\ IsBar(more[i])
  BY DEF Continues, Frame
<1>2. more[i].close = bar.close /\ more[i].volume = bar.volume /\ bar.volume \in Nat
  BY <1>1 DEF Fields, IsBar
<1>3. \A name \in Names \ LogNames : vals[name] = col[name]
  BY ValueArrives DEF StreamVals
<1>4. FullAt(more, n) => \A name \in LogNames : vals[name] = col[name]
  <2> SUFFICES ASSUME FullAt(more, n), NEW name \in LogNames PROVE vals[name] = col[name]
    OBVIOUS
  <2>1. name \in Names
    BY InputsOf DEF LogNames, Names, ROLLING_SPEC
  <2>2. \A k \in 1..n : more[k].volume > 0
    BY DEF FullAt
  <2>3. TrackerValue(st.trackers[name], name) = ColumnAt(more, name, n + 1)
    BY <2>2, LogValueArrives
  <2>4. QED BY <2>1, <2>3 DEF StreamVals
<1>5. /\ \A name \in Kept : more[i][name] = col[name]
      /\ \A c \in DerivedNames : more[i][c] = e[c]
  <2>1. /\ \A name \in Kept : more[i][name] = ColumnAt(more, name, i)
        /\ \A c \in DerivedNames : more[i][c] = e[c]
    BY <1>1, ColumnOfRow
  <2>2. Kept \subseteq Names
    BY DEF Kept
  <2>3. QED BY <2>1, <2>2
<1>6. /\ DOMAIN row = RowNames /\ row.close = bar.close
      /\ \A name \in Published : row[name] = vals[name]
      /\ \A c \in DerivedNames : row[c] = d[c]
  <2>1. Published \subseteq Names
    BY DEF Published, Names, ROLLING_SPEC
  <2>2. QED BY <2>1, RowShape DEF StreamVals
<1>7. /\ Published \subseteq Kept /\ Published \subseteq Names \ LogNames
      /\ {"vol_ma", "vol_sum", "taker_sum", "entry_low", "entry_high"} \subseteq Names \ LogNames
      /\ LogNames = {"vol_mean", "vol_std"}
      /\ DerivedNames = {"vol_ratio", "vol_zscore", "channel_pos", "ret", "taker_buy_ratio"}
  BY DEF Published, Kept, Names, ROLLING_SPEC, LogNames, DerivedNames
<1>8. \A name \in Published : row[name] = more[i][name]
  BY <1>3, <1>5, <1>6, <1>7
<1>9. d.channel_pos = e.channel_pos
  <2>1. vals["entry_low"] = col["entry_low"] /\ vals["entry_high"] = col["entry_high"]
    BY <1>3, <1>7
  <2> HIDE DEF vals, col
  <2>2. d.channel_pos = ChannelPos(bar.close, vals["entry_low"], vals["entry_high"])
    BY DEF StreamDerived
  <2>3. e.channel_pos = ChannelPos(more[i].close, col["entry_low"], col["entry_high"])
    BY DEF FrameDerived
  <2> HIDE DEF i, d, e
  <2>4. QED BY <1>2, <2>1, <2>2, <2>3
<1>10. d.ret = e.ret
  <2> DEFINE cs == st.closes
             ours(p) == IF Len(cs) < p THEN NaN ELSE <<bar.close, cs[Len(cs) - p + 1]>>
             theirs(p) == IF i <= p THEN NaN ELSE <<more[i].close, more[i-p].close>>
  <2>1. d.ret = [p \in ReturnPeriods |-> ours(p)]
    BY DEF StreamDerived
  <2>2. e.ret = [p \in ReturnPeriods |-> theirs(p)]
    BY DEF FrameDerived
  <2>3. cs = Recent(Field(frame, "close"), n, 30)
    BY DEF StreamFits
  <2> HIDE DEF vals, col, d, e, cs
  <2>4. ASSUME NEW p \in ReturnPeriods PROVE ours(p) = theirs(p)
    <3>1. /\ Len(cs) < p <=> n + 1 <= p
          /\ ~(n + 1 <= p) => cs[Len(cs) - p + 1] = more[n + 1 - p].close
      BY <2>3, ReturnArrives
    <3>2. CASE n + 1 <= p
      <4>1. ours(p) = NaN /\ theirs(p) = NaN
        BY <3>1, <3>2
      <4>2. QED BY <4>1
    <3>3. CASE ~(n + 1 <= p)
      <4>1. ours(p) = <<bar.close, cs[Len(cs) - p + 1]>>
        BY <3>1, <3>3
      <4>2. i = n + 1 /\ ~(i <= p) /\ p \in Nat /\ i \in Nat /\ n \in Nat
        BY <1>1, <3>3 DEF ReturnPeriods
      <4> HIDE DEF i
      <4>3. theirs(p) = <<more[i].close, more[i-p].close>>
        BY <4>2
      <4>4. cs[Len(cs) - p + 1] = more[i-p].close
        <5> DEFINE from == n + 1 - p
                   L == cs[Len(cs) - p + 1]
        <5>1. L = more[from].close
          BY <3>1, <3>3
        <5>2. from = i - p
          BY <4>2
        <5> HIDE DEF from, L
        <5>3. L = more[i-p].close
          BY <5>1, <5>2
        <5>4. QED BY <5>3 DEF L
      <4>5. QED BY <1>2, <4>1, <4>3, <4>4
    <3>4. QED BY <3>2, <3>3
  <2> HIDE DEF ours, theirs
  <2>5. QED BY <2>1, <2>2, <2>4
<1>11. SeenAt(more, i) => d.vol_ratio = e.vol_ratio /\ d.taker_buy_ratio = e.taker_buy_ratio
  <2> SUFFICES ASSUME SeenAt(more, i)
               PROVE  d.vol_ratio = e.vol_ratio /\ d.taker_buy_ratio = e.taker_buy_ratio
    OBVIOUS
  <2>1. vals["vol_ma"] = col["vol_ma"] /\ vals["vol_sum"] = col["vol_sum"] /\ vals["taker_sum"] = col["taker_sum"]
    BY <1>3, <1>7
  <2>2. col["vol_ma"] # 0 /\ col["vol_sum"] # 0
    <3>1. ASSUME NEW name \in {"vol_ma", "vol_sum"} PROVE ColumnAt(more, name, i) # 0
      <4> HIDE DEF i
      <4>1. Frame(more, i) /\ i \in 1..i
        BY <1>1 DEF i
      <4>2. QED BY <4>1, VolumeSums
    <3>2. col["vol_ma"] = ColumnAt(more, "vol_ma", i) /\ col["vol_sum"] = ColumnAt(more, "vol_sum", i)
      BY <1>7
    <3>3. QED BY <3>1, <3>2
  <2> HIDE DEF vals, col
  <2>3. /\ d.vol_ratio = IF vals["vol_ma"] = 0 THEN NaN ELSE Quotient(bar.volume, vals["vol_ma"])
        /\ d.taker_buy_ratio = IF vals["vol_sum"] = 0 THEN NaN
                               ELSE Quotient(vals["taker_sum"], vals["vol_sum"])
    BY DEF StreamDerived
  <2>4. /\ e.vol_ratio = Quotient(more[i].volume, col["vol_ma"])
        /\ e.taker_buy_ratio = Quotient(col["taker_sum"], col["vol_sum"])
    BY DEF FrameDerived
  <2> HIDE DEF i, d, e
  <2>5. QED BY <1>2, <2>1, <2>2, <2>3, <2>4
<1>12. FullAt(more, i) => d.vol_zscore = e.vol_zscore
  <2> SUFFICES ASSUME FullAt(more, i) PROVE d.vol_zscore = e.vol_zscore
    OBVIOUS
  <2>1. FullAt(more, n) /\ more[i].volume > 0
    <3>1. \A k \in 1..n : k \in 1..i
      BY <1>1
    <3>2. QED BY <1>1, <3>1 DEF FullAt
  <2>2. vals["vol_mean"] = col["vol_mean"] /\ vals["vol_std"] = col["vol_std"]
    BY <1>4, <1>7, <2>1
  <2> DEFINE logv == InputValue(bar, st.prev, "log_volume")
             ours == InputAt(more, "log_volume", i)
             Z(v, mean, std) ==
               IF std = 0 THEN NaN
               ELSE Quotient(Minus(IF v = NaN THEN NaN ELSE Period("vol_mean") * v, mean), std)
  <2>3. logv = ours
    BY <1>2, <2>1 DEF InputValue, InputAt
  <2> HIDE DEF vals, col, logv, ours
  <2>4. d.vol_zscore = Z(logv, vals["vol_mean"], vals["vol_std"])
    BY DEF StreamDerived, logv
  <2>5. e.vol_zscore = Z(ours, col["vol_mean"], col["vol_std"])
    BY DEF FrameDerived, ours
  <2> HIDE DEF i, d, e, Z
  <2>6. QED BY <2>2, <2>3, <2>4, <2>5
<1> HIDE DEF d, e
<1>13. row["ret"] = more[i]["ret"] /\ row["channel_pos"] = more[i]["channel_pos"]
  BY <1>5, <1>6, <1>7, <1>9, <1>10
<1>14. SeenAt(more, i) => /\ row["vol_ratio"] = more[i]["vol_ratio"]
                          /\ row["taker_buy_ratio"] = more[i]["taker_buy_ratio"]
  BY <1>5, <1>6, <1>7, <1>11
<1>15. FullAt(more, i) => row["vol_zscore"] = more[i]["vol_zscore"]
  BY <1>5, <1>6, <1>7, <1>12
<1> HIDE DEF row, i
<1>16. RowInv(row, more, i)
  BY <1>2, <1>6, <1>8, <1>13, <1>14, <1>15 DEF RowInv
<1>17. QED BY <1>16 DEF row, i

\* A row the stream returned is still the frame's when later bars have come.
LEMMA RowInvStays ==
  ASSUME NEW frame, NEW more, NEW n \in Nat, \A k \in 1..n : more[k] = frame[k],
         NEW i \in 1..n, NEW row, RowInv(row, frame, i)
  PROVE  RowInv(row, more, i)
<1>1. more[i] = frame[i]
  OBVIOUS
<1>2. FullAt(more, i) <=> FullAt(frame, i)
  <2>1. \A k \in 1..i : k \in 1..n
    OBVIOUS
  <2>2. QED BY <2>1 DEF FullAt
<1>3. SeenAt(more, i) <=> SeenAt(frame, i)
  <2> DEFINE period == Period("vol_ma")
             low == Max({1, i - period})
  <2>1. period \in Nat
    BY PeriodsAssumption DEF Period, ROLLING_SPEC, RollingSpec
  <2>2. low \in Int /\ low >= 1
    <3>1. i - period \in Int
      BY <2>1
    <3>2. low = IF 1 >= i - period THEN 1 ELSE i - period
      BY <3>1, MaxOfTwo
    <3> HIDE DEF low
    <3>3. QED BY <3>1, <3>2
  <2> HIDE DEF low
  <2>3. \A k \in low .. i - 1 : more[k] = frame[k]
    BY <2>2
  <2>4. \A f : SeenAt(f, i) <=> i <= period \/ \E k \in low .. i - 1 : f[k].volume > 0
    BY DEF SeenAt, low
  <2> HIDE DEF period
  <2>5. QED BY <2>3, <2>4
<1>4. QED BY <1>1, <1>2, <1>3 DEF RowInv

-----------------------------------------------------------------------------
(* The stream follows the frame.                                           *)

StreamInv ==
  /\ Stands(ind)
  /\ StreamFits(stream, ind, Len(ind))
  /\ Sequence(rows) /\ Len(rows) = Len(ind)
  /\ \A i \in 1..Len(ind) : RowInv(rows[i], ind, i)

LEMMA StreamInit == StudyInit => StreamInv
<1> SUFFICES ASSUME StudyInit PROVE StreamInv
  OBVIOUS
<1>1. ind = <<>> /\ rows = <<>> /\ stream = NewIndicators
  BY DEF StudyInit
<1>2. Sequence(<<>>) /\ Len(<<>>) = 0 /\ DOMAIN <<>> = {}
  <2>1. <<>> \in Seq({})
    OBVIOUS
  <2>2. QED BY <2>1 DEF Sequence
<1>3. Stands(ind)
  BY <1>1, <1>2 DEF Stands
<1>4. StreamFits(NewIndicators, ind, 0)
  <2> DEFINE st == NewIndicators
  <2>1. st.prev = NaN /\ st.closes = <<>> /\ \A name \in Names : st.trackers[name] = NewTracker
    BY DEF NewIndicators
  <2> HIDE DEF st
  <2>2. st.closes = Recent(Field(ind, "close"), 0, 30)
    <3> DEFINE s == Field(ind, "close")
    <3>1. Least(0, 30) = 0
      BY LeastIs
    <3> HIDE DEF s
    <3>2. Recent(s, 0, 30) = [k \in 1..0 |-> s[0 - 0 + k]]
      BY <3>1 DEF Recent
    <3>3. [k \in 1..0 |-> s[0 - 0 + k]] = <<>>
      OBVIOUS
    <3>4. QED BY <2>1, <3>2, <3>3 DEF s
  <2>3. Cardinality(Traded(ind)) = 0
    <3>1. Traded(ind) = {}
      BY <1>1, <1>2 DEF Traded
    <3>2. QED BY <3>1, FS_EmptySet
  <2>4. LogNames \subseteq Names
    BY DEF LogNames, Names, ROLLING_SPEC
  <2>5. ASSUME NEW name \in Names, NEW s PROVE Tracks(st.trackers[name], name, s, 0)
    BY <2>1, NewTracks
  <2>6. StreamFits(st, ind, 0)
    BY <2>1, <2>2, <2>3, <2>4, <2>5 DEF StreamFits
  <2>7. QED BY <2>6 DEF st
<1>5. QED BY <1>1, <1>2, <1>3, <1>4 DEF StreamInv

LEMMA StreamBar ==
  ASSUME StudyInv, StreamInv, NEW bar \in Bars, NewBar(bar)
  PROVE  StreamInv'
<1> DEFINE n == Len(ind)
           row == StreamRow(stream, bar)
<1>1. IsBar(bar)
  BY BarsAssumption
<1>2. /\ ind' = AddIndicators(Append(ind, bar))
      /\ rows' = Append(rows, row) /\ stream' = Absorb(stream, bar)
  BY DEF NewBar
<1>3. /\ Sequence(ind) /\ Indicated(ind, n) /\ n \in Nat /\ DOMAIN ind = 1..n
  BY SequenceShape DEF StudyInv, ReadInv
<1>4. /\ Stands(ind) /\ StreamFits(stream, ind, n) /\ Sequence(rows) /\ Len(rows) = n
      /\ \A i \in 1..n : RowInv(rows[i], ind, i)
  BY DEF StreamInv
<1>5. Sequence(ind') /\ Len(ind') = n + 1 /\ Indicated(ind', n + 1)
  BY <1>1, <1>2, <1>3, FrameGrows
<1>6. /\ Stands(ind') /\ \A i \in 1..n : ind'[i] = ind[i]
      /\ \A f \in Fields : ind'[n+1][f] = bar[f]
  BY <1>1, <1>2, <1>3, <1>4, RowsStay
<1>7. /\ Sequence(rows') /\ Len(rows') = n + 1
      /\ \A i \in 1..n : rows'[i] = rows[i]
      /\ rows'[n+1] = row
  <2> HIDE DEF row, n
  <2>1. /\ Sequence(Append(rows, row)) /\ Len(Append(rows, row)) = Len(rows) + 1
        /\ \A k \in 1..Len(rows) : Append(rows, row)[k] = rows[k]
        /\ Append(rows, row)[Len(rows)+1] = row
    BY <1>4, Appended
  <2>2. QED BY <1>2, <1>4, <2>1
<1> HIDE DEF row
<1>8. Continues(ind, ind', n)
  BY <1>3, <1>5, <1>6 DEF Continues, Indicated
<1>9. StreamFits(stream', ind', n + 1)
  <2>1. StreamFits(Absorb(stream, bar), ind', n + 1)
    BY <1>4, <1>6, <1>8, StreamAbsorbs
  <2>2. QED BY <1>2, <2>1
<1>10. RowInv(row, ind', n + 1)
  BY <1>4, <1>6, <1>8, NewRow DEF row
<1>11. ASSUME NEW i \in 1..(n+1) PROVE RowInv(rows'[i], ind', i)
  <2>1. i \in 1..n \/ i = n + 1
    BY <1>3
  <2>2. CASE i \in 1..n
    <3>1. RowInv(rows[i], ind, i)
      BY <1>4, <2>2
    <3>2. RowInv(rows[i], ind', i)
      BY <1>3, <1>6, <2>2, <3>1, RowInvStays
    <3>3. QED BY <1>7, <2>2, <3>2
  <2>3. CASE i = n + 1
    BY <1>7, <1>10, <2>3
  <2>4. QED BY <2>1, <2>2, <2>3
<1>12. Len(ind)' = n + 1
  BY <1>5
<1> HIDE DEF n
<1>13. QED BY <1>5, <1>6, <1>7, <1>9, <1>11, <1>12 DEF StreamInv

LEMMA StreamNext == StudyInv /\ StreamInv /\ [StudyNext]_studyVars => StreamInv'
<1> SUFFICES ASSUME StudyInv, StreamInv, [StudyNext]_studyVars PROVE StreamInv'
  OBVIOUS
<1>1. CASE \E bar \in Bars : NewBar(bar)
  BY <1>1, StreamBar
<1>2. CASE UNCHANGED <<ind, stream, rows>>
  BY <1>2 DEF StreamInv
<1>3. CASE \E s \in Studies : Start(s)
  BY <1>2, <1>3 DEF Start
<1>4. CASE \E score \in BOOLEAN : ReplayBar(score)
  BY <1>2, <1>4 DEF ReplayBar
<1>5. CASE UNCHANGED studyVars
  BY <1>2, <1>5 DEF studyVars
<1>6. QED BY <1>1, <1>3, <1>4, <1>5 DEF StudyNext

LEMMA StreamInvariant == StudySpec => [](StudyInv /\ StreamInv)
<1>1. StudyInit => StreamInv
  BY StreamInit
<1>2. StudyInv /\ StreamInv /\ [StudyNext]_studyVars => StreamInv'
  BY StreamNext
<1>3. StudySpec => []StudyInv
  BY StudyInvariant
<1>4. QED BY <1>1, <1>2, <1>3, PTL DEF StudySpec

LEMMA InvStream == StudyInv /\ StreamInv => StreamMatchesFrame
<1> SUFFICES ASSUME StudyInv, StreamInv PROVE StreamMatchesFrame
  OBVIOUS
<1>1. DOMAIN ind = 1..Len(ind)
  BY SequenceShape DEF StudyInv, ReadInv
<1>2. ASSUME NEW i \in DOMAIN ind PROVE RowInv(rows[i], ind, i)
  BY <1>1 DEF StreamInv
<1>3. ASSUME NEW i
      PROVE  (VolumeSeen(i) <=> SeenAt(ind, i)) /\ (NoGapBefore(i) <=> FullAt(ind, i))
  BY DEF VolumeSeen, Window, HasVolume, NoGapBefore, SeenAt, FullAt
<1>4. QED BY <1>2, <1>3 DEF StreamMatchesFrame, RowInv

LEMMA InvGaps == StudyInv /\ StreamInv => StreamSkipsGaps
<1> SUFFICES ASSUME StudyInv, StreamInv PROVE StreamSkipsGaps
  OBVIOUS
<1> DEFINE traded == Ascending({i \in DOMAIN ind : HasVolume(i)})
           volumes == [k \in DOMAIN traded |-> ind[traded[k]].volume]
           m == Cardinality(Traded(ind))
           s == TradedVolumes(ind)
<1>1. Frame(ind, Len(ind))
  BY DEF StudyInv, ReadInv, Indicated
<1>2. traded = Ascending(Traded(ind))
  <2>1. {i \in DOMAIN ind : HasVolume(i)} = Traded(ind)
    BY DEF Traded, HasVolume
  <2>2. QED BY <2>1
<1>3. volumes = s
  <2> HIDE DEF traded
  <2>1. QED BY <1>2 DEF TradedVolumes
<1>4. Len(traded) = m /\ m \in Nat /\ \A k \in 1..m : s[k] \in Nat \ {0}
  <2>1. /\ m \in Nat /\ Len(Ascending(Traded(ind))) = m
        /\ \A k \in 1..m : s[k] \in Nat \ {0}
    BY <1>1, TradedRows
  <2> HIDE DEF traded, m, s
  <2>2. QED BY <1>2, <2>1
<1>5. ASSUME NEW name \in LogNames
      PROVE  TrackerValue(stream.trackers[name], name) = Rolling(s, ROLLING_SPEC[name].op, Period(name), m)
  <2>1. name \in Names
    BY DEF LogNames, Names, ROLLING_SPEC
  <2>2. Tracks(stream.trackers[name], name, s, m)
    BY DEF StreamInv, StreamFits
  <2> HIDE DEF s, m
  <2>3. \A k \in 1..m : s[k] \in Int
    BY <1>4
  <2>4. QED BY <1>4, <2>1, <2>2, <2>3, TrackerReads
<1> HIDE DEF s, m, traded, volumes
<1>6. \A name \in {"vol_mean", "vol_std"} :
        TrackerValue(stream.trackers[name], name)
          = Rolling(volumes, ROLLING_SPEC[name].op, Period(name), Len(traded))
  BY <1>3, <1>4, <1>5 DEF LogNames
<1>7. QED BY <1>6 DEF StreamSkipsGaps, traded, volumes

-----------------------------------------------------------------------------
(* Live decisions.  A bar cannot close above the channel and below it.     *)

LEMMA ChannelOrdered ==
  ASSUME NEW frame, NEW n, Frame(frame, n), NEW i \in 1..n,
         ColumnAt(frame, "entry_high", i) # NaN, ColumnAt(frame, "entry_low", i) # NaN
  PROVE  /\ ColumnAt(frame, "entry_high", i) \in Int /\ ColumnAt(frame, "entry_low", i) \in Int
         /\ ColumnAt(frame, "entry_low", i) <= ColumnAt(frame, "entry_high", i)
<1> DEFINE period == Period("entry_high")
           high == InputSeries(frame, "high")
           low == InputSeries(frame, "low")
           m == i - 1
           v == [k \in 1..period |-> high[m - period + k]]
           w == [k \in 1..period |-> low[m - period + k]]
<1>1. /\ n \in Nat /\ DOMAIN frame = 1..n
      /\ \A k \in 1..n : /\ frame[k].high \in Int /\ frame[k].low \in Int
                         /\ frame[k].low <= frame[k].high
  BY DEF Frame, IsBar
<1>2. /\ period \in Nat \ {0} /\ Period("entry_low") = period
      /\ ROLLING_SPEC["entry_high"].op = "max" /\ ROLLING_SPEC["entry_low"].op = "min"
      /\ ROLLING_SPEC["entry_high"].input = "high" /\ ROLLING_SPEC["entry_low"].input = "low"
  BY PeriodsAssumption DEF Period, ROLLING_SPEC, RollingSpec
<1>3. \A k \in 1..n : high[k] = frame[k].high /\ low[k] = frame[k].low
  BY <1>1 DEF InputSeries, InputAt
<1> HIDE DEF high, low, period
<1>4. i # 1
  BY DEF ColumnAt
<1>5. /\ ColumnAt(frame, "entry_high", i) = Rolling(high, "max", period, m)
      /\ ColumnAt(frame, "entry_low", i) = Rolling(low, "min", period, m)
  BY <1>2, <1>4 DEF ColumnAt, high, low, period
<1>6. ~(m < period) /\ m \in 1..n
  <2>1. m \in 1..n
    BY <1>1, <1>4
  <2>2. CASE m < period
    <3> HIDE DEF m
    <3>1. Rolling(high, "max", period, m) = NaN
      BY <2>2 DEF Rolling
    <3>2. QED BY <1>5, <3>1
  <2>3. QED BY <2>1, <2>2
<1>7. \A k \in 1..period : m - period + k \in 1..n
  BY <1>1, <1>2, <1>6
<1> HIDE DEF m
<1>8. /\ v \in [1..period -> Int] /\ w \in [1..period -> Int]
      /\ \A k \in 1..period : w[k] <= v[k]
  BY <1>1, <1>3, <1>7
<1>9. NaN \notin ToSet(v) /\ NaN \notin ToSet(w)
  <2> HIDE DEF v, w
  <2>1. QED BY <1>2, <1>8, WindowValues, NaNAssumption
<1>10. /\ Rolling(high, "max", period, m) = Aggregate("max", period, v)
       /\ Rolling(low, "min", period, m) = Aggregate("min", period, w)
  BY <1>6, <1>9 DEF Rolling
<1> HIDE DEF v, w
<1> DEFINE S == ToSet(v)
           T == ToSet(w)
<1>11. /\ Aggregate("max", period, v) = Max(S)
       /\ Aggregate("min", period, w) = Min(T)
  BY DEF Aggregate
<1>12. /\ S \subseteq Int /\ IsFiniteSet(S) /\ S # {}
       /\ T \subseteq Int /\ IsFiniteSet(T) /\ T # {}
  BY <1>2, <1>8, WindowValues
<1>13. v[1] \in S /\ w[1] \in T /\ w[1] <= v[1]
  <2>1. 1 \in 1..period
    BY <1>2
  <2>2. QED BY <1>8, <2>1 DEF ToSet
<1> HIDE DEF S, T
<1>14. Max(S) \in S /\ v[1] <= Max(S) /\ Min(T) \in T /\ Min(T) <= w[1]
  BY <1>12, <1>13, MaxOfFinite, MinOfFinite
<1>15. Max(S) \in Int /\ Min(T) \in Int /\ v[1] \in Int /\ w[1] \in Int
  BY <1>12, <1>13, <1>14
<1>16. Min(T) <= Max(S)
  BY <1>13, <1>14, <1>15
<1>17. QED BY <1>5, <1>10, <1>11, <1>15, <1>16

\* Two rows that read the same.
Reads(row, eg) ==
  /\ row.close = eg.close
  /\ \A c \in Published \cup DerivedNames : c \in DOMAIN row /\ c \in DOMAIN eg /\ row[c] = eg[c]

LEMMA SameInputs ==
  ASSUME NEW row, NEW eg, Reads(row, eg)
  PROVE  default_feature_set(row) = default_feature_set(eg)
<1>1. ASSUME NEW c \in Published \cup DerivedNames, NEW fallback
      PROVE  SafeLoc(row, c, fallback) = SafeLoc(eg, c, fallback)
  BY DEF Reads, SafeLoc
<1>2. row.close = eg.close /\ row.ret = eg.ret
  BY DEF Reads, DerivedNames
<1>3. feature_atr(row) = feature_atr(eg)
  BY <1>1, <1>2 DEF feature_atr, Published
<1>4. feature_breakout_intensity(row) = feature_breakout_intensity(eg)
  BY <1>1, <1>2 DEF feature_breakout_intensity, Published
<1>5. feature_volume_ratio(row) = feature_volume_ratio(eg)
  BY <1>1 DEF feature_volume_ratio, DerivedNames
<1>6. feature_channel_position(row) = feature_channel_position(eg)
  BY <1>1 DEF feature_channel_position, DerivedNames
<1>7. feature_donchian_width(row) = feature_donchian_width(eg)
  BY <1>1, <1>2 DEF feature_donchian_width, Published
<1>8. feature_lagged_returns(row) = feature_lagged_returns(eg)
  BY <1>2 DEF feature_lagged_returns, SafeReturn
<1>9. feature_taker_flow(row) = feature_taker_flow(eg)
  BY <1>1 DEF feature_taker_flow, DerivedNames
<1>10. feature_trend_filter(row) = feature_trend_filter(eg)
  BY <1>1, <1>2 DEF feature_trend_filter, Published
<1>11. QED
  BY <1>3, <1>4, <1>5, <1>6, <1>7, <1>8, <1>9, <1>10 DEF default_feature_set

\* A bar whose volumes were all there has one in its window.
LEMMA FullIsSeen ==
  ASSUME NEW frame, NEW i \in Nat \ {0}, FullAt(frame, i)
  PROVE  SeenAt(frame, i)
<1> DEFINE period == Period("vol_ma")
           low == Max({1, i - period})
<1>1. period \in Nat \ {0}
  BY PeriodsAssumption DEF Period, ROLLING_SPEC, RollingSpec
<1>2. SUFFICES ASSUME ~(i <= period) PROVE \E k \in low .. i - 1 : frame[k].volume > 0
  BY DEF SeenAt
<1>3. i - period \in Int
  BY <1>1
<1>4. low = IF 1 >= i - period THEN 1 ELSE i - period
  BY <1>3, MaxOfTwo
<1> HIDE DEF low, period
<1>5. i - 1 \in low .. i - 1 /\ i - 1 \in 1..i
  BY <1>1, <1>2, <1>4
<1>6. QED BY <1>5 DEF FullAt

LEMMA InvLive == StudyInv /\ StreamInv => LiveDecisionMatchesFrame
<1> SUFFICES ASSUME StudyInv, StreamInv PROVE LiveDecisionMatchesFrame
  OBVIOUS
<1> DEFINE n == Len(ind)
           Trend(b) == [long_only |-> b]
<1>1. DOMAIN ind = 1..n /\ n \in Nat /\ Frame(ind, n) /\ Indicated(ind, n)
  BY SequenceShape DEF StudyInv, ReadInv, Indicated
<1>2. Stands(ind) /\ \A i \in 1..n : RowInv(rows[i], ind, i)
  BY DEF StreamInv
<1> HIDE DEF n
<1>3. ASSUME NEW i \in DOMAIN ind
      PROVE  /\ AdamRow(rows[i]) = AdamBreakout(ind)[i]
             /\ \A b \in BOOLEAN : TrendRow(rows[i], Trend(b)) = TrendFilteredBreakout(ind, Trend(b))[i]
             /\ NoGapBefore(i) => default_feature_set(rows[i]) = default_feature_set(ind[i])
  <2> DEFINE row == rows[i]
             eg == ind[i]
             close == eg.close
             high == eg.entry_high
             low == eg.entry_low
             ma == eg.ma
  <2>1. RowInv(row, ind, i) /\ i \in 1..n
    BY <1>1, <1>2
  <2>2. \A name \in Kept : eg[name] = ColumnAt(ind, name, i)
    BY <1>2, ColumnOfRow
  <2>3. ColumnNames \subseteq DOMAIN eg
    BY <1>2, ColumnOfRow
  <2>4. Published \subseteq Kept /\ {"entry_high", "entry_low", "ma"} \subseteq Published
    BY DEF Published, Kept, Names, ROLLING_SPEC
  <2>5. DOMAIN row = RowNames /\ row.close = close /\ \A name \in Published : row[name] = eg[name]
    BY <2>1 DEF RowInv
  <2>6. /\ SafeLoc(row, "entry_high", NaN) = high /\ SafeLoc(row, "entry_low", NaN) = low
        /\ SafeLoc(row, "ma", NaN) = ma
    <3>1. ASSUME NEW c \in {"entry_high", "entry_low", "ma"} PROVE SafeLoc(row, c, NaN) = eg[c]
      <4>1. c \in DOMAIN row /\ row[c] = eg[c]
        BY <2>4, <2>5 DEF RowNames
      <4>2. QED BY <4>1 DEF SafeLoc
    <3>2. QED BY <3>1
  <2>7. close \in Int /\ (Above(close, high) => ~Below(close, low))
    <3>1. close \in Int
      BY <1>1, <2>1 DEF Frame, IsBar
    <3>2. high = ColumnAt(ind, "entry_high", i) /\ low = ColumnAt(ind, "entry_low", i)
      BY <2>2, <2>4
    <3>3. ASSUME Above(close, high), Below(close, low) PROVE FALSE
      <4>1. high # NaN /\ low # NaN /\ close > high /\ close < low
        BY <3>3 DEF Above, Below
      <4>2. high \in Int /\ low \in Int /\ low <= high
        BY <1>1, <2>1, <3>2, <4>1, ChannelOrdered
      <4>3. QED BY <3>1, <4>1, <4>2
    <3>4. QED BY <3>1, <3>3
  <2>8. AdamBreakout(ind)[i] = Signal(Above(close, high), Below(close, low))
    BY DEF AdamBreakout
  <2>9. ASSUME NEW b \in BOOLEAN
        PROVE  TrendFilteredBreakout(ind, Trend(b))[i]
                 = Signal(Above(close, high) /\ AboveMean(close, ma),
                          (Below(close, low) /\ BelowMean(close, ma)) /\ ~b)
    BY DEF TrendFilteredBreakout
  <2>10. NoGapBefore(i) => default_feature_set(row) = default_feature_set(eg)
    <3> SUFFICES ASSUME NoGapBefore(i) PROVE default_feature_set(row) = default_feature_set(eg)
      OBVIOUS
    <3>1. FullAt(ind, i)
      BY DEF NoGapBefore, HasVolume, FullAt
    <3>2. SeenAt(ind, i)
      BY <1>1, <2>1, <3>1, FullIsSeen
    <3> HIDE DEF row, eg
    <3>3. RowInv(row, ind, i) /\ eg = ind[i]
      BY <2>1 DEF eg
    <3>4. \A c \in Published \cup DerivedNames : row[c] = eg[c]
      BY <3>1, <3>2, <3>3 DEF RowInv, DerivedNames
    <3>5. \A c \in Published \cup DerivedNames : c \in DOMAIN row /\ c \in DOMAIN eg
      BY <2>3, <2>4, <2>5 DEF RowNames, ColumnNames
    <3>6. Reads(row, eg)
      BY <2>5, <3>4, <3>5 DEF Reads
    <3>7. QED BY <3>6, SameInputs
  <2> HIDE DEF row, eg, close, high, low, ma
  <2>11. AdamRow(row) = IF Above(close, high) THEN 1 ELSE IF Below(close, low) THEN -1 ELSE 0
    BY <2>5, <2>6 DEF AdamRow
  <2>12. ASSUME NEW b \in BOOLEAN
         PROVE  TrendRow(row, Trend(b)) =
                  IF b THEN (IF Above(close, high) /\ AboveMean(close, ma) THEN 1 ELSE 0)
                  ELSE IF Above(close, high) /\ AboveMean(close, ma) THEN 1
                  ELSE IF Below(close, low) /\ BelowMean(close, ma) THEN -1 ELSE 0
    BY <2>5, <2>6 DEF TrendRow
  <2>13. AdamRow(row) = AdamBreakout(ind)[i]
    BY <2>7, <2>8, <2>11 DEF Signal
  <2>14. ASSUME NEW b \in BOOLEAN PROVE TrendRow(row, Trend(b)) = TrendFilteredBreakout(ind, Trend(b))[i]
    <3> DEFINE up == Above(close, high) /\ AboveMean(close, ma)
               down == Below(close, low) /\ BelowMean(close, ma)
    <3>1. up => ~down
      BY <2>7
    <3>2. TrendRow(row, Trend(b)) = IF b THEN (IF up THEN 1 ELSE 0)
                                    ELSE IF up THEN 1 ELSE IF down THEN -1 ELSE 0
      BY <2>12
    <3>3. TrendFilteredBreakout(ind, Trend(b))[i] = IF down /\ ~b THEN -1 ELSE IF up THEN 1 ELSE 0
      BY <2>9 DEF Signal
    <3> HIDE DEF up, down, Trend
    <3>4. QED BY <3>1, <3>2, <3>3
  <2>15. QED BY <2>10, <2>13, <2>14 DEF row, eg
<1>4. QED BY <1>3 DEF LiveDecisionMatchesFrame

(***************************************************************************)
(* A row the streaming indicators return is the row add_indicators() would *)
(* give the bar: the channels, the ATR, the mean, the channel position and *)
(* the returns always, the volume ratios when the window has a volume, the *)
(* volume score while no bar was without one                               *)
(* (src/research/features_incremental.py:213-284,                          *)
(* src/research/features.py:84-121).                                       *)
(***************************************************************************)
THEOREM StreamIsFrame == StudySpec => []StreamMatchesFrame
BY StreamInvariant, InvStream, PTL

(***************************************************************************)
(* A bar without volume does not enter the trackers of the log volume:     *)
(* what they say is the mean and the deviation of the last vol_period bars *)
(* that traded, however many gaps lie between                              *)
(* (src/research/features_incremental.py:273-277).                         *)
(***************************************************************************)
THEOREM GapsAreSkipped == StudySpec => []StreamSkipsGaps
BY StreamInvariant, InvGaps, PTL

(***************************************************************************)
(* The live strategy's signal for a bar, read from the streaming row, is   *)
(* the study's for the same row of the frame, and so are the model's       *)
(* inputs while no bar was without volume; a bar cannot close above its    *)
(* channel and below it, so it does not matter that the live rule tries    *)
(* the long side first and the study writes the short side last            *)
(* (src/research/triggers/adam_breakout.py:52-85,                          *)
(* src/research/triggers/trend_breakout.py:30-70).                         *)
(***************************************************************************)
THEOREM LiveIsStudy == StudySpec => []LiveDecisionMatchesFrame
BY StreamInvariant, InvLive, PTL

-----------------------------------------------------------------------------
(* The data sets: which columns they have.                                 *)

\* The labels a replay begins with are those of its events.
EventsInv ==
  phase = "replay" =>
    DOMAIN bt.labels = EventRows(events[study.trigger]) /\ DOMAIN bt.labels # {}

LEMMA EventsNext == StudyInv /\ EventsInv /\ [StudyNext]_studyVars => EventsInv'
<1> SUFFICES ASSUME StudyInv, EventsInv, [StudyNext]_studyVars PROVE EventsInv'
  OBVIOUS
<1>1. ASSUME NEW bar \in Bars, NewBar(bar) PROVE EventsInv'
  BY <1>1 DEF NewBar, EventsInv
<1>2. ASSUME NEW s \in Studies, Start(s) PROVE EventsInv'
  <2> DEFINE labels == Labels(s.labeler, ind, events[s.trigger])
  <2>1. /\ study' = s /\ phase' = (IF DOMAIN labels = {} THEN "done" ELSE "replay")
        /\ bt' = [NewBacktest EXCEPT !.labels = labels] /\ events' = events
    BY <1>2 DEF Start
  <2>2. DOMAIN labels = EventRows(events[s.trigger])
    BY DEF Labels
  <2> HIDE DEF labels
  <2>3. bt'.labels = labels
    BY <2>1 DEF NewBacktest
  <2>4. QED BY <2>1, <2>2, <2>3 DEF EventsInv
<1>3. ASSUME NEW score \in BOOLEAN, ReplayBar(score) PROVE EventsInv'
  <2> DEFINE a == Mark(TryOpen(study, SkipPast(CloseTrade([bt EXCEPT !.i = @ + 1])), score))
  <2>1. phase = "replay" /\ bt' = a /\ events' = events /\ study' = study
    BY <1>3 DEF ReplayBar
  <2>2. /\ Indicated(ind, Len(ind)) /\ Len(ind) \in Nat /\ study \in Studies
        /\ LabelsOn(bt.labels, ind, events[study.trigger], Len(ind)) /\ ReplayInv(bt) /\ bt.i < Len(ind)
    BY <2>1, SequenceShape DEF StudyInv, ReadInv
  <2>3. a.labels = bt.labels
    BY <2>2, PassInv
  <2> HIDE DEF a
  <2>4. QED BY <2>1, <2>3 DEF EventsInv
<1>4. CASE UNCHANGED studyVars
  BY <1>4 DEF studyVars, EventsInv
<1>5. QED BY <1>1, <1>2, <1>3, <1>4 DEF StudyNext

LEMMA EventsInvariant == StudySpec => [](StudyInv /\ EventsInv)
<1>1. StudyInit => EventsInv
  BY DEF StudyInit, EventsInv
<1>2. StudyInv /\ EventsInv /\ [StudyNext]_studyVars => EventsInv'
  BY EventsNext
<1>3. StudySpec => []StudyInv
  BY StudyInvariant
<1>4. QED BY <1>1, <1>2, <1>3, PTL DEF StudySpec

LEMMA JoinedColumns ==
  ASSUME NEW f, NEW g
  PROVE  /\ DOMAIN (f ++ g) = DOMAIN f \cup DOMAIN g
         /\ \A c \in DOMAIN f : (f ++ g)[c] = f[c]
         /\ \A c \in DOMAIN g : c \notin DOMAIN f => (f ++ g)[c] = g[c]
BY DEF ++

FeatureColumns ==
  {"atr", "atr_pct", "long_intensity", "short_intensity", "vol_ratio", "vol_zscore", "channel_pos",
   "channel_width_pct", "ret", "taker_buy_ratio", "trend_direction", "ma_ratio"}

\* The inputs of a model are the same for every row.
LEMMA FeaturesNamed ==
  ASSUME NEW row
  PROVE  DOMAIN default_feature_set(row) = FeatureColumns
<1>1. /\ DOMAIN feature_atr(row) = {"atr", "atr_pct"}
      /\ DOMAIN feature_breakout_intensity(row) = {"long_intensity", "short_intensity"}
      /\ DOMAIN feature_volume_ratio(row) = {"vol_ratio", "vol_zscore"}
      /\ DOMAIN feature_channel_position(row) = {"channel_pos"}
      /\ DOMAIN feature_donchian_width(row) = {"channel_width_pct"}
      /\ DOMAIN feature_lagged_returns(row) = {"ret"}
      /\ DOMAIN feature_taker_flow(row) = {"taker_buy_ratio"}
  BY DEF feature_atr, feature_breakout_intensity, feature_volume_ratio, feature_channel_position,
         feature_donchian_width, feature_lagged_returns, feature_taker_flow
<1>2. DOMAIN feature_trend_filter(row) = {"trend_direction", "ma_ratio"}
  BY DEF feature_trend_filter
<1> DEFINE a == feature_atr(row)
           b == feature_breakout_intensity(row)
           c == feature_volume_ratio(row)
           d == feature_channel_position(row)
           e == feature_donchian_width(row)
           f == feature_lagged_returns(row)
           g == feature_taker_flow(row)
           h == feature_trend_filter(row)
<1>3. default_feature_set(row) = a ++ b ++ c ++ d ++ e ++ f ++ g ++ h
  BY DEF default_feature_set
<1> HIDE DEF a, b, c, d, e, f, g, h
<1> DEFINE s2 == a ++ b
           s3 == s2 ++ c
           s4 == s3 ++ d
           s5 == s4 ++ e
           s6 == s5 ++ f
           s7 == s6 ++ g
           s8 == s7 ++ h
<1>4. default_feature_set(row) = s8
  BY <1>3
<1>5. DOMAIN s2 = DOMAIN a \cup DOMAIN b
  BY JoinedColumns
<1> HIDE DEF s2
<1>6. DOMAIN s3 = DOMAIN s2 \cup DOMAIN c
  BY JoinedColumns
<1> HIDE DEF s3
<1>10. DOMAIN s4 = DOMAIN s3 \cup DOMAIN d
  BY JoinedColumns
<1> HIDE DEF s4
<1>11. DOMAIN s5 = DOMAIN s4 \cup DOMAIN e
  BY JoinedColumns
<1> HIDE DEF s5
<1>12. DOMAIN s6 = DOMAIN s5 \cup DOMAIN f
  BY JoinedColumns
<1> HIDE DEF s6
<1>13. DOMAIN s7 = DOMAIN s6 \cup DOMAIN g
  BY JoinedColumns
<1> HIDE DEF s7
<1>14. DOMAIN s8 = DOMAIN s7 \cup DOMAIN h
  BY JoinedColumns
<1> HIDE DEF s8
<1>7. /\ DOMAIN a = {"atr", "atr_pct"} /\ DOMAIN b = {"long_intensity", "short_intensity"}
      /\ DOMAIN c = {"vol_ratio", "vol_zscore"} /\ DOMAIN d = {"channel_pos"}
      /\ DOMAIN e = {"channel_width_pct"} /\ DOMAIN f = {"ret"} /\ DOMAIN g = {"taker_buy_ratio"}
      /\ DOMAIN h = {"trend_direction", "ma_ratio"}
  BY <1>1, <1>2 DEF a, b, c, d, e, f, g, h
<1>8. QED
  BY <1>4, <1>5, <1>6, <1>7, <1>10, <1>11, <1>12, <1>13, <1>14 DEF FeatureColumns

-----------------------------------------------------------------------------
(* The labels' columns.                                                    *)

TripleColumns ==
  {"label", "barrier_hit", "truncated", "exit_idx", "n_bars_held", "entry_price", "exit_price",
   "actual_return", "return_atr"}
ExitColumns ==
  {"label", "barrier_hit", "exit_idx", "n_bars_held", "entry_price", "exit_price", "actual_return"}
MeasuredColumns == ExitColumns \cup {"stop_distance", "r_multiple"}

LEMMA ExitNamed ==
  ASSUME NEW frame, NEW ev, NEW exit, NEW side, NEW price, NEW reason
  PROVE  LET l == ExitAt(frame, ev, exit, side, price, reason)
         IN DOMAIN l = ExitColumns /\ l.exit_idx = exit /\ l.n_bars_held = exit - ev
BY DEF ExitAt, ExitColumns

LEMMA TripleNamed ==
  ASSUME NEW frame, NEW ev, NEW side, NEW p, NEW hit
  PROVE  LET l == Vectorised(frame, ev, side, p, hit)
         IN /\ DOMAIN l = TripleColumns
            /\ l.exit_idx = Min({ev + hit.offset, Len(frame)}) /\ l.n_bars_held = l.exit_idx - ev
            /\ l.truncated => hit.offset > Len(frame) - ev
<1> DEFINE exit == Min({ev + hit.offset, Len(frame)})
           known == [label |-> hit.label, barrier_hit |-> hit.barrier_hit,
                     truncated |-> hit.offset > Len(frame) - ev]
           left == LeftAt(frame, ev, exit, side, p)
           l == known ++ left
<1>1. Vectorised(frame, ev, side, p, hit) = l
  BY DEF Vectorised
<1> HIDE DEF exit
<1>2. /\ DOMAIN left = {"exit_idx", "n_bars_held", "entry_price", "exit_price", "actual_return", "return_atr"}
      /\ left.exit_idx = exit /\ left.n_bars_held = exit - ev
  BY DEF LeftAt
<1>3. DOMAIN known = {"label", "barrier_hit", "truncated"} /\ known.truncated = (hit.offset > Len(frame) - ev)
  OBVIOUS
<1> HIDE DEF left, known
<1>4. /\ DOMAIN l = TripleColumns /\ l.exit_idx = exit /\ l.n_bars_held = exit - ev
      /\ l.truncated = (hit.offset > Len(frame) - ev)
  BY <1>2, <1>3 DEF ++, TripleColumns
<1> HIDE DEF l
<1>5. l.n_bars_held = l.exit_idx - ev
  BY <1>4
<1>6. l.truncated => hit.offset > Len(frame) - ev
  BY <1>4
<1>7. l.exit_idx = Min({ev + hit.offset, Len(frame)})
  BY <1>4 DEF exit
<1>8. QED BY <1>1, <1>4, <1>5, <1>6, <1>7

\* The rows of the horizon that touch a price.
Touches(frame, ev, p, price, s) ==
  {k \in 1..p.horizon : ev + k <= Len(frame) /\ Reaches(frame[ev+k], price, s)}

TouchHit(frame, ev, side, p) ==
  LET b == Barriers(frame, ev, side, p, TRUE)
  IN FirstTouched(First(Touches(frame, ev, p, b.tp, side), 0),
                  First(Touches(frame, ev, p, b.sl, -side), 0), p.horizon)

LEMMA TripleIs ==
  ASSUME NEW frame, NEW ev, NEW side, NEW p
  PROVE  TripleBarrier(frame, ev, side, p) = Vectorised(frame, ev, side, p, TouchHit(frame, ev, side, p))
BY DEF TripleBarrier, TouchHit, Touches

\* What the first of some rows is.
LEMMA FirstHit ==
  ASSUME NEW a \in Int, NEW b \in Int, NEW hits \in SUBSET (a..b), NEW otherwise \in Int
  PROVE  /\ First(hits, otherwise) \in Int
         /\ hits # {} => /\ First(hits, otherwise) \in hits
                         /\ \A k \in hits : First(hits, otherwise) <= k
         /\ hits = {} => First(hits, otherwise) = otherwise
<1>1. IsFiniteSet(hits) /\ hits \subseteq Int
  <2> DEFINE J == a..b
  <2>1. IsFiniteSet(J) /\ J \subseteq Int
    BY FS_Interval
  <2>2. hits \in SUBSET J
    OBVIOUS
  <2> HIDE DEF J
  <2>3. QED BY <2>1, <2>2, FS_Subset
<1>2. hits # {} => Min(hits) \in hits /\ \A k \in hits : Min(hits) <= k
  BY <1>1, MinOfFinite
<1>3. QED BY <1>1, <1>2 DEF First

LEMMA TouchFirst ==
  ASSUME NEW frame, NEW ev, NEW p \in {Exits.triple, Exits.triple_atr}, NEW price, NEW s
  PROVE  LET hits == Touches(frame, ev, p, price, s)
             x == First(hits, 0)
         IN /\ x \in Nat /\ p.horizon \in Nat /\ hits \subseteq 1..p.horizon
            /\ hits # {} => x \in hits /\ \A k \in hits : x <= k
            /\ hits = {} => x = 0
<1> DEFINE hits == Touches(frame, ev, p, price, s)
           h == p.horizon
<1>1. h \in Nat
  BY ExitsAssumption
<1>2. hits \in SUBSET (1..h)
  BY DEF Touches
<1> HIDE DEF hits, h
<1>3. 1 \in Int /\ h \in Int /\ 0 \in Int
  BY <1>1
<1>4. /\ hits # {} => First(hits, 0) \in hits /\ \A k \in hits : First(hits, 0) <= k
      /\ hits = {} => First(hits, 0) = 0
  BY <1>2, <1>3, FirstHit
<1>5. First(hits, 0) \in Nat
  <2>1. CASE hits # {}
    <3>1. First(hits, 0) \in 1..h
      BY <1>2, <1>4, <2>1
    <3>2. QED BY <1>1, <3>1
  <2>2. QED BY <1>4, <2>1
<1>6. QED BY <1>1, <1>2, <1>4, <1>5 DEF hits, h

\* A cut-off trade ends with the frame.
LEMMA TripleHeld ==
  ASSUME NEW frame, NEW n, Indicated(frame, n), NEW ev \in 1..n, NEW side,
         NEW p \in {Exits.triple, Exits.triple_atr}
  PROVE  LET l == TripleBarrier(frame, ev, side, p)
         IN /\ DOMAIN l = TripleColumns /\ l.n_bars_held = l.exit_idx - ev
            /\ l.truncated => l.exit_idx = Len(frame)
<1> DEFINE hit == TouchHit(frame, ev, side, p)
           l == Vectorised(frame, ev, side, p, hit)
<1>1. n \in Nat /\ Len(frame) = n
  BY DEF Indicated, Frame
<1>2. hit.offset \in Nat
  <2> DEFINE b == Barriers(frame, ev, side, p, TRUE)
             up == First(Touches(frame, ev, p, b.tp, side), 0)
             dn == First(Touches(frame, ev, p, b.sl, -side), 0)
             h == p.horizon
  <2>1. up \in Nat /\ dn \in Nat /\ h \in Nat
    BY TouchFirst
  <2>2. hit = FirstTouched(up, dn, h)
    BY DEF TouchHit
  <2> HIDE DEF up, dn, h, hit
  <2>3. QED BY <2>1, <2>2, TouchedOffset
<1> HIDE DEF hit
<1>3. /\ DOMAIN l = TripleColumns /\ l.exit_idx = Min({ev + hit.offset, Len(frame)})
      /\ l.n_bars_held = l.exit_idx - ev /\ (l.truncated => hit.offset > Len(frame) - ev)
  BY TripleNamed
<1> HIDE DEF l
<1>4. l.truncated => l.exit_idx = Len(frame)
  <2> DEFINE x == hit.offset
             y == ev + x
  <2>1. y \in Int /\ n \in Int
    BY <1>1, <1>2
  <2>2. x > n - ev => ~(y <= n) \/ y = n
    BY <1>1, <1>2
  <2> HIDE DEF x, y
  <2>3. Min({y, n}) = IF y <= n THEN y ELSE n
    BY <2>1, MinOfTwo
  <2>4. l.exit_idx = Min({y, n}) /\ (l.truncated => x > n - ev)
    BY <1>1, <1>3 DEF x, y
  <2>5. QED BY <1>1, <2>2, <2>3, <2>4
<1>5. TripleBarrier(frame, ev, side, p) = l
  BY TripleIs DEF l, hit
<1>6. QED BY <1>3, <1>4, <1>5

Held(l, ev) == {"n_bars_held", "exit_idx"} \subseteq DOMAIN l /\ l.n_bars_held = l.exit_idx - ev
CutOff(l, n) == {"truncated", "exit_idx"} \subseteq DOMAIN l /\ (l.truncated => l.exit_idx = n)

\* What is put beside a label does not replace its columns.
LEMMA HeldBeside ==
  ASSUME NEW l, NEW g, NEW ev, NEW n
  PROVE  /\ Held(l, ev) => Held(l ++ g, ev)
         /\ CutOff(l, n) => CutOff(l ++ g, n)
BY DEF Held, CutOff, ++

LEMMA HeldBehind ==
  ASSUME NEW l, NEW f, NEW ev, NEW n,
         {"n_bars_held", "exit_idx", "truncated"} \cap DOMAIN f = {}
  PROVE  /\ Held(l, ev) => Held(f ++ l, ev)
         /\ CutOff(l, n) => CutOff(f ++ l, n)
BY DEF Held, CutOff, ++

LEMMA TurtleNamed ==
  ASSUME NEW frame, NEW ev, NEW side, NEW p
  PROVE  LET l == TurtleExit(frame, ev, side, p) IN DOMAIN l = ExitColumns /\ Held(l, ev)
<1> DEFINE l == TurtleExit(frame, ev, side, p)
<1>1. \E exit, price, reason : l = ExitAt(frame, ev, exit, side, price, reason)
  BY DEF TurtleExit
<1> HIDE DEF l
<1>2. PICK exit, price, reason : l = ExitAt(frame, ev, exit, side, price, reason)
  BY <1>1
<1>3. DOMAIN l = ExitColumns /\ l.exit_idx = exit /\ l.n_bars_held = exit - ev
  BY <1>2, ExitNamed
<1>4. DOMAIN l = ExitColumns /\ Held(l, ev)
  BY <1>3 DEF Held, ExitColumns
<1>5. QED BY <1>4 DEF l

\* An exit's row with the risk it took.
LEMMA MeasuredNamed ==
  ASSUME NEW row, NEW ev, DOMAIN row = ExitColumns, Held(row, ev), NEW risk, NEW r
  PROVE  LET l == row ++ [stop_distance |-> risk, r_multiple |-> r]
         IN DOMAIN l = MeasuredColumns /\ Held(l, ev)
<1> DEFINE m == [stop_distance |-> risk, r_multiple |-> r]
<1>1. DOMAIN m = {"stop_distance", "r_multiple"}
  OBVIOUS
<1> HIDE DEF m
<1>2. Held(row ++ m, ev)
  BY HeldBeside
<1>3. DOMAIN (row ++ m) = MeasuredColumns
  BY <1>1, JoinedColumns DEF MeasuredColumns
<1>4. QED BY <1>2, <1>3 DEF m

LEMMA TrailingNamed ==
  ASSUME NEW frame, NEW ev, NEW side
  PROVE  LET l == TrailingStopExit(frame, ev, side) IN DOMAIN l = MeasuredColumns /\ Held(l, ev)
<1> DEFINE l == TrailingStopExit(frame, ev, side)
<1>1. \E exit, price, reason, risk, r :
        l = ExitAt(frame, ev, exit, side, price, reason) ++ [stop_distance |-> risk, r_multiple |-> r]
  <2> DEFINE start == TrailValue(frame[ev], side)
             risk == IF start = NaN THEN NaN ELSE side * (frame[ev].close - start)
             Exit(hits, j) ==
               IF hits = {} THEN ExitAt(frame, ev, j, side, frame[j].close, "still_open")
               ELSE ExitAt(frame, ev, j, side, StopPrice(frame[j].close, TrailStop(frame, ev, side, j), side),
                           "trailing_stop")
             hits == {j \in ev+1 .. Len(frame) : Reaches(frame[j], TrailStop(frame, ev, side, j), -side)}
             j == First(hits, Len(frame))
             row == Exit(hits, j)
             r == IF risk = NaN THEN NaN ELSE <<row.actual_return, risk>>
  <2>1. l = row ++ [stop_distance |-> risk, r_multiple |-> r]
    BY DEF TrailingStopExit
  <2> HIDE DEF hits, j
  <2>2. \E exit, price, reason : row = ExitAt(frame, ev, exit, side, price, reason)
    OBVIOUS
  <2> HIDE DEF row, r, risk, l
  <2>3. QED BY <2>1, <2>2
<1> HIDE DEF l
<1>2. PICK exit, price, reason, risk, r :
        l = ExitAt(frame, ev, exit, side, price, reason) ++ [stop_distance |-> risk, r_multiple |-> r]
  BY <1>1
<1> DEFINE row == ExitAt(frame, ev, exit, side, price, reason)
<1>3. DOMAIN row = ExitColumns /\ row.exit_idx = exit /\ row.n_bars_held = exit - ev
  BY ExitNamed
<1> HIDE DEF row
<1>4. DOMAIN row = ExitColumns /\ Held(row, ev)
  BY <1>3 DEF Held, ExitColumns
<1>5. l = row ++ [stop_distance |-> risk, r_multiple |-> r]
  BY <1>2 DEF row
<1>6. DOMAIN l = MeasuredColumns /\ Held(l, ev)
  BY <1>4, <1>5, MeasuredNamed
<1>7. QED BY <1>6 DEF l

LEMMA ReversionNamed ==
  ASSUME NEW frame, NEW ev, NEW p
  PROVE  DOMAIN MeanReversion(frame, ev, p) = MeasuredColumns
<1> DEFINE l == MeanReversion(frame, ev, p)
<1>1. \E exit, price, reason, risk, r :
        l = ExitAt(frame, ev, exit, 1, price, reason) ++ [stop_distance |-> risk, r_multiple |-> r]
  BY DEF MeanReversion
<1> HIDE DEF l
<1>2. PICK exit, price, reason, risk, r :
        l = ExitAt(frame, ev, exit, 1, price, reason) ++ [stop_distance |-> risk, r_multiple |-> r]
  BY <1>1
<1> DEFINE row == ExitAt(frame, ev, exit, 1, price, reason)
<1>3. DOMAIN row = ExitColumns /\ row.exit_idx = exit /\ row.n_bars_held = exit - ev
  BY ExitNamed
<1> HIDE DEF row
<1>4. DOMAIN row = ExitColumns /\ Held(row, ev)
  BY <1>3 DEF Held, ExitColumns
<1>5. l = row ++ [stop_distance |-> risk, r_multiple |-> r]
  BY <1>2 DEF row
<1>6. DOMAIN l = MeasuredColumns
  BY <1>4, <1>5, MeasuredNamed
<1>7. QED BY <1>6 DEF l

LEMMA TripleLabelNamed ==
  ASSUME NEW frame, NEW n, Indicated(frame, n), NEW ev \in 1..n, NEW side,
         NEW p \in {Exits.triple, Exits.triple_atr}
  PROVE  LET l == TripleBarrierLabel(frame, ev, side, p)
         IN DOMAIN l = TripleColumns \cup {"stop_distance"} /\ Held(l, ev) /\ CutOff(l, Len(frame))
<1> DEFINE l == TripleBarrier(frame, ev, side, p)
           risk == [stop_distance |->
                      IF p.mode = "pct" THEN (frame[ev].close * (p.down[2] - p.down[1])) \div p.down[2]
                      ELSE LET atr == AtrPrice(frame[ev].atr)
                           IN IF atr = NaN THEN NaN ELSE (p.lower * atr) \div 2]
<1>1. TripleBarrierLabel(frame, ev, side, p) = l ++ risk
  BY DEF TripleBarrierLabel
<1>2. DOMAIN l = TripleColumns /\ Held(l, ev) /\ CutOff(l, Len(frame))
  BY TripleHeld DEF Held, CutOff, TripleColumns
<1>3. DOMAIN risk = {"stop_distance"}
  OBVIOUS
<1> HIDE DEF l, risk
<1>4. Held(l ++ risk, ev) /\ CutOff(l ++ risk, Len(frame))
  BY <1>2, HeldBeside
<1>5. DOMAIN (l ++ risk) = TripleColumns \cup {"stop_distance"}
  BY <1>2, <1>3, JoinedColumns
<1>6. QED BY <1>1, <1>4, <1>5

\* No labeler gives a column that a model may take for an input.
LEMMA LabelsNamed ==
  ASSUME NEW frame, NEW n, Indicated(frame, n), NEW ev \in 1..n, NEW side,
         NEW labeler \in LabelerNames
  PROVE  DOMAIN Label(labeler, frame, ev, side) \subseteq feature_exclude
<1>1. /\ TripleColumns \cup {"stop_distance"} \subseteq feature_exclude
      /\ MeasuredColumns \subseteq feature_exclude /\ ExitColumns \subseteq feature_exclude
  BY DEF TripleColumns, MeasuredColumns, ExitColumns, feature_exclude
<1>2. CASE labeler \in {"triple", "triple_atr"}
  <2>1. PICK p \in {Exits.triple, Exits.triple_atr} :
          Label(labeler, frame, ev, side) = TripleBarrierLabel(frame, ev, side, p)
    BY <1>2 DEF Label
  <2>2. DOMAIN TripleBarrierLabel(frame, ev, side, p) = TripleColumns \cup {"stop_distance"}
    BY TripleLabelNamed
  <2>3. QED BY <1>1, <2>1, <2>2
<1>3. CASE labeler = "turtle"
  BY <1>1, <1>3, TurtleNamed DEF Label
<1>4. CASE labeler = "trailing"
  BY <1>1, <1>4, TrailingNamed DEF Label
<1>5. CASE labeler = "reversion"
  BY <1>1, <1>5, ReversionNamed DEF Label
<1>6. CASE labeler = "horizon"
  BY <1>6 DEF Label, FixedHorizon, feature_exclude
<1>7. QED BY <1>2, <1>3, <1>4, <1>5, <1>6 DEF LabelerNames

\* build_dataset: the inputs and the label.
LEMMA DatasetColumns ==
  ASSUME NEW frame, NEW n, Indicated(frame, n), NEW signals, IsSignals(signals, n),
         EventRows(signals) # {}, NEW labeler \in LabelerNames
  PROVE  prepare_features(build_dataset(labeler, frame, signals)) = FeatureColumns
<1> DEFINE E == EventRows(signals)
           data == build_dataset(labeler, frame, signals)
<1>1. E \subseteq 1..n /\ E # {}
  BY DEF EventRows, IsSignals
<1>2. DOMAIN data = E
  BY DEF build_dataset
<1>3. ASSUME NEW ev \in E
      PROVE  FeatureColumns \subseteq DOMAIN data[ev] /\ DOMAIN data[ev] \subseteq FeatureColumns \cup feature_exclude
  <2> DEFINE f == default_feature_set(frame[ev])
             l == Label(labeler, frame, ev, signals[ev])
  <2>1. data[ev] = f ++ l
    BY DEF build_dataset
  <2>2. DOMAIN f = FeatureColumns
    BY FeaturesNamed
  <2>3. DOMAIN l \subseteq feature_exclude
    <3>1. ev \in 1..n
      BY <1>1
    <3>2. QED BY <3>1, LabelsNamed
  <2> HIDE DEF f, l
  <2>4. DOMAIN (f ++ l) = DOMAIN f \cup DOMAIN l
    BY JoinedColumns
  <2>5. DOMAIN data[ev] = FeatureColumns \cup DOMAIN l
    BY <2>1, <2>2, <2>4
  <2> HIDE DEF data
  <2>6. QED BY <2>3, <2>5
<1>4. FeatureColumns \cap feature_exclude = {}
  BY DEF FeatureColumns, feature_exclude
<1> HIDE DEF E, data
<1>5. (UNION {DOMAIN data[ev] : ev \in DOMAIN data}) \ feature_exclude = FeatureColumns
  BY <1>1, <1>2, <1>3, <1>4
<1>6. QED BY <1>5 DEF prepare_features, data

CompletedColumns(l) ==
  DOMAIN l \cup {"barrier_hit", "n_bars_held", "truncated"}
  \cup (IF "y_norm" \in DOMAIN l THEN {"label", "actual_return", "return_atr"} ELSE {})

\* What build_ml_dataset completes a label with.
IsCompleted(c, l, frame, ev, cap, horizon) ==
  /\ DOMAIN c = CompletedColumns(l)
  /\ \A col \in DOMAIN l : c[col] = l[col]
  /\ "n_bars_held" \notin DOMAIN l => c.n_bars_held = Least(cap, Len(frame) - ev)
  /\ "truncated" \notin DOMAIN l => c.truncated = (ev + horizon > Len(frame))
  /\ Held(l, ev) => Held(c, ev)
  /\ CutOff(l, Len(frame)) => CutOff(c, Len(frame))

LEMMA CompletedNamed ==
  ASSUME NEW frame, NEW ev, NEW cap, NEW horizon, NEW l
  PROVE  IsCompleted(Completed(l, frame, ev, cap, horizon), l, frame, ev, cap, horizon)
<1> DEFINE r == FromReturn(l)
           lr == l ++ r
           g == [barrier_hit |-> "fixed_horizon", n_bars_held |-> Least(cap, Len(frame) - ev),
                 truncated |-> ev + horizon > Len(frame)]
           c == lr ++ g
<1>1. Completed(l, frame, ev, cap, horizon) = c
  BY DEF Completed
<1>2. DOMAIN r = IF "y_norm" \in DOMAIN l THEN {"label", "actual_return", "return_atr"} ELSE {}
  <2>1. CASE "y_norm" \in DOMAIN l
    BY <2>1 DEF FromReturn
  <2>2. CASE "y_norm" \notin DOMAIN l
    BY <2>2 DEF FromReturn
  <2>3. QED BY <2>1, <2>2
<1>3. /\ DOMAIN g = {"barrier_hit", "n_bars_held", "truncated"}
      /\ g.n_bars_held = Least(cap, Len(frame) - ev) /\ g.truncated = (ev + horizon > Len(frame))
  OBVIOUS
<1> HIDE DEF r, g
<1>4. /\ DOMAIN lr = DOMAIN l \cup DOMAIN r
      /\ \A col \in DOMAIN l : lr[col] = l[col]
  BY JoinedColumns
<1>5. /\ Held(l, ev) => Held(lr, ev)
      /\ CutOff(l, Len(frame)) => CutOff(lr, Len(frame))
  BY HeldBeside
<1> HIDE DEF lr
<1>6. /\ DOMAIN c = DOMAIN lr \cup DOMAIN g
      /\ \A col \in DOMAIN lr : c[col] = lr[col]
      /\ \A col \in DOMAIN g : col \notin DOMAIN lr => c[col] = g[col]
  BY JoinedColumns
<1>7. /\ Held(lr, ev) => Held(c, ev)
      /\ CutOff(lr, Len(frame)) => CutOff(c, Len(frame))
  BY HeldBeside
<1> HIDE DEF c
<1>8. {"n_bars_held", "truncated"} \cap DOMAIN r = {}
  BY <1>2
<1>9. DOMAIN c = CompletedColumns(l)
  BY <1>2, <1>3, <1>4, <1>6 DEF CompletedColumns
<1>10. \A col \in DOMAIN l : c[col] = l[col]
  BY <1>4, <1>6
<1>11. "n_bars_held" \notin DOMAIN l => c.n_bars_held = Least(cap, Len(frame) - ev)
  BY <1>3, <1>4, <1>6, <1>8
<1>12. "truncated" \notin DOMAIN l => c.truncated = (ev + horizon > Len(frame))
  BY <1>3, <1>4, <1>6, <1>8
<1>13. IsCompleted(c, l, frame, ev, cap, horizon)
  BY <1>5, <1>7, <1>9, <1>10, <1>11, <1>12 DEF IsCompleted
<1>14. QED BY <1>1, <1>13

\* The labels of a horizon: the bars held are right if the horizon is the one assumed.
LEMMA HorizonHeld ==
  ASSUME NEW frame, NEW n, Indicated(frame, n), NEW ev \in 1..n, NEW side, NEW cap
  PROVE  LET h == Exits.horizon.horizon
             c == Completed(FixedHorizon(frame, ev, side, Exits.horizon), frame, ev, cap, h)
         IN /\ DOMAIN c = TripleColumns \cup {"raw_return", "y_norm"}
            /\ CutOff(c, n)
            /\ cap = h => Held(c, ev)
<1> DEFINE h == Exits.horizon.horizon
           l == FixedHorizon(frame, ev, side, Exits.horizon)
           c == Completed(l, frame, ev, cap, h)
<1>1. n \in Nat /\ Len(frame) = n /\ h \in Nat
  BY ExitsAssumption DEF Indicated, Frame
<1>2. /\ DOMAIN l = {"exit_idx", "entry_price", "exit_price", "raw_return", "y_norm"}
      /\ l.exit_idx = Min({ev + h, Len(frame)})
  BY DEF FixedHorizon
<1> HIDE DEF l, h
<1>13. IsCompleted(c, l, frame, ev, cap, h)
  BY CompletedNamed
<1> HIDE DEF c
<1>3. /\ DOMAIN c = CompletedColumns(l)
      /\ \A col \in DOMAIN l : c[col] = l[col]
      /\ "n_bars_held" \notin DOMAIN l => c.n_bars_held = Least(cap, Len(frame) - ev)
      /\ "truncated" \notin DOMAIN l => c.truncated = (ev + h > Len(frame))
  BY <1>13 DEF IsCompleted
<1>4. DOMAIN c = TripleColumns \cup {"raw_return", "y_norm"}
  BY <1>2, <1>3 DEF TripleColumns, CompletedColumns
<1>5. /\ c.n_bars_held = Least(cap, n - ev) /\ (c.truncated => ev + h > n)
      /\ c.exit_idx = Min({ev + h, n})
  BY <1>1, <1>2, <1>3
<1>6. Min({ev + h, n}) = IF ev + h <= n THEN ev + h ELSE n
  <2> DEFINE y == ev + h
  <2>1. y \in Int /\ n \in Int
    BY <1>1
  <2> HIDE DEF y
  <2>2. Min({y, n}) = IF y <= n THEN y ELSE n
    BY <2>1, MinOfTwo
  <2>3. QED BY <2>2 DEF y
<1>7. Least(h, n - ev) = IF h <= n - ev THEN h ELSE n - ev
  BY <1>1, LeastIs
<1>8. cap = h => c.n_bars_held = c.exit_idx - ev
  BY <1>1, <1>5, <1>6, <1>7
<1>9. c.truncated => c.exit_idx = n
  BY <1>1, <1>5, <1>6
<1>10. {"n_bars_held", "exit_idx", "truncated"} \subseteq DOMAIN c
  BY <1>4 DEF TripleColumns
<1>11. CutOff(c, n) /\ (cap = h => Held(c, ev))
  BY <1>8, <1>9, <1>10 DEF Held, CutOff
<1>12. QED BY <1>4, <1>11 DEF c, l, h

\* The columns a method's label has beside those of the triple barrier.
AddedColumns(m) ==
  IF m \in {"fixed_horizon", "horizon"} THEN {"raw_return", "y_norm"}
  ELSE IF m \in {"triple", "triple_atr"} THEN {"stop_distance"} ELSE {}

\* The label of a data set that can be built: its columns, and what it says of the
\* trade's length and its cut-off.
LEMMA MlHeld ==
  ASSUME NEW frame, NEW n, Indicated(frame, n), NEW ev \in 1..n, NEW side,
         NEW m \in MlMethods \ Unbuildable
  PROVE  LET l == MlLabel(m, frame, ev, side)
         IN /\ DOMAIN l = TripleColumns \cup AddedColumns(m)
            /\ CutOff(l, n)
            /\ m # "horizon" \/ Exits.horizon.horizon = HeldCap => Held(l, ev)
<1> DEFINE l == MlLabel(m, frame, ev, side)
           h == Exits.horizon.horizon
<1>1. n \in Nat /\ Len(frame) = n
  BY DEF Indicated, Frame
<1>2. CASE m = "triple_barrier"
  <2>1. l = TripleBarrier(frame, ev, side, Exits.triple)
    BY <1>2 DEF MlLabel
  <2> HIDE DEF l
  <2>2. DOMAIN l = TripleColumns /\ l.n_bars_held = l.exit_idx - ev /\ (l.truncated => l.exit_idx = n)
    BY <1>1, <2>1, TripleHeld
  <2>3. Held(l, ev) /\ CutOff(l, n)
    BY <2>2 DEF Held, CutOff, TripleColumns
  <2>4. AddedColumns(m) = {}
    BY <1>2 DEF AddedColumns
  <2>5. QED BY <2>2, <2>3, <2>4 DEF l
<1>3. CASE m = "fixed_horizon"
  <2>1. l = Completed(FixedHorizon(frame, ev, side, Exits.horizon), frame, ev, h, h)
    BY <1>3 DEF MlLabel
  <2> HIDE DEF l
  <2>2. DOMAIN l = TripleColumns \cup {"raw_return", "y_norm"} /\ CutOff(l, n) /\ Held(l, ev)
    BY <2>1, HorizonHeld
  <2>3. AddedColumns(m) = {"raw_return", "y_norm"}
    BY <1>3 DEF AddedColumns
  <2>4. QED BY <2>2, <2>3 DEF l
<1>4. CASE m = "horizon"
  <2>1. Label(m, frame, ev, side) = FixedHorizon(frame, ev, side, Exits.horizon)
    BY <1>4 DEF Label
  <2>2. l = Completed(FixedHorizon(frame, ev, side, Exits.horizon), frame, ev, HeldCap, h)
    BY <1>4, <2>1 DEF MlLabel
  <2> HIDE DEF l
  <2>3. /\ DOMAIN l = TripleColumns \cup {"raw_return", "y_norm"} /\ CutOff(l, n)
        /\ HeldCap = Exits.horizon.horizon => Held(l, ev)
    BY <2>2, HorizonHeld
  <2>4. AddedColumns(m) = {"raw_return", "y_norm"}
    BY <1>4 DEF AddedColumns
  <2>5. QED BY <1>4, <2>3, <2>4 DEF l
<1>5. CASE m \in {"triple", "triple_atr"}
  <2> DEFINE k == Label(m, frame, ev, side)
  <2>1. l = Completed(k, frame, ev, HeldCap, HeldCap)
    BY <1>5 DEF MlLabel
  <2>2. PICK p \in {Exits.triple, Exits.triple_atr} : k = TripleBarrierLabel(frame, ev, side, p)
    BY <1>5 DEF Label
  <2> HIDE DEF k, l
  <2>3. DOMAIN k = TripleColumns \cup {"stop_distance"} /\ Held(k, ev) /\ CutOff(k, n)
    BY <1>1, <2>2, TripleLabelNamed
  <2>8. IsCompleted(l, k, frame, ev, HeldCap, HeldCap)
    BY <2>1, CompletedNamed
  <2>4. /\ DOMAIN l = CompletedColumns(k)
        /\ Held(k, ev) => Held(l, ev)
        /\ CutOff(k, n) => CutOff(l, n)
    BY <1>1, <2>8 DEF IsCompleted
  <2>5. AddedColumns(m) = {"stop_distance"}
    BY <1>5 DEF AddedColumns
  <2>6. DOMAIN l = TripleColumns \cup {"stop_distance"}
    BY <2>3, <2>4 DEF TripleColumns, CompletedColumns
  <2>7. QED BY <2>3, <2>4, <2>5, <2>6 DEF l
<1>6. QED BY <1>2, <1>3, <1>4, <1>5 DEF MlMethods, DictMethods, LabelerNames, Unbuildable

\* The other labels lack the return in ATRs.
LEMMA MlLacking ==
  ASSUME NEW frame, NEW ev, NEW side, NEW m \in Unbuildable
  PROVE  "return_atr" \notin DOMAIN MlLabel(m, frame, ev, side)
<1> DEFINE l == MlLabel(m, frame, ev, side)
           k == Label(m, frame, ev, side)
<1>1. l = Completed(k, frame, ev, HeldCap, HeldCap)
  BY DEF MlLabel, Unbuildable
<1>2. DOMAIN k \subseteq MeasuredColumns
  <2>1. CASE m = "turtle"
    BY <2>1, TurtleNamed DEF Label, MeasuredColumns
  <2>2. CASE m = "trailing"
    BY <2>2, TrailingNamed DEF Label
  <2>3. CASE m = "reversion"
    BY <2>3, ReversionNamed DEF Label
  <2>4. QED BY <2>1, <2>2, <2>3 DEF Unbuildable
<1>3. "return_atr" \notin MeasuredColumns /\ "y_norm" \notin MeasuredColumns
  BY DEF MeasuredColumns, ExitColumns
<1> HIDE DEF k, l
<1>7. IsCompleted(l, k, frame, ev, HeldCap, HeldCap)
  BY <1>1, CompletedNamed
<1>4. DOMAIN l = CompletedColumns(k)
  BY <1>7 DEF IsCompleted
<1>5. "return_atr" \notin DOMAIN l
  BY <1>2, <1>3, <1>4 DEF CompletedColumns
<1>6. QED BY <1>5 DEF l

\* What build_ml_dataset gives an event besides the features and the label.
EventColumns == {"side", "entry_price", "event_time"}

\* A row of build_ml_dataset.
LEMMA MlRow ==
  ASSUME NEW frame, NEW n, Indicated(frame, n), NEW signals, IsSignals(signals, n),
         NEW ev \in EventRows(signals), NEW m \in MlMethods
  PROVE  LET row == build_ml_dataset(m, frame, signals)[ev]
         IN /\ m \in Unbuildable => "return_atr" \notin DOMAIN row
            /\ m \notin Unbuildable =>
                 /\ DOMAIN row = FeatureColumns \cup EventColumns \cup TripleColumns \cup AddedColumns(m)
                 /\ CutOff(row, n)
                 /\ m # "horizon" \/ Exits.horizon.horizon = HeldCap => Held(row, ev)
<1> DEFINE f == default_feature_set(frame[ev])
           g == [side |-> signals[ev], entry_price |-> frame[ev].close, event_time |-> ev]
           l == MlLabel(m, frame, ev, signals[ev])
           fg == f ++ g
           row == fg ++ l
<1>1. build_ml_dataset(m, frame, signals)[ev] = row
  BY DEF build_ml_dataset
<1>2. ev \in 1..n
  BY DEF EventRows, IsSignals
<1>3. DOMAIN f = FeatureColumns
  BY FeaturesNamed
<1>4. DOMAIN g = EventColumns
  BY DEF EventColumns
<1>5. m \in Unbuildable => "return_atr" \notin DOMAIN l
  BY MlLacking
<1>6. m \notin Unbuildable =>
        /\ DOMAIN l = TripleColumns \cup AddedColumns(m)
        /\ CutOff(l, n)
        /\ m # "horizon" \/ Exits.horizon.horizon = HeldCap => Held(l, ev)
  BY <1>2, MlHeld
<1> HIDE DEF f, g, l
<1>7. DOMAIN fg = FeatureColumns \cup EventColumns
  BY <1>3, <1>4, JoinedColumns
<1>8. {"n_bars_held", "exit_idx", "truncated", "return_atr"} \cap DOMAIN fg = {}
  BY <1>7 DEF FeatureColumns, EventColumns
<1> HIDE DEF fg
<1>9. /\ Held(l, ev) => Held(row, ev)
      /\ CutOff(l, n) => CutOff(row, n)
  BY <1>8, HeldBehind
<1>10. DOMAIN row = DOMAIN fg \cup DOMAIN l
  BY JoinedColumns
<1> HIDE DEF row
<1>11. m \in Unbuildable => "return_atr" \notin DOMAIN row
  BY <1>5, <1>8, <1>10
<1>12. m \notin Unbuildable =>
         DOMAIN row = FeatureColumns \cup EventColumns \cup TripleColumns \cup AddedColumns(m)
  BY <1>6, <1>7, <1>10
<1>13. m \notin Unbuildable =>
         /\ CutOff(row, n)
         /\ m # "horizon" \/ Exits.horizon.horizon = HeldCap => Held(row, ev)
  BY <1>6, <1>9
<1>14. QED BY <1>1, <1>11, <1>12, <1>13

\* The data sets of build_ml_dataset: three labelers' cannot be reordered; of the others,
\* the features are the inputs and what the label adds.
LEMMA MlDataset ==
  ASSUME NEW frame, NEW n, Indicated(frame, n), NEW signals, IsSignals(signals, n),
         EventRows(signals) # {}, NEW m \in MlMethods
  PROVE  LET data == build_ml_dataset(m, frame, signals)
         IN /\ m \in Unbuildable => ~Reorders(data)
            /\ m \notin Unbuildable =>
                 /\ Reorders(data)
                 /\ feature_names(data) = FeatureColumns \cup AddedColumns(m)
                 /\ \A ev \in DOMAIN data : data[ev].truncated => data[ev].exit_idx = n
                 /\ m # "horizon" \/ Exits.horizon.horizon = HeldCap =>
                      \A ev \in DOMAIN data : data[ev].n_bars_held = data[ev].exit_idx - ev
<1> DEFINE E == EventRows(signals)
           data == build_ml_dataset(m, frame, signals)
           all == FeatureColumns \cup EventColumns \cup TripleColumns \cup AddedColumns(m)
<1>1. DOMAIN data = E
  BY DEF build_ml_dataset
<1>2. ASSUME NEW ev \in E
      PROVE  /\ m \in Unbuildable => "return_atr" \notin DOMAIN data[ev]
             /\ m \notin Unbuildable =>
                  /\ DOMAIN data[ev] = all
                  /\ CutOff(data[ev], n)
                  /\ m # "horizon" \/ Exits.horizon.horizon = HeldCap => Held(data[ev], ev)
  BY <1>2, MlRow
<1>3. E # {}
  OBVIOUS
<1>4. /\ EventColumns \cup TripleColumns = meta_cols
      /\ (FeatureColumns \cup AddedColumns(m)) \cap meta_cols = {}
      /\ "return_atr" \in meta_cols
  BY DEF FeatureColumns, EventColumns, TripleColumns, AddedColumns, meta_cols
<1> HIDE DEF E, data
<1>5. ASSUME m \in Unbuildable PROVE ~Reorders(data)
  <2>1. \A ev \in DOMAIN data : "return_atr" \notin DOMAIN data[ev]
    BY <1>1, <1>2, <1>5
  <2>2. "return_atr" \notin ColumnsOf(data)
    BY <2>1 DEF ColumnsOf
  <2>3. QED BY <1>4, <2>2 DEF Reorders
<1>6. ASSUME m \notin Unbuildable
      PROVE  Reorders(data) /\ feature_names(data) = FeatureColumns \cup AddedColumns(m)
  <2>1. \A ev \in DOMAIN data : DOMAIN data[ev] = all
    BY <1>1, <1>2, <1>6
  <2> HIDE DEF all
  <2>2. ColumnsOf(data) = all
    BY <1>1, <1>3, <2>1 DEF ColumnsOf
  <2>3. all = meta_cols \cup (FeatureColumns \cup AddedColumns(m))
    BY <1>4 DEF all
  <2>4. QED BY <1>4, <2>2, <2>3 DEF Reorders, feature_names
<1>7. ASSUME m \notin Unbuildable, NEW ev \in DOMAIN data, data[ev].truncated
      PROVE  data[ev].exit_idx = n
  BY <1>1, <1>2, <1>7 DEF CutOff
<1>8. ASSUME m \notin Unbuildable, m # "horizon" \/ Exits.horizon.horizon = HeldCap, NEW ev \in DOMAIN data
      PROVE  data[ev].n_bars_held = data[ev].exit_idx - ev
  BY <1>1, <1>2, <1>8 DEF Held
<1>9. QED BY <1>5, <1>6, <1>7, <1>8 DEF data

LEMMA InvDataset == StudyInv /\ EventsInv => DatasetIsConsistent
<1> SUFFICES ASSUME StudyInv, EventsInv, phase = "replay" PROVE DatasetIsConsistent
  BY DEF DatasetIsConsistent
<1> DEFINE n == Len(ind)
           signals == events[study.trigger]
<1>1. /\ Indicated(ind, n) /\ study \in Studies /\ \A t \in TriggerNames : IsSignals(events[t], n)
  BY DEF StudyInv, ReadInv
<1>2. IsSignals(signals, n)
  BY <1>1, StudiesAssumption
<1>3. EventRows(signals) # {}
  BY DEF EventsInv
<1>4. ModelInputs = FeatureColumns
  BY FeaturesNamed DEF ModelInputs
<1> HIDE DEF n, signals
<1>5. ASSUME NEW l \in LabelerNames PROVE prepare_features(build_dataset(l, ind, signals)) = ModelInputs
  BY <1>1, <1>2, <1>3, <1>4, DatasetColumns
<1>6. ASSUME NEW m \in MlMethods
      PROVE  LET data == DatasetOf(m)
             IN /\ m \notin Unbuildable => Reorders(data)
                /\ Reorders(data) =>
                     /\ feature_names(data) \ {"y_norm", "raw_return", "stop_distance"} = ModelInputs
                     /\ m = "triple_barrier" => feature_names(data) = ModelInputs
                     /\ \A ev \in DOMAIN data : data[ev].truncated => data[ev].exit_idx = n
                     /\ m # "horizon" \/ Exits.horizon.horizon = HeldCap =>
                          \A ev \in DOMAIN data : data[ev].n_bars_held = data[ev].exit_idx - ev
  <2> DEFINE data == DatasetOf(m)
  <2>1. data = build_ml_dataset(m, ind, signals)
    BY DEF DatasetOf, signals
  <2> HIDE DEF data
  <2>2. /\ m \in Unbuildable => ~Reorders(data)
        /\ m \notin Unbuildable =>
             /\ Reorders(data)
             /\ feature_names(data) = FeatureColumns \cup AddedColumns(m)
             /\ \A ev \in DOMAIN data : data[ev].truncated => data[ev].exit_idx = n
             /\ m # "horizon" \/ Exits.horizon.horizon = HeldCap =>
                  \A ev \in DOMAIN data : data[ev].n_bars_held = data[ev].exit_idx - ev
    BY <1>1, <1>2, <1>3, <2>1, MlDataset
  <2>3. /\ AddedColumns(m) \subseteq {"y_norm", "raw_return", "stop_distance"}
        /\ m = "triple_barrier" => AddedColumns(m) = {}
        /\ {"y_norm", "raw_return", "stop_distance"} \cap FeatureColumns = {}
    BY DEF AddedColumns, FeatureColumns
  <2>4. ASSUME Reorders(data)
        PROVE  /\ feature_names(data) \ {"y_norm", "raw_return", "stop_distance"} = ModelInputs
               /\ m = "triple_barrier" => feature_names(data) = ModelInputs
    BY <1>4, <2>2, <2>3, <2>4
  <2>5. QED BY <2>2, <2>4 DEF data
<1>7. QED BY <1>5, <1>6 DEF DatasetIsConsistent, n, signals

(***************************************************************************)
(* Whatever the labeler, prepare_features leaves the inputs alone          *)
(* (src/research/evaluator.py:67-99).  Whatever the labeler or the method, *)
(* the features build_ml_dataset lists are the inputs and at most y_norm,  *)
(* raw_return and stop_distance, which follow the event; they are the      *)
(* inputs for the triple-barrier method.  A cut-off trade leaves at the    *)
(* last row and the bars held agree with the exit row, but for a           *)
(* fixed-horizon labeler whose horizon is not the 14400 bars assumed.      *)
(* Three labelers' data sets are never built                               *)
(* (src/research/dataset_builder.py:273-434).                              *)
(***************************************************************************)
THEOREM DatasetsAgree == StudySpec => []DatasetIsConsistent
BY EventsInvariant, InvDataset, PTL

-----------------------------------------------------------------------------
(* The loop of the triple barrier and its vectorised form.                 *)

\* A backward recursion that stops at some rows: from row `from` it gives what the first
\* of them gives.
Scans(halts, Res, from, to, g) == g = [j \in from..to |-> IF j \in halts THEN Res[j] ELSE g[j+1]]

LEMMA ScanResult ==
  ASSUME NEW from \in Int, NEW to \in Int, NEW halts \in SUBSET (from..to), to \in halts,
         NEW Res, NEW g, Scans(halts, Res, from, to, g)
  PROVE  /\ Min(halts) \in halts /\ \A k \in halts : Min(halts) <= k
         /\ g[from] = Res[Min(halts)]
<1> DEFINE m == Min(halts)
           T == {d \in Nat : d <= m - from /\ g[m-d] # Res[m]}
<1>1. m \in halts /\ \A k \in halts : m <= k
  <2> DEFINE J == from..to
  <2>1. IsFiniteSet(J) /\ J \subseteq Int /\ halts \in SUBSET J
    BY FS_Interval
  <2> HIDE DEF J
  <2>2. IsFiniteSet(halts) /\ halts \subseteq Int /\ halts # {}
    BY <2>1, FS_Subset
  <2>3. QED BY <2>2, MinOfFinite
<1>2. m \in from..to
  BY <1>1
<1> HIDE DEF m
<1>3. \A j \in from..to : g[j] = IF j \in halts THEN Res[j] ELSE g[j+1]
  <2> DEFINE F == [j \in from..to |-> IF j \in halts THEN Res[j] ELSE g[j+1]]
  <2>1. g = F
    BY DEF Scans
  <2>2. \A j \in from..to : F[j] = IF j \in halts THEN Res[j] ELSE g[j+1]
    OBVIOUS
  <2> HIDE DEF F
  <2>3. QED BY <2>1, <2>2
<1>4. T = {}
  <2>1. SUFFICES ASSUME T # {} PROVE FALSE
    OBVIOUS
  <2>2. PICK d \in T : \A e \in T : d <= e
    <3>1. T \subseteq Nat
      OBVIOUS
    <3> HIDE DEF T
    <3>2. QED BY <2>1, <3>1, LeastNat
  <2>3. d \in Nat /\ d <= m - from /\ g[m-d] # Res[m]
    BY <2>2
  <2>4. m - d \in from..to
    BY <1>2, <2>3
  <2>5. CASE d = 0
    <3>1. m - d = m
      BY <1>2, <2>5
    <3>2. g[m] = Res[m]
      BY <1>1, <1>2, <1>3
    <3>3. QED BY <2>3, <3>1, <3>2
  <2>6. CASE d # 0
    <3>1. m - d \notin halts
      BY <1>1, <1>2, <2>3, <2>6
    <3>2. d - 1 \in Nat /\ d - 1 <= m - from /\ m - (d - 1) = (m - d) + 1 /\ ~(d <= d - 1)
      BY <1>2, <2>3, <2>6
    <3>3. g[m-d] = g[(m-d)+1]
      BY <1>3, <2>4, <3>1
    <3>4. g[m-(d-1)] # Res[m]
      BY <2>3, <3>2, <3>3
    <3>5. d - 1 \in T
      BY <3>2, <3>4
    <3>6. QED BY <2>2, <3>2, <3>5
  <2>7. QED BY <2>5, <2>6
<1>5. m - from \in Nat /\ m - (m - from) = from
  BY <1>2
<1>6. g[from] = Res[m]
  BY <1>4, <1>5
<1>7. QED BY <1>1, <1>6 DEF m

LEMMA ScanExists ==
  ASSUME NEW from \in Int, NEW to \in Int, NEW halts \in SUBSET (from..to), to \in halts, NEW Res
  PROVE  \E g : Scans(halts, Res, from, to, g)
<1> DEFINE Later(j) == {k \in halts : j <= k}
           g == [j \in from..to |-> Res[Min(Later(j))]]
<1>1. halts \subseteq Int
  OBVIOUS
<1>2. ASSUME NEW j \in from..to, j \in halts PROVE Min(Later(j)) = j
  <2>1. j \in Int /\ j <= j
    OBVIOUS
  <2>2. j \in Later(j)
    BY <1>2, <2>1
  <2>3. Later(j) \subseteq Int
    BY <1>1
  <2>4. \A k \in Later(j) : j <= k
    OBVIOUS
  <2> HIDE DEF Later
  <2>5. QED BY <2>2, <2>3, <2>4, MinIs
<1>3. ASSUME NEW j \in from..to, j \notin halts PROVE Later(j) = Later(j+1) /\ j + 1 \in from..to
  <2>1. \A k \in halts : j <= k <=> j + 1 <= k
    BY <1>1, <1>3
  <2>2. j # to
    BY <1>3
  <2>3. j + 1 \in from..to
    BY <2>2
  <2>4. QED BY <2>1, <2>3
<1>4. ASSUME NEW j \in from..to PROVE g[j] = IF j \in halts THEN Res[j] ELSE g[j+1]
  <2> HIDE DEF Later
  <2>1. g[j] = Res[Min(Later(j))]
    OBVIOUS
  <2>2. CASE j \in halts
    BY <1>2, <2>1, <2>2
  <2>3. CASE j \notin halts
    <3>1. j + 1 \in from..to /\ Later(j) = Later(j+1)
      BY <1>3, <2>3
    <3>2. g[j+1] = Res[Min(Later(j+1))]
      BY <3>1
    <3>3. QED BY <2>1, <2>3, <3>1, <3>2
  <2>4. QED BY <2>2, <2>3
<1>5. g = [j \in from..to |-> g[j]]
  OBVIOUS
<1> HIDE DEF g
<1>6. g = [j \in from..to |-> IF j \in halts THEN Res[j] ELSE g[j+1]]
  BY <1>4, <1>5
<1>7. QED BY <1>6 DEF Scans

\* The loop's recursion, over the rows of the horizon and one more.
Timeout(last) == [label |-> 0, barrier_hit |-> "timeout", exit_idx |-> last]
StoppedAt(j) == [label |-> -1, barrier_hit |-> "lower", exit_idx |-> j]
TakenAt(j) == [label |-> 1, barrier_hit |-> "upper", exit_idx |-> j]

LoopScan(frame, ev, side, b, last, g) ==
  g = [j \in ev+1 .. last+1 |->
         IF j > last THEN Timeout(last)
         ELSE IF Reaches(frame[j], b.sl, -side) THEN StoppedAt(j)
         ELSE IF Reaches(frame[j], b.tp, side) THEN TakenAt(j)
         ELSE g[j+1]]

Scan(frame, ev, side, b, last) == CHOOSE g : LoopScan(frame, ev, side, b, last, g)

LoopRow(frame, ev, side, p, found) ==
  (found ++ LeftAt(frame, ev, found.exit_idx, side, p))
  ++ [truncated |-> ev + p.horizon > Len(frame) /\ found.label = 0]

LEMMA LoopUnfolds ==
  ASSUME NEW frame, NEW ev, NEW side, NEW p
  PROVE  LET b == Barriers(frame, ev, side, p, FALSE)
             last == Min({ev + p.horizon, Len(frame)})
             scan == Scan(frame, ev, side, b, last)
         IN TripleBarrierLoop(frame, ev, side, p) = LoopRow(frame, ev, side, p, scan[ev+1])
BY DEF TripleBarrierLoop, Scan, LoopScan, LoopRow, Timeout, StoppedAt, TakenAt

\* What it finds is the first row that touches a barrier, the stop before the profit.
LEMMA LoopFinds ==
  ASSUME NEW frame, NEW ev \in Int, NEW side, NEW b, NEW last \in Int, ev <= last
  PROVE  LET found == Scan(frame, ev, side, b, last)[ev+1]
             D(j) == Reaches(frame[j], b.sl, -side)
             U(j) == Reaches(frame[j], b.tp, side)
         IN \/ /\ found = Timeout(last)
               /\ \A j \in ev+1 .. last : ~D(j) /\ ~U(j)
            \/ \E x \in ev+1 .. last :
                 /\ \A j \in ev+1 .. last : j < x => ~D(j) /\ ~U(j)
                 /\ \/ D(x) /\ found = StoppedAt(x)
                    \/ ~D(x) /\ U(x) /\ found = TakenAt(x)
<1> DEFINE D(j) == Reaches(frame[j], b.sl, -side)
           U(j) == Reaches(frame[j], b.tp, side)
           from == ev + 1
           to == last + 1
           halts == {j \in from..to : j > last \/ D(j) \/ U(j)}
           Res == [j \in from..to |-> IF j > last THEN Timeout(last)
                                      ELSE IF D(j) THEN StoppedAt(j) ELSE TakenAt(j)]
           g == Scan(frame, ev, side, b, last)
<1> HIDE DEF D, U
<1>1. from \in Int /\ to \in Int /\ halts \in SUBSET (from..to) /\ to \in halts
  OBVIOUS
<1>2. ASSUME NEW h PROVE LoopScan(frame, ev, side, b, last, h) <=> Scans(halts, Res, from, to, h)
  <2> DEFINE F == [j \in from..to |-> IF j > last THEN Timeout(last)
                     ELSE IF D(j) THEN StoppedAt(j) ELSE IF U(j) THEN TakenAt(j) ELSE h[j+1]]
             G == [j \in from..to |-> IF j \in halts THEN Res[j] ELSE h[j+1]]
  <2>1. F = G
    OBVIOUS
  <2>2. LoopScan(frame, ev, side, b, last, h) <=> h = F
    BY DEF LoopScan, D, U
  <2>3. Scans(halts, Res, from, to, h) <=> h = G
    BY DEF Scans
  <2> HIDE DEF F, G
  <2>4. QED BY <2>1, <2>2, <2>3
<1>3. \A j \in from..to : Res[j] = IF j > last THEN Timeout(last)
                                   ELSE IF D(j) THEN StoppedAt(j) ELSE TakenAt(j)
  OBVIOUS
<1>4. \A j \in from..to : j \in halts <=> j > last \/ D(j) \/ U(j)
  OBVIOUS
<1> HIDE DEF halts, Res
<1>5. LoopScan(frame, ev, side, b, last, g)
  <2>1. PICK h : Scans(halts, Res, from, to, h)
    BY <1>1, ScanExists
  <2>2. LoopScan(frame, ev, side, b, last, h)
    BY <1>2, <2>1
  <2>3. QED BY <2>2 DEF Scan
<1> HIDE DEF g
<1>6. Scans(halts, Res, from, to, g)
  BY <1>2, <1>5
<1> DEFINE x == Min(halts)
<1>7. x \in halts /\ (\A k \in halts : x <= k) /\ g[from] = Res[x]
  <2> HIDE DEF from, to
  <2>1. QED BY <1>1, <1>6, ScanResult
<1> HIDE DEF x
<1>8. x \in from..to /\ from..to \subseteq Int
  BY <1>1, <1>7
<1>9. CASE x > last
  <2>1. g[from] = Timeout(last)
    BY <1>3, <1>7, <1>8, <1>9
  <2>2. ASSUME NEW j \in ev+1 .. last PROVE ~D(j) /\ ~U(j)
    <3>1. j \in from..to /\ ~(x <= j)
      BY <1>8, <1>9
    <3>2. j \notin halts
      BY <1>7, <3>1
    <3>3. QED BY <1>4, <3>1, <3>2
  <2>3. QED BY <2>1, <2>2 DEF g, D, U
<1>10. CASE ~(x > last)
  <2>1. x \in ev+1 .. last
    BY <1>8, <1>10
  <2>2. ASSUME NEW j \in ev+1 .. last, j < x PROVE ~D(j) /\ ~U(j)
    <3>1. j \in from..to /\ ~(x <= j)
      BY <1>8, <2>2
    <3>2. j \notin halts
      BY <1>7, <3>1
    <3>3. QED BY <1>4, <3>1, <3>2
  <2>3. D(x) \/ U(x)
    BY <1>4, <1>7, <1>8, <1>10
  <2>4. g[from] = IF D(x) THEN StoppedAt(x) ELSE TakenAt(x)
    BY <1>3, <1>7, <1>8, <1>10
  <2>5. (D(x) /\ g[from] = StoppedAt(x)) \/ (~D(x) /\ U(x) /\ g[from] = TakenAt(x))
    BY <2>3, <2>4
  <2>6. QED BY <2>1, <2>2, <2>5 DEF g, D, U
<1>11. QED BY <1>9, <1>10

LEMMA SumNotNegative ==
  ASSUME NEW n \in Nat, NEW h \in [1..n -> Int], \A i \in 1..n : h[i] >= 0
  PROVE  SumSeq(h) >= 0
<1> DEFINE k == [i \in 1..(n+1) |-> IF i <= n THEN h[i] ELSE 1]
           m == n + 1
<1>1. /\ k \in [1..(n+1) -> Int] /\ (\A i \in 1..n : k[i] = h[i]) /\ k[n+1] = 1
      /\ \A i \in 1..(n+1) : k[i] >= 0
  OBVIOUS
<1> HIDE DEF k
<1>2. SumSeq(k) = SumSeq(h) + k[n+1]
  BY <1>1, SumSeqGrows
<1>3. SumSeq(k) > 0
  <2>1. m \in Nat /\ k \in [1..m -> Int] /\ (\A i \in 1..m : k[i] >= 0) /\ m \in 1..m /\ k[m] > 0
    BY <1>1
  <2> HIDE DEF m
  <2>2. QED BY <2>1, SumPositive
<1>4. SumSeq(h) \in Int
  BY SumSeqInt
<1>5. QED BY <1>1, <1>2, <1>3, <1>4

LEMMA TrueRangeNotNegative ==
  ASSUME NEW df, NEW n, Frame(df, n), NEW i \in 1..n
  PROVE  InputAt(df, "true_range", i) \in Int /\ InputAt(df, "true_range", i) >= 0
<1>1. IsBar(df[i]) /\ (i # 1 => IsBar(df[i-1])) /\ n \in Nat
  BY DEF Frame
<1> DEFINE a == df[i].high - df[i].low
           b == Gap(df[i].high, df[i-1].close)
           c == Gap(df[i].low, df[i-1].close)
           S == {a} \cup (IF i = 1 THEN {} ELSE {b, c})
<1>2. a \in Int /\ a >= 0 /\ (i # 1 => b \in Int /\ c \in Int)
  BY <1>1 DEF IsBar, Gap
<1>3. InputAt(df, "true_range", i) = Max(S)
  BY DEF InputAt
<1> HIDE DEF a, b, c
<1>4. S \subseteq Int /\ a \in S /\ (S = {a} \/ S = {a, b, c})
  BY <1>2
<1>5. IsFiniteSet({a}) /\ IsFiniteSet({a, b, c})
  <2>1. IsFiniteSet({c})
    BY FS_Singleton
  <2>2. IsFiniteSet({c} \cup {b})
    BY <2>1, FS_AddElement
  <2>3. IsFiniteSet(({c} \cup {b}) \cup {a})
    BY <2>2, FS_AddElement
  <2>4. ({c} \cup {b}) \cup {a} = {a, b, c}
    OBVIOUS
  <2>5. QED BY <2>3, <2>4, FS_Singleton
<1>6. IsFiniteSet(S)
  BY <1>4, <1>5
<1> HIDE DEF S
<1>7. Max(S) \in S /\ \A y \in S : y <= Max(S)
  BY <1>4, <1>6, MaxOfFinite
<1>8. Max(S) \in Int /\ a <= Max(S)
  BY <1>4, <1>7
<1>9. QED BY <1>2, <1>3, <1>8

\* The ATR of a row is missing or not negative.
LEMMA AtrNotNegative ==
  ASSUME NEW frame, NEW n, Indicated(frame, n), Stands(frame), NEW i \in 1..n,
         frame[i].atr # NaN
  PROVE  frame[i].atr \in Nat
<1> DEFINE s == InputSeries(frame, "true_range")
           period == Period("atr")
           w == [k \in 1..period |-> s[(i - 1) - period + k]]
<1>1. n \in Nat /\ DOMAIN frame = 1..n /\ Frame(frame, n)
  BY DEF Indicated, Frame
<1>2. "atr" \in Kept /\ "atr" \in Names /\ ROLLING_SPEC["atr"].op = "mean"
      /\ ROLLING_SPEC["atr"].input = "true_range"
  BY DEF Kept, Names, ROLLING_SPEC, RollingSpec
<1>3. period \in Nat \ {0}
  BY <1>2, SpecTyped
<1>4. frame[i].atr = ColumnAt(frame, "atr", i)
  BY <1>1, <1>2, ColumnOfRow
<1>5. i # 1 /\ ColumnAt(frame, "atr", i) = Rolling(s, "mean", period, i - 1)
  BY <1>2, <1>4 DEF ColumnAt
<1>6. \A k \in 1..n : s[k] \in Int /\ s[k] >= 0
  BY <1>1, TrueRangeNotNegative DEF InputSeries
<1> HIDE DEF s, period
<1>7. ~(i - 1 < period) /\ Rolling(s, "mean", period, i - 1) = SumSeq(w)
  BY <1>4, <1>5 DEF Rolling, Aggregate
<1>8. w \in [1..period -> Int] /\ \A k \in 1..period : w[k] >= 0
  <2>1. ASSUME NEW k \in 1..period PROVE (i - 1) - period + k \in 1..n
    BY <1>1, <1>3, <1>7
  <2>2. \A k \in 1..period : s[(i - 1) - period + k] \in Int /\ s[(i - 1) - period + k] >= 0
    BY <1>6, <2>1
  <2>3. QED BY <2>2
<1> HIDE DEF w
<1>9. SumSeq(w) \in Int /\ SumSeq(w) >= 0
  BY <1>3, <1>8, SumSeqInt, SumNotNegative
<1>10. QED BY <1>4, <1>5, <1>7, <1>9

LEMMA HalfOf ==
  ASSUME NEW x \in Nat
  PROVE  x \div 2 \in Int /\ (-x) \div 2 \in Int /\ x \div 2 >= 0 /\ (-x) \div 2 <= 0
OBVIOUS

\* The guard moves no barrier, unless one is on the entry.
LEMMA GuardIdle ==
  ASSUME NEW frame, NEW n, Indicated(frame, n), Stands(frame), NEW ev \in 1..n, NEW side \in {1, -1},
         NEW p \in {Exits.triple, Exits.triple_atr},
         p.mode = "atr" => ~BarrierOnEntry(frame, ev, side, p)
  PROVE  Barriers(frame, ev, side, p, TRUE) = Barriers(frame, ev, side, p, FALSE)
<1>1. CASE p.mode = "pct"
  BY <1>1 DEF Barriers
<1>2. CASE p.mode # "pct"
  <2> DEFINE entry == frame[ev].close
             raw == AtrBarriers(frame, ev, side, p)
             atr == AtrPrice(frame[ev].atr)
  <2>1. p.mode = "atr" /\ p.upper \in Nat /\ p.lower \in Nat
    BY <1>2, ExitsAssumption
  <2>2. entry \in Int
    BY RowTyped
  <2>3. raw.tp # entry /\ raw.sl # entry
    BY <2>1 DEF BarrierOnEntry
  <2>4. /\ raw.tp = IF atr = NaN THEN NaN ELSE entry + ((side * p.upper) * atr) \div 2
        /\ raw.sl = IF atr = NaN THEN NaN ELSE entry + ((-(side * p.lower)) * atr) \div 2
    BY DEF AtrBarriers
  <2>5. DOMAIN raw = {"tp", "sl"} /\ raw = [tp |-> raw.tp, sl |-> raw.sl]
    BY DEF AtrBarriers
  <2>6. atr # NaN => atr \in Nat
    <3>1. SUFFICES ASSUME atr # NaN PROVE atr \in Nat
      OBVIOUS
    <3>2. frame[ev].atr # NaN /\ atr = frame[ev].atr \div Period("atr")
      BY <3>1 DEF AtrPrice
    <3>3. frame[ev].atr \in Nat
      BY <3>2, AtrNotNegative
    <3>4. "atr" \in Names
      BY DEF Names, ROLLING_SPEC
    <3>5. Period("atr") \in Nat \ {0}
      BY <3>4, SpecTyped
    <3> HIDE DEF atr
    <3>6. QED BY <3>2, <3>3, <3>5
  <2>7. /\ Barriers(frame, ev, side, p, FALSE) = raw
        /\ Barriers(frame, ev, side, p, TRUE) =
             [tp |-> Guarded(raw.tp, entry, side), sl |-> Guarded(raw.sl, entry, -side)]
    BY <1>2 DEF Barriers
  <2> HIDE DEF entry, raw, atr
  <2>8. CASE atr = NaN
    <3>1. raw.tp = NaN /\ raw.sl = NaN
      BY <2>4, <2>8
    <3>2. Guarded(raw.tp, entry, side) = raw.tp /\ Guarded(raw.sl, entry, -side) = raw.sl
      BY <3>1 DEF Guarded
    <3>3. QED BY <2>5, <2>7, <3>2
  <2>9. CASE atr # NaN
    <3> DEFINE u == p.upper * atr
               l == p.lower * atr
               tp == raw.tp
               sl == raw.sl
    <3>1. atr \in Nat /\ u \in Nat /\ l \in Nat
      BY <2>1, <2>6, <2>9
    <3>2. /\ side = 1 => (side * p.upper) * atr = u /\ (-(side * p.lower)) * atr = -l
          /\ side = -1 => (side * p.upper) * atr = -u /\ (-(side * p.lower)) * atr = l
      BY <2>1, <3>1
    <3> HIDE DEF u, l
    <3>3. /\ u \div 2 \in Int /\ (-u) \div 2 \in Int /\ u \div 2 >= 0 /\ (-u) \div 2 <= 0
          /\ l \div 2 \in Int /\ (-l) \div 2 \in Int /\ l \div 2 >= 0 /\ (-l) \div 2 <= 0
      BY <3>1, HalfOf
    <3>4. CASE side = 1
      <4>1. tp = entry + u \div 2 /\ sl = entry + (-l) \div 2
        BY <2>4, <2>9, <3>2, <3>4
      <4>2. tp \in Int /\ sl \in Int /\ tp >= entry + 1 /\ sl <= entry - 1
        BY <2>2, <2>3, <3>3, <4>1
      <4> HIDE DEF tp, sl
      <4>3. Guarded(tp, entry, 1) = Max({tp, entry + 1}) /\ Guarded(sl, entry, -1) = Min({sl, entry - 1})
        BY <4>2, NaNAssumption DEF Guarded
      <4>4. entry + 1 \in Int /\ entry - 1 \in Int
        BY <2>2
      <4>5. Max({tp, entry + 1}) = tp
        <5> DEFINE e == entry + 1
        <5> HIDE DEF e
        <5>1. Max({tp, e}) = IF tp >= e THEN tp ELSE e
          BY <4>2, <4>4, MaxOfTwo DEF e
        <5>2. QED BY <4>2, <5>1 DEF e
      <4>6. Min({sl, entry - 1}) = sl
        <5> DEFINE e == entry - 1
        <5> HIDE DEF e
        <5>1. Min({sl, e}) = IF sl <= e THEN sl ELSE e
          BY <4>2, <4>4, MinOfTwo DEF e
        <5>2. QED BY <4>2, <5>1 DEF e
      <4>7. Guarded(raw.tp, entry, side) = raw.tp /\ Guarded(raw.sl, entry, -side) = raw.sl
        BY <3>4, <4>3, <4>5, <4>6 DEF tp, sl
      <4>8. QED BY <2>5, <2>7, <4>7
    <3>5. CASE side = -1
      <4>1. tp = entry + (-u) \div 2 /\ sl = entry + l \div 2
        BY <2>4, <2>9, <3>2, <3>5
      <4>2. tp \in Int /\ sl \in Int /\ sl >= entry + 1 /\ tp <= entry - 1
        BY <2>2, <2>3, <3>3, <4>1
      <4> HIDE DEF tp, sl
      <4>3. Guarded(sl, entry, 1) = Max({sl, entry + 1}) /\ Guarded(tp, entry, -1) = Min({tp, entry - 1})
        BY <4>2, NaNAssumption DEF Guarded
      <4>4. entry + 1 \in Int /\ entry - 1 \in Int
        BY <2>2
      <4>5. Max({sl, entry + 1}) = sl
        <5> DEFINE e == entry + 1
        <5> HIDE DEF e
        <5>1. Max({sl, e}) = IF sl >= e THEN sl ELSE e
          BY <4>2, <4>4, MaxOfTwo DEF e
        <5>2. QED BY <4>2, <5>1 DEF e
      <4>6. Min({tp, entry - 1}) = tp
        <5> DEFINE e == entry - 1
        <5> HIDE DEF e
        <5>1. Min({tp, e}) = IF tp <= e THEN tp ELSE e
          BY <4>2, <4>4, MinOfTwo DEF e
        <5>2. QED BY <4>2, <5>1 DEF e
      <4>7. Guarded(raw.tp, entry, side) = raw.tp /\ Guarded(raw.sl, entry, -side) = raw.sl
        <5>1. side \in Int /\ side + 1 = 0
          BY <3>5
        <5>2. -side = 1
          BY <5>1
        <5>3. QED BY <3>5, <4>3, <4>5, <4>6, <5>2 DEF tp, sl
      <4>8. QED BY <2>5, <2>7, <4>7
    <3>6. QED BY <3>4, <3>5
  <2>10. QED BY <2>8, <2>9
<1>3. QED BY <1>1, <1>2

\* The last row of the horizon, or of the frame.
Ends(ev, p, n, last) == last = IF ev + p.horizon <= n THEN ev + p.horizon ELSE n

\* The first touch as the loop meets it: row ev + k is in reach of the horizon.
LEMMA TouchRow ==
  ASSUME NEW frame, NEW n \in Nat, Len(frame) = n, NEW ev \in 1..n, NEW p, p.horizon \in Nat,
         NEW price, NEW s, NEW last \in Int,
         Ends(ev, p, n, last),
         NEW k \in Int, NEW j \in Int, j = ev + k
  PROVE  k \in Touches(frame, ev, p, price, s) <=> j \in ev+1 .. last /\ Reaches(frame[j], price, s)
<1>1. k \in Touches(frame, ev, p, price, s)
        <=> k \in 1..p.horizon /\ j <= n /\ Reaches(frame[j], price, s)
  BY DEF Touches
<1>2. k \in 1..p.horizon /\ j <= n <=> j \in ev+1 .. last
  BY DEF Ends
<1>3. QED BY <1>1, <1>2

\* A first touch at row x, and none before it.
LEMMA TouchIsAt ==
  ASSUME NEW frame, NEW n \in Nat, Len(frame) = n, NEW ev \in 1..n,
         NEW p \in {Exits.triple, Exits.triple_atr}, NEW price, NEW s, NEW last \in Int,
         Ends(ev, p, n, last),
         NEW x \in ev+1 .. last,
         \A j \in ev+1 .. last : j < x => ~Reaches(frame[j], price, s)
  PROVE  LET t == First(Touches(frame, ev, p, price, s), 0)
         IN /\ Reaches(frame[x], price, s) => t = x - ev
            /\ ~Reaches(frame[x], price, s) => t = 0 \/ t > x - ev
<1> DEFINE hits == Touches(frame, ev, p, price, s)
           t == First(hits, 0)
           y == x - ev
           z == ev + t
<1>1. /\ t \in Nat /\ p.horizon \in Nat
      /\ hits # {} => t \in hits /\ \A k \in hits : t <= k
      /\ hits = {} => t = 0
  BY TouchFirst
<1> HIDE DEF t
<1>2. y \in Int /\ x \in Int /\ x = ev + y /\ z \in Int /\ z = ev + t
  BY <1>1
<1>3. y \in hits <=> Reaches(frame[x], price, s)
  <2> HIDE DEF y
  <2>1. \A k \in Int, j \in Int : j = ev + k =>
          (k \in hits <=> j \in ev+1 .. last /\ Reaches(frame[j], price, s))
    <3> HIDE DEF hits
    <3>1. ASSUME NEW k \in Int, NEW j \in Int, j = ev + k
          PROVE  k \in Touches(frame, ev, p, price, s)
                   <=> j \in ev+1 .. last /\ Reaches(frame[j], price, s)
      BY <1>1, <3>1, TouchRow
    <3>2. QED BY <3>1 DEF hits
  <2> HIDE DEF hits
  <2>2. QED BY <1>2, <2>1
<1>4. t \in hits => z \in ev+1 .. last /\ Reaches(frame[z], price, s)
  <2>1. t \in Int
    BY <1>1
  <2> HIDE DEF z
  <2>2. QED BY <1>1, <1>2, <2>1, TouchRow
<1> HIDE DEF hits, y, z
<1>5. t \in hits => ~(z < x)
  BY <1>4
<1>6. t \in hits => t >= y
  BY <1>1, <1>2, <1>5
<1>7. Reaches(frame[x], price, s) => t = y
  BY <1>1, <1>2, <1>3, <1>6
<1>8. ~Reaches(frame[x], price, s) => t = 0 \/ t > y
  <2>1. SUFFICES ASSUME ~Reaches(frame[x], price, s), t # 0 PROVE t > y
    OBVIOUS
  <2>2. t \in hits /\ y \notin hits
    BY <1>1, <1>3, <2>1
  <2>3. QED BY <1>1, <1>2, <1>6, <2>2
<1>9. QED BY <1>7, <1>8 DEF t, hits, y

\* No touch at all.
LEMMA TouchIsNone ==
  ASSUME NEW frame, NEW n \in Nat, Len(frame) = n, NEW ev \in 1..n,
         NEW p \in {Exits.triple, Exits.triple_atr}, NEW price, NEW s, NEW last \in Int,
         Ends(ev, p, n, last),
         \A j \in ev+1 .. last : ~Reaches(frame[j], price, s)
  PROVE  First(Touches(frame, ev, p, price, s), 0) = 0
<1> DEFINE hits == Touches(frame, ev, p, price, s)
           t == First(hits, 0)
           z == ev + t
<1>1. /\ t \in Nat /\ p.horizon \in Nat
      /\ hits # {} => t \in hits
      /\ hits = {} => t = 0
  BY TouchFirst
<1> HIDE DEF t
<1>2. z \in Int /\ z = ev + t /\ t \in Int
  BY <1>1
<1>3. t \in hits => z \in ev+1 .. last /\ Reaches(frame[z], price, s)
  <2> HIDE DEF z
  <2>1. QED BY <1>1, <1>2, TouchRow
<1> HIDE DEF hits, z
<1>4. t = 0
  BY <1>1, <1>3
<1>5. QED BY <1>4 DEF t, hits

\* A row of the loop is a row of the vectorised form.
LEMMA SameRow ==
  ASSUME NEW label, NEW reason, NEW exit, NEW cut, NEW left,
         DOMAIN left = {"exit_idx", "n_bars_held", "entry_price", "exit_price", "actual_return", "return_atr"},
         left.exit_idx = exit
  PROVE  ([label |-> label, barrier_hit |-> reason, exit_idx |-> exit] ++ left) ++ [truncated |-> cut]
         = [label |-> label, barrier_hit |-> reason, truncated |-> cut] ++ left
<1> DEFINE a == [label |-> label, barrier_hit |-> reason, exit_idx |-> exit]
           b == [truncated |-> cut]
           c == [label |-> label, barrier_hit |-> reason, truncated |-> cut]
           v == (a ++ left) ++ b
           w == c ++ left
           L == DOMAIN left
<1>1. /\ DOMAIN a = {"label", "barrier_hit", "exit_idx"} /\ DOMAIN b = {"truncated"}
      /\ DOMAIN c = {"label", "barrier_hit", "truncated"}
      /\ a.label = label /\ a.barrier_hit = reason /\ a.exit_idx = exit /\ b.truncated = cut
      /\ c.label = label /\ c.barrier_hit = reason /\ c.truncated = cut
  OBVIOUS
<1>2. "label" \notin L /\ "barrier_hit" \notin L /\ "truncated" \notin L /\ "exit_idx" \in L
  OBVIOUS
<1> HIDE DEF a, b, c, L
<1>3. DOMAIN v = DOMAIN w
  <2>1. DOMAIN v = DOMAIN a \cup L \cup DOMAIN b /\ DOMAIN w = DOMAIN c \cup L
    BY DEF ++, L
  <2> HIDE DEF v, w
  <2>2. QED BY <1>1, <1>2, <2>1
<1>4. \A x \in DOMAIN w : v[x] = w[x]
  <2>1. \A x \in DOMAIN a : v[x] = a[x]
    BY DEF ++
  <2>2. \A x \in L : x \notin DOMAIN a => v[x] = left[x]
    BY DEF ++, L
  <2>3. v["truncated"] = cut
    BY <1>1, <1>2 DEF ++, L
  <2>4. \A x \in DOMAIN c : w[x] = c[x]
    BY DEF ++
  <2>5. \A x \in L : x \notin DOMAIN c => w[x] = left[x]
    BY DEF ++, L
  <2>6. DOMAIN w = DOMAIN c \cup L
    BY DEF ++, L
  <2> HIDE DEF v, w
  <2>7. ASSUME NEW x \in L PROVE v[x] = left[x] /\ w[x] = left[x]
    <3>1. x \notin DOMAIN c
      BY <1>1, <1>2
    <3>2. w[x] = left[x]
      BY <2>5, <3>1
    <3>3. CASE x = "exit_idx"
      BY <1>1, <2>1, <3>2, <3>3
    <3>4. CASE x # "exit_idx"
      BY <1>1, <1>2, <2>2, <3>2, <3>4
    <3>5. QED BY <3>3, <3>4
  <2>8. QED BY <1>1, <2>1, <2>3, <2>4, <2>6, <2>7
<1>5. v = [x \in DOMAIN v |-> v[x]] /\ w = [x \in DOMAIN w |-> w[x]]
  BY DEF ++
<1> HIDE DEF v, w
<1>6. v = w
  BY <1>3, <1>4, <1>5
<1>7. QED BY <1>6 DEF v, w, a, b, c

\* The two forms write the same row from the same barrier, exit and cut.
LEMMA VectorisedRow ==
  ASSUME NEW frame, NEW ev, NEW side, NEW p, NEW label, NEW reason, NEW offset, NEW exit,
         exit = Min({ev + offset, Len(frame)})
  PROVE  Vectorised(frame, ev, side, p, [label |-> label, barrier_hit |-> reason, offset |-> offset])
         = ([label |-> label, barrier_hit |-> reason, exit_idx |-> exit] ++ LeftAt(frame, ev, exit, side, p))
           ++ [truncated |-> offset > Len(frame) - ev]
<1> DEFINE left == LeftAt(frame, ev, exit, side, p)
           cut == offset > Len(frame) - ev
<1>1. Vectorised(frame, ev, side, p, [label |-> label, barrier_hit |-> reason, offset |-> offset])
      = [label |-> label, barrier_hit |-> reason, truncated |-> cut] ++ left
  BY DEF Vectorised
<1>2. /\ DOMAIN left = {"exit_idx", "n_bars_held", "entry_price", "exit_price", "actual_return", "return_atr"}
      /\ left.exit_idx = exit
  BY DEF LeftAt
<1> HIDE DEF left, cut
<1>3. ([label |-> label, barrier_hit |-> reason, exit_idx |-> exit] ++ left) ++ [truncated |-> cut]
      = [label |-> label, barrier_hit |-> reason, truncated |-> cut] ++ left
  BY <1>2, SameRow
<1>4. QED BY <1>1, <1>3 DEF left, cut

LEMMA LoopRowOf ==
  ASSUME NEW frame, NEW ev, NEW side, NEW p, NEW label, NEW reason, NEW exit, NEW cut \in BOOLEAN,
         (ev + p.horizon > Len(frame) /\ label = 0) <=> cut
  PROVE  LoopRow(frame, ev, side, p, [label |-> label, barrier_hit |-> reason, exit_idx |-> exit])
         = ([label |-> label, barrier_hit |-> reason, exit_idx |-> exit] ++ LeftAt(frame, ev, exit, side, p))
           ++ [truncated |-> cut]
<1> DEFINE found == [label |-> label, barrier_hit |-> reason, exit_idx |-> exit]
<1>1. found.label = label /\ found.exit_idx = exit
  OBVIOUS
<1> HIDE DEF found
<1>2. LoopRow(frame, ev, side, p, found)
      = (found ++ LeftAt(frame, ev, exit, side, p)) ++ [truncated |-> cut]
  BY <1>1 DEF LoopRow
<1>3. QED BY <1>2 DEF found

\* The two forms agree on an entry whose barriers the guard leaves alone.
LEMMA FormsAgree ==
  ASSUME NEW frame, NEW n, Indicated(frame, n), NEW ev \in 1..n, NEW side \in {1, -1},
         NEW p \in {Exits.triple, Exits.triple_atr},
         Barriers(frame, ev, side, p, TRUE) = Barriers(frame, ev, side, p, FALSE)
  PROVE  TripleBarrier(frame, ev, side, p) = TripleBarrierLoop(frame, ev, side, p)
<1> DEFINE b == Barriers(frame, ev, side, p, FALSE)
           h == p.horizon
           last == Min({ev + h, Len(frame)})
           found == Scan(frame, ev, side, b, last)[ev+1]
           tp == b.tp
           sl == b.sl
           opposite == -side
           up == First(Touches(frame, ev, p, tp, side), 0)
           dn == First(Touches(frame, ev, p, sl, opposite), 0)
           D(j) == Reaches(frame[j], sl, opposite)
           U(j) == Reaches(frame[j], tp, side)
           V(hit) == Vectorised(frame, ev, side, p, hit)
           R(row) == LoopRow(frame, ev, side, p, row)
<1>1. n \in Nat /\ Len(frame) = n /\ h \in Nat /\ up \in Nat /\ dn \in Nat
  BY TouchFirst DEF Indicated, Frame
<1>2. TripleBarrier(frame, ev, side, p) = V(FirstTouched(up, dn, h))
  BY TripleIs DEF TouchHit
<1>3. TripleBarrierLoop(frame, ev, side, p) = R(found)
  BY LoopUnfolds
<1>4. /\ last \in ev..n /\ last \in Int /\ ev \in Int /\ ev <= last
      /\ last = IF ev + h <= n THEN ev + h ELSE n
  <2>1. ev + h \in Int /\ n \in Int
    BY <1>1
  <2>2. Min({ev + h, n}) = IF ev + h <= n THEN ev + h ELSE n
    BY <2>1, MinOfTwo
  <2>3. QED BY <1>1, <2>2
<1> HIDE DEF last
<1> HIDE DEF b
<1>5. \/ /\ found = Timeout(last)
         /\ \A j \in ev+1 .. last : ~D(j) /\ ~U(j)
      \/ \E x \in ev+1 .. last :
           /\ \A j \in ev+1 .. last : j < x => ~D(j) /\ ~U(j)
           /\ \/ D(x) /\ found = StoppedAt(x)
              \/ ~D(x) /\ U(x) /\ found = TakenAt(x)
  BY <1>4, LoopFinds
<1> HIDE DEF tp, sl, opposite
<1>12. Ends(ev, p, n, last)
  BY <1>4 DEF Ends
<1>13. ASSUME NEW price, NEW s, \A j \in ev+1 .. last : ~Reaches(frame[j], price, s)
       PROVE  First(Touches(frame, ev, p, price, s), 0) = 0
  BY <1>1, <1>4, <1>12, <1>13, TouchIsNone
<1>14. ASSUME NEW price, NEW s, NEW x \in ev+1 .. last,
              \A j \in ev+1 .. last : j < x => ~Reaches(frame[j], price, s)
       PROVE  LET t == First(Touches(frame, ev, p, price, s), 0)
              IN /\ Reaches(frame[x], price, s) => t = x - ev
                 /\ ~Reaches(frame[x], price, s) => t = 0 \/ t > x - ev
  <2>1. \A j \in ev+1 .. last : j < x => ~Reaches(frame[j], price, s)
    BY <1>14
  <2>2. n \in Nat /\ Len(frame) = n /\ last \in Int
    BY <1>1, <1>4
  <2>3. QED BY <1>12, <2>1, <2>2, TouchIsAt, ZenonT(30)
<1>6. ASSUME found = Timeout(last), \A j \in ev+1 .. last : ~D(j) /\ ~U(j)
      PROVE  V(FirstTouched(up, dn, h)) = R(found)
  <2>1. up = 0 /\ dn = 0
    <3>1. \A j \in ev+1 .. last : ~Reaches(frame[j], tp, side)
      BY <1>6
    <3>2. \A j \in ev+1 .. last : ~Reaches(frame[j], sl, opposite)
      BY <1>6
    <3>3. up = 0
      BY <1>13, <3>1
    <3>4. dn = 0
      BY <1>13, <3>2
    <3>5. QED BY <3>3, <3>4
  <2>2. FirstTouched(up, dn, h) = [label |-> 0, barrier_hit |-> "timeout", offset |-> h]
    BY <2>1 DEF FirstTouched
  <2> HIDE DEF up, dn, found
  <2>3. (ev + h > Len(frame) /\ 0 = 0) <=> (h > Len(frame) - ev)
    BY <1>1
  <2> DEFINE cut == h > Len(frame) - ev
  <2>7. cut \in BOOLEAN
    OBVIOUS
  <2> HIDE DEF cut
  <2> DEFINE none == 0
             reason == "timeout"
  <2>8. (ev + p.horizon > Len(frame) /\ none = 0) <=> cut
    BY <2>3 DEF cut
  <2> HIDE DEF none, reason
  <2>9. LoopRow(frame, ev, side, p, [label |-> none, barrier_hit |-> reason, exit_idx |-> last])
        = ([label |-> none, barrier_hit |-> reason, exit_idx |-> last] ++ LeftAt(frame, ev, last, side, p))
          ++ [truncated |-> cut]
    BY <2>7, <2>8, LoopRowOf
  <2>4. R(Timeout(last))
        = ([label |-> 0, barrier_hit |-> "timeout", exit_idx |-> last] ++ LeftAt(frame, ev, last, side, p))
          ++ [truncated |-> h > Len(frame) - ev]
    BY <2>9 DEF Timeout, cut, none, reason
  <2>5. V([label |-> 0, barrier_hit |-> "timeout", offset |-> h])
        = ([label |-> 0, barrier_hit |-> "timeout", exit_idx |-> last] ++ LeftAt(frame, ev, last, side, p))
          ++ [truncated |-> h > Len(frame) - ev]
    BY VectorisedRow DEF last
  <2> HIDE DEF V, R
  <2>6. QED BY <1>6, <2>2, <2>4, <2>5
<1>7. ASSUME NEW x \in ev+1 .. last, \A j \in ev+1 .. last : j < x => ~D(j) /\ ~U(j)
      PROVE  /\ D(x) => dn = x - ev /\ (up = 0 \/ dn <= up)
             /\ ~D(x) /\ U(x) => up = x - ev /\ (dn = 0 \/ up < dn)
  <2>2. \A j \in ev+1 .. last : j < x => ~Reaches(frame[j], tp, side)
    BY <1>7
  <2>3. \A j \in ev+1 .. last : j < x => ~Reaches(frame[j], sl, opposite)
    BY <1>7
  <2>4. /\ U(x) => up = x - ev
        /\ ~U(x) => up = 0 \/ up > x - ev
    BY <1>14, <2>2
  <2>5. /\ D(x) => dn = x - ev
        /\ ~D(x) => dn = 0 \/ dn > x - ev
    BY <1>14, <2>3
  <2> HIDE DEF D, U, up, dn
  <2>6. x - ev \in Int
    BY <1>4
  <2>7. QED BY <1>1, <2>4, <2>5, <2>6
<1>8. ASSUME NEW x \in ev+1 .. last, NEW label \in {1, -1}, NEW reason
      PROVE  V([label |-> label, barrier_hit |-> reason, offset |-> x - ev])
             = R([label |-> label, barrier_hit |-> reason, exit_idx |-> x])
  <2> DEFINE k == x - ev
  <2>1. x \in Int /\ k \in Int /\ ev + k = x /\ x <= n /\ ~(k > n - ev) /\ k # 0
    BY <1>1, <1>4
  <2> HIDE DEF k
  <2>2. Min({ev + k, Len(frame)}) = x
    <3>1. Min({x, n}) = IF x <= n THEN x ELSE n
      BY <1>1, <2>1, MinOfTwo
    <3>2. QED BY <1>1, <2>1, <3>1
  <2>3. (k > Len(frame) - ev) = FALSE /\ ((ev + p.horizon > Len(frame) /\ label = 0) <=> FALSE)
    BY <1>1, <2>1
  <2>4. R([label |-> label, barrier_hit |-> reason, exit_idx |-> x])
        = ([label |-> label, barrier_hit |-> reason, exit_idx |-> x] ++ LeftAt(frame, ev, x, side, p))
          ++ [truncated |-> FALSE]
    <3> DEFINE cut == FALSE
    <3>1. cut \in BOOLEAN /\ ((ev + p.horizon > Len(frame) /\ label = 0) <=> cut)
      BY <2>3
    <3> HIDE DEF cut
    <3>2. LoopRow(frame, ev, side, p, [label |-> label, barrier_hit |-> reason, exit_idx |-> x])
        = ([label |-> label, barrier_hit |-> reason, exit_idx |-> x] ++ LeftAt(frame, ev, x, side, p))
          ++ [truncated |-> cut]
      BY <3>1, LoopRowOf
    <3>3. QED BY <3>2 DEF cut
  <2>5. V([label |-> label, barrier_hit |-> reason, offset |-> k])
        = ([label |-> label, barrier_hit |-> reason, exit_idx |-> x] ++ LeftAt(frame, ev, x, side, p))
          ++ [truncated |-> k > Len(frame) - ev]
    BY <2>2, VectorisedRow
  <2> HIDE DEF V, R
  <2>6. QED BY <2>3, <2>4, <2>5 DEF k
<1>9. ASSUME NEW x \in ev+1 .. last, \A j \in ev+1 .. last : j < x => ~D(j) /\ ~U(j),
             D(x), found = StoppedAt(x)
      PROVE  V(FirstTouched(up, dn, h)) = R(found)
  <2>1. dn = x - ev /\ (up = 0 \/ dn <= up)
    BY <1>7, <1>9
  <2>2. dn # 0
    <3> HIDE DEF up, dn, D, U, found
    <3>1. QED BY <1>4, <2>1
  <2> HIDE DEF up, dn, found
  <2>3. FirstTouched(up, dn, h) = [label |-> -1, barrier_hit |-> "lower", offset |-> dn]
    BY <1>1, <2>1, <2>2 DEF FirstTouched
  <2>4. found = [label |-> -1, barrier_hit |-> "lower", exit_idx |-> x]
    BY <1>9 DEF StoppedAt
  <2>5. V([label |-> -1, barrier_hit |-> "lower", offset |-> x - ev])
        = R([label |-> -1, barrier_hit |-> "lower", exit_idx |-> x])
    <3> HIDE DEF V, R
    <3>1. QED BY <1>8
  <2> HIDE DEF V, R
  <2>6. QED BY <2>1, <2>3, <2>4, <2>5
<1>10. ASSUME NEW x \in ev+1 .. last, \A j \in ev+1 .. last : j < x => ~D(j) /\ ~U(j),
              ~D(x), U(x), found = TakenAt(x)
       PROVE  V(FirstTouched(up, dn, h)) = R(found)
  <2>1. up = x - ev /\ (dn = 0 \/ up < dn)
    BY <1>7, <1>10
  <2>2. up # 0
    <3> HIDE DEF up, dn, D, U, found
    <3>1. QED BY <1>4, <2>1
  <2> HIDE DEF up, dn, found
  <2>3. FirstTouched(up, dn, h) = [label |-> 1, barrier_hit |-> "upper", offset |-> up]
    BY <1>1, <2>1, <2>2 DEF FirstTouched
  <2>4. found = [label |-> 1, barrier_hit |-> "upper", exit_idx |-> x]
    BY <1>10 DEF TakenAt
  <2>5. V([label |-> 1, barrier_hit |-> "upper", offset |-> x - ev])
        = R([label |-> 1, barrier_hit |-> "upper", exit_idx |-> x])
    <3> HIDE DEF V, R
    <3>1. QED BY <1>8
  <2> HIDE DEF V, R
  <2>6. QED BY <2>1, <2>3, <2>4, <2>5
<1> HIDE DEF V, R, D, U, up, dn, found
<1>11. QED BY <1>2, <1>3, <1>5, <1>6, <1>9, <1>10

LEMMA InvLoop == StudyInv /\ StreamInv => TripleBarrierLoopAgrees
<1> SUFFICES ASSUME StudyInv, StreamInv, phase = "reading",
                    NEW p \in {Exits.triple, Exits.triple_atr}, NEW i \in DOMAIN ind, NEW side \in {1, -1},
                    ~(p.mode = "atr" /\ BarrierOnEntry(ind, i, side, p))
             PROVE  TripleBarrier(ind, i, side, p) = TripleBarrierLoop(ind, i, side, p)
  BY DEF TripleBarrierLoopAgrees
<1> DEFINE n == Len(ind)
<1>1. Indicated(ind, n) /\ Stands(ind)
  BY DEF StudyInv, ReadInv, StreamInv
<1>2. i \in 1..n
  BY <1>1 DEF Indicated, Frame
<1> HIDE DEF n
<1>3. Barriers(ind, i, side, p, TRUE) = Barriers(ind, i, side, p, FALSE)
  BY <1>1, <1>2, GuardIdle
<1>4. QED BY <1>1, <1>2, <1>3, FormsAgree

(***************************************************************************)
(* The vectorised triple barrier and the loop that is its reference write  *)
(* the same row for every entry, except where a barrier in ATR would lie   *)
(* on the entry's own price and only the vectorised form moves it off      *)
(* (src/research/labeling.py:150-285 against :288-399).                    *)
(***************************************************************************)
THEOREM LoopIsVectorised == StudySpec => []TripleBarrierLoopAgrees
BY StreamInvariant, InvLoop, PTL

-----------------------------------------------------------------------------
(* A settled label stays what it is while the frame grows.                 *)

Extends(f, g, n) ==
  n \in Nat /\ Len(f) = n /\ Len(g) = n + 1 /\ \A i \in 1..n : f[i] = g[i]

\* The rows that end a trade, of a frame and of one a bar longer.
Grows(A, B, ev, n) ==
  /\ A \in SUBSET (ev+1..n) /\ B \in SUBSET (ev+1..n+1) /\ A \subseteq B
  /\ \A k \in B : k \in A \/ k > n

\* Later rows do not move the first row of a set.
LEMMA FirstStays ==
  ASSUME NEW ev \in Int, NEW n \in Int, NEW A, NEW B, Grows(A, B, ev, n), A # {},
         NEW x \in Int, NEW y \in Int
  PROVE  First(A, x) \in A /\ First(B, y) = First(A, x)
<1> DEFINE a == ev + 1
           c == n + 1
<1>1. /\ a \in Int /\ c \in Int /\ A \in SUBSET (a..n) /\ B \in SUBSET (a..c)
      /\ A \subseteq B /\ \A k \in B : k \in A \/ k > n
  BY DEF Grows
<1> HIDE DEF a, c
<1>2. First(A, x) \in A /\ \A k \in A : First(A, x) <= k
  BY <1>1, FirstHit
<1>3. First(B, y) \in B /\ \A k \in B : First(B, y) <= k
  BY <1>1, FirstHit
<1> DEFINE u == First(A, x)
           v == First(B, y)
<1> HIDE DEF u, v
<1>4. u \in A /\ v \in B /\ v <= u /\ u \in Int /\ v \in Int /\ u <= n
  <2>1. u \in A /\ v \in B
    BY <1>2, <1>3 DEF u, v
  <2>2. v <= u
    BY <1>1, <1>3, <2>1 DEF v
  <2>3. QED BY <1>1, <2>1, <2>2
<1>5. v \in A
  BY <1>1, <1>4
<1>6. u <= v
  BY <1>2, <1>5 DEF u
<1>7. u = v
  BY <1>4, <1>6
<1>8. QED BY <1>4, <1>7 DEF u, v

\* A row's exit and its reason decide whether it is settled.
LEMMA SettledBeside ==
  ASSUME NEW row, NEW m, NEW frame, {"exit_idx", "barrier_hit"} \subseteq DOMAIN row,
         Settled(row ++ m, frame)
  PROVE  row.exit_idx < Len(frame) \/ row.barrier_hit \notin {"timeout", "still_open"}
<1> DEFINE l == row ++ m
<1>1. l.exit_idx = row.exit_idx /\ l.barrier_hit = row.barrier_hit
  BY DEF ++
<1> HIDE DEF l
<1>2. Settled(l, frame)
  BY DEF l
<1>3. QED BY <1>1, <1>2 DEF Settled

LEMMA SameExit ==
  ASSUME NEW f, NEW g, NEW ev, f[ev] = g[ev], NEW exit, NEW side, NEW price, NEW reason
  PROVE  ExitAt(f, ev, exit, side, price, reason) = ExitAt(g, ev, exit, side, price, reason)
BY DEF ExitAt

LEMMA ExitOf ==
  ASSUME NEW f, NEW ev, NEW exit, NEW side, NEW price, NEW reason
  PROVE  LET l == ExitAt(f, ev, exit, side, price, reason)
         IN /\ l.exit_idx = exit /\ l.barrier_hit = reason
            /\ {"exit_idx", "barrier_hit"} \subseteq DOMAIN l
BY DEF ExitAt

\* TurtleExitLabeler, in the rows that end a trade and what it writes at one.
TurtleStop(f, ev, side, p) == f[ev].close - side * ((p.mult * PositiveAtr(f[ev].atr)) \div 2)
TurtleStopHit(f, ev, side, p, j) ==
  IF side = 1 THEN f[j].low <= TurtleStop(f, ev, side, p) ELSE f[j].high >= TurtleStop(f, ev, side, p)
TurtleChannelHit(f, side, j) ==
  IF side = 1 THEN Below(f[j].close, f[j].exit_low) ELSE Above(f[j].close, f[j].exit_high)
TurtleHit(f, ev, side, p, j) == TurtleStopHit(f, ev, side, p, j) \/ TurtleChannelHit(f, side, j)
TurtleHits(f, ev, side, p) == {j \in ev+1 .. Len(f) : TurtleHit(f, ev, side, p, j)}
TurtleRow(f, ev, side, p, j) ==
  IF TurtleStopHit(f, ev, side, p, j)
    THEN ExitAt(f, ev, j, side, StopPrice(f[j].close, TurtleStop(f, ev, side, p), side), "stop")
    ELSE ExitAt(f, ev, j, side, f[j].close, "signal")

LEMMA TurtleIs ==
  ASSUME NEW f, NEW ev, NEW side, NEW p
  PROVE  LET hits == TurtleHits(f, ev, side, p)
             j == First(hits, Len(f))
         IN TurtleExit(f, ev, side, p) =
              IF hits = {} THEN ExitAt(f, ev, j, side, f[j].close, "timeout")
              ELSE TurtleRow(f, ev, side, p, j)
BY DEF TurtleExit, TurtleHits, TurtleHit, TurtleStopHit, TurtleChannelHit, TurtleStop, TurtleRow

LEMMA TurtleStays ==
  ASSUME NEW f, NEW g, NEW n, Extends(f, g, n), NEW ev \in 1..n, NEW side, NEW p,
         Settled(TurtleExit(f, ev, side, p), f)
  PROVE  TurtleExit(f, ev, side, p) = TurtleExit(g, ev, side, p)
<1> DEFINE A == TurtleHits(f, ev, side, p)
           B == TurtleHits(g, ev, side, p)
           j == First(A, Len(f))
<1>1. /\ n \in Nat /\ ev \in Int /\ Len(f) = n /\ Len(g) = n + 1 /\ f[ev] = g[ev]
      /\ \A i \in 1..n : f[i] = g[i]
  BY DEF Extends
<1>2. ASSUME NEW i \in 1..n
      PROVE  /\ TurtleHit(f, ev, side, p, i) <=> TurtleHit(g, ev, side, p, i)
             /\ TurtleRow(f, ev, side, p, i) = TurtleRow(g, ev, side, p, i)
  <2>1. f[i] = g[i] /\ f[ev] = g[ev]
    BY <1>1
  <2>2. TurtleStop(f, ev, side, p) = TurtleStop(g, ev, side, p)
    BY <2>1 DEF TurtleStop
  <2>3. TurtleStopHit(f, ev, side, p, i) <=> TurtleStopHit(g, ev, side, p, i)
    BY <2>1, <2>2 DEF TurtleStopHit
  <2>4. TurtleChannelHit(f, side, i) <=> TurtleChannelHit(g, side, i)
    BY <2>1 DEF TurtleChannelHit
  <2>5. TurtleRow(f, ev, side, p, i) = TurtleRow(g, ev, side, p, i)
    BY <2>1, <2>2, <2>3, SameExit DEF TurtleRow
  <2>6. QED BY <2>3, <2>4, <2>5 DEF TurtleHit
<1>3. Grows(A, B, ev, n)
  <2>1. ev+1..n \subseteq 1..n
    BY <1>1
  <2>2. \A k \in ev+1..n+1 : k \in ev+1..n \/ k > n
    BY <1>1
  <2>3. \A k : k \in ev+1..n => k \in ev+1..n+1
    BY <1>1
  <2>4. QED BY <1>1, <1>2, <2>1, <2>2, <2>3 DEF TurtleHits, Grows
<1> HIDE DEF A, B
<1>4. A # {}
  <2>1. SUFFICES ASSUME A = {} PROVE FALSE
    OBVIOUS
  <2>2. j = n
    BY <1>1, <2>1 DEF First
  <2>3. TurtleExit(f, ev, side, p) = ExitAt(f, ev, n, side, f[n].close, "timeout")
    BY <2>1, <2>2, TurtleIs DEF A
  <2>4. QED BY <1>1, <2>3, ExitOf DEF Settled
<1>5. j \in A /\ First(B, Len(g)) = j
  BY <1>1, <1>3, <1>4, FirstStays
<1> HIDE DEF j
<1>6. B # {} /\ j \in 1..n
  BY <1>1, <1>3, <1>5 DEF Grows
<1>7. TurtleExit(f, ev, side, p) = TurtleRow(f, ev, side, p, j)
  BY <1>4, TurtleIs DEF A, j
<1>8. TurtleExit(g, ev, side, p) = TurtleRow(g, ev, side, p, j)
  BY <1>5, <1>6, TurtleIs DEF B
<1>9. QED BY <1>2, <1>6, <1>7, <1>8

\* TrailingExitLabeler.
TrailHit(f, ev, side, j) == Reaches(f[j], TrailStop(f, ev, side, j), -side)
TrailHits(f, ev, side) == {j \in ev+1 .. Len(f) : TrailHit(f, ev, side, j)}
TrailRisk(f, ev, side) ==
  LET start == TrailValue(f[ev], side) IN IF start = NaN THEN NaN ELSE side * (f[ev].close - start)
Trailed(row, risk) ==
  row ++ [stop_distance |-> risk, r_multiple |-> IF risk = NaN THEN NaN ELSE <<row.actual_return, risk>>]
TrailRow(f, ev, side, j) ==
  ExitAt(f, ev, j, side, StopPrice(f[j].close, TrailStop(f, ev, side, j), side), "trailing_stop")

LEMMA TrailingIs ==
  ASSUME NEW f, NEW ev, NEW side
  PROVE  LET hits == TrailHits(f, ev, side)
             j == First(hits, Len(f))
         IN TrailingStopExit(f, ev, side) =
              Trailed(IF hits = {} THEN ExitAt(f, ev, j, side, f[j].close, "still_open")
                      ELSE TrailRow(f, ev, side, j), TrailRisk(f, ev, side))
BY DEF TrailingStopExit, TrailHits, TrailHit, TrailRisk, Trailed, TrailRow

LEMMA TrailingStays ==
  ASSUME NEW f, NEW g, NEW n, Extends(f, g, n), NEW ev \in 1..n, NEW side,
         Settled(TrailingStopExit(f, ev, side), f)
  PROVE  TrailingStopExit(f, ev, side) = TrailingStopExit(g, ev, side)
<1> DEFINE A == TrailHits(f, ev, side)
           B == TrailHits(g, ev, side)
           j == First(A, Len(f))
           risk == TrailRisk(f, ev, side)
<1>1. /\ n \in Nat /\ ev \in Int /\ Len(f) = n /\ Len(g) = n + 1 /\ f[ev] = g[ev]
      /\ \A i \in 1..n : f[i] = g[i]
  BY DEF Extends
<1>2. ASSUME NEW i \in 1..n
      PROVE  /\ TrailHit(f, ev, side, i) <=> TrailHit(g, ev, side, i)
             /\ TrailRow(f, ev, side, i) = TrailRow(g, ev, side, i)
  <2>1. f[i] = g[i] /\ f[ev] = g[ev]
    BY <1>1
  <2>2. {TrailValue(f[k], side) : k \in ev .. i-1} = {TrailValue(g[k], side) : k \in ev .. i-1}
    <3>1. \A k \in ev .. i-1 : f[k] = g[k]
      BY <1>1
    <3>2. QED BY <3>1
  <2>3. TrailStop(f, ev, side, i) = TrailStop(g, ev, side, i)
    BY <2>2 DEF TrailStop
  <2>4. TrailRow(f, ev, side, i) = TrailRow(g, ev, side, i)
    BY <2>1, <2>3, SameExit DEF TrailRow
  <2>5. QED BY <2>1, <2>3, <2>4 DEF TrailHit
<1>3. Grows(A, B, ev, n)
  <2>1. ev+1..n \subseteq 1..n
    BY <1>1
  <2>2. \A k \in ev+1..n+1 : k \in ev+1..n \/ k > n
    BY <1>1
  <2>3. \A k : k \in ev+1..n => k \in ev+1..n+1
    BY <1>1
  <2>4. QED BY <1>1, <1>2, <2>1, <2>2, <2>3 DEF TrailHits, Grows
<1>4. TrailRisk(g, ev, side) = risk
  BY <1>1 DEF TrailRisk
<1> HIDE DEF A, B, risk
<1>5. A # {}
  <2>1. SUFFICES ASSUME A = {} PROVE FALSE
    OBVIOUS
  <2>2. j = n
    BY <1>1, <2>1 DEF First
  <2> DEFINE row == ExitAt(f, ev, n, side, f[n].close, "still_open")
  <2>3. TrailingStopExit(f, ev, side) = Trailed(row, risk)
    BY <2>1, <2>2, TrailingIs DEF A, risk
  <2>4. row.exit_idx = n /\ row.barrier_hit = "still_open" /\ {"exit_idx", "barrier_hit"} \subseteq DOMAIN row
    BY ExitOf
  <2> HIDE DEF row
  <2>5. row.exit_idx < Len(f) \/ row.barrier_hit \notin {"timeout", "still_open"}
    BY <2>3, <2>4, SettledBeside DEF Trailed
  <2>6. QED BY <1>1, <2>4, <2>5
<1>6. j \in A /\ First(B, Len(g)) = j
  BY <1>1, <1>3, <1>5, FirstStays
<1> HIDE DEF j
<1>7. B # {} /\ j \in 1..n
  BY <1>1, <1>3, <1>6 DEF Grows
<1>8. TrailingStopExit(f, ev, side) = Trailed(TrailRow(f, ev, side, j), risk)
  BY <1>5, TrailingIs DEF A, j, risk
<1>9. TrailingStopExit(g, ev, side) = Trailed(TrailRow(g, ev, side, j), risk)
  BY <1>4, <1>6, <1>7, TrailingIs DEF B
<1>10. QED BY <1>2, <1>7, <1>8, <1>9

\* Where a trade held for at most `hold` bars ends, when nothing else ends it.
LEMMA HeldUntil ==
  ASSUME NEW n \in Nat, NEW ev \in 1..n, NEW hold \in Nat
  PROVE  LET a == Min({ev + hold, n})
             b == Min({ev + hold, n + 1})
         IN /\ a \in ev..n /\ b \in ev..n+1
            /\ a < n => a = b
            /\ a <= b /\ \A k \in ev+1..b : k <= a \/ k > n
<1> DEFINE x == ev + hold
           m == n + 1
<1>1. x \in Int /\ m \in Int /\ n \in Int /\ x >= ev /\ m = n + 1 /\ ev \in Int /\ ev <= n
  OBVIOUS
<1> HIDE DEF x, m
<1>2. Min({x, n}) = IF x <= n THEN x ELSE n
  BY <1>1, MinOfTwo
<1>3. Min({x, m}) = IF x <= m THEN x ELSE m
  BY <1>1, MinOfTwo
<1> DEFINE a == Min({x, n})
           b == Min({x, m})
<1> HIDE DEF a, b
<1>4. a = (IF x <= n THEN x ELSE n) /\ b = (IF x <= m THEN x ELSE m)
  BY <1>2, <1>3 DEF a, b
<1>5. a \in ev..n /\ b \in ev..n+1
  BY <1>1, <1>4
<1>6. a < n => a = b
  BY <1>1, <1>4
<1>7. a <= b
  BY <1>1, <1>4
<1>8. \A k \in ev+1..b : k <= a \/ k > n
  BY <1>1, <1>4
<1>9. QED BY <1>5, <1>6, <1>7, <1>8 DEF a, b, x, m

\* FixedHorizonLabeler.
LEMMA HorizonStays ==
  ASSUME NEW f, NEW g, NEW n, Extends(f, g, n), NEW ev \in 1..n, NEW side, NEW p, p.horizon \in Nat,
         Settled(FixedHorizon(f, ev, side, p), f)
  PROVE  FixedHorizon(f, ev, side, p) = FixedHorizon(g, ev, side, p)
<1> DEFINE a == Min({ev + p.horizon, n})
           b == Min({ev + p.horizon, n + 1})
           l == FixedHorizon(f, ev, side, p)
<1>1. /\ n \in Nat /\ Len(f) = n /\ Len(g) = n + 1 /\ f[ev] = g[ev]
      /\ \A i \in 1..n : f[i] = g[i]
  BY DEF Extends
<1>2. a \in ev..n /\ (a < n => a = b)
  BY <1>1, HeldUntil
<1>3. l.exit_idx = a /\ "barrier_hit" \notin DOMAIN l
  BY <1>1 DEF FixedHorizon
<1>4. a < n
  <2> HIDE DEF a, l
  <2>1. Settled(l, f)
    BY DEF l
  <2>2. QED BY <1>1, <1>3, <2>1 DEF Settled
<1>5. a = b /\ f[a] = g[a]
  <2> HIDE DEF a, b
  <2>1. a \in 1..n
    BY <1>1, <1>2
  <2>2. QED BY <1>1, <1>2, <1>4, <2>1
<1> DEFINE R(fr, x) == [exit_idx |-> x, entry_price |-> fr[ev].close, exit_price |-> fr[x].close,
                        raw_return |-> side * (fr[x].close - fr[ev].close),
                        y_norm |-> side * (fr[x].close - fr[ev].close)]
<1>6. FixedHorizon(f, ev, side, p) = R(f, a) /\ FixedHorizon(g, ev, side, p) = R(g, b)
  BY <1>1 DEF FixedHorizon
<1>7. R(f, a) = R(g, b)
  <2> HIDE DEF a, b
  <2>1. QED BY <1>1, <1>5
<1> HIDE DEF R, a, b
<1>8. QED BY <1>6, <1>7

\* MeanReversionLabeler.
MeanHit(f, ev, j) == f[ev].ma # NaN /\ Period("ma") * f[j].close >= f[ev].ma
BandHit(f, ev, p, j) ==
  /\ f[ev].close_std # NaN
  /\ ReachesRoot(Period("ma") * (f[ev].close - f[j].close), p.num_std, f[ev].close_std)
RevertHits(f, ev, p, last) == {j \in ev+1 .. last : MeanHit(f, ev, j) \/ BandHit(f, ev, p, j)}
RevertRow(f, ev, j) == ExitAt(f, ev, j, 1, f[j].close, IF MeanHit(f, ev, j) THEN "upper" ELSE "lower")
RevertBand(f, ev, p) ==
  LET Fits(d) == ~ExceedsRoot(Period("ma") * d, p.num_std, f[ev].close_std)
  IN IF f[ev].close_std = NaN THEN NaN
     ELSE CHOOSE d \in 0..f[ev].close : Fits(d) /\ (Fits(d + 1) => d = f[ev].close)
Reverted(row, risk) ==
  row ++ [stop_distance |-> risk,
          r_multiple |-> IF risk \in {NaN, 0} THEN <<0, 1>> ELSE <<row.actual_return, risk>>]

LEMMA ReversionIs ==
  ASSUME NEW f, NEW ev, NEW p
  PROVE  LET last == Min({ev + p.max_hold, Len(f)})
             hits == RevertHits(f, ev, p, last)
             j == First(hits, last)
         IN MeanReversion(f, ev, p) =
              Reverted(IF hits = {} THEN ExitAt(f, ev, j, 1, f[j].close, "timeout")
                       ELSE RevertRow(f, ev, j), RevertBand(f, ev, p))
<1> DEFINE last == Min({ev + p.max_hold, Len(f)})
           hits == RevertHits(f, ev, p, last)
           j == First(hits, last)
           reason == IF hits = {} THEN "timeout" ELSE IF MeanHit(f, ev, j) THEN "upper" ELSE "lower"
<1>1. MeanReversion(f, ev, p) = Reverted(ExitAt(f, ev, j, 1, f[j].close, reason), RevertBand(f, ev, p))
  BY DEF MeanReversion, RevertHits, MeanHit, BandHit, RevertBand, Reverted
<1> HIDE DEF hits, j
<1>2. ExitAt(f, ev, j, 1, f[j].close, reason)
      = IF hits = {} THEN ExitAt(f, ev, j, 1, f[j].close, "timeout") ELSE RevertRow(f, ev, j)
  BY DEF RevertRow
<1> HIDE DEF reason
<1>3. QED BY <1>1, <1>2 DEF hits, j

LEMMA ReversionStays ==
  ASSUME NEW f, NEW g, NEW n, Extends(f, g, n), NEW ev \in 1..n, NEW p, p.max_hold \in Nat,
         Settled(MeanReversion(f, ev, p), f)
  PROVE  MeanReversion(f, ev, p) = MeanReversion(g, ev, p)
<1> DEFINE a == Min({ev + p.max_hold, n})
           b == Min({ev + p.max_hold, n + 1})
           A == RevertHits(f, ev, p, a)
           B == RevertHits(g, ev, p, b)
           j == First(A, a)
           k == First(B, b)
           risk == RevertBand(f, ev, p)
<1>1. /\ n \in Nat /\ ev \in Int /\ Len(f) = n /\ Len(g) = n + 1 /\ f[ev] = g[ev]
      /\ \A i \in 1..n : f[i] = g[i]
  BY DEF Extends
<1>2. /\ a \in ev..n /\ b \in ev..n+1 /\ (a < n => a = b) /\ a <= b
      /\ \A i \in ev+1..b : i <= a \/ i > n
  BY <1>1, HeldUntil
<1>3. MeanReversion(f, ev, p) =
        Reverted(IF A = {} THEN ExitAt(f, ev, j, 1, f[j].close, "timeout") ELSE RevertRow(f, ev, j), risk)
  BY <1>1, ReversionIs
<1>4. MeanReversion(g, ev, p) =
        Reverted(IF B = {} THEN ExitAt(g, ev, k, 1, g[k].close, "timeout") ELSE RevertRow(g, ev, k), risk)
  <2>1. RevertBand(g, ev, p) = risk
    BY <1>1 DEF RevertBand
  <2> HIDE DEF risk
  <2>2. QED BY <1>1, <2>1, ReversionIs
<1> HIDE DEF a, b, risk
<1>5. ASSUME NEW i \in 1..n
      PROVE  /\ MeanHit(f, ev, i) <=> MeanHit(g, ev, i)
             /\ BandHit(f, ev, p, i) <=> BandHit(g, ev, p, i)
             /\ RevertRow(f, ev, i) = RevertRow(g, ev, i)
  <2>1. f[i] = g[i] /\ f[ev] = g[ev]
    BY <1>1
  <2>2. MeanHit(f, ev, i) <=> MeanHit(g, ev, i)
    BY <2>1 DEF MeanHit
  <2>3. BandHit(f, ev, p, i) <=> BandHit(g, ev, p, i)
    BY <2>1 DEF BandHit
  <2>4. RevertRow(f, ev, i) = RevertRow(g, ev, i)
    BY <2>1, <2>2, SameExit DEF RevertRow
  <2>5. QED BY <2>2, <2>3, <2>4
<1>6. /\ \A i \in ev+1..a : i \in 1..n /\ i \in ev+1..b
      /\ \A i \in ev+1..b : i \in ev+1..a \/ i > n
      /\ ev+1..a \subseteq ev+1..n /\ ev+1..b \subseteq ev+1..n+1
      /\ a \in Int /\ b \in Int /\ a \in 1..n
  BY <1>1, <1>2
<1>7. Grows(A, B, ev, n)
  BY <1>5, <1>6 DEF RevertHits, Grows
<1>8. ASSUME A = {} PROVE MeanReversion(f, ev, p) = MeanReversion(g, ev, p)
  <2>1. j = a
    BY <1>8 DEF First
  <2> DEFINE row == ExitAt(f, ev, a, 1, f[a].close, "timeout")
  <2>2. MeanReversion(f, ev, p) = Reverted(row, risk)
    BY <1>3, <1>8, <2>1
  <2>3. row.exit_idx = a /\ row.barrier_hit = "timeout" /\ {"exit_idx", "barrier_hit"} \subseteq DOMAIN row
    BY ExitOf
  <2> HIDE DEF row
  <2>4. row.exit_idx < Len(f) \/ row.barrier_hit \notin {"timeout", "still_open"}
    BY <2>2, <2>3, SettledBeside DEF Reverted
  <2>5. a < n
    BY <1>1, <2>3, <2>4
  <2>6. a = b
    BY <1>2, <2>5
  <2>7. B = {}
    BY <1>5, <1>6, <1>8, <2>6 DEF RevertHits
  <2>8. k = a
    BY <2>6, <2>7 DEF First
  <2>9. f[a] = g[a]
    BY <1>1, <1>6
  <2>10. ExitAt(g, ev, a, 1, g[a].close, "timeout") = row
    BY <1>1, <2>9, SameExit DEF row
  <2> HIDE DEF B, k
  <2>11. QED BY <1>4, <2>2, <2>7, <2>8, <2>10
<1>9. ASSUME A # {} PROVE MeanReversion(f, ev, p) = MeanReversion(g, ev, p)
  <2> HIDE DEF A, B
  <2>1. j \in A /\ k = j
    BY <1>1, <1>6, <1>7, <1>9, FirstStays
  <2> HIDE DEF j, k
  <2>2. B # {} /\ j \in 1..n
    BY <1>1, <1>7, <2>1 DEF Grows
  <2>3. QED BY <1>3, <1>4, <1>5, <1>9, <2>1, <2>2
<1>10. QED BY <1>8, <1>9

\* A barrier once touched stays first touched where it was, and one that was not is first
\* touched by the new row if at all.
LEMMA TouchStays ==
  ASSUME NEW f, NEW g, NEW n, Extends(f, g, n), NEW ev \in 1..n,
         NEW p \in {Exits.triple, Exits.triple_atr}, NEW price, NEW s
  PROVE  LET t == First(Touches(f, ev, p, price, s), 0)
             u == First(Touches(g, ev, p, price, s), 0)
         IN /\ t \in Nat /\ u \in Nat /\ p.horizon \in Nat /\ u <= p.horizon
            /\ t # 0 => u = t /\ ev + t <= n
            /\ t = 0 => u = 0 \/ ev + u = n + 1
<1> DEFINE A == Touches(f, ev, p, price, s)
           B == Touches(g, ev, p, price, s)
           t == First(A, 0)
           u == First(B, 0)
<1>1. /\ n \in Nat /\ ev \in Int /\ Len(f) = n /\ Len(g) = n + 1
      /\ \A i \in 1..n : f[i] = g[i]
  BY DEF Extends
<1>2. /\ t \in Nat /\ p.horizon \in Nat /\ A \subseteq 1..p.horizon
      /\ A # {} => t \in A /\ \A k \in A : t <= k
      /\ A = {} => t = 0
  BY TouchFirst
<1>3. /\ u \in Nat /\ B \subseteq 1..p.horizon
      /\ B # {} => u \in B /\ \A k \in B : u <= k
      /\ B = {} => u = 0
  BY TouchFirst
<1>4. ASSUME NEW k \in 1..p.horizon
      PROVE  /\ k \in A => k \in B /\ ev + k <= n
             /\ k \in B => k \in A \/ ev + k = n + 1
  <2>1. k \in Int
    BY <1>2
  <2>2. k \in A <=> ev + k <= n /\ Reaches(f[ev+k], price, s)
    BY <1>1 DEF Touches
  <2>3. k \in B <=> ev + k <= n + 1 /\ Reaches(g[ev+k], price, s)
    BY <1>1 DEF Touches
  <2>4. ev + k <= n => f[ev+k] = g[ev+k]
    <3> DEFINE x == ev + k
    <3>1. x <= n => x \in 1..n
      BY <1>1, <2>1
    <3> HIDE DEF x
    <3>2. x <= n => f[x] = g[x]
      BY <1>1, <3>1
    <3>3. QED BY <3>2 DEF x
  <2> DEFINE x == ev + k
  <2>5. x \in Int /\ (x <= n => x <= n + 1) /\ (x <= n + 1 => x <= n \/ x = n + 1)
    BY <1>1, <2>1
  <2> HIDE DEF A, B
  <2>6. /\ k \in A <=> x <= n /\ Reaches(f[x], price, s)
        /\ k \in B <=> x <= n + 1 /\ Reaches(g[x], price, s)
        /\ x <= n => f[x] = g[x]
    BY <2>2, <2>3, <2>4
  <2> HIDE DEF x
  <2>7. /\ k \in A => k \in B /\ x <= n
        /\ k \in B => k \in A \/ x = n + 1
    BY <2>5, <2>6
  <2>8. QED BY <2>7 DEF x
<1> HIDE DEF A, B, t, u
<1>5. u <= p.horizon
  BY <1>2, <1>3
<1>6. t # 0 => t \in A /\ t \in B /\ ev + t <= n
  BY <1>2, <1>4
<1>7. t # 0 => u = t
  <2>1. SUFFICES ASSUME t # 0 PROVE u = t
    OBVIOUS
  <2>2. u \in B /\ u <= t
    BY <1>3, <1>6, <2>1
  <2>3. u \in A \/ ev + u = n + 1
    BY <1>3, <1>4, <2>2
  <2>4. ev + u # n + 1
    BY <1>1, <1>2, <1>3, <1>6, <2>1, <2>2
  <2>5. t <= u
    BY <1>2, <2>3, <2>4
  <2>6. QED BY <1>2, <1>3, <2>2, <2>5
<1>8. t = 0 => u = 0 \/ ev + u = n + 1
  <2>1. SUFFICES ASSUME t = 0, u # 0 PROVE ev + u = n + 1
    OBVIOUS
  <2>2. u \in B
    BY <1>3, <2>1
  <2>3. A = {}
    BY <1>2, <2>1
  <2>4. QED BY <1>3, <1>4, <2>2, <2>3
<1>9. QED BY <1>2, <1>3, <1>5, <1>6, <1>7, <1>8 DEF A, B, t, u

\* The same barrier, touched within the shorter frame, gives the same row.
LEMMA HitStays ==
  ASSUME NEW f, NEW g, NEW n, Extends(f, g, n), NEW ev \in 1..n, NEW side, NEW p,
         NEW hit, hit.offset \in Nat, ev + hit.offset <= n
  PROVE  Vectorised(f, ev, side, p, hit) = Vectorised(g, ev, side, p, hit)
<1> DEFINE k == hit.offset
           x == ev + k
           m == n + 1
<1>1. /\ n \in Nat /\ ev \in Int /\ Len(f) = n /\ Len(g) = m /\ f[ev] = g[ev]
      /\ \A i \in 1..n : f[i] = g[i]
  BY DEF Extends
<1>2. x \in Int /\ x <= n /\ x <= m /\ m \in Int /\ x \in 1..n /\ ~(k > n - ev) /\ ~(k > m - ev)
  BY <1>1
<1> HIDE DEF k, x, m
<1>3. Min({x, n}) = x /\ Min({x, m}) = x
  <2>1. Min({x, n}) = IF x <= n THEN x ELSE n
    BY <1>1, <1>2, MinOfTwo
  <2>2. Min({x, m}) = IF x <= m THEN x ELSE m
    BY <1>1, <1>2, MinOfTwo
  <2>3. QED BY <1>2, <2>1, <2>2
<1>4. LeftAt(f, ev, x, side, p) = LeftAt(g, ev, x, side, p)
  BY <1>1, <1>2 DEF LeftAt
<1> DEFINE known == [label |-> hit.label, barrier_hit |-> hit.barrier_hit, truncated |-> FALSE]
           Told(cut) == [label |-> hit.label, barrier_hit |-> hit.barrier_hit, truncated |-> cut]
<1>8. (k > n - ev) = FALSE /\ (k > m - ev) = FALSE
  BY <1>2
<1>9. Told(k > n - ev) = known /\ Told(k > m - ev) = known
  BY <1>8
<1>5. Vectorised(f, ev, side, p, hit) = known ++ LeftAt(f, ev, Min({x, n}), side, p)
  <2>1. Vectorised(f, ev, side, p, hit) = Told(k > n - ev) ++ LeftAt(f, ev, Min({x, n}), side, p)
    BY <1>1 DEF Vectorised, k, x
  <2> HIDE DEF Told, known
  <2>2. QED BY <1>9, <2>1
<1>6. Vectorised(g, ev, side, p, hit) = known ++ LeftAt(g, ev, Min({x, m}), side, p)
  <2>1. Vectorised(g, ev, side, p, hit) = Told(k > m - ev) ++ LeftAt(g, ev, Min({x, m}), side, p)
    BY <1>1 DEF Vectorised, k, x
  <2> HIDE DEF Told, known
  <2>2. QED BY <1>9, <2>1
<1> HIDE DEF known
<1>7. QED BY <1>3, <1>4, <1>5, <1>6

LEMMA VectorisedOf ==
  ASSUME NEW f, NEW ev, NEW side, NEW p, NEW hit
  PROVE  LET l == Vectorised(f, ev, side, p, hit)
         IN /\ l.exit_idx = Min({ev + hit.offset, Len(f)}) /\ l.barrier_hit = hit.barrier_hit
            /\ {"exit_idx", "barrier_hit"} \subseteq DOMAIN l
<1> DEFINE known == [label |-> hit.label, barrier_hit |-> hit.barrier_hit,
                     truncated |-> hit.offset > Len(f) - ev]
           l == known ++ LeftAt(f, ev, Min({ev + hit.offset, Len(f)}), side, p)
<1>1. Vectorised(f, ev, side, p, hit) = l
  BY DEF Vectorised
<1>2. "barrier_hit" \in DOMAIN known /\ known.barrier_hit = hit.barrier_hit
  OBVIOUS
<1> HIDE DEF known
<1>3. l.barrier_hit = hit.barrier_hit /\ "barrier_hit" \in DOMAIN l
  BY <1>2 DEF ++
<1> HIDE DEF l
<1>4. /\ DOMAIN l = TripleColumns
      /\ l.exit_idx = Min({ev + hit.offset, Len(f)})
  BY <1>1, TripleNamed
<1>5. QED BY <1>1, <1>3, <1>4 DEF TripleColumns

LEMMA TripleStays ==
  ASSUME NEW f, NEW g, NEW n, Extends(f, g, n), NEW ev \in 1..n, NEW side,
         NEW p \in {Exits.triple, Exits.triple_atr},
         Settled(TripleBarrierLabel(f, ev, side, p), f)
  PROVE  TripleBarrierLabel(f, ev, side, p) = TripleBarrierLabel(g, ev, side, p)
<1> DEFINE b == Barriers(f, ev, side, p, TRUE)
           tp == b.tp
           sl == b.sl
           opposite == -side
           h == p.horizon
           up == First(Touches(f, ev, p, tp, side), 0)
           dn == First(Touches(f, ev, p, sl, opposite), 0)
           up2 == First(Touches(g, ev, p, tp, side), 0)
           dn2 == First(Touches(g, ev, p, sl, opposite), 0)
           hit == FirstTouched(up, dn, h)
           hit2 == FirstTouched(up2, dn2, h)
           row == Vectorised(f, ev, side, p, hit)
<1>1. n \in Nat /\ ev \in Int /\ ev <= n /\ Len(f) = n /\ Len(g) = n + 1 /\ f[ev] = g[ev]
  BY DEF Extends
<1>2. Barriers(g, ev, side, p, TRUE) = b
  BY <1>1 DEF Barriers, AtrBarriers
<1>3. TripleBarrier(f, ev, side, p) = row
  BY TripleIs DEF TouchHit
<1>4. TripleBarrier(g, ev, side, p) = Vectorised(g, ev, side, p, hit2)
  <2> HIDE DEF b
  <2>1. QED BY <1>2, TripleIs DEF TouchHit
<1> HIDE DEF tp, sl, opposite
<1>5. /\ up \in Nat /\ up2 \in Nat /\ h \in Nat /\ up2 <= h
      /\ up # 0 => up2 = up /\ ev + up <= n
      /\ up = 0 => up2 = 0 \/ ev + up2 = n + 1
  BY TouchStays
<1>6. /\ dn \in Nat /\ dn2 \in Nat /\ dn2 <= h
      /\ dn # 0 => dn2 = dn /\ ev + dn <= n
      /\ dn = 0 => dn2 = 0 \/ ev + dn2 = n + 1
  BY TouchStays
<1> HIDE DEF up, dn, up2, dn2, h
<1>7. row.exit_idx < n \/ row.barrier_hit \notin {"timeout", "still_open"}
  <2>1. PICK m : TripleBarrierLabel(f, ev, side, p) = row ++ m
    BY <1>3 DEF TripleBarrierLabel
  <2>2. {"exit_idx", "barrier_hit"} \subseteq DOMAIN row
    BY VectorisedOf
  <2> HIDE DEF row
  <2>3. QED BY <1>1, <2>1, <2>2, SettledBeside
<1>8. row.exit_idx = Min({ev + hit.offset, n}) /\ row.barrier_hit = hit.barrier_hit
  BY <1>1, VectorisedOf
<1> HIDE DEF row
<1>9. hit = hit2 /\ hit.offset \in Nat /\ ev + hit.offset <= n
  <2>1. CASE dn # 0 /\ (up = 0 \/ dn <= up)
    <3>1. dn2 # 0 /\ dn2 = dn /\ (up2 = 0 \/ dn2 <= up2)
      BY <1>1, <1>5, <1>6, <2>1
    <3>2. hit = [label |-> -1, barrier_hit |-> "lower", offset |-> dn]
      BY <1>5, <1>6, <2>1 DEF FirstTouched
    <3>3. hit2 = [label |-> -1, barrier_hit |-> "lower", offset |-> dn2]
      BY <1>5, <1>6, <3>1 DEF FirstTouched
    <3>4. QED BY <1>6, <2>1, <3>1, <3>2, <3>3
  <2>2. CASE up # 0 /\ (dn = 0 \/ up < dn)
    <3>1. up2 # 0 /\ up2 = up /\ (dn2 = 0 \/ up2 < dn2)
      BY <1>1, <1>5, <1>6, <2>2
    <3>2. hit = [label |-> 1, barrier_hit |-> "upper", offset |-> up]
      BY <1>5, <1>6, <2>2 DEF FirstTouched
    <3>3. hit2 = [label |-> 1, barrier_hit |-> "upper", offset |-> up2]
      BY <1>5, <1>6, <3>1 DEF FirstTouched
    <3>4. QED BY <1>5, <2>2, <3>1, <3>2, <3>3
  <2>3. CASE dn = 0 /\ up = 0
    <3>1. hit = [label |-> 0, barrier_hit |-> "timeout", offset |-> h]
      BY <2>3 DEF FirstTouched
    <3>2. Min({ev + h, n}) < n
      BY <1>7, <1>8, <3>1
    <3>3. ev + h < n
      <4> DEFINE x == ev + h
      <4>1. x \in Int /\ n \in Int
        BY <1>1, <1>5
      <4> HIDE DEF x
      <4>2. Min({x, n}) = IF x <= n THEN x ELSE n
        BY <4>1, MinOfTwo
      <4>3. Min({x, n}) < n
        BY <3>2 DEF x
      <4>4. x < n
        BY <4>1, <4>2, <4>3
      <4>5. QED BY <4>4 DEF x
    <3>4. up2 = 0 /\ dn2 = 0
      BY <1>1, <1>5, <1>6, <2>3, <3>3
    <3>5. hit2 = hit
      BY <2>3, <3>4
    <3>6. QED BY <1>1, <1>5, <3>1, <3>3, <3>5
  <2>4. QED BY <1>5, <1>6, <2>1, <2>2, <2>3
<1>10. Vectorised(f, ev, side, p, hit) = Vectorised(g, ev, side, p, hit)
  <2> HIDE DEF hit
  <2>1. QED BY <1>9, HitStays
<1>11. TripleBarrier(f, ev, side, p) = TripleBarrier(g, ev, side, p)
  <2> HIDE DEF hit, hit2
  <2>1. QED BY <1>3, <1>4, <1>9, <1>10 DEF row
<1>12. QED BY <1>1, <1>11 DEF TripleBarrierLabel

LEMMA LabelStays ==
  ASSUME NEW f, NEW g, NEW n, Extends(f, g, n), NEW ev \in 1..n, NEW side, NEW labeler \in LabelerNames,
         Settled(Label(labeler, f, ev, side), f)
  PROVE  Label(labeler, f, ev, side) = Label(labeler, g, ev, side)
<1>1. CASE labeler \in {"triple", "triple_atr"}
  <2>1. PICK p \in {Exits.triple, Exits.triple_atr} :
          \A frame : Label(labeler, frame, ev, side) = TripleBarrierLabel(frame, ev, side, p)
    <3>1. CASE labeler = "triple"
      BY <3>1 DEF Label
    <3>2. CASE labeler = "triple_atr"
      BY <3>2 DEF Label
    <3>3. QED BY <1>1, <3>1, <3>2
  <2>2. Settled(TripleBarrierLabel(f, ev, side, p), f)
    BY <2>1
  <2>3. QED BY <2>1, <2>2, TripleStays
<1>2. CASE labeler = "turtle"
  <2>1. \A frame : Label(labeler, frame, ev, side) = TurtleExit(frame, ev, side, Exits.turtle)
    BY <1>2 DEF Label
  <2>2. Settled(TurtleExit(f, ev, side, Exits.turtle), f)
    BY <2>1
  <2>3. QED BY <2>1, <2>2, TurtleStays
<1>3. CASE labeler = "trailing"
  <2>1. \A frame : Label(labeler, frame, ev, side) = TrailingStopExit(frame, ev, side)
    BY <1>3 DEF Label
  <2>2. Settled(TrailingStopExit(f, ev, side), f)
    BY <2>1
  <2>3. QED BY <2>1, <2>2, TrailingStays
<1>4. CASE labeler = "reversion"
  <2>1. \A frame : Label(labeler, frame, ev, side) = MeanReversion(frame, ev, Exits.reversion)
    BY <1>4 DEF Label
  <2>2. Settled(MeanReversion(f, ev, Exits.reversion), f) /\ Exits.reversion.max_hold \in Nat
    BY <2>1, ExitsAssumption
  <2>3. QED BY <2>1, <2>2, ReversionStays
<1>5. CASE labeler = "horizon"
  <2>1. \A frame : Label(labeler, frame, ev, side) = FixedHorizon(frame, ev, side, Exits.horizon)
    BY <1>5 DEF Label
  <2>2. Settled(FixedHorizon(f, ev, side, Exits.horizon), f) /\ Exits.horizon.horizon \in Nat
    BY <2>1, ExitsAssumption
  <2>3. QED BY <2>1, <2>2, HorizonStays
<1>6. QED BY <1>1, <1>2, <1>3, <1>4, <1>5 DEF LabelerNames

LEMMA LabelsStay ==
  ASSUME StudyInv, StreamInv, [StudyNext]_studyVars
  PROVE  [phase' = "reading" =>
            \A l \in LabelerNames, i \in DOMAIN ind, side \in {1, -1} :
              LET label == Label(l, ind, i, side)
              IN Settled(label, ind) => label = Label(l, ind', i, side)]_ind
<1> SUFFICES ASSUME ind' # ind, NEW l \in LabelerNames, NEW i \in DOMAIN ind, NEW side \in {1, -1},
                    Settled(Label(l, ind, i, side), ind)
             PROVE  Label(l, ind, i, side) = Label(l, ind', i, side)
  OBVIOUS
<1> DEFINE n == Len(ind)
<1>1. PICK bar \in Bars : NewBar(bar)
  BY DEF StudyNext, studyVars, Start, ReplayBar
<1>2. /\ Sequence(ind) /\ Indicated(ind, n) /\ n \in Nat /\ DOMAIN ind = 1..n /\ Stands(ind)
  BY SequenceShape DEF StudyInv, ReadInv, StreamInv
<1>3. IsBar(bar) /\ ind' = AddIndicators(Append(ind, bar))
  BY <1>1, BarsAssumption DEF NewBar
<1>4. Len(ind') = n + 1 /\ \A k \in 1..n : ind'[k] = ind[k]
  BY <1>2, <1>3, FrameGrows, RowsStay
<1>5. Extends(ind, ind', n)
  BY <1>2, <1>4 DEF Extends
<1>6. i \in 1..n
  BY <1>2
<1> HIDE DEF n
<1>7. QED BY <1>5, <1>6, LabelStays

(***************************************************************************)
(* No lookahead in the labels: once the frame contains the exit of a trade *)
(* its label is the same however the market goes on, for every labeler, so *)
(* a data set only ever changes at the events whose trades are still open  *)
(* (src/research/labeling.py:503-863).                                     *)
(***************************************************************************)
THEOREM LabelsAreFinal == StudySpec => SettledLabelsAreFinal
<1>1. StudyInv /\ StreamInv /\ [StudyNext]_studyVars =>
        [phase' = "reading" =>
           \A l \in LabelerNames, i \in DOMAIN ind, side \in {1, -1} :
             LET label == Label(l, ind, i, side)
             IN Settled(label, ind) => label = Label(l, ind', i, side)]_ind
  BY LabelsStay
<1>2. QED BY <1>1, StreamInvariant, PTL DEF StudySpec, SettledLabelsAreFinal

-----------------------------------------------------------------------------
(* The signals of a growing frame.                                         *)

\* What holds of 0 and passes on to the next number holds up to n.
LEMMA UpTo ==
  ASSUME NEW n \in Nat, NEW D, 0 \in D, \A d \in 0..n : d < n /\ d \in D => d + 1 \in D
  PROVE  \A d \in 0..n : d \in D
<1> DEFINE T == {d \in 0..n : d \notin D}
<1>1. SUFFICES ASSUME T # {} PROVE FALSE
  OBVIOUS
<1>2. T \subseteq Nat
  OBVIOUS
<1>3. PICK d \in T : \A e \in T : d <= e
  <2> HIDE DEF T
  <2>1. QED BY <1>1, <1>2, LeastNat
<1>4. d \in 0..n /\ d \notin D /\ d # 0
  OBVIOUS
<1>5. d - 1 \in 0..n /\ d - 1 < n /\ (d - 1) + 1 = d /\ ~(d <= d - 1)
  BY <1>4
<1>6. d - 1 \in D
  BY <1>3, <1>5
<1>7. QED BY <1>4, <1>5, <1>6

\* Rows that are filled from the next known one stay, once the last row is known.
Fills(s, t, K, L, n) ==
  /\ n \in Nat /\ DOMAIN s = 1..n /\ DOMAIN t = 1..n+1 /\ \A i \in 1..n : s[i] = t[i]
  /\ K \subseteq 1..n /\ L \subseteq 1..n+1 /\ n \in K /\ \A i \in 1..n : i \in K <=> i \in L

LEMMA FillStays ==
  ASSUME NEW n, NEW s, NEW t, NEW K, NEW L, Fills(s, t, K, L, n), NEW i \in 1..n
  PROVE  FillFrom(K, s)[i] = FillFrom(L, t)[i]
<1> DEFINE A == {j \in K : j >= i}
           B == {j \in L : j >= i}
           J == 1..n
           m == Min(A)
<1>0. /\ n \in Nat /\ DOMAIN s = 1..n /\ DOMAIN t = 1..n+1 /\ \A k \in 1..n : s[k] = t[k]
      /\ K \subseteq 1..n /\ L \subseteq 1..n+1 /\ n \in K /\ \A k \in 1..n : k \in K <=> k \in L
  BY DEF Fills
<1>1. n \in A /\ A \subseteq Int /\ A \subseteq J /\ B \subseteq Int /\ B \subseteq 1..n+1
  <2>1. n \in Int /\ i \in Int /\ n >= i
    BY <1>0
  <2>2. \A k \in 1..n+1 : k \in Int
    BY <1>0
  <2>3. \A k \in 1..n : k \in Int
    BY <1>0
  <2>4. QED BY <1>0, <2>1, <2>2, <2>3
<1>2. IsFiniteSet(A)
  <2> HIDE DEF A
  <2>1. IsFiniteSet(J)
    BY <1>0, FS_Interval
  <2> HIDE DEF J
  <2>2. QED BY <1>1, <2>1, FS_Subset
<1> HIDE DEF m
<1>3. m \in A /\ \A y \in A : m <= y
  <2> HIDE DEF A, J
  <2>1. QED BY <1>1, <1>2, MinOfFinite DEF m
<1>4. m \in B
  BY <1>0, <1>1, <1>3
<1>5. \A y \in B : m <= y
  <2>1. TAKE y \in B
  <2>2. CASE y \in 1..n
    BY <1>0, <1>3, <2>2
  <2>3. CASE y \notin 1..n
    <3>1. y \in 1..n+1 /\ m \in 1..n
      BY <1>1, <1>3
    <3>2. QED BY <1>0, <2>3, <3>1
  <2>4. QED BY <2>2, <2>3
<1> HIDE DEF A, B
<1>6. Min(B) = m
  BY <1>1, <1>4, <1>5, MinIs
<1>7. FillFrom(K, s)[i] = s[m]
  <2>1. FillFrom(K, s)[i] = IF A = {} THEN NaN ELSE s[Min(A)]
    BY <1>0 DEF FillFrom, A
  <2>2. QED BY <1>3, <2>1 DEF m
<1>8. FillFrom(L, t)[i] = t[m]
  <2>1. FillFrom(L, t)[i] = IF B = {} THEN NaN ELSE t[Min(B)]
    <3>1. i \in DOMAIN t
      BY <1>0
    <3>2. QED BY <3>1 DEF FillFrom, B
  <2>2. QED BY <1>4, <1>6, <2>1
<1>9. m \in 1..n
  BY <1>1, <1>3
<1>10. QED BY <1>0, <1>7, <1>8, <1>9

\* A frame and the one a bar later, both with their bars typed.
Longer(f, g, n) == Extends(f, g, n) /\ Frame(f, n) /\ Frame(g, n + 1)

LEMMA LongerRows ==
  ASSUME NEW f, NEW g, NEW n, Longer(f, g, n)
  PROVE  /\ n \in Nat /\ DOMAIN f = 1..n /\ DOMAIN g = 1..n+1 /\ Len(f) = n /\ Len(g) = n + 1
         /\ 1..n \subseteq 1..n+1
         /\ \A i \in 1..n : f[i] = g[i] /\ SameBars(f, g, i)
<1>1. n \in Nat /\ DOMAIN f = 1..n /\ DOMAIN g = 1..n+1 /\ Len(f) = n /\ Len(g) = n + 1
  BY DEF Longer, Extends, Frame
<1>2. \A i \in 1..n : f[i] = g[i]
  BY DEF Longer, Extends
<1>3. 1..n \subseteq 1..n+1
  BY <1>1
<1>4. ASSUME NEW i \in 1..n PROVE SameBars(f, g, i)
  <2>1. \A k \in 1..i : k \in 1..n
    BY <1>1
  <2>2. QED BY <1>2, <2>1 DEF SameBars
<1>5. QED BY <1>1, <1>2, <1>3, <1>4

LEMMA ColumnStays ==
  ASSUME NEW f, NEW g, NEW n, Longer(f, g, n), NEW name \in Names, NEW i \in 1..n
  PROVE  Column(f, name)[i] = Column(g, name)[i]
<1>1. i \in DOMAIN f /\ i \in DOMAIN g /\ i \in 1..n+1 /\ SameBars(f, g, i)
  BY LongerRows
<1>2. ColumnAt(f, name, i) = ColumnAt(g, name, i)
  <2> DEFINE m == n + 1
  <2>1. Frame(f, n) /\ Frame(g, m)
    BY DEF Longer
  <2>2. i \in 1..m
    BY <1>1
  <2> HIDE DEF m
  <2>3. QED BY <1>1, <2>1, <2>2, ColumnSame
<1>3. QED BY <1>1, <1>2 DEF Column

\* A series of the rows, and a window over one, up to row n.
LEMMA FieldStays ==
  ASSUME NEW f, NEW g, NEW n, Longer(f, g, n), NEW name, NEW i \in 1..n
  PROVE  \A k \in 1..i : Field(f, name)[k] = Field(g, name)[k]
<1>1. \A k \in 1..i : k \in 1..n
  BY LongerRows
<1>2. \A k \in 1..n : k \in DOMAIN f /\ k \in DOMAIN g /\ f[k] = g[k]
  BY LongerRows
<1>3. QED BY <1>1, <1>2 DEF Field

LEMMA FlowStays ==
  ASSUME NEW f, NEW g, NEW n, Longer(f, g, n), NEW name, NEW op, NEW period \in Nat \ {0}, NEW i \in 1..n
  PROVE  Rolling(Field(f, name), op, period, i) = Rolling(Field(g, name), op, period, i)
<1>1. \A k \in 1..i : Field(f, name)[k] = Field(g, name)[k]
  BY FieldStays
<1>2. i \in Int
  BY LongerRows
<1> DEFINE s == Field(f, name)
           t == Field(g, name)
<1> HIDE DEF s, t
<1>3. \A k \in 1..i : s[k] = t[k]
  BY <1>1 DEF s, t
<1>4. Rolling(s, op, period, i) = Rolling(t, op, period, i)
  BY <1>2, <1>3, RollingSame
<1>5. QED BY <1>4 DEF s, t

LEMMA SeriesStays ==
  ASSUME NEW n \in Nat, NEW s, NEW t, DOMAIN s = 1..n, DOMAIN t = 1..n+1,
         \A i \in 1..n : s[i] = t[i], NEW op, NEW period \in Nat \ {0}, NEW i \in 1..n
  PROVE  RollingSeries(s, op, period)[i] = RollingSeries(t, op, period)[i]
<1>1. i \in Int /\ i \in DOMAIN s /\ i \in DOMAIN t /\ \A k \in 1..i : s[k] = t[k]
  OBVIOUS
<1>2. Rolling(s, op, period, i) = Rolling(t, op, period, i)
  BY <1>1, RollingSame
<1>3. QED BY <1>1, <1>2 DEF RollingSeries

LEMMA FullWindow ==
  ASSUME NEW s, NEW op \in Ops, NEW period \in Nat \ {0}, NEW i \in Int, i >= period,
         \A k \in (i - period + 1)..i : s[k] \in Int
  PROVE  LET w == [k \in 1..period |-> s[i - period + k]]
         IN w \in [1..period -> Int] /\ Rolling(s, op, period, i) = Aggregate(op, period, w)
<1> DEFINE w == [k \in 1..period |-> s[i - period + k]]
<1>1. \A k \in 1..period : i - period + k \in (i - period + 1)..i
  OBVIOUS
<1>2. w \in [1..period -> Int]
  BY <1>1
<1> HIDE DEF w
<1>3. NaN \notin ToSet(w)
  BY <1>2, WindowValues, NaNAssumption
<1>4. Rolling(s, op, period, i) = IF i < period THEN NaN ELSE IF NaN \in ToSet(w) THEN NaN ELSE Aggregate(op, period, w)
  BY DEF Rolling, w
<1>5. QED BY <1>2, <1>3, <1>4 DEF w

\* The triggers' ATR.
LEMMA AtrStays ==
  ASSUME NEW f, NEW g, NEW n, Longer(f, g, n), NEW period \in Nat \ {0}, n > period, NEW i \in 1..n
  PROVE  Atr(f, period)[i] = Atr(g, period)[i]
<1> DEFINE s == TrueRange(f)
           t == TrueRange(g)
           S == RollingSeries(s, "mean", period)
           T == RollingSeries(t, "mean", period)
           K == {j \in 1..n : S[j] # NaN}
           L == {j \in 1..n+1 : T[j] # NaN}
<1>1. /\ n \in Nat /\ DOMAIN f = 1..n /\ DOMAIN g = 1..n+1 /\ 1..n \subseteq 1..n+1
      /\ Frame(f, n)
  BY LongerRows DEF Longer
<1>2. DOMAIN s = 1..n /\ DOMAIN t = 1..n+1
  BY <1>1 DEF TrueRange, InputSeries
<1>3. \A k \in 1..n : s[k] = IF k = 1 THEN NaN ELSE InputAt(f, "true_range", k)
  BY <1>1 DEF TrueRange, InputSeries
<1>4. \A k \in 1..n : t[k] = IF k = 1 THEN NaN ELSE InputAt(g, "true_range", k)
  BY <1>1 DEF TrueRange, InputSeries
<1>5. \A k \in 1..n : s[k] = t[k]
  <2>1. ASSUME NEW k \in 1..n PROVE InputAt(f, "true_range", k) = InputAt(g, "true_range", k)
    <3>1. SameBars(f, g, k) /\ k \in Nat \ {0} /\ "true_range" \in Inputs
      BY <1>1, LongerRows DEF Inputs
    <3>2. QED BY <3>1, InputSame
  <2>2. QED BY <1>3, <1>4, <2>1
<1>6. \A k \in 2..n : s[k] \in Int
  <2>1. ASSUME NEW k \in 2..n PROVE s[k] \in Int
    <3>1. k \in 1..n /\ k # 1
      BY <1>1
    <3>2. InputAt(f, "true_range", k) \in Int
      BY <1>1, <3>1, TrueRangeNotNegative
    <3>3. QED BY <1>3, <3>1, <3>2
  <2>2. QED BY <2>1
<1> HIDE DEF s, t
<1>7. DOMAIN S = 1..n /\ DOMAIN T = 1..n+1
  BY <1>2 DEF RollingSeries
<1>8. \A k \in 1..n : S[k] = T[k]
  BY <1>1, <1>2, <1>5, SeriesStays
<1>9. S[n] \in Int
  <2>1. n \in Int /\ n >= period /\ n \in 1..n /\ \A k \in (n - period + 1)..n : k \in 2..n
    BY <1>1
  <2> DEFINE w == [k \in 1..period |-> s[n - period + k]]
  <2>2. w \in [1..period -> Int] /\ Rolling(s, "mean", period, n) = Aggregate("mean", period, w)
    BY <1>6, <2>1, FullWindow DEF Ops
  <2> HIDE DEF w
  <2>3. Aggregate("mean", period, w) \in Int
    BY <2>2, AggregateInt DEF Ops
  <2>4. S[n] = Rolling(s, "mean", period, n)
    BY <1>2, <2>1 DEF RollingSeries
  <2>5. QED BY <2>2, <2>3, <2>4
<1>10. Atr(f, period) = FillFrom(K, S) /\ Atr(g, period) = FillFrom(L, T)
  <2>1. Atr(f, period) = BackFill(S) /\ Atr(g, period) = BackFill(T)
    BY DEF Atr, s, t
  <2> HIDE DEF S, T
  <2>2. QED BY <1>7, <2>1 DEF BackFill
<1> HIDE DEF S, T
<1>11. Fills(S, T, K, L, n)
  <2>1. n \in 1..n
    BY <1>1
  <2>2. QED BY <1>1, <1>7, <1>8, <1>9, <2>1, NaNAssumption DEF Fills
<1> HIDE DEF K, L
<1>12. FillFrom(K, S)[i] = FillFrom(L, T)[i]
  BY <1>11, FillStays
<1>13. QED BY <1>10, <1>12

\* The cooldown's recursion, over the rows up to n.
KeptNext(s, c, i, last) == IF s[i] # 0 /\ i - last >= c THEN i ELSE last
Keeps(s, c, n, g) == g = [i \in 0..n |-> IF i = 0 THEN -c ELSE KeptNext(s, c, i, g[i-1])]
LastKept(s, c) == CHOOSE g : Keeps(s, c, Len(s), g)

LEMMA CooldownIs ==
  ASSUME NEW s, NEW c
  PROVE  Cooldown(s, c) = [i \in DOMAIN s |-> IF LastKept(s, c)[i] = i THEN s[i] ELSE 0]
BY DEF Cooldown, LastKept, Keeps, KeptNext

LEMMA KeptAt ==
  ASSUME NEW n \in Nat, NEW s, NEW c, NEW g, Keeps(s, c, n, g)
  PROVE  g[0] = -c /\ \A i \in 1..n : g[i] = KeptNext(s, c, i, g[i-1])
<1> DEFINE G == [i \in 0..n |-> IF i = 0 THEN -c ELSE KeptNext(s, c, i, g[i-1])]
<1>1. G[0] = -c /\ \A i \in 1..n : G[i] = KeptNext(s, c, i, g[i-1])
  OBVIOUS
<1>2. g = G
  BY DEF Keeps
<1> HIDE DEF G
<1>3. QED BY <1>1, <1>2

LEMMA KeptExists ==
  ASSUME NEW n \in Nat, NEW s, NEW c
  PROVE  \E g : Keeps(s, c, n, g)
<1> DEFINE D == {d \in 0..n : \E g : Keeps(s, c, d, g)}
<1>1. 0 \in D
  <2> DEFINE g == [i \in 0..0 |-> -c]
  <2>1. g = [i \in 0..0 |-> IF i = 0 THEN -c ELSE KeptNext(s, c, i, g[i-1])]
    OBVIOUS
  <2>2. Keeps(s, c, 0, g)
    BY <2>1 DEF Keeps
  <2>3. QED BY <2>2
<1>2. ASSUME NEW d \in 0..n, d < n, d \in D PROVE d + 1 \in D
  <2> DEFINE e == d + 1
  <2>1. PICK g : Keeps(s, c, d, g)
    BY <1>2
  <2>2. d \in Nat /\ g[0] = -c /\ \A i \in 1..d : g[i] = KeptNext(s, c, i, g[i-1])
    BY <2>1, KeptAt
  <2> DEFINE h == [i \in 0..e |-> IF i <= d THEN g[i] ELSE KeptNext(s, c, i, g[d])]
  <2>3. ASSUME NEW i \in 0..e PROVE h[i] = IF i = 0 THEN -c ELSE KeptNext(s, c, i, h[i-1])
    <3>1. CASE i = 0
      BY <2>2, <3>1
    <3>2. CASE i # 0 /\ i <= d
      <4>1. i \in 1..d /\ i - 1 \in 0..e /\ i - 1 <= d
        BY <2>2, <3>2
      <4>2. h[i] = g[i] /\ h[i-1] = g[i-1]
        BY <3>2, <4>1
      <4> HIDE DEF h
      <4>3. QED BY <2>2, <3>2, <4>1, <4>2
    <3>3. CASE ~(i <= d)
      <4>1. i - 1 = d /\ d \in 0..e /\ i # 0
        BY <2>2, <3>3
      <4>2. h[d] = g[d] /\ h[i] = KeptNext(s, c, i, g[d])
        BY <2>2, <3>3, <4>1
      <4> HIDE DEF h
      <4>3. QED BY <4>1, <4>2
    <3>4. QED BY <3>1, <3>2, <3>3
  <2>4. h = [i \in 0..e |-> h[i]]
    OBVIOUS
  <2> HIDE DEF h, e
  <2>5. h = [i \in 0..e |-> IF i = 0 THEN -c ELSE KeptNext(s, c, i, h[i-1])]
    BY <2>3, <2>4
  <2>6. Keeps(s, c, e, h)
    BY <2>5 DEF Keeps
  <2>7. e \in 0..n
    BY <1>2 DEF e
  <2>8. QED BY <2>6, <2>7 DEF e
<1>3. n \in D
  <2> HIDE DEF D
  <2>1. n \in 0..n
    OBVIOUS
  <2>2. QED BY <1>1, <1>2, <2>1, UpTo
<1>4. QED BY <1>3

\* A row that is cleared stays cleared.
LEMMA CooldownStays ==
  ASSUME NEW n \in Nat, NEW s, NEW t, DOMAIN s = 1..n, DOMAIN t = 1..n+1, Len(s) = n, Len(t) = n + 1,
         \A i \in 1..n : s[i] = t[i], NEW c, NEW i \in 1..n
  PROVE  Cooldown(s, c)[i] = Cooldown(t, c)[i]
<1> DEFINE g == LastKept(s, c)
           h == LastKept(t, c)
           m == n + 1
<1>1. m \in Nat /\ Len(t) = m /\ i \in DOMAIN s /\ i \in DOMAIN t /\ \A k \in 1..n : k \in 1..m
  OBVIOUS
<1> HIDE DEF m
<1>2. Keeps(s, c, n, g)
  BY KeptExists DEF LastKept
<1>3. Keeps(t, c, m, h)
  BY <1>1, KeptExists DEF LastKept
<1> HIDE DEF g, h
<1>4. g[0] = -c /\ \A k \in 1..n : g[k] = KeptNext(s, c, k, g[k-1])
  BY <1>2, KeptAt
<1>5. h[0] = -c /\ \A k \in 1..m : h[k] = KeptNext(t, c, k, h[k-1])
  BY <1>1, <1>3, KeptAt
<1> DEFINE D == {d \in 0..n : g[d] = h[d]}
<1>6. 0 \in D
  BY <1>4, <1>5
<1>7. ASSUME NEW d \in 0..n, d < n, d \in D PROVE d + 1 \in D
  <2> DEFINE e == d + 1
  <2>1. e \in 1..n /\ e - 1 = d /\ e \in 0..n
    BY <1>7
  <2>2. g[d] = h[d]
    BY <1>7
  <2> HIDE DEF e
  <2>3. g[e] = KeptNext(s, c, e, g[d]) /\ h[e] = KeptNext(t, c, e, h[d])
    BY <1>1, <1>4, <1>5, <2>1
  <2>4. KeptNext(s, c, e, g[d]) = KeptNext(t, c, e, h[d])
    BY <2>1, <2>2 DEF KeptNext
  <2>5. e \in D
    BY <2>1, <2>3, <2>4
  <2> HIDE DEF D
  <2>6. QED BY <2>5 DEF e
<1>8. i \in D
  <2> HIDE DEF D
  <2>1. i \in 0..n
    OBVIOUS
  <2>2. QED BY <1>6, <1>7, <2>1, UpTo
<1>9. g[i] = h[i]
  BY <1>8
<1>10. Cooldown(s, c)[i] = (IF g[i] = i THEN s[i] ELSE 0) /\ Cooldown(t, c)[i] = (IF h[i] = i THEN t[i] ELSE 0)
  BY <1>1, CooldownIs DEF g, h
<1>11. QED BY <1>9, <1>10

LEMMA RegimeStays ==
  ASSUME NEW n \in Nat, NEW s, NEW t, \A k \in 1..n : s[k] = t[k], NEW p,
         p.regime_filter => p.regime_window \in Nat \ {0}, NEW i \in 1..n
  PROVE  RegimeOk(s, p, i) <=> RegimeOk(t, p, i)
<1> DEFINE r == p.regime_window
           v == [k \in 1..r |-> s[i - r + k]]
           w == [k \in 1..r |-> t[i - r + k]]
<1>1. ASSUME p.regime_filter, i >= r PROVE v = w
  <2>1. r \in Nat /\ \A k \in 1..r : i - r + k \in 1..n
    BY <1>1
  <2>2. \A k \in 1..r : s[i - r + k] = t[i - r + k]
    BY <2>1
  <2>3. QED BY <2>2
<1>2. s[i] = t[i]
  OBVIOUS
<1> DEFINE Low(q, x) == NaN \notin ToSet(q) /\ x <= Quantile(q, p.regime_rank)
<1>3. /\ RegimeOk(s, p, i) <=> ~p.regime_filter \/ (i >= r /\ Low(v, s[i]))
      /\ RegimeOk(t, p, i) <=> ~p.regime_filter \/ (i >= r /\ Low(w, t[i]))
  BY DEF RegimeOk
<1> HIDE DEF v, w, r, Low
<1>4. QED BY <1>1, <1>2, <1>3

LEMMA TurtleSignals ==
  ASSUME NEW f, NEW g, NEW n, Longer(f, g, n), NEW p, NEW i \in 1..n
  PROVE  TurtleBreakout(f, p)[i] = TurtleBreakout(g, p)[i]
<1>1. i \in DOMAIN f /\ i \in DOMAIN g /\ f[i] = g[i]
  BY LongerRows
<1>2. QED BY <1>1 DEF TurtleBreakout

LEMMA AdamSignals ==
  ASSUME NEW f, NEW g, NEW n, Longer(f, g, n), NEW i \in 1..n
  PROVE  AdamBreakout(f)[i] = AdamBreakout(g)[i]
<1>1. i \in DOMAIN f /\ i \in DOMAIN g /\ f[i] = g[i]
  BY LongerRows
<1>2. QED BY <1>1 DEF AdamBreakout

LEMMA TrendSignals ==
  ASSUME NEW f, NEW g, NEW n, Longer(f, g, n), NEW p, NEW i \in 1..n
  PROVE  TrendFilteredBreakout(f, p)[i] = TrendFilteredBreakout(g, p)[i]
<1>1. i \in DOMAIN f /\ i \in DOMAIN g /\ f[i] = g[i]
  BY LongerRows
<1>2. QED BY <1>1 DEF TrendFilteredBreakout

LEMMA BollingerSignals ==
  ASSUME NEW f, NEW g, NEW n, Longer(f, g, n), NEW p, NEW i \in 1..n
  PROVE  BollingerMeanReversion(f, p)[i] = BollingerMeanReversion(g, p)[i]
<1>1. i \in DOMAIN f /\ i \in DOMAIN g /\ f[i] = g[i]
  BY LongerRows
<1>2. "ma" \in Names /\ "close_std" \in Names
  BY DEF Names, ROLLING_SPEC
<1>3. Column(f, "ma")[i] = Column(g, "ma")[i] /\ Column(f, "close_std")[i] = Column(g, "close_std")[i]
  BY <1>2, ColumnStays
<1>4. QED BY <1>1, <1>3 DEF BollingerMeanReversion

\* The end of a window that may be short.
LEMMA TailStays ==
  ASSUME NEW n \in Nat, NEW s, NEW t, Sequence(s), Sequence(t), Len(s) = n, Len(t) = n + 1,
         \A k \in 1..n : s[k] = t[k], NEW a \in Nat \ {0}, NEW i \in 1..n, a <= i
  PROVE  SubSeq(s, a, i) = SubSeq(t, a, i)
<1>1. i \in Nat /\ i <= Len(s) /\ i <= Len(t) /\ a <= i + 1
  OBVIOUS
<1> DEFINE u == SubSeq(s, a, i)
           v == SubSeq(t, a, i)
           m == i - a + 1
<1>2. Sequence(u) /\ Len(u) = m /\ \A k \in 1..m : u[k] = s[a + k - 1]
  BY <1>1, SubSeqIs
<1>3. Sequence(v) /\ Len(v) = m /\ \A k \in 1..m : v[k] = t[a + k - 1]
  BY <1>1, SubSeqIs
<1>4. m \in Nat /\ \A k \in 1..m : a + k - 1 \in 1..n
  BY <1>1
<1> HIDE DEF u, v, m
<1>5. \A k \in 1..m : u[k] = v[k]
  BY <1>2, <1>3, <1>4
<1>6. u = [k \in 1..m |-> u[k]] /\ v = [k \in 1..m |-> v[k]]
  <2>1. ASSUME NEW r, Sequence(r), Len(r) = m PROVE r = [k \in 1..m |-> r[k]]
    <3>1. PICK T : r \in Seq(T)
      BY <2>1 DEF Sequence
    <3>2. r \in [1..m -> T]
      BY <2>1, <3>1
    <3>3. QED BY <3>2
  <2>2. QED BY <1>2, <1>3, <2>1
<1>7. u = v
  BY <1>5, <1>6
<1>8. QED BY <1>7 DEF u, v

LEMMA OfiSignals ==
  ASSUME NEW f, NEW g, NEW n, Longer(f, g, n), NEW p, p.ofi_window \in Nat \ {0}, NEW i \in 1..n
  PROVE  OFIMomentum(f, p)[i] = OFIMomentum(g, p)[i]
<1> DEFINE a == Max({1, i - p.ofi_window + 1})
           s == Field(f, "ofi")
           t == Field(g, "ofi")
           c == Field(f, "close")
           d == Field(g, "close")
           w == Period("ma")
<1>1. /\ i \in DOMAIN f /\ i \in DOMAIN g /\ f[i] = g[i] /\ n \in Nat
      /\ DOMAIN f = 1..n /\ DOMAIN g = 1..n+1 /\ \A k \in 1..n : f[k] = g[k]
  <2>1. /\ n \in Nat /\ DOMAIN f = 1..n /\ DOMAIN g = 1..n+1 /\ 1..n \subseteq 1..n+1
    BY LongerRows
  <2>2. \A k \in 1..n : f[k] = g[k]
    BY LongerRows
  <2>3. QED BY <2>1, <2>2
<1>2. "entry_high" \in Names /\ "entry_low" \in Names /\ w \in Nat \ {0}
  BY PeriodsAssumption DEF Names, ROLLING_SPEC, Period, RollingSpec
<1>3. Column(f, "entry_high")[i] = Column(g, "entry_high")[i] /\ Column(f, "entry_low")[i] = Column(g, "entry_low")[i]
  BY <1>2, ColumnStays
<1>4. DOMAIN c = 1..n /\ DOMAIN d = 1..n+1 /\ \A k \in 1..n : c[k] = d[k]
  BY <1>1 DEF Field
<1> HIDE DEF c, d, w
<1>5. RollingSeries(c, "mean", w)[i] = RollingSeries(d, "mean", w)[i]
  BY <1>1, <1>2, <1>4, SeriesStays
<1>6. Sequence(s) /\ Len(s) = n
  <2>1. s = [k \in 1..n |-> s[k]]
    BY <1>1 DEF Field
  <2> HIDE DEF s
  <2>2. QED BY <1>1, <2>1, FunctionIsSequence
<1>7. Sequence(t) /\ Len(t) = n + 1
  <2> DEFINE m == n + 1
  <2>1. t = [k \in 1..m |-> t[k]] /\ m \in Nat
    BY <1>1 DEF Field
  <2> HIDE DEF t, m
  <2>2. Sequence(t) /\ Len(t) = m
    BY <2>1, FunctionIsSequence
  <2>3. QED BY <2>2 DEF m
<1>8. \A k \in 1..n : s[k] = t[k]
  BY <1>1 DEF Field
<1>9. a \in Nat \ {0} /\ a <= i
  <2> DEFINE b == i - p.ofi_window + 1
  <2>1. b \in Int /\ b <= i /\ i >= 1
    BY <1>1
  <2> HIDE DEF b
  <2>2. Max({1, b}) = IF 1 >= b THEN 1 ELSE b
    BY <2>1, MaxOfTwo
  <2>3. a = Max({1, b})
    BY DEF b
  <2>4. QED BY <1>1, <2>1, <2>2, <2>3
<1> HIDE DEF s, t, a
<1>10. SubSeq(s, a, i) = SubSeq(t, a, i)
  BY <1>1, <1>6, <1>7, <1>8, <1>9, TailStays
<1> DEFINE Beyond(u, sign) == Len(u) >= p.ofi_window \div 2 /\ sign * SumSeq(u) > p.ofi_threshold * Len(u)
           RuleRow(df, trend, u) ==
             Signal(Above(df[i].close, Column(df, "entry_high")[i]) /\ Beyond(u, 1) /\ AboveMean(df[i].close, trend),
               ~p.long_only /\ Below(df[i].close, Column(df, "entry_low")[i]) /\ Beyond(u, -1)
                 /\ BelowMean(df[i].close, trend))
<1>11. OFIMomentum(f, p)[i] = RuleRow(f, RollingSeries(c, "mean", w)[i], SubSeq(s, a, i))
  BY <1>1 DEF OFIMomentum, c, s, a, w
<1>12. OFIMomentum(g, p)[i] = RuleRow(g, RollingSeries(d, "mean", w)[i], SubSeq(t, a, i))
  BY <1>1 DEF OFIMomentum, d, t, a, w
<1>13. \A r, u : RuleRow(f, r, u) = RuleRow(g, r, u)
  BY <1>1, <1>3
<1> HIDE DEF RuleRow
<1>14. QED BY <1>5, <1>10, <1>11, <1>12, <1>13

\* The rows of a rule, over a frame and over one a bar longer.
RuleRows(s, t, n) ==
  /\ n \in Nat /\ s = [k \in 1..n |-> s[k]] /\ t = [k \in 1..n+1 |-> t[k]]
  /\ \A k \in 1..n : s[k] = t[k]

LEMMA CooledRowsStay ==
  ASSUME NEW n, NEW s, NEW t, RuleRows(s, t, n), NEW c, NEW i \in 1..n
  PROVE  Cooldown(s, c)[i] = Cooldown(t, c)[i]
<1>1. n \in Nat /\ Len(s) = n
  <2>1. n \in Nat /\ s = [k \in 1..n |-> s[k]]
    BY DEF RuleRows
  <2>2. QED BY <2>1, FunctionIsSequence
<1>2. Len(t) = n + 1
  <2> DEFINE m == n + 1
  <2>1. m \in Nat /\ t = [k \in 1..m |-> t[k]]
    BY DEF RuleRows
  <2> HIDE DEF m
  <2>2. Len(t) = m
    BY <2>1, FunctionIsSequence
  <2>3. QED BY <2>2 DEF m
<1>3. DOMAIN s = 1..n /\ DOMAIN t = 1..n+1 /\ \A k \in 1..n : s[k] = t[k]
  BY DEF RuleRows
<1>4. QED BY <1>1, <1>2, <1>3, CooldownStays

LEMMA VolumesNotNegative ==
  ASSUME NEW f, NEW n, Frame(f, n), NEW k \in 1..n
  PROVE  Field(f, "volume")[k] = f[k].volume /\ f[k].volume \in Nat
BY DEF Frame, IsBar, Field

\* A window with a traded bar has a volume.
LEMMA WindowTrades ==
  ASSUME NEW f, NEW n, Frame(f, n), NEW w \in Nat \ {0}, n >= w,
         NEW c \in (n - w + 1)..n, f[c].volume # 0
  PROVE  Rolling(Field(f, "volume"), "sum", w, n) \in Int
         /\ Rolling(Field(f, "volume"), "sum", w, n) # 0
<1> DEFINE s == Field(f, "volume")
           h == [k \in 1..w |-> s[n - w + k]]
           e == c - (n - w)
<1>1. n \in Int /\ \A k \in (n - w + 1)..n : k \in 1..n
  BY DEF Frame
<1>2. \A k \in (n - w + 1)..n : s[k] = f[k].volume /\ s[k] \in Nat
  BY <1>1, VolumesNotNegative
<1> HIDE DEF s
<1>3. \A k \in 1..w : n - w + k \in (n - w + 1)..n
  BY <1>1
<1>4. h \in [1..w -> Int] /\ \A k \in 1..w : h[k] >= 0
  BY <1>2, <1>3
<1>5. e \in 1..w /\ n - w + e = c
  BY <1>1
<1>6. h[e] > 0
  BY <1>2, <1>5
<1>7. h \in [1..w -> Int] /\ Rolling(s, "sum", w, n) = Aggregate("sum", w, h)
  <2>1. \A k \in (n - w + 1)..n : s[k] \in Int
    BY <1>2
  <2>2. n \in Int /\ n >= w
    BY <1>1
  <2>3. "sum" \in Ops
    BY DEF Ops
  <2>4. QED BY <2>1, <2>2, <2>3, FullWindow
<1> HIDE DEF h, e
<1>8. Aggregate("sum", w, h) = SumSeq(h)
  BY DEF Aggregate
<1>9. SumSeq(h) > 0 /\ SumSeq(h) \in Int
  BY <1>4, <1>5, <1>6, SumPositive, SumSeqInt
<1>10. QED BY <1>7, <1>8, <1>9 DEF s

\* Bands over the rows of a frame, as the rule's three sums give them.
BandsOf(df, K, P, P2, V) ==
  [i \in DOMAIN df |-> IF i \notin K THEN NaN
     ELSE [pv |-> P[i], vol |-> V[i], var |-> P2[i] * V[i] - Square(P[i])]]
Settle(own, later) ==
  [i \in DOMAIN own |-> IF own[i] = NaN /\ later[i] # NaN THEN [later[i] EXCEPT !.var = 0] ELSE own[i]]
PriceVolumes(df) == [i \in DOMAIN df |-> df[i].close * df[i].volume]
SquareVolumes(df) == [i \in DOMAIN df |-> Square(df[i].close) * df[i].volume]

LEMMA VwapIs ==
  ASSUME NEW df, NEW w
  PROVE  LET V == RollingSeries(Field(df, "volume"), "sum", w)
             K == {i \in DOMAIN df : V[i] \notin {NaN, 0}}
             own == BandsOf(df, K, RollingSeries(PriceVolumes(df), "sum", w),
                            RollingSeries(SquareVolumes(df), "sum", w), V)
         IN VwapWindow(df, w) = Settle(own, FillFrom(K, own))
BY DEF VwapWindow, BandsOf, Settle, PriceVolumes, SquareVolumes

LEMMA VwapStays ==
  ASSUME NEW f, NEW g, NEW n, Longer(f, g, n), NEW w \in Nat \ {0}, n >= w,
         NEW c \in (n - w + 1)..n, f[c].volume # 0, NEW i \in 1..n
  PROVE  VwapWindow(f, w)[i] = VwapWindow(g, w)[i]
<1> DEFINE a == PriceVolumes(f)
           b == PriceVolumes(g)
           a2 == SquareVolumes(f)
           b2 == SquareVolumes(g)
           d == Field(f, "volume")
           e == Field(g, "volume")
           P == RollingSeries(a, "sum", w)
           Q == RollingSeries(b, "sum", w)
           P2 == RollingSeries(a2, "sum", w)
           Q2 == RollingSeries(b2, "sum", w)
           V == RollingSeries(d, "sum", w)
           W == RollingSeries(e, "sum", w)
           K == {j \in DOMAIN f : V[j] \notin {NaN, 0}}
           L == {j \in DOMAIN g : W[j] \notin {NaN, 0}}
           s == BandsOf(f, K, P, P2, V)
           t == BandsOf(g, L, Q, Q2, W)
<1>1. /\ n \in Nat /\ DOMAIN f = 1..n /\ DOMAIN g = 1..n+1 /\ 1..n \subseteq 1..n+1
      /\ Frame(f, n) /\ n \in 1..n
  <2>1. /\ n \in Nat /\ DOMAIN f = 1..n /\ DOMAIN g = 1..n+1 /\ 1..n \subseteq 1..n+1
    BY LongerRows
  <2>2. n \in 1..n
    BY <2>1
  <2>3. QED BY <2>1, <2>2 DEF Longer
<1>2. \A k \in 1..n : f[k] = g[k]
  BY LongerRows
<1>3. DOMAIN a = 1..n /\ DOMAIN b = 1..n+1 /\ \A k \in 1..n : a[k] = b[k]
  BY <1>1, <1>2 DEF PriceVolumes
<1>4. DOMAIN a2 = 1..n /\ DOMAIN b2 = 1..n+1 /\ \A k \in 1..n : a2[k] = b2[k]
  BY <1>1, <1>2 DEF SquareVolumes
<1>5. DOMAIN d = 1..n /\ DOMAIN e = 1..n+1 /\ \A k \in 1..n : d[k] = e[k]
  BY <1>1, <1>2 DEF Field
<1>6. Rolling(d, "sum", w, n) \in Int /\ Rolling(d, "sum", w, n) # 0
  BY <1>1, WindowTrades
<1> HIDE DEF a, b, a2, b2, d, e
<1>7. V[n] = Rolling(d, "sum", w, n)
  BY <1>1, <1>5 DEF RollingSeries
<1>8. ASSUME NEW k \in 1..n PROVE P[k] = Q[k] /\ P2[k] = Q2[k] /\ V[k] = W[k]
  <2>1. P[k] = Q[k]
    BY <1>1, <1>3, SeriesStays
  <2>2. P2[k] = Q2[k]
    BY <1>1, <1>4, SeriesStays
  <2>3. V[k] = W[k]
    BY <1>1, <1>5, SeriesStays
  <2> HIDE DEF P, Q, P2, Q2, V, W
  <2>4. QED BY <2>1, <2>2, <2>3
<1>9. \A k \in 1..n : P[k] = Q[k] /\ P2[k] = Q2[k] /\ V[k] = W[k]
  <2> HIDE DEF P, Q, P2, Q2, V, W
  <2>1. QED BY <1>8
<1>10. VwapWindow(f, w) = Settle(s, FillFrom(K, s))
  BY VwapIs DEF a, a2, d
<1>11. VwapWindow(g, w) = Settle(t, FillFrom(L, t))
  BY VwapIs DEF b, b2, e
<1> HIDE DEF P, Q, P2, Q2, V, W
<1>12. K \subseteq 1..n /\ L \subseteq 1..n+1 /\ n \in K /\ \A k \in 1..n : k \in K <=> k \in L
  BY <1>1, <1>6, <1>7, <1>9, NaNAssumption
<1> HIDE DEF K, L
<1>13. DOMAIN s = 1..n /\ DOMAIN t = 1..n+1
  BY <1>1 DEF BandsOf
<1>14. \A k \in 1..n : s[k] = t[k]
  BY <1>1, <1>9, <1>12 DEF BandsOf
<1> HIDE DEF s, t
<1>15. Fills(s, t, K, L, n)
  BY <1>1, <1>12, <1>13, <1>14 DEF Fills
<1>16. FillFrom(K, s)[i] = FillFrom(L, t)[i]
  BY <1>15, FillStays
<1>17. i \in DOMAIN s /\ i \in DOMAIN t /\ s[i] = t[i]
  BY <1>1, <1>13, <1>14
<1>18. QED BY <1>10, <1>11, <1>16, <1>17 DEF Settle

\* The rows of an ATR of a frame and of one a bar longer.
LEMMA RegimesStay ==
  ASSUME NEW f, NEW g, NEW n, Longer(f, g, n), NEW period \in Nat \ {0}, n > period, NEW p,
         p.regime_filter => p.regime_window \in Nat \ {0}, NEW i \in 1..n
  PROVE  /\ RegimeOk(Atr(f, period), p, i) = RegimeOk(Atr(g, period), p, i)
         /\ Atr(f, period)[i] = Atr(g, period)[i]
<1>1. n \in Nat
  BY LongerRows
<1>2. \A k \in 1..n : Atr(f, period)[k] = Atr(g, period)[k]
  BY AtrStays
<1> DEFINE s == Atr(f, period)
           t == Atr(g, period)
<1>3. \A k \in 1..n : s[k] = t[k]
  BY <1>2
<1> HIDE DEF s, t
<1>4. RegimeOk(s, p, i) <=> RegimeOk(t, p, i)
  BY <1>1, <1>3, RegimeStays
<1>5. RegimeOk(s, p, i) \in BOOLEAN /\ RegimeOk(t, p, i) \in BOOLEAN
  BY DEF RegimeOk
<1>6. RegimeOk(s, p, i) = RegimeOk(t, p, i)
  BY <1>4, <1>5
<1>7. QED BY <1>2, <1>6 DEF s, t

LEMMA VwapSignals ==
  ASSUME NEW f, NEW g, NEW n, Longer(f, g, n), NEW p,
         p.vwap_window \in Nat \ {0}, p.regime_atr \in Nat \ {0}, p.ofi_window \in Nat \ {0},
         p.regime_filter => p.regime_window \in Nat \ {0},
         n > p.regime_atr, n >= p.vwap_window,
         NEW c \in (n - p.vwap_window + 1)..n, f[c].volume # 0, NEW i \in 1..n
  PROVE  DynamicVWAPBand(f, p)[i] = DynamicVWAPBand(g, p)[i]
<1> DEFINE Reached(gap, var) == ReachesRoot(gap, p.band_mult, var)
           At(flow, band, under) ==
             IF band = NaN THEN 0
             ELSE Signal(Reached(under, band.var) /\ Above(flow, p.ofi_window * p.ofi_threshold),
                         Reached(-under, band.var) /\ Below(flow, -p.ofi_window * p.ofi_threshold))
           RuleRow(ok, flow, bar, band) ==
             IF ok THEN At(flow, band, IF band = NaN THEN 0 ELSE band.pv - band.vol * bar.close) ELSE 0
           s == [k \in 1..n |-> RuleRow(RegimeOk(Atr(f, p.regime_atr), p, k), MeanFlow(f, p.ofi_window, k),
                                    f[k], VwapWindow(f, p.vwap_window)[k])]
           t == [k \in 1..n+1 |-> RuleRow(RegimeOk(Atr(g, p.regime_atr), p, k), MeanFlow(g, p.ofi_window, k),
                                      g[k], VwapWindow(g, p.vwap_window)[k])]
<1>1. n \in Nat /\ DOMAIN f = 1..n /\ DOMAIN g = 1..n+1 /\ 1..n \subseteq 1..n+1
  BY LongerRows
<1>2. DynamicVWAPBand(f, p) = Cooldown(s, p.cooldown) /\ DynamicVWAPBand(g, p) = Cooldown(t, p.cooldown)
  BY <1>1 DEF DynamicVWAPBand
<1> HIDE DEF RuleRow
<1>3. ASSUME NEW k \in 1..n PROVE s[k] = t[k]
  <2>1. f[k] = g[k]
    BY LongerRows
  <2>2. MeanFlow(f, p.ofi_window, k) = MeanFlow(g, p.ofi_window, k)
    BY FlowStays DEF MeanFlow
  <2>3. RegimeOk(Atr(f, p.regime_atr), p, k) = RegimeOk(Atr(g, p.regime_atr), p, k)
    BY RegimesStay
  <2>4. VwapWindow(f, p.vwap_window)[k] = VwapWindow(g, p.vwap_window)[k]
    BY VwapStays
  <2>5. k \in 1..n+1
    BY <1>1
  <2>6. QED BY <2>1, <2>2, <2>3, <2>4, <2>5
<1>4. s = [k \in 1..n |-> s[k]] /\ t = [k \in 1..n+1 |-> t[k]]
  OBVIOUS
<1> HIDE DEF s, t
<1>5. RuleRows(s, t, n)
  BY <1>1, <1>3, <1>4 DEF RuleRows
<1>6. QED BY <1>2, <1>5, CooledRowsStay

LEMMA ClimaxSignals ==
  ASSUME NEW f, NEW g, NEW n, Longer(f, g, n), NEW p,
         p.trades_window \in Nat \ {0}, p.atr_period \in Nat \ {0}, p.ofi_window \in Nat \ {0},
         p.regime_filter => p.regime_window \in Nat \ {0},
         n > p.atr_period, NEW i \in 1..n
  PROVE  LiquidationClimax(f, p)[i] = LiquidationClimax(g, p)[i]
<1> DEFINE Stretched(atr, gap) ==
             /\ atr \notin {NaN, 0}
             /\ 10 * p.atr_period * gap > p.deviation_mult * atr
           RuleRow(ok, flow, bar, atr) ==
             IF ok THEN Signal(Stretched(atr, bar.vwap - bar.close) /\ Above(flow, -10 * p.ofi_window),
                               Stretched(atr, bar.close - bar.vwap) /\ Below(flow, 10 * p.ofi_window))
             ELSE 0
           s == [k \in 1..n |-> RuleRow(TradesBurst(f, p, k) /\ RegimeOk(Atr(f, p.atr_period), p, k),
                                    MeanFlow(f, p.ofi_window, k), f[k], Atr(f, p.atr_period)[k])]
           t == [k \in 1..n+1 |-> RuleRow(TradesBurst(g, p, k) /\ RegimeOk(Atr(g, p.atr_period), p, k),
                                      MeanFlow(g, p.ofi_window, k), g[k], Atr(g, p.atr_period)[k])]
<1>1. n \in Nat /\ DOMAIN f = 1..n /\ DOMAIN g = 1..n+1 /\ 1..n \subseteq 1..n+1
  BY LongerRows
<1>2. LiquidationClimax(f, p) = Cooldown(s, p.cooldown) /\ LiquidationClimax(g, p) = Cooldown(t, p.cooldown)
  BY <1>1 DEF LiquidationClimax
<1> HIDE DEF RuleRow
<1>3. ASSUME NEW k \in 1..n PROVE s[k] = t[k]
  <2>1. f[k] = g[k]
    BY LongerRows
  <2>2. MeanFlow(f, p.ofi_window, k) = MeanFlow(g, p.ofi_window, k)
    BY FlowStays DEF MeanFlow
  <2>3. /\ RegimeOk(Atr(f, p.atr_period), p, k) = RegimeOk(Atr(g, p.atr_period), p, k)
        /\ Atr(f, p.atr_period)[k] = Atr(g, p.atr_period)[k]
    BY RegimesStay
  <2>4. TradesBurst(f, p, k) = TradesBurst(g, p, k)
    <3>1. /\ Rolling(Field(f, "trades"), "sum", p.trades_window, k) = Rolling(Field(g, "trades"), "sum", p.trades_window, k)
          /\ Rolling(Field(f, "trades"), "std", p.trades_window, k) = Rolling(Field(g, "trades"), "std", p.trades_window, k)
      BY FlowStays
    <3>2. QED BY <2>1, <3>1 DEF TradesBurst
  <2>5. k \in 1..n+1
    BY <1>1
  <2>6. QED BY <2>1, <2>2, <2>3, <2>4, <2>5
<1>4. s = [k \in 1..n |-> s[k]] /\ t = [k \in 1..n+1 |-> t[k]]
  OBVIOUS
<1> HIDE DEF s, t
<1>5. RuleRows(s, t, n)
  BY <1>1, <1>3, <1>4 DEF RuleRows
<1>6. QED BY <1>2, <1>5, CooledRowsStay

LEMMA AbsorptionSignals ==
  ASSUME NEW f, NEW g, NEW n, Longer(f, g, n), NEW p,
         p.vol_window \in Nat \ {0}, p.atr_period \in Nat \ {0},
         p.regime_filter => p.regime_window \in Nat \ {0},
         n > p.atr_period, NEW i \in 1..n
  PROVE  AbsorptionDivergence(f, p)[i] = AbsorptionDivergence(g, p)[i]
<1> DEFINE Surge(bar, mean) == mean # NaN /\ 10 * p.vol_window * bar.volume > p.vol_mult * mean
           Absorbed(bar, atr) ==
             /\ atr # NaN
             /\ 10 * p.atr_period * Gap(bar.close, bar.open) <= p.absorption_ratio * atr
           Shadow(bar, part) == bar.high # bar.low /\ 5 * part >= 2 * (bar.high - bar.low)
           Buys(bar, atr) ==
             /\ bar.taker_ratio < p.taker_low
             /\ Absorbed(bar, atr) \/ Shadow(bar, Min({bar.open, bar.close}) - bar.low)
           Sells(bar, atr) ==
             /\ bar.taker_ratio > p.taker_high
             /\ Absorbed(bar, atr) \/ Shadow(bar, bar.high - Max({bar.open, bar.close}))
           RuleRow(ok, bar, atr, mean) ==
             IF Surge(bar, mean) /\ ok THEN Signal(Buys(bar, atr), Sells(bar, atr)) ELSE 0
           u == RollingSeries(Field(f, "volume"), "sum", p.vol_window)
           v == RollingSeries(Field(g, "volume"), "sum", p.vol_window)
           s == [k \in 1..n |-> RuleRow(RegimeOk(Atr(f, p.atr_period), p, k), f[k], Atr(f, p.atr_period)[k], u[k])]
           t == [k \in 1..n+1 |-> RuleRow(RegimeOk(Atr(g, p.atr_period), p, k), g[k], Atr(g, p.atr_period)[k], v[k])]
<1>1. n \in Nat /\ DOMAIN f = 1..n /\ DOMAIN g = 1..n+1 /\ 1..n \subseteq 1..n+1
  BY LongerRows
<1>2. AbsorptionDivergence(f, p) = Cooldown(s, p.cooldown) /\ AbsorptionDivergence(g, p) = Cooldown(t, p.cooldown)
  BY <1>1 DEF AbsorptionDivergence
<1> HIDE DEF RuleRow
<1>3. ASSUME NEW k \in 1..n PROVE s[k] = t[k]
  <2>1. f[k] = g[k]
    BY LongerRows
  <2>2. /\ RegimeOk(Atr(f, p.atr_period), p, k) = RegimeOk(Atr(g, p.atr_period), p, k)
        /\ Atr(f, p.atr_period)[k] = Atr(g, p.atr_period)[k]
    BY RegimesStay
  <2>3. k \in 1..n+1
    BY <1>1
  <2>4. u[k] = v[k]
    <3>1. k \in DOMAIN Field(f, "volume") /\ k \in DOMAIN Field(g, "volume")
      BY <1>1, <2>3 DEF Field
    <3>2. Rolling(Field(f, "volume"), "sum", p.vol_window, k) = Rolling(Field(g, "volume"), "sum", p.vol_window, k)
      BY FlowStays
    <3>3. QED BY <3>1, <3>2 DEF RollingSeries
  <2> HIDE DEF u, v
  <2>5. QED BY <2>1, <2>2, <2>3, <2>4
<1>4. s = [k \in 1..n |-> s[k]] /\ t = [k \in 1..n+1 |-> t[k]]
  OBVIOUS
<1> HIDE DEF s, t
<1>5. RuleRows(s, t, n)
  BY <1>1, <1>3, <1>4 DEF RuleRows
<1>6. QED BY <1>2, <1>5, CooledRowsStay

\* Every row has a residual of the pair's filter.
Spreads(f, n) == \A i \in 1..n : f[i].spread \in Int

\* The last window of residuals is full.
LEMMA ResidualsAreFull ==
  ASSUME NEW f, NEW n \in Nat, DOMAIN f = 1..n, Spreads(f, n), NEW w \in Nat \ {0}, n >= w
  PROVE  Rolling(Field(f, "spread"), "sum", w, n) \in Int
<1> DEFINE s == Field(f, "spread")
           h == [k \in 1..w |-> s[n - w + k]]
<1>1. \A k \in 1..n : s[k] \in Int
  BY DEF Spreads, Field
<1> HIDE DEF s
<1>2. \A k \in (n - w + 1)..n : s[k] \in Int
  BY <1>1
<1>3. h \in [1..w -> Int] /\ Rolling(s, "sum", w, n) = Aggregate("sum", w, h)
  <2>1. n \in Int
    OBVIOUS
  <2>2. QED BY <1>2, <2>1, FullWindow DEF Ops
<1> HIDE DEF h
<1>4. Aggregate("sum", w, h) \in Int
  BY <1>3, AggregateInt DEF Ops
<1>5. QED BY <1>3, <1>4 DEF s

ZRows(df, K, R, S, V, w) ==
  [i \in DOMAIN df |-> IF i \notin K THEN NaN
     ELSE [dev |-> w * R[i] - S[i],
           var |-> IF V[i] = 0 THEN Square(w) ELSE (w * V[i]) \div (w - 1)]]

LEMMA ScoresAre ==
  ASSUME NEW df, NEW w
  PROVE  LET R == Field(df, "spread")
             S == RollingSeries(R, "sum", w)
             K == {i \in DOMAIN df : S[i] # NaN}
         IN ZScores(df, w) = FillFrom(K, ZRows(df, K, R, S, RollingSeries(R, "std", w), w))
BY DEF ZScores, ZRows

LEMMA ScoresStay ==
  ASSUME NEW f, NEW g, NEW n, Longer(f, g, n), Spreads(f, n), NEW w \in Nat \ {0}, n >= w, NEW i \in 1..n
  PROVE  ZScores(f, w)[i] = ZScores(g, w)[i]
<1> DEFINE a == Field(f, "spread")
           b == Field(g, "spread")
           S == RollingSeries(a, "sum", w)
           T == RollingSeries(b, "sum", w)
           V == RollingSeries(a, "std", w)
           W == RollingSeries(b, "std", w)
           K == {j \in DOMAIN f : S[j] # NaN}
           L == {j \in DOMAIN g : T[j] # NaN}
           s == ZRows(f, K, a, S, V, w)
           t == ZRows(g, L, b, T, W, w)
<1>1. /\ n \in Nat /\ DOMAIN f = 1..n /\ DOMAIN g = 1..n+1 /\ 1..n \subseteq 1..n+1
      /\ n \in 1..n
  <2>1. /\ n \in Nat /\ DOMAIN f = 1..n /\ DOMAIN g = 1..n+1 /\ 1..n \subseteq 1..n+1
    BY LongerRows
  <2>2. n \in 1..n
    BY <2>1
  <2>3. QED BY <2>1, <2>2
<1>2. \A k \in 1..n : f[k] = g[k]
  BY LongerRows
<1>3. DOMAIN a = 1..n /\ DOMAIN b = 1..n+1 /\ \A k \in 1..n : a[k] = b[k]
  BY <1>1, <1>2 DEF Field
<1>4. Rolling(a, "sum", w, n) \in Int
  BY <1>1, ResidualsAreFull
<1> HIDE DEF a, b
<1>5. S[n] = Rolling(a, "sum", w, n)
  BY <1>1, <1>3 DEF RollingSeries
<1>6. ASSUME NEW k \in 1..n PROVE S[k] = T[k] /\ V[k] = W[k]
  <2>1. S[k] = T[k]
    BY <1>1, <1>3, SeriesStays
  <2>2. V[k] = W[k]
    BY <1>1, <1>3, SeriesStays
  <2> HIDE DEF S, T, V, W
  <2>3. QED BY <2>1, <2>2
<1>7. ZScores(f, w) = FillFrom(K, s) /\ ZScores(g, w) = FillFrom(L, t)
  <2>1. ZScores(f, w) = FillFrom(K, s)
    BY ScoresAre DEF a
  <2>2. ZScores(g, w) = FillFrom(L, t)
    BY ScoresAre DEF b
  <2> HIDE DEF s, t, K, L
  <2>3. QED BY <2>1, <2>2
<1> HIDE DEF S, T, V, W
<1>8. K \subseteq 1..n /\ L \subseteq 1..n+1 /\ n \in K /\ \A k \in 1..n : k \in K <=> k \in L
  BY <1>1, <1>4, <1>5, <1>6, NaNAssumption
<1> HIDE DEF K, L
<1>9. DOMAIN s = 1..n /\ DOMAIN t = 1..n+1
  BY <1>1 DEF ZRows
<1>10. \A k \in 1..n : s[k] = t[k]
  BY <1>1, <1>3, <1>6, <1>8 DEF ZRows
<1> HIDE DEF s, t
<1>11. Fills(s, t, K, L, n)
  BY <1>1, <1>8, <1>9, <1>10 DEF Fills
<1>12. FillFrom(K, s)[i] = FillFrom(L, t)[i]
  BY <1>11, FillStays
<1>13. QED BY <1>7, <1>12

\* The position of the pair, over the rows up to n.
PairStep(was, z, t, p) ==
  LET Enter(side) == [pos |-> side, last |-> t]
      Out(ends) == [was EXCEPT !.pos = IF ends THEN 0 ELSE @]
  IN CASE z = NaN -> was
       [] z # NaN /\ was.pos = 0 ->
            IF t - was.last < p.cooldown THEN was
            ELSE IF ZAtLeast(z, p.entry_z) THEN Enter(-1)
            ELSE IF ZAtMost(z, -p.entry_z) THEN Enter(1) ELSE was
       [] z # NaN /\ was.pos = 1 -> Out(ZAtLeast(z, -p.exit_z) \/ ZAtMost(z, -p.stop_z))
       [] z # NaN /\ was.pos = -1 -> Out(ZAtMost(z, p.exit_z) \/ ZAtLeast(z, p.stop_z))
NoPair(p) == [pos |-> 0, last |-> -p.cooldown]
Positions(zs, p, n, h) ==
  h = [t \in 0..n |-> IF t = 0 THEN NoPair(p) ELSE PairStep(h[t-1], zs[t], t, p)]
HeldPair(zs, p, n) == CHOOSE h : Positions(zs, p, n, h)

LEMMA PairsAre ==
  ASSUME NEW df, NEW p
  PROVE  LET h == HeldPair(ZScores(df, p.zscore_window), p, Len(df))
         IN KalmanPairs(df, p) =
              [t \in DOMAIN df |-> IF h[t].last # t THEN 0 ELSE IF h[t].pos = 1 THEN 1 ELSE -1]
BY DEF KalmanPairs, HeldPair, Positions, PairStep, NoPair

LEMMA PositionAt ==
  ASSUME NEW n \in Nat, NEW zs, NEW p, NEW h, Positions(zs, p, n, h)
  PROVE  h[0] = NoPair(p) /\ \A t \in 1..n : h[t] = PairStep(h[t-1], zs[t], t, p)
<1> DEFINE G == [t \in 0..n |-> IF t = 0 THEN NoPair(p) ELSE PairStep(h[t-1], zs[t], t, p)]
<1>1. G[0] = NoPair(p) /\ \A t \in 1..n : G[t] = PairStep(h[t-1], zs[t], t, p)
  OBVIOUS
<1>2. h = G
  BY DEF Positions
<1> HIDE DEF G
<1>3. QED BY <1>1, <1>2

LEMMA PositionsExist ==
  ASSUME NEW n \in Nat, NEW zs, NEW p
  PROVE  \E h : Positions(zs, p, n, h)
<1> DEFINE D == {d \in 0..n : \E g : Positions(zs, p, d, g)}
<1>1. 0 \in D
  <2> DEFINE g == [t \in 0..0 |-> NoPair(p)]
  <2>1. g = [t \in 0..0 |-> IF t = 0 THEN NoPair(p) ELSE PairStep(g[t-1], zs[t], t, p)]
    OBVIOUS
  <2>2. Positions(zs, p, 0, g)
    BY <2>1 DEF Positions
  <2>3. QED BY <2>2
<1>2. ASSUME NEW d \in 0..n, d < n, d \in D PROVE d + 1 \in D
  <2> DEFINE e == d + 1
  <2>1. PICK g : Positions(zs, p, d, g)
    BY <1>2
  <2>2. d \in Nat /\ g[0] = NoPair(p) /\ \A t \in 1..d : g[t] = PairStep(g[t-1], zs[t], t, p)
    BY <2>1, PositionAt
  <2> DEFINE h == [t \in 0..e |-> IF t <= d THEN g[t] ELSE PairStep(g[d], zs[t], t, p)]
  <2>3. ASSUME NEW t \in 0..e PROVE h[t] = IF t = 0 THEN NoPair(p) ELSE PairStep(h[t-1], zs[t], t, p)
    <3>1. CASE t = 0
      BY <2>2, <3>1
    <3>2. CASE t # 0 /\ t <= d
      <4>1. t \in 1..d /\ t - 1 \in 0..e /\ t - 1 <= d
        BY <2>2, <3>2
      <4>2. h[t] = g[t] /\ h[t-1] = g[t-1]
        BY <3>2, <4>1
      <4> HIDE DEF h
      <4>3. QED BY <2>2, <3>2, <4>1, <4>2
    <3>3. CASE ~(t <= d)
      <4>1. t - 1 = d /\ d \in 0..e /\ t # 0
        BY <2>2, <3>3
      <4>2. h[d] = g[d] /\ h[t] = PairStep(g[d], zs[t], t, p)
        BY <2>2, <3>3, <4>1
      <4> HIDE DEF h
      <4>3. QED BY <4>1, <4>2
    <3>4. QED BY <3>1, <3>2, <3>3
  <2>4. h = [t \in 0..e |-> h[t]]
    OBVIOUS
  <2> HIDE DEF h, e
  <2>5. h = [t \in 0..e |-> IF t = 0 THEN NoPair(p) ELSE PairStep(h[t-1], zs[t], t, p)]
    BY <2>3, <2>4
  <2>6. Positions(zs, p, e, h)
    BY <2>5 DEF Positions
  <2>7. e \in 0..n
    BY <1>2 DEF e
  <2>8. QED BY <2>6, <2>7 DEF e
<1>3. n \in D
  <2> HIDE DEF D
  <2>1. n \in 0..n
    OBVIOUS
  <2>2. QED BY <1>1, <1>2, <2>1, UpTo
<1>4. QED BY <1>3

\* Two series that agree up to row n, the second of m rows.
Agree(zs, ys, n, m) == n \in Nat /\ m \in Nat /\ n <= m /\ \A k \in 1..n : zs[k] = ys[k]

LEMMA PositionsStay ==
  ASSUME NEW zs, NEW ys, NEW n, NEW m, Agree(zs, ys, n, m), NEW p, NEW i \in 1..n
  PROVE  HeldPair(zs, p, n)[i] = HeldPair(ys, p, m)[i]
<1> DEFINE g == HeldPair(zs, p, n)
           h == HeldPair(ys, p, m)
<1>0. n \in Nat /\ m \in Nat /\ n <= m /\ \A k \in 1..n : zs[k] = ys[k]
  BY DEF Agree
<1>1. Positions(zs, p, n, g)
  BY <1>0, PositionsExist DEF HeldPair
<1>2. Positions(ys, p, m, h)
  BY <1>0, PositionsExist DEF HeldPair
<1> HIDE DEF g, h
<1>3. g[0] = NoPair(p) /\ \A k \in 1..n : g[k] = PairStep(g[k-1], zs[k], k, p)
  BY <1>0, <1>1, PositionAt
<1>4. h[0] = NoPair(p) /\ \A k \in 1..m : h[k] = PairStep(h[k-1], ys[k], k, p)
  BY <1>0, <1>2, PositionAt
<1>5. \A k \in 1..n : k \in 1..m
  BY <1>0
<1> DEFINE D == {d \in 0..n : g[d] = h[d]}
<1>6. 0 \in D
  BY <1>0, <1>3, <1>4
<1>7. ASSUME NEW d \in 0..n, d < n, d \in D PROVE d + 1 \in D
  <2> DEFINE e == d + 1
  <2>1. e \in 1..n /\ e - 1 = d /\ e \in 0..n
    BY <1>0, <1>7
  <2>2. g[d] = h[d]
    BY <1>7
  <2> HIDE DEF e
  <2>3. g[e] = PairStep(g[d], zs[e], e, p) /\ h[e] = PairStep(h[d], ys[e], e, p)
    BY <1>3, <1>4, <1>5, <2>1
  <2>4. zs[e] = ys[e]
    BY <1>0, <2>1
  <2>5. g[e] = h[e]
    BY <2>2, <2>3, <2>4
  <2>6. e \in D
    BY <2>1, <2>5
  <2> HIDE DEF D
  <2>7. QED BY <2>6 DEF e
<1>8. i \in D
  <2> HIDE DEF D
  <2>1. n \in Nat /\ i \in 0..n
    BY <1>0
  <2>2. QED BY <1>6, <1>7, <2>1, UpTo
<1>9. QED BY <1>8 DEF g, h

LEMMA PairSignals ==
  ASSUME NEW f, NEW g, NEW n, Longer(f, g, n), Spreads(f, n), NEW p,
         p.zscore_window \in Nat \ {0}, n >= p.zscore_window, NEW i \in 1..n
  PROVE  KalmanPairs(f, p)[i] = KalmanPairs(g, p)[i]
<1> DEFINE zs == ZScores(f, p.zscore_window)
           ys == ZScores(g, p.zscore_window)
           m == n + 1
           a == HeldPair(zs, p, n)
           b == HeldPair(ys, p, m)
<1>1. /\ n \in Nat /\ m \in Nat /\ n <= m /\ Len(f) = n /\ Len(g) = m
      /\ i \in DOMAIN f /\ i \in DOMAIN g
  BY LongerRows
<1>2. \A k \in 1..n : zs[k] = ys[k]
  BY ScoresStay
<1> HIDE DEF zs, ys, m
<1>3. a[i] = b[i]
  <2>1. Agree(zs, ys, n, m)
    BY <1>1, <1>2 DEF Agree
  <2>2. QED BY <2>1, PositionsStay
<1>4. KalmanPairs(f, p) = [t \in DOMAIN f |-> IF a[t].last # t THEN 0 ELSE IF a[t].pos = 1 THEN 1 ELSE -1]
  BY <1>1, PairsAre DEF zs
<1>5. KalmanPairs(g, p) = [t \in DOMAIN g |-> IF b[t].last # t THEN 0 ELSE IF b[t].pos = 1 THEN 1 ELSE -1]
  BY <1>1, PairsAre DEF ys
<1> HIDE DEF a, b
<1>6. QED BY <1>1, <1>3, <1>4, <1>5

LEMMA SignalRows ==
  ASSUME NEW f, NEW n, DOMAIN f = 1..n, NEW t \in TriggerNames
  PROVE  Signals(t, f) = [k \in 1..n |-> Signals(t, f)[k]]
<1>1. CASE t = "turtle"
  BY <1>1 DEF Signals, TurtleBreakout
<1>2. CASE t = "adam"
  BY <1>2 DEF Signals, AdamBreakout
<1>3. CASE t = "trend"
  BY <1>3 DEF Signals, TrendFilteredBreakout
<1>4. CASE t = "bollinger"
  BY <1>4 DEF Signals, BollingerMeanReversion
<1>5. CASE t = "ofi"
  BY <1>5 DEF Signals, OFIMomentum
<1>6. CASE t = "vwap"
  BY <1>6 DEF Signals, DynamicVWAPBand, Cooldown
<1>7. CASE t = "climax"
  BY <1>7 DEF Signals, LiquidationClimax, Cooldown
<1>8. CASE t = "absorption"
  BY <1>8 DEF Signals, AbsorptionDivergence, Cooldown
<1>9. CASE t = "pairs"
  BY <1>9 DEF Signals, KalmanPairs
<1>10. QED BY <1>1, <1>2, <1>3, <1>4, <1>5, <1>6, <1>7, <1>8, <1>9 DEF TriggerNames

\* Signals that later rows do not change are a prefix of the later ones.
LEMMA RowsArePrefix ==
  ASSUME NEW s, NEW t, NEW n, RuleRows(s, t, n)
  PROVE  IsPrefix(s, t)
<1> DEFINE m == n + 1
           u == SubSeq(s, 1, n)
           v == SubSeq(t, 1, n)
<1>1. /\ n \in Nat /\ m \in Nat /\ n <= m /\ \A k \in 1..n : s[k] = t[k]
      /\ s = [k \in 1..n |-> s[k]] /\ t = [k \in 1..m |-> t[k]]
  BY DEF RuleRows
<1> HIDE DEF m
<1>2. Sequence(s) /\ Len(s) = n
  BY <1>1, FunctionIsSequence
<1>3. Sequence(t) /\ Len(t) = m
  BY <1>1, FunctionIsSequence
<1>4. 1 \in Nat \ {0} /\ 1 <= n + 1 /\ n - 1 + 1 = n /\ \A k \in 1..n : 1 + k - 1 = k
  BY <1>1
<1>5. Sequence(u) /\ Len(u) = n /\ \A k \in 1..n : u[k] = s[k]
  <2>1. /\ Sequence(u) /\ Len(u) = n - 1 + 1
        /\ \A k \in 1..(n-1+1) : u[k] = s[1 + k - 1]
    <3>1. n <= Len(s) /\ n \in Nat /\ Sequence(s)
      BY <1>1, <1>2
    <3>2. QED BY <1>4, <3>1, SubSeqIs
  <2>2. QED BY <1>4, <2>1
<1>6. Sequence(v) /\ Len(v) = n /\ \A k \in 1..n : v[k] = t[k]
  <2>1. /\ Sequence(v) /\ Len(v) = n - 1 + 1
        /\ \A k \in 1..(n-1+1) : v[k] = t[1 + k - 1]
    BY <1>1, <1>3, <1>4, SubSeqIs
  <2>2. QED BY <1>4, <2>1
<1> HIDE DEF u, v
<1>7. \A k \in 1..n : u[k] = v[k]
  BY <1>1, <1>5, <1>6
<1>8. ASSUME NEW r, Sequence(r), Len(r) = n PROVE r = [k \in 1..n |-> r[k]]
  <2>1. PICK T : r \in Seq(T)
    BY <1>8 DEF Sequence
  <2>2. r \in [1..n -> T]
    BY <1>8, <2>1
  <2>3. QED BY <2>2
<1>9. u = [k \in 1..n |-> u[k]] /\ v = [k \in 1..n |-> v[k]]
  BY <1>5, <1>6, <1>8
<1>10. u = v
  BY <1>7, <1>9
<1>11. SubSeq(s, 1, Len(s)) = SubSeq(t, 1, Len(s)) /\ Len(s) <= Len(t)
  BY <1>1, <1>2, <1>3, <1>10 DEF u, v
<1>12. QED BY <1>11 DEF IsPrefix

\* No rule changes a signal of a row that was there.
LEMMA SignalsStay ==
  ASSUME NEW g, NEW n, Longer(ind, g, n), Spreads(ind, n),
         NEW t \in TriggerNames, NothingToFill(t), NEW i \in 1..n
  PROVE  Signals(t, ind)[i] = Signals(t, g)[i]
<1>0. n \in Nat /\ Len(ind) = n
  BY LongerRows
<1>1. CASE t = "turtle"
  BY <1>1, TurtleSignals DEF Signals
<1>2. CASE t = "adam"
  BY <1>2, AdamSignals DEF Signals
<1>3. CASE t = "trend"
  BY <1>3, TrendSignals DEF Signals
<1>4. CASE t = "bollinger"
  BY <1>4, BollingerSignals DEF Signals
<1>5. CASE t = "ofi"
  <2>1. Params.ofi.ofi_window \in Nat \ {0}
    BY ParamsAssumption
  <2>2. QED BY <1>5, <2>1, OfiSignals DEF Signals
<1>6. CASE t = "vwap"
  <2> DEFINE p == Params.vwap
  <2>1. /\ p.vwap_window \in Nat \ {0} /\ p.regime_atr \in Nat \ {0} /\ p.ofi_window \in Nat \ {0}
        /\ p.regime_filter => p.regime_window \in Nat \ {0}
    BY ParamsAssumption
  <2>2. n > p.regime_atr /\ n >= p.vwap_window
    BY <1>0, <1>6 DEF NothingToFill
  <2>3. PICK c \in (n - p.vwap_window + 1)..n : ind[c].volume # 0
    <3>1. \E c \in n - p.vwap_window + 1 .. n : HasVolume(c)
      BY <1>0, <1>6 DEF NothingToFill
    <3>2. QED BY <3>1 DEF HasVolume
  <2> HIDE DEF p
  <2>4. DynamicVWAPBand(ind, p)[i] = DynamicVWAPBand(g, p)[i]
    BY <2>1, <2>2, <2>3, VwapSignals
  <2>5. QED BY <1>6, <2>4 DEF Signals, p
<1>7. CASE t = "climax"
  <2> DEFINE p == Params.climax
  <2>1. /\ p.trades_window \in Nat \ {0} /\ p.atr_period \in Nat \ {0} /\ p.ofi_window \in Nat \ {0}
        /\ p.regime_filter => p.regime_window \in Nat \ {0}
    BY ParamsAssumption
  <2>2. n > p.atr_period
    BY <1>0, <1>7 DEF NothingToFill
  <2> HIDE DEF p
  <2>3. LiquidationClimax(ind, p)[i] = LiquidationClimax(g, p)[i]
    BY <2>1, <2>2, ClimaxSignals
  <2>4. QED BY <1>7, <2>3 DEF Signals, p
<1>8. CASE t = "absorption"
  <2> DEFINE p == Params.absorption
  <2>1. /\ p.vol_window \in Nat \ {0} /\ p.atr_period \in Nat \ {0}
        /\ p.regime_filter => p.regime_window \in Nat \ {0}
    BY ParamsAssumption
  <2>2. n > p.atr_period
    BY <1>0, <1>8 DEF NothingToFill
  <2> HIDE DEF p
  <2>3. AbsorptionDivergence(ind, p)[i] = AbsorptionDivergence(g, p)[i]
    BY <2>1, <2>2, AbsorptionSignals
  <2>4. QED BY <1>8, <2>3 DEF Signals, p
<1>9. CASE t = "pairs"
  <2> DEFINE p == Params.pairs
  <2>1. p.zscore_window \in Nat \ {0}
    BY ParamsAssumption
  <2>2. n >= p.zscore_window
    BY <1>0, <1>9 DEF NothingToFill
  <2> HIDE DEF p
  <2>3. KalmanPairs(ind, p)[i] = KalmanPairs(g, p)[i]
    BY <2>1, <2>2, PairSignals
  <2>4. QED BY <1>9, <2>3 DEF Signals, p
<1>10. QED BY <1>1, <1>2, <1>3, <1>4, <1>5, <1>6, <1>7, <1>8, <1>9 DEF TriggerNames

\* What the rules said of the frame, and the residuals of its rows.
SignalInv ==
  /\ Len(ind) > 0 => \A t \in TriggerNames : events[t] = Signals(t, ind)
  /\ Len(ind) = 0 => \A t \in TriggerNames : events[t] = <<>>
  /\ Spreads(ind, Len(ind))

LEMMA SignalInit == StudyInit => SignalInv
<1> SUFFICES ASSUME StudyInit PROVE SignalInv
  OBVIOUS
<1>1. ind = <<>> /\ Len(ind) = 0 /\ \A t \in TriggerNames : events[t] = <<>>
  BY DEF StudyInit
<1>2. QED BY <1>1 DEF SignalInv, Spreads

\* A bar arrives: the frame before it and after it.
LEMMA BarArrives ==
  ASSUME StudyInv, StreamInv, SignalInv, NEW bar \in Bars, NewBar(bar)
  PROVE  /\ Longer(ind, ind', Len(ind)) /\ Spreads(ind', Len(ind) + 1)
         /\ \A t \in TriggerNames : events'[t] = Signals(t, ind')
<1> DEFINE n == Len(ind)
           m == n + 1
<1>1. /\ Sequence(ind) /\ Indicated(ind, n) /\ n \in Nat /\ DOMAIN ind = 1..n /\ Stands(ind)
  BY SequenceShape DEF StudyInv, ReadInv, StreamInv
<1>2. /\ IsBar(bar) /\ "spread" \in DOMAIN bar /\ bar.spread \in Int
      /\ ind' = AddIndicators(Append(ind, bar))
      /\ events' = [t \in TriggerNames |-> Signals(t, ind')]
  BY BarsAssumption DEF NewBar
<1>3. Len(ind') = n + 1 /\ Indicated(ind', n + 1)
  BY <1>1, <1>2, FrameGrows
<1>4. \A k \in 1..n : ind'[k] = ind[k]
  BY <1>1, <1>2, RowsStay
<1>5. ind'[m] = Columns(ind', m) ++ bar
  BY <1>1, <1>2, RowsStay
<1>6. Longer(ind, ind', n)
  BY <1>1, <1>3, <1>4 DEF Longer, Extends, Indicated
<1>7. ind'[m].spread \in Int
  <2> DEFINE c == Columns(ind', m)
  <2>1. "spread" \notin DOMAIN c
    <3>1. "spread" \notin ColumnNames
      BY DEF ColumnNames, DerivedNames, Kept, Names, ROLLING_SPEC
    <3>2. QED BY <3>1, ColumnsNamed
  <2> HIDE DEF c
  <2>2. (c ++ bar).spread = bar.spread
    BY <1>2, <2>1 DEF ++
  <2>3. ind'[m] = c ++ bar
    BY <1>5 DEF c
  <2>4. QED BY <1>2, <2>2, <2>3
<1>8. Spreads(ind', m)
  <2>1. Spreads(ind, n)
    BY DEF SignalInv
  <2>2. ASSUME NEW k \in 1..m PROVE ind'[k].spread \in Int
    <3>1. k \in 1..n \/ k = m
      BY <1>1
    <3>2. CASE k \in 1..n
      BY <1>4, <2>1, <3>2 DEF Spreads
    <3>3. CASE k = m
      BY <1>7, <3>3
    <3>4. QED BY <3>1, <3>2, <3>3
  <2> HIDE DEF m
  <2>3. QED BY <2>2 DEF Spreads
<1>9. QED BY <1>2, <1>6, <1>8

LEMMA SignalNext ==
  ASSUME StudyInv, StreamInv, SignalInv, [StudyNext]_studyVars
  PROVE  SignalInv'
<1>1. CASE UNCHANGED <<ind, events>>
  BY <1>1 DEF SignalInv, Spreads
<1>2. ASSUME NEW bar \in Bars, NewBar(bar) PROVE SignalInv'
  <2> DEFINE n == Len(ind)
             m == n + 1
  <2>1. Longer(ind, ind', n) /\ Spreads(ind', m) /\ \A t \in TriggerNames : events'[t] = Signals(t, ind')
    BY <1>2, BarArrives
  <2>2. n \in Nat /\ Len(ind') = m
    BY <2>1, LongerRows
  <2>3. m > 0 /\ m # 0
    BY <2>2
  <2> HIDE DEF m, n
  <2>4. QED BY <2>1, <2>2, <2>3 DEF SignalInv
<1>3. QED BY <1>1, <1>2 DEF StudyNext, studyVars, Start, ReplayBar

LEMMA SignalsArePrefix ==
  ASSUME StudyInv, StreamInv, SignalInv, [StudyNext]_studyVars
  PROVE  [phase' = "reading" =>
            \A t \in TriggerNames : NothingToFill(t) => IsPrefix(events[t], events[t]')]_ind
<1> SUFFICES ASSUME ind' # ind, NEW t \in TriggerNames, NothingToFill(t)
             PROVE  IsPrefix(events[t], events'[t])
  OBVIOUS
<1> DEFINE n == Len(ind)
           s == events[t]
           r == events'[t]
           k == n + 1
<1>1. PICK bar \in Bars : NewBar(bar)
  BY DEF StudyNext, studyVars, Start, ReplayBar
<1>2. Longer(ind, ind', n) /\ r = Signals(t, ind')
  BY <1>1, BarArrives
<1>3. n \in Nat /\ DOMAIN ind = 1..n /\ DOMAIN ind' = 1..k /\ Spreads(ind, n)
  <2>1. n \in Nat /\ DOMAIN ind = 1..n /\ DOMAIN ind' = 1..k
    BY <1>2, LongerRows
  <2>2. QED BY <2>1 DEF SignalInv
<1>4. r = [j \in 1..k |-> r[j]]
  <2> HIDE DEF k
  <2>1. QED BY <1>2, <1>3, SignalRows
<1>5. CASE n = 0
  <2>1. s = <<>>
    BY <1>5 DEF SignalInv
  <2>2. s = [j \in 1..n |-> s[j]] /\ \A j \in 1..n : s[j] = r[j]
    BY <1>5, <2>1
  <2> HIDE DEF s, r
  <2>3. RuleRows(s, r, n)
    BY <1>3, <1>4, <2>2 DEF RuleRows
  <2>4. QED BY <2>3, RowsArePrefix DEF s, r
<1>6. CASE n > 0
  <2>1. s = Signals(t, ind)
    BY <1>6 DEF SignalInv
  <2>2. s = [j \in 1..n |-> s[j]]
    BY <1>3, <2>1, SignalRows
  <2>3. \A j \in 1..n : s[j] = r[j]
    BY <1>2, <1>3, <2>1, SignalsStay
  <2> HIDE DEF s, r
  <2>4. RuleRows(s, r, n)
    BY <1>3, <1>4, <2>2, <2>3 DEF RuleRows
  <2>5. QED BY <2>4, RowsArePrefix DEF s, r
<1>7. QED BY <1>3, <1>5, <1>6

(***************************************************************************)
(* No lookahead in the signals: a bar that arrives leaves every earlier    *)
(* signal of every rule as it was, as soon as the rules that back-fill a   *)
(* window, and so read a later row, have nothing left to fill              *)
(* (src/research/triggers).                                                *)
(***************************************************************************)
THEOREM SignalsAreFinal == StudySpec => EventsAreFinal
<1>1. StudyInit => SignalInv
  BY SignalInit
<1>2. StudyInv /\ StreamInv /\ SignalInv /\ [StudyNext]_studyVars => SignalInv'
  BY SignalNext
<1>3. StudyInv /\ StreamInv /\ SignalInv /\ [StudyNext]_studyVars =>
        [phase' = "reading" =>
           \A t \in TriggerNames : NothingToFill(t) => IsPrefix(events[t], events[t]')]_ind
  BY SignalsArePrefix
<1>4. QED BY <1>1, <1>2, <1>3, StreamInvariant, PTL DEF StudySpec, EventsAreFinal
=============================================================================
