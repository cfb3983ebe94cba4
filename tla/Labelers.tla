------------------------------ MODULE Labelers ------------------------------
(***************************************************************************)
(* The exit labelers of research/labeling.py: for every event row, where   *)
(* and at which price a trade entered there ends.  `ind` is a frame with   *)
(* its indicator columns, `ev` an event row, `side` 1 or -1; rows count    *)
(* from 1.                                                                 *)
(*                                                                         *)
(* A return is kept as the price difference: the code takes its logarithm, *)
(* whose sign is the difference's.  ATR multipliers are in halves.         *)
(***************************************************************************)
EXTENDS Triggers

CONSTANT Exits      \* the parameters of every labeler, in one record

ASSUME ExitsAssumption ==
  /\ \A p \in {Exits.triple, Exits.triple_atr} :
       /\ p.horizon \in Nat
       /\ \/ p.mode = "pct" /\ {p.up, p.down} \subseteq (Nat \ {0}) \X (Nat \ {0})
          \/ p.mode = "atr" /\ p.upper \in Nat /\ p.lower \in Nat
  /\ Exits.turtle.mult \in Nat /\ Exits.horizon.horizon \in Nat
  /\ Exits.reversion.num_std \in Nat /\ Exits.reversion.max_hold \in Nat

\* An average true range as a price; the bars' prices make the mean exact.
AtrPrice(atr) == IF atr = NaN THEN NaN ELSE atr \div Period("atr")
PositiveAtr(atr) == IF atr = NaN THEN One ELSE IF atr > 0 THEN AtrPrice(atr) ELSE One

SignOf(x) == IF x > 0 THEN 1 ELSE IF x < 0 THEN -1 ELSE 0

\* Mutant: the last row of the set.
LastRow(rows, otherwise) == IF rows = {} THEN otherwise ELSE Max(rows)

\* The first row of a set, if there is one.
First(rows, otherwise) == IF rows = {} THEN otherwise ELSE Min(rows)

\* The events of a signal column and their sides.
EventRows(signals) == {i \in DOMAIN signals : signals[i] # 0}

-----------------------------------------------------------------------------
(* Triple barrier, vectorised and as a loop.                               *)

\* upper and lower barrier as fractions: take profit at (1 + upper), stop at
\* (1 + lower); for a short the entry is divided by them.
Scaled(price, factor, side) ==
  IF side = 1 THEN (price * factor[1]) \div factor[2] ELSE (price * factor[2]) \div factor[1]

AtrBarriers(ind, ev, side, p) ==
  LET atr == AtrPrice(ind[ev].atr)
      Moved(mult) == IF atr = NaN THEN NaN ELSE ind[ev].close + (mult * atr) \div 2
  IN [tp |-> Moved(side * p.upper), sl |-> Moved(-side * p.lower)]

\* The vectorised form keeps an ATR barrier at least 1e-8, here 1, off the entry.
Guarded(price, entry, side) ==
  IF price = NaN THEN NaN
  ELSE IF side = 1 THEN Max({price, entry + 1}) ELSE Min({price, entry - 1})

Barriers(ind, ev, side, p, guarded) ==
  LET entry == ind[ev].close
      raw == AtrBarriers(ind, ev, side, p)
  IN IF p.mode = "pct"
       THEN [tp |-> Scaled(entry, p.up, side), sl |-> Scaled(entry, p.down, side)]
     ELSE IF guarded
       THEN [tp |-> Guarded(raw.tp, entry, side), sl |-> Guarded(raw.sl, entry, -side)]
     ELSE raw

Reaches(row, price, side) ==
  price # NaN /\ IF side = 1 THEN row.high >= price ELSE row.low <= price

\* Mutant: both at once count as the profit.
UpperFirst(up, dn, horizon) ==
  CASE up # 0 /\ (dn = 0 \/ up <= dn)  -> [label |-> 1, barrier_hit |-> "upper", offset |-> up]
    [] dn # 0 /\ (up = 0 \/ dn < up) -> [label |-> -1, barrier_hit |-> "lower", offset |-> dn]
    [] up = 0 /\ dn = 0 -> [label |-> 0, barrier_hit |-> "timeout", offset |-> horizon]

\* The barrier that ends the trade, given the bars until each is touched (0: never
\* within the horizon): both at once count as the stop.
FirstTouched(up, dn, horizon) ==
  CASE dn # 0 /\ (up = 0 \/ dn <= up) -> [label |-> -1, barrier_hit |-> "lower", offset |-> dn]
    [] up # 0 /\ (dn = 0 \/ up < dn)  -> [label |-> 1, barrier_hit |-> "upper", offset |-> up]
    [] up = 0 /\ dn = 0 -> [label |-> 0, barrier_hit |-> "timeout", offset |-> horizon]

\* The columns both forms fill in for a trade left at the close of row `exit`.
LeftAt(ind, ev, exit, side, p) ==
  [exit_idx |-> exit, n_bars_held |-> exit - ev, entry_price |-> ind[ev].close,
   exit_price |-> ind[exit].close, actual_return |-> side * (ind[exit].close - ind[ev].close),
   return_atr |-> IF p.mode = "pct" THEN NaN
                  ELSE <<side * (ind[exit].close - ind[ev].close), PositiveAtr(ind[ev].atr)>>]

\* apply_triple_barrier, one event: cut off at the frame's end.
Vectorised(ind, ev, side, p, hit) ==
  [label |-> hit.label, barrier_hit |-> hit.barrier_hit, truncated |-> hit.offset > Len(ind) - ev]
  ++ LeftAt(ind, ev, Min({ev + hit.offset, Len(ind)}), side, p)

TripleBarrier(ind, ev, side, p) ==
  LET b == Barriers(ind, ev, side, p, TRUE)
      Touch(price, s) ==
        First({k \in 1..p.horizon : ev + k <= Len(ind) /\ Reaches(ind[ev+k], price, s)}, 0)
  IN Vectorised(ind, ev, side, p, FirstTouched(Touch(b.tp, side), Touch(b.sl, -side), p.horizon))

\* apply_triple_barrier_loop, one event: the rows in turn until a barrier is
\* touched.
TripleBarrierLoop(ind, ev, side, p) ==
  LET b == Barriers(ind, ev, side, p, FALSE)
      last == Min({ev + p.horizon, Len(ind)})
      scan[j \in ev+1 .. last+1] ==
        IF j > last THEN [label |-> 0, barrier_hit |-> "timeout", exit_idx |-> last]
        ELSE IF Reaches(ind[j], b.sl, -side)
          THEN [label |-> -1, barrier_hit |-> "lower", exit_idx |-> j]
        ELSE IF Reaches(ind[j], b.tp, side)
          THEN [label |-> 1, barrier_hit |-> "upper", exit_idx |-> j]
        ELSE scan[j+1]
      Row(found) == found ++ LeftAt(ind, ev, found.exit_idx, side, p)
                    ++ [truncated |-> ev + p.horizon > Len(ind) /\ found.label = 0]
  IN Row(scan[ev+1])

\* TripleBarrierLabeler adds the stop's distance: lower * ATR, or the entry times
\* the lower fraction.
TripleBarrierLabel(ind, ev, side, p) ==
  TripleBarrier(ind, ev, side, p) ++
  [stop_distance |->
     IF p.mode = "pct" THEN (ind[ev].close * (p.down[2] - p.down[1])) \div p.down[2]
     ELSE LET atr == AtrPrice(ind[ev].atr) IN IF atr = NaN THEN NaN ELSE (p.lower * atr) \div 2]

-----------------------------------------------------------------------------
(* The other labelers.                                                     *)

\* FixedHorizonLabeler: the close `horizon` rows on, or the last one.  y_norm is the
\* return over the daily ATR; its sign is the return's.
FixedHorizon(ind, ev, side, p) ==
  LET exit == Min({ev + p.horizon, Len(ind)})
  IN [exit_idx |-> exit, entry_price |-> ind[ev].close, exit_price |-> ind[exit].close,
      raw_return |-> side * (ind[exit].close - ind[ev].close),
      y_norm |-> side * (ind[exit].close - ind[ev].close)]

\* The exit a stop gives: a long sells at the worse of the close and the stop.
StopPrice(close, stop, side) == IF side = 1 THEN Min({close, stop}) ELSE Max({close, stop})

\* The columns every other labeler fills in.
ExitAt(ind, ev, exit, side, price, reason) ==
  [label |-> SignOf(side * (price - ind[ev].close)), barrier_hit |-> reason, exit_idx |-> exit,
   n_bars_held |-> exit - ev, entry_price |-> ind[ev].close, exit_price |-> price,
   actual_return |-> side * (price - ind[ev].close)]

\* TurtleExitLabeler: an ATR stop or the reverse channel, whichever comes first.
TurtleExit(ind, ev, side, p) ==
  LET stop == ind[ev].close - side * ((p.mult * PositiveAtr(ind[ev].atr)) \div 2)
      StopHit(j) == IF side = 1 THEN ind[j].low <= stop ELSE ind[j].high >= stop
      ChannelHit(j) == IF side = 1 THEN Below(ind[j].close, ind[j].exit_low)
                                   ELSE Above(ind[j].close, ind[j].exit_high)
      Exit(hits, j) ==
        IF hits = {} THEN ExitAt(ind, ev, j, side, ind[j].close, "timeout")
        ELSE IF StopHit(j)
          THEN ExitAt(ind, ev, j, side, StopPrice(ind[j].close, stop, side), "stop")
        ELSE ExitAt(ind, ev, j, side, ind[j].close, "signal")
      Ended(hits) == Exit(hits, First(hits, Len(ind)))
  IN Ended({j \in ev+1 .. Len(ind) : StopHit(j) \/ ChannelHit(j)})

\* The channel a trailing stop follows, and the stop a position entered at `ev`
\* has while bar j trades: the best value up to the bar before, or nothing once
\* a value is missing.
TrailValue(row, side) == IF side = 1 THEN row.exit_low ELSE row.exit_high
TrailStop(ind, ev, side, j) ==
  LET seen == {TrailValue(ind[k], side) : k \in ev .. j-1}
  IN IF NaN \in seen THEN NaN ELSE IF side = 1 THEN Max(seen) ELSE Min(seen)

\* TrailingExitLabeler.
TrailingStopExit(ind, ev, side) ==
  LET start == TrailValue(ind[ev], side)
      risk == IF start = NaN THEN NaN ELSE side * (ind[ev].close - start)
      Exit(hits, j) ==
        IF hits = {} THEN ExitAt(ind, ev, j, side, ind[j].close, "still_open")
        ELSE ExitAt(ind, ev, j, side, StopPrice(ind[j].close, TrailStop(ind, ev, side, j), side),
                    "trailing_stop")
      Ended(hits) == Exit(hits, First(hits, Len(ind)))
      Measured(row) ==
        row ++ [stop_distance |-> risk,
                r_multiple |-> IF risk = NaN THEN NaN ELSE <<row.actual_return, risk>>]
  IN Measured(Ended({j \in ev+1 .. Len(ind) : Reaches(ind[j], TrailStop(ind, ev, side, j), -side)}))

\* MeanReversionLabeler: back to the mean at entry, one band against it, or out of
\* time.  Every event is taken as a long.  The band is num_std deviations, the
\* whole number below it here; the code stops one band below the entry.
MeanReversion(ind, ev, p) ==
  LET entry == ind[ev].close
      mean == ind[ev].ma
      var == ind[ev].close_std
      last == Min({ev + p.max_hold, Len(ind)})
      AtTarget(j) == mean # NaN /\ Period("ma") * ind[j].close >= mean
      \* close <= entry - num_std * std
      AtStop(j) == var # NaN /\ ReachesRoot(Period("ma") * (entry - ind[j].close), p.num_std, var)
      Exit(hits, j) ==
        ExitAt(ind, ev, j, 1, ind[j].close,
               IF hits = {} THEN "timeout" ELSE IF AtTarget(j) THEN "upper" ELSE "lower")
      Ended(hits) == Exit(hits, First(hits, last))
      Fits(d) == ~ExceedsRoot(Period("ma") * d, p.num_std, var)
      band == IF var = NaN THEN NaN
              ELSE CHOOSE d \in 0..entry : Fits(d) /\ (Fits(d + 1) => d = entry)
      Measured(row, risk) ==
        row ++ [stop_distance |-> risk,
                r_multiple |-> IF risk \in {NaN, 0} THEN <<0, 1>> ELSE <<row.actual_return, risk>>]
  IN Measured(Ended({j \in ev+1 .. last : AtTarget(j) \/ AtStop(j)}), band)

-----------------------------------------------------------------------------
LabelerNames == {"triple", "triple_atr", "turtle", "trailing", "reversion", "horizon"}

\* compute_labels of the labeler a study names, one event.
Label(labeler, ind, ev, side) ==
  CASE labeler = "triple"    -> TripleBarrierLabel(ind, ev, side, Exits.triple)
    [] labeler = "triple_atr" -> TripleBarrierLabel(ind, ev, side, Exits.triple_atr)
    [] labeler = "turtle"    -> TurtleExit(ind, ev, side, Exits.turtle)
    [] labeler = "trailing"  -> TrailingStopExit(ind, ev, side)
    [] labeler = "reversion" -> MeanReversion(ind, ev, Exits.reversion)
    [] labeler = "horizon"   -> FixedHorizon(ind, ev, side, Exits.horizon)

\* compute_labels: one label an event row, by row.
Labels(labeler, ind, signals) ==
  [ev \in EventRows(signals) |-> Label(labeler, ind, ev, signals[ev])]

\* Has the trade of this label ended within the frame, whatever rows follow?
Settled(label, ind) ==
  \/ label.exit_idx < Len(ind)
  \/ "barrier_hit" \in DOMAIN label /\ label.barrier_hit \notin {"timeout", "still_open"}
=============================================================================
