------------------------- MODULE TrailingStop_proofs -------------------------
(***************************************************************************)
(* Lemmas about the operators of TrailingStop: the extremes of a window    *)
(* exist and are prices, every level the stop computes is a price, and     *)
(* trimming a window keeps its newest end.                                 *)
(***************************************************************************)
EXTENDS TrailingStop, TLAPS, WellFoundedInduction, SequenceTheorems

NatOrder == OpToRel(<, Nat)

\* Every nonempty set of naturals has a least element (the code's min_element).
LEMMA LeastNat ==
  ASSUME NEW T, T \subseteq Nat, T # {}
  PROVE  \E x \in T : \A y \in T : x <= y
<1>1. \E x \in T : \A y \in T : ~(<<y, x>> \in NatOrder)
  BY WFMin, NatLessThanWellFounded, Zenon DEF NatOrder
<1>2. PICK x \in T : \A y \in T : ~(<<y, x>> \in NatOrder)
  BY <1>1
<1>3. ASSUME NEW y \in T PROVE x <= y
  <2>1. ~(y < x)
    BY <1>2, <1>3 DEF NatOrder, OpToRel
  <2>2. QED BY <2>1, <1>3
<1>4. QED BY <1>2, <1>3

\* Min is a least element.
LEMMA MinIsLeast ==
  ASSUME NEW T, T \subseteq Nat, T # {}
  PROVE  Min(T) \in T /\ \A y \in T : Min(T) <= y
BY LeastNat DEF Min

\* The first n values of a finite list have a greatest one (the code's max_element).
LEMMA GreatestValue ==
  ASSUME NEW L \in Nat, NEW h \in [1..L -> Nat], NEW n \in 1..L
  PROVE  \E k \in 1..n : \A i \in 1..n : h[i] <= h[k]
<1> DEFINE Top(m) == \E k \in 1..m : \A i \in 1..m : h[i] <= h[k]
           Bad == {m \in 1..L : ~Top(m)}
<1>1. L \in Nat /\ \A i \in 1..L : h[i] \in Nat
  OBVIOUS
<1>2. Bad \subseteq Nat
  BY <1>1
<1>3. ASSUME Bad # {} PROVE FALSE
  <2> HIDE DEF Bad
  <2>1. PICK m \in Bad : \A y \in Bad : m <= y
    BY <1>2, <1>3, LeastNat
  <2> USE DEF Bad
  <2>2. m \in 1..L /\ ~Top(m)
    BY <2>1
  <2>3. m # 1
    <3>1. h[1] <= h[1]
      BY <1>1, <2>2
    <3>2. Top(1)
      BY <3>1
    <3>3. QED BY <2>2, <3>2
  <2>4. m - 1 \in 1..L /\ ~(m <= m - 1)
    BY <1>1, <2>2, <2>3
  <2>5. Top(m - 1)
    BY <2>1, <2>4
  <2>6. PICK k \in 1..(m - 1) : \A i \in 1..(m - 1) : h[i] <= h[k]
    BY <2>5
  <2>7. \A i \in 1..m : i \in 1..(m - 1) \/ i = m
    BY <2>2, <1>1
  <2>8. CASE h[m] <= h[k]
    <3>1. \A i \in 1..m : h[i] <= h[k]
      BY <2>6, <2>7, <2>8
    <3>2. k \in 1..m
      BY <1>1, <2>2, <2>6
    <3>3. QED BY <2>2, <3>1, <3>2
  <2>9. CASE ~(h[m] <= h[k])
    <3>1. k \in 1..L /\ m \in 1..L
      BY <1>1, <2>2, <2>6
    <3>2. ASSUME NEW i \in 1..m PROVE h[i] <= h[m]
      <4>1. i \in 1..L
        BY <1>1, <2>2
      <4>2. CASE i = m
        BY <1>1, <3>1, <4>2
      <4>3. CASE i \in 1..(m - 1)
        <5>1. h[i] <= h[k]
          BY <2>6, <4>3
        <5>2. QED BY <1>1, <2>9, <3>1, <4>1, <5>1
      <4>4. QED BY <2>7, <4>2, <4>3
    <3>3. m \in 1..m
      BY <1>1, <2>2
    <3>4. QED BY <2>2, <3>2, <3>3
  <2>10. QED BY <2>8, <2>9
<1>4. QED BY <1>3

\* A nonempty window has a lowest low, one of its lows.
LEMMA LowestLow ==
  ASSUME NEW w \in Seq(Bar), w # <<>>
  PROVE  Min(Lows(w)) \in Nat \ {0} /\ \A i \in DOMAIN w : Min(Lows(w)) <= w[i].low
<1>1. \A i \in DOMAIN w : w[i] \in Bar
  OBVIOUS
<1>2. \A b \in Bar : b.low \in Nat \ {0}
  BY DEF Bar
<1>3. Lows(w) \subseteq Nat \ {0}
  BY <1>1, <1>2 DEF Lows
<1>4. w[1].low \in Lows(w)
  BY DEF Lows
<1>5. Min(Lows(w)) \in Lows(w) /\ \A x \in Lows(w) : Min(Lows(w)) <= x
  BY <1>3, <1>4, MinIsLeast
<1>6. \A i \in DOMAIN w : w[i].low \in Lows(w)
  BY DEF Lows
<1>7. QED BY <1>3, <1>5, <1>6

\* A nonempty window has a highest high, one of its highs.
LEMMA HighestHigh ==
  ASSUME NEW w \in Seq(Bar), w # <<>>
  PROVE  Max(Highs(w)) \in Nat \ {0} /\ \A i \in DOMAIN w : w[i].high <= Max(Highs(w))
<1> DEFINE h == [i \in 1..Len(w) |-> w[i].high]
<1>1. \A i \in 1..Len(w) : w[i] \in Bar
  OBVIOUS
<1>2. \A b \in Bar : b.high \in Nat \ {0}
  BY DEF Bar
<1>3. h \in [1..Len(w) -> Nat] /\ Highs(w) \subseteq Nat \ {0} /\ Len(w) \in 1..Len(w)
  BY <1>1, <1>2 DEF Highs
<1>4. PICK k \in 1..Len(w) : \A i \in 1..Len(w) : h[i] <= h[k]
  <2> HIDE DEF h
  <2>1. Len(w) \in Nat
    OBVIOUS
  <2>2. QED BY <1>3, <2>1, GreatestValue
<1>5. w[k].high \in Highs(w) /\ \A i \in 1..Len(w) : w[i].high <= w[k].high
  BY <1>4 DEF Highs
<1>6. \A x \in Highs(w) : x <= w[k].high
  BY <1>5 DEF Highs
<1>7. Max(Highs(w)) \in Highs(w) /\ \A x \in Highs(w) : x <= Max(Highs(w))
  <2>1. \E m \in Highs(w) : \A x \in Highs(w) : m >= x
    BY <1>3, <1>5, <1>6
  <2>2. QED BY <1>3, <2>1 DEF Max
<1>8. \A i \in 1..Len(w) : w[i].high \in Highs(w)
  BY DEF Highs
<1>9. QED BY <1>3, <1>7, <1>8

\* Running sums of a list exist: the recursion of CloseSum has a solution.
LEMMA RunningSum ==
  ASSUME NEW L \in Nat, NEW h \in [1..L -> Nat]
  PROVE  \E g \in [0..L -> Nat] : g = [i \in 0..L |-> IF i = 0 THEN 0 ELSE g[i - 1] + h[i]]
<1> DEFINE Sums(m, g) == g = [i \in 0..m |-> IF i = 0 THEN 0 ELSE g[i - 1] + h[i]]
           Solved(m) == \E g \in [0..m -> Nat] : Sums(m, g)
           Bad == {m \in 0..L : ~Solved(m)}
<1>1. Bad \subseteq Nat
  OBVIOUS
<1>2. Solved(0)
  <2>1. [i \in 0..0 |-> 0] \in [0..0 -> Nat]
    OBVIOUS
  <2>2. Sums(0, [i \in 0..0 |-> 0])
    OBVIOUS
  <2>3. QED BY <2>1, <2>2
<1>3. ASSUME NEW m \in 1..L, Solved(m - 1) PROVE Solved(m)
  <2>1. PICK g \in [0..(m - 1) -> Nat] : Sums(m - 1, g)
    BY <1>3
  <2>2. \A i \in 0..(m - 1) : g[i] = IF i = 0 THEN 0 ELSE g[i - 1] + h[i]
    <3> DEFINE F == [i \in 0..(m - 1) |-> IF i = 0 THEN 0 ELSE g[i - 1] + h[i]]
    <3>1. g = F
      BY <2>1
    <3>2. ASSUME NEW i \in 0..(m - 1) PROVE F[i] = IF i = 0 THEN 0 ELSE g[i - 1] + h[i]
      OBVIOUS
    <3> HIDE DEF F
    <3>3. QED BY <3>1, <3>2
  <2> DEFINE f == [i \in 0..m |-> IF i = m THEN g[m - 1] + h[m] ELSE g[i]]
  <2>3. f \in [0..m -> Nat]
    OBVIOUS
  <2>4. ASSUME NEW i \in 0..m PROVE f[i] = IF i = 0 THEN 0 ELSE f[i - 1] + h[i]
    <3>1. CASE i = m
      BY <3>1
    <3>2. CASE i # m
      <4>1. i \in 0..(m - 1)
        BY <3>2
      <4>2. f[i] = g[i] /\ (i # 0 => f[i - 1] = g[i - 1])
        BY <3>2, <4>1
      <4>3. QED BY <2>2, <4>1, <4>2
    <3>3. QED BY <3>1, <3>2
  <2>5. Sums(m, f)
    <3> HIDE DEF f
    <3>1. QED BY <2>3, <2>4
  <2>6. QED BY <2>3, <2>5
<1>4. ASSUME Bad # {} PROVE FALSE
  <2> HIDE DEF Bad
  <2>1. PICK m \in Bad : \A y \in Bad : m <= y
    BY <1>1, <1>4, LeastNat
  <2> USE DEF Bad
  <2> HIDE DEF Solved
  <2>2. m \in 0..L /\ ~Solved(m)
    BY <2>1
  <2>3. m # 0
    BY <1>2, <2>2
  <2>4. m \in 1..L /\ m - 1 \in 0..L /\ ~(m <= m - 1)
    BY <2>2, <2>3
  <2>5. Solved(m - 1)
    BY <2>1, <2>4
  <2>6. QED BY <1>3, <2>2, <2>4, <2>5
<1>5. Solved(L)
  <2> HIDE DEF Solved
  <2>1. QED BY <1>4
<1>6. QED BY <1>5

\* The sum of a window's closes is a natural number.
LEMMA CloseSumNat ==
  ASSUME NEW w \in Seq(Bar)
  PROVE  CloseSum(w) \in Nat
<1> DEFINE L == Len(w)
           h == [i \in 1..L |-> w[i].close]
           Solves(g) == g = [i \in 0..L |-> IF i = 0 THEN 0 ELSE g[i - 1] + w[i].close]
           sum == CHOOSE g : Solves(g)
<1>1. L \in Nat /\ h \in [1..L -> Nat]
  <2>1. \A i \in 1..L : w[i] \in Bar
    OBVIOUS
  <2>2. \A b \in Bar : b.close \in Nat
    BY DEF Bar
  <2>3. QED BY <2>1, <2>2
<1>2. PICK g \in [0..L -> Nat] : g = [i \in 0..L |-> IF i = 0 THEN 0 ELSE g[i - 1] + h[i]]
  <2> HIDE DEF L, h
  <2>1. QED BY <1>1, RunningSum
<1>3. Solves(g)
  <2>1. \A i \in 1..L : h[i] = w[i].close
    OBVIOUS
  <2>2. \A i \in 0..L : i # 0 => i \in 1..L
    BY <1>1
  <2> HIDE DEF L, h
  <2>3. QED BY <1>2, <2>1, <2>2
<1>4. Solves(sum)
  BY <1>3
<1>5. CloseSum(w) = sum[L]
  BY DEF CloseSum
<1>6. ASSUME NEW f, Solves(f) PROVE \A n \in 0..L : f[n] \in Nat
  <2> DEFINE Bad == {n \in 0..L : f[n] \notin Nat}
  <2>1. SUFFICES ASSUME Bad # {} PROVE FALSE
    OBVIOUS
  <2>2. Bad \subseteq Nat
    BY <1>1
  <2>3. PICK n \in Bad : \A y \in Bad : n <= y
    <3> HIDE DEF Bad
    <3>1. QED BY <2>1, <2>2, LeastNat
  <2>4. f[n] = IF n = 0 THEN 0 ELSE f[n - 1] + w[n].close
    <3> DEFINE F == [i \in 0..L |-> IF i = 0 THEN 0 ELSE f[i - 1] + w[i].close]
    <3>1. f = F
      BY <1>6
    <3>2. \A i \in 0..L : F[i] = IF i = 0 THEN 0 ELSE f[i - 1] + w[i].close
      OBVIOUS
    <3> HIDE DEF F
    <3>3. QED BY <2>3, <3>1, <3>2
  <2>5. n # 0
    BY <2>3, <2>4
  <2>6. n - 1 \in 0..L /\ ~(n <= n - 1) /\ n \in 1..L
    BY <1>1, <2>3, <2>5
  <2>7. f[n - 1] \in Nat
    BY <2>3, <2>6
  <2>8. w[n].close \in Nat
    BY <1>1, <2>6
  <2>9. QED BY <2>3, <2>4, <2>5, <2>7, <2>8
<1>7. L \in 0..L
  BY <1>1
<1> HIDE DEF Solves, sum, L
<1>8. QED BY <1>4, <1>5, <1>6, <1>7

(***************************************************************************)
(* trailing_level() of a well-typed stop is a price: for every indicator   *)
(* and every window, the empty one included.                               *)
(***************************************************************************)
THEOREM TrailingLevelNat ==
  ASSUME NEW ts \in Stop
  PROVE  TrailingLevel(ts) \in Nat
<1>1. ts.window \in Seq(Bar) /\ ts.indicator \in Indicators
  BY DEF Stop
<1>2. CASE ts.window = <<>>
  BY <1>2 DEF TrailingLevel
<1>3. CASE ts.window # <<>>
  <2>1. Min(Lows(ts.window)) \in Nat /\ Max(Highs(ts.window)) \in Nat
    BY <1>1, <1>3, LowestLow, HighestHigh
  <2>2. CloseSum(ts.window) \div Len(ts.window) \in Nat
    <3>1. CloseSum(ts.window) \in Nat
      BY <1>1, CloseSumNat
    <3>2. Len(ts.window) \in Nat \ {0}
      BY <1>1, <1>3
    <3>3. \A a \in Nat, b \in Nat \ {0} : a \div b \in Nat
      OBVIOUS
    <3>4. QED BY <3>1, <3>2, <3>3
  <2>3. QED BY <1>1, <1>3, <2>1, <2>2 DEF TrailingLevel, Indicators
<1>4. QED BY <1>2, <1>3

(***************************************************************************)
(* Trimming keeps the newest end of a window: no longer than the period    *)
(* once one is configured, the same bars at the same distance from the     *)
(* end.                                                                    *)
(***************************************************************************)
LEMMA TrimmedIsNewestEnd ==
  ASSUME NEW w \in Seq(Bar), NEW p \in Nat
  PROVE  /\ Trimmed(w, p) \in Seq(Bar)
         /\ Len(Trimmed(w, p)) = IF p > 0 /\ Len(w) > p THEN p ELSE Len(w)
         /\ \A i \in 1..Len(Trimmed(w, p)) :
              Trimmed(w, p)[i] = w[Len(w) - Len(Trimmed(w, p)) + i]
<1>1. CASE p > 0 /\ Len(w) > p
  <2>1. Trimmed(w, p) = SubSeq(w, Len(w) - p + 1, Len(w))
    BY <1>1 DEF Trimmed
  <2>2. Len(w) - p + 1 \in 1..(Len(w) + 1) /\ Len(w) \in (Len(w) - p)..Len(w)
    BY <1>1
  <2>3. /\ SubSeq(w, Len(w) - p + 1, Len(w)) \in Seq(Bar)
        /\ Len(SubSeq(w, Len(w) - p + 1, Len(w))) = p
        /\ \A i \in 1..p : SubSeq(w, Len(w) - p + 1, Len(w))[i] = w[Len(w) - p + i]
    BY <1>1, <2>2, SubSeqProperties
  <2>4. QED BY <1>1, <2>1, <2>3
<1>2. CASE ~(p > 0 /\ Len(w) > p)
  <2>1. Trimmed(w, p) = w
    BY <1>2 DEF Trimmed
  <2>2. Len(w) \in Nat /\ \A i \in 1..Len(w) : w[i] = w[Len(w) - Len(w) + i]
    OBVIOUS
  <2>3. QED BY <1>2, <2>1, <2>2
<1>3. QED BY <1>1, <1>2

\* observe() keeps a stop well typed, and touches nothing but the window.
LEMMA ObserveStop ==
  ASSUME NEW ts \in Stop, NEW bar \in Bar
  PROVE  /\ Observe(ts, bar) \in Stop
         /\ Observe(ts, bar) = [ts EXCEPT !.window = Observe(ts, bar).window]
<1>1. Append(ts.window, bar) \in Seq(Bar) /\ ts.period \in Nat
  BY DEF Stop
<1>2. Trimmed(Append(ts.window, bar), ts.period) \in Seq(Bar)
  BY <1>1, TrimmedIsNewestEnd
<1>3. QED BY <1>2 DEF Observe, Stop

\* on_bar() keeps a stop well typed.
LEMMA AfterBarStop ==
  ASSUME NEW ts \in Stop, NEW bar \in Bar
  PROVE  AfterBar(ts, bar) \in Stop
<1>1. TrailingLevel(ts) \in Nat
  BY TrailingLevelNat
<1>2. ts.extreme \in Nat /\ ts.side \in Sides
  BY DEF Stop
<1>3. /\ Larger(ts.extreme, TrailingLevel(ts)) \in Nat
      /\ Smaller(ts.extreme, TrailingLevel(ts)) \in Nat
  BY <1>1, <1>2 DEF Larger, Smaller
<1>4. Trailed(ts) \in Stop
  BY <1>2, <1>3 DEF Trailed, Stop, Sides
<1>5. Reset(ts) \in Stop
  BY DEF Reset, Stop, Sides
<1>6. QED BY <1>4, <1>5 DEF AfterBar

\* The stop in force is a price, and the lookback window has no part in it.
LEMMA InForceNat ==
  ASSUME NEW ts \in Stop
  PROVE  InForce(ts) \in Nat
BY DEF Stop, InForce, Larger, Smaller

LEMMA ObserveKeepsStop ==
  ASSUME NEW ts \in Stop, NEW bar \in Bar
  PROVE  /\ InForce(Observe(ts, bar)) = InForce(ts)
         /\ Observe(ts, bar).side = ts.side
         /\ Observe(ts, bar).hard = ts.hard
         /\ Observe(ts, bar).extreme = ts.extreme
         /\ Observe(ts, bar).period = ts.period
         /\ \A b \in Bar : Hit(Observe(ts, bar), b) = Hit(ts, b)
<1> DEFINE w == Trimmed(Append(ts.window, bar), ts.period)
<1>1. Observe(ts, bar) = [ts EXCEPT !.window = w]
  BY DEF Observe
<1> HIDE DEF w
<1>2. /\ Observe(ts, bar).side = ts.side
      /\ Observe(ts, bar).hard = ts.hard
      /\ Observe(ts, bar).extreme = ts.extreme
      /\ Observe(ts, bar).period = ts.period
  BY <1>1 DEF Stop
<1>3. InForce(Observe(ts, bar)) = InForce(ts)
  BY <1>2 DEF InForce
<1>4. QED BY <1>2, <1>3 DEF Hit

(***************************************************************************)
(* on_bar() that does not close the position leaves a stop at least as     *)
(* tight on the same side: it trails in the position's favour, never       *)
(* against it (trailing_stop.cpp:59, 68).                                  *)
(***************************************************************************)
THEOREM TrailsOneWay ==
  ASSUME NEW ts \in Stop
  PROVE  /\ Trailed(ts).side = ts.side
         /\ ts.side > 0 => InForce(Trailed(ts)) >= InForce(ts)
         /\ ts.side < 0 => InForce(Trailed(ts)) <= InForce(ts)
         /\ ts.side = 0 => Trailed(ts) = ts
<1>1. TrailingLevel(ts) \in Nat
  BY TrailingLevelNat
<1>2. ts.side \in Sides /\ ts.hard \in Nat /\ ts.extreme \in Nat
  BY DEF Stop
<1>3. CASE ts.side = 1
  <2>1. Trailed(ts) = [ts EXCEPT !.extreme = Larger(ts.extreme, TrailingLevel(ts))]
    BY <1>3 DEF Trailed
  <2>2. /\ Trailed(ts).side = 1 /\ Trailed(ts).hard = ts.hard
        /\ Trailed(ts).extreme = Larger(ts.extreme, TrailingLevel(ts))
    BY <1>3, <2>1 DEF Stop
  <2>3. QED BY <1>1, <1>2, <1>3, <2>2 DEF InForce, Larger
<1>4. CASE ts.side = -1
  <2>1. Trailed(ts) = [ts EXCEPT !.extreme = Smaller(ts.extreme, TrailingLevel(ts))]
    BY <1>4 DEF Trailed
  <2>2. /\ Trailed(ts).side = -1 /\ Trailed(ts).hard = ts.hard
        /\ Trailed(ts).extreme = Smaller(ts.extreme, TrailingLevel(ts))
    BY <1>4, <2>1 DEF Stop
  <2>3. QED BY <1>1, <1>2, <1>4, <2>2 DEF InForce, Smaller
<1>5. CASE ts.side = 0
  BY <1>5 DEF Trailed
<1>6. QED BY <1>2, <1>3, <1>4, <1>5 DEF Sides
==============================================================================
