------------------------ MODULE LiveExposure_proofs ------------------------
(***************************************************************************)
(* What the one position of a live session rests on, and then its stop:    *)
(* the one that watches it is its own order's, and one that fired is       *)
(* closing it.  For any set of strategy files, any number of bars and of   *)
(* every fault the properties do not exclude.                              *)
(***************************************************************************)
EXTENDS LiveTrading_proofs, FiniteSetTheorems

-----------------------------------------------------------------------------
(***************************************************************************)
(* The bot decides on what it is told of the position, late and in part.   *)
(* Its view is what it was told and may still be told, in order: that it   *)
(* saw a position, the klines under way, the engine's position (at 0), the *)
(* account messages under way, the exchange's position.  A message with no *)
(* word of the position says "none".                                       *)
(***************************************************************************)
Word(position) == IF position = 0 THEN "zero" ELSE "held"
Told(m) == IF m.kind \in {"kline", "account"} THEN Word(m.position) ELSE "none"
Saw(saw) == IF saw THEN "held" ELSE "none"

ViewOf(saw, s, position, t, net) ==
  [i \in -(Len(s) + 1)..(Len(t) + 1) |->
     IF i = -(Len(s) + 1) THEN Saw(saw)
     ELSE IF i < 0 THEN Told(s[i + Len(s) + 1])
     ELSE IF i = 0 THEN Word(position)
     ELSE IF i <= Len(t) THEN Told(t[i]) ELSE Word(net)]

\* Nowhere a position; a position that went; none that comes after one went; none that
\* comes at all.
Flat(v) == \A i \in DOMAIN v : v[i] # "held"
Gone(v) == \E i, j \in DOMAIN v : i < j /\ v[i] = "held" /\ v[j] = "zero"
Settles(v) == \A i, j, k \in DOMAIN v :
                i < j /\ j < k /\ v[i] = "held" /\ v[j] = "zero" => v[k] # "held"
Falls(v) == \A i, j \in DOMAIN v : i < j /\ v[i] = "zero" => v[j] # "held"

\* A view w that tells, in the same order, nothing that v does not tell.
Thins(v, w) ==
  \E g : /\ \A i \in DOMAIN w : g[i] \in DOMAIN v
         /\ \A i, j \in DOMAIN w : i < j => g[i] <= g[j]
         /\ \A i \in DOMAIN w : w[i] = "none" \/ w[i] = v[g[i]]

Calmer(v, w) == /\ Flat(v) => Flat(w)
                /\ Gone(w) => Gone(v)
                /\ Settles(v) => Settles(w)
                /\ Falls(v) => Falls(w)

LEMMA ThinnerIsCalmer ==
  ASSUME NEW v, NEW w, DOMAIN v \subseteq Int, Thins(v, w)
  PROVE  Calmer(v, w)
<1>1. PICK g : /\ \A i \in DOMAIN w : g[i] \in DOMAIN v
               /\ \A i, j \in DOMAIN w : i < j => g[i] <= g[j]
               /\ \A i \in DOMAIN w : w[i] = "none" \/ w[i] = v[g[i]]
  BY DEF Thins
<1>2. ASSUME NEW i \in DOMAIN w, NEW j \in DOMAIN w, i < j, w[i] = "held", w[j] = "zero"
      PROVE  g[i] \in DOMAIN v /\ g[j] \in DOMAIN v /\ g[i] < g[j]
             /\ v[g[i]] = "held" /\ v[g[j]] = "zero"
  <2>1. v[g[i]] = "held" /\ v[g[j]] = "zero" /\ g[i] \in DOMAIN v /\ g[j] \in DOMAIN v
    BY <1>1, <1>2
  <2>2. g[i] <= g[j] /\ g[i] # g[j] /\ g[i] \in Int /\ g[j] \in Int
    BY <1>1, <1>2, <2>1
  <2>3. QED BY <2>1, <2>2
<1>3. ASSUME NEW i \in DOMAIN w, NEW j \in DOMAIN w, i < j, w[i] = "zero", w[j] = "held"
      PROVE  g[i] \in DOMAIN v /\ g[j] \in DOMAIN v /\ g[i] < g[j]
             /\ v[g[i]] = "zero" /\ v[g[j]] = "held"
  <2>1. v[g[i]] = "zero" /\ v[g[j]] = "held" /\ g[i] \in DOMAIN v /\ g[j] \in DOMAIN v
    BY <1>1, <1>3
  <2>2. g[i] <= g[j] /\ g[i] # g[j] /\ g[i] \in Int /\ g[j] \in Int
    BY <1>1, <1>3, <2>1
  <2>3. QED BY <2>1, <2>2
<1>4. Flat(v) => Flat(w)
  BY <1>1 DEF Flat
<1>5. Gone(w) => Gone(v)
  BY <1>2 DEF Gone
<1>6. Settles(v) => Settles(w)
  BY <1>2, <1>3 DEF Settles
<1>7. Falls(v) => Falls(w)
  BY <1>3 DEF Falls
<1>8. QED BY <1>4, <1>5, <1>6, <1>7 DEF Calmer

LEMMA CalmerStill ==
  ASSUME NEW u, NEW v, NEW w, Calmer(u, v), Calmer(v, w)
  PROVE  Calmer(u, w)
BY DEF Calmer

\* Where a view keeps what.
Parts(v, saw, s, p, t, n) ==
  /\ Len(s) \in Nat /\ Len(t) \in Nat
  /\ DOMAIN v = -(Len(s) + 1)..(Len(t) + 1)
  /\ v[-(Len(s) + 1)] = Saw(saw)
  /\ \A i \in -Len(s)..(-1) : v[i] = Told(s[i + Len(s) + 1])
  /\ v[0] = Word(p)
  /\ \A i \in 1..Len(t) : v[i] = Told(t[i])
  /\ v[Len(t) + 1] = Word(n)

LEMMA ViewParts ==
  ASSUME NEW s, NEW t, IsSeq(s), IsSeq(t), NEW saw, NEW p, NEW n
  PROVE  Parts(ViewOf(saw, s, p, t, n), saw, s, p, t, n)
<1> DEFINE a == Len(s)
           b == Len(t)
           v == ViewOf(saw, s, p, t, n)
<1>1. a \in Nat /\ b \in Nat
  BY LenProperties DEF IsSeq
<1>2. v = [i \in -(a + 1)..(b + 1) |->
             IF i = -(a + 1) THEN Saw(saw)
             ELSE IF i < 0 THEN Told(s[i + a + 1])
             ELSE IF i = 0 THEN Word(p)
             ELSE IF i <= b THEN Told(t[i]) ELSE Word(n)]
  BY DEF ViewOf
<1> HIDE DEF v, a, b
<1>3. DOMAIN v = -(a + 1)..(b + 1)
  BY <1>2
<1>4. -(a + 1) \in DOMAIN v /\ 0 \in DOMAIN v /\ b + 1 \in DOMAIN v
  BY <1>1, <1>3
<1>5. v[-(a + 1)] = Saw(saw) /\ v[0] = Word(p) /\ v[b + 1] = Word(n)
  BY <1>1, <1>2, <1>3, <1>4
<1>6. \A i \in -a..(-1) : v[i] = Told(s[i + a + 1])
  BY <1>1, <1>2, <1>3
<1>7. \A i \in 1..b : v[i] = Told(t[i])
  BY <1>1, <1>2, <1>3
<1>8. QED BY <1>1, <1>3, <1>5, <1>6, <1>7 DEF Parts, a, b, v

-----------------------------------------------------------------------------
(* What a step does to the view.                                           *)

\* The engine publishes a bar with its own position, or a message without one.
LEMMA PublishedView ==
  ASSUME NEW s, NEW t, IsSeq(s), IsSeq(t), NEW saw, NEW p, NEW n,
         NEW m, Told(m) \in {"none", Word(p)}
  PROVE  Calmer(ViewOf(saw, s, p, t, n), ViewOf(saw, Append(s, m), p, t, n))
<1> DEFINE r == Append(s, m)
           v == ViewOf(saw, s, p, t, n)
           w == ViewOf(saw, r, p, t, n)
           a == Len(s)
           b == Len(t)
           g == [i \in DOMAIN w |-> IF i < 0 THEN i + 1 ELSE i]
<1>1. IsSeq(r) /\ Len(r) = a + 1 /\ r[a + 1] = m /\ \A i \in 1..a : r[i] = s[i]
  BY AppendElements
<1>2. Parts(v, saw, s, p, t, n) /\ Parts(w, saw, r, p, t, n)
  BY <1>1, ViewParts
<1> HIDE DEF r, v, w
<1>3. /\ a \in Nat /\ b \in Nat /\ DOMAIN v = -(a + 1)..(b + 1) /\ DOMAIN v \subseteq Int
      /\ DOMAIN w = -(a + 2)..(b + 1)
  BY <1>1, <1>2 DEF Parts
<1>4. /\ v[-(a + 1)] = Saw(saw) /\ w[-(a + 2)] = Saw(saw)
      /\ v[0] = Word(p) /\ w[0] = Word(p) /\ w[-1] = Told(m)
      /\ v[b + 1] = Word(n) /\ w[b + 1] = Word(n)
      /\ \A i \in 1..b : v[i] = Told(t[i]) /\ w[i] = Told(t[i])
  <2>1. -(a + 1) \in -(a + 1)..(-1) /\ -1 \in -(a + 1)..(-1) /\ -1 + (a + 1) + 1 = a + 1
        /\ -((a + 1) + 1) = -(a + 2)
    BY <1>3
  <2>2. w[-1] = Told(r[-1 + (a + 1) + 1])
    BY <1>1, <1>2, <2>1 DEF Parts
  <2>3. QED BY <1>1, <1>2, <2>1, <2>2 DEF Parts
<1>5. \A i \in -(a + 1)..(-2) : w[i] = v[i + 1]
  <2>1. SUFFICES ASSUME NEW i \in -(a + 1)..(-2) PROVE w[i] = v[i + 1]
    OBVIOUS
  <2>2. /\ i \in -(a + 1)..(-1) /\ i + 1 \in -a..(-1) /\ i + (a + 1) + 1 = (i + 1) + a + 1
        /\ i + (a + 1) + 1 \in 1..a
    BY <1>3
  <2>3. w[i] = Told(r[i + (a + 1) + 1]) /\ v[i + 1] = Told(s[(i + 1) + a + 1])
    BY <1>1, <1>2, <2>2 DEF Parts
  <2>4. QED BY <1>1, <2>2, <2>3
<1> HIDE DEF a, b
<1>6. \A i \in DOMAIN w : g[i] \in DOMAIN v
  BY <1>3
<1>7. \A i, j \in DOMAIN w : i < j => g[i] <= g[j]
  BY <1>3
<1>8. ASSUME NEW i \in DOMAIN w PROVE w[i] = "none" \/ w[i] = v[g[i]]
  <2>1. i \in -(a + 2)..(b + 1) /\ g[i] = IF i < 0 THEN i + 1 ELSE i
    BY <1>3, <1>8
  <2> HIDE DEF g
  <2>2. CASE i = -(a + 2)
    BY <1>3, <1>4, <2>1, <2>2
  <2>3. CASE i \in -(a + 1)..(-2)
    BY <1>3, <1>5, <2>1, <2>3
  <2>4. CASE i = -1
    BY <1>4, <2>1, <2>4
  <2>5. CASE i = 0
    BY <1>4, <2>1, <2>5
  <2>6. CASE i \in 1..b
    BY <1>3, <1>4, <2>1, <2>6
  <2>7. CASE i = b + 1
    BY <1>3, <1>4, <2>1, <2>7
  <2>8. QED BY <1>3, <2>1, <2>2, <2>3, <2>4, <2>5, <2>6, <2>7
<1>9. Thins(v, w)
  BY <1>6, <1>7, <1>8 DEF Thins
<1>10. QED BY <1>3, <1>9, ThinnerIsCalmer DEF r, v, w

\* The bot takes a message off: it saw a position before, or the message tells one.
LEMMA HeardView ==
  ASSUME NEW s, NEW t, IsSeq(s), IsSeq(t), s # <<>>, NEW saw, NEW p, NEW n, NEW now,
         now => saw \/ Told(Head(s)) = "held"
  PROVE  Calmer(ViewOf(saw, s, p, t, n), ViewOf(now, Tail(s), p, t, n))
<1> DEFINE r == Tail(s)
           v == ViewOf(saw, s, p, t, n)
           w == ViewOf(now, r, p, t, n)
           a == Len(s)
           b == Len(t)
           k == IF saw THEN -(a + 1) ELSE -a
           g == [i \in DOMAIN w |-> IF i = -a THEN k ELSE i]
<1>1. /\ IsSeq(r) /\ Len(r) = a - 1 /\ a \in Nat \ {0} /\ Head(s) = s[1]
      /\ \A i \in 1..a - 1 : r[i] = s[i + 1]
  BY TailElements
<1>2. Parts(v, saw, s, p, t, n) /\ Parts(w, now, r, p, t, n)
  BY <1>1, ViewParts
<1> HIDE DEF r, v, w
<1>3. /\ a \in Nat \ {0} /\ b \in Nat /\ DOMAIN v = -(a + 1)..(b + 1) /\ DOMAIN v \subseteq Int
      /\ DOMAIN w = -a..(b + 1)
  BY <1>1, <1>2 DEF Parts
<1>4. /\ v[-(a + 1)] = Saw(saw) /\ w[-a] = Saw(now) /\ v[-a] = Told(Head(s))
      /\ v[0] = Word(p) /\ w[0] = Word(p)
      /\ v[b + 1] = Word(n) /\ w[b + 1] = Word(n)
      /\ \A i \in 1..b : v[i] = Told(t[i]) /\ w[i] = Told(t[i])
  <2>1. -a \in -a..(-1) /\ -a + a + 1 = 1 /\ -((a - 1) + 1) = -a
    BY <1>3
  <2>2. v[-a] = Told(s[-a + a + 1])
    BY <1>2, <2>1 DEF Parts
  <2>3. QED BY <1>1, <1>2, <2>1, <2>2 DEF Parts
<1>5. \A i \in -(a - 1)..(-1) : w[i] = v[i]
  <2>1. SUFFICES ASSUME NEW i \in -(a - 1)..(-1) PROVE w[i] = v[i]
    OBVIOUS
  <2>2. i \in -a..(-1) /\ i + (a - 1) + 1 \in 1..a - 1 /\ i + a + 1 = (i + (a - 1) + 1) + 1
    BY <1>3
  <2>3. w[i] = Told(r[i + (a - 1) + 1]) /\ v[i] = Told(s[i + a + 1])
    BY <1>1, <1>2, <2>2 DEF Parts
  <2>4. QED BY <1>1, <2>2, <2>3
<1>k. k \in {-(a + 1), -a} /\ (w[-a] = "none" \/ w[-a] = v[k])
  BY <1>4 DEF Saw
<1> HIDE DEF a, b, k
<1>6. \A i \in DOMAIN w : g[i] \in DOMAIN v
  BY <1>3, <1>k
<1>7. \A i, j \in DOMAIN w : i < j => g[i] <= g[j]
  <2>1. SUFFICES ASSUME NEW i \in DOMAIN w, NEW j \in DOMAIN w, i < j PROVE g[i] <= g[j]
    OBVIOUS
  <2>2. j # -a /\ i \in Int /\ j \in Int /\ -a <= i
    BY <1>3, <2>1
  <2>3. g[j] = j /\ (i # -a => g[i] = i) /\ (i = -a => g[i] = k)
    BY <2>1, <2>2
  <2> HIDE DEF g
  <2>4. QED BY <1>3, <1>k, <2>1, <2>2, <2>3
<1>8. ASSUME NEW i \in DOMAIN w PROVE w[i] = "none" \/ w[i] = v[g[i]]
  <2>1. i \in -a..(b + 1) /\ g[i] = IF i = -a THEN k ELSE i
    BY <1>3, <1>8
  <2> HIDE DEF g
  <2>2. CASE i = -a
    BY <1>k, <2>1, <2>2
  <2>3. CASE i \in -(a - 1)..(-1)
    BY <1>3, <1>5, <2>1, <2>3
  <2>5. CASE i = 0
    BY <1>3, <1>4, <2>1, <2>5
  <2>6. CASE i \in 1..b
    BY <1>3, <1>4, <2>1, <2>6
  <2>7. CASE i = b + 1
    BY <1>3, <1>4, <2>1, <2>7
  <2>8. QED BY <1>3, <2>1, <2>2, <2>3, <2>5, <2>6, <2>7
<1>9. Thins(v, w)
  BY <1>6, <1>7, <1>8 DEF Thins
<1>10. QED BY <1>3, <1>9, ThinnerIsCalmer DEF r, v, w

\* A message of the stream arrives or is lost: the engine's position stays, or is what
\* the message tells.
LEMMA ArrivedView ==
  ASSUME NEW s, NEW t, IsSeq(s), IsSeq(t), t # <<>>, NEW saw, NEW p, NEW q, NEW n,
         Word(q) \in {Word(p), Told(Head(t))}
  PROVE  Calmer(ViewOf(saw, s, p, t, n), ViewOf(saw, s, q, Tail(t), n))
<1> DEFINE r == Tail(t)
           v == ViewOf(saw, s, p, t, n)
           w == ViewOf(saw, s, q, r, n)
           a == Len(s)
           b == Len(t)
           k == IF Word(q) = Word(p) THEN 0 ELSE 1
           g == [i \in DOMAIN w |-> IF i < 0 THEN i ELSE IF i = 0 THEN k ELSE i + 1]
<1>1. /\ IsSeq(r) /\ Len(r) = b - 1 /\ b \in Nat \ {0} /\ Head(t) = t[1]
      /\ \A i \in 1..b - 1 : r[i] = t[i + 1]
  BY TailElements
<1>2. Parts(v, saw, s, p, t, n) /\ Parts(w, saw, s, q, r, n)
  BY <1>1, ViewParts
<1> HIDE DEF r, v, w
<1>3. /\ a \in Nat /\ b \in Nat \ {0} /\ DOMAIN v = -(a + 1)..(b + 1) /\ DOMAIN v \subseteq Int
      /\ DOMAIN w = -(a + 1)..b
  BY <1>1, <1>2 DEF Parts
<1>4. /\ \A i \in -(a + 1)..(-1) : w[i] = v[i]
      /\ v[0] = Word(p) /\ w[0] = Word(q) /\ v[1] = Told(Head(t))
      /\ v[b + 1] = Word(n) /\ w[b] = Word(n)
      /\ \A i \in 1..b - 1 : w[i] = v[i + 1]
  <2>1. /\ 1 \in 1..b /\ (b - 1) + 1 = b /\ \A i \in 1..b - 1 : i + 1 \in 1..b
        /\ \A i \in -(a + 1)..(-1) : i = -(a + 1) \/ i \in -a..(-1)
    BY <1>3
  <2>2. /\ \A i \in -a..(-1) : v[i] = Told(s[i + a + 1]) /\ w[i] = Told(s[i + a + 1])
        /\ v[-(a + 1)] = Saw(saw) /\ w[-(a + 1)] = Saw(saw)
    BY <1>2 DEF Parts
  <2>3. /\ v[0] = Word(p) /\ w[0] = Word(q)
        /\ v[b + 1] = Word(n) /\ w[Len(r) + 1] = Word(n)
    BY <1>2 DEF Parts
  <2>4. /\ \A i \in 1..b : v[i] = Told(t[i])
        /\ \A i \in 1..Len(r) : w[i] = Told(r[i])
    BY <1>2 DEF Parts
  <2> HIDE DEF a, b
  <2>5. \A i \in -(a + 1)..(-1) : w[i] = v[i]
    BY <2>1, <2>2
  <2>6. v[1] = Told(Head(t)) /\ w[b] = Word(n)
    BY <1>1, <2>1, <2>3, <2>4
  <2>7. \A i \in 1..b - 1 : w[i] = v[i + 1]
    BY <1>1, <2>1, <2>4
  <2>8. QED BY <2>3, <2>5, <2>6, <2>7
<1>k. k \in {0, 1} /\ w[0] = v[k]
  <2>1. CASE Word(q) = Word(p)
    <3>1. k = 0
      BY <2>1
    <3>2. QED BY <1>4, <2>1, <3>1
  <2>2. CASE Word(q) # Word(p)
    <3>1. k = 1 /\ Word(q) = Told(Head(t))
      BY <2>2
    <3>2. QED BY <1>4, <3>1
  <2>3. QED BY <2>1, <2>2
<1> HIDE DEF a, b, k
<1>6. \A i \in DOMAIN w : g[i] \in DOMAIN v
  BY <1>3, <1>k
<1>7. \A i, j \in DOMAIN w : i < j => g[i] <= g[j]
  BY <1>3, <1>k
<1>8. ASSUME NEW i \in DOMAIN w PROVE w[i] = "none" \/ w[i] = v[g[i]]
  <2>1. i \in -(a + 1)..b /\ g[i] = IF i < 0 THEN i ELSE IF i = 0 THEN k ELSE i + 1
    BY <1>3, <1>8
  <2> HIDE DEF g
  <2>2. CASE i \in -(a + 1)..(-1)
    BY <1>4, <2>1, <2>2
  <2>3. CASE i = 0
    BY <1>k, <2>1, <2>3
  <2>4. CASE i \in 1..b - 1
    BY <1>3, <1>4, <2>1, <2>4
  <2>5. CASE i = b
    BY <1>3, <1>4, <2>1, <2>5
  <2>6. QED BY <1>3, <2>1, <2>2, <2>3, <2>4, <2>5
<1>9. Thins(v, w)
  BY <1>6, <1>7, <1>8 DEF Thins
<1>10. QED BY <1>3, <1>9, ThinnerIsCalmer DEF r, v, w

\* The engine starts anew, asks for its position, and the old stream is gone.
LEMMA RestartedView ==
  ASSUME NEW s, NEW t, IsSeq(s), IsSeq(t), NEW saw, NEW p, NEW q, NEW n, Word(q) = Word(n)
  PROVE  Calmer(ViewOf(saw, s, p, t, n), ViewOf(saw, s, q, <<>>, n))
<1> DEFINE r == <<>>
           v == ViewOf(saw, s, p, t, n)
           w == ViewOf(saw, s, q, r, n)
           a == Len(s)
           b == Len(t)
           g == [i \in DOMAIN w |-> IF i < 0 THEN i ELSE b + 1]
<1>1. IsSeq(r) /\ Len(r) = 0
  <2>1. <<>> \in Seq({}) /\ Len(<<>>) = 0
    OBVIOUS
  <2>2. QED BY <2>1, SeqOfItsRange
<1>2. Parts(v, saw, s, p, t, n) /\ Parts(w, saw, s, q, r, n)
  BY <1>1, ViewParts
<1> HIDE DEF r, v, w
<1>3. /\ a \in Nat /\ b \in Nat /\ DOMAIN v = -(a + 1)..(b + 1) /\ DOMAIN v \subseteq Int
      /\ DOMAIN w = -(a + 1)..1
  BY <1>1, <1>2 DEF Parts
<1>4. /\ \A i \in -(a + 1)..(-1) : w[i] = v[i]
      /\ w[0] = Word(n) /\ w[1] = Word(n) /\ v[b + 1] = Word(n)
  <2>1. \A i \in -(a + 1)..(-1) : i = -(a + 1) \/ i \in -a..(-1)
    BY <1>3
  <2>2. QED BY <1>1, <1>2, <2>1 DEF Parts
<1> HIDE DEF a, b
<1>6. \A i \in DOMAIN w : g[i] \in DOMAIN v
  BY <1>3
<1>7. \A i, j \in DOMAIN w : i < j => g[i] <= g[j]
  BY <1>3
<1>8. ASSUME NEW i \in DOMAIN w PROVE w[i] = v[g[i]]
  <2>1. i \in -(a + 1)..1 /\ g[i] = IF i < 0 THEN i ELSE b + 1
    BY <1>3, <1>8
  <2> HIDE DEF g
  <2>2. CASE i < 0
    BY <1>3, <1>4, <2>1, <2>2
  <2>3. CASE i \in {0, 1}
    BY <1>4, <2>1, <2>3
  <2>4. QED BY <1>3, <2>1, <2>2, <2>3
<1>9. Thins(v, w)
  BY <1>6, <1>7, <1>8 DEF Thins
<1>10. QED BY <1>3, <1>9, ThinnerIsCalmer DEF r, v, w

\* A view w of a stream with one message more than the b of v, and position x behind it.
Longer(v, w, b, n, m, x) ==
  /\ b \in Nat /\ DOMAIN v \subseteq Int /\ b + 1 \in DOMAIN v
  /\ DOMAIN w = DOMAIN v \cup {b + 2}
  /\ \A i \in DOMAIN v : i <= b + 1
  /\ \A i \in DOMAIN v : i <= b => w[i] = v[i]
  /\ v[b + 1] = Word(n) /\ w[b + 1] = Told(m) /\ w[b + 2] = Word(x)

LEMMA LongerView ==
  ASSUME NEW s, NEW t, IsSeq(s), IsSeq(t), NEW saw, NEW p, NEW n, NEW m, NEW x
  PROVE  Longer(ViewOf(saw, s, p, t, n), ViewOf(saw, s, p, Append(t, m), x), Len(t), n, m, x)
<1> DEFINE r == Append(t, m)
           v == ViewOf(saw, s, p, t, n)
           w == ViewOf(saw, s, p, r, x)
           a == Len(s)
           b == Len(t)
<1>1. IsSeq(r) /\ Len(r) = b + 1 /\ r[b + 1] = m /\ \A i \in 1..b : r[i] = t[i]
  BY AppendElements
<1>2. Parts(v, saw, s, p, t, n) /\ Parts(w, saw, s, p, r, x)
  BY <1>1, ViewParts
<1> HIDE DEF r, v, w
<1>3. /\ a \in Nat /\ b \in Nat /\ DOMAIN v = -(a + 1)..(b + 1)
      /\ DOMAIN w = -(a + 1)..(b + 2)
  BY <1>1, <1>2 DEF Parts
<1>4. /\ \A i \in -(a + 1)..b : w[i] = v[i]
      /\ v[b + 1] = Word(n) /\ w[b + 1] = Told(m) /\ w[b + 2] = Word(x)
  <2>1. /\ b + 1 \in 1..b + 1 /\ (b + 1) + 1 = b + 2
        /\ \A i \in 1..b : i \in 1..b + 1
        /\ \A i \in -(a + 1)..b : i = -(a + 1) \/ i \in -a..(-1) \/ i = 0 \/ i \in 1..b
    BY <1>3
  <2>2. QED BY <1>1, <1>2, <2>1 DEF Parts
<1> HIDE DEF a, b
<1>5. /\ DOMAIN v \subseteq Int /\ b + 1 \in DOMAIN v /\ \A i \in DOMAIN v : i <= b + 1
      /\ \A i \in DOMAIN v : i <= b => w[i] = v[i]
  BY <1>3, <1>4
<1>6. DOMAIN w = DOMAIN v \cup {b + 2}
  BY <1>3
<1>7. QED BY <1>3, <1>4, <1>5, <1>6 DEF Longer, v, w, b, r

\* A message that says nothing of the position joins the stream.
LEMMA SilentView ==
  ASSUME NEW s, NEW t, IsSeq(s), IsSeq(t), NEW saw, NEW p, NEW n, NEW m, Told(m) = "none"
  PROVE  Calmer(ViewOf(saw, s, p, t, n), ViewOf(saw, s, p, Append(t, m), n))
<1> DEFINE v == ViewOf(saw, s, p, t, n)
           w == ViewOf(saw, s, p, Append(t, m), n)
           b == Len(t)
           g == [i \in DOMAIN w |-> IF i <= b THEN i ELSE b + 1]
<1>0. Longer(v, w, b, n, m, n)
  BY LongerView
<1> HIDE DEF v, w, b
<1>1. /\ b \in Nat /\ DOMAIN v \subseteq Int /\ b + 1 \in DOMAIN v
      /\ DOMAIN w = DOMAIN v \cup {b + 2}
      /\ \A i \in DOMAIN v : i <= b + 1
      /\ \A i \in DOMAIN v : i <= b => w[i] = v[i]
      /\ v[b + 1] = Word(n) /\ w[b + 1] = "none" /\ w[b + 2] = Word(n)
  BY <1>0 DEF Longer
<1>2. \A i \in DOMAIN w : g[i] \in DOMAIN v
  BY <1>1
<1>3. \A i, j \in DOMAIN w : i < j => g[i] <= g[j]
  BY <1>1
<1>4. ASSUME NEW i \in DOMAIN w PROVE w[i] = "none" \/ w[i] = v[g[i]]
  <2>1. g[i] = IF i <= b THEN i ELSE b + 1
    BY <1>4
  <2> HIDE DEF g
  <2>2. (i \in DOMAIN v /\ i <= b) \/ i = b + 1 \/ i = b + 2
    BY <1>1, <1>4
  <2>3. CASE i \in DOMAIN v /\ i <= b
    BY <1>1, <2>1, <2>3
  <2>4. CASE i = b + 1
    BY <1>1, <2>4
  <2>5. CASE i = b + 2
    BY <1>1, <2>1, <2>5
  <2>6. QED BY <2>2, <2>3, <2>4, <2>5
<1>5. Thins(v, w)
  BY <1>2, <1>3, <1>4 DEF Thins
<1>6. QED BY <1>1, <1>5, ThinnerIsCalmer DEF v, w

(***************************************************************************)
(* The position changes, and the stream tells.  That it went disturbs no   *)
(* view; that one came, none that had no word of another.                  *)
(***************************************************************************)
LEMMA NewsView ==
  ASSUME NEW s, NEW t, IsSeq(s), IsSeq(t), NEW saw, NEW p, NEW n, NEW m, NEW x,
         Told(m) = Word(x)
  PROVE  /\ x = 0 /\ Settles(ViewOf(saw, s, p, t, n)) =>
              Settles(ViewOf(saw, s, p, Append(t, m), x))
         /\ x = 0 /\ Falls(ViewOf(saw, s, p, t, n)) =>
              Falls(ViewOf(saw, s, p, Append(t, m), x))
         /\ Flat(ViewOf(saw, s, p, t, n)) =>
              /\ Settles(ViewOf(saw, s, p, Append(t, m), x))
              /\ ~Gone(ViewOf(saw, s, p, Append(t, m), x))
<1> DEFINE v == ViewOf(saw, s, p, t, n)
           w == ViewOf(saw, s, p, Append(t, m), x)
           b == Len(t)
<1>0. Longer(v, w, b, n, m, x)
  BY LongerView
<1> HIDE DEF v, w, b
<1>1. /\ b \in Nat /\ DOMAIN v \subseteq Int /\ b + 1 \in DOMAIN v
      /\ DOMAIN w = DOMAIN v \cup {b + 2}
      /\ \A i \in DOMAIN v : i <= b + 1
      /\ \A i \in DOMAIN v : i <= b => w[i] = v[i]
      /\ w[b + 1] = Word(x) /\ w[b + 2] = Word(x)
  BY <1>0 DEF Longer
<1>2. \A i \in DOMAIN w : \/ i \in DOMAIN v /\ i <= b /\ w[i] = v[i]
                          \/ i \in {b + 1, b + 2} /\ w[i] = Word(x)
  <2>1. SUFFICES ASSUME NEW i \in DOMAIN w
                 PROVE  \/ i \in DOMAIN v /\ i <= b /\ w[i] = v[i]
                        \/ i \in {b + 1, b + 2} /\ w[i] = Word(x)
    OBVIOUS
  <2>2. CASE i = b + 2
    BY <1>1, <2>2
  <2>3. CASE i = b + 1
    BY <1>1, <2>3
  <2>4. CASE i \in DOMAIN v /\ i # b + 1
    <3>1. i \in Int /\ i <= b + 1 /\ i # b + 1 /\ b \in Int
      BY <1>1, <2>4
    <3>2. i <= b
      BY <3>1
    <3>3. QED BY <1>1, <2>4, <3>2
  <2>5. QED BY <1>1, <2>1, <2>2, <2>3, <2>4
<1>3. ASSUME x = 0, Settles(v) PROVE Settles(w)
  <2>1. SUFFICES ASSUME NEW i \in DOMAIN w, NEW j \in DOMAIN w, NEW k \in DOMAIN w,
                        i < j, j < k, w[i] = "held", w[j] = "zero", w[k] = "held"
                 PROVE  FALSE
    BY DEF Settles
  <2>2. k \in DOMAIN v /\ k <= b
    BY <1>2, <1>3, <2>1 DEF Word
  <2>3. i \in Int /\ j \in Int /\ k \in Int /\ i <= b /\ j <= b
    BY <1>1, <2>1, <2>2
  <2>4. v[i] = "held" /\ v[j] = "zero" /\ v[k] = "held" /\ i \in DOMAIN v /\ j \in DOMAIN v
    BY <1>1, <1>2, <2>1, <2>2, <2>3
  <2>5. QED BY <1>3, <2>1, <2>2, <2>4 DEF Settles
<1>4. ASSUME Flat(v) PROVE Settles(w) /\ ~Gone(w)
  <2>1. SUFFICES ASSUME NEW i \in DOMAIN w, NEW j \in DOMAIN w,
                        i < j, w[i] = "held", w[j] = "zero"
                 PROVE  FALSE
    BY DEF Settles, Gone
  <2>2. i \in {b + 1, b + 2} /\ Word(x) = "held"
    BY <1>2, <1>4, <2>1 DEF Flat
  <2>3. j \in DOMAIN v /\ j <= b
    BY <1>2, <2>1, <2>2
  <2>4. i \in Int /\ j \in Int
    BY <1>1, <2>2, <2>3
  <2>5. QED BY <1>1, <2>1, <2>2, <2>3, <2>4
<1>5. ASSUME x = 0, Falls(v) PROVE Falls(w)
  <2>1. SUFFICES ASSUME NEW i \in DOMAIN w, NEW j \in DOMAIN w,
                        i < j, w[i] = "zero", w[j] = "held"
                 PROVE  FALSE
    BY DEF Falls
  <2>2. j \in DOMAIN v /\ j <= b /\ v[j] = "held"
    BY <1>2, <1>5, <2>1 DEF Word
  <2>3. i \in Int /\ j \in Int /\ i <= b
    BY <1>1, <2>1, <2>2
  <2>4. v[i] = "zero" /\ i \in DOMAIN v
    BY <1>1, <1>2, <2>1, <2>3
  <2>5. QED BY <1>5, <2>1, <2>2, <2>4 DEF Falls
<1>6. QED BY <1>3, <1>4, <1>5 DEF v, w

-----------------------------------------------------------------------------
(***************************************************************************)
(* News that an entry has ended without a fill, which re-arms the bot: as  *)
(* the stream has it and as the engine forwards it.                        *)
(***************************************************************************)
Unfilled(m) ==
  /\ m.kind \in {"order", "order_update"} /\ ~m.reduceOnly
  /\ m.status \in {"CANCELED", "EXPIRED", "REJECTED"} /\ m.filled = 0

UnfilledIn(s) == {i \in DOMAIN s : Unfilled(s[i])}

\* There is such news on its way to the bot; there is no more than one.
ToldUnfilled(s, t) == UnfilledIn(s) # {} \/ UnfilledIn(t) # {}
ToldOnce(s, t) ==
  /\ \A i, j \in UnfilledIn(s) : i = j
  /\ \A i, j \in UnfilledIn(t) : i = j
  /\ UnfilledIn(s) = {} \/ UnfilledIn(t) = {}

\* A step adds nothing to the news.
Quieter(s, t, s2, t2) == /\ ToldUnfilled(s2, t2) => ToldUnfilled(s, t)
                         /\ ToldOnce(s, t) => ToldOnce(s2, t2)

LEMMA UnfilledAppend ==
  ASSUME NEW s, IsSeq(s), NEW e
  PROVE  \A i : i \in UnfilledIn(Append(s, e)) <=>
                  i \in UnfilledIn(s) \/ (i = Len(s) + 1 /\ Unfilled(e))
<1> DEFINE r == Append(s, e)
           a == Len(s)
<1>1. /\ a \in Nat /\ DOMAIN s = 1..a /\ DOMAIN r = 1..a + 1
      /\ \A i \in 1..a : r[i] = s[i]
      /\ r[a + 1] = e
  BY AppendElements
<1> HIDE DEF r, a
<1>2. 1..a + 1 = 1..a \cup {a + 1} /\ a + 1 \notin 1..a
  BY <1>1
<1>3. ASSUME NEW i
      PROVE  i \in UnfilledIn(r) <=> i \in UnfilledIn(s) \/ (i = a + 1 /\ Unfilled(e))
  <2>1. CASE i \in 1..a
    <3>1. r[i] = s[i] /\ i # a + 1 /\ i \in DOMAIN r /\ i \in DOMAIN s
      BY <1>1, <1>2, <2>1
    <3>2. QED BY <3>1 DEF UnfilledIn
  <2>2. CASE i = a + 1
    <3>1. r[i] = e /\ i \in DOMAIN r /\ i \notin DOMAIN s
      BY <1>1, <1>2, <2>2
    <3>2. QED BY <2>2, <3>1 DEF UnfilledIn
  <2>3. CASE i \notin 1..a /\ i # a + 1
    <3>1. i \notin DOMAIN r /\ i \notin DOMAIN s
      BY <1>1, <1>2, <2>3
    <3>2. QED BY <2>3, <3>1 DEF UnfilledIn
  <2>4. QED BY <2>1, <2>2, <2>3
<1>4. QED BY <1>3 DEF r, a

LEMMA UnfilledOther ==
  ASSUME NEW s, IsSeq(s), NEW e, ~Unfilled(e)
  PROVE  UnfilledIn(Append(s, e)) = UnfilledIn(s)
<1>1. \A i : i \in UnfilledIn(Append(s, e)) <=> i \in UnfilledIn(s)
  BY UnfilledAppend
<1>2. QED BY <1>1

LEMMA UnfilledTail ==
  ASSUME NEW s, IsSeq(s), s # <<>>
  PROVE  /\ \A i \in UnfilledIn(Tail(s)) : i \in Int /\ i + 1 # 1 /\ i + 1 \in UnfilledIn(s)
         /\ Unfilled(Head(s)) => 1 \in UnfilledIn(s)
<1> DEFINE r == Tail(s)
           a == Len(s)
<1>1. /\ a \in Nat \ {0} /\ DOMAIN s = 1..a /\ DOMAIN r = 1..a - 1
      /\ \A i \in 1..a - 1 : r[i] = s[i + 1]
      /\ Head(s) = s[1]
  BY TailElements
<1> HIDE DEF r, a
<1>2. \A i \in UnfilledIn(r) : i \in Int /\ i + 1 # 1 /\ i + 1 \in UnfilledIn(s)
  <2>1. \A i \in 1..a - 1 : i \in Int /\ i + 1 # 1 /\ i + 1 \in 1..a
    BY <1>1
  <2>2. QED BY <1>1, <2>1 DEF UnfilledIn
<1>3. Unfilled(Head(s)) => 1 \in UnfilledIn(s)
  BY <1>1 DEF UnfilledIn
<1>4. QED BY <1>2, <1>3 DEF r

\* Other news joins either queue.
LEMMA OtherNews ==
  ASSUME NEW s, NEW t, IsSeq(s), IsSeq(t), NEW m, ~Unfilled(m)
  PROVE  /\ Quieter(s, t, Append(s, m), t)
         /\ Quieter(s, t, s, Append(t, m))
<1>1. UnfilledIn(Append(s, m)) = UnfilledIn(s) /\ UnfilledIn(Append(t, m)) = UnfilledIn(t)
  BY UnfilledOther
<1>2. QED BY <1>1 DEF Quieter, ToldUnfilled, ToldOnce

\* The stream's next message is lost, or the engine passes on what it says.
LEMMA PassedOnNews ==
  ASSUME NEW s, NEW t, IsSeq(s), IsSeq(t), t # <<>>
  PROVE  /\ Quieter(s, t, s, Tail(t))
         /\ \A m : (Unfilled(m) => Unfilled(Head(t))) => Quieter(s, t, Append(s, m), Tail(t))
<1>1. /\ \A i \in UnfilledIn(Tail(t)) : i \in Int /\ i + 1 # 1 /\ i + 1 \in UnfilledIn(t)
      /\ Unfilled(Head(t)) => 1 \in UnfilledIn(t)
  BY UnfilledTail
<1>2. Quieter(s, t, s, Tail(t))
  <2>1. UnfilledIn(Tail(t)) # {} => UnfilledIn(t) # {}
    BY <1>1
  <2>2. ASSUME \A i, j \in UnfilledIn(t) : i = j, NEW i \in UnfilledIn(Tail(t)),
               NEW j \in UnfilledIn(Tail(t))
        PROVE  i = j
    <3>1. i + 1 = j + 1 /\ i \in Int /\ j \in Int
      BY <1>1, <2>2
    <3>2. QED BY <3>1
  <2>3. QED BY <2>1, <2>2 DEF Quieter, ToldUnfilled, ToldOnce
<1>3. ASSUME NEW m, Unfilled(m), Unfilled(Head(t)) PROVE Quieter(s, t, Append(s, m), Tail(t))
  <2>1. ToldUnfilled(s, t)
    BY <1>1, <1>3 DEF ToldUnfilled
  <2>2. ASSUME ToldOnce(s, t) PROVE ToldOnce(Append(s, m), Tail(t))
    <3>1. UnfilledIn(s) = {} /\ UnfilledIn(Tail(t)) = {}
      BY <1>1, <1>3, <2>2 DEF ToldOnce
    <3>2. \A i \in UnfilledIn(Append(s, m)) : i = Len(s) + 1
      BY <3>1, UnfilledAppend
    <3>3. QED BY <3>1, <3>2 DEF ToldOnce
  <2>3. QED BY <2>1, <2>2 DEF Quieter
<1>4. ASSUME NEW m, ~Unfilled(m) PROVE Quieter(s, t, Append(s, m), Tail(t))
  <2>1. UnfilledIn(Append(s, m)) = UnfilledIn(s)
    BY <1>4, UnfilledOther
  <2>2. QED BY <1>2, <2>1 DEF Quieter, ToldUnfilled, ToldOnce
<1>5. QED BY <1>2, <1>3, <1>4

LEMMA NoNews ==
  ASSUME NEW s, NEW t
  PROVE  Quieter(s, t, s, <<>>)
<1>1. UnfilledIn(<<>>) = {}
  BY DEF UnfilledIn
<1>2. QED BY <1>1 DEF Quieter, ToldUnfilled, ToldOnce

\* The bot hears the next message; if that is the news, there is no other.
LEMMA HeardNews ==
  ASSUME NEW s, NEW t, IsSeq(s), s # <<>>
  PROVE  /\ Quieter(s, t, Tail(s), t)
         /\ Unfilled(Head(s)) /\ ToldOnce(s, t) => ~ToldUnfilled(Tail(s), t)
<1>1. /\ \A i \in UnfilledIn(Tail(s)) : i \in Int /\ i + 1 # 1 /\ i + 1 \in UnfilledIn(s)
      /\ Unfilled(Head(s)) => 1 \in UnfilledIn(s)
  BY UnfilledTail
<1>2. UnfilledIn(Tail(s)) # {} => UnfilledIn(s) # {}
  BY <1>1
<1>3. ASSUME \A i, j \in UnfilledIn(s) : i = j, NEW i \in UnfilledIn(Tail(s)),
             NEW j \in UnfilledIn(Tail(s))
      PROVE  i = j
  <2>1. i + 1 = j + 1 /\ i \in Int /\ j \in Int
    BY <1>1, <1>3
  <2>2. QED BY <2>1
<1>4. Quieter(s, t, Tail(s), t)
  BY <1>2, <1>3 DEF Quieter, ToldUnfilled, ToldOnce
<1>5. Unfilled(Head(s)) /\ ToldOnce(s, t) => ~ToldUnfilled(Tail(s), t)
  BY <1>1 DEF ToldUnfilled, ToldOnce
<1>6. QED BY <1>4, <1>5

LEMMA FirstNews ==
  ASSUME NEW s, NEW t, IsSeq(t), NEW m, ~ToldUnfilled(s, t)
  PROVE  ToldOnce(s, Append(t, m))
<1>1. UnfilledIn(s) = {} /\ \A i \in UnfilledIn(Append(t, m)) : i = Len(t) + 1
  BY UnfilledAppend DEF ToldUnfilled
<1>2. QED BY <1>1 DEF ToldOnce

-----------------------------------------------------------------------------
(* The counts, and the types of what the engine and the exchange hold.     *)

\* An order reaches the exchange, whether its answer reaches the engine or not.
EntryPlaced == RxAccept \/ RxUnanswered
ClosePlaced == CloseSent \/ CloseUnanswered

\* A step's effect on the counts: no fault is forgotten, and only a start is a start.
Counting ==
  /\ CountShape'
  /\ \A k \in Faults : count'.faults[k] = 0 => count.faults[k] = 0
  /\ count'.starts = count.starts \/ StartBot
  /\ count'.placed = count.placed \/ EntryPlaced \/ ClosePlaced
  /\ count.faults["blind"] = 0 /\ count'.faults["engine"] = 0 => count'.faults["blind"] = 0

\* No engine starts blind without starting.
Kinds(kinds) == kinds \in SUBSET Faults /\ ("blind" \in kinds => "engine" \in kinds)

LEMMA FaultCounting ==
  ASSUME CountShape, NEW kinds, Kinds(kinds), Fault(kinds)
  PROVE  /\ Counting /\ count'.starts = count.starts
         /\ \A k \in kinds : count'.faults[k] # 0
<1>1. count' = [count EXCEPT !.faults =
                  [k \in Faults |-> IF k \in kinds THEN count.faults[k] + 1 ELSE count.faults[k]]]
  BY DEF Fault, AfterFaults
<1>2. /\ count'.faults = [k \in Faults |-> IF k \in kinds THEN count.faults[k] + 1
                                                          ELSE count.faults[k]]
      /\ count'.starts = count.starts /\ count'.placed = count.placed
  BY <1>1 DEF CountShape
<1>3. CountShape'
  BY <1>1, <1>2 DEF CountShape
<1>4. \A k \in Faults : /\ count.faults[k] \in Nat
                        /\ count'.faults[k] = 0 => count.faults[k] = 0
                        /\ k \in kinds => count'.faults[k] # 0
  BY <1>2 DEF CountShape
<1>5. count.faults["blind"] = 0 /\ count'.faults["engine"] = 0 => count'.faults["blind"] = 0
  <2>1. "blind" \in Faults /\ "engine" \in Faults
    BY DEF Faults
  <2>2. CASE "blind" \in kinds
    BY <1>4, <2>1, <2>2 DEF Kinds
  <2>3. CASE "blind" \notin kinds
    BY <1>2, <2>1, <2>3
  <2>4. QED BY <2>2, <2>3
<1>6. QED BY <1>2, <1>3, <1>4, <1>5 DEF Counting, Kinds

\* An order is placed and its answer is lost.
LEMMA FaultPlacedCounting ==
  ASSUME CountShape, NEW kinds, Kinds(kinds), "blind" \notin kinds, FaultPlaced(kinds),
         EntryPlaced \/ ClosePlaced
  PROVE  /\ Counting /\ count'.starts = count.starts /\ count'.placed = count.placed + 1
         /\ \A k \in kinds : count'.faults[k] # 0
<1> DEFINE after == AfterFaults(kinds)
<1>1. /\ after \in [Faults -> Nat]
      /\ \A k \in Faults : /\ after[k] = 0 => count.faults[k] = 0
                           /\ k \in kinds => after[k] # 0
                           /\ k \notin kinds => after[k] = count.faults[k]
  BY DEF AfterFaults, CountShape
<1>2. count' = [count EXCEPT !.placed = @ + 1, !.faults = after]
  BY DEF FaultPlaced
<1> HIDE DEF after
<1>3. count' = [starts |-> count.starts, placed |-> count.placed + 1, faults |-> after]
  BY <1>2 DEF CountShape
<1>4. /\ count'.starts = count.starts /\ count'.placed = count.placed + 1
      /\ count'.faults = after
  BY <1>3
<1>5. CountShape'
  BY <1>1, <1>3 DEF CountShape
<1>6. count.faults["blind"] = 0 => count'.faults["blind"] = 0
  <2>1. "blind" \in Faults
    BY DEF Faults
  <2>2. QED BY <1>1, <1>4, <2>1
<1>7. QED BY <1>1, <1>4, <1>5, <1>6 DEF Counting, Kinds

LEMMA NoFaultCounting ==
  ASSUME CountShape,
         \/ count' = count
         \/ count' = [count EXCEPT !.placed = @ + 1] /\ (EntryPlaced \/ ClosePlaced)
         \/ count' = [count EXCEPT !.starts = @ + 1] /\ StartBot
  PROVE  Counting
<1>1. CASE count' = count
  BY <1>1 DEF Counting, CountShape
<1>2. CASE count' = [count EXCEPT !.placed = @ + 1] /\ (EntryPlaced \/ ClosePlaced)
  <2>1. count' = [starts |-> count.starts, placed |-> count.placed + 1, faults |-> count.faults]
    BY <1>2 DEF CountShape
  <2>2. QED BY <1>2, <2>1 DEF Counting, CountShape
<1>3. CASE count' = [count EXCEPT !.starts = @ + 1] /\ StartBot
  <2>1. count' = [starts |-> count.starts + 1, placed |-> count.placed, faults |-> count.faults]
    BY <1>3 DEF CountShape
  <2>2. QED BY <1>3, <2>1 DEF Counting, CountShape
<1>4. QED BY <1>1, <1>2, <1>3

LEMMA FaultKinds ==
  /\ Kinds({"rest"}) /\ Kinds({"died"}) /\ Kinds({"unfilled"})
  /\ Kinds({"liquidated"}) /\ Kinds({"lost"})
  /\ Kinds({"raced"}) /\ Kinds({"missed"})
  /\ Kinds({"unanswered"}) /\ Kinds({"untracked"})
  /\ Kinds({"engine"}) /\ Kinds({"engine", "blind"})
BY DEF Faults, Kinds

LEMMA CountingStep ==
  ASSUME CountShape, [Next]_vars
  PROVE  Counting
<1>1. CASE StartBot
  BY <1>1, NoFaultCounting DEF StartBot
<1>2. CASE FetchPage \/ WarmUp \/ Subscribe
  BY <1>2, NoFaultCounting DEF FetchPage, WarmUp, Subscribe
<1>3. CASE WarmUpFails
  BY <1>3, FaultCounting, FaultKinds DEF WarmUpFails
<1>4. CASE HearBar \/ HearOrderUpdate
  BY <1>4, NoFaultCounting DEF HearBar, HearOrderUpdate
<1>5. ASSUME NEW side \in {1, -1}, HearSignal(side) \/ HearSignalRaises(side) PROVE Counting
  BY <1>5, NoFaultCounting DEF HearSignal, HearSignalRaises
<1>6. CASE BotDies
  BY <1>6, FaultCounting, FaultKinds DEF BotDies
<1>7. CASE RxRefuse \/ RxSetStop \/ RxArm
  BY <1>7, NoFaultCounting DEF RxRefuse, RxSetStop, RxArm
<1>8. CASE EntryPlaced \/ ClosePlaced
  <2>1. \/ count' = [count EXCEPT !.placed = @ + 1]
        \/ FaultPlaced({"unanswered"}) \/ FaultPlaced({"untracked"})
    BY <1>8 DEF EntryPlaced, ClosePlaced, RxAccept, RxUnanswered, CloseSent, CloseUnanswered
  <2>2. "blind" \notin {"unanswered"} /\ "blind" \notin {"untracked"}
    OBVIOUS
  <2>3. QED BY <1>8, <2>1, <2>2, NoFaultCounting, FaultPlacedCounting, FaultKinds
<1>9. CASE CheckFlat \/ Publish
  BY <1>9, NoFaultCounting DEF CheckFlat, Unchecked, Publish
<1>10. CASE CheckHeld \/ CheckHit
  BY <1>10, NoFaultCounting, FaultCounting, FaultKinds DEF CheckHeld, CheckHit, Raced
<1>11. CASE CloseRefused
  BY <1>11, NoFaultCounting, FaultCounting, FaultKinds DEF CloseRefused
<1>12. CASE MissBar
  BY <1>12, FaultCounting, FaultKinds DEF MissBar
<1>13. CASE MarketCloses \/ Deliver
  BY <1>13, NoFaultCounting DEF MarketCloses, Deliver
<1>14. CASE Liquidate
  BY <1>14, FaultCounting, FaultKinds DEF Liquidate
<1>15. ASSUME NEW o \in exch.working, Fill(o) PROVE Counting
  BY <1>15, NoFaultCounting DEF Fill
<1>16. ASSUME NEW o \in exch.working, Expire(o) PROVE Counting
  BY <1>16, NoFaultCounting, FaultCounting, FaultKinds DEF Expire
<1>17. CASE Disconnect
  BY <1>17, FaultCounting, FaultKinds DEF Disconnect
<1>18. CASE RestartEngine
  <2>1. PICK blind \in BOOLEAN : Fault(IF blind THEN {"engine", "blind"} ELSE {"engine"})
    BY <1>18 DEF RestartEngine
  <2>2. QED BY <2>1, FaultCounting, FaultKinds
<1>19. CASE UNCHANGED vars
  BY <1>19, NoFaultCounting DEF vars
<1>20. QED BY <1>1, <1>2, <1>3, <1>4, <1>5, <1>6, <1>7, <1>8, <1>9, <1>10, <1>11, <1>12,
              <1>13, <1>14, <1>15, <1>16, <1>17, <1>18, <1>19
           DEF Next, Bot, Rx, Main, Exchange, Stream, EntryPlaced, ClosePlaced

IsOrder(o) ==
  /\ o.side \in {1, -1} /\ o.lots \in Nat \ {0} /\ o.reduceOnly \in BOOLEAN
  /\ ~o.reduceOnly => o.lots = 1

IsNews(m) == m.kind \in {"account", "order"} /\ (m.kind = "account" => m.position \in Int)

ExchTyped ==
  /\ exch = [net |-> exch.net, working |-> exch.working]
  /\ exch.net \in Int /\ \A o \in exch.working : IsOrder(o)
StreamTyped == IsSeq(stream) /\ \A m \in Range(stream) : IsNews(m)
EngineTyped ==
  /\ account = [balance |-> account.balance, position |-> account.position,
                stop |-> account.stop, entry |-> account.entry]
  /\ main = [pc |-> main.pc, position |-> main.position]
  /\ account.position \in Int /\ main.position \in Int
  /\ main.pc = "close" => main.position # 0
StartsTyped ==
  /\ count.starts \in Nat /\ bot.brain \in Brain
  /\ count.starts = 0 => bot = NewBot("down") /\ inbox = <<>>

\* What the proofs of the bot's feed and orders have shown, and the types of the rest.
Known == Shape /\ WireInv /\ ExchTyped /\ StreamTyped /\ EngineTyped /\ StartsTyped

LEMMA SizeOfPosition ==
  ASSUME NEW n \in Int
  PROVE  /\ Sign(n) \in {-1, 0, 1} /\ (Sign(n) = 0 <=> n = 0)
         /\ Size(n) \in Nat /\ (Size(n) = 0 <=> n = 0) /\ n = Sign(n) * Size(n)
         /\ n \in {-1, 0, 1} => Sign(n) = n
         /\ Size(n) <= 1 <=> n \in {-1, 0, 1}
<1>1. CASE n > 0
  <2>1. Sign(n) = 1 /\ Size(n) = n * 1
    BY <1>1 DEF Sign, Size
  <2>2. QED BY <1>1, <2>1
<1>2. CASE n < 0
  <2>1. Sign(n) = -1 /\ Size(n) = n * (-1)
    BY <1>2 DEF Sign, Size
  <2>2. n * (-1) = -n
    OBVIOUS
  <2>3. QED BY <1>2, <2>1, <2>2
<1>3. CASE n = 0
  <2>1. Sign(n) = 0 /\ Size(n) = 0
    BY <1>3 DEF Sign, Size
  <2>2. QED BY <1>3, <2>1
<1>4. QED BY <1>1, <1>2, <1>3

LEMMA TwoMessages ==
  ASSUME NEW s, IsSeq(s), NEW a, NEW b
  PROVE  s \o <<a, b>> = Append(Append(s, a), b)
<1> DEFINE S == Range(s) \cup {a, b}
<1>1. s \in Seq(S) /\ a \in S /\ b \in S
  BY SeqMonotonic DEF IsSeq
<1> HIDE DEF S
<1>2. QED BY <1>1

\* A fill, wherever it happens: the account's message, then the order's.
Filled(o) ==
  /\ exch' = [net |-> NetAfter(o), working |-> exch.working \ {o}]
  /\ NetAfter(o) \in Int
  /\ stream' = Append(Append(stream, AccountMessage(NetAfter(o))),
                      OrderMessage(o, "FILLED", o.lots))
  /\ o.reduceOnly => Sign(exch.net) = -o.side
  /\ ExchTyped' /\ StreamTyped'

LEMMA NewsJoins ==
  ASSUME StreamTyped, NEW m, IsNews(m), stream' = Append(stream, m)
  PROVE  StreamTyped'
BY AppendRange DEF StreamTyped

LEMMA FillTyped ==
  ASSUME ExchTyped, StreamTyped, NEW o, IsOrder(o), Fills(o)
  PROVE  Filled(o)
<1> DEFINE m == AccountMessage(NetAfter(o))
           e == OrderMessage(o, "FILLED", o.lots)
<1>1. NetAfter(o) \in Int
  <2>1. exch.net + o.side * o.lots \in Int
    BY DEF ExchTyped, IsOrder
  <2>2. QED BY <2>1 DEF NetAfter
<1>2. exch' = [net |-> NetAfter(o), working |-> exch.working \ {o}]
  BY DEF Fills
<1>3. stream' = Append(Append(stream, m), e)
  BY TwoMessages DEF Fills, StreamTyped
<1>4. IsNews(m) /\ IsNews(e)
  BY <1>1 DEF IsNews, AccountMessage, OrderMessage
<1> HIDE DEF m, e
<1>5. StreamTyped'
  <2>1. IsSeq(Append(stream, m)) /\ Range(Append(stream, m)) = Range(stream) \cup {m}
    BY AppendRange DEF StreamTyped
  <2>2. IsSeq(stream') /\ Range(stream') = Range(stream) \cup {m} \cup {e}
    BY <1>3, <2>1, AppendRange
  <2>3. QED BY <1>4, <2>2 DEF StreamTyped
<1>6. ExchTyped'
  BY <1>1, <1>2 DEF ExchTyped
<1>7. o.reduceOnly => Sign(exch.net) = -o.side
  BY DEF Fills, Reduces
<1>8. QED BY <1>1, <1>2, <1>3, <1>5, <1>6, <1>7 DEF Filled, m, e

\* The exchange and its stream.
LEMMA ExchangeTyped ==
  ASSUME Known, Counting, [Next]_vars
  PROVE  ExchTyped' /\ StreamTyped'
<1>0. ExchTyped /\ StreamTyped /\ EngineTyped /\ WireInv
  BY DEF Known
<1>a. ASSUME UNCHANGED <<exch, stream>> PROVE ExchTyped' /\ StreamTyped'
  BY <1>0, <1>a DEF ExchTyped, StreamTyped
<1>b. ASSUME NEW o, IsOrder(o), exch' = [exch EXCEPT !.working = @ \cup {o}], stream' = stream
      PROVE  ExchTyped' /\ StreamTyped'
  <2>1. exch' = [net |-> exch.net, working |-> exch.working \cup {o}]
    BY <1>0, <1>b DEF ExchTyped
  <2>2. QED BY <1>0, <1>b, <2>1 DEF ExchTyped, StreamTyped
<1>c. ASSUME NEW o, IsOrder(o), Fills(o) PROVE ExchTyped' /\ StreamTyped'
  BY <1>0, <1>c, FillTyped DEF Filled
<1>1. CASE StartBot \/ FetchPage \/ WarmUp \/ Subscribe \/ WarmUpFails \/ BotDies
  BY <1>1, <1>a DEF StartBot, FetchPage, WarmUp, Subscribe, WarmUpFails, BotDies
<1>2. CASE HearBar \/ HearOrderUpdate
  BY <1>2, <1>a DEF HearBar, HearOrderUpdate
<1>3. ASSUME NEW side \in {1, -1}, HearSignal(side) \/ HearSignalRaises(side)
      PROVE  ExchTyped' /\ StreamTyped'
  BY <1>3, <1>a DEF HearSignal, HearSignalRaises
<1>4. CASE RxRefuse \/ RxSetStop \/ RxArm
  BY <1>4, <1>a DEF RxRefuse, RxSetStop, RxArm
<1>5. CASE EntryPlaced
  <2> DEFINE o == Order(count.placed + 1, Head(toEngine).side, 1, FALSE)
  <2>1. Head(toEngine) \in Range(toEngine)
    <3>1. toEngine # <<>> /\ IsSeq(toEngine)
      BY <1>0, <1>5 DEF EntryPlaced, RxAccept, RxUnanswered, WireInv
    <3>2. Head(toEngine) = toEngine[1] /\ 1 \in DOMAIN toEngine
      BY <3>1, TailElements
    <3>3. QED BY <3>2 DEF Range
  <2>2. IsOrder(o)
    BY <1>0, <2>1 DEF IsOrder, Order, WireInv, FromSettings
  <2>3. \/ exch' = [exch EXCEPT !.working = @ \cup {o}] /\ stream' = stream
        \/ Fills(o)
    BY <1>5 DEF EntryPlaced, RxAccept, RxUnanswered
  <2>4. QED BY <1>b, <1>c, <2>2, <2>3
<1>6. CASE ClosePlaced
  <2> DEFINE o == CloseOrder
  <2>1. main.position \in Int /\ main.position # 0
    BY <1>0, <1>6 DEF ClosePlaced, CloseSent, CloseUnanswered, EngineTyped
  <2>2. -Sign(main.position) \in {1, -1} /\ Size(main.position) \in Nat \ {0}
    BY <2>1, SizeOfPosition
  <2>3. IsOrder(o)
    BY <2>2 DEF IsOrder, Order, CloseOrder
  <2>4. \/ exch' = [exch EXCEPT !.working = @ \cup {o}] /\ stream' = stream
        \/ Fills(o)
    BY <1>6 DEF ClosePlaced, CloseSent, CloseUnanswered
  <2>5. QED BY <1>b, <1>c, <2>3, <2>4
<1>7. CASE CheckFlat \/ CheckHeld \/ CheckHit
  BY <1>7, <1>a DEF CheckFlat, CheckHeld, CheckHit, Unchecked, UncheckedBut
<1>8. CASE CloseRefused \/ Publish \/ MissBar \/ MarketCloses
  BY <1>8, <1>a DEF CloseRefused, Publish, MissBar, MarketCloses
<1>9. CASE Liquidate
  <2>1. exch' = [net |-> 0, working |-> exch.working]
    BY <1>0, <1>9 DEF Liquidate, ExchTyped
  <2>2. IsNews(AccountMessage(0))
    BY DEF IsNews, AccountMessage
  <2>3. StreamTyped'
    BY <1>0, <1>9, <2>2, NewsJoins DEF Liquidate
  <2>4. QED BY <1>0, <2>1, <2>3 DEF ExchTyped
<1>10. ASSUME NEW o \in exch.working, Fill(o) PROVE ExchTyped' /\ StreamTyped'
  BY <1>0, <1>10, <1>c DEF Fill, ExchTyped
<1>11. ASSUME NEW o \in exch.working, Expire(o) PROVE ExchTyped' /\ StreamTyped'
  <2>1. exch' = [net |-> exch.net, working |-> exch.working \ {o}]
    BY <1>0, <1>11 DEF Expire, ExchTyped
  <2>2. IsNews(OrderMessage(o, "EXPIRED", 0))
    BY DEF IsNews, OrderMessage
  <2>3. StreamTyped'
    BY <1>0, <1>11, <2>2, NewsJoins DEF Expire
  <2>4. QED BY <1>0, <2>1, <2>3 DEF ExchTyped
<1>12. CASE Deliver \/ Disconnect
  <2>1. stream # <<>> /\ stream' = Tail(stream) /\ exch' = exch
    BY <1>12 DEF Deliver, Disconnect
  <2>2. QED BY <1>0, <2>1, TailRange DEF StreamTyped, ExchTyped
<1>13. CASE RestartEngine
  <2>1. stream' = <<>> /\ exch' = exch
    BY <1>13 DEF RestartEngine
  <2>2. IsSeq(<<>>) /\ Range(<<>>) = {}
    <3>1. <<>> \in Seq({}) /\ DOMAIN <<>> = {}
      OBVIOUS
    <3>2. QED BY <3>1, SeqOfItsRange DEF Range
  <2>3. QED BY <1>0, <2>1, <2>2 DEF StreamTyped, ExchTyped
<1>14. CASE UNCHANGED vars
  BY <1>14, <1>a DEF vars
<1>15. QED BY <1>1, <1>2, <1>3, <1>4, <1>5, <1>6, <1>7, <1>8, <1>9, <1>10, <1>11, <1>12,
              <1>13, <1>14
           DEF Next, Bot, Rx, Main, Exchange, Stream, EntryPlaced, ClosePlaced

LEMMA PositionTold ==
  ASSUME EngineTyped, NEW n \in Int, account' = Risk!UpdatePosition(account, n)
  PROVE  /\ account' = [balance |-> account'.balance, position |-> n,
                        stop |-> account'.stop, entry |-> account'.entry]
         /\ account'.position = n
<1>1. \/ account' = [account EXCEPT !.position = 0, !.stop = 0, !.entry = 0] /\ n = 0
      \/ account' = [account EXCEPT !.position = n]
  BY DEF Risk!UpdatePosition
<1>2. account = [balance |-> account.balance, position |-> account.position,
                 stop |-> account.stop, entry |-> account.entry]
  BY DEF EngineTyped
<1>3. QED BY <1>1, <1>2

LEMMA EngineTypedStep ==
  ASSUME Known, [Next]_vars
  PROVE  EngineTyped'
<1>0. EngineTyped /\ StreamTyped /\ ExchTyped
  BY DEF Known
<1>a. ASSUME UNCHANGED <<account, main>> PROVE EngineTyped'
  BY <1>0, <1>a DEF EngineTyped
<1>b. ASSUME account' = account, NEW pc, pc # "close", main' = [main EXCEPT !.pc = pc]
      PROVE  EngineTyped'
  <2>1. main' = [pc |-> pc, position |-> main.position]
    BY <1>0, <1>b DEF EngineTyped
  <2>2. QED BY <1>0, <1>b, <2>1 DEF EngineTyped
<1>1. CASE Bot
  BY <1>1, <1>a DEF Bot, StartBot, FetchPage, WarmUp, WarmUpFails, BotDies, HearBar,
                    HearOrderUpdate, HearSignal, HearSignalRaises, engineVars
<1>2. CASE RxRefuse \/ RxAccept \/ RxUnanswered \/ RxArm
  BY <1>2, <1>a DEF RxRefuse, RxAccept, RxUnanswered, RxArm, engineVars
<1>3. CASE RxSetStop
  <2>1. account' = [account EXCEPT !.stop = rx.order.stop] /\ main' = main
    BY <1>3 DEF RxSetStop
  <2>2. QED BY <1>0, <2>1 DEF EngineTyped
<1>4. CASE CheckFlat \/ CheckHeld
  BY <1>4, <1>b DEF CheckFlat, CheckHeld, Unchecked, UncheckedBut
<1>5. CASE CheckHit
  BY <1>0, <1>5 DEF CheckHit, UncheckedBut, EngineTyped
<1>6. CASE CloseSent \/ CloseUnanswered \/ CloseRefused
  BY <1>6, <1>b DEF CloseSent, CloseUnanswered, CloseRefused, engineVars
<1>7. CASE Publish
  BY <1>7, <1>b DEF Publish, engineVars
<1>8. CASE MissBar \/ MarketCloses \/ Liquidate \/ Subscribe \/ Disconnect
  BY <1>8, <1>a DEF MissBar, MarketCloses, Liquidate, Subscribe, Disconnect, engineVars
<1>9. ASSUME NEW o \in exch.working, Fill(o) \/ Expire(o) PROVE EngineTyped'
  BY <1>9, <1>a DEF Fill, Expire, engineVars
<1>10. CASE Deliver
  <2>1. main' = main /\ stream # <<>>
    BY <1>10 DEF Deliver
  <2>2. CASE Head(stream).kind = "account"
    <3>1. Head(stream) \in Range(stream)
      <4>1. Head(stream) = stream[1] /\ 1 \in DOMAIN stream
        BY <1>0, <2>1, TailElements DEF StreamTyped
      <4>2. QED BY <4>1 DEF Range
    <3>2. Head(stream).position \in Int
      BY <1>0, <2>2, <3>1 DEF StreamTyped, IsNews
    <3>3. account' = Risk!UpdatePosition(account, Head(stream).position)
      BY <1>10, <2>2 DEF Deliver
    <3>4. QED BY <1>0, <2>1, <3>2, <3>3, PositionTold DEF EngineTyped
  <2>3. CASE Head(stream).kind # "account"
    BY <1>10, <1>a, <2>1, <2>3 DEF Deliver
  <2>4. QED BY <2>2, <2>3
<1>11. CASE RestartEngine
  <2>1. PICK blind \in BOOLEAN :
          account' = Risk!UpdatePosition(Risk!OpenAccount(0), IF blind THEN 0 ELSE exch.net)
    BY <1>11 DEF RestartEngine
  <2>2. PICK n \in Int : account' = Risk!UpdatePosition(Risk!OpenAccount(0), n)
    BY <1>0, <2>1 DEF ExchTyped
  <2>3. account' = [balance |-> 0, position |-> n, stop |-> 0, entry |-> 0]
    BY <2>2 DEF Risk!UpdatePosition, Risk!OpenAccount
  <2>4. main' = [pc |-> "idle", position |-> 0]
    BY <1>11 DEF RestartEngine
  <2>5. QED BY <2>2, <2>3, <2>4 DEF EngineTyped
<1>12. CASE UNCHANGED vars
  BY <1>12, <1>a DEF vars, engineVars
<1>13. QED BY <1>1, <1>2, <1>3, <1>4, <1>5, <1>6, <1>7, <1>8, <1>9, <1>10, <1>11, <1>12
           DEF Next, Rx, Main, Exchange, Stream

LEMMA BrainTyped ==
  ASSUME NEW b \in Brain, NEW p, NEW m
  PROVE  AfterGate(b, p) \in Brain /\ Entered(b, p) \in Brain /\ OnOrderUpdate(b, m) \in Brain
<1>1. b = [state |-> b.state, saw |-> b.saw] /\ b.state \in {"IDLE", "WAITING_CLOSE"}
      /\ b.saw \in BOOLEAN
  BY DEF Brain
<1>2. FreshBrain \in Brain
  BY DEF FreshBrain, Brain
<1>3. Observed(b, p) \in Brain
  <2>1. (b.saw \/ p # 0) \in BOOLEAN
    OBVIOUS
  <2>2. QED BY <1>1, <2>1 DEF Observed, Brain
<1>4. AfterGate(b, p) \in Brain
  BY <1>2, <1>3 DEF AfterGate
<1>5. Entered(b, p) \in Brain
  BY <1>4 DEF Entered, Brain
<1>6. OnOrderUpdate(b, m) \in Brain
  BY <1>2 DEF OnOrderUpdate
<1>7. QED BY <1>4, <1>5, <1>6

LEMMA StartsTypedStep ==
  ASSUME Known, Counting, [Next]_vars
  PROVE  StartsTyped'
<1>0. StartsTyped /\ CountShape /\ BotShape
  BY DEF Known, Shape
<1>1. bot'.brain \in Brain
  <2>a. bot.brain \in Brain /\ FreshBrain \in Brain
    BY <1>0 DEF StartsTyped, FreshBrain, Brain
  <2>b. \A phase : NewBot(phase).brain = FreshBrain
    BY DEF NewBot
  <2>1. CASE StartBot \/ BotDies
    BY <2>1, <2>a, <2>b DEF StartBot, BotDies
  <2>2. CASE FetchPage \/ WarmUp \/ WarmUpFails \/ Subscribe
    <3>1. bot'.brain = bot.brain
      BY <2>2, <1>0 DEF FetchPage, WarmUp, WarmUpFails, Subscribe, BotShape
    <3>2. QED BY <3>1, <2>a
  <2>3. CASE HearBar
    <3>1. bot'.brain = AfterGate(bot.brain, Head(inbox).position)
      BY <2>3, <1>0 DEF HearBar, BotShape
    <3>2. QED BY <3>1, <2>a, BrainTyped
  <2>4. CASE HearOrderUpdate
    <3>1. bot'.brain = OnOrderUpdate(bot.brain, Head(inbox))
      BY <2>4, <1>0 DEF HearOrderUpdate, BotShape
    <3>2. QED BY <3>1, <2>a, BrainTyped
  <2>5. ASSUME NEW side \in {1, -1}, HearSignal(side) PROVE bot'.brain \in Brain
    <3>1. bot'.brain = Entered(bot.brain, Head(inbox).position)
      BY <2>5, <1>0 DEF HearSignal, BotShape
    <3>2. QED BY <3>1, <2>a, BrainTyped
  <2>6. ASSUME NEW side \in {1, -1}, HearSignalRaises(side) PROVE bot'.brain \in Brain
    BY <2>6, <2>a, <2>b DEF HearSignalRaises
  <2>7. CASE RestartEngine
    <3>1. bot'.brain = bot.brain
      BY <2>7, <1>0 DEF RestartEngine, BotShape
    <3>2. QED BY <3>1, <2>a
  <2>8. CASE Rx
    BY <2>8, <2>a DEF Rx, RxRefuse, RxAccept, RxUnanswered, RxSetStop, RxArm, botVars
  <2>9. CASE Main
    BY <2>9, <2>a DEF Main, CheckFlat, CheckHeld, CheckHit, Unchecked, UncheckedBut, CloseSent,
                      CloseUnanswered, CloseRefused, Publish, MissBar, botVars
  <2>10. CASE Exchange
    BY <2>10, <2>a DEF Exchange, MarketCloses, Liquidate, Fill, Expire, botVars
  <2>11. CASE Deliver \/ Disconnect \/ UNCHANGED vars
    BY <2>11, <2>a DEF Deliver, Disconnect, vars, botVars
  <2>12. QED BY <2>1, <2>2, <2>3, <2>4, <2>5, <2>6, <2>7, <2>8, <2>9, <2>10, <2>11
             DEF Next, Bot, Stream
<1>2. count'.starts \in Nat /\ (StartBot => count'.starts # 0)
  <2>1. count.starts \in Nat /\ (StartBot => count'.starts = count.starts + 1)
    BY <1>0 DEF StartBot, StartsTyped, CountShape
  <2>2. QED BY <2>1 DEF Counting
<1>3. ASSUME count'.starts = 0 PROVE bot' = NewBot("down") /\ inbox' = <<>>
  <2>1. count.starts = 0 /\ bot = NewBot("down") /\ inbox = <<>> /\ ~StartBot
    BY <1>0, <1>2, <1>3 DEF Counting, StartsTyped
  <2>2. bot.phase = "down" /\ bot.subscribed = FALSE
    BY <2>1 DEF NewBot
  <2>3. ~FetchPage /\ ~WarmUp /\ ~WarmUpFails /\ ~BotDies /\ ~Subscribe /\ ~Hear
    BY <2>2 DEF FetchPage, WarmUp, WarmUpFails, BotDies, Subscribe, Hear
  <2>4. ~Bot
    BY <2>1, <2>3 DEF Bot, HearBar, HearOrderUpdate, HearSignal, HearSignalRaises
  <2>5. \A m : ToBot(m) => inbox' = inbox
    BY <2>2 DEF ToBot
  <2>6. CASE Rx
    BY <2>6, <2>1 DEF Rx, RxRefuse, RxAccept, RxUnanswered, RxSetStop, RxArm, botVars
  <2>7. CASE Main
    BY <2>7, <2>1, <2>5 DEF Main, CheckFlat, CheckHeld, CheckHit, Unchecked, UncheckedBut,
                            CloseSent, CloseUnanswered, CloseRefused, Publish, MissBar, botVars
  <2>8. CASE Exchange
    BY <2>8, <2>1 DEF Exchange, MarketCloses, Liquidate, Fill, Expire, botVars
  <2>9. CASE Deliver
    <3>1. bot' = bot /\ inbox' = inbox
      BY <2>9, <2>5 DEF Deliver, botVars
    <3>2. QED BY <3>1, <2>1
  <2>10. CASE Disconnect \/ UNCHANGED vars
    BY <2>10, <2>1 DEF Disconnect, vars, botVars
  <2>11. CASE RestartEngine
    <3>1. bot' = bot /\ inbox' = inbox
      <4>1. bot' = [bot EXCEPT !.subscribed = FALSE] /\ inbox' = inbox
        BY <2>11 DEF RestartEngine
      <4>2. bot' = [phase |-> bot.phase, subscribed |-> FALSE, rows |-> bot.rows,
                    absorbed |-> bot.absorbed, brain |-> bot.brain, cold |-> bot.cold,
                    firstPage |-> bot.firstPage, joined |-> bot.joined]
        BY <1>0, <4>1 DEF BotShape
      <4>3. QED BY <1>0, <2>2, <4>1, <4>2 DEF BotShape
    <3>2. QED BY <3>1, <2>1
  <2>12. QED BY <2>3, <2>4, <2>6, <2>7, <2>8, <2>9, <2>10, <2>11 DEF Next, Stream
<1>4. QED BY <1>1, <1>2, <1>3 DEF StartsTyped

LEMMA KnownStep ==
  ASSUME Known, Shape', [Next]_vars
  PROVE  Known' /\ Counting
<1>1. Counting
  BY CountingStep DEF Known, Shape
<1>2. ExchTyped' /\ StreamTyped' /\ EngineTyped' /\ StartsTyped'
  BY <1>1, ExchangeTyped, EngineTypedStep, StartsTypedStep
<1>3. WireInv'
  BY WireNext DEF Known
<1>4. QED BY <1>1, <1>2, <1>3 DEF Known

-----------------------------------------------------------------------------
(* The invariant.                                                          *)

Entries == {o \in exch.working : ~o.reduceOnly}
Coming == toEngine # <<>> \/ Entries # {}
Exposed == Coming \/ exch.net # 0

\* What is exposed is one order or one lot.
Sole ==
  /\ Len(toEngine) <= 1
  /\ toEngine # <<>> => Entries = {} /\ exch.net = 0
  /\ \A o, p \in Entries : o = p
  /\ Entries # {} => exch.net = 0
  /\ exch.net \in {-1, 0, 1}

(***************************************************************************)
(* What a brain with the messages s before it can rely on.  An idle one    *)
(* finds nothing, now or in any message.  For a waiting one a position     *)
(* that it may see come and go is the last, and the news of an entry       *)
(* without a fill means that nothing came of it.                           *)
(***************************************************************************)
View(brain, s) == ViewOf(brain.saw, s, account.position, stream, exch.net)

AtRest(brain, s) ==
  ~brain.saw /\ Flat(View(brain, s)) /\ ~Exposed /\ ~ToldUnfilled(s, stream)

Waiting(brain, s) ==
  /\ Settles(View(brain, s))
  /\ Gone(View(brain, s)) => ~Exposed
  /\ Coming => Flat(View(brain, s))
  /\ ToldUnfilled(s, stream) => Flat(View(brain, s)) /\ ~Exposed
  /\ ToldOnce(s, stream)

Gate(brain, s) == IF brain.state = "IDLE" THEN AtRest(brain, s) ELSE Waiting(brain, s)

OneBot == count.starts <= 1 /\ Without({"blind"})
Running == bot.phase # "down" \/ count.starts = 0
Safe == Sole /\ (Running => Gate(bot.brain, inbox))

ExposureInv == Known /\ (OneBot => Safe)

LEMMA OneBotBefore ==
  ASSUME Known, Counting, OneBot'
  PROVE  OneBot /\ (StartBot => count.starts = 0)
<1>1. StartBot => count'.starts = count.starts + 1
  BY DEF StartBot, Known, Shape, CountShape
<1>2. count.starts \in Nat /\ count'.starts <= 1 /\ count'.faults["blind"] = 0
  BY DEF OneBot, Without, Known, StartsTyped
<1>3. count.starts <= 1 /\ (StartBot => count.starts = 0)
  BY <1>1, <1>2 DEF Counting
<1>4. count.faults["blind"] = 0
  BY <1>2 DEF Counting, Faults
<1>5. QED BY <1>3, <1>4 DEF OneBot, Without

-----------------------------------------------------------------------------
(* Steps that add nothing to the exposure and nothing to the view.         *)

Relay ==
  /\ bot'.brain = bot.brain /\ (bot'.phase # "down" => bot.phase # "down")
  /\ count'.starts = count.starts
  /\ toEngine' # <<>> => toEngine' = toEngine
  /\ exch'.net = exch.net /\ Entries' \subseteq Entries
  /\ Calmer(View(bot.brain, inbox), View(bot.brain, inbox)')
  /\ Quieter(inbox, stream, inbox', stream')

\* A gate that is told nothing more of no more keeps what it relies on.
LEMMA GateRelays ==
  ASSUME Gate(bot.brain, inbox), bot'.brain = bot.brain,
         Calmer(View(bot.brain, inbox), View(bot.brain, inbox)'),
         Quieter(inbox, stream, inbox', stream'), Coming' => Coming, Exposed' => Exposed
  PROVE  Gate(bot.brain, inbox)'
<1> DEFINE v == View(bot.brain, inbox)
           w == View(bot.brain, inbox)'
<1>1. Calmer(v, w)
  OBVIOUS
<1> HIDE DEF v, w
<1>2. CASE bot.brain.state = "IDLE"
  <2>1. ~bot.brain.saw /\ Flat(v) /\ ~Exposed /\ ~ToldUnfilled(inbox, stream)
    BY <1>2 DEF Gate, AtRest, v
  <2>2. ~bot'.brain.saw /\ Flat(w) /\ ~Exposed' /\ ~ToldUnfilled(inbox', stream')
    BY <1>1, <2>1 DEF Calmer, Quieter
  <2>3. QED BY <1>2, <2>2 DEF Gate, AtRest, w
<1>3. CASE bot.brain.state # "IDLE"
  <2>1. /\ Settles(v) /\ (Gone(v) => ~Exposed) /\ (Coming => Flat(v))
        /\ ToldUnfilled(inbox, stream) => Flat(v) /\ ~Exposed
        /\ ToldOnce(inbox, stream)
    BY <1>3 DEF Gate, Waiting, v
  <2>2. /\ Settles(w) /\ (Gone(w) => ~Exposed') /\ (Coming' => Flat(w))
        /\ ToldUnfilled(inbox', stream') => Flat(w) /\ ~Exposed'
        /\ ToldOnce(inbox', stream')
    BY <1>1, <2>1 DEF Calmer, Quieter
  <2>3. QED BY <1>3, <2>2 DEF Gate, Waiting, w
<1>4. QED BY <1>2, <1>3

LEMMA RelayKeeps ==
  ASSUME Safe, Relay
  PROVE  Safe'
<1>1. Sole'
  <2>1. Len(<<>>) <= 1
    OBVIOUS
  <2>2. Len(toEngine') <= 1 /\ (toEngine' # <<>> => toEngine # <<>>)
    BY <2>1 DEF Safe, Sole, Relay
  <2>3. Entries' # {} => Entries # {}
    BY DEF Relay
  <2>4. \A o, p \in Entries' : o = p
    BY DEF Safe, Sole, Relay
  <2>5. QED BY <2>2, <2>3, <2>4 DEF Safe, Sole, Relay
<1>2. (Coming' => Coming) /\ (Exposed' => Exposed)
  BY DEF Relay, Coming, Exposed
<1>3. ASSUME Running' PROVE Gate(bot.brain, inbox)'
  <2>1. Gate(bot.brain, inbox)
    BY <1>3 DEF Safe, Running, Relay
  <2>2. QED BY <1>2, <2>1, GateRelays DEF Relay
<1>4. QED BY <1>1, <1>3 DEF Safe

LEMMA NothingHappens ==
  ASSUME UNCHANGED <<toEngine, exch, stream, inbox>>, account'.position = account.position,
         bot'.brain = bot.brain, bot'.phase # "down" => bot.phase # "down",
         count'.starts = count.starts
  PROVE  Relay
<1>1. View(bot.brain, inbox)' = View(bot.brain, inbox)
  BY DEF View
<1>2. Calmer(View(bot.brain, inbox), View(bot.brain, inbox)')
  BY <1>1 DEF Calmer
<1>3. Quieter(inbox, stream, inbox', stream')
  BY DEF Quieter
<1>4. Entries' = Entries
  BY DEF Entries
<1>5. QED BY <1>2, <1>3, <1>4 DEF Relay

LEMMA BotPrepares ==
  ASSUME Known, count'.starts = count.starts,
         FetchPage \/ WarmUp \/ WarmUpFails \/ Subscribe
  PROVE  Relay
<1>0. BotShape
  BY DEF Known, Shape
<1>1. /\ UNCHANGED <<toEngine, exch, stream, inbox, account>>
      /\ bot'.brain = bot.brain /\ bot.phase # "down"
  BY <1>0 DEF FetchPage, WarmUp, WarmUpFails, Subscribe, BotShape, engineVars
<1>2. QED BY <1>1, NothingHappens

\* A message for the bot, with the engine's position or with no word of it.
LEMMA BotIsTold ==
  ASSUME Known, count'.starts = count.starts, NEW m, ToBot(m), ~Unfilled(m),
         Told(m) \in {"none", Word(account.position)},
         UNCHANGED <<toEngine, exch, stream, bot, account>>
  PROVE  Relay
<1>0. IsSeq(inbox) /\ IsSeq(stream)
  BY DEF Known, Shape, Bars, StreamTyped
<1>1. CASE inbox' = inbox
  BY <1>1, NothingHappens
<1>2. CASE inbox' = Append(inbox, m)
  <2>1. Calmer(View(bot.brain, inbox), View(bot.brain, inbox)')
    BY <1>0, <1>2, PublishedView DEF View
  <2>2. Quieter(inbox, stream, inbox', stream')
    BY <1>0, <1>2, OtherNews
  <2>3. Entries' = Entries
    BY DEF Entries
  <2>4. QED BY <2>1, <2>2, <2>3 DEF Relay
<1>3. QED BY <1>1, <1>2 DEF ToBot

LEMMA EngineRelays ==
  ASSUME Known, Safe, count'.starts = count.starts,
         \/ RxRefuse \/ RxSetStop \/ RxArm \/ CheckFlat \/ CheckHeld \/ CheckHit
         \/ CloseRefused \/ MissBar \/ MarketCloses \/ Publish \/ UNCHANGED vars
  PROVE  Relay
<1>1. CASE RxRefuse
  <2>1. toEngine # <<>> /\ toEngine' = Tail(toEngine)
    BY <1>1 DEF RxRefuse
  <2>2. IsSeq(toEngine) /\ Len(toEngine) <= 1
    BY DEF Known, WireInv, Safe, Sole
  <2>3. IsSeq(Tail(toEngine)) /\ Len(Tail(toEngine)) = 0
    <3>1. /\ IsSeq(Tail(toEngine)) /\ Len(toEngine) \in Nat \ {0}
          /\ Len(Tail(toEngine)) = Len(toEngine) - 1
      BY <2>1, <2>2, TailElements
    <3>2. QED BY <2>2, <3>1
  <2>4. toEngine' = <<>>
    BY <2>1, <2>3, EmptySeq DEF IsSeq
  <2>5. View(bot.brain, inbox)' = View(bot.brain, inbox) /\ Entries' = Entries
        /\ UNCHANGED <<bot, exch, inbox, stream>>
    BY <1>1 DEF RxRefuse, View, Entries, botVars, engineVars
  <2>6. QED BY <2>4, <2>5 DEF Relay, Calmer, Quieter
<1>2. CASE RxSetStop
  <2>1. account'.position = account.position
    BY <1>2 DEF RxSetStop, Known, EngineTyped
  <2>2. QED BY <1>2, <2>1, NothingHappens DEF RxSetStop, botVars
<1>3. CASE RxArm
  BY <1>3, NothingHappens DEF RxArm, botVars
<1>4. CASE CheckFlat \/ CheckHeld \/ CheckHit
  BY <1>4, NothingHappens DEF CheckFlat, CheckHeld, CheckHit, Unchecked, UncheckedBut, botVars
<1>5. CASE CloseRefused \/ MissBar \/ MarketCloses
  BY <1>5, NothingHappens DEF CloseRefused, MissBar, MarketCloses, botVars, engineVars
<1>6. CASE Publish
  <2> DEFINE m == [kind |-> "kline", bar |-> published + 1, position |-> account.position]
  <2>1. ToBot(m) /\ UNCHANGED <<toEngine, exch, stream, bot, account>>
    BY <1>6 DEF Publish, botVars, engineVars
  <2>2. ~Unfilled(m) /\ Told(m) = Word(account.position)
    BY DEF Unfilled, Told
  <2>3. QED BY <2>1, <2>2, BotIsTold
<1>7. CASE UNCHANGED vars
  BY <1>7, NothingHappens DEF vars, botVars, engineVars
<1>8. QED BY <1>1, <1>2, <1>3, <1>4, <1>5, <1>6, <1>7

LEMMA HeadNews ==
  ASSUME StreamTyped, stream # <<>>
  PROVE  IsNews(Head(stream))
<1>1. Head(stream) = stream[1] /\ 1 \in DOMAIN stream
  BY TailElements DEF StreamTyped
<1>2. QED BY <1>1 DEF Range, StreamTyped

LEMMA DeliverRelays ==
  ASSUME Known, count'.starts = count.starts, Deliver
  PROVE  Relay
<1> DEFINE m == Head(stream)
           u == [kind |-> "order_update", status |-> m.status, filled |-> m.filled,
                 reduceOnly |-> m.reduceOnly, reason |-> ""]
<1>0. IsSeq(inbox) /\ IsSeq(stream) /\ EngineTyped /\ StreamTyped
  BY DEF Known, Shape, Bars, StreamTyped
<1>1. stream # <<>> /\ stream' = Tail(stream) /\ UNCHANGED <<toEngine, exch, bot>> /\ IsNews(m)
  BY <1>0, HeadNews DEF Deliver, botVars
<1>2. Entries' = Entries
  BY <1>1 DEF Entries
<1>3. CASE m.kind = "account"
  <2>1. account' = Risk!UpdatePosition(account, m.position) /\ inbox' = inbox
    BY <1>3 DEF Deliver
  <2>2. account'.position = m.position
    BY <1>0, <1>1, <1>3, <2>1, PositionTold DEF IsNews
  <2>3. Told(m) = Word(account'.position)
    BY <1>3, <2>2 DEF Told
  <2>4. Calmer(View(bot.brain, inbox), View(bot.brain, inbox)')
    BY <1>0, <1>1, <2>1, <2>3, ArrivedView DEF View
  <2>5. Quieter(inbox, stream, inbox', stream')
    BY <1>0, <1>1, <2>1, PassedOnNews
  <2>6. QED BY <1>1, <1>2, <2>4, <2>5 DEF Relay
<1>4. CASE m.kind # "account"
  <2>1. account' = account /\ (inbox' = inbox \/ inbox' = Append(inbox, u))
    BY <1>4 DEF Deliver, ToBot
  <2> DEFINE v == View(bot.brain, inbox)
             w == ViewOf(bot.brain.saw, inbox, account.position, Tail(stream), exch.net)
  <2>2. Calmer(v, w)
    BY <1>0, <1>1, ArrivedView DEF View
  <2>3. CASE inbox' = inbox
    <3>1. View(bot.brain, inbox)' = w
      BY <1>1, <2>1, <2>3 DEF View
    <3>2. Quieter(inbox, stream, inbox', stream')
      BY <1>0, <1>1, <2>3, PassedOnNews
    <3>3. QED BY <1>1, <1>2, <2>2, <3>1, <3>2 DEF Relay
  <2>4. CASE inbox' = Append(inbox, u)
    <3>1. IsSeq(Tail(stream)) /\ Told(u) = "none"
      BY <1>0, <1>1, TailElements DEF Told
    <3>2. Calmer(w, View(bot.brain, inbox)')
      <4>1. View(bot.brain, inbox)' =
              ViewOf(bot.brain.saw, Append(inbox, u), account.position, Tail(stream), exch.net)
        BY <1>1, <2>1, <2>4 DEF View
      <4> DEFINE p == account.position
                 t == Tail(stream)
                 n == exch.net
                 saw == bot.brain.saw
      <4>2. IsSeq(t) /\ IsSeq(inbox) /\ Told(u) \in {"none", Word(p)}
        BY <1>0, <3>1
      <4> HIDE DEF u, m, p, t, n, saw
      <4>3. Calmer(ViewOf(saw, inbox, p, t, n), ViewOf(saw, Append(inbox, u), p, t, n))
        BY <4>2, PublishedView
      <4>4. QED BY <4>1, <4>3 DEF p, t, n, saw
    <3>3. Calmer(v, View(bot.brain, inbox)')
      BY <2>2, <3>2, CalmerStill
    <3>4. m.kind = "order" /\ (Unfilled(u) => Unfilled(m))
      BY <1>1, <1>4 DEF IsNews, Unfilled
    <3>5. Quieter(inbox, stream, inbox', stream')
      BY <1>0, <1>1, <2>4, <3>4, PassedOnNews
    <3>6. QED BY <1>1, <1>2, <3>3, <3>5 DEF Relay
  <2>5. QED BY <2>1, <2>3, <2>4
<1>5. QED BY <1>3, <1>4

LEMMA DisconnectRelays ==
  ASSUME Known, count'.starts = count.starts, Disconnect
  PROVE  Relay
<1>0. IsSeq(inbox) /\ IsSeq(stream)
  BY DEF Known, Shape, Bars, StreamTyped
<1>1. /\ stream # <<>> /\ stream' = Tail(stream)
      /\ UNCHANGED <<toEngine, exch, bot, account, inbox>>
  BY DEF Disconnect, botVars, engineVars
<1>2. Entries' = Entries
  BY <1>1 DEF Entries
<1>3. Calmer(View(bot.brain, inbox), View(bot.brain, inbox)')
  BY <1>0, <1>1, ArrivedView DEF View
<1>4. Quieter(inbox, stream, inbox', stream')
  BY <1>0, <1>1, PassedOnNews
<1>5. QED BY <1>1, <1>2, <1>3, <1>4 DEF Relay

\* An engine that could ask for its position starts with the exchange's.
LEMMA RestartRelays ==
  ASSUME Known, OneBot', count'.starts = count.starts, RestartEngine
  PROVE  Relay
<1>0. IsSeq(inbox) /\ IsSeq(stream) /\ BotShape /\ CountShape /\ ExchTyped
  BY DEF Known, Shape, Bars, StreamTyped
<1>1. PICK blind \in BOOLEAN :
        /\ account' = Risk!UpdatePosition(Risk!OpenAccount(0), IF blind THEN 0 ELSE exch.net)
        /\ Fault(IF blind THEN {"engine", "blind"} ELSE {"engine"})
  BY DEF RestartEngine
<1>2. ~blind
  <2>1. ASSUME blind PROVE FALSE
    <3>1. Fault({"engine", "blind"})
      BY <1>1, <2>1
    <3>2. count'.faults["blind"] # 0
      BY <1>0, <3>1, FaultCounting, FaultKinds
    <3>3. QED BY <3>2 DEF OneBot, Without
  <2>2. QED BY <2>1
<1>3. account'.position = exch.net
  BY <1>0, <1>1, <1>2 DEF Risk!UpdatePosition, Risk!OpenAccount, ExchTyped
<1>4. /\ stream' = <<>> /\ UNCHANGED <<inbox, toEngine, exch>>
      /\ bot'.brain = bot.brain /\ bot'.phase = bot.phase
  BY <1>0 DEF RestartEngine, BotShape
<1>5. Calmer(View(bot.brain, inbox), View(bot.brain, inbox)')
  BY <1>0, <1>3, <1>4, RestartedView DEF View
<1>6. Quieter(inbox, stream, inbox', stream') /\ Entries' = Entries
  BY <1>4, NoNews DEF Entries
<1>7. QED BY <1>4, <1>5, <1>6 DEF Relay

-----------------------------------------------------------------------------
(* Orders rest, are filled and end.                                        *)

\* The steps of the engine and the exchange leave the bot and what it is sent alone.
BotWaits == UNCHANGED <<bot, inbox, account>> /\ count'.starts = count.starts

LEMMA SignOfLot ==
  ASSUME exch.net \in {-1, 0, 1}, NEW o, IsOrder(o)
  PROVE  /\ exch.net = 0 /\ ~o.reduceOnly => NetAfter(o) \in {1, -1}
         /\ o.reduceOnly /\ Sign(exch.net) = -o.side => exch.net # 0 /\ NetAfter(o) = 0
<1>1. /\ o.side \in {1, -1} /\ o.lots \in Nat \ {0} /\ (~o.reduceOnly => o.lots = 1)
      /\ Sign(exch.net) = exch.net /\ Size(exch.net) \in Nat /\ Size(exch.net) <= 1
      /\ (Size(exch.net) = 0 <=> exch.net = 0)
  BY SizeOfPosition DEF IsOrder
<1>2. exch.net = 0 /\ ~o.reduceOnly => NetAfter(o) \in {1, -1}
  BY <1>1 DEF NetAfter
<1>3. ASSUME o.reduceOnly, Sign(exch.net) = -o.side PROVE exch.net # 0 /\ NetAfter(o) = 0
  <2>1. exch.net = -o.side /\ Size(exch.net) = 1
    BY <1>1, <1>3
  <2>2. CASE o.lots = 1
    BY <1>1, <2>1, <2>2 DEF NetAfter
  <2>3. CASE o.lots # 1
    <3>1. Size(exch.net) < o.lots
      BY <1>1, <2>1, <2>3
    <3>2. QED BY <1>1, <1>3, <2>1, <3>1 DEF NetAfter
  <2>4. QED BY <2>2, <2>3
<1>4. QED BY <1>2, <1>3

\* What the bot has been told, once the stream has the news of a position x.
LEMMA NewsOfPosition ==
  ASSUME Known, NEW x, NEW m, m.kind = "account", m.position = x,
         NEW more, ~Unfilled(more), Told(more) = "none",
         \/ stream' = Append(stream, m)
         \/ stream' = Append(Append(stream, m), more),
         exch'.net = x, UNCHANGED <<bot, inbox, account>>
  PROVE  /\ x = 0 /\ Settles(View(bot.brain, inbox)) => Settles(View(bot.brain, inbox)')
         /\ Flat(View(bot.brain, inbox)) =>
              Settles(View(bot.brain, inbox)') /\ ~Gone(View(bot.brain, inbox)')
         /\ Quieter(inbox, stream, inbox', stream')
<1> DEFINE s == inbox
           t == stream
           r == Append(t, m)
           p == account.position
           n == exch.net
           saw == bot.brain.saw
           v == ViewOf(saw, s, p, t, n)
           w == ViewOf(saw, s, p, r, x)
           z == ViewOf(saw, s, p, Append(r, more), x)
<1>0. IsSeq(s) /\ IsSeq(t) /\ IsSeq(r)
  BY AppendElements DEF Known, Shape, Bars, StreamTyped
<1>1. Told(m) = Word(x) /\ ~Unfilled(m)
  BY DEF Told, Unfilled
<1>2. v = View(bot.brain, inbox)
  BY DEF View
<1>3. View(bot.brain, inbox)' \in {w, z}
  BY DEF View
<1>4. Quieter(inbox, stream, inbox', stream')
  <2>1. Quieter(s, t, s, r)
    BY <1>0, <1>1, OtherNews
  <2>2. Quieter(s, r, s, Append(r, more))
    BY <1>0, OtherNews
  <2>3. Quieter(s, t, s, Append(r, more))
    BY <2>1, <2>2 DEF Quieter
  <2>4. QED BY <2>1, <2>3
<1> HIDE DEF s, t, r, p, n, saw, v, w, z
<1>5. Calmer(w, z)
  BY <1>0, SilentView DEF w, z
<1>6. /\ x = 0 /\ Settles(v) => Settles(w)
      /\ Flat(v) => Settles(w) /\ ~Gone(w)
  BY <1>0, <1>1, NewsView DEF v, w, r
<1>7. QED BY <1>2, <1>3, <1>4, <1>5, <1>6 DEF Calmer

(***************************************************************************)
(* A fill of an entry: it was the one order there was, and no position is  *)
(* told before the one it opens.                                           *)
(***************************************************************************)
LEMMA EntryFilled ==
  ASSUME Known, Safe, NEW o, IsOrder(o), ~o.reduceOnly, Filled(o), BotWaits,
         Coming, toEngine' = <<>>, Entries' = {}
  PROVE  Safe'
<1> DEFINE m == AccountMessage(NetAfter(o))
           e == OrderMessage(o, "FILLED", o.lots)
           v == View(bot.brain, inbox)
           w == View(bot.brain, inbox)'
<1>1. exch.net = 0 /\ Sole /\ Exposed
  BY DEF Safe, Sole, Coming, Exposed
<1>2. exch'.net = NetAfter(o) /\ exch'.net \in {1, -1}
  BY <1>1, SignOfLot DEF Filled, Sole
<1>3. Sole'
  <2>1. Len(<<>>) <= 1
    OBVIOUS
  <2>2. QED BY <1>2, <2>1 DEF Sole
<1>4. ASSUME Running' PROVE Gate(bot.brain, inbox)'
  <2>1. Gate(bot.brain, inbox) /\ bot'.brain = bot.brain
    BY <1>4 DEF Safe, Running, BotWaits
  <2>2. Waiting(bot.brain, inbox) /\ bot.brain.state # "IDLE"
    BY <1>1, <2>1 DEF Gate, AtRest
  <2>3. Flat(v) /\ ~ToldUnfilled(inbox, stream) /\ ToldOnce(inbox, stream)
    BY <1>1, <2>2 DEF Waiting
  <2>4. Settles(w) /\ ~Gone(w) /\ Quieter(inbox, stream, inbox', stream')
    <3>1. m.kind = "account" /\ m.position = exch'.net /\ ~Unfilled(e) /\ Told(e) = "none"
      BY <1>2 DEF AccountMessage, OrderMessage, Unfilled, Told
    <3>2. stream' = Append(Append(stream, m), e)
      BY DEF Filled
    <3> HIDE DEF m, e
    <3>3. QED BY <2>3, <3>1, <3>2, NewsOfPosition DEF BotWaits
  <2>5. ~Coming'
    BY DEF Coming
  <2>6. QED BY <2>1, <2>2, <2>3, <2>4, <2>5 DEF Gate, Waiting, Quieter
<1>5. QED BY <1>3, <1>4 DEF Safe

\* The position goes, by a close or by something else than the engine.
LEMMA PositionGoes ==
  ASSUME Known, Safe, exch.net # 0, exch'.net = 0, BotWaits, toEngine' = toEngine,
         Entries' \subseteq Entries, NEW more, ~Unfilled(more), Told(more) = "none",
         \/ stream' = Append(stream, AccountMessage(0))
         \/ stream' = Append(Append(stream, AccountMessage(0)), more)
  PROVE  Safe'
<1> DEFINE m == AccountMessage(0)
           v == View(bot.brain, inbox)
           w == View(bot.brain, inbox)'
<1>1. Sole /\ toEngine = <<>> /\ Entries = {} /\ Exposed
  BY DEF Safe, Sole, Exposed
<1>2. Sole' /\ ~Exposed' /\ ~Coming'
  BY <1>1 DEF Sole, Exposed, Coming
<1>3. ASSUME Running' PROVE Gate(bot.brain, inbox)'
  <2>1. Gate(bot.brain, inbox) /\ bot'.brain = bot.brain
    BY <1>3 DEF Safe, Running, BotWaits
  <2>2. Waiting(bot.brain, inbox) /\ bot.brain.state # "IDLE"
    BY <1>1, <2>1 DEF Gate, AtRest
  <2>3. Settles(v) /\ ~ToldUnfilled(inbox, stream) /\ ToldOnce(inbox, stream)
    BY <1>1, <2>2 DEF Waiting
  <2>4. Settles(w) /\ Quieter(inbox, stream, inbox', stream')
    <3>1. m.kind = "account" /\ m.position = 0
      BY DEF AccountMessage
    <3> HIDE DEF m
    <3>2. QED BY <2>3, <3>1, NewsOfPosition DEF m, BotWaits
  <2>5. QED BY <1>2, <2>1, <2>2, <2>3, <2>4 DEF Gate, Waiting, Quieter
<1>4. QED BY <1>2, <1>3 DEF Safe

\* An order to close a position rests; the bot's gate counts no such order.
LEMMA CloseFilled ==
  ASSUME Known, Safe, NEW o, IsOrder(o), o.reduceOnly, Filled(o), BotWaits,
         toEngine' = toEngine
  PROVE  Safe'
<1> DEFINE e == OrderMessage(o, "FILLED", o.lots)
<1>1. exch.net # 0 /\ NetAfter(o) = 0
  BY SignOfLot DEF Filled, Safe, Sole
<1>2. exch'.net = 0 /\ Entries' \subseteq Entries
      /\ stream' = Append(Append(stream, AccountMessage(0)), e)
  BY <1>1 DEF Filled, Entries
<1>3. ~Unfilled(e) /\ Told(e) = "none"
  BY DEF OrderMessage, Unfilled, Told
<1> HIDE DEF e
<1>4. QED BY <1>1, <1>2, <1>3, PositionGoes

LEMMA FillKeeps ==
  ASSUME Known, Safe, count'.starts = count.starts, NEW o \in exch.working, Fill(o)
  PROVE  Safe'
<1>1. IsOrder(o) /\ ExchTyped /\ StreamTyped
  BY DEF Known, ExchTyped
<1>2. Filled(o) /\ BotWaits /\ toEngine' = toEngine
  BY <1>1, FillTyped DEF Fill, BotWaits, botVars, engineVars
<1>3. CASE o.reduceOnly
  BY <1>1, <1>2, <1>3, CloseFilled
<1>4. CASE ~o.reduceOnly
  <2>1. o \in Entries /\ \A p \in Entries : p = o
    BY <1>4 DEF Safe, Sole, Entries
  <2>2. Coming /\ toEngine = <<>>
    BY <2>1 DEF Coming, Safe, Sole
  <2>3. exch'.working = exch.working \ {o}
    BY <1>2 DEF Filled
  <2>4. Entries' = {}
    BY <2>1, <2>3 DEF Entries
  <2>5. QED BY <1>1, <1>2, <1>4, <2>2, <2>4, EntryFilled
<1>5. QED BY <1>1, <1>3, <1>4 DEF IsOrder

LEMMA LiquidateKeeps ==
  ASSUME Known, Safe, count'.starts = count.starts, Liquidate
  PROVE  Safe'
<1>1. exch' = [net |-> 0, working |-> exch.working] /\ exch.net # 0
  BY DEF Liquidate, Known, ExchTyped
<1>2. Entries' \subseteq Entries /\ exch'.net = 0 /\ BotWaits /\ toEngine' = toEngine
      /\ stream' = Append(stream, AccountMessage(0))
  BY <1>1 DEF Entries, Liquidate, BotWaits, botVars, engineVars
<1>3. PICK e : ~Unfilled(e) /\ Told(e) = "none"
  <2>1. ~Unfilled([kind |-> "hello"]) /\ Told([kind |-> "hello"]) = "none"
    BY DEF Unfilled, Told
  <2>2. QED BY <2>1
<1>4. QED BY <1>1, <1>2, <1>3, PositionGoes

\* An entry that ends unfilled was all there was, and the news of it is the only one.
LEMMA ExpireKeeps ==
  ASSUME Known, Safe, count'.starts = count.starts, NEW o \in exch.working, Expire(o)
  PROVE  Safe'
<1> DEFINE e == OrderMessage(o, "EXPIRED", 0)
           v == View(bot.brain, inbox)
           w == View(bot.brain, inbox)'
<1>0. IsSeq(inbox) /\ IsSeq(stream) /\ IsOrder(o)
  BY DEF Known, Shape, Bars, StreamTyped, ExchTyped
<1>1. /\ exch' = [net |-> exch.net, working |-> exch.working \ {o}]
      /\ stream' = Append(stream, e) /\ BotWaits /\ toEngine' = toEngine
  BY DEF Expire, BotWaits, Known, ExchTyped, botVars, engineVars
<1>2. Told(e) = "none" /\ (o.reduceOnly => ~Unfilled(e))
  BY DEF OrderMessage, Told, Unfilled
<1> HIDE DEF e
<1>3. Calmer(v, w)
  BY <1>0, <1>1, <1>2, SilentView DEF View, BotWaits
<1>4. CASE o.reduceOnly
  <2>1. Quieter(inbox, stream, inbox', stream')
    BY <1>0, <1>1, <1>2, <1>4, OtherNews DEF BotWaits
  <2>2. Entries' = Entries
    BY <1>1, <1>4 DEF Entries
  <2>3. Relay
    BY <1>1, <1>3, <2>1, <2>2 DEF Relay, BotWaits
  <2>4. QED BY <2>3, RelayKeeps
<1>5. CASE ~o.reduceOnly
  <2>1. o \in Entries /\ \A p \in Entries : p = o
    BY <1>5 DEF Safe, Sole, Entries
  <2>2. Coming /\ Exposed /\ toEngine = <<>> /\ exch.net = 0
    BY <2>1 DEF Coming, Exposed, Safe, Sole
  <2>3. Entries' = {}
    BY <1>1, <2>1 DEF Entries
  <2>4. Sole' /\ ~Exposed' /\ ~Coming'
    <3>1. Len(<<>>) <= 1
      OBVIOUS
    <3>2. QED BY <1>1, <2>2, <2>3, <3>1 DEF Sole, Exposed, Coming
  <2>5. ASSUME Running' PROVE Gate(bot.brain, inbox)'
    <3>1. Gate(bot.brain, inbox) /\ bot'.brain = bot.brain /\ inbox' = inbox
      BY <1>1, <2>5 DEF Safe, Running, BotWaits
    <3>2. Waiting(bot.brain, inbox) /\ bot.brain.state # "IDLE"
      BY <2>2, <3>1 DEF Gate, AtRest
    <3>3. Flat(v) /\ Settles(v) /\ ~ToldUnfilled(inbox, stream)
      BY <2>2, <3>2 DEF Waiting
    <3>4. Flat(w) /\ Settles(w)
      BY <1>3, <3>3 DEF Calmer
    <3>5. ToldOnce(inbox', stream')
      BY <1>0, <1>1, <3>1, <3>3, FirstNews
    <3>6. QED BY <2>4, <3>1, <3>2, <3>4, <3>5 DEF Gate, Waiting
  <2>6. QED BY <2>4, <2>5 DEF Safe
<1>6. QED BY <1>0, <1>4, <1>5 DEF IsOrder

LEMMA AcceptKeeps ==
  ASSUME Known, Safe, count'.starts = count.starts, EntryPlaced
  PROVE  Safe'
<1> DEFINE o == Order(count.placed + 1, Head(toEngine).side, 1, FALSE)
<1>0. IsSeq(toEngine) /\ ExchTyped /\ StreamTyped /\ WireInv
  BY DEF Known, WireInv
<1>1. /\ toEngine # <<>> /\ toEngine' = Tail(toEngine)
      /\ UNCHANGED <<bot, inbox>> /\ account' = account
      /\ \/ exch' = [exch EXCEPT !.working = @ \cup {o}] /\ stream' = stream
         \/ Fills(o)
  BY DEF EntryPlaced, RxAccept, RxUnanswered, botVars, engineVars
<1>2. toEngine' = <<>>
  <2>1. /\ IsSeq(Tail(toEngine)) /\ Len(toEngine) \in Nat \ {0}
        /\ Len(Tail(toEngine)) = Len(toEngine) - 1
    BY <1>0, <1>1, TailElements
  <2>2. Len(Tail(toEngine)) = 0
    BY <2>1 DEF Safe, Sole
  <2>3. QED BY <1>1, <2>1, <2>2, EmptySeq DEF IsSeq
<1>3. IsOrder(o) /\ ~o.reduceOnly
  <2>1. Head(toEngine) = toEngine[1] /\ 1 \in DOMAIN toEngine
    BY <1>0, <1>1, TailElements
  <2>2. Head(toEngine).side \in {1, -1}
    BY <1>0, <2>1 DEF WireInv, FromSettings, Range
  <2>3. QED BY <2>2 DEF IsOrder, Order
<1> HIDE DEF o
<1>4. Entries = {} /\ exch.net = 0 /\ Coming /\ Exposed
  BY <1>1 DEF Safe, Sole, Coming, Exposed
<1>5. CASE exch' = [exch EXCEPT !.working = @ \cup {o}] /\ stream' = stream
  <2>1. exch' = [net |-> exch.net, working |-> exch.working \cup {o}]
    BY <1>0, <1>5 DEF ExchTyped
  <2>2. Entries' = {o}
    BY <1>3, <1>4, <2>1 DEF Entries
  <2>3. Sole'
    <3>1. Len(<<>>) <= 1
      OBVIOUS
    <3>2. QED BY <1>2, <1>4, <2>1, <2>2, <3>1 DEF Sole
  <2>4. View(bot.brain, inbox)' = View(bot.brain, inbox)
    BY <1>1, <1>5, <2>1 DEF View
  <2>5. ASSUME Running' PROVE Gate(bot.brain, inbox)'
    <3>1. Gate(bot.brain, inbox)
      BY <1>1, <2>5 DEF Safe, Running
    <3>2. QED BY <1>1, <1>4, <1>5, <2>4, <3>1, GateRelays DEF Calmer, Quieter
  <2>6. QED BY <2>3, <2>5 DEF Safe
<1>6. CASE Fills(o)
  <2>1. Filled(o)
    BY <1>0, <1>3, <1>6, FillTyped
  <2>2. Entries' = {}
    BY <1>4, <2>1 DEF Entries, Filled
  <2>3. QED BY <1>1, <1>2, <1>3, <1>4, <2>1, <2>2, EntryFilled DEF BotWaits
<1>7. QED BY <1>1, <1>5, <1>6

LEMMA ClosePlacedKeeps ==
  ASSUME Known, Safe, count'.starts = count.starts, ClosePlaced
  PROVE  Safe'
<1> DEFINE o == CloseOrder
<1>0. ExchTyped /\ StreamTyped /\ EngineTyped
  BY DEF Known
<1>1. /\ toEngine' = toEngine /\ BotWaits
      /\ \/ exch' = [exch EXCEPT !.working = @ \cup {o}] /\ stream' = stream
         \/ Fills(o)
  BY DEF ClosePlaced, CloseSent, CloseUnanswered, botVars, engineVars, BotWaits
<1>2. IsOrder(o) /\ o.reduceOnly
  <2>1. main.position \in Int /\ main.position # 0
    BY <1>0 DEF ClosePlaced, CloseSent, CloseUnanswered, EngineTyped
  <2>2. -Sign(main.position) \in {1, -1} /\ Size(main.position) \in Nat \ {0}
    BY <2>1, SizeOfPosition
  <2>3. QED BY <2>2 DEF IsOrder, Order, CloseOrder
<1> HIDE DEF o
<1>3. CASE exch' = [exch EXCEPT !.working = @ \cup {o}] /\ stream' = stream
  <2>1. exch' = [net |-> exch.net, working |-> exch.working \cup {o}]
    BY <1>0, <1>3 DEF ExchTyped
  <2>2. Entries' = Entries
    BY <1>2, <2>1 DEF Entries
  <2>3. View(bot.brain, inbox)' = View(bot.brain, inbox)
    BY <1>1, <1>3, <2>1 DEF View, BotWaits
  <2>4. Relay
    BY <1>1, <1>3, <2>1, <2>2, <2>3 DEF Relay, BotWaits, Calmer, Quieter
  <2>5. QED BY <2>4, RelayKeeps
<1>4. CASE Fills(o)
  BY <1>0, <1>1, <1>2, <1>4, FillTyped, CloseFilled
<1>5. QED BY <1>1, <1>3, <1>4

-----------------------------------------------------------------------------
(* The bot hears.                                                          *)

LEMMA HeadHeard ==
  ASSUME Known, NEW brain, brain.saw => bot.brain.saw \/ Told(Head(inbox)) = "held", inbox # <<>>
  PROVE  /\ Calmer(View(bot.brain, inbox), View(brain, Tail(inbox)))
         /\ Quieter(inbox, stream, Tail(inbox), stream)
         /\ Unfilled(Head(inbox)) /\ ToldOnce(inbox, stream) =>
              ~ToldUnfilled(Tail(inbox), stream)
<1>1. IsSeq(inbox) /\ IsSeq(stream)
  BY DEF Known, Shape, Bars, StreamTyped
<1>2. Calmer(View(bot.brain, inbox), View(brain, Tail(inbox)))
  BY <1>1, HeardView DEF View
<1>3. QED BY <1>1, <1>2, HeardNews

\* A waiting brain that learns of no end goes on waiting.
LEMMA StillWaits ==
  ASSUME Known, Waiting(bot.brain, inbox), inbox # <<>>, NEW brain,
         brain.saw => bot.brain.saw \/ Told(Head(inbox)) = "held"
  PROVE  Waiting(brain, Tail(inbox))
<1> DEFINE v == View(bot.brain, inbox)
           w == View(brain, Tail(inbox))
<1>1. Calmer(v, w) /\ Quieter(inbox, stream, Tail(inbox), stream)
  BY HeadHeard
<1>2. /\ Settles(v) /\ (Gone(v) => ~Exposed) /\ (Coming => Flat(v))
      /\ ToldUnfilled(inbox, stream) => Flat(v) /\ ~Exposed
      /\ ToldOnce(inbox, stream)
  BY DEF Waiting
<1> HIDE DEF v, w
<1>3. /\ Settles(w) /\ (Gone(w) => ~Exposed) /\ (Coming => Flat(w))
      /\ ToldUnfilled(Tail(inbox), stream) => Flat(w) /\ ~Exposed
      /\ ToldOnce(Tail(inbox), stream)
  BY <1>1, <1>2 DEF Calmer, Quieter
<1>4. QED BY <1>3 DEF Waiting, w

\* A position seen and a kline without one: nothing is left, here or on the way.
LEMMA LastOfPosition ==
  ASSUME Known, Waiting(bot.brain, inbox), inbox # <<>>, bot.brain.saw,
         Told(Head(inbox)) = "zero"
  PROVE  AtRest(FreshBrain, Tail(inbox))
<1> DEFINE v == View(bot.brain, inbox)
           w == View(FreshBrain, Tail(inbox))
<1>1. ~FreshBrain.saw
  BY DEF FreshBrain
<1>2. PICK a : a = Len(inbox)
  OBVIOUS
<1>3. PICK b : b = Len(stream)
  OBVIOUS
<1>4. IsSeq(inbox) /\ IsSeq(stream) /\ IsSeq(Tail(inbox)) /\ Len(Tail(inbox)) = a - 1
      /\ a \in Nat \ {0} /\ Head(inbox) = inbox[1]
      /\ \A i \in 1..a - 1 : Tail(inbox)[i] = inbox[i + 1]
  BY <1>2, TailElements DEF Known, Shape, Bars, StreamTyped
<1>5. /\ Parts(v, bot.brain.saw, inbox, account.position, stream, exch.net)
      /\ Parts(w, FreshBrain.saw, Tail(inbox), account.position, stream, exch.net)
  BY <1>4, ViewParts DEF View
<1>6. Settles(v) /\ (Gone(v) => ~Exposed) /\ (ToldUnfilled(inbox, stream) => Flat(v))
  BY DEF Waiting
<1> HIDE DEF v, w
<1>7. /\ b \in Nat /\ DOMAIN v = -(a + 1)..(b + 1) /\ DOMAIN w = -a..(b + 1)
      /\ v[-(a + 1)] = "held" /\ v[-a] = "zero" /\ w[-a] = "none"
  <2>1. -a \in -a..(-1) /\ -a + a + 1 = 1 /\ -((a - 1) + 1) = -a
    BY <1>4
  <2>2. QED BY <1>1, <1>2, <1>3, <1>4, <1>5, <2>1 DEF Parts, Saw
<1>8. \A i \in -(a - 1)..(b + 1) : w[i] = v[i]
  <2>1. \A i \in -(a - 1)..(-1) : w[i] = v[i]
    <3>1. SUFFICES ASSUME NEW i \in -(a - 1)..(-1) PROVE w[i] = v[i]
      OBVIOUS
    <3>2. i \in -a..(-1) /\ i + (a - 1) + 1 \in 1..a - 1 /\ i + a + 1 = (i + (a - 1) + 1) + 1
      BY <1>4
    <3>3. w[i] = Told(Tail(inbox)[i + (a - 1) + 1]) /\ v[i] = Told(inbox[i + a + 1])
      BY <1>2, <1>4, <1>5, <3>2 DEF Parts
    <3>4. QED BY <1>4, <3>2, <3>3
  <2>2. w[0] = v[0] /\ w[b + 1] = v[b + 1] /\ \A i \in 1..b : w[i] = v[i]
    BY <1>3, <1>5 DEF Parts
  <2>3. \A i \in -(a - 1)..(b + 1) : i \in -(a - 1)..(-1) \/ i = 0 \/ i \in 1..b \/ i = b + 1
    BY <1>4, <1>7
  <2>4. QED BY <2>1, <2>2, <2>3
<1>9. Gone(v) /\ ~Flat(v)
  <2>1. -(a + 1) \in DOMAIN v /\ -a \in DOMAIN v /\ -(a + 1) < -a
    BY <1>4, <1>7
  <2>2. QED BY <1>7, <2>1 DEF Gone, Flat
<1>10. Flat(w)
  <2>1. SUFFICES ASSUME NEW i \in DOMAIN w, w[i] = "held" PROVE FALSE
    BY DEF Flat
  <2>2. i # -a
    BY <1>7, <2>1
  <2>3. i \in -(a - 1)..(b + 1) /\ i \in DOMAIN v /\ -a < i /\ -(a + 1) < -a
        /\ -a \in DOMAIN v /\ -(a + 1) \in DOMAIN v
    BY <1>4, <1>7, <2>1, <2>2
  <2>4. v[i] = "held"
    BY <1>8, <2>1, <2>3
  <2>5. QED BY <1>6, <1>7, <2>3, <2>4 DEF Settles
<1>11. ~Exposed /\ ~ToldUnfilled(inbox, stream)
  BY <1>6, <1>9
<1>12. ~ToldUnfilled(Tail(inbox), stream)
  BY <1>1, <1>11, HeadHeard DEF Quieter
<1>13. QED BY <1>1, <1>10, <1>11, <1>12 DEF AtRest, w

\* After a kline the gate is what on_bar() makes of it.
LEMMA KlineHeard ==
  ASSUME Known, Gate(bot.brain, inbox), inbox # <<>>, Head(inbox).kind = "kline"
  PROVE  /\ Gate(AfterGate(bot.brain, Head(inbox).position), Tail(inbox))
         /\ AfterGate(bot.brain, Head(inbox).position) \in Brain
<1> DEFINE q == Head(inbox).position
           b == bot.brain
           c == AfterGate(b, q)
<1>1. /\ b \in Brain /\ b.saw \in BOOLEAN /\ b.state \in {"IDLE", "WAITING_CLOSE"}
      /\ c \in Brain
  BY BrainTyped DEF Known, StartsTyped, Brain
<1>2. Told(Head(inbox)) = IF q = 0 THEN "zero" ELSE "held"
  BY DEF Told, Word
<1>3. CASE b.state = "IDLE"
  <2>1. c = b
    BY <1>3 DEF AfterGate, Observed
  <2>2. AtRest(b, inbox)
    BY <1>3 DEF Gate
  <2>3. /\ Calmer(View(b, inbox), View(b, Tail(inbox)))
        /\ Quieter(inbox, stream, Tail(inbox), stream)
    BY HeadHeard
  <2>4. AtRest(b, Tail(inbox))
    BY <2>2, <2>3 DEF AtRest, Calmer, Quieter
  <2>5. QED BY <1>1, <1>3, <2>1, <2>4 DEF Gate
<1>4. CASE b.state # "IDLE"
  <2>1. Waiting(b, inbox) /\ b.state = "WAITING_CLOSE"
    BY <1>1, <1>4 DEF Gate
  <2>2. CASE b.saw /\ q = 0
    <3>1. c = FreshBrain
      BY <1>1, <2>1, <2>2 DEF AfterGate, Observed, Brain
    <3>2. AtRest(FreshBrain, Tail(inbox))
      BY <1>2, <2>1, <2>2, LastOfPosition
    <3>3. QED BY <1>1, <3>1, <3>2 DEF Gate, FreshBrain
  <2>3. CASE ~(b.saw /\ q = 0)
    <3>1. c.state = "WAITING_CLOSE" /\ (c.saw => b.saw \/ q # 0)
      BY <1>1, <2>1, <2>3 DEF AfterGate, Observed, Brain
    <3> HIDE DEF c
    <3>2. c.saw => b.saw \/ Told(Head(inbox)) = "held"
      BY <1>2, <3>1
    <3>3. Waiting(c, Tail(inbox))
      BY <2>1, <3>2, StillWaits
    <3>4. QED BY <1>1, <3>1, <3>3 DEF Gate, c
  <2>4. QED BY <2>2, <2>3
<1>5. QED BY <1>3, <1>4

LEMMA HearBarKeeps ==
  ASSUME Known, Safe, HearBar
  PROVE  Safe'
<1>0. BotShape
  BY DEF Known, Shape
<1>1. /\ inbox # <<>> /\ inbox' = Tail(inbox) /\ Head(inbox).kind = "kline"
      /\ bot.phase = "listening"
      /\ UNCHANGED <<toEngine, account, exch, stream>>
  BY DEF HearBar, Hear, engineVars
<1>2. bot'.brain = AfterGate(bot.brain, Head(inbox).position)
  BY <1>0 DEF HearBar, BotShape
<1>3. Gate(bot.brain, inbox)
  BY <1>1 DEF Safe, Running
<1>4. Gate(AfterGate(bot.brain, Head(inbox).position), Tail(inbox))
  BY <1>1, <1>3, KlineHeard
<1>5. Gate(bot.brain, inbox)'
  BY <1>1, <1>2, <1>4 DEF Gate, AtRest, Waiting, View, Coming, Exposed, Entries
<1>6. Sole'
  BY <1>1 DEF Safe, Sole, Entries
<1>7. QED BY <1>5, <1>6 DEF Safe

\* The one step that adds to the exposure: the gate it passed knows of none.
LEMMA HearSignalKeeps ==
  ASSUME Known, Safe, NEW side \in {1, -1}, HearSignal(side)
  PROVE  Safe'
<1> DEFINE p == Head(inbox).position
           c == AfterGate(bot.brain, p)
           order == OrderPayload(side, Head(inbox).bar)
<1>0. BotShape /\ IsSeq(toEngine)
  BY DEF Known, Shape, WireInv
<1>1. /\ inbox # <<>> /\ inbox' = Tail(inbox) /\ Head(inbox).kind = "kline"
      /\ bot.phase = "listening" /\ MayEnter(bot.brain, p)
      /\ toEngine' = Append(toEngine, order)
      /\ UNCHANGED <<account, exch, stream>>
  BY DEF HearSignal, Hear, engineVars
<1>2. bot'.brain = Entered(bot.brain, p)
  BY <1>0 DEF HearSignal, BotShape
<1>3. Gate(c, Tail(inbox)) /\ c \in Brain
  BY <1>1, KlineHeard DEF Safe, Running
<1>4. c.state = "IDLE" /\ AtRest(c, Tail(inbox))
  BY <1>1, <1>3 DEF MayEnter, Gate
<1>5. bot'.brain.state = "WAITING_CLOSE" /\ bot'.brain.saw = c.saw
  BY <1>2, <1>3 DEF Entered, Brain
<1>6. toEngine = <<>> /\ Entries = {} /\ exch.net = 0
  BY <1>4 DEF AtRest, Exposed, Coming
<1>7. Sole'
  <2>1. Len(toEngine') = Len(toEngine) + 1 /\ Len(toEngine) = 0
    BY <1>0, <1>1, <1>6, AppendElements
  <2>2. Entries' = {} /\ exch'.net = 0
    BY <1>1, <1>6 DEF Entries
  <2>3. QED BY <2>1, <2>2 DEF Sole
<1>8. View(bot.brain, inbox)' = View(c, Tail(inbox))
  BY <1>1, <1>5 DEF View
<1>9. Flat(View(bot.brain, inbox)') /\ ~ToldUnfilled(inbox', stream')
  BY <1>1, <1>4, <1>8 DEF AtRest
<1>10. Waiting(bot.brain, inbox)'
  <2>1. \A v : Flat(v) => Settles(v) /\ ~Gone(v)
    BY DEF Flat, Settles, Gone
  <2>2. ToldOnce(inbox', stream')
    BY <1>9 DEF ToldUnfilled, ToldOnce
  <2>3. QED BY <1>9, <2>1, <2>2 DEF Waiting
<1>11. Gate(bot.brain, inbox)'
  BY <1>5, <1>10 DEF Gate
<1>12. QED BY <1>7, <1>11 DEF Safe

LEMMA HeardUpdateKeeps ==
  ASSUME Known, Safe, HearOrderUpdate
  PROVE  Safe'
<1> DEFINE m == Head(inbox)
           b == bot.brain
           c == OnOrderUpdate(b, m)
<1>0. BotShape /\ b \in Brain
  BY DEF Known, Shape, StartsTyped
<1>1. /\ inbox # <<>> /\ inbox' = Tail(inbox) /\ m.kind = "order_update"
      /\ bot.phase = "listening"
      /\ UNCHANGED <<toEngine, account, exch, stream>>
  BY DEF HearOrderUpdate, Hear, engineVars
<1>2. bot'.brain = c
  BY <1>0 DEF HearOrderUpdate, BotShape
<1>3. Gate(b, inbox)
  BY <1>1 DEF Safe, Running
<1>4. Gate(c, Tail(inbox))
  <2>1. CASE Unfilled(m) /\ b.state = "WAITING_CLOSE"
    <3>1. Waiting(b, inbox)
      BY <1>3, <2>1 DEF Gate
    <3>2. ToldUnfilled(inbox, stream)
      <4>1. 1 \in UnfilledIn(inbox)
        BY <1>1, <2>1, UnfilledTail DEF Known, Shape, Bars
      <4>2. QED BY <4>1 DEF ToldUnfilled
    <3>3. Flat(View(b, inbox)) /\ ~Exposed /\ ToldOnce(inbox, stream)
      BY <3>1, <3>2 DEF Waiting
    <3>4. c = b \/ c = FreshBrain
      BY DEF OnOrderUpdate
    <3>5. CASE c = FreshBrain
      <4>1. FreshBrain.saw = FALSE /\ FreshBrain.state = "IDLE"
        BY DEF FreshBrain
      <4>2. Calmer(View(b, inbox), View(FreshBrain, Tail(inbox)))
        BY <1>1, <4>1, HeadHeard
      <4>3. ~ToldUnfilled(Tail(inbox), stream)
        BY <1>1, <2>1, <3>3, <4>1, HeadHeard
      <4>4. AtRest(FreshBrain, Tail(inbox))
        BY <3>3, <4>1, <4>2, <4>3 DEF AtRest, Calmer
      <4>5. QED BY <3>5, <4>1, <4>4 DEF Gate
    <3>6. CASE c = b
      <4>1. Waiting(b, Tail(inbox))
        BY <1>1, <3>1, StillWaits
      <4>2. QED BY <2>1, <3>6, <4>1 DEF Gate
    <3>7. QED BY <3>4, <3>5, <3>6
  <2>2. CASE ~(Unfilled(m) /\ b.state = "WAITING_CLOSE")
    <3>1. c = b
      BY <1>1, <2>2 DEF OnOrderUpdate, Unfilled
    <3>2. CASE b.state = "IDLE"
      <4>1. /\ AtRest(b, inbox) /\ Calmer(View(b, inbox), View(b, Tail(inbox)))
            /\ Quieter(inbox, stream, Tail(inbox), stream)
        BY <1>1, <1>3, <3>2, HeadHeard DEF Gate
      <4>2. AtRest(b, Tail(inbox))
        BY <4>1 DEF AtRest, Calmer, Quieter
      <4>3. QED BY <3>1, <3>2, <4>2 DEF Gate
    <3>3. CASE b.state # "IDLE"
      <4>1. Waiting(b, inbox)
        BY <1>3, <3>3 DEF Gate
      <4>2. Waiting(b, Tail(inbox))
        BY <1>1, <4>1, StillWaits
      <4>3. QED BY <3>1, <3>3, <4>2 DEF Gate
    <3>4. QED BY <3>2, <3>3
  <2>3. QED BY <2>1, <2>2
<1>5. Gate(bot.brain, inbox)'
  <2> HIDE DEF c
  <2>1. QED BY <1>1, <1>2, <1>4 DEF Gate, AtRest, Waiting, View, Coming, Exposed, Entries
<1>6. Sole'
  BY <1>1 DEF Safe, Sole, Entries
<1>7. QED BY <1>5, <1>6 DEF Safe

\* A bot that starts knows nothing, and there is nothing; one that ends is not asked.
LEMMA BotStartsKeeps ==
  ASSUME Known, Safe, count.starts = 0, StartBot
  PROVE  Safe'
<1>1. bot = NewBot("down") /\ inbox = <<>>
  BY DEF Known, StartsTyped
<1>2. bot.brain = FreshBrain /\ bot'.brain = FreshBrain /\ inbox' = <<>>
      /\ UNCHANGED <<toEngine, account, exch, stream>>
  BY <1>1 DEF StartBot, NewBot, engineVars
<1>3. Gate(bot.brain, inbox)
  BY DEF Safe, Running
<1>4. Gate(bot.brain, inbox)'
  BY <1>1, <1>2, <1>3 DEF Gate, AtRest, Waiting, View, Coming, Exposed, Entries
<1>5. Sole'
  BY <1>2 DEF Safe, Sole, Entries
<1>6. QED BY <1>4, <1>5 DEF Safe

LEMMA BotEndsKeeps ==
  ASSUME Known, Safe, count'.starts = count.starts,
         BotDies \/ \E side \in {1, -1} : HearSignalRaises(side)
  PROVE  Safe'
<1>1. bot' = NewBot("down") /\ bot.phase # "down" /\ UNCHANGED <<toEngine, exch>>
  BY DEF BotDies, HearSignalRaises, Hear, engineVars
<1>2. count.starts # 0
  BY <1>1 DEF Known, StartsTyped, NewBot
<1>3. ~Running'
  BY <1>1, <1>2 DEF Running, NewBot
<1>4. Sole'
  BY <1>1 DEF Safe, Sole, Entries
<1>5. QED BY <1>3, <1>4 DEF Safe

LEMMA SafeStep ==
  ASSUME Known, Counting, Safe, OneBot', StartBot => count.starts = 0, [Next]_vars
  PROVE  Safe'
<1>1. CASE StartBot
  BY <1>1, BotStartsKeeps
<1>2. CASE ~StartBot
  <2>a. count'.starts = count.starts
    BY <1>2 DEF Counting
  <2>b. ASSUME Relay PROVE Safe'
    BY <2>b, RelayKeeps
  <2>1. CASE FetchPage \/ WarmUp \/ WarmUpFails \/ Subscribe
    BY <2>1, <2>a, <2>b, BotPrepares
  <2>2. CASE HearBar \/ HearOrderUpdate
    BY <2>2, HearBarKeeps, HeardUpdateKeeps
  <2>3. ASSUME NEW side \in {1, -1}, HearSignal(side) PROVE Safe'
    BY <2>3, HearSignalKeeps
  <2>4. CASE BotDies \/ \E side \in {1, -1} : HearSignalRaises(side)
    BY <2>4, <2>a, BotEndsKeeps
  <2>5. CASE EntryPlaced \/ ClosePlaced
    BY <2>5, <2>a, AcceptKeeps, ClosePlacedKeeps
  <2>6. CASE \/ RxRefuse \/ RxSetStop \/ RxArm \/ CheckFlat \/ CheckHeld \/ CheckHit
             \/ CloseRefused \/ MissBar \/ MarketCloses \/ Publish \/ UNCHANGED vars
    BY <2>6, <2>a, <2>b, EngineRelays
  <2>7. CASE Liquidate
    BY <2>7, <2>a, LiquidateKeeps
  <2>8. ASSUME NEW o \in exch.working, Fill(o) \/ Expire(o) PROVE Safe'
    BY <2>8, <2>a, FillKeeps, ExpireKeeps
  <2>9. CASE Deliver \/ Disconnect
    BY <2>9, <2>a, <2>b, DeliverRelays, DisconnectRelays
  <2>10. CASE RestartEngine
    BY <2>10, <2>a, <2>b, RestartRelays
  <2>11. QED BY <1>2, <2>1, <2>2, <2>3, <2>4, <2>5, <2>6, <2>7, <2>8, <2>9, <2>10
             DEF Next, Bot, Rx, Main, Exchange, Stream, EntryPlaced, ClosePlaced
<1>3. QED BY <1>1, <1>2

LEMMA ExposureStep ==
  ASSUME ExposureInv, Shape', [Next]_vars
  PROVE  ExposureInv'
<1>1. Known' /\ Counting
  BY KnownStep DEF ExposureInv
<1>2. ASSUME OneBot' PROVE Safe'
  <2>1. OneBot /\ (StartBot => count.starts = 0)
    BY <1>1, <1>2, OneBotBefore DEF ExposureInv
  <2>2. QED BY <1>1, <1>2, <2>1, SafeStep DEF ExposureInv
<1>3. QED BY <1>1, <1>2 DEF ExposureInv

LEMMA ExposureInitial ==
  ASSUME Init, Shape
  PROVE  ExposureInv
<1>1. /\ bot = NewBot("down") /\ inbox = <<>> /\ toEngine = <<>> /\ stream = <<>>
      /\ exch = [net |-> 0, working |-> {}] /\ main = [pc |-> "idle", position |-> 0]
      /\ account = [balance |-> 0, position |-> 0, stop |-> 0, entry |-> 0]
      /\ count.starts = 0
  BY DEF Init, Risk!OpenAccount
<1>2. IsSeq(<<>>) /\ Range(<<>>) = {} /\ Len(<<>>) = 0
  <2>1. <<>> \in Seq({}) /\ DOMAIN <<>> = {} /\ Len(<<>>) = 0
    OBVIOUS
  <2>2. QED BY <2>1, SeqOfItsRange DEF Range
<1>3. bot.brain = FreshBrain /\ FreshBrain \in Brain /\ FreshBrain.saw = FALSE
      /\ FreshBrain.state = "IDLE"
  BY <1>1 DEF NewBot, FreshBrain, Brain
<1>4. Known
  BY <1>1, <1>2, <1>3
     DEF Known, WireInv, ExchTyped, StreamTyped, EngineTyped, StartsTyped
<1>5. Entries = {} /\ exch.net = 0 /\ account.position = 0
  BY <1>1 DEF Entries
<1>6. Sole
  BY <1>1, <1>2, <1>5 DEF Sole
<1>7. Gate(bot.brain, inbox)
  <2>1. Parts(View(bot.brain, inbox), FALSE, <<>>, 0, <<>>, 0)
    BY <1>1, <1>2, <1>3, <1>5, ViewParts DEF View
  <2> DEFINE v == View(bot.brain, inbox)
  <2> HIDE DEF v
  <2>2. DOMAIN v = -(0 + 1)..(0 + 1) /\ v[-(0 + 1)] = "none" /\ v[0] = "zero" /\ v[0 + 1] = "zero"
    BY <1>2, <2>1 DEF Parts, Saw, Word, v
  <2>3. \A i \in -(0 + 1)..(0 + 1) : i = -(0 + 1) \/ i = 0 \/ i = 0 + 1
    OBVIOUS
  <2>4. Flat(v)
    BY <2>2, <2>3 DEF Flat
  <2>5. ~ToldUnfilled(inbox, stream)
    BY <1>1 DEF ToldUnfilled, UnfilledIn
  <2>6. QED BY <1>1, <1>3, <1>5, <2>4, <2>5 DEF Gate, AtRest, Exposed, Coming, v
<1>8. QED BY <1>4, <1>6, <1>7 DEF ExposureInv, Safe

(***************************************************************************)
(* One bot and an engine that knows its position when it starts: never     *)
(* more than one entry or one lot, whatever bars, fills, lost messages,    *)
(* restarts, refusals and liquidations come                                *)
(* (strategy_wrapper.py:136-157, ipc_server.cpp:222-256).                  *)
(***************************************************************************)
THEOREM OnePositionAtATime == Spec => []OneExposure
<1>1. Init => HistoryInv /\ ExposureInv
  BY HistoryInvInitial, ExposureInitial DEF HistoryInv
<1>2. HistoryInv /\ ExposureInv /\ [Next]_vars => (HistoryInv /\ ExposureInv)'
  <2>1. SUFFICES ASSUME HistoryInv, ExposureInv, [Next]_vars PROVE HistoryInv' /\ ExposureInv'
    OBVIOUS
  <2>2. HistoryInv'
    BY <2>1, HistoryInvStep
  <2>3. Shape'
    BY <2>2 DEF HistoryInv
  <2>4. QED BY <2>1, <2>2, <2>3, ExposureStep
<1>3. ExposureInv => OneExposure
  <2>1. SUFFICES ASSUME ExposureInv, count.starts <= 1, Without({"blind"})
                 PROVE  Size(exch.net) + Cardinality(Entries) <= 1
    BY DEF OneExposure, Entries
  <2>2. Sole
    BY <2>1 DEF ExposureInv, OneBot, Safe
  <2>3. Size(exch.net) \in Nat /\ Size(exch.net) <= 1 /\ (exch.net = 0 => Size(exch.net) = 0)
    <3>1. exch.net \in {-1, 0, 1} /\ exch.net \in Int
      BY <2>2 DEF Sole
    <3>2. QED BY <3>1, SizeOfPosition
  <2>4. CASE Entries = {}
    BY <2>3, <2>4, FS_EmptySet
  <2>5. CASE Entries # {}
    <3>1. PICK o \in Entries : Entries = {o}
      BY <2>2, <2>5 DEF Sole
    <3>2. Cardinality(Entries) = 1
      BY <3>1, FS_Singleton
    <3>3. QED BY <2>2, <2>3, <2>5, <3>2 DEF Sole
  <2>6. QED BY <2>4, <2>5
<1>4. QED BY <1>1, <1>2, <1>3, PTL DEF Spec

-----------------------------------------------------------------------------
(***************************************************************************)
(* The engine's view of the position: its own, the account messages under  *)
(* way to it, and the exchange's.  It is the bot's without what the bot    *)
(* was told, so it does not end with the bot.                              *)
(***************************************************************************)
EngineViewOf(p, t, n) == ViewOf(FALSE, <<>>, p, t, n)
EngineView == EngineViewOf(account.position, stream, exch.net)

Zero(m) == m.kind = "account" /\ m.position = 0
ZeroIn(t) == {i \in DOMAIN t : Zero(t[i])}
Position(m) == m.kind = "account" /\ m.position # 0

LEMMA EmptyView == IsSeq(<<>>) /\ Len(<<>>) = 0 /\ Range(<<>>) = {}
<1>1. <<>> \in Seq({}) /\ DOMAIN <<>> = {} /\ Len(<<>>) = 0
  OBVIOUS
<1>2. QED BY <1>1, SeqOfItsRange DEF Range

\* What it says, place by place.
LEMMA EngineParts ==
  ASSUME NEW t, IsSeq(t), NEW p, NEW n
  PROVE  /\ Len(t) \in Nat /\ DOMAIN t = 1..Len(t)
         /\ DOMAIN EngineViewOf(p, t, n) = -1..(Len(t) + 1)
         /\ EngineViewOf(p, t, n)[-1] = "none" /\ EngineViewOf(p, t, n)[0] = Word(p)
         /\ \A i \in 1..Len(t) : EngineViewOf(p, t, n)[i] = Told(t[i])
         /\ EngineViewOf(p, t, n)[Len(t) + 1] = Word(n)
<1> DEFINE v == EngineViewOf(p, t, n)
           b == Len(t)
<1>1. Parts(v, FALSE, <<>>, p, t, n)
  BY EmptyView, ViewParts DEF EngineViewOf
<1>2. b \in Nat /\ DOMAIN t = 1..b
  BY LenProperties DEF IsSeq
<1> HIDE DEF v
<1>3. /\ DOMAIN v = -(0 + 1)..(b + 1) /\ v[-(0 + 1)] = "none" /\ v[0] = Word(p)
      /\ \A i \in 1..b : v[i] = Told(t[i])
      /\ v[b + 1] = Word(n)
  BY <1>1, EmptyView DEF Parts, Saw
<1>4. -(0 + 1) = -1
  OBVIOUS
<1>5. QED BY <1>2, <1>3, <1>4 DEF v

\* What one learns from it of the positions themselves.
LEMMA EngineReads ==
  ASSUME NEW t, IsSeq(t), NEW p, NEW n
  PROVE  /\ Flat(EngineViewOf(p, t, n)) =>
              p = 0 /\ n = 0 /\ \A i \in DOMAIN t : ~Position(t[i])
         /\ ~Gone(EngineViewOf(p, t, n)) /\ p # 0 => n # 0 /\ ZeroIn(t) = {}
         /\ Falls(EngineViewOf(p, t, n)) /\ n # 0 => p # 0 /\ ZeroIn(t) = {}
         /\ Falls(EngineViewOf(p, t, n)) /\ p = 0 => Flat(EngineViewOf(p, t, n))
         /\ Settles(EngineViewOf(p, t, n)) /\ p # 0 => Falls(EngineViewOf(p, t, n))
<1> DEFINE v == EngineViewOf(p, t, n)
           b == Len(t)
<1>1. /\ b \in Nat /\ DOMAIN t = 1..b /\ DOMAIN v = -1..(b + 1)
      /\ v[-1] = "none" /\ v[0] = Word(p)
      /\ \A i \in 1..b : v[i] = Told(t[i])
      /\ v[b + 1] = Word(n)
  BY EngineParts
<1> HIDE DEF v, b
<1>2. /\ 0 \in DOMAIN v /\ b + 1 \in DOMAIN v /\ 0 < b + 1
      /\ \A i \in 1..b : i \in DOMAIN v /\ 0 < i /\ i < b + 1
      /\ \A i \in DOMAIN v : i \in Int /\ (i = -1 \/ i = 0 \/ 0 < i)
  BY <1>1
<1>3. \A x : /\ Word(x) = "held" <=> x # 0
             /\ Word(x) = "zero" <=> x = 0
  BY DEF Word
<1>4. \A m : /\ Zero(m) => Told(m) = "zero"
             /\ Position(m) => Told(m) = "held"
  BY <1>3 DEF Zero, Position, Told
<1>5. ASSUME Flat(v) PROVE p = 0 /\ n = 0 /\ \A i \in DOMAIN t : ~Position(t[i])
  <2>1. v[0] # "held" /\ v[b + 1] # "held" /\ \A i \in 1..b : v[i] # "held"
    BY <1>2, <1>5 DEF Flat
  <2>2. QED BY <1>1, <1>3, <1>4, <2>1
<1>6. ASSUME ~Gone(v), p # 0 PROVE n # 0 /\ ZeroIn(t) = {}
  <2>1. v[b + 1] # "zero" /\ \A i \in 1..b : v[i] # "zero"
    BY <1>1, <1>2, <1>3, <1>6 DEF Gone
  <2>2. QED BY <1>1, <1>3, <1>4, <2>1 DEF ZeroIn
<1>7. ASSUME Falls(v), n # 0 PROVE p # 0 /\ ZeroIn(t) = {}
  <2>1. v[0] # "zero" /\ \A i \in 1..b : v[i] # "zero"
    BY <1>1, <1>2, <1>3, <1>7 DEF Falls
  <2>2. QED BY <1>1, <1>3, <1>4, <2>1 DEF ZeroIn
<1>8. ASSUME Falls(v), p = 0 PROVE Flat(v)
  BY <1>1, <1>2, <1>3, <1>8 DEF Falls, Flat
<1>9. ASSUME Settles(v), p # 0 PROVE Falls(v)
  <2>1. SUFFICES ASSUME NEW i \in DOMAIN v, NEW j \in DOMAIN v,
                        i < j, v[i] = "zero", v[j] = "held"
                 PROVE  FALSE
    BY DEF Falls
  <2>2. v[0] = "held" /\ 0 < i
    BY <1>1, <1>2, <1>3, <1>9, <2>1
  <2>3. QED BY <1>2, <1>9, <2>1, <2>2 DEF Settles
<1>10. QED BY <1>5, <1>6, <1>7, <1>8, <1>9 DEF v

\* The bot's view of the position includes the engine's.
LEMMA EngineSeesLess ==
  ASSUME NEW s, NEW t, IsSeq(s), IsSeq(t), NEW saw, NEW p, NEW n
  PROVE  Calmer(ViewOf(saw, s, p, t, n), EngineViewOf(p, t, n))
<1> DEFINE v == ViewOf(saw, s, p, t, n)
           w == EngineViewOf(p, t, n)
           a == Len(s)
           b == Len(t)
           g == [i \in DOMAIN w |-> IF i < 0 THEN 0 ELSE i]
<1>1. Parts(v, saw, s, p, t, n)
  BY ViewParts
<1>2. /\ DOMAIN w = -1..(b + 1) /\ w[-1] = "none" /\ w[0] = Word(p)
      /\ \A i \in 1..b : w[i] = Told(t[i])
      /\ w[b + 1] = Word(n)
  BY EngineParts
<1>3. /\ a \in Nat /\ b \in Nat /\ DOMAIN v = -(a + 1)..(b + 1)
      /\ v[0] = Word(p) /\ \A i \in 1..b : v[i] = Told(t[i])
      /\ v[b + 1] = Word(n)
  BY <1>1 DEF Parts
<1> HIDE DEF v, w, a, b
<1>4. DOMAIN v \subseteq Int
  BY <1>3
<1>d. /\ a \in Nat /\ b \in Nat /\ DOMAIN w \subseteq Int
      /\ \A i \in DOMAIN w : i < 0 \/ (0 <= i /\ i <= b + 1)
      /\ \A i \in Int : 0 <= i /\ i <= b + 1 => i \in DOMAIN v
  BY <1>2, <1>3
<1>5. \A i \in DOMAIN w : g[i] \in DOMAIN v
  BY <1>d
<1>6. ASSUME NEW i \in DOMAIN w, NEW j \in DOMAIN w, i < j PROVE g[i] <= g[j]
  <2>1. i \in Int /\ j \in Int
    BY <1>d
  <2>2. /\ g[i] = IF i < 0 THEN 0 ELSE i
        /\ g[j] = IF j < 0 THEN 0 ELSE j
    BY <1>6
  <2> HIDE DEF g
  <2>3. g[i] \in Int /\ g[j] \in Int
    BY <2>1, <2>2
  <2>4. CASE i < 0
    BY <1>6, <2>1, <2>2, <2>3, <2>4
  <2>5. CASE ~(i < 0)
    BY <1>6, <2>1, <2>2, <2>3, <2>5
  <2>6. QED BY <2>4, <2>5
<1>7. ASSUME NEW i \in DOMAIN w PROVE w[i] = "none" \/ w[i] = v[g[i]]
  <2>1. g[i] = IF i < 0 THEN 0 ELSE i
    BY <1>7
  <2> HIDE DEF g
  <2>2. i = -1 \/ i = 0 \/ i \in 1..b \/ i = b + 1
    BY <1>2, <1>3, <1>7
  <2>3. CASE i = -1
    BY <1>2, <2>3
  <2>4. CASE i = 0
    BY <1>2, <1>3, <2>1, <2>4
  <2>5. CASE i \in 1..b
    <3>1. g[i] = i
      BY <1>3, <2>1, <2>5
    <3>2. QED BY <1>2, <1>3, <2>5, <3>1
  <2>6. CASE i = b + 1
    <3>1. g[i] = i
      BY <1>3, <2>1, <2>6
    <3>2. QED BY <1>2, <1>3, <2>6, <3>1
  <2>7. QED BY <2>2, <2>3, <2>4, <2>5, <2>6
<1>8. Thins(v, w)
  BY <1>5, <1>6, <1>7 DEF Thins
<1>9. QED BY <1>4, <1>8, ThinnerIsCalmer DEF v, w

\* And what is said of it up to the engine's own position.
LEMMA ViewUpToEngine ==
  ASSUME NEW s, NEW t, IsSeq(s), IsSeq(t), NEW saw, NEW p, NEW n
  PROVE  Calmer(ViewOf(saw, s, p, t, n), ViewOf(saw, s, p, <<>>, p))
<1> DEFINE v == ViewOf(saw, s, p, t, n)
           w == ViewOf(saw, s, p, <<>>, p)
           a == Len(s)
           b == Len(t)
           g == [i \in DOMAIN w |-> IF i < 0 THEN i ELSE 0]
<1>1. Parts(v, saw, s, p, t, n) /\ Parts(w, saw, s, p, <<>>, p)
  BY ViewParts, EmptyView
<1> HIDE DEF v, w
<1>2. /\ a \in Nat /\ b \in Nat /\ DOMAIN v = -(a + 1)..(b + 1)
      /\ v[-(a + 1)] = Saw(saw) /\ v[0] = Word(p)
      /\ \A i \in -a..(-1) : v[i] = Told(s[i + a + 1])
  BY <1>1 DEF Parts
<1>3. /\ DOMAIN w = -(a + 1)..(0 + 1)
      /\ w[-(a + 1)] = Saw(saw) /\ w[0] = Word(p) /\ w[0 + 1] = Word(p)
      /\ \A i \in -a..(-1) : w[i] = Told(s[i + a + 1])
  BY <1>1, EmptyView DEF Parts
<1> HIDE DEF a, b
<1>4. DOMAIN v \subseteq Int
  BY <1>2
<1>5. \A i \in DOMAIN w : g[i] \in DOMAIN v
  BY <1>2, <1>3
<1>6. \A i, j \in DOMAIN w : i < j => g[i] <= g[j]
  BY <1>2, <1>3
<1>7. ASSUME NEW i \in DOMAIN w PROVE w[i] = "none" \/ w[i] = v[g[i]]
  <2>1. g[i] = IF i < 0 THEN i ELSE 0
    BY <1>7
  <2> HIDE DEF g
  <2>2. i = -(a + 1) \/ i \in -a..(-1) \/ i = 0 \/ i = 0 + 1
    BY <1>2, <1>3, <1>7
  <2>3. CASE i = -(a + 1)
    <3>1. g[i] = i
      BY <1>2, <2>1, <2>3
    <3>2. QED BY <1>2, <1>3, <2>3, <3>1
  <2>4. CASE i \in -a..(-1)
    <3>1. g[i] = i
      BY <1>2, <2>1, <2>4
    <3>2. QED BY <1>2, <1>3, <2>4, <3>1
  <2>5. CASE i = 0 \/ i = 0 + 1
    <3>1. g[i] = 0
      BY <2>1, <2>5
    <3>2. QED BY <1>2, <1>3, <2>5, <3>1
  <2>6. QED BY <2>2, <2>3, <2>4, <2>5
<1>8. Thins(v, w)
  BY <1>5, <1>6, <1>7 DEF Thins
<1>9. QED BY <1>4, <1>8, ThinnerIsCalmer DEF v, w

-----------------------------------------------------------------------------
(* What a step does to the engine's view.                                  *)

LEMMA SameEngineView ==
  ASSUME account'.position = account.position, UNCHANGED <<exch, stream>>
  PROVE  EngineView' = EngineView
BY DEF EngineView

\* A message of the stream arrives or is lost.
LEMMA EngineHears ==
  ASSUME StreamTyped, EngineTyped, Deliver \/ Disconnect
  PROVE  /\ Calmer(EngineView, EngineView')
         /\ stream # <<>> /\ stream' = Tail(stream) /\ UNCHANGED <<exch, rx, main, fired, watch>>
         /\ \/ account' = account
            \/ /\ Head(stream).kind = "account"
               /\ account' = Risk!UpdatePosition(account, Head(stream).position)
               /\ account'.position = Head(stream).position
<1> DEFINE m == Head(stream)
<1>1. stream # <<>> /\ stream' = Tail(stream) /\ UNCHANGED <<exch, rx, main, fired, watch>>
  BY DEF Deliver, Disconnect, engineVars
<1>2. \/ account' = account
      \/ /\ m.kind = "account"
         /\ account' = Risk!UpdatePosition(account, m.position)
  BY DEF Deliver, Disconnect, engineVars
<1>3. IsNews(m)
  BY <1>1, HeadNews
<1>4. \/ account' = account
      \/ m.kind = "account" /\ account'.position = m.position
  BY <1>2, <1>3, PositionTold DEF IsNews
<1>5. Word(account'.position) \in {Word(account.position), Told(m)}
  BY <1>4 DEF Told
<1>6. Calmer(EngineView, EngineView')
  <2> DEFINE t == stream
             p == account.position
             q == account'.position
             n == exch.net
  <2>1. IsSeq(t) /\ t # <<>> /\ Word(q) \in {Word(p), Told(Head(t))}
    BY <1>1, <1>5 DEF StreamTyped
  <2>2. EngineView = EngineViewOf(p, t, n) /\ EngineView' = EngineViewOf(q, Tail(t), n)
    BY <1>1 DEF EngineView
  <2> HIDE DEF t, p, q, n
  <2>3. Calmer(EngineViewOf(p, t, n), EngineViewOf(q, Tail(t), n))
    <3>1. PICK s, saw : s = <<>> /\ saw = FALSE
      OBVIOUS
    <3>2. IsSeq(s)
      BY <3>1, EmptyView
    <3>3. Calmer(ViewOf(saw, s, p, t, n), ViewOf(saw, s, q, Tail(t), n))
      BY <2>1, <3>2, ArrivedView
    <3>4. QED BY <3>1, <3>3 DEF EngineViewOf
  <2>4. QED BY <2>2, <2>3
<1>7. QED BY <1>1, <1>2, <1>3, <1>4, <1>6, PositionTold DEF IsNews

\* A message without a position joins the stream.
LEMMA EngineViewWaits ==
  ASSUME StreamTyped, NEW m, Told(m) = "none", stream' = Append(stream, m),
         exch'.net = exch.net, account' = account
  PROVE  Calmer(EngineView, EngineView')
BY EmptyView, SilentView DEF EngineView, EngineViewOf, StreamTyped

\* The exchange's position changes.
LEMMA EngineViewNews ==
  ASSUME StreamTyped, NEW x, NEW more, Told(more) = "none",
         \/ stream' = Append(stream, AccountMessage(x))
         \/ stream' = Append(Append(stream, AccountMessage(x)), more),
         exch'.net = x, account' = account
  PROVE  /\ x = 0 /\ Settles(EngineView) => Settles(EngineView')
         /\ x = 0 /\ Falls(EngineView) => Falls(EngineView')
         /\ Flat(EngineView) => Settles(EngineView') /\ ~Gone(EngineView')
<1> DEFINE m == AccountMessage(x)
           t == stream
           r == Append(t, m)
           p == account.position
           v == EngineViewOf(p, t, exch.net)
           w == EngineViewOf(p, r, x)
           z == EngineViewOf(p, Append(r, more), x)
<1>1. IsSeq(t) /\ IsSeq(r) /\ Told(m) = Word(x)
  BY AppendElements DEF StreamTyped, AccountMessage, Told
<1>2. EngineView = v /\ EngineView' \in {w, z}
  BY DEF EngineView
<1> HIDE DEF m, t, r, p
<1>3. Calmer(w, z)
  BY <1>1, EmptyView, SilentView DEF EngineViewOf
<1>4. /\ x = 0 /\ Settles(v) => Settles(w)
      /\ x = 0 /\ Falls(v) => Falls(w)
      /\ Flat(v) => Settles(w) /\ ~Gone(w)
  BY <1>1, EmptyView, NewsView DEF EngineViewOf, r
<1> HIDE DEF v, w, z
<1>5. QED BY <1>2, <1>3, <1>4 DEF Calmer

\* A fill: of an entry, or of a close or nothing.
LEMMA EngineViewFills ==
  ASSUME StreamTyped, NEW o, Filled(o), account' = account
  PROVE  /\ NetAfter(o) = 0 /\ Settles(EngineView) => Settles(EngineView')
         /\ NetAfter(o) = 0 /\ Falls(EngineView) => Falls(EngineView')
         /\ Flat(EngineView) => Settles(EngineView') /\ ~Gone(EngineView')
<1> DEFINE e == OrderMessage(o, "FILLED", o.lots)
<1>1. Told(e) = "none"
  BY DEF OrderMessage, Told
<1>2. stream' = Append(Append(stream, AccountMessage(NetAfter(o))), e) /\ exch'.net = NetAfter(o)
  BY DEF Filled
<1> HIDE DEF e
<1>3. QED BY <1>1, <1>2, EngineViewNews

-----------------------------------------------------------------------------
(* The invariant.                                                          *)

Closes == {o \in exch.working : o.reduceOnly}
Closing == main.pc = "close" \/ Closes # {}

\* Nothing but what the two properties leave aside went wrong.
Timely == /\ OneBot /\ Without({"engine", "raced"})
          /\ Without({"untracked"}) \/ Without({"liquidated", "unanswered"})
Undisturbed == Timely /\ Without({"liquidated", "unanswered"})

\* What rx and the trailing stop are made of, and what the exchange numbers.
Records ==
  /\ rx = [pc |-> rx.pc, order |-> rx.order] /\ rx.pc \in {"idle", "stop", "arm"}
  /\ rx.order.side \in {-1, 0, 1}
  /\ watch = [side |-> watch.side, hard |-> watch.hard, extreme |-> watch.extreme,
              indicator |-> watch.indicator, period |-> watch.period, window |-> watch.window]
  /\ fired \in BOOLEAN
  /\ count.faults["engine"] = 0 => count.faults["blind"] = 0

\* An order's number is its own, and the news of its end comes when it is no more.
Numbered ==
  /\ count.placed \in Nat
  /\ \A o \in exch.working : o.id \in Nat /\ o.id <= count.placed
  /\ \A o, p \in exch.working : o.id = p.id => o = p
  /\ \A m \in Range(stream) : m.kind = "order" =>
       /\ m.id \in Nat /\ m.id <= count.placed
       /\ \A o \in exch.working : o.id # m.id

\* While an entry is on its way or at work the engine hears of no position.
EngineGate == (Coming => Flat(EngineView)) /\ Settles(EngineView)

\* Between the hit and the close the bot cannot take the position for closed.
StillHeld(brain, s, t, p) ==
  /\ brain.state # "IDLE" /\ ~ToldUnfilled(s, t)
  /\ Settles(ViewOf(brain.saw, s, p, <<>>, p))

(***************************************************************************)
(* A close is sent once, and until it has ended nothing else is at work:   *)
(* its number is among the tracked, so that rx takes no entry (an untracked *)
(* close has its position, beside which no entry comes), and once the      *)
(* engine learns that the position went it learns of no other.             *)
(***************************************************************************)
OneClose ==
  /\ \A o, p \in Closes : o = p
  /\ main.pc = "close" =>
       /\ Closes = {} /\ fired /\ toEngine = <<>>
       /\ Running => StillHeld(bot.brain, inbox, stream, main.position)
  /\ Closing => /\ rx.pc = "idle" /\ Entries = {} /\ Falls(EngineView)
                /\ ~fired => account.position = 0
  /\ Without({"untracked"}) => \A o \in Closes : o.id \in tracked
  /\ Without({"unanswered"}) /\ fired /\ rx.pc = "idle" => Entries = {}
  /\ Without({"unfilled", "liquidated", "unanswered"})
       /\ fired /\ rx.pc = "idle" /\ exch.net # 0 => Closing

(***************************************************************************)
(* Of a session in which only closes end a position: all that is told of   *)
(* positions is the one of the last order rx took; until its stop fires no *)
(* close is at work and no position goes, afterwards none comes; and from  *)
(* set_stop_price() on the risk manager has that order's stop.             *)
(***************************************************************************)
Open == ~fired \/ rx.pc # "idle"
OfOrder(n) == n \in {0, rx.order.side}
OwnStop ==
  /\ OfOrder(account.position) /\ OfOrder(exch.net)
  /\ \A m \in Range(stream) : m.kind = "account" => OfOrder(m.position)
  /\ \A o \in Entries : o.side = rx.order.side
  /\ Open => ~Closing /\ ~Gone(EngineView)
  /\ ~Open => Falls(EngineView)
  /\ Closing => exch.net # 0
  /\ \A i, j \in ZeroIn(stream) : i = j
  /\ account.position = 0 => ZeroIn(stream) = {}
  /\ rx.pc = "arm" \/ (rx.pc = "idle" /\ ~fired /\ (Entries # {} \/ exch.net # 0)) =>
       account.stop = rx.order.stop
  /\ watch.side # 0 => /\ ~fired /\ rx.pc = "idle" /\ account.position # 0
                       /\ watch.side = rx.order.side /\ watch.hard = rx.order.stop

StopsInv ==
  /\ Records /\ Numbered
  /\ OneBot => EngineGate
  /\ Timely => OneClose
  /\ Undisturbed => OwnStop

-----------------------------------------------------------------------------
(* The parts that hold of every session.                                   *)

IsStop(w) == w = [side |-> w.side, hard |-> w.hard, extreme |-> w.extreme,
                  indicator |-> w.indicator, period |-> w.period, window |-> w.window]

\* What the calls of the trailing stop do to its side and its hard stop.
LEMMA StopCalls ==
  ASSUME NEW w, IsStop(w)
  PROVE  /\ IsStop(TS!Reset(w)) /\ TS!Reset(w).side = 0
         /\ \A i, p : /\ IsStop(TS!Configure(w, i, p))
                      /\ TS!Configure(w, i, p).side = w.side
                      /\ TS!Configure(w, i, p).hard = w.hard
         /\ IsStop(Armed(w))
         /\ w.side # 0 \/ account.position = 0 => Armed(w) = w
         /\ w.side = 0 /\ account.position # 0 =>
              Armed(w).side = Sign(account.position) /\ Armed(w).hard = account.stop
<1>0. PICK a, b, c, d, e, f : w = [side |-> a, hard |-> b, extreme |-> c, indicator |-> d,
                                   period |-> e, window |-> f]
  BY DEF IsStop
<1>w. \A g, h, i, j, k, l : IsStop([side |-> g, hard |-> h, extreme |-> i, indicator |-> j,
                                    period |-> k, window |-> l])
  BY DEF IsStop
<1>1. TS!Reset(w) = [side |-> 0, hard |-> 0, extreme |-> 0, indicator |-> d, period |-> e,
                     window |-> f]
  <2> DEFINE w1 == [w EXCEPT !.side = 0]
             w2 == [w1 EXCEPT !.hard = 0]
             w3 == [w2 EXCEPT !.extreme = 0]
  <2>1. w1 = [side |-> 0, hard |-> b, extreme |-> c, indicator |-> d, period |-> e, window |-> f]
    BY <1>0
  <2> HIDE DEF w1
  <2>2. w2 = [side |-> 0, hard |-> 0, extreme |-> c, indicator |-> d, period |-> e, window |-> f]
    BY <2>1
  <2> HIDE DEF w2
  <2>3. w3 = [side |-> 0, hard |-> 0, extreme |-> 0, indicator |-> d, period |-> e, window |-> f]
    BY <2>2
  <2>4. QED BY <2>3 DEF TS!Reset, w1, w2
<1>2. IsStop(TS!Reset(w)) /\ TS!Reset(w).side = 0
  BY <1>1, <1>w
<1>3. ASSUME NEW i, NEW p
      PROVE  /\ IsStop(TS!Configure(w, i, p))
             /\ TS!Configure(w, i, p).side = w.side /\ TS!Configure(w, i, p).hard = w.hard
  <2>1. TS!Configure(w, i, p) = [side |-> a, hard |-> b, extreme |-> c, indicator |-> i,
                                 period |-> p, window |-> f]
    <3> DEFINE w1 == [w EXCEPT !.indicator = i]
               w2 == [w1 EXCEPT !.period = p]
    <3>1. w1 = [side |-> a, hard |-> b, extreme |-> c, indicator |-> i, period |-> e, window |-> f]
      BY <1>0
    <3> HIDE DEF w1
    <3>2. w2 = [side |-> a, hard |-> b, extreme |-> c, indicator |-> i, period |-> p, window |-> f]
      BY <3>1
    <3>3. QED BY <3>2 DEF TS!Configure, w1
  <2>2. QED BY <1>0, <1>w, <2>1
<1>4. CASE w.side # 0 \/ account.position = 0
  <2>1. Armed(w) = w
    BY <1>4 DEF Armed
  <2>2. QED BY <1>2, <1>3, <1>4, <2>1
<1>5. CASE ~(w.side # 0 \/ account.position = 0)
  <2> DEFINE s == Sign(account.position)
             h == account.stop
  <2>1. Armed(w) = TS!OnEntry(w, s, h)
    BY <1>5 DEF Armed
  <2> HIDE DEF s, h
  <2>2. TS!OnEntry(w, s, h) = [side |-> s, hard |-> h, extreme |-> h, indicator |-> d,
                               period |-> e, window |-> f]
    <3> DEFINE w1 == [w EXCEPT !.side = s]
               w2 == [w1 EXCEPT !.hard = h]
               w3 == [w2 EXCEPT !.extreme = h]
    <3>1. w1 = [side |-> s, hard |-> b, extreme |-> c, indicator |-> d, period |-> e, window |-> f]
      BY <1>0
    <3> HIDE DEF w1
    <3>2. w2 = [side |-> s, hard |-> h, extreme |-> c, indicator |-> d, period |-> e, window |-> f]
      BY <3>1
    <3> HIDE DEF w2
    <3>3. w3 = [side |-> s, hard |-> h, extreme |-> h, indicator |-> d, period |-> e, window |-> f]
      BY <3>2
    <3>4. QED BY <3>3 DEF TS!OnEntry, w1, w2
  <2>3. IsStop(Armed(w)) /\ Armed(w).side = s /\ Armed(w).hard = h
    BY <1>w, <2>1, <2>2
  <2>4. QED BY <1>2, <1>3, <1>5, <2>3 DEF s, h
<1>6. QED BY <1>4, <1>5

RxShape ==
  /\ rx = [pc |-> rx.pc, order |-> rx.order] /\ rx.pc \in {"idle", "stop", "arm"}
  /\ rx.order.side \in {-1, 0, 1}

LEMMA RecordsStep ==
  ASSUME Records, Known, Counting, [Next]_vars
  PROVE  Records'
<1>0. RxShape /\ IsStop(watch) /\ fired \in BOOLEAN
  BY DEF Records, RxShape, IsStop
<1>a. count'.faults["engine"] = 0 => count'.faults["blind"] = 0
  <2>1. "engine" \in Faults
    BY DEF Faults
  <2>2. QED BY <2>1 DEF Records, Counting
<1>b. ASSUME RxShape', IsStop(watch'), fired' \in BOOLEAN PROVE Records'
  BY <1>a, <1>b DEF Records, RxShape, IsStop
<1>c. ASSUME UNCHANGED <<rx, watch, fired>> PROVE Records'
  BY <1>0, <1>b, <1>c DEF RxShape, IsStop
<1>1. CASE Bot
  BY <1>1, <1>c DEF Bot, StartBot, FetchPage, WarmUp, WarmUpFails, BotDies, HearBar,
                    HearOrderUpdate, HearSignal, HearSignalRaises, engineVars
<1>2. CASE RxRefuse \/ RxUnanswered
  BY <1>2, <1>c DEF RxRefuse, RxUnanswered, engineVars
<1>3. CASE RxAccept
  <2>1. rx' = [pc |-> "stop", order |-> Head(toEngine)] /\ UNCHANGED <<watch, fired>>
    BY <1>3 DEF RxAccept
  <2>2. Head(toEngine).side \in {1, -1}
    <3>1. toEngine # <<>> /\ IsSeq(toEngine)
      BY <1>3 DEF RxAccept, Known, WireInv
    <3>2. Head(toEngine) = toEngine[1] /\ 1 \in DOMAIN toEngine
      BY <3>1, TailElements
    <3>3. QED BY <3>2 DEF Known, WireInv, FromSettings, Range
  <2>3. QED BY <1>0, <1>b, <2>1, <2>2 DEF RxShape, IsStop
<1>4. CASE RxSetStop
  <2>1. rx' = [pc |-> "arm", order |-> rx.order] /\ UNCHANGED <<watch, fired>>
    BY <1>0, <1>4 DEF RxSetStop, RxShape
  <2>2. QED BY <1>0, <1>b, <2>1 DEF RxShape, IsStop
<1>5. CASE RxArm
  <2>1. rx' = [pc |-> "idle", order |-> rx.order] /\ fired' = FALSE
    BY <1>0, <1>5 DEF RxArm, RxShape
  <2>2. watch' = Armed(TS!Configure(watch, rx.order.indicator, rx.order.period))
    BY <1>5 DEF RxArm
  <2>3. IsStop(watch')
    BY <1>0, <2>2, StopCalls
  <2>4. QED BY <1>0, <1>b, <2>1, <2>3 DEF RxShape
<1>6. CASE CheckFlat \/ CheckHeld \/ CheckHit
  <2>1. rx' = rx /\ fired' \in BOOLEAN
    BY <1>0, <1>6 DEF CheckFlat, CheckHeld, CheckHit, Unchecked, UncheckedBut
  <2>2. watch' \in {watch, TS!Reset(watch), Armed(watch), TS!Reset(Armed(watch))}
    BY <1>6 DEF CheckFlat, CheckHeld, CheckHit
  <2>3. IsStop(watch')
    BY <1>0, <2>2, StopCalls
  <2>4. QED BY <1>0, <1>b, <2>1, <2>3 DEF RxShape
<1>7. CASE CloseSent \/ CloseUnanswered \/ CloseRefused \/ Publish \/ MissBar
  BY <1>7, <1>c DEF CloseSent, CloseUnanswered, CloseRefused, Publish, MissBar, engineVars
<1>8. CASE Exchange
  BY <1>8, <1>c DEF Exchange, MarketCloses, Liquidate, Fill, Expire, engineVars
<1>9. CASE Stream
  BY <1>9, <1>c DEF Stream, Subscribe, Deliver, Disconnect, engineVars
<1>10. CASE RestartEngine
  <2>1. rx' = [pc |-> "idle", order |-> NoOrder] /\ watch' = TS!FreshStop /\ fired' = FALSE
    BY <1>10 DEF RestartEngine, Idle
  <2>2. IsStop(TS!FreshStop)
    BY DEF IsStop, TS!FreshStop
  <2>3. QED BY <1>b, <2>1, <2>2 DEF RxShape, NoOrder
<1>11. CASE UNCHANGED vars
  BY <1>11, <1>c DEF vars, engineVars
<1>12. QED BY <1>1, <1>2, <1>3, <1>4, <1>5, <1>6, <1>7, <1>8, <1>9, <1>10, <1>11
           DEF Next, Rx, Main

\* A new order has a number of its own, whether it rests or is filled at once.
LEMMA NewOrderNumbered ==
  ASSUME Numbered, ExchTyped, StreamTyped, NEW o, o.id = count.placed + 1,
         count'.placed = count.placed + 1,
         \/ exch' = [exch EXCEPT !.working = @ \cup {o}] /\ stream' = stream
         \/ Filled(o)
  PROVE  Numbered'
<1>0. /\ count.placed \in Nat
      /\ \A p \in exch.working : p.id \in Nat /\ p.id <= count.placed
      /\ \A p, q \in exch.working : p.id = q.id => p = q
      /\ \A m \in Range(stream) : m.kind = "order" =>
           m.id \in Nat /\ m.id <= count.placed /\ \A p \in exch.working : p.id # m.id
  BY DEF Numbered
<1>1. CASE exch' = [exch EXCEPT !.working = @ \cup {o}] /\ stream' = stream
  <2>1. exch'.working = exch.working \cup {o} /\ stream' = stream
    BY <1>1 DEF ExchTyped
  <2>2. \A p \in exch'.working : p.id \in Nat /\ p.id <= count'.placed
    BY <1>0, <2>1
  <2>3. \A p, q \in exch'.working : p.id = q.id => p = q
    BY <1>0, <2>1
  <2>4. \A m \in Range(stream') : m.kind = "order" =>
          m.id \in Nat /\ m.id <= count'.placed /\ \A p \in exch'.working : p.id # m.id
    BY <1>0, <2>1
  <2>5. QED BY <1>0, <2>2, <2>3, <2>4 DEF Numbered
<1>2. CASE Filled(o)
  <2> DEFINE m == AccountMessage(NetAfter(o))
             e == OrderMessage(o, "FILLED", o.lots)
  <2>1. exch'.working = exch.working \ {o} /\ stream' = Append(Append(stream, m), e)
    BY <1>2 DEF Filled
  <2>2. m.kind # "order" /\ e.id = o.id
    BY DEF AccountMessage, OrderMessage
  <2> HIDE DEF m, e
  <2>3. Range(stream') = Range(stream) \cup {m} \cup {e}
    BY <2>1, AppendRange DEF StreamTyped
  <2>4. \A n \in Range(stream') : n.kind = "order" =>
          n.id \in Nat /\ n.id <= count'.placed /\ \A p \in exch'.working : p.id # n.id
    BY <1>0, <2>1, <2>2, <2>3
  <2>5. \A p \in exch'.working : p.id \in Nat /\ p.id <= count'.placed
    BY <1>0, <2>1
  <2>6. QED BY <1>0, <2>1, <2>4, <2>5 DEF Numbered
<1>3. QED BY <1>1, <1>2

\* An order ends, by a fill or not.
LEMMA EndedOrderNumbered ==
  ASSUME Numbered, StreamTyped, NEW o \in exch.working, NEW e, e.id = o.id,
         NEW m, m.kind # "order",
         exch'.working = exch.working \ {o}, count'.placed = count.placed,
         stream' = Append(stream, e) \/ stream' = Append(Append(stream, m), e)
  PROVE  Numbered'
<1>0. /\ count.placed \in Nat
      /\ \A p \in exch.working : p.id \in Nat /\ p.id <= count.placed
      /\ \A p, q \in exch.working : p.id = q.id => p = q
      /\ \A n \in Range(stream) : n.kind = "order" =>
           n.id \in Nat /\ n.id <= count.placed /\ \A p \in exch.working : p.id # n.id
  BY DEF Numbered
<1>1. Range(stream') \subseteq Range(stream) \cup {m} \cup {e}
  <2>1. IsSeq(stream)
    BY DEF StreamTyped
  <2>2. CASE stream' = Append(stream, e)
    BY <2>1, <2>2, AppendRange
  <2>3. CASE stream' = Append(Append(stream, m), e)
    <3>1. IsSeq(Append(stream, m)) /\ Range(Append(stream, m)) = Range(stream) \cup {m}
      BY <2>1, AppendRange
    <3>2. Range(stream') = Range(Append(stream, m)) \cup {e}
      BY <2>3, <3>1, AppendRange
    <3>3. QED BY <3>1, <3>2
  <2>4. QED BY <2>2, <2>3
<1>2. \A p \in exch'.working : p.id # e.id
  BY <1>0
<1>3. \A n \in Range(stream') : n.kind = "order" =>
        n.id \in Nat /\ n.id <= count'.placed /\ \A p \in exch'.working : p.id # n.id
  BY <1>0, <1>1, <1>2
<1>4. QED BY <1>0, <1>3 DEF Numbered

LEMMA NumberedStep ==
  ASSUME Numbered, Known, Counting, [Next]_vars
  PROVE  Numbered'
<1>0. ExchTyped /\ StreamTyped /\ EngineTyped /\ WireInv /\ CountShape
  BY DEF Known, Shape
<1>a. ASSUME UNCHANGED <<exch, stream>>, ~EntryPlaced, ~ClosePlaced PROVE Numbered'
  BY <1>a DEF Numbered, Counting
<1>b. ASSUME EntryPlaced \/ ClosePlaced PROVE count'.placed = count.placed + 1
  <2>1. \/ count' = [count EXCEPT !.placed = @ + 1]
        \/ FaultPlaced({"unanswered"}) \/ FaultPlaced({"untracked"})
    BY <1>b DEF EntryPlaced, ClosePlaced, RxAccept, RxUnanswered, CloseSent, CloseUnanswered
  <2>2. "blind" \notin {"unanswered"} /\ "blind" \notin {"untracked"}
    OBVIOUS
  <2>3. ASSUME FaultPlaced({"unanswered"}) \/ FaultPlaced({"untracked"})
        PROVE  count'.placed = count.placed + 1
    BY <1>0, <1>b, <2>2, <2>3, FaultPlacedCounting, FaultKinds
  <2>4. QED BY <1>0, <2>1, <2>3 DEF CountShape
<1>c. \A o, p, n : /\ AccountMessage(n).kind # "order"
                   /\ OrderMessage(o, "FILLED", p).id = o.id
                   /\ OrderMessage(o, "EXPIRED", p).id = o.id
  BY DEF AccountMessage, OrderMessage
<1>1. CASE EntryPlaced
  <2> DEFINE o == Order(count.placed + 1, Head(toEngine).side, 1, FALSE)
  <2>1. o.id = count.placed + 1 /\ IsOrder(o)
    <3>0. toEngine # <<>> /\ IsSeq(toEngine)
      BY <1>0, <1>1 DEF EntryPlaced, RxAccept, RxUnanswered, WireInv
    <3>1. Head(toEngine) = toEngine[1] /\ 1 \in DOMAIN toEngine
      BY <3>0, TailElements
    <3>2. Head(toEngine).side \in {1, -1}
      BY <1>0, <3>1 DEF WireInv, FromSettings, Range
    <3>3. QED BY <3>2 DEF IsOrder, Order
  <2>2. \/ exch' = [exch EXCEPT !.working = @ \cup {o}] /\ stream' = stream
        \/ Fills(o)
    BY <1>1 DEF EntryPlaced, RxAccept, RxUnanswered
  <2> HIDE DEF o
  <2>3. QED BY <1>0, <1>1, <1>b, <2>1, <2>2, FillTyped, NewOrderNumbered
<1>2. CASE ClosePlaced
  <2> DEFINE o == CloseOrder
  <2>1. o.id = count.placed + 1 /\ IsOrder(o)
    <3>1. main.position \in Int /\ main.position # 0
      BY <1>0, <1>2 DEF ClosePlaced, CloseSent, CloseUnanswered, EngineTyped
    <3>2. -Sign(main.position) \in {1, -1} /\ Size(main.position) \in Nat \ {0}
      BY <3>1, SizeOfPosition
    <3>3. QED BY <3>2 DEF IsOrder, Order, CloseOrder
  <2>2. \/ exch' = [exch EXCEPT !.working = @ \cup {o}] /\ stream' = stream
        \/ Fills(o)
    BY <1>2 DEF ClosePlaced, CloseSent, CloseUnanswered
  <2> HIDE DEF o
  <2>3. QED BY <1>0, <1>2, <1>b, <2>1, <2>2, FillTyped, NewOrderNumbered
<1>3. CASE ~EntryPlaced /\ ~ClosePlaced
  <2>0. count'.placed = count.placed
    BY <1>3 DEF Counting
  <2>1. CASE Bot
    BY <1>3, <1>a, <2>1 DEF Bot, StartBot, FetchPage, WarmUp, WarmUpFails, BotDies, HearBar,
                            HearOrderUpdate, HearSignal, HearSignalRaises
  <2>2. CASE RxRefuse \/ RxSetStop \/ RxArm
    BY <1>3, <1>a, <2>2 DEF RxRefuse, RxSetStop, RxArm
  <2>3. CASE CheckFlat \/ CheckHeld \/ CheckHit
    BY <1>3, <1>a, <2>3 DEF CheckFlat, CheckHeld, CheckHit, Unchecked, UncheckedBut
  <2>4. CASE CloseRefused \/ Publish \/ MissBar \/ MarketCloses \/ Subscribe \/ UNCHANGED vars
    BY <1>3, <1>a, <2>4 DEF CloseRefused, Publish, MissBar, MarketCloses, Subscribe, vars
  <2>5. CASE Liquidate
    <3>1. exch'.working = exch.working /\ stream' = Append(stream, AccountMessage(0))
      BY <1>0, <2>5 DEF Liquidate, ExchTyped
    <3>2. Range(stream') = Range(stream) \cup {AccountMessage(0)}
      BY <1>0, <3>1, AppendRange DEF StreamTyped
    <3>3. QED BY <1>c, <2>0, <3>1, <3>2 DEF Numbered
  <2>6. ASSUME NEW o \in exch.working, Fill(o) PROVE Numbered'
    <3>1. Filled(o)
      BY <1>0, <2>6, FillTyped DEF Fill, ExchTyped
    <3>2. PICK m, e : /\ m.kind # "order" /\ e.id = o.id
                      /\ exch'.working = exch.working \ {o}
                      /\ stream' = Append(Append(stream, m), e)
      BY <1>c, <3>1 DEF Filled
    <3>3. QED BY <1>0, <2>0, <3>2, EndedOrderNumbered
  <2>7. ASSUME NEW o \in exch.working, Expire(o) PROVE Numbered'
    <3>1. exch'.working = exch.working \ {o}
      BY <1>0, <2>7 DEF Expire, ExchTyped
    <3>2. stream' = Append(stream, OrderMessage(o, "EXPIRED", 0))
      BY <2>7 DEF Expire
    <3>3. AccountMessage(0).kind # "order" /\ OrderMessage(o, "EXPIRED", 0).id = o.id
      BY <1>c
    <3>4. QED BY <1>0, <2>0, <3>1, <3>2, <3>3, EndedOrderNumbered
  <2>8. CASE Deliver \/ Disconnect
    <3>1. exch' = exch /\ Range(stream') \subseteq Range(stream)
      BY <1>0, <2>8, TailRange DEF Deliver, Disconnect, StreamTyped
    <3>2. QED BY <2>0, <3>1 DEF Numbered
  <2>9. CASE RestartEngine
    <3>1. exch' = exch /\ Range(stream') = {}
      BY <2>9, EmptyView DEF RestartEngine
    <3>2. QED BY <2>0, <3>1 DEF Numbered
  <2>10. QED BY <1>3, <2>1, <2>2, <2>3, <2>4, <2>5, <2>6, <2>7, <2>8, <2>9
             DEF Next, Rx, Main, Exchange, Stream, EntryPlaced, ClosePlaced
<1>4. QED BY <1>1, <1>2, <1>3

-----------------------------------------------------------------------------
(* The engine's gate.                                                      *)

\* A fill of an entry is the first that is told of a position.
LEMMA GateOfEntryFill ==
  ASSUME StreamTyped, EngineGate, NEW o, Filled(o), account' = account,
         Coming, toEngine' = <<>>, Entries' = {}
  PROVE  EngineGate'
<1>1. Settles(EngineView')
  BY EngineViewFills DEF EngineGate
<1>2. ~Coming'
  BY DEF Coming
<1>3. QED BY <1>1, <1>2 DEF EngineGate

\* A position goes: nothing is coming.
LEMMA GateOfEnd ==
  ASSUME StreamTyped, Sole, EngineGate, exch.net # 0, toEngine' = toEngine,
         Entries' \subseteq Entries, Settles(EngineView) => Settles(EngineView')
  PROVE  EngineGate'
<1>1. toEngine' = <<>> /\ Entries' = {}
  BY DEF Sole
<1>2. ~Coming'
  BY <1>1 DEF Coming
<1>3. QED BY <1>2 DEF EngineGate

\* What passes the bot's gate finds no position, nor does the engine hear of one.
LEMMA GateOfSignal ==
  ASSUME Known, Safe, EngineGate, NEW side \in {1, -1}, HearSignal(side)
  PROVE  EngineGate'
<1> DEFINE p == Head(inbox).position
           c == AfterGate(bot.brain, p)
<1>0. IsSeq(inbox) /\ IsSeq(stream)
  BY DEF Known, Shape, Bars, StreamTyped
<1>1. /\ inbox # <<>> /\ Head(inbox).kind = "kline" /\ bot.phase = "listening"
      /\ MayEnter(bot.brain, p)
      /\ UNCHANGED <<account, exch, stream>>
  BY DEF HearSignal, Hear, engineVars
<1>2. AtRest(c, Tail(inbox))
  <2>1. Gate(bot.brain, inbox)
    BY <1>1 DEF Safe, Running
  <2>2. Gate(c, Tail(inbox))
    BY <1>1, <2>1, KlineHeard
  <2>3. QED BY <1>1, <2>2 DEF Gate, MayEnter
<1>3. Flat(View(c, Tail(inbox)))
  BY <1>2 DEF AtRest
<1> HIDE DEF c
<1>4. Flat(EngineView)
  <2>1. IsSeq(Tail(inbox))
    BY <1>0, <1>1, TailElements
  <2>2. Calmer(ViewOf(c.saw, Tail(inbox), account.position, stream, exch.net),
               EngineViewOf(account.position, stream, exch.net))
    BY <1>0, <2>1, EngineSeesLess
  <2>3. QED BY <1>3, <2>2 DEF View, EngineView, Calmer
<1>5. EngineView' = EngineView
  BY <1>1, SameEngineView
<1>6. QED BY <1>4, <1>5 DEF EngineGate

LEMMA EngineGateStep ==
  ASSUME Known, Counting, Safe, EngineGate, OneBot', [Next]_vars
  PROVE  EngineGate'
<1>0. /\ ExchTyped /\ StreamTyped /\ EngineTyped /\ WireInv /\ CountShape /\ Sole
      /\ IsSeq(toEngine) /\ IsSeq(stream)
  BY DEF Known, Shape, Safe, WireInv, StreamTyped
<1>a. ASSUME Calmer(EngineView, EngineView'), Coming' => Coming PROVE EngineGate'
  BY <1>a DEF EngineGate, Calmer
<1>b. ASSUME account'.position = account.position, UNCHANGED <<exch, stream>>,
             toEngine' # <<>> => toEngine # <<>>
      PROVE  EngineGate'
  <2>1. EngineView' = EngineView /\ Entries' = Entries
    BY <1>b, SameEngineView DEF Entries
  <2>2. QED BY <1>b, <2>1 DEF EngineGate, Coming
<1>c. ASSUME NEW o, exch' = [exch EXCEPT !.working = @ \cup {o}], stream' = stream,
             account' = account, o.reduceOnly \/ Coming, toEngine' # <<>> => toEngine # <<>>
      PROVE  EngineGate'
  <2>1. exch'.net = exch.net /\ exch'.working = exch.working \cup {o}
    BY <1>0, <1>c DEF ExchTyped
  <2>2. EngineView' = EngineView
    BY <1>c, <2>1 DEF EngineView
  <2>3. Coming' => Coming
    BY <1>c, <2>1 DEF Coming, Entries
  <2>4. QED BY <2>2, <2>3 DEF EngineGate
<1>d. ASSUME NEW o, IsOrder(o), o.reduceOnly, Filled(o), account' = account, toEngine' = toEngine
      PROVE  EngineGate'
  <2>1. exch.net # 0 /\ NetAfter(o) = 0
    BY <1>0, <1>d, SignOfLot DEF Filled, Sole
  <2>2. Entries' \subseteq Entries
    BY <1>d DEF Filled, Entries
  <2>3. QED BY <1>0, <1>d, <2>1, <2>2, EngineViewFills, GateOfEnd
<1>1. CASE StartBot \/ FetchPage \/ WarmUp \/ WarmUpFails \/ BotDies
  BY <1>1, <1>b DEF StartBot, FetchPage, WarmUp, WarmUpFails, BotDies, engineVars
<1>2. CASE HearBar \/ HearOrderUpdate
  BY <1>2, <1>b DEF HearBar, HearOrderUpdate, engineVars
<1>3. ASSUME NEW side \in {1, -1}, HearSignal(side) \/ HearSignalRaises(side) PROVE EngineGate'
  <2>1. CASE HearSignalRaises(side)
    BY <2>1, <1>b DEF HearSignalRaises, engineVars
  <2>2. QED BY <1>3, <2>1, GateOfSignal
<1>4. CASE RxRefuse \/ RxArm
  BY <1>4, <1>b DEF RxRefuse, RxArm, engineVars
<1>5. CASE RxSetStop
  <2>1. account'.position = account.position
    BY <1>0, <1>5 DEF RxSetStop, EngineTyped
  <2>2. QED BY <1>5, <1>b, <2>1 DEF RxSetStop
<1>6. CASE EntryPlaced
  <2> DEFINE o == Order(count.placed + 1, Head(toEngine).side, 1, FALSE)
  <2>1. /\ toEngine # <<>> /\ toEngine' = Tail(toEngine) /\ account' = account
        /\ \/ exch' = [exch EXCEPT !.working = @ \cup {o}] /\ stream' = stream
           \/ Fills(o)
    BY <1>6 DEF EntryPlaced, RxAccept, RxUnanswered, engineVars
  <2>2. IsOrder(o)
    <3>1. Head(toEngine) = toEngine[1] /\ 1 \in DOMAIN toEngine
      BY <1>0, <2>1, TailElements
    <3>2. Head(toEngine).side \in {1, -1}
      BY <1>0, <3>1 DEF WireInv, FromSettings, Range
    <3>3. QED BY <3>2 DEF IsOrder, Order
  <2> HIDE DEF o
  <2>3. Coming /\ Entries = {}
    BY <1>0, <2>1 DEF Coming, Sole
  <2>4. toEngine' = <<>>
    <3>1. /\ IsSeq(Tail(toEngine)) /\ Len(toEngine) \in Nat \ {0}
          /\ Len(Tail(toEngine)) = Len(toEngine) - 1
      BY <1>0, <2>1, TailElements
    <3>2. Len(Tail(toEngine)) = 0
      BY <1>0, <3>1 DEF Sole
    <3>3. QED BY <2>1, <3>1, <3>2, EmptySeq DEF IsSeq
  <2>5. CASE Fills(o)
    <3>1. Filled(o)
      BY <1>0, <2>2, <2>5, FillTyped
    <3>2. Entries' = {}
      BY <2>3, <3>1 DEF Filled, Entries
    <3>3. QED BY <1>0, <2>1, <2>3, <2>4, <3>1, <3>2, GateOfEntryFill
  <2>6. QED BY <1>c, <2>1, <2>3, <2>5
<1>7. CASE CheckFlat \/ CheckHeld \/ CheckHit
  BY <1>7, <1>b DEF CheckFlat, CheckHeld, CheckHit, Unchecked, UncheckedBut
<1>8. CASE ClosePlaced
  <2> DEFINE o == CloseOrder
  <2>1. /\ toEngine' = toEngine /\ account' = account
        /\ \/ exch' = [exch EXCEPT !.working = @ \cup {o}] /\ stream' = stream
           \/ Fills(o)
    BY <1>8 DEF ClosePlaced, CloseSent, CloseUnanswered, engineVars
  <2>2. IsOrder(o) /\ o.reduceOnly
    <3>1. main.position \in Int /\ main.position # 0
      BY <1>0, <1>8 DEF ClosePlaced, CloseSent, CloseUnanswered, EngineTyped
    <3>2. -Sign(main.position) \in {1, -1} /\ Size(main.position) \in Nat \ {0}
      BY <3>1, SizeOfPosition
    <3>3. QED BY <3>2 DEF IsOrder, Order, CloseOrder
  <2> HIDE DEF o
  <2>3. CASE Fills(o)
    BY <1>0, <1>d, <2>1, <2>2, <2>3, FillTyped
  <2>4. QED BY <1>c, <2>1, <2>2, <2>3
<1>9. CASE CloseRefused \/ Publish \/ MissBar \/ MarketCloses \/ Subscribe \/ UNCHANGED vars
  BY <1>9, <1>b DEF CloseRefused, Publish, MissBar, MarketCloses, Subscribe, vars, engineVars
<1>10. CASE Liquidate
  <2>1. /\ exch' = [net |-> 0, working |-> exch.working] /\ exch.net # 0
        /\ stream' = Append(stream, AccountMessage(0))
        /\ account' = account /\ toEngine' = toEngine
    BY <1>0, <1>10 DEF Liquidate, ExchTyped, engineVars
  <2>2. exch'.net = 0 /\ Entries' \subseteq Entries
    BY <2>1 DEF Entries
  <2>3. Told([kind |-> "hello"]) = "none"
    BY DEF Told
  <2>4. Settles(EngineView) => Settles(EngineView')
    BY <1>0, <2>1, <2>2, <2>3, EngineViewNews
  <2>5. QED BY <1>0, <2>1, <2>2, <2>4, GateOfEnd
<1>11. ASSUME NEW o \in exch.working, Fill(o) PROVE EngineGate'
  <2>1. IsOrder(o) /\ account' = account /\ toEngine' = toEngine
    BY <1>0, <1>11 DEF Fill, ExchTyped, engineVars
  <2>2. Filled(o)
    BY <1>0, <1>11, <2>1, FillTyped DEF Fill
  <2>3. CASE o.reduceOnly
    BY <1>d, <2>1, <2>2, <2>3
  <2>4. CASE ~o.reduceOnly
    <3>1. o \in Entries /\ \A p \in Entries : p = o
      BY <1>0, <2>4 DEF Sole, Entries
    <3>2. Coming /\ toEngine = <<>>
      BY <1>0, <3>1 DEF Coming, Sole
    <3>3. exch'.working = exch.working \ {o}
      BY <2>2 DEF Filled
    <3>4. Entries' = {}
      BY <3>1, <3>3 DEF Entries
    <3>5. QED BY <1>0, <2>1, <2>2, <3>2, <3>4, GateOfEntryFill
  <2>5. QED BY <2>1, <2>3, <2>4 DEF IsOrder
<1>12. ASSUME NEW o \in exch.working, Expire(o) PROVE EngineGate'
  <2> DEFINE e == OrderMessage(o, "EXPIRED", 0)
  <2>1. /\ exch' = [net |-> exch.net, working |-> exch.working \ {o}]
        /\ stream' = Append(stream, e) /\ account' = account /\ toEngine' = toEngine
    BY <1>0, <1>12 DEF Expire, ExchTyped, engineVars
  <2>2. Told(e) = "none"
    BY DEF OrderMessage, Told
  <2> HIDE DEF e
  <2>3. exch'.net = exch.net /\ (Coming' => Coming)
    BY <2>1 DEF Coming, Entries
  <2>4. QED BY <1>0, <1>a, <2>1, <2>2, <2>3, EngineViewWaits
<1>13. CASE Deliver \/ Disconnect
  <2>1. Calmer(EngineView, EngineView') /\ exch' = exch
    BY <1>0, <1>13, EngineHears
  <2>2. toEngine' = toEngine
    BY <1>13 DEF Deliver, Disconnect
  <2>3. QED BY <1>a, <2>1, <2>2 DEF Coming, Entries
<1>14. CASE RestartEngine
  <2>1. PICK blind \in BOOLEAN :
          /\ account' = Risk!UpdatePosition(Risk!OpenAccount(0), IF blind THEN 0 ELSE exch.net)
          /\ Fault(IF blind THEN {"engine", "blind"} ELSE {"engine"})
    BY <1>14 DEF RestartEngine
  <2>2. ~blind
    <3>1. ASSUME blind PROVE FALSE
      <4>1. Fault({"engine", "blind"})
        BY <2>1, <3>1
      <4>2. count'.faults["blind"] # 0
        BY <1>0, <4>1, FaultCounting, FaultKinds
      <4>3. QED BY <4>2 DEF OneBot, Without
    <3>2. QED BY <3>1
  <2>3. account'.position = exch.net
    BY <1>0, <2>1, <2>2 DEF Risk!UpdatePosition, Risk!OpenAccount, ExchTyped
  <2>4. stream' = <<>> /\ exch' = exch /\ toEngine' = toEngine
    BY <1>14 DEF RestartEngine
  <2>5. Calmer(EngineView, EngineView')
    <3>1. PICK s, saw : s = <<>> /\ saw = FALSE
      OBVIOUS
    <3>2. IsSeq(s)
      BY <3>1, EmptyView
    <3>3. Calmer(ViewOf(saw, s, account.position, stream, exch.net),
                 ViewOf(saw, s, account'.position, <<>>, exch.net))
      BY <1>0, <2>3, <3>2, RestartedView
    <3>4. QED BY <2>4, <3>1, <3>3 DEF EngineView, EngineViewOf
  <2>6. QED BY <1>a, <2>4, <2>5 DEF Coming, Entries
<1>15. QED BY <1>1, <1>2, <1>3, <1>4, <1>5, <1>6, <1>7, <1>8, <1>9, <1>10, <1>11, <1>12,
              <1>13, <1>14
           DEF Next, Bot, Rx, Main, Exchange, Stream, EntryPlaced, ClosePlaced

-----------------------------------------------------------------------------
(* One close at a time: the bot, between the hit and the close.            *)

LEMMA KindsBefore ==
  ASSUME Counting, NEW kinds, kinds \subseteq Faults, Without(kinds)'
  PROVE  Without(kinds)
BY DEF Without, Counting

\* The kinds that the one close is without.
KindsKept ==
  /\ Without({"untracked"})' => Without({"untracked"})
  /\ Without({"unanswered"})' => Without({"unanswered"})
  /\ Without({"unfilled", "liquidated", "unanswered"})'
       => Without({"unfilled", "liquidated", "unanswered"})

LEMMA CloseKindsBefore ==
  ASSUME Counting
  PROVE  KindsKept
<1>1. /\ {"untracked"} \subseteq Faults /\ {"unanswered"} \subseteq Faults
      /\ {"unfilled", "liquidated", "unanswered"} \subseteq Faults
  BY DEF Faults
<1>2. QED BY <1>1, KindsBefore DEF KindsKept

\* A position, and a kline without one in between, are not what the bot can be told.
LEMMA HeldSeesNoEnd ==
  ASSUME NEW s, IsSeq(s), s # <<>>, NEW p, p # 0, Told(Head(s)) = "zero",
         Settles(ViewOf(TRUE, s, p, <<>>, p))
  PROVE  FALSE
<1> DEFINE v == ViewOf(TRUE, s, p, <<>>, p)
           a == Len(s)
<1>1. Parts(v, TRUE, s, p, <<>>, p)
  BY EmptyView, ViewParts
<1>2. a \in Nat \ {0} /\ Head(s) = s[1]
  BY TailElements
<1> HIDE DEF v
<1>3. /\ DOMAIN v = -(a + 1)..(0 + 1) /\ v[-(a + 1)] = "held" /\ v[0] = "held"
      /\ \A i \in -a..(-1) : v[i] = Told(s[i + a + 1])
  BY <1>1, EmptyView DEF Parts, Saw, Word
<1> HIDE DEF a
<1>4. v[-a] = "zero"
  <2>1. -a \in -a..(-1) /\ -a + a + 1 = 1
    BY <1>2
  <2>2. v[-a] = Told(s[-a + a + 1])
    BY <1>3, <2>1
  <2>3. QED BY <1>2, <2>1, <2>2
<1>5. /\ -(a + 1) \in DOMAIN v /\ -a \in DOMAIN v /\ 0 \in DOMAIN v
      /\ -(a + 1) < -a /\ -a < 0
  BY <1>2, <1>3
<1>6. Settles(v)
  BY DEF v
<1>7. QED BY <1>3, <1>4, <1>5, <1>6 DEF Settles

LEMMA HeldHearsBar ==
  ASSUME NEW b \in Brain, NEW s, NEW t, IsSeq(s), s # <<>>, NEW p, p # 0,
         StillHeld(b, s, t, p), Head(s).kind = "kline"
  PROVE  StillHeld(AfterGate(b, Head(s).position), Tail(s), t, p)
<1> DEFINE q == Head(s).position
           c == AfterGate(b, q)
<1>1. /\ b = [state |-> b.state, saw |-> b.saw] /\ b.saw \in BOOLEAN
      /\ b.state = "WAITING_CLOSE"
      /\ ~ToldUnfilled(s, t) /\ Settles(ViewOf(b.saw, s, p, <<>>, p))
  BY DEF StillHeld, Brain
<1>2. Told(Head(s)) = IF q = 0 THEN "zero" ELSE "held"
  BY DEF Told, Word
<1>3. ~(b.saw /\ q = 0)
  <2>1. ASSUME b.saw, q = 0 PROVE FALSE
    <3>1. b.saw = TRUE /\ Told(Head(s)) = "zero"
      BY <1>1, <1>2, <2>1
    <3>2. QED BY <1>1, <3>1, HeldSeesNoEnd
  <2>2. QED BY <2>1
<1>4. c.state = "WAITING_CLOSE" /\ (c.saw => b.saw \/ q # 0)
  BY <1>1, <1>3 DEF AfterGate, Observed
<1> HIDE DEF c
<1>5. c.saw => b.saw \/ Told(Head(s)) = "held"
  BY <1>2, <1>4
<1>6. Calmer(ViewOf(b.saw, s, p, <<>>, p), ViewOf(c.saw, Tail(s), p, <<>>, p))
  BY <1>5, EmptyView, HeardView
<1>7. Quieter(s, t, Tail(s), t)
  BY HeardNews
<1>8. QED BY <1>1, <1>4, <1>6, <1>7 DEF StillHeld, Calmer, Quieter, c

LEMMA HeldHearsUpdate ==
  ASSUME NEW b, NEW s, NEW t, IsSeq(s), s # <<>>, NEW p,
         StillHeld(b, s, t, p), Head(s).kind = "order_update"
  PROVE  StillHeld(OnOrderUpdate(b, Head(s)), Tail(s), t, p)
<1>1. ~ToldUnfilled(s, t) /\ Settles(ViewOf(b.saw, s, p, <<>>, p)) /\ b.state # "IDLE"
  BY DEF StillHeld
<1>2. ~Unfilled(Head(s))
  BY <1>1, UnfilledTail DEF ToldUnfilled
<1>3. OnOrderUpdate(b, Head(s)) = b
  BY <1>2 DEF OnOrderUpdate, Unfilled
<1>4. Calmer(ViewOf(b.saw, s, p, <<>>, p), ViewOf(b.saw, Tail(s), p, <<>>, p))
  BY EmptyView, HeardView
<1>5. Quieter(s, t, Tail(s), t)
  BY HeardNews
<1>6. QED BY <1>1, <1>3, <1>4, <1>5 DEF StillHeld, Calmer, Quieter

\* Whatever leaves the engine and the exchange alone.
LEMMA OneCloseOfBot ==
  ASSUME OneClose, Counting, UNCHANGED <<account, fired, tracked, rx, main, exch, stream>>,
         main.pc = "close" => /\ toEngine' = <<>>
                              /\ Running' => StillHeld(bot'.brain, inbox', stream, main.position)
  PROVE  OneClose'
<1>1. Closes' = Closes /\ Entries' = Entries /\ EngineView' = EngineView
  BY SameEngineView DEF Closes, Entries
<1>2. Closing' = Closing
  BY <1>1 DEF Closing
<1>3. KindsKept
  BY CloseKindsBefore
<1>4. QED BY <1>1, <1>2, <1>3 DEF OneClose, KindsKept

LEMMA OneCloseBot ==
  ASSUME Known, Counting, OneClose, OneBot', Bot
  PROVE  OneClose'
<1>0. /\ BotShape /\ bot.brain \in Brain /\ IsSeq(inbox) /\ EngineTyped
      /\ count.starts = 0 => bot = NewBot("down")
  BY DEF Known, Shape, Bars, StartsTyped
<1>1. UNCHANGED <<account, fired, tracked, rx, main, exch, stream>>
  BY DEF Bot, StartBot, FetchPage, WarmUp, WarmUpFails, HearBar, HearOrderUpdate, HearSignal,
         HearSignalRaises, BotDies, engineVars
<1> DEFINE Kept == /\ toEngine' = <<>>
                   /\ Running' => StillHeld(bot'.brain, inbox', stream, main.position)
<1>2. SUFFICES ASSUME main.pc = "close" PROVE Kept
  BY <1>1, OneCloseOfBot
<1>3. /\ toEngine = <<>> /\ main.position # 0
      /\ Running => StillHeld(bot.brain, inbox, stream, main.position)
  BY <1>0, <1>2 DEF OneClose, EngineTyped
<1>4. CASE StartBot
  <2>1. bot = NewBot("down") /\ Running
    BY <1>0, <1>4, OneBotBefore DEF Running
  <2>2. bot.brain.state = "IDLE"
    BY <2>1 DEF NewBot, FreshBrain
  <2>3. QED BY <1>3, <2>1, <2>2 DEF StillHeld
<1>5. CASE FetchPage \/ WarmUp \/ WarmUpFails
  <2>1. bot'.brain = bot.brain /\ bot.phase # "down" /\ UNCHANGED <<toEngine, inbox>>
    BY <1>0, <1>5 DEF FetchPage, WarmUp, WarmUpFails, BotShape
  <2>2. QED BY <1>3, <2>1 DEF Running
<1>6. CASE BotDies \/ \E side \in {1, -1} : HearSignalRaises(side)
  <2>1. bot' = NewBot("down") /\ bot.phase # "down" /\ toEngine' = toEngine
        /\ count'.starts = count.starts
    <3>1. ~StartBot
      BY <1>6 DEF BotDies, HearSignalRaises, Hear, StartBot
    <3>2. QED BY <1>6, <3>1 DEF BotDies, HearSignalRaises, Hear, Counting
  <2>2. ~Running'
    BY <1>0, <2>1 DEF Running, NewBot
  <2>3. QED BY <1>3, <2>1, <2>2
<1>7. ASSUME Hear PROVE Running /\ inbox # <<>> /\ inbox' = Tail(inbox)
  BY <1>7 DEF Hear, Running
<1>8. CASE HearBar
  <2>1. /\ Hear /\ Head(inbox).kind = "kline" /\ toEngine' = toEngine
        /\ bot'.brain = AfterGate(bot.brain, Head(inbox).position)
    BY <1>0, <1>8 DEF HearBar, BotShape
  <2>2. QED BY <1>0, <1>3, <1>7, <2>1, HeldHearsBar
<1>9. CASE HearOrderUpdate
  <2>1. /\ Hear /\ Head(inbox).kind = "order_update" /\ toEngine' = toEngine
        /\ bot'.brain = OnOrderUpdate(bot.brain, Head(inbox))
    BY <1>0, <1>9 DEF HearOrderUpdate, BotShape
  <2>2. QED BY <1>0, <1>3, <1>7, <2>1, HeldHearsUpdate
<1>10. ASSUME NEW side \in {1, -1}, HearSignal(side) PROVE Kept
  <2>1. /\ Hear /\ Head(inbox).kind = "kline"
        /\ MayEnter(bot.brain, Head(inbox).position)
    BY <1>10 DEF HearSignal
  <2>2. StillHeld(AfterGate(bot.brain, Head(inbox).position), Tail(inbox), stream, main.position)
    BY <1>0, <1>3, <1>7, <2>1, HeldHearsBar
  <2>3. QED BY <2>1, <2>2 DEF StillHeld, MayEnter
<1>11. QED BY <1>4, <1>5, <1>6, <1>8, <1>9, <1>10 DEF Bot

-----------------------------------------------------------------------------
(* One close at a time: the engine and the exchange.                       *)

LEMMA NoneClosing ==
  ASSUME ~Closing', ~fired' \/ rx'.pc # "idle" \/ ~Without({"unanswered"})'
  PROVE  OneClose'
<1>1. Without({"unfilled", "liquidated", "unanswered"})' => Without({"unanswered"})'
  BY DEF Without
<1>2. QED BY <1>1 DEF OneClose, Closing

\* A step that leaves main's program and every order alone.
LEMMA OneCloseQuiet ==
  ASSUME OneClose, Counting, Closing' => Closing, main'.pc # "close",
         UNCHANGED <<exch, tracked, rx>>, Falls(EngineView) => Falls(EngineView'),
         ~fired' => ~fired \/ account.position = 0,
         fired' => fired /\ (Closing => Closing'), account' = account
  PROVE  OneClose'
<1>1. Closes' = Closes /\ Entries' = Entries
  BY DEF Closes, Entries
<1>2. KindsKept
  BY CloseKindsBefore
<1>3. QED BY <1>1, <1>2 DEF OneClose, KindsKept

\* What an entry and a close whose answer is lost leave behind.
LEMMA AnswerLost ==
  ASSUME CountShape
  PROVE  /\ RxUnanswered => ~Without({"unanswered"})'
         /\ CloseUnanswered => ~Without({"untracked"})'
<1>1. "blind" \notin {"unanswered"} /\ "blind" \notin {"untracked"}
  OBVIOUS
<1>2. ASSUME RxUnanswered PROVE ~Without({"unanswered"})'
  <2>1. FaultPlaced({"unanswered"}) /\ EntryPlaced
    BY <1>2 DEF RxUnanswered, EntryPlaced
  <2>2. count'.faults["unanswered"] # 0
    BY <1>1, <2>1, FaultPlacedCounting, FaultKinds
  <2>3. QED BY <2>2 DEF Without
<1>3. ASSUME CloseUnanswered PROVE ~Without({"untracked"})'
  <2>1. FaultPlaced({"untracked"}) /\ ClosePlaced
    BY <1>3 DEF CloseUnanswered, ClosePlaced
  <2>2. count'.faults["untracked"] # 0
    BY <1>1, <2>1, FaultPlacedCounting, FaultKinds
  <2>3. QED BY <2>2 DEF Without
<1>4. QED BY <1>2, <1>3

LEMMA OneCloseRx ==
  ASSUME Known, Counting, Safe, OneClose, Without({"untracked"}) \/ OwnStop, Rx
  PROVE  OneClose'
<1>0. ExchTyped /\ StreamTyped /\ EngineTyped /\ CountShape /\ Sole
  BY DEF Known, Shape, Safe
<1>1. CASE RxRefuse
  <2>1. main.pc # "close"
    BY <1>1 DEF RxRefuse, OneClose
  <2>2. UNCHANGED <<account, fired, tracked, rx, main, exch, stream>>
    BY <1>1 DEF RxRefuse, engineVars
  <2>3. QED BY <2>1, <2>2, OneCloseOfBot
<1>2. CASE EntryPlaced
  <2> DEFINE o == Order(count.placed + 1, Head(toEngine).side, 1, FALSE)
  <2>1. /\ main.pc # "close" /\ main' = main /\ toEngine # <<>> /\ tracked = {}
        /\ \/ exch' = [exch EXCEPT !.working = @ \cup {o}]
           \/ Fills(o)
    BY <1>2 DEF EntryPlaced, RxAccept, RxUnanswered, OneClose
  <2>2. Closes = {} /\ ~o.reduceOnly
    <3>1. ~o.reduceOnly
      BY DEF Order
    <3>2. CASE Without({"untracked"})
      BY <2>1, <3>1, <3>2 DEF OneClose
    <3>3. CASE OwnStop
      BY <1>0, <2>1, <3>1, <3>3 DEF OwnStop, Sole, Closing
    <3>4. QED BY <3>2, <3>3
  <2> HIDE DEF o
  <2>3. exch'.working \subseteq exch.working \cup {o}
    BY <1>0, <2>1 DEF ExchTyped, Fills
  <2>4. ~Closing'
    BY <2>1, <2>2, <2>3 DEF Closing, Closes
  <2>5. rx'.pc # "idle" \/ ~Without({"unanswered"})'
    <3>1. CASE RxAccept
      BY <3>1 DEF RxAccept
    <3>2. QED BY <1>0, <1>2, <3>1, AnswerLost DEF EntryPlaced
  <2>6. QED BY <2>4, <2>5, NoneClosing
<1>3. CASE RxSetStop \/ RxArm
  <2>1. ~Closing
    BY <1>3 DEF RxSetStop, RxArm, OneClose
  <2>2. ~Closing'
    BY <1>3, <2>1 DEF RxSetStop, RxArm, Closing, Closes
  <2>3. CASE RxSetStop
    <3>1. CASE rx'.pc = "idle"
      BY <2>3, <3>1 DEF RxSetStop
    <3>2. QED BY <2>2, <3>1, NoneClosing
  <2>4. CASE RxArm
    <3>1. fired' = FALSE
      BY <2>4 DEF RxArm
    <3>2. QED BY <2>2, <3>1, NoneClosing
  <2>5. QED BY <1>3, <2>3, <2>4
<1>4. QED BY <1>1, <1>2, <1>3 DEF Rx, EntryPlaced

\* A bar that reaches the stop: the position is all there is, and the bot waits.
LEMMA OneCloseHit ==
  ASSUME Known, Safe, EngineGate, OneClose, rx.pc = "idle", CheckHit
  PROVE  OneClose'
<1>0. IsSeq(inbox) /\ IsSeq(stream) /\ EngineTyped
  BY DEF Known, Shape, Bars, StreamTyped
<1> DEFINE p == account.position
           w == ViewOf(bot.brain.saw, inbox, p, <<>>, p)
<1>1. /\ p # 0 /\ ~fired /\ fired' = TRUE
      /\ main' = [pc |-> "close", position |-> p]
      /\ UNCHANGED <<bot, inbox, toEngine, account, tracked, rx, exch, stream>>
  BY DEF CheckHit, UncheckedBut, botVars
<1>2. Closes = {} /\ Closes' = {} /\ Entries' = Entries
  BY <1>1 DEF OneClose, Closing, Closes, Entries
<1>3. ~Flat(EngineView) /\ (Settles(EngineView) => Falls(EngineView))
  BY <1>0, <1>1, EngineReads DEF EngineView
<1>4. toEngine = <<>> /\ Entries = {} /\ Falls(EngineView)
  BY <1>3 DEF EngineGate, Coming
<1>5. EngineView' = EngineView
  BY <1>1, SameEngineView
<1>6. ASSUME Running' PROVE StillHeld(bot.brain, inbox, stream, p)
  <2> DEFINE v == View(bot.brain, inbox)
  <2>1. CASE bot.phase # "down" \/ count.starts = 0
    <3>1. Gate(bot.brain, inbox)
      BY <2>1 DEF Safe, Running
    <3>2. Calmer(v, EngineView)
      BY <1>0, EngineSeesLess DEF View, EngineView
    <3>3. Calmer(v, w)
      BY <1>0, ViewUpToEngine DEF View
    <3> HIDE DEF v, w
    <3>4. ~Flat(v)
      BY <1>3, <3>2 DEF Calmer
    <3>5. bot.brain.state # "IDLE" /\ Waiting(bot.brain, inbox)
      BY <3>1, <3>4 DEF Gate, AtRest, v
    <3>6. Settles(v) /\ ~ToldUnfilled(inbox, stream)
      BY <3>4, <3>5 DEF Waiting, v
    <3>7. QED BY <3>3, <3>5, <3>6 DEF StillHeld, Calmer, w
  <2>2. count'.starts = count.starts
    BY DEF CheckHit, Raced, Fault, Known, Shape, CountShape
  <2>3. QED BY <1>1, <1>6, <2>1, <2>2 DEF Running
<1>7. Closing'
  BY <1>1 DEF Closing
<1>8. main'.position = p /\ main'.pc = "close"
  BY <1>1
<1> HIDE DEF p
<1>9. QED BY <1>1, <1>2, <1>4, <1>5, <1>6, <1>7, <1>8 DEF OneClose

\* A bar that is checked without a race finds rx idle.
LEMMA CheckedIdle ==
  ASSUME CountShape, Raced, Without({"raced"})'
  PROVE  rx.pc = "idle"
<1>1. SUFFICES ASSUME rx.pc # "idle" PROVE FALSE
  OBVIOUS
<1>2. Fault({"raced"})
  BY <1>1 DEF Raced
<1>3. count'.faults["raced"] # 0
  BY <1>2, FaultCounting, FaultKinds
<1>4. QED BY <1>3 DEF Without

\* The close that main sends.
LEMMA CloseIsOrder ==
  ASSUME EngineTyped, main.pc = "close"
  PROVE  IsOrder(CloseOrder) /\ CloseOrder.reduceOnly /\ CloseOrder.id = count.placed + 1
<1>1. main.position \in Int /\ main.position # 0
  BY DEF EngineTyped
<1>2. -Sign(main.position) \in {1, -1} /\ Size(main.position) \in Nat \ {0}
  BY <1>1, SizeOfPosition
<1>3. QED BY <1>2 DEF IsOrder, Order, CloseOrder

LEMMA OneClosePlaced ==
  ASSUME Known, Safe, OneClose, ClosePlaced
  PROVE  OneClose'
<1> DEFINE o == CloseOrder
<1>0. ExchTyped /\ StreamTyped /\ EngineTyped /\ Sole /\ CountShape
  BY DEF Known, Shape, Safe
<1>1. /\ main.pc = "close" /\ main' = [main EXCEPT !.pc = "publish"]
      /\ UNCHANGED <<account, fired, rx>>
      /\ \/ /\ exch' = [exch EXCEPT !.working = @ \cup {o}]
            /\ o.id \in tracked' \/ ~Without({"untracked"})'
            /\ UNCHANGED stream
         \/ Fills(o)
  <2>1. CASE CloseSent
    BY <2>1 DEF CloseSent
  <2>2. CASE CloseUnanswered
    BY <1>0, <2>2, AnswerLost DEF CloseUnanswered, engineVars
  <2>3. QED BY <2>1, <2>2 DEF ClosePlaced
<1>2. main'.pc = "publish" /\ IsOrder(o) /\ o.reduceOnly
  BY <1>0, <1>1, CloseIsOrder DEF EngineTyped
<1>3. /\ Closes = {} /\ fired /\ rx.pc = "idle" /\ Entries = {} /\ Falls(EngineView)
  BY <1>1 DEF OneClose, Closing
<1> HIDE DEF o
<1>4. CASE /\ exch' = [exch EXCEPT !.working = @ \cup {o}]
           /\ o.id \in tracked' \/ ~Without({"untracked"})'
           /\ UNCHANGED stream
  <2>1. exch' = [net |-> exch.net, working |-> exch.working \cup {o}]
    BY <1>0, <1>4 DEF ExchTyped
  <2>2. Closes' = {o} /\ Entries' = {}
    BY <1>2, <1>3, <2>1 DEF Closes, Entries
  <2>3. EngineView' = EngineView
    BY <1>1, <1>4, <2>1 DEF EngineView
  <2>4. Closing'
    BY <2>2 DEF Closing
  <2>5. QED BY <1>1, <1>2, <1>3, <1>4, <2>2, <2>3, <2>4 DEF OneClose
<1>5. CASE Fills(o)
  <2>1. Filled(o)
    BY <1>0, <1>2, <1>5, FillTyped
  <2>2. exch'.net = 0
    BY <1>0, <1>2, <2>1, SignOfLot DEF Filled, Sole
  <2>3. Closes' = {} /\ Entries' = {}
    BY <1>3, <2>1 DEF Filled, Closes, Entries
  <2>4. ~Closing'
    BY <1>2, <2>3 DEF Closing
  <2>5. QED BY <1>2, <2>2, <2>3, <2>4 DEF OneClose
<1>6. QED BY <1>1, <1>4, <1>5

LEMMA OneCloseMain ==
  ASSUME Known, Counting, Safe, EngineGate, OneClose, Timely', Main
  PROVE  OneClose'
<1>0. EngineTyped /\ ExchTyped /\ CountShape
  BY DEF Known, Shape
<1>a. EngineTyped => \A pc : main' = [main EXCEPT !.pc = pc] => main'.pc = pc
  BY DEF EngineTyped
<1>1. CASE CheckFlat
  <2>1. /\ main.pc # "close" /\ account.position = 0 /\ fired' = FALSE /\ main'.pc = "publish"
        /\ UNCHANGED <<exch, stream, tracked, rx, account>>
    BY <1>0, <1>1, <1>a DEF CheckFlat, NextBar, Unchecked, UncheckedBut
  <2>2. Closing' => Closing
    BY <2>1 DEF Closing, Closes
  <2>3. EngineView' = EngineView
    BY <2>1, SameEngineView
  <2>4. QED BY <2>1, <2>2, <2>3, OneCloseQuiet
<1>2. CASE CheckHeld
  <2>1. /\ main.pc # "close" /\ fired' = fired /\ main'.pc = "publish"
        /\ UNCHANGED <<exch, stream, tracked, rx, account>>
    BY <1>0, <1>2, <1>a DEF CheckHeld, NextBar, UncheckedBut
  <2>2. Closing' <=> Closing
    BY <2>1 DEF Closing, Closes
  <2>3. EngineView' = EngineView
    BY <2>1, SameEngineView
  <2>4. QED BY <2>1, <2>2, <2>3, OneCloseQuiet
<1>3. CASE CheckHit
  <2>1. Raced /\ Without({"raced"})'
    BY <1>3 DEF CheckHit, Timely, Without
  <2>2. QED BY <1>0, <1>3, <2>1, CheckedIdle, OneCloseHit
<1>4. CASE ClosePlaced
  BY <1>4, OneClosePlaced
<1>5. CASE CloseRefused
  <2>1. /\ main.pc = "close" /\ main'.pc = "publish"
        /\ UNCHANGED <<exch, stream, fired, rx>>
    BY <1>0, <1>5, <1>a DEF CloseRefused, engineVars
  <2>2. Closes = {} /\ Closes' = {} /\ Entries = {} /\ Entries' = {}
    BY <2>1 DEF OneClose, Closing, Closes, Entries
  <2>3. ~Closing'
    BY <2>1, <2>2 DEF Closing
  <2>4. ASSUME exch.net # 0 PROVE ~Without({"unfilled", "liquidated", "unanswered"})'
    <3>1. Fault({"unfilled"})
      BY <1>5, <2>4 DEF CloseRefused
    <3>2. count'.faults["unfilled"] # 0
      BY <1>0, <3>1, FaultCounting, FaultKinds
    <3>3. QED BY <3>2 DEF Without
  <2>5. QED BY <2>1, <2>2, <2>3, <2>4 DEF OneClose
<1>6. CASE Publish
  <2>1. /\ main.pc # "close" /\ main'.pc = "idle"
        /\ UNCHANGED <<exch, stream, tracked, rx, account, fired>>
    BY <1>0, <1>6, <1>a DEF Publish, engineVars
  <2>2. Closing' <=> Closing
    BY <2>1 DEF Closing, Closes
  <2>3. EngineView' = EngineView
    BY <2>1, SameEngineView
  <2>4. QED BY <2>1, <2>2, <2>3, OneCloseQuiet
<1>7. CASE MissBar
  <2>1. main.pc # "close" /\ UNCHANGED <<account, fired, tracked, rx, main, exch, stream>>
    BY <1>7 DEF MissBar, NextBar, engineVars
  <2>2. QED BY <2>1, OneCloseOfBot
<1>8. QED BY <1>1, <1>2, <1>3, <1>4, <1>5, <1>6, <1>7 DEF Main, ClosePlaced

\* An order ends: a close, and then the position went or the close ended unfilled; or an
\* entry, and then nothing was closing.
LEMMA OneCloseOrderEnds ==
  ASSUME OneClose, Counting, NEW o \in exch.working, IsOrder(o), exch'.working = exch.working \ {o},
         UNCHANGED <<fired, rx, main>>,
         o.reduceOnly => exch'.net = 0 \/ ~Without({"unfilled", "liquidated", "unanswered"})'
  PROVE  OneClose'
<1>0. KindsKept
  BY CloseKindsBefore
<1>1. CASE o.reduceOnly
  <2>1. o \in Closes /\ Entries' = Entries
    BY <1>1 DEF Closes, Entries
  <2>2. Closes' = {} /\ main.pc # "close"
    BY <2>1 DEF OneClose, Closes
  <2>3. ~Closing'
    BY <2>2 DEF Closing
  <2>4. QED BY <1>0, <1>1, <2>1, <2>2, <2>3 DEF OneClose, KindsKept
<1>2. CASE ~o.reduceOnly
  <2>1. o \in Entries
    BY <1>2 DEF Entries
  <2>2. ~Closing /\ (~fired \/ rx.pc # "idle" \/ ~Without({"unanswered"}))
    BY <2>1 DEF OneClose
  <2>3. ~Closing'
    BY <2>2 DEF Closing, Closes
  <2>4. QED BY <1>0, <2>2, <2>3, NoneClosing DEF KindsKept
<1>3. QED BY <1>1, <1>2 DEF IsOrder

LEMMA OneCloseExchange ==
  ASSUME Known, Counting, Safe, OneClose, Exchange
  PROVE  OneClose'
<1>0. ExchTyped /\ StreamTyped /\ CountShape /\ Sole
      /\ IsSeq(stream)
  BY DEF Known, Shape, Safe, StreamTyped
<1>1. CASE MarketCloses
  <2>1. UNCHANGED <<account, fired, tracked, rx, main, exch, stream, toEngine, bot, inbox>>
        /\ count'.starts = count.starts
    BY <1>1 DEF MarketCloses, engineVars, botVars
  <2>2. QED BY <2>1, OneCloseOfBot DEF OneClose, Running
<1>2. CASE Liquidate
  <2>1. /\ exch' = [net |-> 0, working |-> exch.working]
        /\ stream' = Append(stream, AccountMessage(0))
        /\ UNCHANGED <<account, fired, tracked, rx, main, toEngine, bot, inbox>>
    BY <1>0, <1>2 DEF Liquidate, ExchTyped, engineVars, botVars
  <2>2. Closes' = Closes /\ Entries' = Entries /\ exch'.net = 0
    BY <2>1 DEF Closes, Entries
  <2>3. Closing' = Closing
    BY <2>1, <2>2 DEF Closing
  <2>4. Falls(EngineView) => Falls(EngineView')
    <3>1. Told([kind |-> "hello"]) = "none"
      BY DEF Told
    <3>2. QED BY <1>0, <2>1, <2>2, <3>1, EngineViewNews
  <2>5. \A s : ~ToldUnfilled(s, stream) => ~ToldUnfilled(s, stream')
    <3>1. ~Unfilled(AccountMessage(0))
      BY DEF Unfilled, AccountMessage
    <3>2. UnfilledIn(stream') = UnfilledIn(stream)
      BY <1>0, <2>1, <3>1, UnfilledOther
    <3>3. QED BY <3>2 DEF ToldUnfilled
  <2>6. count'.starts = count.starts
    <3>1. Fault({"liquidated"})
      BY <1>2 DEF Liquidate
    <3>2. QED BY <1>0, <3>1, FaultCounting, FaultKinds
  <2>7. Running' => Running
    BY <2>1, <2>6 DEF Running
  <2>8. main.pc = "close" /\ Running' => StillHeld(bot.brain, inbox, stream', main.position)
    BY <2>5, <2>7 DEF OneClose, StillHeld
  <2>9. QED BY <2>1, <2>2, <2>3, <2>4, <2>8, CloseKindsBefore DEF OneClose, KindsKept
<1>3. ASSUME NEW o \in exch.working, Fill(o) PROVE OneClose'
  <2>1. IsOrder(o) /\ UNCHANGED <<fired, rx, main>>
    BY <1>0, <1>3 DEF Fill, ExchTyped, engineVars
  <2>2. Filled(o)
    BY <1>0, <1>3, <2>1, FillTyped DEF Fill
  <2>3. exch'.working = exch.working \ {o} /\ (o.reduceOnly => exch'.net = 0)
    BY <1>0, <2>1, <2>2, SignOfLot DEF Filled, Sole
  <2>4. QED BY <2>1, <2>3, OneCloseOrderEnds
<1>4. ASSUME NEW o \in exch.working, Expire(o) PROVE OneClose'
  <2>1. /\ IsOrder(o) /\ UNCHANGED <<fired, rx, main>>
        /\ exch' = [net |-> exch.net, working |-> exch.working \ {o}]
    BY <1>0, <1>4 DEF Expire, ExchTyped, engineVars
  <2>2. ASSUME o.reduceOnly, exch.net # 0 PROVE ~Without({"unfilled", "liquidated", "unanswered"})'
    <3>1. Fault({"unfilled"})
      BY <1>4, <2>2 DEF Expire
    <3>2. count'.faults["unfilled"] # 0
      BY <1>0, <3>1, FaultCounting, FaultKinds
    <3>3. QED BY <3>2 DEF Without
  <2>3. exch'.working = exch.working \ {o} /\ exch'.net = exch.net
    BY <2>1
  <2>4. QED BY <2>1, <2>2, <2>3, OneCloseOrderEnds
<1>5. QED BY <1>1, <1>2, <1>3, <1>4 DEF Exchange

\* The engine passes on what it hears, and loses no close from its tracked orders.
LEMMA OneCloseHears ==
  ASSUME Known, Counting, Numbered, OneClose, Deliver \/ Disconnect
  PROVE  OneClose'
<1> DEFINE m == Head(stream)
           u == [kind |-> "order_update", status |-> m.status, filled |-> m.filled,
                 reduceOnly |-> m.reduceOnly, reason |-> ""]
           p == main.position
           saw == bot.brain.saw
<1>0. /\ IsSeq(inbox) /\ IsSeq(stream) /\ StreamTyped /\ EngineTyped /\ CountShape
      /\ DOMAIN stream = 1..Len(stream)
  BY LenProperties DEF Known, Shape, Bars, StreamTyped, IsSeq
<1>1. /\ Calmer(EngineView, EngineView')
      /\ stream # <<>> /\ stream' = Tail(stream) /\ UNCHANGED <<exch, rx, main, fired>>
      /\ \/ account' = account
         \/ m.kind = "account" /\ account'.position = m.position
  BY <1>0, EngineHears
<1>2. UNCHANGED <<bot, toEngine>> /\ count'.starts = count.starts
  <2>1. Disconnect => Fault({"lost"})
    BY DEF Disconnect
  <2>2. count'.starts = count.starts
    BY <1>0, <2>1, FaultCounting, FaultKinds DEF Deliver
  <2>3. QED BY <2>2 DEF Deliver, Disconnect, botVars
<1>3. IsNews(m) /\ 1 \in DOMAIN stream /\ m = stream[1] /\ m \in Range(stream)
  <2>1. m = stream[1] /\ 1 \in DOMAIN stream
    BY <1>0, <1>1, TailElements
  <2>2. QED BY <1>0, <1>1, <2>1, HeadNews DEF Range
<1>4. Closes' = Closes /\ Entries' = Entries /\ Closing' = Closing
  BY <1>1 DEF Closes, Entries, Closing
<1>5. Without({"untracked"})' => \A o \in Closes : o.id \in tracked'
  <2>1. tracked' = tracked \/ (m.kind # "account" /\ tracked' = tracked \ {m.id})
    BY DEF Deliver, Disconnect, engineVars
  <2>2. m.kind # "account" => \A o \in exch.working : o.id # m.id
    BY <1>3 DEF Numbered, IsNews
  <2>3. QED BY <2>1, <2>2, CloseKindsBefore DEF OneClose, Closes, KindsKept
<1>6. ASSUME Closing, ~fired PROVE account'.position = 0
  <2>1. account.position = 0 /\ Falls(EngineView)
    BY <1>6 DEF OneClose
  <2>2. \A i \in DOMAIN stream : ~Position(stream[i])
    BY <1>0, <2>1, EngineReads DEF EngineView
  <2>3. QED BY <1>1, <1>3, <2>1, <2>2 DEF Position
<1>7. ASSUME main.pc = "close", Running' PROVE StillHeld(bot.brain, inbox', stream', p)
  <2>1. StillHeld(bot.brain, inbox, stream, p)
    BY <1>2, <1>7 DEF OneClose, Running
  <2>2. inbox' = inbox \/ (m.kind # "account" /\ inbox' = Append(inbox, u))
    BY DEF Deliver, Disconnect, ToBot
  <2>3. Told(u) = "none" /\ (m.kind # "account" => (Unfilled(u) => Unfilled(m)))
    BY <1>3 DEF Told, Unfilled, IsNews
  <2> HIDE DEF u, p, saw
  <2>4. Quieter(inbox, stream, inbox', stream')
    BY <1>0, <1>1, <2>2, <2>3, PassedOnNews
  <2>5. Calmer(ViewOf(saw, inbox, p, <<>>, p), ViewOf(saw, inbox', p, <<>>, p))
    <3>1. CASE inbox' = inbox
      BY <3>1 DEF Calmer
    <3>2. CASE inbox' = Append(inbox, u)
      BY <1>0, <2>3, <3>2, EmptyView, PublishedView
    <3>3. QED BY <2>2, <3>1, <3>2
  <2>6. QED BY <2>1, <2>4, <2>5 DEF StillHeld, Quieter, Calmer, saw
<1>8. KindsKept
  BY CloseKindsBefore
<1>9. Falls(EngineView) => Falls(EngineView')
  BY <1>1 DEF Calmer
<1> HIDE DEF u, saw
<1>10. QED BY <1>1, <1>2, <1>4, <1>5, <1>6, <1>7, <1>8, <1>9 DEF OneClose, KindsKept, p

LEMMA OneCloseStep ==
  ASSUME Known, Counting, Safe, Numbered, EngineGate, OneClose, Timely',
         Without({"untracked"}) \/ OwnStop, [Next]_vars
  PROVE  OneClose'
<1>0. CountShape /\ BotShape
  BY DEF Known, Shape
<1>1. CASE Bot
  BY <1>1, OneCloseBot DEF Timely
<1>2. CASE Rx
  BY <1>2, OneCloseRx
<1>3. CASE Main
  BY <1>3, OneCloseMain
<1>4. CASE Exchange
  BY <1>4, OneCloseExchange
<1>5. CASE Deliver \/ Disconnect
  BY <1>5, OneCloseHears
<1>6. CASE Subscribe \/ UNCHANGED vars
  <2>1. /\ UNCHANGED <<account, fired, tracked, rx, main, exch, stream, toEngine, inbox>>
        /\ bot'.brain = bot.brain /\ bot'.phase = bot.phase /\ count' = count
    BY <1>0, <1>6 DEF Subscribe, vars, botVars, engineVars, BotShape
  <2>2. QED BY <2>1, OneCloseOfBot DEF OneClose, Running
<1>7. CASE RestartEngine
  <2>1. PICK blind \in BOOLEAN : Fault(IF blind THEN {"engine", "blind"} ELSE {"engine"})
    BY <1>7 DEF RestartEngine
  <2>2. count'.faults["engine"] # 0
    BY <1>0, <2>1, FaultCounting, FaultKinds
  <2>3. QED BY <2>2 DEF Timely, Without
<1>8. QED BY <1>1, <1>2, <1>3, <1>4, <1>5, <1>6, <1>7 DEF Next, Stream

-----------------------------------------------------------------------------
(* Its own stop: messages that a position went.                            *)

LEMMA ZeroOther ==
  ASSUME NEW t, IsSeq(t), NEW e
  PROVE  /\ ~Zero(e) => ZeroIn(Append(t, e)) = ZeroIn(t)
         /\ ZeroIn(t) = {} => \A i, j \in ZeroIn(Append(t, e)) : i = j
<1> DEFINE r == Append(t, e)
           b == Len(t)
<1>1. /\ b \in Nat /\ DOMAIN t = 1..b /\ DOMAIN r = 1..b + 1
      /\ \A i \in 1..b : r[i] = t[i]
      /\ r[b + 1] = e
  BY AppendElements
<1> HIDE DEF r, b
<1>2. 1..b + 1 = 1..b \cup {b + 1} /\ b + 1 \notin 1..b
  BY <1>1
<1>3. \A i : i \in ZeroIn(r) <=> i \in ZeroIn(t) \/ (i = b + 1 /\ Zero(e))
  <2>1. SUFFICES ASSUME NEW i
                 PROVE  i \in ZeroIn(r) <=> i \in ZeroIn(t) \/ (i = b + 1 /\ Zero(e))
    OBVIOUS
  <2>2. CASE i \in 1..b
    <3>1. r[i] = t[i] /\ i # b + 1 /\ i \in DOMAIN r /\ i \in DOMAIN t
      BY <1>1, <1>2, <2>2
    <3>2. QED BY <3>1 DEF ZeroIn
  <2>3. CASE i = b + 1
    <3>1. r[i] = e /\ i \in DOMAIN r /\ i \notin DOMAIN t
      BY <1>1, <1>2, <2>3
    <3>2. QED BY <2>3, <3>1 DEF ZeroIn
  <2>4. CASE i \notin 1..b /\ i # b + 1
    <3>1. i \notin DOMAIN r /\ i \notin DOMAIN t
      BY <1>1, <1>2, <2>4
    <3>2. QED BY <2>4, <3>1 DEF ZeroIn
  <2>5. QED BY <2>2, <2>3, <2>4
<1>4. ~Zero(e) => ZeroIn(r) = ZeroIn(t)
  BY <1>3
<1>5. ZeroIn(t) = {} => \A i, j \in ZeroIn(r) : i = j
  BY <1>3
<1>6. QED BY <1>4, <1>5 DEF r

LEMMA ZeroTail ==
  ASSUME NEW t, IsSeq(t), t # <<>>, \A i, j \in ZeroIn(t) : i = j
  PROVE  /\ \A i, j \in ZeroIn(Tail(t)) : i = j
         /\ ZeroIn(t) = {} => ZeroIn(Tail(t)) = {}
         /\ Zero(Head(t)) => ZeroIn(t) # {} /\ ZeroIn(Tail(t)) = {}
<1> DEFINE r == Tail(t)
           b == Len(t)
<1>1. /\ b \in Nat \ {0} /\ DOMAIN t = 1..b /\ DOMAIN r = 1..b - 1
      /\ \A i \in 1..b - 1 : r[i] = t[i + 1]
      /\ Head(t) = t[1]
  BY TailElements
<1> HIDE DEF r, b
<1>2. \A i \in ZeroIn(r) : i \in Int /\ i + 1 # 1 /\ i + 1 \in ZeroIn(t)
  <2>1. \A i \in 1..b - 1 : i \in Int /\ i + 1 # 1 /\ i + 1 \in 1..b
    BY <1>1
  <2>2. QED BY <1>1, <2>1 DEF ZeroIn
<1>3. Zero(Head(t)) => 1 \in ZeroIn(t)
  BY <1>1 DEF ZeroIn
<1>4. ASSUME NEW i \in ZeroIn(r), NEW j \in ZeroIn(r) PROVE i = j
  <2>1. i + 1 = j + 1 /\ i \in Int /\ j \in Int
    BY <1>2
  <2>2. QED BY <2>1
<1>5. ZeroIn(t) = {} => ZeroIn(r) = {}
  BY <1>2
<1>6. Zero(Head(t)) => ZeroIn(t) # {} /\ ZeroIn(r) = {}
  BY <1>2, <1>3
<1>7. QED BY <1>4, <1>5, <1>6 DEF r

-----------------------------------------------------------------------------
(* Its own stop: rx and main.                                              *)

LEMMA OwnStopQuiet ==
  ASSUME OwnStop, UNCHANGED <<account, watch, fired, rx, exch, stream>>,
         main'.pc = "close" => main.pc = "close"
  PROVE  OwnStop'
<1>1. Closes' = Closes /\ Entries' = Entries /\ EngineView' = EngineView
  BY SameEngineView DEF Closes, Entries
<1>2. Closing' => Closing
  BY <1>1 DEF Closing
<1>3. Open' = Open
  BY DEF Open
<1>4. QED BY <1>1, <1>2, <1>3 DEF OwnStop, OfOrder

\* Until the stop has fired, no position goes.
LEMMA OpenHasNoZero ==
  ASSUME StreamTyped, OwnStop, Open
  PROVE  ZeroIn(stream) = {} /\ (account.position # 0 => exch.net # 0)
<1>1. ~Gone(EngineView) /\ (account.position = 0 => ZeroIn(stream) = {})
  BY DEF OwnStop
<1>2. account.position # 0 => exch.net # 0 /\ ZeroIn(stream) = {}
  BY <1>1, EngineReads DEF EngineView, StreamTyped
<1>3. QED BY <1>1, <1>2

\* While an entry is on its way or at work, no position is told.
LEMMA ComingIsFlat ==
  ASSUME StreamTyped, EngineGate, Coming
  PROVE  /\ Flat(EngineView) /\ account.position = 0 /\ exch.net = 0
         /\ \A m \in Range(stream) : m.kind = "account" => m.position = 0
<1>1. Flat(EngineView)
  BY DEF EngineGate
<1>2. account.position = 0 /\ exch.net = 0 /\ \A i \in DOMAIN stream : ~Position(stream[i])
  BY <1>1, EngineReads DEF EngineView, StreamTyped
<1>3. QED BY <1>1, <1>2 DEF Position, Range

\* An entry is filled where nothing was.
LEMMA EntryNet ==
  ASSUME NEW o, IsOrder(o), ~o.reduceOnly, exch.net = 0
  PROVE  NetAfter(o) = o.side
BY DEF IsOrder, NetAfter

\* A fill of an entry, by its own order's side.
LEMMA OwnStopOfFill ==
  ASSUME StreamTyped, OwnStop, ZeroIn(stream) = {}, ~Closing', Open', NEW o, IsOrder(o),
         ~o.reduceOnly, Filled(o), Flat(EngineView), account.position = 0, exch.net = 0,
         \A m \in Range(stream) : m.kind = "account" => m.position = 0,
         account' = account, watch' = watch, rx'.order.side = o.side, Entries' = {},
         rx'.pc = "arm" \/ (rx'.pc = "idle" /\ ~fired') => account.stop = rx'.order.stop
  PROVE  OwnStop'
<1> DEFINE m == AccountMessage(NetAfter(o))
           e == OrderMessage(o, "FILLED", o.lots)
<1>1. NetAfter(o) = o.side /\ o.side # 0
  BY EntryNet DEF IsOrder
<1>2. /\ exch'.net = NetAfter(o) /\ stream' = Append(Append(stream, m), e)
  BY DEF Filled
<1>3. ~Gone(EngineView')
  BY EngineViewFills
<1>4. /\ m.kind = "account" /\ m.position = o.side /\ e.kind # "account"
      /\ ~Zero(m) /\ ~Zero(e)
  BY <1>1 DEF AccountMessage, OrderMessage, Zero
<1> HIDE DEF m, e
<1>5. /\ IsSeq(stream) /\ IsSeq(Append(stream, m))
      /\ Range(stream') = Range(stream) \cup {m} \cup {e}
  <2>1. IsSeq(stream)
    BY DEF StreamTyped
  <2>2. IsSeq(Append(stream, m)) /\ Range(Append(stream, m)) = Range(stream) \cup {m}
    BY <2>1, AppendRange
  <2>3. Range(stream') = Range(Append(stream, m)) \cup {e}
    BY <1>2, <2>2, AppendRange
  <2>4. QED BY <2>1, <2>2, <2>3
<1>6. ZeroIn(stream') = {}
  BY <1>2, <1>4, <1>5, ZeroOther
<1>7. \A n \in Range(stream') : n.kind = "account" => n.position \in {0, o.side}
  BY <1>4, <1>5
<1>8. watch.side = 0
  BY DEF OwnStop
<1>9. QED BY <1>1, <1>2, <1>3, <1>6, <1>7, <1>8 DEF OwnStop, OfOrder

LEMMA OwnStopAccept ==
  ASSUME Known, Safe, EngineGate, OneClose, OwnStop, RxAccept
  PROVE  OwnStop'
<1> DEFINE o == Order(count.placed + 1, Head(toEngine).side, 1, FALSE)
<1>0. ExchTyped /\ StreamTyped /\ WireInv /\ IsSeq(toEngine) /\ Sole
  BY DEF Known, WireInv, Safe
<1>1. /\ toEngine # <<>> /\ tracked = {} /\ account' = account /\ watch' = watch
      /\ main' = main /\ rx' = [pc |-> "stop", order |-> Head(toEngine)]
      /\ \/ exch' = [exch EXCEPT !.working = @ \cup {o}] /\ stream' = stream
         \/ Fills(o)
  BY DEF RxAccept
<1>2. Coming /\ Entries = {} /\ exch.net = 0
  BY <1>0, <1>1 DEF Coming, Sole
<1>3. /\ Flat(EngineView) /\ account.position = 0
      /\ \A m \in Range(stream) : m.kind = "account" => m.position = 0
  BY <1>0, <1>2, ComingIsFlat
<1>4. main.pc # "close" /\ Closes = {}
  BY <1>1, <1>2 DEF OneClose, OwnStop, Closing
<1>5. IsOrder(o) /\ ~o.reduceOnly /\ o.side = Head(toEngine).side
  <2>1. Head(toEngine) = toEngine[1] /\ 1 \in DOMAIN toEngine
    BY <1>0, <1>1, TailElements
  <2>2. Head(toEngine).side \in {1, -1}
    BY <1>0, <2>1 DEF WireInv, FromSettings, Range
  <2>3. QED BY <2>2 DEF IsOrder, Order
<1> HIDE DEF o
<1>6. /\ exch'.working \subseteq exch.working \cup {o}
      /\ rx'.pc = "stop" /\ rx'.order.side = o.side
  BY <1>0, <1>1, <1>5 DEF ExchTyped, Fills
<1>7. ~Closing' /\ Open'
  BY <1>1, <1>4, <1>5, <1>6 DEF Closing, Closes, Open
<1>8. ZeroIn(stream) = {} /\ watch.side = 0
  BY <1>3 DEF OwnStop
<1>9. CASE exch' = [exch EXCEPT !.working = @ \cup {o}] /\ stream' = stream
  <2>1. exch'.net = 0
    BY <1>0, <1>2, <1>9 DEF ExchTyped
  <2>2. EngineView' = EngineView
    BY <1>1, <1>2, <1>9, <2>1 DEF EngineView
  <2>3. ~Gone(EngineView)
    BY <1>3 DEF Flat, Gone
  <2>4. \A p \in Entries' : p.side = rx'.order.side
    BY <1>2, <1>6 DEF Entries
  <2>5. QED BY <1>1, <1>3, <1>6, <1>7, <1>8, <1>9, <2>1, <2>2, <2>3, <2>4 DEF OwnStop, OfOrder
<1>10. CASE Fills(o)
  <2>1. Filled(o)
    BY <1>0, <1>5, <1>10, FillTyped
  <2>2. Entries' = {}
    BY <1>2, <2>1 DEF Filled, Entries
  <2>3. QED BY <1>0, <1>1, <1>2, <1>3, <1>5, <1>6, <1>7, <1>8, <2>1, <2>2, OwnStopOfFill
<1>11. QED BY <1>1, <1>9, <1>10

\* A stop that is armed is armed with the stop that the risk manager has.
LEMMA ArmedForOrder ==
  ASSUME Records, OwnStop, NEW w, IsStop(w), w.side = 0, account.stop = rx.order.stop,
         Armed(w).side # 0
  PROVE  /\ account.position # 0
         /\ Armed(w).side = rx.order.side /\ Armed(w).hard = rx.order.stop
<1>1. account.position # 0
  BY StopCalls
<1>2. Armed(w).side = Sign(account.position) /\ Armed(w).hard = account.stop
  BY <1>1, StopCalls
<1>3. account.position = rx.order.side /\ rx.order.side \in {-1, 0, 1}
  BY <1>1 DEF OwnStop, OfOrder, Records
<1>4. Sign(account.position) = account.position
  BY <1>3, SizeOfPosition
<1>5. QED BY <1>1, <1>2, <1>3, <1>4

LEMMA OwnStopRx ==
  ASSUME Known, Safe, Records, EngineGate, OneClose, OwnStop, Undisturbed', Rx
  PROVE  OwnStop'
<1>0. EngineTyped /\ RxShape /\ IsStop(watch) /\ CountShape
  BY DEF Known, Shape, Records, RxShape, IsStop
<1>1. CASE RxRefuse
  BY <1>1, OwnStopQuiet DEF RxRefuse, engineVars
<1>2. CASE RxAccept
  BY <1>2, OwnStopAccept
<1>3. CASE RxSetStop
  <2>1. /\ rx.pc = "stop" /\ rx' = [pc |-> "arm", order |-> rx.order]
        /\ account' = [account EXCEPT !.stop = rx.order.stop]
        /\ UNCHANGED <<watch, fired, main, exch, stream>>
    BY <1>0, <1>3 DEF RxSetStop, RxShape
  <2>2. account'.position = account.position /\ account'.stop = rx.order.stop
    BY <1>0, <2>1 DEF EngineTyped
  <2>3. Closes' = Closes /\ Entries' = Entries /\ EngineView' = EngineView
    BY <2>1, <2>2, SameEngineView DEF Closes, Entries
  <2>4. Open /\ Open' /\ (Closing' <=> Closing)
    BY <2>1, <2>3 DEF Open, Closing
  <2>5. watch.side = 0
    BY <2>1 DEF OwnStop
  <2>6. QED BY <2>1, <2>2, <2>3, <2>4, <2>5 DEF OwnStop, OfOrder
<1>4. CASE RxArm
  <2> DEFINE w == TS!Configure(watch, rx.order.indicator, rx.order.period)
  <2>1. /\ rx.pc = "arm" /\ rx' = [pc |-> "idle", order |-> rx.order]
        /\ fired' = FALSE /\ watch' = Armed(w)
        /\ UNCHANGED <<account, main, exch, stream>>
    BY <1>0, <1>4 DEF RxArm, RxShape
  <2>2. IsStop(w) /\ w.side = watch.side
    BY <1>0, StopCalls
  <2> HIDE DEF w
  <2>3. watch.side = 0 /\ account.stop = rx.order.stop
    BY <2>1 DEF OwnStop
  <2>4. watch'.side # 0 => /\ account.position # 0
                           /\ watch'.side = rx.order.side /\ watch'.hard = rx.order.stop
    BY <2>1, <2>2, <2>3, ArmedForOrder
  <2>5. Closes' = Closes /\ Entries' = Entries /\ EngineView' = EngineView
    BY <2>1, SameEngineView DEF Closes, Entries
  <2>6. Open /\ Open' /\ (Closing' <=> Closing)
    BY <2>1, <2>5 DEF Open, Closing
  <2>7. QED BY <2>1, <2>3, <2>4, <2>5, <2>6 DEF OwnStop, OfOrder
<1>5. CASE RxUnanswered
  BY <1>0, <1>5, AnswerLost DEF Undisturbed, Without
<1>6. QED BY <1>1, <1>2, <1>3, <1>4, <1>5 DEF Rx

LEMMA OwnStopFlat ==
  ASSUME Known, Records, OneClose, OwnStop, Without({"unanswered"}), CheckFlat
  PROVE  OwnStop'
<1>0. EngineTyped /\ IsStop(watch) /\ StreamTyped /\ RxShape
  BY DEF Known, Records, IsStop, RxShape
<1>1. /\ main.pc = "idle" /\ main'.pc = "publish" /\ account.position = 0
      /\ fired' = FALSE /\ watch' = TS!Reset(watch)
      /\ UNCHANGED <<account, rx, exch, stream>>
  BY <1>0 DEF CheckFlat, NextBar, Unchecked, UncheckedBut, EngineTyped
<1>2. watch'.side = 0
  BY <1>0, <1>1, StopCalls
<1>3. Closes' = Closes /\ Entries' = Entries /\ EngineView' = EngineView
  BY <1>1, SameEngineView DEF Closes, Entries
<1>4. Open' /\ (Closing' <=> Closing)
  BY <1>1, <1>3 DEF Open, Closing
<1>5. CASE Open
  <2>1. ASSUME rx.pc = "idle" PROVE ~fired
    BY <1>5, <2>1 DEF Open
  <2>2. QED BY <1>1, <1>2, <1>3, <1>4, <1>5, <2>1 DEF OwnStop, OfOrder
<1>6. CASE ~Open
  <2>1. Flat(EngineView)
    BY <1>0, <1>1, <1>6, EngineReads DEF OwnStop, EngineView, StreamTyped
  <2>2. exch.net = 0 /\ ~Gone(EngineView)
    <3>1. ~Gone(EngineView)
      BY <2>1 DEF Flat, Gone
    <3>2. QED BY <1>0, <2>1, <3>1, EngineReads DEF EngineView, StreamTyped
  <2>3. ~Closing /\ rx.pc = "idle" /\ Entries = {}
    BY <1>6, <2>2 DEF OwnStop, OneClose, Open
  <2>4. QED BY <1>1, <1>2, <1>3, <1>4, <2>2, <2>3 DEF OwnStop, OfOrder
<1>7. QED BY <1>5, <1>6

LEMMA OwnStopHeld ==
  ASSUME Known, Records, OwnStop, rx.pc = "idle", CheckHeld
  PROVE  OwnStop'
<1>0. EngineTyped /\ IsStop(watch) /\ StreamTyped
  BY DEF Known, Records, IsStop
<1>1. /\ main.pc = "idle" /\ main'.pc = "publish" /\ account.position # 0
      /\ watch' = IF fired THEN watch ELSE Armed(watch)
      /\ UNCHANGED <<account, fired, rx, exch, stream>>
  BY <1>0 DEF CheckHeld, NextBar, UncheckedBut, EngineTyped
<1>2. Closes' = Closes /\ Entries' = Entries /\ EngineView' = EngineView
  BY <1>1, SameEngineView DEF Closes, Entries
<1>3. Open' = Open /\ (Closing' <=> Closing)
  BY <1>1, <1>2 DEF Open, Closing
<1>4. watch'.side # 0 => /\ ~fired
                         /\ watch'.side = rx.order.side /\ watch'.hard = rx.order.stop
  <2>1. CASE fired \/ watch.side # 0
    <3>1. watch' = watch
      BY <1>0, <1>1, <2>1, StopCalls
    <3>2. QED BY <3>1 DEF OwnStop
  <2>2. CASE ~(fired \/ watch.side # 0)
    <3>1. watch' = Armed(watch) /\ Open
      BY <1>1, <2>2 DEF Open
    <3>2. exch.net # 0
      BY <1>0, <1>1, <3>1, OpenHasNoZero
    <3>3. account.stop = rx.order.stop
      BY <2>2, <3>2 DEF OwnStop
    <3>4. QED BY <1>0, <2>2, <3>1, <3>3, ArmedForOrder
  <2>3. QED BY <2>1, <2>2
<1>5. QED BY <1>1, <1>2, <1>3, <1>4 DEF OwnStop, OfOrder

LEMMA OwnStopHit ==
  ASSUME Known, Records, EngineGate, OwnStop, rx.pc = "idle", CheckHit
  PROVE  OwnStop'
<1>0. IsStop(watch) /\ StreamTyped
  BY DEF Known, Records, IsStop
<1>1. /\ account.position # 0 /\ ~fired /\ fired' = TRUE
      /\ watch' = TS!Reset(Armed(watch))
      /\ UNCHANGED <<account, rx, exch, stream>>
  BY DEF CheckHit, UncheckedBut
<1>2. watch'.side = 0
  BY <1>0, <1>1, StopCalls
<1>3. Entries' = Entries /\ EngineView' = EngineView
  BY <1>1, SameEngineView DEF Entries
<1>4. Open /\ ~Open' /\ rx'.pc = "idle"
  BY <1>1 DEF Open
<1>5. exch.net # 0
  BY <1>0, <1>1, <1>4, OpenHasNoZero
<1>6. Falls(EngineView)
  BY <1>0, <1>1, EngineReads DEF EngineGate, EngineView, StreamTyped
<1>7. QED BY <1>1, <1>2, <1>3, <1>4, <1>5, <1>6 DEF OwnStop, OfOrder

-----------------------------------------------------------------------------
(* Its own stop: closes, the exchange and its stream.                      *)

\* The position goes by its close: the one end of a position that is told.
LEMMA OwnStopOfClose ==
  ASSUME StreamTyped, OwnStop, OneClose, Closing, ~Closing', NEW o, NetAfter(o) = 0, Filled(o),
         UNCHANGED <<account, watch, fired, rx>>
  PROVE  OwnStop'
<1> DEFINE m == AccountMessage(0)
           e == OrderMessage(o, "FILLED", o.lots)
<1>1. exch'.net = 0 /\ stream' = Append(Append(stream, m), e) /\ Entries' \subseteq Entries
  BY DEF Filled, Entries
<1>2. /\ ~Open /\ ~Open' /\ fired /\ rx.pc = "idle" /\ Falls(EngineView) /\ exch.net # 0
  BY DEF OwnStop, OneClose, Open
<1>3. account.position # 0 /\ ZeroIn(stream) = {}
  BY <1>2, EngineReads DEF EngineView, StreamTyped
<1>4. Falls(EngineView')
  BY <1>2, EngineViewFills
<1>5. m.kind = "account" /\ m.position = 0 /\ e.kind # "account" /\ ~Zero(e)
  BY DEF AccountMessage, OrderMessage, Zero
<1> HIDE DEF m, e
<1>6. /\ IsSeq(stream) /\ IsSeq(Append(stream, m))
      /\ Range(stream') = Range(stream) \cup {m} \cup {e}
  <2>1. IsSeq(stream)
    BY DEF StreamTyped
  <2>2. IsSeq(Append(stream, m)) /\ Range(Append(stream, m)) = Range(stream) \cup {m}
    BY <2>1, AppendRange
  <2>3. Range(stream') = Range(Append(stream, m)) \cup {e}
    BY <1>1, <2>2, AppendRange
  <2>4. QED BY <2>1, <2>2, <2>3
<1>7. \A i, j \in ZeroIn(stream') : i = j
  <2>1. \A i, j \in ZeroIn(Append(stream, m)) : i = j
    BY <1>3, <1>6, ZeroOther
  <2>2. ZeroIn(stream') = ZeroIn(Append(stream, m))
    BY <1>1, <1>5, <1>6, ZeroOther
  <2>3. QED BY <2>1, <2>2
<1>8. \A n \in Range(stream') : n.kind = "account" => OfOrder(n.position)
  BY <1>5, <1>6 DEF OwnStop, OfOrder
<1>9. QED BY <1>1, <1>2, <1>3, <1>4, <1>7, <1>8 DEF OwnStop, OfOrder

LEMMA OwnStopPlaced ==
  ASSUME Known, Safe, OneClose, OwnStop, ClosePlaced
  PROVE  OwnStop'
<1> DEFINE o == CloseOrder
<1>0. ExchTyped /\ StreamTyped /\ EngineTyped /\ Sole
  BY DEF Known, Safe
<1>1. /\ main.pc = "close" /\ main' = [main EXCEPT !.pc = "publish"]
      /\ UNCHANGED <<account, watch, fired, rx>>
      /\ \/ exch' = [exch EXCEPT !.working = @ \cup {o}] /\ stream' = stream
         \/ Fills(o)
  BY DEF ClosePlaced, CloseSent, CloseUnanswered, engineVars
<1>2. main'.pc = "publish" /\ IsOrder(o) /\ o.reduceOnly
  BY <1>0, <1>1, CloseIsOrder DEF EngineTyped
<1>3. Closing /\ Closes = {}
  BY <1>1 DEF OneClose, Closing
<1> HIDE DEF o
<1>4. CASE exch' = [exch EXCEPT !.working = @ \cup {o}] /\ stream' = stream
  <2>1. exch' = [net |-> exch.net, working |-> exch.working \cup {o}]
    BY <1>0, <1>4 DEF ExchTyped
  <2>2. Entries' = Entries /\ exch'.net = exch.net
    BY <1>2, <2>1 DEF Entries
  <2>3. EngineView' = EngineView
    BY <1>1, <1>4, <2>1 DEF EngineView
  <2>4. ~Open /\ ~Open' /\ exch.net # 0
    BY <1>1, <1>3 DEF OwnStop, Open
  <2>5. QED BY <1>1, <1>4, <2>2, <2>3, <2>4 DEF OwnStop, OfOrder
<1>5. CASE Fills(o)
  <2>1. Filled(o)
    BY <1>0, <1>2, <1>5, FillTyped
  <2>2. NetAfter(o) = 0
    BY <1>0, <1>2, <2>1, SignOfLot DEF Filled, Sole
  <2>3. ~Closing'
    BY <1>2, <1>3, <2>1 DEF Filled, Closing, Closes
  <2>4. QED BY <1>0, <1>1, <1>3, <2>1, <2>2, <2>3, OwnStopOfClose
<1>6. QED BY <1>1, <1>4, <1>5

LEMMA OwnStopMain ==
  ASSUME Known, Safe, Records, EngineGate, OneClose, OwnStop, Timely',
         Without({"unanswered"}), Main
  PROVE  OwnStop'
<1>0. EngineTyped /\ CountShape
  BY DEF Known, Shape
<1>1. ASSUME Raced PROVE rx.pc = "idle"
  <2>1. Without({"raced"})'
    BY DEF Timely, Without
  <2>2. QED BY <1>0, <1>1, <2>1, CheckedIdle
<1>2. CASE CheckFlat
  BY <1>2, OwnStopFlat
<1>3. CASE CheckHeld
  BY <1>1, <1>3, OwnStopHeld DEF CheckHeld
<1>4. CASE CheckHit
  BY <1>1, <1>4, OwnStopHit DEF CheckHit
<1>5. CASE ClosePlaced
  BY <1>5, OwnStopPlaced
<1>6. CASE CloseRefused \/ Publish
  <2>1. main'.pc # "close" /\ UNCHANGED <<account, watch, fired, rx, exch, stream>>
    BY <1>0, <1>6 DEF CloseRefused, Publish, EngineTyped, engineVars
  <2>2. QED BY <2>1, OwnStopQuiet
<1>7. CASE MissBar
  BY <1>7, OwnStopQuiet DEF MissBar, engineVars
<1>8. QED BY <1>2, <1>3, <1>4, <1>5, <1>6, <1>7 DEF Main, ClosePlaced

LEMMA OwnStopFill ==
  ASSUME Known, Safe, EngineGate, OneClose, OwnStop, Without({"unanswered"}),
         NEW o \in exch.working, Fill(o)
  PROVE  OwnStop'
<1>0. ExchTyped /\ StreamTyped /\ Sole
  BY DEF Known, Safe
<1>1. IsOrder(o) /\ UNCHANGED <<account, watch, fired, rx, main>>
  BY <1>0 DEF Fill, ExchTyped, engineVars
<1>2. Filled(o)
  BY <1>0, <1>1, FillTyped DEF Fill
<1>3. exch'.working = exch.working \ {o}
  BY <1>2 DEF Filled
<1>4. CASE o.reduceOnly
  <2>1. o \in Closes /\ NetAfter(o) = 0
    BY <1>0, <1>1, <1>2, <1>4, SignOfLot DEF Filled, Sole, Closes
  <2>2. Closes' = {} /\ main.pc # "close" /\ Closing
    BY <1>3, <2>1 DEF OneClose, Closes, Closing
  <2>3. ~Closing'
    BY <1>1, <2>2 DEF Closing
  <2>4. QED BY <1>0, <1>1, <1>2, <2>1, <2>2, <2>3, OwnStopOfClose
<1>5. CASE ~o.reduceOnly
  <2>1. o \in Entries /\ \A p \in Entries : p = o
    BY <1>0, <1>5 DEF Sole, Entries
  <2>2. Coming /\ o.side = rx.order.side /\ ~Closing
    BY <2>1 DEF Coming, OwnStop, OneClose
  <2>3. /\ Flat(EngineView) /\ account.position = 0 /\ exch.net = 0
        /\ \A m \in Range(stream) : m.kind = "account" => m.position = 0
    BY <1>0, <2>2, ComingIsFlat
  <2>4. Open /\ Open'
    BY <1>1, <2>1 DEF OneClose, Open
  <2>5. ~Closing' /\ Entries' = {}
    BY <1>1, <1>3, <2>1, <2>2 DEF Closing, Closes, Entries
  <2>6. ZeroIn(stream) = {}
    BY <2>3 DEF OwnStop
  <2>7. rx.pc = "arm" \/ (rx.pc = "idle" /\ ~fired) => account.stop = rx.order.stop
    BY <2>1 DEF OwnStop
  <2>8. QED BY <1>0, <1>1, <1>2, <1>5, <2>2, <2>3, <2>4, <2>5, <2>6, <2>7, OwnStopOfFill
<1>6. QED BY <1>1, <1>4, <1>5 DEF IsOrder

LEMMA OwnStopExpire ==
  ASSUME Known, OwnStop, NEW o \in exch.working, Expire(o)
  PROVE  OwnStop'
<1> DEFINE e == OrderMessage(o, "EXPIRED", 0)
<1>0. ExchTyped /\ StreamTyped /\ IsSeq(stream)
  BY DEF Known, StreamTyped
<1>1. /\ exch' = [net |-> exch.net, working |-> exch.working \ {o}]
      /\ stream' = Append(stream, e)
      /\ UNCHANGED <<account, watch, fired, rx, main>>
  BY <1>0 DEF Expire, ExchTyped, engineVars
<1>2. Told(e) = "none" /\ ~Zero(e) /\ e.kind # "account"
  BY DEF OrderMessage, Told, Zero
<1> HIDE DEF e
<1>3. exch'.net = exch.net /\ Closes' \subseteq Closes /\ Entries' \subseteq Entries
  BY <1>1 DEF Closes, Entries
<1>4. Calmer(EngineView, EngineView')
  BY <1>0, <1>1, <1>2, <1>3, EngineViewWaits
<1>5. Range(stream') = Range(stream) \cup {e} /\ ZeroIn(stream') = ZeroIn(stream)
  BY <1>0, <1>1, <1>2, AppendRange, ZeroOther
<1>6. Open' = Open /\ (Closing' => Closing)
  BY <1>1, <1>3 DEF Open, Closing
<1>7. QED BY <1>1, <1>2, <1>3, <1>4, <1>5, <1>6 DEF OwnStop, OfOrder, Calmer

LEMMA OwnStopHears ==
  ASSUME Known, OwnStop, Deliver \/ Disconnect
  PROVE  OwnStop'
<1> DEFINE m == Head(stream)
<1>0. StreamTyped /\ EngineTyped /\ IsSeq(stream)
  BY DEF Known, StreamTyped
<1>1. /\ Calmer(EngineView, EngineView')
      /\ stream # <<>> /\ stream' = Tail(stream) /\ UNCHANGED <<exch, rx, main, fired, watch>>
      /\ \/ account' = account
         \/ /\ m.kind = "account" /\ account' = Risk!UpdatePosition(account, m.position)
            /\ account'.position = m.position
  BY <1>0, EngineHears
<1>2. IsNews(m) /\ m \in Range(stream)
  <2>1. m = stream[1] /\ 1 \in DOMAIN stream
    BY <1>0, <1>1, TailElements
  <2>2. QED BY <1>0, <1>1, <2>1, HeadNews DEF Range
<1>3. Closes' = Closes /\ Entries' = Entries /\ Closing' = Closing /\ Open' = Open
  BY <1>1 DEF Closes, Entries, Closing, Open
<1>4. Range(stream') \subseteq Range(stream)
  BY <1>0, <1>1, TailRange
<1>5. /\ \A i, j \in ZeroIn(stream') : i = j
      /\ ZeroIn(stream) = {} => ZeroIn(stream') = {}
      /\ Zero(m) => ZeroIn(stream) # {} /\ ZeroIn(stream') = {}
  BY <1>0, <1>1, ZeroTail DEF OwnStop
<1>6. OfOrder(account'.position) /\ (account'.position = 0 => ZeroIn(stream') = {})
  <2>1. CASE account' = account
    BY <1>5, <2>1 DEF OwnStop
  <2>2. CASE m.kind = "account" /\ account'.position = m.position
    BY <1>2, <1>5, <2>2 DEF OwnStop, Zero
  <2>3. QED BY <1>1, <2>1, <2>2
<1>7. ASSUME Open PROVE /\ account'.stop = account.stop
                        /\ account.position # 0 => account'.position # 0
  <2>1. CASE account' = account
    BY <2>1
  <2>2. CASE /\ m.kind = "account" /\ account' = Risk!UpdatePosition(account, m.position)
             /\ account'.position = m.position
    <3>1. m.position # 0
      BY <1>0, <1>5, <1>7, <2>2, OpenHasNoZero DEF Zero
    <3>2. account' = [account EXCEPT !.position = m.position]
      BY <2>2, <3>1 DEF Risk!UpdatePosition
    <3>3. account'.stop = account.stop
      BY <1>0, <3>2 DEF EngineTyped
    <3>4. QED BY <2>2, <3>1, <3>3
  <2>3. QED BY <1>1, <2>1, <2>2
<1>8. rx.pc = "arm" \/ ~fired => Open
  BY DEF Open
<1> HIDE DEF m
<1>9. QED BY <1>1, <1>3, <1>4, <1>5, <1>6, <1>7, <1>8 DEF OwnStop, OfOrder, Calmer

LEMMA OwnStopStep ==
  ASSUME Known, Counting, Safe, Records, EngineGate, OneClose, OwnStop, Undisturbed',
         Without({"unanswered"}), [Next]_vars
  PROVE  OwnStop'
<1>0. CountShape
  BY DEF Known, Shape
<1>1. CASE Bot
  BY <1>1, OwnStopQuiet
     DEF Bot, StartBot, FetchPage, WarmUp, WarmUpFails, HearBar, HearOrderUpdate, HearSignal,
         HearSignalRaises, BotDies, engineVars
<1>2. CASE Rx
  BY <1>2, OwnStopRx
<1>3. CASE Main
  BY <1>3, OwnStopMain DEF Undisturbed
<1>4. CASE MarketCloses \/ Subscribe \/ UNCHANGED vars
  BY <1>4, OwnStopQuiet DEF MarketCloses, Subscribe, vars, engineVars
<1>5. CASE Liquidate
  <2>1. count'.faults["liquidated"] # 0
    BY <1>0, <1>5, FaultCounting, FaultKinds DEF Liquidate
  <2>2. QED BY <2>1 DEF Undisturbed, Without
<1>6. ASSUME NEW o \in exch.working, Fill(o) \/ Expire(o) PROVE OwnStop'
  BY <1>6, OwnStopFill, OwnStopExpire
<1>7. CASE Deliver \/ Disconnect
  BY <1>7, OwnStopHears
<1>8. CASE RestartEngine
  <2>1. PICK blind \in BOOLEAN : Fault(IF blind THEN {"engine", "blind"} ELSE {"engine"})
    BY <1>8 DEF RestartEngine
  <2>2. count'.faults["engine"] # 0
    BY <1>0, <2>1, FaultCounting, FaultKinds
  <2>3. QED BY <2>2 DEF Undisturbed, Timely, Without
<1>9. QED BY <1>1, <1>2, <1>3, <1>4, <1>5, <1>6, <1>7, <1>8 DEF Next, Exchange, Stream

-----------------------------------------------------------------------------
(* The whole, and the two properties.                                      *)

LEMMA StopsInvStep ==
  ASSUME ExposureInv, StopsInv, Shape', [Next]_vars
  PROVE  StopsInv'
<1>1. Known /\ Counting
  BY KnownStep DEF ExposureInv
<1>2. Records' /\ Numbered'
  BY <1>1, RecordsStep, NumberedStep DEF StopsInv
<1>3. ASSUME OneBot' PROVE OneBot /\ Safe /\ EngineGate
  BY <1>1, <1>3, OneBotBefore DEF ExposureInv, StopsInv
<1>4. ASSUME OneBot' PROVE EngineGate'
  BY <1>1, <1>3, <1>4, EngineGateStep
<1>a. /\ Without({"engine", "raced"})' => Without({"engine", "raced"})
      /\ Without({"untracked"})' => Without({"untracked"})
      /\ Without({"liquidated", "unanswered"})' => Without({"liquidated", "unanswered"})
  <2>1. /\ {"engine", "raced"} \subseteq Faults /\ {"untracked"} \subseteq Faults
        /\ {"liquidated", "unanswered"} \subseteq Faults
    BY DEF Faults
  <2>2. QED BY <1>1, <2>1, KindsBefore
<1>5. ASSUME Timely' PROVE Timely /\ Safe /\ EngineGate /\ OneClose /\ OneClose'
  <2>1. Timely /\ Safe /\ EngineGate
    BY <1>a, <1>3, <1>5 DEF Timely
  <2>2. OneClose
    BY <2>1 DEF StopsInv
  <2>3. Without({"untracked"}) \/ OwnStop
    BY <2>1 DEF StopsInv, Timely, Undisturbed
  <2>4. QED BY <1>1, <1>5, <2>1, <2>2, <2>3, OneCloseStep DEF StopsInv
<1>6. ASSUME Undisturbed' PROVE OwnStop'
  <2>1. Safe /\ EngineGate /\ OneClose /\ Undisturbed
    BY <1>a, <1>5, <1>6 DEF Undisturbed
  <2>2. OwnStop
    BY <2>1 DEF StopsInv
  <2>3. Without({"unanswered"})
    BY <2>1 DEF Undisturbed, Without
  <2>4. QED BY <1>1, <1>6, <2>1, <2>2, <2>3, OwnStopStep DEF StopsInv
<1>7. QED BY <1>2, <1>4, <1>5, <1>6 DEF StopsInv

LEMMA StopsInitial ==
  ASSUME Init
  PROVE  StopsInv
<1>1. /\ toEngine = <<>> /\ stream = <<>> /\ fired = FALSE /\ tracked = {}
      /\ exch = [net |-> 0, working |-> {}] /\ main = [pc |-> "idle", position |-> 0]
      /\ account = [balance |-> 0, position |-> 0, stop |-> 0, entry |-> 0]
      /\ rx = [pc |-> "idle", order |-> [side |-> 0, stop |-> 0]]
      /\ watch = [side |-> 0, hard |-> 0, extreme |-> 0, indicator |-> "none",
                  period |-> 0, window |-> <<>>]
      /\ count = [starts |-> 0, placed |-> 0, faults |-> [k \in Faults |-> 0]]
  BY DEF Init, Idle, NoOrder, TS!FreshStop, Risk!OpenAccount
<1>2. /\ exch.working = {} /\ exch.net = 0 /\ account.position = 0
      /\ rx.pc = "idle" /\ rx.order.side = 0 /\ watch.side = 0 /\ main.pc = "idle"
      /\ count.placed = 0
  BY <1>1
<1>3. Range(stream) = {} /\ ZeroIn(stream) = {}
  <2>1. DOMAIN stream = {}
    BY <1>1
  <2>2. QED BY <1>1, <2>1, EmptyView DEF ZeroIn
<1>4. Entries = {} /\ Closes = {} /\ ~Closing
  BY <1>2 DEF Entries, Closes, Closing
<1>5. Flat(EngineView) /\ Settles(EngineView) /\ Falls(EngineView) /\ ~Gone(EngineView)
  <2> DEFINE v == EngineView
  <2>1. Parts(v, FALSE, <<>>, 0, <<>>, 0)
    BY <1>1, <1>2, EmptyView, ViewParts DEF EngineView, EngineViewOf
  <2> HIDE DEF v
  <2>2. DOMAIN v = -(0 + 1)..(0 + 1) /\ v[-(0 + 1)] = "none" /\ v[0] = "zero" /\ v[0 + 1] = "zero"
    BY <2>1, EmptyView DEF Parts, Saw, Word
  <2>3. \A i \in -(0 + 1)..(0 + 1) : i = -(0 + 1) \/ i = 0 \/ i = 0 + 1
    OBVIOUS
  <2>4. \A i \in DOMAIN v : v[i] # "held"
    BY <2>2, <2>3
  <2>5. QED BY <2>4 DEF Flat, Settles, Falls, Gone, v
<1>6. Records
  <2>1. count.faults["blind"] = 0
    BY <1>1 DEF Faults
  <2>2. /\ rx = [pc |-> rx.pc, order |-> rx.order]
        /\ watch = [side |-> watch.side, hard |-> watch.hard, extreme |-> watch.extreme,
                    indicator |-> watch.indicator, period |-> watch.period,
                    window |-> watch.window]
    BY <1>1
  <2>3. QED BY <1>1, <1>2, <2>1, <2>2 DEF Records
<1>7. Numbered
  BY <1>2, <1>3 DEF Numbered
<1>8. EngineGate
  BY <1>5 DEF EngineGate
<1>9. OneClose
  BY <1>1, <1>2, <1>4 DEF OneClose, Closing
<1>10. OwnStop
  BY <1>1, <1>2, <1>3, <1>4, <1>5 DEF OwnStop, OfOrder, Open
<1>11. QED BY <1>6, <1>7, <1>8, <1>9, <1>10 DEF StopsInv

LEMMA StopsAlways == Spec => [](ExposureInv /\ StopsInv)
<1>1. Init => HistoryInv /\ ExposureInv /\ StopsInv
  BY HistoryInvInitial, ExposureInitial, StopsInitial DEF HistoryInv
<1>2. HistoryInv /\ ExposureInv /\ StopsInv /\ [Next]_vars
        => (HistoryInv /\ ExposureInv /\ StopsInv)'
  <2>1. SUFFICES ASSUME HistoryInv, ExposureInv, StopsInv, [Next]_vars
                 PROVE  HistoryInv' /\ ExposureInv' /\ StopsInv'
    OBVIOUS
  <2>2. HistoryInv'
    BY <2>1, HistoryInvStep
  <2>3. Shape'
    BY <2>2 DEF HistoryInv
  <2>4. QED BY <2>1, <2>2, <2>3, ExposureStep, StopsInvStep
<1>3. QED BY <1>1, <1>2, PTL DEF Spec

\* An engine that never stopped never started without its position.
LEMMA NeverBlind ==
  ASSUME Records, Without({"engine", "raced"})
  PROVE  Without({"blind"})
BY DEF Records, Without

(***************************************************************************)
(* The stop that watches a position is the one its own order carried: a    *)
(* bar that is checked when set_stop_price() has not run is the only way,  *)
(* of one bot whose entries are answered, to another                       *)
(* (ipc_server.cpp:250-254, binance_live_executor.cpp:212-230).  News of   *)
(* the account that are late or lost, closes whose answer is lost, orders  *)
(* that are refused or expire and bots that die do not matter.             *)
(***************************************************************************)
THEOREM StopIsItsOrders == Spec => []WatchedByItsOwnStop
<1>1. ExposureInv /\ StopsInv => WatchedByItsOwnStop
  <2>1. SUFFICES ASSUME StopsInv, count.starts <= 1,
                        Without({"engine", "liquidated", "raced", "unanswered"}),
                        watch.side # 0
                 PROVE  watch.side = rx.order.side /\ watch.hard = rx.order.stop
    BY DEF WatchedByItsOwnStop
  <2>2. Without({"engine", "raced"}) /\ Without({"liquidated", "unanswered"})
    BY <2>1 DEF Without
  <2>3. Undisturbed
    BY <2>1, <2>2, NeverBlind DEF StopsInv, Undisturbed, Timely, OneBot
  <2>4. QED BY <2>1, <2>3 DEF StopsInv, OwnStop
<1>2. QED BY <1>1, StopsAlways, PTL

(***************************************************************************)
(* A stop that fired has one close at work until the position is gone,     *)
(* whatever bars come before the fill and its news: it is neither sent     *)
(* twice nor forgotten (binance_live_executor.cpp:232-279), also when its  *)
(* answer is lost or the news of its end are.                              *)
(***************************************************************************)
THEOREM FiredStopCloses == Spec => []FiredStopIsClosing
<1>1. ExposureInv /\ StopsInv => FiredStopIsClosing
  <2>1. SUFFICES ASSUME StopsInv, count.starts <= 1, Without({"engine", "raced"}),
                        Without({"untracked"}) \/ Without({"liquidated", "unanswered"})
                 PROVE  /\ Cardinality(Closes) <= 1
                        /\ fired /\ exch.net # 0 /\ main.pc # "close" /\ rx.pc = "idle"
                             /\ Without({"unfilled", "liquidated", "unanswered"})
                             => Closes # {}
    BY DEF FiredStopIsClosing, Closes
  <2>2. OneClose
    BY <2>1, NeverBlind DEF StopsInv, Timely, OneBot
  <2>3. Cardinality(Closes) <= 1
    <3>1. CASE Closes = {}
      BY <3>1, FS_EmptySet
    <3>2. CASE Closes # {}
      <4>1. PICK o \in Closes : Closes = {o}
        BY <2>2, <3>2 DEF OneClose
      <4>2. QED BY <4>1, FS_Singleton
    <3>3. QED BY <3>1, <3>2
  <2>4. ASSUME fired, exch.net # 0, main.pc # "close", rx.pc = "idle",
               Without({"unfilled", "liquidated", "unanswered"})
        PROVE  Closes # {}
    BY <2>2, <2>4 DEF OneClose, Closing
  <2>5. QED BY <2>3, <2>4
<1>2. QED BY <1>1, StopsAlways, PTL
=============================================================================
