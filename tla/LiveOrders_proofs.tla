------------------------- MODULE LiveOrders_proofs --------------------------
(***************************************************************************)
(* An order's life in the live engine, for any number of orders, lost      *)
(* answers and lost messages: what the brain is told of an end is how it   *)
(* ended, a chase never has two orders working, and it is bounded.         *)
(***************************************************************************)
EXTENDS LiveOrders, FiniteSetTheorems, SequenceTheorems, WellFoundedInduction, TLAPS

-----------------------------------------------------------------------------
(* Sums over finite sets, which the exchange's net position is.            *)

Pick(s) == CHOOSE x \in s : TRUE

\* g is the recursion that SumFunction() unfolds to, over the subsets of S.
Summing(h, S, g) ==
  g = [s \in SUBSET S |-> IF s = {} THEN 0 ELSE h[Pick(s)] + g[s \ {Pick(s)}]]

LEMMA SumUnfolds ==
  ASSUME NEW h
  PROVE  SumFunction(h) = (CHOOSE g : Summing(h, DOMAIN h, g))[DOMAIN h]
BY DEF SumFunction, SumFunctionOnSet, FoldFunctionOnSet, MapThenFoldSet, Summing, Pick

LEMMA SummingElements ==
  ASSUME NEW h, NEW S, NEW g, Summing(h, S, g), NEW s \in SUBSET S
  PROVE  g[s] = IF s = {} THEN 0 ELSE h[Pick(s)] + g[s \ {Pick(s)}]
<1> DEFINE F == [t \in SUBSET S |-> IF t = {} THEN 0 ELSE h[Pick(t)] + g[t \ {Pick(t)}]]
<1>1. g = F
  BY DEF Summing
<1>2. F[s] = IF s = {} THEN 0 ELSE h[Pick(s)] + g[s \ {Pick(s)}]
  OBVIOUS
<1> HIDE DEF F
<1>3. QED BY <1>1, <1>2

NatOrder == OpToRel(<, Nat)

LEMMA LeastNat ==
  ASSUME NEW T, T \subseteq Nat, T # {}
  PROVE  \E x \in T : \A y \in T : x <= y
<1>1. \E x \in T : \A y \in T : ~(<<y, x>> \in NatOrder)
  BY WFMin, NatLessThanWellFounded, Zenon DEF NatOrder
<1>2. PICK x \in T : \A y \in T : ~(<<y, x>> \in NatOrder)
  BY <1>1
<1>3. ASSUME NEW y \in T PROVE x <= y
  <2>1. ~(y < x)
    BY <1>2, <1>3 DEF NatOrder, OpToRel
  <2>2. QED BY <2>1, <1>3
<1>4. QED BY <1>2, <1>3

\* A part of a finite set, one smaller for each element that is taken out.
LEMMA PartOf ==
  ASSUME NEW S, IsFiniteSet(S), NEW s \in SUBSET S
  PROVE  /\ IsFiniteSet(s) /\ Cardinality(s) \in Nat
         /\ s # {} => Pick(s) \in s
         /\ \A x \in s : /\ s \ {x} \in SUBSET S
                         /\ Cardinality(s) > 0 /\ Cardinality(s \ {x}) = Cardinality(s) - 1
<1>1. IsFiniteSet(s) /\ Cardinality(s) \in Nat
  BY FS_Subset, FS_CardinalityType
<1>2. s # {} => Pick(s) \in s
  BY DEF Pick
<1>3. ASSUME NEW x \in s
      PROVE  Cardinality(s) > 0 /\ Cardinality(s \ {x}) = Cardinality(s) - 1
  <2>1. Cardinality(s) # 0
    BY <1>1, FS_EmptySet
  <2>2. Cardinality(s \ {x}) = Cardinality(s) - 1
    BY <1>1, FS_RemoveElement
  <2>3. QED BY <1>1, <2>1, <2>2
<1>4. QED BY <1>1, <1>2, <1>3

\* The recursion has a solution.
LEMMA SumExists ==
  ASSUME NEW S, IsFiniteSet(S), NEW h \in [S -> Int]
  PROVE  \E g \in [SUBSET S -> Int] : Summing(h, S, g)
<1> DEFINE Small(n) == {s \in SUBSET S : Cardinality(s) <= n}
           Step(g, s) == IF s = {} THEN 0 ELSE h[Pick(s)] + g[s \ {Pick(s)}]
           Solved(n) == \E g \in [Small(n) -> Int] : \A s \in Small(n) : g[s] = Step(g, s)
           Bad == {n \in Nat : ~Solved(n)}
<1>1. Solved(0)
  <2>1. \A s \in Small(0) : s = {}
    BY PartOf, FS_EmptySet
  <2> DEFINE g == [s \in Small(0) |-> 0]
  <2>2. g \in [Small(0) -> Int]
    OBVIOUS
  <2>3. \A s \in Small(0) : g[s] = Step(g, s)
    BY <2>1
  <2> HIDE DEF g
  <2>4. QED BY <2>2, <2>3
<1>2. ASSUME NEW n \in Nat, Solved(n) PROVE Solved(n + 1)
  <2>1. PICK g \in [Small(n) -> Int] : \A s \in Small(n) : g[s] = Step(g, s)
    BY <1>2
  <2> DEFINE f == [s \in Small(n + 1) |-> IF s \in Small(n) THEN g[s] ELSE Step(g, s)]
  <2>2. ASSUME NEW s \in Small(n + 1), s # {}
        PROVE  /\ Pick(s) \in S /\ h[Pick(s)] \in Int
               /\ s \ {Pick(s)} \in Small(n) /\ s \ {Pick(s)} \in Small(n + 1)
    <3>1. /\ Pick(s) \in s /\ s \ {Pick(s)} \in SUBSET S /\ Cardinality(s) \in Nat
          /\ Cardinality(s \ {Pick(s)}) = Cardinality(s) - 1
      BY <2>2, PartOf
    <3>2. QED BY <2>2, <3>1
  <2>3. ASSUME NEW s \in Small(n + 1)
        PROVE  Step(g, s) \in Int /\ f[s] = Step(g, s) /\ f[s] \in Int
    <3>1. Step(g, s) \in Int
      BY <2>2
    <3>2. f[s] = Step(g, s)
      <4>1. f[s] = IF s \in Small(n) THEN g[s] ELSE Step(g, s)
        OBVIOUS
      <4> HIDE DEF f, Step, Small
      <4>2. QED BY <2>1, <4>1
    <3>3. QED BY <3>1, <3>2
  <2>4. f \in [Small(n + 1) -> Int]
    <3>1. f = [s \in Small(n + 1) |-> f[s]]
      OBVIOUS
    <3> HIDE DEF f, Small, Step
    <3>2. QED BY <2>3, <3>1
  <2>5. ASSUME NEW s \in Small(n + 1) PROVE f[s] = Step(f, s)
    <3>1. CASE s = {}
      BY <2>3, <3>1
    <3>2. CASE s # {}
      <4>1. f[s \ {Pick(s)}] = g[s \ {Pick(s)}]
        <5>1. s \ {Pick(s)} \in Small(n) /\ s \ {Pick(s)} \in Small(n + 1)
          BY <2>2, <3>2
        <5>2. QED BY <5>1
      <4> HIDE DEF f, Small
      <4>2. QED BY <2>3, <3>2, <4>1
    <3>3. QED BY <3>1, <3>2
  <2> HIDE DEF f, Small, Step
  <2>6. QED BY <2>4, <2>5
<1>3. ASSUME Bad # {} PROVE FALSE
  <2>1. Bad \subseteq Nat
    OBVIOUS
  <2>2. PICK n \in Bad : \A m \in Bad : n <= m
    <3> HIDE DEF Bad
    <3>1. QED BY <1>3, <2>1, LeastNat
  <2> HIDE DEF Solved
  <2>3. n \in Nat /\ ~Solved(n) /\ n # 0
    BY <1>1, <2>2
  <2>4. n - 1 \in Nat /\ ~(n <= n - 1) /\ (n - 1) + 1 = n
    BY <2>3
  <2>5. Solved(n - 1)
    BY <2>2, <2>4
  <2>6. Solved((n - 1) + 1)
    BY <1>2, <2>4, <2>5
  <2>7. QED BY <2>3, <2>4, <2>6
<1>4. Cardinality(S) \in Nat
  BY FS_CardinalityType
<1>5. Solved(Cardinality(S))
  <2> HIDE DEF Solved
  <2>1. QED BY <1>3, <1>4
<1>6. Small(Cardinality(S)) = SUBSET S
  BY FS_Subset
<1>7. PICK g \in [SUBSET S -> Int] : \A s \in SUBSET S : g[s] = Step(g, s)
  <2> HIDE DEF Small, Step
  <2>1. QED BY <1>5, <1>6
<1>8. g = [s \in SUBSET S |-> Step(g, s)]
  <2>1. g = [s \in SUBSET S |-> g[s]]
    OBVIOUS
  <2> HIDE DEF Step
  <2>2. QED BY <1>7, <2>1
<1>9. QED BY <1>8 DEF Summing

\* Induction over the parts of a finite set, stated for the set of parts that are good.
LEMMA PartsInduction ==
  ASSUME NEW S, IsFiniteSet(S), NEW Good \in SUBSET (SUBSET S), {} \in Good,
         \A s \in SUBSET S : s # {} /\ (\A x \in s : s \ {x} \in Good) => s \in Good
  PROVE  \A s \in SUBSET S : s \in Good
<1> DEFINE Bad == {Cardinality(s) : s \in (SUBSET S) \ Good}
<1>1. SUFFICES ASSUME (SUBSET S) \ Good # {} PROVE FALSE
  OBVIOUS
<1>2. Bad \subseteq Nat /\ Bad # {}
  BY <1>1, PartOf
<1>3. PICK n \in Bad : \A m \in Bad : n <= m
  <2> HIDE DEF Bad
  <2>1. QED BY <1>2, LeastNat
<1>4. PICK s \in (SUBSET S) \ Good : Cardinality(s) = n
  BY <1>3
<1>5. s # {} /\ n \in Nat
  BY <1>4, PartOf
<1>6. ASSUME NEW x \in s PROVE s \ {x} \in Good
  <2>1. s \ {x} \in SUBSET S /\ Cardinality(s \ {x}) = n - 1
    BY <1>4, PartOf
  <2>2. n - 1 \notin Bad
    BY <1>3, <1>5
  <2>3. QED BY <2>1, <2>2
<1>7. QED BY <1>4, <1>5, <1>6

\* A solution is a number for every part.
LEMMA SumIsInt ==
  ASSUME NEW S, IsFiniteSet(S), NEW h \in [S -> Int], NEW g, Summing(h, S, g)
  PROVE  \A s \in SUBSET S : g[s] \in Int
<1> DEFINE Good == {s \in SUBSET S : g[s] \in Int}
<1>1. {} \in Good
  <2>1. g[{}] = 0
    BY SummingElements
  <2>2. QED BY <2>1
<1>2. ASSUME NEW s \in SUBSET S, s # {}, \A x \in s : s \ {x} \in Good
      PROVE  s \in Good
  <2>1. Pick(s) \in s
    BY <1>2, PartOf
  <2>2. g[s] = h[Pick(s)] + g[s \ {Pick(s)}]
    BY <1>2, SummingElements
  <2>3. g[s \ {Pick(s)}] \in Int /\ h[Pick(s)] \in Int
    BY <1>2, <2>1
  <2>4. QED BY <2>2, <2>3
<1>3. Good \in SUBSET (SUBSET S)
  OBVIOUS
<1>4. \A s \in SUBSET S : s \in Good
  <2> HIDE DEF Good
  <2>1. QED BY <1>1, <1>2, <1>3, PartsInduction
<1>5. QED BY <1>4

\* Any element of a part may be taken out first.
LEMMA SumTakesOut ==
  ASSUME NEW S, IsFiniteSet(S), NEW h \in [S -> Int], NEW g, Summing(h, S, g)
  PROVE  \A s \in SUBSET S : \A x \in s : g[s] = h[x] + g[s \ {x}]
<1> DEFINE Good == {s \in SUBSET S : \A x \in s : g[s] = h[x] + g[s \ {x}]}
<1>0. \A s \in SUBSET S : g[s] \in Int
  BY SumIsInt
<1>1. {} \in Good
  OBVIOUS
<1>2. ASSUME NEW s \in SUBSET S, s # {}, \A x \in s : s \ {x} \in Good
      PROVE  s \in Good
  <2>1. PICK p \in s : g[s] = h[p] + g[s \ {p}]
    <3>1. Pick(s) \in s
      BY <1>2, PartOf
    <3>2. QED BY <1>2, <3>1, SummingElements
  <2>2. ASSUME NEW x \in s, x # p PROVE g[s] = h[x] + g[s \ {x}]
    <3> DEFINE rest == g[s \ {x, p}]
    <3>1. /\ x \in s \ {p} /\ p \in s \ {x}
          /\ (s \ {p}) \ {x} = s \ {x, p} /\ (s \ {x}) \ {p} = s \ {x, p}
      BY <2>2
    <3>2. g[s \ {p}] = h[x] + rest /\ g[s \ {x}] = h[p] + rest
      BY <1>2, <3>1
    <3>3. rest \in Int /\ h[x] \in Int /\ h[p] \in Int
      BY <1>0
    <3> HIDE DEF rest
    <3>4. QED BY <2>1, <3>2, <3>3
  <2>3. QED BY <2>1, <2>2
<1>3. Good \in SUBSET (SUBSET S)
  OBVIOUS
<1>4. \A s \in SUBSET S : s \in Good
  <2> HIDE DEF Good
  <2>1. QED BY <1>1, <1>2, <1>3, PartsInduction
<1>5. QED BY <1>4

\* Two sums agree on a part where their terms do.
LEMMA SumAgrees ==
  ASSUME NEW S, NEW T, NEW U, IsFiniteSet(U), U \subseteq S, U \subseteq T,
         NEW h, NEW k, \A x \in U : h[x] = k[x],
         NEW f, NEW g, Summing(h, S, f), Summing(k, T, g)
  PROVE  f[U] = g[U]
<1> DEFINE Good == {s \in SUBSET U : f[s] = g[s]}
<1>1. {} \in Good
  BY SummingElements
<1>2. ASSUME NEW s \in SUBSET U, s # {}, \A x \in s : s \ {x} \in Good
      PROVE  s \in Good
  <2>1. Pick(s) \in s /\ s \in SUBSET S /\ s \in SUBSET T
    BY <1>2 DEF Pick
  <2>2. f[s] = h[Pick(s)] + f[s \ {Pick(s)}] /\ g[s] = k[Pick(s)] + g[s \ {Pick(s)}]
    BY <1>2, <2>1, SummingElements
  <2>3. QED BY <1>2, <2>1, <2>2
<1>3. Good \in SUBSET (SUBSET U)
  OBVIOUS
<1>4. \A s \in SUBSET U : s \in Good
  <2> HIDE DEF Good
  <2>1. QED BY <1>1, <1>2, <1>3, PartsInduction
<1>5. QED BY <1>4

\* Terms of at most b each sum up to at most b times their number.
LEMMA SumBounded ==
  ASSUME NEW S, IsFiniteSet(S), NEW h \in [S -> Int], NEW b \in Nat, \A x \in S : h[x] <= b,
         NEW g, Summing(h, S, g)
  PROVE  g[S] <= b * Cardinality(S)
<1> DEFINE Good == {s \in SUBSET S : g[s] <= b * Cardinality(s)}
<1>1. {} \in Good
  BY SummingElements, FS_EmptySet
<1>2. ASSUME NEW s \in SUBSET S, s # {}, \A x \in s : s \ {x} \in Good
      PROVE  s \in Good
  <2> DEFINE p == Pick(s)
             n == Cardinality(s)
  <2>1. /\ p \in s /\ n \in Nat /\ n > 0
        /\ s \ {p} \in SUBSET S /\ Cardinality(s \ {p}) = n - 1
    BY <1>2, PartOf
  <2>2. g[s] = h[p] + g[s \ {p}] /\ g[s \ {p}] \in Int /\ h[p] \in Int /\ h[p] <= b
    <3>1. g[s] = h[p] + g[s \ {p}]
      BY <2>1, SumTakesOut
    <3>2. g[s \ {p}] \in Int
      BY <2>1, SumIsInt
    <3>3. QED BY <2>1, <3>1, <3>2
  <2>3. g[s \ {p}] <= b * (n - 1)
    BY <1>2, <2>1
  <2> HIDE DEF p, n
  <2>4. b * (n - 1) + b = b * n /\ b * n \in Int /\ b * (n - 1) \in Int
    BY <2>1
  <2>5. g[s] <= b * n
    BY <2>2, <2>3, <2>4
  <2>6. QED BY <2>5 DEF n
<1>3. Good \in SUBSET (SUBSET S)
  OBVIOUS
<1>4. \A s \in SUBSET S : s \in Good
  <2> HIDE DEF Good
  <2>1. QED BY <1>1, <1>2, <1>3, PartsInduction
<1>5. QED BY <1>4

(***************************************************************************)
(* The sum of a function's values: a number, one that a new term adds to,  *)
(* that a changed term changes by the difference, and that is at most the  *)
(* bound of the terms times their number.                                  *)
(***************************************************************************)
LEMMA SumOf ==
  ASSUME NEW S, IsFiniteSet(S), NEW h \in [S -> Int]
  PROVE  \E g : /\ Summing(h, S, g) /\ SumFunction(h) = g[S]
                /\ \A s \in SUBSET S : g[s] \in Int
                /\ \A x \in S : g[S] = h[x] + g[S \ {x}]
<1> DEFINE g == CHOOSE f : Summing(h, S, f)
<1>1. Summing(h, S, g)
  BY SumExists
<1>2. DOMAIN h = S /\ SumFunction(h) = g[S]
  BY SumUnfolds
<1> HIDE DEF g
<1>3. \A s \in SUBSET S : g[s] \in Int
  BY <1>1, SumIsInt
<1>4. \A x \in S : g[S] = h[x] + g[S \ {x}]
  <2>1. S \in SUBSET S
    OBVIOUS
  <2>2. QED BY <1>1, <2>1, SumTakesOut
<1>5. QED BY <1>1, <1>2, <1>3, <1>4

LEMMA SumChanged ==
  ASSUME NEW S, IsFiniteSet(S), NEW h \in [S -> Int], NEW k \in [S -> Int],
         NEW c \in S, \A x \in S \ {c} : h[x] = k[x]
  PROVE  SumFunction(k) = SumFunction(h) + (k[c] - h[c]) /\ SumFunction(h) \in Int
<1>1. PICK f : /\ Summing(h, S, f) /\ SumFunction(h) = f[S] /\ f[S \ {c}] \in Int
               /\ f[S] = h[c] + f[S \ {c}] /\ f[S] \in Int
  <2>1. S \in SUBSET S /\ S \ {c} \in SUBSET S
    OBVIOUS
  <2>2. QED BY <2>1, SumOf
<1>2. PICK g : Summing(k, S, g) /\ SumFunction(k) = g[S] /\ g[S] = k[c] + g[S \ {c}]
  BY SumOf
<1>3. f[S \ {c}] = g[S \ {c}]
  BY <1>1, <1>2, SumAgrees, FS_RemoveElement
<1>4. h[c] \in Int /\ k[c] \in Int
  OBVIOUS
<1>5. QED BY <1>1, <1>2, <1>3, <1>4

LEMMA SumExtended ==
  ASSUME NEW S, IsFiniteSet(S), NEW h \in [S -> Int], NEW c, c \notin S,
         NEW k \in [S \cup {c} -> Int], \A x \in S : h[x] = k[x]
  PROVE  SumFunction(k) = SumFunction(h) + k[c] /\ SumFunction(h) \in Int
<1> DEFINE T == S \cup {c}
<1>1. IsFiniteSet(T) /\ T \ {c} = S /\ c \in T /\ S \in SUBSET T
  BY FS_AddElement
<1>2. PICK f : Summing(h, S, f) /\ SumFunction(h) = f[S] /\ f[S] \in Int
  <2>1. S \in SUBSET S
    OBVIOUS
  <2>2. QED BY <2>1, SumOf
<1>3. PICK g : Summing(k, T, g) /\ SumFunction(k) = g[T] /\ g[T] = k[c] + g[T \ {c}]
  BY <1>1, SumOf
<1>4. f[S] = g[S]
  BY <1>1, <1>2, <1>3, SumAgrees
<1>5. k[c] \in Int
  BY <1>1
<1>6. SumFunction(k) = k[c] + f[S]
  BY <1>1, <1>3, <1>4
<1>7. QED BY <1>2, <1>5, <1>6

LEMMA SumAtMost ==
  ASSUME NEW S, IsFiniteSet(S), NEW h \in [S -> Int], NEW b \in Nat, \A x \in S : h[x] <= b
  PROVE  SumFunction(h) \in Int /\ SumFunction(h) <= b * Cardinality(S)
<1>1. PICK g : Summing(h, S, g) /\ SumFunction(h) = g[S] /\ g[S] \in Int
  <2>1. S \in SUBSET S
    OBVIOUS
  <2>2. QED BY <2>1, SumOf
<1>2. g[S] <= b * Cardinality(S)
  BY <1>1, SumBounded
<1>3. QED BY <1>1, <1>2

-----------------------------------------------------------------------------
(* The invariant.                                                          *)

Statuses == OpenStatus \cup TerminalStatus

ExchangeOrder == [quantity : Nat, reduceOnly : BOOLEAN, filled : Nat, status : Statuses,
                  exec : ExecutionSpec, root : Nat]
OrderRequest == [quantity : Nat, reduceOnly : BOOLEAN, exec : ExecutionSpec,
                 attempts : Nat, root : Nat]
PendingCall == [req : OrderRequest, cid : Nat, status : {"NEW", "FILLED"}]
Reasons == {"", "timeout_market", "timeout_reprice", "timeout_abandoned"}
Queued == [cid : Nat, status : TerminalStatus, filled : Nat, reason : Reasons,
           reduceOnly : BOOLEAN]

\* An entry is never larger than the engine's sizing, whoever places it, and a close
\* never larger than what all orders together could hold.
Sound(order) == order.quantity <= IF order.reduceOnly THEN Lots * MaxOrders ELSE Lots

ExchangeTyped ==
  /\ exch \in Seq(ExchangeOrder) /\ Len(exch) <= MaxOrders
  /\ \A c \in DOMAIN exch :
       exch[c].filled <= exch[c].quantity /\ Sound(exch[c]) /\ exch[c].root \in 1..Len(exch)
  /\ Net \in Nat

\* What the engine remembers of an order, in the tracker or in the monitor's copy.
Matches(order, c) ==
  /\ order \in Tracked /\ order.filled <= order.quantity
  /\ order.quantity = exch[c].quantity /\ order.reduceOnly = exch[c].reduceOnly
  /\ order.exec = exch[c].exec

TrackerTyped ==
  /\ DOMAIN orders \subseteq DOMAIN exch
  /\ orders = [c \in DOMAIN orders |-> orders[c]]
  /\ \A c \in DOMAIN orders : Matches(orders[c], c)
  /\ DOMAIN batch \subseteq DOMAIN orders
  /\ batch = [c \in DOMAIN batch |-> batch[c]]
  /\ \A c \in DOMAIN batch : Matches(batch[c], c) /\ batch[c].attempts = orders[c].attempts

Labels == {"idle", "flat", "post", "register", "arm", "publish",
           "query", "cancel", "sync", "mark", "report"}
LabelsOf(t) == CASE t = "rx" -> {"idle", "flat", "post", "register", "arm"}
                 [] t = "main" -> {"idle", "post", "register", "publish"}
                 [] t = "mon" -> Labels \ {"flat", "arm", "publish"}

\* What thread t may rely on at a label, for the order it has in hand there: one it will
\* send, has placed, or is through with as far as the exchange goes.
Ready(t, label, k) ==
  /\ label \in LabelsOf(t) /\ Sound(k.req)
  /\ t # "mon" => k.req.root = 0 /\ k.req.attempts = 0
  /\ t = "mon" /\ label = "post" => k.req.root \in DOMAIN exch
  /\ label = "register" => /\ k.cid \in DOMAIN exch
                           /\ exch[k.cid].quantity = k.req.quantity
                           /\ exch[k.cid].reduceOnly = k.req.reduceOnly
                           /\ exch[k.cid].exec = k.req.exec
                           /\ k.status = "FILLED" => exch[k.cid].status = "FILLED"
  /\ label \in {"cancel", "sync", "mark", "report"} => k.cid \in DOMAIN batch
  /\ label \in {"mark", "report"} => exch[k.cid].status = "CANCELED"

CallsTyped ==
  /\ pc \in [Threads -> Labels] /\ call \in [Threads -> PendingCall]
  /\ \A t \in Threads : Ready(t, pc[t], call[t])

RestTyped ==
  /\ position \in 0..(Lots * MaxOrders) /\ fired \in BOOLEAN
  /\ toEngine \in Seq(EntrySpecs) /\ brain \in Brain

\* What the stream tells of an order's end, and what the brain is told of it.
Told(m) ==
  m.kind = "order" => /\ m.cid \in DOMAIN exch /\ m.filled <= exch[m.cid].quantity
                      /\ m.status \in TerminalStatus => m.status = exch[m.cid].status
Reported(u) ==
  u.cid \in DOMAIN exch /\ u.status \in TerminalStatus /\ u.status = exch[u.cid].status

TrueMessages == {m \in Messages : Told(m)}
TrueReports == {u \in Queued : Reported(u)}

Ends ==
  /\ stream \in Seq(TrueMessages) /\ queue \in Seq(TrueReports)

\* A later order of the chain has been accepted; or is on its way.
Succeeded(c) == \E d \in DOMAIN exch : c < d /\ exch[d].root = exch[c].root
Followed(c) == Succeeded(c) \/ (pc["mon"] = "post" /\ call["mon"].req.root = exch[c].root)

Chased ==
  /\ \A c \in DOMAIN exch : Followed(c) =>
       c \in DOMAIN orders /\ orders[c].reported /\ ~Live(c) /\ c \notin DOMAIN batch
  /\ \A t \in Threads : pc[t] = "register" => call[t].cid \notin DOMAIN orders
  /\ \A t, u \in Threads : pc[t] = "register" /\ pc[u] = "register" /\ t # u =>
       call[t].cid # call[u].cid
  /\ pc["mon"] = "report" => orders[call["mon"].cid].reported

\* How many orders may still follow one with this spec, chased attempts times so far.
Further(exec, attempts) ==
  IF exec.policy = "MARKET" THEN 1
  ELSE IF exec.policy = "REPRICE" /\ attempts < exec.max THEN exec.max - attempts ELSE 0

Within(root, coming, exec, attempts) ==
  Cardinality(Chain(root)) + coming + Further(exec, attempts) <= 1 + Further(exch[root].exec, 0)

Budgeted ==
  /\ \A r \in DOMAIN exch : Cardinality(Chain(r)) <= 1 + Further(exch[r].exec, 0)
  /\ \A c \in DOMAIN orders :
       ~Succeeded(c) => Within(exch[c].root, 0, orders[c].exec, orders[c].attempts)
  /\ \A t \in Threads : pc[t] = "register" =>
       Within(exch[call[t].cid].root, 0, call[t].req.exec, call[t].req.attempts)
  /\ pc["mon"] = "post" =>
       Within(call["mon"].req.root, 1, call["mon"].req.exec, call["mon"].req.attempts)

OrdersInv ==
  ExchangeTyped /\ TrackerTyped /\ CallsTyped /\ RestTyped /\ Ends /\ Chased /\ Budgeted

LEMMA MarketSpecType == MarketSpec \in ExecutionSpec
BY DEF MarketSpec, ExecutionSpec, Policies

LEMMA NoCallType ==
  /\ NoRequest \in OrderRequest /\ Sound(NoRequest) /\ NoCall \in PendingCall
  /\ NoCall.req = NoRequest /\ NoRequest.root = 0 /\ NoRequest.attempts = 0
<1>1. NoRequest \in OrderRequest
  BY MarketSpecType DEF NoRequest, Request, OrderRequest
<1>2. Sound(NoRequest)
  <2>1. 0 <= Lots
    BY SpecAssumption
  <2>2. QED BY <2>1 DEF NoRequest, Request, Sound
<1>3. NoCall \in PendingCall /\ NoCall.req = NoRequest
  BY <1>1 DEF NoCall, PendingCall
<1>4. NoRequest.root = 0 /\ NoRequest.attempts = 0
  BY DEF NoRequest, Request
<1>5. QED BY <1>1, <1>2, <1>3, <1>4

LEMMA InvariantInitially == Init => OrdersInv
<1> SUFFICES ASSUME Init PROVE OrdersInv
  OBVIOUS
<1> USE DEF Init
<1>0. /\ exch = <<>> /\ DOMAIN exch = {} /\ Len(exch) = 0 /\ DOMAIN orders = {}
      /\ DOMAIN batch = {} /\ DOMAIN stream = {} /\ DOMAIN queue = {}
      /\ Lots \in Nat /\ MaxOrders \in Nat /\ Lots * MaxOrders \in Nat
  BY SpecAssumption, BoundAssumption
<1>1. ExchangeTyped
  <2>1. Net = 0
    <3> DEFINE h == [c \in DOMAIN exch |-> IF exch[c].reduceOnly THEN -exch[c].filled
                                                               ELSE exch[c].filled]
    <3>1. h \in [{} -> Int] /\ IsFiniteSet({})
      BY <1>0, FS_EmptySet
    <3>2. PICK g : Summing(h, {}, g) /\ SumFunction(h) = g[{}]
      BY <3>1, SumOf
    <3>3. g[{}] = 0
      BY <3>2, SummingElements
    <3>4. QED BY <3>2, <3>3 DEF Net
  <2>2. QED BY <1>0, <2>1 DEF ExchangeTyped
<1>2. TrackerTyped
  BY <1>0 DEF TrackerTyped
<1>3. CallsTyped
  <2>1. \A t \in Threads : pc[t] = "idle" /\ call[t] = NoCall
    OBVIOUS
  <2>2. pc \in [Threads -> Labels] /\ call \in [Threads -> PendingCall]
    BY NoCallType DEF Labels
  <2>3. ASSUME NEW t \in Threads PROVE Ready(t, "idle", NoCall)
    <3>1. "idle" \in LabelsOf(t)
      BY DEF Threads, LabelsOf, Labels
    <3>2. QED BY <3>1, NoCallType DEF Ready
  <2> HIDE DEF Init
  <2>4. QED BY <2>1, <2>2, <2>3 DEF CallsTyped
<1>4. RestTyped
  <2>1. brain \in Brain /\ fired \in BOOLEAN
    BY DEF Brain, FreshBrain
  <2>2. QED BY <1>0, <2>1 DEF RestTyped
<1>5. Ends
  BY <1>0 DEF Ends, Threads
<1>6. Chased
  BY <1>0 DEF Chased, Threads
<1>7. Budgeted
  BY <1>0 DEF Budgeted, Threads
<1>8. QED BY <1>1, <1>2, <1>3, <1>4, <1>5, <1>6, <1>7 DEF OrdersInv

-----------------------------------------------------------------------------
(* The net position when an order is changed or added.                     *)

Signed(order) == IF order.reduceOnly THEN -order.filled ELSE order.filled
NetOf(s) == SumFunction([c \in DOMAIN s |-> Signed(s[c])])

LEMMA NetIsNetOf == Net = NetOf(exch) /\ Net' = NetOf(exch')
BY DEF Net, NetOf, Signed

LEMMA SignedOf ==
  ASSUME NEW s \in Seq(ExchangeOrder)
  PROVE  /\ [c \in DOMAIN s |-> Signed(s[c])] \in [DOMAIN s -> Int]
         /\ Len(s) \in Nat /\ DOMAIN s = 1..Len(s)
         /\ IsFiniteSet(DOMAIN s) /\ Cardinality(DOMAIN s) = Len(s)
<1>1. Len(s) \in Nat /\ DOMAIN s = 1..Len(s)
  BY LenProperties
<1>2. IsFiniteSet(1..Len(s)) /\ Cardinality(1..Len(s)) = Len(s)
  <2>1. ASSUME NEW n \in Nat
        PROVE  IsFiniteSet(1..n) /\ Cardinality(1..n) = n
    <3>1. 1 \in Int /\ n \in Int
      OBVIOUS
    <3>2. IsFiniteSet(1..n) /\ Cardinality(1..n) = IF 1 > n THEN 0 ELSE n - 1 + 1
      BY <3>1, FS_Interval
    <3>3. QED BY <3>2
  <2>2. QED BY <1>1, <2>1
<1>3. ASSUME NEW order \in ExchangeOrder PROVE Signed(order) \in Int
  BY DEF Signed, ExchangeOrder
<1>4. \A c \in DOMAIN s : s[c] \in ExchangeOrder
  BY <1>1, ElementOfSeq
<1>5. QED BY <1>1, <1>2, <1>3, <1>4

LEMMA NetOfChanged ==
  ASSUME NEW s \in Seq(ExchangeOrder), NEW c \in DOMAIN s, NEW order \in ExchangeOrder
  PROVE  /\ NetOf([s EXCEPT ![c] = order]) = NetOf(s) + (Signed(order) - Signed(s[c]))
         /\ NetOf(s) \in Int
<1> DEFINE t == [s EXCEPT ![c] = order]
           h == [d \in DOMAIN s |-> Signed(s[d])]
           k == [d \in DOMAIN t |-> Signed(t[d])]
<1>1. t \in Seq(ExchangeOrder) /\ DOMAIN t = DOMAIN s /\ t[c] = order
  BY LenProperties, ExceptSeq
<1>2. h \in [DOMAIN s -> Int] /\ IsFiniteSet(DOMAIN s) /\ k \in [DOMAIN s -> Int]
  <2> HIDE DEF t
  <2>1. QED BY <1>1, SignedOf
<1>3. \A d \in DOMAIN s \ {c} : h[d] = k[d]
  OBVIOUS
<1>4. h[c] = Signed(s[c]) /\ k[c] = Signed(order)
  <2> HIDE DEF t
  <2>1. QED BY <1>1
<1> HIDE DEF h, k
<1>5. SumFunction(k) = SumFunction(h) + (k[c] - h[c]) /\ SumFunction(h) \in Int
  BY <1>2, <1>3, SumChanged
<1>6. QED BY <1>4, <1>5 DEF NetOf, h, k

LEMMA NetOfAppended ==
  ASSUME NEW s \in Seq(ExchangeOrder), NEW order \in ExchangeOrder
  PROVE  NetOf(Append(s, order)) = NetOf(s) + Signed(order) /\ NetOf(s) \in Int
<1> DEFINE t == Append(s, order)
           c == Len(s) + 1
           h == [d \in DOMAIN s |-> Signed(s[d])]
           k == [d \in DOMAIN t |-> Signed(t[d])]
<1>1. /\ t \in Seq(ExchangeOrder) /\ DOMAIN t = DOMAIN s \cup {c} /\ c \notin DOMAIN s
      /\ t[c] = order /\ \A d \in DOMAIN s : t[d] = s[d]
  BY LenProperties, AppendProperties
<1> HIDE DEF t, c
<1>2. h \in [DOMAIN s -> Int] /\ IsFiniteSet(DOMAIN s) /\ k \in [DOMAIN s \cup {c} -> Int]
  BY <1>1, SignedOf
<1>3. \A d \in DOMAIN s : h[d] = k[d]
  BY <1>1
<1>4. k[c] = Signed(order) /\ SumFunction(k) = NetOf(t) /\ SumFunction(h) = NetOf(s)
  BY <1>1 DEF NetOf
<1> HIDE DEF h, k
<1>5. SumFunction(k) = SumFunction(h) + k[c] /\ SumFunction(h) \in Int
  <2> DEFINE D == DOMAIN s
  <2>1. /\ h \in [D -> Int] /\ IsFiniteSet(D) /\ k \in [D \cup {c} -> Int] /\ c \notin D
        /\ \A d \in D : h[d] = k[d]
    BY <1>1, <1>2, <1>3
  <2> HIDE DEF D
  <2>2. QED BY <2>1, SumExtended
<1>6. QED BY <1>4, <1>5 DEF t

LEMMA NetOfAtMost ==
  ASSUME NEW s \in Seq(ExchangeOrder), Len(s) <= MaxOrders,
         \A c \in DOMAIN s : s[c].filled <= s[c].quantity /\ Sound(s[c])
  PROVE  NetOf(s) \in Int /\ NetOf(s) <= Lots * MaxOrders
<1> DEFINE h == [c \in DOMAIN s |-> Signed(s[c])]
<1>1. /\ h \in [DOMAIN s -> Int] /\ Len(s) \in Nat /\ DOMAIN s = 1..Len(s)
      /\ IsFiniteSet(DOMAIN s) /\ Cardinality(DOMAIN s) = Len(s)
  BY SignedOf
<1>2. Lots \in Nat /\ MaxOrders \in Nat
  BY SpecAssumption, BoundAssumption
<1>3. ASSUME NEW c \in DOMAIN s PROVE h[c] <= Lots
  <2>1. /\ s[c].filled \in Nat /\ s[c].quantity \in Nat /\ s[c].reduceOnly \in BOOLEAN
        /\ s[c].filled <= s[c].quantity
    <3>1. s[c] \in ExchangeOrder
      BY <1>1, <1>3, ElementOfSeq
    <3>2. QED BY <1>3, <3>1 DEF ExchangeOrder
  <2>2. CASE s[c].reduceOnly
    BY <1>2, <2>1, <2>2 DEF Signed
  <2>3. CASE ~s[c].reduceOnly
    <3>1. s[c].quantity <= Lots
      BY <1>3, <2>3 DEF Sound
    <3>2. QED BY <1>2, <2>1, <2>3, <3>1 DEF Signed
  <2>4. QED BY <2>2, <2>3
<1>4. SumFunction(h) = NetOf(s)
  BY DEF NetOf
<1> HIDE DEF h
<1>5. SumFunction(h) \in Int /\ SumFunction(h) <= Lots * Cardinality(DOMAIN s)
  BY <1>1, <1>2, <1>3, SumAtMost
<1>6. Lots * Len(s) <= Lots * MaxOrders /\ Lots * Len(s) \in Nat /\ Lots * MaxOrders \in Nat
  <2>1. PICK n \in Nat : MaxOrders = Len(s) + n
    <3>1. MaxOrders - Len(s) \in Nat /\ MaxOrders = Len(s) + (MaxOrders - Len(s))
      BY <1>1, <1>2
    <3>2. QED BY <3>1
  <2>2. Lots * (Len(s) + n) = Lots * Len(s) + Lots * n /\ Lots * n \in Nat
    BY <1>1, <1>2
  <2>3. Lots * Len(s) \in Nat /\ Lots * MaxOrders \in Nat
    BY <1>1, <1>2
  <2>4. QED BY <2>1, <2>2, <2>3
<1>7. QED BY <1>1, <1>4, <1>5, <1>6

-----------------------------------------------------------------------------
(* Steps of the exchange.                                                  *)

\* No order of the exchange is forgotten, changed in its terms, or revived.
Kept ==
  /\ exch' \in Seq(ExchangeOrder) /\ Len(exch) <= Len(exch')
  /\ \A c \in DOMAIN exch :
       /\ c \in DOMAIN exch'
       /\ exch'[c].quantity = exch[c].quantity /\ exch'[c].reduceOnly = exch[c].reduceOnly
       /\ exch'[c].exec = exch[c].exec /\ exch'[c].root = exch[c].root
       /\ ~Live(c) => exch'[c].status = exch[c].status

LEMMA NotOpenIsTerminal ==
  /\ \A s \in Statuses : s \in OpenStatus <=> s \notin TerminalStatus
  /\ OpenStatus \subseteq Statuses /\ TerminalStatus \subseteq Statuses
BY DEF Statuses, OpenStatus, TerminalStatus

LEMMA StillMatches ==
  ASSUME Kept, NEW c \in DOMAIN exch, NEW order, Matches(order, c)
  PROVE  Matches(order, c)'
BY DEF Kept, Matches

LEMMA StillTold ==
  ASSUME Kept, Ends
  PROVE  stream \in Seq(TrueMessages') /\ queue \in Seq(TrueReports')
<1>1. \A c \in DOMAIN exch : exch[c].status \in TerminalStatus =>
        exch'[c].status = exch[c].status
  BY NotOpenIsTerminal DEF Kept, Live
<1>2. TrueMessages \subseteq TrueMessages'
  BY <1>1 DEF TrueMessages, Told, Kept
<1>3. TrueReports \subseteq TrueReports'
  BY <1>1 DEF TrueReports, Reported, Kept
<1>4. QED BY <1>2, <1>3, SeqMonotonic DEF Ends

LEMMA OrderType ==
  ASSUME ExchangeTyped, NEW c \in DOMAIN exch
  PROVE  /\ c \in Nat /\ exch[c] \in ExchangeOrder /\ exch[c].status \in Statuses
         /\ exch[c].quantity \in Nat /\ exch[c].root \in DOMAIN exch
         /\ exch[c].exec \in ExecutionSpec
<1>1. exch[c] \in ExchangeOrder /\ c \in Nat /\ exch[c].root \in DOMAIN exch
  BY LenProperties, ElementOfSeq DEF ExchangeTyped
<1>2. QED BY <1>1 DEF ExchangeOrder

LEMMA ExchangeUnchanged ==
  ASSUME ExchangeTyped, exch' = exch
  PROVE  Kept /\ ExchangeTyped' /\ Len(exch') = Len(exch)
<1>1. Net' = Net /\ Len(exch) \in Nat
  BY NetIsNetOf, LenProperties DEF ExchangeTyped
<1>2. QED BY <1>1 DEF Kept, ExchangeTyped, Sound

LEMMA WithFillType ==
  ASSUME NEW order \in ExchangeOrder, NEW lots \in Nat, order.filled + lots <= order.quantity
  PROVE  LET filled == WithFill(order, lots)
         IN  /\ filled \in ExchangeOrder
             /\ filled.quantity = order.quantity /\ filled.reduceOnly = order.reduceOnly
             /\ filled.exec = order.exec /\ filled.root = order.root
             /\ filled.filled = order.filled + lots
             /\ filled.status \in {"FILLED", "NEW", "PARTIALLY_FILLED"}
             /\ order.filled + lots = order.quantity => filled.status = "FILLED"
<1> DEFINE sum == order.filled + lots
           status == IF sum = order.quantity THEN "FILLED"
                     ELSE IF sum = 0 THEN "NEW" ELSE "PARTIALLY_FILLED"
<1>1. order.filled \in Nat /\ sum \in Nat
  BY DEF ExchangeOrder
<1>2. WithFill(order, lots) = [order EXCEPT !.filled = sum, !.status = status]
  BY DEF WithFill
<1>3. /\ status \in {"FILLED", "NEW", "PARTIALLY_FILLED"}
      /\ sum = order.quantity => status = "FILLED"
  OBVIOUS
<1>4. status \in Statuses
  BY <1>3 DEF Statuses, OpenStatus, TerminalStatus
<1> HIDE DEF sum, status
<1>5. QED BY <1>1, <1>2, <1>3, <1>4 DEF ExchangeOrder, sum

LEMMA LotsFit ==
  ASSUME MaxOrders # 0
  PROVE  /\ Lots \in Nat /\ MaxOrders \in Nat /\ Lots * MaxOrders \in Nat
         /\ Lots <= Lots * MaxOrders
<1>1. Lots \in Nat /\ MaxOrders \in Nat /\ Lots * MaxOrders \in Nat
  BY SpecAssumption, BoundAssumption
<1>2. MaxOrders - 1 \in Nat /\ MaxOrders = 1 + (MaxOrders - 1)
  BY <1>1
<1>3. Lots * MaxOrders = Lots + Lots * (MaxOrders - 1) /\ Lots * (MaxOrders - 1) \in Nat
  BY <1>1, <1>2
<1>4. QED BY <1>1, <1>3

\* What was filled of an order fits in a message.
LEMMA FilledFits ==
  ASSUME MaxOrders # 0, NEW order \in ExchangeOrder, Sound(order),
         order.filled <= order.quantity
  PROVE  order.filled \in 0..(Lots * MaxOrders) /\ order.status \in Statuses
<1>1. /\ order.filled \in Nat /\ order.quantity \in Nat /\ order.status \in Statuses
      /\ order.reduceOnly \in BOOLEAN
  BY DEF ExchangeOrder
<1>2. order.quantity <= Lots * MaxOrders
  BY <1>1, LotsFit DEF Sound
<1>3. QED BY <1>1, <1>2, LotsFit

LEMMA FillMessagesTrue ==
  ASSUME NEW c \in 1..MaxOrders, NEW order \in ExchangeOrder, order.filled <= order.quantity,
         Sound(order), NEW net \in 0..(Lots * MaxOrders),
         exch' \in Seq(ExchangeOrder), c \in DOMAIN exch', exch'[c] = order
  PROVE  FillMessages(c, order, net) \in Seq(TrueMessages')
<1> DEFINE account == [kind |-> "account", position |-> net]
           ended == [kind |-> "order", cid |-> c, status |-> order.status,
                     filled |-> order.filled]
<1>1. account \in TrueMessages'
  BY DEF TrueMessages, Messages, Told
<1>2. ended \in TrueMessages'
  <2>1. MaxOrders # 0
    BY BoundAssumption
  <2>2. order.filled \in 0..(Lots * MaxOrders) /\ order.status \in Statuses
    BY <2>1, FilledFits
  <2>3. ended \in Messages
    BY <2>2 DEF Messages, Statuses
  <2>4. Told(ended)'
    BY DEF Told
  <2>5. QED BY <2>3, <2>4 DEF TrueMessages
<1>3. FillMessages(c, order, net) = <<account, ended>>
  BY DEF FillMessages
<1> HIDE DEF account, ended
<1>4. <<account, ended>> \in Seq(TrueMessages')
  BY <1>1, <1>2
<1>5. QED BY <1>3, <1>4

\* One order changes and stays an order of the same terms.
LEMMA ChangedKeeps ==
  ASSUME ExchangeTyped, NEW c \in DOMAIN exch, NEW order \in ExchangeOrder,
         exch' = [exch EXCEPT ![c] = order], order.filled <= order.quantity,
         order.quantity = exch[c].quantity, order.reduceOnly = exch[c].reduceOnly,
         order.exec = exch[c].exec, order.root = exch[c].root,
         ~Live(c) => order.status = exch[c].status,
         Net + (Signed(order) - Signed(exch[c])) \in Nat
  PROVE  /\ Kept /\ ExchangeTyped' /\ Len(exch') = Len(exch) /\ exch'[c] = order
         /\ Net' = Net + (Signed(order) - Signed(exch[c]))
         /\ Net' \in 0..(Lots * MaxOrders)
<1>1. /\ exch \in Seq(ExchangeOrder) /\ Len(exch) \in Nat /\ Len(exch) <= MaxOrders
      /\ DOMAIN exch = 1..Len(exch)
  BY LenProperties DEF ExchangeTyped
<1>2. /\ exch' \in Seq(ExchangeOrder) /\ Len(exch') = Len(exch) /\ DOMAIN exch' = DOMAIN exch
      /\ exch'[c] = order /\ \A d \in DOMAIN exch : d # c => exch'[d] = exch[d]
  BY <1>1, ExceptSeq, LenProperties
<1>3. Kept
  BY <1>1, <1>2 DEF Kept, Live
<1>4. Net' = Net + (Signed(order) - Signed(exch[c]))
  BY <1>1, NetOfChanged, NetIsNetOf
<1>5. \A d \in DOMAIN exch' :
        exch'[d].filled <= exch'[d].quantity /\ Sound(exch'[d]) /\ exch'[d].root \in 1..Len(exch')
  <2>1. ASSUME NEW d \in DOMAIN exch'
        PROVE  /\ exch'[d].filled <= exch'[d].quantity /\ Sound(exch'[d])
               /\ exch'[d].root \in 1..Len(exch')
    <3>1. CASE d = c
      BY <1>2, <3>1 DEF ExchangeTyped, Sound
    <3>2. CASE d # c
      BY <1>2, <2>1, <3>2 DEF ExchangeTyped
    <3>3. QED BY <3>1, <3>2
  <2>2. QED BY <2>1
<1>6. Net' \in 0..(Lots * MaxOrders)
  <2>1. NetOf(exch') \in Int /\ NetOf(exch') <= Lots * MaxOrders
    BY <1>1, <1>2, <1>5, NetOfAtMost
  <2>2. Net' \in Nat
    BY <1>4
  <2>3. QED BY <2>1, <2>2, NetIsNetOf
<1>7. ExchangeTyped'
  BY <1>1, <1>2, <1>5, <1>6 DEF ExchangeTyped, Sound
<1>8. QED BY <1>2, <1>3, <1>4, <1>6, <1>7

\* A new order is accepted, as the latest of its chain.
LEMMA AppendedKeeps ==
  ASSUME ExchangeTyped, Len(exch) < MaxOrders, NEW order \in ExchangeOrder,
         exch' = Append(exch, order), order.filled <= order.quantity, Sound(order),
         order.root \in 1..(Len(exch) + 1), Net + Signed(order) \in Nat
  PROVE  /\ Kept /\ ExchangeTyped' /\ Len(exch') = Len(exch) + 1
         /\ DOMAIN exch' = DOMAIN exch \cup {Len(exch) + 1}
         /\ exch'[Len(exch) + 1] = order /\ \A c \in DOMAIN exch : exch'[c] = exch[c]
         /\ Net' = Net + Signed(order) /\ Net' \in 0..(Lots * MaxOrders)
<1>1. /\ exch \in Seq(ExchangeOrder) /\ Len(exch) \in Nat /\ Len(exch) < MaxOrders
      /\ DOMAIN exch = 1..Len(exch) /\ MaxOrders \in Nat
  BY LenProperties, BoundAssumption DEF ExchangeTyped
<1>2. /\ exch' \in Seq(ExchangeOrder) /\ Len(exch') = Len(exch) + 1
      /\ exch'[Len(exch) + 1] = order /\ \A d \in DOMAIN exch : exch'[d] = exch[d]
  BY <1>1, AppendProperties
<1>3. DOMAIN exch' = DOMAIN exch \cup {Len(exch) + 1}
  BY <1>1, <1>2, LenProperties
<1>4. Kept
  BY <1>1, <1>2, <1>3 DEF Kept, Live
<1>5. Net' = Net + Signed(order)
  BY <1>1, NetOfAppended, NetIsNetOf
<1>6. \A d \in DOMAIN exch' :
        exch'[d].filled <= exch'[d].quantity /\ Sound(exch'[d]) /\ exch'[d].root \in 1..Len(exch')
  <2>1. ASSUME NEW d \in DOMAIN exch'
        PROVE  /\ exch'[d].filled <= exch'[d].quantity /\ Sound(exch'[d])
               /\ exch'[d].root \in 1..Len(exch')
    <3>1. CASE d = Len(exch) + 1
      BY <1>2, <3>1
    <3>2. CASE d \in DOMAIN exch
      <4>1. exch'[d] = exch[d] /\ exch[d].root \in 1..Len(exch)
        BY <1>2, <3>2 DEF ExchangeTyped
      <4>2. exch[d].filled <= exch[d].quantity /\ Sound(exch[d])
        BY <3>2 DEF ExchangeTyped
      <4>3. QED BY <1>1, <1>2, <4>1, <4>2
    <3>3. QED BY <1>3, <2>1, <3>1, <3>2
  <2>2. QED BY <2>1
<1>7. Net' \in 0..(Lots * MaxOrders)
  <2>1. NetOf(exch') \in Int /\ NetOf(exch') <= Lots * MaxOrders
    <3>1. Len(exch') <= MaxOrders
      BY <1>1, <1>2
    <3>2. QED BY <3>1, <1>2, <1>6, NetOfAtMost
  <2>2. QED BY <1>5, <2>1, NetIsNetOf
<1>8. ExchangeTyped'
  BY <1>1, <1>2, <1>6, <1>7 DEF ExchangeTyped, Sound
<1>9. QED BY <1>2, <1>3, <1>4, <1>5, <1>7, <1>8

\* lots trade in a working order.
LEMMA TradeKeeps ==
  ASSUME ExchangeTyped, Ends, NEW c \in DOMAIN exch, Live(c), NEW lots \in Nat,
         Trades(c, exch[c], lots)
  PROVE  Kept /\ ExchangeTyped' /\ Len(exch') = Len(exch) /\ stream' \in Seq(TrueMessages')
<1> DEFINE order == WithFill(exch[c], lots)
<1>1. /\ exch[c] \in ExchangeOrder /\ exch[c].filled <= exch[c].quantity /\ Sound(exch[c])
      /\ c \in 1..Len(exch) /\ Len(exch) \in Nat /\ Len(exch) <= MaxOrders /\ Net \in Nat
  BY LenProperties, ElementOfSeq DEF ExchangeTyped
<1>2. exch[c].filled \in Nat /\ exch[c].quantity \in Nat /\ exch[c].reduceOnly \in BOOLEAN
  BY <1>1 DEF ExchangeOrder
<1>3. exch[c].filled + lots <= exch[c].quantity
  <2>1. lots <= exch[c].quantity - exch[c].filled
    BY DEF Trades
  <2>2. QED BY <1>2, <2>1
<1>4. /\ order \in ExchangeOrder
      /\ order.quantity = exch[c].quantity /\ order.reduceOnly = exch[c].reduceOnly
      /\ order.exec = exch[c].exec /\ order.root = exch[c].root
      /\ order.filled = exch[c].filled + lots
  BY <1>1, <1>3, WithFillType
<1>5. exch' = [exch EXCEPT ![c] = order]
  BY DEF Trades
<1>6. stream' = IF lots = 0 THEN stream
                ELSE stream \o FillMessages(c, order, IF exch[c].reduceOnly THEN Net - lots
                                                                        ELSE Net + lots)
  BY DEF Trades
<1>7. exch[c].reduceOnly => lots <= Net
  BY DEF Trades
<1> HIDE DEF order
<1>8. /\ Signed(order) - Signed(exch[c]) = IF exch[c].reduceOnly THEN -lots ELSE lots
      /\ Net + (Signed(order) - Signed(exch[c]))
           = IF exch[c].reduceOnly THEN Net - lots ELSE Net + lots
      /\ Net + (Signed(order) - Signed(exch[c])) \in Nat
  BY <1>1, <1>2, <1>4, <1>7 DEF Signed
<1>9. order.filled <= order.quantity /\ Sound(order)
  BY <1>1, <1>3, <1>4 DEF Sound
<1>10. /\ Kept /\ ExchangeTyped' /\ Len(exch') = Len(exch) /\ exch'[c] = order
       /\ Net' = Net + (Signed(order) - Signed(exch[c])) /\ Net' \in 0..(Lots * MaxOrders)
  BY <1>4, <1>5, <1>8, <1>9, ChangedKeeps
<1>11. stream' \in Seq(TrueMessages')
  <2>1. stream \in Seq(TrueMessages')
    BY <1>10, StillTold
  <2>2. FillMessages(c, order, Net') \in Seq(TrueMessages')
    <3>1. c \in 1..MaxOrders /\ exch' \in Seq(ExchangeOrder) /\ c \in DOMAIN exch'
      BY <1>1, <1>10, BoundAssumption DEF Kept
    <3>2. QED BY <1>4, <1>9, <1>10, <3>1, FillMessagesTrue
  <2>3. stream \o FillMessages(c, order, Net') \in Seq(TrueMessages')
    BY <2>1, <2>2, ConcatProperties
  <2>4. QED BY <1>6, <1>8, <1>10, <2>1, <2>3
<1>12. QED BY <1>10, <1>11

\* An order that the exchange ends: canceled or expired.
LEMMA EndedKeeps ==
  ASSUME ExchangeTyped, Ends, NEW c \in DOMAIN exch, Live(c),
         NEW status \in {"CANCELED", "EXPIRED"}, Ended(c, status)
  PROVE  /\ Kept /\ ExchangeTyped' /\ Len(exch') = Len(exch)
         /\ exch'[c].status = status /\ stream' \in Seq(TrueMessages')
<1> DEFINE order == [exch[c] EXCEPT !.status = status]
<1>0. PICK ended : ended = [kind |-> "order", cid |-> c, status |-> status,
                            filled |-> exch[c].filled]
  OBVIOUS
<1>1. /\ exch[c] \in ExchangeOrder /\ exch[c].filled <= exch[c].quantity /\ Sound(exch[c])
      /\ c \in 1..Len(exch) /\ Len(exch) \in Nat /\ Len(exch) <= MaxOrders /\ Net \in Nat
  BY LenProperties, ElementOfSeq DEF ExchangeTyped
<1>2. exch[c].filled \in Nat /\ exch[c].quantity \in Nat /\ exch[c].reduceOnly \in BOOLEAN
  BY <1>1 DEF ExchangeOrder
<1>3. status \in TerminalStatus /\ status \in Statuses
  BY DEF Statuses, TerminalStatus
<1>4. /\ order \in ExchangeOrder /\ order.filled = exch[c].filled
      /\ order.quantity = exch[c].quantity /\ order.reduceOnly = exch[c].reduceOnly
      /\ order.exec = exch[c].exec /\ order.root = exch[c].root /\ order.status = status
  BY <1>1, <1>3 DEF ExchangeOrder
<1>5. exch' = [exch EXCEPT ![c] = order] /\ stream' = Append(stream, ended)
  BY <1>0 DEF Ended
<1> HIDE DEF order
<1>6. Net + (Signed(order) - Signed(exch[c])) \in Nat
  BY <1>1, <1>2, <1>4 DEF Signed
<1>7. /\ Kept /\ ExchangeTyped' /\ Len(exch') = Len(exch) /\ exch'[c] = order
  BY <1>1, <1>4, <1>5, <1>6, ChangedKeeps
<1>8. stream' \in Seq(TrueMessages')
  <2>1. MaxOrders # 0 /\ c \in 1..MaxOrders
    BY <1>1, BoundAssumption
  <2>2. ended \in Messages
    <3>1. exch[c].filled \in 0..(Lots * MaxOrders) /\ c \in 1..MaxOrders
      BY <1>1, <2>1, FilledFits
    <3>2. QED BY <1>0, <1>3, <3>1 DEF Messages
  <2>3. Told(ended)'
    BY <1>0, <1>1, <1>4, <1>7 DEF Told, Kept
  <2>4. ended \in TrueMessages'
    BY <2>2, <2>3 DEF TrueMessages
  <2>5. stream \in Seq(TrueMessages')
    BY <1>7, StillTold
  <2>6. QED BY <1>5, <2>4, <2>5, AppendProperties
<1>9. QED BY <1>4, <1>7, <1>8

-----------------------------------------------------------------------------
(* Steps that add no order and start no chase.                             *)

\* Ready, the tracker and the brain's messages outlive a step of the exchange.
LEMMA StillReady ==
  ASSUME Kept, TrackerTyped, NEW t \in Threads, NEW label, NEW k, Ready(t, label, k),
         label \in {"cancel", "sync", "mark", "report"} => k.cid \in DOMAIN batch'
  PROVE  Ready(t, label, k)'
<1>1. label \in LabelsOf(t) /\ Sound(k.req)
  BY DEF Ready
<1>2. t # "mon" => k.req.root = 0 /\ k.req.attempts = 0
  BY DEF Ready
<1>3. t = "mon" /\ label = "post" => k.req.root \in DOMAIN exch'
  BY DEF Ready, Kept
<1>4. ASSUME label = "register"
      PROVE  /\ k.cid \in DOMAIN exch' /\ exch'[k.cid].quantity = k.req.quantity
             /\ exch'[k.cid].reduceOnly = k.req.reduceOnly
             /\ exch'[k.cid].exec = k.req.exec
             /\ k.status = "FILLED" => exch'[k.cid].status = "FILLED"
  <2>1. k.cid \in DOMAIN exch
    BY <1>4 DEF Ready
  <2>2. exch[k.cid].status = "FILLED" => exch'[k.cid].status = "FILLED"
    BY <2>1 DEF Kept, Live, OpenStatus
  <2>3. QED BY <1>4, <2>1, <2>2 DEF Ready, Kept
<1>5. label \in {"mark", "report"} => exch'[k.cid].status = "CANCELED"
  <2>1. k.cid \in DOMAIN exch /\ exch[k.cid].status = "CANCELED" =>
          exch'[k.cid].status = "CANCELED"
    BY DEF Kept, Live, OpenStatus
  <2>2. label \in {"mark", "report"} =>
          exch[k.cid].status = "CANCELED" /\ k.cid \in DOMAIN exch
    BY DEF Ready, TrackerTyped
  <2>3. QED BY <2>1, <2>2
<1>6. QED BY <1>1, <1>2, <1>3, <1>4, <1>5 DEF Ready, Sound, LabelsOf, Labels

\* The tracker goes on with the same orders: their terms stay, an end stays reported.
Orderly(known) ==
  /\ known = [c \in DOMAIN known |-> known[c]]
  /\ \A c \in DOMAIN known : known[c] \in Tracked /\ known[c].filled <= known[c].quantity
Remembered(known, later) ==
  /\ Orderly(later) /\ DOMAIN later = DOMAIN known
  /\ \A c \in DOMAIN known :
       /\ later[c].quantity = known[c].quantity /\ later[c].reduceOnly = known[c].reduceOnly
       /\ later[c].exec = known[c].exec /\ later[c].attempts = known[c].attempts
       /\ known[c].reported => later[c].reported

LEMMA TrackerIsOrderly == TrackerTyped => Orderly(orders) /\ Remembered(orders, orders)
BY DEF TrackerTyped, Orderly, Matches, Remembered

LEMMA UpdatedRemembers ==
  ASSUME NEW known, Orderly(known), NEW c, NEW status \in Statuses, NEW filled \in Nat,
         c \in DOMAIN known => filled <= known[c].quantity
  PROVE  Remembered(known, Updated(known, c, status, filled))
<1> DEFINE later == Updated(known, c, status, filled)
<1>1. CASE c \notin DOMAIN known
  BY <1>1 DEF Updated, Remembered, Orderly
<1>2. CASE c \in DOMAIN known
  <2> DEFINE order == [known[c] EXCEPT !.status = status, !.filled = filled,
                                       !.reported = @ \/ status \in TerminalStatus]
  <2>1. later = [known EXCEPT ![c] = order]
    BY <1>2 DEF Updated
  <2>2. known[c] \in Tracked
    BY <1>2 DEF Orderly
  <2>3. (known[c].reported \/ status \in TerminalStatus) \in BOOLEAN
    OBVIOUS
  <2>4. /\ order \in Tracked /\ order.quantity = known[c].quantity
        /\ order.reduceOnly = known[c].reduceOnly /\ order.exec = known[c].exec
        /\ order.attempts = known[c].attempts /\ order.filled = filled
        /\ known[c].reported => order.reported
    BY <2>2, <2>3 DEF Tracked, Statuses
  <2> HIDE DEF order, later
  <2>5. /\ DOMAIN later = DOMAIN known /\ later = [d \in DOMAIN later |-> later[d]]
        /\ later[c] = order /\ \A d \in DOMAIN known : d # c => later[d] = known[d]
    BY <1>2, <2>1
  <2>6. Orderly(later)
    BY <1>2, <2>4, <2>5 DEF Orderly
  <2>7. QED BY <1>2, <2>4, <2>5, <2>6 DEF Remembered, later
<1>3. QED BY <1>1, <1>2

LEMMA MarkedRemembers ==
  ASSUME NEW known, Orderly(known), NEW c
  PROVE  /\ Remembered(known, MarkedCanceled(known, c))
         /\ c \in DOMAIN known => MarkedCanceled(known, c)[c].reported
<1> DEFINE later == MarkedCanceled(known, c)
<1>1. CASE c \notin DOMAIN known
  BY <1>1 DEF MarkedCanceled, Remembered, Orderly
<1>2. CASE c \in DOMAIN known
  <2> DEFINE order == [known[c] EXCEPT !.status = "CANCELED", !.reported = TRUE]
  <2>1. later = [known EXCEPT ![c] = order]
    BY <1>2 DEF MarkedCanceled
  <2>2. known[c] \in Tracked /\ known[c].filled <= known[c].quantity
    BY <1>2 DEF Orderly
  <2>3. /\ order \in Tracked /\ order.quantity = known[c].quantity
        /\ order.reduceOnly = known[c].reduceOnly /\ order.exec = known[c].exec
        /\ order.attempts = known[c].attempts /\ order.filled = known[c].filled
        /\ order.reported
    BY <2>2 DEF Tracked, TerminalStatus
  <2> HIDE DEF order, later
  <2>4. /\ DOMAIN later = DOMAIN known /\ later = [d \in DOMAIN later |-> later[d]]
        /\ later[c] = order /\ \A d \in DOMAIN known : d # c => later[d] = known[d]
    BY <1>2, <2>1
  <2>5. Orderly(later)
    BY <1>2, <2>2, <2>3, <2>4 DEF Orderly
  <2>6. QED BY <1>2, <2>3, <2>4, <2>5 DEF Remembered, later
<1>3. QED BY <1>1, <1>2

\* What update() publishes is true if the status it was given is.
LEMMA UpdateReports ==
  ASSUME NEW known, Orderly(known), NEW c, NEW status, NEW filled \in Nat,
         queue \in Seq(TrueReports'), c \in Nat,
         c \in DOMAIN known => c \in DOMAIN exch',
         status \in TerminalStatus => status = exch'[c].status,
         Update(known, c, status, filled)
  PROVE  queue' \in Seq(TrueReports')
<1>1. CASE ~Fires(known, c, status)
  BY <1>1 DEF Update
<1>2. CASE Fires(known, c, status)
  <2>1. PICK u : u = [cid |-> c, status |-> status, filled |-> filled, reason |-> "",
                      reduceOnly |-> known[c].reduceOnly]
    OBVIOUS
  <2>2. queue' = Append(queue, u)
    BY <1>2, <2>1 DEF Update, Publish
  <2>3. c \in DOMAIN known /\ status \in TerminalStatus
    BY <1>2 DEF Fires
  <2>4. known[c].reduceOnly \in BOOLEAN
    BY <2>3 DEF Orderly, Tracked
  <2>5. u \in Queued
    BY <2>1, <2>3, <2>4 DEF Queued, Reasons
  <2>6. Reported(u)'
    BY <2>1, <2>3 DEF Reported
  <2>7. u \in TrueReports'
    BY <2>5, <2>6 DEF TrueReports
  <2>8. QED BY <2>2, <2>7, AppendProperties
<1>3. QED BY <1>1, <1>2

LEMMA TrackerKeeps ==
  ASSUME TrackerTyped, Kept, Remembered(orders, orders'),
         batch' = [c \in DOMAIN batch' |-> batch[c]], DOMAIN batch' \subseteq DOMAIN batch
  PROVE  TrackerTyped'
<1>1. DOMAIN orders' \subseteq DOMAIN exch' /\ DOMAIN orders' = DOMAIN orders
  BY DEF Kept, TrackerTyped, Remembered
<1>2. orders' = [c \in DOMAIN orders' |-> orders'[c]]
  BY DEF Remembered, Orderly
<1>3. \A c \in DOMAIN orders' : Matches(orders[c], c)'
  <2>1. ASSUME NEW c \in DOMAIN orders' PROVE Matches(orders[c], c)'
    <3>1. orders'[c] \in Tracked /\ orders'[c].filled <= orders'[c].quantity
      BY DEF Remembered, Orderly
    <3>2. c \in DOMAIN exch /\ Matches(orders[c], c)
      BY <1>1, <2>1 DEF TrackerTyped
    <3>3. /\ orders'[c].quantity = orders[c].quantity
          /\ orders'[c].reduceOnly = orders[c].reduceOnly
          /\ orders'[c].exec = orders[c].exec
      BY <1>1, <2>1 DEF Remembered
    <3>4. QED BY <3>1, <3>2, <3>3 DEF Matches, Kept
  <2>2. QED BY <2>1
<1>4. \A c \in DOMAIN batch' :
        Matches(batch[c], c)' /\ batch'[c].attempts = orders'[c].attempts
  <2>1. ASSUME NEW c \in DOMAIN batch'
        PROVE  Matches(batch[c], c)' /\ batch'[c].attempts = orders'[c].attempts
    <3>1. /\ c \in DOMAIN batch /\ batch'[c] = batch[c] /\ c \in DOMAIN orders
          /\ c \in DOMAIN exch
      BY <2>1 DEF TrackerTyped
    <3>2. Matches(batch[c], c) /\ batch[c].attempts = orders[c].attempts
      BY <3>1 DEF TrackerTyped
    <3>3. orders'[c].attempts = orders[c].attempts
      BY <3>1 DEF Remembered
    <3>4. QED BY <3>1, <3>2, <3>3 DEF Matches, Kept
  <2>2. QED BY <2>1
<1>5. DOMAIN batch' \subseteq DOMAIN orders' /\ batch' = [c \in DOMAIN batch' |-> batch'[c]]
  BY <1>1 DEF TrackerTyped
<1>6. QED BY <1>1, <1>2, <1>3, <1>4, <1>5 DEF TrackerTyped

LEMMA SameChains ==
  ASSUME ExchangeTyped, Kept, Len(exch') = Len(exch)
  PROVE  /\ DOMAIN exch' = DOMAIN exch
         /\ \A r : Chain(r)' = Chain(r)
         /\ \A c \in DOMAIN exch : Succeeded(c)' <=> Succeeded(c)
         /\ \A r \in DOMAIN exch : \A n, exec, attempts :
              Within(r, n, exec, attempts) => Within(r, n, exec, attempts)'
<1>1. DOMAIN exch' = DOMAIN exch
  BY LenProperties DEF ExchangeTyped, Kept
<1>2. \A c \in DOMAIN exch : exch'[c].root = exch[c].root /\ exch'[c].exec = exch[c].exec
  BY DEF Kept
<1>3. \A r : Chain(r)' = Chain(r)
  BY <1>1, <1>2 DEF Chain
<1>4. \A c \in DOMAIN exch : Succeeded(c)' <=> Succeeded(c)
  BY <1>1, <1>2 DEF Succeeded
<1>5. \A r \in DOMAIN exch : \A n, exec, attempts :
        Within(r, n, exec, attempts) => Within(r, n, exec, attempts)'
  BY <1>2, <1>3 DEF Within, Further
<1>6. QED BY <1>1, <1>3, <1>4, <1>5

\* No order is placed or registered, and no thread comes to where it would be.
Steady ==
  /\ Kept /\ Len(exch') = Len(exch)
  /\ Remembered(orders, orders') /\ TrackerTyped'
  /\ \A c \in DOMAIN batch' : c \in DOMAIN batch \/ ~orders[c].reported
  /\ \A t \in Threads : pc'[t] = "register" => pc[t] = "register" /\ call'[t] = call[t]
  /\ pc'["mon"] = "post" => pc["mon"] = "post" /\ call'["mon"] = call["mon"]
  /\ pc'["mon"] = "report" => orders'[call'["mon"].cid].reported

LEMMA SteadyKeeps ==
  ASSUME OrdersInv, Steady
  PROVE  TrackerTyped' /\ Chased' /\ Budgeted'
<1> USE DEF OrdersInv
<1>1. TrackerTyped'
  BY DEF Steady
<1>2. /\ DOMAIN exch' = DOMAIN exch
      /\ \A r : Chain(r)' = Chain(r)
      /\ \A c \in DOMAIN exch : Succeeded(c)' <=> Succeeded(c)
      /\ \A r \in DOMAIN exch : \A n, exec, attempts :
           Within(r, n, exec, attempts) => Within(r, n, exec, attempts)'
  BY SameChains DEF Steady
<1>3. /\ DOMAIN orders' = DOMAIN orders
      /\ \A c \in DOMAIN orders : /\ orders'[c].exec = orders[c].exec
                                  /\ orders'[c].attempts = orders[c].attempts
                                  /\ orders[c].reported => orders'[c].reported
  BY DEF Steady, Remembered
<1>4. \A c \in DOMAIN exch : /\ exch'[c].root = exch[c].root /\ exch'[c].exec = exch[c].exec
                             /\ ~Live(c) => ~Live(c)'
  BY DEF Steady, Kept, Live
<1>5. \A c \in DOMAIN exch : Followed(c)' => Followed(c)
  BY <1>2, <1>4 DEF Followed, Steady
<1>6. \A t \in Threads : pc'[t] = "register" => pc[t] = "register" /\ call'[t] = call[t]
  BY DEF Steady
<1>7. pc'["mon"] = "post" => pc["mon"] = "post" /\ call'["mon"] = call["mon"]
  BY DEF Steady
<1>8. Chased'
  <2>1. ASSUME NEW c \in DOMAIN exch', Followed(c)'
        PROVE  c \in DOMAIN orders' /\ orders'[c].reported /\ ~Live(c)' /\ c \notin DOMAIN batch'
    <3>1. c \in DOMAIN exch /\ Followed(c)
      BY <1>2, <1>5, <2>1
    <3>2. c \in DOMAIN orders /\ orders[c].reported /\ ~Live(c) /\ c \notin DOMAIN batch
      BY <3>1 DEF Chased
    <3>3. QED BY <1>3, <1>4, <3>1, <3>2 DEF Steady
  <2>2. \A t \in Threads : pc'[t] = "register" => call'[t].cid \notin DOMAIN orders'
    BY <1>3, <1>6 DEF Chased
  <2>3. \A t, u \in Threads : pc'[t] = "register" /\ pc'[u] = "register" /\ t # u =>
          call'[t].cid # call'[u].cid
    BY <1>6 DEF Chased
  <2>4. pc'["mon"] = "report" => orders'[call'["mon"].cid].reported
    BY DEF Steady
  <2>5. QED BY <2>1, <2>2, <2>3, <2>4 DEF Chased
<1>9. Budgeted'
  <2>1. \A r \in DOMAIN exch' : (Cardinality(Chain(r)) <= 1 + Further(exch[r].exec, 0))'
    BY <1>2, <1>4 DEF Budgeted, Further
  <2>2. ASSUME NEW c \in DOMAIN orders', ~Succeeded(c)'
        PROVE  Within(exch[c].root, 0, orders[c].exec, orders[c].attempts)'
    <3>1. c \in DOMAIN orders /\ c \in DOMAIN exch /\ ~Succeeded(c) /\ exch[c].root \in DOMAIN exch
      BY <1>2, <1>3, <2>2, LenProperties DEF TrackerTyped, ExchangeTyped
    <3>2. Within(exch[c].root, 0, orders[c].exec, orders[c].attempts)
      BY <3>1 DEF Budgeted
    <3>3. PICK r, exec, attempts :
             /\ r \in DOMAIN exch
             /\ r = exch[c].root /\ exec = orders[c].exec /\ attempts = orders[c].attempts
      BY <3>1
    <3>4. Within(r, 0, exec, attempts)'
      BY <1>2, <3>2, <3>3
    <3>5. exch'[c].root = r /\ orders'[c].exec = exec /\ orders'[c].attempts = attempts
      BY <1>3, <1>4, <3>1, <3>3
    <3>6. QED BY <3>4, <3>5
  <2>3. ASSUME NEW t \in Threads, pc'[t] = "register"
        PROVE  Within(exch[call[t].cid].root, 0, call[t].req.exec, call[t].req.attempts)'
    <3>1. pc[t] = "register" /\ call'[t] = call[t]
      BY <1>6, <2>3
    <3>2. call[t].cid \in DOMAIN exch /\ exch[call[t].cid].root \in DOMAIN exch
      BY <3>1, LenProperties DEF CallsTyped, Ready, ExchangeTyped
    <3>3. PICK r, k : r \in DOMAIN exch /\ r = exch[call[t].cid].root /\ k = call[t]
      BY <3>2
    <3>4. Within(r, 0, k.req.exec, k.req.attempts)
      BY <3>1, <3>3 DEF Budgeted
    <3>5. Within(r, 0, k.req.exec, k.req.attempts)'
      BY <1>2, <3>3, <3>4
    <3>6. exch'[call'[t].cid].root = r /\ call'[t] = k
      BY <1>4, <3>1, <3>2, <3>3
    <3>7. QED BY <3>5, <3>6
  <2>4. ASSUME pc'["mon"] = "post"
        PROVE  Within(call["mon"].req.root, 1, call["mon"].req.exec, call["mon"].req.attempts)'
    <3>1. pc["mon"] = "post" /\ call'["mon"] = call["mon"] /\ "mon" \in Threads
      BY <1>7, <2>4 DEF Threads
    <3>2. call["mon"].req.root \in DOMAIN exch
      BY <3>1 DEF CallsTyped, Ready
    <3>3. PICK k : k = call["mon"]
      OBVIOUS
    <3>4. Within(k.req.root, 1, k.req.exec, k.req.attempts)
      BY <3>1, <3>3 DEF Budgeted
    <3>5. Within(k.req.root, 1, k.req.exec, k.req.attempts)'
      BY <1>2, <3>2, <3>3, <3>4
    <3>6. QED BY <3>1, <3>3, <3>5
  <2>5. QED BY <2>1, <2>2, <2>3, <2>4 DEF Budgeted
<1>10. QED BY <1>1, <1>8, <1>9

\* No thread moves.
LEMMA ThreadsRest ==
  ASSUME OrdersInv, Kept, UNCHANGED threadVars
  PROVE  CallsTyped'
<1>1. pc' = pc /\ call' = call /\ batch' = batch
  BY DEF threadVars
<1>2. ASSUME NEW t \in Threads PROVE Ready(t, pc[t], call[t])'
  <2>1. PICK label, k : label = pc[t] /\ k = call[t]
    OBVIOUS
  <2>2. Ready(t, label, k) /\ (label \in {"cancel", "sync", "mark", "report"} =>
                                 k.cid \in DOMAIN batch')
    BY <1>1, <2>1 DEF OrdersInv, CallsTyped, Ready
  <2>3. Ready(t, label, k)'
    BY <2>2, StillReady DEF OrdersInv
  <2>4. QED BY <1>1, <2>1, <2>3
<1>3. QED BY <1>1, <1>2 DEF CallsTyped, OrdersInv, Labels, PendingCall

\* One thread goes on, to a label it is ready for.
LEMMA ThreadStep ==
  ASSUME OrdersInv, Kept, NEW t \in Threads, NEW label \in Labels, NEW k \in PendingCall,
         pc' = [pc EXCEPT ![t] = label], call' = [call EXCEPT ![t] = k],
         Ready(t, label, k)', t # "mon" => batch' = batch
  PROVE  CallsTyped'
<1>1. pc \in [Threads -> Labels] /\ call \in [Threads -> PendingCall]
  BY DEF OrdersInv, CallsTyped
<1>2. ASSUME NEW u \in Threads PROVE Ready(u, pc[u], call[u])'
  <2>1. CASE u = t
    <3>1. pc'[u] = label /\ call'[u] = k
      BY <1>1, <2>1
    <3>2. QED BY <2>1, <3>1
  <2>2. CASE u # t
    <3>1. PICK l, j : l = pc[u] /\ j = call[u]
      OBVIOUS
    <3>2. pc'[u] = l /\ call'[u] = j
      BY <1>1, <2>2, <3>1
    <3>3. Ready(u, l, j)
      BY <3>1 DEF OrdersInv, CallsTyped
    <3>4. l \in {"cancel", "sync", "mark", "report"} => j.cid \in DOMAIN batch'
      <4>1. l \in {"cancel", "sync", "mark", "report"} => u = "mon" /\ j.cid \in DOMAIN batch
        BY <3>3 DEF Ready, LabelsOf, Threads
      <4>2. QED BY <2>2, <4>1
    <3>5. Ready(u, l, j)'
      BY <3>3, <3>4, StillReady DEF OrdersInv
    <3>6. QED BY <3>2, <3>5
  <2>3. QED BY <2>1, <2>2
<1>3. pc' \in [Threads -> Labels] /\ call' \in [Threads -> PendingCall]
  BY <1>1
<1>4. QED BY <1>2, <1>3 DEF CallsTyped, Labels, PendingCall

LEMMA SteadyStep ==
  ASSUME OrdersInv, Steady, ExchangeTyped', CallsTyped', RestTyped',
         stream' \in Seq(TrueMessages'), queue' \in Seq(TrueReports')
  PROVE  OrdersInv'
BY SteadyKeeps DEF OrdersInv, Ends

\* A step that moves no thread is steady when the tracker only learns of an order's state.
LEMMA RestingStep ==
  ASSUME OrdersInv, Kept, Len(exch') = Len(exch), Remembered(orders, orders'),
         UNCHANGED threadVars
  PROVE  Steady
<1>1. pc' = pc /\ call' = call /\ batch' = batch
  BY DEF threadVars
<1>2. pc["mon"] = "report" => call["mon"].cid \in DOMAIN orders /\ orders[call["mon"].cid].reported
  <2>1. pc["mon"] = "report" => call["mon"].cid \in DOMAIN batch
    BY DEF OrdersInv, CallsTyped, Ready, Threads
  <2>2. QED BY <2>1 DEF OrdersInv, Chased, TrackerTyped
<1>3. pc'["mon"] = "report" => orders'[call'["mon"].cid].reported
  BY <1>1, <1>2 DEF Remembered
<1>4. TrackerTyped'
  BY <1>1, TrackerKeeps DEF OrdersInv, TrackerTyped
<1>5. QED BY <1>1, <1>3, <1>4 DEF Steady

LEMMA TradeStep ==
  ASSUME OrdersInv, NEW c \in DOMAIN exch, NEW lots \in 1..Lots, Trade(c, lots)
  PROVE  OrdersInv'
<1>1. lots \in Nat /\ Live(c) /\ Trades(c, exch[c], lots)
  BY SpecAssumption DEF Trade
<1>2. UNCHANGED <<trackerVars, threadVars, brainVars, position, fired>>
  BY DEF Trade
<1>3. Kept /\ ExchangeTyped' /\ Len(exch') = Len(exch) /\ stream' \in Seq(TrueMessages')
  BY <1>1, TradeKeeps DEF OrdersInv
<1>4. Steady
  <2>1. Remembered(orders, orders')
    BY <1>2, TrackerIsOrderly DEF OrdersInv, trackerVars
  <2>2. QED BY <1>2, <1>3, <2>1, RestingStep
<1>5. CallsTyped'
  BY <1>2, <1>3, ThreadsRest
<1>6. RestTyped'
  BY <1>2 DEF OrdersInv, RestTyped, brainVars, Brain
<1>7. queue' \in Seq(TrueReports')
  BY <1>2, <1>3, StillTold DEF OrdersInv, trackerVars
<1>8. QED BY <1>3, <1>4, <1>5, <1>6, <1>7, SteadyStep

LEMMA ExpireStep ==
  ASSUME OrdersInv, NEW c \in DOMAIN exch, Expire(c)
  PROVE  OrdersInv'
<1>1. Live(c) /\ Ended(c, "EXPIRED")
  BY DEF Expire
<1>2. UNCHANGED <<trackerVars, threadVars, brainVars, position, fired>>
  BY DEF Expire
<1>3. Kept /\ ExchangeTyped' /\ Len(exch') = Len(exch) /\ stream' \in Seq(TrueMessages')
  BY <1>1, EndedKeeps DEF OrdersInv
<1>4. Steady
  <2>1. Remembered(orders, orders')
    BY <1>2, TrackerIsOrderly DEF OrdersInv, trackerVars
  <2>2. QED BY <1>2, <1>3, <2>1, RestingStep
<1>5. CallsTyped'
  BY <1>2, <1>3, ThreadsRest
<1>6. RestTyped'
  BY <1>2 DEF OrdersInv, RestTyped, brainVars, Brain
<1>7. queue' \in Seq(TrueReports')
  BY <1>2, <1>3, StillTold DEF OrdersInv, trackerVars
<1>8. QED BY <1>3, <1>4, <1>5, <1>6, <1>7, SteadyStep

LEMMA DeliverStep ==
  ASSUME OrdersInv, Deliver
  PROVE  OrdersInv'
<1> DEFINE m == Head(stream)
<1>1. exch' = exch /\ stream # <<>> /\ stream' = Tail(stream)
  BY DEF Deliver
<1>2. UNCHANGED <<threadVars, brainVars, fired>>
  BY DEF Deliver
<1>3. Kept /\ ExchangeTyped' /\ Len(exch') = Len(exch)
  BY <1>1, ExchangeUnchanged DEF OrdersInv
<1>4. m \in TrueMessages /\ stream' \in Seq(TrueMessages)
  BY <1>1, HeadTailProperties DEF OrdersInv, Ends
<1>5. TrueMessages' = TrueMessages /\ queue \in Seq(TrueReports')
  <2>1. queue \in Seq(TrueReports')
    BY <1>3, StillTold DEF OrdersInv
  <2>2. QED BY <1>1, <2>1 DEF TrueMessages, Told
<1>6. CASE m.kind = "account"
  <2>1. position' = m.position /\ UNCHANGED trackerVars
    BY <1>6 DEF Deliver
  <2>2. position' \in 0..(Lots * MaxOrders)
    BY <1>4, <1>6, <2>1 DEF TrueMessages, Messages
  <2>3. Remembered(orders, orders') /\ queue' \in Seq(TrueReports')
    BY <1>5, <2>1, TrackerIsOrderly DEF OrdersInv, trackerVars
  <2>4. Steady /\ CallsTyped'
    BY <1>2, <1>3, <2>3, RestingStep, ThreadsRest
  <2>5. RestTyped'
    BY <1>2, <2>2 DEF OrdersInv, RestTyped, brainVars, Brain
  <2>6. QED BY <1>3, <1>4, <1>5, <2>3, <2>4, <2>5, SteadyStep
<1>7. CASE m.kind # "account"
  <2>1. Update(orders, m.cid, m.status, m.filled) /\ position' = position
    BY <1>7 DEF Deliver
  <2>2. /\ m.kind = "order" /\ m.cid \in 1..MaxOrders /\ m.filled \in 0..(Lots * MaxOrders)
        /\ m.status \in Statuses
    BY <1>4, <1>7 DEF TrueMessages, Messages, Statuses
  <2>3. /\ m.cid \in DOMAIN exch /\ m.filled <= exch[m.cid].quantity
        /\ m.status \in TerminalStatus => m.status = exch[m.cid].status
    BY <1>4, <2>2 DEF TrueMessages, Told
  <2>4. m.filled \in Nat /\ m.cid \in Nat
    BY <2>2, SpecAssumption, BoundAssumption
  <2> HIDE DEF m
  <2>5. Orderly(orders) /\ (m.cid \in DOMAIN orders => m.filled <= orders[m.cid].quantity)
    BY <2>3, TrackerIsOrderly DEF OrdersInv, TrackerTyped, Matches
  <2>6. Remembered(orders, orders')
    BY <2>1, <2>2, <2>4, <2>5, UpdatedRemembers DEF Update
  <2>7. queue' \in Seq(TrueReports')
    BY <1>1, <1>5, <2>1, <2>3, <2>4, <2>5, UpdateReports
  <2>8. Steady /\ CallsTyped'
    BY <1>2, <1>3, <2>6, RestingStep, ThreadsRest
  <2>9. RestTyped'
    BY <1>2, <2>1 DEF OrdersInv, RestTyped, brainVars, Brain
  <2>10. QED BY <1>3, <1>4, <1>5, <2>7, <2>8, <2>9, SteadyStep
<1>8. QED BY <1>6, <1>7

LEMMA DisconnectStep ==
  ASSUME OrdersInv, Disconnect
  PROVE  OrdersInv'
<1>1. exch' = exch /\ stream # <<>> /\ stream' = Tail(stream)
  BY DEF Disconnect
<1>2. UNCHANGED <<trackerVars, threadVars, brainVars, position, fired>>
  BY DEF Disconnect
<1>3. Kept /\ ExchangeTyped' /\ Len(exch') = Len(exch)
  BY <1>1, ExchangeUnchanged DEF OrdersInv
<1>4. stream' \in Seq(TrueMessages')
  <2>1. stream \in Seq(TrueMessages')
    BY <1>3, StillTold DEF OrdersInv
  <2>2. QED BY <1>1, <2>1, HeadTailProperties
<1>5. Steady /\ CallsTyped'
  <2>1. Remembered(orders, orders')
    BY <1>2, TrackerIsOrderly DEF OrdersInv, trackerVars
  <2>2. QED BY <1>2, <1>3, <2>1, RestingStep, ThreadsRest
<1>6. RestTyped'
  BY <1>2 DEF OrdersInv, RestTyped, brainVars, Brain
<1>7. queue' \in Seq(TrueReports')
  BY <1>2, <1>3, StillTold DEF OrdersInv, trackerVars
<1>8. QED BY <1>3, <1>4, <1>5, <1>6, <1>7, SteadyStep

LEMMA PumpStep ==
  ASSUME OrdersInv, Pump
  PROVE  OrdersInv'
<1>1. queue # <<>> /\ queue' = Tail(queue) /\ brain' = OnOrderUpdate(brain, Head(queue))
  BY DEF Pump
<1>2. UNCHANGED <<exchangeVars, orders, threadVars, toEngine, position, fired>>
  BY DEF Pump
<1>3. Kept /\ ExchangeTyped' /\ Len(exch') = Len(exch)
  BY <1>2, ExchangeUnchanged DEF OrdersInv, exchangeVars
<1>4. stream' \in Seq(TrueMessages') /\ queue' \in Seq(TrueReports')
  <2>1. stream \in Seq(TrueMessages') /\ queue \in Seq(TrueReports')
    BY <1>3, StillTold DEF OrdersInv
  <2>2. QED BY <1>1, <1>2, <2>1, HeadTailProperties DEF exchangeVars
<1>5. Steady /\ CallsTyped'
  <2>1. Remembered(orders, orders')
    BY <1>2, TrackerIsOrderly DEF OrdersInv
  <2>2. QED BY <1>2, <1>3, <2>1, RestingStep, ThreadsRest
<1>6. RestTyped'
  <2>1. brain' \in Brain
    BY <1>1 DEF OrdersInv, RestTyped, OnOrderUpdate, FreshBrain, Brain
  <2>2. QED BY <1>2, <2>1 DEF OrdersInv, RestTyped
<1>7. QED BY <1>3, <1>4, <1>5, <1>6, SteadyStep

-----------------------------------------------------------------------------
(* The receive thread and the main thread, short of placing an order.      *)

LEMMA QuietStep ==
  ASSUME OrdersInv, UNCHANGED <<exchangeVars, trackerVars, batch>>, RestTyped',
         NEW t \in {"rx", "main"}, NEW label \in LabelsOf(t) \ {"register"},
         NEW k \in PendingCall, Sound(k.req), k.req.root = 0, k.req.attempts = 0,
         pc' = [pc EXCEPT ![t] = label], call' = [call EXCEPT ![t] = k]
  PROVE  OrdersInv'
<1>1. /\ exch' = exch /\ stream' = stream /\ orders' = orders /\ queue' = queue
      /\ batch' = batch
  BY DEF exchangeVars, trackerVars
<1>2. Kept /\ ExchangeTyped' /\ Len(exch') = Len(exch)
  BY <1>1, ExchangeUnchanged DEF OrdersInv
<1>3. t \in Threads /\ t # "mon" /\ "mon" \in Threads
  BY DEF Threads
<1>4. label \in Labels /\ label \notin {"cancel", "sync", "mark", "report", "register"}
  BY DEF LabelsOf, Labels
<1>5. pc \in [Threads -> Labels] /\ call \in [Threads -> PendingCall]
  BY DEF OrdersInv, CallsTyped
<1>6. CallsTyped'
  <2>1. Ready(t, label, k)'
    BY <1>3, <1>4 DEF Ready, LabelsOf, Labels, Sound
  <2>2. QED BY <1>1, <1>2, <1>3, <1>4, <2>1, ThreadStep
<1>7. Steady
  <2>1. Remembered(orders, orders')
    BY <1>1, TrackerIsOrderly DEF OrdersInv
  <2>2. \A u \in Threads : u # t => pc'[u] = pc[u] /\ call'[u] = call[u]
    BY <1>5
  <2>3. pc'[t] = label
    BY <1>3, <1>5
  <2>4. pc["mon"] = "report" => orders[call["mon"].cid].reported
    BY DEF OrdersInv, Chased
  <2>5. \A u \in Threads : pc'[u] = "register" => pc[u] = "register" /\ call'[u] = call[u]
    BY <1>4, <2>2, <2>3
  <2>6. TrackerTyped'
    BY <1>1, <1>2, <2>1, TrackerKeeps DEF OrdersInv, TrackerTyped
  <2>7. QED BY <1>1, <1>2, <1>3, <2>1, <2>2, <2>4, <2>5, <2>6 DEF Steady
<1>8. stream' \in Seq(TrueMessages') /\ queue' \in Seq(TrueReports')
  BY <1>1, <1>2, StillTold DEF OrdersInv
<1>9. QED BY <1>2, <1>6, <1>7, <1>8, SteadyStep

\* The call of a thread other than the monitor, as it stands.
LEMMA CallOf ==
  ASSUME OrdersInv, NEW t \in {"rx", "main"}
  PROVE  /\ t \in Threads /\ call[t] \in PendingCall /\ Sound(call[t].req)
         /\ call[t].req.root = 0 /\ call[t].req.attempts = 0 /\ call[t].req \in OrderRequest
         /\ call' = call => call' = [call EXCEPT ![t] = call[t]]
         /\ pc \in [Threads -> Labels] /\ call \in [Threads -> PendingCall]
<1>1. t \in Threads /\ t # "mon"
  BY DEF Threads
<1>2. /\ pc \in [Threads -> Labels] /\ call \in [Threads -> PendingCall]
      /\ Ready(t, pc[t], call[t])
  BY <1>1 DEF OrdersInv, CallsTyped
<1>3. call[t].req \in OrderRequest
  BY <1>1, <1>2 DEF PendingCall
<1>4. call' = call => call' = [call EXCEPT ![t] = call[t]]
  BY <1>2
<1>5. QED BY <1>1, <1>2, <1>3, <1>4 DEF Ready

\* A request that the receive thread or the main thread makes.
LEMMA RequestType ==
  ASSUME NEW quantity \in Nat, NEW reduceOnly \in BOOLEAN, NEW exec \in ExecutionSpec,
         ~reduceOnly => quantity <= Lots, reduceOnly => quantity <= Lots * MaxOrders
  PROVE  /\ Request(quantity, reduceOnly, exec, 0, 0) \in OrderRequest
         /\ Sound(Request(quantity, reduceOnly, exec, 0, 0))
         /\ Request(quantity, reduceOnly, exec, 0, 0).root = 0
         /\ Request(quantity, reduceOnly, exec, 0, 0).attempts = 0
BY DEF Request, OrderRequest, Sound

LEMMA CallWith ==
  ASSUME NEW k \in PendingCall, NEW req \in OrderRequest
  PROVE  [k EXCEPT !.req = req] \in PendingCall /\ [k EXCEPT !.req = req].req = req
BY DEF PendingCall

LEMMA RxTakeStep ==
  ASSUME OrdersInv, RxTake
  PROVE  OrdersInv'
<1>1. toEngine # <<>> /\ toEngine' = Tail(toEngine)
  BY DEF RxTake
<1>2. UNCHANGED <<exchangeVars, trackerVars, batch>> /\ UNCHANGED <<brain, position, fired>>
  BY DEF RxTake
<1>3. Head(toEngine) \in EntrySpecs /\ RestTyped'
  <2>1. Head(toEngine) \in EntrySpecs /\ Tail(toEngine) \in Seq(EntrySpecs)
    BY <1>1, HeadTailProperties DEF OrdersInv, RestTyped
  <2>2. QED BY <1>1, <1>2, <2>1 DEF OrdersInv, RestTyped, Brain
<1>4. CASE position # 0
  <2>1. pc' = pc /\ call' = call
    BY <1>4 DEF RxTake
  <2>2. pc["rx"] = "idle" /\ pc' = [pc EXCEPT !["rx"] = "idle"]
    BY <2>1, CallOf DEF RxTake
  <2>3. "idle" \in LabelsOf("rx") \ {"register"}
    BY DEF LabelsOf
  <2>4. QED BY <1>2, <1>3, <2>1, <2>2, <2>3, CallOf, QuietStep
<1>5. CASE position = 0
  <2> DEFINE req == Request(Lots, FALSE, Head(toEngine), 0, 0)
  <2>1. PICK k : k = [call["rx"] EXCEPT !.req = req]
    OBVIOUS
  <2>2. call' = [call EXCEPT !["rx"] = k] /\ pc' = [pc EXCEPT !["rx"] = "flat"]
    BY <1>5, <2>1 DEF RxTake, Goto
  <2>3. k \in PendingCall /\ Sound(k.req) /\ k.req.root = 0 /\ k.req.attempts = 0
    <3>1. Head(toEngine) \in ExecutionSpec
      BY <1>3, SpecAssumption
    <3>2. Lots \in Nat /\ Lots <= Lots
      BY SpecAssumption
    <3>3. req \in OrderRequest /\ Sound(req) /\ req.root = 0 /\ req.attempts = 0
      BY <3>1, <3>2, RequestType
    <3> HIDE DEF req
    <3>4. QED BY <2>1, <3>3, CallOf, CallWith
  <2>4. "flat" \in LabelsOf("rx") \ {"register"}
    BY DEF LabelsOf
  <2>5. QED BY <1>2, <1>3, <2>2, <2>3, <2>4, QuietStep
<1>6. QED BY <1>4, <1>5

LEMMA RxCheckOpenStep ==
  ASSUME OrdersInv, RxCheckOpen
  PROVE  OrdersInv'
<1>1. UNCHANGED <<exchangeVars, trackerVars, batch>> /\ UNCHANGED <<brainVars, position, fired>>
  BY DEF RxCheckOpen
<1>2. RestTyped'
  BY <1>1 DEF OrdersInv, RestTyped, brainVars, Brain
<1>3. PICK label \in {"idle", "post"} : pc' = [pc EXCEPT !["rx"] = label] /\ call' = call
  BY DEF RxCheckOpen, Goto
<1>4. label \in LabelsOf("rx") \ {"register"}
  BY DEF LabelsOf
<1>5. QED BY <1>1, <1>2, <1>3, <1>4, CallOf, QuietStep

LEMMA RxArmStep ==
  ASSUME OrdersInv, RxArm
  PROVE  OrdersInv'
<1>1. UNCHANGED <<exchangeVars, trackerVars, batch>> /\ UNCHANGED <<brainVars, position>>
  BY DEF RxArm
<1>2. RestTyped'
  BY <1>1 DEF OrdersInv, RestTyped, brainVars, Brain, RxArm
<1>3. pc' = [pc EXCEPT !["rx"] = "idle"] /\ call' = call
  BY DEF RxArm, Goto
<1>4. "idle" \in LabelsOf("rx") \ {"register"}
  BY DEF LabelsOf
<1>5. QED BY <1>1, <1>2, <1>3, <1>4, CallOf, QuietStep

LEMMA CheckStopStep ==
  ASSUME OrdersInv, CheckStop
  PROVE  OrdersInv'
<1>1. UNCHANGED <<exchangeVars, trackerVars, batch>> /\ UNCHANGED <<brainVars, position>>
  BY DEF CheckStop
<1>2. position \in 0..(Lots * MaxOrders) /\ position \in Nat
  BY SpecAssumption, BoundAssumption DEF OrdersInv, RestTyped
<1>3. RestTyped'
  <2>1. fired' \in BOOLEAN
    BY DEF CheckStop, OrdersInv, RestTyped
  <2>2. QED BY <1>1, <2>1 DEF OrdersInv, RestTyped, brainVars, Brain
<1>4. \/ pc' = [pc EXCEPT !["main"] = "publish"] /\ call' = call
      \/ /\ call' = [call EXCEPT !["main"] = [call["main"] EXCEPT !.req = Closing]]
         /\ pc' = [pc EXCEPT !["main"] = "post"]
  BY DEF CheckStop, Goto
<1>5. "publish" \in LabelsOf("main") \ {"register"} /\ "post" \in LabelsOf("main") \ {"register"}
  BY DEF LabelsOf
<1>6. CASE pc' = [pc EXCEPT !["main"] = "publish"] /\ call' = call
  BY <1>1, <1>3, <1>5, <1>6, CallOf, QuietStep
<1>7. CASE /\ call' = [call EXCEPT !["main"] = [call["main"] EXCEPT !.req = Closing]]
           /\ pc' = [pc EXCEPT !["main"] = "post"]
  <2>1. PICK k : k = [call["main"] EXCEPT !.req = Closing]
    OBVIOUS
  <2>2. k \in PendingCall /\ Sound(k.req) /\ k.req.root = 0 /\ k.req.attempts = 0
    <3>1. call["main"] \in PendingCall /\ ExitSpec \in ExecutionSpec
          /\ position <= Lots * MaxOrders
      BY <1>2, CallOf, SpecAssumption
    <3>2. Closing = Request(position, TRUE, ExitSpec, 0, 0)
      BY DEF Closing
    <3>3. Closing \in OrderRequest /\ Sound(Closing) /\ Closing.root = 0 /\ Closing.attempts = 0
      BY <1>2, <3>1, <3>2, RequestType
    <3>4. QED BY <2>1, <3>1, <3>3, CallWith
  <2>3. call' = [call EXCEPT !["main"] = k]
    BY <1>7, <2>1
  <2>4. QED BY <1>1, <1>3, <1>5, <1>7, <2>2, <2>3, QuietStep
<1>8. QED BY <1>4, <1>6, <1>7

LEMMA GateType ==
  ASSUME brain \in Brain
  PROVE  AfterGate(brain, position) \in Brain /\ Entered(brain, position) \in Brain
<1>1. Observed(brain, position) \in Brain
  <2>1. (brain.saw \/ position # 0) \in BOOLEAN
    OBVIOUS
  <2>2. QED BY <2>1 DEF Observed, Brain
<1>2. AfterGate(brain, position) \in Brain
  BY <1>1 DEF AfterGate, FreshBrain, Brain
<1>3. Entered(brain, position) \in Brain
  BY <1>2 DEF Entered, Brain
<1>4. QED BY <1>2, <1>3

LEMMA PublishKlineStep ==
  ASSUME OrdersInv, PublishKline
  PROVE  OrdersInv'
<1>1. UNCHANGED <<exchangeVars, trackerVars, batch>> /\ UNCHANGED <<position, fired>>
  BY DEF PublishKline
<1>2. pc' = [pc EXCEPT !["main"] = "idle"] /\ call' = call
  BY DEF PublishKline, Goto
<1>3. brain' \in Brain
  BY GateType DEF PublishKline, OrdersInv, RestTyped
<1>4. toEngine' \in Seq(EntrySpecs)
  <2>1. toEngine \in Seq(EntrySpecs)
    BY DEF OrdersInv, RestTyped
  <2>2. CASE toEngine' = toEngine
    BY <2>1, <2>2
  <2>3. CASE \E exec \in EntrySpecs : toEngine' = Append(toEngine, exec)
    BY <2>1, <2>3, AppendProperties
  <2>4. QED BY <2>2, <2>3 DEF PublishKline
<1>5. RestTyped'
  BY <1>1, <1>3, <1>4 DEF OrdersInv, RestTyped, Brain
<1>6. "idle" \in LabelsOf("main") \ {"register"}
  BY DEF LabelsOf
<1>7. QED BY <1>1, <1>2, <1>5, <1>6, CallOf, QuietStep

-----------------------------------------------------------------------------
(* The monitor, short of placing an order.                                 *)

LEMMA MonitorStep ==
  ASSUME OrdersInv, Kept, ExchangeTyped', Len(exch') = Len(exch),
         stream' \in Seq(TrueMessages'), queue' \in Seq(TrueReports'),
         Remembered(orders, orders'), UNCHANGED <<brainVars, position, fired>>,
         batch' = [c \in DOMAIN batch' |-> batch[c]], DOMAIN batch' \subseteq DOMAIN batch,
         NEW label \in LabelsOf("mon") \ {"post", "register"},
         NEW k \in PendingCall, Sound(k.req),
         pc' = [pc EXCEPT !["mon"] = label], call' = [call EXCEPT !["mon"] = k],
         label \in {"cancel", "sync", "mark", "report"} => k.cid \in DOMAIN batch',
         label \in {"mark", "report"} => exch'[k.cid].status = "CANCELED",
         label = "report" => orders'[k.cid].reported
  PROVE  OrdersInv'
<1>1. "mon" \in Threads /\ label \in Labels /\ label \notin {"post", "register"}
  BY DEF Threads, LabelsOf, Labels
<1>2. pc \in [Threads -> Labels] /\ call \in [Threads -> PendingCall]
  BY DEF OrdersInv, CallsTyped
<1>3. CallsTyped'
  <2>1. Ready("mon", label, k)'
    BY <1>1 DEF Ready, LabelsOf, Labels, Sound
  <2>2. QED BY <1>1, <2>1, ThreadStep
<1>4. Steady
  <2>1. \A u \in Threads : u # "mon" => pc'[u] = pc[u] /\ call'[u] = call[u]
    BY <1>2
  <2>2. pc'["mon"] = label /\ call'["mon"] = k
    BY <1>1, <1>2
  <2>3. \A u \in Threads : pc'[u] = "register" => pc[u] = "register" /\ call'[u] = call[u]
    BY <1>1, <2>1, <2>2
  <2>4. TrackerTyped'
    BY TrackerKeeps DEF OrdersInv
  <2>5. QED BY <1>1, <2>2, <2>3, <2>4 DEF Steady
<1>5. RestTyped'
  BY DEF OrdersInv, RestTyped, brainVars, Brain
<1>6. QED BY <1>3, <1>4, <1>5, SteadyStep

\* The monitor's call as it stands, and what it does next with an order.
LEMMA MonitorCall ==
  ASSUME OrdersInv
  PROVE  /\ call["mon"] \in PendingCall /\ Sound(call["mon"].req)
         /\ call' = call => call' = [call EXCEPT !["mon"] = call["mon"]]
         /\ pc["mon"] \in {"cancel", "sync", "mark", "report"} =>
              call["mon"].cid \in DOMAIN batch
         /\ pc["mon"] \in {"mark", "report"} => exch[call["mon"].cid].status = "CANCELED"
         /\ \A c \in DOMAIN batch : c \in DOMAIN orders /\ c \in DOMAIN exch /\ c \in Nat
         /\ "mon" \in Threads
<1>1. "mon" \in Threads
  BY DEF Threads
<1>2. Ready("mon", pc["mon"], call["mon"]) /\ call \in [Threads -> PendingCall]
  BY <1>1 DEF OrdersInv, CallsTyped
<1>3. \A c \in DOMAIN batch : c \in DOMAIN orders /\ c \in DOMAIN exch /\ c \in Nat
  BY LenProperties DEF OrdersInv, TrackerTyped, ExchangeTyped
<1>4. QED BY <1>1, <1>2, <1>3 DEF Ready

LEMMA DoneNext ==
  ASSUME NEW c, Done(c)
  PROVE  /\ batch' = [d \in DOMAIN batch' |-> batch[d]] /\ DOMAIN batch' \subseteq DOMAIN batch
         /\ call' = [call EXCEPT !["mon"] = NoCall]
         /\ \E label \in {"idle", "query"} : pc' = [pc EXCEPT !["mon"] = label]
BY DEF Done, Goto, Resume

LEMMA BatchStays ==
  ASSUME OrdersInv, batch' = batch
  PROVE  batch' = [c \in DOMAIN batch' |-> batch[c]] /\ DOMAIN batch' \subseteq DOMAIN batch
BY DEF OrdersInv, TrackerTyped

LEMMA DoneStep ==
  ASSUME OrdersInv, UNCHANGED exchangeVars, UNCHANGED <<brainVars, position, fired>>,
         Remembered(orders, orders'), queue' \in Seq(TrueReports'), NEW c, Done(c)
  PROVE  OrdersInv'
<1>1. exch' = exch /\ stream' = stream
  BY DEF exchangeVars
<1>2. Kept /\ ExchangeTyped' /\ Len(exch') = Len(exch)
  BY <1>1, ExchangeUnchanged DEF OrdersInv
<1>3. stream' \in Seq(TrueMessages')
  BY <1>1, <1>2, StillTold DEF OrdersInv
<1>4. PICK label \in {"idle", "query"} : pc' = [pc EXCEPT !["mon"] = label]
  BY DoneNext
<1>5. label \in LabelsOf("mon") \ {"post", "register"}
      /\ label \notin {"cancel", "sync", "mark", "report"}
  BY DEF LabelsOf, Labels
<1>6. QED BY <1>2, <1>3, <1>4, <1>5, DoneNext, NoCallType, MonitorStep

LEMMA QueryStep ==
  ASSUME OrdersInv, NEW c \in DOMAIN batch, Query(c)
  PROVE  OrdersInv'
<1>1. UNCHANGED exchangeVars /\ UNCHANGED <<brainVars, position, fired>>
  BY DEF Query, MonUnchanged
<1>2. exch' = exch /\ stream' = stream
  BY <1>1 DEF exchangeVars
<1>3. Kept /\ ExchangeTyped' /\ Len(exch') = Len(exch)
  BY <1>2, ExchangeUnchanged DEF OrdersInv
<1>4. /\ stream' \in Seq(TrueMessages') /\ queue \in Seq(TrueReports')
      /\ c \in DOMAIN orders /\ c \in DOMAIN exch /\ c \in Nat
  BY <1>2, <1>3, StillTold, MonitorCall DEF OrdersInv
<1>5. CASE ToCancel(c)
  <2>1. PICK k : k = [call["mon"] EXCEPT !.cid = c]
    OBVIOUS
  <2>2. /\ call' = [call EXCEPT !["mon"] = k] /\ pc' = [pc EXCEPT !["mon"] = "cancel"]
        /\ UNCHANGED trackerVars /\ batch' = batch
    BY <1>5, <2>1 DEF ToCancel, Goto
  <2>3. k \in PendingCall /\ Sound(k.req) /\ k.cid = c
    BY <1>4, <2>1, MonitorCall DEF PendingCall
  <2>4. Remembered(orders, orders') /\ queue' \in Seq(TrueReports')
    BY <1>4, <2>2, TrackerIsOrderly DEF OrdersInv, trackerVars
  <2>5. "cancel" \in LabelsOf("mon") \ {"post", "register"}
    BY DEF LabelsOf, Labels
  <2>6. k.cid \in DOMAIN batch'
    BY <2>2, <2>3
  <2>7. QED BY <1>1, <1>3, <1>4, <2>2, <2>3, <2>4, <2>5, <2>6, BatchStays, MonitorStep
<1>6. CASE ~Live(c) /\ Update(orders, c, exch[c].status, batch[c].filled) /\ Done(c)
  <2>1. exch[c].status \in Statuses
    BY <1>4, OrderType DEF OrdersInv
  <2>2. batch[c].filled \in Nat /\ batch[c].filled <= orders[c].quantity
    BY <1>4 DEF OrdersInv, TrackerTyped, Matches, Tracked
  <2>3. Remembered(orders, orders')
    BY <1>6, <2>1, <2>2, TrackerIsOrderly, UpdatedRemembers DEF OrdersInv, Update
  <2>4. queue' \in Seq(TrueReports')
    <3>1. Orderly(orders) /\ exch[c].status = exch'[c].status /\ c \in DOMAIN exch'
      BY <1>2, <1>4, TrackerIsOrderly DEF OrdersInv
    <3>2. QED BY <1>4, <1>6, <2>2, <3>1, UpdateReports
  <2>5. QED BY <1>1, <1>6, <2>3, <2>4, DoneStep
<1>7. QED BY <1>5, <1>6 DEF Query

LEMMA CancelStep ==
  ASSUME OrdersInv, Cancel
  PROVE  OrdersInv'
<1> DEFINE c == call["mon"].cid
<1>1. UNCHANGED <<trackerVars, call, batch>> /\ UNCHANGED <<brainVars, position, fired>>
  BY DEF Cancel, MonUnchanged
<1>2. c \in DOMAIN batch /\ c \in DOMAIN exch
  BY MonitorCall DEF Cancel
<1>3. PICK label \in {"mark", "sync"} : pc' = [pc EXCEPT !["mon"] = label]
  BY DEF Cancel, Goto
<1>4. (Live(c) /\ Ended(c, "CANCELED")) \/ (exch' = exch /\ stream' = stream)
  BY DEF Cancel, exchangeVars
<1>5. label = "mark" => Live(c) /\ Ended(c, "CANCELED")
  <2>1. pc'["mon"] = label
    BY <1>3, MonitorCall DEF OrdersInv, CallsTyped
  <2>2. (pc' = [pc EXCEPT !["mon"] = "sync"]) => pc'["mon"] = "sync"
    BY MonitorCall DEF OrdersInv, CallsTyped
  <2>3. QED BY <2>1, <2>2 DEF Cancel, Goto
<1>6. /\ Kept /\ ExchangeTyped' /\ Len(exch') = Len(exch) /\ stream' \in Seq(TrueMessages')
      /\ Live(c) /\ Ended(c, "CANCELED") => exch'[c].status = "CANCELED"
  <2>1. CASE Live(c) /\ Ended(c, "CANCELED")
    <3> HIDE DEF c
    <3>1. QED BY <1>2, <2>1, EndedKeeps DEF OrdersInv
  <2>2. CASE exch' = exch /\ stream' = stream
    <3>1. Kept /\ ExchangeTyped' /\ Len(exch') = Len(exch)
      BY <2>2, ExchangeUnchanged DEF OrdersInv
    <3>2. stream' \in Seq(TrueMessages')
      BY <2>2, <3>1, StillTold DEF OrdersInv
    <3>3. (Live(c) /\ Ended(c, "CANCELED")) => exch'[c].status = "CANCELED"
      BY <1>2, <2>1
    <3>4. QED BY <3>1, <3>2, <3>3
  <2>3. QED BY <1>4, <2>1, <2>2
<1>7. Remembered(orders, orders') /\ queue' \in Seq(TrueReports')
  BY <1>1, <1>6, TrackerIsOrderly, StillTold DEF OrdersInv, trackerVars
<1>8. PICK k : k = call["mon"]
  OBVIOUS
<1>9. /\ call' = [call EXCEPT !["mon"] = k] /\ k \in PendingCall /\ Sound(k.req)
      /\ k.cid \in DOMAIN batch'
      /\ label = "mark" => exch'[k.cid].status = "CANCELED"
  BY <1>1, <1>2, <1>5, <1>6, <1>8, MonitorCall
<1>10. label \in LabelsOf("mon") \ {"post", "register"} /\ label # "report"
  BY DEF LabelsOf, Labels
<1>11. QED BY <1>1, <1>3, <1>6, <1>7, <1>9, <1>10, BatchStays, MonitorStep

LEMMA SyncStep ==
  ASSUME OrdersInv, Sync
  PROVE  OrdersInv'
<1> DEFINE c == call["mon"].cid
<1>1. UNCHANGED exchangeVars /\ UNCHANGED <<brainVars, position, fired>> /\ Done(c)
  BY DEF Sync, MonUnchanged
<1>2. c \in DOMAIN orders /\ c \in DOMAIN exch /\ c \in Nat
  BY MonitorCall DEF Sync
<1>3. exch' = exch /\ Kept
  BY <1>1, ExchangeUnchanged DEF exchangeVars, OrdersInv
<1>4. queue \in Seq(TrueReports') /\ Orderly(orders)
  BY <1>3, StillTold, TrackerIsOrderly DEF OrdersInv
<1>5. Remembered(orders, orders') /\ queue' \in Seq(TrueReports')
  <2>1. CASE UNCHANGED trackerVars
    BY <1>4, <2>1, TrackerIsOrderly DEF OrdersInv, trackerVars
  <2>2. CASE Update(orders, c, exch[c].status, 0)
    <3>1. exch[c].status \in Statuses
      BY <1>2, OrderType DEF OrdersInv
    <3>2. 0 <= orders[c].quantity
      BY <1>2 DEF OrdersInv, TrackerTyped, Matches, Tracked
    <3>3. exch[c].status = exch'[c].status /\ c \in DOMAIN exch'
      BY <1>2, <1>3
    <3>4. Remembered(orders, orders')
      BY <1>4, <2>2, <3>1, <3>2, UpdatedRemembers DEF Update
    <3> HIDE DEF c
    <3>5. QED BY <1>2, <1>4, <2>2, <3>3, <3>4, UpdateReports
  <2>3. QED BY <2>1, <2>2 DEF Sync
<1> HIDE DEF c
<1>6. QED BY <1>1, <1>5, DoneStep

LEMMA MarkStep ==
  ASSUME OrdersInv, Mark
  PROVE  OrdersInv'
<1>1. UNCHANGED <<exchangeVars, queue, call, batch>> /\ UNCHANGED <<brainVars, position, fired>>
  BY DEF Mark, MonUnchanged
<1>2. Kept /\ ExchangeTyped' /\ Len(exch') = Len(exch)
  BY <1>1, ExchangeUnchanged DEF OrdersInv, exchangeVars
<1>3. stream' \in Seq(TrueMessages') /\ queue' \in Seq(TrueReports')
  BY <1>1, <1>2, StillTold DEF OrdersInv, exchangeVars
<1>4. PICK k : k = call["mon"]
  OBVIOUS
<1>5. /\ call' = [call EXCEPT !["mon"] = k] /\ k \in PendingCall /\ Sound(k.req)
      /\ k.cid \in DOMAIN batch' /\ k.cid \in DOMAIN orders
      /\ exch'[k.cid].status = "CANCELED"
  BY <1>1, <1>4, MonitorCall DEF Mark, exchangeVars
<1>6. Remembered(orders, orders') /\ orders'[k.cid].reported
  BY <1>4, <1>5, TrackerIsOrderly, MarkedRemembers DEF OrdersInv, Mark
<1>7. pc' = [pc EXCEPT !["mon"] = "report"]
  BY DEF Mark, Goto
<1>8. "report" \in LabelsOf("mon") \ {"post", "register"}
  BY DEF LabelsOf, Labels
<1>9. QED BY <1>1, <1>2, <1>3, <1>5, <1>6, <1>7, <1>8, BatchStays, MonitorStep

LEMMA CollectStep ==
  ASSUME OrdersInv, Collect
  PROVE  OrdersInv'
<1>1. UNCHANGED <<exchangeVars, trackerVars, call>> /\ UNCHANGED <<brainVars, position, fired>>
  BY DEF Collect, MonUnchanged
<1>2. exch' = exch /\ stream' = stream /\ orders' = orders /\ queue' = queue
  BY <1>1 DEF exchangeVars, trackerVars
<1>3. Kept /\ ExchangeTyped' /\ Len(exch') = Len(exch)
  BY <1>2, ExchangeUnchanged DEF OrdersInv
<1>4. stream' \in Seq(TrueMessages') /\ queue' \in Seq(TrueReports')
  BY <1>2, <1>3, StillTold DEF OrdersInv
<1>5. PICK label \in {"idle", "query"} : pc' = [pc EXCEPT !["mon"] = label]
  BY DEF Collect, Goto, Resume
<1>6. batch' = [c \in TimedOut(orders) |-> orders[c]]
  BY DEF Collect
<1>7. TrackerTyped'
  <2>1. DOMAIN batch' = TimedOut(orders) /\ TimedOut(orders) \subseteq DOMAIN orders
    BY <1>6 DEF TimedOut
  <2>2. \A c \in DOMAIN batch' : batch'[c] = orders[c]
    BY <1>6
  <2>3. batch' = [c \in DOMAIN batch' |-> batch'[c]]
    BY <1>6
  <2>4. \A c \in DOMAIN orders' : Matches(orders[c], c)'
    BY <1>2 DEF OrdersInv, TrackerTyped, Matches
  <2>5. \A c \in DOMAIN batch' :
          Matches(batch[c], c)' /\ batch'[c].attempts = orders'[c].attempts
    BY <1>2, <2>1, <2>2, <2>4 DEF Matches
  <2>6. QED BY <1>2, <2>1, <2>3, <2>4, <2>5 DEF OrdersInv, TrackerTyped
<1>8. label \in Labels /\ label \in LabelsOf("mon") /\ "mon" \in Threads
      /\ label \notin {"post", "register", "cancel", "sync", "mark", "report"}
  BY DEF LabelsOf, Labels, Threads
<1>9. CallsTyped'
  <2>1. PICK k : k = call["mon"]
    OBVIOUS
  <2>2. k \in PendingCall /\ Sound(k.req) /\ call' = [call EXCEPT !["mon"] = k]
    BY <1>1, <2>1, MonitorCall
  <2>3. Ready("mon", label, k)'
    BY <1>8, <2>2 DEF Ready, LabelsOf, Labels, Sound
  <2>4. QED BY <1>3, <1>5, <1>8, <2>2, <2>3, ThreadStep
<1>10. Steady
  <2>1. pc \in [Threads -> Labels]
    BY DEF OrdersInv, CallsTyped
  <2>2. pc'["mon"] = label /\ \A u \in Threads : u # "mon" => pc'[u] = pc[u]
    BY <1>5, <1>8, <2>1
  <2>3. \A u \in Threads : pc'[u] = "register" => pc[u] = "register" /\ call'[u] = call[u]
    BY <1>1, <1>8, <2>2
  <2>4. \A c \in DOMAIN batch' : ~orders[c].reported
    BY <1>6 DEF TimedOut, IsOpen
  <2>5. Remembered(orders, orders')
    BY <1>2, TrackerIsOrderly DEF OrdersInv
  <2>6. QED BY <1>3, <1>7, <1>8, <2>2, <2>3, <2>4, <2>5 DEF Steady
<1>11. RestTyped'
  BY <1>1 DEF OrdersInv, RestTyped, brainVars, Brain
<1>12. QED BY <1>3, <1>4, <1>9, <1>10, <1>11, SteadyStep

-----------------------------------------------------------------------------
(* The monitor's report of a cancel, and the order that is to follow.      *)

LEMMA FurtherType ==
  ASSUME NEW exec \in ExecutionSpec, NEW attempts \in Nat
  PROVE  Further(exec, attempts) \in Nat
<1>1. exec.max \in Nat
  BY DEF ExecutionSpec
<1>2. QED BY <1>1 DEF Further

\* A follow-up is an order of the canceled one's terms that uses up one of its chances.
LEMMA FollowUpType ==
  ASSUME OrdersInv, pc["mon"] = "report", FollowUp(call["mon"].cid).quantity > 0
  PROVE  LET c == call["mon"].cid
             req == FollowUp(c)
         IN  /\ req \in OrderRequest /\ Sound(req) /\ req.root = exch[c].root
             /\ Further(orders[c].exec, orders[c].attempts)
                  = 1 + Further(req.exec, req.attempts)
<1> DEFINE c == call["mon"].cid
           left == Ord.quantity - Ord.filled
<1>1. c \in DOMAIN batch /\ c \in DOMAIN orders /\ c \in DOMAIN exch
  BY MonitorCall
<1>2. /\ Ord = batch[c] /\ Ord \in Tracked /\ Ord.filled <= Ord.quantity
      /\ Ord.quantity = exch[c].quantity /\ Ord.reduceOnly = exch[c].reduceOnly
      /\ Ord.exec = orders[c].exec /\ Ord.attempts = orders[c].attempts
  BY <1>1 DEF Ord, OrdersInv, TrackerTyped, Matches
<1>3. /\ Ord.quantity \in Nat /\ Ord.filled \in Nat /\ Ord.reduceOnly \in BOOLEAN
      /\ Ord.exec \in ExecutionSpec /\ Ord.attempts \in Nat
  BY <1>2 DEF Tracked
<1>4. left \in Nat /\ left <= Ord.quantity
  BY <1>2, <1>3
<1>5. Sound(exch[c]) /\ exch[c].root \in Nat
  BY <1>1, OrderType DEF OrdersInv, ExchangeTyped, ExchangeOrder
<1>6. left <= IF Ord.reduceOnly THEN Lots * MaxOrders ELSE Lots
  BY <1>2, <1>3, <1>4, <1>5, SpecAssumption, BoundAssumption DEF Sound
<1>7. NoRequest.quantity = 0
  BY DEF NoRequest, Request
<1>8. TimeoutAction(Ord) \in {"reprice", "market"}
  <2>1. TimeoutAction(Ord) \notin {"reprice", "market"} => FollowUp(c) = NoRequest
    BY DEF FollowUp
  <2>2. QED BY <1>7, <2>1
<1> HIDE DEF left
<1>9. CASE TimeoutAction(Ord) = "reprice"
  <2> DEFINE req == Request(left, Ord.reduceOnly, Ord.exec, Ord.attempts + 1, exch[c].root)
  <2>1. FollowUp(c) = req
    BY <1>9 DEF FollowUp, left
  <2>2. req \in OrderRequest /\ Sound(req) /\ req.root = exch[c].root
        /\ req.exec = Ord.exec /\ req.attempts = Ord.attempts + 1
    BY <1>3, <1>4, <1>5, <1>6 DEF Request, OrderRequest, Sound
  <2>3. Ord.exec.policy = "REPRICE" /\ Ord.attempts < Ord.exec.max /\ Ord.exec.max \in Nat
    BY <1>3, <1>9 DEF TimeoutAction, ExecutionSpec
  <2>4. Further(Ord.exec, Ord.attempts) = 1 + Further(Ord.exec, Ord.attempts + 1)
    BY <1>3, <2>3 DEF Further
  <2> HIDE DEF req
  <2>5. QED BY <1>2, <2>1, <2>2, <2>4
<1>10. CASE TimeoutAction(Ord) = "market"
  <2> DEFINE req == Request(left, Ord.reduceOnly, MarketSpec, 0, exch[c].root)
  <2>1. FollowUp(c) = req
    BY <1>10 DEF FollowUp, left
  <2>2. req \in OrderRequest /\ Sound(req) /\ req.root = exch[c].root
        /\ req.exec = MarketSpec /\ req.attempts = 0
    BY <1>3, <1>4, <1>5, <1>6, MarketSpecType DEF Request, OrderRequest, Sound
  <2>3. Ord.exec.policy = "MARKET"
    BY <1>10 DEF TimeoutAction
  <2>4. Further(Ord.exec, Ord.attempts) = 1 /\ Further(MarketSpec, 0) = 0
    BY <2>3 DEF Further, MarketSpec
  <2> HIDE DEF req
  <2>5. QED BY <1>2, <2>1, <2>2, <2>4
<1>11. QED BY <1>8, <1>9, <1>10

LEMMA ChainFinite ==
  ASSUME ExchangeTyped, NEW r
  PROVE  IsFiniteSet(Chain(r)) /\ Cardinality(Chain(r)) \in Nat /\ Chain(r) \subseteq DOMAIN exch
<1>1. IsFiniteSet(DOMAIN exch) /\ Chain(r) \subseteq DOMAIN exch
  BY SignedOf DEF ExchangeTyped, Chain
<1>2. QED BY <1>1, FS_Subset, FS_CardinalityType

\* The report of the monitor's own cancel is true.
LEMMA ReportTells ==
  ASSUME OrdersInv, Report
  PROVE  queue' \in Seq(TrueReports')
<1> DEFINE c == call["mon"].cid
<1>1. pc["mon"] = "report" /\ exch' = exch
  BY DEF Report, exchangeVars
<1>2. /\ c \in DOMAIN batch /\ c \in DOMAIN exch /\ c \in Nat /\ exch[c].status = "CANCELED"
  BY <1>1, MonitorCall
<1>3. Ord.filled \in Nat /\ Ord.reduceOnly \in BOOLEAN
  BY <1>2 DEF Ord, OrdersInv, TrackerTyped, Matches, Tracked
<1>4. PICK u : u = [cid |-> c, status |-> "CANCELED", filled |-> Ord.filled,
                    reason |-> ReasonFor[TimeoutAction(Ord)], reduceOnly |-> Ord.reduceOnly]
  OBVIOUS
<1>5. queue' = Append(queue, u)
  BY <1>4 DEF Report, Publish
<1>6. ReasonFor[TimeoutAction(Ord)] \in Reasons
  <2>1. TimeoutAction(Ord) \in {"market", "reprice", "cancel"}
    BY DEF TimeoutAction
  <2>2. /\ ReasonFor["market"] = "timeout_market" /\ ReasonFor["reprice"] = "timeout_reprice"
        /\ ReasonFor["cancel"] = "timeout_abandoned"
    BY DEF ReasonFor
  <2>3. QED BY <2>1, <2>2 DEF Reasons
<1>7. u \in Queued
  BY <1>2, <1>3, <1>4, <1>6 DEF Queued, TerminalStatus
<1>8. Reported(u)'
  BY <1>1, <1>2, <1>4 DEF Reported, TerminalStatus
<1>9. u \in TrueReports'
  BY <1>7, <1>8 DEF TrueReports
<1>10. queue \in Seq(TrueReports')
  BY <1>1, ExchangeUnchanged, StillTold DEF OrdersInv
<1>11. QED BY <1>5, <1>9, <1>10, AppendProperties

LEMMA ReportStep ==
  ASSUME OrdersInv, Report
  PROVE  OrdersInv'
<1>1. pc["mon"] = "report" /\ UNCHANGED exchangeVars /\ orders' = orders
      /\ UNCHANGED <<brainVars, position, fired>>
  BY DEF Report, MonUnchanged
<1>2. exch' = exch /\ stream' = stream
  BY <1>1 DEF exchangeVars
<1>3. Kept /\ ExchangeTyped' /\ Len(exch') = Len(exch)
  BY <1>2, ExchangeUnchanged DEF OrdersInv
<1>4. stream' \in Seq(TrueMessages') /\ queue' \in Seq(TrueReports')
  BY <1>2, <1>3, ReportTells, StillTold DEF OrdersInv
<1>5. Remembered(orders, orders')
  BY <1>1, TrackerIsOrderly DEF OrdersInv
<1>6. PICK c : c = call["mon"].cid
  OBVIOUS
<1>7. CASE Done(c)
  BY <1>1, <1>4, <1>5, <1>7, DoneStep
<1>8. CASE /\ FollowUp(c).quantity > 0
           /\ batch' = [d \in DOMAIN batch \ {c} |-> batch[d]]
           /\ call' = [call EXCEPT !["mon"] = [NoCall EXCEPT !.req = FollowUp(c)]]
           /\ Goto("mon", "post")
  <2>1. /\ c \in DOMAIN batch /\ c \in DOMAIN orders /\ c \in DOMAIN exch
        /\ exch[c].status = "CANCELED" /\ exch[c].root \in DOMAIN exch
    BY <1>1, <1>6, MonitorCall, OrderType DEF OrdersInv
  <2>2. PICK req \in OrderRequest :
           /\ req = FollowUp(c) /\ Sound(req) /\ req.root = exch[c].root
           /\ Further(orders[c].exec, orders[c].attempts) = 1 + Further(req.exec, req.attempts)
    BY <1>1, <1>6, <1>8, FollowUpType
  <2>3. PICK k \in PendingCall : k = [NoCall EXCEPT !.req = req] /\ k.req = req
    BY NoCallType, CallWith
  <2>4. pc' = [pc EXCEPT !["mon"] = "post"] /\ call' = [call EXCEPT !["mon"] = k]
    BY <1>8, <2>2, <2>3 DEF Goto
  <2>5. /\ pc \in [Threads -> Labels] /\ call \in [Threads -> PendingCall] /\ "mon" \in Threads
        /\ pc'["mon"] = "post" /\ call'["mon"] = k
        /\ \A t \in Threads : t # "mon" => pc'[t] = pc[t] /\ call'[t] = call[t]
    BY <2>4 DEF OrdersInv, CallsTyped, Threads
  <2>6. TrackerTyped'
    BY <1>3, <1>5, <1>8, TrackerKeeps DEF OrdersInv
  <2>7. CallsTyped'
    <3>1. Ready("mon", "post", k)'
      BY <1>2, <2>1, <2>2, <2>3 DEF Ready, LabelsOf, Labels, Sound
    <3>2. "post" \in Labels
      BY DEF Labels
    <3>3. QED BY <1>3, <2>4, <2>5, <3>1, <3>2, ThreadStep
  <2>8. ~Succeeded(c)
    BY <2>1 DEF OrdersInv, Chased, Followed
  <2>9. Chased'
    <3>1. ASSUME NEW d \in DOMAIN exch', Followed(d)'
          PROVE  d \in DOMAIN orders' /\ orders'[d].reported /\ ~Live(d)' /\ d \notin DOMAIN batch'
      <4>1. d \in DOMAIN exch /\ (Followed(d) \/ exch[d].root = exch[c].root)
        BY <1>2, <2>2, <2>3, <2>5, <3>1 DEF Followed, Succeeded
      <4>2. CASE Followed(d)
        <5>1. d \in DOMAIN orders /\ orders[d].reported /\ ~Live(d) /\ d \notin DOMAIN batch
          BY <4>1, <4>2 DEF OrdersInv, Chased
        <5>2. QED BY <1>1, <1>2, <1>8, <5>1 DEF Live
      <4>3. CASE exch[d].root = exch[c].root /\ d = c
        <5>1. orders[c].reported /\ ~Live(c)
          BY <1>1, <1>6, <2>1 DEF OrdersInv, Chased, Live, OpenStatus
        <5>2. QED BY <1>1, <1>2, <1>8, <2>1, <4>3, <5>1 DEF Live
      <4>4. CASE exch[d].root = exch[c].root /\ d # c
        <5>1. d \in Nat /\ c \in Nat
          BY <2>1, <4>1, OrderType DEF OrdersInv
        <5>2. ~(c < d)
          BY <2>8, <4>1, <4>4 DEF Succeeded
        <5>3. Followed(d)
          BY <2>1, <4>4, <5>1, <5>2 DEF Followed, Succeeded
        <5>4. QED BY <4>2, <5>3
      <4>5. QED BY <4>1, <4>2, <4>3, <4>4
    <3>2. \A t \in Threads : pc'[t] = "register" => call'[t].cid \notin DOMAIN orders'
      BY <1>1, <2>5 DEF OrdersInv, Chased
    <3>3. \A t, u \in Threads : pc'[t] = "register" /\ pc'[u] = "register" /\ t # u =>
            call'[t].cid # call'[u].cid
      BY <2>5 DEF OrdersInv, Chased
    <3>4. QED BY <2>5, <3>1, <3>2, <3>3 DEF Chased
  <2>10. Budgeted'
    <3>1. \A r \in DOMAIN exch' : (Cardinality(Chain(r)) <= 1 + Further(exch[r].exec, 0))'
      BY <1>2 DEF OrdersInv, Budgeted, Chain, Further
    <3>2. \A r, n, exec, attempts : Within(r, n, exec, attempts) => Within(r, n, exec, attempts)'
      BY <1>2 DEF Within, Chain, Further
    <3>3. \A d \in DOMAIN orders' : ~Succeeded(d)' =>
             Within(exch[d].root, 0, orders[d].exec, orders[d].attempts)'
      BY <1>1, <1>2, <3>2 DEF OrdersInv, Budgeted, Succeeded, Within, Chain, Further
    <3>4. ASSUME NEW t \in Threads, pc'[t] = "register"
          PROVE  Within(exch[call[t].cid].root, 0, call[t].req.exec, call[t].req.attempts)'
      <4>1. pc[t] = "register" /\ call'[t] = call[t]
        BY <2>5, <3>4
      <4>2. PICK q, j : q = exch[call[t].cid].root /\ j = call[t]
        OBVIOUS
      <4>3. Within(q, 0, j.req.exec, j.req.attempts)
        BY <4>1, <4>2 DEF OrdersInv, Budgeted
      <4>4. Within(q, 0, j.req.exec, j.req.attempts)'
        BY <3>2, <4>3
      <4>5. exch'[call'[t].cid].root = q /\ call'[t] = j
        BY <1>2, <4>1, <4>2
      <4>6. QED BY <4>4, <4>5
    <3>5. Within(exch[c].root, 1, req.exec, req.attempts)
      <4>1. Within(exch[c].root, 0, orders[c].exec, orders[c].attempts)
        BY <2>1, <2>8 DEF OrdersInv, Budgeted
      <4>2. orders[c].exec \in ExecutionSpec /\ orders[c].attempts \in Nat
        BY <2>1 DEF OrdersInv, TrackerTyped, Matches, Tracked
      <4>3. Further(req.exec, req.attempts) \in Nat
        BY <2>2, FurtherType DEF OrderRequest
      <4>4. \A n : n + 0 + (1 + Further(req.exec, req.attempts))
                     = n + 1 + Further(req.exec, req.attempts) \/ n \notin Int
        BY <4>3
      <4>5. Cardinality(Chain(exch[c].root)) \in Int
        BY ChainFinite DEF OrdersInv
      <4>6. QED BY <2>2, <4>1, <4>4, <4>5 DEF Within
    <3>6. pc'["mon"] = "post" =>
            Within(call["mon"].req.root, 1, call["mon"].req.exec, call["mon"].req.attempts)'
      BY <1>2, <2>2, <2>3, <2>5, <3>5 DEF Within, Chain, Further
    <3>7. QED BY <3>1, <3>3, <3>4, <3>6 DEF Budgeted
  <2>11. RestTyped'
    BY <1>1 DEF OrdersInv, RestTyped, brainVars, Brain
  <2>12. QED BY <1>3, <1>4, <2>6, <2>7, <2>9, <2>10, <2>11 DEF OrdersInv, Ends
<1>9. QED BY <1>6, <1>7, <1>8 DEF Report

-----------------------------------------------------------------------------
(* Registering an order, and placing one.                                  *)

\* What register_order() is given for a call.
Answered(k) == [quantity |-> k.req.quantity,
                filled |-> IF k.status = "FILLED" THEN k.req.quantity ELSE 0,
                status |-> k.status, reduceOnly |-> k.req.reduceOnly,
                attempts |-> k.req.attempts, exec |-> k.req.exec, reported |-> FALSE]

LEMMA RegisterOrder ==
  ASSUME OrdersInv, NEW t \in Threads, pc[t] = "register", NEW order, NEW known,
         order = Answered(call[t]),
         known = Registered(orders, call[t].cid, order)
  PROVE  /\ call[t].cid \in DOMAIN exch /\ call[t].cid \notin DOMAIN orders
         /\ Matches(order, call[t].cid) /\ order.status \in Statuses
         /\ Orderly(known) /\ DOMAIN known = DOMAIN orders \cup {call[t].cid}
         /\ known[call[t].cid] = order
         /\ \A d \in DOMAIN orders : known[d] = orders[d]
         /\ call[t].status \in TerminalStatus => order.status = exch[call[t].cid].status
<1> DEFINE c == call[t].cid
<1>1. Ready(t, "register", call[t]) /\ call[t] \in PendingCall /\ c \notin DOMAIN orders
  BY DEF OrdersInv, CallsTyped, Chased
<1>2. call[t].req \in OrderRequest /\ call[t].status \in {"NEW", "FILLED"} /\ c \in Nat
  BY <1>1 DEF PendingCall
<1>3. /\ call[t].req.quantity \in Nat /\ call[t].req.reduceOnly \in BOOLEAN
      /\ call[t].req.exec \in ExecutionSpec /\ call[t].req.attempts \in Nat
  BY <1>2 DEF OrderRequest
<1>4. /\ c \in DOMAIN exch /\ exch[c].quantity = call[t].req.quantity
      /\ exch[c].reduceOnly = call[t].req.reduceOnly /\ exch[c].exec = call[t].req.exec
      /\ call[t].status = "FILLED" => exch[c].status = "FILLED"
  BY <1>1 DEF Ready
<1>5. order \in Tracked /\ order.filled <= order.quantity /\ order.status \in Statuses
  BY <1>2, <1>3 DEF Answered, Tracked, Statuses, OpenStatus, TerminalStatus
<1>6. Matches(order, c)
  BY <1>4, <1>5 DEF Matches, Answered
<1>7. /\ DOMAIN known = DOMAIN orders \cup {c} /\ known[c] = order
      /\ known = [d \in DOMAIN known |-> known[d]]
      /\ \A d \in DOMAIN orders : known[d] = orders[d]
  BY <1>1 DEF Registered
<1>8. Orderly(known)
  BY <1>5, <1>7, TrackerIsOrderly DEF OrdersInv, Orderly
<1>9. call[t].status \in TerminalStatus => order.status = exch[c].status
  BY <1>2, <1>4 DEF TerminalStatus, Answered
<1> HIDE DEF c
<1>10. QED BY <1>1, <1>4, <1>5, <1>6, <1>7, <1>8, <1>9 DEF c

LEMMA RegisterStep ==
  ASSUME OrdersInv, NEW t \in Threads, Register(t)
  PROVE  OrdersInv'
<1>1. PICK order, known, c :
        /\ c = call[t].cid
        /\ order = Answered(call[t])
        /\ known = Registered(orders, call[t].cid, order)
  OBVIOUS
<1>2. /\ pc[t] = "register"
      /\ IF call[t].status \in TerminalStatus THEN Update(known, c, call[t].status, order.filled)
                                              ELSE orders' = known /\ UNCHANGED queue
      /\ call' = [call EXCEPT ![t] = NoCall] /\ pc' = [pc EXCEPT ![t] = AfterCall(t, TRUE)]
      /\ UNCHANGED <<exchangeVars, brainVars, batch, position, fired, count>>
  BY <1>1 DEF Register, Goto, Answered
<1>3. exch' = exch /\ stream' = stream /\ batch' = batch
  BY <1>2 DEF exchangeVars
<1>4. /\ c \in DOMAIN exch /\ c \notin DOMAIN orders
      /\ Matches(order, c) /\ order.status \in Statuses
      /\ Orderly(known) /\ DOMAIN known = DOMAIN orders \cup {c}
      /\ known[c] = order /\ \A d \in DOMAIN orders : known[d] = orders[d]
      /\ call[t].status \in TerminalStatus => order.status = exch[c].status
  BY <1>1, <1>2, RegisterOrder
<1>5. order.filled \in Nat /\ order.filled <= order.quantity /\ order.status = call[t].status
      /\ order.attempts = call[t].req.attempts /\ order.exec = call[t].req.exec
  BY <1>1, <1>4 DEF Matches, Tracked, Answered
<1>6. Kept /\ ExchangeTyped' /\ Len(exch') = Len(exch)
  BY <1>3, ExchangeUnchanged DEF OrdersInv
<1>7. Remembered(known, orders')
  <2>1. CASE call[t].status \in TerminalStatus
    <3>1. orders' = Updated(known, c, call[t].status, order.filled)
      BY <1>2, <2>1 DEF Update
    <3>2. QED BY <1>4, <1>5, <3>1, UpdatedRemembers
  <2>2. CASE call[t].status \notin TerminalStatus
    BY <1>2, <1>4, <2>2 DEF Remembered
  <2>3. QED BY <2>1, <2>2
<1>8. stream' \in Seq(TrueMessages') /\ queue' \in Seq(TrueReports')
  <2>1. stream' \in Seq(TrueMessages') /\ queue \in Seq(TrueReports') /\ c \in Nat
    BY <1>3, <1>4, <1>6, StillTold, OrderType DEF OrdersInv
  <2>2. CASE call[t].status \in TerminalStatus
    <3>1. Update(known, c, call[t].status, order.filled)
      BY <1>2, <2>2
    <3>2. c \in DOMAIN exch' /\ call[t].status = exch'[c].status
      BY <1>3, <1>4, <1>5, <2>2
    <3>3. queue' \in Seq(TrueReports')
      BY <1>4, <1>5, <2>1, <3>1, <3>2, UpdateReports
    <3>4. QED BY <2>1, <3>3
  <2>3. CASE call[t].status \notin TerminalStatus
    BY <1>2, <2>1, <2>3
  <2>4. QED BY <2>2, <2>3
<1>9. /\ DOMAIN orders' = DOMAIN orders \cup {c}
      /\ \A d \in DOMAIN orders :
           /\ orders'[d].quantity = orders[d].quantity
           /\ orders'[d].reduceOnly = orders[d].reduceOnly
           /\ orders'[d].exec = orders[d].exec /\ orders'[d].attempts = orders[d].attempts
           /\ orders[d].reported => orders'[d].reported
      /\ orders'[c].quantity = order.quantity /\ orders'[c].reduceOnly = order.reduceOnly
      /\ orders'[c].exec = order.exec /\ orders'[c].attempts = order.attempts
  BY <1>4, <1>7 DEF Remembered
<1>10. TrackerTyped'
  <2>1. Orderly(orders')
    BY <1>7 DEF Remembered
  <2>2. ASSUME NEW d \in DOMAIN orders' PROVE Matches(orders[d], d)'
    <3>1. orders'[d] \in Tracked /\ orders'[d].filled <= orders'[d].quantity
      BY <2>1 DEF Orderly
    <3>2. CASE d = c
      BY <1>3, <1>4, <1>9, <3>1, <3>2 DEF Matches
    <3>3. CASE d # c
      <4>1. d \in DOMAIN orders /\ Matches(orders[d], d)
        BY <1>9, <2>2, <3>3 DEF OrdersInv, TrackerTyped
      <4>2. QED BY <1>3, <1>9, <3>1, <4>1 DEF Matches
    <3>4. QED BY <3>2, <3>3
  <2>3. ASSUME NEW d \in DOMAIN batch'
        PROVE  Matches(batch[d], d)' /\ batch'[d].attempts = orders'[d].attempts
    <3>1. d \in DOMAIN orders /\ Matches(batch[d], d) /\ batch[d].attempts = orders[d].attempts
      BY <1>3 DEF OrdersInv, TrackerTyped
    <3>2. QED BY <1>3, <1>9, <3>1 DEF Matches
  <2>4. DOMAIN orders' \subseteq DOMAIN exch' /\ DOMAIN batch' \subseteq DOMAIN orders'
    BY <1>3, <1>4, <1>9 DEF OrdersInv, TrackerTyped
  <2>5. orders' = [d \in DOMAIN orders' |-> orders'[d]]
        /\ batch' = [d \in DOMAIN batch' |-> batch'[d]]
    BY <1>3, <2>1 DEF Orderly, OrdersInv, TrackerTyped
  <2>6. QED BY <2>2, <2>3, <2>4, <2>5 DEF TrackerTyped
<1>11. PICK label \in LabelsOf(t) \cap {"idle", "arm", "publish", "query"} :
         pc' = [pc EXCEPT ![t] = label]
  <2>1. AfterCall(t, TRUE) \in LabelsOf(t) \cap {"idle", "arm", "publish", "query"}
    BY DEF AfterCall, LabelsOf, Labels, Threads, Resume
  <2>2. QED BY <1>2, <2>1
<1>12. /\ pc \in [Threads -> Labels] /\ call \in [Threads -> PendingCall] /\ "mon" \in Threads
       /\ pc'[t] = label /\ \A u \in Threads : u # t => pc'[u] = pc[u] /\ call'[u] = call[u]
  BY <1>2, <1>11 DEF OrdersInv, CallsTyped, Threads
<1>13. CallsTyped'
  <2>1. label \in Labels /\ Ready(t, label, NoCall)'
    BY <1>11, NoCallType DEF Ready, LabelsOf, Labels, Threads, Sound
  <2>2. QED BY <1>2, <1>3, <1>6, <1>11, <2>1, NoCallType, ThreadStep
<1>14. \A d \in DOMAIN exch : Followed(d)' <=> Followed(d)
  BY <1>2, <1>3, <1>11, <1>12 DEF Followed, Succeeded
<1>15. Chased'
  <2>1. ASSUME NEW d \in DOMAIN exch', Followed(d)'
        PROVE  d \in DOMAIN orders' /\ orders'[d].reported /\ ~Live(d)' /\ d \notin DOMAIN batch'
    <3>1. d \in DOMAIN orders /\ orders[d].reported /\ ~Live(d) /\ d \notin DOMAIN batch
      BY <1>3, <1>14, <2>1 DEF OrdersInv, Chased
    <3>2. QED BY <1>3, <1>9, <3>1 DEF Live
  <2>2. ASSUME NEW u \in Threads, pc'[u] = "register"
        PROVE  u # t /\ pc[u] = "register" /\ call'[u] = call[u]
    BY <1>11, <1>12, <2>2
  <2>3. ASSUME NEW u \in Threads, pc'[u] = "register" PROVE call'[u].cid \notin DOMAIN orders'
    <3>1. u # t /\ pc[u] = "register" /\ call'[u] = call[u]
      BY <2>2, <2>3
    <3>2. call[u].cid \notin DOMAIN orders /\ call[u].cid # c
      BY <1>1, <1>2, <3>1 DEF OrdersInv, Chased
    <3>3. QED BY <1>9, <3>1, <3>2
  <2>4. \A u, v \in Threads : pc'[u] = "register" /\ pc'[v] = "register" /\ u # v =>
          call'[u].cid # call'[v].cid
    BY <2>2 DEF OrdersInv, Chased
  <2>5. ASSUME pc'["mon"] = "report" PROVE orders'[call'["mon"].cid].reported
    <3>1. t # "mon" /\ pc["mon"] = "report" /\ call'["mon"] = call["mon"]
      BY <1>11, <1>12, <2>5
    <3>2. call["mon"].cid \in DOMAIN orders /\ orders[call["mon"].cid].reported
      BY <3>1, MonitorCall DEF OrdersInv, Chased
    <3>3. QED BY <1>9, <3>1, <3>2
  <2>6. QED BY <2>1, <2>3, <2>4, <2>5 DEF Chased
<1>16. Budgeted'
  <2>1. \A r \in DOMAIN exch' : (Cardinality(Chain(r)) <= 1 + Further(exch[r].exec, 0))'
    BY <1>3 DEF OrdersInv, Budgeted, Chain, Further
  <2>2. ASSUME NEW d \in DOMAIN orders', ~Succeeded(d)'
        PROVE  Within(exch[d].root, 0, orders[d].exec, orders[d].attempts)'
    <3>1. ~Succeeded(d)
      BY <1>3, <2>2 DEF Succeeded
    <3>2. CASE d = c
      <4>1. Within(exch[c].root, 0, order.exec, order.attempts)
        BY <1>1, <1>2, <1>5 DEF OrdersInv, Budgeted
      <4>2. QED BY <1>3, <1>9, <3>2, <4>1 DEF Within, Chain, Further
    <3>3. CASE d # c
      <4>1. d \in DOMAIN orders /\ Within(exch[d].root, 0, orders[d].exec, orders[d].attempts)
        BY <1>9, <2>2, <3>1, <3>3 DEF OrdersInv, Budgeted
      <4>2. QED BY <1>3, <1>9, <4>1 DEF Within, Chain, Further
    <3>4. QED BY <3>2, <3>3
  <2>3. ASSUME NEW u \in Threads, pc'[u] = "register"
        PROVE  Within(exch[call[u].cid].root, 0, call[u].req.exec, call[u].req.attempts)'
    <3>1. pc[u] = "register" /\ call'[u] = call[u]
      BY <1>11, <1>12, <2>3
    <3>2. Within(exch[call[u].cid].root, 0, call[u].req.exec, call[u].req.attempts)
      BY <3>1 DEF OrdersInv, Budgeted
    <3>3. QED BY <1>3, <3>1, <3>2 DEF Within, Chain, Further
  <2>4. ASSUME pc'["mon"] = "post"
        PROVE  Within(call["mon"].req.root, 1, call["mon"].req.exec, call["mon"].req.attempts)'
    <3>1. pc["mon"] = "post" /\ call'["mon"] = call["mon"]
      BY <1>11, <1>12, <2>4
    <3>2. Within(call["mon"].req.root, 1, call["mon"].req.exec, call["mon"].req.attempts)
      BY <3>1 DEF OrdersInv, Budgeted
    <3>3. QED BY <1>3, <3>1, <3>2 DEF Within, Chain, Further
  <2>5. QED BY <2>1, <2>2, <2>3, <2>4 DEF Budgeted
<1>17. RestTyped'
  BY <1>2 DEF OrdersInv, RestTyped, brainVars, Brain
<1>18. QED BY <1>6, <1>8, <1>10, <1>13, <1>15, <1>16, <1>17 DEF OrdersInv, Ends

\* The labels after a call that placed nothing.
LEMMA AfterRefusal ==
  ASSUME NEW t \in Threads
  PROVE  AfterCall(t, FALSE) \in LabelsOf(t) \cap {"idle", "publish", "query"}
BY DEF AfterCall, LabelsOf, Labels, Threads, Resume

LEMMA RefusedStep ==
  ASSUME OrdersInv, NEW t \in Threads, pc[t] = "post",
         UNCHANGED <<exchangeVars, trackerVars, brainVars, batch, position, fired>>,
         call' = call, pc' = [pc EXCEPT ![t] = AfterCall(t, FALSE)]
  PROVE  OrdersInv'
<1>1. /\ exch' = exch /\ stream' = stream /\ orders' = orders /\ queue' = queue
      /\ batch' = batch
  BY DEF exchangeVars, trackerVars
<1>2. Kept /\ ExchangeTyped' /\ Len(exch') = Len(exch)
  BY <1>1, ExchangeUnchanged DEF OrdersInv
<1>3. stream' \in Seq(TrueMessages') /\ queue' \in Seq(TrueReports')
  BY <1>1, <1>2, StillTold DEF OrdersInv
<1>4. PICK label \in LabelsOf(t) \cap {"idle", "publish", "query"} : pc' = [pc EXCEPT ![t] = label]
  BY AfterRefusal
<1>5. /\ pc \in [Threads -> Labels] /\ call \in [Threads -> PendingCall] /\ label \in Labels
      /\ pc'[t] = label /\ \A u \in Threads : u # t => pc'[u] = pc[u]
      /\ Ready(t, pc[t], call[t])
  BY <1>4 DEF OrdersInv, CallsTyped, Labels
<1>6. CallsTyped'
  <2>1. PICK k : k = call[t]
    OBVIOUS
  <2>2. k \in PendingCall /\ call' = [call EXCEPT ![t] = k]
    BY <1>5, <2>1
  <2>3. Ready(t, label, k)'
    BY <1>4, <1>5, <2>1 DEF Ready, LabelsOf, Labels, Threads, Sound
  <2>4. QED BY <1>1, <1>2, <1>4, <1>5, <2>2, <2>3, ThreadStep
<1>7. Steady
  <2>1. Remembered(orders, orders')
    BY <1>1, TrackerIsOrderly DEF OrdersInv
  <2>2. TrackerTyped'
    BY <1>1, <1>2, <2>1, TrackerKeeps DEF OrdersInv, TrackerTyped
  <2>3. "mon" \in Threads
    BY DEF Threads
  <2>4. \A u \in Threads : pc'[u] = "register" => pc[u] = "register" /\ call'[u] = call[u]
    BY <1>4, <1>5
  <2>5. pc["mon"] = "report" => orders[call["mon"].cid].reported
    BY DEF OrdersInv, Chased
  <2>6. QED BY <1>1, <1>2, <1>4, <1>5, <2>1, <2>2, <2>3, <2>4, <2>5 DEF Steady
<1>8. RestTyped'
  BY DEF OrdersInv, RestTyped, brainVars, Brain
<1>9. QED BY <1>2, <1>3, <1>6, <1>7, <1>8, SteadyStep

\* What the exchange makes of an order that it takes.
LEMMA TakenKeeps ==
  ASSUME OrdersInv, NEW t \in Threads, pc[t] = "post",
         NEW lots \in {0, call[t].req.quantity}, Taken(t, lots)
  PROVE  LET n == Len(exch) + 1
             req == call[t].req
         IN  /\ Kept /\ ExchangeTyped' /\ Len(exch') = n /\ n \in Nat
             /\ DOMAIN exch' = DOMAIN exch \cup {n} /\ n \notin DOMAIN exch
             /\ DOMAIN exch = 1..Len(exch)
             /\ \A c \in DOMAIN exch : exch'[c] = exch[c]
             /\ exch'[n].quantity = req.quantity /\ exch'[n].reduceOnly = req.reduceOnly
             /\ exch'[n].exec = req.exec
             /\ exch'[n].root = IF req.root = 0 THEN n ELSE req.root
             /\ lots # 0 => exch'[n].status = "FILLED"
             /\ stream' \in Seq(TrueMessages')
<1> DEFINE n == Len(exch) + 1
           req == call[t].req
           new == NewOrder(req)
           order == WithFill(new, lots)
<1>1. /\ exch \in Seq(ExchangeOrder) /\ Len(exch) \in Nat /\ DOMAIN exch = 1..Len(exch)
      /\ MaxOrders \in Nat /\ Len(exch) < MaxOrders /\ Net \in Nat
  BY LenProperties, BoundAssumption DEF OrdersInv, ExchangeTyped, Taken
<1>2. /\ Ready(t, "post", call[t]) /\ call[t] \in PendingCall
  BY DEF OrdersInv, CallsTyped
<1>3. req \in OrderRequest /\ Sound(req)
  BY <1>2 DEF PendingCall, Ready
<1>4. /\ req.quantity \in Nat /\ req.reduceOnly \in BOOLEAN /\ req.exec \in ExecutionSpec
      /\ req.root \in Nat /\ lots \in Nat /\ lots <= req.quantity
  BY <1>3 DEF OrderRequest
<1>5. req.root = 0 \/ req.root \in DOMAIN exch
  BY <1>2 DEF Ready
<1>6. /\ new \in ExchangeOrder /\ new.quantity = req.quantity
      /\ new.reduceOnly = req.reduceOnly /\ new.exec = req.exec /\ new.filled = 0
      /\ new.root = (IF req.root = 0 THEN n ELSE req.root) /\ new.root \in 1..n
  BY <1>1, <1>4, <1>5 DEF NewOrder, ExchangeOrder, Statuses, OpenStatus
<1>7. Trades(n, new, lots)
  BY DEF Taken
<1> HIDE DEF new, req
<1>8. /\ order \in ExchangeOrder /\ order.quantity = req.quantity
      /\ order.reduceOnly = req.reduceOnly /\ order.exec = req.exec /\ order.root = new.root
      /\ order.filled = lots
      /\ lots = req.quantity => order.status = "FILLED"
  <2>1. new.filled + lots <= new.quantity /\ new.filled + lots = lots
    BY <1>4, <1>6
  <2>2. QED BY <1>4, <1>6, <2>1, WithFillType
<1>9. n \notin DOMAIN exch /\ exch' = Append(exch, order)
  <2>1. n \notin DOMAIN exch
    BY <1>1
  <2> HIDE DEF n
  <2>2. exch' = IF n \in DOMAIN exch THEN [exch EXCEPT ![n] = order] ELSE Append(exch, order)
    BY <1>7 DEF Trades
  <2>3. QED BY <2>1, <2>2
<1>10. stream' = IF lots = 0 THEN stream
                 ELSE stream \o FillMessages(n, order, IF new.reduceOnly THEN Net - lots
                                                                      ELSE Net + lots)
  BY <1>7 DEF Trades
<1>11. new.reduceOnly => lots <= Net
  BY <1>7 DEF Trades
<1> HIDE DEF order
<1>12. /\ Signed(order) = IF new.reduceOnly THEN -lots ELSE lots
       /\ Net + Signed(order) = IF new.reduceOnly THEN Net - lots ELSE Net + lots
       /\ Net + Signed(order) \in Nat
  BY <1>1, <1>4, <1>6, <1>8, <1>11 DEF Signed
<1>13. order.filled <= order.quantity /\ Sound(order) /\ order.root \in 1..n
  BY <1>3, <1>4, <1>6, <1>8 DEF Sound
<1>14. /\ Kept /\ ExchangeTyped' /\ Len(exch') = n
       /\ DOMAIN exch' = DOMAIN exch \cup {n}
       /\ exch'[n] = order /\ \A c \in DOMAIN exch : exch'[c] = exch[c]
       /\ Net' = Net + Signed(order) /\ Net' \in 0..(Lots * MaxOrders)
  BY <1>1, <1>8, <1>9, <1>12, <1>13, AppendedKeeps DEF OrdersInv
<1>15. stream' \in Seq(TrueMessages')
  <2>1. stream \in Seq(TrueMessages')
    BY <1>14, StillTold DEF OrdersInv
  <2>2. FillMessages(n, order, Net') \in Seq(TrueMessages')
    <3>1. n \in 1..MaxOrders /\ exch' \in Seq(ExchangeOrder) /\ n \in DOMAIN exch'
      BY <1>1, <1>14 DEF Kept
    <3>2. QED BY <1>8, <1>13, <1>14, <3>1, FillMessagesTrue
  <2>3. stream \o FillMessages(n, order, Net') \in Seq(TrueMessages')
    BY <2>1, <2>2, ConcatProperties
  <2>4. QED BY <1>10, <1>12, <1>14, <2>1, <2>3
<1>16. lots # 0 => order.status = "FILLED"
  BY <1>8 DEF req
<1>17. QED BY <1>1, <1>6, <1>8, <1>9, <1>14, <1>15, <1>16 DEF req

\* A thread has placed an order, and goes on to register it or knows nothing of it.
LEMMA PlacedKeeps ==
  ASSUME OrdersInv, NEW t \in Threads, pc[t] = "post",
         NEW lots \in {0, call[t].req.quantity}, Taken(t, lots),
         UNCHANGED <<orders, batch>>,
         NEW label \in LabelsOf(t) \cap {"register", "idle", "publish", "query"},
         NEW k \in PendingCall, k.req = call[t].req,
         pc' = [pc EXCEPT ![t] = label], call' = [call EXCEPT ![t] = k],
         label = "register" => k.cid = Len(exch) + 1
  PROVE  TrackerTyped' /\ Chased' /\ Budgeted'
<1>1. PICK n, req, r :
        /\ n = Len(exch) + 1 /\ req = call[t].req /\ r = IF req.root = 0 THEN n ELSE req.root
  OBVIOUS
<1>2. /\ Kept /\ ExchangeTyped' /\ Len(exch') = n /\ n \in Nat
      /\ DOMAIN exch' = DOMAIN exch \cup {n} /\ n \notin DOMAIN exch
      /\ DOMAIN exch = 1..Len(exch)
      /\ \A c \in DOMAIN exch : exch'[c] = exch[c]
      /\ exch'[n].exec = req.exec /\ exch'[n].root = r
  BY <1>1, TakenKeeps
<1>3. orders' = orders /\ batch' = batch
  OBVIOUS
<1>4. TrackerTyped'
  BY <1>2, <1>3, TrackerIsOrderly, TrackerKeeps DEF OrdersInv, TrackerTyped
<1>5. /\ pc \in [Threads -> Labels] /\ call \in [Threads -> PendingCall] /\ "mon" \in Threads
      /\ pc'[t] = label /\ call'[t] = k
      /\ \A u \in Threads : u # t => pc'[u] = pc[u] /\ call'[u] = call[u]
      /\ \A u \in Threads : Ready(u, pc[u], call[u])
  BY DEF OrdersInv, CallsTyped, Threads
<1>6. /\ req \in OrderRequest /\ req.exec \in ExecutionSpec /\ req.attempts \in Nat
      /\ Further(req.exec, req.attempts) \in Nat
  <2>1. req \in OrderRequest
    BY <1>1, <1>5 DEF PendingCall
  <2>2. req.exec \in ExecutionSpec /\ req.attempts \in Nat
    BY <2>1 DEF OrderRequest
  <2>3. QED BY <2>1, <2>2, FurtherType
<1>7. /\ t = "mon" => r = req.root /\ r \in DOMAIN exch
      /\ t # "mon" => r = n /\ req.attempts = 0
  BY <1>1, <1>2, <1>5 DEF Ready
<1>8. \A c \in DOMAIN exch : c \in Nat /\ c < n /\ exch[c].root \in DOMAIN exch
  BY <1>1, <1>2, OrderType DEF OrdersInv
<1>9. \A q : Chain(q)' = IF q = r THEN Chain(q) \cup {n} ELSE Chain(q)
  BY <1>2 DEF Chain
<1>10. Chain(n) = {}
  BY <1>2, <1>8 DEF Chain
<1>11. \A q : Cardinality(Chain(q)') = Cardinality(Chain(q)) + (IF q = r THEN 1 ELSE 0)
              /\ Cardinality(Chain(q)) \in Nat
  <2>1. ASSUME NEW q
        PROVE  /\ Cardinality(Chain(q)') = Cardinality(Chain(q)) + (IF q = r THEN 1 ELSE 0)
               /\ Cardinality(Chain(q)) \in Nat
    <3>1. IsFiniteSet(Chain(q)) /\ Cardinality(Chain(q)) \in Nat /\ n \notin Chain(q)
      BY <1>2, ChainFinite DEF OrdersInv
    <3>2. Cardinality(Chain(q) \cup {n}) = Cardinality(Chain(q)) + 1
      BY <3>1, FS_AddElement
    <3>3. Chain(q)' = IF q = r THEN Chain(q) \cup {n} ELSE Chain(q)
      BY <1>9
    <3>4. CASE q = r
      BY <3>1, <3>2, <3>3, <3>4
    <3>5. CASE q # r
      BY <3>1, <3>3, <3>5
    <3>6. QED BY <3>4, <3>5
  <2>2. QED BY <2>1
<1>12. Cardinality(Chain(n)) = 0
  BY <1>10, FS_EmptySet
<1>13. \A c \in DOMAIN exch : Succeeded(c)' <=> Succeeded(c) \/ exch[c].root = r
  BY <1>2, <1>8 DEF Succeeded
<1>14. ~Succeeded(n)'
  BY <1>2, <1>8 DEF Succeeded
<1>15. pc'["mon"] = "post" =>
         t # "mon" /\ pc["mon"] = "post" /\ call'["mon"] = call["mon"]
         /\ call["mon"].req.root \in DOMAIN exch
  BY <1>5 DEF Ready
\* A chain that is being continued has no order still to be registered.
<1>16. \A c \in DOMAIN exch : exch[c].root = r => Followed(c)
  BY <1>1, <1>2, <1>7, <1>8 DEF Followed
<1>17. Chased'
  <2>1. ASSUME NEW c \in DOMAIN exch', Followed(c)'
        PROVE  c \in DOMAIN orders' /\ orders'[c].reported /\ ~Live(c)' /\ c \notin DOMAIN batch'
    <3>1. c # n
      BY <1>2, <1>7, <1>14, <1>15, <2>1 DEF Followed
    <3>2. c \in DOMAIN exch /\ Followed(c)
      BY <1>2, <1>13, <1>15, <1>16, <2>1, <3>1 DEF Followed
    <3>3. c \in DOMAIN orders /\ orders[c].reported /\ ~Live(c) /\ c \notin DOMAIN batch
      BY <3>2 DEF OrdersInv, Chased
    <3>4. QED BY <1>2, <1>3, <3>2, <3>3 DEF Live
  <2>2. ASSUME NEW u \in Threads, pc'[u] = "register"
        PROVE  /\ call'[u].cid \notin DOMAIN orders'
               /\ u = t => call'[u].cid = n
               /\ u # t => /\ pc[u] = "register" /\ call'[u] = call[u]
                           /\ call'[u].cid \in DOMAIN exch
    <3>1. CASE u = t
      BY <1>1, <1>2, <1>3, <1>5, <2>2, <3>1 DEF OrdersInv, TrackerTyped
    <3>2. CASE u # t
      <4>1. pc[u] = "register" /\ call'[u] = call[u]
        BY <1>5, <2>2, <3>2
      <4>2. call[u].cid \notin DOMAIN orders
        BY <4>1 DEF OrdersInv, Chased
      <4>3. call[u].cid \in DOMAIN exch
        BY <1>5, <4>1 DEF Ready
      <4>4. QED BY <1>3, <3>2, <4>1, <4>2, <4>3
    <3>3. QED BY <3>1, <3>2
  <2>3. ASSUME NEW u \in Threads, NEW v \in Threads, u # v,
               pc'[u] = "register", pc'[v] = "register"
        PROVE  call'[u].cid # call'[v].cid
    <3>1. CASE u # t /\ v # t
      BY <2>2, <2>3, <3>1 DEF OrdersInv, Chased
    <3>2. CASE u = t \/ v = t
      BY <1>2, <2>2, <2>3, <3>2
    <3>3. QED BY <3>1, <3>2
  <2>4. pc'["mon"] = "report" => orders'[call'["mon"].cid].reported
    BY <1>3, <1>5 DEF OrdersInv, Chased
  <2>5. QED BY <2>1, <2>2, <2>3, <2>4 DEF Chased
<1>18. ASSUME NEW q \in DOMAIN exch, q # r, NEW m, NEW exec, NEW attempts,
              Within(q, m, exec, attempts)
       PROVE  Within(q, m, exec, attempts)'
  <2>1. Chain(q)' = Chain(q) /\ exch'[q] = exch[q]
    BY <1>2, <1>9, <1>18
  <2>2. QED BY <1>18, <2>1 DEF Within, Further
<1>19. Budgeted'
  <2>1. ASSUME NEW q \in DOMAIN exch'
        PROVE  (Cardinality(Chain(q)) <= 1 + Further(exch[q].exec, 0))'
    <3>1. exch'[q].exec \in ExecutionSpec
      BY <1>2, <1>6, OrderType DEF OrdersInv
    <3>2. Further(exch'[q].exec, 0) \in Nat
      BY <3>1, FurtherType
    <3>3. CASE q = n
      BY <1>11, <1>12, <3>2, <3>3 DEF Further
    <3>4. CASE q # n /\ q = r
      <4>1. t = "mon" /\ r = req.root /\ r \in DOMAIN exch
        BY <1>7, <3>4
      <4>2. Cardinality(Chain(r)) + 1 + Further(req.exec, req.attempts)
              <= 1 + Further(exch[r].exec, 0)
        BY <1>1, <4>1 DEF OrdersInv, Budgeted, Within
      <4>3. exch'[q] = exch[r] /\ Further(exch[r].exec, 0) \in Nat
        BY <1>2, <3>2, <3>4, <4>1
      <4>4. Cardinality(Chain(q)') <= 1 + Further(exch[r].exec, 0)
        BY <1>6, <1>11, <3>4, <4>2, <4>3
      <4>5. QED BY <4>3, <4>4 DEF Further
    <3>5. CASE q # n /\ q # r
      <4>1. q \in DOMAIN exch /\ exch'[q] = exch[q] /\ Chain(q)' = Chain(q)
        BY <1>2, <1>9, <2>1, <3>5
      <4>2. QED BY <4>1 DEF OrdersInv, Budgeted, Further
    <3>6. QED BY <3>3, <3>4, <3>5
  <2>2. ASSUME NEW c \in DOMAIN orders', ~Succeeded(c)'
        PROVE  Within(exch[c].root, 0, orders[c].exec, orders[c].attempts)'
    <3>1. c \in DOMAIN orders /\ c \in DOMAIN exch /\ ~Succeeded(c) /\ exch[c].root # r
      BY <1>3, <1>13, <2>2 DEF OrdersInv, TrackerTyped
    <3>2. PICK q, order :
             /\ q \in DOMAIN exch /\ q = exch[c].root /\ order = orders[c]
             /\ Within(q, 0, order.exec, order.attempts)
      BY <1>8, <3>1 DEF OrdersInv, Budgeted
    <3>3. Within(q, 0, order.exec, order.attempts)'
      BY <1>18, <3>1, <3>2
    <3>4. QED BY <1>2, <1>3, <3>1, <3>2, <3>3
  <2>3. ASSUME NEW u \in Threads, pc'[u] = "register"
        PROVE  Within(exch[call[u].cid].root, 0, call[u].req.exec, call[u].req.attempts)'
    <3>1. CASE u = t
      <4>1. call'[u].cid = n /\ exch'[n].root = r /\ call'[u].req = req
        BY <1>1, <1>2, <1>5, <2>3, <3>1
      <4>2. Cardinality(Chain(r)') = Cardinality(Chain(r)) + 1
        BY <1>11
      <4>3. CASE t = "mon"
        <5>1. Cardinality(Chain(r)) + 1 + Further(req.exec, req.attempts)
                <= 1 + Further(exch[r].exec, 0)
          BY <1>1, <1>7, <4>3 DEF OrdersInv, Budgeted, Within
        <5>2. exch'[r] = exch[r]
          BY <1>2, <1>7, <4>3
        <5>3. Cardinality(Chain(r)') + 0 + Further(req.exec, req.attempts)
                <= 1 + Further(exch'[r].exec, 0)
          BY <1>6, <1>11, <4>2, <5>1, <5>2
        <5>4. QED BY <4>1, <5>3 DEF Within, Further
      <4>4. CASE t # "mon"
        <5>1. r = n /\ req.attempts = 0 /\ Cardinality(Chain(r)') = 1
          BY <1>7, <1>12, <4>2, <4>4
        <5>2. Cardinality(Chain(r)') + 0 + Further(req.exec, req.attempts)
                <= 1 + Further(exch'[r].exec, 0)
          BY <1>2, <1>6, <5>1
        <5>3. QED BY <4>1, <5>2 DEF Within, Further
      <4>5. QED BY <4>3, <4>4
    <3>2. CASE u # t
      <4>1. pc[u] = "register" /\ call'[u] = call[u]
        BY <1>5, <2>3, <3>2
      <4>2. PICK c, j : c \in DOMAIN exch /\ c = call[u].cid /\ j = call[u]
        BY <1>5, <4>1 DEF Ready
      <4>3. exch[c].root # r
        BY <1>16, <4>1, <4>2 DEF OrdersInv, Chased
      <4>4. PICK q \in DOMAIN exch : q = exch[c].root
        BY <1>8, <4>2
      <4>5. Within(q, 0, j.req.exec, j.req.attempts)
        BY <4>1, <4>2, <4>4 DEF OrdersInv, Budgeted
      <4>6. Within(q, 0, j.req.exec, j.req.attempts)'
        BY <1>18, <4>3, <4>4, <4>5
      <4>7. QED BY <1>2, <4>1, <4>2, <4>4, <4>6
    <3>3. QED BY <3>1, <3>2
  <2>4. ASSUME pc'["mon"] = "post"
        PROVE  Within(call["mon"].req.root, 1, call["mon"].req.exec, call["mon"].req.attempts)'
    <3>1. PICK q, j : q \in DOMAIN exch /\ j = call["mon"] /\ q = j.req.root
      BY <1>15, <2>4
    <3>2. Within(q, 1, j.req.exec, j.req.attempts)
      BY <1>15, <2>4, <3>1 DEF OrdersInv, Budgeted
    <3>3. q # r
      BY <1>2, <1>7, <1>15, <2>4, <3>1
    <3>4. Within(q, 1, j.req.exec, j.req.attempts)'
      BY <1>18, <3>1, <3>2, <3>3
    <3>5. QED BY <1>15, <2>4, <3>1, <3>4
  <2>5. QED BY <2>1, <2>2, <2>3, <2>4 DEF Budgeted
<1>20. QED BY <1>4, <1>17, <1>19

LEMMA PostStep ==
  ASSUME OrdersInv, NEW t \in Threads, Post(t)
  PROVE  OrdersInv'
<1>1. pc[t] = "post" /\ UNCHANGED <<trackerVars, brainVars, batch, position, fired>>
  BY DEF Post
<1>2. CASE Goto(t, AfterCall(t, FALSE)) /\ UNCHANGED <<exchangeVars, call>>
  BY <1>1, <1>2, RefusedStep DEF Goto
<1>3. ASSUME NEW lots \in {0, call[t].req.quantity}, Taken(t, lots),
             call' = [call EXCEPT ![t].cid = Len(exch) + 1,
                                  ![t].status = IF lots = 0 THEN "NEW" ELSE "FILLED"],
             Goto(t, "register")
      PROVE  OrdersInv'
  <2>1. PICK n, req : n = Len(exch) + 1 /\ req = call[t].req
    OBVIOUS
  <2>2. /\ Kept /\ ExchangeTyped' /\ n \in Nat
        /\ DOMAIN exch' = DOMAIN exch \cup {n}
        /\ exch'[n].quantity = req.quantity /\ exch'[n].reduceOnly = req.reduceOnly
        /\ exch'[n].exec = req.exec
        /\ lots # 0 => exch'[n].status = "FILLED"
        /\ stream' \in Seq(TrueMessages')
    BY <1>1, <1>3, <2>1, TakenKeeps
  <2>3. Ready(t, "post", call[t]) /\ call[t] \in PendingCall /\ call \in [Threads -> PendingCall]
    BY <1>1 DEF OrdersInv, CallsTyped
  <2>4. PICK k : k = [call[t] EXCEPT !.cid = n,
                                     !.status = IF lots = 0 THEN "NEW" ELSE "FILLED"]
    OBVIOUS
  <2>5. k \in PendingCall /\ k.req = req /\ k.cid = n /\ (k.status = "FILLED" => lots # 0)
    BY <2>1, <2>2, <2>3, <2>4 DEF PendingCall
  <2>6. call' = [call EXCEPT ![t] = k] /\ pc' = [pc EXCEPT ![t] = "register"]
    BY <1>3, <2>1, <2>3, <2>4 DEF Goto
  <2>7. "register" \in LabelsOf(t) /\ "register" \in Labels
    BY DEF LabelsOf, Labels, Threads
  <2>8. orders' = orders /\ queue' = queue /\ batch' = batch
    BY <1>1 DEF trackerVars
  <2>9. TrackerTyped' /\ Chased' /\ Budgeted'
    BY <1>1, <1>3, <2>1, <2>5, <2>6, <2>7, <2>8, PlacedKeeps
  <2>10. CallsTyped'
    <3>1. Sound(k.req) /\ (t # "mon" => k.req.root = 0 /\ k.req.attempts = 0)
      BY <2>1, <2>3, <2>5 DEF Ready
    <3>2. Ready(t, "register", k)'
      BY <2>2, <2>5, <2>7, <3>1 DEF Ready, LabelsOf, Labels, Sound
    <3>3. QED BY <2>2, <2>5, <2>6, <2>7, <2>8, <3>2, ThreadStep
  <2>11. queue' \in Seq(TrueReports')
    BY <2>2, <2>8, StillTold DEF OrdersInv
  <2>12. RestTyped'
    BY <1>1 DEF OrdersInv, RestTyped, brainVars, Brain
  <2>13. QED BY <2>2, <2>9, <2>10, <2>11, <2>12 DEF OrdersInv, Ends
<1>4. QED BY <1>2, <1>3 DEF Post

LEMMA PostUnansweredStep ==
  ASSUME OrdersInv, NEW t \in Threads, PostUnanswered(t)
  PROVE  OrdersInv'
<1>1. /\ pc[t] = "post" /\ UNCHANGED <<trackerVars, brainVars, batch, position, fired>>
      /\ call' = call
  BY DEF PostUnanswered
<1>2. PICK lots \in {0, call[t].req.quantity} : Taken(t, lots)
  BY DEF PostUnanswered
<1>3. PICK label \in LabelsOf(t) \cap {"idle", "publish", "query"} : pc' = [pc EXCEPT ![t] = label]
  BY AfterRefusal DEF PostUnanswered, Goto
<1>4. PICK k : k = call[t]
  OBVIOUS
<1>5. /\ Ready(t, "post", k) /\ k \in PendingCall /\ k.req = call[t].req
      /\ call' = [call EXCEPT ![t] = k]
  BY <1>1, <1>4 DEF OrdersInv, CallsTyped
<1>6. /\ Kept /\ ExchangeTyped' /\ stream' \in Seq(TrueMessages')
  BY <1>1, <1>2, TakenKeeps
<1>7. orders' = orders /\ queue' = queue /\ batch' = batch
  BY <1>1 DEF trackerVars
<1>8. TrackerTyped' /\ Chased' /\ Budgeted'
  <2>1. label \in LabelsOf(t) \cap {"register", "idle", "publish", "query"} /\ label # "register"
    OBVIOUS
  <2>2. QED BY <1>1, <1>2, <1>3, <1>5, <1>7, <2>1, PlacedKeeps
<1>9. CallsTyped'
  <2>1. label \in Labels
    BY DEF LabelsOf, Labels, Threads
  <2>2. Ready(t, label, k)'
    BY <1>3, <1>5 DEF Ready, LabelsOf, Labels, Sound
  <2>3. QED BY <1>3, <1>5, <1>6, <1>7, <2>1, <2>2, ThreadStep
<1>10. queue' \in Seq(TrueReports')
  BY <1>6, <1>7, StillTold DEF OrdersInv
<1>11. RestTyped'
  BY <1>1 DEF OrdersInv, RestTyped, brainVars, Brain
<1>12. QED BY <1>6, <1>8, <1>9, <1>10, <1>11 DEF OrdersInv, Ends

-----------------------------------------------------------------------------
(* The theorems.                                                           *)

LEMMA StutterKeeps == OrdersInv /\ UNCHANGED vars => OrdersInv'
<1> SUFFICES ASSUME OrdersInv, UNCHANGED vars PROVE OrdersInv'
  OBVIOUS
<1>1. /\ exch' = exch /\ stream' = stream /\ orders' = orders /\ queue' = queue
      /\ UNCHANGED threadVars /\ UNCHANGED <<brainVars, position, fired>>
  BY DEF vars, exchangeVars, trackerVars
<1>2. Kept /\ ExchangeTyped' /\ Len(exch') = Len(exch)
  BY <1>1, ExchangeUnchanged DEF OrdersInv
<1>3. Remembered(orders, orders')
  BY <1>1, TrackerIsOrderly DEF OrdersInv
<1>4. Steady /\ CallsTyped'
  BY <1>1, <1>2, <1>3, RestingStep, ThreadsRest
<1>5. stream' \in Seq(TrueMessages') /\ queue' \in Seq(TrueReports')
  BY <1>1, <1>2, StillTold DEF OrdersInv
<1>6. RestTyped'
  BY <1>1 DEF OrdersInv, RestTyped, brainVars, Brain
<1>7. QED BY <1>2, <1>4, <1>5, <1>6, SteadyStep

\* The invariant holds whatever the four threads, the exchange and the connection do.
THEOREM OrdersInvariant == Spec => []OrdersInv
<1>1. Init => OrdersInv
  BY InvariantInitially
<1>2. OrdersInv /\ [Next]_vars => OrdersInv'
  <2>1. SUFFICES ASSUME OrdersInv, Next PROVE OrdersInv'
    BY StutterKeeps
  <2>2. ASSUME NEW t \in Threads, Calls(t) PROVE OrdersInv'
    BY <2>1, <2>2, PostStep, PostUnansweredStep, RegisterStep DEF Calls
  <2>3. CASE Rx
    BY <2>1, <2>2, <2>3, RxTakeStep, RxCheckOpenStep, RxArmStep DEF Rx, Threads
  <2>4. CASE Main
    BY <2>1, <2>2, <2>4, PumpStep, CheckStopStep, PublishKlineStep DEF Main, Threads
  <2>5. CASE Monitor
    BY <2>1, <2>2, <2>5, CollectStep, QueryStep, CancelStep, SyncStep, MarkStep, ReportStep
       DEF Monitor, Threads
  <2>6. CASE Exchange
    BY <2>1, <2>6, TradeStep, ExpireStep DEF Exchange
  <2>7. CASE Stream
    BY <2>1, <2>7, DeliverStep, DisconnectStep DEF Stream
  <2>8. QED BY <2>1, <2>3, <2>4, <2>5, <2>6, <2>7 DEF Next
<1>3. QED BY <1>1, <1>2, PTL DEF Spec

(***************************************************************************)
(* Type correctness: whatever the stream, the monitor and the two callers  *)
(* of place_order_internal() do in between, the tracker holds only orders  *)
(* that the exchange has accepted, at the size it accepted, and the net    *)
(* position never exceeds what all orders together may hold.               *)
(***************************************************************************)
THEOREM LiveOrdersTypes == Spec => []TypeOK
<1>1. OrdersInv => TypeOK
  <2>1. SUFFICES ASSUME OrdersInv PROVE TypeOK
    OBVIOUS
  <2>2. \A i \in DOMAIN stream : stream[i] \in Messages
    <3>1. stream \in Seq(TrueMessages) /\ TrueMessages \subseteq Messages
      BY <2>1 DEF OrdersInv, Ends, TrueMessages
    <3>2. QED BY <3>1, LenProperties, ElementOfSeq
  <2>3. pc \in [Threads -> {"idle", "flat", "post", "register", "arm", "publish",
                            "query", "cancel", "sync", "mark", "report"}]
    BY <2>1 DEF OrdersInv, CallsTyped, Labels
  <2>4. QED BY <2>1, <2>2, <2>3 DEF OrdersInv, TypeOK, TrackerTyped, Matches, RestTyped
<1>2. QED BY <1>1, OrdersInvariant, PTL

(***************************************************************************)
(* What on_order_update(), the status query and the monitor's own cancel   *)
(* tell the brain of an order's end is how the order ended on the          *)
(* exchange: the cancel is reported only once the exchange has confirmed   *)
(* it, and an ended order does not change any more.                        *)
(***************************************************************************)
THEOREM EndsAreReportedTruly == Spec => []ReportedEndIsTrue
<1>1. OrdersInv => ReportedEndIsTrue
  <2>1. SUFFICES ASSUME OrdersInv, NEW i \in DOMAIN queue
                 PROVE  queue[i].status = exch[queue[i].cid].status
    BY DEF ReportedEndIsTrue
  <2>2. queue[i] \in TrueReports
    BY <2>1, LenProperties, ElementOfSeq DEF OrdersInv, Ends
  <2>3. QED BY <2>2 DEF TrueReports, Reported
<1>2. QED BY <1>1, OrdersInvariant, PTL

(***************************************************************************)
(* A chase never has two orders working: an order is followed by another   *)
(* only after the monitor's cancel of it was confirmed                     *)
(* (binance_live_executor.cpp:504-531).                                    *)
(***************************************************************************)
THEOREM ChasesWorkOneOrder == Spec => []OneLiveOrderPerChain
<1>1. OrdersInv => OneLiveOrderPerChain
  <2>1. SUFFICES ASSUME OrdersInv, NEW c \in DOMAIN exch, NEW d \in DOMAIN exch, c # d,
                        exch[c].root = exch[d].root
                 PROVE  ~(Live(c) /\ Live(d))
    BY DEF OneLiveOrderPerChain
  <2>2. c \in Nat /\ d \in Nat
    BY <2>1, OrderType DEF OrdersInv
  <2>3. CASE c < d
    BY <2>1, <2>3 DEF OrdersInv, Chased, Followed, Succeeded
  <2>4. CASE d < c
    BY <2>1, <2>4 DEF OrdersInv, Chased, Followed, Succeeded
  <2>5. QED BY <2>1, <2>2, <2>3, <2>4
<1>2. QED BY <1>1, OrdersInvariant, PTL

(***************************************************************************)
(* A chase ends: max_reprice_attempts further orders, or the one market    *)
(* order, however often the orders time out and whatever answers are lost  *)
(* (binance_live_executor.cpp:487-494).                                    *)
(***************************************************************************)
THEOREM ChasesEnd == Spec => []ChaseBounded
<1>1. OrdersInv => ChaseBounded
  <2>1. SUFFICES ASSUME OrdersInv, NEW c \in DOMAIN exch
                 PROVE  Cardinality(Chain(c)) <=
                          1 + (CASE exch[c].exec.policy = "REPRICE" -> exch[c].exec.max
                                 [] exch[c].exec.policy = "MARKET" -> 1
                                 [] OTHER -> 0)
    BY DEF ChaseBounded
  <2>2. Cardinality(Chain(c)) <= 1 + Further(exch[c].exec, 0)
    BY <2>1 DEF OrdersInv, Budgeted
  <2>3. exch[c].exec.max \in Nat
    BY <2>1, OrderType DEF OrdersInv, ExecutionSpec
  <2>4. Further(exch[c].exec, 0) = (CASE exch[c].exec.policy = "REPRICE" -> exch[c].exec.max
                                      [] exch[c].exec.policy = "MARKET" -> 1
                                      [] OTHER -> 0)
    BY <2>3 DEF Further
  <2>5. QED BY <2>2, <2>4
<1>2. QED BY <1>1, OrdersInvariant, PTL
=============================================================================
