-------------------------- MODULE Research_proofs ---------------------------
(***************************************************************************)
(* What the research side keeps for any data, any configuration and any    *)
(* number of training runs, each of which may stop anywhere: the saved     *)
(* model and its feature list belong together, the folds of the evaluator  *)
(* keep the rows that are scored apart from those that are trained on, and *)
(* the sizers of execution/sizers.py keep the budgets they are configured  *)
(* with, whatever the equity, the price and the stop are.  The second half *)
(* is about the operators of a study: sums and extremes, the columns of a  *)
(* frame, the labels, and what a tracker of the stream holds.              *)
(***************************************************************************)
EXTENDS Evaluation, ParamSweep, Labelers, Sizers, FiniteSetTheorems, FunctionTheorems,
        SequenceTheorems, WellFoundedInduction, TLAPS

-----------------------------------------------------------------------------
(* Numbers.                                                                *)

\* The larger and the smaller of two numbers.
LEMMA MaxOfTwo ==
  ASSUME NEW a \in Int, NEW b \in Int
  PROVE  Max({a, b}) = IF a >= b THEN a ELSE b
BY DEF Max

LEMMA MinOfTwo ==
  ASSUME NEW a \in Int, NEW b \in Int
  PROVE  Min({a, b}) = IF a <= b THEN a ELSE b
BY DEF Min

\* A floored quotient, multiplied back, does not exceed what was divided.
LEMMA Floored ==
  ASSUME NEW a \in Nat, NEW b \in Nat \ {0}
  PROVE  /\ a \div b \in Nat
         /\ (a \div b) * b <= a
OBVIOUS

LEMMA TimesMonotone ==
  ASSUME NEW x \in Nat, NEW y \in Nat, NEW z \in Nat, x <= y
  PROVE  x * z <= y * z
OBVIOUS

LEMMA ProductPositive ==
  ASSUME NEW a \in Nat \ {0}, NEW b \in Nat \ {0}
  PROVE  a * b \in Nat \ {0}
OBVIOUS

\* A common positive factor can be taken out of an inequality.
LEMMA FactorOut ==
  ASSUME NEW x \in Nat, NEW y \in Nat, NEW z \in Nat \ {0}, x * z <= y * z
  PROVE  x <= y
<1>1. SUFFICES ASSUME y + 1 <= x PROVE FALSE
  OBVIOUS
<1>2. (y + 1) * z <= x * z
  BY <1>1, TimesMonotone
<1>3. (y + 1) * z = y * z + z
  OBVIOUS
<1>4. x * z \in Nat /\ y * z \in Nat
  OBVIOUS
<1>5. QED BY <1>2, <1>3, <1>4

NatOrder == OpToRel(<, Nat)

\* A non-empty set of natural numbers has a least member.
LEMMA LeastNat ==
  ASSUME NEW T, T \subseteq Nat, T # {}
  PROVE  \E x \in T : \A y \in T : x <= y
<1>1. \E x \in T : \A y \in T : ~(<<y, x>> \in NatOrder)
  BY WFMin, NatLessThanWellFounded, Zenon DEF NatOrder
<1>2. PICK x \in T : \A y \in T : ~(<<y, x>> \in NatOrder)
  BY <1>1
<1>3. ASSUME NEW y \in T PROVE x <= y
  <2>1. ~(y < x)
    BY <1>2, <1>3 DEF NatOrder, OpToRel
  <2>2. QED BY <2>1, <1>3
<1>4. QED BY <1>2, <1>3

-----------------------------------------------------------------------------
(* Sorting.                                                                *)

\* The element with the smaller key has fewer before it.
LEMMA RankGrows ==
  ASSUME NEW S, IsFiniteSet(S), NEW key \in [S -> Int], NEW x \in S, NEW y \in S, key[x] < key[y]
  PROVE  /\ Rank(S, key, x) \in Nat /\ Rank(S, key, y) \in Nat
         /\ Rank(S, key, x) < Rank(S, key, y)
<1> DEFINE A == {z \in S : key[z] < key[x]}
           B == {z \in S : key[z] < key[y]}
<1>1. IsFiniteSet(A) /\ IsFiniteSet(B) /\ Cardinality(A) \in Nat /\ Cardinality(B) \in Nat
  <2>1. A \in SUBSET S /\ B \in SUBSET S
    OBVIOUS
  <2> HIDE DEF A, B
  <2>2. QED BY <2>1, FS_Subset, FS_CardinalityType
<1>2. A \cup {x} \in SUBSET B /\ x \notin A
  OBVIOUS
<1> HIDE DEF A, B
<1>3. Cardinality(A \cup {x}) = Cardinality(A) + 1
  BY <1>1, <1>2, FS_AddElement
<1>4. Cardinality(A \cup {x}) <= Cardinality(B)
  BY <1>1, <1>2, FS_Subset
<1>5. QED BY <1>1, <1>3, <1>4 DEF Rank, A, B

\* At most all the others come before an element.
LEMMA RankBelow ==
  ASSUME NEW S, IsFiniteSet(S), NEW key \in [S -> Int], NEW x \in S
  PROVE  Rank(S, key, x) \in 0 .. Cardinality(S) - 1
<1> DEFINE A == {z \in S : key[z] < key[x]}
<1>1. A \in SUBSET (S \ {x}) /\ S \ {x} \in SUBSET S
  OBVIOUS
<1> HIDE DEF A
<1>2. IsFiniteSet(S \ {x}) /\ Cardinality(S \ {x}) = Cardinality(S) - 1
  BY FS_RemoveElement
<1>3. IsFiniteSet(A) /\ Cardinality(A) <= Cardinality(S \ {x})
  BY <1>1, <1>2, FS_Subset
<1>4. Cardinality(A) \in Nat /\ Cardinality(S) \in Nat
  BY <1>3, FS_CardinalityType
<1>5. QED BY <1>2, <1>3, <1>4 DEF Rank, A

\* Every place of the order is taken.
LEMMA RankTaken ==
  ASSUME NEW S, IsFiniteSet(S), NEW key \in [S -> Int],
         \A x, y \in S : key[x] = key[y] => x = y,
         NEW k \in 1..Cardinality(S)
  PROVE  \E x \in S : Rank(S, key, x) = k - 1
<1> DEFINE T == 0 .. Cardinality(S) - 1
           rank == [x \in S |-> Rank(S, key, x)]
<1>1. Cardinality(S) \in Nat
  BY FS_CardinalityType
<1>2. IsFiniteSet(T) /\ Cardinality(T) = Cardinality(S)
  <2> DEFINE n == Cardinality(S) - 1
  <2>1. 0 \in Int /\ n \in Int /\ (IF 0 > n THEN 0 ELSE n - 0 + 1) = Cardinality(S)
    BY <1>1
  <2> HIDE DEF n
  <2>2. IsFiniteSet(0..n) /\ Cardinality(0..n) = Cardinality(S)
    BY <2>1, FS_Interval
  <2>3. QED BY <2>2 DEF n
<1>3. rank \in [S -> T]
  BY RankBelow
<1>4. ASSUME NEW x \in S, NEW y \in S, rank[x] = rank[y] PROVE x = y
  <2>1. Rank(S, key, x) = Rank(S, key, y)
    BY <1>4
  <2>2. ~(key[x] < key[y]) /\ ~(key[y] < key[x])
    BY <2>1, RankGrows
  <2>3. key[x] \in Int /\ key[y] \in Int
    OBVIOUS
  <2>4. QED BY <2>2, <2>3
<1> HIDE DEF rank, T
<1>5. rank \in Injection(S, T)
  BY <1>3, <1>4 DEF Injection, IsInjective
<1>6. rank \in Surjection(S, T)
  BY <1>2, <1>5, FS_Injection
<1>7. k - 1 \in T
  BY <1>1 DEF T
<1>8. PICK x \in S : rank[x] = k - 1
  BY <1>6, <1>7 DEF Surjection
<1>9. QED BY <1>8 DEF rank

(***************************************************************************)
(* Sorting puts every element in one place, the smaller keys before the    *)
(* larger ones.                                                            *)
(***************************************************************************)
LEMMA SortedByKey ==
  ASSUME NEW S, IsFiniteSet(S), NEW key \in [S -> Int],
         \A x, y \in S : key[x] = key[y] => x = y
  PROVE  /\ Cardinality(S) \in Nat
         /\ SortedBy(S, key) \in [1..Cardinality(S) -> S]
         /\ SortedBy(S, key) \in Seq(S) /\ Len(SortedBy(S, key)) = Cardinality(S)
         /\ \A x \in S : LET k == Rank(S, key, x) + 1
                         IN k \in 1..Cardinality(S) /\ SortedBy(S, key)[k] = x
         /\ \A j, k \in 1..Cardinality(S) : j < k => key[SortedBy(S, key)[j]] < key[SortedBy(S, key)[k]]
<1> DEFINE n == Cardinality(S)
           s == SortedBy(S, key)
<1>1. n \in Nat
  BY FS_CardinalityType
<1>2. ASSUME NEW k \in 1..n PROVE s[k] \in S /\ Rank(S, key, s[k]) = k - 1
  <2>1. \E x \in S : Rank(S, key, x) = k - 1
    BY <1>2, RankTaken
  <2>2. s[k] = CHOOSE x \in S : Rank(S, key, x) = k - 1
    BY DEF SortedBy
  <2> HIDE DEF s
  <2>3. QED BY <2>1, <2>2
<1>3. s \in [1..n -> S]
  <2>1. s = [k \in 1..n |-> s[k]]
    BY DEF SortedBy
  <2> HIDE DEF s, n
  <2>2. QED BY <1>2, <2>1
<1> HIDE DEF s, n
<1>4. s \in Seq(S) /\ Len(s) = n
  BY <1>1, <1>3
<1>5. ASSUME NEW x \in S
      PROVE  LET k == Rank(S, key, x) + 1 IN k \in 1..n /\ s[k] = x
  <2> DEFINE k == Rank(S, key, x) + 1
  <2>1. k \in 1..n /\ Rank(S, key, x) = k - 1
    BY <1>1, RankBelow DEF n
  <2> HIDE DEF k
  <2>2. s[k] \in S /\ Rank(S, key, s[k]) = Rank(S, key, x)
    BY <1>2, <2>1
  <2>3. ~(key[x] < key[s[k]]) /\ ~(key[s[k]] < key[x])
    BY <2>2, RankGrows
  <2>4. key[x] \in Int /\ key[s[k]] \in Int
    BY <2>2
  <2>5. s[k] = x
    BY <2>2, <2>3, <2>4
  <2>6. QED BY <2>1, <2>5 DEF k
<1>6. ASSUME NEW j \in 1..n, NEW k \in 1..n, j < k PROVE key[s[j]] < key[s[k]]
  <2>1. /\ s[j] \in S /\ s[k] \in S
        /\ Rank(S, key, s[j]) = j - 1 /\ Rank(S, key, s[k]) = k - 1
    BY <1>2
  <2>2. key[s[j]] \in Int /\ key[s[k]] \in Int
    BY <2>1
  <2>3. j \in Int /\ k \in Int /\ ~(k - 1 < j - 1) /\ j - 1 # k - 1
    BY <1>1, <1>6
  <2>4. ~(key[s[k]] < key[s[j]])
    BY <2>1, <2>3, RankGrows
  <2>5. key[s[k]] # key[s[j]]
    BY <2>1, <2>3
  <2>6. QED BY <2>2, <2>4, <2>5
<1>7. QED BY <1>1, <1>3, <1>4, <1>5, <1>6 DEF s, n

LEMMA SortedAscending ==
  ASSUME NEW S, S \subseteq Int, IsFiniteSet(S)
  PROVE  /\ Cardinality(S) \in Nat
         /\ Ascending(S) \in [1..Cardinality(S) -> S]
         /\ Ascending(S) \in Seq(S) /\ Len(Ascending(S)) = Cardinality(S)
         /\ \A x \in S : \E k \in 1..Cardinality(S) : Ascending(S)[k] = x
         /\ \A j, k \in 1..Cardinality(S) : j < k => Ascending(S)[j] < Ascending(S)[k]
<1> DEFINE key == [x \in S |-> x]
<1>1. key \in [S -> Int] /\ \A x, y \in S : key[x] = key[y] => x = y
  OBVIOUS
<1>2. ASSUME NEW j \in S PROVE key[j] = j
  OBVIOUS
<1> HIDE DEF key
<1>3. \A x, y \in S : key[x] = key[y] => x = y
  BY <1>1
<1>4. key \in [S -> Int]
  BY <1>1
<1> DEFINE s == SortedBy(S, key)
<1>5. Cardinality(S) \in Nat /\ s \in [1..Cardinality(S) -> S]
  BY <1>3, <1>4, SortedByKey
<1>6. s \in Seq(S) /\ Len(s) = Cardinality(S)
  BY <1>3, <1>4, SortedByKey
<1>7. ASSUME NEW x \in S PROVE \E k \in 1..Cardinality(S) : s[k] = x
  <2> DEFINE k == Rank(S, key, x) + 1
  <2>1. k \in 1..Cardinality(S) /\ s[k] = x
    BY <1>3, <1>4, SortedByKey
  <2> HIDE DEF s, k
  <2>2. QED BY <2>1
<1>8. \A j, k \in 1..Cardinality(S) : j < k => key[s[j]] < key[s[k]]
  BY <1>3, <1>4, SortedByKey
<1>9. Ascending(S) = s
  BY DEF Ascending, key
<1> HIDE DEF s
<1>10. ASSUME NEW j \in 1..Cardinality(S), NEW k \in 1..Cardinality(S), j < k PROVE s[j] < s[k]
  <2>1. key[s[j]] < key[s[k]] /\ s[j] \in S /\ s[k] \in S
    BY <1>5, <1>8, <1>10
  <2>2. QED BY <1>2, <2>1
<1>11. QED BY <1>5, <1>6, <1>7, <1>9, <1>10

-----------------------------------------------------------------------------
(* The training pipeline: the saved pair, and the folds.                   *)

EvaluationSpec == EvaluationInit /\ [][EvaluationNext]_evaluationVars

\* The model is fitted on the columns of the configuration under way from the first
\* trial on, and between the two files the directory holds that model.
Fitted ==
  /\ disk = [model |-> disk.model, features |-> disk.features]
  /\ stage = "scoring" /\ scored # <<>> => model.columns = pipeline.columns
  /\ stage = "saving" => model.columns = pipeline.columns
  /\ stage = "listing" => disk.model.columns = pipeline.columns

PairInv == Fitted /\ SavedPairMatches

LEMMA PairInit ==
  ASSUME EvaluationInit
  PROVE  PairInv
BY DEF EvaluationInit, PairInv, Fitted, SavedPairMatches, NoModel

\* A configuration that keeps the model of its last trial has exactly one trial.
LEMMA OneTrial ==
  ASSUME NEW p, ~(p.test_range = <<>> /\ p.cv_folds > 1)
  PROVE  Len(Trials(p)) = 1
BY DEF Trials

LEMMA PairNext ==
  ASSUME PairInv, [EvaluationNext]_evaluationVars
  PROVE  PairInv'
<1> USE DEF PairInv, Fitted, SavedPairMatches
<1>1. ASSUME NEW p \in Pipelines, Load(p) PROVE PairInv'
  BY <1>1 DEF Load
<1>2. ASSUME NEW ic \in Scores \cup {Undefined}, ScoreTrial(ic) PROVE PairInv'
  BY <1>2 DEF ScoreTrial
<1>3. CASE Conclude
  <2>1. CASE pipeline.test_range = <<>> /\ pipeline.cv_folds > 1
    BY <1>3, <2>1 DEF Conclude
  <2>2. CASE ~(pipeline.test_range = <<>> /\ pipeline.cv_folds > 1)
    <3>1. Len(scored) = 1
      BY <1>3, <2>2, OneTrial DEF Conclude
    <3>2. scored # <<>>
      BY <3>1
    <3>3. QED BY <1>3, <2>2, <3>2 DEF Conclude
  <2>3. QED BY <2>1, <2>2
<1>4. CASE SaveModel
  BY <1>4 DEF SaveModel
<1>5. CASE SaveFeatures
  BY <1>5 DEF SaveFeatures
<1>6. CASE Stop
  BY <1>6 DEF Stop
<1>7. CASE UNCHANGED evaluationVars
  BY <1>7 DEF evaluationVars
<1>8. QED BY <1>1, <1>2, <1>3, <1>4, <1>5, <1>6, <1>7 DEF EvaluationNext

(***************************************************************************)
(* Over any number of runs of any configurations, with stops anywhere, a   *)
(* directory no run is writing to holds a model and the list of the        *)
(* features it was fitted with, unless a run was stopped between the two   *)
(* files and no later one was finished (evaluator.py:320-336).             *)
(***************************************************************************)
THEOREM PairStaysTogether == EvaluationSpec => []SavedPairMatches
<1>1. EvaluationInit => PairInv
  BY PairInit
<1>2. PairInv /\ [EvaluationNext]_evaluationVars => PairInv'
  BY PairNext
<1>3. PairInv => SavedPairMatches
  BY DEF PairInv
<1>4. QED BY <1>1, <1>2, <1>3, PTL DEF EvaluationSpec

\* A later fold ends at least one fold's size after an earlier one.
LEMMA FoldsGrow ==
  ASSUME NEW i \in Nat \ {0}, NEW size \in Nat
  PROVE  /\ i * size \in Nat /\ i * size >= size
         /\ i > 1 => i * size >= 2 * size
         /\ (i + 1) * size = i * size + size
<1>1. i * size \in Nat /\ (i + 1) * size = i * size + size
  OBVIOUS
<1>2. (i - 1) * size \in Nat /\ i * size = (i - 1) * size + size
  OBVIOUS
<1>3. i > 1 => (i - 2) * size \in Nat /\ i * size = (i - 2) * size + 2 * size
  OBVIOUS
<1>4. QED BY <1>1, <1>2, <1>3

(***************************************************************************)
(* Every fold is scored on rows after the ones it trains on; from the      *)
(* second fold on it leaves out the whole gap between them, capped below   *)
(* the size of a fold (evaluator.py:156-185).  The first fold trains up to *)
(* the row before the ones it is scored on.                                *)
(***************************************************************************)
THEOREM FoldsStayApart ==
  ASSUME NEW n \in Nat, NEW n_splits \in Nat \ {0}, NEW gap \in Nat,
         FoldSize(n, n_splits) > 0,
         NEW i \in 1..n_splits,
         NEW t \in time_series_split(n, n_splits, gap)[i].train,
         NEW v \in time_series_split(n, n_splits, gap)[i].val
  PROVE  /\ t < v
         /\ i > 1 => t + CappedGap(n, n_splits, gap) < v
<1> DEFINE size == FoldSize(n, n_splits)
           capped == CappedGap(n, n_splits, gap)
           end == Max({size, i * size - capped})
<1>1. size \in Nat \ {0}
  BY DEF FoldSize
<1>2. capped \in Nat /\ capped < size
  <2>1. Max({0, size - 1}) = size - 1
    BY <1>1, MaxOfTwo
  <2>2. capped = Min({gap, size - 1})
    BY <2>1 DEF CappedGap
  <2> HIDE DEF capped, size
  <2>3. QED BY <1>1, <2>2, MinOfTwo
<1>3. t \in 1..end /\ v \in i * size + 1 .. (i + 1) * size
  BY DEF time_series_split
<1> HIDE DEF size, capped
<1>4. /\ i * size \in Nat /\ i * size >= size
      /\ i > 1 => i * size >= 2 * size
  BY <1>1, FoldsGrow
<1>5. end = IF size >= i * size - capped THEN size ELSE i * size - capped
  BY <1>1, <1>2, <1>4, MaxOfTwo
<1>6. end <= i * size /\ (i > 1 => end + capped <= i * size)
  BY <1>1, <1>2, <1>4, <1>5
<1>7. end \in Int
  BY <1>1, <1>2, <1>4, <1>5
<1> HIDE DEF end
<1>8. (i + 1) * size \in Int
  BY <1>1
<1>9. QED BY <1>2, <1>3, <1>4, <1>6, <1>7, <1>8 DEF capped

LEMMA PlaceInRange ==
  ASSUME NEW S, NEW s \in Seq(S), NEW x \in Range(s)
  PROVE  \E k \in 1..Len(s) : x = s[k]
<1>1. DOMAIN s = 1..Len(s)
  OBVIOUS
<1>2. QED BY <1>1, Zenon DEF Range

\* A date range of the archive: its events in the order of time.
LEMMA EventsInOrder ==
  ASSUME NEW range \in Nat \X Nat
  PROVE  LET bars == load_data(range)
         IN  /\ bars \in Seq(Nat) /\ Len(bars) \in Nat
             /\ \A j, k \in 1..Len(bars) : j < k => bars[j] < bars[k]
             /\ \A k \in 1..Len(bars) : bars[k] \in Nat /\ range[1] <= bars[k] /\ bars[k] < range[2]
             /\ \A x \in Range(bars) : \E k \in 1..Len(bars) : x = bars[k]
<1> DEFINE S == {b \in EventBars : range[1] <= b /\ b < range[2]}
           bars == Ascending(S)
<1>1. range[1] \in Nat /\ range[2] \in Nat
  OBVIOUS
<1>2. S \in SUBSET (range[1] .. range[2]) /\ S \subseteq Nat /\ S \subseteq Int
  <2>1. ASSUME NEW b \in S PROVE b \in Nat /\ b \in range[1] .. range[2]
    <3>1. b \in EventBars /\ range[1] <= b /\ b < range[2]
      OBVIOUS
    <3>2. b \in Nat
      BY <3>1, EvaluationAssumption
    <3>3. QED BY <1>1, <3>1, <3>2
  <2> HIDE DEF S
  <2>2. QED BY <2>1
<1>3. \A x \in S : range[1] <= x /\ x < range[2]
  OBVIOUS
<1>4. load_data(range) = bars
  BY DEF load_data
<1> HIDE DEF S
<1>5. IsFiniteSet(range[1] .. range[2])
  BY <1>1, FS_Interval
<1>6. IsFiniteSet(S)
  BY <1>2, <1>5, FS_Subset
<1>7. /\ Cardinality(S) \in Nat /\ bars \in [1..Cardinality(S) -> S]
      /\ bars \in Seq(S) /\ Len(bars) = Cardinality(S)
      /\ \A j, k \in 1..Cardinality(S) : j < k => bars[j] < bars[k]
  BY <1>2, <1>6, SortedAscending
<1> HIDE DEF bars
<1>8. \A k \in 1..Len(bars) : bars[k] \in S
  BY <1>7
<1>9. bars \in Seq(Nat)
  <2>1. bars = [k \in 1..Len(bars) |-> bars[k]] /\ Len(bars) \in Nat
    BY <1>7
  <2>2. \A k \in 1..Len(bars) : bars[k] \in Nat
    BY <1>2, <1>8
  <2>3. QED BY <2>1, <2>2
<1>10. \A x \in Range(bars) : \E k \in 1..Len(bars) : x = bars[k]
  <2>1. ASSUME NEW x \in Range(bars) PROVE \E k \in 1..Len(bars) : x = bars[k]
    BY <1>7, PlaceInRange, Zenon
  <2>2. QED BY <2>1
<1>11. QED BY <1>2, <1>3, <1>4, <1>7, <1>8, <1>9, <1>10

\* What a run needs of its data before it scores anything.
Loadable(p) ==
  (p.test_range = <<>> /\ p.cv_folds > 1) => Len(load_data(p.train_range)) >= 2 * p.cv_folds

\* A fold lies within the rows, and the folds after the first within the places.
LEMMA FoldsFit ==
  ASSUME NEW n \in Nat, NEW folds \in Nat, folds > 1, n >= 2 * folds, NEW i \in 1..folds
  PROVE  /\ FoldSize(n, folds) \in Nat \ {0}
         /\ i * FoldSize(n, folds) \in Nat
         /\ i * FoldSize(n, folds) + FoldSize(n, folds) <= n
         /\ (i + 1) * FoldSize(n, folds) = i * FoldSize(n, folds) + FoldSize(n, folds)
<1> DEFINE d == folds + 1
           size == n \div d
<1>1. d \in Nat \ {0} /\ d <= n
  OBVIOUS
<1> HIDE DEF d
<1>2. size \in Nat /\ size * d <= n /\ size > 0
  BY <1>1
<1>3. size = FoldSize(n, folds)
  BY DEF FoldSize, d
<1> HIDE DEF size
<1>4. i * size \in Nat /\ (i + 1) * size = i * size + size
  BY <1>2
<1>5. (i + 1) * size <= d * size /\ d * size = size * d /\ d * size \in Nat /\ (i + 1) * size \in Nat
  <2>1. i + 1 \in Nat /\ d \in Nat /\ i + 1 <= d
    BY DEF d
  <2>2. QED BY <1>2, <2>1, TimesMonotone
<1>6. QED BY <1>2, <1>3, <1>4, <1>5

\* The gap is a number of events, and at least one.
LEMMA GapIsNat ==
  ASSUME NEW bars, NEW n \in Nat, Len(bars) = n, NEW horizon \in Nat,
         \A k \in 1..n : bars[k] \in Nat, \A i, j \in 1..n : i < j => bars[i] < bars[j]
  PROVE  label_gap(bars, horizon) \in Nat
<1> DEFINE span == IF n > 1 THEN bars[n] - bars[1] ELSE 1
           steps == IF n > 1 THEN n - 1 ELSE 1
           most == (horizon * steps + span - 1) \div span
<1>1. span \in Nat \ {0} /\ steps \in Nat \ {0}
  OBVIOUS
<1>2. label_gap(bars, horizon) = Max({1, most})
  BY DEF label_gap
<1> HIDE DEF span, steps
<1>3. most \in Nat
  <2>1. horizon * steps \in Nat
    BY <1>1
  <2> DEFINE a == horizon * steps + span - 1
  <2>2. a \in Nat
    BY <1>1, <2>1
  <2> HIDE DEF a
  <2>3. a \div span \in Nat
    BY <1>1, <2>2
  <2>4. QED BY <2>3 DEF a
<1> HIDE DEF most
<1>4. QED BY <1>2, <1>3, MaxOfTwo

LEMMA SplitInRows ==
  ASSUME NEW n \in Nat, NEW folds \in Nat, folds > 1, n >= 2 * folds, NEW gap \in Nat,
         NEW k \in 1..folds
  PROVE  /\ time_series_split(n, folds, gap)[k].train \in SUBSET (1..n)
         /\ time_series_split(n, folds, gap)[k].val \in SUBSET (1..n)
<1> DEFINE size == FoldSize(n, folds)
           capped == CappedGap(n, folds, gap)
           end == Max({size, k * size - capped})
<1>1. /\ size \in Nat \ {0} /\ k * size \in Nat /\ k * size + size <= n
      /\ (k + 1) * size = k * size + size
  BY FoldsFit
<1>2. /\ time_series_split(n, folds, gap)[k].train = 1..end
      /\ time_series_split(n, folds, gap)[k].val = k * size + 1 .. (k + 1) * size
  BY DEF time_series_split
<1>3. capped \in Nat
  <2>1. Max({0, size - 1}) = size - 1
    BY <1>1, MaxOfTwo
  <2>2. capped = Min({gap, size - 1})
    BY <2>1 DEF CappedGap
  <2> HIDE DEF capped, size
  <2>3. QED BY <1>1, <2>2, MinOfTwo
<1> HIDE DEF size, capped
<1>4. end \in Int /\ end <= n
  BY <1>1, <1>3, MaxOfTwo
<1> HIDE DEF end
<1>5. QED BY <1>1, <1>2, <1>4

LEMMA SplitInside ==
  ASSUME NEW n \in Nat, NEW p, p.train_split \in 0..100
  PROVE  SplitAt(n, p) \in Nat /\ SplitAt(n, p) <= n
<1> DEFINE a == n * p.train_split
<1>1. a \in Nat /\ a <= 100 * n
  <2>1. n \in Nat /\ p.train_split \in Nat /\ p.train_split <= 100
    OBVIOUS
  <2>2. p.train_split * n <= 100 * n /\ p.train_split * n = n * p.train_split
    BY <2>1, TimesMonotone
  <2>3. QED BY <2>1, <2>2
<1>2. SplitAt(n, p) = a \div 100
  BY DEF SplitAt
<1> HIDE DEF a
<1>3. QED BY <1>1, <1>2

\* The rows of a trial come after the rows it is trained on.
LEMMA TrialsApart ==
  ASSUME NEW p \in Pipelines, Loadable(p), NEW k \in DOMAIN Trials(p)
  PROVE  /\ Trials(p)[k].trained \in SUBSET Nat /\ Trials(p)[k].rows \in SUBSET Nat
         /\ \A t \in Trials(p)[k].trained, r \in Trials(p)[k].rows : t < r
<1> DEFINE bars == load_data(p.train_range)
           n == Len(bars)
<1>0. /\ p.train_range \in Nat \X Nat /\ p.train_split \in 0..100
      /\ p.cv_folds \in Nat /\ p.horizon \in Nat
      /\ p.test_range # <<>> => p.test_range \in Nat \X Nat /\ p.train_range[2] <= p.test_range[1]
  BY PipelinesAssumption
<1>1. /\ n \in Nat /\ bars \in Seq(Nat)
      /\ \A i, j \in 1..n : i < j => bars[i] < bars[j]
      /\ \A i \in 1..n : bars[i] \in Nat /\ bars[i] < p.train_range[2]
      /\ \A x \in Range(bars) : \E i \in 1..n : x = bars[i]
  BY <1>0, EventsInOrder
<1>2. CASE p.test_range # <<>>
  <2> DEFINE tests == load_data(p.test_range)
  <2>1. /\ Len(tests) \in Nat
        /\ \A i \in 1..Len(tests) : tests[i] \in Nat /\ p.test_range[1] <= tests[i]
        /\ \A x \in Range(tests) : \E i \in 1..Len(tests) : x = tests[i]
    BY <1>0, <1>2, EventsInOrder
  <2>2. Trials(p) = <<[trained |-> Range(bars), rows |-> Range(tests)]>>
    BY <1>2 DEF Trials
  <2> HIDE DEF tests, bars, n
  <2>3. Trials(p)[k].trained = Range(bars) /\ Trials(p)[k].rows = Range(tests)
    BY <2>2
  <2>4. p.train_range[2] \in Nat /\ p.test_range[1] \in Nat
    BY <1>0, <1>2
  <2>5. ASSUME NEW t \in Range(bars), NEW r \in Range(tests) PROVE t < r
    <3>1. t \in Nat /\ t < p.train_range[2] /\ r \in Nat /\ p.test_range[1] <= r
      BY <1>1, <2>1
    <3>2. QED BY <1>0, <1>2, <2>4, <3>1
  <2>6. Range(bars) \in SUBSET Nat /\ Range(tests) \in SUBSET Nat
    BY <1>1, <2>1
  <2>7. QED BY <2>3, <2>5, <2>6
<1>3. CASE p.test_range = <<>> /\ p.cv_folds > 1
  <2> DEFINE folds == p.cv_folds
             gap == label_gap(bars, p.horizon)
             split == time_series_split(n, folds, gap)
  <2>1. n >= 2 * folds /\ folds \in Nat /\ folds > 1
    BY <1>0, <1>3 DEF Loadable
  <2>2. Trials(p) = [i \in 1..folds |-> [trained |-> Rows(bars, split[i].train),
                                         rows |-> Rows(bars, split[i].val)]]
    BY <1>3 DEF Trials, Folds
  <2> HIDE DEF bars, n, folds, gap
  <2>3. k \in 1..folds
    BY <2>2
  <2>4. Trials(p)[k].trained = Rows(bars, split[k].train) /\ Trials(p)[k].rows = Rows(bars, split[k].val)
    BY <2>2, <2>3
  <2>5. gap \in Nat
    BY <1>0, <1>1, GapIsNat DEF gap, n
  <2>6. /\ split[k].train \in SUBSET (1..n) /\ split[k].val \in SUBSET (1..n)
        /\ \A t \in split[k].train, v \in split[k].val : t < v
    <3>1. FoldSize(n, folds) > 0 /\ folds \in Nat \ {0}
      BY <1>1, <2>1, <2>3, FoldsFit
    <3>2. \A t \in split[k].train, v \in split[k].val : t < v
      BY <1>1, <2>3, <2>5, <3>1, FoldsStayApart
    <3>3. QED BY <1>1, <2>1, <2>3, <2>5, <3>2, SplitInRows
  <2> HIDE DEF split
  <2>7. ASSUME NEW t \in Rows(bars, split[k].train), NEW r \in Rows(bars, split[k].val)
        PROVE  t < r
    <3>1. PICK x \in split[k].train : t = bars[x]
      BY DEF Rows
    <3>2. PICK y \in split[k].val : r = bars[y]
      BY DEF Rows
    <3>3. QED BY <1>1, <2>6, <3>1, <3>2
  <2>8. Rows(bars, split[k].train) \in SUBSET Nat /\ Rows(bars, split[k].val) \in SUBSET Nat
    BY <1>1, <2>6 DEF Rows
  <2>9. QED BY <2>4, <2>7, <2>8
<1>4. CASE p.test_range = <<>> /\ ~(p.cv_folds > 1)
  <2> DEFINE at == SplitAt(n, p)
  <2>1. Trials(p) = <<[trained |-> Rows(bars, 1..at), rows |-> Rows(bars, at + 1 .. n)]>>
    BY <1>4 DEF Trials
  <2> HIDE DEF bars, n
  <2>2. at \in Nat /\ at <= n
    BY <1>0, <1>1, SplitInside
  <2> HIDE DEF at
  <2>3. Trials(p)[k].trained = Rows(bars, 1..at) /\ Trials(p)[k].rows = Rows(bars, at + 1 .. n)
    BY <2>1
  <2>4. ASSUME NEW t \in Rows(bars, 1..at), NEW r \in Rows(bars, at + 1 .. n)
        PROVE  t < r /\ t \in Nat /\ r \in Nat
    <3>1. PICK x \in 1..at : t = bars[x]
      BY DEF Rows
    <3>2. PICK y \in at + 1 .. n : r = bars[y]
      BY DEF Rows
    <3>3. x \in 1..n /\ y \in 1..n /\ x < y
      BY <1>1, <2>2, <3>1, <3>2
    <3>4. QED BY <1>1, <3>1, <3>2, <3>3
  <2>5. Rows(bars, 1..at) \in SUBSET Nat /\ Rows(bars, at + 1 .. n) \in SUBSET Nat
    BY <1>1, <2>2 DEF Rows
  <2>6. QED BY <2>3, <2>4, <2>5
<1>5. QED BY <1>2, <1>3, <1>4

\* What is scored so far are trials of the configuration under way, in their order.
Scored ==
  /\ pipeline \in Pipelines
  /\ scored \in Seq([trained : SUBSET Nat, rows : SUBSET Nat, ic : Int \cup {Undefined}])
  /\ stage = "scoring" \/ scored # <<>> => Loadable(pipeline)
  /\ \A k \in DOMAIN scored :
       /\ k \in DOMAIN Trials(pipeline)
       /\ scored[k].trained = Trials(pipeline)[k].trained
       /\ scored[k].rows = Trials(pipeline)[k].rows

LEMMA ScoredInit ==
  ASSUME EvaluationInit
  PROVE  Scored
BY DEF EvaluationInit, Scored

LEMMA TrialsAreCounted ==
  ASSUME NEW p \in Pipelines
  PROVE  Len(Trials(p)) \in Nat /\ DOMAIN Trials(p) = 1..Len(Trials(p))
<1> DEFINE bars == load_data(p.train_range)
           test == [trained |-> Range(bars), rows |-> Range(load_data(p.test_range))]
           trial(i) == [trained |-> Rows(bars, Folds(bars, p)[i].train),
                        rows |-> Rows(bars, Folds(bars, p)[i].val)]
           tail == [trained |-> Rows(bars, 1..SplitAt(Len(bars), p)),
                    rows |-> Rows(bars, SplitAt(Len(bars), p) + 1 .. Len(bars))]
<1>1. Trials(p) = IF p.test_range # <<>> THEN <<test>>
                  ELSE IF p.cv_folds > 1 THEN [i \in 1..p.cv_folds |-> trial(i)]
                  ELSE <<tail>>
  BY DEF Trials
<1>2. p.cv_folds \in Nat
  BY PipelinesAssumption
<1> HIDE DEF test, trial, tail
<1>3. CASE p.test_range # <<>>
  BY <1>1, <1>3
<1>4. CASE p.test_range = <<>> /\ p.cv_folds > 1
  BY <1>1, <1>2, <1>4
<1>5. CASE p.test_range = <<>> /\ ~(p.cv_folds > 1)
  <2>1. Trials(p) = <<tail>>
    BY <1>1, <1>5, Zenon
  <2>2. QED BY <2>1
<1>6. QED BY <1>3, <1>4, <1>5

LEMMA ScoredNext ==
  ASSUME Scored, [EvaluationNext]_evaluationVars
  PROVE  Scored'
<1> USE DEF Scored
<1>1. ASSUME NEW p \in Pipelines, Load(p) PROVE Scored'
  <2>1. pipeline' = p /\ scored' = <<>> /\ Loadable(p)
    BY <1>1 DEF Load, Loadable
  <2>2. QED BY <2>1
<1>2. ASSUME NEW ic \in Scores \cup {Undefined}, ScoreTrial(ic) PROVE Scored'
  <2> DEFINE k == Len(scored) + 1
             trial == Trials(pipeline)[k]
             score == evaluate_rank_ic(trial.rows, ic)
             row == [trained |-> trial.trained, rows |-> trial.rows, ic |-> score]
  <2>1. /\ stage = "scoring" /\ Len(scored) < Len(Trials(pipeline))
        /\ scored' = Append(scored, row) /\ pipeline' = pipeline /\ stage' = stage
    BY <1>2 DEF ScoreTrial
  <2>2. Loadable(pipeline) /\ Len(scored) \in Nat
    BY <2>1
  <2>3. k \in DOMAIN Trials(pipeline)
    BY <2>1, <2>2, TrialsAreCounted
  <2>4. trial.trained \in SUBSET Nat /\ trial.rows \in SUBSET Nat
    BY <2>2, <2>3, TrialsApart
  <2>5. score \in Int \cup {Undefined}
    BY EvaluationAssumption DEF evaluate_rank_ic
  <2> HIDE DEF score, trial
  <2>6. row \in [trained : SUBSET Nat, rows : SUBSET Nat, ic : Int \cup {Undefined}]
    BY <2>4, <2>5
  <2>7. row.trained = trial.trained /\ row.rows = trial.rows
    OBVIOUS
  <2> HIDE DEF row
  <2>8. /\ scored' \in Seq([trained : SUBSET Nat, rows : SUBSET Nat, ic : Int \cup {Undefined}])
        /\ DOMAIN scored' = 1..k /\ scored'[k] = row
        /\ \A j \in DOMAIN scored : scored'[j] = scored[j]
        /\ DOMAIN scored = 1 .. k - 1
    BY <2>1, <2>6
  <2>9. ASSUME NEW j \in DOMAIN scored'
        PROVE  /\ j \in DOMAIN Trials(pipeline)
               /\ scored'[j].trained = Trials(pipeline)[j].trained
               /\ scored'[j].rows = Trials(pipeline)[j].rows
    <3>1. CASE j = k
      BY <2>3, <2>7, <2>8, <3>1 DEF trial
    <3>2. CASE j # k
      <4>1. j \in DOMAIN scored
        BY <2>2, <2>8, <3>2
      <4>2. QED BY <2>8, <4>1
    <3>3. QED BY <3>1, <3>2
  <2>10. pipeline' \in Pipelines
    BY <2>1
  <2>11. Loadable(pipeline)'
    BY <2>1, <2>2 DEF Loadable
  <2>12. Trials(pipeline)' = Trials(pipeline)
    BY <2>1 DEF Trials, Folds, Rows, SplitAt
  <2>13. QED BY <2>8, <2>9, <2>10, <2>11, <2>12
<1>3. ASSUME UNCHANGED <<pipeline, scored>>, stage' # "scoring" PROVE Scored'
  <2>1. Trials(pipeline)' = Trials(pipeline) /\ Loadable(pipeline)' = Loadable(pipeline)
    BY <1>3 DEF Trials, Folds, Rows, SplitAt, Loadable
  <2>2. QED BY <1>3, <2>1
<1>4. CASE Conclude
  BY <1>3, <1>4 DEF Conclude
<1>5. CASE SaveModel
  BY <1>3, <1>5 DEF SaveModel
<1>6. CASE SaveFeatures
  BY <1>3, <1>6 DEF SaveFeatures
<1>7. CASE Stop
  BY <1>3, <1>7 DEF Stop
<1>8. CASE UNCHANGED evaluationVars
  <2>1. pipeline' = pipeline /\ scored' = scored /\ stage' = stage
    BY <1>8 DEF evaluationVars
  <2>2. Trials(pipeline)' = Trials(pipeline) /\ Loadable(pipeline)' = Loadable(pipeline)
    BY <2>1 DEF Trials, Folds, Rows, SplitAt, Loadable
  <2>3. QED BY <2>1, <2>2
<1>9. QED BY <1>1, <1>2, <1>4, <1>5, <1>6, <1>7, <1>8 DEF EvaluationNext

(***************************************************************************)
(* However the data is split, into a test set, folds or a tail, and        *)
(* whatever was run or stopped before, no model is scored on a row that it *)
(* was trained on, nor on one before them (pipeline_runner.py:213-294).    *)
(***************************************************************************)
THEOREM ModelsAreScoredOutOfSample == EvaluationSpec => []ScoredOutOfSample
<1>1. EvaluationInit => Scored
  BY ScoredInit
<1>2. Scored /\ [EvaluationNext]_evaluationVars => Scored'
  BY ScoredNext
<1>3. Scored => ScoredOutOfSample
  <2>1. ASSUME Scored, NEW k \in DOMAIN scored
        PROVE  \A t \in scored[k].trained, r \in scored[k].rows : t < r
    <3>1. Loadable(pipeline) /\ k \in DOMAIN Trials(pipeline) /\ pipeline \in Pipelines
      BY <2>1 DEF Scored
    <3>2. QED BY <2>1, <3>1, TrialsApart DEF Scored
  <2>2. QED BY <2>1 DEF ScoredOutOfSample
<1>4. QED BY <1>1, <1>2, <1>3, PTL DEF EvaluationSpec

\* Evenly spaced bars are all the distance of the first two apart.
LEMMA OneDistance ==
  ASSUME NEW n \in Nat, n > 1, NEW bars, Len(bars) = n, \A k \in 1..n : bars[k] \in Nat,
         EvenlySpaced(bars), NEW k \in 1 .. n - 1
  PROVE  bars[k+1] - bars[k] = bars[2] - bars[1]
<1> DEFINE d == bars[2] - bars[1]
           Bad == {i \in 1 .. n - 1 : bars[i+1] - bars[i] # d}
<1>1. SUFFICES ASSUME Bad # {} PROVE FALSE
  OBVIOUS
<1>2. Bad \subseteq Nat /\ Bad # {}
  BY <1>1
<1> HIDE DEF Bad
<1>3. PICK i \in Bad : \A j \in Bad : i <= j
  BY <1>2, LeastNat
<1>4. i \in 1 .. n - 1 /\ i # 1 /\ bars[i+1] - bars[i] # d
  BY <1>3 DEF Bad
<1>5. i - 1 \in 1 .. n - 1 /\ ~(i <= i - 1) /\ i \in 2 .. n - 1 /\ (i - 1) + 1 = i
  BY <1>4
<1>6. bars[(i-1) + 1] - bars[i-1] = d
  BY <1>3, <1>5 DEF Bad
<1>7. bars[i+1] - bars[i] = bars[i] - bars[i-1]
  BY <1>5 DEF EvenlySpaced
<1>8. QED BY <1>4, <1>5, <1>6, <1>7

LEMMA PlacesTimesDistance ==
  ASSUME NEW n \in Nat, n > 1, NEW bars, Len(bars) = n, \A k \in 1..n : bars[k] \in Nat,
         EvenlySpaced(bars), NEW k \in 1..n
  PROVE  bars[k] = bars[1] + (k - 1) * (bars[2] - bars[1])
<1> DEFINE d == bars[2] - bars[1]
           Bad == {i \in 1..n : bars[i] # bars[1] + (i - 1) * d}
<1>1. SUFFICES ASSUME Bad # {} PROVE FALSE
  OBVIOUS
<1>2. Bad \subseteq Nat /\ Bad # {}
  BY <1>1
<1>3. d \in Int /\ bars[1] \in Nat
  OBVIOUS
<1>4. \A i \in 1 .. n - 1 : bars[i+1] - bars[i] = d
  BY OneDistance
<1> HIDE DEF Bad, d
<1>5. PICK i \in Bad : \A j \in Bad : i <= j
  BY <1>2, LeastNat
<1>6. i \in 1..n /\ i # 1 /\ bars[i] # bars[1] + (i - 1) * d
  <2>1. bars[1] = bars[1] + (1 - 1) * d
    BY <1>3
  <2>2. QED BY <1>5, <2>1 DEF Bad
<1>7. i - 1 \in 1 .. n - 1 /\ i - 1 \in 1..n /\ ~(i <= i - 1) /\ (i - 1) + 1 = i
  BY <1>6
<1>8. bars[i-1] = bars[1] + (i - 1 - 1) * d
  BY <1>5, <1>7 DEF Bad
<1>9. bars[i] - bars[i-1] = d /\ bars[i] \in Nat /\ bars[i-1] \in Nat
  BY <1>4, <1>6, <1>7
<1>10. (i - 1) * d = (i - 1 - 1) * d + d /\ (i - 1 - 1) * d \in Int
  BY <1>3, <1>7
<1>11. bars[i] = bars[1] + (i - 1) * d
  <2> DEFINE a == (i - 1 - 1) * d
             b == (i - 1) * d
  <2>1. a \in Int /\ b = a + d /\ bars[i-1] = bars[1] + a
    BY <1>8, <1>10
  <2> HIDE DEF a, b
  <2>2. bars[i] = bars[1] + b
    <3>1. bars[i] = bars[i-1] + d
      BY <1>3, <1>9
    <3>2. QED BY <1>3, <2>1, <3>1
  <2>3. QED BY <2>2 DEF b
<1>12. QED BY <1>6, <1>11

\* The gap covers the horizon at the distance of evenly spaced bars.
LEMMA GapCoversHorizon ==
  ASSUME NEW n \in Nat, n > 1, NEW bars, Len(bars) = n, \A k \in 1..n : bars[k] \in Nat,
         \A i, j \in 1..n : i < j => bars[i] < bars[j],
         EvenlySpaced(bars), NEW horizon \in Nat
  PROVE  horizon <= label_gap(bars, horizon) * (bars[2] - bars[1])
<1> DEFINE d == bars[2] - bars[1]
           m == n - 1
           span == bars[n] - bars[1]
           most == (horizon * m + span - 1) \div span
           gap == label_gap(bars, horizon)
<1>1. d \in Nat \ {0} /\ m \in Nat \ {0}
  OBVIOUS
<1>2. span = m * d
  <2>1. bars[n] = bars[1] + m * d
    <3>1. n \in 1..n
      OBVIOUS
    <3>2. bars[n] = bars[1] + (n - 1) * (bars[2] - bars[1])
      BY <3>1, PlacesTimesDistance
    <3>3. QED BY <3>2
  <2>2. m * d \in Int /\ bars[1] \in Int
    BY <1>1
  <2> HIDE DEF d, m
  <2>3. QED BY <2>1, <2>2
<1>3. gap = Max({1, most})
  BY DEF label_gap
<1> HIDE DEF d, m, span, gap
<1>4. span \in Nat \ {0}
  BY <1>1, <1>2, ProductPositive
<1>5. horizon * m \in Nat
  BY <1>1
<1>6. most \in Nat /\ horizon * m <= most * span
  <2> DEFINE a == horizon * m
  <2>1. a \in Nat
    BY <1>5
  <2> HIDE DEF a
  <2>2. (a + span - 1) \div span \in Nat /\ a <= ((a + span - 1) \div span) * span
    BY <1>4, <2>1
  <2>3. QED BY <2>2 DEF a
<1> HIDE DEF most
<1>7. gap \in Nat /\ most <= gap
  BY <1>3, <1>6, MaxOfTwo
<1>8. horizon * m <= (gap * d) * m
  <2>1. most * span <= gap * span
    BY <1>4, <1>6, <1>7, TimesMonotone
  <2>2. gap * span = (gap * d) * m
    BY <1>1, <1>2, <1>7
  <2>3. most * span \in Nat /\ gap * span \in Nat
    BY <1>4, <1>6, <1>7
  <2>4. QED BY <1>5, <1>6, <2>1, <2>2, <2>3
<1>9. gap * d \in Nat
  BY <1>1, <1>7
<1>10. horizon <= gap * d
  BY <1>1, <1>8, <1>9, FactorOut
<1>11. QED BY <1>10 DEF gap, d

(***************************************************************************)
(* From the second fold on, where the events are evenly spaced and the cap *)
(* below a fold is not reached, no label of a row trained on looks into    *)
(* the rows scored (pipeline_runner.py:258-268, evaluator.py:156-185).     *)
(***************************************************************************)
THEOREM LabelsArePurged == EvaluationSpec => []FoldsPurged
<1>1. EvaluationInit => Scored
  BY ScoredInit
<1>2. Scored /\ [EvaluationNext]_evaluationVars => Scored'
  BY ScoredNext
<1>3. Scored => FoldsPurged
  <2> DEFINE bars == Train
             n == Len(bars)
             h == pipeline.horizon
             folds == pipeline.cv_folds
             gap == label_gap(bars, h)
             d == bars[2] - bars[1]
             split == time_series_split(n, folds, gap)
  <2>1. SUFFICES
          ASSUME Scored, NEW k \in DOMAIN scored, pipeline.test_range = <<>>, folds > 1, k > 1,
                 EvenlySpaced(bars), gap = CappedGap(n, folds, gap),
                 NEW t \in scored[k].trained, NEW r \in scored[k].rows
          PROVE  t + h < r
    BY DEF FoldsPurged
  <2>2. /\ pipeline \in Pipelines /\ Loadable(pipeline)
        /\ k \in DOMAIN Trials(pipeline)
        /\ t \in Trials(pipeline)[k].trained /\ r \in Trials(pipeline)[k].rows
    BY <2>1 DEF Scored
  <2>3. pipeline.train_range \in Nat \X Nat /\ folds \in Nat /\ h \in Nat
    BY <2>2, PipelinesAssumption
  <2>4. /\ n \in Nat /\ \A i \in 1..n : bars[i] \in Nat
        /\ \A i, j \in 1..n : i < j => bars[i] < bars[j]
    BY <2>3, EventsInOrder DEF Train
  <2>5. n \in Nat /\ n >= 2 * folds /\ n > 1 /\ folds > 1
    BY <2>1, <2>2, <2>3, <2>4 DEF Loadable, Train
  <2>6. Trials(pipeline) = [i \in 1..folds |-> [trained |-> Rows(bars, split[i].train),
                                                rows |-> Rows(bars, split[i].val)]]
    BY <2>1 DEF Trials, Folds, Train
  <2> HIDE DEF split, bars, n, h, folds
  <2>7. k \in 1..folds /\ t \in Rows(bars, split[k].train) /\ r \in Rows(bars, split[k].val)
    BY <2>2, <2>6
  <2>8. gap \in Nat /\ h <= gap * d
    BY <2>1, <2>3, <2>4, <2>5, GapIsNat, GapCoversHorizon DEF n
  <2>9. PICK x \in split[k].train : t = bars[x]
    BY <2>7 DEF Rows
  <2>10. PICK y \in split[k].val : r = bars[y]
    BY <2>7 DEF Rows
  <2>11. x + gap < y
    <3>1. FoldSize(n, folds) > 0 /\ folds \in Nat \ {0}
      BY <2>3, <2>5, <2>7, FoldsFit
    <3>2. QED BY <2>1, <2>4, <2>7, <2>8, <2>9, <2>10, <3>1, FoldsStayApart DEF split
  <2>12. x \in 1..n /\ y \in 1..n
    BY <2>1, <2>3, <2>4, <2>5, <2>7, <2>8, <2>9, <2>10, SplitInRows DEF split
  <2>13. bars[x] = bars[1] + (x - 1) * d /\ bars[y] = bars[1] + (y - 1) * d
    BY <2>1, <2>4, <2>5, <2>12, PlacesTimesDistance DEF n
  <2>14. d \in Nat \ {0} /\ bars[1] \in Nat
    BY <2>4, <2>5
  <2> HIDE DEF gap, d
  <2>15. (x - 1) * d + (gap + 1) * d <= (y - 1) * d
    <3>1. (x - 1) + (gap + 1) <= y - 1 /\ (x - 1) + (gap + 1) \in Nat /\ y - 1 \in Nat
      BY <2>4, <2>8, <2>11, <2>12
    <3>2. ((x - 1) + (gap + 1)) * d <= (y - 1) * d
      BY <2>14, <3>1, TimesMonotone
    <3>3. ((x - 1) + (gap + 1)) * d = (x - 1) * d + (gap + 1) * d
      BY <2>4, <2>8, <2>12, <2>14
    <3>4. QED BY <3>2, <3>3
  <2>16. (gap + 1) * d = gap * d + d /\ (x - 1) * d \in Int /\ (y - 1) * d \in Int /\ gap * d \in Int
    BY <2>4, <2>8, <2>12, <2>14
  <2>17. QED BY <2>3, <2>8, <2>9, <2>10, <2>13, <2>14, <2>15, <2>16
<1>4. QED BY <1>1, <1>2, <1>3, PTL DEF EvaluationSpec

-----------------------------------------------------------------------------
(* The sweep: jobs, rows and their ranking.                                *)

\* The grid's product is finite and not empty: a combination is a set of pairs.
LEMMA GridProduct ==
  IsFiniteSet(expand_param_grid(Grid)) /\ expand_param_grid(Grid) # {}
<1> DEFINE D == DOMAIN Grid
           values == UNION {Grid[p] : p \in D}
           product == expand_param_grid(Grid)
           Pairs(c) == {<<p, c[p]>> : p \in D}
           pairs == [c \in product |-> Pairs(c)]
<1>1. IsFiniteSet(D) /\ \A p \in D : IsFiniteSet(Grid[p]) /\ Grid[p] # {}
  BY GridAssumption
<1>2. product = {c \in [D -> values] : \A p \in D : c[p] \in Grid[p]}
  BY DEF expand_param_grid
<1> HIDE DEF product
<1>3. IsFiniteSet(values)
  <2> DEFINE lists == {Grid[p] : p \in D}
             list == [p \in D |-> Grid[p]]
  <2>1. list \in Surjection(D, lists)
    BY DEF Surjection
  <2> HIDE DEF list
  <2>2. IsFiniteSet(lists)
    BY <1>1, <2>1, FS_Surjection
  <2>3. \A T \in lists : IsFiniteSet(T)
    BY <1>1
  <2> HIDE DEF lists
  <2>4. IsFiniteSet(UNION lists)
    BY <2>2, <2>3, FS_UNION
  <2>5. QED BY <2>4 DEF lists
<1>4. product # {}
  <2> DEFINE c == [p \in D |-> CHOOSE v \in Grid[p] : TRUE]
  <2>1. \A p \in D : (CHOOSE v \in Grid[p] : TRUE) \in Grid[p]
    BY <1>1
  <2>2. c \in [D -> values] /\ \A p \in D : c[p] \in Grid[p]
    BY <2>1
  <2> HIDE DEF c
  <2>3. c \in product
    BY <1>2, <2>2
  <2>4. QED BY <2>3
<1> HIDE DEF values
<1>5. pairs \in Injection(product, SUBSET (D \X values))
  <2>1. ASSUME NEW c \in product PROVE pairs[c] = Pairs(c) /\ pairs[c] \in SUBSET (D \X values)
    <3>1. c \in [D -> values]
      BY <1>2
    <3>2. QED BY <3>1
  <2>2. ASSUME NEW b \in product, NEW c \in product, pairs[b] = pairs[c] PROVE b = c
    <3>1. b \in [D -> values] /\ c \in [D -> values]
      BY <1>2
    <3>2. ASSUME NEW p \in D PROVE b[p] = c[p]
      <4>1. <<p, b[p]>> \in Pairs(b) /\ Pairs(b) = Pairs(c)
        BY <2>1, <2>2
      <4>2. <<p, b[p]>> \in Pairs(c)
        BY <4>1
      <4>3. QED BY <4>2
    <3>3. QED BY <3>1, <3>2
  <2>3. pairs \in [product -> SUBSET (D \X values)]
    BY <2>1
  <2> HIDE DEF pairs
  <2>4. QED BY <2>2, <2>3 DEF Injection, IsInjective
<1>6. IsFiniteSet(SUBSET (D \X values))
  BY <1>1, <1>3, FS_Product, FS_SUBSET
<1> HIDE DEF pairs
<1>7. IsFiniteSet(product)
  BY <1>5, <1>6, FS_Injection
<1>8. QED BY <1>4, <1>7 DEF product

\* The jobs are numbered from 1, and there is one.
LEMMA JobsAreNumbered ==
  Len(combos) \in Nat \ {0} /\ Jobs = 1..Len(combos)
<1> DEFINE S == expand_param_grid(Grid)
           n == Cardinality(S)
<1>1. IsFiniteSet(S) /\ S # {}
  BY GridProduct
<1> HIDE DEF S
<1>2. n \in Nat /\ n # 0
  BY <1>1, FS_CardinalityType, FS_EmptySet
<1>3. \E f \in [1..n -> S] : IsInjective(f)
  <2>1. ExistsBijection(1..n, S)
    BY <1>1, FS_CardinalityType
  <2>2. PICK f \in Bijection(1..n, S) : TRUE
    BY <2>1 DEF ExistsBijection
  <2>3. f \in [1..n -> S] /\ IsInjective(f)
    BY <2>2 DEF Bijection, Injection, IsInjective
  <2>4. QED BY <2>3
<1>4. combos = CHOOSE f \in [1..n -> S] : IsInjective(f)
  BY DEF combos, SetToSeq, S
<1> HIDE DEF n
<1>5. combos \in [1..n -> S]
  BY <1>3, <1>4
<1>6. combos \in Seq(S) /\ Len(combos) = n
  BY <1>2, <1>5
<1>7. QED BY <1>2, <1>5, <1>6 DEF Jobs

Statuses == {"metrics", "error", "timeout"}
SweepRows == [combo : Jobs, status : Statuses]

\* A row of a job says what became of it.
RowIsTrue(row) ==
  /\ row.status = "metrics" => nature[row.combo] = "returns"
  /\ row.status = "error" => nature[row.combo] = "raises" \/ broken

\* The ranking puts every row in one place, the best with metrics first.
LEMMA RankedRows ==
  ASSUME NEW n \in Nat, NEW rows \in [1..n -> [combo : 1..n, status : Statuses]],
         \A k \in 1..n : rows[k].combo = k
  PROVE  /\ DOMAIN Ranked(rows) = 1..n
         /\ Ranked(rows) \in Seq([combo : 1..n, status : Statuses]) /\ Len(Ranked(rows)) = n
         /\ \A k \in 1..n : \E j \in 1..n : Ranked(rows)[k] = rows[j]
         /\ \A j \in 1..n : \E k \in 1..n : Ranked(rows)[k] = rows[j]
         /\ \A m, k \in 1..n :
              m < k /\ Ranked(rows)[k].status = "metrics" =>
                /\ Ranked(rows)[m].status = "metrics"
                /\ Ranked(rows)[m].combo > Ranked(rows)[k].combo
<1> DEFINE key == [k \in 1..n |-> IF rows[k].status = "metrics" THEN -rows[k].combo ELSE k]
           place == SortedBy(1..n, key)
           ranked == Ranked(rows)
<1>1. IsFiniteSet(1..n) /\ Cardinality(1..n) = n
  BY FS_Interval
<1>2. \A k \in 1..n : key[k] = IF rows[k].status = "metrics" THEN -k ELSE k
  OBVIOUS
<1>3. key \in [1..n -> Int]
  <2>1. \A k \in 1..n : key[k] \in Int
    BY <1>2
  <2>2. key = [k \in 1..n |-> key[k]]
    OBVIOUS
  <2> HIDE DEF key
  <2>3. QED BY <2>1, <2>2
<1>4. ranked = [k \in 1..n |-> rows[place[k]]]
  <2>1. DOMAIN rows = 1..n
    OBVIOUS
  <2>2. QED BY <2>1 DEF Ranked
<1> HIDE DEF key, ranked
<1>5. \A j, k \in 1..n : key[j] = key[k] => j = k
  BY <1>2
<1>6. /\ place \in [1..n -> 1..n]
      /\ \A x \in 1..n : LET k == Rank(1..n, key, x) + 1 IN k \in 1..n /\ place[k] = x
      /\ \A m, k \in 1..n : m < k => key[place[m]] < key[place[k]]
  <2> DEFINE J == 1..n
             p == SortedBy(J, key)
  <2>1. IsFiniteSet(J) /\ Cardinality(J) = n /\ key \in [J -> Int] /\ 1..n = J
    BY <1>1, <1>3
  <2>2. \A j, k \in J : key[j] = key[k] => j = k
    BY <1>5
  <2> HIDE DEF J
  <2>3. /\ p \in [1..Cardinality(J) -> J]
        /\ \A x \in J : LET k == Rank(J, key, x) + 1 IN k \in 1..Cardinality(J) /\ p[k] = x
        /\ \A m, k \in 1..Cardinality(J) : m < k => key[p[m]] < key[p[k]]
    BY <2>1, <2>2, SortedByKey
  <2> HIDE DEF p
  <2>4. /\ p \in [J -> J]
        /\ \A x \in J : LET k == Rank(J, key, x) + 1 IN k \in J /\ p[k] = x
        /\ \A m, k \in J : m < k => key[p[m]] < key[p[k]]
    BY <2>1, <2>3
  <2>5. QED BY <2>1, <2>4 DEF p
<1> HIDE DEF place
<1>7. ASSUME NEW k \in 1..n PROVE place[k] \in 1..n /\ ranked[k] = rows[place[k]]
  BY <1>4, <1>6
<1>8. ranked \in [1..n -> [combo : 1..n, status : Statuses]]
  BY <1>4, <1>6
<1>9. ASSUME NEW j \in 1..n PROVE \E k \in 1..n : ranked[k] = rows[j]
  <2> DEFINE k == Rank(1..n, key, j) + 1
  <2>1. k \in 1..n /\ place[k] = j
    BY <1>6
  <2> HIDE DEF k
  <2>2. ranked[k] = rows[j]
    BY <1>7, <2>1
  <2>3. QED BY <2>1, <2>2
<1>10. ASSUME NEW m \in 1..n, NEW k \in 1..n, m < k, ranked[k].status = "metrics"
       PROVE  ranked[m].status = "metrics" /\ ranked[m].combo > ranked[k].combo
  <2>1. /\ place[m] \in 1..n /\ ranked[m] = rows[place[m]] /\ rows[place[m]].combo = place[m]
        /\ place[k] \in 1..n /\ ranked[k] = rows[place[k]] /\ rows[place[k]].combo = place[k]
        /\ key[place[m]] < key[place[k]]
    BY <1>6, <1>7, <1>10
  <2>2. key[place[k]] = - place[k]
    BY <1>2, <1>10, <2>1
  <2>3. key[place[m]] = IF rows[place[m]].status = "metrics" THEN - place[m] ELSE place[m]
    BY <1>2, <2>1
  <2>4. place[m] \in Int /\ place[k] \in Int /\ place[m] > 0 /\ place[k] > 0
    BY <2>1
  <2>5. rows[place[m]].status = "metrics" /\ place[m] > place[k]
    BY <2>1, <2>2, <2>3, <2>4
  <2>6. QED BY <2>1, <2>5
<1>11. ranked \in Seq([combo : 1..n, status : Statuses]) /\ Len(ranked) = n /\ DOMAIN ranked = 1..n
  <2> DEFINE R == [combo : 1..n, status : Statuses]
  <2>1. ranked \in [1..n -> R]
    BY <1>8
  <2> HIDE DEF R
  <2>2. ranked \in Seq(R) /\ Len(ranked) = n /\ DOMAIN ranked = 1..n
    BY <2>1
  <2>3. QED BY <2>2 DEF R
<1>12. \A k \in 1..n : \E j \in 1..n : ranked[k] = rows[j]
  BY <1>7
<1>13. QED BY <1>9, <1>10, <1>11, <1>12 DEF ranked

\* Only rows with metrics are kept.
LEMMA KeptHaveMetrics ==
  ASSUME NEW n \in Nat, NEW rows \in Seq([combo : 1..n, status : Statuses]),
         NEW k \in DOMAIN Kept5(rows)
  PROVE  Kept5(rows)[k].status = "metrics"
<1> DEFINE least == Min({5, Len(rows)})
<1>1. CASE \A j \in DOMAIN rows : rows[j].status = "metrics"
  <2>1. least \in Nat /\ least <= Len(rows)
    BY MinOfTwo
  <2>2. Kept5(rows) = SubSeq(rows, 1, least)
    BY <1>1 DEF Kept5
  <2> HIDE DEF least
  <2>3. k \in 1..least /\ SubSeq(rows, 1, least)[k] = rows[k]
    BY <2>1, <2>2
  <2>4. k \in DOMAIN rows
    BY <2>1, <2>3
  <2>5. QED BY <1>1, <2>2, <2>3, <2>4
<1>2. CASE ~(\A j \in DOMAIN rows : rows[j].status = "metrics")
  BY <1>2 DEF Kept5
<1>3. QED BY <1>1, <1>2

SweepTypes ==
  /\ nature \in [Jobs -> {"returns", "raises", "hangs"}]
  /\ path \in {"submit", "collect", "leave", "sequential", "done"}
  /\ jobs \in [Jobs -> {"new", "pending", "running", "ended", "broken"}]
  /\ broken \in BOOLEAN
  /\ results \in Seq(SweepRows)

\* What the state of a job says, and which states the jobs have on each path.
JobsFollowPath ==
  /\ \A j \in Jobs : jobs[j] = "ended" => nature[j] # "hangs"
  /\ \A j \in Jobs : jobs[j] = "broken" => broken
  /\ path = "submit" => results = <<>> /\ \E j \in Jobs : jobs[j] = "new"
  /\ path \in {"collect", "leave", "done"} => \A j \in Jobs : jobs[j] # "new"
  /\ path = "sequential" =>
       \A j \in Jobs : jobs[j] = IF j <= Len(results) THEN "ended" ELSE "new"
  /\ path = "done" => \A j \in Jobs : jobs[j] \in {"ended", "broken"}

\* The rows are collected in the order of the jobs, and each is true.
RowsFollowJobs ==
  /\ \A k \in DOMAIN results : RowIsTrue(results[k])
  /\ path # "done" => \A k \in DOMAIN results : results[k].combo = k
  /\ path \in {"submit", "collect", "sequential"} => Len(results) < Len(combos)
  /\ path \in {"leave", "done"} => Len(results) = Len(combos)

\* At the end the rows are those of all jobs, ranked.
RowsAreRanked ==
  path = "done" =>
    /\ \A j \in Jobs : \E k \in DOMAIN results : results[k].combo = j
    /\ \A m, k \in DOMAIN results :
         m < k /\ Status(k) = "metrics" => Status(m) = "metrics" /\ results[m].combo > results[k].combo

SweepInv == SweepTypes /\ JobsFollowPath /\ RowsFollowJobs /\ RowsAreRanked

LEMMA SweepInitInv ==
  ASSUME SweepInit
  PROVE  SweepInv
<1> DEFINE n == Len(combos)
<1>1. n \in Nat \ {0} /\ Jobs = 1..n
  BY JobsAreNumbered
<1> HIDE DEF n
<1>2. results = <<>> /\ Len(results) = 0 /\ DOMAIN results = {}
  BY DEF SweepInit
<1>3. \A j \in Jobs : jobs[j] = "new"
  BY DEF SweepInit
<1>4. 1 \in Jobs
  BY <1>1
<1>6. path \in {"submit", "sequential"}
  BY DEF SweepInit
<1>5. SweepTypes
  <2>1. nature \in [Jobs -> {"returns", "raises", "hangs"}] /\ broken \in BOOLEAN
    BY DEF SweepInit
  <2>2. jobs \in [Jobs -> {"new", "pending", "running", "ended", "broken"}]
    BY DEF SweepInit
  <2>3. QED BY <1>2, <1>6, <2>1, <2>2 DEF SweepTypes
<1>7. JobsFollowPath
  BY <1>1, <1>2, <1>3, <1>4, <1>6 DEF JobsFollowPath
<1>8. RowsFollowJobs
  BY <1>1, <1>2, <1>6 DEF RowsFollowJobs, n
<1>9. RowsAreRanked
  BY <1>6 DEF RowsAreRanked
<1>10. QED BY <1>5, <1>7, <1>8, <1>9 DEF SweepInv

\* The least of a set of jobs is one of them.
LEMMA MinOfJobs ==
  ASSUME NEW S, S \subseteq Jobs, S # {}
  PROVE  Min(S) \in S
<1>1. S \subseteq Nat
  BY JobsAreNumbered
<1>2. \E x \in S : \A y \in S : x <= y
  BY <1>1, LeastNat
<1>3. QED BY <1>2 DEF Min

\* A job's state changes and nothing of the rows does.
LEMMA JobMoves ==
  ASSUME SweepInv, NEW j \in Jobs, path # "sequential",
         NEW s \in {"pending", "running", "ended"}, s = "ended" => nature[j] # "hangs",
         jobs[j] \in {"pending", "running"},
         jobs' = [jobs EXCEPT ![j] = s], UNCHANGED <<nature, path, broken, results>>
  PROVE  SweepInv'
<1> USE DEF SweepInv
<1>1. /\ jobs' \in [Jobs -> {"new", "pending", "running", "ended", "broken"}]
      /\ \A i \in Jobs : jobs'[i] = IF i = j THEN s ELSE jobs[i]
  BY DEF SweepTypes
<1>2. path \in {"submit", "collect", "leave"}
  BY DEF SweepTypes, JobsFollowPath
<1>3. SweepTypes'
  BY <1>1 DEF SweepTypes
<1>4. JobsFollowPath'
  BY <1>1, <1>2 DEF JobsFollowPath
<1>5. RowsFollowJobs'
  BY DEF RowsFollowJobs, RowIsTrue
<1>6. RowsAreRanked'
  BY <1>2 DEF RowsAreRanked
<1>7. QED BY <1>3, <1>4, <1>5, <1>6

\* The caller collects a true row for the next job.
LEMMA RowCollected ==
  ASSUME SweepInv, path = "collect", NEW status \in Statuses,
         RowIsTrue(Row(Len(results) + 1, status)),
         Collected(Row(Len(results) + 1, status)), UNCHANGED <<nature, jobs, broken>>
  PROVE  SweepInv'
<1> DEFINE n == Len(combos)
           head == Len(results) + 1
           row == Row(head, status)
<1>1. n \in Nat \ {0} /\ Jobs = 1..n
  BY JobsAreNumbered
<1>2. results \in Seq(SweepRows) /\ Len(results) \in Nat /\ Len(results) < n
  BY DEF SweepInv, SweepTypes, RowsFollowJobs
<1>3. head \in Jobs /\ head <= n
  BY <1>1, <1>2
<1>4. row \in SweepRows /\ row.combo = head
  BY <1>3 DEF Row, SweepRows
<1>5. results' = Append(results, row) /\ path' = IF Len(results') = n THEN "leave" ELSE path
  BY DEF Collected
<1>6. RowIsTrue(row)
  OBVIOUS
<1> HIDE DEF row, n
<1>7. /\ results' \in Seq(SweepRows) /\ Len(results') = head
      /\ \A k \in DOMAIN results' : \/ k \in DOMAIN results /\ results'[k] = results[k]
                                    \/ k = head /\ results'[k] = row
  BY <1>2, <1>4, <1>5
<1>8. path' \in {"collect", "leave"}
  BY <1>5
<1>9. SweepTypes'
  BY <1>7, <1>8 DEF SweepInv, SweepTypes
<1>10. JobsFollowPath'
  BY <1>8 DEF SweepInv, JobsFollowPath
<1>11. RowsFollowJobs'
  <2>1. \A k \in DOMAIN results' : RowIsTrue(results'[k]) /\ results'[k].combo = k
    BY <1>4, <1>6, <1>7 DEF SweepInv, RowsFollowJobs
  <2>2. \A k \in DOMAIN results' : RowIsTrue(results[k])'
    BY <2>1 DEF RowIsTrue
  <2>3. path' = "collect" => Len(results') < n
    BY <1>1, <1>2, <1>3, <1>5, <1>7
  <2>4. path' = "leave" => Len(results') = n
    BY <1>5
  <2>5. QED BY <1>8, <2>1, <2>2, <2>3, <2>4 DEF RowsFollowJobs, n
<1>12. RowsAreRanked'
  BY <1>8 DEF RowsAreRanked
<1>13. QED BY <1>9, <1>10, <1>11, <1>12 DEF SweepInv

\* All rows are there and no job is under way: they are ranked.
LEMMA SweepConcluded ==
  ASSUME NEW rows \in Seq(SweepRows), Len(rows) = Len(combos),
         \A k \in DOMAIN rows : rows[k].combo = k /\ RowIsTrue(rows[k]),
         SweepTypes, UNCHANGED <<nature, broken>>,
         jobs' \in [Jobs -> {"ended", "broken"}],
         \A j \in Jobs : jobs'[j] = "ended" => nature[j] # "hangs",
         \A j \in Jobs : jobs'[j] = "broken" => broken,
         path' = "done", results' = Ranked(rows)
  PROVE  SweepInv'
<1> DEFINE n == Len(combos)
           ranked == Ranked(rows)
<1>1. n \in Nat \ {0} /\ Jobs = 1..n
  BY JobsAreNumbered
<1>2. rows \in [1..n -> [combo : 1..n, status : Statuses]] /\ DOMAIN rows = 1..n
  <2>1. rows \in [1..n -> SweepRows] /\ DOMAIN rows = 1..n
    BY <1>1
  <2>2. SweepRows = [combo : 1..n, status : Statuses]
    BY <1>1 DEF SweepRows
  <2>3. QED BY <2>1, <2>2
<1> HIDE DEF n
<1>3. /\ ranked \in Seq(SweepRows) /\ Len(ranked) = n /\ DOMAIN ranked = 1..n
      /\ \A k \in 1..n : \E j \in 1..n : ranked[k] = rows[j]
      /\ \A j \in 1..n : \E k \in 1..n : ranked[k] = rows[j]
      /\ \A m, k \in 1..n :
           m < k /\ ranked[k].status = "metrics" =>
             ranked[m].status = "metrics" /\ ranked[m].combo > ranked[k].combo
  BY <1>1, <1>2, RankedRows DEF SweepRows
<1> HIDE DEF ranked
<1>4. results' = ranked
  BY DEF ranked
<1>5. SweepTypes'
  BY <1>3, <1>4 DEF SweepTypes
<1>6. JobsFollowPath'
  BY DEF JobsFollowPath
<1>7. RowsFollowJobs'
  <2>1. ASSUME NEW k \in 1..n PROVE RowIsTrue(ranked[k])
    <3>1. PICK j \in 1..n : ranked[k] = rows[j]
      BY <1>3
    <3>2. QED BY <1>2, <3>1
  <2>2. ASSUME NEW k \in DOMAIN results' PROVE RowIsTrue(results[k])'
    <3>1. results'[k] = ranked[k] /\ RowIsTrue(ranked[k])
      BY <1>3, <1>4, <2>1
    <3>2. nature' = nature /\ broken' = broken
      OBVIOUS
    <3>3. QED BY <3>1, <3>2 DEF RowIsTrue
  <2>3. QED BY <1>3, <1>4, <2>2 DEF RowsFollowJobs, n
<1>8. RowsAreRanked'
  <2>1. ASSUME NEW j \in Jobs PROVE \E k \in DOMAIN results' : results'[k].combo = j
    <3>1. PICK k \in 1..n : ranked[k] = rows[j]
      BY <1>1, <1>3
    <3>2. k \in DOMAIN results' /\ results'[k].combo = rows[j].combo /\ j \in DOMAIN rows
      BY <1>1, <1>2, <1>3, <1>4, <2>1, <3>1
    <3>3. QED BY <3>2
  <2>2. QED BY <1>3, <1>4, <2>1 DEF RowsAreRanked, Status
<1>9. QED BY <1>5, <1>6, <1>7, <1>8 DEF SweepInv

LEMMA SweepNextInv ==
  ASSUME SweepInv, [SweepNext]_sweepVars
  PROVE  SweepInv'
<1> DEFINE n == Len(combos)
<1>0. n \in Nat \ {0} /\ Jobs = 1..n
  BY JobsAreNumbered
<1>1. CASE Submit
  <2>1. path = "submit" /\ results = <<>> /\ UNCHANGED <<nature, broken>>
    BY <1>1 DEF Submit, SweepInv, JobsFollowPath
  <2>2. CASE broken
    <3>1. path' = "sequential" /\ jobs' = [j \in Jobs |-> "new"] /\ results' = <<>>
      BY <1>1, <2>2 DEF Submit
    <3>2. SweepTypes'
      BY <2>1, <3>1 DEF SweepInv, SweepTypes
    <3>3. JobsFollowPath'
      BY <1>0, <2>1, <3>1 DEF JobsFollowPath
    <3>4. RowsFollowJobs' /\ RowsAreRanked'
      BY <1>0, <2>1, <3>1 DEF RowsFollowJobs, RowsAreRanked
    <3>5. QED BY <3>2, <3>3, <3>4 DEF SweepInv
  <2>3. CASE ~broken
    <3> DEFINE new == In("new")
               j == Min(new)
    <3>1. new = {i \in Jobs : jobs[i] = "new"}
      BY DEF In
    <3>2. new # {}
      BY <2>1, <3>1 DEF SweepInv, JobsFollowPath
    <3>3. jobs' = [jobs EXCEPT ![j] = "pending"] /\ results' = results
          /\ path' = IF new = {j} THEN "collect" ELSE "submit"
      BY <1>1, <2>3 DEF Submit
    <3> HIDE DEF new
    <3>4. j \in new
      BY <3>1, <3>2, MinOfJobs
    <3> HIDE DEF j
    <3>5. /\ j \in Jobs /\ jobs' \in [Jobs -> {"new", "pending", "running", "ended", "broken"}]
          /\ \A i \in Jobs : jobs'[i] = IF i = j THEN "pending" ELSE jobs[i]
      BY <3>1, <3>3, <3>4 DEF SweepInv, SweepTypes
    <3>6. SweepTypes'
      BY <2>1, <3>3, <3>5 DEF SweepInv, SweepTypes
    <3>7. JobsFollowPath'
      <4>1. \A i \in Jobs : jobs'[i] = "ended" => nature'[i] # "hangs"
        BY <2>1, <3>5 DEF SweepInv, JobsFollowPath
      <4>2. \A i \in Jobs : jobs'[i] = "broken" => broken'
        BY <2>1, <3>5 DEF SweepInv, JobsFollowPath
      <4>3. CASE new = {j}
        <5>1. \A i \in Jobs : jobs'[i] # "new"
          BY <3>1, <3>5, <4>3
        <5>2. QED BY <3>3, <4>1, <4>2, <4>3, <5>1 DEF JobsFollowPath
      <4>4. CASE new # {j}
        <5>1. PICK i \in new : i # j
          BY <3>4, <4>4
        <5>2. i \in Jobs /\ jobs'[i] = "new"
          BY <3>1, <3>5, <5>1
        <5>3. QED BY <2>1, <3>3, <4>1, <4>2, <4>4, <5>2 DEF JobsFollowPath
      <4>5. QED BY <4>3, <4>4
    <3>8. RowsFollowJobs' /\ RowsAreRanked'
      BY <1>0, <2>1, <3>3 DEF RowsFollowJobs, RowsAreRanked
    <3>9. QED BY <3>6, <3>7, <3>8 DEF SweepInv
  <2>4. QED BY <2>2, <2>3
<1>2. CASE Take
  <2> DEFINE j == Min(In("pending"))
  <2>1. j \in Jobs /\ jobs[j] = "pending"
    <3>1. In("pending") \subseteq Jobs /\ In("pending") # {}
      BY <1>2 DEF Take, In
    <3>2. j \in In("pending")
      BY <3>1, MinOfJobs
    <3>3. QED BY <3>2 DEF In
  <2>2. /\ path # "sequential" /\ jobs' = [jobs EXCEPT ![j] = "running"]
        /\ UNCHANGED <<nature, path, broken, results>>
    BY <1>2 DEF Take
  <2> HIDE DEF j
  <2>3. QED BY <2>1, <2>2, JobMoves
<1>3. ASSUME NEW j \in Jobs, Finish(j) PROVE SweepInv'
  <2>1. path # "sequential"
    BY <1>3 DEF Finish, SweepInv, JobsFollowPath
  <2>2. QED BY <1>3, <2>1, JobMoves DEF Finish
<1>4. CASE WorkerDies
  <2>1. PICK r \in Jobs : jobs[r] = "running"
    BY <1>4 DEF WorkerDies, In
  <2>2. path \in {"submit", "collect", "leave"}
    BY <1>4, <2>1 DEF WorkerDies, SweepInv, SweepTypes, JobsFollowPath
  <2>3. /\ broken' = TRUE /\ UNCHANGED <<nature, path, results>>
        /\ jobs' = [j \in Jobs |-> IF jobs[j] \in {"pending", "running"} THEN "broken" ELSE jobs[j]]
    BY <1>4 DEF WorkerDies
  <2>4. SweepTypes'
    BY <2>3 DEF SweepInv, SweepTypes
  <2>5. JobsFollowPath'
    BY <2>2, <2>3 DEF SweepInv, SweepTypes, JobsFollowPath
  <2>6. RowsFollowJobs'
    BY <2>3 DEF SweepInv, RowsFollowJobs, RowIsTrue
  <2>7. RowsAreRanked'
    BY <2>2, <2>3 DEF RowsAreRanked
  <2>8. QED BY <2>4, <2>5, <2>6, <2>7 DEF SweepInv
<1>5. ASSUME Collect \/ CollectTimeout PROVE SweepInv'
  <2> DEFINE head == Len(results) + 1
  <2>1. path = "collect" /\ UNCHANGED <<nature, jobs, broken>>
    BY <1>5 DEF Collect, CollectTimeout
  <2>2. head \in Jobs
    BY <1>0, <2>1 DEF SweepInv, SweepTypes, RowsFollowJobs
  <2>3. \/ jobs[head] = "ended" /\ Collected(WorkerRow(head))
        \/ jobs[head] = "broken" /\ Collected(Row(head, "error"))
        \/ Collected(Row(head, "timeout"))
    BY <1>5 DEF Collect, CollectTimeout
  <2> HIDE DEF n
  <2>4. CASE jobs[head] = "ended" /\ Collected(WorkerRow(head))
    <3> DEFINE status == IF nature[head] = "returns" THEN "metrics" ELSE "error"
    <3>1. status \in Statuses /\ WorkerRow(head) = Row(head, status)
      BY DEF Statuses, WorkerRow
    <3>2. RowIsTrue(Row(head, status))
      BY <2>2, <2>4 DEF RowIsTrue, Row, SweepInv, SweepTypes, JobsFollowPath
    <3> HIDE DEF status
    <3>3. QED BY <2>1, <2>4, <3>1, <3>2, RowCollected
  <2>5. CASE jobs[head] = "broken" /\ Collected(Row(head, "error"))
    <3>1. RowIsTrue(Row(head, "error"))
      BY <2>2, <2>5 DEF RowIsTrue, Row, SweepInv, JobsFollowPath
    <3>2. "error" \in Statuses
      BY DEF Statuses
    <3>3. QED BY <2>1, <2>5, <3>1, <3>2, RowCollected
  <2>6. CASE Collected(Row(head, "timeout"))
    <3>1. RowIsTrue(Row(head, "timeout")) /\ "timeout" \in Statuses
      BY DEF RowIsTrue, Row, Statuses
    <3>2. QED BY <2>1, <2>6, <3>1, RowCollected
  <2>7. QED BY <2>3, <2>4, <2>5, <2>6
<1>6. CASE Leave
  <2>1. /\ path = "leave" /\ path' = "done" /\ results' = Ranked(results)
        /\ UNCHANGED <<nature, jobs, broken>>
        /\ \A j \in Jobs : jobs[j] \notin {"pending", "running"}
    BY <1>6 DEF Leave, In
  <2>2. jobs' \in [Jobs -> {"ended", "broken"}]
    BY <2>1 DEF SweepInv, SweepTypes, JobsFollowPath
  <2>3. /\ results \in Seq(SweepRows) /\ Len(results) = Len(combos)
        /\ \A k \in DOMAIN results : results[k].combo = k /\ RowIsTrue(results[k])
    BY <2>1 DEF SweepInv, SweepTypes, RowsFollowJobs
  <2>4. /\ \A j \in Jobs : jobs'[j] = "ended" => nature[j] # "hangs"
        /\ \A j \in Jobs : jobs'[j] = "broken" => broken
    BY <2>1 DEF SweepInv, JobsFollowPath
  <2>5. SweepTypes
    BY DEF SweepInv
  <2>6. QED BY <2>1, <2>2, <2>3, <2>4, <2>5, SweepConcluded
<1>7. CASE RunNext
  <2> DEFINE j == Len(results) + 1
             row == WorkerRow(j)
             rows == Append(results, row)
  <2>1. /\ path = "sequential" /\ nature[j] # "hangs" /\ jobs' = [jobs EXCEPT ![j] = "ended"]
        /\ results' = (IF j = n THEN Ranked(rows) ELSE rows)
        /\ path' = (IF j = n THEN "done" ELSE path)
        /\ UNCHANGED <<nature, broken>>
    BY <1>7 DEF RunNext
  <2>2. /\ results \in Seq(SweepRows) /\ Len(results) \in Nat /\ Len(results) < n
        /\ \A k \in DOMAIN results : results[k].combo = k /\ RowIsTrue(results[k])
        /\ DOMAIN results = 1..Len(results)
    BY <2>1 DEF SweepInv, SweepTypes, RowsFollowJobs
  <2>3. j \in Jobs
    BY <1>0, <2>2
  <2>4. row \in SweepRows /\ row.combo = j /\ RowIsTrue(row)
    BY <2>1, <2>3 DEF WorkerRow, Row, SweepRows, Statuses, RowIsTrue, SweepInv, SweepTypes
  <2> HIDE DEF row, n
  <2>5. /\ rows \in Seq(SweepRows) /\ Len(rows) = j
        /\ \A k \in DOMAIN rows : rows[k].combo = k /\ RowIsTrue(rows[k])
    <3>1. /\ rows \in Seq(SweepRows) /\ Len(rows) = j
          /\ \A k \in DOMAIN rows : \/ k \in DOMAIN results /\ rows[k] = results[k]
                                    \/ k = j /\ rows[k] = row
      BY <2>2, <2>4
    <3> HIDE DEF rows, j
    <3>2. QED BY <2>2, <2>4, <3>1
  <2>6. /\ jobs' \in [Jobs -> {"new", "pending", "running", "ended", "broken"}]
        /\ \A i \in Jobs : jobs'[i] = IF i <= j THEN "ended" ELSE "new"
    <3>1. /\ jobs \in [Jobs -> {"new", "pending", "running", "ended", "broken"}]
          /\ \A i \in Jobs : jobs[i] = IF i <= Len(results) THEN "ended" ELSE "new"
      BY <2>1 DEF SweepInv, SweepTypes, JobsFollowPath
    <3>2. \A i \in Jobs : i <= j <=> i <= Len(results) \/ i = j
      BY <1>0, <2>2
    <3> HIDE DEF j
    <3>3. QED BY <2>1, <2>3, <3>1, <3>2
  <2>7. SweepTypes
    BY DEF SweepInv
  <2>8. \A i \in Jobs : i <= j => nature[i] # "hangs"
    <3>1. \A i \in Jobs : i <= Len(results) => nature[i] # "hangs"
      BY <2>1 DEF SweepInv, JobsFollowPath
    <3>2. QED BY <1>0, <2>1, <2>2, <3>1
  <2> HIDE DEF rows, j
  <2>9. CASE j = n
    <3>1. path' = "done" /\ results' = Ranked(rows) /\ Len(rows) = Len(combos)
      BY <2>1, <2>5, <2>9 DEF n
    <3>2. \A i \in Jobs : jobs'[i] = "ended"
      BY <1>0, <2>6, <2>9
    <3>3. jobs' \in [Jobs -> {"ended", "broken"}]
      BY <2>6, <3>2
    <3>4. \A i \in Jobs : nature[i] # "hangs"
      BY <1>0, <2>8, <2>9
    <3>5. QED BY <2>1, <2>5, <2>7, <3>1, <3>2, <3>3, <3>4, SweepConcluded
  <2>10. CASE j # n
    <3>1. path' = "sequential" /\ results' = rows
      BY <2>1, <2>10
    <3>2. SweepTypes'
      BY <2>1, <2>5, <2>6, <2>7, <3>1 DEF SweepTypes
    <3>3. JobsFollowPath'
      BY <2>1, <2>5, <2>6, <2>8, <3>1 DEF JobsFollowPath
    <3>4. RowsFollowJobs'
      <4>1. \A k \in DOMAIN results' : RowIsTrue(results[k])'
        BY <2>1, <2>5, <3>1 DEF RowIsTrue
      <4>2. Len(results') < n
        BY <1>0, <2>3, <2>5, <2>10, <3>1
      <4>3. QED BY <2>5, <3>1, <4>1, <4>2 DEF RowsFollowJobs, n
    <3>5. RowsAreRanked'
      BY <3>1 DEF RowsAreRanked
    <3>6. QED BY <3>2, <3>3, <3>4, <3>5 DEF SweepInv
  <2>11. QED BY <2>9, <2>10
<1>8. CASE UNCHANGED sweepVars
  BY <1>8 DEF sweepVars, SweepInv, SweepTypes, JobsFollowPath, RowsFollowJobs, RowsAreRanked,
              RowIsTrue, Status
<1>9. QED BY <1>1, <1>2, <1>3, <1>4, <1>5, <1>6, <1>7, <1>8 DEF SweepNext, SweepStep

SweepSpec == SweepInit /\ [][SweepNext]_sweepVars

(***************************************************************************)
(* A sweep that ends has one row for every combination of the grid and     *)
(* leaves no job running, whatever the jobs do, the waits that run out and *)
(* the workers that die (param_sweep.py:165-250).                          *)
(***************************************************************************)
THEOREM SweepCoversGrid == SweepSpec => []SweepIsComplete
<1>1. SweepInit => SweepInv
  BY SweepInitInv
<1>2. SweepInv /\ [SweepNext]_sweepVars => SweepInv'
  BY SweepNextInv
<1>3. SweepInv => SweepIsComplete
  <2>1. ASSUME SweepInv, path = "done"
        PROVE  /\ Len(results) = Len(combos)
               /\ {results[k].combo : k \in DOMAIN results} = Jobs
               /\ \A j \in Jobs : jobs[j] \in {"ended", "broken"}
    <3>1. ASSUME NEW k \in DOMAIN results PROVE results[k].combo \in Jobs
      <4>1. results[k] \in SweepRows
        BY <2>1, <3>1 DEF SweepInv, SweepTypes
      <4>2. QED BY <4>1 DEF SweepRows
    <3>2. \A j \in Jobs : \E k \in DOMAIN results : results[k].combo = j
      BY <2>1 DEF SweepInv, RowsAreRanked
    <3>3. {results[k].combo : k \in DOMAIN results} = Jobs
      BY <3>1, <3>2
    <3>4. QED BY <2>1, <3>3 DEF SweepInv, RowsFollowJobs, JobsFollowPath
  <2>2. QED BY <2>1 DEF SweepIsComplete
<1>4. QED BY <1>1, <1>2, <1>3, PTL DEF SweepSpec

(***************************************************************************)
(* The rows with metrics come first, the best of them at the head; each    *)
(* row says what became of its job, and only rows with metrics are kept    *)
(* for validation (param_sweep.py:230-250, phase3b_sweep.py).              *)
(***************************************************************************)
THEOREM SweepRanksBestFirst == SweepSpec => []BestRowFirst
<1>1. SweepInit => SweepInv
  BY SweepInitInv
<1>2. SweepInv /\ [SweepNext]_sweepVars => SweepInv'
  BY SweepNextInv
<1>3. SweepInv => BestRowFirst
  <2>1. ASSUME SweepInv, path = "done", NEW k \in DOMAIN results
        PROVE  /\ Status(k) = "metrics" => nature[results[k].combo] = "returns"
               /\ Status(k) = "error" => nature[results[k].combo] = "raises" \/ broken
               /\ Status(k) = "metrics" =>
                    \A m \in 1..k-1 : Status(m) = "metrics" /\ results[m].combo > results[k].combo
    <3>1. RowIsTrue(results[k])
      BY <2>1 DEF SweepInv, RowsFollowJobs
    <3>2. DOMAIN results = 1..Len(results) /\ Len(results) \in Nat
      BY <2>1 DEF SweepInv, SweepTypes
    <3>3. \A m \in 1..k-1 : m \in DOMAIN results /\ m < k
      BY <2>1, <3>2
    <3>4. \A m \in DOMAIN results :
            m < k /\ Status(k) = "metrics" => Status(m) = "metrics" /\ results[m].combo > results[k].combo
      BY <2>1 DEF SweepInv, RowsAreRanked
    <3>5. QED BY <3>1, <3>3, <3>4 DEF RowIsTrue, Status
  <2>2. ASSUME SweepInv, path = "done", NEW k \in DOMAIN Kept5(results)
        PROVE  Kept5(results)[k].status = "metrics"
    <3>1. results \in Seq([combo : 1..Len(combos), status : Statuses]) /\ Len(combos) \in Nat
      BY <2>2, JobsAreNumbered DEF SweepInv, SweepTypes, SweepRows
    <3>2. QED BY <2>2, <3>1, KeptHaveMetrics
  <2>3. QED BY <2>1, <2>2 DEF BestRowFirst
<1>4. QED BY <1>1, <1>2, <1>3, PTL DEF SweepSpec

-----------------------------------------------------------------------------
(* The sizers: floors and the cap by notional only take away.              *)

\* The cap by notional takes away only, and keeps the leverage.
LEMMA CappedSize ==
  ASSUME NEW p, p.max_leverage \in Nat, NEW size \in Nat, NEW equity \in Nat,
         NEW entry \in Nat \ {0}, entry # None
  PROVE  /\ Capped(p, size, equity, entry) \in Nat
         /\ Capped(p, size, equity, entry) <= size
         /\ Capped(p, size, equity, entry) * entry <= equity * p.max_leverage
<1> DEFINE most == equity * p.max_leverage
           capped == Capped(p, size, equity, entry)
<1>1. most \in Nat
  OBVIOUS
<1>2. capped = Least(size, most \div entry)
  BY DEF Capped
<1> HIDE DEF most, capped
<1>3. most \div entry \in Nat /\ (most \div entry) * entry <= most
  BY <1>1, Floored
<1>4. capped \in Nat /\ capped <= size /\ capped <= most \div entry
  BY <1>2, <1>3 DEF Least
<1>5. capped * entry <= (most \div entry) * entry
  BY <1>3, <1>4, TimesMonotone
<1>6. capped * entry \in Nat /\ (most \div entry) * entry \in Nat
  BY <1>3, <1>4
<1>7. capped * entry <= most
  BY <1>1, <1>3, <1>5, <1>6
<1>8. QED BY <1>4, <1>7 DEF most, capped

\* A size below a floored risk budget over a distance loses at most the budget there.
LEMMA BudgetAtStop ==
  ASSUME NEW budget \in Nat, NEW distance \in Nat \ {0}, NEW size \in Nat,
         size <= budget \div (100 * distance)
  PROVE  100 * size * distance <= budget
<1> DEFINE cost == 100 * distance
<1>1. cost \in Nat \ {0}
  OBVIOUS
<1>2. 100 * size * distance = size * cost
  OBVIOUS
<1> HIDE DEF cost
<1>3. budget \div cost \in Nat /\ (budget \div cost) * cost <= budget
  BY <1>1, Floored
<1>4. size <= budget \div cost
  BY DEF cost
<1>5. size * cost <= (budget \div cost) * cost
  BY <1>1, <1>3, <1>4, TimesMonotone
<1>6. size * cost \in Nat /\ (budget \div cost) * cost \in Nat
  BY <1>1, <1>3
<1>7. QED BY <1>2, <1>3, <1>5, <1>6

(***************************************************************************)
(* FixedRiskSizer: the loss at the stop is at most risk_pct of the equity, *)
(* and the position at most max_leverage times it (sizers.py:101-135).     *)
(***************************************************************************)
THEOREM FixedRiskWithinBudget ==
  ASSUME NEW p, p.risk_pct \in Nat, p.max_leverage \in Nat, NEW equity \in Nat,
         NEW entry \in Nat \ {0}, NEW distance \in Int, None \notin Int
  PROVE  LET size == FixedRisk(p, equity, entry, distance)
         IN  /\ size \in Nat
             /\ size * entry <= equity * p.max_leverage
             /\ distance > 0 => 100 * size * distance <= p.risk_pct * equity
<1> DEFINE size == FixedRisk(p, equity, entry, distance)
           budget == equity * p.risk_pct
<1>1. budget \in Nat /\ budget = p.risk_pct * equity /\ equity * p.max_leverage \in Nat
  OBVIOUS
<1>2. CASE equity <= 0 \/ distance <= 0
  <2>1. size = 0
    BY <1>2 DEF FixedRisk
  <2> HIDE DEF size
  <2>2. 0 * entry = 0 /\ 100 * 0 * distance = 0
    OBVIOUS
  <2>3. QED BY <1>1, <2>1, <2>2 DEF size
<1>3. CASE ~(equity <= 0 \/ distance <= 0)
  <2>1. distance \in Nat \ {0} /\ entry # None
    BY <1>3
  <2> DEFINE full == budget \div (100 * distance)
  <2>2. size = Capped(p, full, equity, entry)
    BY <1>3, <2>1 DEF FixedRisk
  <2>3. full \in Nat
    <3>1. 100 * distance \in Nat \ {0}
      BY <2>1
    <3> HIDE DEF budget
    <3>2. QED BY <1>1, <3>1, Floored
  <2> HIDE DEF size, full
  <2>4. size \in Nat /\ size <= full /\ size * entry <= equity * p.max_leverage
    BY <2>1, <2>2, <2>3, CappedSize
  <2> HIDE DEF budget
  <2>5. 100 * size * distance <= budget
    BY <1>1, <2>1, <2>4, BudgetAtStop DEF full
  <2>6. QED BY <1>1, <2>4, <2>5 DEF size
<1>4. QED BY <1>2, <1>3

(***************************************************************************)
(* HalfKellySizer: whichever of half Kelly and the cap is taken, the loss  *)
(* at the stop is at most max_risk_cap of the equity, and the position at  *)
(* most max_leverage times it (sizers.py:150-208).                         *)
(***************************************************************************)
THEOREM HalfKellyWithinBudget ==
  ASSUME NEW p, p.win_rate \in Nat, p.profit_factor \in Nat, p.max_risk_cap \in Nat,
         p.max_leverage \in Nat, NEW strength, NEW equity \in Nat,
         NEW entry \in Nat \ {0}, NEW distance \in Int, None \notin Int
  PROVE  LET size == HalfKelly(p, strength, equity, entry, distance)
         IN  /\ size \in Nat
             /\ size * entry <= equity * p.max_leverage
             /\ distance > 0 => 100 * size * distance <= p.max_risk_cap * equity
<1> DEFINE size == HalfKelly(p, strength, equity, entry, distance)
           edge == KellyNumerator(p, strength)
           scale == 200 * p.profit_factor
           budget == equity * p.max_risk_cap
           refused == equity <= 0 \/ distance <= 0 \/ p.profit_factor <= 0 \/ edge <= 0
<1>1. /\ edge \in Int /\ scale \in Nat
      /\ budget \in Nat /\ budget = p.max_risk_cap * equity /\ equity * p.max_leverage \in Nat
  BY DEF KellyNumerator
<1>2. CASE refused
  <2>1. size = 0
    BY <1>2 DEF HalfKelly
  <2> HIDE DEF size
  <2>2. 0 * entry = 0 /\ 100 * 0 * distance = 0
    OBVIOUS
  <2>3. QED BY <1>1, <2>1, <2>2 DEF size
<1>3. CASE ~refused
  <2>1. distance \in Nat \ {0} /\ entry # None /\ distance # None /\ edge \in Nat \ {0}
    BY <1>1, <1>3
  <2>2. scale \in Nat \ {0}
    BY <1>3
  <2> DEFINE atCap == budget \div (100 * distance)
             atKelly == (equity * edge) \div (scale * distance)
             overCap == 100 * edge > p.max_risk_cap * scale
             full == IF overCap THEN atCap ELSE atKelly
  <2>3. size = Capped(p, full, equity, entry)
    BY <1>3, <2>1 DEF HalfKelly
  <2>4. 100 * distance \in Nat \ {0} /\ scale * distance \in Nat \ {0} /\ equity * edge \in Nat
    <3> HIDE DEF scale, edge
    <3>1. QED BY <2>1, <2>2, ProductPositive
  <2> HIDE DEF size, budget, scale, edge
  <2>5. atCap \in Nat /\ atKelly \in Nat /\ atKelly * (scale * distance) <= equity * edge
    BY <1>1, <2>4, Floored
  <2> HIDE DEF atCap, atKelly
  <2>6. full \in Nat
    BY <2>5
  <2> HIDE DEF full
  <2>7. size \in Nat /\ size <= full /\ size * entry <= equity * p.max_leverage
    BY <2>1, <2>3, <2>6, CappedSize
  <2>8. CASE overCap
    <3>1. size <= budget \div (100 * distance)
      BY <2>7, <2>8 DEF full, atCap
    <3>2. 100 * size * distance <= budget
      BY <1>1, <2>1, <2>7, <3>1, BudgetAtStop
    <3>3. QED BY <1>1, <2>7, <3>2 DEF size
  <2>9. CASE ~overCap
    <3>1. size <= atKelly
      BY <2>7, <2>9 DEF full
    <3>2. size * (scale * distance) <= equity * edge
      <4>1. size * (scale * distance) <= atKelly * (scale * distance)
        BY <2>4, <2>5, <2>7, <3>1, TimesMonotone
      <4>2. size * (scale * distance) \in Nat /\ atKelly * (scale * distance) \in Nat
        BY <2>4, <2>5, <2>7
      <4>3. QED BY <2>4, <2>5, <4>1, <4>2
    <3>3. (100 * size * distance) * scale = 100 * (size * (scale * distance))
      BY <2>1, <2>2, <2>7
    <3>4. 100 * (equity * edge) = (100 * edge) * equity
      BY <2>1
    <3>5. (100 * edge) * equity <= (p.max_risk_cap * scale) * equity
      <4>1. 100 * edge \in Nat /\ p.max_risk_cap * scale \in Nat /\ 100 * edge <= p.max_risk_cap * scale
        BY <2>1, <2>2, <2>9
      <4>2. QED BY <4>1, TimesMonotone
    <3>6. (p.max_risk_cap * scale) * equity = budget * scale
      BY <2>2 DEF budget
    <3>7. (100 * size * distance) * scale <= budget * scale
      <4> DEFINE a == size * (scale * distance)
                 b == equity * edge
      <4>1. a \in Nat /\ b \in Nat /\ a <= b
        BY <2>4, <2>7, <3>2
      <4>2. 100 * a <= 100 * b
        <5> HIDE DEF a, b
        <5>1. QED BY <4>1
      <4>3. /\ (100 * edge) * equity \in Nat /\ (p.max_risk_cap * scale) * equity \in Nat
            /\ 100 * a \in Nat
        BY <2>1, <2>2, <4>1
      <4> HIDE DEF a, b
      <4>4. (100 * size * distance) * scale = 100 * a /\ 100 * b = (100 * edge) * equity
        BY <3>3, <3>4 DEF a, b
      <4>5. QED BY <3>5, <3>6, <4>2, <4>3, <4>4
    <3>8. 100 * size * distance \in Nat
      BY <2>1, <2>7
    <3>9. 100 * size * distance <= budget
      BY <1>1, <2>2, <3>7, <3>8, FactorOut
    <3>10. QED BY <1>1, <2>7, <3>9 DEF size
  <2>10. QED BY <2>8, <2>9
<1>4. QED BY <1>2, <1>3

-----------------------------------------------------------------------------
(* Sums over finite sets.                                                  *)

Pick(s) == CHOOSE x \in s : TRUE

\* g is the recursion that SumFunction() unfolds to, over the subsets of S.
Summing(h, S, g) ==
  g = [s \in SUBSET S |-> IF s = {} THEN 0 ELSE h[Pick(s)] + g[s \ {Pick(s)}]]

LEMMA SumUnfolds ==
  ASSUME NEW h
  PROVE  SumFunction(h) = (CHOOSE g : Summing(h, DOMAIN h, g))[DOMAIN h]
BY DEF SumFunction, SumFunctionOnSet, FoldFunctionOnSet, MapThenFoldSet, Summing, Pick

LEMMA SummingElements ==
  ASSUME NEW h, NEW S, NEW g, Summing(h, S, g), NEW s \in SUBSET S
  PROVE  g[s] = IF s = {} THEN 0 ELSE h[Pick(s)] + g[s \ {Pick(s)}]
<1> DEFINE F == [t \in SUBSET S |-> IF t = {} THEN 0 ELSE h[Pick(t)] + g[t \ {Pick(t)}]]
<1>1. g = F
  BY DEF Summing
<1>2. F[s] = IF s = {} THEN 0 ELSE h[Pick(s)] + g[s \ {Pick(s)}]
  OBVIOUS
<1> HIDE DEF F
<1>3. QED BY <1>1, <1>2

\* A part of a finite set, one smaller for each element that is taken out.
LEMMA PartOf ==
  ASSUME NEW S, IsFiniteSet(S), NEW s \in SUBSET S
  PROVE  /\ IsFiniteSet(s) /\ Cardinality(s) \in Nat
         /\ s # {} => Pick(s) \in s
         /\ \A x \in s : /\ s \ {x} \in SUBSET S
                         /\ Cardinality(s) > 0 /\ Cardinality(s \ {x}) = Cardinality(s) - 1
<1>1. IsFiniteSet(s) /\ Cardinality(s) \in Nat
  BY FS_Subset, FS_CardinalityType
<1>2. s # {} => Pick(s) \in s
  BY DEF Pick
<1>3. ASSUME NEW x \in s
      PROVE  Cardinality(s) > 0 /\ Cardinality(s \ {x}) = Cardinality(s) - 1
  <2>1. Cardinality(s) # 0
    BY <1>1, FS_EmptySet
  <2>2. Cardinality(s \ {x}) = Cardinality(s) - 1
    BY <1>1, FS_RemoveElement
  <2>3. QED BY <1>1, <2>1, <2>2
<1>4. QED BY <1>1, <1>2, <1>3

\* The recursion has a solution.
LEMMA SumExists ==
  ASSUME NEW S, IsFiniteSet(S), NEW h \in [S -> Int]
  PROVE  \E g \in [SUBSET S -> Int] : Summing(h, S, g)
<1> DEFINE Small(n) == {s \in SUBSET S : Cardinality(s) <= n}
           Step(g, s) == IF s = {} THEN 0 ELSE h[Pick(s)] + g[s \ {Pick(s)}]
           Solved(n) == \E g \in [Small(n) -> Int] : \A s \in Small(n) : g[s] = Step(g, s)
           Bad == {n \in Nat : ~Solved(n)}
<1>1. Solved(0)
  <2>1. \A s \in Small(0) : s = {}
    BY PartOf, FS_EmptySet
  <2> DEFINE g == [s \in Small(0) |-> 0]
  <2>2. g \in [Small(0) -> Int]
    OBVIOUS
  <2>3. \A s \in Small(0) : g[s] = Step(g, s)
    BY <2>1
  <2> HIDE DEF g
  <2>4. QED BY <2>2, <2>3
<1>2. ASSUME NEW n \in Nat, Solved(n) PROVE Solved(n + 1)
  <2>1. PICK g \in [Small(n) -> Int] : \A s \in Small(n) : g[s] = Step(g, s)
    BY <1>2
  <2> DEFINE f == [s \in Small(n + 1) |-> IF s \in Small(n) THEN g[s] ELSE Step(g, s)]
  <2>2. ASSUME NEW s \in Small(n + 1), s # {}
        PROVE  /\ Pick(s) \in S /\ h[Pick(s)] \in Int
               /\ s \ {Pick(s)} \in Small(n) /\ s \ {Pick(s)} \in Small(n + 1)
    <3>1. /\ Pick(s) \in s /\ s \ {Pick(s)} \in SUBSET S /\ Cardinality(s) \in Nat
          /\ Cardinality(s \ {Pick(s)}) = Cardinality(s) - 1
      BY <2>2, PartOf
    <3>2. QED BY <2>2, <3>1
  <2>3. ASSUME NEW s \in Small(n + 1)
        PROVE  Step(g, s) \in Int /\ f[s] = Step(g, s) /\ f[s] \in Int
    <3>1. Step(g, s) \in Int
      BY <2>2
    <3>2. f[s] = Step(g, s)
      <4>1. f[s] = IF s \in Small(n) THEN g[s] ELSE Step(g, s)
        OBVIOUS
      <4> HIDE DEF f, Step, Small
      <4>2. QED BY <2>1, <4>1
    <3>3. QED BY <3>1, <3>2
  <2>4. f \in [Small(n + 1) -> Int]
    <3>1. f = [s \in Small(n + 1) |-> f[s]]
      OBVIOUS
    <3> HIDE DEF f, Small, Step
    <3>2. QED BY <2>3, <3>1
  <2>5. ASSUME NEW s \in Small(n + 1) PROVE f[s] = Step(f, s)
    <3>1. CASE s = {}
      BY <2>3, <3>1
    <3>2. CASE s # {}
      <4>1. f[s \ {Pick(s)}] = g[s \ {Pick(s)}]
        <5>1. s \ {Pick(s)} \in Small(n) /\ s \ {Pick(s)} \in Small(n + 1)
          BY <2>2, <3>2
        <5>2. QED BY <5>1
      <4> HIDE DEF f, Small
      <4>2. QED BY <2>3, <3>2, <4>1
    <3>3. QED BY <3>1, <3>2
  <2> HIDE DEF f, Small, Step
  <2>6. QED BY <2>4, <2>5
<1>3. ASSUME Bad # {} PROVE FALSE
  <2>1. Bad \subseteq Nat
    OBVIOUS
  <2>2. PICK n \in Bad : \A m \in Bad : n <= m
    <3> HIDE DEF Bad
    <3>1. QED BY <1>3, <2>1, LeastNat
  <2> HIDE DEF Solved
  <2>3. n \in Nat /\ ~Solved(n) /\ n # 0
    BY <1>1, <2>2
  <2>4. n - 1 \in Nat /\ ~(n <= n - 1) /\ (n - 1) + 1 = n
    BY <2>3
  <2>5. Solved(n - 1)
    BY <2>2, <2>4
  <2>6. Solved((n - 1) + 1)
    BY <1>2, <2>4, <2>5
  <2>7. QED BY <2>3, <2>4, <2>6
<1>4. Cardinality(S) \in Nat
  BY FS_CardinalityType
<1>5. Solved(Cardinality(S))
  <2> HIDE DEF Solved
  <2>1. QED BY <1>3, <1>4
<1>6. Small(Cardinality(S)) = SUBSET S
  BY FS_Subset
<1>7. PICK g \in [SUBSET S -> Int] : \A s \in SUBSET S : g[s] = Step(g, s)
  <2> HIDE DEF Small, Step
  <2>1. QED BY <1>5, <1>6
<1>8. g = [s \in SUBSET S |-> Step(g, s)]
  <2>1. g = [s \in SUBSET S |-> g[s]]
    OBVIOUS
  <2> HIDE DEF Step
  <2>2. QED BY <1>7, <2>1
<1>9. QED BY <1>8 DEF Summing

\* Induction over the parts of a finite set, stated for the set of parts that are good.
LEMMA PartsInduction ==
  ASSUME NEW S, IsFiniteSet(S), NEW Good \in SUBSET (SUBSET S), {} \in Good,
         \A s \in SUBSET S : s # {} /\ (\A x \in s : s \ {x} \in Good) => s \in Good
  PROVE  \A s \in SUBSET S : s \in Good
<1> DEFINE Bad == {Cardinality(s) : s \in (SUBSET S) \ Good}
<1>1. SUFFICES ASSUME (SUBSET S) \ Good # {} PROVE FALSE
  OBVIOUS
<1>2. Bad \subseteq Nat /\ Bad # {}
  BY <1>1, PartOf
<1>3. PICK n \in Bad : \A m \in Bad : n <= m
  <2> HIDE DEF Bad
  <2>1. QED BY <1>2, LeastNat
<1>4. PICK s \in (SUBSET S) \ Good : Cardinality(s) = n
  BY <1>3
<1>5. s # {} /\ n \in Nat
  BY <1>4, PartOf
<1>6. ASSUME NEW x \in s PROVE s \ {x} \in Good
  <2>1. s \ {x} \in SUBSET S /\ Cardinality(s \ {x}) = n - 1
    BY <1>4, PartOf
  <2>2. n - 1 \notin Bad
    BY <1>3, <1>5
  <2>3. QED BY <2>1, <2>2
<1>7. QED BY <1>4, <1>5, <1>6

\* A solution is a number for every part.
LEMMA SumIsInt ==
  ASSUME NEW S, IsFiniteSet(S), NEW h \in [S -> Int], NEW g, Summing(h, S, g)
  PROVE  \A s \in SUBSET S : g[s] \in Int
<1> DEFINE Good == {s \in SUBSET S : g[s] \in Int}
<1>1. {} \in Good
  <2>1. g[{}] = 0
    BY SummingElements
  <2>2. QED BY <2>1
<1>2. ASSUME NEW s \in SUBSET S, s # {}, \A x \in s : s \ {x} \in Good
      PROVE  s \in Good
  <2>1. Pick(s) \in s
    BY <1>2, PartOf
  <2>2. g[s] = h[Pick(s)] + g[s \ {Pick(s)}]
    BY <1>2, SummingElements
  <2>3. g[s \ {Pick(s)}] \in Int /\ h[Pick(s)] \in Int
    BY <1>2, <2>1
  <2>4. QED BY <2>2, <2>3
<1>3. Good \in SUBSET (SUBSET S)
  OBVIOUS
<1>4. \A s \in SUBSET S : s \in Good
  <2> HIDE DEF Good
  <2>1. QED BY <1>1, <1>2, <1>3, PartsInduction
<1>5. QED BY <1>4

\* Any element of a part may be taken out first.
LEMMA SumTakesOut ==
  ASSUME NEW S, IsFiniteSet(S), NEW h \in [S -> Int], NEW g, Summing(h, S, g)
  PROVE  \A s \in SUBSET S : \A x \in s : g[s] = h[x] + g[s \ {x}]
<1> DEFINE Good == {s \in SUBSET S : \A x \in s : g[s] = h[x] + g[s \ {x}]}
<1>0. \A s \in SUBSET S : g[s] \in Int
  BY SumIsInt
<1>1. {} \in Good
  OBVIOUS
<1>2. ASSUME NEW s \in SUBSET S, s # {}, \A x \in s : s \ {x} \in Good
      PROVE  s \in Good
  <2>1. PICK p \in s : g[s] = h[p] + g[s \ {p}]
    <3>1. Pick(s) \in s
      BY <1>2, PartOf
    <3>2. QED BY <1>2, <3>1, SummingElements
  <2>2. ASSUME NEW x \in s, x # p PROVE g[s] = h[x] + g[s \ {x}]
    <3> DEFINE rest == g[s \ {x, p}]
    <3>1. /\ x \in s \ {p} /\ p \in s \ {x}
          /\ (s \ {p}) \ {x} = s \ {x, p} /\ (s \ {x}) \ {p} = s \ {x, p}
      BY <2>2
    <3>2. g[s \ {p}] = h[x] + rest /\ g[s \ {x}] = h[p] + rest
      BY <1>2, <3>1
    <3>3. rest \in Int /\ h[x] \in Int /\ h[p] \in Int
      BY <1>0
    <3> HIDE DEF rest
    <3>4. QED BY <2>1, <3>2, <3>3
  <2>3. QED BY <2>1, <2>2
<1>3. Good \in SUBSET (SUBSET S)
  OBVIOUS
<1>4. \A s \in SUBSET S : s \in Good
  <2> HIDE DEF Good
  <2>1. QED BY <1>1, <1>2, <1>3, PartsInduction
<1>5. QED BY <1>4

\* Two sums agree on a part where their terms do.
LEMMA SumAgrees ==
  ASSUME NEW S, NEW T, NEW U, IsFiniteSet(U), U \subseteq S, U \subseteq T,
         NEW h, NEW k, \A x \in U : h[x] = k[x],
         NEW f, NEW g, Summing(h, S, f), Summing(k, T, g)
  PROVE  f[U] = g[U]
<1> DEFINE Good == {s \in SUBSET U : f[s] = g[s]}
<1>1. {} \in Good
  BY SummingElements
<1>2. ASSUME NEW s \in SUBSET U, s # {}, \A x \in s : s \ {x} \in Good
      PROVE  s \in Good
  <2>1. Pick(s) \in s /\ s \in SUBSET S /\ s \in SUBSET T
    BY <1>2 DEF Pick
  <2>2. f[s] = h[Pick(s)] + f[s \ {Pick(s)}] /\ g[s] = k[Pick(s)] + g[s \ {Pick(s)}]
    BY <1>2, <2>1, SummingElements
  <2>3. QED BY <1>2, <2>1, <2>2
<1>3. Good \in SUBSET (SUBSET U)
  OBVIOUS
<1>4. \A s \in SUBSET U : s \in Good
  <2> HIDE DEF Good
  <2>1. QED BY <1>1, <1>2, <1>3, PartsInduction
<1>5. QED BY <1>4

(***************************************************************************)
(* The sum of a function's values: a number, that a new term adds to, that *)
(* is the sum over the parts of a partition, and that is linear.           *)
(***************************************************************************)
Adds(h, S, g) ==
  /\ g[{}] = 0
  /\ \A s \in SUBSET S : g[s] \in Int
  /\ \A s \in SUBSET S : \A x \in s : g[s] = h[x] + g[s \ {x}]

LEMMA SumOf ==
  ASSUME NEW S, IsFiniteSet(S), NEW h \in [S -> Int]
  PROVE  \E g : Summing(h, S, g) /\ SumFunction(h) = g[S] /\ Adds(h, S, g) /\ g[S] \in Int
<1> DEFINE g == CHOOSE f : Summing(h, S, f)
<1>1. Summing(h, S, g)
  BY SumExists
<1>2. DOMAIN h = S /\ SumFunction(h) = g[S]
  BY SumUnfolds
<1> HIDE DEF g
<1>3. g[{}] = 0
  BY <1>1, SummingElements
<1>4. ASSUME NEW s \in SUBSET S PROVE g[s] \in Int
  BY <1>1, SumIsInt
<1>5. ASSUME NEW s \in SUBSET S, NEW x \in s PROVE g[s] = h[x] + g[s \ {x}]
  BY <1>1, SumTakesOut
<1>6. Adds(h, S, g)
  BY <1>3, <1>4, <1>5 DEF Adds
<1>7. S \in SUBSET S
  OBVIOUS
<1>8. QED BY <1>1, <1>2, <1>4, <1>6, <1>7

LEMMA SumExtended ==
  ASSUME NEW S, IsFiniteSet(S), NEW h \in [S -> Int], NEW c, c \notin S,
         NEW k \in [S \cup {c} -> Int], \A x \in S : h[x] = k[x]
  PROVE  SumFunction(k) = SumFunction(h) + k[c] /\ SumFunction(h) \in Int
<1> DEFINE T == S \cup {c}
<1>1. IsFiniteSet(T) /\ T \ {c} = S /\ c \in T /\ S \in SUBSET T
  BY FS_AddElement
<1>2. PICK f : Summing(h, S, f) /\ SumFunction(h) = f[S] /\ f[S] \in Int
  BY SumOf
<1>3. PICK g : Summing(k, T, g) /\ SumFunction(k) = g[T] /\ g[T] = k[c] + g[T \ {c}]
  <2>1. k \in [T -> Int] /\ IsFiniteSet(T) /\ c \in T
    BY <1>1
  <2> HIDE DEF T
  <2>2. PICK g : Summing(k, T, g) /\ SumFunction(k) = g[T] /\ Adds(k, T, g)
    BY <2>1, SumOf
  <2>3. g[T] = k[c] + g[T \ {c}]
    BY <2>1, <2>2 DEF Adds
  <2>4. QED BY <2>2, <2>3
<1>4. f[S] = g[S]
  BY <1>1, <1>2, <1>3, SumAgrees
<1>5. k[c] \in Int
  BY <1>1
<1>6. SumFunction(k) = k[c] + f[S]
  BY <1>1, <1>3, <1>4
<1>7. QED BY <1>2, <1>5, <1>6

LEMMA SumOnSet ==
  ASSUME NEW S, IsFiniteSet(S), NEW h \in [S -> Int], NEW T \in SUBSET S
  PROVE  \E g : Summing(h, T, g) /\ SumFunctionOnSet(h, T) = g[T]
<1> DEFINE r == [x \in T |-> h[x]]
           Solves(g) == g = [s \in SUBSET T |-> IF s = {} THEN 0 ELSE h[Pick(s)] + g[s \ {Pick(s)}]]
           g0 == CHOOSE g : Solves(g)
<1>1. SumFunctionOnSet(h, T) = g0[T]
  BY DEF SumFunctionOnSet, FoldFunctionOnSet, MapThenFoldSet, Pick
<1>2. IsFiniteSet(T) /\ r \in [T -> Int]
  BY FS_Subset
<1>3. PICK g : Summing(r, T, g)
  BY <1>2, SumExists
<1>4. Solves(g)
  <2>1. \A s \in SUBSET T : s # {} => Pick(s) \in T
    BY DEF Pick
  <2>2. \A s \in SUBSET T : (IF s = {} THEN 0 ELSE r[Pick(s)] + g[s \ {Pick(s)}])
                           = (IF s = {} THEN 0 ELSE h[Pick(s)] + g[s \ {Pick(s)}])
    BY <2>1
  <2>3. g = [s \in SUBSET T |-> IF s = {} THEN 0 ELSE r[Pick(s)] + g[s \ {Pick(s)}]]
    BY <1>3 DEF Summing
  <2> HIDE DEF r
  <2>4. QED BY <2>2, <2>3
<1>5. Solves(g0)
  <2> HIDE DEF Solves
  <2>1. QED BY <1>4
<1>6. Summing(h, T, g0)
  BY <1>5 DEF Summing
<1> HIDE DEF g0
<1>7. QED BY <1>1, <1>6

\* A part has one sum, be it a part of the whole or the whole itself.
LEMMA SumOfPart ==
  ASSUME NEW S, IsFiniteSet(S), NEW T \in SUBSET S, NEW h,
         NEW f, NEW g, Summing(h, S, f), Summing(h, T, g)
  PROVE  f[T] = g[T]
<1>1. IsFiniteSet(T) /\ T \subseteq S /\ T \subseteq T
  BY FS_Subset
<1>2. \A x \in T : h[x] = h[x]
  OBVIOUS
<1>3. QED BY <1>1, <1>2, SumAgrees

\* A sum is that of the terms above 0 and that of the terms below.
LEMMA SumOfSigns ==
  ASSUME NEW S, IsFiniteSet(S), NEW h \in [S -> Int]
  PROVE  /\ SumFunctionOnSet(h, {x \in S : h[x] > 0}) \in Int
         /\ SumFunctionOnSet(h, {x \in S : h[x] < 0}) \in Int
         /\ SumFunction(h) = SumFunctionOnSet(h, {x \in S : h[x] > 0})
                             + SumFunctionOnSet(h, {x \in S : h[x] < 0})
<1> DEFINE P == {x \in S : h[x] > 0}
           N == {x \in S : h[x] < 0}
<1>1. PICK g : Summing(h, S, g) /\ SumFunction(h) = g[S] /\ Adds(h, S, g) /\ g[S] \in Int
  BY SumOf
<1>2. P \in SUBSET S /\ N \in SUBSET S /\ S \in SUBSET S
  OBVIOUS
<1>3. PICK u : Summing(h, P, u) /\ SumFunctionOnSet(h, P) = u[P]
  BY <1>2, SumOnSet
<1>4. PICK v : Summing(h, N, v) /\ SumFunctionOnSet(h, N) = v[N]
  BY <1>2, SumOnSet
<1>5. u[P] = g[P]
  <2> HIDE DEF P
  <2>1. Summing(h, S, g) /\ Summing(h, P, u)
    BY <1>1, <1>3
  <2>2. g[P] = u[P]
    BY <1>2, <2>1, SumOfPart
  <2>3. QED BY <2>2
<1>6. v[N] = g[N]
  <2> HIDE DEF N
  <2>1. Summing(h, S, g) /\ Summing(h, N, v)
    BY <1>1, <1>4
  <2>2. g[N] = v[N]
    BY <1>2, <2>1, SumOfPart
  <2>3. QED BY <2>2
<1> DEFINE Good == {s \in SUBSET S : g[s] = g[s \cap P] + g[s \cap N]}
<1>7. g[{}] = 0
  BY <1>1 DEF Adds
<1>8. {} \in Good
  <2>1. {} \cap P = {} /\ {} \cap N = {}
    OBVIOUS
  <2> HIDE DEF P, N
  <2>2. QED BY <1>7, <2>1
<1>9. ASSUME NEW s \in SUBSET S, s # {}, \A x \in s : s \ {x} \in Good
      PROVE  s \in Good
  <2> DEFINE x == Pick(s)
             q == s \ {x}
             sP == s \cap P
             sN == s \cap N
             qP == q \cap P
             qN == q \cap N
  <2>1. x \in s /\ x \in S
    BY <1>9 DEF Pick
  <2> HIDE DEF x
  <2>2. g[s] = h[x] + g[q] /\ g[q] = g[qP] + g[qN] /\ h[x] \in Int
    <3>1. g[s] = h[x] + g[q]
      BY <1>1, <2>1 DEF Adds
    <3>2. q \in Good
      BY <1>9, <2>1
    <3> HIDE DEF P, N, q
    <3>3. g[q] = g[q \cap P] + g[q \cap N]
      BY <3>2
    <3>4. QED BY <2>1, <3>1, <3>3
  <2>3. /\ qP \in SUBSET S /\ qN \in SUBSET S
        /\ sP \in SUBSET S /\ sN \in SUBSET S
    OBVIOUS
  <2>4. h[x] > 0 => x \in sP /\ sP \ {x} = qP /\ sN = qN
    BY <2>1, <2>2
  <2>5. h[x] < 0 => x \in sN /\ sN \ {x} = qN /\ sP = qP
    BY <2>1, <2>2
  <2>6. h[x] = 0 => sP = qP /\ sN = qN
    BY <2>1
  <2> HIDE DEF q, sP, sN, qP, qN
  <2>7. g[qP] \in Int /\ g[qN] \in Int
    BY <1>1, <2>3 DEF Adds
  <2>8. g[s] = g[sP] + g[sN]
    <3>1. CASE h[x] > 0
      <4>1. g[sP] = h[x] + g[sP \ {x}]
        BY <1>1, <2>3, <2>4, <3>1 DEF Adds
      <4>2. g[sP] = h[x] + g[qP] /\ g[sN] = g[qN]
        BY <2>4, <3>1, <4>1, Zenon
      <4>3. QED BY <2>2, <2>7, <4>2
    <3>2. CASE h[x] < 0
      <4>1. g[sN] = h[x] + g[sN \ {x}]
        BY <1>1, <2>3, <2>5, <3>2 DEF Adds
      <4>2. g[sN] = h[x] + g[qN] /\ g[sP] = g[qP]
        BY <2>5, <3>2, <4>1, Zenon
      <4>3. QED BY <2>2, <2>7, <4>2
    <3>3. CASE h[x] = 0
      <4>1. g[sN] = g[qN] /\ g[sP] = g[qP]
        BY <2>6, <3>3, Zenon
      <4>2. QED BY <2>2, <2>7, <3>3, <4>1
    <3>4. QED BY <2>2, <3>1, <3>2, <3>3
  <2>9. QED BY <2>8 DEF sP, sN
<1>10. Good \in SUBSET (SUBSET S)
  OBVIOUS
<1>11. S \in Good
  <2> HIDE DEF Good
  <2>1. QED BY <1>8, <1>9, <1>10, <1>2, PartsInduction
<1>12. S \cap P = P /\ S \cap N = N
  OBVIOUS
<1>13. g[S] = g[P] + g[N]
  <2> HIDE DEF P, N
  <2>1. g[S] = g[S \cap P] + g[S \cap N]
    BY <1>11
  <2>2. QED BY <1>12, <2>1, Zenon
<1> HIDE DEF P, N
<1>14. g[P] \in Int /\ g[N] \in Int
  BY <1>1, <1>2 DEF Adds
<1>15. /\ SumFunctionOnSet(h, P) \in Int /\ SumFunctionOnSet(h, N) \in Int
       /\ SumFunction(h) = SumFunctionOnSet(h, P) + SumFunctionOnSet(h, N)
  BY <1>1, <1>3, <1>4, <1>5, <1>6, <1>13, <1>14
<1>16. QED BY <1>15 DEF P, N

Differences(S, h, k, d) ==
  /\ h \in [S -> Int] /\ k \in [S -> Int] /\ d \in [S -> Int]
  /\ \A x \in S : d[x] = h[x] - k[x]

\* The sum of differences is the difference of the sums.
LEMMA SumOfDifferences ==
  ASSUME NEW S, IsFiniteSet(S), NEW h, NEW k, NEW d, Differences(S, h, k, d)
  PROVE  /\ SumFunction(h) \in Int /\ SumFunction(k) \in Int
         /\ SumFunction(d) = SumFunction(h) - SumFunction(k)
<1>1. PICK f : SumFunction(h) = f[S] /\ Adds(h, S, f) /\ f[S] \in Int
  BY SumOf DEF Differences
<1>2. PICK g : SumFunction(k) = g[S] /\ Adds(k, S, g) /\ g[S] \in Int
  BY SumOf DEF Differences
<1>3. PICK e : SumFunction(d) = e[S] /\ Adds(d, S, e) /\ e[S] \in Int
  BY SumOf DEF Differences
<1> DEFINE Good == {s \in SUBSET S : e[s] = f[s] - g[s]}
<1>4. {} \in Good
  <2>1. f[{}] = 0 /\ g[{}] = 0 /\ e[{}] = 0
    BY <1>1, <1>2, <1>3 DEF Adds
  <2>2. QED BY <2>1
<1>5. ASSUME NEW s \in SUBSET S, s # {}, \A x \in s : s \ {x} \in Good
      PROVE  s \in Good
  <2> DEFINE x == Pick(s)
             q == s \ {x}
  <2>1. x \in s /\ x \in S /\ q \in SUBSET S
    BY <1>5 DEF Pick
  <2>2. f[s] = h[x] + f[q] /\ g[s] = k[x] + g[q] /\ e[s] = d[x] + e[q]
    <3>2. x \in s
      BY <2>1
    <3> HIDE DEF x
    <3>3. f[s] = h[x] + f[s \ {x}] /\ g[s] = k[x] + g[s \ {x}] /\ e[s] = d[x] + e[s \ {x}]
      BY <1>1, <1>2, <1>3, <3>2 DEF Adds
    <3>4. QED BY <3>3
  <2>3. q \in Good
    BY <1>5, <2>1
  <2> HIDE DEF x
  <2>4. e[q] = f[q] - g[q] /\ d[x] = h[x] - k[x]
    BY <2>1, <2>3 DEF Differences
  <2> HIDE DEF q
  <2>5. f[q] \in Int /\ g[q] \in Int /\ e[q] \in Int /\ h[x] \in Int /\ k[x] \in Int /\ d[x] \in Int
    BY <1>1, <1>2, <1>3, <2>1 DEF Adds, Differences
  <2>6. QED BY <2>2, <2>4, <2>5
<1>6. Good \in SUBSET (SUBSET S)
  OBVIOUS
<1>7. S \in Good
  <2> HIDE DEF Good
  <2>1. S \in SUBSET S
    OBVIOUS
  <2>2. QED BY <1>4, <1>5, <1>6, <2>1, PartsInduction
<1>8. S \in SUBSET S
  OBVIOUS
<1>9. QED BY <1>1, <1>2, <1>3, <1>7, <1>8

\* A list of numbers: its sum, and what one more adds.
LEMMA SumSeqInt ==
  ASSUME NEW n \in Nat, NEW h \in [1..n -> Int]
  PROVE  SumSeq(h) \in Int
<1> DEFINE J == 1..n
<1>1. IsFiniteSet(J)
  BY FS_Interval
<1>2. h \in [J -> Int]
  OBVIOUS
<1> HIDE DEF J
<1>3. SumFunction(h) \in Int
  BY <1>1, <1>2, SumOf
<1>4. QED BY <1>3 DEF SumSeq

LEMMA SumSeqGrows ==
  ASSUME NEW n \in Nat, NEW h \in [1..n -> Int], NEW k \in [1..(n+1) -> Int],
         \A i \in 1..n : k[i] = h[i]
  PROVE  SumSeq(k) = SumSeq(h) + k[n+1]
<1> DEFINE J == 1..n
           c == n + 1
<1>1. IsFiniteSet(J)
  BY FS_Interval
<1>2. h \in [J -> Int] /\ k \in [J \cup {c} -> Int] /\ c \notin J /\ \A x \in J : h[x] = k[x]
  <2>1. J \cup {c} = 1..(n+1)
    OBVIOUS
  <2>2. c \notin J
    OBVIOUS
  <2>3. QED BY <2>1, <2>2
<1> HIDE DEF J, c
<1>3. c \notin J /\ h \in [J -> Int] /\ k \in [J \cup {c} -> Int] /\ (\A x \in J : h[x] = k[x])
  BY <1>2
<1>4. SumFunction(k) = SumFunction(h) + k[c] /\ SumFunction(h) \in Int
  BY <1>1, <1>3, SumExtended, SMTT(30)
<1>5. QED BY <1>4 DEF SumSeq, c

LEMMA SumSeqEmpty ==
  ASSUME NEW h \in [{} -> Int]
  PROVE  SumSeq(h) = 0
<1> DEFINE g == CHOOSE f : Summing(h, {}, f)
<1>1. SumFunction(h) = g[{}]
  BY SumUnfolds
<1>2. h \in [{} -> Int] /\ IsFiniteSet({})
  <2>1. IsFiniteSet({})
    BY FS_EmptySet
  <2>2. QED BY <2>1
<1>3. Summing(h, {}, g)
  BY <1>2, SumExists
<1> HIDE DEF g
<1>4. g[{}] = 0
  BY <1>3, SummingElements
<1>5. QED BY <1>1, <1>4 DEF SumSeq

-----------------------------------------------------------------------------
(* The extremes of finite sets of numbers.                                 *)

LEMMA MaxOfFinite ==
  ASSUME NEW S, S \subseteq Int, IsFiniteSet(S), S # {}
  PROVE  Max(S) \in S /\ \A y \in S : y <= Max(S)
<1> DEFINE s == Ascending(S)
           n == Cardinality(S)
<1>1. /\ n \in Nat /\ s \in [1..n -> S]
      /\ \A x \in S : \E k \in 1..n : s[k] = x
      /\ \A j, k \in 1..n : j < k => s[j] < s[k]
  BY SortedAscending
<1> HIDE DEF s, n
<1>2. n \in 1..n
  <2>1. PICK x \in S : TRUE
    OBVIOUS
  <2>2. PICK k \in 1..n : s[k] = x
    BY <1>1
  <2>3. QED BY <1>1, <2>2
<1>3. s[n] \in S /\ s[n] \in Int
  BY <1>1, <1>2
<1>4. ASSUME NEW y \in S PROVE y <= s[n]
  <2>1. PICK k \in 1..n : s[k] = y
    BY <1>1
  <2>2. k = n \/ k < n
    BY <1>1
  <2>3. CASE k < n
    BY <1>1, <1>2, <1>3, <2>1, <2>3
  <2>4. QED BY <1>3, <2>1, <2>2, <2>3
<1>5. \A y \in S : s[n] >= y
  BY <1>3, <1>4
<1>6. Max(S) \in S /\ \A y \in S : Max(S) >= y
  BY <1>3, <1>5 DEF Max
<1>7. QED BY <1>6

LEMMA MinOfFinite ==
  ASSUME NEW S, S \subseteq Int, IsFiniteSet(S), S # {}
  PROVE  Min(S) \in S /\ \A y \in S : Min(S) <= y
<1> DEFINE s == Ascending(S)
           n == Cardinality(S)
<1>1. /\ n \in Nat /\ s \in [1..n -> S]
      /\ \A x \in S : \E k \in 1..n : s[k] = x
      /\ \A j, k \in 1..n : j < k => s[j] < s[k]
  BY SortedAscending
<1> HIDE DEF s, n
<1>2. 1 \in 1..n
  <2>1. PICK x \in S : TRUE
    OBVIOUS
  <2>2. PICK k \in 1..n : s[k] = x
    BY <1>1
  <2>3. QED BY <1>1, <2>2
<1>3. s[1] \in S /\ s[1] \in Int
  BY <1>1, <1>2
<1>4. ASSUME NEW y \in S PROVE s[1] <= y
  <2>1. PICK k \in 1..n : s[k] = y
    BY <1>1
  <2>2. k = 1 \/ 1 < k
    BY <1>1
  <2>3. CASE 1 < k
    BY <1>1, <1>2, <1>3, <2>1, <2>3
  <2>4. QED BY <1>3, <2>1, <2>2, <2>3
<1>5. Min(S) \in S /\ \A y \in S : Min(S) <= y
  BY <1>3, <1>4 DEF Min
<1>6. QED BY <1>5

\* The extreme is the only one that is an extreme.
LEMMA MaxIs ==
  ASSUME NEW S, S \subseteq Int, NEW m \in S, \A y \in S : y <= m
  PROVE  Max(S) = m
<1>1. \A y \in S : m >= y
  OBVIOUS
<1>2. Max(S) \in S /\ \A y \in S : Max(S) >= y
  BY <1>1 DEF Max
<1>3. m <= Max(S) /\ Max(S) <= m /\ Max(S) \in Int /\ m \in Int
  BY <1>2
<1>4. QED BY <1>3

LEMMA MinIs ==
  ASSUME NEW S, S \subseteq Int, NEW m \in S, \A y \in S : m <= y
  PROVE  Min(S) = m
<1>1. Min(S) \in S /\ \A y \in S : Min(S) <= y
  BY DEF Min
<1>2. m <= Min(S) /\ Min(S) <= m /\ Min(S) \in Int /\ m \in Int
  BY <1>1
<1>3. QED BY <1>2

-----------------------------------------------------------------------------
(* The rolling columns are numbers, or missing.                            *)

Ops == {"max", "min", "mean", "sum", "std"}
Inputs == {"high", "low", "close", "volume", "taker_buy_base", "true_range", "log_volume"}
Value == Int \cup {NaN}

LEMMA WindowValues ==
  ASSUME NEW n \in Nat \ {0}, NEW w \in [1..n -> Int]
  PROVE  ToSet(w) \subseteq Int /\ IsFiniteSet(ToSet(w)) /\ ToSet(w) # {}
<1> DEFINE J == 1..n
<1>1. IsFiniteSet(J) /\ 1 \in J
  BY FS_Interval
<1>2. w \in [J -> Int] /\ DOMAIN w = J
  OBVIOUS
<1> HIDE DEF J
<1>3. ToSet(w) = {w[i] : i \in J}
  BY <1>2 DEF ToSet
<1>4. IsFiniteSet({w[i] : i \in J})
  <2> DEFINE T == {w[i] : i \in J}
  <2>1. w \in [J -> T] /\ \A t \in T : \E s \in J : w[s] = t
    BY <1>2
  <2> HIDE DEF T
  <2>2. w \in Surjection(J, T)
    BY <2>1 DEF Surjection
  <2>3. IsFiniteSet(T)
    BY <1>1, <2>2, FS_Surjection
  <2>4. QED BY <2>3 DEF T
<1>5. QED BY <1>1, <1>2, <1>3, <1>4

LEMMA SquaresInt ==
  ASSUME NEW n \in Nat, NEW w \in [1..n -> Int]
  PROVE  SumSquares(w) \in Int
<1> DEFINE q == [k \in 1..n |-> Square(w[k])]
<1>1. q \in [1..n -> Int]
  BY DEF Square
<1>2. SumSquares(w) = SumSeq(q)
  BY DEF SumSquares, SumSeq
<1> HIDE DEF q
<1>3. QED BY <1>1, <1>2, SumSeqInt

LEMMA AggregateInt ==
  ASSUME NEW n \in Nat \ {0}, NEW w \in [1..n -> Int], NEW period \in Int, NEW op \in Ops
  PROVE  Aggregate(op, period, w) \in Int
<1>1. SumSeq(w) \in Int /\ SumSquares(w) \in Int
  BY SumSeqInt, SquaresInt
<1>2. Max(ToSet(w)) \in Int /\ Min(ToSet(w)) \in Int
  <2> DEFINE S == ToSet(w)
  <2>1. S \subseteq Int /\ IsFiniteSet(S) /\ S # {}
    BY WindowValues
  <2> HIDE DEF S
  <2>2. Max(S) \in S /\ Min(S) \in S
    BY <2>1, MaxOfFinite, MinOfFinite
  <2>3. QED BY <2>1, <2>2 DEF S
<1>3. period * SumSquares(w) - Square(SumSeq(w)) \in Int
  BY <1>1 DEF Square
<1>4. QED BY <1>1, <1>2, <1>3 DEF Aggregate, Ops

LEMMA RollingTyped ==
  ASSUME NEW s, NEW op \in Ops, NEW period \in Nat \ {0}, NEW i \in Int,
         \A k \in 1..i : s[k] \in Value
  PROVE  Rolling(s, op, period, i) \in Value
<1> DEFINE w == [k \in 1..period |-> s[i - period + k]]
<1>1. CASE i < period
  BY <1>1 DEF Rolling, Value
<1>2. CASE ~(i < period) /\ NaN \in ToSet(w)
  BY <1>2 DEF Rolling, Value
<1>3. CASE ~(i < period) /\ NaN \notin ToSet(w)
  <2>1. ASSUME NEW k \in 1..period PROVE s[i - period + k] \in Int
    <3>1. i - period + k \in 1..i
      BY <1>3
    <3>2. s[i - period + k] \in ToSet(w)
      BY DEF ToSet
    <3>3. QED BY <1>3, <3>1, <3>2 DEF Value
  <2>2. w \in [1..period -> Int]
    BY <2>1
  <2>3. Rolling(s, op, period, i) = Aggregate(op, period, w)
    BY <1>3 DEF Rolling
  <2> HIDE DEF w
  <2>4. QED BY <2>2, <2>3, AggregateInt DEF Value
<1>4. QED BY <1>1, <1>2, <1>3

\* df is a frame of n bars.
Frame(df, n) == n \in Nat /\ DOMAIN df = 1..n /\ \A i \in 1..n : IsBar(df[i])

LEMMA InputTyped ==
  ASSUME NEW df, NEW n, Frame(df, n), NEW input \in Inputs, NEW i \in 1..n
  PROVE  /\ InputAt(df, input, i) \in Value
         /\ input # "log_volume" => InputAt(df, input, i) \in Int
<1>1. IsBar(df[i]) /\ (i # 1 => IsBar(df[i-1])) /\ n \in Nat
  BY DEF Frame
<1>2. CASE input = "true_range"
  <2> DEFINE a == df[i].high - df[i].low
             b == Gap(df[i].high, df[i-1].close)
             c == Gap(df[i].low, df[i-1].close)
             S == {a} \cup (IF i = 1 THEN {} ELSE {b, c})
  <2>1. a \in Int /\ (i # 1 => b \in Int /\ c \in Int)
    BY <1>1 DEF IsBar, Gap
  <2>2. InputAt(df, input, i) = Max(S)
    BY <1>2 DEF InputAt
  <2> HIDE DEF a, b, c
  <2>3. S \subseteq Int /\ S # {} /\ (S = {a} \/ S = {a, b, c})
    BY <2>1
  <2>4. IsFiniteSet({a}) /\ IsFiniteSet({a, b, c})
    <3>1. IsFiniteSet({c})
      BY FS_Singleton
    <3>2. IsFiniteSet({c} \cup {b})
      BY <3>1, FS_AddElement
    <3>3. IsFiniteSet(({c} \cup {b}) \cup {a})
      BY <3>2, FS_AddElement
    <3>4. ({c} \cup {b}) \cup {a} = {a, b, c}
      OBVIOUS
    <3>5. QED BY <3>3, <3>4, FS_Singleton
  <2>5. IsFiniteSet(S)
    BY <2>3, <2>4
  <2> HIDE DEF S
  <2>6. Max(S) \in Int
    BY <2>3, <2>5, MaxOfFinite
  <2>7. QED BY <2>2, <2>6 DEF Value
<1>3. CASE input # "true_range"
  BY <1>1, <1>3 DEF InputAt, IsBar, Value, Inputs
<1>4. QED BY <1>2, <1>3

LEMMA SpecTyped ==
  ASSUME NEW name \in Names
  PROVE  /\ ROLLING_SPEC[name].op \in Ops /\ ROLLING_SPEC[name].input \in Inputs
         /\ Period(name) \in Nat \ {0}
BY PeriodsAssumption DEF Names, ROLLING_SPEC, RollingSpec, Ops, Inputs, Period

LEMMA ColumnTyped ==
  ASSUME NEW df, NEW n, Frame(df, n), NEW name \in Names, NEW i \in 1..n
  PROVE  ColumnAt(df, name, i) \in Value
<1> DEFINE input == ROLLING_SPEC[name].input
           s == InputSeries(df, input)
<1>1. n \in Nat /\ DOMAIN df = 1..n
  BY DEF Frame
<1>2. ROLLING_SPEC[name].op \in Ops /\ input \in Inputs /\ Period(name) \in Nat \ {0}
  BY SpecTyped
<1>3. ASSUME NEW k \in 1..(i-1) PROVE s[k] \in Value
  <2>1. k \in 1..n
    BY <1>1
  <2>2. s[k] = InputAt(df, input, k)
    BY <1>1, <2>1 DEF InputSeries
  <2> HIDE DEF input, s
  <2>3. QED BY <1>2, <2>1, <2>2, InputTyped
<1>4. CASE i = 1
  BY <1>4 DEF ColumnAt, Value
<1>5. CASE i # 1
  <2>1. ColumnAt(df, name, i) = Rolling(s, ROLLING_SPEC[name].op, Period(name), i - 1)
    BY <1>5 DEF ColumnAt
  <2>2. i - 1 \in Int
    BY <1>1
  <2> HIDE DEF s
  <2>3. QED BY <1>2, <1>3, <2>1, <2>2, RollingTyped
<1>6. QED BY <1>4, <1>5

\* A row of add_indicators() is its bar, with the kept columns and the derived ones.
LEMMA FrameRow ==
  ASSUME NEW df, NEW n, Frame(df, n), NEW i \in 1..n
  PROVE  LET row == AddIndicators(df)[i]
         IN /\ IsBar(row)
            /\ \A f \in {"high", "low", "close", "volume", "taker_buy_base"} : row[f] = df[i][f]
            /\ \A name \in Kept : name \in DOMAIN row /\ row[name] = ColumnAt(df, name, i)
<1> DEFINE col == [name \in Names |-> ColumnAt(df, name, i)]
           derived == FrameDerived(df, col, i)
           kept == [name \in Kept |-> col[name]]
           row == (derived ++ kept) ++ df[i]
           Fields == {"high", "low", "close", "volume", "taker_buy_base"}
<1>1. i \in DOMAIN df /\ IsBar(df[i])
  BY DEF Frame
<1>2. AddIndicators(df)[i] = row
  BY <1>1 DEF AddIndicators
<1>3. Kept \subseteq Names /\ Kept \cap Fields = {}
  BY DEF Kept, Names, ROLLING_SPEC
<1>4. DOMAIN derived = {"vol_ratio", "vol_zscore", "channel_pos", "ret", "taker_buy_ratio"}
  BY DEF FrameDerived
<1>5. DOMAIN derived \cap Kept = {} /\ DOMAIN derived \cap Fields = {}
  BY <1>4 DEF Kept, Names, ROLLING_SPEC
<1>6. DOMAIN kept = Kept /\ \A name \in Kept : kept[name] = ColumnAt(df, name, i)
  BY <1>3
<1> HIDE DEF derived, kept, Fields
<1>7. ASSUME NEW name \in Kept PROVE name \in DOMAIN row /\ row[name] = ColumnAt(df, name, i)
  BY <1>5, <1>6 DEF ++
<1>8. ASSUME NEW f \in Fields PROVE f \in DOMAIN row /\ row[f] = df[i][f]
  <2>1. f \in DOMAIN df[i]
    BY <1>1 DEF IsBar, Fields
  <2>2. f \notin DOMAIN derived /\ f \notin DOMAIN kept
    BY <1>3, <1>5, <1>6
  <2>3. QED BY <2>1, <2>2 DEF ++
<1> HIDE DEF row
<1>9. IsBar(row)
  BY <1>1, <1>8 DEF IsBar, Fields
<1>10. QED BY <1>2, <1>7, <1>8, <1>9 DEF Fields

-----------------------------------------------------------------------------
(* The labels of a frame are numbers.                                      *)

\* frame is a frame of n bars with its indicator columns.
Indicated(frame, n) ==
  Frame(frame, n) /\ Len(frame) = n /\ \A i \in 1..n : \A name \in Kept : frame[i][name] \in Value

\* A label of row `ev`: entered at its close, left at a row of the frame.
LabelTyped(l, frame, ev) ==
  /\ l.entry_price \in Nat \ {0} /\ l.exit_price \in Int /\ l.exit_idx \in Int
  /\ l.entry_price = frame[ev].close /\ l.exit_idx <= Len(frame)
  /\ "stop_distance" \in DOMAIN l => l.stop_distance \in Value

LEMMA RowTyped ==
  ASSUME NEW frame, NEW n, Indicated(frame, n), NEW i \in 1..n
  PROVE  /\ frame[i].close \in Nat \ {0} /\ frame[i].high \in Nat /\ frame[i].low \in Nat
         /\ frame[i].atr \in Value /\ frame[i].exit_low \in Value /\ frame[i].exit_high \in Value
         /\ frame[i].ma \in Value /\ frame[i].close_std \in Value
<1>1. {"atr", "exit_low", "exit_high", "ma", "close_std"} \subseteq Kept
  BY DEF Kept, Names, ROLLING_SPEC
<1>2. QED BY <1>1 DEF Indicated, Frame, IsBar

LEMMA FirstOf ==
  ASSUME NEW a \in Int, NEW b \in Int, NEW hits \in SUBSET (a..b), NEW otherwise \in Int
  PROVE  /\ First(hits, otherwise) \in Int
         /\ hits # {} => First(hits, otherwise) \in hits
         /\ hits = {} => First(hits, otherwise) = otherwise
<1>1. IsFiniteSet(hits) /\ hits \subseteq Int
  <2> DEFINE J == a..b
  <2>1. IsFiniteSet(J) /\ J \subseteq Int
    BY FS_Interval
  <2>2. hits \in SUBSET J
    OBVIOUS
  <2> HIDE DEF J
  <2>3. QED BY <2>1, <2>2, FS_Subset
<1>2. hits # {} => Min(hits) \in hits
  BY <1>1, MinOfFinite
<1>3. QED BY <1>1, <1>2 DEF First

LEMMA AtrTyped ==
  ASSUME NEW atr \in Value
  PROVE  /\ AtrPrice(atr) \in Value /\ (atr # NaN => AtrPrice(atr) \in Int)
         /\ PositiveAtr(atr) \in Int
<1>1. "atr" \in Names
  BY DEF Names, ROLLING_SPEC
<1>2. Period("atr") \in Nat \ {0}
  BY <1>1, SpecTyped
<1>3. atr # NaN => atr \div Period("atr") \in Int
  BY <1>2 DEF Value
<1>4. QED BY <1>3, OneAssumption DEF AtrPrice, PositiveAtr, Value

LEMMA StopPriceInt ==
  ASSUME NEW x \in Int, NEW y \in Int, NEW side
  PROVE  StopPrice(x, y, side) \in Int
BY MaxOfTwo, MinOfTwo DEF StopPrice

\* The row `k` rows on, or the last one.
LEMMA RowOn ==
  ASSUME NEW n \in Nat, NEW ev \in 1..n, NEW k \in Nat
  PROVE  Min({ev + k, n}) \in ev..n
<1>1. ev + k \in Int /\ n \in Int
  OBVIOUS
<1>2. Min({ev + k, n}) = IF ev + k <= n THEN ev + k ELSE n
  BY <1>1, MinOfTwo
<1>3. QED BY <1>2

LEMMA TouchedOffset ==
  ASSUME NEW up \in Nat, NEW dn \in Nat, NEW horizon \in Nat
  PROVE  FirstTouched(up, dn, horizon).offset \in Nat
BY DEF FirstTouched

LEMMA TripleBarrierTyped ==
  ASSUME NEW frame, NEW n, Indicated(frame, n), NEW ev \in 1..n, NEW side \in {1, -1},
         NEW p \in {Exits.triple, Exits.triple_atr}
  PROVE  LET l == TripleBarrierLabel(frame, ev, side, p)
         IN LabelTyped(l, frame, ev)
<1>1. n \in Nat /\ Len(frame) = n /\ p.horizon \in Nat
  BY ExitsAssumption DEF Indicated, Frame
<1> DEFINE b == Barriers(frame, ev, side, p, TRUE)
           Touch(price, s) ==
             First({k \in 1..p.horizon : ev + k <= Len(frame) /\ Reaches(frame[ev+k], price, s)}, 0)
           hit == FirstTouched(Touch(b.tp, side), Touch(b.sl, -side), p.horizon)
           exit == Min({ev + hit.offset, Len(frame)})
           known == [label |-> hit.label, barrier_hit |-> hit.barrier_hit,
                     truncated |-> hit.offset > Len(frame) - ev]
           left == LeftAt(frame, ev, exit, side, p)
           risk == [stop_distance |->
                      IF p.mode = "pct" THEN (frame[ev].close * (p.down[2] - p.down[1])) \div p.down[2]
                      ELSE LET atr == AtrPrice(frame[ev].atr)
                           IN IF atr = NaN THEN NaN ELSE (p.lower * atr) \div 2]
           l == (known ++ left) ++ risk
<1>2. TripleBarrierLabel(frame, ev, side, p) = l
  BY DEF TripleBarrierLabel, TripleBarrier, Vectorised
<1>3. ASSUME NEW price, NEW s PROVE Touch(price, s) \in Nat
  <2> DEFINE hits == {k \in 1..p.horizon : ev + k <= Len(frame) /\ Reaches(frame[ev+k], price, s)}
  <2>1. hits \in SUBSET (1..p.horizon)
    OBVIOUS
  <2> HIDE DEF hits
  <2> DEFINE h == p.horizon
  <2>2. h \in Int /\ 1 \in Int /\ 0 \in Int /\ hits \in SUBSET (1..h)
    BY <1>1, <2>1
  <2> HIDE DEF h
  <2>3. hits # {} => First(hits, 0) \in hits
    BY <2>2, FirstOf
  <2>4. hits = {} => First(hits, 0) = 0
    BY <2>2, FirstOf
  <2>5. First(hits, 0) \in Nat
    <3>1. CASE hits # {}
      <4>1. First(hits, 0) \in 1..h
        BY <2>2, <2>3, <3>1
      <4>2. QED BY <2>2, <4>1
    <3>2. QED BY <2>4, <3>1
  <2>6. QED BY <2>5 DEF hits
<1>4. hit.offset \in Nat
  <2> HIDE DEF Touch
  <2>1. QED BY <1>1, <1>3, TouchedOffset
<1> HIDE DEF hit, b
<1>5. exit \in 1..n
  <2> DEFINE k == hit.offset
  <2>1. exit = Min({ev + k, n})
    BY <1>1
  <2> HIDE DEF exit
  <2>2. k \in Nat
    BY <1>4
  <2> HIDE DEF k
  <2>3. Min({ev + k, n}) \in ev..n
    BY <1>1, <2>2, RowOn
  <2>4. QED BY <1>1, <2>1, <2>3
<1> HIDE DEF exit
<1>6. /\ DOMAIN left = {"exit_idx", "n_bars_held", "entry_price", "exit_price", "actual_return",
                        "return_atr"}
      /\ left.exit_idx = exit /\ left.entry_price = frame[ev].close /\ left.exit_price = frame[exit].close
  BY DEF LeftAt
<1>7. DOMAIN known = {"label", "barrier_hit", "truncated"}
  OBVIOUS
<1>8. DOMAIN risk = {"stop_distance"}
  OBVIOUS
<1>9. risk.stop_distance \in Value
  <2>1. frame[ev].close \in Int /\ AtrPrice(frame[ev].atr) \in Value
    BY RowTyped, AtrTyped
  <2>2. CASE p.mode = "pct"
    <3>1. p.down \in (Nat \ {0}) \X (Nat \ {0})
      BY <2>2, ExitsAssumption
    <3>2. p.down[1] \in Int /\ p.down[2] \in Nat \ {0}
      BY <3>1
    <3>3. risk.stop_distance = (frame[ev].close * (p.down[2] - p.down[1])) \div p.down[2]
      BY <2>2
    <3> DEFINE x == frame[ev].close * (p.down[2] - p.down[1])
               y == p.down[2]
    <3>4. x \in Int /\ y \in Nat \ {0}
      BY <2>1, <3>2
    <3> HIDE DEF x, y
    <3>5. x \div y \in Int
      BY <3>4
    <3>6. QED BY <3>3, <3>5 DEF x, y, Value
  <2>3. CASE p.mode # "pct"
    <3>1. p.lower \in Nat
      BY <2>3, ExitsAssumption
    <3> DEFINE atr == AtrPrice(frame[ev].atr)
    <3>2. atr \in Value
      BY <2>1
    <3>3. risk.stop_distance = IF atr = NaN THEN NaN ELSE (p.lower * atr) \div 2
      BY <2>3
    <3> HIDE DEF atr, risk
    <3>4. atr # NaN => (p.lower * atr) \div 2 \in Int
      BY <3>1, <3>2 DEF Value
    <3>5. QED BY <3>3, <3>4 DEF Value
  <2>4. QED BY <2>2, <2>3
<1> HIDE DEF left, known, risk
<1>10. /\ l.exit_idx = exit /\ l.entry_price = frame[ev].close /\ l.exit_price = frame[exit].close
       /\ l.stop_distance = risk.stop_distance
  BY <1>6, <1>7, <1>8 DEF ++
<1> HIDE DEF l
<1>11. frame[ev].close \in Nat \ {0} /\ frame[exit].close \in Int
  BY <1>5, RowTyped
<1>12. exit \in Int /\ exit <= Len(frame)
  BY <1>1, <1>5
<1>13. QED BY <1>2, <1>9, <1>10, <1>11, <1>12 DEF LabelTyped

LEMMA ExitTyped ==
  ASSUME NEW frame, NEW n, Indicated(frame, n), NEW ev \in 1..n, NEW exit \in 1..n, NEW side,
         NEW price \in Int, NEW reason
  PROVE  /\ LabelTyped(ExitAt(frame, ev, exit, side, price, reason), frame, ev)
         /\ "stop_distance" \notin DOMAIN ExitAt(frame, ev, exit, side, price, reason)
<1>1. frame[ev].close \in Nat \ {0}
  BY RowTyped
<1>2. Len(frame) = n /\ n \in Nat
  BY DEF Indicated, Frame
<1>3. exit \in Int /\ exit <= Len(frame)
  BY <1>2
<1>4. QED BY <1>1, <1>3 DEF ExitAt, LabelTyped

\* A label stays one when it gets a stop's distance.
LEMMA MeasuredTyped ==
  ASSUME NEW row, NEW frame, NEW ev, LabelTyped(row, frame, ev), "stop_distance" \notin DOMAIN row,
         {"entry_price", "exit_price", "exit_idx"} \subseteq DOMAIN row,
         NEW risk \in Value, NEW r
  PROVE  LabelTyped(row ++ [stop_distance |-> risk, r_multiple |-> r], frame, ev)
<1> DEFINE m == [stop_distance |-> risk, r_multiple |-> r]
           l == row ++ m
<1>1. DOMAIN m = {"stop_distance", "r_multiple"} /\ m.stop_distance = risk
  OBVIOUS
<1> HIDE DEF m
<1>2. /\ l.entry_price = row.entry_price /\ l.exit_price = row.exit_price
      /\ l.exit_idx = row.exit_idx /\ l.stop_distance = risk
  BY <1>1 DEF ++
<1> HIDE DEF l
<1>3. LabelTyped(l, frame, ev)
  BY <1>2 DEF LabelTyped
<1>4. QED BY <1>3 DEF l, m

LEMMA TurtleTyped ==
  ASSUME NEW frame, NEW n, Indicated(frame, n), NEW ev \in 1..n, NEW side \in {1, -1}
  PROVE  LabelTyped(TurtleExit(frame, ev, side, Exits.turtle), frame, ev)
<1>1. n \in Nat /\ Len(frame) = n /\ Exits.turtle.mult \in Nat
  BY ExitsAssumption DEF Indicated, Frame
<1> DEFINE p == Exits.turtle
           stop == frame[ev].close - side * ((p.mult * PositiveAtr(frame[ev].atr)) \div 2)
           StopHit(j) == IF side = 1 THEN frame[j].low <= stop ELSE frame[j].high >= stop
           ChannelHit(j) == IF side = 1 THEN Below(frame[j].close, frame[j].exit_low)
                                        ELSE Above(frame[j].close, frame[j].exit_high)
           Exit(hits, j) ==
             IF hits = {} THEN ExitAt(frame, ev, j, side, frame[j].close, "timeout")
             ELSE IF StopHit(j)
               THEN ExitAt(frame, ev, j, side, StopPrice(frame[j].close, stop, side), "stop")
             ELSE ExitAt(frame, ev, j, side, frame[j].close, "signal")
           hits == {j \in ev+1 .. Len(frame) : StopHit(j) \/ ChannelHit(j)}
           j == First(hits, Len(frame))
<1>2. TurtleExit(frame, ev, side, p) = Exit(hits, j)
  BY DEF TurtleExit
<1>3. stop \in Int
  <2>1. PositiveAtr(frame[ev].atr) \in Int /\ frame[ev].close \in Int
    BY RowTyped, AtrTyped
  <2> DEFINE a == PositiveAtr(frame[ev].atr)
             m == Exits.turtle.mult
             d == (m * a) \div 2
  <2>2. a \in Int /\ m \in Int
    BY <1>1, <2>1
  <2> HIDE DEF a, m
  <2>3. d \in Int
    BY <2>2
  <2>4. stop = frame[ev].close - side * d
    BY DEF a, m
  <2> HIDE DEF stop, d
  <2>5. QED BY <2>1, <2>3, <2>4
<1>4. hits \in SUBSET (ev+1 .. n)
  BY <1>1
<1> HIDE DEF stop, hits
<1>5. j \in 1..n
  <2>1. ev + 1 \in Int /\ n \in Int /\ 1 <= ev /\ 1 <= n
    BY <1>1
  <2>2. hits # {} => First(hits, n) \in hits
    BY <1>4, <2>1, FirstOf
  <2>3. hits = {} => First(hits, n) = n
    BY <1>4, <2>1, FirstOf
  <2>4. CASE hits # {}
    <3>1. j \in ev+1 .. n
      BY <1>1, <1>4, <2>2, <2>4
    <3> HIDE DEF j
    <3>2. QED BY <2>1, <3>1
  <2>5. CASE hits = {}
    <3>1. j = n
      BY <1>1, <2>3, <2>5
    <3> HIDE DEF j
    <3>2. QED BY <2>1, <3>1
  <2>6. QED BY <2>4, <2>5
<1> HIDE DEF j
<1>6. frame[j].close \in Int /\ j \in Int
  BY <1>1, <1>5, RowTyped
<1>7. StopPrice(frame[j].close, stop, side) \in Int
  BY <1>3, <1>6, StopPriceInt
<1> HIDE DEF StopHit
<1>8. LabelTyped(Exit(hits, j), frame, ev)
  BY <1>5, <1>6, <1>7, ExitTyped
<1>9. QED BY <1>2, <1>8

LEMMA TrailStopInt ==
  ASSUME NEW frame, NEW n, Indicated(frame, n), NEW ev \in 1..n, NEW side, NEW j \in ev+1 .. n,
         TrailStop(frame, ev, side, j) # NaN
  PROVE  TrailStop(frame, ev, side, j) \in Int
<1> DEFINE J == ev .. j-1
           v == [k \in J |-> TrailValue(frame[k], side)]
           seen == {TrailValue(frame[k], side) : k \in J}
<1>1. n \in Nat
  BY DEF Indicated, Frame
<1>2. ASSUME NEW k \in J PROVE TrailValue(frame[k], side) \in Value
  <2>1. k \in 1..n
    BY <1>1
  <2>2. QED BY <2>1, RowTyped DEF TrailValue
<1>3. IsFiniteSet(J) /\ ev \in J
  <2>1. ev \in Int /\ j - 1 \in Int
    OBVIOUS
  <2>2. QED BY <2>1, FS_Interval
<1>4. TrailStop(frame, ev, side, j) =
        IF NaN \in seen THEN NaN ELSE IF side = 1 THEN Max(seen) ELSE Min(seen)
  BY DEF TrailStop
<1> HIDE DEF J
<1>5. NaN \notin seen
  BY <1>4
<1>6. seen \subseteq Int /\ seen # {}
  BY <1>2, <1>3, <1>5 DEF Value
<1>7. IsFiniteSet(seen)
  <2>1. v \in [J -> seen] /\ \A t \in seen : \E s \in J : v[s] = t
    OBVIOUS
  <2> HIDE DEF seen, v
  <2>2. v \in Surjection(J, seen)
    BY <2>1 DEF Surjection
  <2>3. QED BY <1>3, <2>2, FS_Surjection
<1> HIDE DEF seen
<1>8. Max(seen) \in Int /\ Min(seen) \in Int
  BY <1>6, <1>7, MaxOfFinite, MinOfFinite
<1>9. QED BY <1>4, <1>5, <1>8

LEMMA TrailingTyped ==
  ASSUME NEW frame, NEW n, Indicated(frame, n), NEW ev \in 1..n, NEW side \in {1, -1}
  PROVE  LabelTyped(TrailingStopExit(frame, ev, side), frame, ev)
<1>1. n \in Nat /\ Len(frame) = n
  BY DEF Indicated, Frame
<1> DEFINE start == TrailValue(frame[ev], side)
           risk == IF start = NaN THEN NaN ELSE side * (frame[ev].close - start)
           Exit(hits, j) ==
             IF hits = {} THEN ExitAt(frame, ev, j, side, frame[j].close, "still_open")
             ELSE ExitAt(frame, ev, j, side, StopPrice(frame[j].close, TrailStop(frame, ev, side, j), side),
                         "trailing_stop")
           hits == {j \in ev+1 .. Len(frame) : Reaches(frame[j], TrailStop(frame, ev, side, j), -side)}
           j == First(hits, Len(frame))
           row == Exit(hits, j)
           r == IF risk = NaN THEN NaN ELSE <<row.actual_return, risk>>
<1>2. TrailingStopExit(frame, ev, side) = row ++ [stop_distance |-> risk, r_multiple |-> r]
  BY DEF TrailingStopExit
<1>3. risk \in Value
  <2>1. start \in Value /\ frame[ev].close \in Int
    BY RowTyped DEF TrailValue
  <2> HIDE DEF start
  <2>2. start # NaN => side * (frame[ev].close - start) \in Int
    BY <2>1 DEF Value
  <2>3. QED BY <2>2 DEF Value
<1>4. hits \in SUBSET (ev+1 .. n)
  BY <1>1
<1>5. \A i \in hits : TrailStop(frame, ev, side, i) # NaN
  BY DEF Reaches
<1> HIDE DEF risk, hits
<1>6. /\ hits # {} => j \in hits
      /\ hits = {} => j = n
  <2>1. ev + 1 \in Int /\ n \in Int
    BY <1>1
  <2>2. hits # {} => First(hits, n) \in hits
    BY <1>4, <2>1, FirstOf
  <2>3. hits = {} => First(hits, n) = n
    BY <1>4, <2>1, FirstOf
  <2>4. QED BY <1>1, <2>2, <2>3
<1> HIDE DEF j
<1>7. j \in 1..n
  <2>1. CASE hits # {}
    <3>1. j \in ev+1 .. n
      BY <1>4, <1>6, <2>1
    <3>2. QED BY <1>1, <3>1
  <2>2. CASE hits = {}
    BY <1>1, <1>6, <2>2
  <2>3. QED BY <2>1, <2>2
<1>8. frame[j].close \in Int /\ j \in Int
  BY <1>1, <1>7, RowTyped
<1>9. hits # {} => StopPrice(frame[j].close, TrailStop(frame, ev, side, j), side) \in Int
  <2>1. SUFFICES ASSUME hits # {} PROVE StopPrice(frame[j].close, TrailStop(frame, ev, side, j), side) \in Int
    OBVIOUS
  <2>2. j \in ev+1 .. n /\ TrailStop(frame, ev, side, j) # NaN
    BY <1>4, <1>5, <1>6, <2>1
  <2>3. TrailStop(frame, ev, side, j) \in Int
    BY <2>2, TrailStopInt
  <2>4. QED BY <1>8, <2>3, StopPriceInt
<1>10. /\ LabelTyped(row, frame, ev) /\ "stop_distance" \notin DOMAIN row
       /\ {"entry_price", "exit_price", "exit_idx"} \subseteq DOMAIN row
  <2>1. CASE hits = {}
    <3>1. row = ExitAt(frame, ev, j, side, frame[j].close, "still_open")
      BY <2>1
    <3> HIDE DEF row
    <3>2. {"entry_price", "exit_price", "exit_idx"} \subseteq DOMAIN row
      BY <3>1 DEF ExitAt
    <3>3. QED BY <1>7, <1>8, <3>1, <3>2, ExitTyped
  <2>2. CASE hits # {}
    <3> DEFINE price == StopPrice(frame[j].close, TrailStop(frame, ev, side, j), side)
    <3>1. row = ExitAt(frame, ev, j, side, price, "trailing_stop")
      BY <2>2
    <3>2. price \in Int
      BY <1>9, <2>2
    <3> HIDE DEF row, price
    <3>3. {"entry_price", "exit_price", "exit_idx"} \subseteq DOMAIN row
      BY <3>1 DEF ExitAt
    <3>4. QED BY <1>7, <3>1, <3>2, <3>3, ExitTyped
  <2>3. QED BY <2>1, <2>2
<1> HIDE DEF row, r
<1>11. QED BY <1>2, <1>3, <1>10, MeasuredTyped

\* The whole number below a root: the one that fits while the next does not.
HasBand(entry, period, k, var) ==
  LET Fits(d) == ~ExceedsRoot(period * d, k, var)
  IN \E d \in 0..entry : Fits(d) /\ (Fits(d + 1) => d = entry)

LEMMA BandExists ==
  ASSUME NEW entry \in Nat, NEW k \in Int, NEW var \in Int, NEW period \in Int
  PROVE  HasBand(entry, period, k, var)
<1> DEFINE Fits(d) == ~ExceedsRoot(period * d, k, var)
           T == {d \in 0..entry : ~Fits(d + 1)}
<1>1. Fits(0)
  BY DEF ExceedsRoot
<1> HIDE DEF Fits
<1>2. CASE T = {}
  <2>1. Fits(entry)
    <3>1. CASE entry = 0
      BY <1>1, <3>1
    <3>2. CASE entry # 0
      <4>1. entry - 1 \in 0..entry /\ (entry - 1) + 1 = entry
        BY <3>2
      <4>2. QED BY <1>2, <4>1
    <3>3. QED BY <3>1, <3>2
  <2>2. entry \in 0..entry
    OBVIOUS
  <2>3. QED BY <2>1, <2>2 DEF Fits, HasBand
<1>3. CASE T # {}
  <2>1. PICK d \in T : \A e \in T : d <= e
    <3>1. T \subseteq Nat
      OBVIOUS
    <3> HIDE DEF T
    <3>2. QED BY <1>3, <3>1, LeastNat
  <2>2. d \in 0..entry /\ ~Fits(d + 1)
    BY <2>1
  <2>3. Fits(d)
    <3>1. CASE d = 0
      BY <1>1, <3>1
    <3>2. CASE d # 0
      <4>1. d - 1 \in 0..entry /\ ~(d <= d - 1) /\ (d - 1) + 1 = d
        BY <2>2, <3>2
      <4>2. d - 1 \notin T
        BY <2>1, <4>1
      <4>3. QED BY <4>1, <4>2
    <3>3. QED BY <3>1, <3>2
  <2>4. QED BY <2>2, <2>3 DEF Fits, HasBand
<1>4. QED BY <1>2, <1>3

LEMMA ReversionTyped ==
  ASSUME NEW frame, NEW n, Indicated(frame, n), NEW ev \in 1..n
  PROVE  LabelTyped(MeanReversion(frame, ev, Exits.reversion), frame, ev)
<1>1. n \in Nat /\ Len(frame) = n /\ Exits.reversion.max_hold \in Nat /\ Exits.reversion.num_std \in Nat
  BY ExitsAssumption DEF Indicated, Frame
<1> DEFINE p == Exits.reversion
           entry == frame[ev].close
           mean == frame[ev].ma
           var == frame[ev].close_std
           last == Min({ev + p.max_hold, Len(frame)})
           AtTarget(j) == mean # NaN /\ Period("ma") * frame[j].close >= mean
           AtStop(j) == var # NaN /\ ReachesRoot(Period("ma") * (entry - frame[j].close), p.num_std, var)
           Exit(hits, j) ==
             ExitAt(frame, ev, j, 1, frame[j].close,
                    IF hits = {} THEN "timeout" ELSE IF AtTarget(j) THEN "upper" ELSE "lower")
           Fits(d) == ~ExceedsRoot(Period("ma") * d, p.num_std, var)
           band == IF var = NaN THEN NaN
                   ELSE CHOOSE d \in 0..entry : Fits(d) /\ (Fits(d + 1) => d = entry)
           hits == {j \in ev+1 .. last : AtTarget(j) \/ AtStop(j)}
           j == First(hits, last)
           row == Exit(hits, j)
           r == IF band \in {NaN, 0} THEN <<0, 1>> ELSE <<row.actual_return, band>>
<1>2. MeanReversion(frame, ev, p) = row ++ [stop_distance |-> band, r_multiple |-> r]
  BY DEF MeanReversion
<1>3. band \in Value
  <2>1. entry \in Nat /\ var \in Value /\ p.num_std \in Int /\ Period("ma") \in Int
    <3>1. "ma" \in Names
      BY DEF Names, ROLLING_SPEC
    <3>2. QED BY <1>1, <3>1, RowTyped, SpecTyped
  <2>2. CASE var = NaN
    BY <2>2 DEF Value
  <2>3. CASE var # NaN
    <3>1. var \in Int
      BY <2>1, <2>3 DEF Value
    <3>2. \E d \in 0..entry : Fits(d) /\ (Fits(d + 1) => d = entry)
      <4>1. HasBand(entry, Period("ma"), p.num_std, var)
        BY <2>1, <3>1, BandExists
      <4>2. QED BY <4>1 DEF HasBand
    <3>3. band = CHOOSE d \in 0..entry : Fits(d) /\ (Fits(d + 1) => d = entry)
      BY <2>3
    <3> HIDE DEF Fits, entry, var, band
    <3>4. band \in 0..entry
      BY <3>2, <3>3
    <3>5. QED BY <2>1, <3>4 DEF Value
  <2>4. QED BY <2>2, <2>3
<1>4. last \in ev..n
  BY <1>1, RowOn
<1>5. hits \in SUBSET (ev+1 .. last)
  OBVIOUS
<1> HIDE DEF band, hits, last
<1>6. /\ hits # {} => j \in hits
      /\ hits = {} => j = last
  <2>1. ev + 1 \in Int /\ last \in Int
    BY <1>1, <1>4
  <2>2. hits # {} => First(hits, last) \in hits
    BY <1>5, <2>1, FirstOf
  <2>3. hits = {} => First(hits, last) = last
    BY <1>5, <2>1, FirstOf
  <2>4. QED BY <2>2, <2>3
<1> HIDE DEF j
<1>7. j \in 1..n
  <2>1. CASE hits # {}
    <3>1. j \in ev+1 .. last
      BY <1>5, <1>6, <2>1
    <3>2. QED BY <1>1, <1>4, <3>1
  <2>2. CASE hits = {}
    BY <1>1, <1>4, <1>6, <2>2
  <2>3. QED BY <2>1, <2>2
<1>8. frame[j].close \in Int /\ j \in Int
  BY <1>1, <1>7, RowTyped
<1>9. /\ LabelTyped(row, frame, ev) /\ "stop_distance" \notin DOMAIN row
      /\ {"entry_price", "exit_price", "exit_idx"} \subseteq DOMAIN row
  <2> DEFINE reason == IF hits = {} THEN "timeout" ELSE IF AtTarget(j) THEN "upper" ELSE "lower"
  <2>1. row = ExitAt(frame, ev, j, 1, frame[j].close, reason)
    OBVIOUS
  <2> HIDE DEF row, reason
  <2>2. {"entry_price", "exit_price", "exit_idx"} \subseteq DOMAIN row
    BY <2>1 DEF ExitAt
  <2>3. QED BY <1>7, <1>8, <2>1, <2>2, ExitTyped
<1> HIDE DEF row, r
<1>10. QED BY <1>2, <1>3, <1>9, MeasuredTyped

LEMMA HorizonTyped ==
  ASSUME NEW frame, NEW n, Indicated(frame, n), NEW ev \in 1..n, NEW side
  PROVE  LabelTyped(FixedHorizon(frame, ev, side, Exits.horizon), frame, ev)
<1> DEFINE exit == Min({ev + Exits.horizon.horizon, Len(frame)})
           l == FixedHorizon(frame, ev, side, Exits.horizon)
<1>1. n \in Nat /\ Len(frame) = n /\ Exits.horizon.horizon \in Nat
  BY ExitsAssumption DEF Indicated, Frame
<1>2. exit \in 1..n
  <2> DEFINE k == Exits.horizon.horizon
  <2>1. exit = Min({ev + k, n})
    BY <1>1
  <2> HIDE DEF exit
  <2>2. k \in Nat
    BY <1>1
  <2> HIDE DEF k
  <2>3. Min({ev + k, n}) \in ev..n
    BY <1>1, <2>2, RowOn
  <2>4. QED BY <1>1, <2>1, <2>3
<1>3. /\ l.exit_idx = exit /\ l.entry_price = frame[ev].close /\ l.exit_price = frame[exit].close
      /\ "stop_distance" \notin DOMAIN l
  BY DEF FixedHorizon
<1> HIDE DEF exit, l
<1>4. /\ frame[ev].close \in Nat \ {0} /\ frame[exit].close \in Int /\ exit \in Int
      /\ exit <= Len(frame)
  BY <1>1, <1>2, RowTyped
<1>5. LabelTyped(l, frame, ev)
  BY <1>3, <1>4 DEF LabelTyped
<1>6. QED BY <1>5 DEF l

LEMMA LabelsAreTyped ==
  ASSUME NEW frame, NEW n, Indicated(frame, n), NEW ev \in 1..n, NEW side \in {1, -1},
         NEW labeler \in LabelerNames
  PROVE  LabelTyped(Label(labeler, frame, ev, side), frame, ev)
<1>1. CASE labeler = "triple"
  BY <1>1, TripleBarrierTyped DEF Label
<1>2. CASE labeler = "triple_atr"
  BY <1>2, TripleBarrierTyped DEF Label
<1>3. CASE labeler = "turtle"
  BY <1>3, TurtleTyped DEF Label
<1>4. CASE labeler = "trailing"
  BY <1>4, TrailingTyped DEF Label
<1>5. CASE labeler = "reversion"
  BY <1>5, ReversionTyped DEF Label
<1>6. CASE labeler = "horizon"
  BY <1>6, HorizonTyped DEF Label
<1>7. QED BY <1>1, <1>2, <1>3, <1>4, <1>5, <1>6 DEF LabelerNames

-----------------------------------------------------------------------------
(* Sequences.                                                              *)

Sequence(s) == \E T : s \in Seq(T)

LEMMA SequenceShape ==
  ASSUME NEW s, Sequence(s)
  PROVE  Len(s) \in Nat /\ DOMAIN s = 1..Len(s)
BY DEF Sequence

LEMMA Appended ==
  ASSUME NEW s, Sequence(s), NEW e
  PROVE  /\ Sequence(Append(s, e)) /\ Len(Append(s, e)) = Len(s) + 1 /\ Len(s) \in Nat
         /\ DOMAIN s = 1..Len(s) /\ DOMAIN Append(s, e) = 1..Len(s)+1
         /\ \A k \in 1..Len(s) : Append(s, e)[k] = s[k]
         /\ Append(s, e)[Len(s)+1] = e
<1>1. PICK T : s \in Seq(T)
  BY DEF Sequence
<1> DEFINE U == T \cup {e}
<1>2. s \in Seq(U) /\ e \in U
  BY <1>1
<1> HIDE DEF U
<1>3. Append(s, e) \in Seq(U)
  BY <1>2
<1>4. Sequence(Append(s, e))
  BY <1>3 DEF Sequence
<1>5. QED BY <1>2, <1>3, <1>4

LEMMA FunctionIsSequence ==
  ASSUME NEW n \in Nat, NEW f, f = [k \in 1..n |-> f[k]]
  PROVE  Sequence(f) /\ Len(f) = n
<1> DEFINE T == {f[k] : k \in 1..n}
<1>1. f \in [1..n -> T]
  OBVIOUS
<1> HIDE DEF T
<1>2. f \in Seq(T) /\ Len(f) = n
  BY <1>1
<1>3. QED BY <1>2 DEF Sequence

-----------------------------------------------------------------------------
(* A row of the frame depends on the bars up to it, and no later bar       *)
(* changes it.                                                             *)

Fields == {"high", "low", "close", "volume", "taker_buy_base"}

SameBars(df, eg, n) == \A k \in 1..n : \A f \in Fields : df[k][f] = eg[k][f]

LEMMA InputSame ==
  ASSUME NEW df, NEW eg, NEW i \in Nat \ {0}, SameBars(df, eg, i), NEW input \in Inputs
  PROVE  InputAt(df, input, i) = InputAt(eg, input, i)
<1>1. \A f \in Fields : df[i][f] = eg[i][f]
  BY DEF SameBars
<1>2. i # 1 => \A f \in Fields : df[i-1][f] = eg[i-1][f]
  BY DEF SameBars
<1>3. CASE input = "true_range"
  <2>1. df[i].high = eg[i].high /\ df[i].low = eg[i].low
    BY <1>1 DEF Fields
  <2>2. i # 1 => df[i-1].close = eg[i-1].close
    BY <1>2 DEF Fields
  <2>3. QED BY <1>3, <2>1, <2>2 DEF InputAt
<1>4. CASE input # "true_range"
  BY <1>1, <1>4 DEF InputAt, Inputs, Fields
<1>5. QED BY <1>3, <1>4

LEMMA RollingSame ==
  ASSUME NEW s, NEW t, NEW op, NEW period \in Nat \ {0}, NEW i \in Int,
         \A k \in 1..i : s[k] = t[k]
  PROVE  Rolling(s, op, period, i) = Rolling(t, op, period, i)
<1> DEFINE v == [k \in 1..period |-> s[i - period + k]]
           w == [k \in 1..period |-> t[i - period + k]]
<1>1. CASE i < period
  BY <1>1 DEF Rolling
<1>2. CASE ~(i < period)
  <2>1. ASSUME NEW k \in 1..period PROVE s[i - period + k] = t[i - period + k]
    <3>1. i - period + k \in 1..i
      BY <1>2
    <3>2. QED BY <3>1
  <2>2. v = w
    BY <2>1
  <2>3. /\ Rolling(s, op, period, i) = IF NaN \in ToSet(v) THEN NaN ELSE Aggregate(op, period, v)
        /\ Rolling(t, op, period, i) = IF NaN \in ToSet(w) THEN NaN ELSE Aggregate(op, period, w)
    BY <1>2 DEF Rolling
  <2> HIDE DEF v, w
  <2>4. QED BY <2>2, <2>3
<1>3. QED BY <1>1, <1>2

LEMMA ColumnSame ==
  ASSUME NEW df, NEW n, Frame(df, n), NEW eg, NEW m, Frame(eg, m),
         NEW i \in 1..n, i \in 1..m, SameBars(df, eg, i), NEW name \in Names
  PROVE  ColumnAt(df, name, i) = ColumnAt(eg, name, i)
<1> DEFINE input == ROLLING_SPEC[name].input
           s == InputSeries(df, input)
           t == InputSeries(eg, input)
<1>1. n \in Nat /\ m \in Nat /\ DOMAIN df = 1..n /\ DOMAIN eg = 1..m
  BY DEF Frame
<1>2. input \in Inputs /\ Period(name) \in Nat \ {0}
  BY SpecTyped
<1> HIDE DEF input
<1>3. ASSUME NEW k \in 1..(i-1) PROVE s[k] = t[k]
  <2>1. k \in 1..n /\ k \in 1..m /\ k \in Nat \ {0} /\ k <= i
    BY <1>1
  <2>2. SameBars(df, eg, k)
    BY <1>1, <2>1 DEF SameBars
  <2>3. InputAt(df, input, k) = InputAt(eg, input, k)
    BY <1>2, <2>1, <2>2, InputSame
  <2>4. QED BY <1>1, <2>1, <2>3 DEF InputSeries
<1>4. CASE i = 1
  BY <1>4 DEF ColumnAt
<1>5. CASE i # 1
  <2>1. /\ ColumnAt(df, name, i) = Rolling(s, ROLLING_SPEC[name].op, Period(name), i - 1)
        /\ ColumnAt(eg, name, i) = Rolling(t, ROLLING_SPEC[name].op, Period(name), i - 1)
    BY <1>5 DEF ColumnAt, input
  <2>2. i - 1 \in Int
    BY <1>1
  <2> HIDE DEF s, t
  <2>3. Rolling(s, ROLLING_SPEC[name].op, Period(name), i - 1)
        = Rolling(t, ROLLING_SPEC[name].op, Period(name), i - 1)
    BY <1>2, <1>3, <2>2, RollingSame
  <2>4. QED BY <2>1, <2>3
<1>6. QED BY <1>4, <1>5

\* What add_indicators() puts beside a bar.
Columns(df, i) ==
  LET col == [n \in Names |-> ColumnAt(df, n, i)]
  IN FrameDerived(df, col, i) ++ [n \in Kept |-> col[n]]

DerivedNames == {"vol_ratio", "vol_zscore", "channel_pos", "ret", "taker_buy_ratio"}
ColumnNames == DerivedNames \cup Kept

LEMMA FrameIsColumns ==
  ASSUME NEW df
  PROVE  AddIndicators(df) = [i \in DOMAIN df |-> Columns(df, i) ++ df[i]]
BY DEF AddIndicators, Columns

LEMMA ColumnsNamed ==
  ASSUME NEW df, NEW i
  PROVE  /\ DOMAIN Columns(df, i) = ColumnNames /\ ColumnNames \cap Fields = {}
         /\ \A name \in Kept : Columns(df, i)[name] = ColumnAt(df, name, i)
         /\ \A c \in DerivedNames :
              Columns(df, i)[c] = FrameDerived(df, [n \in Names |-> ColumnAt(df, n, i)], i)[c]
<1> DEFINE col == [n \in Names |-> ColumnAt(df, n, i)]
           derived == FrameDerived(df, col, i)
           kept == [n \in Kept |-> col[n]]
<1>1. DOMAIN derived = DerivedNames
  BY DEF FrameDerived, DerivedNames
<1>2. Kept \subseteq Names /\ Kept \cap Fields = {} /\ DerivedNames \cap Fields = {} /\ DerivedNames \cap Kept = {}
  BY DEF Kept, Names, ROLLING_SPEC, DerivedNames, Fields
<1>3. Columns(df, i) = derived ++ kept
  BY DEF Columns
<1>4. DOMAIN kept = Kept /\ \A name \in Kept : kept[name] = ColumnAt(df, name, i)
  BY <1>2
<1> HIDE DEF derived, kept
<1>5. DOMAIN Columns(df, i) = ColumnNames
  BY <1>1, <1>3, <1>4 DEF ++, ColumnNames
<1>6. \A name \in Kept : Columns(df, i)[name] = ColumnAt(df, name, i)
  BY <1>1, <1>2, <1>3, <1>4 DEF ++
<1>7. \A c \in DerivedNames : Columns(df, i)[c] = derived[c]
  BY <1>1, <1>3 DEF ++
<1>8. QED BY <1>2, <1>5, <1>6, <1>7 DEF derived, ColumnNames

LEMMA ColumnsSame ==
  ASSUME NEW df, NEW n, Frame(df, n), NEW eg, NEW m, Frame(eg, m),
         NEW i \in 1..n, i \in 1..m, SameBars(df, eg, i)
  PROVE  Columns(df, i) = Columns(eg, i)
<1> DEFINE col == [name \in Names |-> ColumnAt(df, name, i)]
           loc == [name \in Names |-> ColumnAt(eg, name, i)]
<1>1. \A name \in Names : ColumnAt(df, name, i) = ColumnAt(eg, name, i)
  BY ColumnSame
<1>2. col = loc
  BY <1>1
<1>3. n \in Nat /\ m \in Nat
  BY DEF Frame
<1>4. \A f \in Fields : df[i][f] = eg[i][f]
  BY <1>3 DEF SameBars
<1>5. df[i].close = eg[i].close /\ df[i].volume = eg[i].volume
  BY <1>4 DEF Fields
<1>6. InputAt(df, "log_volume", i) = InputAt(eg, "log_volume", i)
  BY <1>3, InputSame DEF Inputs
<1>7. ASSUME NEW p \in ReturnPeriods, ~(i <= p)
      PROVE  df[i-p].close = eg[i-p].close
  <2>1. i - p \in 1..i
    BY <1>3, <1>7 DEF ReturnPeriods
  <2>2. QED BY <2>1 DEF SameBars, Fields
<1> DEFINE ret(d) == [p \in ReturnPeriods |-> IF i <= p THEN NaN ELSE <<d[i].close, d[i-p].close>>]
<1>8. ret(df) = ret(eg)
  BY <1>5, <1>7
<1> HIDE DEF col, loc, ret
<1>9. FrameDerived(df, col, i) = FrameDerived(eg, col, i)
  BY <1>5, <1>6, <1>8 DEF FrameDerived, ret
<1>10. /\ Columns(df, i) = FrameDerived(df, col, i) ++ [name \in Kept |-> col[name]]
       /\ Columns(eg, i) = FrameDerived(eg, loc, i) ++ [name \in Kept |-> loc[name]]
  BY DEF Columns, col, loc
<1>11. QED BY <1>2, <1>9, <1>10

\* The columns of the frame are those of its bars.
Stands(frame) == \A i \in DOMAIN frame : frame[i] = Columns(frame, i) ++ frame[i]

LEMMA OverAgain ==
  ASSUME NEW c, NEW d
  PROVE  c ++ (c ++ d) = c ++ d
BY DEF ++

\* A bar that arrives leaves the rows before it as they are.
LEMMA RowsStay ==
  ASSUME NEW frame, Sequence(frame), Indicated(frame, Len(frame)), Stands(frame),
         NEW bar, IsBar(bar)
  PROVE  LET more == AddIndicators(Append(frame, bar))
             n == Len(frame) + 1
         IN /\ Stands(more) /\ DOMAIN more = 1..n
            /\ \A i \in 1..Len(frame) : more[i] = frame[i]
            /\ more[n] = Columns(more, n) ++ bar
            /\ \A f \in Fields : more[n][f] = bar[f]
<1> DEFINE df == Append(frame, bar)
           n == Len(frame) + 1
           more == AddIndicators(df)
<1>1. /\ Len(frame) \in Nat /\ n \in Nat /\ DOMAIN df = 1..n /\ DOMAIN frame = 1..Len(frame)
      /\ \A k \in 1..Len(frame) : df[k] = frame[k]
      /\ df[n] = bar
  BY Appended
<1>2. Frame(frame, Len(frame))
  BY DEF Indicated
<1> HIDE DEF df
<1>3. Frame(df, n)
  <2>1. ASSUME NEW i \in 1..n PROVE IsBar(df[i])
    <3>1. i \in 1..Len(frame) \/ i = n
      BY <1>1
    <3>2. CASE i \in 1..Len(frame)
      BY <1>1, <1>2, <3>2 DEF Frame
    <3>3. CASE i = n
      BY <1>1, <3>3
    <3>4. QED BY <3>1, <3>2, <3>3
  <2>2. QED BY <1>1, <2>1 DEF Frame
<1>4. DOMAIN more = 1..n /\ \A i \in 1..n : more[i] = Columns(df, i) ++ df[i]
  BY <1>1, FrameIsColumns
<1>5. ASSUME NEW i \in 1..n, NEW f \in Fields PROVE more[i][f] = df[i][f]
  <2>1. LET row == AddIndicators(df)[i]
        IN \A g \in {"high", "low", "close", "volume", "taker_buy_base"} : row[g] = df[i][g]
    BY <1>3, FrameRow
  <2>2. QED BY <2>1 DEF Fields
<1>6. Frame(more, n)
  <2>1. ASSUME NEW i \in 1..n PROVE IsBar(more[i])
    <3>1. LET row == AddIndicators(df)[i] IN IsBar(row)
      BY <1>3, FrameRow
    <3>2. QED BY <3>1
  <2>2. QED BY <1>1, <1>4, <2>1 DEF Frame
<1> HIDE DEF more
<1>7. ASSUME NEW i \in 1..n PROVE Columns(more, i) = Columns(df, i)
  <2>1. SameBars(more, df, i)
    BY <1>1, <1>5 DEF SameBars
  <2>2. QED BY <1>3, <1>6, <2>1, ColumnsSame
<1>8. Stands(more)
  <2>1. ASSUME NEW i \in 1..n PROVE more[i] = Columns(more, i) ++ more[i]
    <3>1. more[i] = Columns(more, i) ++ df[i]
      BY <1>4, <1>7
    <3>2. Columns(more, i) ++ (Columns(more, i) ++ df[i]) = Columns(more, i) ++ df[i]
      BY OverAgain
    <3>3. QED BY <3>1, <3>2
  <2>2. QED BY <1>4, <2>1 DEF Stands
<1>9. ASSUME NEW i \in 1..Len(frame) PROVE more[i] = frame[i]
  <2>1. i \in 1..n /\ i \in DOMAIN frame
    BY <1>1
  <2>2. SameBars(df, frame, i)
    BY <1>1, <2>1 DEF SameBars
  <2>3. Columns(df, i) = Columns(frame, i)
    BY <1>2, <1>3, <2>1, <2>2, ColumnsSame
  <2>4. more[i] = Columns(df, i) ++ df[i]
    BY <1>4, <2>1
  <2>5. frame[i] = Columns(frame, i) ++ frame[i]
    BY <2>1 DEF Stands
  <2>6. df[i] = frame[i]
    BY <1>1
  <2>7. QED BY <2>3, <2>4, <2>5, <2>6
<1>10. n \in 1..n
  BY <1>1
<1>11. more[n] = Columns(more, n) ++ bar /\ \A f \in Fields : more[n][f] = bar[f]
  BY <1>1, <1>4, <1>5, <1>7, <1>10
<1>12. QED BY <1>4, <1>8, <1>9, <1>11 DEF more, df, n

LEMMA ColumnOfRow ==
  ASSUME NEW frame, Stands(frame), NEW i \in DOMAIN frame
  PROVE  /\ \A name \in Kept : frame[i][name] = ColumnAt(frame, name, i)
         /\ \A c \in DerivedNames :
              frame[i][c] = FrameDerived(frame, [n \in Names |-> ColumnAt(frame, n, i)], i)[c]
         /\ ColumnNames \subseteq DOMAIN frame[i]
<1> DEFINE c == Columns(frame, i)
           d == frame[i]
<1>1. d = c ++ d
  BY DEF Stands
<1>2. DOMAIN c = ColumnNames
  BY ColumnsNamed
<1> HIDE DEF c, d
<1>3. \A x \in ColumnNames : (c ++ d)[x] = c[x]
  BY <1>2 DEF ++
<1>4. ColumnNames \subseteq DOMAIN (c ++ d)
  BY <1>2 DEF ++
<1>5. \A x \in ColumnNames : d[x] = c[x]
  BY <1>1, <1>3
<1>6. ColumnNames \subseteq DOMAIN d
  BY <1>1, <1>4
<1>7. QED BY <1>5, <1>6, ColumnsNamed DEF c, d, ColumnNames

-----------------------------------------------------------------------------
(* What a tracker holds: the last values pushed, oldest first, with their   *)
(* sums; or the deque of their extremes.  `s` is the sequence of n values   *)
(* pushed.                                                                  *)

Recent(s, n, period) == [k \in 1..Least(n, period) |-> s[n - Least(n, period) + k]]

Summed(t, s, n, period) ==
  /\ DOMAIN t = {"dq", "vals", "sum", "sumsq", "seq"}
  /\ t.seq = n /\ t.vals = Recent(s, n, period)
  /\ t.sum = SumSeq(t.vals) /\ t.sumsq = SumSquares(t.vals)

\* Is x at least as good an extreme as y?
Beats(op, x, y) == IF op = "max" THEN x >= y ELSE x <= y

\* The deque's numbers ascend and lie in the window, its values are those of the
\* sequence, each beats the later ones, and what is not in it is beaten by a later one
\* that is.
Peaks(t, s, n, op, period) ==
  /\ DOMAIN t = {"dq", "vals", "sum", "sumsq", "seq"}
  /\ t.seq = n /\ Sequence(t.dq)
  /\ n > 0 => Len(t.dq) > 0
  /\ \A k \in 1..Len(t.dq) :
       /\ t.dq[k].seq \in Nat /\ n - period <= t.dq[k].seq /\ t.dq[k].seq < n
       /\ t.dq[k].value = s[t.dq[k].seq + 1]
  /\ \A k, l \in 1..Len(t.dq) : k < l =>
       t.dq[k].seq < t.dq[l].seq /\ Outranks(op, t.dq[k].value, t.dq[l].value)
  /\ \A j \in 1..n : j > n - period =>
       \E k \in 1..Len(t.dq) : t.dq[k].seq + 1 >= j /\ Beats(op, t.dq[k].value, s[j])

\* The first element leaves a sum: by the least prefix for which it does not.
LEMMA SumSeqDrops ==
  ASSUME NEW n \in Nat, NEW k \in [1..(n+1) -> Int], NEW h \in [1..n -> Int],
         \A i \in 1..n : h[i] = k[i+1]
  PROVE  SumSeq(k) = k[1] + SumSeq(h) /\ SumSeq(h) \in Int
<1> DEFINE A(j) == [i \in 1..(j+1) |-> k[i]]
           B(j) == [i \in 1..j |-> h[i]]
           Fine(j) == SumSeq(A(j)) = k[1] + SumSeq(B(j))
           S == {j \in 0..n : ~Fine(j)}
<1>1. ASSUME NEW j \in 0..n
      PROVE  A(j) \in [1..(j+1) -> Int] /\ B(j) \in [1..j -> Int]
             /\ SumSeq(A(j)) \in Int /\ SumSeq(B(j)) \in Int
  <2>1. A(j) \in [1..(j+1) -> Int] /\ B(j) \in [1..j -> Int]
    OBVIOUS
  <2>2. j \in Nat /\ j + 1 \in Nat
    OBVIOUS
  <2> HIDE DEF A, B
  <2>3. QED BY <2>1, <2>2, SumSeqInt
<1>2. Fine(0)
  <2> DEFINE e == [i \in 1..0 |-> k[i]]
             f == [i \in 1..0 |-> h[i]]
             a == [i \in 1..(0+1) |-> k[i]]
  <2>1. e \in [1..0 -> Int] /\ a \in [1..(0+1) -> Int] /\ e \in [{} -> Int] /\ f \in [{} -> Int]
        /\ (\A i \in 1..0 : a[i] = e[i]) /\ a[0+1] = k[1] /\ k[1] \in Int
    OBVIOUS
  <2>2. A(0) = a /\ B(0) = f
    OBVIOUS
  <2> HIDE DEF a, e, f, A, B
  <2>3. SumSeq(a) = SumSeq(e) + a[0+1]
    BY <2>1, SumSeqGrows
  <2>4. SumSeq(e) = 0 /\ SumSeq(f) = 0
    BY <2>1, SumSeqEmpty
  <2>5. QED BY <2>1, <2>2, <2>3, <2>4
<1>3. ASSUME NEW j \in 0..n, NEW i \in 0..n, i = j + 1, Fine(j) PROVE Fine(i)
  <2> DEFINE a == A(i)
             b == B(i)
             c == A(j)
             d == B(j)
  <2>1. a \in [1..(i+1) -> Int] /\ c \in [1..i -> Int] /\ (\A x \in 1..i : a[x] = c[x]) /\ a[i+1] = k[i+1]
    <3>1. j + 1 = i
      BY <1>3
    <3>2. QED BY <3>1
  <2>2. b \in [1..(j+1) -> Int] /\ d \in [1..j -> Int] /\ (\A x \in 1..j : b[x] = d[x]) /\ b[j+1] = h[j+1]
    <3>1. j + 1 = i
      BY <1>3
    <3>2. QED BY <3>1
  <2>3. h[j+1] = k[i+1] /\ i \in Nat /\ j \in Nat /\ k[i+1] \in Int /\ k[1] \in Int
    <3>1. i \in 1..n /\ h[i] = k[i+1]
      BY <1>3
    <3>2. i + 1 \in 1..(n+1) /\ 1 \in 1..(n+1)
      BY <3>1
    <3>3. QED BY <1>3, <3>1, <3>2
  <2>4. SumSeq(c) = k[1] + SumSeq(d) /\ SumSeq(c) \in Int /\ SumSeq(d) \in Int
    BY <1>1, <1>3
  <2> HIDE DEF a, b, c, d
  <2>5. SumSeq(a) = SumSeq(c) + a[i+1]
    BY <2>1, <2>3, SumSeqGrows
  <2>6. SumSeq(b) = SumSeq(d) + b[j+1]
    BY <2>2, <2>3, SumSeqGrows
  <2>7. SumSeq(a) = k[1] + SumSeq(b)
    BY <2>1, <2>2, <2>3, <2>4, <2>5, <2>6
  <2>8. QED BY <2>7 DEF a, b
<1> HIDE DEF Fine
<1>4. S = {}
  <2>1. SUFFICES ASSUME S # {} PROVE FALSE
    OBVIOUS
  <2> DEFINE m == Min(S)
  <2>2. S \subseteq Int /\ IsFiniteSet(S)
    <3> DEFINE J == 0..n
    <3>1. IsFiniteSet(J) /\ S \subseteq J /\ J \subseteq Int
      BY FS_Interval
    <3> HIDE DEF J, S
    <3>2. QED BY <3>1, FS_Subset
  <2>3. m \in S /\ \A y \in S : m <= y
    BY <2>1, <2>2, MinOfFinite
  <2> HIDE DEF m
  <2>4. m \in 0..n /\ ~Fine(m)
    BY <2>3
  <2>5. m # 0
    BY <1>2, <2>4
  <2> DEFINE p == m - 1
  <2>6. p \in 0..n /\ m = p + 1 /\ ~(m <= p)
    BY <2>4, <2>5
  <2>7. Fine(p)
    BY <2>3, <2>6
  <2> HIDE DEF p
  <2>8. QED BY <1>3, <2>4, <2>6, <2>7
<1>5. Fine(n)
  BY <1>4
<1>6. A(n) = k /\ B(n) = h
  OBVIOUS
<1>7. SumSeq(h) \in Int
  BY SumSeqInt
<1>8. QED BY <1>5, <1>6, <1>7 DEF Fine

\* The squares of a sequence.
Squares(s) == [k \in DOMAIN s |-> Square(s[k])]

LEMMA SquaresAre ==
  ASSUME NEW n \in Nat, NEW w \in [1..n -> Int]
  PROVE  /\ Squares(w) \in [1..n -> Int] /\ SumSquares(w) = SumSeq(Squares(w))
         /\ \A k \in 1..n : Squares(w)[k] = Square(w[k])
BY DEF Squares, Square, SumSquares, SumSeq

LEMMA LeastIs ==
  ASSUME NEW a \in Int, NEW b \in Int
  PROVE  Least(a, b) = (IF a <= b THEN a ELSE b)
BY DEF Least

LEMMA RecentShape ==
  ASSUME NEW s, NEW n \in Nat, NEW period \in Nat, \A k \in 1..n : s[k] \in Int
  PROVE  /\ Least(n, period) \in Nat
         /\ Recent(s, n, period) \in [1..Least(n, period) -> Int]
         /\ Recent(s, n, period) \in Seq(Int) /\ Len(Recent(s, n, period)) = Least(n, period)
<1> DEFINE m == Least(n, period)
<1>1. m \in Nat /\ m <= n
  BY LeastIs
<1>2. Recent(s, n, period) = [k \in 1..m |-> s[n - m + k]]
  BY DEF Recent
<1> HIDE DEF m
<1>3. \A k \in 1..m : n - m + k \in 1..n
  BY <1>1
<1>4. QED BY <1>1, <1>2, <1>3 DEF m

LEMMA SummedPushed ==
  ASSUME NEW t, NEW s, NEW n \in Nat, NEW period \in Nat \ {0}, Summed(t, s, n, period),
         NEW q, \A k \in 1..(n+1) : q[k] \in Int, \A k \in 1..n : q[k] = s[k]
  PROVE  Summed(PushSum(t, period, q[n+1]), q, n + 1, period)
<1> DEFINE v == q[n+1]
           vals == Append(t.vals, v)
           full == Len(vals) > period
           old == IF full THEN Head(vals) ELSE 0
           u == PushSum(t, period, v)
           m == Least(n, period)
           old_vals == Recent(s, n, period)
           now == Recent(q, n + 1, period)
<1>1. v \in Int /\ (\A k \in 1..n : s[k] \in Int) /\ n + 1 \in Nat
  <2>1. n + 1 \in 1..(n+1) /\ \A k \in 1..n : k \in 1..(n+1)
    OBVIOUS
  <2>2. QED BY <2>1
<1>2. m \in Nat /\ m = (IF n <= period THEN n ELSE period)
  BY LeastIs
<1>3. /\ t.vals = old_vals /\ old_vals \in [1..m -> Int] /\ old_vals \in Seq(Int) /\ Len(old_vals) = m
      /\ t.sum = SumSeq(old_vals) /\ t.sumsq = SumSquares(old_vals) /\ t.seq = n
      /\ DOMAIN t = {"dq", "vals", "sum", "sumsq", "seq"}
  <2>1. period \in Nat /\ \A k \in 1..n : s[k] \in Int
    BY <1>1
  <2>2. old_vals \in [1..m -> Int] /\ old_vals \in Seq(Int) /\ Len(old_vals) = m
    BY <2>1, RecentShape
  <2> HIDE DEF old_vals, m
  <2>3. /\ t.vals = Recent(s, n, period) /\ t.sum = SumSeq(t.vals) /\ t.sumsq = SumSquares(t.vals)
        /\ t.seq = n /\ DOMAIN t = {"dq", "vals", "sum", "sumsq", "seq"}
    BY DEF Summed
  <2>4. QED BY <2>2, <2>3 DEF old_vals
<1>4. u = [t EXCEPT !.vals = IF full THEN Tail(vals) ELSE vals,
               !.sum = @ + v - old, !.sumsq = @ + Square(v) - Square(old),
               !.seq = @ + 1]
  BY DEF PushSum
<1>5. \A k \in 1..m : old_vals[k] = q[n - m + k]
  <2>1. \A k \in 1..m : n - m + k \in 1..n
    BY <1>2
  <2>2. old_vals = [k \in 1..m |-> s[n - m + k]]
    BY DEF Recent
  <2> HIDE DEF old_vals, m
  <2>3. QED BY <2>1, <2>2
<1> HIDE DEF v, u, old_vals, m
<1>6. vals \in [1..(m+1) -> Int] /\ vals \in Seq(Int) /\ Len(vals) = m + 1
      /\ (\A k \in 1..m : vals[k] = old_vals[k]) /\ vals[m+1] = v
  <2>1. vals = Append(old_vals, v) /\ old_vals \in Seq(Int) /\ v \in Int /\ Len(old_vals) = m
    BY <1>1, <1>3
  <2>2. vals \in Seq(Int) /\ Len(vals) = m + 1
        /\ (\A k \in 1..m : vals[k] = old_vals[k]) /\ vals[m+1] = v
    BY <1>2, <2>1
  <2> HIDE DEF vals
  <2>3. vals \in [1..(m+1) -> Int]
    BY <2>2
  <2>4. QED BY <2>2, <2>3
<1>7. \A k \in 1..(m+1) : vals[k] = q[n - m + k]
  <2>1. \A k \in 1..(m+1) : k \in 1..m \/ k = m + 1
    BY <1>2
  <2>2. n - m + (m + 1) = n + 1
    BY <1>2
  <2>3. QED BY <1>5, <1>6, <2>1, <2>2 DEF v
<1> DEFINE sq == Squares(vals)
           osq == Squares(old_vals)
<1> HIDE DEF vals
<1>8. SumSeq(vals) = SumSeq(old_vals) + v /\ SumSeq(old_vals) \in Int
  BY <1>2, <1>3, <1>6, SumSeqGrows, SumSeqInt
<1>9. SumSquares(vals) = SumSquares(old_vals) + Square(v) /\ SumSquares(old_vals) \in Int
  <2>1. m + 1 \in Nat
    BY <1>2
  <2>2. /\ sq \in [1..(m+1) -> Int] /\ SumSquares(vals) = SumSeq(sq)
        /\ \A k \in 1..(m+1) : sq[k] = Square(vals[k])
    BY <1>6, <2>1, SquaresAre
  <2>3. /\ osq \in [1..m -> Int] /\ SumSquares(old_vals) = SumSeq(osq)
        /\ \A k \in 1..m : osq[k] = Square(old_vals[k])
    BY <1>2, <1>3, SquaresAre
  <2>4. (\A k \in 1..m : sq[k] = osq[k]) /\ sq[m+1] = Square(v)
    BY <1>2, <1>6, <2>2, <2>3
  <2> HIDE DEF sq, osq
  <2>5. SumSeq(sq) = SumSeq(osq) + sq[m+1] /\ SumSeq(osq) \in Int
    BY <1>2, <2>2, <2>3, <2>4, SumSeqGrows, SumSeqInt
  <2>6. QED BY <2>2, <2>3, <2>4, <2>5
<1>10. /\ u.vals = (IF full THEN Tail(vals) ELSE vals) /\ u.sum = t.sum + v - old
       /\ u.sumsq = t.sumsq + Square(v) - Square(old) /\ u.seq = n + 1
       /\ DOMAIN u = {"dq", "vals", "sum", "sumsq", "seq"}
  BY <1>3, <1>4
<1>11. CASE ~full
  <2>1. n + 1 <= period /\ m = n /\ Least(n + 1, period) = n + 1
    BY <1>2, <1>6, <1>11, LeastIs
  <2>2. now = vals
    <3>1. now = [k \in 1..(n+1) |-> q[n + 1 - (n + 1) + k]]
      BY <2>1 DEF Recent
    <3>2. \A k \in 1..(n+1) : n + 1 - (n + 1) + k = k /\ n - m + k = k
      BY <2>1
    <3>3. now = [k \in 1..(n+1) |-> q[k]]
      BY <3>1, <3>2
    <3>4. vals = [k \in 1..(n+1) |-> q[k]]
      BY <1>6, <1>7, <2>1, <3>2
    <3>5. QED BY <3>3, <3>4
  <2>3. old = 0 /\ Square(old) = 0 /\ Square(v) \in Int
    BY <1>1, <1>11 DEF Square
  <2>4. u.vals = vals /\ u.sum = SumSeq(vals) /\ u.sumsq = SumSquares(vals)
    BY <1>1, <1>3, <1>8, <1>9, <1>10, <1>11, <2>3
  <2>5. QED BY <1>10, <2>2, <2>4 DEF Summed, u, v
<1>12. CASE full
  <2>1. m = period /\ Least(n + 1, period) = m /\ m \in Nat \ {0}
    BY <1>2, <1>6, <1>12, LeastIs
  <2> DEFINE tl == Tail(vals)
  <2>2. tl \in [1..m -> Int] /\ (\A k \in 1..m : tl[k] = vals[k+1]) /\ old = vals[1] /\ vals[1] \in Int
    <3>1. vals # <<>>
      BY <1>6, <2>1
    <3>2. Head(vals) = vals[1] /\ tl \in Seq(Int) /\ Len(tl) = m /\ \A k \in 1..m : tl[k] = vals[k+1]
      BY <1>6, <2>1, <3>1
    <3>3. 1 \in 1..(m+1)
      BY <2>1
    <3>4. old = vals[1] /\ vals[1] \in Int
      BY <1>6, <1>12, <3>2, <3>3
    <3> HIDE DEF tl
    <3>5. tl \in [1..m -> Int]
      BY <3>2
    <3>6. QED BY <3>2, <3>4, <3>5
  <2> HIDE DEF tl
  <2>3. now = tl
    <3>1. now = [k \in 1..m |-> q[n + 1 - m + k]]
      BY <2>1 DEF Recent
    <3>2. \A k \in 1..m : n + 1 - m + k = n - m + (k + 1) /\ k + 1 \in 1..(m+1)
      BY <2>1
    <3>3. \A k \in 1..m : tl[k] = q[n + 1 - m + k]
      BY <1>7, <2>2, <3>2
    <3>4. tl = [k \in 1..m |-> tl[k]]
      BY <2>2
    <3>5. QED BY <3>1, <3>3, <3>4
  <2>4. SumSeq(vals) = old + SumSeq(tl) /\ SumSeq(tl) \in Int
    <3>1. m \in Nat /\ vals \in [1..(m+1) -> Int]
      BY <1>6, <2>1
    <3>2. SumSeq(vals) = vals[1] + SumSeq(tl) /\ SumSeq(tl) \in Int
      BY <2>2, <3>1, SumSeqDrops
    <3>3. QED BY <2>2, <3>2
  <2>5. SumSquares(vals) = Square(old) + SumSquares(tl) /\ SumSquares(tl) \in Int
    <3> DEFINE tsq == Squares(tl)
    <3>1. m + 1 \in Nat
      BY <1>2
    <3>2. /\ sq \in [1..(m+1) -> Int] /\ SumSquares(vals) = SumSeq(sq)
          /\ \A k \in 1..(m+1) : sq[k] = Square(vals[k])
      BY <1>6, <3>1, SquaresAre
    <3>3. /\ tsq \in [1..m -> Int] /\ SumSquares(tl) = SumSeq(tsq)
          /\ \A k \in 1..m : tsq[k] = Square(tl[k])
      BY <1>2, <2>2, SquaresAre
    <3>4. (\A k \in 1..m : tsq[k] = sq[k+1]) /\ sq[1] = Square(old)
      <4>1. 1 \in 1..(m+1) /\ \A k \in 1..m : k + 1 \in 1..(m+1)
        BY <2>1
      <4>2. QED BY <2>2, <3>2, <3>3, <4>1
    <3> HIDE DEF sq, tsq
    <3>5. SumSeq(sq) = sq[1] + SumSeq(tsq) /\ SumSeq(tsq) \in Int
      BY <2>1, <3>2, <3>3, <3>4, SumSeqDrops
    <3>6. QED BY <3>2, <3>3, <3>4, <3>5
  <2>6. Square(v) \in Int /\ Square(old) \in Int
    BY <1>1, <2>2 DEF Square
  <2>7. u.vals = tl
    BY <1>10, <1>12 DEF tl
  <2> HIDE DEF old
  <2>8. u.sum = SumSeq(tl) /\ u.sumsq = SumSquares(tl)
    <3>1. u.sum = SumSeq(old_vals) + v - old /\ v \in Int /\ old \in Int
      BY <1>1, <1>3, <1>10, <2>2
    <3>2. u.sumsq = SumSquares(old_vals) + Square(v) - Square(old)
      BY <1>3, <1>10
    <3>3. SumSeq(old_vals) + v = old + SumSeq(tl)
      BY <1>8, <2>4
    <3>4. SumSquares(old_vals) + Square(v) = Square(old) + SumSquares(tl)
      BY <1>9, <2>5
    <3>5. QED BY <1>8, <1>9, <2>4, <2>5, <2>6, <3>1, <3>2, <3>3, <3>4
  <2>9. QED BY <1>10, <2>3, <2>7, <2>8 DEF Summed, u, v
<1>13. QED BY <1>11, <1>12

Extremes == {"max", "min"}

LEMMA RanksOrder ==
  ASSUME NEW op \in Extremes, NEW x \in Int, NEW y \in Int, NEW z \in Int
  PROVE  /\ Outranks(op, x, y) \/ Beats(op, y, x)
         /\ Outranks(op, x, y) /\ Outranks(op, y, z) => Outranks(op, x, z)
         /\ Outranks(op, x, y) => Beats(op, x, y)
         /\ Beats(op, x, y) /\ Beats(op, y, z) => Beats(op, x, z)
         /\ Beats(op, x, y) => ~Outranks(op, y, x)
         /\ Beats(op, x, x)
<1>1. CASE op = "max"
  BY <1>1 DEF Outranks, Beats
<1>2. CASE op = "min"
  BY <1>2 DEF Outranks, Beats
<1>3. QED BY <1>1, <1>2 DEF Extremes

\* A deque of entries: its values, its numbers, and their order.
InWindow(dq, s, low, n) ==
  \A k \in 1..Len(dq) :
    /\ dq[k].seq \in Nat /\ low <= dq[k].seq /\ dq[k].seq < n
    /\ dq[k].value = s[dq[k].seq + 1]
Ranking(dq, op) ==
  \A k, l \in 1..Len(dq) : k < l =>
    dq[k].seq < dq[l].seq /\ Outranks(op, dq[k].value, dq[l].value)
Beaten(dq, s, op, low, n) ==
  \A j \in 1..n : j > low =>
    \E k \in 1..Len(dq) : dq[k].seq + 1 >= j /\ Beats(op, dq[k].value, s[j])

LEMMA PeaksAre ==
  ASSUME NEW t, NEW s, NEW n, NEW op, NEW period
  PROVE  Peaks(t, s, n, op, period) <=>
           /\ DOMAIN t = {"dq", "vals", "sum", "sumsq", "seq"}
           /\ t.seq = n /\ Sequence(t.dq)
           /\ n > 0 => Len(t.dq) > 0
           /\ InWindow(t.dq, s, n - period, n) /\ Ranking(t.dq, op)
           /\ Beaten(t.dq, s, op, n - period, n)
BY DEF Peaks, InWindow, Ranking, Beaten

\* Popping from the back keeps the entries that outrank the new value, and only those.
LEMMA EntriesKept ==
  ASSUME NEW op \in Extremes, NEW dq, Sequence(dq), Ranking(dq, op), NEW v \in Int,
         \A k \in 1..Len(dq) : dq[k].value \in Int
  PROVE  LET kept == Max({0} \cup {k \in DOMAIN dq : Outranks(op, dq[k].value, v)})
         IN /\ kept \in 0..Len(dq)
            /\ \A k \in 1..Len(dq) : k <= kept => Outranks(op, dq[k].value, v)
            /\ \A k \in 1..Len(dq) : k > kept => Beats(op, v, dq[k].value)
<1> DEFINE m == Len(dq)
           hits == {k \in DOMAIN dq : Outranks(op, dq[k].value, v)}
           S == {0} \cup hits
           kept == Max(S)
<1>1. m \in Nat /\ DOMAIN dq = 1..m
  BY SequenceShape
<1>2. \A k \in 1..m : k \in hits <=> Outranks(op, dq[k].value, v)
  BY <1>1
<1>3. hits \subseteq 1..m
  BY <1>1
<1> HIDE DEF hits
<1>4. S \subseteq Int /\ IsFiniteSet(S) /\ S # {} /\ 0 \in S /\ \A x \in S : x = 0 \/ x \in hits
  <2> DEFINE J == 0..m
  <2>1. IsFiniteSet(J) /\ J \subseteq Int
    BY <1>1, FS_Interval
  <2>2. S \subseteq J
    BY <1>1, <1>3
  <2>3. S # {} /\ 0 \in S /\ \A x \in S : x = 0 \/ x \in hits
    OBVIOUS
  <2> HIDE DEF J, S
  <2>4. QED BY <2>1, <2>2, <2>3, FS_Subset
<1>5. hits \subseteq S
  OBVIOUS
<1> HIDE DEF S
<1>6. kept \in S /\ \A y \in S : y <= kept
  BY <1>4, MaxOfFinite
<1> HIDE DEF kept
<1>7. kept \in 0..m /\ (kept = 0 \/ kept \in hits)
  BY <1>1, <1>3, <1>4, <1>6
<1>8. ASSUME NEW k \in 1..m, k <= kept PROVE Outranks(op, dq[k].value, v)
  <2>1. kept \in hits /\ kept \in 1..m
    BY <1>1, <1>7, <1>8
  <2>2. Outranks(op, dq[kept].value, v)
    BY <1>2, <2>1
  <2>3. k = kept \/ k < kept
    BY <1>7, <1>8
  <2>4. CASE k < kept
    <3>1. Outranks(op, dq[k].value, dq[kept].value)
      BY <2>1, <2>4 DEF Ranking, m
    <3>2. dq[k].value \in Int /\ dq[kept].value \in Int
      BY <2>1 DEF m
    <3>3. QED BY <2>2, <3>1, <3>2, RanksOrder
  <2>5. QED BY <2>2, <2>3, <2>4
<1>9. ASSUME NEW k \in 1..m, k > kept PROVE Beats(op, v, dq[k].value)
  <2>1. k \notin hits
    <3>1. ASSUME k \in hits PROVE FALSE
      <4>1. k <= kept
        BY <1>5, <1>6, <3>1
      <4>2. QED BY <1>7, <1>9, <4>1
    <3>2. QED BY <3>1
  <2>2. dq[k].value \in Int
    BY DEF m
  <2>3. QED BY <1>2, <2>1, <2>2, RanksOrder
<1>10. QED BY <1>7, <1>8, <1>9 DEF kept, S, hits, m

LEMMA SubSeqIs ==
  ASSUME NEW s, Sequence(s), NEW a \in Nat \ {0}, NEW b \in Nat, b <= Len(s), a <= b + 1
  PROVE  /\ Sequence(SubSeq(s, a, b)) /\ Len(SubSeq(s, a, b)) = b - a + 1
         /\ \A k \in 1..(b-a+1) : SubSeq(s, a, b)[k] = s[a + k - 1]
<1>1. PICK T : s \in Seq(T)
  BY DEF Sequence
<1>2. SubSeq(s, a, b) \in Seq(T) /\ Len(SubSeq(s, a, b)) = b - a + 1
  <2>1. Len(s) \in Nat
    BY <1>1
  <2>2. \A i \in a..b : i \in 1..Len(s)
    BY <2>1
  <2>3. QED BY <1>1, <2>1, <2>2
<1>3. \A k \in 1..(b-a+1) : SubSeq(s, a, b)[k] = s[a + k - 1]
  BY <1>1
<1>4. QED BY <1>2, <1>3 DEF Sequence

LEMMA PeaksPushed ==
  ASSUME NEW op \in Extremes, NEW t, NEW s, NEW n \in Nat, NEW period \in Nat \ {0},
         Peaks(t, s, n, op, period),
         NEW q, \A k \in 1..(n+1) : q[k] \in Int, \A k \in 1..n : q[k] = s[k]
  PROVE  Peaks(PushExtreme(t, op, period, q[n+1]), q, n + 1, op, period)
<1> DEFINE v == q[n+1]
           kept == Max({0} \cup {k \in DOMAIN t.dq : Outranks(op, t.dq[k].value, v)})
           stay == SubSeq(t.dq, 1, kept)
           entry == [value |-> v, seq |-> t.seq]
           dq == Append(stay, entry)
           cutoff == t.seq + 1 - period
           R == {k \in DOMAIN dq : dq[k].seq >= cutoff}
           first == Min(R)
           last == SubSeq(dq, first, Len(dq))
           u == PushExtreme(t, op, period, v)
           low == n - period
<1>1. v \in Int /\ (\A k \in 1..n : q[k] \in Int) /\ n + 1 \in Nat
  <2>1. n + 1 \in 1..(n+1) /\ \A k \in 1..n : k \in 1..(n+1)
    OBVIOUS
  <2>2. QED BY <2>1
<1>2. /\ DOMAIN t = {"dq", "vals", "sum", "sumsq", "seq"}
      /\ t.seq = n /\ Sequence(t.dq) /\ (n > 0 => Len(t.dq) > 0)
      /\ InWindow(t.dq, s, low, n) /\ Ranking(t.dq, op) /\ Beaten(t.dq, s, op, low, n)
  BY PeaksAre
<1>3. Len(t.dq) \in Nat /\ DOMAIN t.dq = 1..Len(t.dq)
  BY <1>2, SequenceShape
<1>4. ASSUME NEW k \in 1..Len(t.dq)
      PROVE  /\ t.dq[k].seq \in Nat /\ low <= t.dq[k].seq /\ t.dq[k].seq < n
             /\ t.dq[k].value = q[t.dq[k].seq + 1] /\ t.dq[k].value \in Int
  <2>1. t.dq[k].seq \in Nat /\ low <= t.dq[k].seq /\ t.dq[k].seq < n
        /\ t.dq[k].value = s[t.dq[k].seq + 1]
    BY <1>2 DEF InWindow
  <2>2. t.dq[k].seq + 1 \in 1..n
    BY <2>1
  <2>3. QED BY <1>1, <2>1, <2>2
<1>5. u = [t EXCEPT !.dq = last, !.seq = @ + 1]
  BY DEF PushExtreme
<1>6. u.dq = last /\ u.seq = n + 1 /\ DOMAIN u = {"dq", "vals", "sum", "sumsq", "seq"}
  BY <1>2, <1>5
<1> HIDE DEF v, u, low
<1>7. /\ kept \in 0..Len(t.dq)
      /\ \A k \in 1..Len(t.dq) : k <= kept => Outranks(op, t.dq[k].value, v)
      /\ \A k \in 1..Len(t.dq) : k > kept => Beats(op, v, t.dq[k].value)
  BY <1>1, <1>2, <1>4, EntriesKept
<1> HIDE DEF kept
<1>8. Sequence(stay) /\ Len(stay) = kept /\ \A k \in 1..kept : stay[k] = t.dq[k]
  <2>1. kept \in Nat /\ kept <= Len(t.dq)
    BY <1>3, <1>7
  <2>2. Sequence(stay) /\ Len(stay) = kept - 1 + 1
        /\ \A k \in 1..(kept - 1 + 1) : stay[k] = t.dq[1 + k - 1]
    BY <1>2, <2>1, SubSeqIs
  <2>3. QED BY <2>1, <2>2
<1> HIDE DEF stay
<1>9. /\ Sequence(dq) /\ Len(dq) = kept + 1 /\ DOMAIN dq = 1..(kept+1)
      /\ (\A k \in 1..kept : dq[k] = t.dq[k]) /\ dq[kept+1] = entry
  BY <1>8, Appended
<1>10. dq[kept+1].seq = n /\ dq[kept+1].value = v
  BY <1>2, <1>9
<1> HIDE DEF dq, entry
<1>11. kept \in Nat /\ \A k \in 1..kept : k \in 1..Len(t.dq)
  BY <1>3, <1>7
<1>12. low \in Int /\ low < n /\ n + 1 - period = low + 1 /\ cutoff = low + 1
  BY <1>2 DEF low
<1>13. InWindow(dq, q, low, n + 1)
  <2>1. ASSUME NEW k \in 1..(kept+1)
        PROVE  /\ dq[k].seq \in Nat /\ low <= dq[k].seq /\ dq[k].seq < n + 1
               /\ dq[k].value = q[dq[k].seq + 1]
    <3>1. k \in 1..kept \/ k = kept + 1
      BY <1>11
    <3>2. CASE k \in 1..kept
      <4>1. dq[k] = t.dq[k] /\ k \in 1..Len(t.dq)
        BY <1>9, <1>11, <3>2
      <4>2. QED BY <1>4, <4>1
    <3>3. CASE k = kept + 1
      BY <1>10, <1>12, <3>3 DEF v
    <3>4. QED BY <3>1, <3>2, <3>3
  <2>2. QED BY <1>9, <2>1 DEF InWindow
<1>14. Ranking(dq, op)
  <2>1. ASSUME NEW k \in 1..(kept+1), NEW l \in 1..(kept+1), k < l
        PROVE  dq[k].seq < dq[l].seq /\ Outranks(op, dq[k].value, dq[l].value)
    <3>1. k \in 1..kept /\ (l \in 1..kept \/ l = kept + 1)
      BY <1>11, <2>1
    <3>2. dq[k] = t.dq[k] /\ k \in 1..Len(t.dq)
      BY <1>9, <1>11, <3>1
    <3>3. CASE l \in 1..kept
      <4>1. dq[l] = t.dq[l] /\ l \in 1..Len(t.dq)
        BY <1>9, <1>11, <3>3
      <4>2. QED BY <1>2, <2>1, <3>2, <4>1 DEF Ranking
    <3>4. CASE l = kept + 1
      <4>1. Outranks(op, t.dq[k].value, v)
        BY <1>7, <1>11, <3>1, <3>2
      <4>2. t.dq[k].seq < n
        BY <1>4, <3>2
      <4>3. QED BY <1>10, <3>2, <3>4, <4>1, <4>2
    <3>5. QED BY <3>1, <3>3, <3>4
  <2>2. QED BY <1>9, <2>1 DEF Ranking
<1>15. Beaten(dq, q, op, low, n + 1)
  <2>1. ASSUME NEW j \in 1..(n+1), j > low
        PROVE  \E k \in 1..(kept+1) : dq[k].seq + 1 >= j /\ Beats(op, dq[k].value, q[j])
    <3>1. kept + 1 \in 1..(kept+1)
      BY <1>11
    <3>2. CASE j = n + 1
      <4>1. dq[kept+1].seq + 1 >= j /\ Beats(op, dq[kept+1].value, q[j])
        BY <1>1, <1>10, <3>2, RanksOrder DEF v
      <4>2. QED BY <3>1, <4>1
    <3>3. CASE j # n + 1
      <4>1. j \in 1..n
        BY <3>3
      <4>2. PICK k \in 1..Len(t.dq) : t.dq[k].seq + 1 >= j /\ Beats(op, t.dq[k].value, s[j])
        BY <1>2, <2>1, <4>1 DEF Beaten
      <4>3. s[j] = q[j] /\ q[j] \in Int /\ t.dq[k].value \in Int
        BY <1>1, <1>4, <4>1
      <4>4. CASE k <= kept
        <5>1. k \in 1..(kept+1) /\ k \in 1..kept
          BY <1>11, <4>4
        <5>2. dq[k] = t.dq[k]
          BY <1>9, <5>1
        <5>3. QED BY <4>2, <4>3, <5>1, <5>2
      <4>5. CASE ~(k <= kept)
        <5>1. Beats(op, v, t.dq[k].value)
          BY <1>7, <1>11, <4>5
        <5>2. Beats(op, v, q[j])
          BY <1>1, <4>2, <4>3, <5>1, RanksOrder
        <5>3. dq[kept+1].seq + 1 >= j
          BY <1>10
        <5>4. QED BY <1>10, <3>1, <5>2, <5>3
      <4>6. QED BY <4>4, <4>5
    <3>4. QED BY <3>2, <3>3
  <2>2. QED BY <1>9, <2>1 DEF Beaten
<1>16. /\ first \in 1..(kept+1) /\ dq[first].seq >= low + 1
       /\ \A k \in 1..(kept+1) : dq[k].seq >= low + 1 => first <= k
  <2> DEFINE J == 1..(kept+1)
  <2>1. R = {k \in J : dq[k].seq >= low + 1}
    BY <1>9, <1>12
  <2>2. IsFiniteSet(J) /\ J \subseteq Int
    BY <1>11, FS_Interval
  <2>3. kept + 1 \in R
    BY <1>10, <1>11, <1>12, <2>1
  <2>4. R \subseteq J
    BY <2>1
  <2> HIDE DEF J, R
  <2>5. first \in R /\ \A y \in R : first <= y
    BY <2>2, <2>3, <2>4, FS_Subset, MinOfFinite
  <2> HIDE DEF first
  <2>6. QED BY <2>1, <2>5 DEF J
<1> HIDE DEF R, first
<1> DEFINE len == kept + 1 - first + 1
<1>17. /\ Sequence(last) /\ Len(last) = len /\ len \in Nat \ {0}
       /\ \A k \in 1..len : last[k] = dq[first + k - 1]
  <2>1. first \in Nat \ {0} /\ kept + 1 \in Nat /\ first <= kept + 1 + 1
    BY <1>11, <1>16
  <2>2. Sequence(last) /\ Len(last) = len /\ \A k \in 1..len : last[k] = dq[first + k - 1]
    <3>1. kept + 1 <= Len(dq)
      BY <1>9, <2>1
    <3>2. last = SubSeq(dq, first, kept + 1)
      BY <1>9
    <3> HIDE DEF last
    <3> DEFINE b == kept + 1
    <3>3. b \in Nat /\ b <= Len(dq) /\ first <= b + 1 /\ len = b - first + 1
          /\ last = SubSeq(dq, first, b)
      <4>1. b \in Nat /\ b <= Len(dq) /\ first <= b + 1
        BY <2>1, <3>1
      <4>2. len = b - first + 1
        BY <1>11, <2>1
      <4>3. last = SubSeq(dq, first, b)
        BY <3>2, Zenon
      <4>4. QED BY <4>1, <4>2, <4>3
    <3> HIDE DEF b, len
    <3>4. Sequence(SubSeq(dq, first, b)) /\ Len(SubSeq(dq, first, b)) = b - first + 1
          /\ \A k \in 1..(b - first + 1) : SubSeq(dq, first, b)[k] = dq[first + k - 1]
      BY <1>9, <2>1, <3>3, SubSeqIs
    <3>5. QED BY <3>3, <3>4
  <2>3. QED BY <1>11, <1>16, <2>2
<1>18. \A k \in 1..len : first + k - 1 \in 1..(kept+1)
  BY <1>11, <1>16
<1> HIDE DEF last
<1>19. InWindow(last, q, low + 1, n + 1)
  <2>1. ASSUME NEW k \in 1..len
        PROVE  /\ last[k].seq \in Nat /\ low + 1 <= last[k].seq /\ last[k].seq < n + 1
               /\ last[k].value = q[last[k].seq + 1]
    <3> DEFINE j == first + k - 1
    <3>1. j \in 1..(kept+1) /\ j \in 1..Len(dq) /\ last[k] = dq[j] /\ first <= j
      BY <1>9, <1>16, <1>17, <1>18
    <3> HIDE DEF j
    <3>2. /\ dq[j].seq \in Nat /\ dq[j].seq < n + 1
          /\ dq[j].value = q[dq[j].seq + 1]
      BY <1>13, <3>1 DEF InWindow
    <3>3. low + 1 <= dq[j].seq
      <4>1. j = first \/ first < j
        BY <1>16, <3>1
      <4>2. CASE first < j
        <5>1. first \in 1..Len(dq)
          BY <1>9, <1>16
        <5>2. dq[first].seq < dq[j].seq /\ dq[first].seq \in Nat
          BY <1>13, <1>14, <3>1, <4>2, <5>1 DEF Ranking, InWindow
        <5>3. QED BY <1>12, <1>16, <3>2, <5>2
      <4>3. QED BY <1>16, <4>1, <4>2
    <3>4. QED BY <3>1, <3>2, <3>3
  <2>2. QED BY <1>17, <2>1 DEF InWindow
<1>20. Ranking(last, op)
  <2>1. ASSUME NEW k \in 1..len, NEW l \in 1..len, k < l
        PROVE  last[k].seq < last[l].seq /\ Outranks(op, last[k].value, last[l].value)
    <3>1. first + k - 1 \in 1..Len(dq) /\ first + l - 1 \in 1..Len(dq)
          /\ first + k - 1 < first + l - 1
      BY <1>9, <1>16, <1>18, <2>1
    <3>2. last[k] = dq[first + k - 1] /\ last[l] = dq[first + l - 1]
      BY <1>17
    <3>3. QED BY <1>14, <3>1, <3>2 DEF Ranking
  <2>2. QED BY <1>17, <2>1 DEF Ranking
<1>21. Beaten(last, q, op, low + 1, n + 1)
  <2>1. ASSUME NEW j \in 1..(n+1), j > low + 1
        PROVE  \E k \in 1..len : last[k].seq + 1 >= j /\ Beats(op, last[k].value, q[j])
    <3>1. PICK k \in 1..(kept+1) : dq[k].seq + 1 >= j /\ Beats(op, dq[k].value, q[j])
      BY <1>9, <1>12, <1>15, <2>1 DEF Beaten
    <3>2. dq[k].seq \in Nat
      BY <1>9, <1>13 DEF InWindow
    <3>3. first <= k
      BY <1>12, <1>16, <2>1, <3>1, <3>2
    <3> DEFINE i == k - first + 1
    <3>4. i \in 1..len /\ first + i - 1 = k
      BY <1>11, <1>16, <3>3
    <3>5. last[i] = dq[k]
      BY <1>17, <3>4
    <3>6. QED BY <3>1, <3>4, <3>5
  <2>2. QED BY <1>17, <2>1 DEF Beaten
<1>22. Len(u.dq) > 0 /\ Sequence(u.dq)
  BY <1>6, <1>17
<1>23. Peaks(u, q, n + 1, op, period)
  <2>1. n + 1 - period = low + 1
    BY <1>12
  <2>2. InWindow(u.dq, q, n + 1 - period, n + 1) /\ Ranking(u.dq, op)
        /\ Beaten(u.dq, q, op, n + 1 - period, n + 1)
    BY <1>6, <1>19, <1>20, <1>21, <2>1
  <2>3. QED BY <1>6, <1>22, <2>2, PeaksAre
<1>24. QED BY <1>23 DEF u, v

Tracks(t, name, s, n) ==
  LET op == ROLLING_SPEC[name].op
  IN IF op \in Extremes THEN Peaks(t, s, n, op, Period(name)) ELSE Summed(t, s, n, Period(name))

LEMMA TracksPushed ==
  ASSUME NEW name \in Names, NEW t, NEW s, NEW n \in Nat, Tracks(t, name, s, n),
         NEW q, \A k \in 1..(n+1) : q[k] \in Int, \A k \in 1..n : q[k] = s[k]
  PROVE  Tracks(Push(t, name, q[n+1]), name, q, n + 1)
<1> DEFINE op == ROLLING_SPEC[name].op
<1>1. op \in Ops /\ Period(name) \in Nat \ {0}
  BY SpecTyped
<1>2. CASE op \in Extremes
  <2>1. Push(t, name, q[n+1]) = PushExtreme(t, op, Period(name), q[n+1])
    BY <1>2 DEF Push, Extremes
  <2>2. Peaks(t, s, n, op, Period(name))
    BY <1>2 DEF Tracks
  <2> HIDE DEF op
  <2>3. Peaks(PushExtreme(t, op, Period(name), q[n+1]), q, n + 1, op, Period(name))
    BY <1>1, <1>2, <2>2, PeaksPushed
  <2>4. QED BY <1>2, <2>1, <2>3 DEF Tracks, op
<1>3. CASE op \notin Extremes
  <2>1. Push(t, name, q[n+1]) = PushSum(t, Period(name), q[n+1])
    BY <1>3 DEF Push, Extremes
  <2>2. Summed(t, s, n, Period(name))
    BY <1>3 DEF Tracks
  <2>3. Summed(PushSum(t, Period(name), q[n+1]), q, n + 1, Period(name))
    BY <1>1, <2>2, SummedPushed
  <2>4. QED BY <1>3, <2>1, <2>3 DEF Tracks
<1>4. QED BY <1>2, <1>3

LEMMA NewTracks ==
  ASSUME NEW name \in Names, NEW s
  PROVE  Tracks(NewTracker, name, s, 0)
<1> DEFINE t == NewTracker
           period == Period(name)
<1>1. period \in Nat \ {0}
  BY SpecTyped
<1>2. /\ t.seq = 0 /\ t.dq = <<>> /\ t.vals = <<>> /\ t.sum = 0 /\ t.sumsq = 0
      /\ DOMAIN t = {"dq", "vals", "sum", "sumsq", "seq"}
  BY DEF NewTracker
<1> HIDE DEF t, period
<1>3. Sequence(t.dq) /\ Len(t.dq) = 0
  <2>1. <<>> \in Seq({})
    OBVIOUS
  <2>2. QED BY <1>2, <2>1 DEF Sequence
<1>4. Peaks(t, s, 0, ROLLING_SPEC[name].op, period)
  BY <1>1, <1>2, <1>3 DEF Peaks
<1>5. Summed(t, s, 0, period)
  <2>1. Least(0, period) = 0
    BY <1>1, LeastIs
  <2> DEFINE e == [k \in 1..0 |-> s[0 - 0 + k]]
             sq == Squares(t.vals)
  <2>2. Recent(s, 0, period) = e
    BY <2>1 DEF Recent
  <2>3. t.vals = e
    BY <1>2
  <2>4. t.vals \in [{} -> Int] /\ sq \in [{} -> Int]
    BY <1>2 DEF Squares
  <2>5. SumSquares(t.vals) = SumSeq(sq)
    BY DEF SumSquares, SumSeq, Squares
  <2> HIDE DEF sq
  <2>6. SumSeq(t.vals) = 0 /\ SumSeq(sq) = 0
    BY <2>4, SumSeqEmpty
  <2>7. QED BY <1>2, <2>2, <2>3, <2>5, <2>6 DEF Summed
<1>6. QED BY <1>4, <1>5 DEF Tracks, t, period

\* What a tracker of the values says is the rolling aggregate of them.
LEMMA TrackerReads ==
  ASSUME NEW name \in Names, NEW t, NEW s, NEW n \in Nat, Tracks(t, name, s, n),
         \A k \in 1..n : s[k] \in Int
  PROVE  TrackerValue(t, name) = Rolling(s, ROLLING_SPEC[name].op, Period(name), n)
<1> DEFINE op == ROLLING_SPEC[name].op
           period == Period(name)
           w == [k \in 1..period |-> s[n - period + k]]
<1>1. op \in Ops /\ period \in Nat \ {0} /\ Ops = {"mean", "sum", "std"} \cup Extremes
  BY SpecTyped DEF Ops, Extremes
<1>2. t.seq = n
  BY DEF Tracks, Peaks, Summed
<1>3. CASE n < period
  BY <1>2, <1>3 DEF TrackerValue, Rolling
<1>4. CASE ~(n < period)
  <2> HIDE DEF period
  <2>1. \A k \in 1..period : n - period + k \in 1..n
    BY <1>1, <1>4
  <2>2. w \in [1..period -> Int]
    BY <2>1
  <2>3. NaN \notin ToSet(w)
    BY <2>2, <1>1, WindowValues, NaNAssumption
  <2>4. Rolling(s, op, period, n) = Aggregate(op, period, w)
    BY <1>4, <2>3 DEF Rolling
  <2> HIDE DEF w
  <2>5. CASE op \in Extremes
    <3>1. TrackerValue(t, name) = Head(t.dq).value
      BY <1>2, <1>4, <2>5 DEF TrackerValue, Extremes, period
    <3>2. Peaks(t, s, n, op, period)
      BY <2>5 DEF Tracks, period
    <3> DEFINE S == ToSet(w)
               m == t.dq[1].value
    <3>3. S = {s[n - period + k] : k \in 1..period}
      BY DEF ToSet, w
    <3>4. S \subseteq Int
      BY <2>1, <3>3
    <3>5. n > 0 /\ 1 \in 1..Len(t.dq) /\ Head(t.dq) = t.dq[1]
      <4>1. Sequence(t.dq) /\ n > 0 /\ Len(t.dq) > 0
        BY <1>1, <1>4, <3>2 DEF Peaks
      <4>2. PICK T : t.dq \in Seq(T)
        BY <4>1 DEF Sequence
      <4>3. QED BY <4>1, <4>2
    <3>6. /\ t.dq[1].seq \in Nat /\ n - period <= t.dq[1].seq /\ t.dq[1].seq < n
          /\ m = s[t.dq[1].seq + 1]
      BY <3>2, <3>5 DEF Peaks
    <3>7. m \in S /\ m \in Int
      <4> DEFINE k == t.dq[1].seq + 1 - (n - period)
      <4>1. k \in 1..period /\ n - period + k = t.dq[1].seq + 1 /\ t.dq[1].seq + 1 \in 1..n
        BY <1>1, <3>6
      <4>2. m = s[n - period + k]
        BY <3>6, <4>1
      <4> HIDE DEF k, m, S
      <4>3. m \in S
        BY <3>3, <4>1, <4>2
      <4>4. QED BY <3>4, <4>3
    <3>8. ASSUME NEW y \in S PROVE Beats(op, m, y) /\ y \in Int
      <4>1. PICK i \in 1..period : y = s[n - period + i]
        BY <3>3
      <4> DEFINE j == n - period + i
      <4>2. j \in 1..n /\ j > n - period /\ y = s[j] /\ y \in Int
        BY <1>1, <2>1, <4>1
      <4> HIDE DEF j
      <4>3. PICK k \in 1..Len(t.dq) : t.dq[k].seq + 1 >= j /\ Beats(op, t.dq[k].value, s[j])
        BY <3>2, <4>2 DEF Peaks
      <4>4. t.dq[k].seq \in Nat /\ t.dq[k].seq < n /\ t.dq[k].value = s[t.dq[k].seq + 1]
        BY <3>2 DEF Peaks
      <4>5. t.dq[k].value \in Int
        <5>1. t.dq[k].seq + 1 \in 1..n
          BY <4>4
        <5>2. QED BY <4>4, <5>1
      <4>6. k = 1 \/ 1 < k
        OBVIOUS
      <4>7. CASE k = 1
        BY <4>2, <4>3, <4>7
      <4>8. CASE 1 < k
        <5>1. Outranks(op, m, t.dq[k].value)
          BY <3>2, <3>5, <4>8 DEF Peaks
        <5>2. Beats(op, m, y)
          <6> DEFINE x == t.dq[k].value
          <6>1. x \in Int /\ y \in Int /\ m \in Int /\ Outranks(op, m, x) /\ Beats(op, x, y)
            BY <3>7, <4>2, <4>3, <4>5, <5>1
          <6> HIDE DEF x, m
          <6>2. Beats(op, m, x)
            BY <2>5, <6>1, RanksOrder
          <6>3. QED BY <2>5, <6>1, <6>2, RanksOrder
        <5>3. QED BY <4>2, <5>2
      <4>9. QED BY <4>6, <4>7, <4>8
    <3> HIDE DEF S, m
    <3>9. CASE op = "max"
      <4>1. \A y \in S : y <= m
        BY <3>7, <3>8, <3>9 DEF Beats
      <4>2. Max(S) = m
        BY <3>4, <3>7, <4>1, MaxIs
      <4>3. QED BY <2>4, <3>1, <3>5, <3>9, <4>2 DEF Aggregate, S, m, period
    <3>10. CASE op = "min"
      <4>1. \A y \in S : m <= y
        BY <3>7, <3>8, <3>10 DEF Beats
      <4>2. Min(S) = m
        BY <3>4, <3>7, <4>1, MinIs
      <4>3. QED BY <2>4, <3>1, <3>5, <3>10, <4>2 DEF Aggregate, S, m, period
    <3>11. QED BY <2>5, <3>9, <3>10 DEF Extremes
  <2>6. CASE op \notin Extremes
    <3>1. Summed(t, s, n, period)
      BY <2>6 DEF Tracks, period
    <3>2. Least(n, period) = period
      BY <1>1, <1>4, LeastIs
    <3>3. t.vals = w /\ t.sum = SumSeq(t.vals) /\ t.sumsq = SumSquares(t.vals)
      BY <3>1, <3>2 DEF Summed, Recent, w
    <3>4. TrackerValue(t, name) = IF op = "std" THEN period * t.sumsq - Square(t.sum) ELSE t.sum
      BY <1>2, <1>4, <2>6 DEF TrackerValue, Extremes, period
    <3>5. op \in {"mean", "sum", "std"}
      BY <1>1, <2>6
    <3>6. Aggregate(op, period, w) = IF op = "std" THEN period * SumSquares(w) - Square(SumSeq(w)) ELSE SumSeq(w)
      BY <3>5 DEF Aggregate
    <3>7. QED BY <2>4, <3>3, <3>4, <3>6 DEF period
  <2>7. QED BY <2>5, <2>6
<1>5. QED BY <1>3, <1>4

\* Two rows of the same numbers in ascending order are the same.
LEMMA AscendingIs ==
  ASSUME NEW S, S \subseteq Int, IsFiniteSet(S), NEW m \in Nat, NEW b \in [1..m -> S],
         \A x \in S : \E k \in 1..m : b[k] = x,
         \A j, k \in 1..m : j < k => b[j] < b[k]
  PROVE  Cardinality(S) = m /\ Ascending(S) = b
<1> DEFINE a == Ascending(S)
           n == Cardinality(S)
<1>1. /\ n \in Nat /\ a \in [1..n -> S]
      /\ \A x \in S : \E k \in 1..n : a[k] = x
      /\ \A j, k \in 1..n : j < k => a[j] < a[k]
  BY SortedAscending
<1>2. n = m
  <2> DEFINE J == 1..m
  <2>1. IsFiniteSet(J) /\ Cardinality(J) = m
    BY FS_Interval
  <2>2. b \in Bijection(J, S)
    <3>1. b \in [J -> S] /\ \A x \in S : \E k \in J : b[k] = x
      OBVIOUS
    <3>2. ASSUME NEW j \in J, NEW k \in J, b[j] = b[k] PROVE j = k
      <4>1. b[j] \in Int /\ b[k] \in Int /\ j \in Int /\ k \in Int
        <5>1. b[j] \in S /\ b[k] \in S
          OBVIOUS
        <5>2. b[j] \in Int /\ b[k] \in Int
          BY <5>1
        <5>3. J \subseteq Int
          OBVIOUS
        <5> HIDE DEF J
        <5>4. QED BY <5>2, <5>3
      <4>2. ~(j < k) /\ ~(k < j)
        BY <3>2, <4>1
      <4>3. QED BY <4>1, <4>2
    <3> HIDE DEF J
    <3>3. b \in Injection(J, S) /\ b \in Surjection(J, S)
      BY <3>1, <3>2 DEF Injection, IsInjective, Surjection
    <3>4. QED BY <3>3 DEF Bijection
  <2> HIDE DEF J
  <2>3. Cardinality(S) = Cardinality(J)
    <3>1. ExistsBijection(J, S)
      BY <2>2 DEF ExistsBijection
    <3>2. QED BY <2>1, <3>1, FS_Bijection
  <2>4. QED BY <2>1, <2>3
<1> HIDE DEF a, n
<1> DEFINE D == {k \in 1..m : a[k] # b[k]}
<1>3. D = {}
  <2>1. SUFFICES ASSUME D # {} PROVE FALSE
    OBVIOUS
  <2> DEFINE k == Min(D)
  <2>2. D \subseteq Int /\ IsFiniteSet(D)
    <3> DEFINE J == 1..m
    <3>1. IsFiniteSet(J) /\ D \subseteq J /\ J \subseteq Int
      BY FS_Interval
    <3> HIDE DEF J, D
    <3>2. QED BY <3>1, FS_Subset
  <2>3. k \in D /\ \A y \in D : k <= y
    BY <2>1, <2>2, MinOfFinite
  <2> HIDE DEF k
  <2>4. k \in 1..m /\ a[k] # b[k] /\ \A j \in 1..m : j < k => a[j] = b[j]
    BY <2>3
  <2>5. a[k] \in S /\ b[k] \in S /\ a[k] \in Int /\ b[k] \in Int
    BY <1>1, <1>2, <2>4
  <2>6. ~(a[k] < b[k])
    <3>1. SUFFICES ASSUME a[k] < b[k] PROVE FALSE
      OBVIOUS
    <3>2. PICK j \in 1..m : b[j] = a[k]
      BY <2>5
    <3>3. CASE j < k
      <4>1. a[j] = b[j] /\ a[j] < a[k]
        BY <1>1, <1>2, <2>4, <3>3
      <4>2. QED BY <2>5, <3>2, <4>1
    <3>4. CASE j = k
      BY <2>4, <3>2, <3>4
    <3>5. CASE k < j
      <4>1. b[k] < b[j]
        BY <2>4, <3>5
      <4>2. QED BY <2>5, <3>1, <3>2, <4>1
    <3>6. QED BY <2>4, <3>3, <3>4, <3>5
  <2>7. ~(b[k] < a[k])
    <3>1. SUFFICES ASSUME b[k] < a[k] PROVE FALSE
      OBVIOUS
    <3>2. PICK j \in 1..m : a[j] = b[k]
      BY <1>1, <1>2, <2>5
    <3>3. CASE j < k
      <4>1. a[j] = b[j] /\ b[j] < b[k]
        BY <2>4, <3>3
      <4>2. QED BY <2>5, <3>2, <4>1
    <3>4. CASE j = k
      BY <2>4, <3>2, <3>4
    <3>5. CASE k < j
      <4>1. a[k] < a[j]
        BY <1>1, <1>2, <2>4, <3>5
      <4>2. QED BY <2>5, <3>1, <3>2, <4>1
    <3>6. QED BY <2>4, <3>3, <3>4, <3>5
  <2>8. QED BY <2>4, <2>5, <2>6, <2>7
<1>4. a = b
  BY <1>1, <1>2, <1>3
<1>5. QED BY <1>2, <1>4 DEF a, n

LEMMA AscendingGrows ==
  ASSUME NEW S, S \subseteq Int, IsFiniteSet(S), NEW x \in Int, \A y \in S : y < x
  PROVE  LET m == Cardinality(S)
         IN /\ m \in Nat /\ Cardinality(S \cup {x}) = m + 1
            /\ \A k \in 1..m : Ascending(S \cup {x})[k] = Ascending(S)[k]
            /\ Ascending(S \cup {x})[m+1] = x
<1> DEFINE a == Ascending(S)
           m == Cardinality(S)
           T == S \cup {x}
           b == [k \in 1..(m+1) |-> IF k = m + 1 THEN x ELSE a[k]]
<1>1. /\ m \in Nat /\ a \in [1..m -> S]
      /\ \A y \in S : \E k \in 1..m : a[k] = y
      /\ \A j, k \in 1..m : j < k => a[j] < a[k]
  BY SortedAscending
<1>2. T \subseteq Int /\ IsFiniteSet(T)
  BY FS_AddElement
<1>3. \A y \in T : y \in S \/ y = x
  OBVIOUS
<1>4. S \subseteq T /\ x \in T
  OBVIOUS
<1> HIDE DEF a, m, T
<1>5. m + 1 \in Nat /\ \A k \in 1..(m+1) : k \in 1..m \/ k = m + 1
  BY <1>1
<1>6. /\ DOMAIN b = 1..(m+1) /\ b[m+1] = x
      /\ \A k \in 1..m : k \in 1..(m+1) /\ b[k] = a[k]
  BY <1>1
<1>7. b \in [1..(m+1) -> T]
  <2>1. \A k \in 1..(m+1) : (IF k = m + 1 THEN x ELSE a[k]) \in T
    BY <1>1, <1>4, <1>5
  <2>2. QED BY <2>1
<1> HIDE DEF b
<1>8. ASSUME NEW y \in T PROVE \E k \in 1..(m+1) : b[k] = y
  <2>1. CASE y \in S
    <3>1. PICK k \in 1..m : a[k] = y
      BY <1>1, <2>1
    <3>2. QED BY <1>6, <3>1
  <2>2. CASE y = x
    <3>1. m + 1 \in 1..(m+1)
      BY <1>1
    <3>2. QED BY <1>6, <2>2, <3>1
  <2>3. QED BY <1>3, <2>1, <2>2
<1>9. ASSUME NEW j \in 1..(m+1), NEW k \in 1..(m+1), j < k PROVE b[j] < b[k]
  <2>1. j \in 1..m /\ b[j] = a[j] /\ a[j] \in S
    BY <1>1, <1>6, <1>9
  <2>2. k \in 1..m \/ k = m + 1
    BY <1>5
  <2>3. CASE k \in 1..m
    BY <1>1, <1>6, <1>9, <2>1, <2>3
  <2>4. CASE k = m + 1
    BY <1>6, <2>1, <2>4
  <2>5. QED BY <2>2, <2>3, <2>4
<1>10. Cardinality(T) = m + 1 /\ Ascending(T) = b
  BY <1>2, <1>5, <1>7, <1>8, <1>9, AscendingIs
<1>11. QED BY <1>1, <1>6, <1>10 DEF T, a, m

-----------------------------------------------------------------------------
(* The volumes of the bars that traded.                                    *)

Traded(frame) == {i \in DOMAIN frame : frame[i].volume > 0}
TradedVolumes(frame) ==
  [k \in DOMAIN Ascending(Traded(frame)) |-> frame[Ascending(Traded(frame))[k]].volume]

LEMMA TradedRows ==
  ASSUME NEW frame, NEW n, Frame(frame, n)
  PROVE  /\ Traded(frame) \subseteq Int /\ IsFiniteSet(Traded(frame))
         /\ Traded(frame) \subseteq 1..n
         /\ Cardinality(Traded(frame)) \in Nat
         /\ Len(Ascending(Traded(frame))) = Cardinality(Traded(frame))
         /\ DOMAIN Ascending(Traded(frame)) = 1..Cardinality(Traded(frame))
         /\ \A k \in 1..Cardinality(Traded(frame)) :
              /\ Ascending(Traded(frame))[k] \in Traded(frame)
              /\ TradedVolumes(frame)[k] = frame[Ascending(Traded(frame))[k]].volume
              /\ TradedVolumes(frame)[k] \in Nat \ {0}
<1> DEFINE S == Traded(frame)
           a == Ascending(S)
           m == Cardinality(S)
           J == 1..n
<1>1. n \in Nat /\ DOMAIN frame = J /\ \A i \in J : frame[i].volume \in Nat
  BY DEF Frame, IsBar
<1>2. IsFiniteSet(J) /\ J \subseteq Int
  BY <1>1, FS_Interval
<1>3. S \subseteq J /\ \A i \in S : frame[i].volume > 0
  BY <1>1 DEF Traded
<1> HIDE DEF S
<1>4. S \subseteq Int /\ IsFiniteSet(S)
  BY <1>2, <1>3, FS_Subset
<1>5. m \in Nat /\ a \in [1..m -> S] /\ Len(a) = m
  BY <1>4, SortedAscending
<1>6. TradedVolumes(frame) = [k \in 1..m |-> frame[a[k]].volume]
  BY <1>5 DEF TradedVolumes, S
<1> HIDE DEF a, m
<1>7. ASSUME NEW k \in 1..m
      PROVE  a[k] \in S /\ TradedVolumes(frame)[k] = frame[a[k]].volume
             /\ TradedVolumes(frame)[k] \in Nat \ {0}
  <2>1. a[k] \in S /\ a[k] \in J
    BY <1>3, <1>5
  <2>2. frame[a[k]].volume \in Nat \ {0}
    BY <1>1, <1>3, <2>1
  <2>3. QED BY <1>6, <2>1, <2>2
<1>8. QED BY <1>3, <1>4, <1>5, <1>7 DEF S, a, m, J

\* Without a gap they are the volumes of all bars.
LEMMA NoGapTraded ==
  ASSUME NEW frame, NEW n, Frame(frame, n), \A k \in 1..n : frame[k].volume > 0
  PROVE  /\ Cardinality(Traded(frame)) = n
         /\ \A k \in 1..n : TradedVolumes(frame)[k] = InputSeries(frame, "log_volume")[k]
<1> DEFINE S == Traded(frame)
           b == [k \in 1..n |-> k]
<1>1. n \in Nat /\ DOMAIN frame = 1..n /\ \A i \in 1..n : frame[i].volume \in Nat
  BY DEF Frame, IsBar
<1>2. S = 1..n
  BY <1>1 DEF Traded
<1>3. S \subseteq Int /\ IsFiniteSet(S)
  BY TradedRows
<1> HIDE DEF S
<1>4. b \in [1..n -> S] /\ (\A x \in S : \E k \in 1..n : b[k] = x) /\ (\A k \in 1..n : b[k] = k)
  BY <1>2
<1>5. \A j, k \in 1..n : j < k => b[j] < b[k]
  BY <1>4
<1> HIDE DEF b
<1>6. Cardinality(S) = n /\ Ascending(S) = b
  <2>1. n \in Nat /\ b \in [1..n -> S] /\ \A x \in S : \E k \in 1..n : b[k] = x
    BY <1>1, <1>4
  <2>2. QED BY <1>3, <1>5, <2>1, AscendingIs
<1>7. ASSUME NEW k \in 1..n PROVE TradedVolumes(frame)[k] = InputSeries(frame, "log_volume")[k]
  <2>1. TradedVolumes(frame)[k] = frame[k].volume
    BY <1>4, <1>6, TradedRows DEF S
  <2>2. frame[k].volume \in Nat /\ frame[k].volume # 0
    BY <1>1
  <2>3. InputSeries(frame, "log_volume")[k] = frame[k].volume
    BY <1>1, <2>2 DEF InputSeries, InputAt
  <2>4. QED BY <2>1, <2>3
<1>8. QED BY <1>6, <1>7 DEF S

\* A frame of n + 1 bars that begins with that of n.
Continues(frame, more, n) ==
  Frame(frame, n) /\ Frame(more, n + 1) /\ \A i \in 1..n : more[i] = frame[i]

LEMMA TradedGrows ==
  ASSUME NEW frame, NEW more, NEW n, Continues(frame, more, n)
  PROVE  LET m == Cardinality(Traded(frame))
         IN IF more[n+1].volume > 0
              THEN /\ Cardinality(Traded(more)) = m + 1
                   /\ \A k \in 1..m : TradedVolumes(more)[k] = TradedVolumes(frame)[k]
                   /\ TradedVolumes(more)[m+1] = more[n+1].volume
              ELSE Traded(more) = Traded(frame) /\ TradedVolumes(more) = TradedVolumes(frame)
<1> DEFINE S == Traded(frame)
           T == Traded(more)
           m == Cardinality(S)
           c == n + 1
<1>1. /\ n \in Nat /\ DOMAIN frame = 1..n /\ DOMAIN more = 1..(n+1)
      /\ \A i \in 1..n : more[i] = frame[i]
      /\ Frame(frame, n) /\ Frame(more, n + 1)
  BY DEF Continues, Frame
<1>2. m \in Nat /\ S \subseteq Int /\ IsFiniteSet(S) /\ S \subseteq 1..n
      /\ DOMAIN Ascending(S) = 1..m
      /\ \A k \in 1..m : /\ Ascending(S)[k] \in S
                         /\ TradedVolumes(frame)[k] = frame[Ascending(S)[k]].volume
  BY <1>1, TradedRows
<1>3. CASE more[n+1].volume > 0
  <2>1. T = S \cup {c}
    <3>1. \A i : i \in 1..(n+1) <=> (i \in 1..n \/ i = c)
      BY <1>1
    <3>2. QED BY <1>1, <1>3, <3>1 DEF Traded
  <2>2. c \in Int /\ \A y \in S : y < c
    BY <1>1, <1>2
  <2> HIDE DEF S, T, c
  <2>3. /\ Cardinality(T) = m + 1
        /\ \A k \in 1..m : Ascending(T)[k] = Ascending(S)[k]
        /\ Ascending(T)[m+1] = c
    BY <1>2, <2>1, <2>2, AscendingGrows
  <2>4. \A k \in 1..(m+1) : TradedVolumes(more)[k] = more[Ascending(T)[k]].volume
    <3>1. \A k \in 1..Cardinality(Traded(more)) :
            TradedVolumes(more)[k] = more[Ascending(Traded(more))[k]].volume
      BY <1>1, TradedRows
    <3>2. QED BY <2>3, <3>1 DEF T
  <2>5. ASSUME NEW k \in 1..m PROVE TradedVolumes(more)[k] = TradedVolumes(frame)[k]
    <3>1. k \in 1..(m+1)
      BY <1>2
    <3>2. Ascending(S)[k] \in 1..n
      BY <1>2
    <3>3. QED BY <1>1, <1>2, <2>3, <2>4, <3>1, <3>2
  <2>6. m + 1 \in 1..(m+1)
    BY <1>2
  <2>7. TradedVolumes(more)[m+1] = more[n+1].volume
    BY <2>3, <2>4, <2>6 DEF c
  <2>8. QED BY <1>3, <2>3, <2>5, <2>7 DEF S, T
<1>4. CASE ~(more[n+1].volume > 0)
  <2>1. T = S
    <3>1. \A i : i \in 1..(n+1) <=> (i \in 1..n \/ i = n + 1)
      BY <1>1
    <3>2. QED BY <1>1, <1>4, <3>1 DEF Traded
  <2>2. TradedVolumes(more) = [k \in 1..m |-> more[Ascending(S)[k]].volume]
    BY <1>2, <2>1 DEF TradedVolumes
  <2>3. TradedVolumes(frame) = [k \in 1..m |-> frame[Ascending(S)[k]].volume]
    BY <1>2 DEF TradedVolumes
  <2>4. \A k \in 1..m : more[Ascending(S)[k]] = frame[Ascending(S)[k]]
    BY <1>1, <1>2
  <2> HIDE DEF S, T, m
  <2>5. TradedVolumes(more) = TradedVolumes(frame)
    BY <2>2, <2>3, <2>4
  <2>6. QED BY <1>4, <2>1, <2>5 DEF S, T
<1>5. QED BY <1>3, <1>4
=============================================================================
