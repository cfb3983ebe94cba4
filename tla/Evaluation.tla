----------------------------- MODULE Evaluation -----------------------------
(***************************************************************************)
(* The training pipeline of research/pipeline_runner.py over               *)
(* research/evaluator.py: load the data of a configuration, score models   *)
(* on rows they were not trained on, fit the model to keep, save it and    *)
(* its feature list.  The process may stop anywhere and be started again,  *)
(* with the same or another configuration.                                 *)
(*                                                                         *)
(* A row of a data set is its event's bar; fitting and predicting are      *)
(* external, and a score is any value.  Python's X[a:b] is rows a+1..b.    *)
(***************************************************************************)
EXTENDS Sorting, Sequences, FiniteSetsExt, SequencesExt

CONSTANTS EventBars,    \* the bars of the archive that hold an event
          Pipelines,    \* the configurations, see Load
          Scores,       \* what a rank IC may be, in hundredths
          Undefined,    \* the IC of constant predictions
          IcThreshold, MinScored

ASSUME EvaluationAssumption ==
  /\ EventBars \subseteq Nat /\ Scores \subseteq Int /\ Undefined \notin Int
  /\ IcThreshold \in Nat /\ MinScored \in Nat

\* Every configuration tests on data after the data it trains on.
ASSUME PipelinesAssumption ==
  \A p \in Pipelines :
    /\ p.train_range \in Nat \X Nat /\ p.train_split \in 0..100
    /\ p.cv_folds \in Nat /\ p.horizon \in Nat
    /\ p.test_range # <<>> =>
         p.test_range \in Nat \X Nat /\ p.train_range[2] <= p.test_range[1]

VARIABLES stage,     \* "idle", "scoring", "saving" or "listing"
          pipeline,  \* the configuration being run
          scored,    \* [trained, rows, ic] of every model scored so far
          model,     \* the evaluator's model: the rows and columns it was fitted on
          passed,    \* the verdict of the run
          disk,      \* what the output directory holds: a model, a feature list
          torn       \* was a run stopped between the two files?

evaluationVars == <<stage, pipeline, scored, model, passed, disk, torn>>

NoModel == [rows |-> {}, columns |-> {}]
EvaluationInit ==
  /\ stage = "idle" /\ pipeline \in Pipelines /\ scored = <<>> /\ model = NoModel
  /\ passed = FALSE /\ disk = [model |-> NoModel, features |-> {}] /\ torn = FALSE

\* load_data and build_dataset: the events of a date range, its end excluded.
load_data(range) == Ascending({b \in EventBars : range[1] <= b /\ b < range[2]})

Train == load_data(pipeline.train_range)
Rows(bars, places) == {bars[k] : k \in places}

-----------------------------------------------------------------------------
\* Mutant: one event, whatever the horizon.
OneEventGap(bars, horizon) == 1

\* The gap in events that covers a label's horizon, at the average distance.
label_gap(bars, horizon) ==
  LET n == Len(bars)
      span == IF n > 1 THEN bars[n] - bars[1] ELSE 1
      steps == IF n > 1 THEN n - 1 ELSE 1
  IN Max({1, (horizon * steps + span - 1) \div span})

\* The gap is capped below a fold.
FoldSize(n, n_splits) == n \div (n_splits + 1)
CappedGap(n, n_splits, gap) == Min({gap, Max({0, FoldSize(n, n_splits) - 1})})

\* Mutant: the validation rows start with the last row trained on.
SplitOverlapping(n, n_splits, gap) ==
  LET size == FoldSize(n, n_splits)
      TrainEnd(i) == Max({size, i * size - CappedGap(n, n_splits, gap)})
  IN [i \in 1..n_splits |-> [train |-> 1..TrainEnd(i), val |-> i * size .. (i + 1) * size - 1]]

\* Each fold trains on what lies before it, less the gap, and never on less
\* than one fold.
time_series_split(n, n_splits, gap) ==
  LET size == FoldSize(n, n_splits)
      TrainEnd(i) == Max({size, i * size - CappedGap(n, n_splits, gap)})
  IN [i \in 1..n_splits |-> [train |-> 1..TrainEnd(i), val |-> i * size + 1 .. (i + 1) * size]]

Folds(bars, p) == time_series_split(Len(bars), p.cv_folds, label_gap(bars, p.horizon))

\* The one split of a configuration without folds: int(n * train_split).
SplitAt(n, p) == (n * p.train_split) \div 100

\* What is scored, in order: the test set, the folds or the tail.
Trials(p) ==
  LET bars == load_data(p.train_range)
      n == Len(bars)
  IN IF p.test_range # <<>>
       THEN <<[trained |-> Range(bars), rows |-> Range(load_data(p.test_range))]>>
     ELSE IF p.cv_folds > 1
       THEN [i \in 1..p.cv_folds |->
               [trained |-> Rows(bars, Folds(bars, p)[i].train),
                rows |-> Rows(bars, Folds(bars, p)[i].val)]]
     ELSE <<[trained |-> Rows(bars, 1..SplitAt(n, p)),
             rows |-> Rows(bars, SplitAt(n, p) + 1 .. n)]>>

\* evaluate_rank_ic: too few rows score 0.
evaluate_rank_ic(rows, ic) == IF Cardinality(rows) < MinScored THEN 0 ELSE ic

Magnitude(x) == IF x >= 0 THEN x ELSE -x

\* The verdict: the mean over the folds beyond the threshold, in either direction.
Verdict(trials) ==
  LET ics == [i \in DOMAIN trials |-> trials[i].ic]
  IN /\ Undefined \notin Range(ics)
     /\ Magnitude(FoldLeft(LAMBDA a, x : a + x, 0, ics)) > IcThreshold * Len(ics)

-----------------------------------------------------------------------------
\* main starts over a configuration.  Folds need two rows each, a model needs rows.
Load(p) ==
  /\ stage = "idle"
  /\ Len(load_data(p.train_range)) > 0
  /\ (p.test_range = <<>> /\ p.cv_folds > 1) => Len(load_data(p.train_range)) >= 2 * p.cv_folds
  /\ pipeline' = p /\ stage' = "scoring"
  /\ scored' = <<>> /\ model' = NoModel /\ passed' = FALSE
  /\ UNCHANGED <<disk, torn>>

\* Fit on a trial's rows, predict the others, score.
ScoreTrial(ic) ==
  LET trials == Trials(pipeline)
      trial == trials[Len(scored) + 1]
  IN /\ stage = "scoring" /\ Len(scored) < Len(trials)
     /\ model' = [rows |-> trial.trained, columns |-> pipeline.columns]
     /\ scored' = Append(scored, [trained |-> trial.trained, rows |-> trial.rows,
                                  ic |-> evaluate_rank_ic(trial.rows, ic)])
     /\ UNCHANGED <<stage, pipeline, passed, disk, torn>>

\* After the folds the model to keep is fitted on every row.
Conclude ==
  /\ stage = "scoring" /\ Len(scored) = Len(Trials(pipeline))
  /\ passed' = Verdict(scored)
  /\ model' = IF pipeline.test_range = <<>> /\ pipeline.cv_folds > 1
                THEN [rows |-> Range(Train), columns |-> pipeline.columns] ELSE model
  /\ stage' = "saving"
  /\ UNCHANGED <<pipeline, scored, disk, torn>>

\* save writes the model, then the feature list.
SaveModel ==
  /\ stage = "saving"
  /\ disk' = [disk EXCEPT !.model = model]
  /\ stage' = "listing"
  /\ UNCHANGED <<pipeline, scored, model, passed, torn>>

\* The mutant keeps a list that is there.
KeepFeatures ==
  /\ stage = "listing"
  /\ disk' = [disk EXCEPT !.features = IF @ = {} THEN pipeline.columns ELSE @]
  /\ torn' = FALSE /\ stage' = "idle"
  /\ UNCHANGED <<pipeline, scored, model, passed>>

SaveFeatures ==
  /\ stage = "listing"
  /\ disk' = [disk EXCEPT !.features = pipeline.columns]
  /\ torn' = FALSE /\ stage' = "idle"
  /\ UNCHANGED <<pipeline, scored, model, passed>>

\* The process stops; the files stay.
Stop ==
  /\ stage # "idle"
  /\ torn' = (torn \/ stage = "listing") /\ stage' = "idle"
  /\ UNCHANGED <<pipeline, scored, model, passed, disk>>

EvaluationNext ==
  \/ \E p \in Pipelines : Load(p)
  \/ \E ic \in Scores \cup {Undefined} : ScoreTrial(ic)
  \/ Conclude \/ SaveModel \/ SaveFeatures \/ Stop

-----------------------------------------------------------------------------
\* No model is scored on a row it was trained on, nor on one before them.
ScoredOutOfSample ==
  \A k \in DOMAIN scored :
    \A t \in scored[k].trained, r \in scored[k].rows : t < r

EvenlySpaced(bars) ==
  \A k \in 2 .. Len(bars) - 1 : bars[k+1] - bars[k] = bars[k] - bars[k-1]

\* The purge works: no label of a row trained on looks into the rows scored.  It
\* does where the average distance is every distance, the cap is not reached, and
\* from the second fold on: the first fold keeps its rows up to the validation rows.
FoldsPurged ==
  LET bars == Train
      gap == label_gap(bars, pipeline.horizon)
  IN \A k \in DOMAIN scored :
       (/\ pipeline.test_range = <<>> /\ pipeline.cv_folds > 1 /\ k > 1
        /\ EvenlySpaced(bars)
        /\ gap = CappedGap(Len(bars), pipeline.cv_folds, gap)) =>
         \A t \in scored[k].trained, r \in scored[k].rows : t + pipeline.horizon < r

\* A consumer that opens the directory when no run is under way finds a model and the
\* feature list it was fitted with, unless a run was stopped between the two files.
SavedPairMatches == (stage # "listing" /\ ~torn) => disk.model.columns = disk.features
=============================================================================
