----------------------------- MODULE ParamSweep -----------------------------
(***************************************************************************)
(* run_parameter_sweep of research/param_sweep.py: every combination of a  *)
(* grid is a job; a pool of processes runs them, and the caller collects   *)
(* the results in the order of submission, giving a job job_timeout + 30   *)
(* seconds from the moment it waits for it.  Time is not counted: any wait *)
(* may run out.                                                            *)
(*                                                                         *)
(* A combination is the place of its values in the grid's product; its     *)
(* job returns, raises or never ends.  The combination's number is the     *)
(* metric the results are ranked by.                                       *)
(***************************************************************************)
EXTENDS Sorting, Sequences, FiniteSetsExt, SequencesExt

CONSTANTS Grid,        \* parameter -> set of its values
          n_jobs       \* worker processes asked for

ASSUME SweepAssumption == n_jobs \in Nat \ {0}

\* Lists of values, none of them empty (a sweep of nothing returns at once).
ASSUME GridAssumption ==
  /\ IsFiniteSet(DOMAIN Grid)
  /\ \A p \in DOMAIN Grid : IsFiniteSet(Grid[p]) /\ Grid[p] # {}

\* expand_param_grid: the product of the values, one combination each.
expand_param_grid(grid) ==
  {c \in [DOMAIN grid -> UNION {grid[p] : p \in DOMAIN grid}] :
     \A p \in DOMAIN grid : c[p] \in grid[p]}

combos == SetToSeq(expand_param_grid(Grid))
Jobs == DOMAIN combos
n_workers == Min({n_jobs, Len(combos)})
Sequential == n_workers = 1 \/ Len(combos) = 1

VARIABLES nature,    \* what each job does: "returns", "raises" or "hangs"
          path,      \* "submit", "collect", "leave", "sequential", "done"
          jobs,      \* each job: "new", "pending", "running", "ended", "broken"
          broken,    \* has a worker process died?
          results    \* the rows, [combo, status]

sweepVars == <<nature, path, jobs, broken, results>>

SweepInit ==
  /\ nature \in [Jobs -> {"returns", "raises", "hangs"}]
  /\ path = IF Sequential THEN "sequential" ELSE "submit"
  /\ jobs = [j \in Jobs |-> "new"] /\ broken = FALSE /\ results = <<>>

In(state) == {j \in Jobs : jobs[j] = state}
Row(j, status) == [combo |-> j, status |-> status]

\* _worker: a row with the metrics, or with the traceback.
WorkerRow(j) == Row(j, IF nature[j] = "returns" THEN "metrics" ELSE "error")

-----------------------------------------------------------------------------
\* The caller submits a job; a broken pool refuses it and the whole sweep falls back
\* to running one after the other, from the first.
Submit ==
  /\ path = "submit"
  /\ IF broken
       THEN /\ path' = "sequential" /\ jobs' = [j \in Jobs |-> "new"] /\ results' = <<>>
       ELSE LET j == Min(In("new"))
            IN /\ jobs' = [jobs EXCEPT ![j] = "pending"]
               /\ path' = IF In("new") = {j} THEN "collect" ELSE "submit"
               /\ UNCHANGED results
  /\ UNCHANGED <<nature, broken>>

\* A worker process takes the next job.
Take ==
  /\ path # "sequential" /\ ~broken
  /\ In("pending") # {} /\ Cardinality(In("running")) < n_workers
  /\ jobs' = [jobs EXCEPT ![Min(In("pending"))] = "running"]
  /\ UNCHANGED <<nature, path, broken, results>>

Finish(j) ==
  /\ jobs[j] = "running" /\ nature[j] # "hangs"
  /\ jobs' = [jobs EXCEPT ![j] = "ended"]
  /\ UNCHANGED <<nature, path, broken, results>>

\* Mutant: nobody tells the jobs.
WorkerDiesUnnoticed ==
  /\ path # "sequential" /\ In("running") # {}
  /\ broken' = TRUE
  /\ UNCHANGED <<nature, path, jobs, results>>

\* A worker process dies: every job that has not ended fails with the pool.
WorkerDies ==
  /\ path # "sequential" /\ In("running") # {}
  /\ broken' = TRUE
  /\ jobs' = [j \in Jobs |-> IF jobs[j] \in {"pending", "running"} THEN "broken" ELSE jobs[j]]
  /\ UNCHANGED <<nature, path, results>>

\* The caller has a row for the job it waits for, and waits for the next.
Collected(row) ==
  /\ results' = Append(results, row)
  /\ path' = IF Len(results') = Len(combos) THEN "leave" ELSE path

\* future.result(timeout=...)
Collect ==
  LET head == Len(results) + 1
  IN /\ path = "collect"
     /\ \/ jobs[head] = "ended" /\ Collected(WorkerRow(head))
        \/ jobs[head] = "broken" /\ Collected(Row(head, "error"))
     /\ UNCHANGED <<nature, jobs, broken>>

\* The wait runs out; the job stays where it is.
CollectTimeout ==
  LET head == Len(results) + 1
  IN /\ path = "collect" /\ jobs[head] \in {"pending", "running"}
     /\ Collected(Row(head, "timeout"))
     /\ UNCHANGED <<nature, jobs, broken>>

\* Mutant: the worst first.
RankedUp(rows) ==
  LET key == [k \in DOMAIN rows |-> IF rows[k].status = "metrics" THEN rows[k].combo - Len(combos)
                                    ELSE k]
  IN [k \in DOMAIN rows |-> rows[SortedBy(DOMAIN rows, key)[k]]]

\* Rows with the metric first, best first; the sort puts the others last, as they were.
Ranked(rows) ==
  LET key == [k \in DOMAIN rows |-> IF rows[k].status = "metrics" THEN -rows[k].combo ELSE k]
  IN [k \in DOMAIN rows |-> rows[SortedBy(DOMAIN rows, key)[k]]]

\* Mutant: the jobs are left to themselves.
LeaveAtOnce ==
  /\ path = "leave"
  /\ path' = "done" /\ results' = Ranked(results)
  /\ UNCHANGED <<nature, jobs, broken>>

\* Leaving the `with` block waits for every job.
Leave ==
  /\ path = "leave" /\ In("pending") \cup In("running") = {}
  /\ path' = "done" /\ results' = Ranked(results)
  /\ UNCHANGED <<nature, jobs, broken>>

\* One job of the sequential path, and the ranking after the last.
RunNext ==
  LET j == Len(results) + 1
      rows == Append(results, WorkerRow(j))
  IN /\ path = "sequential" /\ nature[j] # "hangs"
     /\ jobs' = [jobs EXCEPT ![j] = "ended"]
     /\ results' = IF j = Len(combos) THEN Ranked(rows) ELSE rows
     /\ path' = IF j = Len(combos) THEN "done" ELSE path
     /\ UNCHANGED <<nature, broken>>

SweepStep ==
  Submit \/ Take \/ (\E j \in Jobs : Finish(j)) \/ Collect \/ Leave \/ RunNext

SweepNext == SweepStep \/ CollectTimeout \/ WorkerDies

\* What phase3b_sweep and adam_trailing_pipeline keep to validate the best rows of: a
\* frame without failures has no error column; with one, a row that succeeded has a
\* missing error there, which counts as one.
Kept5(rows) ==
  IF \A k \in DOMAIN rows : rows[k].status = "metrics"
    THEN SubSeq(rows, 1, Min({5, Len(rows)})) ELSE <<>>

-----------------------------------------------------------------------------
Status(k) == results[k].status

\* A sweep that ends has one row for every combination and leaves no job running.
SweepIsComplete ==
  path = "done" =>
    /\ Len(results) = Len(combos)
    /\ {results[k].combo : k \in DOMAIN results} = Jobs
    /\ \A j \in Jobs : jobs[j] \in {"ended", "broken"}

\* The first row is the best of the combinations that have metrics; a row has
\* metrics only if its job returned, and fails only for a reason: the job raised, the
\* wait ran out, or the pool broke.  Only rows with metrics are validated further.
BestRowFirst ==
  path = "done" =>
    /\ \A k \in DOMAIN results :
         /\ Status(k) = "metrics" => nature[results[k].combo] = "returns"
         /\ Status(k) = "error" => nature[results[k].combo] = "raises" \/ broken
         /\ Status(k) = "metrics" =>
              \A m \in 1..k-1 : Status(m) = "metrics" /\ results[m].combo > results[k].combo
    /\ \A k \in DOMAIN Kept5(results) : Kept5(results)[k].status = "metrics"

\* A sweep none of whose jobs hangs ends (a timeout kills nothing: a job that hangs
\* keeps the pool, and so the sweep, for ever).
SweepEnds == (\A j \in Jobs : nature[j] # "hangs") ~> (path = "done")
=============================================================================
