---------------------------- MODULE BacktestJobs -----------------------------
(***************************************************************************)
(* The backtest jobs of the API (routes/strategy_backtest.py): a job runs  *)
(* as a task of the server, is known to its process only, and saves its    *)
(* result (StrategyBacktestRepositoryPG) before it is called completed.    *)
(* Strategies and versions come and go beside it (StrategyStore), a        *)
(* strategy taking its results along.  What the engine computes is in      *)
(* Backtest; it does not wait for anything between loading and saving.     *)
(***************************************************************************)
EXTENDS Integers, FiniteSets

CONSTANTS
  Jobs,         \* ids of jobs
  MaxVersions,  \* bound: versions of the strategy
  MaxResets,    \* bound: restarts of the server
  PageSize      \* limit of a list of results

JobsAssumption == {MaxVersions, MaxResets, PageSize} \subseteq Nat \ {0}

VARIABLES
  versions,  \* how many versions the strategy has, 0 if there is none
  jobs,      \* _backtest_jobs
  tasks,     \* where the task of each job is
  results,   \* strategy_backtests: the version and the place in time of each
  clock,     \* how many rows were saved
  resets,    \* restarts so far
  gone,      \* history: jobs whose result was removed
  unsure     \* history: jobs that broke off while their row was written

vars == <<versions, jobs, tasks, results, clock, resets, gone, unsure>>

NoJob    == [status |-> "none", version |-> 0]
NoResult == [version |-> 0, at |-> 0]
Has(j)   == results[j] # NoResult

Becomes(j, status) == jobs' = [jobs EXCEPT ![j].status = status]
Goes(j, at)        == tasks' = [tasks EXCEPT ![j] = at]
Ends(j, status)    == Becomes(j, status) /\ Goes(j, "none")
-----------------------------------------------------------------------------
(* submit_backtest_job(): the version asked for, be there one or not, or   *)
(* the current one.                                                        *)
Submit(j, requested) ==
  /\ versions > 0 /\ jobs[j] = NoJob /\ ~Has(j) /\ j \notin gone
  /\ jobs' = [jobs EXCEPT ![j] =
                [status |-> "pending", version |-> IF requested = 0 THEN versions ELSE requested]]
  /\ Goes(j, "starts")
  /\ UNCHANGED <<versions, results, clock, resets, gone, unsure>>

(* _execute_backtest_job(): the job runs, and the strategy is looked up.   *)
Begin(j) ==
  /\ tasks[j] = "starts" /\ Becomes(j, "running") /\ Goes(j, "looks up")
  /\ UNCHANGED <<versions, results, clock, resets, gone, unsure>>

(* run_backtest() of the service: the version of that number.              *)
ResolveVersion(j) ==
  /\ tasks[j] = "looks up" /\ jobs[j].version <= versions /\ Goes(j, "loads")
  /\ UNCHANGED <<versions, jobs, results, clock, resets, gone, unsure>>

NotFound(j) ==
  /\ tasks[j] = "looks up" /\ jobs[j].version > versions /\ Ends(j, "failed")
  /\ UNCHANGED <<versions, results, clock, resets, gone, unsure>>

(* The candles are there and the strategy is run on them, or it raises.    *)
RunBacktest(j) ==
  /\ tasks[j] = "loads" /\ Goes(j, "saves")
  /\ UNCHANGED <<versions, jobs, results, clock, resets, gone, unsure>>

BacktestFails(j) ==
  /\ tasks[j] \in {"looks up", "loads"} /\ Ends(j, "failed")
  /\ UNCHANGED <<versions, results, clock, resets, gone, unsure>>

(* save(): the row needs its strategy and its version.                     *)
Written(j) == [results EXCEPT ![j] = [version |-> jobs[j].version, at |-> clock + 1]]

Save(j) ==
  /\ tasks[j] = "saves" /\ jobs[j].version <= versions
  /\ Goes(j, "saved") /\ results' = Written(j) /\ clock' = clock + 1
  /\ UNCHANGED <<versions, jobs, resets, gone, unsure>>

SaveFails(j) ==
  /\ tasks[j] = "saves" /\ Ends(j, "failed")
  /\ UNCHANGED <<versions, results, clock, resets, gone, unsure>>

(* The row is written, and its answer reaches the job or does not.         *)
Complete(j) ==
  /\ tasks[j] = "saved" /\ Ends(j, "completed")
  /\ UNCHANGED <<versions, results, clock, resets, gone, unsure>>

LosesAnswer(j) ==
  /\ tasks[j] = "saved" /\ Ends(j, "failed") /\ unsure' = unsure \union {j}
  /\ UNCHANGED <<versions, results, clock, resets, gone>>
-----------------------------------------------------------------------------
(* What a client is told of a job; and of the results, those that a list   *)
(* shows, the newest first.  One or some of them are removed.              *)
JobStatus(j) == IF jobs[j] = NoJob THEN "not found" ELSE jobs[j].status

Shown == {j \in Jobs : Has(j) /\ Cardinality({k \in Jobs : results[k].at > results[j].at}) < PageSize}

Removed(js) ==
  /\ results' = [j \in Jobs |-> IF j \in js THEN NoResult ELSE results[j]]
  /\ gone' = gone \union {j \in js : Has(j)}

DeleteSavedBacktest(j) ==
  /\ j \in Shown /\ Removed({j})
  /\ UNCHANGED <<versions, jobs, tasks, clock, resets, unsure>>

BulkDeleteBacktests(js) ==
  /\ js \subseteq Shown /\ js # {} /\ Removed(js)
  /\ UNCHANGED <<versions, jobs, tasks, clock, resets, unsure>>

(* Beside them: a version is created, or the strategy is deleted.          *)
VersionCreated ==
  /\ versions \in 1 .. MaxVersions - 1 /\ versions' = versions + 1
  /\ UNCHANGED <<jobs, tasks, results, clock, resets, gone, unsure>>

StrategyDeleted ==
  /\ versions > 0 /\ versions' = 0 /\ Removed(Jobs)
  /\ UNCHANGED <<jobs, tasks, clock, resets, unsure>>

(* The server is started again: it knows no job, and a row that was being  *)
(* written is there or is not.                                             *)
Restart ==
  /\ resets < MaxResets /\ resets' = resets + 1
  /\ jobs' = [j \in Jobs |-> NoJob] /\ tasks' = [j \in Jobs |-> "none"]
  /\ LET writing == {j \in Jobs : tasks[j] = "saves" /\ jobs[j].version <= versions} IN
     \E js \in SUBSET writing :
       /\ results' = [j \in Jobs |-> IF j \in js THEN Written(j)[j] ELSE results[j]]
       /\ clock' = IF js = {} THEN clock ELSE clock + 1
       /\ unsure' = unsure \union writing \union {j \in Jobs : tasks[j] = "saved"}
  /\ UNCHANGED <<versions, gone>>
-----------------------------------------------------------------------------
Init ==
  /\ versions = 1 /\ clock = 0 /\ resets = 0 /\ gone = {} /\ unsure = {}
  /\ jobs = [j \in Jobs |-> NoJob] /\ tasks = [j \in Jobs |-> "none"]
  /\ results = [j \in Jobs |-> NoResult]

Execute(j) ==
  \/ Begin(j) \/ ResolveVersion(j) \/ NotFound(j) \/ RunBacktest(j) \/ BacktestFails(j)
  \/ Save(j) \/ SaveFails(j) \/ Complete(j) \/ LosesAnswer(j)

Next ==
  \/ \E j \in Jobs : \/ Execute(j) \/ DeleteSavedBacktest(j)
                     \/ \E v \in 0 .. MaxVersions : Submit(j, v)
  \/ \E js \in SUBSET Jobs : BulkDeleteBacktests(js)
  \/ VersionCreated \/ StrategyDeleted \/ Restart

JobsSpec == Init /\ [][Next]_vars
-----------------------------------------------------------------------------
TypeOK ==
  /\ versions \in 0 .. MaxVersions /\ resets \in 0 .. MaxResets /\ clock \in Nat
  /\ \A j \in Jobs : /\ jobs[j].status \in {"none", "pending", "running", "completed", "failed"}
                     /\ jobs[j].version \in 0 .. MaxVersions
                     /\ tasks[j] \in {"none", "starts", "looks up", "loads", "saves", "saved"}
                     /\ results[j].version \in 0 .. MaxVersions
  /\ {gone, unsure} \subseteq SUBSET Jobs

(* A job is called completed only when its result of the version it names  *)
(* is in the table, or was removed since; a job called failed has none,    *)
(* unless the answer to its row was lost; and a job that is neither has a  *)
(* task that goes on (strategy_backtest.py:292).                           *)
JobsTellTheirResults ==
  \A j \in Jobs :
    /\ JobStatus(j) = "completed" => Has(j) \/ j \in gone
    /\ JobStatus(j) \in {"pending", "failed"} => ~Has(j) \/ j \in unsure
    /\ JobStatus(j) # "not found" /\ Has(j) => results[j].version = jobs[j].version
    /\ JobStatus(j) \in {"pending", "running"} <=> tasks[j] # "none"
=============================================================================
