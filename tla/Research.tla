------------------------------- MODULE Research -------------------------------
(***************************************************************************)
(* What is done with the recorded seconds besides trading: training sets   *)
(* are cut, entry points labelled, target values smoothed and stored,      *)
(* predictions stored, signals tested and models trained and served.  One  *)
(* of these is studied at a time (the constant-time choice of `study`);    *)
(* the pipeline goes on recording while it runs.                           *)
(***************************************************************************)
EXTENDS SignalBacktests, ModelFiles

CONSTANTS
  Seconds,   \* by study: what a second may bring, as <<close, has a vector>>
  MaxClock,  \* by study, a bound: seconds recorded
  Batch,     \* rows per UPDATE statement (5000)
  Ensemble,  \* ensemble_size
  Jobs       \* bound: target calculations and prediction tasks

VARIABLES
  study,      \* what is studied
  sets,       \* the samples of the splits, or none yet
  target,     \* target_value of each second's candle
  predicted,  \* predicted_value of each second's candle
  job,        \* the calculations and tasks
  outrun      \* history: calculations that more candles outran than they clear

jvars == <<target, predicted, job, outrun>>
rvars == <<study, world, sets, jvars, bt, fvars>>

Studies == {"ml", "tcn", "entry", "targets", "predictions", "backtests", "files",
            "serving"}

ASSUME ResearchAssumption ==
  /\ Seconds \in [Studies -> SUBSET (Nat \X BOOLEAN)] /\ MaxClock \in [Studies -> Nat]
  /\ {Batch, Ensemble} \subseteq Nat \ {0} /\ 0 \notin Jobs

NoSets  == [script |-> "none"]
NoValue == [by |-> 0]
NoJob   == [at |-> "none"]

Working(j) == job[j].at \notin {"none", "done"}

(* A bound: jobs are numbered in the order they begin.                     *)
InOrder(j) == \A i \in Jobs : i < j => job[i] # NoJob

(* A new candle, which outruns the calculations that have read already.    *)
Arrived == job' = [j \in Jobs |-> IF Working(j) THEN [job[j] EXCEPT !.late = @ + 1] ELSE job[j]]

(* The pipeline records a second.                                          *)
Record ==
  /\ clock < MaxClock[study] /\ bt = NoTest /\ sets = NoSets
  /\ \E s \in Seconds[study] :
       /\ clock' = clock + 1
       /\ close' = Append(close, s[1])
       /\ vector' = IF s[2] THEN vector \union {clock'} ELSE vector
       /\ IF s[1] = 0 THEN job' = job ELSE Arrived
  /\ target' = Append(target, NoValue) /\ predicted' = Append(predicted, NoValue)
  /\ UNCHANGED <<study, sets, outrun, bt, fvars>>

(* A gap job stores the candle of an earlier second.                       *)
Fill ==
  /\ study = "targets" /\ \E j \in Jobs : Working(j)
  /\ \E t \in 1..clock :
       close[t] = 0 /\ \E s \in Seconds[study] : s[1] # 0 /\ close' = [close EXCEPT ![t] = s[1]]
  /\ Arrived
  /\ UNCHANGED <<study, clock, vector, sets, target, predicted, outrun, bt, fvars>>
-----------------------------------------------------------------------------
(* A training script cuts its splits; a split without a sample ends it.    *)
Cut(script, splits, Samples(_, _)) ==
  LET S == [s \in {"train", "val", "test"} |-> Samples(splits[s][1], splits[s][2])]
  IN /\ study = script /\ sets = NoSets
     /\ S.train # {} /\ S.val # {}
     /\ sets' = [script |-> script, splits |-> S]
     /\ UNCHANGED <<study, world, jvars, bt, fvars>>

TrainSequences == Candles # {} /\ Cut("ml", LoaderSplits, SequenceSamples)
TrainTcn       == vector # {} /\ Cut("tcn", TcnSplits, TradingSamples)
TrainEntry     == Cut("entry", EntrySplits, EntrySamples)
-----------------------------------------------------------------------------
(* Target calculations: "route" is POST /target-values/calculate, "cli" is *)
(* recalculate_targets.  Each reads all candles of the symbol and stores   *)
(* the values from a second on, a batch of rows at a time; the route then  *)
(* clears the first and the last Width candles, as the table then is.      *)
BeginTargets(j) ==
  /\ study = "targets" /\ job[j] = NoJob /\ Candles # {} /\ InOrder(j)
  /\ \E by \in {"route", "cli"}, from \in {1, clock} :
       job' = [job EXCEPT ![j] = [at |-> "update", by |-> by, rows |-> Ordered(Candles),
                                  from |-> from, late |-> 0,
                                  next |-> IF by = "route" THEN 1
                                           ELSE 1 + Cardinality({t \in Candles : t < from})]]
  /\ UNCHANGED <<study, world, sets, target, predicted, outrun, bt, fvars>>

Goto(j, at) == job' = [job EXCEPT ![j].at = at]

UpdateTargets(j) ==
  /\ study = "targets" /\ job[j].at = "update"
  /\ LET k == job[j]
         batch == {i \in k.next..(k.next + Batch - 1) : i <= Len(k.rows) /\ k.rows[i] >= k.from}
         of(t) == CHOOSE i \in batch : k.rows[i] = t
     IN /\ target' = [t \in 1..clock |->
                        IF \E i \in batch : k.rows[i] = t
                          THEN [by |-> j, reads |-> Smoothed(k.rows, of(t))]
                          ELSE target[t]]
        /\ job' = [job EXCEPT ![j].next = @ + Batch,
                              ![j].at = IF k.next + Batch <= Len(k.rows) THEN "update"
                                        ELSE IF k.by = "cli" THEN "done" ELSE "first"]
  /\ UNCHANGED <<study, world, sets, predicted, outrun, bt, fvars>>

Clear(S) == target' = [t \in 1..clock |-> IF t \in S THEN NoValue ELSE target[t]]

ClearFirst(j) ==
  /\ study = "targets" /\ job[j].at = "first"
  /\ LET rows == Ordered(Candles) IN Clear({rows[i] : i \in 1..Min({Width, Len(rows)})})
  /\ Goto(j, "last")
  /\ UNCHANGED <<study, world, sets, predicted, outrun, bt, fvars>>

ClearHalf(j) ==
  /\ study = "targets" /\ job[j].at = "last"
  /\ LET rows == Ordered(Candles)
     IN Clear({rows[i] : i \in Max({1, Len(rows) - Shift + 1})..Len(rows)})
  /\ Goto(j, "done")
  /\ outrun' = IF job[j].late > Width - Shift THEN outrun \union {j} ELSE outrun
  /\ UNCHANGED <<study, world, sets, predicted, bt, fvars>>

ClearLast(j) ==
  /\ study = "targets" /\ job[j].at = "last"
  /\ LET rows == Ordered(Candles)
     IN Clear({rows[i] : i \in Max({1, Len(rows) - Width + 1})..Len(rows)})
  /\ Goto(j, "done")
  /\ outrun' = IF job[j].late > Width - Shift THEN outrun \union {j} ELSE outrun
  /\ UNCHANGED <<study, world, sets, predicted, bt, fvars>>
-----------------------------------------------------------------------------
(* _run_prediction_and_save: the vectors before the latest are read, each  *)
(* window predicts the second it ends at, the last Ensemble predictions    *)
(* are averaged, and the values are stored a batch at a time where there   *)
(* is a candle.                                                            *)
Predictions ==
  LET rows == Vectors
  IN [i \in Length..Len(rows) |-> Slice(rows, i - Length + 1, Length)]

AveragedAhead(p, i) ==
  UNION {p[k] : k \in i..Min({i + Ensemble - 1, Max(DOMAIN p)})}

Averaged(p, i) ==
  IF Cardinality(DOMAIN p) < Ensemble THEN p[i]
  ELSE UNION {p[k] : k \in Max({Length, i - Ensemble + 1})..i}

BeginPrediction(j) ==
  /\ study = "predictions" /\ job[j] = NoJob /\ Latest # 0 /\ InOrder(j)
  /\ \E t \in Candles : t < Latest
  /\ job' = [job EXCEPT ![j] = [at |-> "save", rows |-> Vectors, next |-> Length, late |-> 0,
                                values |-> [i \in DOMAIN Predictions |-> Averaged(Predictions, i)]]]
  /\ UNCHANGED <<study, world, sets, target, predicted, outrun, bt, fvars>>

SavePredictions(j) ==
  /\ study = "predictions" /\ job[j].at = "save"
  /\ LET k == job[j]
         batch == {i \in DOMAIN k.values : k.next <= i /\ i < k.next + Batch}
         of(t) == CHOOSE i \in batch : k.rows[i] = t
     IN /\ predicted' = [t \in 1..clock |->
                           IF t \in Candles /\ \E i \in batch : k.rows[i] = t
                             THEN [by |-> j, reads |-> k.values[of(t)]] ELSE predicted[t]]
        /\ job' = [job EXCEPT ![j].next = @ + Batch,
                              ![j].at = IF k.next + Batch <= Len(k.rows) THEN "save" ELSE "done"]
  /\ UNCHANGED <<study, world, sets, target, outrun, bt, fvars>>

TestSignals ==
  /\ study = "backtests"
  /\ \/ \E kind \in Tests : BeginTest(kind)
     \/ \E signal \in BOOLEAN : Decide(signal)
     \/ \E kind \in {"entry", "entry_script"} : EntryTest(kind)
  /\ UNCHANGED <<study, world, sets, jvars, fvars>>

TrainAndServe ==
  study \in {"files", "serving"} /\ FilesNext /\ UNCHANGED <<study, world, sets, jvars, bt>>
-----------------------------------------------------------------------------
ResearchInit ==
  /\ study \in Studies
  /\ clock = 0 /\ close = <<>> /\ vector = {}
  /\ sets = NoSets /\ target = <<>> /\ predicted = <<>>
  /\ job = [j \in Jobs |-> NoJob] /\ outrun = {}
  /\ bt = NoTest /\ FilesInit

ResearchNext ==
  \/ Record \/ Fill \/ TrainSequences \/ TrainTcn \/ TrainEntry
  \/ \E j \in Jobs : \/ BeginTargets(j) \/ UpdateTargets(j) \/ ClearFirst(j) \/ ClearLast(j)
                     \/ BeginPrediction(j) \/ SavePredictions(j)
  \/ TestSignals \/ TrainAndServe

ResearchSpec == ResearchInit /\ [][ResearchNext]_rvars

ResearchTypeOK ==
  /\ study \in Studies /\ clock \in 0..MaxClock[study]
  /\ close \in [1..clock -> Nat] /\ vector \subseteq 1..clock
  /\ outrun \subseteq Jobs /\ DOMAIN target = 1..clock /\ DOMAIN predicted = 1..clock
-----------------------------------------------------------------------------
(* No second that a sample of one split is made of, its label included, is *)
(* as late as one of the split after it: what is validated on was not      *)
(* learned.  Every sample's own input ends where its label begins.         *)
SplitsDoNotTouch ==
  sets # NoSets =>
    LET Parts(s) == sets.splits[s]
        Before(a, b) ==
          \A x \in Parts(a), y \in Parts(b) :
            \A s \in x.inputs \union x.label, t \in y.inputs \union y.label : s < t
    IN /\ Before("train", "val") /\ Before("val", "test") /\ Before("train", "test")
       /\ \A s \in DOMAIN sets.splits : \A x \in Parts(s) : Max(x.inputs) = Min(x.label)

(* The label of an entry is the one a trade would earn: 1 when the gain is *)
(* reached within LookAhead rows and before the loss, 0 when the loss is   *)
(* reached first.                                                          *)
LabelsAreTrue ==
  sets # NoSets /\ sets.script = "entry" =>
    \A s \in DOMAIN sets.splits : \A x \in sets.splits[s] :
      LET rows == Ordered(x.label)
          Reached(Op(_, _)) == {k \in 2..Len(rows) : Op(close[rows[1]], close[rows[k]])}
          ups == Reached(Gains)  downs == Reached(Loses)
      IN IF x.enters = 1 THEN ups # {} /\ \A k \in downs : Min(ups) < k
         ELSE downs # {} /\ \A k \in ups : Min(downs) < k

(* What a model learns and is judged by.                                   *)
SamplesAreSound == SplitsDoNotTouch /\ LabelsAreTrue

(* When no calculation runs, no bare close stands as the route's smoothed  *)
(* value at an edge of what it read: it cleared as many rows as it left    *)
(* bare, and more, however many batches it took; unless more candles came  *)
(* between its read and its last statement than half a window.             *)
TargetsAreSmoothed ==
  (\A j \in Jobs : ~Working(j)) =>
    \A t \in DOMAIN target :
      target[t] # NoValue /\ job[target[t].by].by = "route" /\ target[t].by \notin outrun =>
        Cardinality(target[t].reads) = Width

(* Predictions stored for a second come from no later second, and what a   *)
(* backtest opens a position on from earlier ones, unless the vectors its  *)
(* script lays over the candles are not theirs.                            *)
NothingLooksAhead ==
  /\ SignalsLookBack
  /\ \A t \in DOMAIN predicted :
       predicted[t] # NoValue => \A s \in predicted[t].reads : s <= t
=============================================================================
