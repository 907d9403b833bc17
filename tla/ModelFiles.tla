------------------------------ MODULE ModelFiles ------------------------------
(***************************************************************************)
(* Trainings of ml.train (Trainer, EarlyStopping), the files they write,   *)
(* and the API's cache of loaded models (routes/ml.py _load_model).  A     *)
(* training is a process of its own; the server and other trainings run    *)
(* between any two of its file operations.  Weights are told apart by the  *)
(* training and the epoch they come from, normalisation parameters by the  *)
(* training that computed them.                                            *)
(***************************************************************************)
EXTENDS Integers, Sequences, FiniteSets

CONSTANTS
  Runs,       \* trainings
  Types,      \* model types
  Resumable,  \* the type whose weights hold feature_proj (cnn_gru)
  Losses,     \* validation losses, best first
  Patience,   \* epochs without a better loss before early stopping
  MaxEpochs,  \* config.training.epochs
  Days        \* bound: days that pass

ASSUME FilesAssumption ==
  /\ Resumable \in Types /\ Losses \subseteq Nat \ {0} /\ Patience \in Nat \ {0}
  /\ 0 \notin Runs /\ MaxEpochs \in Nat /\ Days \in Nat \ {0}

VARIABLES
  run,         \* each training
  day,         \* model files are named by the day
  shared,      \* save_dir/norm_params.npz: whose parameters, 0 when absent
  checkpoint,  \* save_dir/checkpoint.pt
  files,       \* the best models: weights by type and day
  norms,       \* norm_params.npz of each type's directory
  loading,     \* what the server has read of the model it is loading
  cache,       \* _model_cache
  met,         \* history: pairs of trainings that ran at the same time
  rivals       \* history: pairs whose best models bore one name

fvars == <<run, day, shared, checkpoint, files, norms, loading, cache, met, rivals>>

NaN == 0
Less(a, b) == a # NaN /\ b # NaN /\ a < b

Weights(r, epoch) == [run |-> r, epoch |-> epoch]
NoWeights == Weights(0, 0)
NoRun == [at |-> "new"]
Alive(r) == run[r].at \notin {"new", "done", "dead"}
Becomes(r, next) == run' = [run EXCEPT ![r] = next]
At(r, at) == run[r].at = at
Goes(r, at) == Becomes(r, [run[r] EXCEPT !.at = at])

Unset == [loss |-> NaN, set |-> FALSE]
NoName == <<>>
NotLoaded == [weights |-> NoWeights, norm |-> -1]

(* Trainer.__init__ and setup_data: the parameters are written where every *)
(* training writes them.  Trainings are numbered in the order they begin.  *)
Setup(r, type) ==
  /\ run[r] = NoRun /\ \A s \in Runs : s < r => run[s] # NoRun
  /\ Becomes(r, [at |-> "epoch", type |-> type, epoch |-> 1,
                 best |-> Unset, improved |-> FALSE, path |-> NoName, stop |-> Unset,
                 counter |-> 0, last |-> NaN, ideal |-> [loss |-> NaN, epoch |-> 0],
                 tested |-> NoWeights])
  /\ shared' = r
  /\ met' = met \union {{r, s} : s \in {s \in Runs : Alive(s)}}
  /\ UNCHANGED <<day, checkpoint, files, norms, loading, cache, rivals>>

FilesUnchanged == UNCHANGED <<day, shared, checkpoint, files, norms, loading, cache, met, rivals>>

(* train(resume_from): the checkpoint of whichever training wrote it last; *)
(* its loss, not the best one, is the loss to beat.                        *)
Resume(r) ==
  /\ At(r, "epoch") /\ run[r].epoch = 1
  /\ checkpoint.run # 0 /\ run[r].type = Resumable /\ run[checkpoint.run].type = Resumable
  /\ checkpoint.epoch < MaxEpochs
  /\ Becomes(r, [run[r] EXCEPT !.epoch = checkpoint.epoch + 1,
                               !.best = [loss |-> checkpoint.loss, set |-> TRUE]])
  /\ FilesUnchanged

NotWorse(t, loss) == IF t.best.set THEN ~Less(t.best.loss, loss) ELSE loss # NaN

Improves(t, loss) == IF t.best.set THEN Less(loss, t.best.loss) ELSE loss # NaN

(* EarlyStopping: only a comparison that holds counts, so a loss that is   *)
(* not a number becomes the best and begins the count anew.                *)
Worse(t, loss) == t.stop.set /\ (loss # NaN /\ t.stop.loss # NaN /\ loss >= t.stop.loss)

EarlyStopping(t, loss) ==
  IF Worse(t, loss) THEN [t EXCEPT !.counter = @ + 1]
  ELSE [t EXCEPT !.stop = [loss |-> loss, set |-> TRUE],
                 !.counter = IF t.stop.set THEN 0 ELSE @]

Epoch(r) ==
  /\ At(r, "epoch") /\ run[r].epoch <= MaxEpochs
  /\ \E loss \in Losses \union {NaN} :
       LET t == run[r]  better == Improves(t, loss)
       IN Becomes(r, [t EXCEPT !.at = "checkpoint", !.last = loss, !.improved = better,
                               !.ideal = IF loss # NaN /\ (@.epoch = 0 \/ loss < @.loss)
                                           THEN [loss |-> loss, epoch |-> t.epoch] ELSE @,
                               !.best = IF better THEN [loss |-> loss, set |-> TRUE] ELSE @])
  /\ FilesUnchanged

(* save_checkpoint: the last weights, then the best ones under the day's   *)
(* name, then the parameters as they now lie in save_dir beside them.      *)
SaveCheckpoint(r) ==
  /\ At(r, "checkpoint")
  /\ LET t == run[r]
     IN checkpoint' = [run |-> r, epoch |-> t.epoch, loss |-> t.last]
  /\ Goes(r, IF run[r].improved THEN "best" ELSE "judge")
  /\ UNCHANGED <<day, shared, files, norms, loading, cache, met, rivals>>

Name(r) == <<run[r].type, day>>

(* The trainings whose best model bears the name that r is to write to.    *)
Namesakes(r) ==
  {s \in Runs \ {r} : run[s].at \notin {"new", "dead"} /\ run[s].path = Name(r)}

SaveBest(r) ==
  /\ At(r, "best")
  /\ files' = [files EXCEPT ![Name(r)] = Weights(r, run[r].epoch)]
  /\ rivals' = rivals \union {{r, s} : s \in Namesakes(r)}
  /\ Becomes(r, [run[r] EXCEPT !.at = "norm", !.path = Name(r)])
  /\ UNCHANGED <<day, shared, checkpoint, norms, loading, cache, met>>

CopyNorm(r) ==
  /\ At(r, "norm")
  /\ norms' = [norms EXCEPT ![run[r].type] = shared]
  /\ Goes(r, "judge")
  /\ UNCHANGED <<day, shared, checkpoint, files, loading, cache, met, rivals>>

Judge(r) ==
  /\ At(r, "judge")
  /\ LET t == EarlyStopping(run[r], run[r].last)
         ends == t.counter >= Patience \/ t.epoch >= MaxEpochs
     IN Becomes(r, [t EXCEPT !.at = IF ends THEN "test" ELSE "epoch", !.epoch = @ + 1])
  /\ FilesUnchanged

(* The final evaluation is of the best model as it lies on disk, or of the *)
(* last weights when this training has saved none.                         *)
Test(r) ==
  /\ At(r, "test")
  /\ Becomes(r, [run[r] EXCEPT !.at = "done", !.stop = Unset, !.best = Unset, !.counter = 0,
                    !.improved = FALSE, !.last = NaN, !.tested = IF run[r].path = NoName THEN Weights(r, run[r].epoch - 1)
                               ELSE files[run[r].path]])
  /\ FilesUnchanged

Killed(r) ==
  Alive(r) /\ Becomes(r, [at |-> "dead", type |-> run[r].type]) /\ FilesUnchanged
-----------------------------------------------------------------------------
(* _load_model: the weights, then the parameters that lie beside them; the *)
(* pair is kept until the server restarts.                                 *)
LoadWeights(n) ==
  /\ loading = NoName /\ cache[n] = NotLoaded /\ files[n] # NoWeights
  /\ loading' = [name |-> n, weights |-> files[n]]
  /\ UNCHANGED <<run, day, shared, checkpoint, files, norms, cache, met, rivals>>

LoadNorm ==
  /\ loading # NoName
  /\ cache' = [cache EXCEPT ![loading.name] =
                 [weights |-> loading.weights, norm |-> norms[loading.name[1]]]]
  /\ loading' = NoName
  /\ UNCHANGED <<run, day, shared, checkpoint, files, norms, met, rivals>>

Restart ==
  /\ \E n \in DOMAIN cache : cache[n] # NotLoaded
  /\ cache' = [n \in DOMAIN cache |-> NotLoaded] /\ loading' = NoName
  /\ UNCHANGED <<run, day, shared, checkpoint, files, norms, met, rivals>>

(* Midnight comes while there is a training, a bound: between its epochs.  *)
Midnight ==
  /\ day < Days /\ day' = day + 1
  /\ \E r \in Runs : Alive(r)
  /\ \A r \in Runs : Alive(r) => At(r, "epoch")
  /\ UNCHANGED <<run, shared, checkpoint, files, norms, loading, cache, met, rivals>>

FilesInit ==
  /\ run = [r \in Runs |-> NoRun] /\ day = 1 /\ shared = 0
  /\ checkpoint = [run |-> 0, epoch |-> 0, loss |-> NaN]
  /\ files = [n \in Types \X (1..Days) |-> NoWeights]
  /\ norms = [t \in Types |-> 0] /\ loading = NoName
  /\ cache = [n \in Types \X (1..Days) |-> NotLoaded]
  /\ met = {} /\ rivals = {}

Training(r) ==
  \/ \E type \in Types : Setup(r, type)
  \/ Resume(r) \/ Epoch(r) \/ SaveCheckpoint(r) \/ SaveBest(r) \/ CopyNorm(r)
  \/ Judge(r) \/ Test(r) \/ Killed(r)

FilesNext ==
  \/ \E r \in Runs : Training(r)
  \/ \E n \in DOMAIN files : LoadWeights(n)
  \/ LoadNorm \/ Restart \/ Midnight
-----------------------------------------------------------------------------
(* What a training evaluates in the end is its best epoch, the first of    *)
(* equals, whatever it was resumed from; or its last when none improved;   *)
(* or the weights of another whose best model bore the same name.          *)
TestsItsBest ==
  \A r \in Runs :
    At(r, "done") =>
      LET t == run[r]  w == t.tested
      IN \/ w.run # r /\ {r, w.run} \in rivals
         \/ w.run = r /\ w.epoch = IF t.path = NoName THEN t.epoch - 1 ELSE t.ideal.epoch

(* A model is served with the parameters of its own training, or with none *)
(* (loaded before they were copied), unless another training of its type   *)
(* has been there, or one that ran beside such a training.                 *)
ServedAsTrained ==
  \A n \in DOMAIN cache :
    cache[n] # NotLoaded =>
      LET m == cache[n].norm
      IN \/ m \in {0, cache[n].weights.run}
         \/ \E c \in Runs : /\ run[c].at # "new" /\ run[c].type = n[1]
                            /\ c = m \/ {c, m} \in met

(* The file kept is the best one, and it is used as it was made.           *)
FilesAreTheirs == TestsItsBest /\ ServedAsTrained
=============================================================================
