----------------------------- MODULE Experiment -----------------------------
(***************************************************************************)
(* Running the training scripts: one script at a time, started by hand or  *)
(* by run_all (every stage in a process of its own), over data that grows  *)
(* between runs, with derived files (manifest, window index, feature       *)
(* matrices, cached indexes, checkpoints) that are rebuilt only when       *)
(* someone does.  A script runs its plan step by step; its process may be  *)
(* killed at any step, which loses the rows it has not yet logged.         *)
(***************************************************************************)
EXTENDS Ml2Plans

CONSTANTS
  InitialSessions,  \* the sessions recorded when the derived files were built
  LaterSessions,    \* sessions that may be recorded between runs
  Orders,           \* orders the random permutations may produce
  Devices,          \* number of GPUs
  Schedules,        \* the scripts started by hand, in order: one of these
  MaxKills          \* bound on the processes killed and the folds out of memory

\* The scripts that may be started by hand.
Scripts ==
  {"run_stage1", "train", "run_stage2", "run_stage2_openset", "run_taskD_focus",
   "run_taskD_segment_aggregation", "run_taskD_crossattn_cv", "run_fewshot_finetune",
   "train_final_model", "run_day2_sweep", "train_day3_ch6_model", "train_caution_protonet",
   "compare_receiver_fusion", "eval_day3ch6_holdout", "cross_day_drift",
   "train_live_checkpoints"} \cup ToSet(STAGES)

ASSUME ExperimentAssumption ==
  /\ Devices \in Nat \ {0} /\ MaxKills \in Nat
  /\ InitialSessions \cup LaterSessions \subseteq DOMAIN Label
  /\ Schedules \subseteq Seq(Scripts \cup {"run_all"})

VARIABLES
  sessions,  \* recorded sessions
  files,     \* the derived files, see Files
  order,     \* the order of the random permutations
  script,    \* the running script, "" if none
  todo,      \* the steps it still has to do
  mem,       \* rows it has evaluated and not logged yet
  pool,      \* the folds being run in parallel, see NoPool
  stages,    \* scripts run_all has still to start
  all,       \* whether run_all is running
  failures,  \* stages of the current run_all that failed
  have,      \* <<log file, split_type>> of the rows in the ml_2 log files
  table,     \* those of them the last backtest summarised
  queue,     \* scripts still to be started by hand
  kills      \* processes killed and folds out of memory so far

vars == <<sessions, files, order, script, todo, mem, pool, stages, all,
          failures, have, table, queue, kills>>

\* The derived files of a set of sessions.
ManifestOf(S) ==
  ForEach(Sorted(S), LAMBDA s : [j \in 1 .. Len(Macs[s]) |-> <<s, Macs[s][j]>>])
IndexOf(manifest) ==
  WindowIndex(Chosen(manifest, LAMBDA r : Len(Macs[r[1]]) = 1))
Files(S) ==
  [manifest |-> ManifestOf(S), index |-> IndexOf(ManifestOf(S)), X |-> IndexOf(ManifestOf(S)),
   calibB |-> <<>>, X2 |-> <<>>, cache |-> {}, ships |-> {}]

c == [index |-> files.index, X |-> files.X, manifest |-> files.manifest, order |-> order,
      calibB |-> files.calibB, cache |-> files.cache, ships |-> files.ships,
      sessions |-> sessions, X2 |-> files.X2]

Plan(s) ==
  CASE s = "run_stage1" -> RunStage1(c)
    [] s = "train" -> Train(c)
    [] s = "run_stage2" -> RunStage2(c)
    [] s = "run_stage2_openset" -> RunStage2Openset(c)
    [] s = "run_taskD_focus" -> RunTaskDFocus(c)
    [] s = "run_taskD_segment_aggregation" -> RunTaskDSegmentAggregation(c)
    [] s = "run_taskD_crossattn_cv" -> RunTaskDCrossattnCv(c)
    [] s = "run_fewshot_finetune" -> RunFewshotFinetune(c)
    [] s = "train_final_model" -> TrainFinalModel(c)
    [] s = "run_day2_sweep" -> RunDay2Sweep(c)
    [] s = "train_day3_ch6_model" -> TrainDay3Ch6Model(c)
    [] s = "train_caution_protonet" -> TrainCautionProtonet(c)
    [] s = "compare_receiver_fusion" -> CompareReceiverFusion(c)
    [] s = "eval_day3ch6_holdout" -> EvalDay3Ch6Holdout(c)
    [] s = "cross_day_drift" -> CrossDayDrift(c)
    [] s = "train_live_checkpoints" -> TrainLiveCheckpoints(c)
    [] s = "train_gbm" -> TrainGbm(c)
    [] s = "train_cusum" -> TrainCusum(c)
    [] s = "train_svm_gait" -> TrainSvmGait(c)
    [] s = "train_generative_hard_negative" -> TrainGenerativeHardNegative(c)
    [] s = "train_contrastive" -> TrainContrastive(c)
    [] s = "train_prototypical" -> TrainPrototypical(c)
    [] s = "train_arcface" -> TrainArcface(c)
    [] s = "train_transformer_gpu" -> TrainTransformerGpu(c)
    [] s = "train_extra_classifiers_gpu" -> TrainExtraClassifiersGpu(c)
    [] s = "train_receiver_fusion_gpu" -> TrainReceiverFusionGpu(c)
    [] s = "train_maml" -> TrainMaml(c)

NoPool == [rows |-> <<>>, file |-> "", next |-> 1, running |-> {}, done |-> {}, broken |-> {}]

Init ==
  /\ sessions = InitialSessions
  /\ files = Files(InitialSessions)
  /\ order \in Orders
  /\ script = "" /\ todo = <<>> /\ mem = <<>> /\ pool = NoPool
  /\ stages = <<>> /\ all = FALSE /\ failures = {}
  /\ have = {} /\ table = {}
  /\ queue \in Schedules /\ kills = 0

------------------------------------------------------------------------------
(* Between scripts *)

Idle == script = "" /\ ~all

\* Another session is recorded.
Record ==
  /\ Idle
  /\ \E s \in LaterSessions \ sessions : sessions' = sessions \cup {s}
  /\ UNCHANGED <<files, order, script, todo, mem, pool, stages, all, failures,
                 have, table, queue, kills>>

Rebuild(new) ==
  /\ Idle /\ new # files
  /\ files' = new
  /\ UNCHANGED <<sessions, order, script, todo, mem, pool, stages, all, failures,
                 have, table, queue, kills>>

\* build_manifest, windowing and features: each from what is there now.
BuildManifest == Rebuild([files EXCEPT !.manifest = ManifestOf(sessions)])
BuildWindows  == Rebuild([files EXCEPT !.index = IndexOf(files.manifest)])
BuildFeatures == Rebuild([files EXCEPT !.X = BuildFeatureMatrix(files.index)])

Begin(s) ==
  /\ script' = s /\ todo' = Plan(s)
  /\ UNCHANGED mem

Start ==
  /\ Idle /\ queue # <<>> /\ Head(queue) # "run_all"
  /\ queue' = Tail(queue)
  /\ Begin(Head(queue))
  /\ UNCHANGED <<sessions, files, order, pool, stages, all, failures, have, table, kills>>

------------------------------------------------------------------------------
(* run_all: the stages in order, whatever becomes of them, then the backtest *)

RunAll ==
  /\ Idle /\ queue # <<>> /\ Head(queue) = "run_all"
  /\ queue' = Tail(queue)
  /\ all' = TRUE /\ stages' = STAGES /\ failures' = {}
  /\ UNCHANGED <<sessions, files, order, script, todo, mem, pool, have, table, kills>>

\* Mutant: a stage that failed is the last one before the backtest.
NextStageUnlessFailed ==
  /\ all /\ script = "" /\ stages # <<>>
  /\ IF failures = {} THEN Begin(Head(stages)) /\ stages' = Tail(stages)
     ELSE stages' = <<>> /\ UNCHANGED <<script, todo, mem>>
  /\ UNCHANGED <<sessions, files, order, pool, all, failures, have, table, queue, kills>>

\* The next stage runs whatever became of the one before.
NextStage ==
  /\ all /\ script = "" /\ stages # <<>>
  /\ Begin(Head(stages)) /\ stages' = Tail(stages)
  /\ UNCHANGED <<sessions, files, order, pool, all, failures, have, table, queue, kills>>

\* Rows without a split_type fall out of the groups; without any row that has
\* one, the grouping raises, which is one more failure.
Summary == {h \in have : h[2] # ""}
Backtest ==
  /\ all /\ script = "" /\ stages = <<>>
  /\ table' = IF Summary = {} THEN table ELSE Summary
  /\ failures' = IF Summary = {} THEN failures \cup {"backtest_all"} ELSE failures
  /\ all' = FALSE
  /\ UNCHANGED <<sessions, files, order, script, todo, mem, pool, stages, have,
                 queue, kills>>

------------------------------------------------------------------------------
(* The steps of a script *)

Now(op) == script # "" /\ todo # <<>> /\ Head(todo).op = op
Kept == UNCHANGED <<sessions, order, stages, all, queue, kills>>

Evaluate ==
  /\ Now("eval")
  /\ mem' = Append(mem, Head(todo).row) /\ todo' = Tail(todo)
  /\ Kept /\ UNCHANGED <<files, script, pool, failures, have, table>>

\* Only the log files backtest_all reads are followed further; that of the
\* generative script has no split_type column.
Ml2Logs == {"svm_gait_log", "gbm_log", "prototypical_log", "arcface_log", "transformer_gpu_log",
            "receiver_fusion_gpu_log", "cusum_log", "contrastive_log", "maml_log",
            "generative_hard_negative_log"}
SplitType(file, row) == IF file = "generative_hard_negative_log" THEN "" ELSE row.stage

Log ==
  /\ Now("log")
  /\ mem' = <<>> /\ todo' = Tail(todo)
  /\ LET file == Head(todo).file
     IN  have' = IF file \in Ml2Logs
                 THEN have \cup {<<file, SplitType(file, row)>> : row \in ToSet(mem)} ELSE have
  /\ Kept /\ UNCHANGED <<files, script, pool, failures, table>>

\* Printed rows are not logged.
Print_ ==
  /\ Now("show")
  /\ todo' = Tail(todo)
  /\ Kept /\ UNCHANGED <<files, script, mem, pool, failures, have, table>>

Save ==
  /\ script # "" /\ todo # <<>>
  /\ LET st == Head(todo)
     IN  \/ /\ st.op = "save_X2"    /\ files' = [files EXCEPT !.X2 = st.X]
         \/ /\ st.op = "save_calibB" /\ files' = [files EXCEPT !.calibB = files.index]
         \/ /\ st.op = "save_index"
            /\ files' = [files EXCEPT !.cache = @ \cup {[key |-> st.key, index |-> st.index]}]
         \/ /\ st.op = "ship"
            /\ files' = [files EXCEPT !.ships =
                 {s \in @ : <<s.task, s.script>> # <<st.task, st.script>>}
                 \cup {[task |-> st.task, script |-> st.script, rate |-> st.rate, fit |-> st.fit]}]
  /\ todo' = Tail(todo)
  /\ Kept /\ UNCHANGED <<script, mem, pool, failures, have, table>>

\* The best of the ablation by its score.
PickBest ==
  /\ Now("pick_best")
  /\ \E best \in T1Results : todo' = AfterPick(c, best)
  /\ Kept /\ UNCHANGED <<files, script, mem, pool, failures, have, table>>

End(failed) ==
  /\ script' = "" /\ todo' = <<>> /\ mem' = <<>> /\ pool' = NoPool
  /\ failures' = IF all /\ failed THEN failures \cup {script} ELSE failures
  /\ UNCHANGED <<files, have, table>>

Stop == (Now("raise") \/ Now("assert")) /\ End(TRUE) /\ Kept
Finish == script # "" /\ todo = <<>> /\ End(FALSE) /\ Kept

\* Killed, or out of the machine's memory: what is in memory is gone.
Kill ==
  /\ script # "" /\ kills < MaxKills
  /\ kills' = kills + 1
  /\ End(TRUE)
  /\ UNCHANGED <<sessions, order, stages, all, queue>>

------------------------------------------------------------------------------
(* run_folds_parallel: fold i is bound to GPU i mod n when it is submitted;  *)
(* as many threads as there are GPUs take the folds in order, whichever is   *)
(* free.  Two folds on one GPU may so run at a time, while another idles.    *)

Pooling == script # "" /\ pool # NoPool
PoolFrame == Kept /\ UNCHANGED <<files, script, failures, have, table>>

OpenPool ==
  /\ Now("pool") /\ pool = NoPool
  /\ IF Head(todo).rows = <<>> THEN todo' = Tail(todo) /\ pool' = pool
     ELSE /\ pool' = [NoPool EXCEPT !.rows = Head(todo).rows, !.file = Head(todo).file]
          /\ todo' = todo
  /\ PoolFrame /\ UNCHANGED mem

\* At most as many folds run at a time as there are devices.
TakeFold ==
  /\ Pooling /\ pool.next <= Len(pool.rows) /\ Cardinality(pool.running) < Devices
  /\ pool' = [pool EXCEPT !.next = @ + 1, !.running = @ \cup {pool.next}]
  /\ PoolFrame /\ UNCHANGED <<todo, mem>>

Ended(i, raised) ==
  pool' = [pool EXCEPT !.running = @ \ {i}, !.done = @ \cup {i},
             !.broken = IF raised THEN @ \cup {i} ELSE @]

\* A fold with nothing to fit or test raises in its thread.
FinishFold ==
  /\ Pooling
  /\ \E i \in pool.running : Ended(i, Empty(pool.rows[i]))
  /\ PoolFrame /\ UNCHANGED <<todo, mem>>

DeviceOf(i) == (i - 1) % Devices
SharesDevice(i) == \E j \in pool.running \ {i} : DeviceOf(j) = DeviceOf(i)

\* A fold that shares its GPU may find too little memory left there and raises.
OutOfMemory ==
  /\ Pooling /\ kills < MaxKills
  /\ \E i \in pool.running : SharesDevice(i) /\ Ended(i, TRUE)
  /\ kills' = kills + 1
  /\ UNCHANGED <<sessions, files, order, script, todo, mem, stages, all,
                 failures, have, table, queue>>

\* results[futures[future]] = ...: by fold, in whatever order they ended.
Results(p) == p.rows

\* Mutant: a fold that raised is waited for again.
ClosePoolWaiting ==
  /\ Pooling /\ pool.done = DOMAIN pool.rows /\ pool.broken = {}
  /\ todo' = ForEach(Results(pool), LAMBDA row : Eval(row) \o LogRows(pool.file)) \o Tail(todo)
  /\ pool' = NoPool
  /\ PoolFrame /\ UNCHANGED mem

\* The pool waits for all its folds; one exception loses them all.
ClosePool ==
  /\ Pooling /\ pool.done = DOMAIN pool.rows
  /\ IF pool.broken # {} THEN todo' = Raise
     ELSE todo' = ForEach(Results(pool), LAMBDA row : Eval(row) \o LogRows(pool.file)) \o Tail(todo)
  /\ pool' = NoPool
  /\ PoolFrame /\ UNCHANGED mem

Step_ ==
  \/ Evaluate \/ Log \/ Print_ \/ Save \/ PickBest \/ Stop \/ Finish
  \/ OpenPool \/ TakeFold \/ FinishFold \/ ClosePool

Next ==
  \/ Record \/ BuildManifest \/ BuildWindows \/ BuildFeatures
  \/ Start \/ RunAll
  \/ NextStage \/ Backtest \/ Step_ \/ Kill \/ OutOfMemory

(* A running process gets on, and run_all with it.  Where the next step is *)
(* a whole plan, the weak fairness is spelled out with the guard, which is *)
(* all its enabledness depends on: TLC would compute the plan each time.   *)
Progress ==
  \/ Evaluate \/ Log \/ Print_ \/ Save \/ Stop \/ Finish
  \/ OpenPool \/ TakeFold \/ FinishFold \/ ClosePool \/ Backtest
Fairness ==
  /\ WF_vars(Progress)
  /\ <>[]Now("pick_best") => []<><<PickBest>>_vars
  /\ <>[](all /\ script = "" /\ stages # <<>>) => []<><<NextStage>>_vars
Spec == Init /\ [][Next]_vars /\ Fairness

------------------------------------------------------------------------------
(* Properties *)

\* The row just evaluated, and those being evaluated.
Current == (IF mem = <<>> THEN {} ELSE {Last(mem)}) \cup {pool.rows[i] : i \in pool.running}
Windows(pairs) == {p[1] : p \in pairs}
SessionsIn(pairs) == {Session(p[1]) : p \in pairs}

\* Scripts, plans and pool are consistent: folds are taken in order, each once,
\* and at most as many run at a time as there are devices.
TypeOK ==
  /\ sessions \subseteq DOMAIN Label
  /\ SessionsOf(files.index) \subseteq sessions
  /\ SessionsOf(files.X2) \cup SessionsOf(files.calibB) \subseteq sessions
  /\ \A ship \in files.ships : {Session(w) : w \in ship.fit} \subseteq sessions
  /\ script = "" => todo = <<>> /\ mem = <<>> /\ pool = NoPool
  /\ pool.running \cap pool.done = {} /\ pool.broken \subseteq pool.done
  /\ pool.running \cup pool.done = 1 .. pool.next - 1
  /\ Cardinality(pool.running) <= Devices
  /\ all => ToSet(stages) \subseteq ToSet(STAGES)
  /\ table \subseteq have /\ kills \in 0 .. MaxKills

(* The windows that made the predictions of a row: those fitted on, those  *)
(* thresholds were read off, those a pretraining saw.  Two things are left *)
(* out because the code does take them from the test set: the threshold of *)
(* six scripts is the equal-error point of the test scores, and contrastive *)
(* pretraining sees every window.                                          *)
CutsAtTest == {"train_svm_gait", "train_gbm", "train_cusum", "train_generative_hard_negative",
               "train_prototypical", "train_arcface"}
Seen(row) ==
  Windows(row.fit) \cup row.tune
  \cup (IF row.script \in CutsAtTest THEN {} ELSE row.cut)
  \cup (IF row.script = "train_contrastive" THEN {} ELSE row.pre)

(* What a row claims to measure it measures: no session that made it is    *)
(* tested, including the loops that assert nothing                         *)
(* (evaluate_taskD_day_disjoint, the day folds of ml_2,                    *)
(* eval_day3ch6_holdout).  The deliberately leaky row, the in-sample rows  *)
(* of final models and MAML's are excepted.                                *)
Disclosed == {"naive_random_LEAKY", "final", "in_sample", "cross_day_loo_with_calib"}
NoLeak ==
  \A row \in Current :
    row.stage \notin Disclosed =>
      {Session(w) : w \in Seen(row)} \cap SessionsIn(row.test) = {}

(* In a row that measures the rejection of strangers, the stranger of the  *)
(* fold is in the test set and no window of theirs, recorded on whatever   *)
(* day, made the model or its threshold.                                   *)
OpenStages == {"leave_one_unauth_person_out", "eval_loo", OpenStage}
StrangerUnseen ==
  \A row \in {r \in Current : r.stage \in OpenStages} :
    /\ \E p \in row.test : PersonOf(p[1]) = row.key
    /\ \A w \in Seen(row) : PersonOf(w) # row.key

(* The models of authorized walks alone are made without anyone else:      *)
(* enrolment, calibrated thresholds and one-class models use authorized    *)
(* windows only, and no threshold is calibrated on a window the centroids  *)
(* were taken from.                                                        *)
KnownOnly ==
  \A row \in Current :
    /\ \A w \in row.tune : LabelOf(w) = "authorized"
    /\ row.script \in {"train_caution_protonet", "train_prototypical", "train_arcface",
                       "train_cusum", "train_generative_hard_negative"} =>
         /\ \A w \in Windows(row.fit) : LabelOf(w) = "authorized"
         /\ Windows(row.fit) \cap row.tune = {}

(* Every logged rate has something to be the rate of: the stranger and day *)
(* rows of ml_2, and the day rows of ml's channel-6 track, are tested on   *)
(* authorized and on other windows.                                        *)
ScorableFolds ==
  \A row \in Current :
    (row.stage \in {OpenStage, DayStage}
       \/ (row.stage = "eval_day_loo" /\ row.script # "train_caution_protonet")) =>
      Scorable(row)

(* What a row is tested on was held out of what made it (see Seen for the    *)
(* two exceptions): by session, by person and, for the models of known       *)
(* walks, by label.                                                          *)
HeldOutUnseen == NoLeak /\ StrangerUnseen /\ KnownOnly

\* A feature row is always paired with the label of its own window, through
\* every mask, cap, cached matrix and per-file computation.
LabelsAligned == \A row \in Current : \A p \in row.fit \cup row.test : p[1] = p[2]

(* A fold of the channel-6 track covers its whole manifest: the cached     *)
(* window index is never that of an earlier, smaller set of sessions.      *)
FreshIndex ==
  \A row \in {r \in Current : r.script = "train_day3_ch6_model" /\ r.stage = "eval_loo"} :
    SessionsIn(row.fit) \cup SessionsIn(row.test)
      = {s[1] : s \in {m \in ToSet(Day3Ch6Manifest(c)) : NWindows[m] > 0}}

(* Data, labels and the files they are cached in belong together, for every   *)
(* order of recording, rebuilding and training.                              *)
DataAligned == TypeOK /\ LabelsAligned /\ FreshIndex

(* A killed script loses the fold it was in and no other: those that log   *)
(* each fold never hold a finished one.                                    *)
FoldByFold == {"train_gbm", "train_cusum", "train_svm_gait", "train_generative_hard_negative",
               "train_contrastive", "train_day3_ch6_model", "train_caution_protonet",
               "compare_receiver_fusion"}
KillLosesOneFold ==
  [][kills' # kills /\ script \in FoldByFold => Len(mem) <= 1]_vars

(* The backtest after run_all has every script that went through, whatever *)
(* became of those before it (the generative one apart: see the README).   *)
LogOf(stage) ==
  CASE stage = "train_svm_gait" -> "svm_gait_log" [] stage = "train_gbm" -> "gbm_log"
    [] stage = "train_cusum" -> "cusum_log" [] stage = "train_prototypical" -> "prototypical_log"
    [] stage = "train_arcface" -> "arcface_log" [] stage = "train_maml" -> "maml_log"
    [] stage \in {"train_transformer_gpu", "train_extra_classifiers_gpu"} -> "transformer_gpu_log"
    [] stage = "train_receiver_fusion_gpu" -> "receiver_fusion_gpu_log"
    [] stage = "train_contrastive" -> "contrastive_log"
    [] stage = "train_generative_hard_negative" -> "generative_hard_negative_log"
BacktestKeepsSurvivors ==
  [][all /\ ~all' =>
       \A s \in ToSet(STAGES) \ (failures \cup {"train_generative_hard_negative"}) :
         LogOf(s) \in {h[1] : h \in table'}]_vars

(* What was started ends: run_all after its last stage, whichever fail or  *)
(* are killed, and a script even when a fold of its pool raises.           *)
Ends == script # "" \/ all ~> script = "" /\ ~all

(* run_all and all it starts come to an end, and to the table of all that  *)
(* went through.                                                           *)
RunAllDelivers == Ends /\ BacktestKeepsSurvivors

=============================================================================
