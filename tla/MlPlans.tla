------------------------------ MODULE MlPlans ------------------------------
(***************************************************************************)
(* What each training script of ml/training does, as the sequence of its   *)
(* externally visible steps: evaluate a model on a split, append rows to a *)
(* log file, save a checkpoint, stop on an error.  Experiment.tla runs     *)
(* these plans.  A plan is a function of the context c a script starts in: *)
(*   c.index     the window index csv of the single-receiver sessions      *)
(*   c.X         the rows of the feature matrix file (<<>> if not built)   *)
(*   c.manifest  the <<session, receiver>> rows of data/manifest.csv       *)
(*   c.order     the order the random permutations produce                 *)
(* Training itself, metrics and printing are left out.                     *)
(***************************************************************************)
EXTENDS Splits

CONSTANTS
  Zoo,          \* the model names a script sweeps, in its order
  Configs,      \* architecture settings of an ablation, the baseline first
  Seeds,        \* random seeds, in order
  Channel6,     \* sessions recorded on channel 6
  TrainDates,   \* dates of the channel-6 training track
  FusionDates,  \* dates recorded with every receiver
  Holdout,      \* HOLDOUT_SESSIONS: never to be trained on
  Macs,         \* session -> the receivers that recorded it, in file order
  AllMacs,      \* RECEIVER_MACS
  SingleMac,    \* SINGLE_RECEIVER_MAC
  Rate          \* session -> its native packet rate

\* The receivers of a session are different files.
ASSUME ReceiversAssumption ==
  \A s \in DOMAIN Label :
    /\ Macs[s] \in Seq(STRING) /\ IsInjective(Macs[s])
    /\ \A j \in DOMAIN Macs[s] : NWindows[<<s, Macs[s][j]>>] \in Nat

ASSUME ModelsAssumption ==
  Zoo \in Seq(STRING) /\ Configs \in Seq(STRING) /\ Seeds \in Seq(Int)

Step(op) == <<[op |-> op]>>
Raise == Step("raise")            \* an exception leaves the script
LeakAssertion == Step("assert")   \* assert_no_group_leakage fails
LogRows(file) == <<[op |-> "log", file |-> file]>>
Show == Step("show")              \* something computed from the rows so far is shown

Concat(seqs) == FlattenSeq(seqs)
ForEach(seq, Body(_)) == Concat([j \in 1 .. Len(seq) |-> Body(seq[j])])

(* Fitting on the rows X of the training positions with the labels Y of    *)
(* the same positions, testing on the test positions.  A pair <<x, y>> is  *)
(* the features of window x with the label of window y.  Besides them:     *)
(*   tune  windows that enroll a centroid or set a calibrated threshold    *)
(*   cut   windows the threshold of the accuracy and the false accepts is  *)
(*         read off; {} where the class of the larger score is taken       *)
(*   pre   windows an unlabelled pretraining saw                           *)
Row(script, stage, split, X, Y) ==
  [script |-> script, stage |-> stage, key |-> split.key,
   fit  |-> {<<X[i], Y[i]>> : i \in split.train},
   test |-> {<<X[i], Y[i]>> : i \in split.test},
   tune |-> {}, cut |-> {}, pre |-> {}]

\* Every model refuses to be fitted, or tested, on no rows at all.
Empty(row) == row.fit = {} \/ row.test = {}
Eval(row) == IF Empty(row) THEN Raise ELSE <<[op |-> "eval", row |-> row]>>

Asserted(f, split, steps) == IF Leaks(f, split) THEN LeakAssertion ELSE steps

\* A loop over k-fold splits that asserts each of them.
KfoldLoop(f, folds, Body(_)) ==
  IF KFoldRaises(f) THEN Raise
  ELSE ForEach(folds, LAMBDA sp : Asserted(f, sp, Body(sp)))

NoneSessions(manifest, day) ==
  {i \in 1 .. Len(manifest) :
     Label[manifest[i][1]] = "none" /\ Day[manifest[i][1]] = day}

\* calibA_fn: one empty-room baseline per date, ValueError without one.
CalibA(manifest, dates) ==
  IF \E d \in ToSet(dates) : NoneSessions(manifest, d) = {} THEN Raise ELSE <<>>

------------------------------------------------------------------------------
(* run_stage1.py, train.py, run_stage2.py, run_stage2_openset.py *)

Preprocessings == <<"raw", "calibA">>
Stage1Tasks == <<"task0_presence", "taskA_threeway", "taskB_identity",
                 "taskC_openset_proxy", "taskD_auth_vs_nonauth",
                 "taskF_identity_or_nonauth", "taskE_motion_standing_vs_walking">>

RunTask(c, task) ==
  LET sub  == Iloc(c.index, Mask(task, c.index))
      subX == Iloc(c.X, Mask(task, c.index))
      On(stage, sp) == Eval(Row("run_stage1", stage, sp, subX, sub))
      Loo(sp) == Asserted(sub, sp, On("leave_one_unauth_person_out", sp))
      Kfold(sp) == On("session_disjoint_kfold", sp)
  IN  (IF task = "taskC_openset_proxy"
       THEN ForEach(LeaveOneUnauthorizedPersonOut(sub, c.order, FALSE), Loo)
       ELSE KfoldLoop(sub, SessionDisjointKfold(sub, c.order), Kfold) \o Show)
      \o On("naive_random_LEAKY", NaiveRandomSplit(sub))

RunStage1(c) ==
  LET mismatch == c.X # <<>> /\ Len(c.X) # Len(c.index)   \* X[mask] is an IndexError
      Tasks1(prep) == IF c.X = <<>> THEN <<>>             \* skipped: not built yet
                      ELSE ForEach(Stage1Tasks, LAMBDA t : RunTask(c, t))
  IN  IF mismatch THEN Raise
      ELSE ForEach(Preprocessings, Tasks1) \o LogRows("experiment_log")

\* Only the first of the folds.
RunModelOnTask(c, script, task) ==
  LET ds == Dataset(c.index, task)
      sp == SessionDisjointKfold(ds, c.order)[1]
  IN  IF KFoldRaises(ds) THEN Raise
      ELSE Asserted(ds, sp, Eval(Row(script, "session_disjoint_single_split", sp, ds, ds)))

Train(c) ==
  RunModelOnTask(c, "train", "task0_presence") \o LogRows("experiment_log")

\* except Exception: print, and go on with the next model.
Caught(steps) == Chosen(steps, LAMBDA st : st.op \notin {"raise", "assert"})

Stage2Tasks == <<"task0_presence", "taskA_threeway", "taskB_identity">>
RunStage2(c) ==
  LET Model(task) == ForEach(Zoo, LAMBDA m : Caught(RunModelOnTask(c, "run_stage2", task)))
  IN  CalibA(c.manifest, <<Day[c.manifest[1][1]]>>)
      \o ForEach(Stage2Tasks, Model) \o LogRows("experiment_log")

\* Centroids are enrolled from the authorized rows of the training side only.
RunStage2Openset(c) ==
  LET f == c.index
      Fold(sp) ==
        Asserted(f, sp, Eval([Row("run_stage2_openset", "leave_one_unauth_person_out", sp, f, f)
          EXCEPT !.tune = {f[i] : i \in {i \in sp.train : LabelOf(f[i]) = "authorized"}}]))
  IN  ForEach(LeaveOneUnauthorizedPersonOut(f, c.order, FALSE), Fold)
      \o LogRows("experiment_log")

------------------------------------------------------------------------------
(* The taskD scripts, the few-shot script and the pooled final model *)

BothClasses(task, f, idx) == Cardinality(Classes(task, f, idx)) = 2

\* First fold whose test side has both classes, else RuntimeError.
PickValidFold(ds, order) ==
  Chosen(SessionDisjointKfold(ds, order),
            LAMBDA sp : BothClasses("taskD_auth_vs_nonauth", ds, sp.test))

RunTaskDFocus(c) ==
  LET ds == Dataset(c.index, "taskD_auth_vs_nonauth")
      valid == PickValidFold(ds, c.order)
      Model(m) == Eval(Row("run_taskD_focus", "pick_valid_fold", valid[1], ds, ds))
  IN  IF KFoldRaises(ds) \/ valid = <<>> THEN Raise
      ELSE Asserted(ds, valid[1], ForEach(<<"dualbranch", "crossattn">>, Model) \o Show)

(* aggregate_scores_by_session: within each session, blocks of n           *)
(* consecutive windows that do not overlap one another as blocks; the      *)
(* windows left over at the end form no block.                             *)
Segments(f, idx, n) ==
  LET In(s) == {i \in idx : Session(f[i]) = s}
      Rank(s, i) == Cardinality({j \in In(s) : f[j][3] < f[i][3]})
      Block(s, b) == {f[i] : i \in {i \in In(s) : Rank(s, i) \div n = b}}
  IN  UNION {{Block(s, b) : b \in 0 .. (Cardinality(In(s)) \div n) - 1}
             : s \in SessionsAt(f, idx)}

SegmentRow(row, f, idx, n) ==
  [row EXCEPT !.stage = "segments", !.test = {<<w, w>> : w \in UNION Segments(f, idx, n)}]

SegmentLengths == <<1, 2>>   \* 10, 20, ... windows in the code

RunTaskDSegmentAggregation(c) ==
  LET ds == Dataset(c.index, "taskD_auth_vs_nonauth")
      valid == PickValidFold(ds, c.order)
      row == Row("run_taskD_segment_aggregation", "pick_valid_fold", valid[1], ds, ds)
  IN  IF KFoldRaises(ds) \/ valid = <<>> THEN Raise
      ELSE Asserted(ds, valid[1],
             Eval(row) \o ForEach(SegmentLengths,
                                  LAMBDA n : Eval(SegmentRow(row, ds, valid[1].test, n))) \o Show)

\* Folds with one class in test are skipped; everything is logged at the end.
RunTaskDCrossattnCv(c) ==
  LET ds == Dataset(c.index, "taskD_auth_vs_nonauth")
      Fold(sp) ==
        IF ~BothClasses("taskD_auth_vs_nonauth", ds, sp.test) THEN <<>>
        ELSE Asserted(ds, sp, Eval(Row("run_taskD_crossattn_cv", "session_disjoint_kfold", sp, ds, ds)))
  IN  (IF KFoldRaises(ds) THEN Raise ELSE ForEach(SessionDisjointKfold(ds, c.order), Fold))
      \o LogRows("experiment_log")

(* run_fewshot_finetune: pretrain on the first date; the first session of  *)
(* every label of the second date is the fine-tuning pool, the rest of     *)
(* that date the evaluation set, with one pool session and with all.       *)
RunFewshotFinetune(c) ==
  LET ds == Dataset(c.index, "taskD_auth_vs_nonauth")
      dates == Dates(ds)
      sp == Direction(ds, dates[1], dates[2])
      First(l) == Sorted({s \in SessionsAt(ds, sp.test) : Label[s] = l})
      pool == Concat([l \in 1 .. 3 |->
                FirstOf(First(<<"authorized", "none", "unauthorized">>[l]), 1)])
      eval == {i \in sp.test : Session(ds[i]) \notin ToSet(pool)}
      Tuned(k) == [sp EXCEPT !.test = eval,
        !.train = sp.train \cup {i \in sp.test : Session(ds[i]) \in ToSet(FirstOf(pool, k))}]
  IN  IF Len(dates) < 2 THEN Raise
      ELSE Asserted(ds, sp,
             IF eval = {} THEN Raise
             ELSE ForEach(<<0, 1, Len(pool)>>, LAMBDA k :
                    Eval(Row("run_fewshot_finetune", "day_disjoint", Tuned(k), ds, ds))) \o Show)

\* A checkpoint of `task` trained on every row of ds and tested on the same.
ShipFinal(script, file, ds, task, rate) ==
  LET all == [key |-> 0, train |-> Rows(ds), test |-> Rows(ds)]
  IN  IF Cardinality(Classes(task, ds, Rows(ds))) # 2 THEN Raise
      ELSE Eval(Row(script, "final", all, ds, ds))
           \o <<[op |-> "ship", task |-> task, script |-> script, rate |-> rate,
                 fit |-> ToSet(ds)]>>
           \o LogRows(file)

FinalTasks == <<"taskD_auth_vs_nonauth", "task0_presence",
                "taskE_motion_standing_vs_walking", "taskB_identity">>
TrainOne(c, task) ==
  CalibA(c.manifest, Dates(c.index))
  \o ShipFinal("train_final_model", "final_model_log", Dataset(c.index, task), task, 0)
TrainFinalModel(c) == ForEach(FinalTasks, LAMBDA t : TrainOne(c, t))
=============================================================================
