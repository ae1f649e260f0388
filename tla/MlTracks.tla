------------------------------ MODULE MlTracks ------------------------------
(***************************************************************************)
(* The long scripts of ml/: the two-day sweep (run_day2_sweep), the        *)
(* channel-6 track (train_day3_ch6_model, train_caution_protonet), the     *)
(* three-receiver comparison (compare_receiver_fusion) and the evaluation  *)
(* of the shipped checkpoints on the held-out sessions.  Further fields of *)
(* the context c:                                                          *)
(*   c.calibB  the rows of the cached calibB feature files (<<>> if none)  *)
(*   c.cache   the cached channel-6 window indexes, [rate, n, index]       *)
(*   c.ships   the checkpoints on disk, [task, script, rate, fit]          *)
(***************************************************************************)
EXTENDS MlPlans

CONSTANTS
  Classical,   \* the feature-matrix models of the sweep
  Attention,   \* the attention models of Zoo, in order
  MaxTrain,    \* NEURAL_MAX_TRAIN and SVM_MAX_TRAIN (4000 and 3000)
  MinPool      \* fewest training segments of the attention pool (8)

ASSUME TracksAssumption ==
  Classical \in Seq(STRING) /\ Attention \in Seq(STRING) /\ MaxTrain \in Nat \ {0}

Sweep == "run_day2_sweep"
TaskD == "taskD_auth_vs_nonauth"
SweepLog == LogRows("day2_sweep_log")

\* A random subset of the training positions once there are too many: the
\* model takes one that is spread over all of them.
Capped(idx) ==
  LET at == Sorted(idx)
  IN  IF Len(at) <= MaxTrain THEN idx
      ELSE {at[(j * Len(at)) \div MaxTrain] : j \in 1 .. MaxTrain}

(* The context transformer needs a baseline: without one, reading its      *)
(* fields is an AttributeError.                                            *)
RunNeuralInstance(c, stage, model, task, sp, baseline) ==
  LET ds == Dataset(c.index, task)
  IN  IF model = "calib_context_transformer" /\ ~baseline THEN Raise
      ELSE Eval(Row(Sweep, stage, [sp EXCEPT !.train = Capped(sp.train)], ds, ds))

RunClassicalInstance(c, stage, X, sp) ==
  LET mask == Mask(TaskD, c.index)
  IN  IF Len(X) # Len(c.index) THEN Raise        \* no such file, or X[mask] fails
      ELSE Eval(Row(Sweep, stage, [sp EXCEPT !.train = Capped(sp.train)],
                    Iloc(X, mask), Iloc(c.index, mask)))

\* The calibB matrices are built on first use and kept on disk.
ClassicalFeaturesFor(c, prep) ==
  IF prep # "calibB" THEN c.X ELSE IF c.calibB = <<>> THEN c.index ELSE c.calibB
SaveCalibB(c, prep) ==
  IF prep = "calibB" /\ c.calibB = <<>> THEN Step("save_calibB") ELSE <<>>

Directions(f) == LET d == Dates(f) IN <<<<d[1], d[2]>>, <<d[2], d[1]>>>>

StageB(c) ==
  LET ds == Dataset(c.index, TaskD)
      Neural(stage, sp, models, baseline) ==
        ForEach(models, LAMBDA m : RunNeuralInstance(c, stage, m, TaskD, sp, baseline))
      Classic(stage, sp, prep) ==
        ForEach(Classical, LAMBDA m :
          RunClassicalInstance(c, stage, ClassicalFeaturesFor(c, prep), sp))
      NoContext == Chosen(Zoo, LAMBDA m : m # "calib_context_transformer")
      Fold(prep, sp) == Classic("B session_disjoint", sp, prep)
                        \o Neural("B session_disjoint", sp, NoContext, FALSE) \o SweepLog
      OneWay(dir) ==
        LET sp == Direction(ds, dir[1], dir[2])
        IN  Asserted(ds, sp, ForEach(<<"raw", "calibA", "calibB">>, LAMBDA prep :
              SaveCalibB(c, prep) \o Classic("B day_disjoint", sp, prep)
              \o Neural("B day_disjoint", sp, Zoo, TRUE) \o SweepLog))
  IN  CalibA(c.manifest, Dates(c.index))
      \o ForEach(Preprocessings, LAMBDA prep :
           KfoldLoop(ds, SessionDisjointKfold(ds, c.order), LAMBDA sp : Fold(prep, sp)))
      \o ForEach(Directions(ds), OneWay)

\* One log call per model and configuration, with a row per seed.
Ablation(c, stage, models) ==
  LET ds == Dataset(c.index, TaskD)
      sp == Direction(ds, Dates(ds)[1], Dates(ds)[2])
      Seeded(m) == ForEach(Seeds, LAMBDA s : RunNeuralInstance(c, stage, m, TaskD, sp, TRUE))
  IN  Asserted(ds, sp, ForEach(models, LAMBDA m :
        ForEach(Configs, LAMBDA cfg : Seeded(m) \o SweepLog)))

StageT1(c) == Ablation(c, "T1", Attention)
StageT1Bilstm(c) == Ablation(c, "T1b", <<"bilstm">>)
T1Results == (ToSet(Attention) \cup {"bilstm"}) \X ToSet(Configs)

StageT2(c, best) ==
  LET ds == Dataset(c.index, TaskD)
      Seeded(stage, sp) ==
        ForEach(Seeds, LAMBDA s : RunNeuralInstance(c, stage, best[1], TaskD, sp, TRUE))
      Fold(sp) == ForEach(Preprocessings, LAMBDA p : Seeded("T2 session_disjoint", sp)) \o SweepLog
      OneWay(dir) ==
        LET sp == Direction(ds, dir[1], dir[2])
        IN  Asserted(ds, sp, ForEach(<<"raw", "calibA", "calibB">>, LAMBDA p :
              Seeded("T2 day_disjoint", sp)) \o SweepLog)
  IN  CalibA(c.manifest, Dates(c.index))
      \o KfoldLoop(ds, SessionDisjointKfold(ds, c.order), Fold)
      \o ForEach(Directions(ds), OneWay)

SecondaryTasks == <<"task0_presence", "taskE_motion_standing_vs_walking",
                    "taskA_threeway", "taskB_identity", "taskC_openset_proxy">>

\* No baseline is passed, and nothing is logged before the last task.
StageT3(c, best) ==
  LET Task(t) ==
        LET ds == Dataset(c.index, t)
            dates == Dates(c.index)
            sp == Direction(ds, dates[1], dates[2])
        IN  IF sp.train = {} \/ Cardinality(Classes(t, ds, sp.test)) < 2 THEN <<>>
            ELSE Asserted(ds, sp, ForEach(Preprocessings, LAMBDA p :
                   RunNeuralInstance(c, t, best[1], t, sp, FALSE)))
  IN  ForEach(SecondaryTasks, Task) \o SweepLog

(* The attention pool learns from the training segments.  Without any,     *)
(* _group_embeddings returns three values where two are unpacked.          *)
PoolRow(row, ds, sp, n) ==
  LET train == Segments(ds, sp.train, n)
      test  == Segments(ds, sp.test, n)
      mixed == \E g, h \in test : {LabelOf(w) = "authorized" : w \in g}
                                  # {LabelOf(w) = "authorized" : w \in h}
  IN  IF train = {} THEN Raise
      ELSE IF Cardinality(train) < MinPool \/ ~mixed THEN <<>>
      ELSE Eval([SegmentRow(row, ds, sp.test, n) EXCEPT
                   !.stage = "S attention_pool", !.fit = {<<w, w>> : w \in UNION train}])

StageS(c, best) ==
  LET ds == Dataset(c.index, TaskD)
      sp == Direction(ds, Dates(ds)[1], Dates(ds)[2])
      row == Row(Sweep, "S", [sp EXCEPT !.train = Capped(sp.train)], ds, ds)
      Averaged(n) == IF Segments(ds, sp.test, n) = {} THEN <<>>
                     ELSE Eval(SegmentRow(row, ds, sp.test, n))
      Pooled(n) == IF best[1] = "bilstm" THEN <<>> ELSE PoolRow(row, ds, sp, n)
      Prep(p) == RunNeuralInstance(c, "S", best[1], TaskD, sp, FALSE)
                 \o ForEach(SegmentLengths, Averaged)
                 \o ForEach(SegmentLengths, Pooled) \o SweepLog
  IN  Asserted(ds, sp, ForEach(Preprocessings, Prep))

\* Each day by itself, on its native grid and on the shared one.
StageN(c, best) ==
  LET Date(d) ==
        LET day == Iloc(c.index, Where(c.index, LAMBDA w : DayOf(w) = d))
            ds  == Dataset(day, TaskD)
            Fold(sp) == RunNeuralInstance([c EXCEPT !.index = day], "N", best[1], TaskD, sp, FALSE)
        IN  ForEach(<<"native", "resampled">>, LAMBDA mode :
              IF Cardinality(Classes(TaskD, ds, Rows(ds))) < 2 THEN <<>>
              ELSE KfoldLoop(ds, SessionDisjointKfold(ds, c.order), Fold)) \o SweepLog
  IN  ForEach(Dates(c.index), Date)

\* The best configuration is picked by its score, which is not modelled.
RunDay2Sweep(c) ==
  IF Len(Dates(c.index)) # 2 THEN Raise
  ELSE StageB(c) \o StageT1(c) \o StageT1Bilstm(c) \o Step("pick_best")
AfterPick(c, best) ==
  StageT2(c, best) \o StageT3(c, best) \o StageS(c, best) \o StageN(c, best)

------------------------------------------------------------------------------
(* train_day3_ch6_model *)

Day3Log == LogRows("day3_ch6_model_log")

\* Mutant: the held-out sessions are trained on.
Day3Ch6ManifestWithHoldout(c) ==
  Chosen(c.manifest, LAMBDA r :
    Day[r[1]] \in TrainDates /\ r[2] = SingleMac /\ r[1] \in Channel6)

Day3Ch6Manifest(c) ==
  Chosen(c.manifest, LAMBDA r :
    Day[r[1]] \in TrainDates /\ r[2] = SingleMac /\ r[1] \in Channel6 /\ r[1] \notin Holdout)

\* The slowest session sets the rate.
TargetRate(manifest) ==
  CHOOSE x \in {Rate[r[1]] : r \in ToSet(manifest)} :
    \A r \in ToSet(manifest) : x <= Rate[r[1]]

\* Mutant: the cached index is found by its rate alone.
CacheKey(manifest) == [rate |-> TargetRate(manifest), n |-> Len(manifest)]

BuildOrLoadWindowIndex(c, manifest) ==
  LET key == CacheKey(manifest)
      hits == {e \in c.cache : e.key = key}
  IN  IF hits # {} THEN (CHOOSE e \in hits : TRUE).index ELSE WindowIndex(manifest)
SaveIndex(c, manifest) ==
  IF \E e \in c.cache : e.key = CacheKey(manifest) THEN <<>>
  ELSE <<[op |-> "save_index", key |-> CacheKey(manifest), index |-> WindowIndex(manifest)]>>

EvaluateTaskD(script, index, order) ==
  LET ds == Dataset(index, TaskD)
      Fold(sp) == Asserted(ds, sp, Eval(Row(script, "eval_loo", sp, ds, ds)) \o Day3Log)
  IN  ForEach(LeaveOneUnauthorizedPersonOut(ds, order, TRUE), Fold)

\* A date whose windows are of one class is skipped; nothing is asserted.
EvaluateTaskDDayDisjoint(script, index) ==
  LET ds == Dataset(index, TaskD)
      Fold(sp) == IF ~BothClasses(TaskD, ds, sp.test) THEN <<>>
                  ELSE Eval(Row(script, "eval_day_loo", sp, ds, ds)) \o Day3Log
  IN  ForEach(LeaveOneDayOut(ds), Fold)

EvaluateSingleSplit(task, index, order) ==
  LET ds == Dataset(index, task)
  IN  KfoldLoop(ds, SessionDisjointKfold(ds, order), LAMBDA sp :
        Eval(Row("train_day3_ch6_model", "eval_split", sp, ds, ds)) \o Day3Log)

Day3Tasks == <<"taskD_auth_vs_nonauth", "task0_presence", "taskE_motion_standing_vs_walking">>

HasNone(manifest) == \E r \in ToSet(manifest) : Label[r[1]] = "none"

TrainDay3Ch6Model(c) ==
  LET manifest == Day3Ch6Manifest(c)
      index == BuildOrLoadWindowIndex(c, manifest)
      script == "train_day3_ch6_model"
  IN  IF ~HasNone(manifest) THEN Raise
      ELSE SaveIndex(c, manifest)
           \o EvaluateTaskD(script, index, c.order)
           \o EvaluateTaskDDayDisjoint(script, index)
           \o EvaluateSingleSplit("task0_presence", index, c.order)
           \o EvaluateSingleSplit("taskE_motion_standing_vs_walking", index, c.order)
           \o ForEach(Day3Tasks, LAMBDA t :
                ShipFinal(script, "day3_ch6_model_log", Dataset(index, t), t, TargetRate(manifest)))

------------------------------------------------------------------------------
(* train_caution_protonet *)

\* Mutant: the threshold is calibrated on what is tested.
ThresholdRowsTested(sp, auth, support) == sp.test
ThresholdRows(sp, auth, support) == auth \ support

(* Of the training side only authorized rows are used: a fifth of their    *)
(* sessions sets the threshold everything is decided by, the others give   *)
(* the prototypes.  A person with fewer than two such windows fails the    *)
(* assertion.                                                              *)
CautionFold(stage, f, sp, order) ==
  LET auth == {i \in sp.train : LabelOf(f[i]) = "authorized"}
      calib == TestSlice(Iloc(f, auth), "authorized", order, 5)
      support == {i \in auth : Session(f[i]) \notin calib}
      Of(p) == {i \in support : PersonOf(f[i]) = p}
      known == {Person[s] : s \in {s \in DOMAIN Label : Label[s] = "authorized"}}
      threshold == {f[i] : i \in ThresholdRows(sp, auth, support)}
  IN  IF \E p \in known : Cardinality(Of(p)) < 2 THEN Raise
      ELSE Eval([Row("train_caution_protonet", stage, [sp EXCEPT !.train = support], f, f)
                   EXCEPT !.tune = threshold, !.cut = threshold]) \o Day3Log

CautionLeaveOneUnauthorizedOut(f, order) ==
  ForEach(LeaveOneUnauthorizedPersonOut(f, order, TRUE),
          LAMBDA sp : CautionFold("eval_loo", f, sp, order))

NoAuthorized(f, sp) == \A i \in sp.test : LabelOf(f[i]) # "authorized"
OneLabel(f, sp) == Cardinality({LabelOf(f[i]) : i \in sp.test}) < 2

CautionLeaveOneDayOut(f, order) ==
  ForEach(LeaveOneDayOut(f), LAMBDA sp :
    IF OneLabel(f, sp) /\ NoAuthorized(f, sp) THEN <<>>
    ELSE CautionFold("eval_day_loo", f, sp, order))

TrainCautionProtonet(c) ==
  LET manifest == Day3Ch6Manifest(c)
      index == BuildOrLoadWindowIndex(c, manifest)
  IN  IF ~HasNone(manifest) THEN Raise
      ELSE SaveIndex(c, manifest) \o CautionLeaveOneUnauthorizedOut(index, c.order)
           \o CautionLeaveOneDayOut(index, c.order)

------------------------------------------------------------------------------
(* compare_receiver_fusion *)

ThreeReceiverManifest(c) ==
  Chosen(c.manifest, LAMBDA r :
    Day[r[1]] \in FusionDates /\ r[2] = SingleMac
    /\ AllMacs \subseteq ToSet(Macs[r[1]]) /\ r[1] \in Channel6)

\* As many positions as the receiver with the fewest windows has.
FusedWindowIndex(manifest) ==
  Concat([j \in 1 .. Len(manifest) |->
    Chosen(WindowIndex(<<manifest[j]>>), LAMBDA w :
      \A mac \in AllMacs : w[3] <= NWindows[<<w[1], mac>>])])

FusionLog == LogRows("receiver_fusion_log")

EvaluateFusedTaskD(f, order) ==
  ForEach(LeaveOneUnauthorizedPersonOut(f, order, TRUE), LAMBDA sp :
    Asserted(f, sp, Eval(Row("compare_receiver_fusion", "eval_loo", sp, f, f)) \o FusionLog))

EvaluateFusedTaskDDayDisjoint(f) ==
  ForEach(LeaveOneDayOut(f), LAMBDA sp :
    IF NoAuthorized(f, sp) THEN <<>>
    ELSE Eval(Row("compare_receiver_fusion", "eval_day_loo", sp, f, f)) \o FusionLog)

\* The single-receiver control rows go to the log of the channel-6 track.
CompareReceiverFusion(c) ==
  LET manifest == ThreeReceiverManifest(c)
      single == WindowIndex(manifest)
      fused == FusedWindowIndex(manifest)
  IN  IF ~HasNone(manifest) THEN Raise
      ELSE EvaluateTaskD("compare_receiver_fusion", single, c.order)
           \o EvaluateTaskDDayDisjoint("compare_receiver_fusion", single)
           \o EvaluateFusedTaskD(fused, c.order) \o EvaluateFusedTaskDDayDisjoint(fused)

------------------------------------------------------------------------------
(* eval_day3ch6_holdout and cross_day_drift: print only *)

EvalDay3Ch6Holdout(c) ==
  LET held == Chosen(c.manifest, LAMBDA r : r[1] \in Holdout)
      f == WindowIndex(held)
      mine == {s \in c.ships : s.script = "train_day3_ch6_model"}
      Ship(t) == CHOOSE s \in mine : s.task = t
      Task(t) == Eval([script |-> "eval_day3ch6_holdout", stage |-> "holdout", key |-> 0,
                       fit  |-> {<<w, w>> : w \in Ship(t).fit},
                       test |-> {<<f[i], f[i]>> : i \in Mask(t, f)},
                       tune |-> {}, cut |-> {}, pre |-> {}])
  IN  IF \/ Len(held) # Cardinality(Holdout)
         \/ {s.task : s \in mine} # ToSet(Day3Tasks)
         \/ Cardinality({s.rate : s \in mine}) # 1
      THEN Raise
      ELSE ForEach(Day3Tasks, Task) \o Show

CrossDayDrift(c) ==
  LET dates == Sorted({Day[r[1]] : r \in ToSet(c.manifest)})
      Missing(label, d) == ~\E r \in ToSet(c.manifest) : Label[r[1]] = label /\ Day[r[1]] = d
  IN  IF Len(dates) # 2 \/ \E d \in ToSet(dates), l \in {"authorized", "unauthorized", "none"} :
                              Missing(l, d)
      THEN Raise ELSE Show
=============================================================================
