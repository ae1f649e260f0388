------------------------------ MODULE Ml2Plans ------------------------------
(***************************************************************************)
(* The training scripts of ml_2/, which run_all starts one after another.  *)
(* They share one dataset (every receiver on channel 6 is a sample of its  *)
(* own) and, for the classical models, one feature matrix kept on disk.    *)
(* Further fields of the context c:                                        *)
(*   c.sessions  the sessions under data/                                  *)
(*   c.X2        the rows of ml_2/cache/features_channel6.npy, <<>> if none *)
(* A step of its own, "pool", hands a list of rows to run_folds_parallel   *)
(* and then logs them one by one.                                          *)
(***************************************************************************)
EXTENDS MlTracks

CONSTANTS
  Unusable,    \* <<session, receiver>> that cannot be read or has < 50 packets
  Zoo2,        \* MODEL_FACTORIES of train_transformer_gpu
  ExtraZoo     \* EXTRA_FACTORIES of train_extra_classifiers_gpu

ASSUME FactoriesAssumption == Zoo2 \in Seq(STRING) /\ ExtraZoo \in Seq(STRING)

LABELS == <<"authorized", "unauthorized", "none">>

\* The receivers of a session, in the order of their files.
BuildFullManifest(c) ==
  LET Receivers(s) == Chosen([j \in 1 .. Len(Macs[s]) |-> <<s, Macs[s][j]>>],
                                LAMBDA r : r \notin Unusable)
  IN  ForEach(LABELS, LAMBDA l :
        ForEach(Sorted({s \in c.sessions : Label[s] = l}), Receivers))

BuildChannel6Manifest(c) ==
  Chosen(BuildFullManifest(c), LAMBDA r : r[1] \in Channel6)

\* No window at all without an empty-room session: compute_fallback refuses.
LoadChannel6Dataset(c) ==
  LET manifest == BuildChannel6Manifest(c)
  IN  IF HasNone(manifest) THEN WindowIndex(manifest) ELSE <<>>
OnDataset(f, steps) == IF f = <<>> THEN Raise ELSE steps

\* Mutant: the blocks of features follow one another in the order of the
\* grouping, which sorts the sessions.
BuildFeatureMatrixGrouped(f) ==
  ForEach(Sorted(SessionsOf(f)), LAMBDA s : Chosen(f, LAMBDA w : Session(w) = s))

\* Features are computed cache file by cache file and written back to the
\* rows of that file.
BuildFeatureMatrix(f) ==
  LET Of(w) == Chosen(f, LAMBDA v : <<v[1], v[2]>> = <<w[1], w[2]>>)
      Rank(i) == Cardinality({j \in 1 .. i : <<f[j][1], f[j][2]>> = <<f[i][1], f[i][2]>>})
  IN  [i \in Rows(f) |-> Of(f[i])[Rank(i)]]

\* The matrix on disk is taken when it has as many rows as the index.
FeatureMatrixFor(c, f) == IF Len(c.X2) = Len(f) THEN c.X2 ELSE BuildFeatureMatrix(f)
SaveFeatures(c, f) ==
  IF Len(c.X2) = Len(f) THEN <<>>
  ELSE <<[op |-> "save_X2", X |-> BuildFeatureMatrix(f)]>>

Known(f, idx) == {i \in idx : LabelOf(f[i]) = "authorized"}

OpenSet(f, c) == LeaveOneUnauthorizedPersonOut(f, c.order, TRUE)

\* Mutant: a day is evaluated whatever was recorded on it.
ScorableDaysAll(f) == LeaveOneDayOut(f)

\* Held-out days with an authorized window and a second label.
ScorableDays(f) ==
  Chosen(LeaveOneDayOut(f), LAMBDA sp : ~NoAuthorized(f, sp) /\ ~OneLabel(f, sp))

OpenStage == "open_set_loo_stranger"
DayStage == "cross_day_loo"

(* Accuracy and false accepts are taken at the equal-error threshold of    *)
(* the test scores.  With one class there is none, and a constant or the   *)
(* calibrated threshold takes its place; the CUSUM's is the median of the  *)
(* test scores.                                                            *)
Scorable(row) == {LabelOf(p[1]) = "authorized" : p \in row.test} = BOOLEAN
DecidedAtTest(row) ==
  [row EXCEPT !.cut = IF Scorable(row) \/ row.script = "train_cusum"
                      THEN {p[1] : p \in row.test} ELSE row.tune]

\* A classifier that needs both classes among its training rows.
BinaryFold(script, stage, f, X, sp) ==
  IF ~BothClasses(TaskD, f, sp.train) THEN Raise
  ELSE Eval(DecidedAtTest(Row(script, stage, sp, X, f)))
\* A model of the authorized rows alone.
KnownFold(script, stage, f, X, sp) ==
  Eval(DecidedAtTest(Row(script, stage, [sp EXCEPT !.train = Known(f, sp.train)], X, f)))
\* A probe trained on top of a backbone that was pretrained, without labels, on
\* every window there is.
PretrainedFold(script, stage, f, X, sp) ==
  Eval([Row(script, stage, sp, X, f) EXCEPT !.pre = ToSet(f)])

(* The steps of one fold.  A job is a model of a script and its log; the SVMs *)
(* cap their training rows, and the generative script fits a plain one-class  *)
(* SVM and one trained against generated negatives.                          *)
Job(script, model, file) == [script |-> script, model |-> model, file |-> file]
FoldSteps(j, stage, f, X, sp) ==
  LET Few(idx) == [sp EXCEPT !.train = Capped(idx)]
      known == KnownFold(j.script, stage, f, X, sp)
  IN  CASE j.model = "binary"     -> BinaryFold(j.script, stage, f, X, sp)
        [] j.model = "binary_svc" -> BinaryFold(j.script, stage, f, X, Few(sp.train))
        [] j.model = "known_svm"  -> KnownFold(j.script, stage, f, X, Few(Known(f, sp.train)))
        [] j.model = "known"      -> known
        [] j.model = "generative" -> known \o LogRows(j.file) \o known
        [] j.model = "pretrained" -> PretrainedFold(j.script, stage, f, X, sp)

\* Mutant: the rows are collected and logged after the last fold.
EvaluateOpenSetThenLog(f, c, X, j) ==
  ForEach(OpenSet(f, c), LAMBDA sp : Asserted(f, sp, FoldSteps(j, OpenStage, f, X, sp)))
  \o LogRows(j.file)

\* One fold after the other, each logged before the next one starts.
EvaluateOpenSet(f, c, X, j) ==
  ForEach(OpenSet(f, c), LAMBDA sp :
    Asserted(f, sp, FoldSteps(j, OpenStage, f, X, sp) \o LogRows(j.file)))
EvaluateCrossDay(f, X, j) ==
  ForEach(ScorableDays(f), LAMBDA sp : FoldSteps(j, DayStage, f, X, sp) \o LogRows(j.file))
EvaluateClosedSet(f, c, X, j) ==
  ForEach(SessionDisjointKfold2(f, c.order), LAMBDA sp :
    Asserted(f, sp, FoldSteps(j, "session_disjoint_5fold", f, X, sp) \o LogRows(j.file)))

TrainGbm(c) ==
  LET f == LoadChannel6Dataset(c)
      X == FeatureMatrixFor(c, f)
      j == Job("train_gbm", "binary", "gbm_log")
  IN  OnDataset(f, SaveFeatures(c, f) \o EvaluateOpenSet(f, c, X, j)
                   \o EvaluateCrossDay(f, X, j) \o EvaluateClosedSet(f, c, X, j))

TrainCusum(c) ==
  LET f == LoadChannel6Dataset(c)
      X == FeatureMatrixFor(c, f)
      j == Job("train_cusum", "known", "cusum_log")
  IN  OnDataset(f, SaveFeatures(c, f) \o EvaluateOpenSet(f, c, X, j) \o EvaluateCrossDay(f, X, j))

\* oc_svm, binary_svc, gmm_svm_wii.
TrainSvmGait(c) ==
  LET f == LoadChannel6Dataset(c)
      X == FeatureMatrixFor(c, f)
      Model(m) ==
        LET j == Job("train_svm_gait", m, "svm_gait_log")
        IN  EvaluateOpenSet(f, c, X, j) \o EvaluateCrossDay(f, X, j) \o EvaluateClosedSet(f, c, X, j)
  IN  OnDataset(f, SaveFeatures(c, f) \o ForEach(<<"known_svm", "binary_svc", "known_svm">>, Model))

TrainGenerativeHardNegative(c) ==
  LET f == LoadChannel6Dataset(c)
      j == Job("train_generative_hard_negative", "generative", "generative_hard_negative_log")
  IN  OnDataset(f, SaveFeatures(c, f) \o EvaluateOpenSet(f, c, FeatureMatrixFor(c, f), j))

\* The backbone is pretrained once, for all folds.
TrainContrastive(c) ==
  LET f == LoadChannel6Dataset(c)
      j == Job("train_contrastive", "pretrained", "contrastive_log")
  IN  OnDataset(f, EvaluateOpenSet(f, c, f, j) \o EvaluateCrossDay(f, f, j))

------------------------------------------------------------------------------
(* The folds of the neural scripts run in parallel, one thread per GPU. *)

(* A fifth of the positions in a random order, and the rest.  The model    *)
(* takes one such order: the odd ranks first.                              *)
Shuffled(idx) ==
  LET s == Sorted(idx)
      odd == (Len(s) + 1) \div 2
  IN  [j \in 1 .. Len(s) |-> s[IF j <= odd THEN 2 * j - 1 ELSE 2 * (j - odd)]]
CalibSlice(idx) == ToSet(FirstOf(Shuffled(idx), HeldOutCount(Cardinality(idx), 5)))

\* Centroids from authorized windows, the calibrated threshold, which only the
\* calibrated accept rate is taken at, from others of them.
SplitKnownTrainCalib(script, stage, f, sp) ==
  LET known == Known(f, sp.train)
      calib == CalibSlice(known)
  IN  DecidedAtTest([Row(script, stage, [sp EXCEPT !.train = known \ calib], f, f)
                       EXCEPT !.tune = {f[i] : i \in calib}])

\* Meta-trained on the other days, adapted on a fifth of the windows of the
\* held-out day, tested on the others.
MamlRow(f, sp) ==
  LET calib == CalibSlice(sp.test)
  IN  Row("train_maml", "cross_day_loo_with_calib",
          [sp EXCEPT !.train = sp.train \cup calib, !.test = sp.test \ calib], f, f)

RowOf(j, stage, f, sp) ==
  CASE j.model = "embedding"  -> SplitKnownTrainCalib(j.script, stage, f, sp)
    [] j.model = "maml"       -> MamlRow(f, sp)
    [] j.model = "classifier" -> Row(j.script, stage, sp, f, f)

Pool(f, folds, stage, j) ==
  <<[op |-> "pool", file |-> j.file,
     rows |-> [k \in 1 .. Len(folds) |-> RowOf(j, stage, f, folds[k])]]>>

\* Every fold is asserted before the first one starts.
AssertedPool(f, folds, stage, j) ==
  IF \E k \in 1 .. Len(folds) : Leaks(f, folds[k]) THEN LeakAssertion
  ELSE Pool(f, folds, stage, j)

EvaluateInParallel(f, c, days, j) ==
  AssertedPool(f, OpenSet(f, c), OpenStage, j) \o Pool(f, days, DayStage, j)

EmbeddingScript(c, script, file) ==
  LET f == LoadChannel6Dataset(c)
  IN  OnDataset(f, EvaluateInParallel(f, c, ScorableDays(f), Job(script, "embedding", file)))
TrainPrototypical(c) == EmbeddingScript(c, "train_prototypical", "prototypical_log")
TrainArcface(c) == EmbeddingScript(c, "train_arcface", "arcface_log")

ClassifierZoo(c, script, models) ==
  LET f == LoadChannel6Dataset(c)
      days == Chosen(LeaveOneDayOut(f), LAMBDA sp : BothClasses(TaskD, f, sp.test))
      j == Job(script, "classifier", "transformer_gpu_log")
  IN  OnDataset(f, ForEach(models, LAMBDA m : EvaluateInParallel(f, c, days, j)))
TrainTransformerGpu(c) == ClassifierZoo(c, "train_transformer_gpu", Zoo2)
TrainExtraClassifiersGpu(c) == ClassifierZoo(c, "train_extra_classifiers_gpu", ExtraZoo)

\* Sessions of exactly three receivers; every receiver that occurs in one of
\* them has to occur in all, or the session gives no window.
Build3ReceiverManifest(c) ==
  LET ch6 == BuildChannel6Manifest(c)
      Heard(s) == {r[2] : r \in {r \in ToSet(ch6) : r[1] = s}}
  IN  Chosen(ch6, LAMBDA r : Cardinality(Heard(r[1])) = 3)
BuildFusedWindowIndex(manifest) ==
  LET macs == {r[2] : r \in ToSet(manifest)}
      Complete(s) == \A mac \in macs : <<s, mac>> \in ToSet(manifest)
      Least(s) == CHOOSE n \in {NWindows[<<s, mac>>] : mac \in macs} :
                    \A mac \in macs : n <= NWindows[<<s, mac>>]
  IN  ForEach(Sorted({r[1] : r \in ToSet(manifest)}), LAMBDA s :
        IF Complete(s) THEN [k \in 1 .. Least(s) |-> <<s, "fused", k>>] ELSE <<>>)

TrainReceiverFusionGpu(c) ==
  LET manifest == Build3ReceiverManifest(c)
      f == BuildFusedWindowIndex(manifest)
      days == Chosen(LeaveOneDayOut(f), LAMBDA sp : ~NoAuthorized(f, sp))
      j == Job("train_receiver_fusion_gpu", "classifier", "receiver_fusion_gpu_log")
  IN  IF HasNone(manifest) THEN OnDataset(f, EvaluateInParallel(f, c, days, j)) ELSE Raise

TrainMaml(c) ==
  LET f == LoadChannel6Dataset(c)
  IN  OnDataset(f, Pool(f, ScorableDays(f), DayStage, Job("train_maml", "maml", "maml_log")))

------------------------------------------------------------------------------
(* train_live_checkpoints: the two deployable models, on every window. *)

TrainLiveCheckpoints(c) ==
  LET f == LoadChannel6Dataset(c)
      all == [key |-> 0, train |-> Rows(f), test |-> Rows(f)]
      Ship(m) == Eval(Row("train_live_checkpoints", "in_sample", all, f, f))
                 \o <<[op |-> "ship", task |-> m, script |-> "train_live_checkpoints",
                       rate |-> 0, fit |-> ToSet(f)]>>
  IN  OnDataset(f, ForEach(ExtraZoo, Ship))

\* The order run_all starts the scripts in.
STAGES == <<"train_svm_gait", "train_gbm", "train_cusum", "train_prototypical",
            "train_arcface", "train_transformer_gpu", "train_extra_classifiers_gpu",
            "train_receiver_fusion_gpu", "train_contrastive", "train_maml",
            "train_generative_hard_negative">>
=============================================================================
