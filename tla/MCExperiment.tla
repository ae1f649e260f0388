---- MODULE MCExperiment ----
EXTENDS Experiment
MCSessions == 1 .. 14
MCLabel == [s \in MCSessions |-> IF s <= 6 THEN "authorized" ELSE IF s <= 9 THEN "none" ELSE "unauthorized"]
MCPerson == <<1, 2, 1, 2, 1, 1, 0, 0, 0, 3, 4, 3, 5, 4>>
MCMotion == [s \in MCSessions |-> IF s \in {3, 7, 8, 9} THEN "" ELSE IF s % 2 = 0 THEN "standing" ELSE "walking"]
MCDay == <<1, 1, 1, 2, 2, 2, 1, 2, 2, 1, 2, 2, 2, 3>>
MCMacs == [s \in MCSessions |-> IF s \in {5, 9, 12, 14} THEN <<"a", "b", "c">> ELSE <<"a">>]
MCNWindows == [r \in MCSessions \X {"a", "b", "c"} |-> IF r \in {<<13, "a">>, <<12, "b">>} THEN 1 ELSE 2]
MCRate == [s \in MCSessions |-> 100]
MCZoo == <<"whofi_transformer", "calib_context_transformer", "bilstm">>
MCAttention == <<"whofi_transformer", "calib_context_transformer">>
MCConfigs == <<"base">>
MCSeeds == <<0>>
MCChannel6 == MCSessions \ {8}
MCTrainDates == {1, 2}
MCFusionDates == {2, 3}
MCHoldout == {6, 11}
MCAllMacs == {"a", "b", "c"}
MCClassical == <<"svm">>
MCUnusable == {<<14, "b">>}
MCZoo2 == <<"whofi">>
MCExtraZoo == <<"gnn_subcarrier">>
MCInitialSessions == MCSessions \ {3, 14}
MCLaterSessions == {3, 14}
MCOrders == {<<3, 7, 10, 1, 8, 2, 4, 12, 5, 9, 11, 13, 6, 14>>, <<14, 12, 4, 11, 9, 5, 1, 2, 3, 8, 6, 7, 10, 13>>}
MCAlone == {"run_stage1", "train", "run_stage2", "run_stage2_openset", "run_taskD_focus",
  "run_taskD_segment_aggregation", "run_taskD_crossattn_cv", "run_fewshot_finetune",
  "train_final_model", "run_day2_sweep", "compare_receiver_fusion", "cross_day_drift",
  "train_live_checkpoints"}
MCSchedules == {<<s>> : s \in MCAlone} \cup
  {<<"run_all">>, <<"train_gbm", "train_cusum">>, <<"run_stage1", "run_stage1">>,
   <<"train_day3_ch6_model", "eval_day3ch6_holdout">>,
   <<"train_caution_protonet", "train_day3_ch6_model">>}
====
