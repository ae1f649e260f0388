----------------------------- MODULE CapacityTest -----------------------------
(***************************************************************************)
(* collector/capacity_test.py: pushes one (transport, rate) after another to  *)
(* the board through config.yaml and scripts/push_config.sh, measures each,   *)
(* restores config.yaml and pushes the decision.                            *)
(*                                                                         *)
(* config.yaml is its two lines transport.mode and target_sample_rate_hz.     *)
(* The script takes the mode to the board's NVS, or nothing when a write      *)
(* broke off; the rate goes to the stimulus thread and to no board.  The       *)
(* script reads the default file, so --config is not given.  A measurement   *)
(* is external: how many samples came, the share lost, the jitter.            *)
(* push_config.sh can fail, and Ctrl+C can come at any time.                  *)
(***************************************************************************)
EXTENDS Integers, Sequences

CONSTANTS
  Setups,     \* command, --transport of find_max_rate, --apply, candidate_rates_hz
  Original,   \* the mode and rate config.yaml starts with
  MaxDropPct, \* max_acceptable_drop_pct
  DropPcts,   \* the shares a measurement can show, in percent
  CanFail     \* whether push_config.sh fails and Ctrl+C comes

Setting == [mode : {"tcp", "serial"}, rate : Nat]

ASSUME SetupsAssumption ==
  Setups \subseteq [command : {"sweep", "find_max_rate"}, transport : {"tcp", "serial"},
                    apply : BOOLEAN, rates : Seq(Nat) \ {<<>>}]
ASSUME CanFailAssumption == CanFail \in BOOLEAN
ASSUME OriginalAssumption == Original \in Setting
ASSUME DropsAssumption == MaxDropPct \in Nat /\ DropPcts \subseteq 0..100

VARIABLES args, pc, final, plan, target, file, nvs, results

vars == <<args, pc, final, plan, target, file, nvs, results>>

NoSetting == [mode |-> "none", rate |-> 0]
Elems(s) == {s[i] : i \in 1..Len(s)}

(* The combinations in the order they are tried. *)
Permutation(n) ==
  {p \in [1..n -> 1..n] : \A j \in 1..n : \E i \in 1..n : p[i] = j}
Sorted(s) ==
  CHOOSE t \in {[i \in 1..Len(s) |-> s[p[i]]] : p \in Permutation(Len(s))} :
    \A i, j \in 1..Len(s) : i < j => t[i] <= t[j]
SweepPlan ==
  LET n == Len(args.rates) IN
  [i \in 1..(2 * n) |-> [mode |-> IF i <= n THEN "tcp" ELSE "serial",
                         rate |-> args.rates[((i - 1) % n) + 1]]]
FindMaxPlan ==
  [i \in 1..Len(args.rates) |-> [mode |-> args.transport, rate |-> Sorted(args.rates)[i]]]

Init ==
  /\ args \in Setups
  /\ pc = "next" /\ final = FALSE
  /\ plan = IF args.command = "sweep" THEN SweepPlan ELSE FindMaxPlan
  /\ target = NoSetting
  /\ file = Original /\ nvs = Original.mode
  /\ results = <<>>

-----------------------------------------------------------------------------
(* run_one and push_transport_config *)

NextRun ==
  /\ pc = "next"
  /\ plan # <<>>
  /\ target' = Head(plan)
  /\ plan' = Tail(plan)
  /\ pc' = "setMode"
  /\ UNCHANGED <<args, final, file, nvs, results>>

(* Bug: the script runs before the mode is in the file.                      *)
SetModeAfterPush ==
  /\ pc = "setMode"
  /\ nvs' = file.mode
  /\ file' = target
  /\ pc' = IF final THEN "ended" ELSE "measure"
  /\ UNCHANGED <<args, final, plan, target, results>>

SetMode ==
  /\ pc = "setMode"
  /\ file' = [file EXCEPT !.mode = target.mode]
  /\ pc' = "setRate"
  /\ UNCHANGED <<args, final, plan, target, nvs, results>>

SetRate ==
  /\ pc = "setRate"
  /\ file' = [file EXCEPT !.rate = target.rate]
  /\ pc' = "push"
  /\ UNCHANGED <<args, final, plan, target, nvs, results>>

Push ==
  /\ pc = "push"
  /\ nvs' = file.mode
  /\ pc' = IF final THEN "ended" ELSE "measure"
  /\ UNCHANGED <<args, final, plan, target, file, results>>

(* check=True: a failing script raises, and nothing catches it. *)
PushFails ==
  /\ CanFail
  /\ pc = "push"
  /\ nvs' \in {nvs, file.mode, "none"}
  /\ pc' = "dead"
  /\ UNCHANGED <<args, final, plan, target, file, results>>

(* Enough samples, or fewer than MIN_VALID_SAMPLES; a board that does not    *)
(* come back is a result of no sample and 100% drop.                        *)
Measurement ==
  [valid : BOOLEAN, drop : DropPcts, jitterOk : BOOLEAN]
    \cup {[valid |-> FALSE, drop |-> 100, jitterOk |-> TRUE]}

Passed(m) == m.valid /\ m.drop <= MaxDropPct /\ m.jitterOk

(* find_max_rate stops at the first failure. *)
(* Bug: it goes on.                                                          *)
RemainingAll(passed) == plan

Remaining(passed) == IF args.command = "find_max_rate" /\ ~passed THEN <<>> ELSE plan

Measure ==
  /\ pc = "measure"
  /\ \E m \in Measurement :
       /\ results' = Append(results, [mode |-> target.mode, rate |-> target.rate,
                                      valid |-> m.valid, drop |-> m.drop, passed |-> Passed(m)])
       /\ plan' = Remaining(Passed(m))
  /\ pc' = "next"
  /\ UNCHANGED <<args, final, target, file, nvs>>

-----------------------------------------------------------------------------
(* main: restore, decide, push *)

(* Bug: config.yaml keeps the last combination.                              *)
RestoreForgotten ==
  /\ pc = "next"
  /\ plan = <<>>
  /\ pc' = "decide"
  /\ UNCHANGED <<args, final, plan, target, file, nvs, results>>

Restore ==
  /\ pc = "next"
  /\ plan = <<>>
  /\ file' = Original
  /\ pc' = "decide"
  /\ UNCHANGED <<args, final, plan, target, nvs, results>>

(* min(candidates, key=drop_pct): the first of the lowest. *)
LowestDrop(candidates) ==
  results[CHOOSE i \in candidates :
            \A j \in candidates : \/ results[i].drop < results[j].drop
                                  \/ results[i].drop = results[j].drop /\ i <= j]

(* Bug: results of too few samples compete.                                  *)
FallbackAny == LowestDrop(1..Len(results))

Fallback ==
  LET valid == {i \in 1..Len(results) : results[i].valid} IN
  LowestDrop(IF valid # {} THEN valid ELSE 1..Len(results))

PassingAtRate(t) ==
  \E r \in Elems(results) : r.mode = t /\ r.rate = Original.rate /\ r.passed

PickWinner ==
  CASE PassingAtRate("tcp")    -> [mode |-> "tcp", rate |-> Original.rate]
    [] ~PassingAtRate("tcp") /\ PassingAtRate("serial")
                               -> [mode |-> "serial", rate |-> Original.rate]
    [] OTHER                   -> [mode |-> Fallback.mode, rate |-> Fallback.rate]

(* The last passing rate, or no decision. *)
MaxPassing ==
  LET passing == {i \in 1..Len(results) : results[i].passed} IN
  IF passing = {} THEN Original
  ELSE [mode |-> args.transport, rate |-> results[CHOOSE i \in passing : \A j \in passing : j <= i].rate]

Winner == IF args.command = "sweep" THEN PickWinner ELSE MaxPassing

Decide ==
  /\ pc = "decide"
  /\ target' = IF args.apply THEN Winner ELSE Original
  /\ final' = TRUE
  /\ pc' = "setMode"
  /\ UNCHANGED <<args, plan, file, nvs, results>>

Ended == pc \in {"ended", "dead"}

CtrlC ==
  /\ CanFail
  /\ ~Ended
  /\ pc' = "dead"
  /\ UNCHANGED <<args, final, plan, target, file, nvs, results>>

Next ==
  \/ NextRun \/ SetMode \/ SetRate \/ Push \/ PushFails \/ Measure
  \/ Restore \/ Decide \/ CtrlC

Spec == Init /\ [][Next]_vars /\ WF_vars(Next)

-----------------------------------------------------------------------------
(* Every variable keeps its type. *)
TypeOK ==
  /\ args \in Setups
  /\ pc \in {"next", "setMode", "setRate", "push", "measure", "decide", "ended", "dead"}
  /\ final \in BOOLEAN
  /\ file \in Setting /\ target \in Setting \cup {NoSetting}
  /\ nvs \in {"tcp", "serial", "none"}
  /\ Elems(plan) \subseteq Setting
  /\ \A r \in Elems(results) : r.passed => r.valid

(* A result is of the transport the board really ran: push_config.sh read it  *)
(* from the file before the measurement, and it was the combination's.       *)
MeasuresWhatRuns ==
  [][results' # results => nvs = results'[Len(results')].mode]_vars

(* A test that ends leaves board and config.yaml with the same transport, in  *)
(* the setting from before, or with --apply one of the combinations it measured.     *)
Measured == {[mode |-> r.mode, rate |-> r.rate] : r \in Elems(results)}
EndsConsistent ==
  pc = "ended" => /\ nvs = file.mode
                  /\ file = Original \/ (args.apply /\ file \in Measured)

(* While the decision is pushed config.yaml is never a mix of the last        *)
(* combination tried and the decision: it is between the original and it.     *)
NoMixOfTests ==
  final => file.mode \in {Original.mode, target.mode} /\ file.rate \in {Original.rate, target.rate}

(* What --sweep --apply decides: a transport that passed at the wanted rate,  *)
(* tcp before serial; else nothing with fewer than MIN_VALID_SAMPLES wins     *)
(* over a result that has them, and no such result lost less.                *)
SweepDecision ==
  (pc = "ended" /\ args.command = "sweep" /\ args.apply) =>
    LET wanted == {r \in Elems(results) : r.passed /\ r.rate = Original.rate}
        valid  == {r \in Elems(results) : r.valid}
        chosen == {r \in Elems(results) : r.mode = file.mode /\ r.rate = file.rate}
    IN IF wanted # {}
         THEN /\ chosen \cap wanted # {}
              /\ file.mode = "serial" => \A r \in wanted : r.mode = "serial"
         ELSE valid # {} => \E r \in chosen : r.valid /\ \A v \in valid : r.drop <= v.drop

(* What --find-max-rate --apply decides: a rate that passed, as every lower   *)
(* candidate did, the highest that did, and below every higher candidate or   *)
(* at it one failed.                                                         *)
FindMaxDecision ==
  (pc = "ended" /\ args.command = "find_max_rate" /\ args.apply /\ \E r \in Elems(results) : r.passed) =>
    /\ \A q \in Elems(args.rates) :
         q <= file.rate => \E r \in Elems(results) : r.rate = q /\ r.passed
    /\ \A r \in Elems(results) : r.passed => r.rate <= file.rate
    /\ \A q \in Elems(args.rates) :
         q > file.rate => \E r \in Elems(results) : r.rate \in file.rate..q /\ ~r.passed

=============================================================================
