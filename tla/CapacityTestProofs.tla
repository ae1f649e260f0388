-------------------------- MODULE CapacityTestProofs --------------------------
(***************************************************************************)
(* The safety of CapacityTest, for every candidate list, original setting   *)
(* and measurement.                                                        *)
(*                                                                         *)
(* IInv: where in push_transport_config the test is, file and board hold so  *)
(* much of the target (Writing); once decided the target is what the results *)
(* say and the file is between the original and it (Deciding); the search    *)
(* for the maximum has climbed a prefix of its sorted plan and only its last *)
(* result may have failed (Progress).  That a lowest drop, a last passing    *)
(* rate and a sorted order exist at all follows from the well-foundedness of *)
(* < on the naturals and of its lexicographic orders.                       *)
(***************************************************************************)
EXTENDS CapacityTest, WellFoundedInduction, TLAPS

(* < as a set of pairs. *)

Below == {ss \in Nat \X Nat : ss[1] < ss[2]}

(* No natural number starts an infinite descent. *)
LEMMA BelowWellFounded == IsWellFoundedOn(Below, Nat)
  BY NatLessThanWellFounded DEF Below, OpToRel

Result == [mode : {"tcp", "serial"}, rate : Nat, valid : BOOLEAN, drop : Nat, passed : BOOLEAN]

(* The first of the lowest drops exists, and LowestDrop is one of it. *)
LEMMA LowestDropIsLowest ==
  ASSUME results \in Seq(Result),
         NEW candidates, candidates # {}, candidates \subseteq 1..Len(results)
  PROVE  \E i \in candidates : /\ LowestDrop(candidates) = results[i]
                               /\ \A j \in candidates : results[i].drop <= results[j].drop
<1> DEFINE Rank(i) == <<results[i].drop, i>>
           Ranks == {Rank(i) : i \in candidates}
           Lex == LexPairOrdering(Below, Below, Nat, Nat)
<1>1. \A i \in candidates : i \in Nat /\ results[i].drop \in Nat
  <2> SUFFICES ASSUME NEW i \in candidates PROVE i \in Nat /\ results[i].drop \in Nat
    OBVIOUS
  <2>1. Len(results) \in Nat /\ i \in 1..Len(results)
    OBVIOUS
  <2>2. results[i] \in Result
    BY <2>1
  <2> QED
    BY <2>1, <2>2 DEF Result
<1>2. Ranks \subseteq Nat \X Nat /\ Ranks # {}
  <2>1. \A i \in candidates : Rank(i) \in Nat \X Nat
    BY <1>1
  <2> HIDE DEF Rank
  <2> QED
    BY <2>1
<1>3. IsWellFoundedOn(Lex, Nat \X Nat)
  BY BelowWellFounded, WFLexPairOrdering
<1> HIDE DEF Lex
<1>4. PICK x \in Ranks : \A y \in Ranks : <<y, x>> \notin Lex
  BY <1>2, <1>3, WFMin
<1>5. PICK i \in candidates : x = Rank(i)
  OBVIOUS
<1>6. ASSUME NEW j \in candidates
      PROVE  \/ results[i].drop < results[j].drop
             \/ results[i].drop = results[j].drop /\ i <= j
  <2>1. <<Rank(j), Rank(i)>> \notin Lex
    BY <1>4, <1>5
  <2>2. Rank(j) \in Nat \X Nat /\ Rank(i) \in Nat \X Nat
    BY <1>1
  <2>3. /\ <<results[j].drop, results[i].drop>> \notin Below
        /\ results[j].drop = results[i].drop => <<j, i>> \notin Below
    BY <2>1, <2>2 DEF Lex, LexPairOrdering
  <2> QED
    BY <1>1, <2>3 DEF Below
<1> DEFINE Chosen(k) == \A j \in candidates :
                           \/ results[k].drop < results[j].drop
                           \/ results[k].drop = results[j].drop /\ k <= j
           c == CHOOSE k \in candidates : Chosen(k)
<1>7. Chosen(i)
  BY <1>6
<1> HIDE DEF Chosen
<1>8. c \in candidates /\ Chosen(c)
  BY <1>7
<1>9. LowestDrop(candidates) = results[c]
  BY DEF LowestDrop, Chosen
<1> HIDE DEF c
<1>10. \A j \in candidates : results[c].drop <= results[j].drop
  <2> SUFFICES ASSUME NEW j \in candidates PROVE results[c].drop <= results[j].drop
    OBVIOUS
  <2>1. \/ results[c].drop < results[j].drop
        \/ results[c].drop = results[j].drop /\ c <= j
    BY <1>8 DEF Chosen
  <2>2. results[c].drop \in Nat /\ results[j].drop \in Nat
    BY <1>1, <1>8
  <2> QED
    BY <2>1, <2>2
<1> QED
  BY <1>8, <1>9, <1>10

(* Sorted is a permutation in ascending order. *)
LEMMA SortedIsSorted ==
  ASSUME NEW s \in Seq(Nat)
  PROVE  /\ Sorted(s) \in [1..Len(s) -> Nat]
         /\ \A i, j \in 1..Len(s) : i < j => Sorted(s)[i] <= Sorted(s)[j]
         /\ \A j \in 1..Len(s) : \E i \in 1..Len(s) : Sorted(s)[i] = s[j]
         /\ \A i \in 1..Len(s) : \E j \in 1..Len(s) : Sorted(s)[i] = s[j]
<1> DEFINE n == Len(s)
           Of(p) == [i \in 1..n |-> s[p[i]]]
           Arranged == {Of(p) : p \in Permutation(n)}
           Lex == LexProductOrdering(Below, Nat, n)
<1>1. n \in Nat /\ \A i \in 1..n : s[i] \in Nat
  OBVIOUS
<1> HIDE DEF n
<1>2. \A p \in Permutation(n) : Of(p) \in [1..n -> Nat]
  BY <1>1 DEF Permutation
<1>3. Arranged # {}
  <2>1. [i \in 1..n |-> i] \in Permutation(n)
    BY DEF Permutation
  <2> QED
    BY <2>1
<1>4. PICK t \in Arranged : \A u \in Arranged : <<u, t>> \notin Lex
  <2>1. IsWellFoundedOn(Lex, [1..n -> Nat])
    BY <1>1, BelowWellFounded, WFLexProductOrdering
  <2>2. Arranged \subseteq [1..n -> Nat]
    BY <1>2
  <2> HIDE DEF Lex, Arranged
  <2> QED
    BY <2>1, <2>2, <1>3, WFMin
<1>5. PICK p \in Permutation(n) : t = Of(p)
  OBVIOUS
<1>6. ASSUME NEW i \in 1..n, NEW j \in 1..n, i < j
      PROVE  t[i] <= t[j]
  <2> SUFFICES ASSUME t[j] < t[i] PROVE FALSE
    BY <1>1, <1>2, <1>5
  <2> DEFINE q == [k \in 1..n |-> IF k = i THEN p[j] ELSE IF k = j THEN p[i] ELSE p[k]]
             u == Of(q)
  <2>1. q \in Permutation(n)
    <3>1. q \in [1..n -> 1..n]
      BY DEF Permutation
    <3>2. ASSUME NEW m \in 1..n PROVE \E k \in 1..n : q[k] = m
      <4>1. PICK k \in 1..n : p[k] = m
        BY DEF Permutation
      <4>2. q[IF k = i THEN j ELSE IF k = j THEN i ELSE k] = m
        BY <4>1, <1>6
      <4> QED
        BY <4>2
    <3> QED
      BY <3>1, <3>2 DEF Permutation
  <2>2. u \in Arranged /\ u \in [1..n -> Nat] /\ t \in [1..n -> Nat]
    <3> HIDE DEF q
    <3>1. u \in Arranged
      BY <2>1
    <3> HIDE DEF u
    <3> QED
      BY <2>1, <3>1, <1>2, <1>5 DEF u
  <2>3. u[i] = t[j] /\ \A k \in 1..(i - 1) : u[k] = t[k]
    BY <1>1, <1>5, <1>6
  <2> HIDE DEF u
  <2>4. <<u[i], t[i]>> \in Below
    BY <2>2, <2>3 DEF Below
  <2>5. <<u, t>> \in Lex
    BY <2>2, <2>3, <2>4 DEF LexProductOrdering
  <2> QED
    BY <1>4, <2>2, <2>5
<1> DEFINE Ascending(v) == \A i, j \in 1..n : i < j => v[i] <= v[j]
<1>7. Sorted(s) = CHOOSE v \in Arranged : Ascending(v)
  BY DEF Sorted, n
<1>8. Sorted(s) \in Arranged /\ Ascending(Sorted(s))
  <2>1. \E v \in Arranged : Ascending(v)
    BY <1>6
  <2> HIDE DEF Arranged, Ascending
  <2> QED
    BY <2>1, <1>7
<1>9. PICK r \in Permutation(n) : Sorted(s) = Of(r)
  BY <1>8
<1>10. Sorted(s) \in [1..n -> Nat]
  BY <1>2, <1>9
<1>11. /\ \A i \in 1..n : r[i] \in 1..n /\ Sorted(s)[i] = s[r[i]]
       /\ \A j \in 1..n : \E i \in 1..n : r[i] = j
  BY <1>9 DEF Permutation
<1>12. ASSUME NEW j \in 1..n PROVE \E i \in 1..n : Sorted(s)[i] = s[j]
  <2>1. PICK i \in 1..n : r[i] = j
    BY <1>11
  <2> QED
    BY <2>1, <1>11
<1>13. \A i \in 1..n : \E j \in 1..n : Sorted(s)[i] = s[j]
  BY <1>11
<1>14. \A i, j \in 1..n : i < j => Sorted(s)[i] <= Sorted(s)[j]
  BY <1>8
<1> QED
  BY <1>10, <1>12, <1>13, <1>14, Zenon DEF n

-----------------------------------------------------------------------------
(* The decisions are measured combinations. *)

Results == results \in Seq(Result) /\ results # <<>>

(* A non-empty list of results has results, each with a measured setting. *)
LEMMA ResultFacts ==
  ASSUME Results
  PROVE  /\ Len(results) \in Nat \ {0}
         /\ \A i \in 1..Len(results) :
              /\ results[i] \in Result
              /\ [mode |-> results[i].mode, rate |-> results[i].rate] \in Measured \cap Setting
         /\ \A r \in Elems(results) : \E i \in 1..Len(results) : r = results[i]
<1>1. Len(results) \in Nat \ {0}
  BY DEF Results
<1>2. ASSUME NEW i \in 1..Len(results)
      PROVE  /\ results[i] \in Result
             /\ [mode |-> results[i].mode, rate |-> results[i].rate] \in Measured \cap Setting
  <2>1. results[i] \in Result /\ results[i] \in Elems(results)
    BY DEF Results, Elems
  <2> QED
    BY <2>1 DEF Measured, Setting, Result
<1> QED
  BY <1>1, <1>2 DEF Elems

(* Without a winner at the wanted rate a result is taken that is valid if any
   is, and lost the least of the valid ones. *)
LEMMA FallbackIsMeasured ==
  ASSUME Results
  PROVE  \E i \in 1..Len(results) :
           /\ Fallback = results[i]
           /\ (\E j \in 1..Len(results) : results[j].valid) => 
                results[i].valid
           /\ \A j \in 1..Len(results) :
                results[j].valid => results[i].drop <= results[j].drop
<1> DEFINE valid == {i \in 1..Len(results) : results[i].valid}
<1>1. CASE valid # {}
  <2>1. PICK i \in valid : Fallback = results[i] /\ \A j \in valid : results[i].drop <= results[j].drop
    BY <1>1, LowestDropIsLowest DEF Fallback, Results
  <2> QED
    BY <2>1
<1>2. CASE valid = {}
  <2>1. 1..Len(results) # {}
    BY ResultFacts
  <2>2. PICK i \in 1..Len(results) : Fallback = results[i]
    BY <1>2, <2>1, LowestDropIsLowest DEF Fallback, Results
  <2> QED
    BY <1>2, <2>2
<1> QED
  BY <1>1, <1>2

(* pick_winner chooses a setting that was measured. *)
LEMMA PickWinnerIsMeasured == Results => PickWinner \in Measured \cap Setting
<1> SUFFICES ASSUME Results PROVE PickWinner \in Measured \cap Setting
  OBVIOUS
<1>1. ASSUME NEW t, PassingAtRate(t)
      PROVE  [mode |-> t, rate |-> Original.rate] \in Measured \cap Setting
  BY <1>1, ResultFacts DEF PassingAtRate
<1>2. [mode |-> Fallback.mode, rate |-> Fallback.rate] \in Measured \cap Setting
  BY FallbackIsMeasured, ResultFacts
<1> QED
  BY <1>1, <1>2 DEF PickWinner

(* The passing result that MaxPassing takes is the last one. *)
LEMMA MaxPassingIsLast ==
  ASSUME Results,
         NEW m \in 1..Len(results), results[m].passed,
         \A i \in 1..Len(results) : results[i].passed => i <= m
  PROVE  MaxPassing = [mode |-> args.transport, rate |-> results[m].rate]
<1> DEFINE passing == {i \in 1..Len(results) : results[i].passed}
           last == CHOOSE i \in passing : \A j \in passing : j <= i
<1>1. m \in passing /\ \A j \in passing : j <= m
  OBVIOUS
<1>2. last \in passing /\ \A j \in passing : j <= last
  BY <1>1
<1>3. last = m
  BY <1>1, <1>2
<1> QED
  BY <1>1, <1>3 DEF MaxPassing

-----------------------------------------------------------------------------
(* Types *)

Types ==
  /\ args \in Setups
  /\ pc \in {"next", "setMode", "setRate", "push", "measure", "decide", "ended", "dead"}
  /\ final \in BOOLEAN
  /\ file \in Setting /\ target \in Setting \cup {NoSetting}
  /\ nvs \in {"tcp", "serial", "none"}
  /\ plan \in Seq(Setting)
  /\ results \in Seq(Result)
  /\ \A i \in 1..Len(results) : results[i].passed => results[i].valid
  /\ pc = "next" => plan # <<>> \/ results # <<>>
  /\ pc = "decide" \/ final => results # <<>>
  /\ pc \in {"setMode", "setRate", "push", "measure"} => target \in Setting

Arguments == [command : {"sweep", "find_max_rate"}, transport : {"tcp", "serial"},
              apply : BOOLEAN, rates : Seq(Nat) \ {<<>>}]

(* Both plans are non-empty; the search goes through the sorted candidates. *)
LEMMA PlanTypes ==
  ASSUME args \in Arguments
  PROVE  /\ SweepPlan \in Seq(Setting) \ {<<>>}
         /\ FindMaxPlan \in Seq(Setting) \ {<<>>}
         /\ Len(FindMaxPlan) = Len(args.rates)
         /\ \A i \in 1..Len(args.rates) :
              FindMaxPlan[i] = [mode |-> args.transport, rate |-> Sorted(args.rates)[i]]
<1> DEFINE n == Len(args.rates)
<1>1. /\ args.rates \in Seq(Nat) /\ args.transport \in {"tcp", "serial"}
      /\ args.rates # <<>>
  BY DEF Arguments
<1>2. n \in Nat \ {0} /\ \A i \in 1..n : args.rates[i] \in Nat
  BY <1>1
<1>3. \A i \in 1..n : Sorted(args.rates)[i] \in Nat
  BY <1>1, SortedIsSorted
<1> HIDE DEF n
<1>4. FindMaxPlan = [i \in 1..n |-> [mode |-> args.transport, rate |-> Sorted(args.rates)[i]]]
  BY DEF FindMaxPlan, n
<1>5. \A i \in 1..n : [mode |-> args.transport, rate |-> Sorted(args.rates)[i]] \in Setting
  BY <1>1, <1>3 DEF Setting
<1>6. FindMaxPlan \in Seq(Setting) /\ Len(FindMaxPlan) = n
  BY <1>2, <1>4, <1>5
<1>7. ASSUME NEW i \in 1..(2 * n)
      PROVE  [mode |-> IF i <= n THEN "tcp" ELSE "serial",
              rate |-> args.rates[((i - 1) % n) + 1]] \in Setting
  <2>1. ((i - 1) % n) + 1 \in 1..n
    BY <1>2
  <2> QED
    BY <1>2, <2>1 DEF Setting
<1>8. SweepPlan = [i \in 1..(2 * n) |-> [mode |-> IF i <= n THEN "tcp" ELSE "serial",
                                         rate |-> args.rates[((i - 1) % n) + 1]]]
  BY DEF SweepPlan, n
<1> DEFINE N == 2 * n
<1>9. N \in Nat /\ N # 0
  BY <1>2
<1> HIDE DEF N
<1>10. SweepPlan \in Seq(Setting) /\ Len(SweepPlan) = N
  <2> DEFINE Try(i) == [mode |-> IF i <= n THEN "tcp" ELSE "serial",
                        rate |-> args.rates[((i - 1) % n) + 1]]
  <2>1. SweepPlan = [i \in 1..N |-> Try(i)] /\ \A i \in 1..N : Try(i) \in Setting
    BY <1>7, <1>8 DEF N
  <2> HIDE DEF Try
  <2> QED
    BY <1>9, <2>1
<1> QED
  BY <1>2, <1>4, <1>6, <1>9, <1>10 DEF n

LEMMA InitTypes == Init => Types
<1> SUFFICES ASSUME Init PROVE Types
  OBVIOUS
<1>1. args \in Setups /\ args \in Arguments
  BY SetupsAssumption DEF Init, Arguments
<1>2. plan \in Seq(Setting) \ {<<>>}
  BY <1>1, PlanTypes DEF Init
<1>3. Original \in Setting /\ Original.mode \in {"tcp", "serial"}
  BY OriginalAssumption DEF Setting
<1>4. results = <<>> /\ results \in Seq(Result) /\ Len(results) = 0
  BY DEF Init
<1>5. /\ pc = "next" /\ final = FALSE /\ target = NoSetting
      /\ file = Original /\ nvs = Original.mode
  BY DEF Init
<1>6. \A i \in 1..Len(results) : FALSE
  BY <1>4
<1>7. plan # <<>> /\ plan \in Seq(Setting)
  BY <1>2
<1> QED
  BY <1>1, <1>3, <1>4, <1>5, <1>6, <1>7, Zenon DEF Types

(* One more result. *)
LEMMA MeasureFacts ==
  ASSUME Types, Measure, target \in Setting
  PROVE  LET k == Len(results) IN
         /\ k \in Nat
         /\ results' \in Seq(Result) /\ Len(results') = k + 1 
         /\ \A i \in 1..k : results'[i] = results[i]
         /\ results'[k + 1].mode = target.mode /\ results'[k + 1].rate = target.rate
         /\ results'[k + 1].passed => results'[k + 1].valid
         /\ plan' = Remaining(results'[k + 1].passed)
<1> USE DEF Measurement
<1>1. PICK m \in Measurement :
        /\ results' = Append(results, [mode |-> target.mode, rate |-> target.rate,
                                       valid |-> m.valid, drop |-> m.drop, passed |-> Passed(m)])
        /\ plan' = Remaining(Passed(m))
  BY DEF Measure
<1> DEFINE r == [mode |-> target.mode, rate |-> target.rate,
                 valid |-> m.valid, drop |-> m.drop, passed |-> Passed(m)]
<1>2. m.valid \in BOOLEAN /\ m.drop \in Nat /\ m.jitterOk \in BOOLEAN
  <2>1. \A d \in DropPcts : d \in Nat
    BY DropsAssumption
  <2>2. CASE m \in [valid : BOOLEAN, drop : DropPcts, jitterOk : BOOLEAN]
    BY <2>1, <2>2
  <2>3. CASE m = [valid |-> FALSE, drop |-> 100, jitterOk |-> TRUE]
    BY <2>3
  <2> QED
    BY <2>2, <2>3
<1>3. Passed(m) \in BOOLEAN /\ (Passed(m) => m.valid)
  BY <1>2 DEF Passed
<1>4. r \in Result
  BY <1>2, <1>3 DEF Result, Setting
<1>5. results \in Seq(Result)
  BY DEF Types
<1> HIDE DEF r
<1>6. /\ Append(results, r) \in Seq(Result) /\ Len(Append(results, r)) = Len(results) + 1
      /\ \A i \in 1..Len(results) : Append(results, r)[i] = results[i]
      /\ Append(results, r)[Len(results) + 1] = r /\ Len(results) \in Nat
  BY <1>4, <1>5
<1>7. results' = Append(results, r)
  BY <1>1 DEF r
<1>8. r.mode = target.mode /\ r.rate = target.rate /\ r.passed = Passed(m) /\ r.valid = m.valid
  BY DEF r
<1> QED
  BY <1>1, <1>3, <1>6, <1>7, <1>8

-----------------------------------------------------------------------------
(* The steps of the test. *)

(* What the file and the board hold where.                                   *)
Writing ==
  /\ pc = "setRate" => file.mode = target.mode
  /\ pc \in {"push", "measure", "ended"} => file = target
  /\ pc \in {"measure", "ended"} => nvs = target.mode
  /\ pc \in {"next", "measure", "decide"} => ~final
  /\ pc = "ended" => final
  /\ pc = "decide" => file = Original

(* The decision is that of the results, and is written over the original.    *)
Deciding ==
  final => /\ target = IF args.apply THEN Winner ELSE Original
           /\ file.mode \in {Original.mode, target.mode}
           /\ file.rate \in {Original.rate, target.rate}
           /\ pc = "setMode" => file = Original

(* The search goes up its plan, and only the last result can be a failure.   *)
AllPassed == \A i \in 1..Len(results) : results[i].passed
Stopped == Len(results) > 0 /\ ~results[Len(results)].passed
Climbed ==
  /\ Len(results) <= Len(FindMaxPlan)
  /\ \A i \in 1..Len(results) : /\ results[i].mode = FindMaxPlan[i].mode
                                /\ results[i].rate = FindMaxPlan[i].rate
                                /\ i < Len(results) => results[i].passed
Rest(n) == SubSeq(FindMaxPlan, n, Len(FindMaxPlan))
Climbing ==
  /\ pc = "next" => \/ AllPassed /\ plan = Rest(Len(results) + 1)
                    \/ Stopped /\ plan = <<>>
  /\ (pc \in {"setMode", "setRate", "push", "measure"} /\ ~final) =>
       /\ AllPassed
       /\ Len(results) < Len(FindMaxPlan)
       /\ target = FindMaxPlan[Len(results) + 1]
       /\ plan = Rest(Len(results) + 2)
  /\ (pc = "decide" \/ final) =>
       (AllPassed /\ Len(results) = Len(FindMaxPlan)) \/ Stopped
Progress == args.command = "find_max_rate" => Climbed /\ Climbing

IInv == Types /\ Writing /\ Deciding /\ Progress

(* Writing the two keys one after the other makes a setting of another. *)
LEMMA SettingFacts ==
  ASSUME NEW f \in Setting, NEW t \in Setting
  PROVE  /\ [f EXCEPT !.mode = t.mode] \in Setting
         /\ [f EXCEPT !.mode = t.mode].mode = t.mode
         /\ [f EXCEPT !.mode = t.mode].rate = f.rate
         /\ f.mode = t.mode => [f EXCEPT !.rate = t.rate] = t
  BY DEF Setting

(* The decision depends on the arguments and results only. *)
LEMMA WinnerUnchanged == UNCHANGED <<args, results>> => Winner' = Winner
<1> SUFFICES ASSUME args' = args, results' = results PROVE Winner' = Winner
  OBVIOUS
<1>1. \A t : PassingAtRate(t)' = PassingAtRate(t)
  BY DEF PassingAtRate, Elems
<1>2. Fallback' = Fallback
  BY DEF Fallback, LowestDrop
<1>3. MaxPassing' = MaxPassing
  BY DEF MaxPassing
<1> QED
  BY <1>1, <1>2, <1>3 DEF Winner, PickWinner

LEMMA PlanUnchanged ==
  UNCHANGED args => FindMaxPlan' = FindMaxPlan /\ \A n : Rest(n)' = Rest(n)
  BY DEF FindMaxPlan, Rest

(* Among results one of which passed there is a last that passed. *)
LEMMA LastPassing ==
  ASSUME Results, NEW i \in 1..Len(results), results[i].passed
  PROVE  \E m \in 1..Len(results) : 
           /\ results[m].passed
           /\ \A j \in 1..Len(results) : results[j].passed => j <= m
<1> DEFINE n == Len(results)
           passing == {j \in 1..n : results[j].passed}
           Above == {n - j : j \in passing}
<1>1. n \in Nat
  BY ResultFacts
<1> HIDE DEF n
<1>2. Above # {} /\ Above \subseteq Nat
  BY <1>1 DEF n
<1>3. PICK d \in Above : \A e \in Above : <<e, d>> \notin Below
  <2> HIDE DEF Above
  <2> QED
    BY <1>2, BelowWellFounded, WFMin
<1>4. PICK m \in passing : d = n - m
  OBVIOUS
<1>5. ASSUME NEW j \in passing PROVE j <= m
  <2>1. n - j \in Above /\ n - j \in Nat /\ n - m \in Nat
    BY <1>1
  <2>2. ~(n - j < n - m)
    BY <1>3, <1>4, <2>1 DEF Below
  <2> QED
    BY <1>1, <2>2
<1> QED
  BY <1>5 DEF n

(* What the results decide is one of their settings, or the original.        *)
LEMMA WinnerFacts ==
  ASSUME Results, args \in Arguments,
         args.command = "find_max_rate" =>
           \A i \in 1..Len(results) : results[i].mode = args.transport
  PROVE  Winner \in Setting /\ Winner \in Measured \cup {Original}
<1>1. Original \in Setting
  BY OriginalAssumption
<1>2. CASE args.command = "sweep"
  BY <1>2, PickWinnerIsMeasured DEF Winner
<1>3. CASE args.command # "sweep" /\ \A i \in 1..Len(results) : ~results[i].passed
  BY <1>1, <1>3 DEF Winner, MaxPassing
<1>4. ASSUME args.command # "sweep", NEW i \in 1..Len(results), results[i].passed
      PROVE  Winner \in Measured \cap Setting
  <2>1. args.command = "find_max_rate"
    BY <1>4 DEF Arguments
  <2>2. PICK m \in 1..Len(results) : /\ results[m].passed
                                     /\ \A j \in 1..Len(results) : results[j].passed => j <= m
    BY <1>4, LastPassing
  <2>3. Winner = [mode |-> results[m].mode, rate |-> results[m].rate]
    BY <1>4, <2>1, <2>2, MaxPassingIsLast DEF Winner
  <2> QED
    BY <2>3, ResultFacts
<1> QED
  BY <1>1, <1>2, <1>3, <1>4

(* The search's results are all of the transport it was asked for. *)
LEMMA ResultModes ==
  ASSUME Types, Progress, args.command = "find_max_rate"
  PROVE  \A i \in 1..Len(results) : results[i].mode = args.transport
<1> SUFFICES ASSUME NEW i \in 1..Len(results) PROVE results[i].mode = args.transport
  OBVIOUS
<1>1. args \in Arguments
  BY SetupsAssumption DEF Types, Arguments
<1>2. Len(results) <= Len(args.rates) /\ results[i].mode = FindMaxPlan[i].mode
  BY <1>1, PlanTypes DEF Progress, Climbed
<1>3. Len(results) \in Nat /\ Len(args.rates) \in Nat
  BY <1>1 DEF Arguments, Types
<1>4. i \in 1..Len(args.rates)
  BY <1>2, <1>3
<1>5. FindMaxPlan[i] = [mode |-> args.transport, rate |-> Sorted(args.rates)[i]]
  BY <1>1, <1>4, PlanTypes
<1> QED
  BY <1>2, <1>5

(* Every action keeps each part of IInv. *)
LEMMA TypesStep == Types /\ Writing /\ Deciding /\ Progress /\ [Next]_vars => Types'
<1> SUFFICES ASSUME Types, Writing, Deciding, Progress, [Next]_vars PROVE Types'
  OBVIOUS
<1> USE DEF Types
<1>1. Original \in Setting /\ args \in Arguments
  BY OriginalAssumption, SetupsAssumption DEF Arguments
<1>2. CASE NextRun
  <2>1. Head(plan) \in Setting /\ Tail(plan) \in Seq(Setting)
    BY <1>2 DEF NextRun
  <2> QED
    BY <1>2, <2>1 DEF NextRun, Writing
<1>3. CASE SetMode
  <2>1. target \in Setting /\ file' \in Setting
    BY <1>3, SettingFacts DEF SetMode, Writing
  <2> QED
    BY <1>3, <2>1 DEF SetMode
<1>4. CASE SetRate
  <2>1. target \in Setting /\ file' \in Setting
    BY <1>4, SettingFacts DEF SetRate, Writing
  <2> QED
    BY <1>4, <2>1 DEF SetRate
<1>5. CASE Push
  BY <1>5 DEF Push, Setting
<1>6. CASE PushFails
  BY <1>6 DEF PushFails, Setting
<1>7. CASE Measure
  <2>1. target \in Setting /\ ~final
    BY <1>7 DEF Measure, Writing
  <2> DEFINE k == Len(results)
  <2>2. /\ k \in Nat /\ results' \in Seq(Result) /\ Len(results') = k + 1
        /\ \A i \in 1..k : results'[i] = results[i]
        /\ results'[k + 1].passed => results'[k + 1].valid
        /\ plan' = Remaining(results'[k + 1].passed)
    BY <1>7, <2>1, MeasureFacts
  <2>3. plan' \in Seq(Setting)
    BY <2>2 DEF Remaining
  <2>4. \A i \in 1..Len(results') : results'[i].passed => results'[i].valid
    <3> SUFFICES ASSUME NEW i \in 1..Len(results'), results'[i].passed PROVE results'[i].valid
      OBVIOUS
    <3>1. i \in 1..k \/ i = k + 1
      BY <2>2
    <3> QED
      BY <2>2, <3>1
  <2>5. results' # <<>>
    BY <2>2
  <2>6. /\ UNCHANGED <<args, final, target, file, nvs>> /\ pc' = "next"
    BY <1>7 DEF Measure
  <2> QED
    BY <2>1, <2>2, <2>3, <2>4, <2>5, <2>6
<1>8. CASE Restore
  BY <1>1, <1>8 DEF Restore
<1>9. CASE Decide
  <2>1. Results
    BY <1>9 DEF Decide, Results
  <2>2. args.command = "find_max_rate" =>
          \A i \in 1..Len(results) : results[i].mode = args.transport
    BY ResultModes
  <2>3. Winner \in Setting
    BY <1>1, <2>1, <2>2, WinnerFacts
  <2>4. target' \in Setting
    BY <1>1, <1>9, <2>3 DEF Decide
  <2> QED
    BY <1>9, <2>1, <2>4 DEF Decide, Results
<1>10. CASE CtrlC
  BY <1>10 DEF CtrlC
<1>11. CASE UNCHANGED vars
  BY <1>11 DEF vars
<1> QED
  BY <1>2, <1>3, <1>4, <1>5, <1>6, <1>7, <1>8, <1>9, <1>10, <1>11 DEF Next

LEMMA WritingStep == Types /\ Types' /\ Writing /\ [Next]_vars => Writing'
<1> SUFFICES ASSUME Types, Types', Writing, [Next]_vars PROVE Writing'
  OBVIOUS
<1> USE DEF Writing
<1>2. CASE NextRun
  <2>1. Head(plan) \in Setting
    BY <1>2 DEF NextRun, Types
  <2> QED
    BY <1>2, <2>1 DEF NextRun
<1>3. CASE SetMode
  BY <1>3, SettingFacts DEF SetMode, Types
<1>4. CASE SetRate
  BY <1>4, SettingFacts DEF SetRate, Types
<1>5. CASE Push
  BY <1>5 DEF Push, Types
<1>6. CASE PushFails
  BY <1>6 DEF PushFails
<1>7. CASE Measure
  BY <1>7 DEF Measure
<1>8. CASE Restore
  BY <1>8 DEF Restore
<1>9. CASE Decide
  BY <1>9 DEF Decide, Types
<1>10. CASE CtrlC
  BY <1>10 DEF CtrlC
<1>11. CASE UNCHANGED vars
  BY <1>11 DEF vars
<1> QED
  BY <1>2, <1>3, <1>4, <1>5, <1>6, <1>7, <1>8, <1>9, <1>10, <1>11 DEF Next

LEMMA DecidingStep == Types /\ Writing /\ Deciding /\ [Next]_vars => Deciding'
<1> SUFFICES ASSUME Types, Writing, Deciding, [Next]_vars, final' PROVE Deciding'
  BY DEF Deciding
<1> USE DEF Deciding
<1>3. CASE SetMode
  BY <1>3, SettingFacts, WinnerUnchanged DEF SetMode, Types, Writing
<1>4. CASE SetRate
  BY <1>4, SettingFacts, WinnerUnchanged DEF SetRate, Types, Writing
<1>5. CASE Push
  BY <1>5, WinnerUnchanged DEF Push
<1>6. CASE PushFails
  BY <1>6, WinnerUnchanged DEF PushFails
<1>9. CASE Decide
  BY <1>9, WinnerUnchanged DEF Decide, Writing
<1>10. CASE CtrlC
  BY <1>10, WinnerUnchanged DEF CtrlC
<1>11. CASE UNCHANGED vars
  BY <1>11, WinnerUnchanged DEF vars
<1> QED
  BY <1>3, <1>4, <1>5, <1>6, <1>9, <1>10, <1>11
     DEF Next, NextRun, Measure, Restore, Writing

LEMMA ProgressStep == Types /\ Writing /\ Progress /\ [Next]_vars => Progress'
<1> SUFFICES ASSUME Types, Writing, Progress, [Next]_vars PROVE Progress'
  OBVIOUS
<1>0. args' = args
  <2>1. CASE NextRun \/ SetMode \/ SetRate \/ Push
    BY <2>1 DEF NextRun, SetMode, SetRate, Push
  <2>2. CASE PushFails \/ Measure
    BY <2>2 DEF PushFails, Measure
  <2>3. CASE Restore \/ Decide \/ CtrlC \/ UNCHANGED vars
    BY <2>3 DEF Restore, Decide, CtrlC, vars
  <2> QED
    BY <2>1, <2>2, <2>3 DEF Next
<1> SUFFICES ASSUME args.command = "find_max_rate" PROVE Climbed' /\ Climbing'
  BY <1>0 DEF Progress
<1> DEFINE P == FindMaxPlan
           k == Len(results)
<1>1. Climbed /\ Climbing
  BY DEF Progress
<1>2. /\ FindMaxPlan' = P /\ \A n : Rest(n)' = Rest(n)
      /\ P \in Seq(Setting) /\ k \in Nat /\ Len(P) \in Nat
  <2>1. args \in Arguments
    BY SetupsAssumption DEF Types, Arguments
  <2> QED
    BY <1>0, <2>1, PlanUnchanged, PlanTypes DEF Types
<1>3. ASSUME UNCHANGED results
      PROVE  Climbed' /\ AllPassed' = AllPassed /\ Stopped' = Stopped
  BY <1>1, <1>2, <1>3 DEF Climbed, AllPassed, Stopped
<1>4. CASE NextRun
  <2>1. plan # <<>> /\ plan' = Tail(plan) /\ target' = Head(plan) /\ pc' = "setMode"
        /\ results' = results /\ final' = final /\ pc = "next" /\ ~final
    BY <1>4 DEF NextRun, Writing
  <2>2. AllPassed /\ plan = Rest(k + 1)
    BY <1>1, <2>1 DEF Climbing
  <2>3. k < Len(P) /\ Head(plan) = P[k + 1] /\ Tail(plan) = Rest(k + 2)
    BY <1>2, <2>1, <2>2, SMTT(30) DEF Rest
  <2> QED
    BY <1>2, <1>3, <2>1, <2>2, <2>3 DEF Climbing
<1>5. CASE SetMode \/ SetRate \/ Push
  BY <1>1, <1>2, <1>3, <1>5 DEF SetMode, SetRate, Push, Climbing, Writing
<1>6. CASE PushFails \/ CtrlC
  BY <1>1, <1>2, <1>3, <1>6 DEF PushFails, CtrlC, Climbing
<1>7. CASE Measure
  <2>1. /\ AllPassed /\ k < Len(P) /\ target = P[k + 1] /\ plan = Rest(k + 2)
        /\ ~final /\ target \in Setting
    BY <1>1, <1>7 DEF Measure, Writing, Climbing, Types
  <2>2. pc' = "next" /\ final' = final
    BY <1>7 DEF Measure
  <2>3. /\ Len(results') = k + 1
        /\ \A i \in 1..k : results'[i] = results[i]
        /\ results'[k + 1].mode = target.mode /\ results'[k + 1].rate = target.rate
        /\ plan' = IF results'[k + 1].passed THEN plan ELSE <<>>
    BY <1>7, <2>1, MeasureFacts DEF Remaining
  <2>4. Climbed'
    <3> SUFFICES ASSUME NEW i \in 1..(k + 1)
                 PROVE  /\ results'[i].mode = P[i].mode /\ results'[i].rate = P[i].rate
                        /\ i < k + 1 => results'[i].passed
      BY <1>2, <2>1, <2>3 DEF Climbed
    <3>1. CASE i = k + 1
      BY <1>2, <2>1, <2>3, <3>1
    <3>2. CASE i \in 1..k
      BY <1>1, <2>1, <2>3, <3>2 DEF Climbed, AllPassed
    <3> QED
      BY <1>2, <3>1, <3>2
  <2>5. CASE results'[k + 1].passed
    <3>1. AllPassed'
      <4> SUFFICES ASSUME NEW i \in 1..(k + 1) PROVE results'[i].passed
        BY <2>3 DEF AllPassed
      <4>1. i = k + 1 \/ i \in 1..k
        BY <1>2
      <4> QED
        BY <2>1, <2>3, <2>5, <4>1 DEF AllPassed
    <3>2. plan' = Rest(Len(results) + 1)'
      BY <1>2, <2>1, <2>3, <2>5
    <3> QED
      BY <2>1, <2>2, <2>4, <3>1, <3>2 DEF Climbing
  <2>6. CASE ~results'[k + 1].passed
    BY <1>2, <2>1, <2>2, <2>3, <2>4, <2>6 DEF Climbing, Stopped
  <2> QED
    BY <2>5, <2>6
<1>8. CASE Restore
  <2>1. plan = <<>> /\ pc = "next" /\ pc' = "decide" /\ results' = results /\ final' = final
    BY <1>8 DEF Restore
  <2>2. ASSUME AllPassed, plan = Rest(k + 1) PROVE k = Len(P)
    <3>1. k <= Len(P) /\ SubSeq(P, k + 1, Len(P)) = <<>>
      BY <1>1, <2>1, <2>2 DEF Rest, Climbed
    <3> HIDE DEF P, k
    <3>2. Len(SubSeq(P, k + 1, Len(P))) = Len(P) - k
      BY <1>2, <3>1
    <3>3. Len(P) - k = 0
      BY <3>1, <3>2
    <3> QED
      BY <1>2, <3>3
  <2>3. (AllPassed /\ k = Len(P)) \/ Stopped
    BY <1>1, <2>1, <2>2 DEF Climbing
  <2> QED
    BY <1>2, <1>3, <2>1, <2>3 DEF Climbing, Writing
<1>9. CASE Decide
  BY <1>1, <1>2, <1>3, <1>9 DEF Decide, Climbing
<1>10. CASE UNCHANGED vars
  BY <1>1, <1>2, <1>3, <1>10 DEF vars, Climbing
<1> QED
  BY <1>4, <1>5, <1>6, <1>7, <1>8, <1>9, <1>10 DEF Next

LEMMA InitIInv == Init => IInv
<1> SUFFICES ASSUME Init PROVE IInv
  OBVIOUS
<1>1. args \in Arguments
  BY SetupsAssumption DEF Init, Arguments
<1>2. pc = "next" /\ ~final /\ results = <<>> /\ Len(results) = 0
  BY DEF Init
<1>3. args.command = "find_max_rate" => plan = FindMaxPlan
  BY DEF Init
<1>4. FindMaxPlan \in Seq(Setting) /\ Len(FindMaxPlan) \in Nat
  BY <1>1, PlanTypes
<1>5. Rest(1) = FindMaxPlan
  BY <1>4 DEF Rest
<1>6. Progress
  BY <1>2, <1>3, <1>4, <1>5 DEF Progress, Climbed, Climbing, AllPassed
<1> QED
  BY <1>2, <1>6, InitTypes DEF IInv, Writing, Deciding

LEMMA StepIInv == IInv /\ [Next]_vars => IInv'
  BY TypesStep, WritingStep, DecidingStep, ProgressStep DEF IInv

LEMMA Invariance == Spec => []IInv
  BY InitIInv, StepIInv, PTL DEF Spec

-----------------------------------------------------------------------------
(* capacity_test.py: every variable keeps its type, for any candidate rates   *)
(* and any measurements.                                                     *)
THEOREM TypeCorrect == Spec => []TypeOK
<1>1. IInv => TypeOK
  <2> SUFFICES ASSUME IInv PROVE TypeOK
    OBVIOUS
  <2>1. Elems(plan) \subseteq Setting
    BY DEF IInv, Types, Elems
  <2>2. \A r \in Elems(results) : r.passed => r.valid
    BY DEF IInv, Types, Elems
  <2> QED
    BY <2>1, <2>2 DEF IInv, Types, TypeOK
<1> QED
  BY <1>1, Invariance, PTL

(* push_transport_config, run_one: a result is filed under the transport that *)
(* the board was running when it was measured, however many pushes came       *)
(* before.                                                                   *)
THEOREM MeasuresWhatRunsCorrect == Spec => MeasuresWhatRuns
<1>1. IInv /\ [Next]_vars => [results' # results => nvs = results'[Len(results')].mode]_vars
  <2> SUFFICES ASSUME IInv, Next, results' # results
               PROVE  nvs = results'[Len(results')].mode
    BY DEF vars
  <2>1. Measure
    BY Zenon DEF Next, NextRun, SetMode, SetRate, Push, PushFails, Restore, Decide, CtrlC
  <2>2. target \in Setting /\ nvs = target.mode
    BY <2>1 DEF Measure, IInv, Types, Writing
  <2>3. Len(results') = Len(results) + 1 /\ results'[Len(results) + 1].mode = target.mode
    BY <2>1, <2>2, MeasureFacts DEF IInv
  <2> QED
    BY <2>2, <2>3
<1> QED
  BY <1>1, Invariance, PTL DEF Spec, MeasuresWhatRuns

(* main: a test that ends leaves the same transport on the board and in       *)
(* config.yaml, the original one or one that was measured.                   *)
THEOREM EndsConsistentCorrect == Spec => []EndsConsistent
<1>1. IInv => EndsConsistent
  <2> SUFFICES ASSUME IInv, pc = "ended"
               PROVE  /\ nvs = file.mode
                      /\ file = Original \/ (args.apply /\ file \in Measured)
    BY DEF EndsConsistent
  <2>1. final /\ file = target /\ nvs = file.mode
    BY DEF IInv, Writing
  <2>2. args \in Arguments /\ Results
    BY <2>1, SetupsAssumption DEF IInv, Types, Arguments, Results
  <2>3. args.command = "find_max_rate" =>
          \A i \in 1..Len(results) : results[i].mode = args.transport
    BY ResultModes DEF IInv
  <2>4. Winner \in Measured \cup {Original}
    BY <2>2, <2>3, WinnerFacts
  <2> QED
    BY <2>1, <2>4 DEF IInv, Deciding
<1> QED
  BY <1>1, Invariance, PTL

(* push_transport_config: while the decision is written and pushed the file   *)
(* is never a mix with a combination that was only tried.                    *)
THEOREM NoMixOfTestsCorrect == Spec => []NoMixOfTests
<1>1. IInv => NoMixOfTests
  BY DEF IInv, Deciding, NoMixOfTests
<1> QED
  BY <1>1, Invariance, PTL

(* pick_winner: what --sweep --apply leaves is a transport that passed at    *)
(* the wanted rate, tcp first, or the least lossy of the trustworthy rest.    *)
THEOREM SweepDecisionCorrect == Spec => []SweepDecision
<1>1. IInv => SweepDecision
  <2> DEFINE wanted == {r \in Elems(results) : r.passed /\ r.rate = Original.rate}
             trusty == {r \in Elems(results) : r.valid}
             chosen == {r \in Elems(results) : r.mode = file.mode /\ r.rate = file.rate}
  <2> SUFFICES ASSUME IInv, pc = "ended", args.command = "sweep", args.apply
               PROVE  IF wanted # {}
                        THEN /\ chosen \cap wanted # {}
                             /\ file.mode = "serial" => \A r \in wanted : r.mode = "serial"
                        ELSE trusty # {} =>
                               \E r \in chosen : r.valid /\ \A v \in trusty : r.drop <= v.drop
    BY DEF SweepDecision
  <2>1. final /\ file = PickWinner
    BY DEF IInv, Writing, Deciding, Winner
  <2>2. Results
    BY <2>1 DEF IInv, Types, Results
  <2>3. \A r \in wanted : r.mode \in {"tcp", "serial"}
    BY <2>2, ResultFacts DEF Result
  <2>4. CASE PassingAtRate("tcp")
    <3>1. file = [mode |-> "tcp", rate |-> Original.rate]
      BY <2>1, <2>4 DEF PickWinner
    <3>2. chosen \cap wanted # {} /\ file.mode # "serial"
      BY <2>4, <3>1 DEF PassingAtRate
    <3> QED
      BY <3>2
  <2>5. CASE ~PassingAtRate("tcp") /\ PassingAtRate("serial")
    <3>1. file = [mode |-> "serial", rate |-> Original.rate]
      BY <2>1, <2>5 DEF PickWinner
    <3>2. chosen \cap wanted # {}
      BY <2>5, <3>1 DEF PassingAtRate
    <3>3. \A r \in wanted : r.mode = "serial"
      BY <2>3, <2>5 DEF PassingAtRate
    <3> QED
      BY <3>2, <3>3
  <2>6. CASE ~PassingAtRate("tcp") /\ ~PassingAtRate("serial")
    <3>1. file = [mode |-> Fallback.mode, rate |-> Fallback.rate]
      BY <2>1, <2>6 DEF PickWinner
    <3>2. wanted = {}
      BY <2>3, <2>6 DEF PassingAtRate
    <3>3. PICK i \in 1..Len(results) :
            /\ Fallback = results[i]
            /\ (\E j \in 1..Len(results) : results[j].valid) => results[i].valid
            /\ \A j \in 1..Len(results) : results[j].valid => results[i].drop <= results[j].drop
      BY <2>2, FallbackIsMeasured
    <3>4. results[i] \in chosen
      BY <3>1, <3>3 DEF Elems
    <3>5. ASSUME trusty # {}
          PROVE  results[i].valid /\ \A v \in trusty : results[i].drop <= v.drop
      BY <2>2, <3>3, <3>5, ResultFacts
    <3> QED
      BY <3>2, <3>4, <3>5
  <2> QED
    BY <2>4, <2>5, <2>6
<1> QED
  BY <1>1, Invariance, PTL

(* find_max_rate: what --find-max-rate --apply leaves is a rate that      *)
(* passed, up to which all passed and above which none did.                  *)
THEOREM FindMaxDecisionCorrect == Spec => []FindMaxDecision
<1>1. IInv => FindMaxDecision
  <2> SUFFICES ASSUME IInv, pc = "ended", args.command = "find_max_rate", args.apply,
                      \E r \in Elems(results) : r.passed
               PROVE  /\ \A q \in Elems(args.rates) :
                           q <= file.rate => \E r \in Elems(results) : r.rate = q /\ r.passed
                      /\ \A r \in Elems(results) : r.passed => r.rate <= file.rate
                      /\ \A q \in Elems(args.rates) :
                           q > file.rate =>
                             \E r \in Elems(results) : r.rate \in file.rate..q /\ ~r.passed
    BY DEF FindMaxDecision
  <2> DEFINE k == Len(results)
             n == Len(args.rates)
             S == Sorted(args.rates)
  <2>1. final /\ file = Winner
    BY DEF IInv, Writing, Deciding
  <2>2. Results /\ args \in Arguments
    BY <2>1, SetupsAssumption DEF IInv, Types, Arguments, Results
  <2>3. /\ S \in [1..n -> Nat] /\ \A i, j \in 1..n : i < j => S[i] <= S[j]
        /\ \A q \in Elems(args.rates) : \E j \in 1..n : S[j] = q
        /\ n \in Nat /\ k \in Nat
    <3>1. args.rates \in Seq(Nat)
      BY <2>2 DEF Arguments
    <3>2. \A j \in 1..n : \E i \in 1..n : S[i] = args.rates[j]
      BY <3>1, SortedIsSorted
    <3>3. \A q \in Elems(args.rates) : \E j \in 1..n : S[j] = q
      BY <3>2, SMTT(30) DEF Elems
    <3>4. S \in [1..n -> Nat] /\ \A i, j \in 1..n : i < j => S[i] <= S[j]
      BY <3>1, SortedIsSorted
    <3> QED
      BY <2>2, <3>1, <3>3, <3>4 DEF Results
  <2>4. /\ k <= n
        /\ \A i \in 1..k : results[i].rate = S[i] /\ (i < k => results[i].passed)
        /\ (AllPassed /\ k = n) \/ Stopped
    <3>1. Climbed /\ Climbing /\ Len(FindMaxPlan) = n
      BY <2>2, PlanTypes DEF IInv, Progress
    <3>2. (AllPassed /\ k = n) \/ Stopped
      BY <2>1, <3>1 DEF Climbing
    <3>3. k <= n /\ \A i \in 1..k : i \in 1..n
      BY <2>3, <3>1 DEF Climbed
    <3>4. ASSUME NEW i \in 1..n PROVE FindMaxPlan[i].rate = S[i]
      <4>1. FindMaxPlan[i] = [mode |-> args.transport, rate |-> S[i]]
        BY <2>2, PlanTypes
      <4> QED
        BY <4>1
    <3> QED
      BY <3>1, <3>2, <3>3, <3>4 DEF Climbed
  <2>5. PICK m \in 1..k : /\ results[m].passed
                          /\ \A j \in 1..k : results[j].passed => j <= m
    <3>1. PICK i \in 1..k : results[i].passed
      BY DEF Elems
    <3> QED
      BY <2>2, <3>1, LastPassing
  <2>6. file.rate = S[m] /\ m \in 1..n /\ S[m] \in Nat
    <3>1. Winner = [mode |-> args.transport, rate |-> results[m].rate]
      BY <2>2, <2>5, MaxPassingIsLast DEF Winner
    <3>2. file.rate = results[m].rate
      BY <2>1, <3>1
    <3> HIDE DEF S, k, n
    <3>3. m \in 1..n
      BY <2>3, <2>4
    <3> QED
      BY <2>3, <2>4, <3>2, <3>3
  <2> HIDE DEF S, k, n
  <2>7. \A j \in 1..n : S[j] \in Nat /\ (j <= m => S[j] <= S[m]) /\ (m <= j => S[m] <= S[j])
    BY <2>3, <2>6
  <2>8. \A i \in 1..k : results[i] \in Elems(results) /\ i \in 1..n
    BY <2>3, <2>4 DEF Elems, k
  <2>9. \A i \in 1..m : i \in 1..k /\ results[i].passed
    BY <2>3, <2>4, <2>5
  <2>10. ASSUME NEW q \in Elems(args.rates), q <= file.rate
         PROVE  \E r \in Elems(results) : r.rate = q /\ r.passed
    <3>1. PICK j \in 1..n : S[j] = q
      BY <2>3
    <3>2. CASE j <= m
      BY <2>4, <2>8, <2>9, <3>1, <3>2
    <3>3. CASE m <= j
      <4>1. S[m] = q
        BY <2>6, <2>7, <2>10, <3>1, <3>3
      <4> QED
        BY <2>4, <2>5, <2>8, <4>1
    <3> QED
      BY <3>2, <3>3
  <2>11. ASSUME NEW r \in Elems(results), r.passed
         PROVE  r.rate <= file.rate
    <3>1. PICK i \in 1..k : r = results[i]
      BY DEF Elems, k
    <3> QED
      BY <2>4, <2>5, <2>6, <2>7, <2>8, <2>11, <3>1
  <2>12. ASSUME NEW q \in Elems(args.rates), q > file.rate
         PROVE  \E r \in Elems(results) : r.rate \in file.rate..q /\ ~r.passed
    <3>1. PICK j \in 1..n : S[j] = q
      BY <2>3
    <3>2. ~(j <= m)
      BY <2>6, <2>7, <2>12, <3>1
    <3>3. k \in 1..k /\ ~results[k].passed
      <4>1. CASE Stopped
        BY <2>3, <4>1 DEF Stopped, k
      <4>2. CASE AllPassed /\ k = n
        BY <2>3, <2>5, <3>2, <4>2 DEF AllPassed, k
      <4> QED
        BY <2>4, <4>1, <4>2
    <3>4. m < k /\ k <= j
      BY <2>3, <2>4, <2>5, <3>2, <3>3
    <3>5. S[m] <= S[k] /\ S[k] <= S[j] /\ S[k] \in Nat
      BY <2>3, <2>7, <2>8, <3>3, <3>4
    <3>6. results[k].rate \in file.rate..q
      BY <2>4, <2>6, <3>1, <3>3, <3>5
    <3> QED
      BY <2>8, <3>3, <3>6
  <2> QED
    BY <2>10, <2>11, <2>12
<1> QED
  BY <1>1, Invariance, PTL
=============================================================================
