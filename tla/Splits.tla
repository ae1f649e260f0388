------------------------------- MODULE Splits -------------------------------
(***************************************************************************)
(* Window frames, task masks and train/test splits: the pure functions     *)
(* every training script of ml/ and ml_2/ is built from.                   *)
(*                                                                         *)
(* A session is a number (sorting sessions by directory name is sorting    *)
(* them by number); a window is <<session, receiver, position>>.  A frame  *)
(* (a pandas window index) is a sequence of windows and a split is a pair  *)
(* of sets of row positions of one frame.  The two random sources, numpy's *)
(* permutation and scikit-learn's GroupKFold, are outside src/: the        *)
(* constant-level argument `order` stands for the order they produce.      *)
(***************************************************************************)
EXTENDS Integers, Sequences, FiniteSets, SequencesExt

CONSTANTS
  Label,    \* session -> "authorized" | "unauthorized" | "none"
  Person,   \* session -> number of the person, 0 for an empty room
  Motion,   \* session -> "standing" | "walking" | ""
  Day,      \* session -> number of the recording date
  NWindows, \* <<session, receiver>> -> how many windows it is cut into
  NSplits   \* folds of a k-fold split (5 in the code)

ASSUME NSplitsAssumption == NSplits \in Nat /\ NSplits >= 2

ASSUME SessionsAssumption ==
  /\ IsFiniteSet(DOMAIN Label) /\ DOMAIN Label \subseteq Nat \ {0}
  /\ \A s \in DOMAIN Label :
       /\ Label[s] \in {"authorized", "unauthorized", "none"}
       /\ Day[s] \in Nat \ {0} /\ Person[s] \in Nat

\* The collector insists on a person unless the room is empty; whoever is
\* enrolled is never recorded as a stranger.
ASSUME PeopleAssumption ==
  \A s, t \in DOMAIN Label :
    /\ Person[s] = 0 <=> Label[s] = "none"
    /\ Person[s] = Person[t] => Label[s] = Label[t]

Session(w) == w[1]
LabelOf(w) == Label[w[1]]
PersonOf(w) == Person[w[1]]
DayOf(w) == Day[w[1]]

Larger(a, b) == IF a > b THEN a ELSE b
Smaller(a, b) == IF a < b THEN a ELSE b

\* The rows of a frame, and those of them satisfying P.
Rows(f) == 1 .. Len(f)
Where(f, P(_)) == {i \in Rows(f) : P(f[i])}
SessionsAt(f, idx) == {Session(f[i]) : i \in idx}
SessionsOf(f) == SessionsAt(f, Rows(f))

\* The members of S among 1 .. n, in ascending order.
UpTo(S, n) ==
  LET up[k \in 0 .. n] ==
        IF k = 0 THEN <<>> ELSE IF k \in S THEN Append(up[k - 1], k) ELSE up[k - 1]
  IN  up[n]

\* sorted(S.unique()) for a set of positive numbers.
Sorted(S) == IF S = {} THEN <<>> ELSE UpTo(S, CHOOSE x \in S : \A y \in S : y <= x)

\* f.iloc[idx].reset_index(drop=True): the chosen rows, renumbered.
Iloc(f, idx) ==
  LET at == UpTo(idx, Len(f))
  IN  [j \in 1 .. Len(at) |-> f[at[j]]]

\* f[mask]: the rows satisfying P.
Chosen(f, P(_)) == Iloc(f, Where(f, P))

\* s[:n]: all of s when it is shorter.
FirstOf(s, n) == SubSeq(s, 1, Smaller(n, Len(s)))

\* rng.permutation(S): the elements of S in the order `order` lists them.
Permutation(S, order) == Chosen(order, LAMBDA s : s \in S)

\* Positions 1..n of every session and receiver of a manifest, in its order.
WindowIndex(manifest) ==
  FlattenSeq([j \in 1 .. Len(manifest) |->
               [k \in 1 .. NWindows[manifest[j]] |-> <<manifest[j][1], manifest[j][2], k>>]])

------------------------------------------------------------------------------
(* The tasks: which rows a task keeps, and the class it gives each of them. *)

Tasks == {"task0_presence", "taskA_threeway", "taskB_identity",
          "taskC_openset_proxy", "taskD_auth_vs_nonauth",
          "taskE_motion_standing_vs_walking", "taskF_identity_or_nonauth"}

InTask(task, w) ==
  CASE task \in {"task0_presence", "taskA_threeway", "taskD_auth_vs_nonauth",
                 "taskF_identity_or_nonauth"} -> TRUE
    [] task = "taskB_identity" -> LabelOf(w) = "authorized"
    [] task = "taskC_openset_proxy" -> LabelOf(w) # "none"
    [] task = "taskE_motion_standing_vs_walking" ->
         LabelOf(w) # "none" /\ Motion[w[1]] # ""

Class(task, w) ==
  CASE task = "task0_presence" -> <<LabelOf(w) # "none">>
    [] task = "taskA_threeway" -> <<LabelOf(w)>>
    [] task = "taskB_identity" -> <<PersonOf(w)>>
    [] task \in {"taskC_openset_proxy", "taskD_auth_vs_nonauth"} ->
         <<LabelOf(w) = "authorized">>
    [] task = "taskE_motion_standing_vs_walking" -> <<Motion[w[1]]>>
    [] task = "taskF_identity_or_nonauth" ->
         <<IF LabelOf(w) = "authorized" THEN PersonOf(w) ELSE 0>>

\* mask, y = TASKS[task](f): the positions the task keeps.
Mask(task, f) == Where(f, LAMBDA w : InTask(task, w))

\* CsiWindowDataset(f, task): the kept rows, renumbered from the first one.
Dataset(f, task) == Iloc(f, Mask(task, f))

Classes(task, f, idx) == {Class(task, f[i]) : i \in idx}

------------------------------------------------------------------------------
(* The splits.  Each is a sequence of [key, train, test]. *)

\* A test set and everything else.
Against(key, f, test) == [key |-> key, train |-> Rows(f) \ test, test |-> test]

\* GroupKFold(n).split: group j of `groups` is in the test set of fold j mod n.
GroupKFold(f, Group(_), groups, n) ==
  [k \in 1 .. n |->
     LET mine == {groups[j] : j \in {j \in 1 .. Len(groups) : j % n = k - 1}}
     IN  Against(k, f, Where(f, LAMBDA w : Group(w) \in mine))]

\* GroupKFold refuses more folds than groups with a ValueError.
KFoldRaises(f) == Cardinality(SessionsOf(f)) < NSplits

SessionDisjointKfold(f, order) ==
  GroupKFold(f, Session, Permutation(SessionsOf(f), order), NSplits)

\* ml_2 lowers n_splits to the number of sessions first.
SessionDisjointKfold2(f, order) ==
  GroupKFold(f, Session, Permutation(SessionsOf(f), order),
             Smaller(NSplits, Cardinality(SessionsOf(f))))

PersonOrSessionGroup(w) ==
  IF PersonOf(w) # 0 THEN <<"person", PersonOf(w)>> ELSE <<"session", Session(w)>>

PersonDisjointKfold(f, groups) ==
  GroupKFold(f, PersonOrSessionGroup, groups, Smaller(NSplits, Len(groups)))

\* max(1, int(round(n / q))): Python rounds a half to the even neighbour.
HeldOutCount(n, q) ==
  LET down == n \div q
      rest == 2 * (n % q)
  IN  Larger(1, IF rest > q \/ (rest = q /\ down % 2 = 1) THEN down + 1 ELSE down)

\* The first max(1, round(n/q)) sessions of a permutation of those with a label.
TestSlice(f, label, order, q) ==
  LET p == Permutation({s \in SessionsOf(f) : Label[s] = label}, order)
  IN  ToSet(FirstOf(p, HeldOutCount(Len(p), q)))

\* One fold: the held-out stranger and the test slices of the other labels.
PersonFold(f, held, slice, withNone) ==
  LET stranger == Where(f, LAMBDA w : LabelOf(w) = "unauthorized" /\ PersonOf(w) = held)
      known    == Where(f, LAMBDA w : LabelOf(w) = "authorized" /\ Session(w) \in slice)
      empty    == Where(f, LAMBDA w : LabelOf(w) = "none" /\ Session(w) \in slice)
      unused   == Where(f, LAMBDA w : LabelOf(w) = "none" /\ ~withNone)
      test     == known \cup stranger \cup (empty \ unused)
  IN  [key |-> held, test |-> test, train |-> (Rows(f) \ test) \ unused]

LeaveOneUnauthorizedPersonOut(f, order, withNone) ==
  LET slice  == TestSlice(f, "authorized", order, 4) \cup TestSlice(f, "none", order, 4)
      people == Sorted({PersonOf(f[i]) : i \in Where(f, LAMBDA w : LabelOf(w) = "unauthorized")})
  IN  [j \in 1 .. Len(people) |-> PersonFold(f, people[j], slice, withNone)]

\* Ignores sessions and the overlap of windows; kept for comparison only.
NaiveRandomSplit(f) ==
  LET nTest == Len(f) \div 5
  IN  Against(0, f, {i \in Rows(f) : i % 3 = 1 /\ (i \div 3) < nTest})

Dates(f) == Sorted({DayOf(f[i]) : i \in Rows(f)})

DayFold(f, d) == Against(d, f, Where(f, LAMBDA w : DayOf(w) = d))

LeaveOneDayOut(f) == [j \in 1 .. Len(Dates(f)) |-> DayFold(f, Dates(f)[j])]

\* NULL on data of one day; else train on every day but the last.
NoSplit == [key |-> 0, train |-> {}, test |-> {}]
DayDisjointSplit(f) ==
  IF Len(Dates(f)) < 2 THEN NoSplit ELSE DayFold(f, Last(Dates(f)))

\* train_idx and test_idx picked by two given dates.
Direction(f, trainDate, testDate) ==
  [key |-> testDate, train |-> Where(f, LAMBDA w : DayOf(w) = trainDate),
   test |-> Where(f, LAMBDA w : DayOf(w) = testDate)]

\* The condition assert_no_group_leakage stops on.
Leaks(f, split) == SessionsAt(f, split.train) \cap SessionsAt(f, split.test) # {}
=============================================================================
