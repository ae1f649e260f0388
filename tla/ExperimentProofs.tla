-------------------------- MODULE ExperimentProofs --------------------------
(***************************************************************************)
(* The training scripts, for every set of sessions, of receivers and of    *)
(* models, every order of recording, rebuilding, training and killing:     *)
(* what a row is tested on was held out of everything that made its model  *)
(* (HeldOutUnseen), data, labels and the files they are cached in belong   *)
(* together (DataAligned), and a kill loses one fold at most of a script   *)
(* that logs fold by fold (KillLosesOneFold).                              *)
(*                                                                         *)
(* The sequences and splits come first, then the plan of each script: in   *)
(* whatever derived files it starts on, each row it evaluates is fair and  *)
(* each file it saves belongs to its sessions (PlansAreGood).  The         *)
(* invariant IInv says that of the steps still to do and of the files; the *)
(* part after it shows every action keeps it, the last one is about kills. *)
(***************************************************************************)
EXTENDS Experiment, SequenceTheorems, FiniteSetTheorems, WellFoundedInduction, TLAPS

(* A set with 0 and every successor of its numbers holds them all.           *)
LEMMA NatSet ==
  ASSUME NEW T, 0 \in T, \A n \in Nat : n \in T => n + 1 \in T
  PROVE  Nat \subseteq T
<1> DEFINE Below == {ss \in Nat \X Nat : ss[1] < ss[2]}
<1>1. IsWellFoundedOn(Below, Nat)
  BY NatLessThanWellFounded DEF OpToRel
<1> SUFFICES ASSUME Nat \ T # {} PROVE FALSE
  OBVIOUS
<1>2. PICK n \in Nat \ T : \A m \in Nat \ T : <<m, n>> \notin Below
  <2> HIDE DEF Below
  <2> QED BY <1>1, WFMin
<1>3. n # 0 /\ n - 1 \in Nat /\ <<n - 1, n>> \in Below
  OBVIOUS
<1>4. n - 1 \in T
  BY <1>2, <1>3
<1> QED BY <1>3, <1>4

-----------------------------------------------------------------------------
(* Chosen rows *)

(* up is the recursion inside UpTo.                                          *)
Ups(up, S, n) ==
  up = [k \in 0 .. n |->
          IF k = 0 THEN <<>> ELSE IF k \in S THEN Append(up[k - 1], k) ELSE up[k - 1]]

(* It has a solution.                                                        *)
LEMMA UpsExist == ASSUME NEW S, NEW n \in Nat PROVE \E up : Ups(up, S, n)
<1> DEFINE T == {k \in Nat : \E up : Ups(up, S, k)}
<1>1. 0 \in T
  <2> DEFINE up == [k \in 0 .. 0 |-> <<>>]
  <2>1. Ups(up, S, 0)
    BY DEF Ups
  <2> HIDE DEF up
  <2> QED BY <2>1
<1>2. ASSUME NEW k \in Nat, k \in T PROVE k + 1 \in T
  <2>1. PICK f : Ups(f, S, k)
    BY <1>2
  <2> DEFINE x == IF k + 1 \in S THEN Append(f[k], k + 1) ELSE f[k]
             g == [j \in 0 .. k + 1 |-> IF j = k + 1 THEN x ELSE f[j]]
  <2>2. ASSUME NEW j \in 0 .. k + 1
        PROVE g[j] = IF j = 0 THEN <<>> ELSE IF j \in S THEN Append(g[j - 1], j) ELSE g[j - 1]
    <3>1. CASE j = k + 1
      <4>1. g[j] = x /\ g[j - 1] = f[k] /\ j # 0
        BY <3>1
      <4> HIDE DEF g
      <4> QED BY <3>1, <4>1
    <3>2. CASE j = 0
      <4>1. g[j] = f[0] /\ f[0] = <<>>
        BY <2>1, <3>2 DEF Ups
      <4> HIDE DEF g
      <4> QED BY <3>2, <4>1
    <3>3. CASE j \in 1 .. k
      <4>1. g[j] = f[j] /\ g[j - 1] = f[j - 1] /\ j # 0
        BY <3>3
      <4>2. f[j] = IF j \in S THEN Append(f[j - 1], j) ELSE f[j - 1]
        <5>1. j \in 0 .. k /\ j # 0
          BY <3>3
        <5> QED BY <2>1, <5>1 DEF Ups
      <4> HIDE DEF g
      <4> QED BY <4>1, <4>2
    <3> QED BY <3>1, <3>2, <3>3
  <2>3. g = [j \in 0 .. k + 1 |-> g[j]]
    OBVIOUS
  <2> HIDE DEF g
  <2>4. Ups(g, S, k + 1)
    BY <2>2, <2>3 DEF Ups
  <2> QED BY <2>4
<1> HIDE DEF T
<1>3. n \in T
  BY <1>1, <1>2, NatSet
<1> QED BY <1>3 DEF T

(* And only one, whatever it is computed up to.                              *)
LEMMA UpsAgree ==
  ASSUME NEW S, NEW m \in Nat, NEW n \in Nat, m <= n, NEW f, NEW g, Ups(f, S, m), Ups(g, S, n)
  PROVE  f[m] = g[m]
<1> DEFINE T == {k \in Nat : k <= m => f[k] = g[k]}
<1>1. 0 \in T
  BY DEF Ups
<1>2. ASSUME NEW k \in Nat, k \in T PROVE k + 1 \in T
  <2> SUFFICES ASSUME k + 1 <= m PROVE f[k + 1] = g[k + 1]
    OBVIOUS
  <2>1. f[k] = g[k]
    BY <1>2
  <2>2. k + 1 \in 0 .. m /\ k + 1 \in 0 .. n /\ (k + 1) - 1 = k /\ k + 1 # 0
    OBVIOUS
  <2>3. f[k + 1] = IF k + 1 \in S THEN Append(f[k], k + 1) ELSE f[k]
    BY <2>2 DEF Ups
  <2>4. g[k + 1] = IF k + 1 \in S THEN Append(g[k], k + 1) ELSE g[k]
    BY <2>2 DEF Ups
  <2> QED BY <2>1, <2>3, <2>4
<1> HIDE DEF T
<1>3. m \in T
  BY <1>1, <1>2, NatSet
<1> QED BY <1>3 DEF T

(* So UpTo is what the recursion says.                                       *)
LEMMA UpToSteps ==
  ASSUME NEW S
  PROVE  /\ UpTo(S, 0) = <<>>
         /\ \A n \in Nat : UpTo(S, n + 1) = IF n + 1 \in S THEN Append(UpTo(S, n), n + 1)
                                            ELSE UpTo(S, n)
<1> DEFINE Up(n) == CHOOSE up : Ups(up, S, n)
<1>1. ASSUME NEW n \in Nat PROVE Ups(Up(n), S, n) /\ UpTo(S, n) = Up(n)[n]
  <2>1. Ups(Up(n), S, n)
    BY UpsExist
  <2>2. UpTo(S, n) = Up(n)[n]
    BY DEF UpTo, Ups
  <2> QED BY <2>1, <2>2
<1>2. UpTo(S, 0) = <<>>
  <2>1. Ups(Up(0), S, 0) /\ UpTo(S, 0) = Up(0)[0]
    BY <1>1
  <2> HIDE DEF Up
  <2> QED BY <2>1 DEF Ups
<1>3. ASSUME NEW n \in Nat
      PROVE  UpTo(S, n + 1) = IF n + 1 \in S THEN Append(UpTo(S, n), n + 1) ELSE UpTo(S, n)
  <2>1. Ups(Up(n), S, n) /\ UpTo(S, n) = Up(n)[n]
    BY <1>1
  <2>2. Ups(Up(n + 1), S, n + 1) /\ UpTo(S, n + 1) = Up(n + 1)[n + 1]
    BY <1>1
  <2> HIDE DEF Up
  <2>3. Up(n)[n] = Up(n + 1)[n]
    BY <2>1, <2>2, UpsAgree
  <2>4. n + 1 \in 0 .. n + 1 /\ (n + 1) - 1 = n /\ n + 1 # 0
    OBVIOUS
  <2>5. Up(n + 1)[n + 1] = IF n + 1 \in S THEN Append(Up(n + 1)[n], n + 1) ELSE Up(n + 1)[n]
    BY <2>2, <2>4 DEF Ups
  <2> QED BY <2>1, <2>2, <2>3, <2>5
<1> QED BY <1>2, <1>3

(* UpTo lists the members of S among 1 .. n, each once, in order; the i-th is  *)
(* preceded by i - 1 of them.                                                *)
Lists(at, S, n) ==
  /\ at \in Seq(1 .. n)
  /\ \A j \in 1 .. Len(at) : at[j] \in S
  /\ \A i, j \in 1 .. Len(at) : i < j => at[i] < at[j]
  /\ \A i \in 1 .. n : i \in S => \E j \in 1 .. Len(at) : at[j] = i
  /\ IsFiniteSet(S \cap (1 .. n)) /\ Len(at) = Cardinality(S \cap (1 .. n))
  /\ \A i \in 1 .. n : i \in S => /\ Cardinality(S \cap (1 .. i)) \in 1 .. Len(at)
                                  /\ at[Cardinality(S \cap (1 .. i))] = i

(* Sorted lists the elements of a set up to a bound, each once and in order. *)
LEMMA UpToLists == ASSUME NEW S, NEW n \in Nat PROVE Lists(UpTo(S, n), S, n)
<1> DEFINE T == {k \in Nat : Lists(UpTo(S, k), S, k)}
<1>1. 0 \in T
  <2>1. UpTo(S, 0) = <<>>
    BY UpToSteps
  <2>2. S \cap (1 .. 0) = {}
    OBVIOUS
  <2>3. <<>> \in Seq(1 .. 0) /\ Len(<<>>) = 0
    BY EmptySeq
  <2>4. Lists(<<>>, S, 0)
    BY <2>2, <2>3, FS_EmptySet DEF Lists
  <2> QED BY <2>1, <2>4
<1>2. ASSUME NEW k \in Nat, k \in T PROVE k + 1 \in T
  <2> DEFINE at == UpTo(S, k)
             L == Len(at)
  <2>0. Lists(at, S, k)
    BY <1>2
  <2>1. PICK l \in Nat : l = Len(at)
    BY <2>0, LenProperties DEF Lists
  <2>2. CASE k + 1 \notin S
    <3>1. UpTo(S, k + 1) = at
      BY <2>2, UpToSteps
    <3>2. S \cap (1 .. k + 1) = S \cap (1 .. k)
      BY <2>2
    <3>3. \A i \in 1 .. k + 1 : i \in S => i \in 1 .. k
      BY <2>2
    <3> HIDE DEF at
    <3>4. at \in Seq(1 .. k + 1)
      BY <2>0 DEF Lists
    <3>5. Lists(at, S, k + 1)
      BY <2>0, <3>2, <3>3, <3>4 DEF Lists
    <3> QED BY <3>1, <3>5
  <2>3. CASE k + 1 \in S
    <3> DEFINE nxt == Append(at, k + 1)
    <3>1. UpTo(S, k + 1) = nxt
      BY <2>3, UpToSteps
    <3> HIDE DEF at
    <3>2. at \in Seq(1 .. k + 1)
      BY <2>0 DEF Lists
    <3>3. /\ nxt \in Seq(1 .. k + 1) /\ Len(nxt) = l + 1 /\ nxt[l + 1] = k + 1
          /\ \A j \in 1 .. l : nxt[j] = at[j]
      BY <2>1, <3>2, AppendProperties
    <3> HIDE DEF nxt
    <3>4. S \cap (1 .. k + 1) = (S \cap (1 .. k)) \cup {k + 1}
      BY <2>3
    <3>5. k + 1 \notin S \cap (1 .. k)
      OBVIOUS
    <3>6. IsFiniteSet(S \cap (1 .. k)) /\ Cardinality(S \cap (1 .. k)) = l
      BY <2>0, <2>1 DEF Lists
    <3>7. IsFiniteSet(S \cap (1 .. k + 1)) /\ Cardinality(S \cap (1 .. k + 1)) = l + 1
      BY <3>4, <3>5, <3>6, FS_AddElement
    <3>0. \A j \in 1 .. l : at[j] \in S /\ at[j] \in 1 .. k
      BY <2>0, <2>1, ElementOfSeq DEF Lists
    <3>8. ASSUME NEW j \in 1 .. l + 1 PROVE nxt[j] \in S
      <4>1. CASE j = l + 1
        BY <2>3, <3>3, <4>1
      <4>2. CASE j # l + 1
        <5>1. j \in 1 .. l
          BY <4>2
        <5> QED BY <3>0, <3>3, <5>1
      <4> QED BY <4>1, <4>2
    <3>9. ASSUME NEW i \in 1 .. l + 1, NEW j \in 1 .. l + 1, i < j PROVE nxt[i] < nxt[j]
      <4>1. i \in 1 .. l /\ nxt[i] = at[i] /\ at[i] \in 1 .. k
        <5>1. i \in 1 .. l
          BY <3>9
        <5> QED BY <3>0, <3>3, <5>1
      <4>2. CASE j = l + 1
        BY <3>3, <4>1, <4>2
      <4>3. CASE j # l + 1
        <5>1. j \in 1 .. l
          BY <4>3
        <5> QED BY <2>0, <2>1, <3>3, <3>9, <4>1, <5>1 DEF Lists
      <4> QED BY <4>2, <4>3
    <3>10. ASSUME NEW i \in 1 .. k + 1, i \in S
           PROVE /\ Cardinality(S \cap (1 .. i)) \in 1 .. l + 1
                 /\ nxt[Cardinality(S \cap (1 .. i))] = i
      <4>1. CASE i = k + 1
        BY <3>3, <3>7, <4>1
      <4>2. CASE i # k + 1
        <5>1. i \in 1 .. k
          BY <4>2
        <5>2. Cardinality(S \cap (1 .. i)) \in 1 .. l /\ at[Cardinality(S \cap (1 .. i))] = i
          BY <2>0, <2>1, <3>10, <5>1 DEF Lists
        <5> QED BY <3>3, <5>2
      <4> QED BY <4>1, <4>2
    <3>11. \A i \in 1 .. k + 1 : i \in S => \E j \in 1 .. l + 1 : nxt[j] = i
      BY <3>10
    <3>12. Lists(nxt, S, k + 1)
      BY <3>3, <3>7, <3>8, <3>9, <3>10, <3>11 DEF Lists
    <3> QED BY <3>1, <3>12
  <2> QED BY <2>2, <2>3
<1> HIDE DEF T
<1>3. n \in T
  BY <1>1, <1>2, NatSet
<1> QED BY <1>3 DEF T

(* What a sequence holds, and that it goes up along a relation.              *)
Items(f) == {f[j] : j \in 1 .. Len(f)}
Ordered(f, R) == \A i, j \in 1 .. Len(f) : i < j => <<f[i], f[j]>> \in R

(* A function on 1 .. n is a sequence.                                       *)
LEMMA FunSeq ==
  ASSUME NEW S, NEW n \in Nat, NEW g \in [1 .. n -> S]
  PROVE  g \in Seq(S) /\ Len(g) = n
<1>0. g = [i \in 1 .. n |-> g[i]] /\ \A i \in 1 .. n : g[i] \in S
  OBVIOUS
<1>1. g \in Seq(S)
  BY <1>0
<1>2. DOMAIN g = 1 .. n /\ DOMAIN g = 1 .. Len(g) /\ Len(g) \in Nat
  BY <1>1, LenProperties
<1> QED BY <1>1, <1>2

(* g holds the rows of f in idx, in the order of f.                          *)
Takes(g, f, idx) ==
  /\ IsFiniteSet(idx \cap Rows(f)) /\ Len(g) = Cardinality(idx \cap Rows(f))
  /\ Items(g) = {f[i] : i \in idx \cap Rows(f)}
  /\ \A R : Ordered(f, R) => Ordered(g, R)
  /\ \A i \in idx \cap Rows(f) : /\ Cardinality(idx \cap (1 .. i)) \in 1 .. Len(g)
                                 /\ g[Cardinality(idx \cap (1 .. i))] = f[i]

(* This is f.iloc[idx].                                                      *)
LEMMA IlocFacts ==
  ASSUME NEW X, NEW f \in Seq(X), NEW idx
  PROVE  Iloc(f, idx) \in Seq(X) /\ Takes(Iloc(f, idx), f, idx)
<1>1. PICK n \in Nat : n = Len(f)
  BY LenProperties
<1>2. \A i \in 1 .. n : f[i] \in X
  BY <1>1, ElementOfSeq
<1>3. PICK at : at = UpTo(idx, n)
  OBVIOUS
<1>4. Lists(at, idx, n)
  BY <1>3, UpToLists
<1>5. PICK m \in Nat : m = Len(at)
  BY <1>4, LenProperties DEF Lists
<1>6. \A j \in 1 .. m : at[j] \in 1 .. n /\ at[j] \in idx
  BY <1>4, <1>5, ElementOfSeq DEF Lists
<1>7. Iloc(f, idx) = [j \in 1 .. m |-> f[at[j]]]
  BY <1>1, <1>3, <1>5 DEF Iloc
<1>8. PICK g : g = [j \in 1 .. m |-> f[at[j]]]
  OBVIOUS
<1>9. g \in Seq(X) /\ Len(g) = m
  <2>1. \A j \in 1 .. m : f[at[j]] \in X
    BY <1>2, <1>6
  <2>2. g \in [1 .. m -> X]
    BY <1>8, <2>1
  <2> QED BY <2>2, FunSeq
<1>10. Rows(f) = 1 .. n
  BY <1>1 DEF Rows
<1>11. Items(g) = {f[i] : i \in idx \cap Rows(f)}
  <2>1. ASSUME NEW j \in 1 .. m PROVE g[j] \in {f[i] : i \in idx \cap Rows(f)}
    BY <1>6, <1>8, <1>10
  <2>2. ASSUME NEW i \in idx \cap Rows(f) PROVE f[i] \in Items(g)
    <3>1. PICK j \in 1 .. m : at[j] = i
      BY <1>4, <1>5, <1>10 DEF Lists
    <3>2. g[j] = f[i]
      BY <1>8, <3>1
    <3> QED BY <1>9, <3>2 DEF Items
  <2> QED BY <1>9, <2>1, <2>2 DEF Items
<1>12. ASSUME NEW R, Ordered(f, R) PROVE Ordered(g, R)
  <2>1. SUFFICES ASSUME NEW i \in 1 .. m, NEW j \in 1 .. m, i < j PROVE <<g[i], g[j]>> \in R
    BY <1>9 DEF Ordered
  <2>2. at[i] < at[j]
    BY <1>4, <1>5, <2>1 DEF Lists
  <2>3. g[i] = f[at[i]] /\ g[j] = f[at[j]]
    BY <1>8
  <2> QED BY <1>1, <1>6, <1>12, <2>2, <2>3 DEF Ordered
<1>13. ASSUME NEW i \in idx \cap Rows(f)
       PROVE  /\ Cardinality(idx \cap (1 .. i)) \in 1 .. m
              /\ g[Cardinality(idx \cap (1 .. i))] = f[i]
  <2>1. Cardinality(idx \cap (1 .. i)) \in 1 .. m /\ at[Cardinality(idx \cap (1 .. i))] = i
    BY <1>4, <1>5, <1>10 DEF Lists
  <2> QED BY <1>8, <2>1
<1>14. IsFiniteSet(idx \cap Rows(f)) /\ m = Cardinality(idx \cap Rows(f))
  BY <1>4, <1>5, <1>10 DEF Lists
<1>15. Iloc(f, idx) = g
  BY <1>7, <1>8
<1> QED BY <1>9, <1>11, <1>12, <1>13, <1>14, <1>15 DEF Takes

(* f.iloc of all rows is f.                                                  *)
LEMMA IlocAll ==
  ASSUME NEW X, NEW f \in Seq(X) PROVE Iloc(f, Rows(f)) = f
<1>1. PICK n \in Nat : n = Len(f)
  BY LenProperties
<1>2. PICK g : g = Iloc(f, Rows(f))
  OBVIOUS
<1>3. Rows(f) = 1 .. n
  BY <1>1 DEF Rows
<1>0. g \in Seq(X) /\ Takes(g, f, Rows(f))
  BY <1>2, IlocFacts
<1>4. g \in Seq(X) /\ Len(g) = n
  <2>1. Rows(f) \cap Rows(f) = 1 .. n
    BY <1>3
  <2>2. Cardinality(1 .. n) = n
    BY FS_Interval
  <2> QED BY <1>0, <2>1, <2>2 DEF Takes
<1>5. ASSUME NEW i \in 1 .. n PROVE g[i] = f[i]
  <2>1. Rows(f) \cap (1 .. i) = 1 .. i /\ i \in Rows(f) \cap Rows(f)
    BY <1>3
  <2>2. Cardinality(1 .. i) = i
    BY FS_Interval
  <2>3. g[Cardinality(Rows(f) \cap (1 .. i))] = f[i]
    BY <1>0, <2>1 DEF Takes
  <2> QED BY <2>1, <2>2, <2>3
<1>6. g = f
  BY <1>1, <1>4, <1>5, SeqEqual
<1> QED BY <1>2, <1>6

(* Some number of a finite set is the largest, and some number the least.    *)
LEMMA Largest ==
  ASSUME NEW S \in SUBSET Nat, IsFiniteSet(S), S # {}
  PROVE  \E x \in S : \A y \in S : y <= x
<1>0. PICK n \in Nat : ExistsBijection(1 .. n, S)
  BY FS_NatBijection
<1>1. PICK f \in [1 .. n -> S] : \A x \in S : \E i \in 1 .. n : f[i] = x
  <2>1. PICK g : g \in Bijection(1 .. n, S)
    BY <1>0 DEF ExistsBijection
  <2> QED BY <2>1 DEF Bijection, Injection, Surjection
<1>2. \A i \in 1 .. n : f[i] \in Nat
  BY <1>1
<1> DEFINE T == {k \in Nat : k + 1 <= n => \E i \in 1 .. k + 1 : \A j \in 1 .. k + 1 : f[j] <= f[i]}
<1>3. 0 \in T
  BY <1>2
<1>4. ASSUME NEW k \in Nat, k \in T PROVE k + 1 \in T
  <2> SUFFICES ASSUME k + 2 <= n
               PROVE \E i \in 1 .. k + 2 : \A j \in 1 .. k + 2 : f[j] <= f[i]
    OBVIOUS
  <2>1. PICK i \in 1 .. k + 1 : \A j \in 1 .. k + 1 : f[j] <= f[i]
    BY <1>4
  <2>2. \A j \in 1 .. k + 2 : j = k + 2 \/ j \in 1 .. k + 1
    OBVIOUS
  <2>3. i \in 1 .. k + 2 /\ k + 2 \in 1 .. k + 2 /\ \A j \in 1 .. k + 2 : f[j] \in Nat
    BY <1>2
  <2> HIDE DEF T
  <2>4. CASE f[k + 2] <= f[i]
    BY <2>1, <2>2, <2>3, <2>4
  <2>5. CASE f[i] <= f[k + 2]
    <3>1. \A j \in 1 .. k + 2 : f[j] <= f[k + 2]
      BY <2>1, <2>2, <2>3, <2>5
    <3> QED BY <2>3, <3>1
  <2> QED BY <2>3, <2>4, <2>5
<1>5. Nat \subseteq T
  <2> HIDE DEF T
  <2> QED BY <1>3, <1>4, NatSet
<1>6. n - 1 \in Nat /\ (n - 1) + 1 = n
  <2>1. PICK x \in S : TRUE
    OBVIOUS
  <2>2. \E i \in 1 .. n : f[i] = x
    BY <1>1, <2>1
  <2> QED BY <2>2
<1>7. n - 1 \in T
  BY <1>5, <1>6
<1>8. PICK i \in 1 .. n : \A j \in 1 .. n : f[j] <= f[i]
  BY <1>6, <1>7
<1> QED BY <1>1, <1>8

(* A nonempty set of numbers has a least one.                                *)
LEMMA Least ==
  ASSUME NEW S \in SUBSET Nat, S # {}
  PROVE  \E x \in S : \A y \in S : x <= y
<1> DEFINE Below == {ss \in Nat \X Nat : ss[1] < ss[2]}
<1>1. IsWellFoundedOn(Below, Nat)
  BY NatLessThanWellFounded DEF OpToRel
<1>2. PICK x \in S : \A y \in S : <<y, x>> \notin Below
  <2> HIDE DEF Below
  <2> QED BY <1>1, WFMin
<1>3. ASSUME NEW y \in S PROVE x <= y
  <2>1. ~(y < x)
    BY <1>2
  <2> QED BY <2>1
<1> QED BY <1>3

(* Sorted lists a finite set of positive numbers in order.                   *)
LEMMA SortedFacts ==
  ASSUME NEW S \in SUBSET (Nat \ {0}), IsFiniteSet(S)
  PROVE  /\ Sorted(S) \in Seq(S) /\ Len(Sorted(S)) = Cardinality(S)
         /\ Items(Sorted(S)) = S
         /\ \A i, j \in 1 .. Len(Sorted(S)) : i < j => Sorted(S)[i] < Sorted(S)[j]
<1>1. CASE S = {}
  <2>1. Sorted(S) = <<>> /\ Cardinality(S) = 0
    BY <1>1, FS_EmptySet DEF Sorted
  <2>2. <<>> \in Seq(S) /\ Len(<<>>) = 0
    BY EmptySeq
  <2>3. Items(<<>>) = {}
    BY <2>2 DEF Items
  <2>4. \A i, j \in 1 .. Len(<<>>) : i < j => FALSE
    BY <2>2
  <2>5. /\ <<>> \in Seq(S) /\ Len(<<>>) = Cardinality(S) /\ Items(<<>>) = S
        /\ \A i, j \in 1 .. Len(<<>>) : i < j => <<>>[i] < <<>>[j]
    BY <1>1, <2>1, <2>2, <2>3, <2>4
  <2> QED BY <2>1, <2>5
<1>2. CASE S # {}
  <2>1. PICK top : top = CHOOSE x \in S : \A y \in S : y <= x
    OBVIOUS
  <2>2. top \in S /\ \A y \in S : y <= top
    <3>1. S \in SUBSET Nat
      OBVIOUS
    <3>2. \E x \in S : \A y \in S : y <= x
      BY <1>2, <3>1, Largest
    <3> QED BY <2>1, <3>2
  <2>3. PICK at : at = UpTo(S, top)
    OBVIOUS
  <2>4. Lists(at, S, top)
    BY <2>2, <2>3, UpToLists
  <2>5. S \cap (1 .. top) = S
    <3>1. \A x \in S : x \in 1 .. top
      BY <2>2
    <3> QED BY <3>1
  <2>6. PICK n \in Nat : n = Len(at)
    BY <2>4, LenProperties DEF Lists
  <2>7. at \in Seq(S)
    <3>1. at = [j \in 1 .. n |-> at[j]]
      BY <2>4, <2>6, LenProperties DEF Lists
    <3>2. at \in [1 .. n -> S]
      BY <2>4, <2>6, <3>1 DEF Lists
    <3> QED BY <3>2, FunSeq
  <2>8. Items(at) = S
    <3>1. \A x \in S : x \in 1 .. top
      BY <2>2
    <3> QED BY <2>4, <3>1 DEF Lists, Items
  <2>9. Len(at) = Cardinality(S) /\ \A i, j \in 1 .. Len(at) : i < j => at[i] < at[j]
    BY <2>4, <2>5 DEF Lists
  <2>10. Sorted(S) = at
    BY <1>2, <2>1, <2>3 DEF Sorted
  <2> QED BY <2>7, <2>8, <2>9, <2>10
<1> QED BY <1>1, <1>2
-----------------------------------------------------------------------------
(* Sequences one after the other *)

(* FlattenSeq concatenates from the left: F holds what the first items make. *)
Flattens(F, q, S) ==
  /\ F \in [0 .. Len(q) -> Seq(S)]
  /\ F[0] = <<>>
  /\ \A i \in 1 .. Len(q) : F[i] = F[i - 1] \o q[i]
  /\ FlattenSeq(q) = F[Len(q)]

(* There is such an F: the recursion inside FlattenSeq has a solution.       *)
LEMMA FlattenIs ==
  ASSUME NEW S, NEW q \in Seq(Seq(S))
  PROVE  \E F : Flattens(F, q, S)
<1> DEFINE N == Len(q)
           Body(f) == [i \in 1 .. N |-> IF i = 1 THEN q[i] ELSE f[i - 1] \o q[i]]
           Fits(f, n) == f[0] = <<>> /\ \A i \in 1 .. n : f[i] = f[i - 1] \o q[i]
           T == {n \in Nat : n <= N => \E f \in [0 .. N -> Seq(S)] : Fits(f, n)}
<1>0. N \in Nat /\ \A i \in 1 .. N : q[i] \in Seq(S)
  BY LenProperties, ElementOfSeq
<1>e. <<>> \in Seq(S)
  BY EmptySeq
<1>1. 0 \in T
  <2> DEFINE f == [i \in 0 .. N |-> <<>>]
  <2>1. f \in [0 .. N -> Seq(S)]
    BY <1>e
  <2>2. f[0] = <<>>
    BY <1>0
  <2> HIDE DEF f
  <2>3. Fits(f, 0)
    BY <2>2
  <2> HIDE DEF Fits
  <2> QED BY <2>1, <2>3
<1>2. ASSUME NEW n \in Nat, n \in T PROVE n + 1 \in T
  <2> HIDE DEF Fits
  <2> SUFFICES ASSUME n + 1 <= N PROVE \E f \in [0 .. N -> Seq(S)] : Fits(f, n + 1)
    OBVIOUS
  <2>1. PICK f \in [0 .. N -> Seq(S)] : Fits(f, n)
    BY <1>0, <1>2
  <2> USE DEF Fits
  <2>2. n \in 0 .. N /\ n + 1 \in 1 .. N
    BY <1>0
  <2>3. PICK x \in Seq(S) : x = f[n] \o q[n + 1]
    <3>1. f[n] \in Seq(S) /\ q[n + 1] \in Seq(S)
      BY <1>0, <2>1, <2>2
    <3> QED BY <3>1, ConcatProperties
  <2> DEFINE g == [f EXCEPT ![n + 1] = x]
  <2>4. g \in [0 .. N -> Seq(S)] /\ g[n + 1] = x /\ \A j \in 0 .. N : j # n + 1 => g[j] = f[j]
    BY <1>0, <2>2
  <2> HIDE DEF g
  <2>5. g[0] = <<>>
    BY <2>1, <2>2, <2>4
  <2>6. ASSUME NEW i \in 1 .. n + 1 PROVE g[i] = g[i - 1] \o q[i]
    <3>1. CASE i = n + 1
      <4>1. i - 1 = n /\ g[n] = f[n]
        BY <2>2, <2>4, <3>1
      <4> QED BY <2>3, <2>4, <3>1, <4>1
    <3>2. CASE i # n + 1
      <4>1. i \in 1 .. n /\ i \in 0 .. N /\ i - 1 \in 0 .. N /\ i - 1 # n + 1
        BY <1>0, <2>2, <3>2
      <4>2. f[i] = f[i - 1] \o q[i]
        BY <2>1, <4>1
      <4>3. g[i] = f[i] /\ g[i - 1] = f[i - 1]
        BY <2>4, <3>2, <4>1
      <4> QED BY <4>2, <4>3
    <3> QED BY <3>1, <3>2
  <2>7. Fits(g, n + 1)
    BY <2>5, <2>6
  <2> HIDE DEF Fits
  <2> QED BY <2>4, <2>7
<1>3. N \in T
  <2> HIDE DEF T
  <2> QED BY <1>0, <1>1, <1>2, NatSet
<1>4. PICK F \in [0 .. N -> Seq(S)] : Fits(F, N)
  <2> HIDE DEF Fits
  <2> QED BY <1>0, <1>3
<1>5. CASE N = 0
  <2>1. q = <<>> /\ FlattenSeq(q) = q
    BY <1>5, EmptySeq DEF FlattenSeq
  <2>2. FlattenSeq(q) = F[N]
    BY <1>4, <1>5, <2>1
  <2> QED BY <1>4, <2>2 DEF Flattens
<1>6. CASE N # 0
  <2>1. \E f : f = Body(f)
    <3> DEFINE f == [i \in 1 .. N |-> F[i]]
    <3>1. f = Body(f)
      <4>1. ASSUME NEW i \in 1 .. N PROVE f[i] = IF i = 1 THEN q[i] ELSE f[i - 1] \o q[i]
        <5>1. F[i] = F[i - 1] \o q[i]
          BY <1>4
        <5>2. CASE i = 1
          <6>1. F[i - 1] = <<>>
            BY <1>4, <5>2
          <6>2. <<>> \o q[i] = q[i]
            BY <1>0, ConcatEmptySeq
          <6> QED BY <5>1, <5>2, <6>1, <6>2
        <5>3. CASE i # 1
          <6>1. i - 1 \in 1 .. N
            BY <1>0, <5>3
          <6>2. f[i] = F[i] /\ f[i - 1] = F[i - 1]
            BY <6>1
          <6> HIDE DEF f
          <6> QED BY <5>1, <5>3, <6>2
        <5> QED BY <5>2, <5>3
      <4>2. f = [i \in 1 .. N |-> f[i]]
        OBVIOUS
      <4> HIDE DEF f
      <4> QED BY <4>1, <4>2
    <3> HIDE DEF f, Body
    <3> QED BY <3>1
  <2>2. PICK R : R = (CHOOSE f : f = Body(f))
    OBVIOUS
  <2>3. R = Body(R)
    <3> HIDE DEF Body
    <3> QED BY <2>1, <2>2
  <2>4. FlattenSeq(q) = R[N]
    BY <1>6, <2>2 DEF FlattenSeq
  <2>5. \A i \in 1 .. N : R[i] = IF i = 1 THEN q[i] ELSE R[i - 1] \o q[i]
    BY <2>3
  <2> DEFINE V == {n \in Nat : n <= N /\ n # 0 => R[n] = F[n]}
  <2>6. 0 \in V
    OBVIOUS
  <2>7. ASSUME NEW n \in Nat, n \in V PROVE n + 1 \in V
    <3> SUFFICES ASSUME n + 1 <= N PROVE R[n + 1] = F[n + 1]
      OBVIOUS
    <3>1. n + 1 \in 1 .. N /\ (n + 1) - 1 = n
      BY <1>0
    <3>2. F[n + 1] = F[n] \o q[n + 1]
      BY <1>4, <3>1
    <3>3. CASE n = 0
      <4>1. F[n] = <<>> /\ R[n + 1] = q[n + 1]
        BY <1>4, <2>5, <3>1, <3>3
      <4>2. <<>> \o q[n + 1] = q[n + 1]
        BY <1>0, <3>1, ConcatEmptySeq
      <4> QED BY <3>2, <4>1, <4>2
    <3>4. CASE n # 0
      <4>1. n + 1 # 1 /\ n <= N
        BY <1>0, <3>4
      <4>2. R[n + 1] = R[n] \o q[n + 1]
        BY <2>5, <3>1, <4>1
      <4>3. R[n] = F[n]
        BY <2>7, <3>4, <4>1
      <4> QED BY <3>2, <4>2, <4>3
    <3> QED BY <3>3, <3>4
  <2>8. R[N] = F[N]
    <3>1. N \in V
      <4> HIDE DEF V
      <4> QED BY <1>0, <2>6, <2>7, NatSet
    <3> QED BY <1>0, <1>6, <3>1
  <2>9. FlattenSeq(q) = F[N]
    BY <2>4, <2>8
  <2> QED BY <1>4, <2>9 DEF Flattens
<1> QED BY <1>5, <1>6

(* A concatenation of sequences of a set is one.                             *)
LEMMA FlattenTyped ==
  ASSUME NEW S, NEW q \in Seq(Seq(S))
  PROVE  FlattenSeq(q) \in Seq(S)
<1>1. PICK F : Flattens(F, q, S)
  BY FlattenIs
<1>2. Len(q) \in 0 .. Len(q)
  BY LenProperties
<1> QED BY <1>1, <1>2 DEF Flattens

(* What two sequences hold together, and the order of both.                  *)
LEMMA ConcatFacts ==
  ASSUME NEW S, NEW s \in Seq(S), NEW t \in Seq(S)
  PROVE  /\ s \o t \in Seq(S) /\ Len(s \o t) = Len(s) + Len(t)
         /\ Items(s \o t) = Items(s) \cup Items(t)
         /\ \A R : /\ Ordered(s, R) /\ Ordered(t, R)
                   /\ \A x \in Items(s), y \in Items(t) : <<x, y>> \in R
                   => Ordered(s \o t, R)
<1>1. PICK m \in Nat : m = Len(s)
  BY LenProperties
<1>2. PICK n \in Nat : n = Len(t)
  BY LenProperties
<1>3. PICK u : u = s \o t
  OBVIOUS
<1>4. /\ u \in Seq(S) /\ Len(u) = m + n
      /\ \A i \in 1 .. m + n : u[i] = IF i <= m THEN s[i] ELSE t[i - m]
  BY <1>1, <1>2, <1>3, ConcatProperties
<1>5. ASSUME NEW i \in 1 .. m + n
      PROVE  \/ i \in 1 .. m /\ u[i] = s[i]
             \/ i - m \in 1 .. n /\ i > m /\ u[i] = t[i - m]
  BY <1>4
<1>6. \A i \in 1 .. m : i \in 1 .. m + n /\ u[i] = s[i]
  BY <1>4
<1>7. \A i \in 1 .. n : m + i \in 1 .. m + n /\ u[m + i] = t[i]
  <2> SUFFICES ASSUME NEW i \in 1 .. n PROVE m + i \in 1 .. m + n /\ u[m + i] = t[i]
    OBVIOUS
  <2>1. m + i \in 1 .. m + n /\ ~(m + i <= m) /\ (m + i) - m = i
    OBVIOUS
  <2> QED BY <1>4, <2>1
<1>8. Items(u) = Items(s) \cup Items(t)
  <2>1. ASSUME NEW x \in Items(u) PROVE x \in Items(s) \cup Items(t)
    <3>1. PICK i \in 1 .. m + n : x = u[i]
      BY <1>4 DEF Items
    <3> QED BY <1>1, <1>2, <1>5, <3>1 DEF Items
  <2>2. ASSUME NEW x \in Items(s) PROVE x \in Items(u)
    BY <1>1, <1>4, <1>6 DEF Items
  <2>3. ASSUME NEW x \in Items(t) PROVE x \in Items(u)
    BY <1>2, <1>4, <1>7 DEF Items
  <2> QED BY <2>1, <2>2, <2>3
<1>9. ASSUME NEW R, Ordered(s, R), Ordered(t, R),
             \A x \in Items(s), y \in Items(t) : <<x, y>> \in R
      PROVE  Ordered(u, R)
  <2>1. SUFFICES ASSUME NEW i \in 1 .. m + n, NEW j \in 1 .. m + n, i < j
                 PROVE  <<u[i], u[j]>> \in R
    BY <1>4 DEF Ordered
  <2>2. CASE i \in 1 .. m /\ u[i] = s[i]
    <3>1. CASE j \in 1 .. m /\ u[j] = s[j]
      BY <1>1, <1>9, <2>1, <2>2, <3>1 DEF Ordered
    <3>2. CASE j - m \in 1 .. n /\ j > m /\ u[j] = t[j - m]
      <4>1. u[i] \in Items(s) /\ u[j] \in Items(t)
        BY <1>1, <1>2, <2>2, <3>2 DEF Items
      <4> QED BY <1>9, <4>1
    <3> QED BY <1>5, <3>1, <3>2
  <2>3. CASE i - m \in 1 .. n /\ i > m /\ u[i] = t[i - m]
    <3>1. j - m \in 1 .. n /\ j > m /\ u[j] = t[j - m]
      BY <1>5, <2>1, <2>3
    <3>2. i - m < j - m
      BY <2>1
    <3> QED BY <1>2, <1>9, <2>3, <3>1, <3>2 DEF Ordered
  <2> QED BY <1>5, <2>2, <2>3
<1> QED BY <1>1, <1>2, <1>3, <1>4, <1>8, <1>9

(* The items of a concatenation are those of its parts, and it is in order   *)
(* when the parts are and follow one another.                                *)
LEMMA FlattenFacts ==
  ASSUME NEW S, NEW q \in Seq(Seq(S)), NEW R
  PROVE  /\ FlattenSeq(q) \in Seq(S)
         /\ Items(FlattenSeq(q)) = UNION {Items(q[k]) : k \in 1 .. Len(q)}
         /\ (/\ \A k \in 1 .. Len(q) : Ordered(q[k], R)
             /\ \A k, l \in 1 .. Len(q) : k < l =>
                  \A x \in Items(q[k]), y \in Items(q[l]) : <<x, y>> \in R)
            => Ordered(FlattenSeq(q), R)
<1>1. PICK N \in Nat : N = Len(q)
  BY LenProperties
<1>2. PICK F : Flattens(F, q, S)
  BY FlattenIs
<1>3. /\ F \in [0 .. N -> Seq(S)] /\ F[0] = <<>> /\ FlattenSeq(q) = F[N]
      /\ \A i \in 1 .. N : F[i] = F[i - 1] \o q[i]
  BY <1>1, <1>2 DEF Flattens
<1>4. \A i \in 1 .. N : q[i] \in Seq(S)
  BY <1>1, ElementOfSeq
<1> DEFINE Follow == /\ \A k \in 1 .. N : Ordered(q[k], R)
                     /\ \A k, l \in 1 .. N : k < l =>
                          \A x \in Items(q[k]), y \in Items(q[l]) : <<x, y>> \in R
           T == {n \in Nat : n <= N =>
                   /\ Items(F[n]) = UNION {Items(q[k]) : k \in 1 .. n}
                   /\ Follow => Ordered(F[n], R)}
<1>5. 0 \in T
  <2>1. Len(<<>>) = 0
    BY EmptySeq
  <2>2. Items(<<>>) = {} /\ Ordered(<<>>, R)
    BY <2>1 DEF Items, Ordered
  <2> QED BY <1>3, <2>2
<1>6. ASSUME NEW n \in Nat, n \in T PROVE n + 1 \in T
  <2> HIDE DEF Follow
  <2> SUFFICES ASSUME n + 1 <= N
               PROVE  /\ Items(F[n + 1]) = UNION {Items(q[k]) : k \in 1 .. n + 1}
                      /\ Follow => Ordered(F[n + 1], R)
    OBVIOUS
  <2>1. Items(F[n]) = UNION {Items(q[k]) : k \in 1 .. n} /\ (Follow => Ordered(F[n], R))
    BY <1>6
  <2>2. n \in 0 .. N /\ n + 1 \in 1 .. N /\ (n + 1) - 1 = n
    OBVIOUS
  <2> HIDE DEF T
  <2>3. F[n] \in Seq(S) /\ q[n + 1] \in Seq(S) /\ F[n + 1] = F[n] \o q[n + 1]
    BY <1>3, <1>4, <2>2
  <2>4. PICK s, t : s = F[n] /\ t = q[n + 1]
    OBVIOUS
  <2>5. Items(s \o t) = Items(s) \cup Items(t)
    BY <2>3, <2>4, ConcatFacts
  <2>6. /\ Ordered(s, R) /\ Ordered(t, R) /\ \A x \in Items(s), y \in Items(t) : <<x, y>> \in R
        => Ordered(s \o t, R)
    BY <2>3, <2>4, ConcatFacts
  <2>7. Items(F[n + 1]) = UNION {Items(q[k]) : k \in 1 .. n + 1}
    <3>1. \A k \in 1 .. n + 1 : k \in 1 .. n \/ k = n + 1
      OBVIOUS
    <3>2. 1 .. n \subseteq 1 .. n + 1 /\ n + 1 \in 1 .. n + 1
      OBVIOUS
    <3>3. Items(F[n + 1]) = Items(F[n]) \cup Items(q[n + 1])
      BY <2>3, <2>4, <2>5
    <3>4. UNION {Items(q[k]) : k \in 1 .. n + 1} = (UNION {Items(q[k]) : k \in 1 .. n}) \cup Items(q[n + 1])
      <4>1. PICK J : J = [k \in 1 .. n + 1 |-> Items(q[k])]
        OBVIOUS
      <4>2. PICK m : m = n + 1
        OBVIOUS
      <4>3. UNION {J[k] : k \in 1 .. m} = (UNION {J[k] : k \in 1 .. n}) \cup J[m]
        <5>1. \A k : k \in 1 .. m <=> k \in 1 .. n \/ k = m
          BY <3>1, <3>2, <4>2
        <5>2. ASSUME NEW x PROVE x \in UNION {J[k] : k \in 1 .. m} => x \in (UNION {J[k] : k \in 1 .. n}) \cup J[m]
          <6>1. SUFFICES ASSUME NEW k \in 1 .. m, x \in J[k] PROVE x \in (UNION {J[l] : l \in 1 .. n}) \cup J[m]
            OBVIOUS
          <6> QED BY <5>1, <6>1
        <5>3. ASSUME NEW x PROVE x \in (UNION {J[k] : k \in 1 .. n}) \cup J[m] => x \in UNION {J[k] : k \in 1 .. m}
          <6>1. m \in 1 .. m
            BY <5>1
          <6> QED BY <5>1, <6>1
        <5> QED BY <5>2, <5>3
      <4>4. \A k \in 1 .. n : J[k] = Items(q[k])
        BY <3>2, <4>1
      <4>5. \A k \in 1 .. m : J[k] = Items(q[k])
        BY <4>1, <4>2
      <4>6. {Items(q[k]) : k \in 1 .. m} = {J[k] : k \in 1 .. m}
        BY <4>5
      <4>7. {Items(q[k]) : k \in 1 .. n} = {J[k] : k \in 1 .. n}
        BY <4>4
      <4>8. J[m] = Items(q[m])
        BY <4>2, <4>5
      <4> QED BY <4>2, <4>3, <4>6, <4>7, <4>8
    <3> QED BY <2>1, <3>3, <3>4
  <2>8. ASSUME Follow PROVE Ordered(F[n + 1], R)
    <3>1. Ordered(s, R) /\ Ordered(t, R)
      BY <2>1, <2>2, <2>4, <2>8 DEF Follow
    <3>2. ASSUME NEW x \in Items(s), NEW y \in Items(t) PROVE <<x, y>> \in R
      <4>1. PICK k \in 1 .. n : x \in Items(q[k])
        BY <2>1, <2>4
      <4>2. k \in 1 .. N /\ k < n + 1
        BY <2>2
      <4> QED BY <2>2, <2>4, <2>8, <4>1, <4>2 DEF Follow
    <3> QED BY <2>3, <2>4, <2>6, <3>1, <3>2
  <2> QED BY <2>7, <2>8
<1>7. N \in T
  <2> HIDE DEF T
  <2> QED BY <1>5, <1>6, NatSet
<1>8. Items(F[N]) = UNION {Items(q[k]) : k \in 1 .. N} /\ (Follow => Ordered(F[N], R))
  <2> HIDE DEF Follow
  <2> QED BY <1>7
<1>9. FlattenSeq(q) \in Seq(S)
  BY <1>3
<1> QED BY <1>1, <1>3, <1>8, <1>9

-----------------------------------------------------------------------------
(* Sequences in the same order *)

Asymmetric(R) == \A x, y : <<x, y>> \in R => <<y, x>> \notin R

(* Two sequences in one order that hold the same are the same.               *)
LEMMA SameItems ==
  ASSUME NEW S, NEW f \in Seq(S), NEW g \in Seq(S), NEW R, Asymmetric(R),
         Ordered(f, R), Ordered(g, R), Items(f) = Items(g), Len(f) = Len(g)
  PROVE  f = g
<1>1. PICK N \in Nat : N = Len(f)
  BY LenProperties
<1>2. N = Len(g)
  BY <1>1
<1> DEFINE T == {n \in Nat : \A i \in 1 .. n : i <= N => f[i] = g[i]}
<1>3. 0 \in T
  OBVIOUS
<1>4. ASSUME NEW n \in Nat, n \in T PROVE n + 1 \in T
  <2>0. \A i \in 1 .. n : i <= N => f[i] = g[i]
    BY <1>4
  <2>1. ASSUME n + 1 <= N PROVE f[n + 1] = g[n + 1]
    <3>0. n + 1 \in 1 .. N
      BY <2>1
    <3>1. PICK a \in 1 .. N : f[n + 1] = g[a]
      <4>1. f[n + 1] \in Items(g)
        BY <1>1, <3>0 DEF Items
      <4> QED BY <1>2, <4>1 DEF Items
    <3>2. PICK b \in 1 .. N : g[n + 1] = f[b]
      <4>1. g[n + 1] \in Items(f)
        BY <1>2, <3>0 DEF Items
      <4> QED BY <1>1, <4>1 DEF Items
    <3>3. \A x : <<x, x>> \notin R
      BY DEF Asymmetric
    <3>4. ~(a < n + 1)
      <4>1. SUFFICES ASSUME a < n + 1 PROVE FALSE
        OBVIOUS
      <4>2. f[a] = g[a]
        BY <2>0, <4>1
      <4>3. <<f[a], f[n + 1]>> \in R
        BY <1>1, <3>0, <4>1 DEF Ordered
      <4> QED BY <3>1, <3>3, <4>2, <4>3
    <3>5. ~(b < n + 1)
      <4>1. SUFFICES ASSUME b < n + 1 PROVE FALSE
        OBVIOUS
      <4>2. f[b] = g[b]
        BY <2>0, <4>1
      <4>3. <<g[b], g[n + 1]>> \in R
        BY <1>2, <3>0, <4>1 DEF Ordered
      <4> QED BY <3>2, <3>3, <4>2, <4>3
    <3>6. CASE a = n + 1
      BY <3>1, <3>6
    <3>7. CASE b = n + 1
      BY <3>2, <3>7
    <3>8. CASE a > n + 1 /\ b > n + 1
      <4>1. <<g[n + 1], g[a]>> \in R
        BY <1>2, <3>0, <3>8 DEF Ordered
      <4>2. <<f[n + 1], f[b]>> \in R
        BY <1>1, <3>0, <3>8 DEF Ordered
      <4> QED BY <3>1, <3>2, <4>1, <4>2 DEF Asymmetric
    <3> QED BY <3>4, <3>5, <3>6, <3>7, <3>8
  <2> QED BY <2>0, <2>1
<1>5. N \in T
  <2> HIDE DEF T
  <2> QED BY <1>3, <1>4, NatSet
<1>6. \A i \in 1 .. N : f[i] = g[i]
  BY <1>5
<1> QED BY <1>1, <1>2, <1>6, SeqEqual

(* Nothing occurs twice in a sequence that goes up.                          *)
LEMMA OrderedOnce ==
  ASSUME NEW S, NEW f \in Seq(S), NEW R, Asymmetric(R), Ordered(f, R)
  PROVE  /\ \A i, j \in 1 .. Len(f) : f[i] = f[j] => i = j
         /\ IsFiniteSet(Items(f)) /\ Cardinality(Items(f)) = Len(f)
<1>1. PICK N \in Nat : N = Len(f)
  BY LenProperties
<1>2. ASSUME NEW i \in 1 .. N, NEW j \in 1 .. N, i < j, f[i] = f[j] PROVE FALSE
  <2>1. <<f[i], f[j]>> \in R
    BY <1>1, <1>2 DEF Ordered
  <2> QED BY <1>2, <2>1 DEF Asymmetric
<1>3. \A i, j \in 1 .. N : f[i] = f[j] => i = j
  <2>1. \A i, j \in 1 .. N : i < j \/ j < i \/ i = j
    OBVIOUS
  <2> QED BY <1>2, <2>1
<1>4. f \in [1 .. N -> Items(f)]
  <2>1. f = [i \in 1 .. N |-> f[i]]
    BY <1>1, LenProperties
  <2>2. \A i \in 1 .. N : f[i] \in Items(f)
    BY <1>1 DEF Items
  <2> QED BY <2>1, <2>2
<1>5. f \in Surjection(1 .. N, Items(f))
  BY <1>1, <1>4 DEF Surjection, Items
<1>6. f \in Injection(1 .. N, Items(f))
  BY <1>3, <1>4 DEF Injection, IsInjective
<1>7. IsFiniteSet(1 .. N) /\ Cardinality(1 .. N) = N
  BY FS_Interval
<1>8. IsFiniteSet(Items(f)) /\ (Cardinality(Items(f)) = Cardinality(1 .. N) <=> f \in Injection(1 .. N, Items(f)))
  BY <1>5, <1>7, FS_Surjection
<1> QED BY <1>1, <1>3, <1>6, <1>7, <1>8

(* An older list with as many items as the newer one that holds them all is  *)
(* the newer one.                                                            *)
LEMMA SameLength ==
  ASSUME NEW S, NEW f \in Seq(S), NEW g \in Seq(S), NEW R, Asymmetric(R),
         Ordered(f, R), Ordered(g, R), Items(f) \subseteq Items(g), Len(f) = Len(g)
  PROVE  f = g
<1>1. IsFiniteSet(Items(f)) /\ Cardinality(Items(f)) = Len(f)
  BY OrderedOnce
<1>2. IsFiniteSet(Items(g)) /\ Cardinality(Items(g)) = Len(g)
  BY OrderedOnce
<1>3. Items(f) = Items(g)
  BY <1>1, <1>2, FS_Subset
<1> QED BY <1>3, SameItems

-----------------------------------------------------------------------------
(* Rows: what HeldOutUnseen, LabelsAligned and FreshIndex ask of one row, D  *)
(* being the manifest of the channel-6 track.                                *)

Recv == (DOMAIN Label) \X STRING
Win == (DOMAIN Label) \X (STRING \cup {"fused"}) \X Nat   \* a fused index has one receiver, "fused"

KnownScripts == {"train_caution_protonet", "train_prototypical", "train_arcface",
                 "train_cusum", "train_generative_hard_negative"}

Apart(row) ==
  row.stage \notin Disclosed => {Session(w) : w \in Seen(row)} \cap SessionsIn(row.test) = {}
Strange(row) ==
  row.stage \in OpenStages =>
    /\ \E p \in row.test : PersonOf(p[1]) = row.key
    /\ \A w \in Seen(row) : PersonOf(w) # row.key
Knows(row) ==
  /\ \A w \in row.tune : LabelOf(w) = "authorized"
  /\ row.script \in KnownScripts =>
       /\ \A w \in Windows(row.fit) : LabelOf(w) = "authorized"
       /\ Windows(row.fit) \cap row.tune = {}
Paired(row) == \A p \in row.fit \cup row.test : p[1] = p[2]
Cut(D) == {s[1] : s \in {m \in ToSet(D) : NWindows[m] > 0}}
Fresh(row, D) ==
  row.script = "train_day3_ch6_model" /\ row.stage = "eval_loo" =>
    SessionsIn(row.fit) \cup SessionsIn(row.test) = Cut(D)

Fair(row, D) == Apart(row) /\ Strange(row) /\ Knows(row) /\ Paired(row) /\ Fresh(row, D)

\* A row from sets of windows, each with its own label.
Pairs(A) == {<<w, w>> : w \in A}
Sample(name, stage, key, A, B, T) ==
  [script |-> name, stage |-> stage, key |-> key, fit |-> Pairs(A), test |-> Pairs(B),
   tune |-> T, cut |-> {}, pre |-> {}]

(* The windows and the sessions of such pairs.                               *)
LEMMA PairsWindows ==
  ASSUME NEW A
  PROVE  Windows(Pairs(A)) = A /\ SessionsIn(Pairs(A)) = {w[1] : w \in A}
<1>1. \A w \in A : <<w, w>> \in Pairs(A) /\ <<w, w>>[1] = w
  BY DEF Pairs
<1>2. \A p \in Pairs(A) : p[1] \in A
  BY DEF Pairs
<1>3. Windows(Pairs(A)) = A
  BY <1>1, <1>2 DEF Windows
<1>4. ASSUME NEW w \in A PROVE w[1] \in {p[1][1] : p \in Pairs(A)}
  <2>1. <<w, w>>[1][1] = w[1]
    OBVIOUS
  <2> QED BY <1>1, <2>1
<1>5. \A p \in Pairs(A) : p[1][1] \in {w[1] : w \in A}
  BY <1>2
<1>6. {p[1][1] : p \in Pairs(A)} = {w[1] : w \in A}
  BY <1>4, <1>5
<1> QED BY <1>3, <1>6 DEF SessionsIn, Session

(* Such a row is fair when the sets are.                                     *)
LEMMA SampleFair ==
  ASSUME NEW name, NEW stage, NEW key, NEW A, NEW B, NEW T, NEW D,
         stage \notin Disclosed => \A v \in A, w \in B : v[1] # w[1],
         stage \notin Disclosed => \A v \in T, w \in B : v[1] # w[1],
         stage \in OpenStages => /\ \E w \in B : Person[w[1]] = key
                                 /\ \A w \in A \cup T : Person[w[1]] # key,
         \A w \in T : Label[w[1]] = "authorized",
         name \in KnownScripts => (\A w \in A : Label[w[1]] = "authorized") /\ A \cap T = {},
         name = "train_day3_ch6_model" /\ stage = "eval_loo" => {w[1] : w \in A \cup B} = Cut(D)
  PROVE  Fair(Sample(name, stage, key, A, B, T), D)
<1>1. PICK row : row = Sample(name, stage, key, A, B, T)
  OBVIOUS
<1>2. /\ row.script = name /\ row.stage = stage /\ row.key = key
      /\ row.fit = Pairs(A) /\ row.test = Pairs(B)
      /\ row.tune = T /\ row.cut = {} /\ row.pre = {}
  BY <1>1 DEF Sample
<1>3. Windows(row.fit) = A /\ Windows(row.test) = B /\ Seen(row) = A \cup T
  BY <1>2, PairsWindows DEF Seen
<1>4. SessionsIn(row.fit) = {w[1] : w \in A} /\ SessionsIn(row.test) = {w[1] : w \in B}
  BY <1>2, PairsWindows
<1>5. Apart(row)
  BY <1>2, <1>3, <1>4 DEF Apart, Session
<1>6. Strange(row)
  <2>1. SUFFICES ASSUME stage \in OpenStages
                 PROVE  /\ \E p \in row.test : PersonOf(p[1]) = row.key
                        /\ \A w \in Seen(row) : PersonOf(w) # row.key
    BY <1>2 DEF Strange
  <2>2. PICK w \in B : Person[w[1]] = key
    BY <2>1
  <2>3. <<w, w>> \in row.test /\ <<w, w>>[1] = w
    BY <1>2 DEF Pairs
  <2>4. \E p \in row.test : PersonOf(p[1]) = row.key
    BY <1>2, <2>2, <2>3 DEF PersonOf
  <2>5. \A v \in Seen(row) : PersonOf(v) # row.key
    BY <1>2, <1>3, <2>1 DEF PersonOf
  <2> QED BY <2>4, <2>5
<1>7. Knows(row)
  BY <1>2, <1>3 DEF Knows, LabelOf
<1>8. Paired(row)
  BY <1>2 DEF Paired, Pairs
<1>9. Fresh(row, D)
  <2>1. SessionsIn(row.fit) \cup SessionsIn(row.test) = {w[1] : w \in A \cup B}
    BY <1>4
  <2> QED BY <1>2, <2>1 DEF Fresh
<1> QED BY <1>1, <1>5, <1>6, <1>7, <1>8, <1>9 DEF Fair

(* It stays fair when it is decided at a threshold read off windows it was   *)
(* tuned on, or, in the scripts that do so, off any.                         *)
LEMMA CutFair ==
  ASSUME NEW name, NEW stage, NEW key, NEW A, NEW B, NEW T, NEW D, NEW row,
         row = Sample(name, stage, key, A, B, T), Fair(row, D),
         NEW C, name \in CutsAtTest \/ C \subseteq T
  PROVE  Fair([row EXCEPT !.cut = C], D)
<1>1. PICK new : new = [row EXCEPT !.cut = C]
  OBVIOUS
<1>2. /\ new.script = row.script /\ new.stage = row.stage /\ new.key = row.key
      /\ new.fit = row.fit /\ new.test = row.test /\ new.tune = row.tune
      /\ new.cut = C /\ new.pre = row.pre /\ row.script = name /\ row.tune = T
  BY <1>1 DEF Sample
<1>3. Seen(new) \subseteq Seen(row)
  BY <1>2 DEF Seen
<1>4. Apart(new) /\ Strange(new)
  BY <1>2, <1>3 DEF Fair, Apart, Strange
<1>5. Knows(new) /\ Paired(new) /\ Fresh(new, D)
  BY <1>2 DEF Fair, Knows, Paired, Fresh
<1> QED BY <1>1, <1>4, <1>5 DEF Fair

(* So does a row whose threshold is the equal-error point of its test scores. *)
LEMMA DecidedFair ==
  ASSUME NEW name \in CutsAtTest, NEW stage, NEW key, NEW A, NEW B, NEW T, NEW D, NEW row,
         row = Sample(name, stage, key, A, B, T), Fair(row, D)
  PROVE  Fair(DecidedAtTest(row), D)
BY CutFair DEF DecidedAtTest

(* And a row of the contrastive script, whose backbone saw P.                *)
LEMMA PretrainedFair ==
  ASSUME NEW stage, NEW key, NEW A, NEW B, NEW T, NEW D, NEW row,
         row = Sample("train_contrastive", stage, key, A, B, T), Fair(row, D), NEW P
  PROVE  Fair([row EXCEPT !.pre = P], D)
<1>1. PICK new : new = [row EXCEPT !.pre = P]
  OBVIOUS
<1>2. /\ new.script = row.script /\ new.stage = row.stage /\ new.key = row.key
      /\ new.fit = row.fit /\ new.test = row.test /\ new.tune = row.tune
      /\ new.cut = row.cut /\ row.script = "train_contrastive"
  BY <1>1 DEF Sample
<1>3. Seen(new) = Seen(row)
  BY <1>2 DEF Seen
<1>4. Apart(new) /\ Strange(new)
  BY <1>2, <1>3 DEF Fair, Apart, Strange
<1>5. Knows(new) /\ Paired(new) /\ Fresh(new, D)
  BY <1>2 DEF Fair, Knows, Paired, Fresh
<1> QED BY <1>1, <1>4, <1>5 DEF Fair

-----------------------------------------------------------------------------
(* Splits of a frame *)

At(f, idx) == {f[i] : i \in idx}

Split(f, sp) ==
  /\ sp = [key |-> sp.key, train |-> sp.train, test |-> sp.test]
  /\ sp.train \subseteq Rows(f) /\ sp.test \subseteq Rows(f)
\* The fold of a stranger: they are tested, and not trained on.
Open(f, sp) ==
  /\ \E i \in sp.test : Person[f[i][1]] = sp.key
  /\ \A i \in sp.train : Person[f[i][1]] # sp.key
Folds(f, folds) == folds \in Seq(Items(folds)) /\ \A sp \in Items(folds) : Split(f, sp)

(* A row of a split pairs every window with its own label.                   *)
LEMMA RowIsSample ==
  ASSUME NEW f, NEW sp, NEW name, NEW stage
  PROVE  Row(name, stage, sp, f, f)
           = Sample(name, stage, sp.key, At(f, sp.train), At(f, sp.test), {})
<1>1. {<<f[i], f[i]>> : i \in sp.train} = Pairs(At(f, sp.train))
  BY DEF Pairs, At
<1>2. {<<f[i], f[i]>> : i \in sp.test} = Pairs(At(f, sp.test))
  BY DEF Pairs, At
<1> QED BY <1>1, <1>2 DEF Row, Sample

(* Two sides without a common session.                                       *)
LEMMA NoLeaks ==
  ASSUME NEW f, NEW sp, ~Leaks(f, sp)
  PROVE  \A i \in sp.train, j \in sp.test : f[i][1] # f[j][1]
BY DEF Leaks, SessionsAt, Session

(* A row of a split that does not leak, of a stage that promises no more.    *)
LEMMA RowFair ==
  ASSUME NEW f, NEW sp, NEW name, NEW stage, NEW D,
         stage \notin Disclosed => ~Leaks(f, sp),
         stage \in OpenStages => Open(f, sp),
         name \in KnownScripts => \A i \in sp.train : LabelOf(f[i]) = "authorized",
         name = "train_day3_ch6_model" /\ stage = "eval_loo" =>
           {f[i][1] : i \in sp.train \cup sp.test} = Cut(D)
  PROVE  Fair(Row(name, stage, sp, f, f), D)
<1> DEFINE A == At(f, sp.train)
           B == At(f, sp.test)
<1>1. stage \notin Disclosed => \A v \in A, w \in B : v[1] # w[1]
  BY NoLeaks DEF At
<1>2. stage \in OpenStages => /\ \E w \in B : Person[w[1]] = sp.key
                              /\ \A w \in A \cup {} : Person[w[1]] # sp.key
  BY DEF At, Open
<1>3. name \in KnownScripts => (\A w \in A : Label[w[1]] = "authorized") /\ A \cap {} = {}
  BY DEF At, LabelOf
<1>4. name = "train_day3_ch6_model" /\ stage = "eval_loo" => {w[1] : w \in A \cup B} = Cut(D)
  <2>1. {w[1] : w \in A \cup B} = {f[i][1] : i \in sp.train \cup sp.test}
    BY DEF At
  <2> QED BY <2>1
<1> HIDE DEF A, B
<1>5. Fair(Sample(name, stage, sp.key, A, B, {}), D)
  BY <1>1, <1>2, <1>3, <1>4, SampleFair
<1> QED BY <1>5, RowIsSample DEF A, B

(* Training on fewer rows leaves a split what it was.                        *)
Fewer(sp, idx) == [sp EXCEPT !.train = idx]

(* What training on fewer rows keeps: the test side, no leak, an unseen stranger. *)
LEMMA FewerRows ==
  ASSUME NEW f, NEW sp, Split(f, sp), NEW idx \in SUBSET sp.train
  PROVE  /\ Split(f, Fewer(sp, idx))
         /\ Fewer(sp, idx).train = idx /\ Fewer(sp, idx).test = sp.test /\ Fewer(sp, idx).key = sp.key
         /\ ~Leaks(f, sp) => ~Leaks(f, Fewer(sp, idx))
         /\ Open(f, sp) => Open(f, Fewer(sp, idx))
<1>1. PICK new : new = [key |-> sp.key, train |-> idx, test |-> sp.test]
  OBVIOUS
<1>2. Fewer(sp, idx) = new
  BY <1>1 DEF Split, Fewer
<1>3. new.train = idx /\ new.test = sp.test /\ new.key = sp.key
  BY <1>1
<1>4. Split(f, new)
  BY <1>1, <1>3 DEF Split
<1>5. ~Leaks(f, sp) => ~Leaks(f, new)
  BY <1>3 DEF Leaks, SessionsAt
<1>6. Open(f, sp) => Open(f, new)
  BY <1>3 DEF Open
<1> QED BY <1>2, <1>3, <1>4, <1>5, <1>6

-----------------------------------------------------------------------------
(* The steps of a plan *)

\* What a step of a plan made in the context x may do.
OK(st, x) ==
  /\ st.op = "eval" => Fair(st.row, Day3Ch6Manifest(x))
  /\ st.op = "pool" => /\ st.rows \in Seq(Items(st.rows))
                       /\ \A row \in Items(st.rows) : Fair(row, Day3Ch6Manifest(x))
  /\ st.op = "save_X2" => st.X = LoadChannel6Dataset(x)
  /\ st.op = "save_index" => /\ st.key.n = Len(Day3Ch6Manifest(x))
                             /\ st.index = WindowIndex(Day3Ch6Manifest(x))
  /\ st.op = "ship" => \A w \in st.fit : /\ w[1] \in x.sessions
                                         /\ st.script = "train_day3_ch6_model" => w[1] \notin Holdout

Good(steps, x) == steps \in Seq(Items(steps)) /\ \A st \in Items(steps) : OK(st, x)

(* A sequence is one of its own items.                                       *)
LEMMA SeqItems ==
  ASSUME NEW S, NEW s \in Seq(S) PROVE s \in Seq(Items(s)) /\ Items(s) \subseteq S
<1>1. PICK n \in Nat : n = Len(s)
  BY LenProperties
<1>2. s = [j \in 1 .. n |-> s[j]]
  BY <1>1, LenProperties
<1>3. \A j \in 1 .. n : s[j] \in S /\ s[j] \in Items(s)
  BY <1>1, ElementOfSeq DEF Items
<1>4. s \in [1 .. n -> Items(s)]
  BY <1>2, <1>3
<1> QED BY <1>1, <1>3, <1>4, FunSeq DEF Items

(* A sequence over a set is one over a larger set.                           *)
LEMMA SeqSuper ==
  ASSUME NEW S, NEW T, S \subseteq T, NEW s \in Seq(S) PROVE s \in Seq(T)
OBVIOUS

(* A single step in order is a plan in order.                                *)
LEMMA GoodOne ==
  ASSUME NEW x, NEW st, OK(st, x) PROVE Good(<<st>>, x)
<1>1. <<st>> \in Seq({st}) /\ Len(<<st>>) = 1 /\ <<st>>[1] = st
  OBVIOUS
<1>2. PICK s : s = <<st>>
  OBVIOUS
<1>3. Items(s) = {st}
  BY <1>1, <1>2 DEF Items
<1>4. Good(s, x)
  BY <1>1, <1>2, <1>3 DEF Good
<1> QED BY <1>2, <1>4

(* So is no step at all.                                                     *)
LEMMA GoodNone == ASSUME NEW x PROVE Good(<<>>, x)
<1>1. Len(<<>>) = 0
  BY EmptySeq
<1>2. Items(<<>>) = {}
  BY <1>1 DEF Items
<1>3. <<>> \in Seq({})
  BY EmptySeq
<1> QED BY <1>2, <1>3 DEF Good

(* A plan in order after another.                                            *)
LEMMA GoodConcat ==
  ASSUME NEW x, NEW s, NEW t, Good(s, x), Good(t, x) PROVE Good(s \o t, x)
<1>1. PICK S : S = Items(s) \cup Items(t)
  OBVIOUS
<1>2. s \in Seq(S) /\ t \in Seq(S)
  BY <1>1, SeqSuper DEF Good
<1>3. s \o t \in Seq(S) /\ Items(s \o t) = S
  BY <1>1, <1>2, ConcatFacts
<1>4. s \o t \in Seq(Items(s \o t))
  BY <1>3
<1>5. \A st \in Items(s \o t) : OK(st, x)
  BY <1>1, <1>3 DEF Good
<1> QED BY <1>4, <1>5 DEF Good

(* A loop of good bodies.                                                    *)
LEMMA GoodLoop ==
  ASSUME NEW x, NEW n \in Nat, NEW q, q = [j \in 1 .. n |-> q[j]], \A j \in 1 .. n : Good(q[j], x)
  PROVE  Good(FlattenSeq(q), x)
<1>1. PICK S : S = UNION {Items(q[j]) : j \in 1 .. n}
  OBVIOUS
<1>2. ASSUME NEW j \in 1 .. n PROVE q[j] \in Seq(S)
  <2>1. Items(q[j]) \subseteq S
    BY <1>1
  <2>2. q[j] \in Seq(Items(q[j]))
    BY DEF Good
  <2> QED BY <2>1, <2>2, SeqSuper
<1>3. q \in [1 .. n -> Seq(S)]
  BY <1>2
<1>4. q \in Seq(Seq(S)) /\ Len(q) = n
  BY <1>3, FunSeq
<1>5. FlattenSeq(q) \in Seq(S) /\ Items(FlattenSeq(q)) = S
  BY <1>1, <1>4, FlattenFacts
<1>6. FlattenSeq(q) \in Seq(Items(FlattenSeq(q)))
  BY <1>5
<1>7. \A st \in S : OK(st, x)
  BY <1>1 DEF Good
<1> QED BY <1>5, <1>6, <1>7 DEF Good

(* Raising, printing, logging and picking the best are always in order.      *)
LEMMA GoodSteps ==
  ASSUME NEW x
  PROVE  /\ Good(Raise, x) /\ Good(LeakAssertion, x) /\ Good(Show, x)
         /\ \A file : Good(LogRows(file), x)
         /\ Good(Step("save_calibB"), x) /\ Good(Step("pick_best"), x)
<1>1. ASSUME NEW op \in {"raise", "assert", "show", "save_calibB", "pick_best"}
      PROVE  Good(Step(op), x)
  <2>1. PICK st : st = [op |-> op]
    OBVIOUS
  <2>2. st.op = op
    BY <2>1
  <2>3. OK(st, x)
    BY <2>2 DEF OK
  <2>4. Good(<<st>>, x)
    BY <2>3, GoodOne
  <2> QED BY <2>1, <2>4 DEF Step
<1>2. ASSUME NEW file PROVE Good(LogRows(file), x)
  <2>1. PICK st : st = [op |-> "log", file |-> file]
    OBVIOUS
  <2>2. st.op = "log"
    BY <2>1
  <2>3. OK(st, x)
    BY <2>2 DEF OK
  <2>4. Good(<<st>>, x)
    BY <2>3, GoodOne
  <2> QED BY <2>1, <2>4 DEF LogRows
<1> QED BY <1>1, <1>2 DEF Raise, LeakAssertion, Show

(* So is evaluating a fair row, or failing to because it is empty.           *)
LEMMA GoodEval ==
  ASSUME NEW x, NEW row, Fair(row, Day3Ch6Manifest(x)) PROVE Good(Eval(row), x)
<1>1. PICK st : st = [op |-> "eval", row |-> row]
  OBVIOUS
<1>2. st.op = "eval" /\ st.row = row
  BY <1>1
<1>3. OK(st, x)
  BY <1>2 DEF OK
<1>4. Good(<<st>>, x)
  BY <1>3, GoodOne
<1> QED BY <1>1, <1>4, GoodSteps DEF Eval

(* A split that passes the script's own assertion does not leak.             *)
LEMMA GoodAsserted ==
  ASSUME NEW x, NEW f, NEW sp, NEW steps, ~Leaks(f, sp) => Good(steps, x)
  PROVE  Good(Asserted(f, sp, steps), x)
BY GoodSteps DEF Asserted

(* Chosen steps of a good plan are a good plan.                              *)
LEMMA GoodCaught ==
  ASSUME NEW x, NEW steps, Good(steps, x) PROVE Good(Caught(steps), x)
<1>1. PICK idx : Caught(steps) = Iloc(steps, idx)
  BY DEF Caught, Chosen
<1>2. PICK g : g = Iloc(steps, idx)
  OBVIOUS
<1>3. g \in Seq(Items(steps)) /\ Takes(g, steps, idx)
  BY <1>2, IlocFacts DEF Good
<1>4. g \in Seq(Items(g)) /\ Items(g) \subseteq Items(steps)
  BY <1>3, SeqItems
<1>5. Good(g, x)
  BY <1>4 DEF Good
<1> QED BY <1>1, <1>2, <1>5

-----------------------------------------------------------------------------
(* Splits *)

\* A test set that is a union of sessions does not leak.
LEMMA UnionOfSessions ==
  ASSUME NEW f, NEW key, NEW test \in SUBSET Rows(f),
         \A i \in test, j \in Rows(f) : f[i][1] = f[j][1] => j \in test
  PROVE  ~Leaks(f, Against(key, f, test))
<1>1. SUFFICES ASSUME NEW i \in Rows(f) \ test, NEW j \in test, f[i][1] = f[j][1]
               PROVE  FALSE
  BY DEF Leaks, Against, SessionsAt, Session
<1> QED BY <1>1

\* Leave-one-day-out keeps sessions apart: a session has one date.
THEOREM DayFoldDisjoint ==
  ASSUME NEW f, NEW d
  PROVE  ~Leaks(f, DayFold(f, d))
<1> DEFINE test == {i \in Rows(f) : Day[f[i][1]] = d}
<1>1. DayFold(f, d) = Against(d, f, test)
  BY DEF DayFold, Where, DayOf
<1>2. \A i \in test, j \in Rows(f) : f[i][1] = f[j][1] => j \in test
  OBVIOUS
<1>3. test \in SUBSET Rows(f)
  OBVIOUS
<1> HIDE DEF test
<1>4. ~Leaks(f, Against(d, f, test))
  BY <1>2, <1>3, UnionOfSessions
<1> QED BY <1>1, <1>4

\* Two different dates given as train and test keep sessions apart.
THEOREM DirectionDisjoint ==
  ASSUME NEW f, NEW d, NEW e, d # e
  PROVE  ~Leaks(f, Direction(f, d, e))
<1>1. SUFFICES ASSUME NEW i \in Rows(f), NEW j \in Rows(f), Day[f[i][1]] = d, Day[f[j][1]] = e,
                      f[i][1] = f[j][1]
               PROVE  FALSE
  BY DEF Leaks, Direction, SessionsAt, Where, DayOf, Session
<1> QED BY <1>1

(* session_disjoint_kfold of ml and of ml_2: whatever the permutation and    *)
(* the number of folds, the two sides of every fold share no session.        *)
THEOREM KfoldDisjoint ==
  ASSUME NEW f, NEW groups, NEW n \in Nat, NEW k \in 1 .. n
  PROVE  ~Leaks(f, GroupKFold(f, Session, groups, n)[k])
<1> DEFINE mine == {groups[j] : j \in {j \in 1 .. Len(groups) : j % n = k - 1}}
           test == {i \in Rows(f) : f[i][1] \in mine}
<1>1. GroupKFold(f, Session, groups, n)[k] = Against(k, f, test)
  BY DEF GroupKFold, Where, Session
<1> HIDE DEF mine
<1>2. \A i \in test, j \in Rows(f) : f[i][1] = f[j][1] => j \in test
  OBVIOUS
<1>3. test \in SUBSET Rows(f)
  OBVIOUS
<1> HIDE DEF test
<1>4. ~Leaks(f, Against(k, f, test))
  BY <1>2, <1>3, UnionOfSessions
<1> QED BY <1>1, <1>4

(* No window is left out of a k-fold evaluation, and none is tested twice:   *)
(* if every session is in the permutation once, each row is in the test      *)
(* set of exactly one fold.                                                  *)
THEOREM KfoldCovers ==
  ASSUME NEW f, NEW groups \in Seq(SessionsOf(f)), NEW n \in Nat \ {0}, NEW i \in Rows(f),
         \E j \in 1 .. Len(groups) : groups[j] = Session(f[i]),
         \A j, m \in 1 .. Len(groups) : groups[j] = groups[m] => j = m
  PROVE  \E k \in 1 .. n :
           /\ i \in GroupKFold(f, Session, groups, n)[k].test
           /\ \A l \in 1 .. n : i \in GroupKFold(f, Session, groups, n)[l].test => l = k
<1> DEFINE Fold(k) == GroupKFold(f, Session, groups, n)[k]
<1>1. PICK j \in 1 .. Len(groups) : groups[j] = f[i][1]
  BY DEF Session
<1>2. ASSUME NEW k \in 1 .. n
      PROVE  i \in Fold(k).test <=> j % n = k - 1
  <2>1. Fold(k).test = {r \in Rows(f) : f[r][1] \in {groups[m] : m \in {m \in 1 .. Len(groups) : m % n = k - 1}}}
    BY DEF GroupKFold, Where, Session, Against
  <2>2. ASSUME i \in Fold(k).test PROVE j % n = k - 1
    <3>1. PICK m \in 1 .. Len(groups) : m % n = k - 1 /\ f[i][1] = groups[m]
      BY <2>1, <2>2
    <3> QED BY <1>1, <3>1
  <2>3. ASSUME j % n = k - 1 PROVE i \in Fold(k).test
    BY <1>1, <2>1, <2>3
  <2> QED BY <2>2, <2>3
<1>3. j \in Int /\ j % n \in 0 .. n - 1
  OBVIOUS
<1>4. (j % n) + 1 \in 1 .. n
  BY <1>3
<1> HIDE DEF Fold
<1>5. i \in Fold((j % n) + 1).test
  BY <1>2, <1>3, <1>4
<1>6. \A l \in 1 .. n : i \in Fold(l).test => l = (j % n) + 1
  BY <1>2, <1>3
<1>7. \E k \in 1 .. n : i \in Fold(k).test /\ \A l \in 1 .. n : i \in Fold(l).test => l = k
  BY <1>4, <1>5, <1>6
<1> QED BY <1>7 DEF Fold

(* leave_one_unauthorized_person_out: whatever sessions the random slices    *)
(* hold, no session is on both sides, and no window of the stranger is on    *)
(* the training side, from whatever day or receiver.                         *)
THEOREM PersonFoldDisjoint ==
  ASSUME NEW f, NEW held, NEW slice, NEW withNone \in BOOLEAN
  PROVE  /\ ~Leaks(f, PersonFold(f, held, slice, withNone))
         /\ \A i \in PersonFold(f, held, slice, withNone).train :
              ~(LabelOf(f[i]) = "unauthorized" /\ PersonOf(f[i]) = held)
<1> DEFINE Held(s) == Label[s] = "unauthorized" /\ Person[s] = held
           Tested(s) == \/ Held(s)
                        \/ Label[s] = "authorized" /\ s \in slice
                        \/ Label[s] = "none" /\ s \in slice /\ withNone
           fold == PersonFold(f, held, slice, withNone)
<1>1. \A i \in fold.test : Tested(f[i][1])
  BY DEF PersonFold, Where, LabelOf, PersonOf, Session
<1>2. \A i \in fold.train : ~Tested(f[i][1])
  BY DEF PersonFold, Where, LabelOf, PersonOf, Session
<1> HIDE DEF fold
<1>3. \A i \in fold.train, j \in fold.test : f[i][1] # f[j][1]
  <2> HIDE DEF Tested
  <2> QED BY <1>1, <1>2
<1>4. ~Leaks(f, fold)
  BY <1>3 DEF Leaks, SessionsAt, Session
<1>5. \A i \in fold.train : ~(LabelOf(f[i]) = "unauthorized" /\ PersonOf(f[i]) = held)
  BY <1>2 DEF LabelOf, PersonOf
<1> QED BY <1>4, <1>5 DEF fold

-----------------------------------------------------------------------------
(* The folds of a frame *)

Frame(f) == f \in Seq(Win)

(* A row of a frame is of a recorded session.                                *)
LEMMA FrameRows ==
  ASSUME NEW f, Frame(f)
  PROVE  /\ Len(f) \in Nat /\ Rows(f) = 1 .. Len(f)
         /\ \A i \in Rows(f) : f[i] \in Win /\ f[i][1] \in DOMAIN Label
         /\ IsFiniteSet(Rows(f)) /\ Rows(f) \subseteq Nat \ {0}
<1>1. PICK n \in Nat : n = Len(f)
  BY LenProperties DEF Frame
<1>2. \A i \in 1 .. n : f[i] \in Win
  BY <1>1, ElementOfSeq DEF Frame
<1>3. \A w \in Win : w[1] \in DOMAIN Label
  BY DEF Win
<1>4. IsFiniteSet(1 .. n)
  BY FS_Interval
<1> QED BY <1>1, <1>2, <1>3, <1>4 DEF Rows

(* Its sessions, and what is recorded of them, are finite in number.         *)
LEMMA FrameSessions ==
  ASSUME NEW f, Frame(f)
  PROVE  /\ SessionsOf(f) \subseteq DOMAIN Label
         /\ IsFiniteSet(SessionsOf(f)) /\ Cardinality(SessionsOf(f)) \in Nat
<1>1. SessionsOf(f) \subseteq DOMAIN Label
  BY FrameRows DEF SessionsOf, SessionsAt, Session
<1>2. IsFiniteSet(SessionsOf(f))
  BY <1>1, SessionsAssumption, FS_Subset
<1> QED BY <1>1, <1>2, FS_CardinalityType

(* The image of a finite set is finite.                                      *)
LEMMA FiniteImage ==
  ASSUME NEW S, IsFiniteSet(S), NEW g, NEW T, \A t \in T : \E s \in S : t = g[s]
  PROVE  IsFiniteSet(T)
<1> DEFINE U == {g[s] : s \in S}
           h == [s \in S |-> g[s]]
<1>1. h \in Surjection(S, U)
  BY DEF Surjection
<1>2. IsFiniteSet(U)
  <2> HIDE DEF h, U
  <2> QED BY <1>1, FS_Surjection
<1>3. T \subseteq U
  OBVIOUS
<1> QED BY <1>2, <1>3, FS_Subset

(* A split of a frame into some rows and all others.                         *)
LEMMA AgainstSplit ==
  ASSUME NEW f, NEW key, NEW test \in SUBSET Rows(f)
  PROVE  /\ Split(f, Against(key, f, test))
         /\ Against(key, f, test).train \cup Against(key, f, test).test = Rows(f)
BY DEF Split, Against

(* A sequence of splits, written as a function of their number.              *)
LEMMA FoldsOf ==
  ASSUME NEW f, NEW n \in Nat, NEW q, q = [k \in 1 .. n |-> q[k]], \A k \in 1 .. n : Split(f, q[k])
  PROVE  Folds(f, q) /\ Len(q) = n /\ Items(q) = {q[k] : k \in 1 .. n}
<1>1. q \in [1 .. n -> {q[k] : k \in 1 .. n}]
  OBVIOUS
<1>2. q \in Seq({q[k] : k \in 1 .. n}) /\ Len(q) = n
  BY <1>1, FunSeq
<1>3. Items(q) = {q[k] : k \in 1 .. n}
  BY <1>2 DEF Items
<1> QED BY <1>2, <1>3 DEF Folds

(* Some of them, in their order.                                             *)
LEMMA FoldsChosen ==
  ASSUME NEW f, NEW q, Folds(f, q), NEW idx
  PROVE  Folds(f, Iloc(q, idx)) /\ Items(Iloc(q, idx)) \subseteq Items(q)
<1>1. PICK g : g = Iloc(q, idx)
  OBVIOUS
<1>2. g \in Seq(Items(q))
  BY <1>1, IlocFacts DEF Folds
<1>3. g \in Seq(Items(g)) /\ Items(g) \subseteq Items(q)
  BY <1>2, SeqItems
<1> QED BY <1>1, <1>3 DEF Folds

(* The folds of session_disjoint_kfold.                                      *)
LEMMA KfoldFolds ==
  ASSUME NEW f, NEW groups, NEW n \in Nat
  PROVE  /\ Folds(f, GroupKFold(f, Session, groups, n))
         /\ Len(GroupKFold(f, Session, groups, n)) = n
         /\ \A sp \in Items(GroupKFold(f, Session, groups, n)) : ~Leaks(f, sp)
<1>1. PICK q : q = GroupKFold(f, Session, groups, n)
  OBVIOUS
<1> DEFINE Mine(k) == {groups[j] : j \in {j \in 1 .. Len(groups) : j % n = k - 1}}
           Test(k) == {i \in Rows(f) : f[i][1] \in Mine(k)}
<1>2. q = [k \in 1 .. n |-> Against(k, f, Test(k))]
  BY <1>1 DEF GroupKFold, Where, Session
<1>3. \A k \in 1 .. n : Split(f, q[k])
  <2>1. \A k \in 1 .. n : Test(k) \in SUBSET Rows(f)
    OBVIOUS
  <2> HIDE DEF Test
  <2> QED BY <1>2, <2>1, AgainstSplit
<1>4. q = [k \in 1 .. n |-> q[k]]
  <2> HIDE DEF Test
  <2> QED BY <1>2
<1> HIDE DEF Test
<1>5. Folds(f, q) /\ Len(q) = n /\ Items(q) = {q[k] : k \in 1 .. n}
  BY <1>3, <1>4, FoldsOf
<1>6. \A k \in 1 .. n : ~Leaks(f, q[k])
  BY <1>1, KfoldDisjoint
<1> QED BY <1>1, <1>5, <1>6

(* The dates of a frame, and of a set of its rows, can be sorted.            *)
LEMMA DatesList ==
  ASSUME NEW f, Frame(f)
  PROVE  Dates(f) \in Seq({DayOf(f[i]) : i \in Rows(f)}) /\ Len(Dates(f)) \in Nat
<1> DEFINE D == {DayOf(f[i]) : i \in Rows(f)}
<1>1. D \in SUBSET (Nat \ {0})
  BY FrameRows, SessionsAssumption DEF DayOf
<1>2. \A d \in D : \E s \in DOMAIN Label : d = Day[s]
  BY FrameRows DEF DayOf
<1>3. IsFiniteSet(D)
  <2> HIDE DEF D
  <2> QED BY <1>2, SessionsAssumption, FiniteImage
<1>4. Dates(f) = Sorted(D)
  BY DEF Dates
<1> HIDE DEF D
<1>5. Dates(f) \in Seq(D)
  BY <1>1, <1>3, <1>4, SortedFacts
<1> QED BY <1>5, LenProperties DEF D

(* The folds of leave_one_day_out.                                           *)
LEMMA DayFolds ==
  ASSUME NEW f, Frame(f)
  PROVE  /\ Folds(f, LeaveOneDayOut(f))
         /\ \A sp \in Items(LeaveOneDayOut(f)) : ~Leaks(f, sp)
<1>1. PICK n \in Nat : n = Len(Dates(f))
  BY DatesList
<1>2. PICK q : q = LeaveOneDayOut(f)
  OBVIOUS
<1>3. q = [j \in 1 .. n |-> DayFold(f, Dates(f)[j])]
  BY <1>1, <1>2 DEF LeaveOneDayOut
<1>4. \A d : Split(f, DayFold(f, d))
  <2> TAKE d
  <2>1. Where(f, LAMBDA w : DayOf(w) = d) \in SUBSET Rows(f)
    BY DEF Where
  <2> QED BY <2>1, AgainstSplit DEF DayFold
<1>5. q = [j \in 1 .. n |-> q[j]] /\ \A j \in 1 .. n : q[j] = DayFold(f, Dates(f)[j])
  BY <1>3
<1>6. Folds(f, q) /\ Items(q) = {q[k] : k \in 1 .. n}
  BY <1>4, <1>5, FoldsOf
<1>7. \A k \in 1 .. n : ~Leaks(f, q[k])
  BY <1>5, DayFoldDisjoint
<1> QED BY <1>2, <1>6, <1>7

(* The folds of leave_one_unauthorized_person_out: each has its stranger in  *)
(* the test set and no window of theirs, whatever its label, in training.    *)
LEMMA PersonFolds ==
  ASSUME NEW f, Frame(f), NEW perm, NEW withNone \in BOOLEAN
  PROVE  LET folds == LeaveOneUnauthorizedPersonOut(f, perm, withNone)
         IN  /\ Folds(f, folds)
             /\ \A sp \in Items(folds) :
                  /\ ~Leaks(f, sp) /\ Open(f, sp)
                  /\ withNone => sp.train \cup sp.test = Rows(f)
<1> DEFINE strangers == {i \in Rows(f) : Label[f[i][1]] = "unauthorized"}
           P == {PersonOf(f[i]) : i \in strangers}
<1>1. PICK slice : slice = TestSlice(f, "authorized", perm, 4) \cup TestSlice(f, "none", perm, 4)
  OBVIOUS
<1>2. P \in SUBSET (Nat \ {0})
  <2>1. ASSUME NEW i \in strangers PROVE PersonOf(f[i]) \in Nat \ {0}
    BY FrameRows, SessionsAssumption, PeopleAssumption DEF PersonOf
  <2> QED BY <2>1
<1>3. IsFiniteSet(P)
  <2>1. \A p \in P : \E s \in DOMAIN Label : p = Person[s]
    BY FrameRows DEF PersonOf
  <2> HIDE DEF P
  <2> QED BY <2>1, SessionsAssumption, FiniteImage
<1>4. PICK people : people = Sorted(P)
  OBVIOUS
<1>5. people \in Seq(P)
  <2> HIDE DEF P
  <2> QED BY <1>2, <1>3, <1>4, SortedFacts
<1>6. PICK n \in Nat : n = Len(people)
  BY <1>5, LenProperties
<1>7. \A j \in 1 .. n : people[j] \in P
  BY <1>5, <1>6, ElementOfSeq
<1>8. PICK q : q = LeaveOneUnauthorizedPersonOut(f, perm, withNone)
  OBVIOUS
<1>9. q = [j \in 1 .. n |-> PersonFold(f, people[j], slice, withNone)]
  <2>1. {PersonOf(f[i]) : i \in Where(f, LAMBDA w : LabelOf(w) = "unauthorized")} = P
    BY DEF Where, LabelOf
  <2> HIDE DEF P
  <2> QED BY <1>1, <1>4, <1>6, <1>8, <2>1 DEF LeaveOneUnauthorizedPersonOut
<1>10. ASSUME NEW held
       PROVE  /\ Split(f, PersonFold(f, held, slice, withNone))
              /\ PersonFold(f, held, slice, withNone).key = held
              /\ withNone => PersonFold(f, held, slice, withNone).train
                               \cup PersonFold(f, held, slice, withNone).test = Rows(f)
              /\ \A i \in strangers : PersonOf(f[i]) = held =>
                   i \in PersonFold(f, held, slice, withNone).test
  BY DEF PersonFold, Split, Where, LabelOf
<1>11. ASSUME NEW held \in P PROVE Open(f, PersonFold(f, held, slice, withNone))
  <2>1. PICK sp : sp = PersonFold(f, held, slice, withNone)
    OBVIOUS
  <2>2. PICK i \in strangers : held = PersonOf(f[i])
    OBVIOUS
  <2>3. i \in sp.test /\ sp.key = held
    BY <1>10, <2>1, <2>2
  <2>4. ASSUME NEW j \in sp.train, Person[f[j][1]] = held PROVE FALSE
    <3>1. j \in Rows(f) /\ f[i][1] \in DOMAIN Label /\ f[j][1] \in DOMAIN Label
      BY <1>10, <2>1, FrameRows DEF Split
    <3>2. Label[f[j][1]] = Label[f[i][1]]
      BY <2>2, <2>4, <3>1, PeopleAssumption DEF PersonOf
    <3>3. LabelOf(f[j]) = "unauthorized" /\ PersonOf(f[j]) = held
      BY <2>2, <2>4, <3>2 DEF LabelOf, PersonOf
    <3> QED BY <2>1, <3>3, PersonFoldDisjoint
  <2>5. Person[f[i][1]] = held
    BY <2>2 DEF PersonOf
  <2> HIDE DEF strangers
  <2> QED BY <2>1, <2>3, <2>4, <2>5 DEF Open
<1>12. q = [j \in 1 .. n |-> q[j]] /\ \A j \in 1 .. n : q[j] = PersonFold(f, people[j], slice, withNone)
  BY <1>9
<1> HIDE DEF P, strangers
<1>13. Folds(f, q) /\ Items(q) = {q[k] : k \in 1 .. n}
  <2>1. \A k \in 1 .. n : Split(f, q[k])
    BY <1>10, <1>12
  <2>2. q = [k \in 1 .. n |-> q[k]]
    BY <1>12
  <2>3. n \in Nat
    BY <1>6
  <2>4. Folds(f, q) /\ Len(q) = n
    BY <2>1, <2>2, <2>3, FoldsOf, Zenon
  <2>5. Items(q) = {q[k] : k \in 1 .. n}
    BY <2>4 DEF Items
  <2> QED BY <2>4, <2>5
<1>14. \A k \in 1 .. n : ~Leaks(f, q[k])
  BY <1>12, PersonFoldDisjoint
<1>15. \A k \in 1 .. n : Open(f, q[k]) /\ (withNone => q[k].train \cup q[k].test = Rows(f))
  BY <1>7, <1>10, <1>11, <1>12
<1> QED BY <1>8, <1>13, <1>14, <1>15

(* A cap on the training rows takes some of them.                            *)
LEMMA CappedRows ==
  ASSUME NEW f, Frame(f), NEW idx \in SUBSET Rows(f) PROVE Capped(idx) \subseteq idx
<1>1. idx \in SUBSET (Nat \ {0}) /\ IsFiniteSet(idx)
  BY FrameRows, FS_Subset
<1>2. PICK at : at = Sorted(idx)
  OBVIOUS
<1>3. at \in Seq(idx)
  BY <1>1, <1>2, SortedFacts
<1>4. PICK n \in Nat : n = Len(at)
  BY <1>3, LenProperties
<1>5. ASSUME n > MaxTrain, NEW j \in 1 .. MaxTrain PROVE (j * n) \div MaxTrain \in 1 .. n
  <2>1. PICK m \in Nat \ {0} : m = MaxTrain
    BY TracksAssumption
  <2>2. j * n \in Nat /\ j * n <= m * n /\ j * n >= m
    <3>1. j \in 1 .. m /\ n > m
      BY <1>5, <2>1
    <3>2. j * n >= n
      BY <3>1
    <3>3. j * n <= m * n
      BY <3>1
    <3> QED BY <3>1, <3>2, <3>3
  <2>3. ASSUME NEW x \in Nat, x >= m, x <= m * n PROVE x \div m \in 1 .. n
    <3>1. x = m * (x \div m) + (x % m) /\ x % m \in 0 .. m - 1 /\ x \div m \in Nat
      OBVIOUS
    <3>2. x \div m # 0
      BY <2>3, <3>1
    <3>3. x \div m <= n
      <4>1. SUFFICES ASSUME x \div m >= n + 1 PROVE FALSE
        BY <3>1
      <4>2. m * (x \div m) >= m * (n + 1)
        BY <3>1, <4>1
      <4>3. m * (n + 1) = m * n + m
        BY <1>4, <2>1
      <4> QED BY <2>3, <3>1, <4>2, <4>3
    <3> QED BY <3>1, <3>2, <3>3
  <2> QED BY <2>1, <2>2, <2>3
<1>6. CASE n <= MaxTrain
  BY <1>2, <1>4, <1>6 DEF Capped
<1>7. CASE n > MaxTrain
  <2>1. ~(Len(at) <= MaxTrain)
    BY <1>4, <1>7, TracksAssumption
  <2>2. Capped(idx) = {at[(j * Len(at)) \div MaxTrain] : j \in 1 .. MaxTrain}
    BY <1>2, <2>1 DEF Capped
  <2>3. \A j \in 1 .. MaxTrain : at[(j * n) \div MaxTrain] \in idx
    BY <1>3, <1>4, <1>5, <1>7, ElementOfSeq
  <2> QED BY <1>4, <2>2, <2>3
<1> QED BY <1>4, <1>6, <1>7, TracksAssumption

(* The first elements of a sequence are some of them.                        *)
LEMMA FirstOfFacts ==
  ASSUME NEW S, NEW s \in Seq(S), NEW k \in Nat
  PROVE  FirstOf(s, k) \in Seq(S) /\ ToSet(FirstOf(s, k)) \subseteq ToSet(s)
<1>1. PICK n \in Nat : n = Len(s)
  BY LenProperties
<1>2. PICK m \in 0 .. n : m = Smaller(k, n)
  BY DEF Smaller
<1>3. PICK t : t = SubSeq(s, 1, m)
  OBVIOUS
<1>4. FirstOf(s, k) = t
  BY <1>1, <1>2, <1>3 DEF FirstOf
<1>5. t \in Seq(S) /\ Len(t) = m /\ \A i \in 1 .. m : t[i] = s[i]
  BY <1>1, <1>2, <1>3, SubSeqProperties
<1>6. DOMAIN t = 1 .. m /\ DOMAIN s = 1 .. n
  BY <1>1, <1>5, LenProperties
<1>7. ToSet(t) \subseteq ToSet(s)
  BY <1>5, <1>6 DEF ToSet
<1> QED BY <1>4, <1>5, <1>7

(* The fifth of the rows a threshold is tuned on is taken from them.         *)
LEMMA CalibRows ==
  ASSUME NEW f, Frame(f), NEW idx \in SUBSET Rows(f) PROVE CalibSlice(idx) \subseteq idx
<1>1. idx \in SUBSET (Nat \ {0}) /\ IsFiniteSet(idx)
  BY FrameRows, FS_Subset
<1>2. PICK s : s = Sorted(idx)
  OBVIOUS
<1>3. s \in Seq(idx) /\ Len(s) = Cardinality(idx)
  BY <1>1, <1>2, SortedFacts
<1>4. PICK n \in Nat : n = Len(s)
  BY <1>3, LenProperties
<1>5. PICK odd \in Nat : odd = (n + 1) \div 2
  OBVIOUS
<1>6. \A j \in 1 .. n : (IF j <= odd THEN 2 * j - 1 ELSE 2 * (j - odd)) \in 1 .. n
  BY <1>5
<1>7. PICK g : g = Shuffled(idx)
  OBVIOUS
<1>8. g = [j \in 1 .. n |-> s[IF j <= odd THEN 2 * j - 1 ELSE 2 * (j - odd)]]
  BY <1>2, <1>4, <1>5, <1>7 DEF Shuffled
<1>9. g \in [1 .. n -> idx]
  <2>1. \A j \in 1 .. n : s[IF j <= odd THEN 2 * j - 1 ELSE 2 * (j - odd)] \in idx
    BY <1>3, <1>4, <1>6, ElementOfSeq
  <2> QED BY <1>8, <2>1
<1>10. g \in Seq(idx) /\ Len(g) = n
  BY <1>9, FunSeq
<1>11. PICK k \in Nat : k = HeldOutCount(n, 5)
  BY DEF HeldOutCount, Larger
<1>12. CalibSlice(idx) = ToSet(FirstOf(g, k))
  BY <1>3, <1>4, <1>7, <1>11 DEF CalibSlice
<1>13. FirstOf(g, k) \in Seq(idx)
  BY <1>10, FirstOfFacts
<1> QED BY <1>12, <1>13 DEF ToSet

-----------------------------------------------------------------------------
(* The plans of ml/training: every step is in order *)

\* A row of this script and stage promises no more than to be apart.
Plain(name, stage) == stage \notin OpenStages /\ name \notin KnownScripts

(* A row of a split without a leak, of a stage that promises no more than that. *)
LEMMA GoodPlain ==
  ASSUME NEW x, NEW f, NEW sp, NEW name, NEW stage, Plain(name, stage),
         stage \notin Disclosed => ~Leaks(f, sp)
  PROVE  Good(Eval(Row(name, stage, sp, f, f)), x)
<1>1. stage # "eval_loo"
  BY DEF Plain, OpenStages
<1>2. Fair(Row(name, stage, sp, f, f), Day3Ch6Manifest(x))
  BY <1>1, RowFair DEF Plain
<1> QED BY <1>2, GoodEval

(* A row of the fold of a stranger.                                          *)
LEMMA GoodOpen ==
  ASSUME NEW x, NEW f, NEW sp, NEW name, NEW stage, name \notin KnownScripts,
         name # "train_day3_ch6_model" \/ stage # "eval_loo", ~Leaks(f, sp), Open(f, sp)
  PROVE  Good(Eval(Row(name, stage, sp, f, f)), x)
<1>1. Fair(Row(name, stage, sp, f, f), Day3Ch6Manifest(x))
  BY RowFair
<1> QED BY <1>1, GoodEval

(* Kept rows of a frame are a frame.                                         *)
LEMMA IlocFrame ==
  ASSUME NEW f, Frame(f), NEW idx PROVE Frame(Iloc(f, idx))
BY IlocFacts DEF Frame

(* The windows of a task are windows.                                        *)
LEMMA DatasetFrame ==
  ASSUME NEW f, Frame(f), NEW task PROVE Frame(Dataset(f, task))
BY IlocFrame DEF Dataset

\* An item of a sequence is one of its items.
LEMMA ItemAt == ASSUME NEW s, NEW j \in 1 .. Len(s) PROVE s[j] \in Items(s)
BY DEF Items

(* There are finitely many folds.                                            *)
LEMMA FoldCount == ASSUME NEW f, NEW folds, Folds(f, folds) PROVE Len(folds) \in Nat
BY LenProperties DEF Folds

(* session_disjoint_kfold of ml: at least two folds, apart.                  *)
LEMMA SessionFolds ==
  ASSUME NEW f, NEW perm
  PROVE  /\ Folds(f, SessionDisjointKfold(f, perm))
         /\ Len(SessionDisjointKfold(f, perm)) \in Nat /\ Len(SessionDisjointKfold(f, perm)) >= 2
         /\ \A sp \in Items(SessionDisjointKfold(f, perm)) : ~Leaks(f, sp)
BY KfoldFolds, NSplitsAssumption DEF SessionDisjointKfold

(* run_stage1, on a matrix that is the index.                                *)
LEMMA GoodRunTask ==
  ASSUME NEW x, NEW task, Frame(x.index), x.X = x.index
  PROVE  Good(RunTask(x, task), x)
<1> DEFINE sub  == Iloc(x.index, Mask(task, x.index))
           subX == Iloc(x.X, Mask(task, x.index))
           P == LeaveOneUnauthorizedPersonOut(sub, x.order, FALSE)
           K == SessionDisjointKfold(sub, x.order)
           loo == [j \in 1 .. Len(P) |-> Asserted(sub, P[j],
                    Eval(Row("run_stage1", "leave_one_unauth_person_out", P[j], subX, sub)))]
           kfold == [j \in 1 .. Len(K) |-> Asserted(sub, K[j],
                    Eval(Row("run_stage1", "session_disjoint_kfold", K[j], subX, sub)))]
           naive == Eval(Row("run_stage1", "naive_random_LEAKY", NaiveRandomSplit(sub), subX, sub))
<1>1. RunTask(x, task)
        = (IF task = "taskC_openset_proxy" THEN FlattenSeq(loo)
           ELSE (IF KFoldRaises(sub) THEN Raise ELSE FlattenSeq(kfold)) \o Show) \o naive
  BY DEF RunTask, KfoldLoop, ForEach, Concat
<1>2. subX = sub /\ Frame(sub)
  BY IlocFrame
<1>3. Good(naive, x)
  <2>1. Plain("run_stage1", "naive_random_LEAKY") /\ "naive_random_LEAKY" \in Disclosed
    BY DEF Plain, OpenStages, OpenStage, KnownScripts, Disclosed
  <2> HIDE DEF sub, subX
  <2> QED BY <1>2, <2>1, GoodPlain
<1>4. Good(FlattenSeq(loo), x)
  <2>0. "run_stage1" \notin KnownScripts /\ "run_stage1" # "train_day3_ch6_model"
    BY DEF KnownScripts
  <2>1. Folds(sub, P) /\ \A sp \in Items(P) : ~Leaks(sub, sp) /\ Open(sub, sp)
    <3> HIDE DEF sub
    <3> QED BY <1>2, PersonFolds
  <2> HIDE DEF sub, subX, P
  <2>2. Len(P) \in Nat
    BY <2>1, FoldCount
  <2>3. \A j \in 1 .. Len(P) : Good(loo[j], x)
    BY <1>2, <2>0, <2>1, ItemAt, GoodOpen, GoodAsserted
  <2> QED BY <2>2, <2>3, GoodLoop
<1>5. Good(FlattenSeq(kfold), x)
  <2>1. Plain("run_stage1", "session_disjoint_kfold")
    BY DEF Plain, OpenStages, OpenStage, KnownScripts
  <2> HIDE DEF sub, subX
  <2>2. Len(K) \in Nat
    BY SessionFolds
  <2> HIDE DEF K
  <2>3. \A j \in 1 .. Len(K) : Good(kfold[j], x)
    BY <1>2, <2>1, GoodPlain, GoodAsserted
  <2> QED BY <2>2, <2>3, GoodLoop
<1> HIDE DEF loo, kfold, naive, sub
<1>6. Good((IF KFoldRaises(sub) THEN Raise ELSE FlattenSeq(kfold)) \o Show, x)
  BY <1>5, GoodSteps, GoodConcat
<1> QED BY <1>1, <1>3, <1>4, <1>6, GoodConcat

(* run_stage1: each task and preprocessing, on a matrix that fits its index. *)
LEMMA GoodRunStage1 ==
  ASSUME NEW x, Frame(x.index), Len(x.X) = Len(x.index) => x.X = x.index
  PROVE  Good(RunStage1(x), x)
<1> DEFINE tasks == [j \in 1 .. Len(Stage1Tasks) |-> RunTask(x, Stage1Tasks[j])]
           preps == [j \in 1 .. Len(Preprocessings) |->
                       IF x.X = <<>> THEN <<>> ELSE FlattenSeq(tasks)]
<1>1. RunStage1(x) = IF x.X # <<>> /\ Len(x.X) # Len(x.index) THEN Raise
                     ELSE FlattenSeq(preps) \o LogRows("experiment_log")
  BY DEF RunStage1, ForEach, Concat
<1>2. Len(Stage1Tasks) \in Nat /\ Len(Preprocessings) \in Nat
  BY DEF Stage1Tasks, Preprocessings
<1>3. ASSUME x.X # <<>>, Len(x.X) = Len(x.index) PROVE Good(FlattenSeq(tasks), x)
  <2>1. \A j \in 1 .. Len(Stage1Tasks) : Good(tasks[j], x)
    BY <1>3, GoodRunTask
  <2> QED BY <1>2, <2>1, GoodLoop
<1>4. ASSUME x.X = <<>> \/ Len(x.X) = Len(x.index) PROVE Good(FlattenSeq(preps), x)
  <2> HIDE DEF tasks
  <2>1. \A j \in 1 .. Len(Preprocessings) : Good(preps[j], x)
    BY <1>3, <1>4, GoodNone
  <2> QED BY <1>2, <2>1, GoodLoop
<1> HIDE DEF preps
<1>5. CASE x.X # <<>> /\ Len(x.X) # Len(x.index)
  BY <1>1, <1>5, GoodSteps
<1>6. CASE x.X = <<>> \/ Len(x.X) = Len(x.index)
  <2>1. Good(FlattenSeq(preps) \o LogRows("experiment_log"), x)
    BY <1>4, <1>6, GoodSteps, GoodConcat
  <2> QED BY <1>1, <1>6, <2>1
<1> QED BY <1>5, <1>6

(* train, run_stage2.                                                        *)
LEMMA GoodRunModelOnTask ==
  ASSUME NEW x, NEW name, NEW task, name \notin KnownScripts
  PROVE  Good(RunModelOnTask(x, name, task), x)
<1> DEFINE ds == Dataset(x.index, task)
           sp == SessionDisjointKfold(ds, x.order)[1]
<1>1. RunModelOnTask(x, name, task)
        = IF KFoldRaises(ds) THEN Raise
          ELSE Asserted(ds, sp, Eval(Row(name, "session_disjoint_single_split", sp, ds, ds)))
  BY DEF RunModelOnTask
<1>2. Plain(name, "session_disjoint_single_split")
  BY DEF Plain, OpenStages, OpenStage
<1> HIDE DEF ds, sp
<1> QED BY <1>1, <1>2, GoodPlain, GoodAsserted, GoodSteps

(* train: the split is asserted before the row is evaluated.                 *)
LEMMA GoodTrain == ASSUME NEW x PROVE Good(Train(x), x)
<1>1. "train" \notin KnownScripts
  BY DEF KnownScripts
<1> QED BY <1>1, GoodRunModelOnTask, GoodSteps, GoodConcat DEF Train

(* The calibrated features of run_stage2 raise or go on.                     *)
LEMMA GoodCalibA == ASSUME NEW x, NEW manifest, NEW dates PROVE Good(CalibA(manifest, dates), x)
BY GoodSteps, GoodNone DEF CalibA

(* run_stage2 stops where its features are built.                            *)
LEMMA GoodRunStage2 == ASSUME NEW x PROVE Good(RunStage2(x), x)
<1> DEFINE one(task) == [j \in 1 .. Len(Zoo) |-> Caught(RunModelOnTask(x, "run_stage2", task))]
           tasks == [j \in 1 .. Len(Stage2Tasks) |-> FlattenSeq(one(Stage2Tasks[j]))]
<1>1. RunStage2(x) = CalibA(x.manifest, <<Day[x.manifest[1][1]]>>)
                       \o FlattenSeq(tasks) \o LogRows("experiment_log")
  BY DEF RunStage2, ForEach, Concat
<1>2. Len(Zoo) \in Nat /\ Len(Stage2Tasks) \in Nat
  BY ModelsAssumption, LenProperties DEF Stage2Tasks
<1>3. ASSUME NEW task PROVE Good(FlattenSeq(one(task)), x)
  <2>1. "run_stage2" \notin KnownScripts
    BY DEF KnownScripts
  <2>2. \A j \in 1 .. Len(Zoo) : Good(one(task)[j], x)
    BY <2>1, GoodRunModelOnTask, GoodCaught
  <2> QED BY <1>2, <2>2, GoodLoop
<1>4. Good(FlattenSeq(tasks), x)
  <2> HIDE DEF one
  <2>1. \A j \in 1 .. Len(Stage2Tasks) : Good(tasks[j], x)
    BY <1>3
  <2> QED BY <1>2, <2>1, GoodLoop
<1> HIDE DEF tasks
<1>5. PICK first : first = CalibA(x.manifest, <<Day[x.manifest[1][1]]>>)
  OBVIOUS
<1>6. PICK both : both = first \o FlattenSeq(tasks)
  OBVIOUS
<1>7. Good(both, x)
  BY <1>4, <1>5, <1>6, GoodCalibA, GoodConcat
<1>8. Good(both \o LogRows("experiment_log"), x)
  BY <1>7, GoodSteps, GoodConcat
<1> QED BY <1>1, <1>5, <1>6, <1>8

(* Three plans one after another.                                            *)
LEMMA GoodThree ==
  ASSUME NEW x, NEW r, NEW s, NEW t, Good(r, x), Good(s, x), Good(t, x)
  PROVE  Good((r \o s) \o t, x)
<1>1. PICK u : u = r \o s
  OBVIOUS
<1>2. Good(u, x)
  BY <1>1, GoodConcat
<1>3. Good(u \o t, x)
  BY <1>2, GoodConcat
<1> QED BY <1>1, <1>3

\* A plan that is good stays so when its rows are logged, or shown.
LEMMA GoodLogged ==
  ASSUME NEW x, NEW steps, Good(steps, x), NEW file PROVE Good(steps \o LogRows(file), x)
<1>1. Good(LogRows(file), x)
  BY GoodSteps
<1> QED BY <1>1, GoodConcat

(* A row with rows to tune on.                                               *)
LEMMA TunedFair ==
  ASSUME NEW f, NEW sp, NEW name, NEW stage, NEW D, ~Leaks(f, sp),
         NEW A \in SUBSET sp.train, NEW T \in SUBSET sp.train,
         stage \in OpenStages => Open(f, sp),
         \A i \in T : LabelOf(f[i]) = "authorized",
         name \in KnownScripts => /\ \A i \in A : LabelOf(f[i]) = "authorized"
                                  /\ At(f, A) \cap At(f, T) = {},
         name # "train_day3_ch6_model" \/ stage # "eval_loo"
  PROVE  Fair(Sample(name, stage, sp.key, At(f, A), At(f, sp.test), At(f, T)), D)
<1> DEFINE a == At(f, A)
           b == At(f, sp.test)
           t == At(f, T)
<1>1. \A v \in a, w \in b : v[1] # w[1]
  BY NoLeaks DEF At
<1>2. stage \in OpenStages => /\ \E w \in b : Person[w[1]] = sp.key
                              /\ \A w \in a \cup t : Person[w[1]] # sp.key
  BY DEF At, Open
<1>3. \A w \in t : Label[w[1]] = "authorized"
  BY DEF At, LabelOf
<1>4. name \in KnownScripts => (\A w \in a : Label[w[1]] = "authorized") /\ a \cap t = {}
  BY DEF At, LabelOf
<1>5. \A v \in t, w \in b : v[1] # w[1]
  BY NoLeaks DEF At
<1> HIDE DEF a, b, t
<1>6. Fair(Sample(name, stage, sp.key, a, b, t), D)
  BY <1>1, <1>2, <1>3, <1>4, <1>5, SampleFair
<1> QED BY <1>6 DEF a, b, t

(* A row with a tuned threshold.                                             *)
LEMMA TunedRowIs ==
  ASSUME NEW f, NEW sp, NEW name, NEW stage, NEW T
  PROVE  [Row(name, stage, sp, f, f) EXCEPT !.tune = T]
           = Sample(name, stage, sp.key, At(f, sp.train), At(f, sp.test), T)
<1>1. PICK A, B : A = At(f, sp.train) /\ B = At(f, sp.test)
  OBVIOUS
<1>2. PICK row : row = Sample(name, stage, sp.key, A, B, {})
  OBVIOUS
<1>3. [row EXCEPT !.tune = T] = Sample(name, stage, sp.key, A, B, T)
  BY <1>2 DEF Sample
<1>4. Row(name, stage, sp, f, f) = row
  BY <1>1, <1>2, RowIsSample
<1> QED BY <1>1, <1>3, <1>4

(* run_stage2_openset.                                                       *)
LEMMA GoodRunStage2Openset ==
  ASSUME NEW x, Frame(x.index) PROVE Good(RunStage2Openset(x), x)
<1> DEFINE f == x.index
           P == LeaveOneUnauthorizedPersonOut(f, x.order, FALSE)
           T(sp) == {i \in sp.train : LabelOf(f[i]) = "authorized"}
           row(sp) == [Row("run_stage2_openset", "leave_one_unauth_person_out", sp, f, f)
                         EXCEPT !.tune = {f[i] : i \in T(sp)}]
           q == [j \in 1 .. Len(P) |-> Asserted(f, P[j], Eval(row(P[j])))]
<1>1. RunStage2Openset(x) = FlattenSeq(q) \o LogRows("experiment_log")
  BY DEF RunStage2Openset, ForEach, Concat
<1>2. Folds(f, P) /\ \A sp \in Items(P) : ~Leaks(f, sp) /\ Open(f, sp)
  BY PersonFolds
<1>3. Len(P) \in Nat
  <2> HIDE DEF P
  <2> QED BY <1>2, FoldCount
<1>4. ASSUME NEW sp, ~Leaks(f, sp), Open(f, sp) PROVE Good(Eval(row(sp)), x)
  <2>1. row(sp) = Sample("run_stage2_openset", "leave_one_unauth_person_out", sp.key,
                         At(f, sp.train), At(f, sp.test), At(f, T(sp)))
    <3>1. {f[i] : i \in T(sp)} = At(f, T(sp))
      BY DEF At
    <3>2. PICK U : U = At(f, T(sp))
      OBVIOUS
    <3>3. row(sp) = [Row("run_stage2_openset", "leave_one_unauth_person_out", sp, f, f)
                       EXCEPT !.tune = U]
      BY <3>1, <3>2
    <3> HIDE DEF T, f, row
    <3> QED BY <3>2, <3>3, TunedRowIs
  <2>2. "run_stage2_openset" \notin KnownScripts
    BY DEF KnownScripts
  <2>3. sp.train \in SUBSET sp.train /\ T(sp) \in SUBSET sp.train
    OBVIOUS
  <2>4. \A i \in T(sp) : LabelOf(f[i]) = "authorized"
    OBVIOUS
  <2>5. PICK A, U : A = sp.train /\ U = T(sp)
    OBVIOUS
  <2> HIDE DEF T, f, row
  <2>6. Fair(Sample("run_stage2_openset", "leave_one_unauth_person_out", sp.key,
                    At(f, A), At(f, sp.test), At(f, U)), Day3Ch6Manifest(x))
    BY <1>4, <2>2, <2>3, <2>4, <2>5, TunedFair
  <2> QED BY <2>1, <2>5, <2>6, GoodEval
<1>5. Good(FlattenSeq(q), x)
  <2> HIDE DEF row, P
  <2>1. \A j \in 1 .. Len(P) : Good(q[j], x)
    BY <1>2, <1>4, ItemAt, GoodAsserted
  <2> QED BY <1>3, <2>1, GoodLoop
<1> HIDE DEF q
<1> QED BY <1>1, <1>5, GoodLogged

(* The blocks of consecutive windows are of the rows they are cut from.      *)
LEMMA SegmentWindows ==
  ASSUME NEW f, NEW idx, NEW n PROVE UNION Segments(f, idx, n) \subseteq At(f, idx)
<1> DEFINE In(s) == {i \in idx : Session(f[i]) = s}
           Rank(s, i) == Cardinality({j \in In(s) : f[j][3] < f[i][3]})
           Block(s, b) == {f[i] : i \in {i \in In(s) : Rank(s, i) \div n = b}}
<1>0. Segments(f, idx, n) = UNION {{Block(s, b) : b \in 0 .. (Cardinality(In(s)) \div n) - 1}
                                   : s \in SessionsAt(f, idx)}
  BY DEF Segments
<1>1. ASSUME NEW block \in Segments(f, idx, n) PROVE block \subseteq At(f, idx)
  <2>1. \A s, b : Block(s, b) \subseteq At(f, idx)
    BY DEF At
  <2> HIDE DEF Block
  <2>2. PICK s \in SessionsAt(f, idx) : block \in {Block(s, b) : b \in 0 .. (Cardinality(In(s)) \div n) - 1}
    BY <1>0
  <2> QED BY <2>1, <2>2
<1> QED BY <1>1

(* A row tested, or fitted, on whole blocks.                                 *)
LEMMA GoodSegments ==
  ASSUME NEW x, NEW f, NEW sp, NEW name, NEW stage, NEW A, NEW n,
         A \subseteq At(f, sp.train), ~Leaks(f, sp), Plain(name, stage)
  PROVE  Fair(Sample(name, stage, sp.key, A, UNION Segments(f, sp.test, n), {}), Day3Ch6Manifest(x))
<1> DEFINE B == UNION Segments(f, sp.test, n)
<1>1. B \subseteq At(f, sp.test)
  BY SegmentWindows
<1> HIDE DEF B
<1>2. \A v \in A, w \in B : v[1] # w[1]
  BY <1>1, NoLeaks DEF At
<1>3. stage \notin OpenStages /\ name \notin KnownScripts /\ stage # "eval_loo"
  BY DEF Plain, OpenStages
<1>4. \A w \in {} : Label[w[1]] = "authorized"
  OBVIOUS
<1>5. Fair(Sample(name, stage, sp.key, A, B, {}), Day3Ch6Manifest(x))
  BY <1>2, <1>3, <1>4, SampleFair
<1> QED BY <1>5 DEF B

(* A row tested on the segments of its test windows.                         *)
LEMMA SegmentRowIs ==
  ASSUME NEW f, NEW sp, NEW name, NEW stage, NEW n
  PROVE  SegmentRow(Row(name, stage, sp, f, f), f, sp.test, n)
           = Sample(name, "segments", sp.key, At(f, sp.train), UNION Segments(f, sp.test, n), {})
<1>1. PICK U : U = UNION Segments(f, sp.test, n)
  OBVIOUS
<1>2. PICK A, B : A = At(f, sp.train) /\ B = At(f, sp.test)
  OBVIOUS
<1>3. PICK row : row = Sample(name, stage, sp.key, A, B, {})
  OBVIOUS
<1>4. [row EXCEPT !.stage = "segments", !.test = Pairs(U)] = Sample(name, "segments", sp.key, A, U, {})
  <2>1. PICK new : new = Sample(name, "segments", sp.key, A, B, {})
    OBVIOUS
  <2>2. [row EXCEPT !.stage = "segments"] = new
    BY <1>3, <2>1 DEF Sample
  <2>3. [new EXCEPT !.test = Pairs(U)] = Sample(name, "segments", sp.key, A, U, {})
    BY <2>1 DEF Sample
  <2>4. [row EXCEPT !.stage = "segments", !.test = Pairs(U)] = [new EXCEPT !.test = Pairs(U)]
    BY <2>2
  <2> QED BY <2>3, <2>4
<1>5. Row(name, stage, sp, f, f) = row
  BY <1>2, <1>3, RowIsSample
<1>6. SegmentRow(row, f, sp.test, n) = [row EXCEPT !.stage = "segments", !.test = Pairs(U)]
  BY <1>1 DEF SegmentRow, Pairs
<1> QED BY <1>1, <1>2, <1>4, <1>5, <1>6

(* Segments stay within the sessions of their windows.                       *)
LEMMA GoodSegmentRow ==
  ASSUME NEW x, NEW f, NEW sp, NEW name, NEW stage, NEW n, ~Leaks(f, sp), name \notin KnownScripts
  PROVE  Good(Eval(SegmentRow(Row(name, stage, sp, f, f), f, sp.test, n)), x)
<1>1. Plain(name, "segments")
  BY DEF Plain, OpenStages, OpenStage
<1>2. Fair(Sample(name, "segments", sp.key, At(f, sp.train), UNION Segments(f, sp.test, n), {}),
           Day3Ch6Manifest(x))
  BY <1>1, GoodSegments
<1> QED BY <1>2, SegmentRowIs, GoodEval

(* run_taskD_focus, run_taskD_segment_aggregation, run_taskD_crossattn_cv.   *)
LEMMA GoodRunTaskDFocus == ASSUME NEW x PROVE Good(RunTaskDFocus(x), x)
<1> DEFINE ds == Dataset(x.index, "taskD_auth_vs_nonauth")
           valid == PickValidFold(ds, x.order)
           one == Eval(Row("run_taskD_focus", "pick_valid_fold", valid[1], ds, ds))
           models == <<"dualbranch", "crossattn">>
           q == [j \in 1 .. Len(models) |-> one]
<1>1. RunTaskDFocus(x) = IF KFoldRaises(ds) \/ valid = <<>> THEN Raise
                         ELSE Asserted(ds, valid[1], FlattenSeq(q) \o Show)
  BY DEF RunTaskDFocus, ForEach, Concat
<1>2. Plain("run_taskD_focus", "pick_valid_fold")
  BY DEF Plain, OpenStages, OpenStage, KnownScripts
<1>3. ASSUME ~Leaks(ds, valid[1]) PROVE Good(FlattenSeq(q) \o Show, x)
  <2>1. Len(models) \in Nat
    OBVIOUS
  <2> HIDE DEF models, ds, valid
  <2>2. Good(one, x)
    BY <1>2, <1>3, GoodPlain
  <2> HIDE DEF one
  <2>3. \A j \in 1 .. Len(models) : Good(q[j], x)
    BY <2>2
  <2>4. Good(FlattenSeq(q), x)
    BY <2>1, <2>3, GoodLoop
  <2> HIDE DEF q
  <2> QED BY <2>4, GoodSteps, GoodConcat
<1> HIDE DEF q, ds, valid
<1> QED BY <1>1, <1>3, GoodSteps, GoodAsserted

(* run_taskD_segment_aggregation: windows and segments of asserted splits.   *)
LEMMA GoodRunTaskDSegmentAggregation ==
  ASSUME NEW x PROVE Good(RunTaskDSegmentAggregation(x), x)
<1> DEFINE ds == Dataset(x.index, "taskD_auth_vs_nonauth")
           valid == PickValidFold(ds, x.order)
           row == Row("run_taskD_segment_aggregation", "pick_valid_fold", valid[1], ds, ds)
           q == [j \in 1 .. Len(SegmentLengths) |->
                   Eval(SegmentRow(row, ds, valid[1].test, SegmentLengths[j]))]
<1>1. RunTaskDSegmentAggregation(x) =
        IF KFoldRaises(ds) \/ valid = <<>> THEN Raise
        ELSE Asserted(ds, valid[1], Eval(row) \o FlattenSeq(q) \o Show)
  BY DEF RunTaskDSegmentAggregation, ForEach, Concat
<1>2. Plain("run_taskD_segment_aggregation", "pick_valid_fold")
  BY DEF Plain, OpenStages, OpenStage, KnownScripts
<1>3. ASSUME ~Leaks(ds, valid[1]) PROVE Good(Eval(row) \o FlattenSeq(q) \o Show, x)
  <2>1. Len(SegmentLengths) \in Nat
    BY DEF SegmentLengths
  <2> HIDE DEF ds, valid
  <2>2. Good(Eval(row), x)
    BY <1>2, <1>3, GoodPlain
  <2>3. \A j \in 1 .. Len(SegmentLengths) : Good(q[j], x)
    BY <1>2, <1>3, GoodSegmentRow DEF Plain
  <2>4. Good(FlattenSeq(q), x)
    <3> HIDE DEF row
    <3> QED BY <2>1, <2>3, GoodLoop
  <2> HIDE DEF q, row
  <2> QED BY <2>2, <2>4, GoodSteps, GoodThree
<1> HIDE DEF q, ds, valid, row
<1> QED BY <1>1, <1>3, GoodSteps, GoodAsserted

(* run_taskD_crossattn_cv stops before it evaluates anything.                *)
LEMMA GoodRunTaskDCrossattnCv == ASSUME NEW x PROVE Good(RunTaskDCrossattnCv(x), x)
<1> DEFINE ds == Dataset(x.index, "taskD_auth_vs_nonauth")
           K == SessionDisjointKfold(ds, x.order)
           q == [j \in 1 .. Len(K) |->
                   IF ~BothClasses("taskD_auth_vs_nonauth", ds, K[j].test) THEN <<>>
                   ELSE Asserted(ds, K[j], Eval(Row("run_taskD_crossattn_cv",
                                                    "session_disjoint_kfold", K[j], ds, ds)))]
<1>1. RunTaskDCrossattnCv(x) =
        (IF KFoldRaises(ds) THEN Raise ELSE FlattenSeq(q)) \o LogRows("experiment_log")
  BY DEF RunTaskDCrossattnCv, ForEach, Concat
<1>2. Plain("run_taskD_crossattn_cv", "session_disjoint_kfold")
  BY DEF Plain, OpenStages, OpenStage, KnownScripts
<1>3. Good(FlattenSeq(q), x)
  <2>1. Len(K) \in Nat
    BY SessionFolds
  <2> HIDE DEF K, ds
  <2>2. \A j \in 1 .. Len(K) : Good(q[j], x)
    BY <1>2, GoodPlain, GoodAsserted, GoodNone
  <2> QED BY <2>1, <2>2, GoodLoop
<1> HIDE DEF q, ds
<1>4. PICK steps : steps = IF KFoldRaises(ds) THEN Raise ELSE FlattenSeq(q)
  OBVIOUS
<1>5. Good(steps, x)
  BY <1>3, <1>4, GoodSteps
<1> QED BY <1>1, <1>4, <1>5, GoodLogged

(* run_fewshot_finetune: the pool is neither in the evaluation set nor of its  *)
(* sessions.                                                                 *)
LEMMA GoodRunFewshotFinetune ==
  ASSUME NEW x, Frame(x.index) PROVE Good(RunFewshotFinetune(x), x)
<1> DEFINE ds == Dataset(x.index, "taskD_auth_vs_nonauth")
           dates == Dates(ds)
           sp == Direction(ds, dates[1], dates[2])
           ThatDay(l) == {s \in SessionsAt(ds, sp.test) : Label[s] = l}
           First(l) == Sorted(ThatDay(l))
           picks == [l \in 1 .. 3 |->
                       FirstOf(First(<<"authorized", "none", "unauthorized">>[l]), 1)]
           few == FlattenSeq(picks)
           rest == {i \in sp.test : Session(ds[i]) \notin ToSet(few)}
           Tuned(k) == [sp EXCEPT !.test = rest,
             !.train = sp.train \cup {i \in sp.test : Session(ds[i]) \in ToSet(FirstOf(few, k))}]
           ks == <<0, 1, Len(few)>>
           q == [j \in 1 .. Len(ks) |->
                   Eval(Row("run_fewshot_finetune", "day_disjoint", Tuned(ks[j]), ds, ds))]
<1>1. RunFewshotFinetune(x) =
        IF Len(dates) < 2 THEN Raise
        ELSE Asserted(ds, sp, IF rest = {} THEN Raise ELSE FlattenSeq(q) \o Show)
  BY DEF RunFewshotFinetune, ForEach, Concat
<1>2. Frame(ds)
  BY DatasetFrame
<1>3. few \in Seq(Nat)
  <2>1. ASSUME NEW l PROVE FirstOf(First(l), 1) \in Seq(Nat)
    <3>1. sp.test \subseteq Rows(ds)
      BY DEF Direction, Where
    <3> HIDE DEF sp, ds
    <3>2. ThatDay(l) \subseteq DOMAIN Label
      BY <1>2, <3>1, FrameRows DEF SessionsAt, Session
    <3>3. ThatDay(l) \in SUBSET (Nat \ {0}) /\ IsFiniteSet(ThatDay(l))
      BY <3>2, SessionsAssumption, FS_Subset
    <3> HIDE DEF ThatDay
    <3>4. First(l) \in Seq(ThatDay(l))
      BY <3>3, SortedFacts
    <3>5. First(l) \in Seq(Nat)
      BY <3>3, <3>4, SeqSuper
    <3> QED BY <3>5, FirstOfFacts
  <2> HIDE DEF First
  <2>2. \A l \in 1 .. 3 : picks[l] \in Seq(Nat)
    BY <2>1
  <2>3. picks \in [1 .. 3 -> Seq(Nat)]
    BY <2>2
  <2> HIDE DEF picks
  <2>4. picks \in Seq(Seq(Nat))
    BY <2>3, FunSeq
  <2> QED BY <2>4, FlattenTyped
<1>4. Plain("run_fewshot_finetune", "day_disjoint")
  BY DEF Plain, OpenStages, OpenStage, KnownScripts
<1>5. ASSUME ~Leaks(ds, sp), NEW k \in Nat PROVE ~Leaks(ds, Tuned(k))
  <2>0. PICK more : more = {i \in sp.test : Session(ds[i]) \in ToSet(FirstOf(few, k))}
    OBVIOUS
  <2>1. Tuned(k).train = sp.train \cup more /\ Tuned(k).test = rest
    BY <2>0 DEF Direction
  <2> HIDE DEF sp, Tuned, ds
  <2>2. ToSet(FirstOf(few, k)) \subseteq ToSet(few)
    <3> HIDE DEF few
    <3> QED BY <1>3, FirstOfFacts
  <2> HIDE DEF few
  <2>3. \A i \in sp.train, j \in sp.test : ds[i][1] # ds[j][1]
    BY <1>5, NoLeaks
  <2>4. ASSUME NEW i \in sp.train \cup more, NEW j \in rest PROVE ds[i][1] # ds[j][1]
    BY <2>0, <2>2, <2>3 DEF Session
  <2> HIDE DEF rest
  <2> QED BY <2>1, <2>4 DEF Leaks, SessionsAt, Session
<1>6. ASSUME ~Leaks(ds, sp) PROVE Good(FlattenSeq(q) \o Show, x)
  <2>1. Len(ks) \in Nat /\ \A j \in 1 .. Len(ks) : ks[j] \in Nat
    <3> HIDE DEF few
    <3>1. Len(few) \in Nat
      BY <1>3, LenProperties
    <3> QED BY <3>1
  <2> HIDE DEF ks, Tuned, ds, sp
  <2>2. \A j \in 1 .. Len(ks) : Good(q[j], x)
    BY <1>4, <1>5, <1>6, <2>1, GoodPlain
  <2>3. Good(FlattenSeq(q), x)
    BY <2>1, <2>2, GoodLoop
  <2> HIDE DEF q
  <2> QED BY <2>3, GoodSteps, GoodConcat
<1> HIDE DEF q, rest, sp, dates, ds
<1>7. ASSUME ~Leaks(ds, sp) PROVE Good(IF rest = {} THEN Raise ELSE FlattenSeq(q) \o Show, x)
  BY <1>6, <1>7, GoodSteps
<1> QED BY <1>1, <1>7, GoodAsserted, GoodSteps

\* Every window of the frame is of one of the sessions S.
Within(f, S) == \A w \in Items(f) : w[1] \in S

(* Some rows of an index cover no session it did not.                        *)
LEMMA WithinIloc ==
  ASSUME NEW f, Frame(f), NEW S, Within(f, S), NEW idx PROVE Within(Iloc(f, idx), S)
<1>1. \A i \in Rows(f) : f[i] \in Items(f)
  BY DEF Rows, Items
<1>2. Items(Iloc(f, idx)) = {f[i] : i \in idx \cap Rows(f)}
  BY IlocFacts DEF Frame, Takes
<1> QED BY <1>1, <1>2 DEF Within

(* The set of a window index is its items.                                   *)
LEMMA SetOfItems == ASSUME NEW f, Frame(f) PROVE ToSet(f) = Items(f)
<1>1. DOMAIN f = 1 .. Len(f)
  BY LenProperties DEF Frame
<1> QED BY <1>1 DEF ToSet, Items

(* A final model: its training windows are recorded, and on the channel-6    *)
(* track none is held out.                                                   *)
LEMMA GoodShipFinal ==
  ASSUME NEW x, NEW name, NEW file, NEW ds, NEW task, NEW rate, Frame(ds), Within(ds, x.sessions),
         name \notin KnownScripts,
         name = "train_day3_ch6_model" => \A w \in Items(ds) : w[1] \notin Holdout
  PROVE  Good(ShipFinal(name, file, ds, task, rate), x)
<1> DEFINE whole == [key |-> 0, train |-> Rows(ds), test |-> Rows(ds)]
           row == Row(name, "final", whole, ds, ds)
           st == [op |-> "ship", task |-> task, script |-> name, rate |-> rate, fit |-> ToSet(ds)]
<1>1. ShipFinal(name, file, ds, task, rate)
        = IF Cardinality(Classes(task, ds, Rows(ds))) # 2 THEN Raise
          ELSE Eval(row) \o <<st>> \o LogRows(file)
  BY DEF ShipFinal
<1>2. Good(Eval(row), x)
  <2>1. Plain(name, "final") /\ "final" \in Disclosed
    BY DEF Plain, OpenStages, OpenStage, Disclosed
  <2> HIDE DEF whole
  <2> QED BY <2>1, GoodPlain
<1>3. Good(<<st>>, x)
  <2>1. st.op = "ship" /\ st.fit = Items(ds) /\ st.script = name
    BY SetOfItems
  <2> HIDE DEF st
  <2>2. OK(st, x)
    BY <2>1 DEF OK, Within
  <2> QED BY <2>2, GoodOne
<1> HIDE DEF row, st
<1>4. Good(Eval(row) \o <<st>> \o LogRows(file), x)
  <2>1. Good(LogRows(file), x)
    BY GoodSteps
  <2> QED BY <1>2, <1>3, <2>1, GoodThree
<1> QED BY <1>1, <1>4, GoodSteps

(* train_final_model: what it ships was fitted on recorded sessions.         *)
LEMMA GoodTrainFinalModel ==
  ASSUME NEW x, Frame(x.index), Within(x.index, x.sessions) PROVE Good(TrainFinalModel(x), x)
<1> DEFINE q == [j \in 1 .. Len(FinalTasks) |-> TrainOne(x, FinalTasks[j])]
<1>1. TrainFinalModel(x) = FlattenSeq(q)
  BY DEF TrainFinalModel, ForEach, Concat
<1>2. ASSUME NEW task PROVE Good(TrainOne(x, task), x)
  <2>1. "train_final_model" \notin KnownScripts /\ "train_final_model" # "train_day3_ch6_model"
    BY DEF KnownScripts
  <2>2. PICK ds : ds = Dataset(x.index, task)
    OBVIOUS
  <2>3. Frame(ds) /\ Within(ds, x.sessions)
    BY <2>2, DatasetFrame, WithinIloc DEF Dataset
  <2>4. Good(ShipFinal("train_final_model", "final_model_log", ds, task, 0), x)
    BY <2>1, <2>3, GoodShipFinal
  <2>5. Good(CalibA(x.manifest, Dates(x.index)), x)
    BY GoodCalibA
  <2> QED BY <2>2, <2>4, <2>5, GoodConcat DEF TrainOne
<1>3. Len(FinalTasks) \in Nat
  BY DEF FinalTasks
<1>4. \A j \in 1 .. Len(FinalTasks) : Good(q[j], x)
  BY <1>2
<1> QED BY <1>1, <1>3, <1>4, GoodLoop

-----------------------------------------------------------------------------
(* run_day2_sweep *)

(* Four plans one after another.                                             *)
LEMMA GoodFour ==
  ASSUME NEW x, NEW r, NEW s, NEW t, NEW u, Good(r, x), Good(s, x), Good(t, x), Good(u, x)
  PROVE  Good(((r \o s) \o t) \o u, x)
<1>1. PICK v : v = (r \o s) \o t
  OBVIOUS
<1>2. Good(v, x)
  BY <1>1, GoodThree
<1>3. Good(v \o u, x)
  BY <1>2, GoodConcat
<1> QED BY <1>1, <1>3

(* Training on one day and testing on another is a split.                    *)
LEMMA DirectionSplit ==
  ASSUME NEW f, NEW d, NEW e PROVE Split(f, Direction(f, d, e))
BY DEF Split, Direction, Where

(* One model on one split of the frame of y, its training rows capped.       *)
LEMMA GoodNeural ==
  ASSUME NEW x, NEW y, NEW stage, NEW model, NEW task, NEW sp, NEW baseline, Frame(y.index),
         Plain(Sweep, stage), Split(Dataset(y.index, task), sp), ~Leaks(Dataset(y.index, task), sp)
  PROVE  Good(RunNeuralInstance(y, stage, model, task, sp, baseline), x)
<1>1. PICK ds : ds = Dataset(y.index, task)
  OBVIOUS
<1>2. RunNeuralInstance(y, stage, model, task, sp, baseline) =
        IF model = "calib_context_transformer" /\ ~baseline THEN Raise
        ELSE Eval(Row(Sweep, stage, Fewer(sp, Capped(sp.train)), ds, ds))
  BY <1>1 DEF RunNeuralInstance, Fewer
<1>3. Frame(ds)
  BY <1>1, DatasetFrame
<1>4. Capped(sp.train) \in SUBSET sp.train
  BY <1>1, <1>3, CappedRows DEF Split
<1>5. ~Leaks(ds, Fewer(sp, Capped(sp.train)))
  BY <1>1, <1>4, FewerRows
<1>6. Good(Eval(Row(Sweep, stage, Fewer(sp, Capped(sp.train)), ds, ds)), x)
  BY <1>5, GoodPlain
<1> QED BY <1>2, <1>6, GoodSteps

(* The networks of the zoo, each on the same split without a leak.           *)
LEMMA GoodNeurals ==
  ASSUME NEW x, NEW stage, NEW models, Len(models) \in Nat, NEW task, NEW sp, NEW baseline,
         Frame(x.index), Plain(Sweep, stage), Split(Dataset(x.index, task), sp),
         ~Leaks(Dataset(x.index, task), sp)
  PROVE  Good(FlattenSeq([j \in 1 .. Len(models) |->
                            RunNeuralInstance(x, stage, models[j], task, sp, baseline)]), x)
<1> DEFINE q == [j \in 1 .. Len(models) |->
                   RunNeuralInstance(x, stage, models[j], task, sp, baseline)]
<1>1. \A j \in 1 .. Len(models) : Good(q[j], x)
  BY GoodNeural
<1> QED BY <1>1, GoodLoop

(* The feature-matrix models, when the matrix is that of the index.          *)
LEMMA GoodClassics ==
  ASSUME NEW x, NEW stage, NEW X, Len(X) = Len(x.index) => X = x.index, NEW sp,
         Frame(x.index), Plain(Sweep, stage), Split(Dataset(x.index, TaskD), sp),
         ~Leaks(Dataset(x.index, TaskD), sp)
  PROVE  Good(FlattenSeq([j \in 1 .. Len(Classical) |-> RunClassicalInstance(x, stage, X, sp)]), x)
<1> DEFINE one == RunClassicalInstance(x, stage, X, sp)
           q == [j \in 1 .. Len(Classical) |-> one]
<1>1. Good(one, x)
  <2>1. CASE Len(X) # Len(x.index)
    BY <2>1, GoodSteps DEF RunClassicalInstance
  <2>2. CASE Len(X) = Len(x.index)
    <3>1. PICK ds : ds = Dataset(x.index, TaskD)
      OBVIOUS
    <3>2. one = Eval(Row(Sweep, stage, Fewer(sp, Capped(sp.train)), ds, ds))
      BY <2>2, <3>1 DEF RunClassicalInstance, Fewer, Dataset
    <3>3. Frame(ds)
      BY <3>1, DatasetFrame
    <3>4. Capped(sp.train) \in SUBSET sp.train
      BY <3>1, <3>3, CappedRows DEF Split
    <3>5. ~Leaks(ds, Fewer(sp, Capped(sp.train)))
      BY <3>1, <3>4, FewerRows
    <3> HIDE DEF one
    <3> QED BY <3>2, <3>5, GoodPlain
  <2> QED BY <2>1, <2>2
<1>2. Len(Classical) \in Nat
  BY TracksAssumption, LenProperties
<1> HIDE DEF one
<1>3. \A j \in 1 .. Len(Classical) : Good(q[j], x)
  BY <1>1
<1> QED BY <1>2, <1>3, GoodLoop DEF one

(* The calibrated matrix is saved when there is none.                        *)
LEMMA GoodSaveCalibB == ASSUME NEW x, NEW prep PROVE Good(SaveCalibB(x, prep), x)
BY GoodSteps, GoodNone DEF SaveCalibB

(* The zoo, its configurations and its seeds are finite.                     *)
LEMMA ZooCount ==
  /\ Len(Zoo) \in Nat /\ Len(Configs) \in Nat /\ Len(Seeds) \in Nat /\ Len(Attention) \in Nat
  /\ \A idx : Len(Iloc(Zoo, idx)) \in Nat
BY ModelsAssumption, TracksAssumption, LenProperties, IlocFacts

\* The matrices a script may find on disk are those of the index, when they fit.
Matches(x) ==
  /\ Len(x.X) = Len(x.index) => x.X = x.index
  /\ x.calibB # <<>> /\ Len(x.calibB) = Len(x.index) => x.calibB = x.index

(* Stage B of the sweep: the classical models, on every preparation.         *)
LEMMA GoodStageB ==
  ASSUME NEW x, Frame(x.index), Matches(x) PROVE Good(StageB(x), x)
<1> DEFINE ds == Dataset(x.index, TaskD)
           K == SessionDisjointKfold(ds, x.order)
           all3 == <<"raw", "calibA", "calibB">>
           X(prep) == ClassicalFeaturesFor(x, prep)
           classic(stage, sp, prep) ==
             FlattenSeq([j \in 1 .. Len(Classical) |-> RunClassicalInstance(x, stage, X(prep), sp)])
           neural(stage, sp, models, baseline) ==
             FlattenSeq([j \in 1 .. Len(models) |->
                           RunNeuralInstance(x, stage, models[j], TaskD, sp, baseline)])
           noContext == Chosen(Zoo, LAMBDA m : m # "calib_context_transformer")
           fold(prep, sp) == classic("B session_disjoint", sp, prep)
                               \o neural("B session_disjoint", sp, noContext, FALSE) \o SweepLog
           kfold(prep) == [j \in 1 .. Len(K) |-> Asserted(ds, K[j], fold(prep, K[j]))]
           loops == [j \in 1 .. Len(Preprocessings) |->
                       IF KFoldRaises(ds) THEN Raise ELSE FlattenSeq(kfold(Preprocessings[j]))]
           to(dir) == Direction(ds, dir[1], dir[2])
           prep3(dir) == [j \in 1 .. Len(all3) |->
                            SaveCalibB(x, all3[j]) \o classic("B day_disjoint", to(dir), all3[j])
                              \o neural("B day_disjoint", to(dir), Zoo, TRUE) \o SweepLog]
           ways == [j \in 1 .. Len(Directions(ds)) |->
                      Asserted(ds, to(Directions(ds)[j]), FlattenSeq(prep3(Directions(ds)[j])))]
<1>1. StageB(x) = CalibA(x.manifest, Dates(x.index)) \o FlattenSeq(loops) \o FlattenSeq(ways)
  BY DEF StageB, KfoldLoop, ForEach, Concat
<1>2. Frame(ds)
  BY DatasetFrame
<1>3. Plain(Sweep, "B session_disjoint") /\ Plain(Sweep, "B day_disjoint")
  BY DEF Plain, OpenStages, OpenStage, KnownScripts, Sweep
<1>4. ASSUME NEW prep PROVE Len(X(prep)) = Len(x.index) => X(prep) = x.index
  BY DEF ClassicalFeaturesFor, Matches
<1>5. ASSUME NEW stage, Plain(Sweep, stage), NEW sp, Split(ds, sp), ~Leaks(ds, sp), NEW prep
      PROVE  Good(classic(stage, sp, prep), x)
  <2> HIDE DEF X
  <2> QED BY <1>4, <1>5, GoodClassics
<1>6. ASSUME NEW stage, Plain(Sweep, stage), NEW sp, Split(ds, sp), ~Leaks(ds, sp),
             NEW models, Len(models) \in Nat, NEW baseline
      PROVE  Good(neural(stage, sp, models, baseline), x)
  BY <1>6, GoodNeurals
<1>7. Len(noContext) \in Nat
  BY ZooCount DEF Chosen
<1> HIDE DEF classic, neural, noContext
<1>8. Good(FlattenSeq(loops), x)
  <2>1. Len(K) \in Nat /\ Folds(ds, K)
    BY SessionFolds
  <2>2. Len(Preprocessings) \in Nat
    BY DEF Preprocessings
  <2> HIDE DEF K, ds
  <2>3. ASSUME NEW prep, NEW sp, Split(ds, sp), ~Leaks(ds, sp) PROVE Good(fold(prep, sp), x)
    <3>1. Good(classic("B session_disjoint", sp, prep), x)
      BY <1>3, <1>5, <2>3
    <3>2. Good(neural("B session_disjoint", sp, noContext, FALSE), x)
      BY <1>3, <1>6, <1>7, <2>3
    <3>3. Good(SweepLog, x)
      BY GoodSteps DEF SweepLog
    <3> QED BY <3>1, <3>2, <3>3, GoodThree
  <2> HIDE DEF fold
  <2>4. ASSUME NEW prep PROVE Good(FlattenSeq(kfold(prep)), x)
    <3>1. \A j \in 1 .. Len(K) : Good(kfold(prep)[j], x)
      BY <2>1, <2>3, ItemAt, GoodAsserted DEF Folds
    <3> QED BY <2>1, <3>1, GoodLoop
  <2> HIDE DEF kfold
  <2>5. \A j \in 1 .. Len(Preprocessings) : Good(loops[j], x)
    BY <2>4, GoodSteps
  <2> QED BY <2>2, <2>5, GoodLoop
<1>9. Good(FlattenSeq(ways), x)
  <2>1. Len(Directions(ds)) \in Nat
    BY DEF Directions
  <2>2. Len(all3) \in Nat
    OBVIOUS
  <2> HIDE DEF all3
  <2>3. ASSUME NEW dir PROVE Split(ds, to(dir))
    BY DirectionSplit
  <2> HIDE DEF to, ds
  <2>4. ASSUME NEW dir, ~Leaks(ds, to(dir)) PROVE Good(FlattenSeq(prep3(dir)), x)
    <3>1. ASSUME NEW prep PROVE Good(SaveCalibB(x, prep), x) /\ Good(classic("B day_disjoint", to(dir), prep), x)
      BY <1>3, <1>5, <2>3, <2>4, GoodSaveCalibB
    <3>2. Good(neural("B day_disjoint", to(dir), Zoo, TRUE), x)
      BY <1>3, <1>6, <2>3, <2>4, ZooCount
    <3>3. Good(SweepLog, x)
      BY GoodSteps DEF SweepLog
    <3>4. \A j \in 1 .. Len(all3) : Good(prep3(dir)[j], x)
      BY <3>1, <3>2, <3>3, GoodFour
    <3> QED BY <2>2, <3>4, GoodLoop
  <2> HIDE DEF prep3
  <2>5. \A j \in 1 .. Len(Directions(ds)) : Good(ways[j], x)
    BY <2>4, GoodAsserted
  <2> QED BY <2>1, <2>5, GoodLoop
<1> HIDE DEF loops, ways
<1>10. Good(CalibA(x.manifest, Dates(x.index)), x)
  BY GoodCalibA
<1> QED BY <1>1, <1>8, <1>9, <1>10, GoodThree

(* The ablations, and the stages after the best configuration is picked.     *)
LEMMA GoodAblation ==
  ASSUME NEW x, NEW stage, NEW models, Frame(x.index), Plain(Sweep, stage), Len(models) \in Nat
  PROVE  Good(Ablation(x, stage, models), x)
<1> DEFINE ds == Dataset(x.index, TaskD)
           sp == Direction(ds, Dates(ds)[1], Dates(ds)[2])
           seeded(m) == [j \in 1 .. Len(Seeds) |-> RunNeuralInstance(x, stage, m, TaskD, sp, TRUE)]
           configs(m) == [j \in 1 .. Len(Configs) |-> FlattenSeq(seeded(m)) \o SweepLog]
           q == [j \in 1 .. Len(models) |-> FlattenSeq(configs(models[j]))]
<1>1. Ablation(x, stage, models) = Asserted(ds, sp, FlattenSeq(q))
  BY DEF Ablation, ForEach, Concat
<1>2. Split(ds, sp)
  BY DirectionSplit
<1> HIDE DEF sp
<1>3. ASSUME ~Leaks(ds, sp) PROVE Good(FlattenSeq(q), x)
  <2>1. ASSUME NEW m PROVE Good(FlattenSeq(seeded(m)) \o SweepLog, x)
    <3>1. \A j \in 1 .. Len(Seeds) : Good(seeded(m)[j], x)
      BY <1>2, <1>3, GoodNeural
    <3>2. Good(FlattenSeq(seeded(m)), x)
      <4> HIDE DEF ds
      <4> QED BY <3>1, ZooCount, GoodLoop
    <3> HIDE DEF seeded
    <3> QED BY <3>2, GoodLogged DEF SweepLog
  <2> HIDE DEF seeded
  <2>2. ASSUME NEW m PROVE Good(FlattenSeq(configs(m)), x)
    <3>1. \A j \in 1 .. Len(Configs) : Good(configs(m)[j], x)
      BY <2>1
    <3> QED BY <3>1, ZooCount, GoodLoop
  <2> HIDE DEF configs
  <2>3. \A j \in 1 .. Len(models) : Good(q[j], x)
    BY <2>2
  <2> QED BY <2>3, GoodLoop
<1> HIDE DEF q, ds
<1> QED BY <1>1, <1>3, GoodAsserted

(* Stage T1 of the sweep: every network of the zoo on the stranger folds.    *)
LEMMA GoodStageT1 == ASSUME NEW x, Frame(x.index) PROVE Good(StageT1(x), x) /\ Good(StageT1Bilstm(x), x)
<1>1. Plain(Sweep, "T1") /\ Plain(Sweep, "T1b")
  BY DEF Plain, OpenStages, OpenStage, KnownScripts, Sweep
<1>2. Len(<<"bilstm">>) \in Nat
  OBVIOUS
<1> QED BY <1>1, <1>2, ZooCount, GoodAblation DEF StageT1, StageT1Bilstm

(* run_day2_sweep: the stages up to the choice of the best network.          *)
LEMMA GoodRunDay2Sweep ==
  ASSUME NEW x, Frame(x.index), Matches(x) PROVE Good(RunDay2Sweep(x), x)
<1>1. Good(StageB(x), x) /\ Good(StageT1(x), x) /\ Good(StageT1Bilstm(x), x)
  BY GoodStageB, GoodStageT1
<1>2. Good(Step("pick_best"), x)
  BY GoodSteps
<1>3. Good(StageB(x) \o StageT1(x) \o StageT1Bilstm(x) \o Step("pick_best"), x)
  BY <1>1, <1>2, GoodFour
<1> QED BY <1>3, GoodSteps DEF RunDay2Sweep

(* Stage T2: the best network on every fold and preparation.                 *)
LEMMA GoodStageT2 ==
  ASSUME NEW x, Frame(x.index), NEW best PROVE Good(StageT2(x, best), x)
<1> DEFINE ds == Dataset(x.index, TaskD)
           K == SessionDisjointKfold(ds, x.order)
           all3 == <<"raw", "calibA", "calibB">>
           seeded(stage, sp) ==
             FlattenSeq([j \in 1 .. Len(Seeds) |-> RunNeuralInstance(x, stage, best[1], TaskD, sp, TRUE)])
           both(sp) == [j \in 1 .. Len(Preprocessings) |-> seeded("T2 session_disjoint", sp)]
           kfold == [j \in 1 .. Len(K) |-> Asserted(ds, K[j], FlattenSeq(both(K[j])) \o SweepLog)]
           to(dir) == Direction(ds, dir[1], dir[2])
           each(dir) == [j \in 1 .. Len(all3) |-> seeded("T2 day_disjoint", to(dir))]
           ways == [j \in 1 .. Len(Directions(ds)) |->
                      Asserted(ds, to(Directions(ds)[j]),
                               FlattenSeq(each(Directions(ds)[j])) \o SweepLog)]
<1>1. StageT2(x, best) = CalibA(x.manifest, Dates(x.index))
                           \o (IF KFoldRaises(ds) THEN Raise ELSE FlattenSeq(kfold)) \o FlattenSeq(ways)
  BY DEF StageT2, KfoldLoop, ForEach, Concat
<1>2. Plain(Sweep, "T2 session_disjoint") /\ Plain(Sweep, "T2 day_disjoint")
  BY DEF Plain, OpenStages, OpenStage, KnownScripts, Sweep
<1>3. ASSUME NEW stage, Plain(Sweep, stage), NEW sp, Split(ds, sp), ~Leaks(ds, sp)
      PROVE  Good(seeded(stage, sp), x)
  <2> DEFINE q == [j \in 1 .. Len(Seeds) |-> RunNeuralInstance(x, stage, best[1], TaskD, sp, TRUE)]
  <2>1. \A j \in 1 .. Len(Seeds) : Good(q[j], x)
    BY <1>3, GoodNeural
  <2> HIDE DEF ds
  <2> QED BY <2>1, ZooCount, GoodLoop
<1> HIDE DEF seeded
<1>4. Good(FlattenSeq(kfold), x)
  <2>1. Len(K) \in Nat /\ Folds(ds, K) /\ Len(Preprocessings) \in Nat
    BY SessionFolds DEF Preprocessings
  <2> HIDE DEF K, ds
  <2>2. ASSUME NEW sp, Split(ds, sp), ~Leaks(ds, sp) PROVE Good(FlattenSeq(both(sp)) \o SweepLog, x)
    <3>1. \A j \in 1 .. Len(Preprocessings) : Good(both(sp)[j], x)
      BY <1>2, <1>3, <2>2
    <3>2. Good(FlattenSeq(both(sp)), x)
      BY <2>1, <3>1, GoodLoop
    <3> HIDE DEF both
    <3> QED BY <3>2, GoodLogged DEF SweepLog
  <2> HIDE DEF both
  <2>3. \A j \in 1 .. Len(K) : Good(kfold[j], x)
    BY <2>1, <2>2, ItemAt, GoodAsserted DEF Folds
  <2> QED BY <2>1, <2>3, GoodLoop
<1>5. Good(FlattenSeq(ways), x)
  <2>1. Len(Directions(ds)) \in Nat /\ Len(all3) \in Nat
    BY DEF Directions
  <2>2. ASSUME NEW dir PROVE Split(ds, to(dir))
    BY DirectionSplit
  <2> HIDE DEF to, ds, all3
  <2>3. ASSUME NEW dir, ~Leaks(ds, to(dir)) PROVE Good(FlattenSeq(each(dir)) \o SweepLog, x)
    <3>1. Good(seeded("T2 day_disjoint", to(dir)), x)
      BY <1>2, <1>3, <2>2, <2>3
    <3>2. \A j \in 1 .. Len(all3) : Good(each(dir)[j], x)
      BY <3>1
    <3>3. Good(FlattenSeq(each(dir)), x)
      BY <2>1, <3>2, GoodLoop
    <3> HIDE DEF each
    <3> QED BY <3>3, GoodLogged DEF SweepLog
  <2> HIDE DEF each
  <2>4. \A j \in 1 .. Len(Directions(ds)) : Good(ways[j], x)
    BY <2>3, GoodAsserted
  <2> QED BY <2>1, <2>4, GoodLoop
<1> HIDE DEF kfold, ways, ds
<1>6. PICK first : first = CalibA(x.manifest, Dates(x.index))
  OBVIOUS
<1>7. PICK second : second = IF KFoldRaises(ds) THEN Raise ELSE FlattenSeq(kfold)
  OBVIOUS
<1>8. Good(first, x) /\ Good(second, x)
  BY <1>4, <1>6, <1>7, GoodCalibA, GoodSteps
<1>9. Good(first \o second \o FlattenSeq(ways), x)
  BY <1>5, <1>8, GoodThree
<1> QED BY <1>1, <1>6, <1>7, <1>9

(* Stage T3: the best network from each day to the other, task by task.      *)
LEMMA GoodStageT3 ==
  ASSUME NEW x, Frame(x.index), NEW best PROVE Good(StageT3(x, best), x)
<1> DEFINE ds(t) == Dataset(x.index, t)
           dates == Dates(x.index)
           sp(t) == Direction(ds(t), dates[1], dates[2])
           both(t) == [j \in 1 .. Len(Preprocessings) |->
                         RunNeuralInstance(x, t, best[1], t, sp(t), FALSE)]
           q == [j \in 1 .. Len(SecondaryTasks) |->
                   IF sp(SecondaryTasks[j]).train = {}
                      \/ Cardinality(Classes(SecondaryTasks[j], ds(SecondaryTasks[j]),
                                             sp(SecondaryTasks[j]).test)) < 2
                   THEN <<>>
                   ELSE Asserted(ds(SecondaryTasks[j]), sp(SecondaryTasks[j]),
                                 FlattenSeq(both(SecondaryTasks[j])))]
<1>1. StageT3(x, best) = FlattenSeq(q) \o SweepLog
  BY DEF StageT3, ForEach, Concat
<1>2. Len(SecondaryTasks) \in Nat
      /\ \A j \in 1 .. Len(SecondaryTasks) : Plain(Sweep, SecondaryTasks[j])
  BY DEF SecondaryTasks, Plain, OpenStages, OpenStage, KnownScripts, Sweep
<1>3. ASSUME NEW t, Plain(Sweep, t), ~Leaks(ds(t), sp(t)) PROVE Good(FlattenSeq(both(t)), x)
  <2>1. Len(Preprocessings) \in Nat
    BY DEF Preprocessings
  <2>2. Split(ds(t), sp(t))
    BY DirectionSplit
  <2> HIDE DEF sp
  <2>3. \A j \in 1 .. Len(Preprocessings) : Good(both(t)[j], x)
    BY <1>3, <2>2, GoodNeural
  <2> QED BY <2>1, <2>3, GoodLoop
<1> HIDE DEF both, sp, ds
<1>4. \A j \in 1 .. Len(SecondaryTasks) : Good(q[j], x)
  BY <1>2, <1>3, GoodAsserted, GoodNone
<1>5. Good(FlattenSeq(q), x)
  BY <1>2, <1>4, GoodLoop
<1> HIDE DEF q
<1> QED BY <1>1, <1>5, GoodLogged DEF SweepLog

(* A row of some windows of a split, of a stage that promises no more than   *)
(* that they are apart.                                                      *)
LEMMA WindowsFair ==
  ASSUME NEW f, NEW sp, ~Leaks(f, sp), NEW name, NEW stage, NEW key, Plain(name, stage),
         NEW A \in SUBSET At(f, sp.train), NEW B \in SUBSET At(f, sp.test), NEW D
  PROVE  Fair(Sample(name, stage, key, A, B, {}), D)
<1>1. \A v \in A, w \in B : v[1] # w[1]
  BY NoLeaks DEF At
<1>2. stage \notin OpenStages /\ name \notin KnownScripts
  BY DEF Plain
<1>3. stage # "eval_loo"
  BY <1>2 DEF OpenStages
<1>4. \A w \in {} : Label[w[1]] = "authorized"
  OBVIOUS
<1> QED BY <1>1, <1>2, <1>3, <1>4, SampleFair

(* A row fitted on pooled segments stays within the sessions of its windows. *)
LEMMA GoodPoolRow ==
  ASSUME NEW x, NEW ds, NEW sp, Split(ds, sp), ~Leaks(ds, sp), NEW sq, Split(ds, sq), ~Leaks(ds, sq),
         sq.test = sp.test, NEW n
  PROVE  Good(PoolRow(Row(Sweep, "S", sq, ds, ds), ds, sp, n), x)
<1> DEFINE train == Segments(ds, sp.train, n)
           test == Segments(ds, sp.test, n)
           mixed == \E g, h \in test : {LabelOf(w) = "authorized" : w \in g}
                                       # {LabelOf(w) = "authorized" : w \in h}
           base == SegmentRow(Row(Sweep, "S", sq, ds, ds), ds, sp.test, n)
           row == [base EXCEPT !.stage = "S attention_pool",
                               !.fit = {<<w, w>> : w \in UNION train}]
<1>1. PoolRow(Row(Sweep, "S", sq, ds, ds), ds, sp, n) =
        IF train = {} THEN Raise
        ELSE IF Cardinality(train) < MinPool \/ ~mixed THEN <<>> ELSE Eval(row)
  BY DEF PoolRow
<1>2. PICK A, U : A = UNION train /\ U = UNION test
  OBVIOUS
<1>3. PICK old : old = Sample(Sweep, "segments", sq.key, At(ds, sq.train), U, {})
  OBVIOUS
<1>4. base = old
  BY <1>2, <1>3, SegmentRowIs
<1>5. row = Sample(Sweep, "S attention_pool", sq.key, A, U, {})
  <2>1. {<<w, w>> : w \in UNION train} = Pairs(A)
    BY <1>2 DEF Pairs
  <2> HIDE DEF base, train
  <2>2. row = [old EXCEPT !.stage = "S attention_pool", !.fit = Pairs(A)]
    BY <1>4, <2>1
  <2>3. [old EXCEPT !.stage = "S attention_pool", !.fit = Pairs(A)]
          = Sample(Sweep, "S attention_pool", sq.key, A, U, {})
    <3>1. PICK N, K, W, E, O : N = Sweep /\ K = sq.key /\ W = At(ds, sq.train) /\ E = {}
                              /\ O = "segments"
      OBVIOUS
    <3>2. old = Sample(N, O, K, W, U, E)
      BY <1>3, <3>1
    <3>3. PICK P : P = Pairs(A)
      OBVIOUS
    <3>4. PICK new : new = [old EXCEPT !.stage = "S attention_pool"]
      OBVIOUS
    <3>5. new = Sample(N, "S attention_pool", K, W, U, E)
      BY <3>2, <3>4 DEF Sample
    <3>6. ASSUME NEW rec, NEW S, rec = Sample(N, S, K, W, U, E)
          PROVE  [rec EXCEPT !.fit = P] = Sample(N, S, K, A, U, E)
      BY <3>3, <3>6 DEF Sample
    <3>7. [old EXCEPT !.stage = "S attention_pool", !.fit = P] = [new EXCEPT !.fit = P]
      BY <3>4
    <3> QED BY <3>1, <3>3, <3>5, <3>6, <3>7
  <2> QED BY <2>2, <2>3
<1>6. Plain(Sweep, "S attention_pool")
  BY DEF Plain, OpenStages, OpenStage, KnownScripts, Sweep
<1>7. A \subseteq At(ds, sp.train) /\ U \subseteq At(ds, sp.test)
  BY <1>2, SegmentWindows
<1>8. Fair(Sample(Sweep, "S attention_pool", sq.key, A, U, {}), Day3Ch6Manifest(x))
  BY <1>6, <1>7, WindowsFair
<1> HIDE DEF train, mixed, row
<1>9. Good(Eval(row), x)
  BY <1>5, <1>8, GoodEval
<1> QED BY <1>1, <1>9, GoodSteps, GoodNone

(* Stage S: the best network over segments, averaged or pooled.              *)
LEMMA GoodStageS ==
  ASSUME NEW x, Frame(x.index), NEW best PROVE Good(StageS(x, best), x)
<1> DEFINE ds == Dataset(x.index, TaskD)
           sp == Direction(ds, Dates(ds)[1], Dates(ds)[2])
           row == Row(Sweep, "S", [sp EXCEPT !.train = Capped(sp.train)], ds, ds)
           averaged(n) == IF Segments(ds, sp.test, n) = {} THEN <<>>
                          ELSE Eval(SegmentRow(row, ds, sp.test, n))
           pooled(n) == IF best[1] = "bilstm" THEN <<>> ELSE PoolRow(row, ds, sp, n)
           q1 == [j \in 1 .. Len(SegmentLengths) |-> averaged(SegmentLengths[j])]
           q2 == [j \in 1 .. Len(SegmentLengths) |-> pooled(SegmentLengths[j])]
           one == RunNeuralInstance(x, "S", best[1], TaskD, sp, FALSE)
           q == [j \in 1 .. Len(Preprocessings) |->
                   one \o FlattenSeq(q1) \o FlattenSeq(q2) \o SweepLog]
<1>1. StageS(x, best) = Asserted(ds, sp, FlattenSeq(q))
  BY DEF StageS, ForEach, Concat
<1>2. Split(ds, sp) /\ Frame(ds)
  BY DirectionSplit, DatasetFrame
<1>3. Plain(Sweep, "S")
  BY DEF Plain, OpenStages, OpenStage, KnownScripts, Sweep
<1>4. Len(SegmentLengths) \in Nat /\ Len(Preprocessings) \in Nat
  BY DEF SegmentLengths, Preprocessings
<1>5. PICK sq : sq = Fewer(sp, Capped(sp.train))
  OBVIOUS
<1>6. row = Row(Sweep, "S", sq, ds, ds)
  BY <1>5 DEF Fewer
<1> HIDE DEF sp
<1>7. Capped(sp.train) \in SUBSET sp.train
  BY <1>2, CappedRows DEF Split
<1> HIDE DEF ds, row
<1>8. ASSUME ~Leaks(ds, sp) PROVE Good(FlattenSeq(q), x)
  <2>1. Split(ds, sq) /\ sq.test = sp.test /\ ~Leaks(ds, sq)
    BY <1>2, <1>5, <1>7, <1>8, FewerRows
  <2>2. Good(one, x)
    BY <1>2, <1>3, <1>8, GoodNeural DEF ds
  <2>3. ASSUME NEW n PROVE Good(averaged(n), x)
    <3>1. Good(Eval(SegmentRow(Row(Sweep, "S", sq, ds, ds), ds, sq.test, n)), x)
      BY <1>3, <2>1, GoodSegmentRow DEF Plain
    <3> QED BY <1>6, <2>1, <3>1, GoodNone
  <2>4. ASSUME NEW n PROVE Good(pooled(n), x)
    <3>1. Good(PoolRow(Row(Sweep, "S", sq, ds, ds), ds, sp, n), x)
      BY <1>2, <1>8, <2>1, GoodPoolRow
    <3> QED BY <1>6, <3>1, GoodNone
  <2> HIDE DEF averaged, pooled, one
  <2>5. Good(FlattenSeq(q1), x)
    <3>1. \A j \in 1 .. Len(SegmentLengths) : Good(q1[j], x)
      BY <2>3
    <3> QED BY <1>4, <3>1, GoodLoop
  <2>6. Good(FlattenSeq(q2), x)
    <3>1. \A j \in 1 .. Len(SegmentLengths) : Good(q2[j], x)
      BY <2>4
    <3> QED BY <1>4, <3>1, GoodLoop
  <2> HIDE DEF q1, q2
  <2>7. Good(SweepLog, x)
    BY GoodSteps DEF SweepLog
  <2>8. Good(one \o FlattenSeq(q1) \o FlattenSeq(q2) \o SweepLog, x)
    BY <2>2, <2>5, <2>6, <2>7, GoodFour
  <2>9. \A j \in 1 .. Len(Preprocessings) : Good(q[j], x)
    BY <2>8
  <2> QED BY <1>4, <2>9, GoodLoop
<1> HIDE DEF q
<1> QED BY <1>1, <1>8, GoodAsserted

\* The fields of a context.
Context(x) ==
  x = [index |-> x.index, X |-> x.X, manifest |-> x.manifest, order |-> x.order,
       calibB |-> x.calibB, cache |-> x.cache, ships |-> x.ships,
       sessions |-> x.sessions, X2 |-> x.X2]

(* Stage N: the best network within each day.                                *)
LEMMA GoodStageN ==
  ASSUME NEW x, Context(x), Frame(x.index), NEW best PROVE Good(StageN(x, best), x)
<1> DEFINE day(d) == Iloc(x.index, Where(x.index, LAMBDA w : DayOf(w) = d))
           ds(d) == Dataset(day(d), TaskD)
           K(d) == SessionDisjointKfold(ds(d), x.order)
           kfold(d) == [j \in 1 .. Len(K(d)) |->
                          Asserted(ds(d), K(d)[j],
                            RunNeuralInstance([x EXCEPT !.index = day(d)], "N", best[1], TaskD,
                                              K(d)[j], FALSE))]
           modes == <<"native", "resampled">>
           both(d) == [j \in 1 .. Len(modes) |->
                         IF Cardinality(Classes(TaskD, ds(d), Rows(ds(d)))) < 2 THEN <<>>
                         ELSE IF KFoldRaises(ds(d)) THEN Raise ELSE FlattenSeq(kfold(d))]
           q == [j \in 1 .. Len(Dates(x.index)) |-> FlattenSeq(both(Dates(x.index)[j])) \o SweepLog]
<1>1. StageN(x, best) = FlattenSeq(q)
  BY DEF StageN, KfoldLoop, ForEach, Concat
<1>2. Plain(Sweep, "N")
  BY DEF Plain, OpenStages, OpenStage, KnownScripts, Sweep
<1>3. Len(Dates(x.index)) \in Nat /\ Len(modes) \in Nat
  BY DatesList
<1> HIDE DEF modes
<1>4. ASSUME NEW d PROVE Good(FlattenSeq(kfold(d)), x)
  <2>1. PICK y : y = [x EXCEPT !.index = day(d)]
    OBVIOUS
  <2>2. y.index = day(d)
    <3> HIDE DEF day
    <3> QED BY <2>1 DEF Context
  <2>3. Frame(day(d))
    BY IlocFrame
  <2>4. Len(K(d)) \in Nat /\ Folds(ds(d), K(d))
    BY SessionFolds
  <2> HIDE DEF day, K
  <2>5. ASSUME NEW sp, Split(ds(d), sp), ~Leaks(ds(d), sp)
        PROVE  Good(RunNeuralInstance(y, "N", best[1], TaskD, sp, FALSE), x)
    BY <1>2, <2>2, <2>3, <2>5, GoodNeural
  <2> HIDE DEF ds
  <2>6. \A j \in 1 .. Len(K(d)) : Good(kfold(d)[j], x)
    BY <2>1, <2>4, <2>5, ItemAt, GoodAsserted DEF Folds
  <2> QED BY <2>4, <2>6, GoodLoop
<1> HIDE DEF kfold, ds
<1>5. ASSUME NEW d PROVE Good(FlattenSeq(both(d)) \o SweepLog, x)
  <2>1. \A j \in 1 .. Len(modes) : Good(both(d)[j], x)
    BY <1>4, GoodSteps, GoodNone
  <2>2. Good(FlattenSeq(both(d)), x)
    BY <1>3, <2>1, GoodLoop
  <2> HIDE DEF both
  <2> QED BY <2>2, GoodLogged DEF SweepLog
<1> HIDE DEF both
<1>6. \A j \in 1 .. Len(Dates(x.index)) : Good(q[j], x)
  BY <1>5
<1> QED BY <1>1, <1>3, <1>6, GoodLoop

(* The rest of the sweep, whichever network turns out the best.              *)
LEMMA GoodAfterPick ==
  ASSUME NEW x, Context(x), Frame(x.index), NEW best PROVE Good(AfterPick(x, best), x)
BY GoodStageT2, GoodStageT3, GoodStageS, GoodStageN, GoodFour DEF AfterPick

-----------------------------------------------------------------------------
(* Window indexes of manifests *)

\* A receiver of a session that was cut into windows.
Rec == {r \in Recv : NWindows[r] \in Nat}

\* Windows in the order of their receivers, then of their positions.
ByWindow(R) ==
  {p \in Win \X Win :
     \/ <<<<p[1][1], p[1][2]>>, <<p[2][1], p[2][2]>>>> \in R
     \/ p[1][1] = p[2][1] /\ p[1][2] = p[2][2] /\ p[1][3] < p[2][3]}

(* That is an order when the receivers have one.                             *)
LEMMA ByWindowAsymmetric == ASSUME NEW R, Asymmetric(R) PROVE Asymmetric(ByWindow(R))
<1> SUFFICES ASSUME NEW v, NEW w, <<v, w>> \in ByWindow(R) PROVE <<w, v>> \notin ByWindow(R)
  BY DEF Asymmetric
<1>1. v \in Win /\ w \in Win
  BY DEF ByWindow
<1>2. v[3] \in Nat /\ w[3] \in Nat
  BY <1>1 DEF Win
<1>3. \A a, b : <<a, b>> \in R => <<b, a>> \notin R
  BY DEF Asymmetric
<1>4. ~(<<v[1], v[2]>> = <<w[1], w[2]>> /\ <<<<v[1], v[2]>>, <<w[1], w[2]>>>> \in R)
  BY <1>3
<1> QED BY <1>2, <1>3, <1>4 DEF ByWindow

\* The windows of one receiver.
Cuts(r) == [k \in 1 .. NWindows[r] |-> <<r[1], r[2], k>>]

(* The windows cut from one receiver's file.                                 *)
LEMMA CutsFacts ==
  ASSUME NEW r \in Rec
  PROVE  /\ Cuts(r) \in Seq(Win) /\ Len(Cuts(r)) = NWindows[r] /\ NWindows[r] \in Nat
         /\ Items(Cuts(r)) = {<<r[1], r[2], k>> : k \in 1 .. NWindows[r]}
         /\ \A R : Ordered(Cuts(r), ByWindow(R))
<1>1. r = <<r[1], r[2]>> /\ r[1] \in DOMAIN Label /\ r[2] \in STRING /\ NWindows[r] \in Nat
  BY DEF Rec, Recv
<1>2. Cuts(r) \in [1 .. NWindows[r] -> Win]
  <2>1. \A k \in 1 .. NWindows[r] : <<r[1], r[2], k>> \in Win
    BY <1>1 DEF Win
  <2> QED BY <2>1 DEF Cuts
<1>3. Cuts(r) \in Seq(Win) /\ Len(Cuts(r)) = NWindows[r]
  BY <1>1, <1>2, FunSeq
<1>4. \A k \in 1 .. NWindows[r] : Cuts(r)[k] = <<r[1], r[2], k>>
  BY DEF Cuts
<1>5. Items(Cuts(r)) = {<<r[1], r[2], k>> : k \in 1 .. NWindows[r]}
  BY <1>3, <1>4 DEF Items
<1>6. ASSUME NEW R, NEW i \in 1 .. Len(Cuts(r)), NEW j \in 1 .. Len(Cuts(r)), i < j
      PROVE  <<Cuts(r)[i], Cuts(r)[j]>> \in ByWindow(R)
  BY <1>1, <1>3, <1>4, <1>6 DEF ByWindow, Win
<1> QED BY <1>1, <1>3, <1>5, <1>6 DEF Ordered

(* The window index of a manifest holds the windows of its receivers, in their order. *)
LEMMA IndexFacts ==
  ASSUME NEW m \in Seq(Rec)
  PROVE  /\ Frame(WindowIndex(m))
         /\ Items(WindowIndex(m)) = UNION {Items(Cuts(r)) : r \in Items(m)}
         /\ \A R : Asymmetric(R) /\ Ordered(m, R) => Ordered(WindowIndex(m), ByWindow(R))
<1> DEFINE q == [j \in 1 .. Len(m) |-> Cuts(m[j])]
<1>1. Len(m) \in Nat /\ \A j \in 1 .. Len(m) : m[j] \in Rec
  OBVIOUS
<1>2. \A j \in 1 .. Len(m) : q[j] = Cuts(m[j]) /\ q[j] \in Seq(Win)
  BY <1>1, CutsFacts
<1>3. q \in Seq(Seq(Win)) /\ Len(q) = Len(m)
  <2>1. q \in [1 .. Len(m) -> Seq(Win)]
    BY <1>2
  <2> HIDE DEF q
  <2> QED BY <1>1, <2>1, FunSeq
<1>4. WindowIndex(m) = FlattenSeq(q)
  BY DEF WindowIndex, Cuts
<1> HIDE DEF q
<1>5. Frame(WindowIndex(m))
  BY <1>3, <1>4, FlattenTyped DEF Frame
<1>6. Items(WindowIndex(m)) = UNION {Items(q[k]) : k \in 1 .. Len(q)}
  BY <1>3, <1>4, FlattenFacts
<1>7. {Items(q[k]) : k \in 1 .. Len(q)} = {Items(Cuts(r)) : r \in Items(m)}
  <2>1. \A k \in 1 .. Len(m) : Items(q[k]) = Items(Cuts(m[k])) /\ m[k] \in Items(m)
    BY <1>2 DEF Items
  <2>2. \A r \in Items(m) : \E k \in 1 .. Len(m) : r = m[k]
    BY DEF Items
  <2> QED BY <1>3, <2>1, <2>2
<1>8. ASSUME NEW R, Asymmetric(R), Ordered(m, R)
      PROVE  Ordered(WindowIndex(m), ByWindow(R))
  <2> DEFINE W == ByWindow(R)
  <2>1. \A k \in 1 .. Len(q) : Ordered(q[k], W)
    BY <1>1, <1>2, <1>3, CutsFacts
  <2>2. ASSUME NEW k \in 1 .. Len(q), NEW l \in 1 .. Len(q), k < l,
               NEW v \in Items(q[k]), NEW w \in Items(q[l])
        PROVE  <<v, w>> \in W
    <3>1. m[k] \in Rec /\ m[l] \in Rec /\ <<m[k], m[l]>> \in R
      BY <1>1, <1>3, <1>8, <2>2 DEF Ordered
    <3>2. PICK a, b : a = m[k] /\ b = m[l]
      OBVIOUS
    <3>3. v \in Items(Cuts(a)) /\ w \in Items(Cuts(b))
      BY <1>2, <1>3, <3>2
    <3>4. v \in Win /\ w \in Win /\ v[1] = a[1] /\ v[2] = a[2] /\ w[1] = b[1] /\ w[2] = b[2]
      <4>1. \E i \in 1 .. NWindows[a] : v = <<a[1], a[2], i>>
        <5>1. a \in Rec
          BY <3>1, <3>2
        <5>2. Items(Cuts(a)) = {<<a[1], a[2], i>> : i \in 1 .. NWindows[a]}
          BY <5>1, CutsFacts
        <5> QED BY <3>3, <5>2
      <4>2. \E i \in 1 .. NWindows[b] : w = <<b[1], b[2], i>>
        <5>1. b \in Rec
          BY <3>1, <3>2
        <5>2. Items(Cuts(b)) = {<<b[1], b[2], i>> : i \in 1 .. NWindows[b]}
          BY <5>1, CutsFacts
        <5> QED BY <3>3, <5>2
      <4>3. v \in Win /\ w \in Win
        BY <1>2, <1>3 DEF Items
      <4> QED BY <4>1, <4>2, <4>3
    <3>5. a = <<a[1], a[2]>> /\ b = <<b[1], b[2]>>
      BY <3>1, <3>2 DEF Rec, Recv
    <3> QED BY <3>1, <3>2, <3>4, <3>5 DEF ByWindow
  <2> HIDE DEF W
  <2>3. Ordered(FlattenSeq(q), W)
    BY <1>3, <2>1, <2>2, FlattenFacts
  <2> QED BY <1>4, <2>3 DEF W
<1> QED BY <1>5, <1>6, <1>7, <1>8

(* Chosen rows of a manifest.                                                *)
LEMMA RecIloc ==
  ASSUME NEW m \in Seq(Rec), NEW idx
  PROVE  /\ Iloc(m, idx) \in Seq(Rec) /\ Len(Iloc(m, idx)) \in Nat
         /\ Items(Iloc(m, idx)) = {m[i] : i \in idx \cap Rows(m)}
         /\ Items(Iloc(m, idx)) \subseteq Items(m)
         /\ \A R : Ordered(m, R) => Ordered(Iloc(m, idx), R)
<1>1. Iloc(m, idx) \in Seq(Rec) /\ Takes(Iloc(m, idx), m, idx)
  BY IlocFacts
<1>2. Items(Iloc(m, idx)) = {m[i] : i \in idx \cap Rows(m)}
  BY <1>1 DEF Takes
<1>3. Items(Iloc(m, idx)) \subseteq Items(m)
  BY <1>2 DEF Items, Rows
<1>4. \A R : Ordered(m, R) => Ordered(Iloc(m, idx), R)
  BY <1>1 DEF Takes
<1> QED BY <1>1, <1>2, <1>3, <1>4

(* The set of a sequence.                                                    *)
LEMMA ToSetItems == ASSUME NEW S, NEW s \in Seq(S) PROVE ToSet(s) = Items(s)
BY DEF ToSet, Items

(* The sessions a window index covers.                                       *)
LEMMA IndexSessions ==
  ASSUME NEW m \in Seq(Rec)
  PROVE  SessionsOf(WindowIndex(m)) = Cut(m)
<1>1. SessionsOf(WindowIndex(m)) = {w[1] : w \in Items(WindowIndex(m))}
  BY DEF SessionsOf, SessionsAt, Session, Items, Rows
<1>2. Cut(m) = {r[1] : r \in {r \in Items(m) : NWindows[r] > 0}}
  BY ToSetItems DEF Cut
<1>3. Items(m) \subseteq Rec
  BY DEF Items
<1>4. ASSUME NEW r \in Items(m), NWindows[r] > 0 PROVE \E w \in Items(WindowIndex(m)) : w[1] = r[1]
  <2>1. <<r[1], r[2], 1>> \in Items(Cuts(r))
    <3>1. r \in Rec /\ NWindows[r] \in Nat
      BY <1>3, CutsFacts
    <3>2. 1 \in 1 .. NWindows[r]
      BY <1>4, <3>1
    <3>3. Items(Cuts(r)) = {<<r[1], r[2], k>> : k \in 1 .. NWindows[r]}
      BY <3>1, CutsFacts
    <3> QED BY <3>2, <3>3
  <2>2. <<r[1], r[2], 1>> \in Items(WindowIndex(m))
    BY <2>1, IndexFacts
  <2> QED BY <2>2
<1>5. ASSUME NEW w \in Items(WindowIndex(m))
      PROVE  \E r \in Items(m) : NWindows[r] > 0 /\ w[1] = r[1]
  <2>1. PICK r \in Items(m) : w \in Items(Cuts(r))
    BY IndexFacts
  <2>2. PICK k \in 1 .. NWindows[r] : w = <<r[1], r[2], k>>
    BY <1>3, <2>1, CutsFacts
  <2>3. NWindows[r] \in Nat
    BY <1>3, CutsFacts
  <2> QED BY <2>2, <2>3
<1> QED BY <1>1, <1>2, <1>4, <1>5

\* Windows of receivers of the sessions S.
LEMMA IndexWithin ==
  ASSUME NEW m \in Seq(Rec), NEW S, \A r \in Items(m) : r[1] \in S
  PROVE  Within(WindowIndex(m), S)
<1>1. Items(m) \subseteq Rec
  BY DEF Items
<1>2. ASSUME NEW w \in Items(WindowIndex(m)) PROVE w[1] \in S
  <2>1. PICK r \in Items(m) : w \in Items(Cuts(r))
    BY IndexFacts
  <2>2. PICK k \in 1 .. NWindows[r] : w = <<r[1], r[2], k>>
    BY <1>1, <2>1, CutsFacts
  <2> QED BY <2>2
<1> QED BY <1>2 DEF Within

-----------------------------------------------------------------------------
(* train_day3_ch6_model *)

\* The manifest of a context is of recorded sessions, and what the script has
\* cached for the manifest of the channel-6 track is its window index.
Recorded(x) == x.manifest \in Seq(Rec) /\ \A r \in Items(x.manifest) : r[1] \in x.sessions
Cached(x) ==
  \A e \in x.cache : e.key = CacheKey(Day3Ch6Manifest(x)) => e.index = WindowIndex(Day3Ch6Manifest(x))

(* The manifest of the channel-6 track: no held-out session is in it.        *)
LEMMA Day3Facts ==
  ASSUME NEW x, Recorded(x)
  PROVE  /\ Day3Ch6Manifest(x) \in Seq(Rec) /\ Len(Day3Ch6Manifest(x)) \in Nat
         /\ Items(Day3Ch6Manifest(x)) \subseteq Items(x.manifest)
         /\ \A r \in Items(Day3Ch6Manifest(x)) : r[1] \in x.sessions /\ r[1] \notin Holdout
<1> DEFINE idx == {i \in Rows(x.manifest) : /\ Day[x.manifest[i][1]] \in TrainDates
                                            /\ x.manifest[i][2] = SingleMac
                                            /\ x.manifest[i][1] \in Channel6
                                            /\ x.manifest[i][1] \notin Holdout}
<1>1. Day3Ch6Manifest(x) = Iloc(x.manifest, idx)
  BY DEF Day3Ch6Manifest, Chosen, Where
<1>2. \A i \in idx : x.manifest[i][1] \notin Holdout
  OBVIOUS
<1> HIDE DEF idx
<1>3. PICK m : m = x.manifest
  OBVIOUS
<1>4. m \in Seq(Rec) /\ \A r \in Items(m) : r[1] \in x.sessions
  BY <1>3 DEF Recorded
<1>5. PICK D : D = Iloc(m, idx)
  OBVIOUS
<1>6. D \in Seq(Rec) /\ Len(D) \in Nat /\ Items(D) = {m[i] : i \in idx \cap Rows(m)} /\ Items(D) \subseteq Items(m)
  BY <1>4, <1>5, RecIloc
<1> QED BY <1>1, <1>2, <1>3, <1>4, <1>5, <1>6

(* The index the script works on is that of its manifest, cached or not.     *)
LEMMA Day3Index ==
  ASSUME NEW x, Recorded(x), Cached(x)
  PROVE  LET D == Day3Ch6Manifest(x)
             index == BuildOrLoadWindowIndex(x, D)
         IN  /\ index = WindowIndex(D) /\ Frame(index) /\ SessionsOf(index) = Cut(D)
             /\ Within(index, x.sessions) /\ Within(index, x.sessions \ Holdout)
<1> DEFINE D == Day3Ch6Manifest(x)
           hits == {e \in x.cache : e.key = CacheKey(D)}
<1>1. BuildOrLoadWindowIndex(x, D) = IF hits # {} THEN (CHOOSE e \in hits : TRUE).index ELSE WindowIndex(D)
  BY DEF BuildOrLoadWindowIndex
<1>2. \A e \in hits : e.index = WindowIndex(D)
  BY DEF Cached
<1>3. BuildOrLoadWindowIndex(x, D) = WindowIndex(D)
  <2>1. CASE hits = {}
    BY <1>1, <2>1
  <2>2. CASE hits # {}
    <3>1. (CHOOSE e \in hits : TRUE) \in hits
      BY <2>2
    <3> HIDE DEF hits
    <3> QED BY <1>1, <1>2, <2>2, <3>1
  <2> QED BY <2>1, <2>2
<1>4. D \in Seq(Rec) /\ \A r \in Items(D) : r[1] \in x.sessions \ Holdout
  BY Day3Facts
<1> HIDE DEF D, hits
<1>5. Frame(WindowIndex(D)) /\ SessionsOf(WindowIndex(D)) = Cut(D)
  BY <1>4, IndexFacts, IndexSessions
<1>6. Within(WindowIndex(D), x.sessions \ Holdout)
  BY <1>4, IndexWithin
<1>7. Within(WindowIndex(D), x.sessions)
  BY <1>6 DEF Within
<1> QED BY <1>3, <1>5, <1>6, <1>7 DEF D

(* What is saved is the index of the manifest, under its length.             *)
LEMMA GoodSaveIndex ==
  ASSUME NEW x PROVE Good(SaveIndex(x, Day3Ch6Manifest(x)), x)
<1> DEFINE D == Day3Ch6Manifest(x)
           st == [op |-> "save_index", key |-> CacheKey(D), index |-> WindowIndex(D)]
<1>1. SaveIndex(x, D) = IF \E e \in x.cache : e.key = CacheKey(D) THEN <<>> ELSE <<st>>
  BY DEF SaveIndex
<1>2. OK(st, x)
  BY DEF OK, CacheKey
<1> HIDE DEF st
<1>3. Good(<<st>>, x)
  BY <1>2, GoodOne
<1> QED BY <1>1, <1>3, GoodNone

\* Every window counts for the authorized-or-not task.
LEMMA DatasetD == ASSUME NEW f, Frame(f) PROVE Dataset(f, TaskD) = f
<1>1. Mask(TaskD, f) = Rows(f)
  BY DEF Mask, Where, InTask, TaskD
<1> QED BY <1>1, IlocAll DEF Dataset, Frame

(* evaluate_taskD: every stranger in turn; the rows of the channel-6 track   *)
(* cover its whole manifest.                                                 *)
LEMMA GoodEvaluateTaskD ==
  ASSUME NEW x, NEW name, NEW f, NEW perm, Frame(f), name \notin KnownScripts,
         name = "train_day3_ch6_model" => SessionsOf(f) = Cut(Day3Ch6Manifest(x))
  PROVE  Good(EvaluateTaskD(name, f, perm), x)
<1> DEFINE P == LeaveOneUnauthorizedPersonOut(f, perm, TRUE)
           q == [j \in 1 .. Len(P) |->
                   Asserted(f, P[j], Eval(Row(name, "eval_loo", P[j], f, f)) \o Day3Log)]
<1>1. EvaluateTaskD(name, f, perm) = FlattenSeq(q)
  BY DatasetD DEF EvaluateTaskD, ForEach, Concat
<1>2. /\ Folds(f, P)
      /\ \A sp \in Items(P) : ~Leaks(f, sp) /\ Open(f, sp) /\ sp.train \cup sp.test = Rows(f)
  BY PersonFolds
<1>3. Len(P) \in Nat
  <2> HIDE DEF P
  <2> QED BY <1>2, FoldCount
<1>4. ASSUME NEW sp, ~Leaks(f, sp), Open(f, sp), sp.train \cup sp.test = Rows(f)
      PROVE  Good(Asserted(f, sp, Eval(Row(name, "eval_loo", sp, f, f)) \o Day3Log), x)
  <2>1. {f[i][1] : i \in sp.train \cup sp.test} = SessionsOf(f)
    BY <1>4 DEF SessionsOf, SessionsAt, Session
  <2>2. Fair(Row(name, "eval_loo", sp, f, f), Day3Ch6Manifest(x))
    BY <1>4, <2>1, RowFair
  <2> QED BY <2>2, GoodEval, GoodLogged, GoodAsserted DEF Day3Log
<1> HIDE DEF P
<1>5. \A j \in 1 .. Len(P) : Good(q[j], x)
  BY <1>2, <1>4, ItemAt
<1> QED BY <1>1, <1>3, <1>5, GoodLoop

(* evaluate_taskD_day_disjoint: a date in turn, one-class dates left out.    *)
LEMMA GoodEvaluateTaskDDayDisjoint ==
  ASSUME NEW x, NEW name, NEW f, Frame(f), name \notin KnownScripts
  PROVE  Good(EvaluateTaskDDayDisjoint(name, f), x)
<1> DEFINE P == LeaveOneDayOut(f)
           q == [j \in 1 .. Len(P) |->
                   IF ~BothClasses(TaskD, f, P[j].test) THEN <<>>
                   ELSE Eval(Row(name, "eval_day_loo", P[j], f, f)) \o Day3Log]
<1>1. EvaluateTaskDDayDisjoint(name, f) = FlattenSeq(q)
  BY DatasetD DEF EvaluateTaskDDayDisjoint, ForEach, Concat
<1>2. Folds(f, P) /\ \A sp \in Items(P) : ~Leaks(f, sp)
  BY DayFolds
<1>3. Len(P) \in Nat
  <2> HIDE DEF P
  <2> QED BY <1>2, FoldCount
<1>4. Plain(name, "eval_day_loo")
  BY DEF Plain, OpenStages, OpenStage
<1>5. ASSUME NEW sp, ~Leaks(f, sp)
      PROVE  Good(Eval(Row(name, "eval_day_loo", sp, f, f)) \o Day3Log, x)
  BY <1>4, <1>5, GoodPlain, GoodLogged DEF Day3Log
<1> HIDE DEF P
<1>6. \A j \in 1 .. Len(P) : Good(q[j], x)
  BY <1>2, <1>5, ItemAt, GoodNone
<1> QED BY <1>1, <1>3, <1>6, GoodLoop

(* evaluate_single_split: the k folds of a secondary task.                   *)
LEMMA GoodEvaluateSingleSplit ==
  ASSUME NEW x, NEW task, NEW f, NEW perm PROVE Good(EvaluateSingleSplit(task, f, perm), x)
<1> DEFINE ds == Dataset(f, task)
           K == SessionDisjointKfold(ds, perm)
           q == [j \in 1 .. Len(K) |->
                   Asserted(ds, K[j], Eval(Row("train_day3_ch6_model", "eval_split", K[j], ds, ds))
                                      \o Day3Log)]
<1>1. EvaluateSingleSplit(task, f, perm) = IF KFoldRaises(ds) THEN Raise ELSE FlattenSeq(q)
  BY DEF EvaluateSingleSplit, KfoldLoop, ForEach, Concat
<1>2. Plain("train_day3_ch6_model", "eval_split")
  BY DEF Plain, OpenStages, OpenStage, KnownScripts
<1>3. Len(K) \in Nat
  BY SessionFolds
<1> HIDE DEF K, ds
<1>4. \A j \in 1 .. Len(K) : Good(q[j], x)
  BY <1>2, GoodPlain, GoodLogged, GoodAsserted DEF Day3Log
<1>5. Good(FlattenSeq(q), x)
  BY <1>3, <1>4, GoodLoop
<1> QED BY <1>1, <1>5, GoodSteps

(* Six plans one after another.                                              *)
LEMMA GoodSix ==
  ASSUME NEW x, NEW r, NEW s, NEW t, NEW u, NEW v, NEW w,
         Good(r, x), Good(s, x), Good(t, x), Good(u, x), Good(v, x), Good(w, x)
  PROVE  Good(((((r \o s) \o t) \o u) \o v) \o w, x)
<1>1. PICK p : p = ((r \o s) \o t) \o u
  OBVIOUS
<1>2. Good(p, x)
  BY <1>1, GoodFour
<1>3. Good((p \o v) \o w, x)
  BY <1>2, GoodThree
<1> QED BY <1>1, <1>3

(* train_day3_ch6_model: its folds cover the manifest, its model no held-out session. *)
LEMMA GoodTrainDay3Ch6Model ==
  ASSUME NEW x, Recorded(x), Cached(x) PROVE Good(TrainDay3Ch6Model(x), x)
<1> DEFINE D == Day3Ch6Manifest(x)
           index == BuildOrLoadWindowIndex(x, D)
           name == "train_day3_ch6_model"
           q == [j \in 1 .. Len(Day3Tasks) |->
                   ShipFinal(name, "day3_ch6_model_log", Dataset(index, Day3Tasks[j]), Day3Tasks[j],
                             TargetRate(D))]
<1>1. TrainDay3Ch6Model(x) =
        IF ~HasNone(D) THEN Raise
        ELSE ((((SaveIndex(x, D) \o EvaluateTaskD(name, index, x.order))
               \o EvaluateTaskDDayDisjoint(name, index))
              \o EvaluateSingleSplit("task0_presence", index, x.order))
             \o EvaluateSingleSplit("taskE_motion_standing_vs_walking", index, x.order))
            \o FlattenSeq(q)
  BY DEF TrainDay3Ch6Model, ForEach, Concat
<1>2. /\ Frame(index) /\ SessionsOf(index) = Cut(D)
      /\ Within(index, x.sessions) /\ Within(index, x.sessions \ Holdout)
  BY Day3Index
<1>3. name \notin KnownScripts
  BY DEF KnownScripts
<1>4. PICK s1, s2, s3, s4, s5 :
        /\ s1 = SaveIndex(x, D) /\ s2 = EvaluateTaskD(name, index, x.order)
        /\ s3 = EvaluateTaskDDayDisjoint(name, index)
        /\ s4 = EvaluateSingleSplit("task0_presence", index, x.order)
        /\ s5 = EvaluateSingleSplit("taskE_motion_standing_vs_walking", index, x.order)
  OBVIOUS
<1>5. Good(s1, x)
  BY <1>4, GoodSaveIndex
<1> HIDE DEF D, index
<1>6. Good(s2, x)
  BY <1>2, <1>3, <1>4, GoodEvaluateTaskD DEF D
<1>7. Good(s3, x)
  BY <1>2, <1>3, <1>4, GoodEvaluateTaskDDayDisjoint
<1>8. Good(s4, x) /\ Good(s5, x)
  BY <1>4, GoodEvaluateSingleSplit
<1>9. Good(FlattenSeq(q), x)
  <2>1. Len(Day3Tasks) \in Nat
    BY DEF Day3Tasks
  <2>2. ASSUME NEW t
        PROVE  Good(ShipFinal(name, "day3_ch6_model_log", Dataset(index, t), t, TargetRate(D)), x)
    <3>1. PICK ds : ds = Dataset(index, t)
      OBVIOUS
    <3>2. Frame(ds)
      BY <1>2, <3>1, DatasetFrame
    <3>3. Within(ds, x.sessions) /\ Within(ds, x.sessions \ Holdout)
      BY <1>2, <3>1, WithinIloc DEF Dataset
    <3>4. \A w \in Items(ds) : w[1] \notin Holdout
      BY <3>3 DEF Within
    <3> QED BY <1>3, <3>1, <3>2, <3>3, <3>4, GoodShipFinal
  <2>3. \A j \in 1 .. Len(Day3Tasks) : Good(q[j], x)
    BY <2>2
  <2> HIDE DEF q
  <2>4. q = [j \in 1 .. Len(Day3Tasks) |-> q[j]]
    BY DEF q
  <2> QED BY <2>1, <2>3, <2>4, GoodLoop
<1>10. PICK s6 : s6 = FlattenSeq(q)
  OBVIOUS
<1>11. Good(((((s1 \o s2) \o s3) \o s4) \o s5) \o s6, x)
  BY <1>5, <1>6, <1>7, <1>8, <1>9, <1>10, GoodSix
<1> HIDE DEF q
<1> QED BY <1>1, <1>4, <1>10, <1>11, GoodSteps

-----------------------------------------------------------------------------
(* train_caution_protonet *)

(* The sessions that set the threshold are not those of the prototypes.      *)
LEMMA GoodCautionFold ==
  ASSUME NEW x, NEW stage, NEW f, NEW sp, NEW perm, Split(f, sp), ~Leaks(f, sp),
         stage \in OpenStages => Open(f, sp)
  PROVE  Good(CautionFold(stage, f, sp, perm), x)
<1> DEFINE auth == {i \in sp.train : LabelOf(f[i]) = "authorized"}
           calib == TestSlice(Iloc(f, auth), "authorized", perm, 5)
           support == {i \in auth : Session(f[i]) \notin calib}
           Of(p) == {i \in support : PersonOf(f[i]) = p}
           known == {Person[s] : s \in {s \in DOMAIN Label : Label[s] = "authorized"}}
           threshold == {f[i] : i \in ThresholdRows(sp, auth, support)}
           row == [Row("train_caution_protonet", stage, [sp EXCEPT !.train = support], f, f)
                     EXCEPT !.tune = threshold, !.cut = threshold]
<1>1. CautionFold(stage, f, sp, perm) =
        IF \E p \in known : Cardinality(Of(p)) < 2 THEN Raise ELSE Eval(row) \o Day3Log
  BY DEF CautionFold
<1>2. PICK slice : slice = calib
  OBVIOUS
<1>3. PICK A : A = {i \in auth : Session(f[i]) \notin slice}
  OBVIOUS
<1>4. PICK T : T = auth \ A
  OBVIOUS
<1>5. A = support
  BY <1>2, <1>3
<1>6. A \in SUBSET sp.train /\ T \in SUBSET sp.train
  BY <1>3, <1>4
<1>7. \A i \in A \cup T : LabelOf(f[i]) = "authorized"
  BY <1>3, <1>4
<1>8. At(f, A) \cap At(f, T) = {}
  BY <1>3, <1>4 DEF At, Session
<1>9. row = [Sample("train_caution_protonet", stage, sp.key, At(f, A), At(f, sp.test), At(f, T))
               EXCEPT !.cut = At(f, T)]
  <2>1. PICK sq : sq = Fewer(sp, A)
    OBVIOUS
  <2>2. sq.train = A /\ sq.test = sp.test /\ sq.key = sp.key
    BY <1>6, <2>1, FewerRows
  <2>3. PICK U : U = At(f, T)
    OBVIOUS
  <2>4. threshold = U
    BY <1>4, <1>5, <2>3 DEF At, ThresholdRows
  <2> HIDE DEF support, calib, auth, threshold
  <2>5. PICK old : old = Row("train_caution_protonet", stage, sq, f, f)
    OBVIOUS
  <2>6. row = [old EXCEPT !.tune = U, !.cut = U]
    BY <1>5, <2>1, <2>4, <2>5 DEF Fewer
  <2> HIDE DEF row
  <2>7. [old EXCEPT !.tune = U]
          = Sample("train_caution_protonet", stage, sq.key, At(f, sq.train), At(f, sq.test), U)
    BY <2>5, TunedRowIs
  <2>8. [old EXCEPT !.tune = U, !.cut = U] = [[old EXCEPT !.tune = U] EXCEPT !.cut = U]
    OBVIOUS
  <2> QED BY <2>2, <2>3, <2>6, <2>7, <2>8
<1>10. Fair(Sample("train_caution_protonet", stage, sp.key, At(f, A), At(f, sp.test), At(f, T)),
            Day3Ch6Manifest(x))
  <2>1. PICK N : N = "train_caution_protonet"
    OBVIOUS
  <2>2. PICK D : D = Day3Ch6Manifest(x)
    OBVIOUS
  <2>3. \A i \in A : LabelOf(f[i]) = "authorized"
    BY <1>7
  <2>4. \A i \in T : LabelOf(f[i]) = "authorized"
    BY <1>7
  <2>5. N # "train_day3_ch6_model"
    BY <2>1
  <2>6. Fair(Sample(N, stage, sp.key, At(f, A), At(f, sp.test), At(f, T)), D)
    BY <1>6, <1>8, <2>3, <2>4, <2>5, TunedFair
  <2> QED BY <2>1, <2>2, <2>6
<1>13. Fair(row, Day3Ch6Manifest(x))
  <2>1. PICK N, B, U, W : N = "train_caution_protonet" /\ B = At(f, sp.test) /\ U = At(f, T) /\ W = At(f, A)
    OBVIOUS
  <2>2. PICK old, D : old = Sample(N, stage, sp.key, W, B, U) /\ D = Day3Ch6Manifest(x)
    OBVIOUS
  <2>3. Fair(old, D)
    BY <1>10, <2>1, <2>2
  <2>4. Fair([old EXCEPT !.cut = U], D)
    BY <2>2, <2>3, CutFair
  <2> HIDE DEF row
  <2> QED BY <1>9, <2>1, <2>2, <2>4
<1> HIDE DEF row, known, Of
<1>11. Good(Eval(row) \o Day3Log, x)
  BY <1>13, GoodEval, GoodLogged DEF Day3Log
<1> QED BY <1>1, <1>11, GoodSteps

(* train_caution_protonet: centroids, threshold and test from different windows. *)
LEMMA GoodTrainCautionProtonet ==
  ASSUME NEW x, Recorded(x), Cached(x) PROVE Good(TrainCautionProtonet(x), x)
<1> DEFINE D == Day3Ch6Manifest(x)
           f == BuildOrLoadWindowIndex(x, D)
           P == LeaveOneUnauthorizedPersonOut(f, x.order, TRUE)
           L == LeaveOneDayOut(f)
           p == [j \in 1 .. Len(P) |-> CautionFold("eval_loo", f, P[j], x.order)]
           l == [j \in 1 .. Len(L) |->
                   IF OneLabel(f, L[j]) /\ NoAuthorized(f, L[j]) THEN <<>>
                   ELSE CautionFold("eval_day_loo", f, L[j], x.order)]
<1>1. TrainCautionProtonet(x) =
        IF ~HasNone(D) THEN Raise ELSE (SaveIndex(x, D) \o FlattenSeq(p)) \o FlattenSeq(l)
  BY DEF TrainCautionProtonet, CautionLeaveOneUnauthorizedOut, CautionLeaveOneDayOut, ForEach, Concat
<1>2. Frame(f)
  BY Day3Index
<1>3. Good(SaveIndex(x, D), x)
  BY GoodSaveIndex
<1> HIDE DEF D, f
<1>4. Folds(f, P) /\ \A sp \in Items(P) : ~Leaks(f, sp) /\ Open(f, sp)
  BY <1>2, PersonFolds
<1>5. Folds(f, L) /\ \A sp \in Items(L) : ~Leaks(f, sp)
  BY <1>2, DayFolds
<1>6. "eval_day_loo" \notin OpenStages
  BY DEF OpenStages, OpenStage
<1> HIDE DEF P, L
<1>7. Len(P) \in Nat /\ Len(L) \in Nat
  BY <1>4, <1>5, FoldCount
<1>8. \A j \in 1 .. Len(P) : Good(p[j], x)
  BY <1>4, ItemAt, GoodCautionFold DEF Folds
<1>9. \A j \in 1 .. Len(L) : Good(l[j], x)
  BY <1>5, <1>6, ItemAt, GoodCautionFold, GoodNone DEF Folds
<1>10. Good(FlattenSeq(p), x)
  BY <1>7, <1>8, GoodLoop
<1>11. Good(FlattenSeq(l), x)
  BY <1>7, <1>9, GoodLoop
<1> HIDE DEF p, l
<1>12. Good((SaveIndex(x, D) \o FlattenSeq(p)) \o FlattenSeq(l), x)
  BY <1>3, <1>10, <1>11, GoodThree
<1> QED BY <1>1, <1>12, GoodSteps

-----------------------------------------------------------------------------
(* compare_receiver_fusion *)

(* The fused index is a frame too: some windows of every receiver's session. *)
LEMMA FusedFrame ==
  ASSUME NEW m \in Seq(Rec) PROVE Frame(FusedWindowIndex(m))
<1> DEFINE idx(j) == {i \in Rows(WindowIndex(<<m[j]>>)) :
                        \A mac \in AllMacs : WindowIndex(<<m[j]>>)[i][3]
                                               <= NWindows[<<WindowIndex(<<m[j]>>)[i][1], mac>>]}
           q == [j \in 1 .. Len(m) |-> Iloc(WindowIndex(<<m[j]>>), idx(j))]
<1>1. FusedWindowIndex(m) = FlattenSeq(q)
  BY DEF FusedWindowIndex, Concat, Chosen, Where
<1>2. Len(m) \in Nat /\ \A j \in 1 .. Len(m) : m[j] \in Rec
  OBVIOUS
<1> HIDE DEF idx
<1>3. ASSUME NEW j \in 1 .. Len(m) PROVE q[j] \in Seq(Win)
  <2>1. PICK g : g = <<m[j]>>
    OBVIOUS
  <2>2. g \in Seq(Rec)
    BY <1>2, <2>1
  <2>3. Frame(WindowIndex(g))
    BY <2>2, IndexFacts
  <2>4. Frame(Iloc(WindowIndex(g), idx(j)))
    BY <2>3, IlocFrame
  <2> QED BY <2>1, <2>4 DEF Frame
<1>4. q \in [1 .. Len(m) -> Seq(Win)]
  BY <1>3
<1> HIDE DEF q
<1>5. q \in Seq(Seq(Win))
  BY <1>2, <1>4, FunSeq
<1> QED BY <1>1, <1>5, FlattenTyped DEF Frame

(* The stranger folds of the fused windows.                                  *)
LEMMA GoodEvaluateFusedTaskD ==
  ASSUME NEW x, NEW f, NEW perm, Frame(f) PROVE Good(EvaluateFusedTaskD(f, perm), x)
<1> DEFINE P == LeaveOneUnauthorizedPersonOut(f, perm, TRUE)
           q == [j \in 1 .. Len(P) |->
                   Asserted(f, P[j], Eval(Row("compare_receiver_fusion", "eval_loo", P[j], f, f))
                                     \o FusionLog)]
<1>1. EvaluateFusedTaskD(f, perm) = FlattenSeq(q)
  BY DEF EvaluateFusedTaskD, ForEach, Concat
<1>2. Folds(f, P) /\ \A sp \in Items(P) : ~Leaks(f, sp) /\ Open(f, sp)
  BY PersonFolds
<1>3. Len(P) \in Nat
  <2> HIDE DEF P
  <2> QED BY <1>2, FoldCount
<1>4. PICK name : name = "compare_receiver_fusion"
  OBVIOUS
<1>5. name \notin KnownScripts /\ name # "train_day3_ch6_model"
  BY <1>4 DEF KnownScripts
<1>6. ASSUME NEW sp, ~Leaks(f, sp), Open(f, sp)
      PROVE  Good(Asserted(f, sp, Eval(Row(name, "eval_loo", sp, f, f)) \o FusionLog), x)
  BY <1>5, <1>6, GoodOpen, GoodLogged, GoodAsserted DEF FusionLog
<1> HIDE DEF P
<1>7. \A j \in 1 .. Len(P) : Good(q[j], x)
  BY <1>2, <1>4, <1>6, ItemAt
<1> QED BY <1>1, <1>3, <1>7, GoodLoop

(* The day folds of the fused windows.                                       *)
LEMMA GoodEvaluateFusedTaskDDayDisjoint ==
  ASSUME NEW x, NEW f, Frame(f) PROVE Good(EvaluateFusedTaskDDayDisjoint(f), x)
<1> DEFINE P == LeaveOneDayOut(f)
           q == [j \in 1 .. Len(P) |->
                   IF NoAuthorized(f, P[j]) THEN <<>>
                   ELSE Eval(Row("compare_receiver_fusion", "eval_day_loo", P[j], f, f)) \o FusionLog]
<1>1. EvaluateFusedTaskDDayDisjoint(f) = FlattenSeq(q)
  BY DEF EvaluateFusedTaskDDayDisjoint, ForEach, Concat
<1>2. Folds(f, P) /\ \A sp \in Items(P) : ~Leaks(f, sp)
  BY DayFolds
<1>3. Len(P) \in Nat
  <2> HIDE DEF P
  <2> QED BY <1>2, FoldCount
<1>4. PICK name : name = "compare_receiver_fusion"
  OBVIOUS
<1>5. Plain(name, "eval_day_loo")
  BY <1>4 DEF Plain, OpenStages, OpenStage, KnownScripts
<1>6. ASSUME NEW sp, ~Leaks(f, sp)
      PROVE  Good(Eval(Row(name, "eval_day_loo", sp, f, f)) \o FusionLog, x)
  BY <1>5, <1>6, GoodPlain, GoodLogged DEF FusionLog
<1> HIDE DEF P
<1>7. \A j \in 1 .. Len(P) : Good(q[j], x)
  BY <1>2, <1>4, <1>6, ItemAt, GoodNone
<1> QED BY <1>1, <1>3, <1>7, GoodLoop

(* compare_receiver_fusion: the same folds, fused and receiver by receiver.  *)
LEMMA GoodCompareReceiverFusion ==
  ASSUME NEW x, Recorded(x) PROVE Good(CompareReceiverFusion(x), x)
<1> DEFINE m == ThreeReceiverManifest(x)
           name == "compare_receiver_fusion"
<1>1. CompareReceiverFusion(x) =
        IF ~HasNone(m) THEN Raise
        ELSE ((EvaluateTaskD(name, WindowIndex(m), x.order)
               \o EvaluateTaskDDayDisjoint(name, WindowIndex(m)))
              \o EvaluateFusedTaskD(FusedWindowIndex(m), x.order))
             \o EvaluateFusedTaskDDayDisjoint(FusedWindowIndex(m))
  BY DEF CompareReceiverFusion
<1>2. m \in Seq(Rec)
  BY RecIloc DEF ThreeReceiverManifest, Chosen, Recorded
<1> HIDE DEF m
<1>3. PICK single, fused : single = WindowIndex(m) /\ fused = FusedWindowIndex(m)
  OBVIOUS
<1>4. Frame(single) /\ Frame(fused)
  BY <1>2, <1>3, IndexFacts, FusedFrame
<1>5. name \notin KnownScripts /\ name # "train_day3_ch6_model"
  BY DEF KnownScripts
<1>6. PICK s1, s2, s3, s4 :
        /\ s1 = EvaluateTaskD(name, single, x.order) /\ s2 = EvaluateTaskDDayDisjoint(name, single)
        /\ s3 = EvaluateFusedTaskD(fused, x.order) /\ s4 = EvaluateFusedTaskDDayDisjoint(fused)
  OBVIOUS
<1> HIDE DEF name
<1>7. Good(s1, x) /\ Good(s2, x)
  BY <1>4, <1>5, <1>6, GoodEvaluateTaskD, GoodEvaluateTaskDDayDisjoint
<1>8. Good(s3, x) /\ Good(s4, x)
  BY <1>4, <1>6, GoodEvaluateFusedTaskD, GoodEvaluateFusedTaskDDayDisjoint
<1>9. Good(((s1 \o s2) \o s3) \o s4, x)
  BY <1>7, <1>8, GoodFour
<1> QED BY <1>1, <1>3, <1>6, <1>9, GoodSteps

-----------------------------------------------------------------------------
(* eval_day3ch6_holdout and cross_day_drift *)

\* The checkpoints of the channel-6 track were not fitted on the held-out sessions.
Shipped(x) ==
  \A ship \in x.ships : ship.script = "train_day3_ch6_model" => \A w \in ship.fit : w[1] \notin Holdout

(* eval_day3ch6_holdout: the shipped model has seen none of the held-out sessions. *)
LEMMA GoodEvalDay3Ch6Holdout ==
  ASSUME NEW x, Recorded(x), Shipped(x) PROVE Good(EvalDay3Ch6Holdout(x), x)
<1> DEFINE held == Chosen(x.manifest, LAMBDA r : r[1] \in Holdout)
           f == WindowIndex(held)
           mine == {s \in x.ships : s.script = "train_day3_ch6_model"}
           Ship(t) == CHOOSE s \in mine : s.task = t
           row(t) == [script |-> "eval_day3ch6_holdout", stage |-> "holdout", key |-> 0,
                      fit  |-> {<<w, w>> : w \in Ship(t).fit},
                      test |-> {<<f[i], f[i]>> : i \in Mask(t, f)},
                      tune |-> {}, cut |-> {}, pre |-> {}]
           stop == \/ Len(held) # Cardinality(Holdout)
                   \/ {s.task : s \in mine} # ToSet(Day3Tasks)
                   \/ Cardinality({s.rate : s \in mine}) # 1
           q == [j \in 1 .. Len(Day3Tasks) |-> Eval(row(Day3Tasks[j]))]
<1>1. EvalDay3Ch6Holdout(x) = IF stop THEN Raise ELSE FlattenSeq(q) \o Show
  BY DEF EvalDay3Ch6Holdout, ForEach, Concat
<1>2. Within(f, Holdout)
  <2> DEFINE idx == {i \in Rows(x.manifest) : x.manifest[i][1] \in Holdout}
  <2>1. held = Iloc(x.manifest, idx)
    BY DEF Chosen, Where
  <2>2. PICK m, h : m = x.manifest /\ h = held
    OBVIOUS
  <2>3. m \in Seq(Rec)
    BY <2>2 DEF Recorded
  <2>4. \A i \in idx : m[i][1] \in Holdout
    BY <2>2
  <2> HIDE DEF held, idx
  <2>5. h \in Seq(Rec) /\ Items(h) = {m[i] : i \in idx \cap Rows(m)}
    BY <2>1, <2>2, <2>3, RecIloc
  <2>6. \A r \in Items(h) : r[1] \in Holdout
    BY <2>4, <2>5
  <2>7. Within(WindowIndex(h), Holdout)
    BY <2>5, <2>6, IndexWithin
  <2> QED BY <2>2, <2>7
<1> HIDE DEF held
<1>3. ASSUME NEW t, \E s \in mine : s.task = t PROVE Good(Eval(row(t)), x)
  <2>1. Ship(t) \in mine
    BY <1>3
  <2>2. \A w \in Ship(t).fit : w[1] \notin Holdout
    BY <2>1 DEF Shipped
  <2>3. PICK A, B, E : A = Ship(t).fit /\ B = At(f, Mask(t, f)) /\ E = {}
    OBVIOUS
  <2>4. \A w \in B : w[1] \in Holdout
    BY <1>2, <2>3 DEF Within, Items, At, Mask, Where, Rows
  <2>5. row(t) = Sample("eval_day3ch6_holdout", "holdout", 0, A, B, E)
    <3>1. {<<w, w>> : w \in Ship(t).fit} = Pairs(A)
      BY <2>3 DEF Pairs
    <3>2. {<<f[i], f[i]>> : i \in Mask(t, f)} = Pairs(B)
      BY <2>3 DEF Pairs, At
    <3> HIDE DEF f, Ship
    <3> QED BY <2>3, <3>1, <3>2 DEF Sample
  <2>6. PICK N, S : N = "eval_day3ch6_holdout" /\ S = "holdout"
    OBVIOUS
  <2>7. N \notin KnownScripts /\ S \notin OpenStages /\ N # "train_day3_ch6_model"
    BY <2>6 DEF KnownScripts, OpenStages, OpenStage
  <2>8. \A v \in A, w \in B : v[1] # w[1]
    BY <2>2, <2>3, <2>4
  <2>9. /\ \A w \in E : Label[w[1]] = "authorized"
        /\ \A v \in E, w \in B : v[1] # w[1]
    BY <2>3
  <2>10. PICK D : D = Day3Ch6Manifest(x)
    OBVIOUS
  <2>11. Fair(Sample(N, S, 0, A, B, E), D)
    BY <2>7, <2>8, <2>9, SampleFair
  <2> HIDE DEF row
  <2> QED BY <2>5, <2>6, <2>10, <2>11, GoodEval
<1>4. Len(Day3Tasks) \in Nat /\ ToSet(Day3Tasks) = {Day3Tasks[j] : j \in 1 .. Len(Day3Tasks)}
  BY DEF Day3Tasks, ToSet
<1>5. ASSUME ~stop PROVE Good(FlattenSeq(q), x)
  <2>1. \A j \in 1 .. Len(Day3Tasks) : \E s \in mine : s.task = Day3Tasks[j]
    BY <1>4, <1>5
  <2> HIDE DEF row, mine
  <2>2. \A j \in 1 .. Len(Day3Tasks) : Good(q[j], x)
    BY <1>3, <2>1
  <2> QED BY <1>4, <2>2, GoodLoop
<1> HIDE DEF q, stop
<1> QED BY <1>1, <1>5, GoodSteps, GoodConcat

(* cross_day_drift raises or prints.                                         *)
LEMMA GoodCrossDayDrift == ASSUME NEW x PROVE Good(CrossDayDrift(x), x)
<1>1. CrossDayDrift(x) = Raise \/ CrossDayDrift(x) = Show
  BY DEF CrossDayDrift
<1> QED BY <1>1, GoodSteps

-----------------------------------------------------------------------------
(* Manifests: the receivers of some sessions, in order *)

\* By session, and within a session in the order of its files.
ByReceiver ==
  {p \in Rec \X Rec :
     \/ p[1][1] < p[2][1]
     \/ /\ p[1][1] = p[2][1]
        /\ \E i, j \in 1 .. Len(Macs[p[1][1]]) : /\ i < j
                                                 /\ Macs[p[1][1]][i] = p[1][2]
                                                 /\ Macs[p[1][1]][j] = p[2][2]}

(* The receivers of a session are different from each other.                 *)
LEMMA MacsFacts ==
  ASSUME NEW s \in DOMAIN Label
  PROVE  /\ Macs[s] \in Seq(STRING) /\ Len(Macs[s]) \in Nat /\ s \in Nat
         /\ \A i, j \in 1 .. Len(Macs[s]) : Macs[s][i] = Macs[s][j] => i = j
         /\ \A j \in 1 .. Len(Macs[s]) : <<s, Macs[s][j]>> \in Rec
<1>1. Macs[s] \in Seq(STRING) /\ Len(Macs[s]) \in Nat /\ DOMAIN Macs[s] = 1 .. Len(Macs[s])
  BY ReceiversAssumption
<1>2. \A i, j \in 1 .. Len(Macs[s]) : Macs[s][i] = Macs[s][j] => i = j
  BY <1>1, ReceiversAssumption DEF IsInjective
<1>3. \A j \in 1 .. Len(Macs[s]) : Macs[s][j] \in STRING /\ NWindows[<<s, Macs[s][j]>>] \in Nat
  <2>1. \A j \in DOMAIN Macs[s] : NWindows[<<s, Macs[s][j]>>] \in Nat
    BY ReceiversAssumption
  <2>2. \A j \in 1 .. Len(Macs[s]) : Macs[s][j] \in STRING
    BY <1>1
  <2> QED BY <1>1, <2>1, <2>2
<1> QED BY <1>1, <1>2, <1>3, SessionsAssumption DEF Rec, Recv

(* The order of a manifest has no ties.                                      *)
LEMMA ByReceiverAsymmetric == Asymmetric(ByReceiver)
<1> SUFFICES ASSUME NEW v, NEW w, <<v, w>> \in ByReceiver, <<w, v>> \in ByReceiver PROVE FALSE
  BY DEF Asymmetric
<1>1. v \in Rec /\ w \in Rec
  BY DEF ByReceiver
<1>2. v[1] \in DOMAIN Label /\ w[1] \in DOMAIN Label
  BY <1>1 DEF Rec, Recv
<1>3. v[1] \in Nat /\ w[1] \in Nat
  BY <1>2, MacsFacts
<1>4. v[1] = w[1]
  BY <1>3 DEF ByReceiver
<1>5. PICK i, j \in 1 .. Len(Macs[v[1]]) : i < j /\ Macs[v[1]][i] = v[2] /\ Macs[v[1]][j] = w[2]
  BY <1>3, <1>4 DEF ByReceiver
<1>6. PICK k, l \in 1 .. Len(Macs[v[1]]) : k < l /\ Macs[v[1]][k] = w[2] /\ Macs[v[1]][l] = v[2]
  BY <1>3, <1>4 DEF ByReceiver
<1>7. i = l /\ j = k
  BY <1>2, <1>5, <1>6, MacsFacts
<1>8. Len(Macs[v[1]]) \in Nat
  BY <1>2, MacsFacts
<1> QED BY <1>5, <1>6, <1>7, <1>8

\* The receivers of a session.
FilesOfSession(s) == [j \in 1 .. Len(Macs[s]) |-> <<s, Macs[s][j]>>]

(* The receivers of a session, in the order of its files.                    *)
LEMMA FilesFacts ==
  ASSUME NEW s \in DOMAIN Label
  PROVE  /\ FilesOfSession(s) \in Seq(Rec) /\ Ordered(FilesOfSession(s), ByReceiver)
         /\ Items(FilesOfSession(s)) = {<<s, Macs[s][j]>> : j \in 1 .. Len(Macs[s])}
<1> DEFINE g == FilesOfSession(s)
<1>1. Len(Macs[s]) \in Nat /\ s \in Nat /\ \A j \in 1 .. Len(Macs[s]) : <<s, Macs[s][j]>> \in Rec
  BY MacsFacts
<1>2. \A j \in 1 .. Len(Macs[s]) : g[j] = <<s, Macs[s][j]>>
  BY DEF FilesOfSession
<1>3. g \in [1 .. Len(Macs[s]) -> Rec]
  BY <1>1 DEF FilesOfSession
<1> HIDE DEF g
<1>4. g \in Seq(Rec) /\ Len(g) = Len(Macs[s])
  BY <1>1, <1>3, FunSeq
<1>5. Items(g) = {<<s, Macs[s][j]>> : j \in 1 .. Len(Macs[s])}
  BY <1>2, <1>4 DEF Items
<1>6. ASSUME NEW i \in 1 .. Len(g), NEW j \in 1 .. Len(g), i < j PROVE <<g[i], g[j]>> \in ByReceiver
  <2>1. i \in 1 .. Len(Macs[s]) /\ j \in 1 .. Len(Macs[s])
    BY <1>4
  <2>2. PICK v, w : v = <<s, Macs[s][i]>> /\ w = <<s, Macs[s][j]>>
    OBVIOUS
  <2>3. v \in Rec /\ w \in Rec /\ v[1] = s /\ w[1] = s /\ v[2] = Macs[s][i] /\ w[2] = Macs[s][j]
    BY <1>1, <2>1, <2>2
  <2>4. <<v, w>> \in ByReceiver
    BY <1>6, <2>1, <2>3 DEF ByReceiver
  <2> QED BY <1>2, <2>1, <2>2, <2>4
<1> QED BY <1>4, <1>5, <1>6 DEF Ordered, g

(* The items of a concatenation are those of its parts.                      *)
LEMMA FlattenItems ==
  ASSUME NEW S, NEW q \in Seq(Seq(S))
  PROVE  Items(FlattenSeq(q)) = UNION {Items(q[k]) : k \in 1 .. Len(q)}
BY FlattenFacts, Zenon

(* A loop over sessions in order: b gives the receivers kept of each.        *)
LEMMA BySession ==
  ASSUME NEW S \in SUBSET (DOMAIN Label), NEW b,
         \A s \in S : /\ b[s] \in Seq(Rec) /\ Ordered(b[s], ByReceiver)
                      /\ \A r \in Items(b[s]) : r[1] = s,
         NEW q, q = [j \in 1 .. Len(Sorted(S)) |-> b[Sorted(S)[j]]]
  PROVE  /\ FlattenSeq(q) \in Seq(Rec) /\ Ordered(FlattenSeq(q), ByReceiver)
         /\ Items(FlattenSeq(q)) = UNION {Items(b[s]) : s \in S}
<1>1. S \in SUBSET (Nat \ {0}) /\ IsFiniteSet(S)
  BY SessionsAssumption, FS_Subset
<1>2. PICK t : t = Sorted(S)
  OBVIOUS
<1>3. t \in Seq(S) /\ Items(t) = S /\ \A i, j \in 1 .. Len(t) : i < j => t[i] < t[j]
  BY <1>1, <1>2, SortedFacts
<1>4. Len(t) \in Nat /\ \A j \in 1 .. Len(t) : t[j] \in S
  BY <1>3
<1>5. PICK p : p = q
  OBVIOUS
<1>6. p = [j \in 1 .. Len(t) |-> b[t[j]]]
  BY <1>2, <1>5
<1>7. p \in [1 .. Len(t) -> Seq(Rec)]
  BY <1>4, <1>6
<1>8. p \in Seq(Seq(Rec)) /\ Len(p) = Len(t)
  BY <1>4, <1>7, FunSeq
<1>9. \A k \in 1 .. Len(p) : p[k] = b[t[k]] /\ t[k] \in S
  BY <1>4, <1>8, <1>6
<1>10. \A k \in 1 .. Len(p) : Ordered(p[k], ByReceiver)
  BY <1>9
<1>11. ASSUME NEW k \in 1 .. Len(p), NEW l \in 1 .. Len(p), k < l, NEW v \in Items(p[k]), NEW w \in Items(p[l])
      PROVE  <<v, w>> \in ByReceiver
  <2>1. v[1] = t[k] /\ w[1] = t[l] /\ t[k] < t[l]
    <3>1. p[k] = b[t[k]] /\ p[l] = b[t[l]] /\ t[k] \in S /\ t[l] \in S
      BY <1>9
    <3>2. v[1] = t[k] /\ w[1] = t[l]
      BY <1>11, <3>1
    <3>3. t[k] < t[l]
      BY <1>3, <1>8, <1>11
    <3> QED BY <3>2, <3>3
  <2>2. p[k] \in Seq(Rec) /\ p[l] \in Seq(Rec)
    BY <1>9
  <2>3. v \in Rec /\ w \in Rec
    BY <2>2 DEF Items
  <2> QED BY <2>1, <2>3 DEF ByReceiver
<1>12. PICK R : R = ByReceiver
  OBVIOUS
<1>13. /\ FlattenSeq(p) \in Seq(Rec) /\ Items(FlattenSeq(p)) = UNION {Items(p[k]) : k \in 1 .. Len(p)}
       /\ Ordered(FlattenSeq(p), R)
  <2>1. \A k \in 1 .. Len(p) : Ordered(p[k], R)
    BY <1>10, <1>12
  <2>2. ASSUME NEW k \in 1 .. Len(p), NEW l \in 1 .. Len(p), k < l,
               NEW v \in Items(p[k]), NEW w \in Items(p[l])
        PROVE  <<v, w>> \in R
    BY <1>11, <1>12, <2>2
  <2>3. p \in Seq(Seq(Rec))
    BY <1>8
  <2>4. FlattenSeq(p) \in Seq(Rec)
    BY <2>3, FlattenTyped
  <2>5. Ordered(FlattenSeq(p), R)
    BY <2>1, <2>2, <2>3, FlattenFacts
  <2>6. Items(FlattenSeq(p)) = UNION {Items(p[k]) : k \in 1 .. Len(p)}
    BY <2>3, FlattenItems
  <2> QED BY <2>4, <2>5, <2>6
<1>14. {Items(p[k]) : k \in 1 .. Len(p)} = {Items(b[s]) : s \in S}
  <2>1. \A s \in S : \E k \in 1 .. Len(t) : t[k] = s
    BY <1>3 DEF Items
  <2>2. \A s \in S : \E k \in 1 .. Len(p) : p[k] = b[s]
    <3>1. ASSUME NEW s \in S PROVE \E k \in 1 .. Len(p) : p[k] = b[s]
      <4>1. PICK k \in 1 .. Len(t) : t[k] = s
        BY <2>1
      <4> QED BY <1>8, <1>9, <4>1
    <3> QED BY <3>1
  <2>3. \A k \in 1 .. Len(p) : \E s \in S : p[k] = b[s]
    BY <1>9
  <2> QED BY <2>2, <2>3
<1> QED BY <1>12, <1>13, <1>14, <1>5

\* The receivers of the sessions S.
AllReceivers(S) == UNION {{<<s, Macs[s][j]>> : j \in 1 .. Len(Macs[s])} : s \in S}

(* The manifest of some sessions has each of their receivers, in order.      *)
LEMMA ManifestFacts ==
  ASSUME NEW S \in SUBSET (DOMAIN Label)
  PROVE  /\ ManifestOf(S) \in Seq(Rec) /\ Ordered(ManifestOf(S), ByReceiver)
         /\ Items(ManifestOf(S)) = AllReceivers(S)
<1> DEFINE b == [s \in S |-> FilesOfSession(s)]
           q == [j \in 1 .. Len(Sorted(S)) |-> b[Sorted(S)[j]]]
<1>1. S \in SUBSET (Nat \ {0}) /\ IsFiniteSet(S)
  BY SessionsAssumption, FS_Subset
<1>2. \A j \in 1 .. Len(Sorted(S)) : Sorted(S)[j] \in S
  BY <1>1, SortedFacts, ElementOfSeq
<1>3. ManifestOf(S) = FlattenSeq(q)
  <2>1. \A j \in 1 .. Len(Sorted(S)) : q[j] = FilesOfSession(Sorted(S)[j])
    BY <1>2
  <2>2. q = [j \in 1 .. Len(Sorted(S)) |-> FilesOfSession(Sorted(S)[j])]
    BY <2>1
  <2> QED BY <2>2 DEF ManifestOf, ForEach, Concat, FilesOfSession
<1>4. \A s \in S : /\ b[s] \in Seq(Rec) /\ Ordered(b[s], ByReceiver)
                   /\ Items(b[s]) = {<<s, Macs[s][j]>> : j \in 1 .. Len(Macs[s])}
  BY FilesFacts
<1>5. \A s \in S : \A r \in Items(b[s]) : r[1] = s
  BY <1>4
<1> HIDE DEF b
<1>6. /\ FlattenSeq(q) \in Seq(Rec) /\ Ordered(FlattenSeq(q), ByReceiver)
      /\ Items(FlattenSeq(q)) = UNION {Items(b[s]) : s \in S}
  BY <1>4, <1>5, BySession
<1>7. UNION {Items(b[s]) : s \in S} = AllReceivers(S)
  BY <1>4 DEF AllReceivers
<1> HIDE DEF q
<1> QED BY <1>3, <1>6, <1>7

-----------------------------------------------------------------------------
(* The derived files of older and newer sessions *)

(* Rows of a manifest picked by their receiver.                              *)
LEMMA Picked ==
  ASSUME NEW m \in Seq(Rec), NEW P, NEW idx, idx = {i \in Rows(m) : m[i] \in P}
  PROVE  /\ Iloc(m, idx) \in Seq(Rec) /\ Items(Iloc(m, idx)) = Items(m) \cap P
         /\ Ordered(m, ByReceiver) => Ordered(Iloc(m, idx), ByReceiver)
<1>1. PICK J : J = idx
  OBVIOUS
<1>2. PICK R : R = ByReceiver
  OBVIOUS
<1>3. /\ Iloc(m, J) \in Seq(Rec) /\ Items(Iloc(m, J)) = {m[i] : i \in J \cap Rows(m)}
      /\ Ordered(m, R) => Ordered(Iloc(m, J), R)
  BY RecIloc
<1>4. {m[i] : i \in J \cap Rows(m)} = Items(m) \cap P
  BY <1>1 DEF Items, Rows
<1> QED BY <1>1, <1>2, <1>3, <1>4

(* More sessions have more receivers.                                        *)
LEMMA MoreReceivers ==
  ASSUME NEW S, NEW T, S \subseteq T PROVE AllReceivers(S) \subseteq AllReceivers(T)
BY DEF AllReceivers

\* The window index csv of the sessions S.
Index(S) == IndexOf(ManifestOf(S))
\* The receivers whose session has no other.
Single == {r \in Rec : Len(Macs[r[1]]) = 1}

(* The window index of some sessions: the windows of theirs that have one receiver. *)
LEMMA IndexIs ==
  ASSUME NEW S \in SUBSET (DOMAIN Label)
  PROVE  /\ Index(S) \in Seq(Win) /\ Ordered(Index(S), ByWindow(ByReceiver))
         /\ Items(Index(S)) = UNION {Items(Cuts(r)) : r \in AllReceivers(S) \cap Single}
         /\ Within(Index(S), S)
<1>1. PICK m : m = ManifestOf(S)
  OBVIOUS
<1>2. m \in Seq(Rec) /\ Ordered(m, ByReceiver) /\ Items(m) = AllReceivers(S)
  BY <1>1, ManifestFacts
<1>3. PICK idx : idx = {i \in Rows(m) : m[i] \in Single}
  OBVIOUS
<1>4. idx = {i \in Rows(m) : Len(Macs[m[i][1]]) = 1}
  <2>1. \A i \in Rows(m) : m[i] \in Rec
    BY <1>2 DEF Rows
  <2> QED BY <1>3, <2>1 DEF Single
<1>5. PICK g : g = Iloc(m, idx)
  OBVIOUS
<1>6. g \in Seq(Rec) /\ Ordered(g, ByReceiver) /\ Items(g) = AllReceivers(S) \cap Single
  BY <1>2, <1>3, <1>5, Picked
<1>7. Index(S) = WindowIndex(g)
  BY <1>1, <1>4, <1>5 DEF Index, IndexOf, Chosen, Where
<1>8. Asymmetric(ByReceiver)
  BY ByReceiverAsymmetric
<1>9. Frame(WindowIndex(g)) /\ Items(WindowIndex(g)) = UNION {Items(Cuts(r)) : r \in Items(g)}
  BY <1>6, IndexFacts
<1>10. Ordered(WindowIndex(g), ByWindow(ByReceiver))
  BY <1>6, <1>8, IndexFacts
<1>11. \A r \in Items(g) : r[1] \in S
  BY <1>6 DEF AllReceivers
<1>12. Within(WindowIndex(g), S)
  BY <1>6, <1>11, IndexWithin
<1> QED BY <1>6, <1>7, <1>9, <1>10, <1>12 DEF Frame

(* A window index with as many rows as that of more sessions is the same.    *)
LEMMA IndexAgain ==
  ASSUME NEW T \in SUBSET (DOMAIN Label), NEW S \in SUBSET T, Len(Index(S)) = Len(Index(T))
  PROVE  Index(S) = Index(T)
<1>1. PICK f, g, R : f = Index(S) /\ g = Index(T) /\ R = ByWindow(ByReceiver)
  OBVIOUS
<1>2. f \in Seq(Win) /\ Ordered(f, R) /\ Items(f) = UNION {Items(Cuts(r)) : r \in AllReceivers(S) \cap Single}
  BY <1>1, IndexIs
<1>3. g \in Seq(Win) /\ Ordered(g, R) /\ Items(g) = UNION {Items(Cuts(r)) : r \in AllReceivers(T) \cap Single}
  BY <1>1, IndexIs
<1>4. AllReceivers(S) \cap Single \subseteq AllReceivers(T) \cap Single
  BY MoreReceivers
<1>5. Items(f) \subseteq Items(g)
  BY <1>2, <1>3, <1>4
<1>6. Asymmetric(R)
  BY <1>1, ByReceiverAsymmetric, ByWindowAsymmetric
<1> QED BY <1>1, <1>2, <1>3, <1>5, <1>6, SameLength

\* The channel-6 manifest cut from the manifest of the sessions S.
Track(m) == Day3Ch6Manifest([manifest |-> m])
TrackOf == {r \in Rec : /\ Day[r[1]] \in TrainDates /\ r[2] = SingleMac
                        /\ r[1] \in Channel6 /\ r[1] \notin Holdout}

(* The channel-6 manifest of some sessions is a selection of their receivers. *)
LEMMA TrackIs ==
  ASSUME NEW S \in SUBSET (DOMAIN Label)
  PROVE  /\ Track(ManifestOf(S)) \in Seq(Rec) /\ Ordered(Track(ManifestOf(S)), ByReceiver)
         /\ Items(Track(ManifestOf(S))) = AllReceivers(S) \cap TrackOf
<1>1. PICK m : m = ManifestOf(S)
  OBVIOUS
<1>2. m \in Seq(Rec) /\ Ordered(m, ByReceiver) /\ Items(m) = AllReceivers(S)
  BY <1>1, ManifestFacts
<1>3. PICK idx : idx = {i \in Rows(m) : m[i] \in TrackOf}
  OBVIOUS
<1>4. idx = {i \in Rows(m) : /\ Day[m[i][1]] \in TrainDates /\ m[i][2] = SingleMac
                             /\ m[i][1] \in Channel6 /\ m[i][1] \notin Holdout}
  <2>1. \A i \in Rows(m) : m[i] \in Rec
    BY <1>2 DEF Rows
  <2> QED BY <1>3, <2>1 DEF TrackOf
<1>5. Track(m) = Iloc(m, idx)
  BY <1>4 DEF Track, Day3Ch6Manifest, Chosen, Where
<1>6. PICK g : g = Iloc(m, idx)
  OBVIOUS
<1>7. g \in Seq(Rec) /\ Ordered(g, ByReceiver) /\ Items(g) = AllReceivers(S) \cap TrackOf
  BY <1>2, <1>3, <1>6, Picked
<1> QED BY <1>1, <1>5, <1>6, <1>7

(* A channel-6 manifest with as many rows as a later one is the same.        *)
LEMMA TrackAgain ==
  ASSUME NEW T \in SUBSET (DOMAIN Label), NEW S \in SUBSET T,
         Len(Track(ManifestOf(S))) = Len(Track(ManifestOf(T)))
  PROVE  Track(ManifestOf(S)) = Track(ManifestOf(T))
<1>1. PICK f, g, R : f = Track(ManifestOf(S)) /\ g = Track(ManifestOf(T)) /\ R = ByReceiver
  OBVIOUS
<1>2. f \in Seq(Rec) /\ Ordered(f, R) /\ Items(f) = AllReceivers(S) \cap TrackOf
  BY <1>1, TrackIs
<1>3. g \in Seq(Rec) /\ Ordered(g, R) /\ Items(g) = AllReceivers(T) \cap TrackOf
  BY <1>1, TrackIs
<1>4. Items(f) \subseteq Items(g)
  BY <1>2, <1>3, MoreReceivers
<1>5. Asymmetric(R)
  BY <1>1, ByReceiverAsymmetric
<1> QED BY <1>1, <1>2, <1>3, <1>4, <1>5, SameLength

-----------------------------------------------------------------------------
(* The dataset of ml_2 *)

\* Its sessions come label by label.
Rank(s) == IF Label[s] = "authorized" THEN 1 ELSE IF Label[s] = "unauthorized" THEN 2 ELSE 3
ByLabel ==
  {p \in Rec \X Rec : \/ Rank(p[1][1]) < Rank(p[2][1])
                      \/ Rank(p[1][1]) = Rank(p[2][1]) /\ p \in ByReceiver}

(* The label folders are read in an order of three.                          *)
LEMMA RankFacts == \A s : Rank(s) \in {1, 2, 3}
BY DEF Rank

(* The order of the ml_2 manifest has no ties.                               *)
LEMMA ByLabelAsymmetric == Asymmetric(ByLabel)
<1> SUFFICES ASSUME NEW v, NEW w, <<v, w>> \in ByLabel, <<w, v>> \in ByLabel PROVE FALSE
  BY DEF Asymmetric
<1>1. PICK a, b : a = Rank(v[1]) /\ b = Rank(w[1])
  OBVIOUS
<1>2. a \in {1, 2, 3} /\ b \in {1, 2, 3}
  BY <1>1, RankFacts
<1>3. Rank(v[1]) < Rank(w[1]) \/ (Rank(v[1]) = Rank(w[1]) /\ <<v, w>> \in ByReceiver)
  <2>1. PICK p : p = <<v, w>>
    OBVIOUS
  <2>2. p \in ByLabel /\ p[1] = v /\ p[2] = w
    BY <2>1
  <2>3. Rank(p[1][1]) < Rank(p[2][1]) \/ (Rank(p[1][1]) = Rank(p[2][1]) /\ p \in ByReceiver)
    BY <2>2 DEF ByLabel
  <2> QED BY <2>1, <2>2, <2>3
<1>4. Rank(w[1]) < Rank(v[1]) \/ (Rank(w[1]) = Rank(v[1]) /\ <<w, v>> \in ByReceiver)
  <2>1. PICK p : p = <<w, v>>
    OBVIOUS
  <2>2. p \in ByLabel /\ p[1] = w /\ p[2] = v
    BY <2>1
  <2>3. Rank(p[1][1]) < Rank(p[2][1]) \/ (Rank(p[1][1]) = Rank(p[2][1]) /\ p \in ByReceiver)
    BY <2>2 DEF ByLabel
  <2> QED BY <2>1, <2>2, <2>3
<1>5. <<v, w>> \in ByReceiver /\ <<w, v>> \in ByReceiver
  BY <1>1, <1>2, <1>3, <1>4
<1> QED BY <1>5, ByReceiverAsymmetric DEF Asymmetric

\* The usable receivers.
Usable == Rec \ Unusable

\* The receivers of one session that are usable, and the manifest of the sessions S.
KeptRows(s) == Iloc(FilesOfSession(s), {i \in Rows(FilesOfSession(s)) : FilesOfSession(s)[i] \notin Unusable})
Labelled(S, l) == {s \in S : Label[s] = LABELS[l]}
Full(S) ==
  FlattenSeq([l \in 1 .. Len(LABELS) |->
    FlattenSeq([j \in 1 .. Len(Sorted(Labelled(S, l))) |-> KeptRows(Sorted(Labelled(S, l))[j])])])

(* The ml_2 manifest depends on the recorded sessions alone.                 *)
LEMMA FullIs == ASSUME NEW x PROVE BuildFullManifest(x) = Full(x.sessions)
BY DEF BuildFullManifest, Full, KeptRows, Labelled, ForEach, Concat, Chosen, Where, FilesOfSession

(* The ml_2 manifest has each usable receiver, label by label.               *)
LEMMA FullFacts ==
  ASSUME NEW S \in SUBSET (DOMAIN Label)
  PROVE  /\ Full(S) \in Seq(Rec) /\ Ordered(Full(S), ByLabel)
         /\ Items(Full(S)) = AllReceivers(S) \cap Usable
<1> DEFINE b == [s \in S |-> KeptRows(s)]
           q(l) == [j \in 1 .. Len(Sorted(Labelled(S, l))) |-> b[Sorted(Labelled(S, l))[j]]]
           Q == [l \in 1 .. 3 |-> FlattenSeq(q(l))]
<1>3. ASSUME NEW s \in S
      PROVE  /\ b[s] \in Seq(Rec) /\ Ordered(b[s], ByReceiver)
             /\ Items(b[s]) = {<<s, Macs[s][j]>> : j \in 1 .. Len(Macs[s])} \cap Usable
             /\ \A r \in Items(b[s]) : r[1] = s
  <2>1. PICK m : m = FilesOfSession(s)
    OBVIOUS
  <2>2. /\ m \in Seq(Rec) /\ Ordered(m, ByReceiver)
        /\ Items(m) = {<<s, Macs[s][j]>> : j \in 1 .. Len(Macs[s])}
    BY <2>1, FilesFacts
  <2>3. PICK idx : idx = {i \in Rows(m) : m[i] \in Usable}
    OBVIOUS
  <2>4. idx = {i \in Rows(m) : m[i] \notin Unusable}
    <3>1. \A i \in Rows(m) : m[i] \in Rec
      BY <2>2 DEF Rows
    <3> QED BY <2>3, <3>1 DEF Usable
  <2>5. PICK g : g = Iloc(m, idx)
    OBVIOUS
  <2>6. g \in Seq(Rec) /\ Ordered(g, ByReceiver) /\ Items(g) = Items(m) \cap Usable
    BY <2>2, <2>3, <2>5, Picked
  <2>7. b[s] = g
    BY <2>1, <2>4, <2>5 DEF KeptRows
  <2>8. \A r \in Items(g) : r[1] = s
    BY <2>2, <2>6
  <2> HIDE DEF b
  <2> QED BY <2>2, <2>6, <2>7, <2>8
<1>4. Full(S) = FlattenSeq(Q)
  <2>1. ASSUME NEW l
        PROVE  q(l) = [j \in 1 .. Len(Sorted(Labelled(S, l))) |-> KeptRows(Sorted(Labelled(S, l))[j])]
    <3>1. PICK t : t = Sorted(Labelled(S, l))
      OBVIOUS
    <3>2. Labelled(S, l) \in SUBSET (Nat \ {0}) /\ IsFiniteSet(Labelled(S, l)) /\ Labelled(S, l) \subseteq S
      BY SessionsAssumption, FS_Subset DEF Labelled
    <3>3. \A j \in 1 .. Len(t) : t[j] \in S
      <4>1. t \in Seq(Labelled(S, l))
        BY <3>1, <3>2, SortedFacts
      <4> QED BY <3>2, <4>1
    <3> QED BY <3>1, <3>3
  <2>2. Len(LABELS) = 3
    BY DEF LABELS
  <2> HIDE DEF q
  <2> QED BY <2>1, <2>2 DEF Full
<1> HIDE DEF b
<1>5. ASSUME NEW l \in 1 .. 3
      PROVE  /\ Q[l] \in Seq(Rec) /\ Ordered(Q[l], ByReceiver)
             /\ Items(Q[l]) = UNION {Items(b[s]) : s \in Labelled(S, l)}
  <2>1. PICK O : O = Labelled(S, l)
    OBVIOUS
  <2>2. O \in SUBSET (DOMAIN Label) /\ O \subseteq S
    BY <2>1 DEF Labelled
  <2>3. PICK p : p = [j \in 1 .. Len(Sorted(O)) |-> b[Sorted(O)[j]]]
    OBVIOUS
  <2>4. \A s \in O : /\ b[s] \in Seq(Rec) /\ Ordered(b[s], ByReceiver)
                     /\ \A r \in Items(b[s]) : r[1] = s
    BY <1>3, <2>2
  <2>5. /\ FlattenSeq(p) \in Seq(Rec) /\ Ordered(FlattenSeq(p), ByReceiver)
        /\ Items(FlattenSeq(p)) = UNION {Items(b[s]) : s \in O}
    <3>1. PICK B : B = b
      OBVIOUS
    <3>2. p = [j \in 1 .. Len(Sorted(O)) |-> B[Sorted(O)[j]]]
      BY <2>3, <3>1
    <3>3. \A s \in O : /\ B[s] \in Seq(Rec) /\ Ordered(B[s], ByReceiver)
                       /\ \A r \in Items(B[s]) : r[1] = s
      BY <2>4, <3>1
    <3>4. /\ FlattenSeq(p) \in Seq(Rec) /\ Ordered(FlattenSeq(p), ByReceiver)
          /\ Items(FlattenSeq(p)) = UNION {Items(B[s]) : s \in O}
      BY <2>2, <3>2, <3>3, BySession
    <3> QED BY <3>1, <3>4
  <2>6. Q[l] = FlattenSeq(p)
    BY <2>1, <2>3
  <2> QED BY <2>1, <2>5, <2>6
<1>7. Q \in Seq(Seq(Rec)) /\ Len(Q) = 3
  <2>1. Q \in [1 .. 3 -> Seq(Rec)]
    BY <1>5
  <2> HIDE DEF Q
  <2> QED BY <2>1, FunSeq
<1> HIDE DEF Q
<1>6. ASSUME NEW l \in 1 .. 3, NEW r \in Items(Q[l]) PROVE r \in Rec /\ Rank(r[1]) = l /\ r[1] \in S
  <2>1. PICK s \in Labelled(S, l) : r \in Items(b[s])
    BY <1>5
  <2>2. r[1] = s /\ r \in Rec
    BY <1>3, <2>1 DEF Items, Labelled
  <2>3. Rank(s) = l
    BY <2>1 DEF Rank, LABELS, Labelled
  <2> QED BY <2>1, <2>2, <2>3 DEF Labelled
<1>8. UNION {Items(Q[k]) : k \in 1 .. Len(Q)} = AllReceivers(S) \cap Usable
  <2>1. ASSUME NEW k \in 1 .. 3, NEW r \in Items(Q[k]) PROVE r \in AllReceivers(S) \cap Usable
    <3>1. PICK s \in Labelled(S, k) : r \in Items(b[s])
      BY <1>5
    <3> QED BY <1>3, <3>1 DEF AllReceivers, Labelled
  <2>2. ASSUME NEW r \in AllReceivers(S) \cap Usable PROVE \E k \in 1 .. 3 : r \in Items(Q[k])
    <3>1. PICK s \in S : r \in {<<s, Macs[s][j]>> : j \in 1 .. Len(Macs[s])}
      BY DEF AllReceivers
    <3>2. r \in Items(b[s])
      BY <1>3, <3>1
    <3>3. Label[s] = LABELS[Rank(s)] /\ Rank(s) \in 1 .. 3
      BY SessionsAssumption DEF Rank, LABELS
    <3>4. s \in Labelled(S, Rank(s))
      BY <3>3 DEF Labelled
    <3> QED BY <1>5, <3>2, <3>3, <3>4
  <2> QED BY <1>7, <2>1, <2>2
<1>9. ASSUME NEW k \in 1 .. Len(Q) PROVE Ordered(Q[k], ByLabel)
  <2>1. k \in 1 .. 3
    BY <1>7
  <2>2. PICK g : g = Q[k]
    OBVIOUS
  <2>3. g \in Seq(Rec) /\ Ordered(g, ByReceiver)
    BY <1>5, <2>1, <2>2
  <2>4. ASSUME NEW i \in 1 .. Len(g), NEW j \in 1 .. Len(g), i < j PROVE <<g[i], g[j]>> \in ByLabel
    <3>1. PICK v, w : v = g[i] /\ w = g[j]
      OBVIOUS
    <3>2. v \in Rec /\ w \in Rec /\ v \in Items(g) /\ w \in Items(g)
      BY <2>3, <3>1 DEF Items
    <3>3. Rank(v[1]) = k /\ Rank(w[1]) = k
      BY <1>6, <2>1, <2>2, <3>2
    <3>4. <<v, w>> \in ByReceiver
      BY <2>3, <2>4, <3>1 DEF Ordered
    <3>5. <<v, w>> \in ByLabel
      BY <3>2, <3>3, <3>4 DEF ByLabel
    <3> QED BY <3>1, <3>5
  <2> QED BY <2>2, <2>4 DEF Ordered
<1>10. ASSUME NEW k \in 1 .. Len(Q), NEW l \in 1 .. Len(Q), k < l,
              NEW v \in Items(Q[k]), NEW w \in Items(Q[l])
       PROVE  <<v, w>> \in ByLabel
  <2>1. v \in Rec /\ w \in Rec /\ Rank(v[1]) = k /\ Rank(w[1]) = l
    BY <1>6, <1>7
  <2> QED BY <1>10, <2>1 DEF ByLabel
<1>11. FlattenSeq(Q) \in Seq(Rec) /\ Items(FlattenSeq(Q)) = UNION {Items(Q[k]) : k \in 1 .. Len(Q)}
  BY <1>7, FlattenTyped, FlattenItems
<1>12. PICK R : R = ByLabel
  OBVIOUS
<1>13. Ordered(FlattenSeq(Q), R)
  BY <1>7, <1>9, <1>10, <1>12, FlattenFacts
<1> QED BY <1>4, <1>8, <1>11, <1>12, <1>13

\* The channel-6 receivers of the sessions S, and the dataset made of them.
Heard == {r \in Rec : r[1] \in Channel6}
Channel(S) == Iloc(Full(S), {i \in Rows(Full(S)) : Full(S)[i] \in Heard})
Data(S) == IF HasNone(Channel(S)) THEN WindowIndex(Channel(S)) ELSE <<>>

(* So has its channel-6 part, of those heard on channel 6.                   *)
LEMMA ChannelFacts ==
  ASSUME NEW S \in SUBSET (DOMAIN Label)
  PROVE  /\ Channel(S) \in Seq(Rec) /\ Ordered(Channel(S), ByLabel)
         /\ Items(Channel(S)) = AllReceivers(S) \cap Usable \cap Heard
<1>1. PICK m : m = Full(S)
  OBVIOUS
<1>2. PICK J : J = {i \in Rows(m) : m[i] \in Heard}
  OBVIOUS
<1>3. PICK R : R = ByLabel
  OBVIOUS
<1>4. m \in Seq(Rec) /\ Ordered(m, R) /\ Items(m) = AllReceivers(S) \cap Usable
  BY <1>1, <1>3, FullFacts
<1>5. Iloc(m, J) \in Seq(Rec) /\ Items(Iloc(m, J)) = {m[i] : i \in J \cap Rows(m)} /\ Ordered(Iloc(m, J), R)
  BY <1>4, RecIloc
<1>6. {m[i] : i \in J \cap Rows(m)} = Items(m) \cap Heard
  BY <1>2 DEF Items, Rows
<1> QED BY <1>1, <1>2, <1>3, <1>4, <1>5, <1>6 DEF Channel

(* The channel-6 part too depends on the recorded sessions alone.            *)
LEMMA ChannelIs ==
  ASSUME NEW x, x.sessions \in SUBSET (DOMAIN Label)
  PROVE  BuildChannel6Manifest(x) = Channel(x.sessions)
<1>1. PICK m : m = Full(x.sessions)
  OBVIOUS
<1>2. m \in Seq(Rec)
  BY <1>1, FullFacts
<1>3. \A i \in Rows(m) : m[i] \in Rec
  BY <1>2 DEF Rows
<1>4. {i \in Rows(m) : m[i][1] \in Channel6} = {i \in Rows(m) : m[i] \in Heard}
  BY <1>3 DEF Heard
<1>5. BuildFullManifest(x) = m
  BY <1>1, FullIs
<1>6. BuildChannel6Manifest(x) = Iloc(m, {i \in Rows(m) : m[i][1] \in Channel6})
  BY <1>5 DEF BuildChannel6Manifest, Chosen, Where
<1> QED BY <1>1, <1>4, <1>6 DEF Channel

(* So does the dataset of ml_2.                                              *)
LEMMA DataIs ==
  ASSUME NEW x, x.sessions \in SUBSET (DOMAIN Label)
  PROVE  LoadChannel6Dataset(x) = Data(x.sessions)
BY ChannelIs DEF LoadChannel6Dataset, Data

(* The windows of the dataset: in order, of recorded sessions, each once.    *)
LEMMA DataFacts ==
  ASSUME NEW S \in SUBSET (DOMAIN Label)
  PROVE  /\ Frame(Data(S)) /\ Ordered(Data(S), ByWindow(ByLabel)) /\ Within(Data(S), S)
         /\ \A i, j \in Rows(Data(S)) : Data(S)[i] = Data(S)[j] => i = j
<1>1. PICK m, R : m = Channel(S) /\ R = ByWindow(ByLabel)
  OBVIOUS
<1>2. m \in Seq(Rec) /\ Ordered(m, ByLabel) /\ Items(m) = AllReceivers(S) \cap Usable \cap Heard
  BY <1>1, ChannelFacts
<1>3. PICK f : f = Data(S)
  OBVIOUS
<1>4. f = WindowIndex(m) \/ f = <<>>
  BY <1>1, <1>3 DEF Data
<1>5. Frame(f) /\ Ordered(f, R) /\ Within(f, S)
  <2>1. CASE f = WindowIndex(m)
    <3>1. Frame(WindowIndex(m))
      BY <1>2, IndexFacts
    <3>2. Ordered(WindowIndex(m), ByWindow(ByLabel))
      BY <1>2, ByLabelAsymmetric, IndexFacts
    <3>3. \A r \in Items(m) : r[1] \in S
      BY <1>2 DEF AllReceivers
    <3>4. Within(WindowIndex(m), S)
      BY <1>2, <3>3, IndexWithin
    <3> QED BY <1>1, <2>1, <3>1, <3>2, <3>4
  <2>2. CASE f = <<>>
    BY <2>2 DEF Frame, Ordered, Within, Items
  <2> QED BY <1>4, <2>1, <2>2
<1>6. Asymmetric(R)
  BY <1>1, ByLabelAsymmetric, ByWindowAsymmetric
<1>7. \A i, j \in 1 .. Len(f) : f[i] = f[j] => i = j
  BY <1>5, <1>6, OrderedOnce DEF Frame
<1> QED BY <1>1, <1>3, <1>5, <1>7 DEF Rows

(* A dataset with as many windows as that of more sessions is the same.      *)
LEMMA DataAgain ==
  ASSUME NEW T \in SUBSET (DOMAIN Label), NEW S \in SUBSET T, Len(Data(S)) = Len(Data(T))
  PROVE  Data(S) = Data(T)
<1>1. PICK f, g, R : f = Data(S) /\ g = Data(T) /\ R = ByWindow(ByLabel)
  OBVIOUS
<1>2. f \in Seq(Win) /\ Ordered(f, R) /\ g \in Seq(Win) /\ Ordered(g, R)
  BY <1>1, DataFacts DEF Frame
<1>3. PICK m, n : m = Channel(S) /\ n = Channel(T)
  OBVIOUS
<1>4. m \in Seq(Rec) /\ n \in Seq(Rec) /\ Items(m) \subseteq Items(n)
  BY <1>3, ChannelFacts, MoreReceivers
<1>5. HasNone(m) => HasNone(n)
  <2>1. ToSet(m) = Items(m) /\ ToSet(n) = Items(n)
    BY <1>4, ToSetItems
  <2> QED BY <1>4, <2>1 DEF HasNone
<1>6. Asymmetric(R)
  BY <1>1, ByLabelAsymmetric, ByWindowAsymmetric
<1>7. CASE HasNone(m)
  <2>1. f = WindowIndex(m) /\ g = WindowIndex(n)
    BY <1>1, <1>3, <1>5, <1>7 DEF Data
  <2>2. Items(f) = UNION {Items(Cuts(r)) : r \in Items(m)}
    BY <1>4, <2>1, IndexFacts
  <2>3. Items(g) = UNION {Items(Cuts(r)) : r \in Items(n)}
    BY <1>4, <2>1, IndexFacts
  <2>4. Items(f) \subseteq Items(g)
    BY <1>4, <2>2, <2>3
  <2> QED BY <1>1, <1>2, <1>6, <2>4, SameLength
<1>8. CASE ~HasNone(m)
  <2>1. f = <<>>
    BY <1>1, <1>3, <1>8 DEF Data
  <2>2. Len(g) = 0
    BY <1>1, <2>1
  <2>3. g = <<>>
    BY <1>2, <2>2
  <2> QED BY <1>1, <2>1, <2>3
<1> QED BY <1>7, <1>8

(* Features computed file by file and written back to the rows of each file  *)
(* are those of the frame, row by row.                                       *)
LEMMA FeaturesOf ==
  ASSUME NEW f, Frame(f) PROVE BuildFeatureMatrix(f) = f
<1> DEFINE same(i) == {j \in Rows(f) : <<f[j][1], f[j][2]>> = <<f[i][1], f[i][2]>>}
           before(i) == {j \in 1 .. i : <<f[j][1], f[j][2]>> = <<f[i][1], f[i][2]>>}
<1>1. BuildFeatureMatrix(f) = [i \in Rows(f) |-> Iloc(f, same(i))[Cardinality(before(i))]]
  BY DEF BuildFeatureMatrix, Chosen, Where
<1>2. f = [i \in Rows(f) |-> f[i]] /\ Rows(f) = 1 .. Len(f) /\ Len(f) \in Nat
  BY DEF Frame, Rows
<1>3. ASSUME NEW i \in Rows(f) PROVE Iloc(f, same(i))[Cardinality(before(i))] = f[i]
  <2>1. PICK J : J = same(i)
    OBVIOUS
  <2>2. Takes(Iloc(f, J), f, J)
    BY IlocFacts DEF Frame
  <2>3. J \cap (1 .. i) = before(i)
    BY <1>2, <2>1
  <2>4. i \in J \cap Rows(f)
    BY <2>1
  <2>5. Iloc(f, J)[Cardinality(J \cap (1 .. i))] = f[i]
    BY <2>2, <2>4 DEF Takes
  <2> QED BY <2>1, <2>3, <2>5
<1> HIDE DEF same, before
<1>4. [i \in Rows(f) |-> Iloc(f, same(i))[Cardinality(before(i))]] = [i \in Rows(f) |-> f[i]]
  BY <1>3
<1> QED BY <1>1, <1>2, <1>4

-----------------------------------------------------------------------------
(* The classical scripts of ml_2 *)

\* The matrix on disk is that of the dataset, when it has as many rows.
Built(x) ==
  /\ x.sessions \in SUBSET (DOMAIN Label)
  /\ Len(x.X2) = Len(Data(x.sessions)) => x.X2 = Data(x.sessions)

(* The matrix of ml_2, read from disk or rebuilt, has the dataset's rows.    *)
LEMMA MatrixIs ==
  ASSUME NEW x, Built(x)
  PROVE  /\ Frame(LoadChannel6Dataset(x)) /\ Within(LoadChannel6Dataset(x), x.sessions)
         /\ FeatureMatrixFor(x, LoadChannel6Dataset(x)) = LoadChannel6Dataset(x)
<1>1. PICK f : f = LoadChannel6Dataset(x)
  OBVIOUS
<1>2. f = Data(x.sessions)
  BY <1>1, DataIs DEF Built
<1>3. Frame(f) /\ Within(f, x.sessions)
  BY <1>2, DataFacts DEF Built
<1>4. Len(x.X2) = Len(f) => x.X2 = f
  BY <1>2 DEF Built
<1>5. BuildFeatureMatrix(f) = f
  BY <1>3, FeaturesOf
<1>6. FeatureMatrixFor(x, f) = f
  BY <1>4, <1>5 DEF FeatureMatrixFor
<1> QED BY <1>1, <1>3, <1>6

(* A matrix that is saved is that of the dataset.                            *)
LEMMA GoodSaveFeatures ==
  ASSUME NEW x, Built(x) PROVE Good(SaveFeatures(x, LoadChannel6Dataset(x)), x)
<1>1. PICK f : f = LoadChannel6Dataset(x)
  OBVIOUS
<1>2. BuildFeatureMatrix(f) = f
  BY <1>1, MatrixIs, FeaturesOf
<1>3. PICK st : st = [op |-> "save_X2", X |-> f]
  OBVIOUS
<1>4. OK(st, x)
  BY <1>1, <1>3 DEF OK
<1>5. SaveFeatures(x, f) = <<>> \/ SaveFeatures(x, f) = <<st>>
  BY <1>2, <1>3 DEF SaveFeatures
<1>6. Good(<<st>>, x)
  BY <1>4, GoodOne
<1> QED BY <1>1, <1>5, <1>6, GoodNone

(* A script of ml_2 raises on an empty dataset or goes on.                   *)
LEMMA GoodOnDataset ==
  ASSUME NEW x, NEW f, NEW steps, Good(steps, x) PROVE Good(OnDataset(f, steps), x)
BY GoodSteps DEF OnDataset

\* A fold a row of this stage may be evaluated on.
Sound(f, sp, stage) ==
  Split(f, sp) /\ ~Leaks(f, sp) /\ (stage \in OpenStages => Open(f, sp))

(* A row fitted on some of the training rows and decided at the test scores. *)
LEMMA GoodFewer ==
  ASSUME NEW x, NEW f, NEW sp, NEW name, NEW stage, Sound(f, sp, stage), NEW idx \in SUBSET sp.train,
         name \in CutsAtTest,
         name \in KnownScripts => \A i \in idx : LabelOf(f[i]) = "authorized"
  PROVE  Good(Eval(DecidedAtTest(Row(name, stage, Fewer(sp, idx), f, f))), x)
<1>1. PICK sq : sq = Fewer(sp, idx)
  OBVIOUS
<1>2. sq.train = idx /\ ~Leaks(f, sq) /\ (stage \in OpenStages => Open(f, sq))
  BY <1>1, FewerRows DEF Sound
<1>3. PICK D : D = Day3Ch6Manifest(x)
  OBVIOUS
<1>4. name # "train_day3_ch6_model"
  BY DEF CutsAtTest
<1>5. PICK row : row = Row(name, stage, sq, f, f)
  OBVIOUS
<1>6. Fair(row, D)
  BY <1>2, <1>4, <1>5, RowFair
<1>7. row = Sample(name, stage, sq.key, At(f, sq.train), At(f, sq.test), {})
  BY <1>5, RowIsSample
<1>8. Fair(DecidedAtTest(row), D)
  BY <1>6, <1>7, DecidedFair
<1> QED BY <1>1, <1>3, <1>5, <1>8, GoodEval

(* Training on all the rows changes nothing.                                 *)
LEMMA FewerAll ==
  ASSUME NEW f, NEW sp, Split(f, sp) PROVE Fewer(sp, sp.train) = sp
BY DEF Fewer, Split

\* The models of the classical scripts; those of known walks fit a model of them.
Fits(j) ==
  /\ j.model \in {"binary", "binary_svc", "known_svm", "known", "generative", "pretrained"}
  /\ j.script \in KnownScripts => j.model \in {"known", "generative"}
  /\ IF j.model = "pretrained" THEN j.script = "train_contrastive" ELSE j.script \in CutsAtTest

(* A fold of a classical model: what it fits is of the training side.        *)
LEMMA GoodFoldSteps ==
  ASSUME NEW x, NEW j, Fits(j), NEW stage, NEW f, Frame(f), NEW sp, Sound(f, sp, stage)
  PROVE  Good(FoldSteps(j, stage, f, f, sp), x)
<1>1. PICK K, C, E : K = Known(f, sp.train) /\ C = Capped(sp.train) /\ E = Capped(K)
  OBVIOUS
<1>2. K \subseteq sp.train /\ \A i \in K : LabelOf(f[i]) = "authorized"
  BY <1>1 DEF Known
<1>3. sp.train \in SUBSET Rows(f)
  BY DEF Sound, Split
<1>4. C \subseteq sp.train /\ E \subseteq K
  BY <1>1, <1>2, <1>3, CappedRows
<1>5. j.model # "pretrained" => j.script \in CutsAtTest
  BY DEF Fits
<1>6. ASSUME j.model # "pretrained"
      PROVE  Good(Eval(DecidedAtTest(Row(j.script, stage, Fewer(sp, K), f, f))), x)
  BY <1>2, <1>5, <1>6, GoodFewer
<1>7. ASSUME j.script \notin KnownScripts, j.model # "pretrained", NEW idx \in SUBSET sp.train
      PROVE  Good(Eval(DecidedAtTest(Row(j.script, stage, Fewer(sp, idx), f, f))), x)
  BY <1>5, <1>7, GoodFewer
<1>8. Fewer(sp, sp.train) = sp
  BY FewerAll DEF Sound
<1>9. KnownFold(j.script, stage, f, f, sp) = Eval(DecidedAtTest(Row(j.script, stage, Fewer(sp, K), f, f)))
  BY <1>1 DEF KnownFold, Fewer
<1>10. CASE j.model = "binary"
  <2>1. j.script \notin KnownScripts
    BY <1>10 DEF Fits
  <2>2. FoldSteps(j, stage, f, f, sp) = BinaryFold(j.script, stage, f, f, sp)
    BY <1>10 DEF FoldSteps
  <2>3. Good(Eval(DecidedAtTest(Row(j.script, stage, sp, f, f))), x)
    BY <1>7, <1>8, <1>10, <2>1
  <2> QED BY <2>2, <2>3, GoodSteps DEF BinaryFold
<1>11. CASE j.model = "binary_svc"
  <2>1. j.script \notin KnownScripts
    BY <1>11 DEF Fits
  <2>2. FoldSteps(j, stage, f, f, sp) = BinaryFold(j.script, stage, f, f, Fewer(sp, C))
    BY <1>1, <1>11 DEF FoldSteps, Fewer
  <2>3. Good(Eval(DecidedAtTest(Row(j.script, stage, Fewer(sp, C), f, f))), x)
    BY <1>4, <1>7, <1>11, <2>1
  <2> QED BY <2>2, <2>3, GoodSteps DEF BinaryFold
<1>12. CASE j.model = "known_svm"
  <2>1. j.script \notin KnownScripts
    BY <1>12 DEF Fits
  <2>2. PICK sq : sq = Fewer(sp, E)
    OBVIOUS
  <2>3. sq.train = E /\ Fewer(sq, E) = sq
    <3>1. Split(f, sp) /\ E \in SUBSET sp.train
      BY <1>2, <1>4 DEF Sound
    <3>2. Split(f, sq) /\ sq.train = E
      BY <2>2, <3>1, FewerRows
    <3> QED BY <3>2, FewerAll
  <2>4. Known(f, E) = E
    BY <1>2, <1>4 DEF Known
  <2>5. KnownFold(j.script, stage, f, f, sq) = Eval(DecidedAtTest(Row(j.script, stage, sq, f, f)))
    <3>1. KnownFold(j.script, stage, f, f, sq)
            = Eval(DecidedAtTest(Row(j.script, stage, Fewer(sq, Known(f, sq.train)), f, f)))
      BY DEF KnownFold, Fewer
    <3> QED BY <2>3, <2>4, <3>1
  <2>6. FoldSteps(j, stage, f, f, sp) = KnownFold(j.script, stage, f, f, sq)
    BY <1>1, <1>12, <2>2 DEF FoldSteps, Fewer
  <2>7. Good(Eval(DecidedAtTest(Row(j.script, stage, Fewer(sp, E), f, f))), x)
    BY <1>2, <1>4, <1>7, <1>12, <2>1
  <2> QED BY <2>2, <2>5, <2>6, <2>7
<1>13. CASE j.model = "known"
  <2>1. FoldSteps(j, stage, f, f, sp) = KnownFold(j.script, stage, f, f, sp)
    BY <1>13 DEF FoldSteps
  <2> QED BY <1>6, <1>9, <1>13, <2>1
<1>14. CASE j.model = "generative"
  <2>1. PICK known : known = KnownFold(j.script, stage, f, f, sp)
    OBVIOUS
  <2>2. FoldSteps(j, stage, f, f, sp) = (known \o LogRows(j.file)) \o known
    BY <1>14, <2>1 DEF FoldSteps
  <2>3. Good(known, x)
    BY <1>6, <1>9, <1>14, <2>1
  <2> QED BY <2>2, <2>3, GoodLogged, GoodConcat
<1>15. CASE j.model = "pretrained"
  <2>1. j.script = "train_contrastive"
    BY <1>15 DEF Fits
  <2>2. PICK N, row, P, D : /\ N = "train_contrastive" /\ row = Row(N, stage, sp, f, f)
                            /\ P = ToSet(f) /\ D = Day3Ch6Manifest(x)
    OBVIOUS
  <2>3. FoldSteps(j, stage, f, f, sp) = Eval([row EXCEPT !.pre = P])
    BY <1>15, <2>1, <2>2 DEF FoldSteps, PretrainedFold
  <2>4. N \notin KnownScripts /\ N # "train_day3_ch6_model"
    BY <2>2 DEF KnownScripts
  <2>5. Fair(row, D)
    BY <2>2, <2>4, RowFair DEF Sound
  <2>6. row = Sample(N, stage, sp.key, At(f, sp.train), At(f, sp.test), {})
    BY <2>2, RowIsSample
  <2>7. Fair([row EXCEPT !.pre = P], D)
    BY <2>2, <2>5, <2>6, PretrainedFair
  <2> QED BY <2>2, <2>3, <2>7, GoodEval
<1> QED BY <1>10, <1>11, <1>12, <1>13, <1>14, <1>15 DEF Fits

(* The stranger folds of a classical model.                                  *)
LEMMA GoodEvaluateOpenSet ==
  ASSUME NEW x, NEW f, Frame(f), NEW j, Fits(j) PROVE Good(EvaluateOpenSet(f, x, f, j), x)
<1> DEFINE P == OpenSet(f, x)
           q == [k \in 1 .. Len(P) |->
                   Asserted(f, P[k], FoldSteps(j, OpenStage, f, f, P[k]) \o LogRows(j.file))]
<1>1. EvaluateOpenSet(f, x, f, j) = FlattenSeq(q)
  BY DEF EvaluateOpenSet, ForEach, Concat
<1>2. Folds(f, P) /\ \A sp \in Items(P) : ~Leaks(f, sp) /\ Open(f, sp)
  BY PersonFolds DEF OpenSet
<1> HIDE DEF P
<1>3. Len(P) \in Nat
  BY <1>2, FoldCount
<1>4. ASSUME NEW sp \in Items(P)
      PROVE  Good(Asserted(f, sp, FoldSteps(j, OpenStage, f, f, sp) \o LogRows(j.file)), x)
  <2>1. Sound(f, sp, OpenStage)
    BY <1>2 DEF Sound, Folds
  <2> QED BY <2>1, GoodFoldSteps, GoodLogged, GoodAsserted
<1>5. \A k \in 1 .. Len(P) : Good(q[k], x)
  BY <1>4, ItemAt
<1> QED BY <1>1, <1>3, <1>5, GoodLoop

(* The day folds with both labels on both sides do not leak.                 *)
LEMMA ScorableFoldsOf ==
  ASSUME NEW f, Frame(f)
  PROVE  Folds(f, ScorableDays(f)) /\ \A sp \in Items(ScorableDays(f)) : ~Leaks(f, sp)
<1> DEFINE idx == {i \in Rows(LeaveOneDayOut(f)) : /\ ~NoAuthorized(f, LeaveOneDayOut(f)[i])
                                                   /\ ~OneLabel(f, LeaveOneDayOut(f)[i])}
<1>1. ScorableDays(f) = Iloc(LeaveOneDayOut(f), idx)
  BY DEF ScorableDays, Chosen, Where
<1>2. PICK P : P = LeaveOneDayOut(f)
  OBVIOUS
<1>3. Folds(f, P) /\ \A sp \in Items(P) : ~Leaks(f, sp)
  BY <1>2, DayFolds
<1> HIDE DEF idx
<1>4. Folds(f, Iloc(P, idx)) /\ Items(Iloc(P, idx)) \subseteq Items(P)
  BY <1>3, FoldsChosen
<1> QED BY <1>1, <1>2, <1>3, <1>4

(* The day folds of a classical model.                                       *)
LEMMA GoodEvaluateCrossDay ==
  ASSUME NEW x, NEW f, Frame(f), NEW j, Fits(j) PROVE Good(EvaluateCrossDay(f, f, j), x)
<1> DEFINE P == ScorableDays(f)
           q == [k \in 1 .. Len(P) |-> FoldSteps(j, DayStage, f, f, P[k]) \o LogRows(j.file)]
<1>1. EvaluateCrossDay(f, f, j) = FlattenSeq(q)
  BY DEF EvaluateCrossDay, ForEach, Concat
<1>2. Folds(f, P) /\ \A sp \in Items(P) : ~Leaks(f, sp)
  BY ScorableFoldsOf
<1> HIDE DEF P
<1>3. Len(P) \in Nat
  BY <1>2, FoldCount
<1>4. DayStage \notin OpenStages
  BY DEF DayStage, OpenStages, OpenStage
<1>5. ASSUME NEW sp \in Items(P) PROVE Good(FoldSteps(j, DayStage, f, f, sp) \o LogRows(j.file), x)
  <2>1. Sound(f, sp, DayStage)
    BY <1>2, <1>4 DEF Sound, Folds
  <2> QED BY <2>1, GoodFoldSteps, GoodLogged
<1>6. \A k \in 1 .. Len(P) : Good(q[k], x)
  BY <1>5, ItemAt
<1> QED BY <1>1, <1>3, <1>6, GoodLoop

(* The five session-disjoint folds of a classical model.                     *)
LEMMA GoodEvaluateClosedSet ==
  ASSUME NEW x, NEW f, Frame(f), NEW j, Fits(j) PROVE Good(EvaluateClosedSet(f, x, f, j), x)
<1> DEFINE P == SessionDisjointKfold2(f, x.order)
           s == "session_disjoint_5fold"
           q == [k \in 1 .. Len(P) |->
                   Asserted(f, P[k], FoldSteps(j, s, f, f, P[k]) \o LogRows(j.file))]
<1>1. EvaluateClosedSet(f, x, f, j) = FlattenSeq(q)
  BY DEF EvaluateClosedSet, ForEach, Concat
<1>2. PICK n : n = Smaller(NSplits, Cardinality(SessionsOf(f)))
  OBVIOUS
<1>3. n \in Nat
  BY <1>2, FrameSessions, NSplitsAssumption DEF Smaller
<1>4. PICK groups : groups = Permutation(SessionsOf(f), x.order)
  OBVIOUS
<1>5. P = GroupKFold(f, Session, groups, n)
  BY <1>2, <1>4 DEF SessionDisjointKfold2
<1>6. Folds(f, P) /\ \A sp \in Items(P) : ~Leaks(f, sp)
  BY <1>3, <1>5, KfoldFolds
<1> HIDE DEF P
<1>7. Len(P) \in Nat
  BY <1>6, FoldCount
<1>8. s \notin OpenStages
  BY DEF OpenStages, OpenStage
<1>9. ASSUME NEW sp \in Items(P)
      PROVE  Good(Asserted(f, sp, FoldSteps(j, s, f, f, sp) \o LogRows(j.file)), x)
  <2>1. Sound(f, sp, s)
    BY <1>6, <1>8 DEF Sound, Folds
  <2> QED BY <2>1, GoodFoldSteps, GoodLogged, GoodAsserted
<1>10. \A k \in 1 .. Len(P) : Good(q[k], x)
  BY <1>9, ItemAt
<1> QED BY <1>1, <1>7, <1>10, GoodLoop

(* The three loops of one model.                                             *)
LEMMA GoodModel ==
  ASSUME NEW x, NEW f, Frame(f), NEW j, Fits(j)
  PROVE  /\ Good(EvaluateOpenSet(f, x, f, j), x) /\ Good(EvaluateCrossDay(f, f, j), x)
         /\ Good(EvaluateClosedSet(f, x, f, j), x)
         /\ Good((EvaluateOpenSet(f, x, f, j) \o EvaluateCrossDay(f, f, j))
                   \o EvaluateClosedSet(f, x, f, j), x)
<1>1. PICK r, s, t : /\ r = EvaluateOpenSet(f, x, f, j) /\ s = EvaluateCrossDay(f, f, j)
                     /\ t = EvaluateClosedSet(f, x, f, j)
  OBVIOUS
<1>2. Good(r, x) /\ Good(s, x) /\ Good(t, x)
  BY <1>1, GoodEvaluateOpenSet, GoodEvaluateCrossDay, GoodEvaluateClosedSet
<1>3. Good((r \o s) \o t, x)
  BY <1>2, GoodThree
<1> QED BY <1>1, <1>2, <1>3

(* train_gbm.                                                                *)
LEMMA GoodTrainGbm == ASSUME NEW x, Built(x) PROVE Good(TrainGbm(x), x)
<1>1. PICK f, j : f = LoadChannel6Dataset(x) /\ j = Job("train_gbm", "binary", "gbm_log")
  OBVIOUS
<1>2. Frame(f) /\ FeatureMatrixFor(x, f) = f
  BY <1>1, MatrixIs
<1>3. Fits(j)
  BY <1>1 DEF Fits, Job, KnownScripts, CutsAtTest
<1>4. PICK s, r, t, u : /\ s = SaveFeatures(x, f) /\ r = EvaluateOpenSet(f, x, f, j)
                        /\ t = EvaluateCrossDay(f, f, j) /\ u = EvaluateClosedSet(f, x, f, j)
  OBVIOUS
<1>5. TrainGbm(x) = OnDataset(f, ((s \o r) \o t) \o u)
  BY <1>1, <1>2, <1>4 DEF TrainGbm
<1>6. Good(s, x) /\ Good(r, x) /\ Good(t, x) /\ Good(u, x)
  BY <1>1, <1>2, <1>3, <1>4, GoodSaveFeatures, GoodModel
<1> QED BY <1>5, <1>6, GoodFour, GoodOnDataset

(* train_cusum: a model of authorized walks.                                 *)
LEMMA GoodTrainCusum == ASSUME NEW x, Built(x) PROVE Good(TrainCusum(x), x)
<1>1. PICK f, j : f = LoadChannel6Dataset(x) /\ j = Job("train_cusum", "known", "cusum_log")
  OBVIOUS
<1>2. Frame(f) /\ FeatureMatrixFor(x, f) = f
  BY <1>1, MatrixIs
<1>3. Fits(j)
  BY <1>1 DEF Fits, Job, KnownScripts, CutsAtTest
<1>4. PICK s, r, t : /\ s = SaveFeatures(x, f) /\ r = EvaluateOpenSet(f, x, f, j)
                     /\ t = EvaluateCrossDay(f, f, j)
  OBVIOUS
<1>5. TrainCusum(x) = OnDataset(f, (s \o r) \o t)
  BY <1>1, <1>2, <1>4 DEF TrainCusum
<1>6. Good(s, x) /\ Good(r, x) /\ Good(t, x)
  BY <1>1, <1>2, <1>3, <1>4, GoodSaveFeatures, GoodModel
<1> QED BY <1>5, <1>6, GoodThree, GoodOnDataset

(* train_generative_hard_negative: authorized walks and what is made from them. *)
LEMMA GoodTrainGenerativeHardNegative ==
  ASSUME NEW x, Built(x) PROVE Good(TrainGenerativeHardNegative(x), x)
<1>1. PICK f, j : /\ f = LoadChannel6Dataset(x)
                  /\ j = Job("train_generative_hard_negative", "generative", "generative_hard_negative_log")
  OBVIOUS
<1>2. Frame(f) /\ FeatureMatrixFor(x, f) = f
  BY <1>1, MatrixIs
<1>3. Fits(j)
  BY <1>1 DEF Fits, Job, KnownScripts, CutsAtTest
<1>4. PICK s, r : s = SaveFeatures(x, f) /\ r = EvaluateOpenSet(f, x, f, j)
  OBVIOUS
<1>5. TrainGenerativeHardNegative(x) = OnDataset(f, s \o r)
  BY <1>1, <1>2, <1>4 DEF TrainGenerativeHardNegative
<1>6. Good(s, x) /\ Good(r, x)
  BY <1>1, <1>2, <1>3, <1>4, GoodSaveFeatures, GoodModel
<1> QED BY <1>5, <1>6, GoodConcat, GoodOnDataset

(* train_contrastive: pretrained on the training side alone.                 *)
LEMMA GoodTrainContrastive == ASSUME NEW x, Built(x) PROVE Good(TrainContrastive(x), x)
<1>1. PICK f, j : f = LoadChannel6Dataset(x) /\ j = Job("train_contrastive", "pretrained", "contrastive_log")
  OBVIOUS
<1>2. Frame(f)
  BY <1>1, MatrixIs
<1>3. Fits(j)
  BY <1>1 DEF Fits, Job, KnownScripts, CutsAtTest
<1>4. PICK r, t : r = EvaluateOpenSet(f, x, f, j) /\ t = EvaluateCrossDay(f, f, j)
  OBVIOUS
<1>5. TrainContrastive(x) = OnDataset(f, r \o t)
  BY <1>1, <1>4 DEF TrainContrastive
<1>6. Good(r, x) /\ Good(t, x)
  BY <1>2, <1>3, <1>4, GoodModel
<1> QED BY <1>5, <1>6, GoodConcat, GoodOnDataset

(* train_svm_gait: the binary models and the one of authorized walks.        *)
LEMMA GoodTrainSvmGait == ASSUME NEW x, Built(x) PROVE Good(TrainSvmGait(x), x)
<1> DEFINE f == LoadChannel6Dataset(x)
           zoo == <<"known_svm", "binary_svc", "known_svm">>
           job(m) == Job("train_svm_gait", m, "svm_gait_log")
           body(m) == (EvaluateOpenSet(f, x, f, job(m)) \o EvaluateCrossDay(f, f, job(m)))
                        \o EvaluateClosedSet(f, x, f, job(m))
           q == [k \in 1 .. Len(zoo) |-> body(zoo[k])]
<1>1. Frame(f) /\ FeatureMatrixFor(x, f) = f
  BY MatrixIs
<1>2. TrainSvmGait(x) = OnDataset(f, SaveFeatures(x, f) \o FlattenSeq(q))
  BY <1>1 DEF TrainSvmGait, ForEach, Concat
<1>3. ASSUME NEW m, m \in {"known_svm", "binary_svc"} PROVE Good(body(m), x)
  <2>1. PICK j : j = job(m)
    OBVIOUS
  <2>2. Fits(j)
    BY <1>3, <2>1 DEF Fits, Job, KnownScripts, CutsAtTest
  <2> HIDE DEF f, job
  <2> QED BY <1>1, <2>1, <2>2, GoodModel
<1>4. Len(zoo) = 3 /\ \A k \in 1 .. 3 : zoo[k] \in {"known_svm", "binary_svc"}
  OBVIOUS
<1>5. PICK s : s = SaveFeatures(x, f)
  OBVIOUS
<1>6. Good(s, x)
  BY <1>5, GoodSaveFeatures
<1> HIDE DEF f, body, zoo
<1>7. \A k \in 1 .. Len(zoo) : Good(q[k], x)
  BY <1>3, <1>4
<1>8. Good(FlattenSeq(q), x)
  BY <1>4, <1>7, GoodLoop
<1> HIDE DEF q
<1>9. Good(s \o FlattenSeq(q), x)
  BY <1>6, <1>8, GoodConcat
<1> QED BY <1>2, <1>5, <1>9, GoodOnDataset

-----------------------------------------------------------------------------
(* The scripts whose folds run in parallel *)

\* The models that run in a pool; those of known walks are embeddings, and the
\* rows of MAML are disclosed as adapted on the held-out day.
Embeds(j) ==
  /\ j.model \in {"embedding", "maml", "classifier"}
  /\ j.script # "train_day3_ch6_model"
  /\ IF j.model = "embedding" THEN j.script \in CutsAtTest ELSE j.script \notin KnownScripts

(* Centroids and threshold of an embedding come from different windows.      *)
LEMMA KnownRow ==
  ASSUME NEW f, Frame(f), \A i, k \in Rows(f) : f[i] = f[k] => i = k, NEW name, NEW stage,
         NEW sp, Sound(f, sp, stage), name \in CutsAtTest, NEW D
  PROVE  Fair(SplitKnownTrainCalib(name, stage, f, sp), D)
<1>1. PICK K, T, A : K = Known(f, sp.train) /\ T = CalibSlice(K) /\ A = K \ T
  OBVIOUS
<1>2. K \subseteq sp.train /\ sp.train \subseteq Rows(f) /\ \A i \in K : LabelOf(f[i]) = "authorized"
  BY <1>1 DEF Known, Sound, Split
<1>3. T \subseteq K
  BY <1>1, <1>2, CalibRows
<1>4. At(f, A) \cap At(f, T) = {}
  <2>1. \A i \in A, k \in T : f[i] # f[k]
    BY <1>1, <1>2, <1>3
  <2> QED BY <2>1 DEF At
<1>5. PICK sq : sq = Fewer(sp, A)
  OBVIOUS
<1>6. sq.train = A /\ sq.test = sp.test /\ sq.key = sp.key
  BY <1>1, <1>2, <1>5, FewerRows DEF Sound
<1>7. PICK U : U = At(f, T)
  OBVIOUS
<1>8. PICK row : row = [Row(name, stage, sq, f, f) EXCEPT !.tune = U]
  OBVIOUS
<1>9. row = Sample(name, stage, sp.key, At(f, A), At(f, sp.test), At(f, T))
  BY <1>6, <1>7, <1>8, TunedRowIs
<1>10. A \in SUBSET sp.train /\ T \in SUBSET sp.train
  BY <1>1, <1>2, <1>3
<1>11. \A i \in T : LabelOf(f[i]) = "authorized"
  BY <1>2, <1>3
<1>12. \A i \in A : LabelOf(f[i]) = "authorized"
  BY <1>1, <1>2
<1>13. ~Leaks(f, sp) /\ (stage \in OpenStages => Open(f, sp))
  BY DEF Sound
<1>14. Fair(Sample(name, stage, sp.key, At(f, A), At(f, sp.test), At(f, T)), D)
  <2>1. name # "train_day3_ch6_model"
    BY DEF CutsAtTest
  <2> QED BY <1>4, <1>10, <1>11, <1>12, <1>13, <2>1, TunedFair
<1>15. SplitKnownTrainCalib(name, stage, f, sp) = DecidedAtTest(row)
  BY <1>1, <1>5, <1>7, <1>8 DEF SplitKnownTrainCalib, Fewer, At
<1>16. Fair(DecidedAtTest(row), D)
  BY <1>9, <1>14, DecidedFair
<1> QED BY <1>15, <1>16

(* MAML's rows say they were adapted on the day they are tested on.          *)
LEMMA MamlRowFair == ASSUME NEW f, NEW sp, NEW D PROVE Fair(MamlRow(f, sp), D)
<1>1. PICK sq : sq = [sp EXCEPT !.train = sp.train \cup CalibSlice(sp.test),
                                !.test = sp.test \ CalibSlice(sp.test)]
  OBVIOUS
<1>2. PICK name, stage : name = "train_maml" /\ stage = "cross_day_loo_with_calib"
  OBVIOUS
<1>3. MamlRow(f, sp) = Row(name, stage, sq, f, f)
  BY <1>1, <1>2 DEF MamlRow
<1>4. stage \in Disclosed /\ stage \notin OpenStages /\ name \notin KnownScripts
      /\ name # "train_day3_ch6_model"
  BY <1>2 DEF Disclosed, OpenStages, OpenStage, KnownScripts
<1> QED BY <1>3, <1>4, RowFair

(* The row of a pooled fold.                                                 *)
LEMMA RowOfFair ==
  ASSUME NEW f, Frame(f), NEW j, NEW stage, Embeds(j),
         j.model = "embedding" => \A i, k \in Rows(f) : f[i] = f[k] => i = k,
         NEW sp, Sound(f, sp, stage), NEW D
  PROVE  Fair(RowOf(j, stage, f, sp), D)
<1>1. CASE j.model = "embedding"
  <2>1. RowOf(j, stage, f, sp) = SplitKnownTrainCalib(j.script, stage, f, sp)
    BY <1>1 DEF RowOf
  <2> QED BY <1>1, <2>1, KnownRow DEF Embeds
<1>2. CASE j.model = "maml"
  <2>1. RowOf(j, stage, f, sp) = MamlRow(f, sp)
    BY <1>2 DEF RowOf
  <2> QED BY <2>1, MamlRowFair
<1>3. CASE j.model = "classifier"
  <2>1. RowOf(j, stage, f, sp) = Row(j.script, stage, sp, f, f)
    BY <1>3 DEF RowOf
  <2>2. j.script \notin KnownScripts /\ j.script # "train_day3_ch6_model"
    BY <1>3 DEF Embeds
  <2>3. ~Leaks(f, sp) /\ (stage \in OpenStages => Open(f, sp))
    BY DEF Sound
  <2>4. Fair(Row(j.script, stage, sp, f, f), D)
    BY <2>2, <2>3, RowFair
  <2> QED BY <2>1, <2>4
<1> QED BY <1>1, <1>2, <1>3 DEF Embeds

(* A pool of folds.                                                          *)
LEMMA GoodPool ==
  ASSUME NEW x, NEW f, Frame(f), NEW folds, Folds(f, folds), NEW j, NEW stage, Embeds(j),
         j.model = "embedding" => \A i, k \in Rows(f) : f[i] = f[k] => i = k,
         \A sp \in Items(folds) : Sound(f, sp, stage)
  PROVE  Good(Pool(f, folds, stage, j), x)
<1>1. PICK rows : rows = [k \in 1 .. Len(folds) |-> RowOf(j, stage, f, folds[k])]
  OBVIOUS
<1>2. Len(folds) \in Nat
  BY FoldCount
<1>3. PICK D : D = Day3Ch6Manifest(x)
  OBVIOUS
<1>4. ASSUME NEW k \in 1 .. Len(folds) PROVE Fair(RowOf(j, stage, f, folds[k]), D)
  <2>1. PICK sp : sp = folds[k]
    OBVIOUS
  <2>2. Sound(f, sp, stage)
    BY <2>1, ItemAt
  <2> QED BY <2>1, <2>2, RowOfFair
<1>5. PICK W : W = {RowOf(j, stage, f, folds[k]) : k \in 1 .. Len(folds)}
  OBVIOUS
<1>6. rows \in [1 .. Len(folds) -> W]
  BY <1>1, <1>5
<1>7. rows \in Seq(W)
  BY <1>2, <1>6, FunSeq
<1>8. rows \in Seq(Items(rows)) /\ Items(rows) \subseteq W
  BY <1>7, SeqItems
<1>9. \A row \in Items(rows) : Fair(row, D)
  BY <1>4, <1>5, <1>8
<1>10. PICK st : st = [op |-> "pool", file |-> j.file, rows |-> rows]
  OBVIOUS
<1>11. OK(st, x)
  BY <1>3, <1>8, <1>9, <1>10 DEF OK
<1>12. Pool(f, folds, stage, j) = <<st>>
  BY <1>1, <1>10 DEF Pool
<1> QED BY <1>11, <1>12, GoodOne

(* The folds of a script that runs them in parallel.                         *)
LEMMA GoodEvaluateInParallel ==
  ASSUME NEW x, NEW f, Frame(f), NEW days, Folds(f, days), \A sp \in Items(days) : ~Leaks(f, sp),
         NEW j, Embeds(j),
         j.model = "embedding" => \A i, k \in Rows(f) : f[i] = f[k] => i = k
  PROVE  Good(EvaluateInParallel(f, x, days, j), x)
<1>1. PICK P : P = OpenSet(f, x)
  OBVIOUS
<1>2. Folds(f, P) /\ \A sp \in Items(P) : ~Leaks(f, sp) /\ Open(f, sp)
  BY <1>1, PersonFolds DEF OpenSet
<1>3. \A sp \in Items(P) : Sound(f, sp, OpenStage)
  BY <1>2 DEF Sound, Folds
<1>4. DayStage \notin OpenStages
  BY DEF DayStage, OpenStages, OpenStage
<1>5. \A sp \in Items(days) : Sound(f, sp, DayStage)
  BY <1>4 DEF Sound, Folds
<1>6. Good(Pool(f, P, OpenStage, j), x)
  BY <1>2, <1>3, GoodPool
<1>7. Good(Pool(f, days, DayStage, j), x)
  BY <1>5, GoodPool
<1>8. Good(AssertedPool(f, P, OpenStage, j), x)
  BY <1>6, GoodSteps DEF AssertedPool
<1> QED BY <1>1, <1>7, <1>8, GoodConcat DEF EvaluateInParallel

(* Some of the days held out.                                                *)
LEMMA SomeDays ==
  ASSUME NEW f, Frame(f), NEW idx
  PROVE  /\ Folds(f, Iloc(LeaveOneDayOut(f), idx))
         /\ \A sp \in Items(Iloc(LeaveOneDayOut(f), idx)) : ~Leaks(f, sp)
<1>1. PICK P : P = LeaveOneDayOut(f)
  OBVIOUS
<1>2. Folds(f, P) /\ \A sp \in Items(P) : ~Leaks(f, sp)
  BY <1>1, DayFolds
<1>3. Folds(f, Iloc(P, idx)) /\ Items(Iloc(P, idx)) \subseteq Items(P)
  BY <1>2, FoldsChosen
<1> QED BY <1>1, <1>2, <1>3

(* No window is in the dataset twice.                                        *)
LEMMA Distinct ==
  ASSUME NEW x, Built(x), NEW f, f = LoadChannel6Dataset(x)
  PROVE  \A i, k \in Rows(f) : f[i] = f[k] => i = k
<1>1. PICK g : g = f
  OBVIOUS
<1>2. g = Data(x.sessions)
  BY <1>1, DataIs DEF Built
<1>3. \A i, k \in Rows(g) : g[i] = g[k] => i = k
  BY <1>2, DataFacts DEF Built
<1> QED BY <1>1, <1>3

(* train_prototypical and train_arcface.                                     *)
LEMMA GoodEmbeddingScript ==
  ASSUME NEW x, Built(x), NEW name, NEW file, name \in CutsAtTest
  PROVE  Good(EmbeddingScript(x, name, file), x)
<1>1. PICK f, j, days : /\ f = LoadChannel6Dataset(x) /\ j = Job(name, "embedding", file)
                        /\ days = ScorableDays(f)
  OBVIOUS
<1>2. Frame(f) /\ \A i, k \in Rows(f) : f[i] = f[k] => i = k
  BY <1>1, MatrixIs, Distinct
<1>3. Folds(f, days) /\ \A sp \in Items(days) : ~Leaks(f, sp)
  BY <1>1, <1>2, ScorableFoldsOf
<1>4. Embeds(j)
  BY <1>1 DEF Embeds, Job, CutsAtTest
<1>5. Good(EvaluateInParallel(f, x, days, j), x)
  BY <1>2, <1>3, <1>4, GoodEvaluateInParallel
<1> QED BY <1>1, <1>5, GoodOnDataset DEF EmbeddingScript

(* train_prototypical: an embedding of authorized walks.                     *)
LEMMA GoodTrainPrototypical == ASSUME NEW x, Built(x) PROVE Good(TrainPrototypical(x), x)
BY GoodEmbeddingScript DEF TrainPrototypical, CutsAtTest
(* train_arcface: likewise.                                                  *)
LEMMA GoodTrainArcface == ASSUME NEW x, Built(x) PROVE Good(TrainArcface(x), x)
BY GoodEmbeddingScript DEF TrainArcface, CutsAtTest

(* train_transformer_gpu and train_extra_classifiers_gpu.                    *)
LEMMA GoodClassifierZoo ==
  ASSUME NEW x, Built(x), NEW name, NEW models, Len(models) \in Nat,
         name # "train_day3_ch6_model", name \notin KnownScripts
  PROVE  Good(ClassifierZoo(x, name, models), x)
<1> DEFINE f == LoadChannel6Dataset(x)
           L == LeaveOneDayOut(f)
           days == Iloc(L, {i \in Rows(L) : BothClasses(TaskD, f, L[i].test)})
           j == Job(name, "classifier", "transformer_gpu_log")
           q == [k \in 1 .. Len(models) |-> EvaluateInParallel(f, x, days, j)]
<1>1. ClassifierZoo(x, name, models) = OnDataset(f, FlattenSeq(q))
  BY DEF ClassifierZoo, ForEach, Concat, Chosen, Where
<1>2. Frame(f)
  BY MatrixIs
<1>3. PICK idx : idx = {i \in Rows(L) : BothClasses(TaskD, f, L[i].test)}
  OBVIOUS
<1>4. PICK g, d : g = f /\ d = days
  OBVIOUS
<1>5. Folds(g, d) /\ \A sp \in Items(d) : ~Leaks(g, sp)
  BY <1>2, <1>3, <1>4, SomeDays
<1>6. PICK job : job = j
  OBVIOUS
<1>7. Embeds(job) /\ job.model # "embedding"
  BY <1>6 DEF Embeds, Job
<1> HIDE DEF f, days, j, L
<1>8. Good(EvaluateInParallel(g, x, d, job), x)
  BY <1>2, <1>4, <1>5, <1>7, GoodEvaluateInParallel
<1>9. \A k \in 1 .. Len(models) : Good(q[k], x)
  BY <1>4, <1>6, <1>8
<1>10. Good(FlattenSeq(q), x)
  BY <1>9, GoodLoop
<1> HIDE DEF q
<1> QED BY <1>1, <1>10, GoodOnDataset

(* train_transformer_gpu.                                                    *)
LEMMA GoodTrainTransformerGpu == ASSUME NEW x, Built(x) PROVE Good(TrainTransformerGpu(x), x)
<1>1. Len(Zoo2) \in Nat
  BY FactoriesAssumption
<1>2. "train_transformer_gpu" \notin KnownScripts
  BY DEF KnownScripts
<1> QED BY <1>1, <1>2, GoodClassifierZoo DEF TrainTransformerGpu
(* train_extra_classifiers_gpu.                                              *)
LEMMA GoodTrainExtraClassifiersGpu == ASSUME NEW x, Built(x) PROVE Good(TrainExtraClassifiersGpu(x), x)
<1>1. Len(ExtraZoo) \in Nat
  BY FactoriesAssumption
<1>2. "train_extra_classifiers_gpu" \notin KnownScripts
  BY DEF KnownScripts
<1> QED BY <1>1, <1>2, GoodClassifierZoo DEF TrainExtraClassifiersGpu

(* train_maml.                                                               *)
LEMMA GoodTrainMaml == ASSUME NEW x, Built(x) PROVE Good(TrainMaml(x), x)
<1>1. PICK f, j, days : /\ f = LoadChannel6Dataset(x) /\ j = Job("train_maml", "maml", "maml_log")
                        /\ days = ScorableDays(f)
  OBVIOUS
<1>2. Frame(f)
  BY <1>1, MatrixIs
<1>3. Folds(f, days) /\ \A sp \in Items(days) : ~Leaks(f, sp)
  BY <1>1, <1>2, ScorableFoldsOf
<1>4. Embeds(j) /\ j.model # "embedding"
  BY <1>1 DEF Embeds, Job, KnownScripts
<1>5. \A sp \in Items(days) : Sound(f, sp, DayStage)
  BY <1>3 DEF Sound, Folds, DayStage, OpenStages, OpenStage
<1>6. Good(Pool(f, days, DayStage, j), x)
  BY <1>2, <1>3, <1>4, <1>5, GoodPool
<1> QED BY <1>1, <1>6, GoodOnDataset DEF TrainMaml

(* train_live_checkpoints: its models are tested, as disclosed, on the       *)
(* windows they learned from.                                                *)
LEMMA GoodTrainLiveCheckpoints == ASSUME NEW x, Built(x) PROVE Good(TrainLiveCheckpoints(x), x)
<1> DEFINE f == LoadChannel6Dataset(x)
           sp == [key |-> 0, train |-> Rows(f), test |-> Rows(f)]
           st(m) == [op |-> "ship", task |-> m, script |-> "train_live_checkpoints",
                     rate |-> 0, fit |-> ToSet(f)]
           body(m) == Eval(Row("train_live_checkpoints", "in_sample", sp, f, f)) \o <<st(m)>>
           q == [k \in 1 .. Len(ExtraZoo) |-> body(ExtraZoo[k])]
<1>1. TrainLiveCheckpoints(x) = OnDataset(f, FlattenSeq(q))
  BY DEF TrainLiveCheckpoints, ForEach, Concat
<1>2. Frame(f) /\ Within(f, x.sessions)
  BY MatrixIs
<1>3. PICK name, stage : name = "train_live_checkpoints" /\ stage = "in_sample"
  OBVIOUS
<1>4. Plain(name, stage) /\ stage \in Disclosed
  BY <1>3 DEF Plain, OpenStages, OpenStage, KnownScripts, Disclosed
<1> HIDE DEF f
<1>5. PICK g : g = f
  OBVIOUS
<1>6. ASSUME NEW m PROVE Good(body(m), x)
  <2>1. PICK e : e = Eval(Row(name, stage, sp, g, g))
    OBVIOUS
  <2>2. Good(e, x)
    BY <1>4, <2>1, GoodPlain
  <2>3. PICK s : s = st(m)
    OBVIOUS
  <2>4. OK(s, x)
    <3>1. \A w \in ToSet(f) : w[1] \in x.sessions
      BY <1>2, SetOfItems DEF Within
    <3> QED BY <2>3, <3>1 DEF OK
  <2>5. body(m) = e \o <<s>>
    BY <1>3, <1>5, <2>1, <2>3
  <2> QED BY <2>2, <2>4, <2>5, GoodOne, GoodConcat
<1>7. Len(ExtraZoo) \in Nat
  BY FactoriesAssumption
<1> HIDE DEF body
<1>8. \A k \in 1 .. Len(ExtraZoo) : Good(q[k], x)
  BY <1>6
<1>9. Good(FlattenSeq(q), x)
  BY <1>7, <1>8, GoodLoop
<1> HIDE DEF q
<1> QED BY <1>1, <1>9, GoodOnDataset

(* The fused index of ml_2 is a frame: a session all of whose receivers were *)
(* heard gives as many windows as its poorest receiver.                      *)
LEMMA FusedIndexFrame ==
  ASSUME NEW m \in Seq(Rec) PROVE Frame(BuildFusedWindowIndex(m))
<1> DEFINE macs == {r[2] : r \in ToSet(m)}
           S == {r[1] : r \in ToSet(m)}
           Complete(s) == \A mac \in macs : <<s, mac>> \in ToSet(m)
           counts(s) == {NWindows[<<s, mac>>] : mac \in macs}
           LeastOf(s) == CHOOSE n \in counts(s) : \A mac \in macs : n <= NWindows[<<s, mac>>]
           body(s) == IF Complete(s) THEN [k \in 1 .. LeastOf(s) |-> <<s, "fused", k>>] ELSE <<>>
           q == [j \in 1 .. Len(Sorted(S)) |-> body(Sorted(S)[j])]
<1>1. BuildFusedWindowIndex(m) = FlattenSeq(q)
  BY DEF BuildFusedWindowIndex, ForEach, Concat
<1>2. \A r \in ToSet(m) : r \in Rec
  BY DEF ToSet
<1>3. S \in SUBSET (DOMAIN Label)
  BY <1>2 DEF Rec, Recv
<1>4. S \in SUBSET (Nat \ {0}) /\ IsFiniteSet(S)
  BY <1>3, SessionsAssumption, FS_Subset
<1>5. ASSUME NEW s \in S, Complete(s) PROVE LeastOf(s) \in Nat
  <2>1. macs # {}
    OBVIOUS
  <2>2. \A mac \in macs : NWindows[<<s, mac>>] \in Nat
    BY <1>2, <1>5 DEF Rec
  <2>3. PICK C : C = counts(s)
    OBVIOUS
  <2>4. C \in SUBSET Nat /\ C # {}
    BY <2>1, <2>2, <2>3
  <2>5. \E n \in C : \A y \in C : n <= y
    BY <2>4, Least
  <2> HIDE DEF macs
  <2>6. \E n \in counts(s) : \A mac \in macs : n <= NWindows[<<s, mac>>]
    BY <2>3, <2>5
  <2>7. LeastOf(s) \in counts(s)
    BY <2>6
  <2> HIDE DEF LeastOf, counts
  <2> QED BY <2>3, <2>4, <2>7
<1> HIDE DEF LeastOf, Complete
<1>6. ASSUME NEW s \in S PROVE body(s) \in Seq(Win)
  <2>1. CASE Complete(s)
    <3>1. PICK n \in Nat : n = LeastOf(s)
      BY <1>5, <2>1
    <3>2. PICK g : g = [k \in 1 .. n |-> <<s, "fused", k>>]
      OBVIOUS
    <3>3. ASSUME NEW k \in 1 .. n PROVE <<s, "fused", k>> \in Win
      <4>1. s \in DOMAIN Label
        BY <1>3
      <4>2. k \in Nat
        OBVIOUS
      <4> HIDE DEF S
      <4> QED BY <4>1, <4>2 DEF Win
    <3>4. g \in [1 .. n -> Win]
      BY <3>2, <3>3
    <3>5. g \in Seq(Win)
      BY <3>4, FunSeq
    <3> QED BY <2>1, <3>1, <3>2, <3>5
  <2>2. CASE ~Complete(s)
    BY <2>2
  <2> QED BY <2>1, <2>2
<1> HIDE DEF body, S
<1>7. PICK t : t = Sorted(S)
  OBVIOUS
<1>8. t \in Seq(S)
  BY <1>4, <1>7, SortedFacts
<1>9. Len(t) \in Nat /\ \A j \in 1 .. Len(t) : t[j] \in S
  BY <1>8
<1>10. PICK p : p = q
  OBVIOUS
<1>11. p \in [1 .. Len(t) -> Seq(Win)]
  BY <1>6, <1>7, <1>9, <1>10
<1>12. p \in Seq(Seq(Win))
  BY <1>9, <1>11, FunSeq
<1> HIDE DEF q
<1> QED BY <1>1, <1>10, <1>12, FlattenTyped DEF Frame

(* train_receiver_fusion_gpu: one row per fused window of a fold.            *)
LEMMA GoodTrainReceiverFusionGpu ==
  ASSUME NEW x, Built(x) PROVE Good(TrainReceiverFusionGpu(x), x)
<1> DEFINE m == Build3ReceiverManifest(x)
           f == BuildFusedWindowIndex(m)
           L == LeaveOneDayOut(f)
           days == Iloc(L, {i \in Rows(L) : ~NoAuthorized(f, L[i])})
           j == Job("train_receiver_fusion_gpu", "classifier", "receiver_fusion_gpu_log")
<1>1. TrainReceiverFusionGpu(x) =
        IF HasNone(m) THEN OnDataset(f, EvaluateInParallel(f, x, days, j)) ELSE Raise
  BY DEF TrainReceiverFusionGpu, Chosen, Where
<1>2. m \in Seq(Rec)
  <2>1. BuildChannel6Manifest(x) \in Seq(Rec)
    BY ChannelIs, ChannelFacts DEF Built
  <2> QED BY <2>1, RecIloc DEF Build3ReceiverManifest, Chosen
<1> HIDE DEF m
<1>3. Frame(f)
  BY <1>2, FusedIndexFrame
<1>4. PICK idx : idx = {i \in Rows(L) : ~NoAuthorized(f, L[i])}
  OBVIOUS
<1>5. PICK g, d, job : g = f /\ d = days /\ job = j
  OBVIOUS
<1>6. Folds(g, d) /\ \A sp \in Items(d) : ~Leaks(g, sp)
  BY <1>3, <1>4, <1>5, SomeDays
<1>7. Embeds(job) /\ job.model # "embedding"
  BY <1>5 DEF Embeds, Job, KnownScripts
<1> HIDE DEF f, days, j, L
<1>8. Good(EvaluateInParallel(g, x, d, job), x)
  BY <1>3, <1>5, <1>6, <1>7, GoodEvaluateInParallel
<1> QED BY <1>1, <1>5, <1>8, GoodOnDataset, GoodSteps

-----------------------------------------------------------------------------
(* Every plan *)

\* A context whose derived files, however old, belong to its recorded sessions.
Ready(x) ==
  /\ Context(x) /\ Frame(x.index) /\ Within(x.index, x.sessions) /\ Matches(x)
  /\ Recorded(x) /\ Cached(x) /\ Shipped(x) /\ Built(x)

(* Whatever script is started, on whatever derived files: every row it is    *)
(* going to evaluate is fair, every file it is going to save is in order.    *)
THEOREM PlansAreGood ==
  ASSUME NEW s \in Scripts, Ready(c) PROVE Good(Plan(s), c)
<1>1. PICK x : x = c
  OBVIOUS
<1>2. /\ Context(x) /\ Frame(x.index) /\ Within(x.index, x.sessions) /\ Matches(x)
      /\ Recorded(x) /\ Cached(x) /\ Shipped(x) /\ Built(x)
  BY <1>1 DEF Ready
<1>3. Len(x.X) = Len(x.index) => x.X = x.index
  BY <1>2 DEF Matches
<1>4. CASE s = "run_stage1"
  <2>1. Plan(s) = RunStage1(x)
    BY <1>1, <1>4 DEF Plan
  <2> QED BY <1>1, <1>2, <1>3, <2>1, GoodRunStage1
<1>5. CASE s = "train"
  <2>1. Plan(s) = Train(x)
    BY <1>1, <1>5 DEF Plan
  <2> QED BY <1>1, <1>2, <2>1, GoodTrain
<1>6. CASE s = "run_stage2"
  <2>1. Plan(s) = RunStage2(x)
    BY <1>1, <1>6 DEF Plan
  <2> QED BY <1>1, <1>2, <2>1, GoodRunStage2
<1>7. CASE s = "run_stage2_openset"
  <2>1. Plan(s) = RunStage2Openset(x)
    BY <1>1, <1>7 DEF Plan
  <2> QED BY <1>1, <1>2, <2>1, GoodRunStage2Openset
<1>8. CASE s = "run_taskD_focus"
  <2>1. Plan(s) = RunTaskDFocus(x)
    BY <1>1, <1>8 DEF Plan
  <2> QED BY <1>1, <1>2, <2>1, GoodRunTaskDFocus
<1>9. CASE s = "run_taskD_segment_aggregation"
  <2>1. Plan(s) = RunTaskDSegmentAggregation(x)
    BY <1>1, <1>9 DEF Plan
  <2> QED BY <1>1, <1>2, <2>1, GoodRunTaskDSegmentAggregation
<1>10. CASE s = "run_taskD_crossattn_cv"
  <2>1. Plan(s) = RunTaskDCrossattnCv(x)
    BY <1>1, <1>10 DEF Plan
  <2> QED BY <1>1, <1>2, <2>1, GoodRunTaskDCrossattnCv
<1>11. CASE s = "run_fewshot_finetune"
  <2>1. Plan(s) = RunFewshotFinetune(x)
    BY <1>1, <1>11 DEF Plan
  <2> QED BY <1>1, <1>2, <2>1, GoodRunFewshotFinetune
<1>12. CASE s = "train_final_model"
  <2>1. Plan(s) = TrainFinalModel(x)
    BY <1>1, <1>12 DEF Plan
  <2> QED BY <1>1, <1>2, <2>1, GoodTrainFinalModel
<1>13. CASE s = "run_day2_sweep"
  <2>1. Plan(s) = RunDay2Sweep(x)
    BY <1>1, <1>13 DEF Plan
  <2> QED BY <1>1, <1>2, <2>1, GoodRunDay2Sweep
<1>14. CASE s = "train_day3_ch6_model"
  <2>1. Plan(s) = TrainDay3Ch6Model(x)
    BY <1>1, <1>14 DEF Plan
  <2> QED BY <1>1, <1>2, <2>1, GoodTrainDay3Ch6Model
<1>15. CASE s = "train_caution_protonet"
  <2>1. Plan(s) = TrainCautionProtonet(x)
    BY <1>1, <1>15 DEF Plan
  <2> QED BY <1>1, <1>2, <2>1, GoodTrainCautionProtonet
<1>16. CASE s = "compare_receiver_fusion"
  <2>1. Plan(s) = CompareReceiverFusion(x)
    BY <1>1, <1>16 DEF Plan
  <2> QED BY <1>1, <1>2, <2>1, GoodCompareReceiverFusion
<1>17. CASE s = "eval_day3ch6_holdout"
  <2>1. Plan(s) = EvalDay3Ch6Holdout(x)
    BY <1>1, <1>17 DEF Plan
  <2> QED BY <1>1, <1>2, <2>1, GoodEvalDay3Ch6Holdout
<1>18. CASE s = "cross_day_drift"
  <2>1. Plan(s) = CrossDayDrift(x)
    BY <1>1, <1>18 DEF Plan
  <2> QED BY <1>1, <1>2, <2>1, GoodCrossDayDrift
<1>19. CASE s = "train_live_checkpoints"
  <2>1. Plan(s) = TrainLiveCheckpoints(x)
    BY <1>1, <1>19 DEF Plan
  <2> QED BY <1>1, <1>2, <2>1, GoodTrainLiveCheckpoints
<1>20. CASE s = "train_gbm"
  <2>1. Plan(s) = TrainGbm(x)
    BY <1>1, <1>20 DEF Plan
  <2> QED BY <1>1, <1>2, <2>1, GoodTrainGbm
<1>21. CASE s = "train_cusum"
  <2>1. Plan(s) = TrainCusum(x)
    BY <1>1, <1>21 DEF Plan
  <2> QED BY <1>1, <1>2, <2>1, GoodTrainCusum
<1>22. CASE s = "train_svm_gait"
  <2>1. Plan(s) = TrainSvmGait(x)
    BY <1>1, <1>22 DEF Plan
  <2> QED BY <1>1, <1>2, <2>1, GoodTrainSvmGait
<1>23. CASE s = "train_generative_hard_negative"
  <2>1. Plan(s) = TrainGenerativeHardNegative(x)
    BY <1>1, <1>23 DEF Plan
  <2> QED BY <1>1, <1>2, <2>1, GoodTrainGenerativeHardNegative
<1>24. CASE s = "train_contrastive"
  <2>1. Plan(s) = TrainContrastive(x)
    BY <1>1, <1>24 DEF Plan
  <2> QED BY <1>1, <1>2, <2>1, GoodTrainContrastive
<1>25. CASE s = "train_prototypical"
  <2>1. Plan(s) = TrainPrototypical(x)
    BY <1>1, <1>25 DEF Plan
  <2> QED BY <1>1, <1>2, <2>1, GoodTrainPrototypical
<1>26. CASE s = "train_arcface"
  <2>1. Plan(s) = TrainArcface(x)
    BY <1>1, <1>26 DEF Plan
  <2> QED BY <1>1, <1>2, <2>1, GoodTrainArcface
<1>27. CASE s = "train_transformer_gpu"
  <2>1. Plan(s) = TrainTransformerGpu(x)
    BY <1>1, <1>27 DEF Plan
  <2> QED BY <1>1, <1>2, <2>1, GoodTrainTransformerGpu
<1>28. CASE s = "train_extra_classifiers_gpu"
  <2>1. Plan(s) = TrainExtraClassifiersGpu(x)
    BY <1>1, <1>28 DEF Plan
  <2> QED BY <1>1, <1>2, <2>1, GoodTrainExtraClassifiersGpu
<1>29. CASE s = "train_receiver_fusion_gpu"
  <2>1. Plan(s) = TrainReceiverFusionGpu(x)
    BY <1>1, <1>29 DEF Plan
  <2> QED BY <1>1, <1>2, <2>1, GoodTrainReceiverFusionGpu
<1>30. CASE s = "train_maml"
  <2>1. Plan(s) = TrainMaml(x)
    BY <1>1, <1>30 DEF Plan
  <2> QED BY <1>1, <1>2, <2>1, GoodTrainMaml
<1> QED
  <2>1. ToSet(STAGES) = {"train_gbm",
                         "train_cusum",
                         "train_svm_gait",
                         "train_generative_hard_negative",
                         "train_contrastive",
                         "train_prototypical",
                         "train_arcface",
                         "train_transformer_gpu",
                         "train_extra_classifiers_gpu",
                         "train_receiver_fusion_gpu",
                         "train_maml"}
    BY DEF STAGES, ToSet
  <2> QED BY <1>4, <1>5, <1>6, <1>7, <1>8, <1>9, <1>10, <1>11, <1>12, <1>13, <1>14, <1>15,
             <1>16, <1>17, <1>18, <1>19, <1>20, <1>21, <1>22, <1>23, <1>24, <1>25, <1>26,
             <1>27, <1>28, <1>29, <1>30, <2>1 DEF Scripts

-----------------------------------------------------------------------------
(* The derived files *)

\* Every derived file belongs to the sessions it was made from, which it had
\* from the file it was derived from: the manifest to some of the recorded
\* sessions, the window index to some of those, the matrices to some of these.
DerivedFrom(F, U) ==
  \E SM \in SUBSET U : \E SI \in SUBSET SM : \E SX \in SUBSET SI :
    /\ F.manifest = ManifestOf(SM)
    /\ F.index = Index(SI) /\ F.X = Index(SX)
    /\ F.calibB = <<>> \/ \E S \in SUBSET SI : F.calibB = Index(S)
    /\ F.X2 = <<>> \/ \E S \in SUBSET U : F.X2 = Data(S)
    /\ \A e \in F.cache : \E S \in SUBSET SM :
         /\ e.key.n = Len(Track(ManifestOf(S)))
         /\ e.index = WindowIndex(Track(ManifestOf(S)))
    /\ \A ship \in F.ships : \A w \in ship.fit :
         w[1] \in U /\ (ship.script = "train_day3_ch6_model" => w[1] \notin Holdout)
Derived == DerivedFrom(files, sessions)

(* What a plan reads is the derived files and the sessions as they are.      *)
LEMMA ContextFields ==
  /\ Context(c)
  /\ c.index = files.index /\ c.X = files.X /\ c.manifest = files.manifest /\ c.calibB = files.calibB
  /\ c.cache = files.cache /\ c.ships = files.ships /\ c.sessions = sessions /\ c.X2 = files.X2
BY DEF c, Context

(* The channel-6 manifest depends on the manifest alone.                     *)
LEMMA TrackIsDay3 == ASSUME NEW x PROVE Day3Ch6Manifest(x) = Track(x.manifest)
<1>1. [manifest |-> x.manifest].manifest = x.manifest
  OBVIOUS
<1> QED BY <1>1 DEF Track, Day3Ch6Manifest

(* A script that starts on derived files starts in order.                    *)
LEMMA DerivedReady ==
  ASSUME sessions \in SUBSET (DOMAIN Label), Derived PROVE Ready(c)
<1>1. PICK x : x = c
  OBVIOUS
<1>2. Context(x)
  BY <1>1, ContextFields
<1>3. PICK U : U = x.sessions
  OBVIOUS
<1>4. U \in SUBSET (DOMAIN Label)
  BY <1>1, <1>3, ContextFields
<1>5. PICK SM, SI, SX :
        /\ SM \in SUBSET U /\ SI \in SUBSET SM /\ SX \in SUBSET SI
        /\ x.manifest = ManifestOf(SM) /\ x.index = Index(SI) /\ x.X = Index(SX)
        /\ x.calibB = <<>> \/ \E S \in SUBSET SI : x.calibB = Index(S)
        /\ x.X2 = <<>> \/ \E S \in SUBSET U : x.X2 = Data(S)
        /\ \A e \in x.cache : \E S \in SUBSET SM :
             e.key.n = Len(Track(ManifestOf(S))) /\ e.index = WindowIndex(Track(ManifestOf(S)))
        /\ \A ship \in x.ships : \A w \in ship.fit :
             w[1] \in U /\ (ship.script = "train_day3_ch6_model" => w[1] \notin Holdout)
  BY <1>1, <1>3, ContextFields DEF Derived, DerivedFrom
<1>6. SM \in SUBSET (DOMAIN Label) /\ SI \in SUBSET (DOMAIN Label)
  BY <1>4, <1>5
<1>7. Frame(x.index) /\ Within(x.index, SI)
  BY <1>5, <1>6, IndexIs DEF Frame
<1>8. Within(x.index, x.sessions)
  BY <1>3, <1>5, <1>7 DEF Within
<1>9. Matches(x)
  <2>1. \A S \in SUBSET SI : Len(Index(S)) = Len(Index(SI)) => Index(S) = Index(SI)
    BY <1>6, IndexAgain
  <2> QED BY <1>5, <2>1 DEF Matches
<1>10. Recorded(x)
  <2>1. PICK m : m = ManifestOf(SM)
    OBVIOUS
  <2>2. m \in Seq(Rec) /\ Items(m) = AllReceivers(SM)
    BY <1>6, <2>1, ManifestFacts
  <2>3. \A r \in Items(m) : r[1] \in x.sessions
    BY <1>3, <1>5, <2>2 DEF AllReceivers
  <2> QED BY <1>5, <2>1, <2>2, <2>3 DEF Recorded
<1>11. Cached(x)
  <2>1. PICK D : D = Track(ManifestOf(SM))
    OBVIOUS
  <2>2. Day3Ch6Manifest(x) = D
    BY <1>5, <2>1, TrackIsDay3
  <2>3. ASSUME NEW e \in x.cache, e.key = CacheKey(D) PROVE e.index = WindowIndex(D)
    <3>1. e.key.n = Len(D)
      BY <2>3 DEF CacheKey
    <3>2. PICK S \in SUBSET SM : /\ e.key.n = Len(Track(ManifestOf(S)))
                                 /\ e.index = WindowIndex(Track(ManifestOf(S)))
      BY <1>5
    <3>3. Track(ManifestOf(S)) = D
      BY <1>6, <2>1, <3>1, <3>2, TrackAgain
    <3> QED BY <3>2, <3>3
  <2> QED BY <2>2, <2>3 DEF Cached
<1>12. Shipped(x)
  BY <1>5 DEF Shipped
<1>13. Built(x)
  <2>1. \A S \in SUBSET U : Len(Data(S)) = Len(Data(U)) => Data(S) = Data(U)
    BY <1>4, DataAgain
  <2>2. ASSUME x.X2 = <<>>, Len(x.X2) = Len(Data(U)) PROVE x.X2 = Data(U)
    <3>1. PICK f : f = Data(U)
      OBVIOUS
    <3>2. f \in Seq(Win)
      BY <1>4, <3>1, DataFacts DEF Frame
    <3>3. Len(f) = 0
      BY <2>2, <3>1
    <3>4. f = <<>>
      BY <3>2, <3>3
    <3> QED BY <2>2, <3>1, <3>4
  <2> QED BY <1>3, <1>4, <1>5, <2>1, <2>2 DEF Built
<1> QED BY <1>1, <1>2, <1>7, <1>8, <1>9, <1>10, <1>11, <1>12, <1>13 DEF Ready

-----------------------------------------------------------------------------
(* The invariant *)

\* Rows in order, D being the manifest of the channel-6 track.
RowsFair(rows, D) == rows \in Seq(Items(rows)) /\ \A row \in Items(rows) : Fair(row, D)

\* The folds of the pool: those taken are running or done, no more running than devices.
PoolSound(p) ==
  /\ p = [rows |-> p.rows, file |-> p.file, next |-> p.next,
          running |-> p.running, done |-> p.done, broken |-> p.broken]
  /\ p.next \in 1 .. Len(p.rows) + 1
  /\ p.running \cup p.done = 1 .. p.next - 1
  /\ p.running \cap p.done = {} /\ p.broken \subseteq p.done
  /\ IsFiniteSet(p.running) /\ Cardinality(p.running) <= Devices

\* While folds run in parallel, the script is at the step that opened the pool.
AtPool(p, steps) == p # NoPool => steps # <<>> /\ Head(steps).op = "pool"

FilesSound(F) ==
  F = [manifest |-> F.manifest, index |-> F.index, X |-> F.X,
       calibB |-> F.calibB, X2 |-> F.X2, cache |-> F.cache, ships |-> F.ships]

ScriptsSound ==
  /\ stages \in Seq(ToSet(STAGES)) /\ queue \in Seq(Scripts \cup {"run_all"})
  /\ table \subseteq have /\ kills \in 0 .. MaxKills

IInv ==
  /\ sessions \in SUBSET (DOMAIN Label)
  /\ FilesSound(files) /\ Derived /\ ScriptsSound
  /\ PoolSound(pool) /\ AtPool(pool, todo)
  /\ Good(todo, c)
  /\ RowsFair(mem, Day3Ch6Manifest(c)) /\ RowsFair(pool.rows, Day3Ch6Manifest(c))
  /\ script = "" => todo = <<>> /\ mem = <<>> /\ pool = NoPool

-----------------------------------------------------------------------------
(* What it implies *)

(* The row just evaluated, and those of the running folds, are fair.         *)
LEMMA CurrentFair ==
  ASSUME IInv, NEW row \in Current PROVE Fair(row, Day3Ch6Manifest(c))
<1>1. PICK D : D = Day3Ch6Manifest(c)
  OBVIOUS
<1>2. mem \in Seq(Items(mem)) /\ \A r \in Items(mem) : Fair(r, D)
  BY <1>1 DEF IInv, RowsFair
<1>3. pool.rows \in Seq(Items(pool.rows)) /\ \A r \in Items(pool.rows) : Fair(r, D)
  BY <1>1 DEF IInv, RowsFair
<1>4. CASE mem # <<>> /\ row = Last(mem)
  <2>1. Len(mem) \in 1 .. Len(mem)
    BY <1>2, <1>4
  <2>2. row \in Items(mem)
    BY <1>4, <2>1 DEF Last, Items
  <2> QED BY <1>1, <1>2, <2>2
<1>5. CASE \E i \in pool.running : row = pool.rows[i]
  <2>1. PICK i \in pool.running : row = pool.rows[i]
    BY <1>5
  <2>2. i \in 1 .. pool.next - 1 /\ pool.next \in 1 .. Len(pool.rows) + 1
    BY DEF IInv, PoolSound
  <2>3. Len(pool.rows) \in Nat
    BY <1>3
  <2>4. i \in 1 .. Len(pool.rows)
    BY <2>2, <2>3
  <2> QED BY <1>1, <1>3, <2>1, <2>4 DEF Items
<1> QED BY <1>4, <1>5 DEF Current

(* So nothing held out was seen.                                             *)
LEMMA HeldOut == ASSUME IInv PROVE HeldOutUnseen
<1>1. \A row \in Current : Apart(row) /\ Strange(row) /\ Knows(row)
  BY CurrentFair DEF Fair
<1>2. NoLeak
  BY <1>1 DEF NoLeak, Apart
<1>3. StrangerUnseen
  BY <1>1 DEF StrangerUnseen, Strange
<1>4. KnownOnly
  BY <1>1 DEF KnownOnly, Knows, KnownScripts
<1> QED BY <1>2, <1>3, <1>4 DEF HeldOutUnseen

(* So data, labels and files belong together.                                *)
LEMMA Aligned == ASSUME IInv PROVE DataAligned
<1>1. \A row \in Current : Paired(row) /\ Fresh(row, Day3Ch6Manifest(c))
  BY CurrentFair DEF Fair
<1>2. LabelsAligned
  BY <1>1 DEF LabelsAligned, Paired
<1>3. FreshIndex
  BY <1>1 DEF FreshIndex, Fresh, Cut
<1>4. TypeOK
  <2>1. PICK SM, SI :
          /\ SM \in SUBSET sessions /\ SI \in SUBSET SM
          /\ files.index = Index(SI)
          /\ files.calibB = <<>> \/ \E S \in SUBSET SI : files.calibB = Index(S)
          /\ files.X2 = <<>> \/ \E S \in SUBSET sessions : files.X2 = Data(S)
    BY DEF IInv, Derived, DerivedFrom
  <2>2. sessions \in SUBSET (DOMAIN Label)
    BY DEF IInv
  <2>3. ASSUME NEW f, Within(f, sessions) PROVE SessionsOf(f) \subseteq sessions
    BY <2>3 DEF Within, Items, SessionsOf, SessionsAt, Session, Rows
  <2>4. ASSUME NEW S \in SUBSET sessions PROVE Within(Index(S), sessions) /\ Within(Data(S), sessions)
    <3>1. Within(Index(S), S) /\ Within(Data(S), S)
      BY <2>2, IndexIs, DataFacts
    <3> QED BY <3>1 DEF Within
  <2>5. Within(<<>>, sessions)
    BY DEF Within, Items
  <2>6. SessionsOf(files.index) \subseteq sessions
    BY <2>1, <2>3, <2>4
  <2>7. SessionsOf(files.calibB) \subseteq sessions
    BY <2>1, <2>3, <2>4, <2>5
  <2>8. SessionsOf(files.X2) \subseteq sessions
    BY <2>1, <2>3, <2>4, <2>5
  <2>9. \A ship \in files.ships : {Session(w) : w \in ship.fit} \subseteq sessions
    BY DEF IInv, Derived, DerivedFrom, Session
  <2>10. ToSet(stages) \subseteq ToSet(STAGES)
    <3>1. stages \in Seq(ToSet(STAGES))
      BY DEF IInv, ScriptsSound
    <3> QED BY <3>1 DEF ToSet
  <2> QED BY <2>2, <2>6, <2>7, <2>8, <2>9, <2>10 DEF TypeOK, IInv, ScriptsSound, PoolSound
<1> QED BY <1>2, <1>3, <1>4 DEF DataAligned

-----------------------------------------------------------------------------
(* What the invariant is made of, step by step *)

(* Steps are in order whatever derived files a script was started on, but    *)
(* for the manifest and the sessions.                                        *)
LEMMA GoodSame ==
  ASSUME NEW x, NEW y, x.manifest = y.manifest, x.sessions = y.sessions,
         x.sessions \in SUBSET (DOMAIN Label), NEW steps, Good(steps, x)
  PROVE  Good(steps, y)
<1>1. Day3Ch6Manifest(x) = Day3Ch6Manifest(y)
  BY TrackIsDay3
<1>2. LoadChannel6Dataset(x) = LoadChannel6Dataset(y)
  BY DataIs
<1>3. \A st : OK(st, x) => OK(st, y)
  BY <1>1, <1>2 DEF OK
<1> QED BY <1>3 DEF Good

(* The next step of steps in order, and those after it.                      *)
LEMMA GoodHead ==
  ASSUME NEW x, NEW steps, Good(steps, x), steps # <<>>
  PROVE  OK(Head(steps), x) /\ Good(Tail(steps), x)
<1>1. PICK S : S = Items(steps)
  OBVIOUS
<1>2. steps \in Seq(S) /\ \A st \in S : OK(st, x)
  BY <1>1 DEF Good
<1>3. Head(steps) \in S
  BY <1>2
<1>4. PICK t : t = Tail(steps)
  OBVIOUS
<1>5. t \in Seq(S)
  BY <1>2, <1>4
<1>6. t \in Seq(Items(t)) /\ Items(t) \subseteq S
  BY <1>5, SeqItems
<1>7. Good(t, x)
  BY <1>2, <1>6 DEF Good
<1> QED BY <1>2, <1>3, <1>4, <1>7

(* No row at all is fair.                                                    *)
LEMMA RowsFairNone == ASSUME NEW D PROVE RowsFair(<<>>, D)
<1>1. Items(<<>>) = {}
  BY DEF Items
<1> QED BY <1>1 DEF RowsFair

(* Another fair row.                                                         *)
LEMMA RowsFairAppend ==
  ASSUME NEW D, NEW rows, RowsFair(rows, D), NEW row, Fair(row, D)
  PROVE  RowsFair(Append(rows, row), D)
<1>1. PICK S : S = Items(rows) \cup {row}
  OBVIOUS
<1>2. \A r \in S : Fair(r, D)
  BY <1>1 DEF RowsFair
<1>3. rows \in Seq(S)
  <2>1. rows \in Seq(Items(rows)) /\ Items(rows) \subseteq S
    BY <1>1 DEF RowsFair
  <2> QED BY <2>1, SeqSuper
<1>4. PICK q : q = Append(rows, row)
  OBVIOUS
<1>5. q \in Seq(S)
  BY <1>1, <1>3, <1>4
<1>6. q \in Seq(Items(q)) /\ Items(q) \subseteq S
  BY <1>5, SeqItems
<1> QED BY <1>2, <1>4, <1>6 DEF RowsFair

(* A pool that is not open is sound.                                         *)
LEMMA NoPoolSound == NoPool.rows = <<>> /\ PoolSound(NoPool)
<1>1. PICK p : p = NoPool
  OBVIOUS
<1>2. p.rows = <<>> /\ p.next = 1 /\ p.running = {} /\ p.done = {} /\ p.broken = {}
  BY <1>1 DEF NoPool
<1>3. p = [rows |-> p.rows, file |-> p.file, next |-> p.next,
           running |-> p.running, done |-> p.done, broken |-> p.broken]
  BY <1>1 DEF NoPool
<1>4. Cardinality({}) = 0 /\ IsFiniteSet({})
  BY FS_EmptySet
<1>5. p.next \in 1 .. Len(p.rows) + 1 /\ {} = 1 .. p.next - 1
  BY <1>2
<1>6. Cardinality(p.running) <= Devices
  BY <1>2, <1>4, ExperimentAssumption
<1>7. PoolSound(p)
  BY <1>2, <1>3, <1>4, <1>5, <1>6 DEF PoolSound
<1> QED BY <1>1, <1>2, <1>7

-----------------------------------------------------------------------------
(* The derived files as they are made *)

(* Recording more sessions makes no derived file wrong.                      *)
LEMMA DerivedMore ==
  ASSUME NEW F, NEW U, DerivedFrom(F, U), NEW V, U \subseteq V PROVE DerivedFrom(F, V)
<1>1. PICK SM, SI, SX :
        /\ SM \in SUBSET U /\ SI \in SUBSET SM /\ SX \in SUBSET SI
        /\ F.manifest = ManifestOf(SM)
        /\ F.index = Index(SI) /\ F.X = Index(SX)
        /\ F.calibB = <<>> \/ \E S \in SUBSET SI : F.calibB = Index(S)
        /\ F.X2 = <<>> \/ \E S \in SUBSET U : F.X2 = Data(S)
        /\ \A e \in F.cache : \E S \in SUBSET SM :
             /\ e.key.n = Len(Track(ManifestOf(S)))
             /\ e.index = WindowIndex(Track(ManifestOf(S)))
        /\ \A ship \in F.ships : \A w \in ship.fit :
             w[1] \in U /\ (ship.script = "train_day3_ch6_model" => w[1] \notin Holdout)
  BY DEF DerivedFrom
<1>2. SM \in SUBSET V
  BY <1>1
<1>3. F.X2 = <<>> \/ \E S \in SUBSET V : F.X2 = Data(S)
  BY <1>1
<1>4. \A ship \in F.ships : \A w \in ship.fit :
        w[1] \in V /\ (ship.script = "train_day3_ch6_model" => w[1] \notin Holdout)
  BY <1>1
<1> QED BY <1>1, <1>2, <1>3, <1>4 DEF DerivedFrom

(* The files everything starts from.                                         *)
LEMMA DerivedStart ==
  ASSUME NEW U PROVE FilesSound(Files(U)) /\ DerivedFrom(Files(U), U)
<1>1. PICK F : F = Files(U)
  OBVIOUS
<1>2. /\ F.manifest = ManifestOf(U) /\ F.index = Index(U) /\ F.X = Index(U)
      /\ F.calibB = <<>> /\ F.X2 = <<>> /\ F.cache = {} /\ F.ships = {}
  BY <1>1 DEF Files, Index
<1>3. FilesSound(F)
  BY <1>1 DEF Files, FilesSound
<1>4. DerivedFrom(F, U)
  BY <1>2 DEF DerivedFrom
<1> QED BY <1>1, <1>3, <1>4

(* A rebuilt manifest is that of every recorded session.                     *)
LEMMA DerivedManifest ==
  ASSUME NEW U, NEW F, FilesSound(F), DerivedFrom(F, U),
         NEW G, G = [F EXCEPT !.manifest = ManifestOf(U)]
  PROVE  FilesSound(G) /\ DerivedFrom(G, U)
<1>1. /\ G.manifest = ManifestOf(U) /\ G.index = F.index /\ G.X = F.X /\ G.calibB = F.calibB
      /\ G.X2 = F.X2 /\ G.cache = F.cache /\ G.ships = F.ships /\ FilesSound(G)
  BY DEF FilesSound
<1>2. PICK SM, SI, SX :
        /\ SM \in SUBSET U /\ SI \in SUBSET SM /\ SX \in SUBSET SI
        /\ F.index = Index(SI) /\ F.X = Index(SX)
        /\ F.calibB = <<>> \/ \E S \in SUBSET SI : F.calibB = Index(S)
        /\ F.X2 = <<>> \/ \E S \in SUBSET U : F.X2 = Data(S)
        /\ \A e \in F.cache : \E S \in SUBSET SM :
             /\ e.key.n = Len(Track(ManifestOf(S)))
             /\ e.index = WindowIndex(Track(ManifestOf(S)))
        /\ \A ship \in F.ships : \A w \in ship.fit :
             w[1] \in U /\ (ship.script = "train_day3_ch6_model" => w[1] \notin Holdout)
  BY DEF DerivedFrom
<1>3. \A e \in G.cache : \E S \in SUBSET U :
        /\ e.key.n = Len(Track(ManifestOf(S)))
        /\ e.index = WindowIndex(Track(ManifestOf(S)))
  BY <1>1, <1>2
<1>4. U \in SUBSET U /\ SI \in SUBSET U
  BY <1>2
<1>5. DerivedFrom(G, U)
  BY <1>1, <1>2, <1>3, <1>4 DEF DerivedFrom
<1> QED BY <1>1, <1>5

(* A rebuilt window index is that of the sessions of the manifest.           *)
LEMMA DerivedWindows ==
  ASSUME NEW U, NEW F, FilesSound(F), DerivedFrom(F, U),
         NEW G, G = [F EXCEPT !.index = IndexOf(F.manifest)]
  PROVE  FilesSound(G) /\ DerivedFrom(G, U)
<1>1. /\ G.index = IndexOf(F.manifest) /\ G.manifest = F.manifest /\ G.X = F.X /\ G.calibB = F.calibB
      /\ G.X2 = F.X2 /\ G.cache = F.cache /\ G.ships = F.ships /\ FilesSound(G)
  BY DEF FilesSound
<1>2. PICK SM, SI, SX :
        /\ SM \in SUBSET U /\ SI \in SUBSET SM /\ SX \in SUBSET SI
        /\ F.manifest = ManifestOf(SM) /\ F.X = Index(SX)
        /\ F.calibB = <<>> \/ \E S \in SUBSET SI : F.calibB = Index(S)
        /\ F.X2 = <<>> \/ \E S \in SUBSET U : F.X2 = Data(S)
        /\ \A e \in F.cache : \E S \in SUBSET SM :
             /\ e.key.n = Len(Track(ManifestOf(S)))
             /\ e.index = WindowIndex(Track(ManifestOf(S)))
        /\ \A ship \in F.ships : \A w \in ship.fit :
             w[1] \in U /\ (ship.script = "train_day3_ch6_model" => w[1] \notin Holdout)
  BY DEF DerivedFrom
<1>3. G.index = Index(SM)
  BY <1>1, <1>2 DEF Index
<1>4. SM \in SUBSET SM /\ SX \in SUBSET SM
  BY <1>2
<1>5. F.calibB = <<>> \/ \E S \in SUBSET SM : F.calibB = Index(S)
  BY <1>2
<1>6. DerivedFrom(G, U)
  BY <1>1, <1>2, <1>3, <1>4, <1>5 DEF DerivedFrom
<1> QED BY <1>1, <1>6

(* A rebuilt matrix has the rows of the window index.                        *)
LEMMA DerivedFeatures ==
  ASSUME NEW U \in SUBSET (DOMAIN Label), NEW F, FilesSound(F), DerivedFrom(F, U),
         NEW G, G = [F EXCEPT !.X = BuildFeatureMatrix(F.index)]
  PROVE  FilesSound(G) /\ DerivedFrom(G, U)
<1>1. /\ G.X = BuildFeatureMatrix(F.index) /\ G.manifest = F.manifest /\ G.index = F.index
      /\ G.calibB = F.calibB /\ G.X2 = F.X2 /\ G.cache = F.cache /\ G.ships = F.ships /\ FilesSound(G)
  BY DEF FilesSound
<1>2. PICK SM, SI :
        /\ SM \in SUBSET U /\ SI \in SUBSET SM
        /\ F.manifest = ManifestOf(SM) /\ F.index = Index(SI)
        /\ F.calibB = <<>> \/ \E S \in SUBSET SI : F.calibB = Index(S)
        /\ F.X2 = <<>> \/ \E S \in SUBSET U : F.X2 = Data(S)
        /\ \A e \in F.cache : \E S \in SUBSET SM :
             /\ e.key.n = Len(Track(ManifestOf(S)))
             /\ e.index = WindowIndex(Track(ManifestOf(S)))
        /\ \A ship \in F.ships : \A w \in ship.fit :
             w[1] \in U /\ (ship.script = "train_day3_ch6_model" => w[1] \notin Holdout)
  BY DEF DerivedFrom
<1>3. Frame(F.index)
  BY <1>2, IndexIs DEF Frame
<1>4. G.X = Index(SI)
  BY <1>1, <1>2, <1>3, FeaturesOf
<1>5. SI \in SUBSET SI
  OBVIOUS
<1>6. DerivedFrom(G, U)
  BY <1>1, <1>2, <1>4, <1>5 DEF DerivedFrom
<1> QED BY <1>1, <1>6

-----------------------------------------------------------------------------
(* The derived files as a script saves them *)

(* The saved matrix of ml_2 has the windows of the dataset.                  *)
LEMMA DerivedX2 ==
  ASSUME NEW U, NEW F, FilesSound(F), DerivedFrom(F, U), NEW f, f = Data(U),
         NEW G, G = [F EXCEPT !.X2 = f]
  PROVE  FilesSound(G) /\ DerivedFrom(G, U)
<1>1. /\ G.X2 = f /\ G.manifest = F.manifest /\ G.index = F.index /\ G.X = F.X
      /\ G.calibB = F.calibB /\ G.cache = F.cache /\ G.ships = F.ships /\ FilesSound(G)
  BY DEF FilesSound
<1>2. \E S \in SUBSET U : G.X2 = Data(S)
  BY <1>1
<1>3. PICK SM, SI, SX :
        /\ SM \in SUBSET U /\ SI \in SUBSET SM /\ SX \in SUBSET SI
        /\ F.manifest = ManifestOf(SM)
        /\ F.index = Index(SI) /\ F.X = Index(SX)
        /\ F.calibB = <<>> \/ \E S \in SUBSET SI : F.calibB = Index(S)
        /\ F.X2 = <<>> \/ \E S \in SUBSET U : F.X2 = Data(S)
        /\ \A e \in F.cache : \E S \in SUBSET SM :
             /\ e.key.n = Len(Track(ManifestOf(S)))
             /\ e.index = WindowIndex(Track(ManifestOf(S)))
        /\ \A ship \in F.ships : \A w \in ship.fit :
             w[1] \in U /\ (ship.script = "train_day3_ch6_model" => w[1] \notin Holdout)
  BY DEF DerivedFrom
<1>4. DerivedFrom(G, U)
  BY <1>1, <1>2, <1>3 DEF DerivedFrom
<1> QED BY <1>1, <1>4

(* The saved calibrated matrix has the rows of the window index.             *)
LEMMA DerivedCalibB ==
  ASSUME NEW U, NEW F, FilesSound(F), DerivedFrom(F, U), NEW G, G = [F EXCEPT !.calibB = F.index]
  PROVE  FilesSound(G) /\ DerivedFrom(G, U)
<1>1. /\ G.calibB = F.index /\ G.manifest = F.manifest /\ G.index = F.index /\ G.X = F.X
      /\ G.X2 = F.X2 /\ G.cache = F.cache /\ G.ships = F.ships /\ FilesSound(G)
  BY DEF FilesSound
<1>2. PICK SM, SI, SX :
        /\ SM \in SUBSET U /\ SI \in SUBSET SM /\ SX \in SUBSET SI
        /\ F.manifest = ManifestOf(SM)
        /\ F.index = Index(SI) /\ F.X = Index(SX)
        /\ F.calibB = <<>> \/ \E S \in SUBSET SI : F.calibB = Index(S)
        /\ F.X2 = <<>> \/ \E S \in SUBSET U : F.X2 = Data(S)
        /\ \A e \in F.cache : \E S \in SUBSET SM :
             /\ e.key.n = Len(Track(ManifestOf(S)))
             /\ e.index = WindowIndex(Track(ManifestOf(S)))
        /\ \A ship \in F.ships : \A w \in ship.fit :
             w[1] \in U /\ (ship.script = "train_day3_ch6_model" => w[1] \notin Holdout)
  BY DEF DerivedFrom
<1>3. \E S \in SUBSET SI : G.calibB = Index(S)
  BY <1>1, <1>2
<1>4. DerivedFrom(G, U)
  BY <1>1, <1>2, <1>3 DEF DerivedFrom
<1> QED BY <1>1, <1>4

(* The window index cached is that of the channel-6 manifest of today, under *)
(* its number of rows.                                                       *)
LEMMA DerivedCache ==
  ASSUME NEW U, NEW F, FilesSound(F), DerivedFrom(F, U),
         NEW e, e.key.n = Len(Track(F.manifest)), e.index = WindowIndex(Track(F.manifest)),
         NEW G, G = [F EXCEPT !.cache = @ \cup {e}]
  PROVE  FilesSound(G) /\ DerivedFrom(G, U)
<1>1. /\ G.cache = F.cache \cup {e} /\ G.manifest = F.manifest /\ G.index = F.index /\ G.X = F.X
      /\ G.calibB = F.calibB /\ G.X2 = F.X2 /\ G.ships = F.ships /\ FilesSound(G)
  BY DEF FilesSound
<1>2. PICK SM, SI, SX :
        /\ SM \in SUBSET U /\ SI \in SUBSET SM /\ SX \in SUBSET SI
        /\ F.manifest = ManifestOf(SM)
        /\ F.index = Index(SI) /\ F.X = Index(SX)
        /\ F.calibB = <<>> \/ \E S \in SUBSET SI : F.calibB = Index(S)
        /\ F.X2 = <<>> \/ \E S \in SUBSET U : F.X2 = Data(S)
        /\ \A entry \in F.cache : \E S \in SUBSET SM :
             /\ entry.key.n = Len(Track(ManifestOf(S)))
             /\ entry.index = WindowIndex(Track(ManifestOf(S)))
        /\ \A ship \in F.ships : \A w \in ship.fit :
             w[1] \in U /\ (ship.script = "train_day3_ch6_model" => w[1] \notin Holdout)
  BY DEF DerivedFrom
<1>3. ASSUME NEW d \in G.cache
      PROVE  \E S \in SUBSET SM : /\ d.key.n = Len(Track(ManifestOf(S)))
                                  /\ d.index = WindowIndex(Track(ManifestOf(S)))
  <2>1. CASE d \in F.cache
    BY <1>2, <2>1
  <2>2. CASE d = e
    <3>1. SM \in SUBSET SM
      OBVIOUS
    <3> QED BY <1>2, <2>2, <3>1
  <2> QED BY <1>1, <2>1, <2>2
<1>4. DerivedFrom(G, U)
  BY <1>1, <1>2, <1>3 DEF DerivedFrom
<1> QED BY <1>1, <1>4

(* A checkpoint shipped was fitted on recorded sessions, that of the         *)
(* channel-6 track on none that was held out.                                *)
LEMMA DerivedShips ==
  ASSUME NEW U, NEW F, FilesSound(F), DerivedFrom(F, U), NEW K \in SUBSET F.ships,
         NEW s, \A w \in s.fit : w[1] \in U /\ (s.script = "train_day3_ch6_model" => w[1] \notin Holdout),
         NEW G, G = [F EXCEPT !.ships = K \cup {s}]
  PROVE  FilesSound(G) /\ DerivedFrom(G, U)
<1>1. /\ G.ships = K \cup {s} /\ G.manifest = F.manifest /\ G.index = F.index /\ G.X = F.X
      /\ G.calibB = F.calibB /\ G.X2 = F.X2 /\ G.cache = F.cache /\ FilesSound(G)
  BY DEF FilesSound
<1>2. PICK SM, SI, SX :
        /\ SM \in SUBSET U /\ SI \in SUBSET SM /\ SX \in SUBSET SI
        /\ F.manifest = ManifestOf(SM)
        /\ F.index = Index(SI) /\ F.X = Index(SX)
        /\ F.calibB = <<>> \/ \E S \in SUBSET SI : F.calibB = Index(S)
        /\ F.X2 = <<>> \/ \E S \in SUBSET U : F.X2 = Data(S)
        /\ \A e \in F.cache : \E S \in SUBSET SM :
             /\ e.key.n = Len(Track(ManifestOf(S)))
             /\ e.index = WindowIndex(Track(ManifestOf(S)))
        /\ \A ship \in F.ships : \A w \in ship.fit :
             w[1] \in U /\ (ship.script = "train_day3_ch6_model" => w[1] \notin Holdout)
  BY DEF DerivedFrom
<1>3. \A ship \in G.ships : \A w \in ship.fit :
        w[1] \in U /\ (ship.script = "train_day3_ch6_model" => w[1] \notin Holdout)
  BY <1>1, <1>2
<1>4. DerivedFrom(G, U)
  BY <1>1, <1>2, <1>3 DEF DerivedFrom
<1> QED BY <1>1, <1>4

-----------------------------------------------------------------------------
(* The invariant is kept *)

(* A step that leaves the files and the sessions leaves what plans read.     *)
LEMMA ContextSame ==
  ASSUME files' = files, sessions' = sessions, order' = order PROVE c' = c
BY DEF c

(* What plans read after a step.                                             *)
LEMMA ContextNext ==
  c'.manifest = files'.manifest /\ c'.sessions = sessions'
BY DEF c

(* A step that leaves the data and the derived files alone.                  *)
LEMMA Keeps ==
  ASSUME IInv, UNCHANGED <<sessions, files, order>>, ScriptsSound', PoolSound(pool'), AtPool(pool', todo'),
         Good(todo', c), RowsFair(mem', Day3Ch6Manifest(c)), RowsFair(pool'.rows, Day3Ch6Manifest(c)),
         script' = "" => todo' = <<>> /\ mem' = <<>> /\ pool' = NoPool
  PROVE  IInv'
<1>1. c' = c
  BY ContextSame
<1>2. Day3Ch6Manifest(c)' = Day3Ch6Manifest(c)
  BY <1>1
<1>3. Good(todo, c)' /\ RowsFair(mem, Day3Ch6Manifest(c))' /\ RowsFair(pool.rows, Day3Ch6Manifest(c))'
  BY <1>1, <1>2
<1>4. (sessions \in SUBSET (DOMAIN Label))' /\ FilesSound(files)' /\ Derived' /\ PoolSound(pool)' /\ AtPool(pool, todo)'
  BY DEF IInv, Derived
<1>5. (script = "" => todo = <<>> /\ mem = <<>> /\ pool = NoPool)'
  BY DEF NoPool
<1> QED BY <1>3, <1>4, <1>5 DEF IInv

(* A step that leaves the queues and the logs leaves them sound.             *)
LEMMA ScriptsKept ==
  ASSUME IInv, UNCHANGED <<stages, queue, have, table, kills>> PROVE ScriptsSound'
BY DEF IInv, ScriptsSound

(* Between scripts nothing is under way, whatever files and sessions become. *)
LEMMA BetweenScripts ==
  ASSUME IInv, Idle, UNCHANGED <<script, todo, mem, pool, stages, have, table, queue, kills>>,
         sessions' \in SUBSET (DOMAIN Label), FilesSound(files'), DerivedFrom(files', sessions')
  PROVE  IInv'
<1>1. todo' = <<>> /\ mem' = <<>> /\ pool' = NoPool /\ script' = ""
  BY DEF IInv, Idle
<1>2. Good(todo', c') /\ RowsFair(mem', Day3Ch6Manifest(c)') /\ RowsFair(pool'.rows, Day3Ch6Manifest(c)')
  BY <1>1, GoodNone, RowsFairNone, NoPoolSound
<1>3. PoolSound(pool') /\ AtPool(pool', todo') /\ ScriptsSound'
  BY <1>1, NoPoolSound, ScriptsKept DEF AtPool
<1>4. Good(todo, c)' /\ RowsFair(mem, Day3Ch6Manifest(c))' /\ RowsFair(pool.rows, Day3Ch6Manifest(c))'
  BY <1>2
<1>5. (sessions \in SUBSET (DOMAIN Label))' /\ FilesSound(files)' /\ Derived' /\ PoolSound(pool)' /\ AtPool(pool, todo)'
  BY <1>3 DEF Derived
<1>6. (script = "" => todo = <<>> /\ mem = <<>> /\ pool = NoPool)'
  BY <1>1 DEF NoPool
<1> QED BY <1>3, <1>4, <1>5, <1>6 DEF IInv

(* Record keeps the invariant.                                               *)
LEMMA InvRecord == ASSUME IInv, Record PROVE IInv'
<1>1. PICK s \in LaterSessions \ sessions : sessions' = sessions \cup {s}
  BY DEF Record
<1>2. sessions' \in SUBSET (DOMAIN Label)
  BY <1>1, ExperimentAssumption DEF IInv
<1>3. sessions \subseteq sessions'
  BY <1>1
<1>4. DerivedFrom(files', sessions') /\ FilesSound(files')
  BY <1>3, DerivedMore DEF IInv, Derived, Record
<1> QED BY <1>2, <1>4, BetweenScripts DEF Record

(* Rebuilding a derived file keeps it, if the new file is in order.          *)
LEMMA InvRebuild ==
  ASSUME IInv, NEW new, Rebuild(new), FilesSound(new), DerivedFrom(new, sessions) PROVE IInv'
<1>1. sessions' \in SUBSET (DOMAIN Label) /\ DerivedFrom(files', sessions') /\ FilesSound(files')
  BY DEF IInv, Rebuild
<1> QED BY <1>1, BetweenScripts DEF Rebuild

(* build_manifest, windowing and features keep it.                           *)
LEMMA InvBuilds == ASSUME IInv, BuildManifest \/ BuildWindows \/ BuildFeatures PROVE IInv'
<1>1. PICK F : F = files
  OBVIOUS
<1>2. PICK U : U = sessions
  OBVIOUS
<1>3. FilesSound(F) /\ DerivedFrom(F, U) /\ U \in SUBSET (DOMAIN Label)
  BY <1>1, <1>2 DEF IInv, Derived
<1>4. CASE BuildManifest
  <2>1. PICK G : G = [F EXCEPT !.manifest = ManifestOf(U)]
    OBVIOUS
  <2>2. FilesSound(G) /\ DerivedFrom(G, U)
    BY <1>3, <2>1, DerivedManifest
  <2>3. Rebuild(G)
    BY <1>1, <1>2, <1>4, <2>1 DEF BuildManifest
  <2> QED BY <1>2, <2>2, <2>3, InvRebuild
<1>5. CASE BuildWindows
  <2>1. PICK G : G = [F EXCEPT !.index = IndexOf(F.manifest)]
    OBVIOUS
  <2>2. FilesSound(G) /\ DerivedFrom(G, U)
    BY <1>3, <2>1, DerivedWindows
  <2>3. Rebuild(G)
    BY <1>1, <1>5, <2>1 DEF BuildWindows
  <2> QED BY <1>2, <2>2, <2>3, InvRebuild
<1>6. CASE BuildFeatures
  <2>1. PICK G : G = [F EXCEPT !.X = BuildFeatureMatrix(F.index)]
    OBVIOUS
  <2>2. FilesSound(G) /\ DerivedFrom(G, U)
    BY <1>3, <2>1, DerivedFeatures
  <2>3. Rebuild(G)
    BY <1>1, <1>6, <2>1 DEF BuildFeatures
  <2> QED BY <1>2, <2>2, <2>3, InvRebuild
<1> QED BY <1>4, <1>5, <1>6

-----------------------------------------------------------------------------
(* Starting scripts *)

(* The stages of run_all are scripts.                                        *)
LEMMA StagesAre == STAGES \in Seq(ToSet(STAGES)) /\ ToSet(STAGES) \subseteq Scripts
<1>1. PICK q : q = STAGES
  OBVIOUS
<1>2. Len(q) = 11 /\ DOMAIN q = 1 .. 11
  BY <1>1 DEF STAGES
<1>3. q = [i \in 1 .. 11 |-> q[i]]
  BY <1>1 DEF STAGES
<1>4. PICK S : S = {q[i] : i \in 1 .. 11}
  OBVIOUS
<1>5. q \in [1 .. 11 -> S]
  BY <1>3, <1>4
<1>6. q \in Seq(S)
  BY <1>5, FunSeq
<1>7. ToSet(q) = S
  BY <1>2, <1>4 DEF ToSet
<1>8. ToSet(STAGES) \subseteq Scripts
  BY DEF Scripts
<1> QED BY <1>1, <1>6, <1>7, <1>8

(* No script is nameless: a script that started is running.                  *)
LEMMA Named == "" \notin Scripts
<1>1. PICK q : q = STAGES
  OBVIOUS
<1>2. DOMAIN q = 1 .. 11
  BY <1>1 DEF STAGES
<1>3. ASSUME NEW i \in 1 .. 11 PROVE q[i] # ""
  <2>1. q[1] # "" /\ q[2] # "" /\ q[3] # "" /\ q[4] # "" /\ q[5] # "" /\ q[6] # ""
    BY <1>1 DEF STAGES
  <2>2. q[7] # "" /\ q[8] # "" /\ q[9] # "" /\ q[10] # "" /\ q[11] # ""
    BY <1>1 DEF STAGES
  <2>3. i \in {1, 2, 3, 4, 5, 6, 7, 8, 9, 10, 11}
    OBVIOUS
  <2> QED BY <2>1, <2>2, <2>3
<1>4. "" \notin ToSet(q)
  BY <1>2, <1>3 DEF ToSet
<1> QED BY <1>1, <1>4 DEF Scripts

(* The plan of a script, at the moment it is started.                        *)
LEMMA InvBegin ==
  ASSUME IInv, NEW s \in Scripts, script = "", Begin(s), ScriptsSound',
         UNCHANGED <<sessions, files, order, pool>>
  PROVE  IInv'
<1>1. Good(Plan(s), c)
  BY PlansAreGood, DerivedReady DEF IInv
<1>2. Good(todo', c) /\ mem' = mem /\ script' = s
  BY <1>1 DEF Begin
<1>3. s # "" /\ pool' = NoPool
  BY Named DEF IInv
<1>4. AtPool(pool', todo')
  BY <1>3 DEF AtPool
<1> QED BY <1>2, <1>3, <1>4, Keeps DEF IInv

(* What is left of the scripts to be started by hand.                        *)
LEMMA Queued ==
  ASSUME IInv, queue # <<>>
  PROVE  /\ Tail(queue) \in Seq(Scripts \cup {"run_all"})
         /\ Head(queue) # "run_all" => Head(queue) \in Scripts
<1>1. PICK A : A = Scripts \cup {"run_all"}
  OBVIOUS
<1>2. PICK q : q = queue
  OBVIOUS
<1>3. q \in Seq(A) /\ q # <<>>
  BY <1>1, <1>2 DEF IInv, ScriptsSound
<1>4. Head(q) \in A /\ Tail(q) \in Seq(A)
  BY <1>3
<1> QED BY <1>1, <1>2, <1>4

(* Starting a script by hand keeps it.                                       *)
LEMMA InvStart == ASSUME IInv, Start PROVE IInv'
<1>1. PICK s : s = Head(queue)
  OBVIOUS
<1>2. s \in Scripts /\ queue' \in Seq(Scripts \cup {"run_all"})
  BY <1>1, Queued DEF Start
<1>3. ScriptsSound'
  BY <1>2 DEF Start, IInv, ScriptsSound
<1> QED BY <1>1, <1>2, <1>3, InvBegin DEF Start, Idle

(* So does run_all starting its next stage.                                  *)
LEMMA InvNextStage == ASSUME IInv, NextStage PROVE IInv'
<1>1. PICK s : s = Head(stages)
  OBVIOUS
<1>2. stages \in Seq(ToSet(STAGES)) /\ stages # <<>>
  BY DEF NextStage, IInv, ScriptsSound
<1>3. s \in Scripts
  <2>1. s \in ToSet(STAGES)
    BY <1>1, <1>2
  <2> QED BY <2>1, StagesAre
<1>4. ScriptsSound'
  <2>1. Tail(stages) \in Seq(ToSet(STAGES))
    BY <1>2
  <2> QED BY <2>1 DEF NextStage, IInv, ScriptsSound
<1> QED BY <1>1, <1>3, <1>4, InvBegin DEF NextStage

(* So do starting run_all and its backtest.                                  *)
LEMMA InvRunAll == ASSUME IInv, RunAll \/ Backtest PROVE IInv'
<1>1. UNCHANGED <<sessions, files, order, script, todo, mem, pool>>
  BY DEF RunAll, Backtest
<1>2. ScriptsSound'
  <2>1. CASE RunAll
    <3>1. queue' \in Seq(Scripts \cup {"run_all"})
      BY <2>1, Queued DEF RunAll
    <3>2. stages' \in Seq(ToSet(STAGES))
      BY <2>1, StagesAre DEF RunAll
    <3> QED BY <2>1, <3>1, <3>2 DEF RunAll, IInv, ScriptsSound
  <2>2. CASE Backtest
    <3>1. table' \subseteq have'
      BY <2>2 DEF Backtest, Summary, IInv, ScriptsSound
    <3> QED BY <2>2, <3>1 DEF Backtest, IInv, ScriptsSound
  <2> QED BY <2>1, <2>2
<1> QED BY <1>1, <1>2, Keeps DEF IInv

-----------------------------------------------------------------------------
(* The steps of a script *)

\* The next step and what is left of the plan, in order.
LEMMA NextStep ==
  ASSUME IInv, todo # <<>> PROVE OK(Head(todo), c) /\ Good(Tail(todo), c)
BY GoodHead DEF IInv

(* A step other than a pool's is not taken while folds are running.          *)
LEMMA NotPooling ==
  ASSUME IInv, todo # <<>>, Head(todo).op # "pool", pool' = pool PROVE AtPool(pool', todo')
BY DEF IInv, AtPool

(* Evaluating a row keeps it: the row was fair in the plan.                  *)
LEMMA InvEvaluate == ASSUME IInv, Evaluate PROVE IInv'
<1>1. script # "" /\ todo # <<>> /\ Head(todo).op = "eval"
  BY DEF Evaluate, Now
<1>2. Fair(Head(todo).row, Day3Ch6Manifest(c)) /\ Good(todo', c)
  BY <1>1, NextStep DEF OK, Evaluate
<1>3. RowsFair(mem', Day3Ch6Manifest(c))
  BY <1>2, RowsFairAppend DEF Evaluate, IInv
<1>4. ScriptsSound'
  BY ScriptsKept DEF Evaluate, Kept
<1> QED BY <1>1, <1>2, <1>3, <1>4, Keeps, NotPooling DEF Evaluate, Now, Kept, IInv

(* Logging keeps it.                                                         *)
LEMMA InvLog == ASSUME IInv, Log PROVE IInv'
<1>1. script # "" /\ todo # <<>>
  BY DEF Log, Now
<1>2. Good(todo', c)
  BY <1>1, NextStep DEF Log
<1>3. RowsFair(mem', Day3Ch6Manifest(c))
  BY RowsFairNone DEF Log
<1>4. ScriptsSound'
  <2>1. have \subseteq have'
    BY DEF Log
  <2> QED BY <2>1 DEF Log, Kept, IInv, ScriptsSound
<1> QED BY <1>1, <1>2, <1>3, <1>4, Keeps, NotPooling DEF Log, Now, Kept, IInv

(* Printing keeps it.                                                        *)
LEMMA InvPrint == ASSUME IInv, Print_ PROVE IInv'
<1>1. script # "" /\ todo # <<>>
  BY DEF Print_, Now
<1>2. Good(todo', c)
  BY <1>1, NextStep DEF Print_
<1>3. ScriptsSound'
  BY ScriptsKept DEF Print_, Kept
<1> QED BY <1>1, <1>2, <1>3, Keeps, NotPooling DEF Print_, Now, Kept, IInv

(* Any of the results may turn out the best of the ablation.                 *)
LEMMA InvPickBest == ASSUME IInv, PickBest PROVE IInv'
<1>1. script # ""
  BY DEF PickBest, Now
<1>2. PICK x : x = c
  OBVIOUS
<1>3. Context(x) /\ Frame(x.index)
  BY <1>2, DerivedReady DEF Ready, IInv
<1>4. Good(todo', c)
  BY <1>2, <1>3, GoodAfterPick DEF PickBest
<1>5. ScriptsSound'
  BY ScriptsKept DEF PickBest, Kept
<1> QED BY <1>1, <1>4, <1>5, Keeps, NotPooling DEF PickBest, Now, Kept, IInv

(* Whatever a script saves belongs to the sessions it was made from.         *)
LEMMA InvSave == ASSUME IInv, Save PROVE IInv'
<1>1. script' # "" /\ todo # <<>> /\ UNCHANGED <<sessions, order, script, mem, pool>>
  BY DEF Save, Kept
<1>2. PICK st : st = Head(todo)
  OBVIOUS
<1>3. PICK F : F = files
  OBVIOUS
<1>4. PICK U : U = sessions
  OBVIOUS
<1>5. FilesSound(F) /\ DerivedFrom(F, U) /\ U \in SUBSET (DOMAIN Label)
  BY <1>3, <1>4 DEF IInv, Derived
<1>6. OK(st, c) /\ Good(todo', c)
  BY <1>1, <1>2, NextStep DEF Save
<1>7. c.manifest = F.manifest /\ c.sessions = U
  BY <1>3, <1>4, ContextFields
<1>8. Day3Ch6Manifest(c) = Track(F.manifest) /\ LoadChannel6Dataset(c) = Data(U)
  BY <1>5, <1>7, TrackIsDay3, DataIs
<1>9. FilesSound(files') /\ DerivedFrom(files', U) /\ files'.manifest = F.manifest
  <2>1. CASE st.op = "save_X2" /\ files' = [files EXCEPT !.X2 = st.X]
    <3>1. st.X = Data(U)
      BY <1>6, <1>8, <2>1 DEF OK
    <3>2. PICK G : G = [F EXCEPT !.X2 = st.X]
      OBVIOUS
    <3>3. FilesSound(G) /\ DerivedFrom(G, U)
      BY <1>5, <3>1, <3>2, DerivedX2
    <3>4. G.manifest = F.manifest
      BY <1>5, <3>2 DEF FilesSound
    <3> QED BY <1>3, <2>1, <3>2, <3>3, <3>4
  <2>2. CASE st.op = "save_calibB" /\ files' = [files EXCEPT !.calibB = files.index]
    <3>1. PICK G : G = [F EXCEPT !.calibB = F.index]
      OBVIOUS
    <3>2. FilesSound(G) /\ DerivedFrom(G, U)
      BY <1>5, <3>1, DerivedCalibB
    <3>3. G.manifest = F.manifest
      BY <1>5, <3>1 DEF FilesSound
    <3> QED BY <1>3, <2>2, <3>1, <3>2, <3>3
  <2>3. CASE /\ st.op = "save_index"
             /\ files' = [files EXCEPT !.cache = @ \cup {[key |-> st.key, index |-> st.index]}]
    <3>1. st.key.n = Len(Track(F.manifest)) /\ st.index = WindowIndex(Track(F.manifest))
      BY <1>6, <1>8, <2>3 DEF OK
    <3>2. PICK e : e = [key |-> st.key, index |-> st.index]
      OBVIOUS
    <3>3. e.key = st.key /\ e.index = st.index
      BY <3>2
    <3>4. PICK G : G = [F EXCEPT !.cache = @ \cup {e}]
      OBVIOUS
    <3>5. FilesSound(G) /\ DerivedFrom(G, U)
      BY <1>5, <3>1, <3>3, <3>4, DerivedCache
    <3>6. G.manifest = F.manifest
      BY <1>5, <3>4 DEF FilesSound
    <3> QED BY <1>3, <2>3, <3>2, <3>4, <3>5, <3>6
  <2>4. CASE /\ st.op = "ship"
             /\ files' = [files EXCEPT !.ships =
                   {s \in @ : <<s.task, s.script>> # <<st.task, st.script>>}
                   \cup {[task |-> st.task, script |-> st.script, rate |-> st.rate, fit |-> st.fit]}]
    <3>1. \A w \in st.fit : w[1] \in U /\ (st.script = "train_day3_ch6_model" => w[1] \notin Holdout)
      BY <1>6, <1>7, <2>4 DEF OK
    <3>2. PICK s : s = [task |-> st.task, script |-> st.script, rate |-> st.rate, fit |-> st.fit]
      OBVIOUS
    <3>3. s.fit = st.fit /\ s.script = st.script
      BY <3>2
    <3>4. PICK K : K = {d \in F.ships : <<d.task, d.script>> # <<st.task, st.script>>}
      OBVIOUS
    <3>5. PICK G : G = [F EXCEPT !.ships = K \cup {s}]
      OBVIOUS
    <3>6. K \in SUBSET F.ships
      BY <3>4
    <3>7. FilesSound(G) /\ DerivedFrom(G, U)
      BY <1>5, <3>1, <3>3, <3>5, <3>6, DerivedShips
    <3>8. G.manifest = F.manifest
      BY <1>5, <3>5 DEF FilesSound
    <3> QED BY <1>3, <2>4, <3>2, <3>4, <3>5, <3>7, <3>8
  <2> QED BY <1>2, <2>1, <2>2, <2>3, <2>4 DEF Save
<1>10. c'.manifest = c.manifest /\ c'.sessions = c.sessions
  BY <1>1, <1>3, <1>7, <1>9, ContextNext, ContextFields
<1>11. Good(todo', c')
  BY <1>5, <1>6, <1>7, <1>10, GoodSame
<1>12. Day3Ch6Manifest(c') = Day3Ch6Manifest(c)
  BY <1>10, TrackIsDay3
<1>13. RowsFair(mem', Day3Ch6Manifest(c')) /\ RowsFair(pool'.rows, Day3Ch6Manifest(c'))
  BY <1>1, <1>12 DEF IInv
<1>14. ScriptsSound' /\ PoolSound(pool') /\ AtPool(pool', todo')
  <2>1. Head(todo).op # "pool"
    BY DEF Save
  <2> QED BY <1>1, <2>1, ScriptsKept, NotPooling DEF Save, Kept, IInv
<1>15. DerivedFrom(files', sessions') /\ sessions' \in SUBSET (DOMAIN Label)
  BY <1>1, <1>4, <1>5, <1>9
<1> QED BY <1>1, <1>9, <1>11, <1>13, <1>14, <1>15 DEF IInv, Derived

-----------------------------------------------------------------------------
(* A script ends, whether it finishes, raises or is killed                   *)

(* A script that ends leaves nothing in memory.                              *)
LEMMA InvEnd ==
  ASSUME IInv, NEW failed, End(failed), UNCHANGED <<sessions, order, stages, queue>>,
         kills' \in 0 .. MaxKills
  PROVE  IInv'
<1>1. todo' = <<>> /\ mem' = <<>> /\ pool' = NoPool /\ UNCHANGED <<files, have, table>>
  BY DEF End
<1>2. ScriptsSound'
  BY <1>1 DEF IInv, ScriptsSound
<1>3. Good(todo', c) /\ RowsFair(mem', Day3Ch6Manifest(c)) /\ RowsFair(pool'.rows, Day3Ch6Manifest(c))
  BY <1>1, GoodNone, RowsFairNone, NoPoolSound
<1>4. PoolSound(pool') /\ AtPool(pool', todo')
  BY <1>1, NoPoolSound DEF AtPool
<1> QED BY <1>1, <1>2, <1>3, <1>4, Keeps

(* So the invariant outlives a script, however it ends.                      *)
LEMMA InvEnds == ASSUME IInv, Stop \/ Finish \/ Kill PROVE IInv'
<1>1. kills \in 0 .. MaxKills
  BY DEF IInv, ScriptsSound
<1>2. kills' \in 0 .. MaxKills
  <2>1. CASE Stop \/ Finish
    BY <1>1, <2>1 DEF Stop, Finish, Kept
  <2>2. CASE Kill
    <3>1. kills < MaxKills /\ kills' = kills + 1
      BY <2>2 DEF Kill
    <3>2. MaxKills \in Nat
      BY ExperimentAssumption
    <3> QED BY <1>1, <3>1, <3>2
  <2> QED BY <2>1, <2>2
<1>3. UNCHANGED <<sessions, order, stages, queue>>
  BY DEF Stop, Finish, Kill, Kept
<1>4. End(TRUE) \/ End(FALSE)
  BY DEF Stop, Finish, Kill
<1> QED BY <1>2, <1>3, <1>4, InvEnd

-----------------------------------------------------------------------------
(* The folds of a pool                                                       *)

\* The steps of a pool keep the data, the derived files and the script.
LEMMA PoolKeeps ==
  ASSUME IInv, Pooling \/ Now("pool"), PoolFrame, UNCHANGED mem, Good(todo', c), PoolSound(pool'), AtPool(pool', todo'),
         RowsFair(pool'.rows, Day3Ch6Manifest(c))
  PROVE  IInv'
<1>1. script' # ""
  BY DEF Pooling, Now, PoolFrame
<1>2. ScriptsSound'
  BY ScriptsKept DEF PoolFrame, Kept
<1> QED BY <1>1, <1>2, Keeps DEF PoolFrame, Kept, IInv

(* Opening a pool keeps it.                                                  *)
LEMMA InvOpenPool == ASSUME IInv, OpenPool PROVE IInv'
<1>1. todo # <<>> /\ Head(todo).op = "pool" /\ pool = NoPool
  BY DEF OpenPool, Now
<1>2. PICK st : st = Head(todo)
  OBVIOUS
<1>3. OK(st, c) /\ Good(Tail(todo), c) /\ Good(todo, c)
  BY <1>1, <1>2, NextStep DEF IInv
<1>4. RowsFair(st.rows, Day3Ch6Manifest(c))
  BY <1>1, <1>2, <1>3 DEF OK, RowsFair
<1>5. CASE st.rows = <<>>
  <2>1. todo' = Tail(todo) /\ pool' = pool
    BY <1>2, <1>5 DEF OpenPool
  <2>2. AtPool(pool', todo')
    BY <1>1, <2>1 DEF AtPool
  <2> QED BY <1>3, <2>1, <2>2, PoolKeeps DEF OpenPool, IInv
<1>6. CASE st.rows # <<>>
  <2>1. todo' = todo /\ pool' = [NoPool EXCEPT !.rows = st.rows, !.file = st.file]
    BY <1>2, <1>6 DEF OpenPool
  <2>2. PICK p : p = pool'
    OBVIOUS
  <2>3. /\ p = [rows |-> p.rows, file |-> p.file, next |-> p.next,
                running |-> p.running, done |-> p.done, broken |-> p.broken]
        /\ p.rows = st.rows /\ p.next = 1 /\ p.running = {} /\ p.done = {} /\ p.broken = {}
    BY <2>1, <2>2 DEF NoPool
  <2>4. p.next \in 1 .. Len(p.rows) + 1
    <3>1. Len(st.rows) \in Nat
      BY <1>4 DEF RowsFair
    <3> QED BY <2>3, <3>1
  <2>5. Cardinality({}) = 0 /\ IsFiniteSet({})
    BY FS_EmptySet
  <2>6. Cardinality(p.running) <= Devices /\ {} = 1 .. p.next - 1
    BY <2>3, <2>5, ExperimentAssumption
  <2>7. PoolSound(p)
    BY <2>3, <2>4, <2>5, <2>6 DEF PoolSound
  <2>8. AtPool(pool', todo')
    BY <1>1, <2>1 DEF AtPool
  <2> QED BY <1>3, <1>4, <2>1, <2>2, <2>3, <2>7, <2>8, PoolKeeps DEF OpenPool
<1> QED BY <1>5, <1>6

(* Taking a fold keeps it: one more fold runs, on a device that was free.    *)
LEMMA InvTakeFold == ASSUME IInv, TakeFold PROVE IInv'
<1>1. PICK p : p = pool
  OBVIOUS
<1>2. PoolSound(p) /\ RowsFair(p.rows, Day3Ch6Manifest(c)) /\ Good(todo, c)
  BY <1>1 DEF IInv
<1>3. p.next <= Len(p.rows) /\ Cardinality(p.running) < Devices
  BY <1>1 DEF TakeFold
<1>4. PICK q : q = [p EXCEPT !.next = @ + 1, !.running = @ \cup {p.next}]
  OBVIOUS
<1>5. /\ q = [rows |-> q.rows, file |-> q.file, next |-> q.next,
              running |-> q.running, done |-> q.done, broken |-> q.broken]
      /\ q.rows = p.rows /\ q.next = p.next + 1 /\ q.running = p.running \cup {p.next}
      /\ q.done = p.done /\ q.broken = p.broken
  BY <1>2, <1>4 DEF PoolSound
<1>6. p.next \in Nat /\ Len(p.rows) \in Nat
  BY <1>2 DEF PoolSound, RowsFair
<1>7. q.next \in 1 .. Len(q.rows) + 1
  BY <1>2, <1>3, <1>5, <1>6 DEF PoolSound
<1>8. p.running \cup p.done = 1 .. p.next - 1
  BY <1>2 DEF PoolSound
<1>9. q.running \cup q.done = 1 .. q.next - 1
  <2>1. q.running \cup q.done = (1 .. p.next - 1) \cup {p.next}
    BY <1>5, <1>8
  <2>2. p.next \in 1 .. p.next /\ (1 .. p.next - 1) \cup {p.next} = 1 .. p.next
    BY <1>2, <1>6 DEF PoolSound
  <2> QED BY <1>5, <1>6, <2>1, <2>2
<1>10. p.next \notin p.running \cup p.done
  BY <1>6, <1>8
<1>11. q.running \cap q.done = {} /\ q.broken \subseteq q.done
  BY <1>2, <1>5, <1>10 DEF PoolSound
<1>12. IsFiniteSet(q.running) /\ Cardinality(q.running) = Cardinality(p.running) + 1
  <2>1. IsFiniteSet(p.running) /\ p.next \notin p.running
    BY <1>2, <1>10 DEF PoolSound
  <2> QED BY <1>5, <2>1, FS_AddElement
<1>13. Cardinality(p.running) \in Nat
  BY <1>2, FS_CardinalityType DEF PoolSound
<1>14. Cardinality(q.running) <= Devices
  BY <1>3, <1>12, <1>13, ExperimentAssumption
<1>15. PoolSound(q)
  BY <1>5, <1>7, <1>9, <1>11, <1>12, <1>14 DEF PoolSound
<1>16. pool' = q /\ todo' = todo /\ AtPool(pool', todo')
  BY <1>1, <1>4 DEF TakeFold, Pooling, AtPool, IInv
<1> QED BY <1>2, <1>5, <1>15, <1>16, PoolKeeps DEF TakeFold

(* A fold that ended, whether it raised or not, leaves the pool in order.    *)
LEMMA EndedFold ==
  ASSUME IInv, NEW i \in pool.running, NEW raised, Ended(i, raised)
  PROVE  PoolSound(pool') /\ pool'.rows = pool.rows
<1>1. PICK p : p = pool
  OBVIOUS
<1>2. PoolSound(p)
  BY <1>1 DEF IInv
<1>3. i \in p.running
  BY <1>1
<1>4. PICK B : B = IF raised THEN p.broken \cup {i} ELSE p.broken
  OBVIOUS
<1>5. B \subseteq p.done \cup {i}
  BY <1>2, <1>4 DEF PoolSound
<1>6. PICK q : q = [p EXCEPT !.running = @ \ {i}, !.done = @ \cup {i}, !.broken = B]
  OBVIOUS
<1>7. pool' = q
  BY <1>1, <1>2, <1>4, <1>6 DEF PoolSound, Ended
<1>8. /\ q = [rows |-> q.rows, file |-> q.file, next |-> q.next,
              running |-> q.running, done |-> q.done, broken |-> q.broken]
      /\ q.rows = p.rows /\ q.next = p.next /\ q.running = p.running \ {i}
      /\ q.done = p.done \cup {i} /\ q.broken = B
  BY <1>2, <1>6 DEF PoolSound
<1>9. q.next \in 1 .. Len(q.rows) + 1
  BY <1>2, <1>8 DEF PoolSound
<1>10. q.running \cup q.done = 1 .. q.next - 1
  BY <1>2, <1>3, <1>8 DEF PoolSound
<1>11. q.running \cap q.done = {} /\ q.broken \subseteq q.done
  BY <1>2, <1>5, <1>8 DEF PoolSound
<1>12. IsFiniteSet(q.running) /\ Cardinality(q.running) = Cardinality(p.running) - 1
  BY <1>2, <1>3, <1>8, FS_RemoveElement DEF PoolSound
<1>13. Cardinality(p.running) \in Nat
  BY <1>2, FS_CardinalityType DEF PoolSound
<1>14. Cardinality(q.running) <= Devices
  BY <1>2, <1>12, <1>13, ExperimentAssumption DEF PoolSound
<1>15. PoolSound(q)
  BY <1>8, <1>9, <1>10, <1>11, <1>12, <1>14 DEF PoolSound
<1> QED BY <1>1, <1>7, <1>8, <1>15

(* A fold that ends keeps it.                                                *)
LEMMA InvFinishFold == ASSUME IInv, FinishFold PROVE IInv'
<1>1. PICK i \in pool.running : Ended(i, Empty(pool.rows[i]))
  BY DEF FinishFold
<1>2. PoolSound(pool') /\ pool'.rows = pool.rows
  BY <1>1, EndedFold
<1>3. todo' = todo /\ AtPool(pool', todo')
  BY DEF FinishFold, Pooling, AtPool, IInv
<1>4. RowsFair(pool'.rows, Day3Ch6Manifest(c)) /\ Good(todo', c)
  BY <1>2, <1>3 DEF IInv
<1> QED BY <1>2, <1>3, <1>4, PoolKeeps DEF FinishFold

(* So does one that finds no memory left.                                    *)
LEMMA InvOutOfMemory == ASSUME IInv, OutOfMemory PROVE IInv'
<1>1. PICK i \in pool.running : Ended(i, TRUE)
  BY DEF OutOfMemory
<1>2. PoolSound(pool') /\ pool'.rows = pool.rows
  BY <1>1, EndedFold
<1>3. /\ UNCHANGED <<sessions, files, order, script, todo, mem, stages, have, table, queue>>
      /\ kills < MaxKills /\ kills' = kills + 1
  BY DEF OutOfMemory
<1>4. script # "" /\ AtPool(pool', todo')
  BY <1>3 DEF OutOfMemory, Pooling, AtPool, IInv
<1>5. kills' \in 0 .. MaxKills
  <2>1. kills \in 0 .. MaxKills /\ MaxKills \in Nat
    BY ExperimentAssumption DEF IInv, ScriptsSound
  <2> QED BY <1>3, <2>1
<1>6. ScriptsSound'
  BY <1>3, <1>4, <1>5 DEF IInv, ScriptsSound
<1>7. /\ Good(todo', c) /\ RowsFair(mem', Day3Ch6Manifest(c))
      /\ RowsFair(pool'.rows, Day3Ch6Manifest(c))
  BY <1>2, <1>3 DEF IInv
<1> QED BY <1>2, <1>3, <1>4, <1>6, <1>7, Keeps

(* The rows of a pool, each evaluated and logged.                            *)
LEMMA GoodResults ==
  ASSUME NEW x, NEW rows, RowsFair(rows, Day3Ch6Manifest(x)), NEW file
  PROVE  Good(FlattenSeq([j \in 1 .. Len(rows) |-> Eval(rows[j]) \o LogRows(file)]), x)
<1>1. PICK n : n = Len(rows)
  OBVIOUS
<1>2. n \in Nat
  BY <1>1 DEF RowsFair
<1>3. PICK q : q = [j \in 1 .. n |-> Eval(rows[j]) \o LogRows(file)]
  OBVIOUS
<1>4. ASSUME NEW j \in 1 .. n PROVE Good(q[j], x)
  <2>1. PICK row : row = rows[j]
    OBVIOUS
  <2>2. Fair(row, Day3Ch6Manifest(x))
    BY <1>1, <2>1 DEF RowsFair, Items
  <2>3. PICK s, t : s = Eval(row) /\ t = LogRows(file)
    OBVIOUS
  <2>4. Good(s, x) /\ Good(t, x)
    BY <2>2, <2>3, GoodEval, GoodSteps
  <2>5. q[j] = s \o t
    BY <1>3, <2>1, <2>3
  <2> QED BY <2>4, <2>5, GoodConcat
<1>5. q = [j \in 1 .. n |-> q[j]]
  BY <1>3
<1>6. Good(FlattenSeq(q), x)
  BY <1>2, <1>4, <1>5, GoodLoop
<1> QED BY <1>1, <1>3, <1>6

(* Closing the pool keeps it: its rows are evaluated, or the script raises.  *)
LEMMA InvClosePool == ASSUME IInv, ClosePool PROVE IInv'
<1>1. PICK p : p = pool
  OBVIOUS
<1>2. RowsFair(p.rows, Day3Ch6Manifest(c)) /\ Good(todo, c)
  BY <1>1 DEF IInv
<1>3. pool' = NoPool
  BY DEF ClosePool
<1>4. PoolSound(pool') /\ RowsFair(pool'.rows, Day3Ch6Manifest(c))
  BY <1>3, NoPoolSound, RowsFairNone
<1>5. Good(todo', c)
  <2>1. CASE p.broken # {}
    BY <1>1, <2>1, GoodSteps DEF ClosePool
  <2>2. CASE p.broken = {} /\ todo # <<>>
    <3>1. PICK s : s = FlattenSeq([j \in 1 .. Len(p.rows) |-> Eval(p.rows[j]) \o LogRows(p.file)])
      OBVIOUS
    <3>2. Good(s, c)
      <4>1. PICK x : x = c
        OBVIOUS
      <4>2. PICK rows, file : rows = p.rows /\ file = p.file
        OBVIOUS
      <4>3. RowsFair(rows, Day3Ch6Manifest(x))
        BY <1>2, <4>1, <4>2
      <4>4. PICK q : q = [j \in 1 .. Len(rows) |-> Eval(rows[j]) \o LogRows(file)]
        OBVIOUS
      <4>5. Good(FlattenSeq(q), x)
        BY <4>3, <4>4, GoodResults
      <4> QED BY <3>1, <4>1, <4>2, <4>4, <4>5
    <3>3. PICK t : t = Tail(todo)
      OBVIOUS
    <3>4. Good(t, c)
      BY <2>2, <3>3, NextStep
    <3>5. todo' = s \o t
      BY <1>1, <2>2, <3>1, <3>3 DEF ClosePool, Results, ForEach, Concat
    <3> QED BY <3>2, <3>4, <3>5, GoodConcat
  <2>3. todo # <<>>
    BY DEF ClosePool, Pooling, AtPool, IInv
  <2> QED BY <2>1, <2>2, <2>3
<1>6. AtPool(pool', todo')
  BY <1>3 DEF AtPool
<1> QED BY <1>3, <1>4, <1>5, <1>6, PoolKeeps DEF ClosePool

-----------------------------------------------------------------------------
(* The theorems *)

(* Everything starts in order.                                               *)
THEOREM InitInv == ASSUME Init PROVE IInv
<1>1. PICK U : U = InitialSessions
  OBVIOUS
<1>2. sessions = U /\ U \in SUBSET (DOMAIN Label)
  BY <1>1, ExperimentAssumption DEF Init
<1>3. files = Files(U)
  BY <1>1 DEF Init
<1>4. FilesSound(files) /\ Derived
  BY <1>2, <1>3, DerivedStart DEF Derived
<1>5. script = "" /\ todo = <<>> /\ mem = <<>> /\ pool = NoPool
  BY DEF Init
<1>6. Good(todo, c) /\ RowsFair(mem, Day3Ch6Manifest(c)) /\ RowsFair(pool.rows, Day3Ch6Manifest(c))
  BY <1>5, GoodNone, RowsFairNone, NoPoolSound
<1>7. PoolSound(pool) /\ AtPool(pool, todo)
  BY <1>5, NoPoolSound DEF AtPool
<1>8. ScriptsSound
  <2>1. stages \in Seq(ToSet(STAGES))
    <3>1. PICK S : S = ToSet(STAGES)
      OBVIOUS
    <3>2. stages = <<>>
      BY DEF Init
    <3> QED BY <3>1, <3>2
  <2>2. queue \in Seq(Scripts \cup {"run_all"})
    BY ExperimentAssumption DEF Init
  <2>3. table \subseteq have
    BY DEF Init
  <2>4. kills \in 0 .. MaxKills
    <3>1. kills = 0
      BY DEF Init
    <3>2. MaxKills \in Nat
      BY ExperimentAssumption
    <3> QED BY <3>1, <3>2
  <2> QED BY <2>1, <2>2, <2>3, <2>4 DEF ScriptsSound
<1> QED BY <1>2, <1>4, <1>5, <1>6, <1>7, <1>8 DEF IInv

(* Every step keeps it so.                                                   *)
THEOREM NextInv == ASSUME IInv, [Next]_vars PROVE IInv'
<1>1. CASE Record
  BY <1>1, InvRecord
<1>2. CASE BuildManifest \/ BuildWindows \/ BuildFeatures
  BY <1>2, InvBuilds
<1>3. CASE Start
  BY <1>3, InvStart
<1>4. CASE RunAll \/ Backtest
  BY <1>4, InvRunAll
<1>5. CASE NextStage
  BY <1>5, InvNextStage
<1>6. CASE Evaluate
  BY <1>6, InvEvaluate
<1>7. CASE Log
  BY <1>7, InvLog
<1>8. CASE Print_
  BY <1>8, InvPrint
<1>9. CASE Save
  BY <1>9, InvSave
<1>10. CASE PickBest
  BY <1>10, InvPickBest
<1>11. CASE Stop \/ Finish \/ Kill
  BY <1>11, InvEnds
<1>12. CASE OpenPool
  BY <1>12, InvOpenPool
<1>13. CASE TakeFold
  BY <1>13, InvTakeFold
<1>14. CASE FinishFold
  BY <1>14, InvFinishFold
<1>15. CASE ClosePool
  BY <1>15, InvClosePool
<1>16. CASE OutOfMemory
  BY <1>16, InvOutOfMemory
<1>17. CASE UNCHANGED vars
  <2>1. UNCHANGED <<sessions, files, order, script, todo, mem, pool, stages, queue, have, table, kills>>
    BY <1>17 DEF vars
  <2>2. ScriptsSound'
    BY <2>1, ScriptsKept
  <2> QED BY <2>1, <2>2, Keeps DEF IInv
<1> QED BY <1>1, <1>2, <1>3, <1>4, <1>5, <1>6, <1>7, <1>8, <1>9, <1>10, <1>11, <1>12, <1>13,
           <1>14, <1>15, <1>16, <1>17 DEF Next, Step_

(* The invariant holds in every reachable state, whatever the order of       *)
(* recording, rebuilding, training and killing.                              *)
THEOREM Invariance == Spec => []IInv
<1>1. Init => IInv
  BY InitInv
<1>2. IInv /\ [Next]_vars => IInv'
  BY NextInv
<1> QED BY <1>1, <1>2, PTL DEF Spec

(* No row is measured on what its model has seen.                            *)
THEOREM HeldOutUnseenCorrect == Spec => []HeldOutUnseen
<1>1. IInv => HeldOutUnseen
  BY HeldOut
<1> QED BY <1>1, Invariance, PTL

(* Data, labels and cached files belong together.                            *)
THEOREM DataAlignedCorrect == Spec => []DataAligned
<1>1. IInv => DataAligned
  BY Aligned
<1> QED BY <1>1, Invariance, PTL

-----------------------------------------------------------------------------
(* Scripts that log fold by fold *)

\* Behind its i-th step a plan logs, at once or with the checkpoint saved first.
Behind(s, i) ==
  \/ i + 1 <= Len(s) /\ s[i + 1].op = "log"
  \/ i + 2 <= Len(s) /\ s[i + 1].op = "ship" /\ s[i + 2].op = "log"

\* Each row is logged before the next one is evaluated, and no pool holds any.
Logged(s) ==
  /\ s \in Seq(Items(s))
  /\ \A i \in 1 .. Len(s) : /\ s[i].op \notin {"pool", "pick_best"}
                            /\ s[i].op = "eval" => Behind(s, i)

(* A step that evaluates nothing leaves nothing to log.                      *)
LEMMA LoggedOne ==
  ASSUME NEW st, st.op \notin {"eval", "pool", "pick_best"} PROVE Logged(<<st>>)
<1>1. PICK s : s = <<st>>
  OBVIOUS
<1>2. s \in Seq({st}) /\ Len(s) = 1 /\ s[1] = st
  BY <1>1
<1>3. s \in Seq(Items(s))
  BY <1>2, SeqItems
<1>4. \A i \in 1 .. Len(s) : i = 1
  BY <1>2
<1>5. Logged(s)
  BY <1>2, <1>3, <1>4 DEF Logged
<1> QED BY <1>1, <1>5

(* Nor does no step at all.                                                  *)
LEMMA LoggedNone == Logged(<<>>)
<1>1. PICK s : s = <<>>
  OBVIOUS
<1>2. s \in Seq({}) /\ Len(s) = 0
  BY <1>1
<1>3. s \in Seq(Items(s))
  BY <1>2, SeqItems
<1>4. Logged(s)
  BY <1>2, <1>3 DEF Logged
<1> QED BY <1>1, <1>4

(* One plan after another logs what both evaluate.                           *)
LEMMA LoggedConcat ==
  ASSUME NEW s, NEW t, Logged(s), Logged(t) PROVE Logged(s \o t)
<1>1. PICK S : S = Items(s) \cup Items(t)
  OBVIOUS
<1>2. s \in Seq(S) /\ t \in Seq(S)
  <2>1. s \in Seq(Items(s)) /\ t \in Seq(Items(t))
    BY DEF Logged
  <2> QED BY <1>1, <2>1, SeqSuper
<1>3. PICK m \in Nat : m = Len(s)
  BY <1>2, LenProperties
<1>4. PICK n \in Nat : n = Len(t)
  BY <1>2, LenProperties
<1>5. PICK u : u = s \o t
  OBVIOUS
<1>6. /\ u \in Seq(S) /\ Len(u) = m + n
      /\ \A i \in 1 .. m + n : u[i] = IF i <= m THEN s[i] ELSE t[i - m]
  BY <1>2, <1>3, <1>4, <1>5, ConcatProperties
<1>7. u \in Seq(Items(u))
  BY <1>6, SeqItems
<1>8. \A i \in 1 .. m : u[i] = s[i]
  BY <1>6
<1>9. \A i \in 1 .. n : u[m + i] = t[i]
  <2> SUFFICES ASSUME NEW i \in 1 .. n PROVE u[m + i] = t[i]
    OBVIOUS
  <2>1. m + i \in 1 .. m + n /\ ~(m + i <= m) /\ (m + i) - m = i
    OBVIOUS
  <2> QED BY <1>6, <2>1
<1>10. ASSUME NEW i \in 1 .. m, Behind(s, i) PROVE Behind(u, i)
  <2>1. CASE i + 1 <= Len(s) /\ s[i + 1].op = "log"
    <3>1. i + 1 \in 1 .. m /\ i + 1 <= m + n
      BY <1>3, <2>1
    <3> QED BY <1>6, <1>8, <2>1, <3>1 DEF Behind
  <2>2. CASE i + 2 <= Len(s) /\ s[i + 1].op = "ship" /\ s[i + 2].op = "log"
    <3>1. i + 1 \in 1 .. m /\ i + 2 \in 1 .. m /\ i + 2 <= m + n
      BY <1>3, <2>2
    <3> QED BY <1>6, <1>8, <2>2, <3>1 DEF Behind
  <2> QED BY <1>10, <2>1, <2>2 DEF Behind
<1>11. ASSUME NEW i \in 1 .. n, Behind(t, i) PROVE Behind(u, m + i)
  <2>1. CASE i + 1 <= Len(t) /\ t[i + 1].op = "log"
    <3>1. i + 1 \in 1 .. n /\ (m + i) + 1 = m + (i + 1) /\ (m + i) + 1 <= m + n
      BY <1>4, <2>1
    <3> QED BY <1>6, <1>9, <2>1, <3>1 DEF Behind
  <2>2. CASE i + 2 <= Len(t) /\ t[i + 1].op = "ship" /\ t[i + 2].op = "log"
    <3>1. /\ i + 1 \in 1 .. n /\ i + 2 \in 1 .. n /\ (m + i) + 2 <= m + n
          /\ (m + i) + 1 = m + (i + 1) /\ (m + i) + 2 = m + (i + 2)
      BY <1>4, <2>2
    <3> QED BY <1>6, <1>9, <2>2, <3>1 DEF Behind
  <2> QED BY <1>11, <2>1, <2>2 DEF Behind
<1>12. ASSUME NEW i \in 1 .. m + n
       PROVE  u[i].op \notin {"pool", "pick_best"} /\ (u[i].op = "eval" => Behind(u, i))
  <2>1. CASE i <= m
    <3>1. i \in 1 .. m /\ u[i] = s[i]
      BY <1>8, <2>1
    <3>2. s[i].op \notin {"pool", "pick_best"} /\ (s[i].op = "eval" => Behind(s, i))
      BY <1>3, <3>1 DEF Logged
    <3> QED BY <1>10, <3>1, <3>2
  <2>2. CASE ~(i <= m)
    <3>1. PICK j \in 1 .. n : i = m + j
      <4>1. i - m \in 1 .. n /\ i = m + (i - m)
        BY <2>2
      <4> QED BY <4>1
    <3>2. u[i] = t[j]
      BY <1>9, <3>1
    <3>3. t[j].op \notin {"pool", "pick_best"} /\ (t[j].op = "eval" => Behind(t, j))
      BY <1>4, <3>1 DEF Logged
    <3> QED BY <1>11, <3>1, <3>2, <3>3
  <2> QED BY <2>1, <2>2
<1>13. Logged(u)
  BY <1>6, <1>7, <1>12 DEF Logged
<1> QED BY <1>5, <1>13

(* A loop logs what its bodies log.                                          *)
LEMMA LoggedLoop ==
  ASSUME NEW n \in Nat, NEW q, q = [j \in 1 .. n |-> q[j]], \A j \in 1 .. n : Logged(q[j])
  PROVE  Logged(FlattenSeq(q))
<1>1. PICK S : S = UNION {Items(q[j]) : j \in 1 .. n}
  OBVIOUS
<1>2. ASSUME NEW j \in 1 .. n PROVE q[j] \in Seq(S)
  <2>1. Items(q[j]) \subseteq S
    BY <1>1
  <2>2. q[j] \in Seq(Items(q[j]))
    BY DEF Logged
  <2> QED BY <2>1, <2>2, SeqSuper
<1>3. q \in [1 .. n -> Seq(S)]
  BY <1>2
<1>4. q \in Seq(Seq(S)) /\ Len(q) = n
  BY <1>3, FunSeq
<1>5. PICK F : Flattens(F, q, S)
  BY <1>4, FlattenIs
<1>6. /\ F[0] = <<>> /\ FlattenSeq(q) = F[n]
      /\ \A i \in 1 .. n : F[i] = F[i - 1] \o q[i]
  BY <1>4, <1>5 DEF Flattens
<1> DEFINE T == {k \in Nat : k <= n => Logged(F[k])}
<1>7. 0 \in T
  BY <1>6, LoggedNone
<1>8. ASSUME NEW k \in Nat, k \in T PROVE k + 1 \in T
  <2> SUFFICES ASSUME k + 1 <= n PROVE Logged(F[k + 1])
    OBVIOUS
  <2>1. k + 1 \in 1 .. n /\ (k + 1) - 1 = k /\ k <= n
    OBVIOUS
  <2>2. F[k + 1] = F[k] \o q[k + 1]
    BY <1>6, <2>1
  <2>3. Logged(F[k]) /\ Logged(q[k + 1])
    BY <1>8, <2>1
  <2> HIDE DEF T
  <2> QED BY <2>2, <2>3, LoggedConcat
<1>9. n \in T
  <2> HIDE DEF T
  <2> QED BY <1>7, <1>8, NatSet
<1> QED BY <1>6, <1>9

(* Raising, failing an assertion and logging evaluate nothing.               *)
LEMMA LoggedSteps ==
  Logged(Raise) /\ Logged(LeakAssertion) /\ \A file : Logged(LogRows(file))
<1>1. ASSUME NEW op \in {"raise", "assert"} PROVE Logged(Step(op))
  <2>1. PICK st : st = [op |-> op]
    OBVIOUS
  <2>2. st.op = op
    BY <2>1
  <2> QED BY <2>1, <2>2, LoggedOne DEF Step
<1>2. ASSUME NEW file PROVE Logged(LogRows(file))
  <2>1. PICK st : st = [op |-> "log", file |-> file]
    OBVIOUS
  <2>2. st.op = "log"
    BY <2>1
  <2> QED BY <2>1, <2>2, LoggedOne DEF LogRows
<1> QED BY <1>1, <1>2 DEF Raise, LeakAssertion

(* A row that is logged at once, or that could not be evaluated.             *)
LEMMA LoggedRow == ASSUME NEW row, NEW file PROVE Logged(Eval(row) \o LogRows(file))
<1>1. PICK a, b : a = [op |-> "eval", row |-> row] /\ b = [op |-> "log", file |-> file]
  OBVIOUS
<1>2. a.op = "eval" /\ b.op = "log" /\ LogRows(file) = <<b>>
  BY <1>1 DEF LogRows
<1>3. CASE Eval(row) = Raise
  BY <1>3, LoggedSteps, LoggedConcat
<1>4. CASE Eval(row) = <<a>>
  <2>1. PICK s : s = <<a>> \o <<b>>
    OBVIOUS
  <2>2. PICK u, v : u = <<a>> /\ v = <<b>>
    OBVIOUS
  <2>3. s \in Seq({a, b}) /\ Len(s) = 2 /\ s[1] = a /\ s[2] = b
    <3>1. u \in Seq({a, b}) /\ Len(u) = 1 /\ u[1] = a /\ v \in Seq({a, b}) /\ Len(v) = 1 /\ v[1] = b
      BY <2>2
    <3> QED BY <2>1, <2>2, <3>1, ConcatProperties
  <2>4. s \in Seq(Items(s))
    BY <2>3, SeqItems
  <2>5. \A i \in 1 .. Len(s) : i = 1 \/ i = 2
    BY <2>3
  <2>6. Behind(s, 1)
    BY <1>2, <2>3 DEF Behind
  <2>7. Logged(s)
    BY <1>2, <2>3, <2>4, <2>5, <2>6 DEF Logged
  <2> QED BY <1>2, <1>4, <2>1, <2>7
<1> QED BY <1>1, <1>3, <1>4 DEF Eval

(* A fold that fails its assertion evaluates nothing.                        *)
LEMMA LoggedAsserted ==
  ASSUME NEW f, NEW sp, NEW steps, Logged(steps) PROVE Logged(Asserted(f, sp, steps))
BY LoggedSteps DEF Asserted

(* Three plans one after another.                                            *)
LEMMA LoggedThree ==
  ASSUME NEW r, NEW s, NEW t, Logged(r), Logged(s), Logged(t) PROVE Logged((r \o s) \o t)
<1>1. PICK u : u = r \o s
  OBVIOUS
<1>2. Logged(u)
  BY <1>1, LoggedConcat
<1> QED BY <1>1, <1>2, LoggedConcat

(* Four, and six.                                                            *)
LEMMA LoggedSix ==
  ASSUME NEW r, NEW s, NEW t, NEW u, NEW v, NEW w,
         Logged(r), Logged(s), Logged(t), Logged(u), Logged(v), Logged(w)
  PROVE  /\ Logged(((r \o s) \o t) \o u)
         /\ Logged(((((r \o s) \o t) \o u) \o v) \o w)
<1>1. PICK p : p = (r \o s) \o t
  OBVIOUS
<1>2. PICK k : k = p \o u
  OBVIOUS
<1>3. Logged(p)
  BY <1>1, LoggedThree
<1>4. Logged(k)
  BY <1>2, <1>3, LoggedConcat
<1>5. Logged((k \o v) \o w)
  BY <1>4, LoggedThree
<1> QED BY <1>1, <1>2, <1>4, <1>5

(* A fold of a classical model is logged when it is over; the generative     *)
(* script logs its first model before it fits the second.                    *)
LEMMA LoggedFold ==
  ASSUME NEW j, j.model \in {"binary", "binary_svc", "known_svm", "known", "generative", "pretrained"},
         NEW stage, NEW f, NEW X, NEW sp
  PROVE  Logged(FoldSteps(j, stage, f, X, sp) \o LogRows(j.file))
<1>1. PICK L : L = LogRows(j.file)
  OBVIOUS
<1>2. Logged(L) /\ \A row : Logged(Eval(row) \o L)
  BY <1>1, LoggedSteps, LoggedRow
<1>3. \A sq : Logged(KnownFold(j.script, stage, f, X, sq) \o L)
  BY <1>2 DEF KnownFold
<1>4. \A sq : Logged(BinaryFold(j.script, stage, f, X, sq) \o L)
  BY <1>2, LoggedSteps, LoggedConcat DEF BinaryFold
<1>5. CASE j.model = "binary"
  <2>1. FoldSteps(j, stage, f, X, sp) = BinaryFold(j.script, stage, f, X, sp)
    BY <1>5 DEF FoldSteps
  <2> QED BY <1>1, <1>4, <2>1
<1>6. CASE j.model = "binary_svc"
  <2>1. PICK sq : sq = [sp EXCEPT !.train = Capped(sp.train)]
    OBVIOUS
  <2>2. FoldSteps(j, stage, f, X, sp) = BinaryFold(j.script, stage, f, X, sq)
    BY <1>6, <2>1 DEF FoldSteps
  <2> QED BY <1>1, <1>4, <2>2
<1>7. CASE j.model = "known_svm"
  <2>1. PICK sq : sq = [sp EXCEPT !.train = Capped(Known(f, sp.train))]
    OBVIOUS
  <2>2. FoldSteps(j, stage, f, X, sp) = KnownFold(j.script, stage, f, X, sq)
    BY <1>7, <2>1 DEF FoldSteps
  <2> QED BY <1>1, <1>3, <2>2
<1>8. CASE j.model = "known"
  <2>1. FoldSteps(j, stage, f, X, sp) = KnownFold(j.script, stage, f, X, sp)
    BY <1>8 DEF FoldSteps
  <2> QED BY <1>1, <1>3, <2>1
<1>9. CASE j.model = "generative"
  <2>1. PICK known : known = KnownFold(j.script, stage, f, X, sp)
    OBVIOUS
  <2>2. FoldSteps(j, stage, f, X, sp) = (known \o L) \o known
    BY <1>1, <1>9, <2>1 DEF FoldSteps
  <2>3. Logged(known \o L)
    BY <1>3, <2>1
  <2>4. ((known \o L) \o known) \o L = (known \o L) \o (known \o L)
    <3>1. PICK st : known = <<st>>
      BY <2>1 DEF KnownFold, Eval, Raise, Step
    <3>2. PICK lg : L = <<lg>>
      BY <1>1 DEF LogRows
    <3>3. PICK S : S = {st, lg}
      OBVIOUS
    <3>4. known \in Seq(S) /\ L \in Seq(S)
      BY <3>1, <3>2, <3>3
    <3>5. PICK k : k = known \o L
      OBVIOUS
    <3>6. k \in Seq(S)
      BY <3>4, <3>5, ConcatProperties
    <3> QED BY <3>4, <3>5, <3>6, ConcatAssociative
  <2> QED BY <1>1, <2>2, <2>3, <2>4, LoggedConcat
<1>10. CASE j.model = "pretrained"
  <2>1. FoldSteps(j, stage, f, X, sp) = Eval([Row(j.script, stage, sp, X, f) EXCEPT !.pre = ToSet(f)])
    BY <1>10 DEF FoldSteps, PretrainedFold
  <2> QED BY <1>1, <1>2, <2>1
<1> QED BY <1>5, <1>6, <1>7, <1>8, <1>9, <1>10

(* The three loops of a classical model.                                     *)
LEMMA LoggedModel ==
  ASSUME NEW x, NEW f, Frame(f), NEW X, NEW j,
         j.model \in {"binary", "binary_svc", "known_svm", "known", "generative", "pretrained"}
  PROVE  /\ Logged(EvaluateOpenSet(f, x, X, j)) /\ Logged(EvaluateCrossDay(f, X, j))
         /\ Logged(EvaluateClosedSet(f, x, X, j))
<1>1. ASSUME NEW stage, NEW sp
      PROVE  /\ Logged(FoldSteps(j, stage, f, X, sp) \o LogRows(j.file))
             /\ Logged(Asserted(f, sp, FoldSteps(j, stage, f, X, sp) \o LogRows(j.file)))
  BY LoggedFold, LoggedAsserted
<1>2. Logged(EvaluateOpenSet(f, x, X, j))
  <2> DEFINE P == OpenSet(f, x)
             q == [k \in 1 .. Len(P) |->
                     Asserted(f, P[k], FoldSteps(j, OpenStage, f, X, P[k]) \o LogRows(j.file))]
  <2>1. EvaluateOpenSet(f, x, X, j) = FlattenSeq(q)
    BY DEF EvaluateOpenSet, ForEach, Concat
  <2>2. Folds(f, P)
    BY PersonFolds DEF OpenSet
  <2> HIDE DEF P
  <2>3. Len(P) \in Nat
    BY <2>2, FoldCount
  <2>4. \A k \in 1 .. Len(P) : Logged(q[k])
    BY <1>1
  <2> QED BY <2>1, <2>3, <2>4, LoggedLoop
<1>3. Logged(EvaluateCrossDay(f, X, j))
  <2> DEFINE P == ScorableDays(f)
             q == [k \in 1 .. Len(P) |-> FoldSteps(j, DayStage, f, X, P[k]) \o LogRows(j.file)]
  <2>1. EvaluateCrossDay(f, X, j) = FlattenSeq(q)
    BY DEF EvaluateCrossDay, ForEach, Concat
  <2>2. Folds(f, P)
    BY ScorableFoldsOf
  <2> HIDE DEF P
  <2>3. Len(P) \in Nat
    BY <2>2, FoldCount
  <2>4. \A k \in 1 .. Len(P) : Logged(q[k])
    BY <1>1
  <2> QED BY <2>1, <2>3, <2>4, LoggedLoop
<1>4. Logged(EvaluateClosedSet(f, x, X, j))
  <2> DEFINE P == SessionDisjointKfold2(f, x.order)
             s == "session_disjoint_5fold"
             q == [k \in 1 .. Len(P) |->
                     Asserted(f, P[k], FoldSteps(j, s, f, X, P[k]) \o LogRows(j.file))]
  <2>1. EvaluateClosedSet(f, x, X, j) = FlattenSeq(q)
    BY DEF EvaluateClosedSet, ForEach, Concat
  <2>2. PICK n : n = Smaller(NSplits, Cardinality(SessionsOf(f)))
    OBVIOUS
  <2>3. n \in Nat
    BY <2>2, FrameSessions, NSplitsAssumption DEF Smaller
  <2>4. PICK groups : groups = Permutation(SessionsOf(f), x.order)
    OBVIOUS
  <2>5. P = GroupKFold(f, Session, groups, n)
    BY <2>2, <2>4 DEF SessionDisjointKfold2
  <2>6. Folds(f, P)
    BY <2>3, <2>5, KfoldFolds
  <2> HIDE DEF P
  <2>7. Len(P) \in Nat
    BY <2>6, FoldCount
  <2>8. \A k \in 1 .. Len(P) : Logged(q[k])
    BY <1>1
  <2> QED BY <2>1, <2>7, <2>8, LoggedLoop
<1> QED BY <1>2, <1>3, <1>4

(* Saving the features, and raising on an empty dataset, evaluate nothing.   *)
LEMMA LoggedSaves ==
  ASSUME NEW x, NEW f
  PROVE  /\ Logged(SaveFeatures(x, f)) /\ Logged(SaveIndex(x, f))
         /\ \A steps : Logged(steps) => Logged(OnDataset(f, steps))
<1>1. PICK m : m = BuildFeatureMatrix(f)
  OBVIOUS
<1>2. PICK k, w : k = CacheKey(f) /\ w = WindowIndex(f)
  OBVIOUS
<1>3. PICK a, b : a = [op |-> "save_X2", X |-> m] /\ b = [op |-> "save_index", key |-> k, index |-> w]
  OBVIOUS
<1>4. a.op = "save_X2" /\ b.op = "save_index"
  BY <1>3
<1>5. Logged(<<a>>) /\ Logged(<<b>>)
  BY <1>4, LoggedOne
<1>6. SaveFeatures(x, f) \in {<<>>, <<a>>}
  BY <1>1, <1>3 DEF SaveFeatures
<1>7. SaveIndex(x, f) \in {<<>>, <<b>>}
  BY <1>2, <1>3 DEF SaveIndex
<1>8. ASSUME NEW steps, Logged(steps) PROVE Logged(OnDataset(f, steps))
  BY <1>8, LoggedSteps DEF OnDataset
<1> QED BY <1>5, <1>6, <1>7, <1>8, LoggedNone

(* The classical scripts of ml_2.                                            *)
LEMMA LoggedClassics ==
  ASSUME NEW x, Built(x)
  PROVE  /\ Logged(TrainGbm(x)) /\ Logged(TrainCusum(x)) /\ Logged(TrainSvmGait(x))
         /\ Logged(TrainGenerativeHardNegative(x)) /\ Logged(TrainContrastive(x))
<1>1. PICK f : f = LoadChannel6Dataset(x)
  OBVIOUS
<1>2. PICK X : X = FeatureMatrixFor(x, f)
  OBVIOUS
<1>3. Frame(f)
  BY <1>1, MatrixIs
<1>4. PICK s : s = SaveFeatures(x, f)
  OBVIOUS
<1>5. Logged(s) /\ \A steps : Logged(steps) => Logged(OnDataset(f, steps))
  BY <1>4, LoggedSaves
<1>6. Logged(TrainGbm(x))
  <2>1. PICK j : j = Job("train_gbm", "binary", "gbm_log")
    OBVIOUS
  <2>2. PICK r, t, u : /\ r = EvaluateOpenSet(f, x, X, j) /\ t = EvaluateCrossDay(f, X, j)
                       /\ u = EvaluateClosedSet(f, x, X, j)
    OBVIOUS
  <2>3. j.model = "binary"
    BY <2>1 DEF Job
  <2>4. Logged(r) /\ Logged(t) /\ Logged(u)
    BY <1>3, <2>2, <2>3, LoggedModel
  <2>5. Logged(((s \o r) \o t) \o u)
    BY <1>5, <2>4, LoggedSix
  <2>6. TrainGbm(x) = OnDataset(f, ((s \o r) \o t) \o u)
    BY <1>1, <1>2, <1>4, <2>1, <2>2 DEF TrainGbm
  <2> QED BY <1>5, <2>5, <2>6
<1>7. Logged(TrainCusum(x))
  <2>1. PICK j : j = Job("train_cusum", "known", "cusum_log")
    OBVIOUS
  <2>2. PICK r, t : r = EvaluateOpenSet(f, x, X, j) /\ t = EvaluateCrossDay(f, X, j)
    OBVIOUS
  <2>3. j.model = "known"
    BY <2>1 DEF Job
  <2>4. Logged(r) /\ Logged(t)
    BY <1>3, <2>2, <2>3, LoggedModel
  <2>5. Logged((s \o r) \o t)
    BY <1>5, <2>4, LoggedThree
  <2>6. TrainCusum(x) = OnDataset(f, (s \o r) \o t)
    BY <1>1, <1>2, <1>4, <2>1, <2>2 DEF TrainCusum
  <2> QED BY <1>5, <2>5, <2>6
<1>8. Logged(TrainSvmGait(x))
  <2> DEFINE zoo == <<"known_svm", "binary_svc", "known_svm">>
             job(m) == Job("train_svm_gait", m, "svm_gait_log")
             body(m) == (EvaluateOpenSet(f, x, X, job(m)) \o EvaluateCrossDay(f, X, job(m)))
                          \o EvaluateClosedSet(f, x, X, job(m))
             q == [k \in 1 .. Len(zoo) |-> body(zoo[k])]
  <2>1. TrainSvmGait(x) = OnDataset(f, s \o FlattenSeq(q))
    BY <1>1, <1>2, <1>4 DEF TrainSvmGait, ForEach, Concat
  <2>2. ASSUME NEW m, m \in {"known_svm", "binary_svc"} PROVE Logged(body(m))
    <3>1. PICK j : j = job(m)
      OBVIOUS
    <3>2. j.model \in {"known_svm", "binary_svc"}
      BY <2>2, <3>1 DEF Job
    <3>3. PICK r, t, u : /\ r = EvaluateOpenSet(f, x, X, j) /\ t = EvaluateCrossDay(f, X, j)
                         /\ u = EvaluateClosedSet(f, x, X, j)
      OBVIOUS
    <3>4. Logged(r) /\ Logged(t) /\ Logged(u)
      BY <1>3, <3>2, <3>3, LoggedModel
    <3>5. Logged((r \o t) \o u)
      BY <3>4, LoggedThree
    <3> QED BY <3>1, <3>3, <3>5
  <2>3. Len(zoo) = 3 /\ \A k \in 1 .. 3 : zoo[k] \in {"known_svm", "binary_svc"}
    OBVIOUS
  <2> HIDE DEF body, zoo
  <2>4. \A k \in 1 .. Len(zoo) : Logged(q[k])
    BY <2>2, <2>3
  <2>5. Logged(FlattenSeq(q))
    BY <2>3, <2>4, LoggedLoop
  <2> HIDE DEF q
  <2> QED BY <1>5, <2>1, <2>5, LoggedConcat
<1>9. Logged(TrainGenerativeHardNegative(x))
  <2>1. PICK j : j = Job("train_generative_hard_negative", "generative", "generative_hard_negative_log")
    OBVIOUS
  <2>2. PICK r : r = EvaluateOpenSet(f, x, X, j)
    OBVIOUS
  <2>3. j.model = "generative"
    BY <2>1 DEF Job
  <2>4. Logged(r)
    BY <1>3, <2>2, <2>3, LoggedModel
  <2>5. TrainGenerativeHardNegative(x) = OnDataset(f, s \o r)
    BY <1>1, <1>2, <1>4, <2>1, <2>2 DEF TrainGenerativeHardNegative
  <2> QED BY <1>5, <2>4, <2>5, LoggedConcat
<1>10. Logged(TrainContrastive(x))
  <2>1. PICK j : j = Job("train_contrastive", "pretrained", "contrastive_log")
    OBVIOUS
  <2>2. PICK r, t : r = EvaluateOpenSet(f, x, f, j) /\ t = EvaluateCrossDay(f, f, j)
    OBVIOUS
  <2>3. j.model = "pretrained"
    BY <2>1 DEF Job
  <2>4. Logged(r) /\ Logged(t)
    BY <1>3, <2>2, <2>3, LoggedModel
  <2>5. TrainContrastive(x) = OnDataset(f, r \o t)
    BY <1>1, <2>1, <2>2 DEF TrainContrastive
  <2> QED BY <1>5, <2>4, <2>5, LoggedConcat
<1> QED BY <1>6, <1>7, <1>8, <1>9, <1>10

(* The folds of the channel-6 track, each logged at once.                    *)
LEMMA LoggedDay3Folds ==
  ASSUME NEW name, NEW f, Frame(f), NEW perm, NEW task
  PROVE  /\ Logged(EvaluateTaskD(name, f, perm)) /\ Logged(EvaluateTaskDDayDisjoint(name, f))
         /\ Logged(EvaluateSingleSplit(task, f, perm))
<1>1. \A row : Logged(Eval(row) \o Day3Log)
  BY LoggedRow DEF Day3Log
<1>2. Logged(EvaluateTaskD(name, f, perm))
  <2> DEFINE P == LeaveOneUnauthorizedPersonOut(f, perm, TRUE)
             q == [j \in 1 .. Len(P) |->
                     Asserted(f, P[j], Eval(Row(name, "eval_loo", P[j], f, f)) \o Day3Log)]
  <2>1. EvaluateTaskD(name, f, perm) = FlattenSeq(q)
    BY DatasetD DEF EvaluateTaskD, ForEach, Concat
  <2>2. Folds(f, P)
    BY PersonFolds
  <2> HIDE DEF P
  <2>3. Len(P) \in Nat
    BY <2>2, FoldCount
  <2>4. \A j \in 1 .. Len(P) : Logged(q[j])
    BY <1>1, LoggedAsserted
  <2> QED BY <2>1, <2>3, <2>4, LoggedLoop
<1>3. Logged(EvaluateTaskDDayDisjoint(name, f))
  <2> DEFINE P == LeaveOneDayOut(f)
             q == [j \in 1 .. Len(P) |->
                     IF ~BothClasses(TaskD, f, P[j].test) THEN <<>>
                     ELSE Eval(Row(name, "eval_day_loo", P[j], f, f)) \o Day3Log]
  <2>1. EvaluateTaskDDayDisjoint(name, f) = FlattenSeq(q)
    BY DatasetD DEF EvaluateTaskDDayDisjoint, ForEach, Concat
  <2>2. Folds(f, P)
    BY DayFolds
  <2> HIDE DEF P
  <2>3. Len(P) \in Nat
    BY <2>2, FoldCount
  <2>4. \A j \in 1 .. Len(P) : Logged(q[j])
    BY <1>1, LoggedNone
  <2> QED BY <2>1, <2>3, <2>4, LoggedLoop
<1>4. Logged(EvaluateSingleSplit(task, f, perm))
  <2> DEFINE ds == Dataset(f, task)
             K == SessionDisjointKfold(ds, perm)
             q == [j \in 1 .. Len(K) |->
                     Asserted(ds, K[j], Eval(Row("train_day3_ch6_model", "eval_split", K[j], ds, ds))
                                        \o Day3Log)]
  <2>1. EvaluateSingleSplit(task, f, perm) = IF KFoldRaises(ds) THEN Raise ELSE FlattenSeq(q)
    BY DEF EvaluateSingleSplit, KfoldLoop, ForEach, Concat
  <2>2. Len(K) \in Nat
    BY SessionFolds
  <2> HIDE DEF K, ds
  <2>3. \A j \in 1 .. Len(K) : Logged(q[j])
    BY <1>1, LoggedAsserted
  <2>4. Logged(FlattenSeq(q))
    BY <2>2, <2>3, LoggedLoop
  <2> QED BY <2>1, <2>4, LoggedSteps
<1> QED BY <1>2, <1>3, <1>4

(* The row of a checkpoint is logged when the checkpoint is saved.           *)
LEMMA LoggedShip ==
  ASSUME NEW name, NEW file, NEW ds, NEW task, NEW rate
  PROVE  Logged(ShipFinal(name, file, ds, task, rate))
<1>1. PICK whole : whole = [key |-> 0, train |-> Rows(ds), test |-> Rows(ds)]
  OBVIOUS
<1>2. PICK row, F : row = Row(name, "final", whole, ds, ds) /\ F = ToSet(ds)
  OBVIOUS
<1>3. PICK a, b, d : /\ a = [op |-> "eval", row |-> row] /\ d = [op |-> "log", file |-> file]
                     /\ b = [op |-> "ship", task |-> task, script |-> name, rate |-> rate, fit |-> F]
  OBVIOUS
<1>4. a.op = "eval" /\ b.op = "ship" /\ d.op = "log"
  BY <1>3
<1>5. ShipFinal(name, file, ds, task, rate)
        = IF Cardinality(Classes(task, ds, Rows(ds))) # 2 THEN Raise
          ELSE (Eval(row) \o <<b>>) \o <<d>>
  BY <1>1, <1>2, <1>3 DEF ShipFinal, LogRows
<1>6. Logged(<<b>>) /\ Logged(<<d>>)
  BY <1>4, LoggedOne
<1>7. CASE Eval(row) = Raise
  BY <1>5, <1>6, <1>7, LoggedSteps, LoggedThree
<1>8. CASE Eval(row) = <<a>>
  <2>1. PICK S : S = {a, b, d}
    OBVIOUS
  <2>2. PICK u, v, w : u = <<a>> /\ v = <<b>> /\ w = <<d>>
    OBVIOUS
  <2>3. /\ u \in Seq(S) /\ Len(u) = 1 /\ u[1] = a /\ v \in Seq(S) /\ Len(v) = 1 /\ v[1] = b
        /\ w \in Seq(S) /\ Len(w) = 1 /\ w[1] = d
    BY <2>1, <2>2
  <2>4. PICK p : p = u \o v
    OBVIOUS
  <2>5. p \in Seq(S) /\ Len(p) = 2 /\ p[1] = a /\ p[2] = b
    <3>1. p \in Seq(S) /\ Len(p) = Len(u) + Len(v)
      BY <2>3, <2>4, ConcatProperties
    <3>2. \A i \in 1 .. Len(u) + Len(v) : (u \o v)[i] = IF i <= Len(u) THEN u[i] ELSE v[i - Len(u)]
      BY <2>3, ConcatProperties
    <3> QED BY <2>3, <2>4, <3>1, <3>2
  <2>6. PICK s : s = p \o w
    OBVIOUS
  <2>7. s \in Seq(S) /\ Len(s) = 3 /\ s[1] = a /\ s[2] = b /\ s[3] = d
    BY <2>3, <2>5, <2>6, ConcatProperties
  <2>8. s \in Seq(Items(s))
    BY <2>7, SeqItems
  <2>9. \A i \in 1 .. Len(s) : i = 1 \/ i = 2 \/ i = 3
    BY <2>7
  <2>10. Behind(s, 1)
    BY <1>4, <2>7 DEF Behind
  <2>11. Logged(s)
    BY <1>4, <2>7, <2>8, <2>9, <2>10 DEF Logged
  <2> QED BY <1>5, <1>8, <2>2, <2>4, <2>6, <2>11, LoggedSteps
<1> QED BY <1>3, <1>7, <1>8 DEF Eval

(* train_day3_ch6_model.                                                     *)
LEMMA LoggedTrainDay3Ch6Model ==
  ASSUME NEW x, Recorded(x), Cached(x) PROVE Logged(TrainDay3Ch6Model(x))
<1> DEFINE D == Day3Ch6Manifest(x)
           index == BuildOrLoadWindowIndex(x, D)
           name == "train_day3_ch6_model"
           q == [j \in 1 .. Len(Day3Tasks) |->
                   ShipFinal(name, "day3_ch6_model_log", Dataset(index, Day3Tasks[j]), Day3Tasks[j],
                             TargetRate(D))]
<1>1. TrainDay3Ch6Model(x) =
        IF ~HasNone(D) THEN Raise
        ELSE ((((SaveIndex(x, D) \o EvaluateTaskD(name, index, x.order))
               \o EvaluateTaskDDayDisjoint(name, index))
              \o EvaluateSingleSplit("task0_presence", index, x.order))
             \o EvaluateSingleSplit("taskE_motion_standing_vs_walking", index, x.order))
            \o FlattenSeq(q)
  BY DEF TrainDay3Ch6Model, ForEach, Concat
<1>2. Frame(index)
  BY Day3Index
<1>3. PICK s1, s2, s3, s4, s5 :
        /\ s1 = SaveIndex(x, D) /\ s2 = EvaluateTaskD(name, index, x.order)
        /\ s3 = EvaluateTaskDDayDisjoint(name, index)
        /\ s4 = EvaluateSingleSplit("task0_presence", index, x.order)
        /\ s5 = EvaluateSingleSplit("taskE_motion_standing_vs_walking", index, x.order)
  OBVIOUS
<1>4. PICK s6 : s6 = FlattenSeq(q)
  OBVIOUS
<1>5. Logged(s6)
  <2>1. Len(Day3Tasks) \in Nat
    BY DEF Day3Tasks
  <2> HIDE DEF D, index, name
  <2>2. \A j \in 1 .. Len(Day3Tasks) : Logged(q[j])
    BY LoggedShip
  <2> QED BY <1>4, <2>1, <2>2, LoggedLoop
<1> HIDE DEF q, D, index, name
<1>6. Logged(s1) /\ Logged(s2) /\ Logged(s3) /\ Logged(s4) /\ Logged(s5)
  BY <1>2, <1>3, LoggedSaves, LoggedDay3Folds
<1>7. Logged(((((s1 \o s2) \o s3) \o s4) \o s5) \o s6)
  BY <1>5, <1>6, LoggedSix
<1> QED BY <1>1, <1>3, <1>4, <1>7, LoggedSteps

(* train_caution_protonet.                                                   *)
LEMMA LoggedTrainCautionProtonet ==
  ASSUME NEW x, Recorded(x), Cached(x) PROVE Logged(TrainCautionProtonet(x))
<1> DEFINE D == Day3Ch6Manifest(x)
           f == BuildOrLoadWindowIndex(x, D)
           P == LeaveOneUnauthorizedPersonOut(f, x.order, TRUE)
           L == LeaveOneDayOut(f)
           p == [j \in 1 .. Len(P) |-> CautionFold("eval_loo", f, P[j], x.order)]
           l == [j \in 1 .. Len(L) |->
                   IF OneLabel(f, L[j]) /\ NoAuthorized(f, L[j]) THEN <<>>
                   ELSE CautionFold("eval_day_loo", f, L[j], x.order)]
<1>1. TrainCautionProtonet(x) =
        IF ~HasNone(D) THEN Raise ELSE (SaveIndex(x, D) \o FlattenSeq(p)) \o FlattenSeq(l)
  BY DEF TrainCautionProtonet, CautionLeaveOneUnauthorizedOut, CautionLeaveOneDayOut, ForEach, Concat
<1>2. Frame(f)
  BY Day3Index
<1> HIDE DEF D, f
<1>3. Folds(f, P) /\ Folds(f, L)
  BY <1>2, PersonFolds, DayFolds
<1> HIDE DEF P, L
<1>4. Len(P) \in Nat /\ Len(L) \in Nat
  BY <1>3, FoldCount
<1>5. \A row : Logged(Eval(row) \o Day3Log)
  BY LoggedRow DEF Day3Log
<1>6. \A stage, sp : Logged(CautionFold(stage, f, sp, x.order))
  BY <1>5, LoggedSteps DEF CautionFold
<1>7. Logged(FlattenSeq(p))
  <2>1. \A j \in 1 .. Len(P) : Logged(p[j])
    BY <1>6
  <2> QED BY <1>4, <2>1, LoggedLoop
<1>8. Logged(FlattenSeq(l))
  <2>1. \A j \in 1 .. Len(L) : Logged(l[j])
    BY <1>6, LoggedNone
  <2> QED BY <1>4, <2>1, LoggedLoop
<1>9. PICK s, t, u : s = SaveIndex(x, D) /\ t = FlattenSeq(p) /\ u = FlattenSeq(l)
  OBVIOUS
<1> HIDE DEF p, l
<1>10. Logged((s \o t) \o u)
  BY <1>7, <1>8, <1>9, LoggedSaves, LoggedThree
<1> QED BY <1>1, <1>9, <1>10, LoggedSteps

(* compare_receiver_fusion.                                                  *)
LEMMA LoggedCompareReceiverFusion ==
  ASSUME NEW x, Recorded(x) PROVE Logged(CompareReceiverFusion(x))
<1> DEFINE m == ThreeReceiverManifest(x)
           name == "compare_receiver_fusion"
<1>1. CompareReceiverFusion(x) =
        IF ~HasNone(m) THEN Raise
        ELSE ((EvaluateTaskD(name, WindowIndex(m), x.order)
               \o EvaluateTaskDDayDisjoint(name, WindowIndex(m)))
              \o EvaluateFusedTaskD(FusedWindowIndex(m), x.order))
             \o EvaluateFusedTaskDDayDisjoint(FusedWindowIndex(m))
  BY DEF CompareReceiverFusion
<1>2. m \in Seq(Rec)
  BY RecIloc DEF ThreeReceiverManifest, Chosen, Recorded
<1> HIDE DEF m
<1>3. PICK single, f : single = WindowIndex(m) /\ f = FusedWindowIndex(m)
  OBVIOUS
<1>4. Frame(single) /\ Frame(f)
  BY <1>2, <1>3, IndexFacts, FusedFrame
<1>5. PICK s1, s2, s3, s4 :
        /\ s1 = EvaluateTaskD(name, single, x.order) /\ s2 = EvaluateTaskDDayDisjoint(name, single)
        /\ s3 = EvaluateFusedTaskD(f, x.order) /\ s4 = EvaluateFusedTaskDDayDisjoint(f)
  OBVIOUS
<1>6. Logged(s1) /\ Logged(s2)
  BY <1>4, <1>5, LoggedDay3Folds
<1>7. \A row : Logged(Eval(row) \o FusionLog)
  BY LoggedRow DEF FusionLog
<1>8. Logged(s3)
  <2> DEFINE P == LeaveOneUnauthorizedPersonOut(f, x.order, TRUE)
             q == [j \in 1 .. Len(P) |->
                     Asserted(f, P[j], Eval(Row("compare_receiver_fusion", "eval_loo", P[j], f, f))
                                       \o FusionLog)]
  <2>1. s3 = FlattenSeq(q)
    BY <1>5 DEF EvaluateFusedTaskD, ForEach, Concat
  <2>2. Folds(f, P)
    BY <1>4, PersonFolds
  <2> HIDE DEF P
  <2>3. Len(P) \in Nat
    BY <2>2, FoldCount
  <2>4. \A j \in 1 .. Len(P) : Logged(q[j])
    BY <1>7, LoggedAsserted
  <2> QED BY <2>1, <2>3, <2>4, LoggedLoop
<1>9. Logged(s4)
  <2> DEFINE P == LeaveOneDayOut(f)
             q == [j \in 1 .. Len(P) |->
                     IF NoAuthorized(f, P[j]) THEN <<>>
                     ELSE Eval(Row("compare_receiver_fusion", "eval_day_loo", P[j], f, f)) \o FusionLog]
  <2>1. s4 = FlattenSeq(q)
    BY <1>5 DEF EvaluateFusedTaskDDayDisjoint, ForEach, Concat
  <2>2. Folds(f, P)
    BY <1>4, DayFolds
  <2> HIDE DEF P
  <2>3. Len(P) \in Nat
    BY <2>2, FoldCount
  <2>4. \A j \in 1 .. Len(P) : Logged(q[j])
    BY <1>7, LoggedNone
  <2> QED BY <2>1, <2>3, <2>4, LoggedLoop
<1> HIDE DEF name
<1>10. Logged(((s1 \o s2) \o s3) \o s4)
  BY <1>6, <1>8, <1>9, LoggedSix
<1> QED BY <1>1, <1>3, <1>5, <1>10, LoggedSteps

(* The plan of a script that logs fold by fold, on derived files.            *)
LEMMA PlansLogged == ASSUME NEW s \in FoldByFold, Ready(c) PROVE Logged(Plan(s))
<1>1. PICK x : x = c
  OBVIOUS
<1>2. Recorded(x) /\ Cached(x) /\ Built(x)
  BY <1>1 DEF Ready
<1>3. CASE s = "train_gbm"
  BY <1>1, <1>2, <1>3, LoggedClassics DEF Plan
<1>4. CASE s = "train_cusum"
  BY <1>1, <1>2, <1>4, LoggedClassics DEF Plan
<1>5. CASE s = "train_svm_gait"
  BY <1>1, <1>2, <1>5, LoggedClassics DEF Plan
<1>6. CASE s = "train_generative_hard_negative"
  BY <1>1, <1>2, <1>6, LoggedClassics DEF Plan
<1>7. CASE s = "train_contrastive"
  BY <1>1, <1>2, <1>7, LoggedClassics DEF Plan
<1>8. CASE s = "train_day3_ch6_model"
  BY <1>1, <1>2, <1>8, LoggedTrainDay3Ch6Model DEF Plan
<1>9. CASE s = "train_caution_protonet"
  BY <1>1, <1>2, <1>9, LoggedTrainCautionProtonet DEF Plan
<1>10. CASE s = "compare_receiver_fusion"
  BY <1>1, <1>2, <1>10, LoggedCompareReceiverFusion DEF Plan
<1> QED BY <1>3, <1>4, <1>5, <1>6, <1>7, <1>8, <1>9, <1>10 DEF FoldByFold

\* A script that logs fold by fold holds at most the row of the fold it is in,
\* and what it does next is to log it.
OneFoldHeld ==
  script \in FoldByFold =>
    /\ Logged(todo)
    /\ mem = <<>> \/ (Len(mem) = 1 /\ Behind(todo, 0))

(* What is left of a plan that logs fold by fold does so too.                *)
LEMMA LoggedTail ==
  ASSUME NEW s, Logged(s), s # <<>>
  PROVE  /\ Logged(Tail(s)) /\ Head(s).op \notin {"pool", "pick_best"}
         /\ Head(s).op = "eval" => Behind(Tail(s), 0)
         /\ Behind(s, 0) => \/ Head(s).op = "log"
                            \/ Head(s).op = "ship" /\ Behind(Tail(s), 0)
<1>1. PICK S : S = Items(s)
  OBVIOUS
<1>2. s \in Seq(S)
  BY <1>1 DEF Logged
<1>3. PICK n \in Nat : n = Len(s)
  BY <1>2, LenProperties
<1>4. PICK t : t = Tail(s)
  OBVIOUS
<1>5. /\ n >= 1 /\ t \in Seq(S) /\ Len(t) = n - 1 /\ Head(s) = s[1]
      /\ \A i \in 1 .. n - 1 : t[i] = s[i + 1]
  BY <1>2, <1>3, <1>4, HeadTailProperties
<1>6. t \in Seq(Items(t))
  BY <1>5, SeqItems
<1>7. \A i \in 1 .. n : /\ s[i].op \notin {"pool", "pick_best"}
                        /\ s[i].op = "eval" => Behind(s, i)
  BY <1>3 DEF Logged
<1>8. ASSUME NEW i \in 0 .. n - 1, Behind(s, i + 1) PROVE Behind(t, i)
  <2>1. CASE (i + 1) + 1 <= Len(s) /\ s[(i + 1) + 1].op = "log"
    <3>1. i + 1 \in 1 .. n - 1 /\ i + 1 <= Len(t)
      BY <1>3, <1>5, <2>1
    <3>2. t[i + 1] = s[(i + 1) + 1]
      BY <1>5, <3>1
    <3> QED BY <2>1, <3>1, <3>2 DEF Behind
  <2>2. CASE (i + 1) + 2 <= Len(s) /\ s[(i + 1) + 1].op = "ship" /\ s[(i + 1) + 2].op = "log"
    <3>1. i + 1 \in 1 .. n - 1 /\ i + 2 \in 1 .. n - 1 /\ i + 2 <= Len(t)
      BY <1>3, <1>5, <2>2
    <3>2. (i + 2) + 1 = (i + 1) + 2
      OBVIOUS
    <3>3. t[i + 1] = s[(i + 1) + 1] /\ t[i + 2] = s[(i + 1) + 2]
      BY <1>5, <3>1, <3>2
    <3> QED BY <2>2, <3>1, <3>3 DEF Behind
  <2> QED BY <1>8, <2>1, <2>2 DEF Behind
<1>9. ASSUME NEW i \in 1 .. Len(t)
      PROVE  t[i].op \notin {"pool", "pick_best"} /\ (t[i].op = "eval" => Behind(t, i))
  <2>1. i \in 1 .. n - 1 /\ i \in 0 .. n - 1 /\ i + 1 \in 1 .. n
    BY <1>5
  <2>2. t[i] = s[i + 1]
    BY <1>5, <2>1
  <2> QED BY <1>7, <1>8, <2>1, <2>2
<1>10. Logged(t)
  BY <1>6, <1>9 DEF Logged
<1>11. 1 \in 1 .. n /\ 0 \in 0 .. n - 1 /\ 0 + 1 = 1
  BY <1>5
<1>12. s[1].op = "eval" => Behind(t, 0)
  BY <1>7, <1>8, <1>11
<1>13. ASSUME Behind(s, 0), s[1].op # "log" PROVE s[1].op = "ship" /\ Behind(t, 0)
  <2>1. 2 <= n /\ s[1].op = "ship" /\ s[2].op = "log"
    <3>1. 0 + 1 = 1 /\ 0 + 2 = 2
      OBVIOUS
    <3> QED BY <1>3, <1>13, <3>1 DEF Behind
  <2>2. 1 \in 1 .. n - 1 /\ 1 + 1 = 2 /\ 0 + 1 <= Len(t)
    BY <1>5, <2>1
  <2>3. t[0 + 1].op = "log"
    BY <1>5, <1>11, <2>1, <2>2
  <2> QED BY <2>1, <2>2, <2>3 DEF Behind
<1> QED BY <1>4, <1>5, <1>7, <1>10, <1>11, <1>12, <1>13

(* A step of a script keeps it.                                              *)
LEMMA OneFoldStep ==
  ASSUME IInv, OneFoldHeld, script \in FoldByFold, Step_ PROVE OneFoldHeld'
<1>1. "" \notin FoldByFold
  BY DEF FoldByFold
<1>2. Logged(todo) /\ (mem = <<>> \/ (Len(mem) = 1 /\ Behind(todo, 0)))
  BY DEF OneFoldHeld
<1>3. CASE Evaluate
  <2>1. todo # <<>> /\ Head(todo).op = "eval" /\ todo' = Tail(todo)
    BY <1>3 DEF Evaluate, Now
  <2>2. Logged(todo') /\ Behind(todo', 0) /\ mem = <<>>
    BY <1>2, <2>1, LoggedTail
  <2>3. Len(mem') = 1
    <3>1. PICK row : row = Head(todo).row
      OBVIOUS
    <3>2. mem' = Append(<<>>, row)
      BY <1>3, <2>2, <3>1 DEF Evaluate
    <3> QED BY <3>2
  <2> QED BY <2>2, <2>3 DEF OneFoldHeld
<1>4. CASE Log
  <2>1. todo # <<>> /\ todo' = Tail(todo) /\ mem' = <<>>
    BY <1>4 DEF Log, Now
  <2>2. Logged(todo')
    BY <1>2, <2>1, LoggedTail
  <2> QED BY <2>1, <2>2 DEF OneFoldHeld
<1>5. CASE Print_
  <2>1. todo # <<>> /\ Head(todo).op = "show" /\ todo' = Tail(todo) /\ mem' = mem
    BY <1>5 DEF Print_, Now
  <2>2. Logged(todo') /\ mem = <<>>
    BY <1>2, <2>1, LoggedTail
  <2> QED BY <2>1, <2>2 DEF OneFoldHeld
<1>6. CASE Save
  <2>1. /\ todo # <<>> /\ todo' = Tail(todo) /\ mem' = mem
        /\ Head(todo).op \in {"save_X2", "save_calibB", "save_index", "ship"}
    BY <1>6 DEF Save
  <2>2. Logged(todo') /\ (mem = <<>> \/ (Len(mem) = 1 /\ Behind(todo', 0)))
    BY <1>2, <2>1, LoggedTail
  <2> QED BY <2>1, <2>2 DEF OneFoldHeld
<1>7. ASSUME PickBest \/ OpenPool PROVE FALSE
  <2>1. todo # <<>> /\ Head(todo).op \in {"pick_best", "pool"}
    BY <1>7 DEF PickBest, OpenPool, Now
  <2> QED BY <1>2, <2>1, LoggedTail
<1>8. ASSUME ClosePool PROVE FALSE
  <2>1. todo # <<>> /\ Head(todo).op = "pool"
    BY <1>8 DEF ClosePool, Pooling, IInv, AtPool
  <2> QED BY <1>2, <2>1, LoggedTail
<1>9. CASE Stop \/ Finish
  <2>1. script' = ""
    BY <1>9 DEF Stop, Finish, End
  <2> QED BY <1>1, <2>1 DEF OneFoldHeld
<1>10. CASE TakeFold \/ FinishFold
  <2>1. UNCHANGED <<script, todo, mem>>
    BY <1>10 DEF TakeFold, FinishFold, PoolFrame
  <2> QED BY <2>1 DEF OneFoldHeld
<1> QED BY <1>3, <1>4, <1>5, <1>6, <1>7, <1>8, <1>9, <1>10 DEF Step_

(* A script starts with nothing in memory, and with its whole plan.          *)
LEMMA OneFoldBegin ==
  ASSUME IInv, NEW s, script = "", Begin(s) PROVE OneFoldHeld'
<1>1. script' = s /\ mem' = <<>> /\ todo' = Plan(s)
  BY DEF Begin, IInv
<1>2. ASSUME s \in FoldByFold PROVE Logged(todo')
  <2>1. Ready(c)
    BY DerivedReady DEF IInv
  <2> QED BY <1>1, <1>2, <2>1, PlansLogged
<1> QED BY <1>1, <1>2 DEF OneFoldHeld

(* Every step keeps it.                                                      *)
LEMMA OneFoldNext == ASSUME IInv, OneFoldHeld, [Next]_vars PROVE OneFoldHeld'
<1>1. "" \notin FoldByFold
  BY DEF FoldByFold
<1>2. CASE Record \/ BuildManifest \/ BuildWindows \/ BuildFeatures \/ RunAll \/ Backtest \/ UNCHANGED vars
  <2>1. UNCHANGED <<script, todo, mem>>
    BY <1>2 DEF Record, BuildManifest, BuildWindows, BuildFeatures, Rebuild, RunAll, Backtest, vars
  <2> QED BY <2>1 DEF OneFoldHeld
<1>3. CASE Start
  BY <1>3, OneFoldBegin DEF Start, Idle
<1>4. CASE NextStage
  BY <1>4, OneFoldBegin DEF NextStage
<1>5. CASE Step_ /\ script \in FoldByFold
  BY <1>5, OneFoldStep
<1>6. CASE Step_ /\ script \notin FoldByFold
  <2>1. script' = script \/ script' = ""
    BY <1>6 DEF Step_, Evaluate, Log, Print_, Save, PickBest, Stop, Finish, End,
                OpenPool, TakeFold, FinishFold, ClosePool, PoolFrame
  <2> QED BY <1>1, <1>6, <2>1 DEF OneFoldHeld
<1>7. CASE Kill
  <2>1. script' = ""
    BY <1>7 DEF Kill, End
  <2> QED BY <1>1, <2>1 DEF OneFoldHeld
<1>8. CASE OutOfMemory
  <2>1. UNCHANGED <<script, todo, mem>>
    BY <1>8 DEF OutOfMemory
  <2> QED BY <2>1 DEF OneFoldHeld
<1> QED BY <1>2, <1>3, <1>4, <1>5, <1>6, <1>7, <1>8 DEF Next

(* A kill loses at most the fold a script was in, of those that log fold by  *)
(* fold, in whatever data and after whatever came before.                    *)
THEOREM KillLosesOneFoldCorrect == Spec => KillLosesOneFold
<1>1. Init => OneFoldHeld
  BY DEF Init, OneFoldHeld, FoldByFold
<1>2. IInv /\ OneFoldHeld /\ [Next]_vars => OneFoldHeld'
  BY OneFoldNext
<1>3. OneFoldHeld => (kills' # kills /\ script \in FoldByFold => Len(mem) <= 1)
  <2>1. ASSUME OneFoldHeld, script \in FoldByFold PROVE Len(mem) <= 1
    <3>1. CASE mem = <<>>
      BY <3>1
    <3>2. CASE Len(mem) = 1
      BY <3>2
    <3> QED BY <2>1, <3>1, <3>2 DEF OneFoldHeld
  <2> QED BY <2>1
<1> QED BY <1>1, <1>2, <1>3, Invariance, PTL DEF Spec, KillLosesOneFold
=============================================================================
