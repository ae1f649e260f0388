------------------------- MODULE CollectSessionProofs -------------------------
(***************************************************************************)
(* The safety of a collection session, for every number of boards,          *)
(* addresses, connections, frames and signals.                              *)
(***************************************************************************)
EXTENDS CollectSession, WellFoundedInduction, SequenceTheorems, FiniteSetTheorems, TLAPS

Below == {ss \in Nat \X Nat : ss[1] < ss[2]}
(* Induction on Nat and on sequences, in the form of sets.                   *)
LEMMA BelowWellFounded == IsWellFoundedOn(Below, Nat)
  BY NatLessThanWellFounded DEF Below, OpToRel

LEMMA NatSet ==
  ASSUME NEW T, 0 \in T, \A n \in Nat : n \in T => n + 1 \in T
  PROVE  Nat \subseteq T
<1>1. SUFFICES ASSUME Nat \ T # {} PROVE FALSE
  OBVIOUS
<1>2. PICK n \in Nat \ T : \A m \in Nat \ T : <<m, n>> \notin Below
  BY <1>1, BelowWellFounded, WFMin
<1>3. n # 0 /\ n - 1 \in Nat /\ <<n - 1, n>> \in Below
  BY DEF Below
<1>4. n - 1 \in T
  BY <1>2, <1>3
<1> QED
  BY <1>3, <1>4

(* A set of sequences that holds the empty one and grows with its members is   *)
(* all of them.                                                             *)
LEMMA SeqSet ==
  ASSUME NEW S, NEW T, <<>> \in T, \A s \in Seq(S), x \in S : s \in T => Append(s, x) \in T
  PROVE  Seq(S) \subseteq T
<1> DEFINE N == {n \in Nat : \A s \in Seq(S) : Len(s) = n => s \in T}
<1>1. 0 \in N
  <2> SUFFICES ASSUME NEW s \in Seq(S), Len(s) = 0 PROVE s \in T
    OBVIOUS
  <2>1. s = <<>>
    OBVIOUS
  <2> QED BY <2>1
<1>2. ASSUME NEW n \in Nat, n \in N PROVE n + 1 \in N
  <2> SUFFICES ASSUME NEW s \in Seq(S), Len(s) = n + 1 PROVE s \in T
    OBVIOUS
  <2> DEFINE t == SubSeq(s, 1, n)
  <2>1. t \in Seq(S) /\ Len(t) = n /\ s[n + 1] \in S /\ s = Append(t, s[n + 1])
    OBVIOUS
  <2> HIDE DEF t
  <2>2. t \in T
    BY <1>2, <2>1
  <2> QED BY <2>1, <2>2
<1> HIDE DEF N
<1>3. Nat \subseteq N
  BY <1>1, <1>2, NatSet
<1>4. QED
  BY <1>3 DEF N

-----------------------------------------------------------------------------
(* Of: the recursion has a solution, and what it selects.                   *)

OfRec(f, s, c, n) == f = [i \in 0..n |->
  IF i = 0 THEN <<>> ELSE IF s[i].conn = c THEN Append(f[i - 1], s[i]) ELSE f[i - 1]]

LEMMA OfRecExists == ASSUME NEW s, NEW c, NEW n \in Nat PROVE \E f : OfRec(f, s, c, n)
<1> DEFINE T == {m \in Nat : \E f : OfRec(f, s, c, m)}
<1>1. 0 \in T
  <2>1. OfRec([i \in 0..0 |-> <<>>], s, c, 0)
    BY DEF OfRec
  <2> QED BY <2>1
<1>2. ASSUME NEW m \in Nat, m \in T PROVE m + 1 \in T
  <2>1. PICK f : OfRec(f, s, c, m)
    BY <1>2
  <2> DEFINE x == IF s[m + 1].conn = c THEN Append(f[m], s[m + 1]) ELSE f[m]
             g == [i \in 0..m + 1 |-> IF i = m + 1 THEN x ELSE f[i]]
  <2>2. \A i \in 0..m : g[i] = f[i]
    OBVIOUS
  <2>3. g[m + 1] = x
    OBVIOUS
  <2>4. \A i \in 0..m : f[i] = IF i = 0 THEN <<>>
                          ELSE IF s[i].conn = c THEN Append(f[i - 1], s[i]) ELSE f[i - 1]
    BY <2>1 DEF OfRec
  <2>5. \A i \in 0..m + 1 : g[i] = IF i = 0 THEN <<>>
                          ELSE IF s[i].conn = c THEN Append(g[i - 1], s[i]) ELSE g[i - 1]
    <3>1. \A i \in 1..m + 1 : i - 1 \in 0..m
      OBVIOUS
    <3>2. \A i \in 0..m + 1 : i \in 0..m \/ i = m + 1
      OBVIOUS
    <3>3. m + 1 # 0 /\ m + 1 - 1 = m /\ m \in 0..m /\ 0 \in 0..m
      OBVIOUS
    <3> HIDE DEF g
    <3> QED BY <3>1, <3>2, <3>3, <2>2, <2>3, <2>4
  <2>6. OfRec(g, s, c, m + 1)
    BY <2>5 DEF OfRec
  <2> HIDE DEF g
  <2> QED BY <2>6
<1> HIDE DEF T
<1>3. n \in T
  BY <1>1, <1>2, NatSet
<1> QED BY <1>3 DEF T

OfSolves(f, s, c) ==
  /\ Of(s, c) = f[Len(s)] /\ f[0] = <<>>
  /\ \A i \in 1..Len(s) :
       f[i] = IF s[i].conn = c THEN Append(f[i - 1], s[i]) ELSE f[i - 1]

LEMMA OfSteps ==
  ASSUME NEW s, NEW c, Len(s) \in Nat
  PROVE  \E f : OfSolves(f, s, c)
<1> DEFINE f == CHOOSE g : OfRec(g, s, c, Len(s))
<1>1. OfRec(f, s, c, Len(s))
  BY OfRecExists
<1>2. Of(s, c) = f[Len(s)]
  BY DEF Of, OfRec
<1> HIDE DEF f
<1> DEFINE n == Len(s)
<1>3. n \in Nat /\ OfRec(f, s, c, n)
  BY <1>1
<1> HIDE DEF n
<1>4. \A i \in 0..n : f[i] = IF i = 0 THEN <<>>
                         ELSE IF s[i].conn = c THEN Append(f[i - 1], s[i]) ELSE f[i - 1]
  BY <1>3 DEF OfRec
<1>5. f[0] = <<>>
  BY <1>3, <1>4
<1>6. \A i \in 1..n : f[i] = IF s[i].conn = c THEN Append(f[i - 1], s[i]) ELSE f[i - 1]
  BY <1>3, <1>4
<1> QED BY <1>2, <1>5, <1>6 DEF n, OfSolves

LEMMA EmptyIsSeq == ASSUME NEW S PROVE <<>> \in Seq(S)
  OBVIOUS

LEMMA OfEmpty == ASSUME NEW c PROVE Of(<<>>, c) = <<>>
<1> DEFINE e == <<>>
<1>1. Len(e) = 0 /\ Len(e) \in Nat
  OBVIOUS
<1> HIDE DEF e
<1>2. PICK f : OfSolves(f, e, c)
  BY <1>1, OfSteps
<1>3. Of(e, c) = <<>>
  BY <1>1, <1>2 DEF OfSolves
<1> QED BY <1>3 DEF e

(* An element appended is selected last. *)
LEMMA OfAppend ==
  ASSUME NEW s \in Seq(Sample), NEW x \in Sample, NEW c
  PROVE  Of(Append(s, x), c) = IF x.conn = c THEN Append(Of(s, c), x) ELSE Of(s, c)
<1> DEFINE t == Append(s, x)
           n == Len(s)
<1>1. n \in Nat /\ Len(t) = n + 1 /\ Len(t) \in Nat /\ t[n + 1] = x /\ \A i \in 1..n : t[i] = s[i]
  OBVIOUS
<1> HIDE DEF t, n
<1>2. PICK f : OfSolves(f, s, c)
  BY <1>1, OfSteps DEF n
<1>3. PICK g : OfSolves(g, t, c)
  BY <1>1, OfSteps
<1> DEFINE T == {i \in Nat : i <= n => f[i] = g[i]}
<1>4. 0 \in T
  BY <1>2, <1>3 DEF OfSolves
<1>5. ASSUME NEW i \in Nat, i \in T PROVE i + 1 \in T
  <2> SUFFICES ASSUME i + 1 <= n PROVE f[i + 1] = g[i + 1]
    OBVIOUS
  <2>1. i + 1 \in 1..n /\ i + 1 \in 1..n + 1 /\ (i + 1) - 1 = i /\ f[i] = g[i]
    BY <1>1, <1>5
  <2>2. f[i + 1] = IF s[i + 1].conn = c THEN Append(f[i], s[i + 1]) ELSE f[i]
    BY <1>2, <2>1 DEF OfSolves, n
  <2>3. g[i + 1] = IF t[i + 1].conn = c THEN Append(g[i], t[i + 1]) ELSE g[i]
    BY <1>1, <1>3, <2>1 DEF OfSolves
  <2> QED BY <2>1, <2>2, <2>3, <1>1
<1> HIDE DEF T
<1>6. n \in T
  BY <1>1, <1>4, <1>5, NatSet
<1>7. f[n] = g[n]
  BY <1>1, <1>6 DEF T
<1>8. n + 1 \in 1..n + 1 /\ (n + 1) - 1 = n
  BY <1>1
<1>9. Of(t, c) = IF x.conn = c THEN Append(g[n], x) ELSE g[n]
  BY <1>1, <1>3, <1>8 DEF OfSolves
<1>10. Of(s, c) = f[n]
  BY <1>2 DEF OfSolves, n
<1> QED BY <1>7, <1>9, <1>10 DEF t

LEMMA OfOne ==
  ASSUME NEW x \in Sample, NEW c
  PROVE  Of(<<x>>, c) = IF x.conn = c THEN <<x>> ELSE <<>>
<1>1. <<x>> = Append(<<>>, x)
  OBVIOUS
<1>2. Of(Append(<<>>, x), c) = IF x.conn = c THEN Append(<<>>, x) ELSE <<>>
  BY EmptyIsSeq, OfAppend, OfEmpty
<1> QED BY <1>1, <1>2

LEMMA OfType ==
  ASSUME NEW c
  PROVE  \A s \in Seq(Sample) : Of(s, c) \in Seq(Sample)
<1> DEFINE T == {s \in Seq(Sample) : Of(s, c) \in Seq(Sample)}
<1>1. <<>> \in T
  BY OfEmpty, EmptyIsSeq
<1>2. ASSUME NEW s \in Seq(Sample), NEW x \in Sample, s \in T PROVE Append(s, x) \in T
  BY <1>2, OfAppend
<1> HIDE DEF T
<1>3. Seq(Sample) \subseteq T
  BY <1>1, <1>2, SeqSet
<1> QED BY <1>3 DEF T

(* The first element is selected first.                                      *)
LEMMA OfTail ==
  ASSUME NEW c
  PROVE  \A s \in Seq(Sample) : s # <<>> => Of(s, c) = Of(<<Head(s)>>, c) \o Of(Tail(s), c)
<1> DEFINE T == {s \in Seq(Sample) : s # <<>> => Of(s, c) = Of(<<Head(s)>>, c) \o Of(Tail(s), c)}
<1>1. <<>> \in T
  OBVIOUS
<1>2. ASSUME NEW s \in Seq(Sample), NEW x \in Sample, s \in T PROVE Append(s, x) \in T
  <2> DEFINE t == Append(s, x)
  <2>1. CASE s = <<>>
    <3>1. t = <<x>> /\ Head(t) = x /\ Tail(t) = <<>>
      BY <2>1
    <3>2. Of(<<x>>, c) \in Seq(Sample)
      <4>1. <<x>> \in Seq(Sample)
        OBVIOUS
      <4> QED BY <4>1, OfType
    <3>3. Of(<<x>>, c) \o <<>> = Of(<<x>>, c)
      BY <3>2, ConcatEmptySeq
    <3>4. Of(t, c) = Of(<<Head(t)>>, c) \o Of(Tail(t), c)
      BY <3>1, <3>3, OfEmpty
    <3>5. t \in Seq(Sample)
      OBVIOUS
    <3> HIDE DEF t
    <3>6. t \in T
      BY <3>4, <3>5
    <3> QED BY <3>6 DEF t
  <2>2. CASE s # <<>>
    <3>1. Head(t) = Head(s) /\ Tail(t) = Append(Tail(s), x) /\ Tail(s) \in Seq(Sample)
          /\ Head(s) \in Sample
      BY <2>2
    <3>2. Of(s, c) = Of(<<Head(s)>>, c) \o Of(Tail(s), c)
      BY <1>2, <2>2
    <3> DEFINE p == Of(<<Head(s)>>, c)
               q == Of(Tail(s), c)
    <3>3. p \in Seq(Sample) /\ q \in Seq(Sample)
      <4>1. <<Head(s)>> \in Seq(Sample)
        BY <3>1
      <4> QED BY <3>1, <4>1, OfType
    <3> HIDE DEF p, q
    <3>4. Append(p \o q, x) = p \o Append(q, x)
      <4>1. <<x>> \in Seq(Sample) /\ p \o q \in Seq(Sample)
        BY <3>3
      <4>2. Append(p \o q, x) = (p \o q) \o <<x>> /\ Append(q, x) = q \o <<x>>
        BY <3>3, <4>1, AppendIsConcat
      <4> QED BY <3>3, <4>1, <4>2, ConcatAssociative
    <3>5. Of(t, c) = IF x.conn = c THEN Append(Of(s, c), x) ELSE Of(s, c)
      BY OfAppend
    <3>6. Of(Tail(t), c) = IF x.conn = c THEN Append(q, x) ELSE q
      <4>1. Of(Append(Tail(s), x), c) = IF x.conn = c THEN Append(Of(Tail(s), c), x)
                                        ELSE Of(Tail(s), c)
        BY <3>1, OfAppend
      <4>2. Tail(t) = Append(Tail(s), x)
        BY <3>1
      <4> QED BY <4>1, <4>2 DEF q
    <3>7. Of(s, c) = p \o q
      BY <3>2 DEF p, q
    <3>8. Of(t, c) = p \o Of(Tail(t), c)
      BY <3>4, <3>5, <3>6, <3>7
    <3>9. t \in Seq(Sample)
      OBVIOUS
    <3>10. Head(t) = Head(s)
      BY <3>1
    <3> HIDE DEF t
    <3>11. Of(t, c) = Of(<<Head(t)>>, c) \o Of(Tail(t), c)
      BY <3>8, <3>10 DEF p
    <3>12. t \in T
      BY <3>9, <3>11
    <3> QED BY <3>12 DEF t
  <2> QED BY <2>1, <2>2
<1> HIDE DEF T
<1>3. Seq(Sample) \subseteq T
  BY <1>1, <1>2, SeqSet
<1> QED BY <1>3 DEF T

(* The elements selected are the connection's. *)
LEMMA OfElems ==
  ASSUME NEW c
  PROVE  \A s \in Seq(Sample) : Elems(Of(s, c)) = {x \in Elems(s) : x.conn = c}
<1> DEFINE T == {s \in Seq(Sample) : Elems(Of(s, c)) = {x \in Elems(s) : x.conn = c}}
<1>1. <<>> \in T
  BY OfEmpty DEF Elems
<1>2. ASSUME NEW s \in Seq(Sample), NEW x \in Sample, s \in T PROVE Append(s, x) \in T
  <2>1. \A u \in Seq(Sample) : Elems(Append(u, x)) = Elems(u) \cup {x}
    BY DEF Elems
  <2>2. Of(s, c) \in Seq(Sample)
    BY OfType
  <2>3. Elems(Append(s, x)) = Elems(s) \cup {x} /\ Elems(Append(Of(s, c), x)) = Elems(Of(s, c)) \cup {x}
    BY <2>1, <2>2
  <2>4. Elems(Of(s, c)) = {y \in Elems(s) : y.conn = c}
    BY <1>2
  <2>5. Elems(Of(Append(s, x), c)) = {y \in Elems(s) \cup {x} : y.conn = c}
    BY <2>3, <2>4, OfAppend, ZenonT(30)
  <2>6. Append(s, x) \in Seq(Sample)
    OBVIOUS
  <2> QED BY <2>3, <2>5, <2>6
<1> HIDE DEF T
<1>3. Seq(Sample) \subseteq T
  BY <1>1, <1>2, SeqSet
<1> QED BY <1>3 DEF T

(* A sequence of one connection's samples is selected whole.                *)
LEMMA OfAll ==
  ASSUME NEW c
  PROVE  \A s \in Seq(Sample) : (\A i \in 1..Len(s) : s[i].conn = c) => Of(s, c) = s
<1> DEFINE T == {s \in Seq(Sample) : (\A i \in 1..Len(s) : s[i].conn = c) => Of(s, c) = s}
<1>1. <<>> \in T
  BY OfEmpty
<1>2. ASSUME NEW s \in Seq(Sample), NEW x \in Sample, s \in T PROVE Append(s, x) \in T
  <2> DEFINE t == Append(s, x)
  <2>0. t \in Seq(Sample)
    OBVIOUS
  <2> SUFFICES ASSUME \A i \in 1..Len(t) : t[i].conn = c PROVE Of(t, c) = t
    BY <2>0
  <2>1. Len(t) = Len(s) + 1 /\ t[Len(s) + 1] = x /\ Len(s) \in Nat /\ \A i \in 1..Len(s) : t[i] = s[i]
    BY AppendProperties
  <2> HIDE DEF t
  <2>2. x.conn = c /\ \A i \in 1..Len(s) : s[i].conn = c
    BY <2>1
  <2>3. Of(s, c) = s
    BY <1>2, <2>2
  <2> QED BY <2>2, <2>3, OfAppend DEF t
<1> HIDE DEF T
<1>3. Seq(Sample) \subseteq T
  BY <1>1, <1>2, SeqSet
<1> QED BY <1>3 DEF T

(* Where a connection has nothing, nothing is selected. *)
LEMMA OfNone ==
  ASSUME NEW c, NEW s \in Seq(Sample), \A i \in 1..Len(s) : s[i].conn # c
  PROVE  Of(s, c) = <<>>
<1>1. Elems(Of(s, c)) = {}
  BY OfElems DEF Elems
<1>2. Of(s, c) \in Seq(Sample)
  BY OfType
<1> QED BY <1>1, <1>2 DEF Elems
Made == [board : Boards, peer : Keys]
Started == Elems(threads)
HandlerPcs == {"none", "check", "recv", "put", "done"}
GenPcs == {"top", "accept", "drain", "yielded", "close", "join", "closed"}
MainPcs == Body \cup {"next", "except", "finally", "closing", "stimulus", "check",
                      "ignoreInt", "ignoreTerm", "saving", "manifest", "ended", "dead"}

NetTyped ==
  /\ made \in Seq(Made) /\ Len(made) <= MaxConns
  /\ link \in [Boards -> 0..Len(made)] /\ nextSeq \in [Boards -> 1..(MaxSeq + 1)]
  /\ carried \in [Conns -> Seq(Sample)] /\ end \in [Conns -> {"open", "ended", "silent"}]
HandlersTyped ==
  /\ got \in [Conns -> Nat] /\ chunk \in [Conns -> Seq(Sample)]
  /\ hPc \in [Conns -> HandlerPcs]
  /\ out_q \in Seq(Sample)
GenTyped ==
  /\ backlog \in Seq(1..Len(made)) /\ threads \in Seq(1..Len(made))
  /\ item \in Sample \cup {NoItem} /\ genPc \in GenPcs /\ joined \in 0..Len(threads)
  /\ listening \in BOOLEAN /\ stop \in BOOLEAN
MainTyped ==
  /\ mainPc \in MainPcs /\ raising \in BOOLEAN /\ fatal \in BOOLEAN /\ expired \in BOOLEAN
  /\ order \in Seq(Keys) /\ samples \in [Keys -> Seq(Sample)]
  /\ dropped \in [Keys -> Nat] /\ last_seq \in [Keys -> 0..MaxSeq]
  /\ signals \in 0..MaxSignals /\ saved \in 0..Len(order)
Typed == NetTyped /\ HandlersTyped /\ GenTyped /\ MainTyped

(* A board numbers its frames upward, and only its own connection carries     *)
(* them.                                                                    *)
Numbered ==
  /\ \A c \in Conns : \A i \in 1..Len(carried[c]) : carried[c][i].conn = c
  /\ \A c \in Conns : \A i, j \in 1..Len(carried[c]) :
       i < j => carried[c][i].seq < carried[c][j].seq
  /\ \A c \in Conns : c > Len(made) => carried[c] = <<>>
  /\ \A b \in Boards : link[b] # 0 => /\ made[link[b]].board = b
                                      /\ \A i \in 1..Len(carried[link[b]]) :
                                           carried[link[b]][i].seq < nextSeq[b]

(* A handler has samples in hand exactly while it puts them, and has taken    *)
(* what it has from what its connection carried.                            *)
Handling ==
  /\ \A c \in Conns : got[c] <= Len(carried[c])
  /\ \A c \in Conns : hPc[c] = "put" <=> chunk[c] # <<>>
  /\ \A c \in Conns : \A i \in 1..Len(chunk[c]) : chunk[c][i].conn = c
  /\ \A c \in Conns : hPc[c] # "none" => c \in Started
  /\ \A i \in 1..Len(backlog) : hPc[backlog[i]] = "none"
  /\ \A i, j \in 1..Len(backlog) : backlog[i] = backlog[j] => i = j

(* Every sample comes from a handler that was started, and a writer holds     *)
(* only what came from its address.                                         *)
Origin ==
  /\ \A i \in 1..Len(out_q) : out_q[i].conn \in Started
  /\ item # NoItem => item.conn \in Started
  /\ \A k \in Keys : \A i \in 1..Len(samples[k]) :
       samples[k][i].conn \in Started /\ made[samples[k][i].conn].peer = k

(* Where the main thread and the generator are.                             *)
Control ==
  /\ mainPc \in Body => genPc = "yielded"
  /\ mainPc \notin {"next", "closing", "dead"} => genPc \in {"yielded", "closed"}
  /\ mainPc \notin {"next"} => genPc \in {"yielded", "close", "join", "closed"}
  /\ mainPc \in {"stimulus", "check", "ignoreInt", "ignoreTerm", "saving", "manifest", "ended"}
       => genPc = "closed"
  /\ genPc \in {"join", "closed"} => ~listening

(* What is in the main thread's hand.                                        *)
Hand ==
  /\ genPc = "yielded" => item # NoItem
  /\ genPc \in {"top", "accept", "drain"} => item = NoItem
  /\ mainPc \in {"count", "duration"} =>
       samples[key] # <<>> /\ item = samples[key][Len(samples[key])]
  /\ (genPc = "yielded" /\ mainPc \in {"next", "newWriter", "add"})
       => item \notin Elems(samples[key])

FlowInv == Typed /\ Numbered /\ Handling /\ Origin /\ Control /\ Hand /\ NothingLostInside

-----------------------------------------------------------------------------
(* One interrupt.                                                            *)
Interrupted ==
  /\ ~HasDuration /\ signals = 0 =>
       /\ mainPc \in Body \cup {"next"} /\ genPc \notin {"close", "join", "closed"}
       /\ ~stop
  /\ signals <= 1 => ~fatal
  /\ ~HasDuration /\ signals <= 1 => mainPc # "dead"
  /\ signals = 0 => mainPc # "except" /\ ~raising
  /\ mainPc \notin {"saving", "manifest", "ended"} => saved = 0
  /\ mainPc \in {"manifest", "ended"} => saved = Len(order)

(* The books: a writer per address, and the count of its gaps.              *)
Writers ==
  /\ \A i, j \in 1..Len(order) : order[i] = order[j] => i = j
  /\ mainPc = "newWriter" => key \notin Elems(order)

(* The samples of a writer that are counted: all but one just added.         *)
Counted(k) == IF mainPc = "count" /\ k = key THEN Len(samples[k]) - 1 ELSE Len(samples[k])
Sole(k) == \A c, d \in Started : made[c].peer = k /\ made[d].peer = k => c = d
Gaps ==
  mainPc \in Body \cup {"next"} =>
    \A k \in Keys : Sole(k) =>
      LET n == Counted(k)
      IN  IF n = 0 THEN last_seq[k] = 0 /\ dropped[k] = 0
          ELSE /\ last_seq[k] = samples[k][n].seq
               /\ dropped[k] = last_seq[k] - samples[k][1].seq + 1 - n

(* A saved writer's file is there, or one saved since may have its name.       *)
SavedFile(i) == \E n \in FileNames(order[i]) : n \in DOMAIN files /\ files[n] = samples[order[i]]
Filed == \A i \in 1..saved : SavedFile(i) \/ \E j \in (i + 1)..saved : MayShare(order[i], order[j])

IInv == FlowInv /\ Interrupted /\ Writers /\ Gaps /\ Filed
-----------------------------------------------------------------------------
(* The initial state. *)
LEMMA InitIInv == Init => IInv
<1> SUFFICES ASSUME Init PROVE IInv
  OBVIOUS
<1> USE DEF Init, RecvInit
<1>1. Typed
  <2>1. NetTyped
    BY BoundsAssumption DEF NetTyped
  <2>2. HandlersTyped
    BY DEF HandlersTyped, HandlerPcs
  <2>3. GenTyped
    <3>1. made = <<>> /\ Len(made) = 0 /\ threads = <<>> /\ Len(threads) = 0
      OBVIOUS
    <3>2. backlog \in Seq(1..Len(made)) /\ threads \in Seq(1..Len(made))
      BY <3>1, EmptyIsSeq
    <3>3. joined \in 0..Len(threads)
      BY <3>1
    <3> QED BY <3>2, <3>3 DEF GenTyped, GenPcs
  <2>4. MainTyped
    <3>1. order \in Seq(Keys) /\ samples \in [Keys -> Seq(Sample)] /\ Len(order) = 0
      BY EmptyIsSeq
    <3>2. signals \in 0..MaxSignals /\ saved \in 0..Len(order) /\ last_seq \in [Keys -> 0..MaxSeq]
      BY <3>1, BoundsAssumption, SignalsAssumption
    <3> QED BY <3>1, <3>2 DEF MainTyped, MainPcs
  <2> QED BY <2>1, <2>2, <2>3, <2>4 DEF Typed
<1>2. Numbered
  BY BoundsAssumption DEF Numbered
<1>3. Handling
  BY DEF Handling
<1>4. Origin
  BY DEF Origin
<1>5. Control /\ Hand
  BY DEF Control, Hand, Body
<1>6. NothingLostInside
  BY DEF NothingLostInside
<1>7. Interrupted
  BY DEF Interrupted, Body
<1>8. Writers
  BY DEF Writers
<1>9. Gaps
  BY DEF Gaps, Counted
<1>10. Filed
  BY DEF Filed
<1> QED BY <1>1, <1>2, <1>3, <1>4, <1>5, <1>6, <1>7, <1>8, <1>9, <1>10 DEF IInv, FlowInv

(* A yielded sample belongs to a connection, and its address is a key.        *)
LEMMA KeyFacts ==
  ASSUME FlowInv, item # NoItem
  PROVE  /\ item \in Sample /\ item.conn \in Conns /\ item.conn \in 1..Len(made)
         /\ item.seq \in 1..MaxSeq /\ key \in Keys
<1>1. item \in Sample /\ item.conn \in Started
  BY DEF FlowInv, Typed, GenTyped, Origin
<1>2. item.conn \in 1..Len(made)
  BY <1>1 DEF Started, Elems, FlowInv, Typed, GenTyped
<1>3. made[item.conn] \in Made
  BY <1>2 DEF FlowInv, Typed, NetTyped
<1>4. made[item.conn].peer \in Keys
  BY <1>3 DEF Made
<1> QED BY <1>1, <1>2, <1>4 DEF Sample, key, Key

(* A link in use is a connection. *)
LEMMA LinkFacts ==
  ASSUME Typed, NEW b \in Boards, link[b] # 0
  PROVE  link[b] \in Conns /\ link[b] \in 1..Len(made)
BY BoundsAssumption DEF Typed, NetTyped, Conns

LEMMA SeqOfMore ==
  ASSUME NEW m \in Nat, NEW n \in Nat, m <= n, NEW s \in Seq(1..m)
  PROVE  s \in Seq(1..n)
BY SeqMonotonic

(* One step per action: each part of FlowInv is kept. *)
LEMMA NetTypedStep == FlowInv /\ [Next]_vars => NetTyped'
<1> SUFFICES ASSUME FlowInv, [Next]_vars PROVE NetTyped'
  OBVIOUS
<1> USE DEF FlowInv, Typed, NetTyped
<1>1. CASE UNCHANGED netVars
  BY <1>1 DEF netVars
<1>2. CASE Network
  <2>1. ASSUME NEW b \in Boards, NEW k \in Keys, BoardConnects(b, k) PROVE NetTyped'
    <3>1. Append(made, [board |-> b, peer |-> k]) \in Seq(Made)
      BY DEF Made
    <3>2. Len(made') = Len(made) + 1 /\ Len(made) \in Nat
      BY <2>1, <3>1 DEF BoardConnects
    <3>3. link' \in [Boards -> 0..Len(made')]
      BY <2>1, <3>2 DEF BoardConnects
    <3> QED BY <2>1, <3>1, <3>2, <3>3, BoundsAssumption DEF BoardConnects
  <2>2. ASSUME NEW b \in Boards, BoardSends(b) PROVE NetTyped'
    <3>1. link[b] \in Conns
      BY <2>2, LinkFacts DEF BoardSends
    <3>2. [conn |-> link[b], seq |-> nextSeq[b]] \in Sample
      BY <2>2, <3>1, BoundsAssumption DEF BoardSends, Sample
    <3>3. carried' \in [Conns -> Seq(Sample)]
      BY <2>2, <3>1, <3>2 DEF BoardSends
    <3>4. nextSeq' \in [Boards -> 1..(MaxSeq + 1)]
      BY <2>2, BoundsAssumption DEF BoardSends
    <3> QED BY <2>2, <3>3, <3>4 DEF BoardSends
  <2>3. ASSUME NEW b \in Boards, BoardDrops(b) PROVE NetTyped'
    BY <2>3, BoundsAssumption DEF BoardDrops
  <2>4. ASSUME NEW b \in Boards, LinkBreaks(b) PROVE NetTyped'
    <3>1. link[b] \in Conns
      BY <2>4, LinkFacts DEF LinkBreaks
    <3>2. carried' \in [Conns -> Seq(Sample)]
      <4>1. PICK n \in got[link[b]]..Len(carried[link[b]]) :
              carried' = [carried EXCEPT ![link[b]] = SubSeq(@, 1, n)]
        BY <2>4 DEF LinkBreaks
      <4>2. SubSeq(carried[link[b]], 1, n) \in Seq(Sample)
        BY <3>1 DEF HandlersTyped
      <4> QED BY <3>1, <4>1, <4>2
    <3>3. end' \in [Conns -> {"open", "ended", "silent"}]
      BY <2>4, <3>1 DEF LinkBreaks
    <3> QED BY <2>4, <3>2, <3>3 DEF LinkBreaks
  <2> QED BY <1>2, <2>1, <2>2, <2>3, <2>4 DEF Network
<1>3. Network \/ UNCHANGED netVars
  BY DEF Next, Main, Handlers, Outside, Expire, Interrupt, vars, recvVars, sessVars,
         RunGenerator, Generator, GenCheck, GenAccept, GenAcceptTimeout, GenGet, GenEmpty,
         GenClose, GenJoin, GenDone, Handler, HandlerCheck, HandlerRecv, HandlerTimeout,
         HandlerEof, HandlerPut, NextReturns, NextEnds, NewWriter, Add, Count, Continue,
         Break, Except, SetStopEvent, CloseReceiver, JoinStimulus, LeaveFinally,
         CheckWriters, IgnoreSignals, SaveBoard, AllSaved, Manifest, GenResume, GenUnwind,
         GenAbort, SetStop, InterruptBody, InterruptGenerator, InterruptExcept, InterruptStopping
<1> QED BY <1>1, <1>2, <1>3

LEMMA HandlersTypedStep == FlowInv /\ [Next]_vars => HandlersTyped'
<1> SUFFICES ASSUME FlowInv, [Next]_vars PROVE HandlersTyped'
  OBVIOUS
<1> USE DEF HandlersTyped
<1>0. NetTyped /\ HandlersTyped /\ Handling
  BY DEF FlowInv, Typed
<1>1. CASE UNCHANGED <<got, hPc, chunk, out_q>>
  BY <1>0, <1>1
<1>2. ASSUME NEW c \in Conns, Handler(c) PROVE HandlersTyped'
  <2>1. CASE HandlerCheck(c) \/ HandlerTimeout(c) \/ HandlerEof(c)
    BY <1>0, <2>1 DEF HandlerCheck, HandlerTimeout, HandlerEof, HandlerPcs
  <2>2. CASE HandlerRecv(c)
    <3>1. PICK n \in 1..MaxChunk :
            /\ got[c] + n <= Len(carried[c])
            /\ chunk' = [chunk EXCEPT ![c] = SubSeq(carried[c], got[c] + 1, got[c] + n)]
            /\ got' = [got EXCEPT ![c] = @ + n]
      BY <2>2 DEF HandlerRecv
    <3>2. carried[c] \in Seq(Sample) /\ got[c] \in Nat /\ n \in Nat
      BY <1>0, BoundsAssumption DEF NetTyped
    <3>3. SubSeq(carried[c], got[c] + 1, got[c] + n) \in Seq(Sample)
      <4>1. \A i \in got[c] + 1..got[c] + n : carried[c][i] \in Sample
        BY <3>1, <3>2
      <4> QED BY <3>2, <4>1, SubSeqProperties
    <3>4. chunk' \in [Conns -> Seq(Sample)] /\ got' \in [Conns -> Nat]
      <4>1. chunk' \in [Conns -> Seq(Sample)]
        BY <1>0, <3>1, <3>3
      <4>2. got' \in [Conns -> Nat]
        BY <1>0, <3>1, <3>2
      <4> QED BY <4>1, <4>2
    <3> QED BY <1>0, <2>2, <3>4 DEF HandlerRecv, HandlerPcs
  <2>3. CASE HandlerPut(c)
    <3>1. chunk[c] \in Seq(Sample) /\ chunk[c] # <<>>
      BY <1>0, <2>3 DEF Handling, HandlerPut
    <3>2. Head(chunk[c]) \in Sample /\ Tail(chunk[c]) \in Seq(Sample)
      BY <3>1
    <3> QED BY <1>0, <2>3, <3>2 DEF HandlerPut, HandlerPcs
  <2> QED BY <1>2, <2>1, <2>2, <2>3 DEF Handler
<1>3. CASE RunGenerator
  <2>1. CASE GenAccept
    BY <1>0, <2>1 DEF GenAccept, HandlerPcs
  <2>2. CASE GenGet
    BY <1>0, <2>2 DEF GenGet
  <2> QED BY <1>1, <1>3, <2>1, <2>2
    DEF RunGenerator, Generator, GenCheck, GenAcceptTimeout, GenEmpty, GenClose, GenJoin, GenDone
<1>4. UNCHANGED <<got, hPc, chunk, out_q>> \/ (\E c \in Conns : Handler(c)) \/ RunGenerator
  BY DEF Next, Main, Handlers, Outside, Expire, Interrupt, vars, recvVars, sessVars,
         Network, BoardConnects, BoardSends, BoardDrops, LinkBreaks,
         NextReturns, NextEnds, NewWriter, Add, Count, Continue,
         Break, Except, SetStopEvent, CloseReceiver, JoinStimulus, LeaveFinally,
         CheckWriters, IgnoreSignals, SaveBoard, AllSaved, Manifest, GenResume, GenUnwind,
         GenAbort, SetStop, InterruptBody, InterruptGenerator, InterruptExcept, InterruptStopping
<1> QED BY <1>1, <1>2, <1>3, <1>4

LEMMA GenTypedStep == FlowInv /\ [Next]_vars => GenTyped'
<1> SUFFICES ASSUME FlowInv, [Next]_vars PROVE GenTyped'
  OBVIOUS
<1> USE DEF FlowInv, Typed, GenTyped
<1>1. CASE UNCHANGED <<made, genVars, stop>>
  BY <1>1 DEF genVars
<1>2. ASSUME NEW b \in Boards, NEW k \in Keys, BoardConnects(b, k) PROVE GenTyped'
  <2>1. Len(made') = Len(made) + 1 /\ Len(made) \in Nat
    BY <1>2 DEF BoardConnects, NetTyped
  <2>2. backlog \in Seq(1..Len(made')) /\ threads \in Seq(1..Len(made'))
    BY <2>1, SeqOfMore
  <2>3. backlog' \in Seq(1..Len(made'))
    BY <1>2, <2>1, <2>2 DEF BoardConnects
  <2> QED BY <1>2, <2>2, <2>3 DEF BoardConnects
<1>3. CASE RunGenerator
  <2> USE DEF GenPcs
  <2>0. UNCHANGED made
    BY <1>3 DEF RunGenerator, Generator, GenCheck, GenAccept, GenAcceptTimeout, GenGet, GenEmpty,
                GenClose, GenJoin, GenDone, netVars
  <2>1. CASE GenAccept
    <3>1. Head(backlog) \in 1..Len(made) /\ Tail(backlog) \in Seq(1..Len(made))
      BY <2>1 DEF GenAccept
    <3>2. threads' \in Seq(1..Len(made)) /\ Len(threads') = Len(threads) + 1 /\ Len(threads) \in Nat
      BY <2>1, <3>1 DEF GenAccept
    <3> QED BY <2>0, <2>1, <3>1, <3>2 DEF GenAccept
  <2>2. CASE GenGet
    <3>1. Head(out_q) \in Sample
      BY <2>2 DEF GenGet, HandlersTyped
    <3> QED BY <2>0, <2>2, <3>1 DEF GenGet
  <2>3. CASE GenClose
    BY <2>0, <2>3, EmptyIsSeq DEF GenClose
  <2>4. CASE GenJoin
    BY <2>0, <2>4 DEF GenJoin
  <2>5. CASE GenCheck \/ GenAcceptTimeout \/ GenEmpty \/ GenDone
    BY <2>0, <2>5 DEF GenCheck, GenAcceptTimeout, GenEmpty, GenDone
  <2> QED BY <1>3, <2>1, <2>2, <2>3, <2>4, <2>5 DEF RunGenerator, Generator
<1>4. CASE GenUnwind \/ GenAbort \/ GenResume \/ SetStop
  <2>1. CASE GenUnwind
    BY <2>1 DEF GenUnwind, GenPcs, netVars
  <2>2. CASE GenAbort
    BY <2>2, EmptyIsSeq DEF GenAbort, GenPcs, netVars
  <2>3. CASE GenResume
    BY <2>3 DEF GenResume, GenPcs, netVars
  <2>4. CASE SetStop
    BY <2>4 DEF SetStop, genVars, netVars
  <2> QED BY <1>4, <2>1, <2>2, <2>3, <2>4
<1>5. \/ UNCHANGED <<made, genVars, stop>> \/ RunGenerator
      \/ GenUnwind \/ GenAbort \/ GenResume \/ SetStop
      \/ \E b \in Boards, k \in Keys : BoardConnects(b, k)
  BY DEF Next, Main, Handlers, Outside, Expire, Interrupt, vars, recvVars, sessVars, genVars, netVars,
         Network, BoardSends, BoardDrops, LinkBreaks,
         Handler, HandlerCheck, HandlerRecv, HandlerTimeout, HandlerEof, HandlerPut,
         NextReturns, NextEnds, NewWriter, Add, Count, Continue,
         Break, Except, SetStopEvent, CloseReceiver, JoinStimulus, LeaveFinally,
         CheckWriters, IgnoreSignals, SaveBoard, AllSaved, Manifest,
         InterruptBody, InterruptGenerator, InterruptExcept, InterruptStopping
<1> QED BY <1>1, <1>2, <1>3, <1>4, <1>5

LEMMA MainTypedStep == FlowInv /\ [Next]_vars => MainTyped'
<1> SUFFICES ASSUME FlowInv, [Next]_vars PROVE MainTyped'
  OBVIOUS
<1> USE DEF MainTyped
<1>0. MainTyped
  BY DEF FlowInv, Typed
<1>1. CASE UNCHANGED sessVars
  BY <1>0, <1>1 DEF sessVars, bookVars, saveVars
<1>2. CASE mainPc' \in MainPcs /\ raising' \in BOOLEAN /\ fatal' \in BOOLEAN
           /\ expired' \in BOOLEAN /\ signals' \in 0..MaxSignals /\ UNCHANGED <<bookVars, saveVars>>
  BY <1>0, <1>2 DEF bookVars, saveVars
<1>3. mainPc \in Body => item \in Sample /\ key \in Keys /\ item.seq \in 1..MaxSeq
  BY KeyFacts DEF FlowInv, Control, Hand
<1>4. CASE NewWriter
  <2>1. key \in Keys
    BY <1>3, <1>4 DEF NewWriter, Step, Body
  <2>2. order' \in Seq(Keys) /\ Len(order') = Len(order) + 1 /\ Len(order) \in Nat
    BY <1>0, <1>4, <2>1 DEF NewWriter
  <2>3. mainPc' \in MainPcs
    BY <1>4 DEF NewWriter, Step, MainPcs, Body
  <2>4. saved' \in 0..Len(order')
    BY <1>0, <1>4, <2>2 DEF NewWriter, saveVars
  <2>5. UNCHANGED <<raising, fatal, expired, samples, dropped, last_seq, signals>>
    BY <1>4 DEF NewWriter
  <2> QED BY <1>0, <2>2, <2>3, <2>4, <2>5
<1>5. CASE Add
  <2>1. key \in Keys /\ item \in Sample
    BY <1>3, <1>5 DEF Add, Step, Body
  <2>2. samples' \in [Keys -> Seq(Sample)]
    BY <1>0, <1>5, <2>1 DEF Add
  <2>3. mainPc' \in MainPcs
    BY <1>5 DEF Add, Step, MainPcs, Body
  <2>4. UNCHANGED <<raising, fatal, expired, order, dropped, last_seq, signals, saved>>
    BY <1>5 DEF Add, saveVars
  <2> QED BY <1>0, <2>2, <2>3, <2>4
<1>6. CASE Count
  <2>1. key \in Keys /\ item.seq \in 1..MaxSeq
    BY <1>3, <1>6 DEF Count, Step, Body
  <2>2. last_seq' \in [Keys -> 0..MaxSeq]
    BY <1>0, <1>6, <2>1, BoundsAssumption DEF Count
  <2>3. dropped' \in [Keys -> Nat]
    BY <1>0, <1>6, <2>1, BoundsAssumption DEF Count
  <2>4. mainPc' \in MainPcs
    BY <1>6 DEF Count, Step, MainPcs, Body
  <2>5. UNCHANGED <<raising, fatal, expired, order, samples, signals, saved>>
    BY <1>6 DEF Count, saveVars
  <2> QED BY <1>0, <2>2, <2>3, <2>4, <2>5
<1>7. CASE SaveBoard
  <2>1. saved' \in 0..Len(order')
    BY <1>0, <1>7 DEF SaveBoard, bookVars
  <2>2. UNCHANGED <<mainPc, raising, fatal, expired, order, samples, dropped, last_seq, signals>>
    BY <1>7 DEF SaveBoard, bookVars
  <2> QED BY <1>0, <2>1, <2>2
<1>8. CASE \E s \in Signal : Interrupt(s)
  <2>1. signals' \in 0..MaxSignals /\ UNCHANGED <<bookVars, expired, saveVars>>
    BY <1>0, <1>8, SignalsAssumption DEF Interrupt
  <2>2. mainPc' \in MainPcs /\ raising' \in BOOLEAN /\ fatal' \in BOOLEAN
    BY <1>0, <1>8 DEF Interrupt, InterruptBody, InterruptGenerator, InterruptExcept, InterruptStopping,
                      Step, MainPcs
  <2> QED BY <1>0, <1>2, <2>1, <2>2
<1>9. \/ UNCHANGED sessVars \/ NewWriter \/ Add \/ Count \/ SaveBoard
      \/ \E s \in Signal : Interrupt(s)
      \/ mainPc' \in MainPcs /\ raising' \in BOOLEAN /\ fatal' \in BOOLEAN
           /\ expired' \in BOOLEAN /\ signals' \in 0..MaxSignals /\ UNCHANGED <<bookVars, saveVars>>
  BY <1>0 DEF Next, Main, Handlers, Outside, Expire, vars, sessVars, bookVars, saveVars, MainPcs, Body, Step,
         RunGenerator, NextReturns, NextEnds, Continue,
         Break, Except, SetStopEvent, CloseReceiver, JoinStimulus, LeaveFinally,
         CheckWriters, IgnoreSignals, AllSaved, Manifest
<1> QED BY <1>1, <1>2, <1>4, <1>5, <1>6, <1>7, <1>8, <1>9

LEMMA TypedStep == FlowInv /\ [Next]_vars => Typed'
  BY NetTypedStep, HandlersTypedStep, GenTypedStep, MainTypedStep DEF Typed

(* Only boards and network change what the connections carry.               *)
LEMMA NetworkOrNot == [Next]_vars => Network \/ UNCHANGED netVars
  BY DEF Next, Main, Handlers, Outside, Expire, Interrupt, vars, recvVars, sessVars,
         RunGenerator, Generator, GenCheck, GenAccept, GenAcceptTimeout, GenGet, GenEmpty,
         GenClose, GenJoin, GenDone, Handler, HandlerCheck, HandlerRecv, HandlerTimeout,
         HandlerEof, HandlerPut, NextReturns, NextEnds, NewWriter, Add, Count, Continue,
         Break, Except, SetStopEvent, CloseReceiver, JoinStimulus, LeaveFinally,
         CheckWriters, IgnoreSignals, SaveBoard, AllSaved, Manifest, GenResume, GenUnwind,
         GenAbort, SetStop, InterruptBody, InterruptGenerator, InterruptExcept, InterruptStopping

(* What Numbered says of the frames alone. *)
NumberedFrames(cd) ==
  /\ \A c \in Conns : \A i \in 1..Len(cd[c]) : cd[c][i].conn = c
  /\ \A c \in Conns : \A i, j \in 1..Len(cd[c]) :
       i < j => cd[c][i].seq < cd[c][j].seq

(* Numbers grow along every connection. *)
LEMMA NumberedStep == FlowInv /\ [Next]_vars => Numbered'
<1> SUFFICES ASSUME FlowInv, [Next]_vars PROVE Numbered'
  OBVIOUS
<1>0. Typed /\ NetTyped /\ Numbered
  BY DEF FlowInv, Typed
<1>1. CASE UNCHANGED netVars
  BY <1>0, <1>1 DEF netVars, Numbered
<1>2. ASSUME NEW b \in Boards, NEW k \in Keys, BoardConnects(b, k) PROVE Numbered'
  <2> DEFINE n == Len(made)
  <2>1. n \in Nat /\ n + 1 \in Conns /\ Len(made') = n + 1 /\ made'[n + 1].board = b
        /\ \A c \in 1..n : made'[c] = made[c]
    BY <1>0, <1>2, BoundsAssumption DEF BoardConnects, NetTyped, Conns
  <2>2. carried' = carried /\ nextSeq' = nextSeq /\ link' = [link EXCEPT ![b] = n + 1]
    BY <1>2 DEF BoardConnects
  <2>3. carried[n + 1] = <<>> /\ Len(carried[n + 1]) = 0
    BY <1>0, <2>1 DEF Numbered
  <2> HIDE DEF n
  <2>4. ASSUME NEW x \in Boards, link'[x] # 0
        PROVE  made'[link'[x]].board = x
               /\ \A i \in 1..Len(carried[link'[x]]) : carried[link'[x]][i].seq < nextSeq[x]
    <3>1. CASE x = b
      <4>1. link'[x] = n + 1
        BY <1>0, <2>2, <3>1 DEF NetTyped
      <4> QED BY <2>1, <2>3, <3>1, <4>1
    <3>2. CASE x # b
      <4>1. link'[x] = link[x] /\ link[x] # 0
        BY <1>0, <2>2, <2>4, <3>2 DEF NetTyped
      <4>2. link[x] \in 1..n
        BY <1>0, <4>1, LinkFacts DEF n
      <4> QED BY <1>0, <2>1, <4>1, <4>2 DEF Numbered
    <3> QED BY <3>1, <3>2
  <2>5. \A c \in Conns : c > Len(made') => carried'[c] = <<>>
    BY <1>0, <2>1, <2>2 DEF Numbered, Conns, n
  <2>6. NumberedFrames(carried')
    BY <1>0, <2>2 DEF Numbered, NumberedFrames
  <2> QED BY <2>2, <2>4, <2>5, <2>6 DEF Numbered, NumberedFrames
<1>3. ASSUME NEW b \in Boards, BoardSends(b) PROVE Numbered'
  <2> DEFINE l == link[b]
             x == [conn |-> link[b], seq |-> nextSeq[b]]
  <2>1. l \in Conns /\ l \in 1..Len(made) /\ Len(made) \in Nat /\ l # 0
    BY <1>0, <1>3, LinkFacts DEF BoardSends, NetTyped
  <2>2. carried' = [carried EXCEPT ![l] = Append(@, x)] /\ made' = made /\ link' = link
        /\ nextSeq' = [nextSeq EXCEPT ![b] = @ + 1]
    BY <1>3 DEF BoardSends
  <2>3. x \in Sample /\ x.conn = l /\ x.seq = nextSeq[b] /\ nextSeq[b] \in Nat
    BY <1>0, <1>3, <2>1, BoundsAssumption DEF BoardSends, Sample, NetTyped
  <2>4. \A i \in 1..Len(carried[l]) : carried[l][i].seq < x.seq
    BY <1>0, <1>3, <2>3 DEF Numbered, BoardSends
  <2>5. carried[l] \in Seq(Sample) /\ Len(carried[l]) \in Nat
    BY <1>0, <2>1 DEF NetTyped
  <2> HIDE DEF l, x
  <2>6. carried'[l] = Append(carried[l], x) /\ \A c \in Conns : c # l => carried'[c] = carried[c]
    BY <1>0, <2>1, <2>2 DEF NetTyped
  <2>7. Len(carried'[l]) = Len(carried[l]) + 1 /\ carried'[l][Len(carried[l]) + 1] = x
        /\ \A i \in 1..Len(carried[l]) : carried'[l][i] = carried[l][i]
    BY <2>3, <2>5, <2>6, AppendProperties
  <2>8. ASSUME NEW c \in Conns PROVE \A i \in 1..Len(carried'[c]) : carried'[c][i].conn = c
    <3>1. CASE c = l
      <4>1. \A i \in 1..Len(carried[l]) : carried[l][i].conn = l
        BY <1>0, <2>1 DEF Numbered
      <4>2. \A i \in 1..Len(carried'[l]) : i \in 1..Len(carried[l]) \/ i = Len(carried[l]) + 1
        BY <2>5, <2>7
      <4> QED BY <2>3, <2>7, <3>1, <4>1, <4>2
    <3>2. CASE c # l
      BY <1>0, <2>6, <3>2 DEF Numbered
    <3> QED BY <3>1, <3>2
  <2>9. ASSUME NEW c \in Conns
        PROVE  \A i, j \in 1..Len(carried'[c]) : i < j => carried'[c][i].seq < carried'[c][j].seq
    <3>1. CASE c = l
      <4>1. \A i, j \in 1..Len(carried[l]) : i < j => carried[l][i].seq < carried[l][j].seq
        BY <1>0, <2>1 DEF Numbered
      <4>2. SUFFICES ASSUME NEW i \in 1..Len(carried'[l]), NEW j \in 1..Len(carried'[l]), i < j
                     PROVE  carried'[l][i].seq < carried'[l][j].seq
        BY <3>1
      <4>3. i \in 1..Len(carried[l]) /\ carried'[l][i] = carried[l][i]
        BY <2>5, <2>7, <4>2
      <4>4. CASE j = Len(carried[l]) + 1
        BY <2>4, <2>7, <4>3, <4>4
      <4>5. CASE j # Len(carried[l]) + 1
        <5>1. j \in 1..Len(carried[l])
          BY <2>5, <2>7, <4>2, <4>5
        <5> QED BY <2>7, <4>1, <4>2, <4>3, <5>1
      <4> QED BY <4>4, <4>5
    <3>2. CASE c # l
      BY <1>0, <2>6, <3>2 DEF Numbered
    <3> QED BY <3>1, <3>2
  <2>10. \A c \in Conns : c > Len(made') => carried'[c] = <<>>
    BY <1>0, <2>1, <2>2, <2>6 DEF Numbered
  <2>11. ASSUME NEW y \in Boards, link[y] # 0
         PROVE  \A i \in 1..Len(carried'[link[y]]) : carried'[link[y]][i].seq < nextSeq'[y]
    <3>1. CASE y = b
      <4>1. nextSeq'[y] = nextSeq[b] + 1 /\ link[y] = l
        BY <1>0, <2>2, <3>1 DEF NetTyped, l
      <4>2. SUFFICES ASSUME NEW i \in 1..Len(carried'[l]) PROVE carried'[l][i].seq < x.seq + 1
        BY <2>3, <4>1
      <4>3. CASE i = Len(carried[l]) + 1
        BY <2>3, <2>7, <4>3
      <4>4. CASE i # Len(carried[l]) + 1
        <5>1. i \in 1..Len(carried[l])
          BY <2>5, <2>7, <4>2, <4>4
        <5>2. carried[l][i] \in Sample
          BY <2>5, <5>1, ElementOfSeq
        <5>3. carried[l][i].seq \in Nat
          BY <5>2, BoundsAssumption DEF Sample
        <5>4. carried[l][i].seq < x.seq
          BY <2>4, <5>1
        <5>5. carried'[l][i] = carried[l][i]
          BY <2>7, <5>1
        <5> QED BY <2>3, <5>3, <5>4, <5>5
      <4> QED BY <4>3, <4>4
    <3>2. CASE y # b
      <4>1. link[y] # l
        BY <1>0, <2>1, <2>11, <3>2 DEF Numbered, l
      <4>2. link[y] \in Conns /\ nextSeq'[y] = nextSeq[y]
        BY <1>0, <2>2, <2>11, <3>2, LinkFacts DEF NetTyped
      <4> QED BY <1>0, <2>6, <2>11, <4>1, <4>2 DEF Numbered
    <3> QED BY <3>1, <3>2
  <2>12. \A y \in Boards : link[y] # 0 => made[link[y]].board = y
    BY <1>0 DEF Numbered
  <2> QED BY <2>2, <2>8, <2>9, <2>10, <2>11, <2>12 DEF Numbered
<1>4. ASSUME NEW b \in Boards, BoardDrops(b) PROVE Numbered'
  <2>1. UNCHANGED <<link, made, carried>> /\ nextSeq' = [nextSeq EXCEPT ![b] = @ + 1]
    BY <1>4 DEF BoardDrops
  <2>2. \A x \in Boards : nextSeq'[x] \in Nat /\ nextSeq[x] \in Nat /\ nextSeq[x] <= nextSeq'[x]
    BY <1>0, <2>1, BoundsAssumption DEF NetTyped
  <2>3. ASSUME NEW x \in Boards, link[x] # 0
        PROVE  \A i \in 1..Len(carried[link[x]]) : carried[link[x]][i].seq < nextSeq'[x]
    <3>1. link[x] \in Conns
      BY <1>0, <2>3, LinkFacts
    <3>2. \A i \in 1..Len(carried[link[x]]) : carried[link[x]][i] \in Sample
      BY <1>0, <3>1, ElementOfSeq DEF NetTyped
    <3>3. \A i \in 1..Len(carried[link[x]]) : carried[link[x]][i].seq \in Nat
      BY <3>2, BoundsAssumption DEF Sample
    <3>4. \A i \in 1..Len(carried[link[x]]) : carried[link[x]][i].seq < nextSeq[x]
      BY <1>0, <2>3 DEF Numbered
    <3> QED BY <2>2, <3>3, <3>4
  <2> QED BY <1>0, <2>1, <2>3 DEF Numbered
<1>5. ASSUME NEW b \in Boards, LinkBreaks(b) PROVE Numbered'
  <2> DEFINE l == link[b]
  <2>1. l \in Conns /\ l \in 1..Len(made) /\ l # 0
    BY <1>0, <1>5, LinkFacts DEF LinkBreaks
  <2>2. PICK n \in got[l]..Len(carried[l]) : carried' = [carried EXCEPT ![l] = SubSeq(@, 1, n)]
    BY <1>5 DEF LinkBreaks
  <2>3. made' = made /\ nextSeq' = nextSeq /\ link' = [link EXCEPT ![b] = 0]
    BY <1>5 DEF LinkBreaks
  <2>4. carried[l] \in Seq(Sample) /\ n \in Nat /\ n <= Len(carried[l]) /\ Len(carried[l]) \in Nat
    BY <1>0, <2>1, <2>2 DEF NetTyped, FlowInv, Typed, HandlersTyped
  <2> HIDE DEF l
  <2>5. carried'[l] = SubSeq(carried[l], 1, n) /\ \A c \in Conns : c # l => carried'[c] = carried[c]
    BY <1>0, <2>1, <2>2 DEF NetTyped
  <2>6. Len(carried'[l]) = n /\ \A i \in 1..n : carried'[l][i] = carried[l][i]
    BY <2>4, <2>5
  <2>7. \A c \in Conns : Len(carried'[c]) <= Len(carried[c]) /\ Len(carried'[c]) \in Nat
                         /\ Len(carried[c]) \in Nat
                         /\ \A i \in 1..Len(carried'[c]) : carried'[c][i] = carried[c][i]
    BY <1>0, <2>4, <2>5, <2>6 DEF NetTyped
  <2>8. \A c \in Conns : \A i \in 1..Len(carried'[c]) : i \in 1..Len(carried[c])
    BY <2>7
  <2>9. NumberedFrames(carried')
    BY <1>0, <2>7, <2>8, SMTT(30) DEF Numbered, NumberedFrames
  <2>10. \A c \in Conns : c > Len(made') => carried'[c] = <<>>
    BY <1>0, <2>1, <2>3, <2>5 DEF Numbered, NetTyped
  <2>11. ASSUME NEW y \in Boards, link'[y] # 0
         PROVE  made[link'[y]].board = y
                /\ \A i \in 1..Len(carried'[link'[y]]) : carried'[link'[y]][i].seq < nextSeq[y]
    <3>1. link'[y] = link[y] /\ link[y] # 0
      BY <1>0, <2>3, <2>11 DEF NetTyped
    <3>2. link[y] \in Conns
      BY <1>0, <3>1, LinkFacts
    <3> QED BY <1>0, <2>7, <2>8, <3>1, <3>2 DEF Numbered
  <2> QED BY <2>3, <2>9, <2>10, <2>11 DEF Numbered, NumberedFrames
<1> QED BY <1>1, <1>2, <1>3, <1>4, <1>5, NetworkOrNot DEF Network

(* A handler that was started stays started. *)
LEMMA StartedStays == FlowInv /\ [Next]_vars => Started \subseteq Started'
<1> SUFFICES ASSUME FlowInv, [Next]_vars PROVE Started \subseteq Started'
  OBVIOUS
<1>1. UNCHANGED threads \/ GenAccept
  BY DEF Next, Main, Handlers, Outside, Expire, Interrupt, vars, recvVars, sessVars, genVars,
         Network, BoardConnects, BoardSends, BoardDrops, LinkBreaks,
         RunGenerator, Generator, GenCheck, GenAcceptTimeout, GenGet, GenEmpty,
         GenClose, GenJoin, GenDone, Handler, HandlerCheck, HandlerRecv, HandlerTimeout,
         HandlerEof, HandlerPut, NextReturns, NextEnds, NewWriter, Add, Count, Continue,
         Break, Except, SetStopEvent, CloseReceiver, JoinStimulus, LeaveFinally,
         CheckWriters, IgnoreSignals, SaveBoard, AllSaved, Manifest, GenResume, GenUnwind,
         GenAbort, SetStop, InterruptBody, InterruptGenerator, InterruptExcept, InterruptStopping
<1>2. CASE UNCHANGED threads
  BY <1>2 DEF Started, Elems
<1>3. CASE GenAccept
  <2>1. threads \in Seq(1..Len(made)) /\ Head(backlog) \in 1..Len(made)
    BY <1>3 DEF GenAccept, FlowInv, Typed, GenTyped
  <2>2. threads' = Append(threads, Head(backlog))
    BY <1>3 DEF GenAccept
  <2>3. Len(threads') = Len(threads) + 1 /\ Len(threads) \in Nat
        /\ \A i \in 1..Len(threads) : threads'[i] = threads[i]
    BY <2>1, <2>2
  <2> QED BY <2>3 DEF Started, Elems
<1> QED BY <1>1, <1>2, <1>3

(* The handlers are in Conns, and so are the connections that wait.          *)
LEMMA StartedAreMade ==
  ASSUME Typed
  PROVE  Started \subseteq 1..Len(made) /\ 1..Len(made) \subseteq Conns
<1>1. Started \subseteq 1..Len(made)
  BY DEF Started, Elems, Typed, GenTyped
<1>2. 1..Len(made) \subseteq Conns
  BY BoundsAssumption DEF Typed, NetTyped, Conns
<1> QED BY <1>1, <1>2

LEMMA AcceptStarts ==
  ASSUME FlowInv, GenAccept
  PROVE  Started' = Started \cup {Head(backlog)} /\ Head(backlog) \in Conns
<1>1. threads \in Seq(1..Len(made)) /\ Head(backlog) \in 1..Len(made)
  BY DEF GenAccept, FlowInv, Typed, GenTyped
<1>2. threads' = Append(threads, Head(backlog))
  BY DEF GenAccept
<1>3. Len(threads') = Len(threads) + 1 /\ Len(threads) \in Nat
      /\ threads'[Len(threads) + 1] = Head(backlog)
      /\ \A i \in 1..Len(threads) : threads'[i] = threads[i]
  BY <1>1, <1>2
<1>4. 1..Len(threads') = 1..Len(threads) \cup {Len(threads) + 1}
  BY <1>3
<1>5. Started' = Started \cup {Head(backlog)}
  BY <1>3, <1>4 DEF Started, Elems
<1> QED BY <1>1, <1>5, StartedAreMade DEF FlowInv

(* A handler takes only what its connection carried, and forgets nothing.     *)
LEMMA HandlingStep == FlowInv /\ [Next]_vars => Handling'
<1> SUFFICES ASSUME FlowInv, [Next]_vars PROVE Handling'
  OBVIOUS
<1>0. Typed /\ NetTyped /\ HandlersTyped /\ Handling
  BY DEF FlowInv, Typed
<1>s. Started \subseteq Started' /\ Started \subseteq Conns
  BY StartedStays, StartedAreMade DEF FlowInv
<1>b. backlog \in Seq(1..Len(made)) /\ \A i \in 1..Len(backlog) : backlog[i] \in Conns /\ backlog[i] <= Len(made)
  <2>1. backlog \in Seq(1..Len(made))
    BY DEF FlowInv, Typed, GenTyped
  <2>2. \A i \in 1..Len(backlog) : backlog[i] \in 1..Len(made)
    BY <2>1, ElementOfSeq
  <2> QED BY <1>0, <2>1, <2>2, StartedAreMade
<1>1. CASE UNCHANGED <<carried, got, hPc, chunk, backlog>>
  BY <1>0, <1>1, <1>s DEF Handling
<1>2. CASE UNCHANGED <<carried, got, hPc, chunk>> /\ backlog' = <<>>
  BY <1>0, <1>2, <1>s DEF Handling
<1>3. ASSUME NEW b \in Boards, NEW k \in Keys, BoardConnects(b, k) PROVE Handling'
  <2> DEFINE n == Len(made)
  <2>1. n \in Nat /\ n + 1 \in Conns
    BY <1>0, <1>3, BoundsAssumption DEF BoardConnects, NetTyped, Conns
  <2>2. backlog' = Append(backlog, n + 1) /\ UNCHANGED <<carried, got, hPc, chunk>>
    BY <1>3 DEF BoardConnects
  <2>3. Len(backlog') = Len(backlog) + 1 /\ Len(backlog) \in Nat /\ backlog'[Len(backlog) + 1] = n + 1
        /\ \A i \in 1..Len(backlog) : backlog'[i] = backlog[i]
    BY <1>b, <2>1, <2>2, AppendProperties
  <2>4. n + 1 \notin Started
    BY <1>0, <2>1, StartedAreMade
  <2>5. hPc[n + 1] = "none"
    BY <1>0, <2>1, <2>4 DEF Handling
  <2>6. \A i \in 1..Len(backlog) : backlog[i] # n + 1
    BY <1>b, <2>1 DEF Conns
  <2> HIDE DEF n
  <2>7. \A i \in 1..Len(backlog') : hPc[backlog'[i]] = "none"
    BY <1>0, <2>3, <2>5 DEF Handling
  <2>8. \A i, j \in 1..Len(backlog') : backlog'[i] = backlog'[j] => i = j
    BY <1>0, <2>3, <2>6 DEF Handling
  <2> QED BY <1>0, <1>s, <2>2, <2>7, <2>8 DEF Handling
<1>4. ASSUME NEW b \in Boards, BoardSends(b) PROVE Handling'
  <2> DEFINE l == link[b]
             x == [conn |-> link[b], seq |-> nextSeq[b]]
  <2>1. carried' = [carried EXCEPT ![l] = Append(@, x)] /\ UNCHANGED <<got, hPc, chunk, threads, backlog>>
    BY <1>4 DEF BoardSends, genVars
  <2>2. l \in Conns
    BY <1>0, <1>4, LinkFacts DEF BoardSends
  <2>3. carried[l] \in Seq(Sample)
    BY <1>0, <2>2 DEF NetTyped
  <2>4. x \in Sample
    BY <1>0, <1>4, <2>2, BoundsAssumption DEF BoardSends, Sample, NetTyped
  <2> HIDE DEF l, x
  <2>5. Len(Append(carried[l], x)) = Len(carried[l]) + 1 /\ Len(carried[l]) \in Nat
    BY <2>3, <2>4
  <2>6. \A c \in Conns : got[c] <= Len(carried'[c])
    BY <1>0, <2>1, <2>2, <2>5 DEF Handling, NetTyped, HandlersTyped
  <2> QED BY <1>0, <1>s, <2>1, <2>6 DEF Handling
<1>5. ASSUME NEW b \in Boards, LinkBreaks(b) PROVE Handling'
  <2> DEFINE l == link[b]
  <2>1. l \in Conns
    BY <1>0, <1>5, LinkFacts DEF LinkBreaks
  <2>2. PICK n \in got[l]..Len(carried[l]) : carried' = [carried EXCEPT ![l] = SubSeq(@, 1, n)]
    BY <1>5 DEF LinkBreaks
  <2>3. UNCHANGED <<got, hPc, chunk, threads, backlog>>
    BY <1>5 DEF LinkBreaks, genVars
  <2>4. carried[l] \in Seq(Sample) /\ got[l] \in Nat /\ n \in Nat
    BY <1>0, <2>1, <2>2 DEF NetTyped, HandlersTyped
  <2> HIDE DEF l
  <2>5. Len(SubSeq(carried[l], 1, n)) = n
    BY <2>2, <2>4
  <2>6. \A c \in Conns : got[c] <= Len(carried'[c])
    BY <1>0, <2>1, <2>2, <2>4, <2>5 DEF Handling, NetTyped
  <2> QED BY <1>0, <1>s, <2>3, <2>6 DEF Handling
<1>6. ASSUME NEW c \in Conns, Handler(c) PROVE Handling'
  <2>0. UNCHANGED <<carried, threads, backlog>> /\ hPc[c] \in {"check", "recv", "put"}
    BY <1>6 DEF Handler, HandlerCheck, HandlerRecv, HandlerTimeout, HandlerEof, HandlerPut, netVars, genVars
  <2>1. c \in Started
    BY <1>0, <2>0 DEF Handling
  <2>2. \A i \in 1..Len(backlog) : backlog[i] # c
    BY <1>0, <2>0 DEF Handling
  <2>3. CASE HandlerCheck(c) \/ HandlerTimeout(c) \/ HandlerEof(c)
    <3>1. UNCHANGED <<got, chunk>> /\ hPc[c] # "put"
      BY <2>3 DEF HandlerCheck, HandlerTimeout, HandlerEof
    <3>2. PICK p \in {"check", "recv", "done"} : hPc' = [hPc EXCEPT ![c] = p]
      BY <2>3 DEF HandlerCheck, HandlerTimeout, HandlerEof
    <3> QED BY <1>0, <1>b, <1>s, <2>0, <2>1, <2>2, <3>1, <3>2 DEF Handling, HandlersTyped
  <2>4. CASE HandlerRecv(c)
    <3>1. PICK n \in 1..MaxChunk :
            /\ got[c] + n <= Len(carried[c])
            /\ chunk' = [chunk EXCEPT ![c] = SubSeq(carried[c], got[c] + 1, got[c] + n)]
            /\ got' = [got EXCEPT ![c] = @ + n]
      BY <2>4 DEF HandlerRecv
    <3>2. carried[c] \in Seq(Sample) /\ got[c] \in Nat /\ n \in Nat /\ n > 0
      BY <1>0, BoundsAssumption DEF NetTyped, HandlersTyped
    <3> DEFINE t == SubSeq(carried[c], got[c] + 1, got[c] + n)
    <3>3. Len(t) = n /\ \A i \in 1..n : t[i] = carried[c][got[c] + i]
      <4>1. got[c] + 1 \in 1..Len(carried[c]) + 1 /\ got[c] + n \in got[c]..Len(carried[c])
        BY <3>1, <3>2
      <4> DEFINE p == got[c] + 1
                 q == got[c] + n
      <4>2. p \in Int /\ q \in Int /\ p <= q /\ q - p + 1 = n
        BY <3>2
      <4>3. \A i \in p..q : carried[c][i] \in Sample
        BY <3>1, <3>2, ElementOfSeq
      <4>4. \A i \in 1..n : p + i - 1 = got[c] + i
        BY <3>2
      <4> HIDE DEF p, q
      <4>5. Len(SubSeq(carried[c], p, q)) = n
            /\ \A i \in 1..n : SubSeq(carried[c], p, q)[i] = carried[c][p + i - 1]
        BY <4>2, <4>3, SubSeqProperties
      <4> QED BY <4>4, <4>5 DEF p, q
    <3>4. t # <<>> /\ \A i \in 1..Len(t) : t[i].conn = c
      <4>1. \A i \in 1..n : got[c] + i \in 1..Len(carried[c])
        BY <3>1, <3>2
      <4>2. \A i \in 1..Len(carried[c]) : carried[c][i].conn = c
        BY DEF FlowInv, Numbered
      <4>3. Len(t) # 0
        BY <3>2, <3>3
      <4>4. \A i \in 1..n : t[i].conn = c
        BY <3>3, <4>1, <4>2
      <4> HIDE DEF t
      <4> QED BY <3>3, <4>3, <4>4
    <3> HIDE DEF t
    <3>5. chunk'[c] = t /\ \A d \in Conns : d # c => chunk'[d] = chunk[d]
      BY <1>0, <3>1 DEF HandlersTyped, t
    <3>6. got'[c] = got[c] + n /\ \A d \in Conns : d # c => got'[d] = got[d]
      BY <1>0, <3>1 DEF HandlersTyped
    <3>7. hPc'[c] = "put" /\ \A d \in Conns : d # c => hPc'[d] = hPc[d]
      BY <1>0, <2>4 DEF HandlersTyped, HandlerRecv
    <3>8. \A d \in Conns : got'[d] <= Len(carried[d])
      BY <1>0, <3>1, <3>6 DEF Handling
    <3>9. \A d \in Conns : hPc'[d] = "put" <=> chunk'[d] # <<>>
      BY <1>0, <3>4, <3>5, <3>7 DEF Handling
    <3>10. \A d \in Conns : \A i \in 1..Len(chunk'[d]) : chunk'[d][i].conn = d
      BY <1>0, <3>4, <3>5 DEF Handling
    <3>11. \A i \in 1..Len(backlog) : hPc'[backlog[i]] = "none"
      BY <1>0, <1>b, <2>2, <3>7 DEF Handling
    <3>12. \A d \in Conns : hPc'[d] # "none" => d \in Started'
      BY <1>0, <1>s, <2>1, <3>7 DEF Handling
    <3> QED BY <1>0, <2>0, <3>8, <3>9, <3>10, <3>11, <3>12 DEF Handling
  <2>5. CASE HandlerPut(c)
    <3>1. chunk[c] \in Seq(Sample) /\ chunk[c] # <<>> /\ UNCHANGED got
      BY <1>0, <2>5 DEF Handling, HandlerPut, HandlersTyped
    <3> DEFINE t == Tail(chunk[c])
    <3>2. Len(t) = Len(chunk[c]) - 1 /\ t \in Seq(Sample) /\ \A i \in 1..Len(t) : t[i] = chunk[c][i + 1]
      BY <3>1
    <3>3. Len(chunk[c]) = 1 <=> t = <<>>
      <4> HIDE DEF t
      <4>1. Len(chunk[c]) \in Nat
        BY <3>1
      <4>2. Len(t) = 0 <=> t = <<>>
        BY <3>2, EmptySeq
      <4>3. Len(t) = Len(chunk[c]) - 1
        BY <3>2
      <4> QED BY <4>1, <4>2, <4>3
    <3>4. \A i \in 1..Len(t) : t[i].conn = c
      BY <1>0, <3>1, <3>2 DEF Handling
    <3> HIDE DEF t
    <3>5. chunk'[c] = t /\ \A d \in Conns : d # c => chunk'[d] = chunk[d]
      BY <1>0, <2>5 DEF HandlersTyped, HandlerPut, t
    <3>7. hPc'[c] = (IF t = <<>> THEN "check" ELSE "put") /\ \A d \in Conns : d # c => hPc'[d] = hPc[d]
      BY <1>0, <2>5, <3>3 DEF HandlersTyped, HandlerPut
    <3>9. \A d \in Conns : hPc'[d] = "put" <=> chunk'[d] # <<>>
      BY <1>0, <3>5, <3>7 DEF Handling
    <3>10. \A d \in Conns : \A i \in 1..Len(chunk'[d]) : chunk'[d][i].conn = d
      BY <1>0, <3>4, <3>5 DEF Handling
    <3>11. \A i \in 1..Len(backlog) : hPc'[backlog[i]] = "none"
      BY <1>0, <1>b, <2>2, <3>7 DEF Handling
    <3>12. \A d \in Conns : hPc'[d] # "none" => d \in Started'
      BY <1>0, <1>s, <2>1, <3>7 DEF Handling
    <3> QED BY <1>0, <2>0, <3>1, <3>9, <3>10, <3>11, <3>12 DEF Handling
  <2> QED BY <1>6, <2>3, <2>4, <2>5 DEF Handler
<1>7. CASE GenAccept
  <2> DEFINE c == Head(backlog)
  <2>1. backlog # <<>> /\ backlog' = Tail(backlog) /\ hPc' = [hPc EXCEPT ![c] = "check"]
        /\ UNCHANGED <<carried, got, chunk>>
    BY <1>7 DEF GenAccept, netVars
  <2>2. c = backlog[1] /\ Len(backlog) \in Nat \ {0} /\ 1 \in 1..Len(backlog)
    BY <1>b, <2>1
  <2>3. Len(backlog') = Len(backlog) - 1 /\ \A i \in 1..Len(backlog') : backlog'[i] = backlog[i + 1]
    BY <1>b, <2>1
  <2>4. c \in Started' /\ c \in Conns
    BY <1>7, AcceptStarts
  <2>5. hPc[c] = "none"
    BY <1>0, <2>2 DEF Handling
  <2> HIDE DEF c
  <2>6. \A i \in 1..Len(backlog') : i + 1 \in 1..Len(backlog) /\ i + 1 # 1
    BY <2>2, <2>3
  <2>7. hPc'[c] = "check" /\ \A d \in Conns : d # c => hPc'[d] = hPc[d]
    BY <1>0, <2>1, <2>4 DEF HandlersTyped
  <2>8. \A i \in 1..Len(backlog') : backlog'[i] # c /\ backlog'[i] \in Conns /\ hPc[backlog'[i]] = "none"
    <3> SUFFICES ASSUME NEW i \in 1..Len(backlog')
                 PROVE  backlog'[i] # c /\ backlog'[i] \in Conns /\ hPc[backlog'[i]] = "none"
      OBVIOUS
    <3>1. backlog'[i] = backlog[i + 1] /\ i + 1 \in 1..Len(backlog) /\ i + 1 # 1
      BY <2>3, <2>6
    <3>2. backlog[i + 1] # backlog[1]
      BY <1>0, <2>2, <3>1 DEF Handling
    <3>3. backlog[i + 1] \in Conns /\ hPc[backlog[i + 1]] = "none"
      BY <1>0, <1>b, <3>1 DEF Handling
    <3> QED BY <2>2, <3>1, <3>2, <3>3
  <2>9. \A i \in 1..Len(backlog') : hPc'[backlog'[i]] = "none"
    BY <2>7, <2>8
  <2>10. \A i, j \in 1..Len(backlog') : backlog'[i] = backlog'[j] => i = j
    <3> SUFFICES ASSUME NEW i \in 1..Len(backlog'), NEW j \in 1..Len(backlog'), backlog'[i] = backlog'[j]
                 PROVE i = j
      OBVIOUS
    <3>1. i + 1 = j + 1
      BY <1>0, <2>3, <2>6 DEF Handling
    <3> QED BY <2>2, <2>3, <3>1
  <2>11. \A d \in Conns : hPc'[d] = "put" <=> chunk'[d] # <<>>
    BY <1>0, <2>1, <2>5, <2>7 DEF Handling
  <2>12. \A d \in Conns : hPc'[d] # "none" => d \in Started'
    BY <1>0, <1>s, <2>4, <2>7 DEF Handling
  <2> QED BY <1>0, <2>1, <2>9, <2>10, <2>11, <2>12 DEF Handling
<1>8. \/ UNCHANGED <<carried, got, hPc, chunk, backlog>>
      \/ UNCHANGED <<carried, got, hPc, chunk>> /\ backlog' = <<>>
      \/ \E b \in Boards, k \in Keys : BoardConnects(b, k)
      \/ \E b \in Boards : BoardSends(b) \/ LinkBreaks(b)
      \/ \E c \in Conns : Handler(c)
      \/ GenAccept
  BY DEF Next, Main, Handlers, Outside, Expire, Interrupt, vars, recvVars, sessVars, genVars, netVars,
         Network, BoardDrops, RunGenerator, Generator, GenCheck, GenAcceptTimeout, GenGet, GenEmpty,
         GenClose, GenJoin, GenDone, NextReturns, NextEnds, NewWriter, Add, Count, Continue,
         Break, Except, SetStopEvent, CloseReceiver, JoinStimulus, LeaveFinally,
         CheckWriters, IgnoreSignals, SaveBoard, AllSaved, Manifest, GenResume, GenUnwind,
         GenAbort, SetStop, InterruptBody, InterruptGenerator, InterruptExcept, InterruptStopping
<1> QED BY <1>1, <1>2, <1>3, <1>4, <1>5, <1>6, <1>7, <1>8

(* A connection made keeps its board and its address. *)
LEMMA MadeStays ==
  ASSUME Typed, [Next]_vars
  PROVE  \A c \in 1..Len(made) : c \in 1..Len(made') /\ made'[c] = made[c]
<1>1. made \in Seq(Made) /\ Len(made) \in Nat
  BY DEF Typed, NetTyped
<1>2. ASSUME NEW b \in Boards, NEW k \in Keys, BoardConnects(b, k)
      PROVE  \A c \in 1..Len(made) : c \in 1..Len(made') /\ made'[c] = made[c]
  <2>1. [board |-> b, peer |-> k] \in Made /\ made' = Append(made, [board |-> b, peer |-> k])
    BY <1>2 DEF BoardConnects, Made
  <2>2. Len(made') = Len(made) + 1 /\ \A c \in 1..Len(made) : made'[c] = made[c]
    BY <1>1, <2>1, AppendProperties
  <2> QED BY <1>1, <2>2
<1>3. UNCHANGED made \/ \E b \in Boards, k \in Keys : BoardConnects(b, k)
  BY NetworkOrNot DEF netVars, Network, BoardSends, BoardDrops, LinkBreaks
<1> QED BY <1>2, <1>3

(* What a handler has in hand. *)
LEMMA PutFacts ==
  ASSUME FlowInv, NEW c \in Conns, HandlerPut(c)
  PROVE  /\ chunk[c] \in Seq(Sample) /\ chunk[c] # <<>> /\ c \in Started
         /\ Head(chunk[c]) \in Sample /\ Head(chunk[c]).conn = c
         /\ Tail(chunk[c]) \in Seq(Sample)
<1>1. chunk[c] \in Seq(Sample) /\ chunk[c] # <<>> /\ c \in Started
  BY DEF FlowInv, Typed, HandlersTyped, Handling, HandlerPut
<1>2. Head(chunk[c]) = chunk[c][1] /\ 1 \in 1..Len(chunk[c])
  BY <1>1
<1>3. chunk[c][1].conn = c
  BY <1>2 DEF FlowInv, Handling
<1> QED BY <1>1, <1>2, <1>3, HeadTailProperties

(* What the generator takes from the queue. *)
LEMMA GetFacts ==
  ASSUME FlowInv, GenGet
  PROVE  /\ out_q \in Seq(Sample) /\ out_q # <<>>
         /\ item' = Head(out_q) /\ Head(out_q) \in Sample /\ Head(out_q).conn \in Started
         /\ Tail(out_q) \in Seq(Sample) /\ item' # NoItem /\ item'.conn \in 1..Len(made)
         /\ \A i \in 1..Len(Tail(out_q)) : Tail(out_q)[i] = out_q[i + 1] /\ i + 1 \in 1..Len(out_q)
<1>1. out_q \in Seq(Sample) /\ out_q # <<>> /\ item' = Head(out_q)
  BY DEF FlowInv, Typed, HandlersTyped, GenGet
<1>2. Head(out_q) = out_q[1] /\ 1 \in 1..Len(out_q)
  BY <1>1
<1>3. Head(out_q).conn \in Started
  BY <1>2 DEF FlowInv, Origin
<1>4. Head(out_q).conn \in 1..Len(made)
  BY <1>3, StartedAreMade DEF FlowInv
<1>5. item' # NoItem
  BY <1>1, <1>4 DEF NoItem
<1>6. \A i \in 1..Len(Tail(out_q)) : Tail(out_q)[i] = out_q[i + 1] /\ i + 1 \in 1..Len(out_q)
  BY <1>1
<1> QED BY <1>1, <1>3, <1>4, <1>5, <1>6, HeadTailProperties

(* The queue, the item and the samples change one at a time. *)
SamplesMove ==
  \/ UNCHANGED <<out_q, item, samples>>
  \/ \E c \in Conns : HandlerPut(c) /\ UNCHANGED <<item, samples>>
  \/ GenGet /\ UNCHANGED samples
  \/ Continue /\ UNCHANGED <<out_q, samples>>
  \/ Add /\ UNCHANGED <<out_q, item>>
LEMMA SamplesMoveStep == [Next]_vars => SamplesMove
  BY DEF SamplesMove, Next, Main, Handlers, Outside, Expire, Interrupt, vars, recvVars, sessVars, genVars, netVars,
         bookVars, Network, BoardConnects, BoardSends, BoardDrops, LinkBreaks,
         RunGenerator, Generator, GenCheck, GenAccept, GenAcceptTimeout, GenEmpty, GenGet,
         GenClose, GenJoin, GenDone, Handler, HandlerCheck, HandlerRecv, HandlerTimeout, HandlerPut,
         HandlerEof, NextReturns, NextEnds, NewWriter, Add, Count, Continue,
         Break, Except, SetStopEvent, CloseReceiver, JoinStimulus, LeaveFinally,
         CheckWriters, IgnoreSignals, SaveBoard, AllSaved, Manifest, GenResume, GenUnwind,
         GenAbort, SetStop, InterruptBody, InterruptGenerator, InterruptExcept, InterruptStopping

(* Samples keep their connection on the way to a writer. *)
LEMMA OriginStep == FlowInv /\ [Next]_vars => Origin'
<1> SUFFICES ASSUME FlowInv, [Next]_vars PROVE Origin'
  OBVIOUS
<1>0. Typed /\ HandlersTyped /\ MainTyped /\ Origin
  BY DEF FlowInv, Typed
<1>1. Started \subseteq Started' /\ Started \subseteq 1..Len(made)
  BY StartedStays, StartedAreMade DEF FlowInv
<1>2. \A c \in Started : made'[c] = made[c]
  BY <1>0, <1>1, MadeStays
<1>3. CASE UNCHANGED <<out_q, item, samples>>
  BY <1>0, <1>1, <1>2, <1>3 DEF Origin
<1>4. ASSUME NEW c \in Conns, HandlerPut(c), UNCHANGED <<item, samples>> PROVE Origin'
  <2>1. out_q' = Append(out_q, Head(chunk[c]))
    BY <1>4 DEF HandlerPut
  <2>2. Head(chunk[c]) \in Sample /\ Head(chunk[c]).conn \in Started
    BY <1>4, PutFacts
  <2>3. Len(out_q') = Len(out_q) + 1 /\ out_q'[Len(out_q) + 1] = Head(chunk[c])
        /\ \A i \in 1..Len(out_q) : out_q'[i] = out_q[i]
    BY <1>0, <2>1, <2>2, AppendProperties DEF HandlersTyped
  <2>4. \A i \in 1..Len(out_q') : out_q'[i].conn \in Started
    BY <1>0, <2>2, <2>3 DEF Origin, HandlersTyped
  <2> QED BY <1>0, <1>1, <1>2, <1>4, <2>4 DEF Origin
<1>5. ASSUME GenGet, UNCHANGED samples PROVE Origin'
  <2>1. out_q' = Tail(out_q)
    BY <1>5 DEF GenGet
  <2>2. item'.conn \in Started /\ \A i \in 1..Len(out_q') : out_q'[i].conn \in Started
    BY <1>0, <1>5, <2>1, GetFacts DEF Origin
  <2> QED BY <1>0, <1>1, <1>2, <1>5, <2>2 DEF Origin
<1>6. ASSUME Continue, UNCHANGED <<out_q, samples>> PROVE Origin'
  BY <1>0, <1>1, <1>2, <1>6 DEF Origin, Continue, GenResume
<1>7. ASSUME Add, UNCHANGED <<out_q, item>> PROVE Origin'
  <2>1. item # NoItem
    BY <1>7 DEF FlowInv, Control, Hand, Add, Step, Body
  <2>2. item \in Sample /\ key \in Keys /\ item.conn \in Started /\ made[item.conn].peer = key
    BY <1>0, <2>1, KeyFacts DEF Origin, key, Key
  <2>3. samples' = [samples EXCEPT ![key] = Append(@, item)]
    BY <1>7 DEF Add
  <2>4. samples[key] \in Seq(Sample)
    BY <1>0, <2>2 DEF MainTyped
  <2>5. samples'[key] = Append(samples[key], item) /\ \A k \in Keys : k # key => samples'[k] = samples[k]
    BY <1>0, <2>2, <2>3 DEF MainTyped
  <2>6. Len(samples'[key]) = Len(samples[key]) + 1 /\ samples'[key][Len(samples[key]) + 1] = item
        /\ Len(samples[key]) \in Nat /\ \A i \in 1..Len(samples[key]) : samples'[key][i] = samples[key][i]
    BY <2>2, <2>4, <2>5, AppendProperties
  <2>7. ASSUME NEW k \in Keys, NEW i \in 1..Len(samples'[k])
        PROVE  samples'[k][i].conn \in Started /\ made[samples'[k][i].conn].peer = k
    <3>1. CASE k = key /\ i = Len(samples[key]) + 1
      BY <2>2, <2>6, <3>1
    <3>2. CASE k = key /\ i # Len(samples[key]) + 1
      <4>1. i \in 1..Len(samples[key])
        BY <2>6, <2>7, <3>2
      <4> QED BY <1>0, <2>2, <2>6, <3>2, <4>1 DEF Origin
    <3>3. CASE k # key
      BY <1>0, <2>5, <2>7, <3>3 DEF Origin
    <3> QED BY <3>1, <3>2, <3>3
  <2>8. \A k \in Keys : \A i \in 1..Len(samples'[k]) :
          samples'[k][i].conn \in Started' /\ made'[samples'[k][i].conn].peer = k
    BY <1>1, <1>2, <2>7
  <2> QED BY <1>0, <1>1, <1>7, <2>8 DEF Origin
<1> QED BY <1>3, <1>4, <1>5, <1>6, <1>7, SamplesMoveStep DEF SamplesMove

LEMMA ControlStep == FlowInv /\ [Next]_vars => Control'
<1> SUFFICES ASSUME FlowInv, [Next]_vars PROVE Control'
  OBVIOUS
<1>0. Control /\ mainPc \in MainPcs
  BY DEF FlowInv, Typed, MainTyped
<1>1. CASE UNCHANGED <<mainPc, genPc, listening>>
  BY <1>0, <1>1 DEF Control
<1>2. CASE RunGenerator
  BY <1>0, <1>2 DEF Control, RunGenerator, Generator, GenCheck, GenAccept, GenAcceptTimeout, GenEmpty, GenGet,
         GenClose, GenJoin, GenDone, sessVars, Body
<1>3. CASE NextReturns \/ NextEnds \/ NewWriter \/ Add \/ Count \/ Continue \/ Break
  BY <1>0, <1>3 DEF Control, NextReturns, NextEnds, NewWriter, Add, Count, Continue, Break, Step, Body,
         GenResume, recvVars, genVars
<1>4. CASE Except \/ SetStopEvent \/ CloseReceiver \/ JoinStimulus \/ LeaveFinally
  BY <1>0, <1>4 DEF Control, Except, SetStopEvent, CloseReceiver, JoinStimulus, LeaveFinally, Step, Body,
         GenUnwind, SetStop, recvVars, genVars, sessVars
<1>5. CASE CheckWriters \/ IgnoreSignals \/ SaveBoard \/ AllSaved \/ Manifest
  BY <1>0, <1>5 DEF Control, CheckWriters, IgnoreSignals, SaveBoard, AllSaved, Manifest, Step, Body,
         recvVars, genVars
<1>6. ASSUME NEW s \in Signal, Interrupt(s) PROVE Control'
  <2>1. CASE InterruptBody
    BY <1>0, <2>1 DEF Control, InterruptBody, Body, recvVars, genVars
  <2>2. CASE InterruptGenerator
    BY <1>0, <2>2 DEF Control, InterruptGenerator, Body, GenUnwind, GenAbort
  <2>3. CASE InterruptExcept
    BY <1>0, <2>3 DEF Control, InterruptExcept, Step, Body, recvVars, genVars
  <2>4. CASE InterruptStopping(s)
    BY <1>0, <2>4 DEF Control, InterruptStopping, Body, recvVars, genVars
  <2> QED BY <1>6, <2>1, <2>2, <2>3, <2>4 DEF Interrupt
<1>7. \/ UNCHANGED <<mainPc, genPc, listening>> \/ Main \/ \E s \in Signal : Interrupt(s)
  BY DEF Next, Handlers, Outside, Expire, vars, recvVars, sessVars, genVars, netVars,
         Network, BoardConnects, BoardSends, BoardDrops, LinkBreaks,
         Handler, HandlerCheck, HandlerRecv, HandlerTimeout, HandlerPut, HandlerEof
<1> QED BY <1>1, <1>2, <1>3, <1>4, <1>5, <1>6, <1>7 DEF Main

(* What the laptop has of a connection is a sequence of samples, in the order *)
(* of their numbers.                                                        *)
LEMMA HeldTyped ==
  ASSUME FlowInv, NEW c \in 1..Len(made)
  PROVE  /\ made[c].peer \in Keys
         /\ samples[made[c].peer] \in Seq(Sample) /\ InHand \in Seq(Sample)
         /\ out_q \in Seq(Sample) /\ chunk[c] \in Seq(Sample)
         /\ Of(samples[made[c].peer], c) \in Seq(Sample) /\ Of(InHand, c) \in Seq(Sample)
         /\ Of(out_q, c) \in Seq(Sample) /\ c \in Conns
<1>1. made[c] \in Made
  BY DEF FlowInv, Typed, NetTyped
<1>2. made[c].peer \in Keys
  BY <1>1 DEF Made
<1>3. c \in Conns
  BY StartedAreMade DEF FlowInv
<1>4. samples[made[c].peer] \in Seq(Sample)
  BY <1>2 DEF FlowInv, Typed, MainTyped
<1>5. out_q \in Seq(Sample) /\ chunk[c] \in Seq(Sample)
  BY <1>3 DEF FlowInv, Typed, HandlersTyped
<1>6. InHand \in Seq(Sample)
  <2>1. CASE item = NoItem \/ item \in Elems(samples[key])
    BY <2>1, EmptyIsSeq DEF InHand
  <2>2. CASE ~(item = NoItem \/ item \in Elems(samples[key]))
    <3>1. item \in Sample
      BY <2>2 DEF FlowInv, Typed, GenTyped
    <3>2. <<item>> \in Seq(Sample)
      BY <3>1
    <3> QED BY <2>2, <3>2 DEF InHand
  <2> QED BY <2>1, <2>2
<1> QED BY <1>2, <1>3, <1>4, <1>5, <1>6, OfType

(* What was read of a connection has growing numbers. *)
LEMMA PrefixIncreasing ==
  ASSUME FlowInv, NEW c \in Conns
  PROVE  LET p == SubSeq(carried[c], 1, got[c])
         IN  /\ p \in Seq(Sample) /\ Len(p) = got[c]
             /\ \A i \in 1..Len(p) : p[i] = carried[c][i] /\ p[i].seq \in Nat /\ p[i].conn = c
             /\ \A i, j \in 1..Len(p) : i < j => p[i].seq < p[j].seq
<1> DEFINE p == SubSeq(carried[c], 1, got[c])
<1>1. carried[c] \in Seq(Sample) /\ got[c] \in Nat /\ got[c] <= Len(carried[c]) /\ Len(carried[c]) \in Nat
  BY DEF FlowInv, Typed, NetTyped, HandlersTyped, Handling
<1>2. \A i \in 1..got[c] : carried[c][i] \in Sample /\ i \in 1..Len(carried[c])
  BY <1>1, ElementOfSeq
<1>3. p \in Seq(Sample) /\ Len(p) = got[c] /\ \A i \in 1..got[c] : p[i] = carried[c][i]
  <2>1. p \in Seq(Sample)
    BY <1>1, <1>2, SubSeqProperties
  <2>2. Len(p) = got[c]
    BY <1>1
  <2>3. \A i \in 1..got[c] : p[i] = carried[c][i]
    BY <1>1
  <2> QED BY <2>1, <2>2, <2>3
<1> HIDE DEF p
<1>4. \A i \in 1..got[c] : carried[c][i].seq \in Nat
  BY <1>2, BoundsAssumption DEF Sample
<1>5. \A i \in 1..got[c] : carried[c][i].conn = c
  BY <1>2 DEF FlowInv, Numbered
<1>6. \A i, j \in 1..got[c] : i < j => carried[c][i].seq < carried[c][j].seq
  BY <1>2 DEF FlowInv, Numbered
<1>7. \A i \in 1..Len(p) : p[i] = carried[c][i] /\ p[i].seq \in Nat /\ p[i].conn = c
  BY <1>3, <1>4, <1>5
<1>8. \A i, j \in 1..Len(p) : i < j => p[i].seq < p[j].seq
  BY <1>3, <1>6
<1> QED BY <1>3, <1>7, <1>8 DEF p

(* What comes out of the queue is not in its writer yet.                    *)
LEMMA GetIsNew ==
  ASSUME FlowInv, GenGet
  PROVE  Head(out_q) \notin Elems(samples[made[Head(out_q).conn].peer])
<1> DEFINE x == Head(out_q)
           c == x.conn
           k == made[c].peer
<1>1. x \in Sample /\ c \in 1..Len(made) /\ out_q \in Seq(Sample) /\ out_q # <<>>
      /\ Tail(out_q) \in Seq(Sample)
  BY GetFacts
<1> HIDE DEF x, c
<1> SUFFICES ASSUME x \in Elems(samples[k]) PROVE FALSE
  BY DEF x, c
<1> DEFINE A == Of(samples[k], c)
           B == Of(InHand, c)
           C == Of(out_q, c)
           D == chunk[c]
<1>2. A \in Seq(Sample) /\ B \in Seq(Sample) /\ C \in Seq(Sample) /\ D \in Seq(Sample) /\ c \in Conns
      /\ samples[k] \in Seq(Sample)
  BY <1>1, HeldTyped
<1>3. PICK i \in 1..Len(A) : A[i] = x
  <2>1. x \in Elems(A)
    BY <1>2, OfElems DEF c
  <2> HIDE DEF A
  <2> QED BY <2>1 DEF Elems
<1>4. Len(C) > 0 /\ C[1] = x
  <2>1. C = Of(<<x>>, c) \o Of(Tail(out_q), c)
    BY <1>1, OfTail DEF x
  <2>2. Of(<<x>>, c) = <<x>>
    BY <1>1, OfOne DEF c
  <2>3. Of(Tail(out_q), c) \in Seq(Sample)
    BY <1>1, OfType
  <2> QED BY <1>1, <2>1, <2>2, <2>3
<1> HIDE DEF A, B, C, D
<1> DEFINE H == A \o B \o C \o D
           n == Len(A) + Len(B)
<1>5. n \in Nat /\ i \in Nat /\ i < n + 1 /\ n + 1 <= Len(H) /\ Len(H) \in Nat
  BY <1>2, <1>3, <1>4
<1>6. H[i] = A[i]
  <2>1. (A \o B)[i] = A[i] /\ A \o B \in Seq(Sample) /\ i \in 1..Len(A \o B)
    BY <1>2, <1>3
  <2>2. (A \o B \o C)[i] = A[i] /\ A \o B \o C \in Seq(Sample) /\ i \in 1..Len(A \o B \o C)
    BY <1>2, <2>1
  <2> QED BY <1>2, <2>2
<1>7. H[n + 1] = C[1]
  <2>1. Len(A \o B) = n /\ A \o B \in Seq(Sample)
    BY <1>2
  <2>2. (A \o B \o C)[n + 1] = C[1] /\ A \o B \o C \in Seq(Sample) /\ n + 1 \in 1..Len(A \o B \o C)
    BY <1>2, <1>4, <2>1
  <2> QED BY <1>2, <2>2
<1>8. H = SubSeq(carried[c], 1, got[c])
  BY <1>1 DEF FlowInv, NothingLostInside, Held, A, B, C, D
<1> HIDE DEF H, n
<1>9. \A j, m \in 1..Len(H) : j < m => H[j].seq < H[m].seq
  BY <1>2, <1>8, PrefixIncreasing
<1>10. \A j \in 1..Len(H) : H[j].seq \in Nat
  BY <1>2, <1>8, PrefixIncreasing
<1>11. i \in 1..Len(H) /\ n + 1 \in 1..Len(H)
  BY <1>3, <1>5
<1> QED BY <1>3, <1>4, <1>5, <1>6, <1>7, <1>9, <1>10, <1>11, SMTT(30)

(* The item's key stays while the item does. *)
LEMMA KeyStays ==
  ASSUME FlowInv, [Next]_vars, UNCHANGED item, item # NoItem
  PROVE  key' = key /\ key \in Keys
<1>1. item.conn \in 1..Len(made) /\ key \in Keys
  BY KeyFacts
<1>2. made'[item.conn] = made[item.conn]
  BY <1>1, MadeStays DEF FlowInv
<1> QED BY <1>1, <1>2 DEF key, Key

(* The item in hand is added at the end of its writer's samples.            *)
LEMMA AddFacts ==
  ASSUME FlowInv, [Next]_vars, Add
  PROVE  /\ item # NoItem /\ item \in Sample /\ key \in Keys /\ key' = key
         /\ item.conn \in 1..Len(made) /\ item.seq \in 1..MaxSeq
         /\ samples[key] \in Seq(Sample) /\ samples'[key] = Append(samples[key], item)
         /\ \A k \in Keys : k # key => samples'[k] = samples[k]
         /\ item \notin Elems(samples[key]) /\ item \in Elems(samples'[key])
         /\ samples'[key] # <<>> /\ samples'[key][Len(samples'[key])] = item
         /\ item' = item /\ genPc = "yielded"
<1>1. mainPc = "add" /\ item' = item /\ samples' = [samples EXCEPT ![key] = Append(@, item)]
  BY DEF Add, Step, recvVars, genVars
<1>2. genPc = "yielded" /\ item # NoItem /\ item \notin Elems(samples[key])
  BY <1>1 DEF FlowInv, Control, Hand, Body
<1>3. key' = key /\ key \in Keys
  BY <1>1, <1>2, KeyStays
<1>4. item \in Sample /\ item.conn \in 1..Len(made) /\ item.seq \in 1..MaxSeq
  BY <1>2, KeyFacts
<1>5. samples[key] \in Seq(Sample) /\ samples'[key] = Append(samples[key], item)
      /\ \A k \in Keys : k # key => samples'[k] = samples[k]
  BY <1>1, <1>3 DEF FlowInv, Typed, MainTyped
<1>6. samples'[key] \in Seq(Sample) /\ Len(samples'[key]) = Len(samples[key]) + 1 /\ Len(samples[key]) \in Nat
      /\ samples'[key][Len(samples[key]) + 1] = item
  BY <1>4, <1>5, AppendProperties
<1>7. item \in Elems(samples'[key]) /\ samples'[key] # <<>> /\ samples'[key][Len(samples'[key])] = item
  <2>1. Len(samples'[key]) \in 1..Len(samples'[key])
    BY <1>6
  <2>2. samples'[key][Len(samples'[key])] = item
    BY <1>6
  <2>3. samples'[key] # <<>>
    BY <1>6
  <2> QED BY <2>1, <2>2, <2>3 DEF Elems
<1> QED BY <1>1, <1>2, <1>3, <1>4, <1>5, <1>7

(* The item in hand is new until it is added. *)
LEMMA HandStep == FlowInv /\ [Next]_vars => Hand'
<1> SUFFICES ASSUME FlowInv, [Next]_vars PROVE Hand'
  OBVIOUS
<1>0. Control /\ Hand
  BY DEF FlowInv
<1>k. UNCHANGED item /\ item # NoItem => key' = key
  BY KeyStays
<1>1. CASE UNCHANGED <<genPc, item, mainPc, samples>>
  BY <1>0, <1>k, <1>1 DEF Hand, Control, Body
<1>2. CASE /\ UNCHANGED item
           /\ genPc' \in {"close", "join", "closed"}
           /\ mainPc' \notin {"count", "duration"}
  BY <1>2 DEF Hand
<1>3. CASE /\ UNCHANGED <<item, genPc>>
           /\ mainPc' \notin {"next", "newWriter", "add", "count", "duration"}
  BY <1>0, <1>3 DEF Hand
<1>4. CASE GenGet /\ UNCHANGED <<mainPc, samples>> /\ mainPc \notin Body
  <2>1. item' = Head(out_q) /\ item' # NoItem /\ genPc' = "yielded"
    BY <1>4, GetFacts DEF GenGet
  <2>2. key' = made[Head(out_q).conn].peer
    BY <1>4, <2>1 DEF key, Key, GenGet, netVars
  <2>3. Head(out_q) \notin Elems(samples[made[Head(out_q).conn].peer])
    BY <1>4, GetIsNew
  <2>4. item' \notin Elems(samples'[key'])
    BY <1>4, <2>1, <2>2, <2>3
  <2> QED BY <1>4, <2>1, <2>4 DEF Hand, Body, Elems
<1>5. CASE /\ UNCHANGED <<mainPc, item>> /\ mainPc \notin Body
           /\ genPc \in {"top", "accept", "drain"} /\ genPc' \in {"top", "accept", "drain"}
  BY <1>0, <1>5 DEF Hand, Body
<1>6. CASE NextReturns \/ NewWriter
  <2>1. UNCHANGED <<genPc, item, samples>> /\ genPc = "yielded" /\ item # NoItem
        /\ mainPc \in {"next", "newWriter"} /\ mainPc' \in {"newWriter", "add"}
    BY <1>0, <1>6 DEF NextReturns, NewWriter, Step, recvVars, genVars, bookVars, Control, Hand, Body
  <2> QED BY <1>0, <1>k, <2>1 DEF Hand
<1>7. CASE Add
  <2>1. genPc' = "yielded" /\ mainPc' = "count"
    BY <1>7, AddFacts DEF Add, Step, recvVars, genVars
  <2>2. item' # NoItem /\ samples'[key'] # <<>> /\ item' = samples'[key'][Len(samples'[key'])]
    BY <1>7, AddFacts
  <2> QED BY <2>1, <2>2 DEF Hand
<1>8. CASE Count
  <2>1. UNCHANGED <<genPc, item, samples>> /\ genPc = "yielded" /\ item # NoItem
        /\ mainPc = "count" /\ mainPc' = "duration"
    BY <1>0, <1>8 DEF Count, Step, recvVars, genVars, Control, Hand, Body
  <2> QED BY <1>0, <1>k, <2>1 DEF Hand
<1>9. CASE Continue
  BY <1>9 DEF Continue, Step, GenResume, Hand
<1>10. CASE RunGenerator
  <2>1. mainPc \notin Body /\ UNCHANGED <<mainPc, samples>> /\ mainPc \in {"next", "closing"}
    BY <1>10 DEF RunGenerator, Body, sessVars, bookVars
  <2>2. CASE GenGet
    BY <1>4, <2>1, <2>2
  <2>3. CASE GenCheck \/ GenAccept \/ GenAcceptTimeout \/ GenEmpty
    <3>1. \/ genPc' = "close"
          \/ genPc \in {"top", "accept", "drain"} /\ genPc' \in {"top", "accept", "drain"}
      BY <2>3 DEF GenCheck, GenAccept, GenAcceptTimeout, GenEmpty
    <3>2. UNCHANGED item
      BY <2>3 DEF GenCheck, GenAccept, GenAcceptTimeout, GenEmpty
    <3> QED BY <1>2, <1>5, <2>1, <3>1, <3>2 DEF Body
  <2>4. CASE GenClose \/ GenJoin \/ GenDone
    BY <1>2, <2>1, <2>4 DEF GenClose, GenJoin, GenDone
  <2> QED BY <1>10, <2>2, <2>3, <2>4 DEF RunGenerator, Generator
<1>11. CASE NextEnds \/ Break \/ Except \/ SetStopEvent \/ JoinStimulus \/ LeaveFinally
            \/ CheckWriters \/ IgnoreSignals \/ AllSaved \/ Manifest
  BY <1>3, <1>11 DEF NextEnds, Break, Except, SetStopEvent, JoinStimulus, LeaveFinally,
    CheckWriters, IgnoreSignals, AllSaved, Manifest, Step, SetStop, recvVars, genVars
<1>12. CASE CloseReceiver
  BY <1>2, <1>12 DEF CloseReceiver, GenUnwind, sessVars
<1>13. CASE SaveBoard
  BY <1>1, <1>13 DEF SaveBoard, recvVars, genVars, bookVars
<1>14. ASSUME NEW s \in Signal, Interrupt(s) PROVE Hand'
  <2>1. CASE InterruptBody \/ InterruptExcept \/ InterruptStopping(s)
    BY <1>3, <2>1 DEF InterruptBody, InterruptExcept, InterruptStopping, Step, recvVars, genVars
  <2>2. CASE InterruptGenerator
    BY <1>2, <2>2 DEF InterruptGenerator, GenUnwind, GenAbort
  <2> QED BY <1>14, <2>1, <2>2 DEF Interrupt
<1>15. UNCHANGED <<genPc, item, mainPc, samples>> \/ Main \/ \E s \in Signal : Interrupt(s)
  BY DEF Next, Handlers, Outside, Expire, vars, recvVars, sessVars, genVars, netVars, bookVars,
         Network, BoardConnects, BoardSends, BoardDrops, LinkBreaks,
         Handler, HandlerCheck, HandlerRecv, HandlerTimeout, HandlerPut, HandlerEof
<1> QED BY <1>1, <1>6, <1>7, <1>8, <1>9, <1>10, <1>11, <1>12, <1>13, <1>14, <1>15 DEF Main

(* Concatenation may be regrouped. *)
LEMMA ConcatThree ==
  ASSUME NEW S
  PROVE  \A s, t, u \in Seq(S) : s \o (t \o u) = (s \o t) \o u
BY ConcatAssociative, SMTT(30)

LEMMA ConcatSamples ==
  \A s, t, u \in Seq(Sample) : s \o (t \o u) = (s \o t) \o u
BY ConcatThree

(* What is in hand stays while the item and its writer's samples do.         *)
LEMMA InHandStays ==
  ASSUME FlowInv, [Next]_vars, UNCHANGED <<item, samples>>
  PROVE  InHand' = InHand
<1>1. CASE item = NoItem
  BY <1>1 DEF InHand
<1>2. CASE item # NoItem
  <2>1. key' = key
    BY <1>2, KeyStays
  <2> QED BY <2>1 DEF InHand, Elems
<1> QED BY <1>1, <1>2

(* No step loses, doubles or reorders a sample: each moves one from the front *)
(* of a buffer to the end of the next.                                       *)
LEMMA HeldStep == FlowInv /\ [Next]_vars => NothingLostInside'
<1> SUFFICES ASSUME FlowInv, [Next]_vars, NEW c \in 1..Len(made')
             PROVE  Held(c)' = SubSeq(carried[c], 1, got[c])'
  BY DEF NothingLostInside
<1>0. Typed /\ NetTyped /\ HandlersTyped /\ Handling /\ Origin /\ Numbered /\ NothingLostInside
  BY DEF FlowInv, Typed
<1> DEFINE p == made[c].peer
           A == Of(samples[p], c)
           B == Of(InHand, c)
           C == Of(out_q, c)
           D == chunk[c]
<1>h. ASSUME c \in 1..Len(made)
      PROVE  /\ p \in Keys /\ samples[p] \in Seq(Sample) /\ InHand \in Seq(Sample)
             /\ out_q \in Seq(Sample) /\ A \in Seq(Sample) /\ B \in Seq(Sample) /\ C \in Seq(Sample)
             /\ D \in Seq(Sample) /\ c \in Conns
             /\ A \o B \o C \o D = SubSeq(carried[c], 1, got[c])
             /\ made'[c] = made[c]
  <2>1. Held(c) = SubSeq(carried[c], 1, got[c])
    BY <1>0, <1>h DEF NothingLostInside
  <2> QED BY <1>0, <1>h, <2>1, HeldTyped, MadeStays DEF Held
<1>1. CASE UNCHANGED <<made, carried, got, chunk, out_q, item, samples>>
  <2>1. c \in 1..Len(made) /\ UNCHANGED <<item, samples>>
    BY <1>1
  <2>2. InHand' = InHand
    BY <2>1, InHandStays
  <2> QED BY <1>1, <1>h, <2>1, <2>2 DEF Held
<1>2. ASSUME NEW b \in Boards, NEW k \in Keys, BoardConnects(b, k), UNCHANGED samples
      PROVE Held(c)' = SubSeq(carried[c], 1, got[c])'
  <2>1. UNCHANGED <<carried, got, chunk, out_q, item>> /\ Len(made') = Len(made) + 1
    BY <1>0, <1>2 DEF BoardConnects, NetTyped
  <2>2. UNCHANGED samples
    BY <1>2
  <2>3. InHand' = InHand
    BY <2>1, <2>2, InHandStays
  <2>4. CASE c \in 1..Len(made)
    BY <1>h, <2>1, <2>2, <2>3, <2>4 DEF Held
  <2>5. CASE c \notin 1..Len(made)
    <3>1. c \in Conns /\ c > Len(made)
      BY <1>0, <1>2, <2>1, <2>5, BoundsAssumption DEF BoardConnects, NetTyped, Conns
    <3>2. c \notin Started
      BY <1>0, <2>5, StartedAreMade
    <3>3. carried[c] = <<>> /\ got[c] = 0 /\ chunk[c] = <<>>
      <4>1. carried[c] = <<>>
        BY <1>0, <3>1 DEF Numbered
      <4>2. got[c] \in Nat /\ got[c] <= Len(carried[c])
        BY <1>0, <3>1 DEF Handling, HandlersTyped
      <4>3. chunk[c] = <<>>
        BY <1>0, <3>1, <3>2 DEF Handling
      <4> QED BY <4>1, <4>2, <4>3
    <3>4. p' \in Keys /\ samples[p'] \in Seq(Sample) /\ out_q \in Seq(Sample) /\ InHand \in Seq(Sample)
      <4>1. made' \in Seq(Made)
        BY TypedStep DEF Typed, NetTyped
      <4>2. made'[c].peer \in Keys
        <5>1. made'[c] \in Made
          BY <4>1, ElementOfSeq
        <5> QED BY <5>1 DEF Made
      <4>3. samples \in [Keys -> Seq(Sample)] /\ out_q \in Seq(Sample)
        BY <1>0 DEF Typed, HandlersTyped, MainTyped
      <4>4. InHand \in Seq(Sample)
        <5>1. CASE item = NoItem \/ item \in Elems(samples[key])
          BY <5>1, EmptyIsSeq DEF InHand
        <5>2. CASE ~(item = NoItem \/ item \in Elems(samples[key]))
          <6>1. item \in Sample
            BY <1>0, <5>2 DEF Typed, GenTyped
          <6>2. <<item>> \in Seq(Sample)
            BY <6>1
          <6> QED BY <5>2, <6>2 DEF InHand
        <5> QED BY <5>1, <5>2
      <4> QED BY <4>2, <4>3, <4>4
    <3>5. Of(samples[p'], c) = <<>>
      BY <1>0, <3>2, <3>4, OfNone DEF Origin
    <3>6. Of(out_q, c) = <<>>
      BY <1>0, <3>2, <3>4, OfNone DEF Origin
    <3>7. Of(InHand, c) = <<>>
      <4>1. CASE InHand = <<>>
        BY <4>1, OfEmpty
      <4>2. CASE InHand # <<>>
        <5>1. InHand = <<item>> /\ item # NoItem
          BY <4>2 DEF InHand
        <5>2. item \in Sample /\ item.conn # c
          BY <1>0, <3>2, <5>1 DEF Origin, Typed, GenTyped
        <5> QED BY <5>1, <5>2, OfOne
      <4> QED BY <4>1, <4>2
    <3>8. Held(c)' = <<>> \o <<>> \o <<>> \o <<>>
      BY <2>1, <2>2, <2>3, <3>3, <3>5, <3>6, <3>7 DEF Held
    <3>9. <<>> \o <<>> \o <<>> \o <<>> = <<>>
      OBVIOUS
    <3>10. SubSeq(carried[c], 1, got[c])' = <<>>
      BY <2>1, <3>3
    <3> QED BY <3>8, <3>9, <3>10
  <2> QED BY <2>4, <2>5
<1>3. ASSUME NEW b \in Boards, BoardSends(b) \/ LinkBreaks(b), UNCHANGED samples
      PROVE Held(c)' = SubSeq(carried[c], 1, got[c])'
  <2> DEFINE l == link[b]
  <2>1. UNCHANGED <<made, got, chunk, out_q, item>> /\ l # 0
    BY <1>3 DEF BoardSends, LinkBreaks, genVars
  <2>2. UNCHANGED samples
    BY <1>3
  <2>3. InHand' = InHand /\ c \in 1..Len(made)
    BY <2>1, <2>2, InHandStays
  <2>4. Held(c)' = SubSeq(carried[c], 1, got[c])
    BY <1>h, <2>1, <2>2, <2>3 DEF Held
  <2>5. l \in Conns /\ c \in Conns
    BY <1>0, <1>h, <2>1, <2>3, LinkFacts
  <2>6. carried[c] \in Seq(Sample) /\ got[c] \in Nat /\ got[c] <= Len(carried[c]) /\ Len(carried[c]) \in Nat
    BY <1>0, <2>5 DEF NetTyped, HandlersTyped, Handling
  <2> HIDE DEF l
  <2>7. CASE c # l
    <3>1. carried'[c] = carried[c]
      BY <1>0, <1>3, <2>5, <2>7 DEF NetTyped, BoardSends, LinkBreaks, l
    <3> QED BY <2>1, <2>4, <3>1
  <2>8. CASE c = l /\ BoardSends(b)
    <3> DEFINE x == [conn |-> link[b], seq |-> nextSeq[b]]
    <3>1. x \in Sample
      BY <1>0, <2>5, <2>8, BoundsAssumption DEF BoardSends, Sample, NetTyped, l
    <3>2. carried'[c] = Append(carried[c], x)
      BY <1>0, <2>5, <2>8 DEF NetTyped, BoardSends, l
    <3> HIDE DEF x
    <3>3. SubSeq(Append(carried[c], x), 1, got[c]) = SubSeq(carried[c], 1, got[c])
      BY <2>6, <3>1
    <3> QED BY <2>1, <2>4, <3>2, <3>3
  <2>9. CASE c = l /\ LinkBreaks(b)
    <3>1. PICK n \in got[c]..Len(carried[c]) : carried' = [carried EXCEPT ![c] = SubSeq(@, 1, n)]
      BY <2>9 DEF LinkBreaks, l
    <3>2. carried'[c] = SubSeq(carried[c], 1, n)
      BY <1>0, <2>5, <3>1 DEF NetTyped
    <3>3. SubSeq(SubSeq(carried[c], 1, n), 1, got[c]) = SubSeq(carried[c], 1, got[c])
      BY <2>6, <3>1
    <3> QED BY <2>1, <2>4, <3>2, <3>3
  <2> QED BY <1>3, <2>7, <2>8, <2>9
<1>4. ASSUME NEW d \in Conns, HandlerRecv(d), UNCHANGED samples
      PROVE Held(c)' = SubSeq(carried[c], 1, got[c])'
  <2>1. UNCHANGED <<made, carried, out_q, item>> /\ hPc[d] = "recv"
    BY <1>4 DEF HandlerRecv, netVars, genVars
  <2>2. UNCHANGED samples
    BY <1>4
  <2>3. InHand' = InHand /\ c \in 1..Len(made)
    BY <2>1, <2>2, InHandStays
  <2>4. PICK n \in 1..MaxChunk :
            /\ got[d] + n <= Len(carried[d])
            /\ chunk' = [chunk EXCEPT ![d] = SubSeq(carried[d], got[d] + 1, got[d] + n)]
            /\ got' = [got EXCEPT ![d] = @ + n]
    BY <1>4 DEF HandlerRecv
  <2>5. Held(c)' = A \o B \o C \o chunk'[c]
    BY <2>1, <2>2, <2>3 DEF Held
  <2>6. CASE c # d
    <3>1. chunk'[c] = chunk[c] /\ got'[c] = got[c]
      BY <1>0, <1>h, <2>3, <2>4, <2>6 DEF HandlersTyped
    <3> QED BY <1>h, <2>1, <2>3, <2>5, <3>1
  <2>7. CASE c = d
    <3> DEFINE m == got[c] + n
               t == SubSeq(carried[c], got[c] + 1, m)
               g == got[c]
    <3>1. chunk'[c] = t /\ got'[c] = m
      BY <1>0, <1>h, <2>3, <2>4, <2>7 DEF HandlersTyped
    <3>2. D = <<>>
      BY <1>0, <2>1, <2>7 DEF Handling
    <3>3. A \o B \o C = SubSeq(carried[c], 1, g)
      <4>1. A \o B \o C \in Seq(Sample)
        BY <1>h, <2>3, ConcatProperties
      <4> HIDE DEF A, B, C
      <4>2. A \o B \o C \o <<>> = A \o B \o C
        BY <4>1, ConcatEmptySeq
      <4> QED BY <1>h, <2>3, <3>2, <4>2
    <3>4. carried[c] \in Seq(Sample) /\ g \in Nat /\ n \in Nat /\ n >= 1 /\ g + n <= Len(carried[c])
      BY <1>0, <2>4, <2>7, BoundsAssumption DEF NetTyped, HandlersTyped
    <3>5. SubSeq(carried[c], 1, g) \o SubSeq(carried[c], g + 1, g + n) = SubSeq(carried[c], 1, g + n)
      <4> HIDE DEF g
      <4>1. 1 \in 1..Len(carried[c]) + 1 /\ g + 1 \in 1..Len(carried[c]) + 1
            /\ g \in (1 - 1)..Len(carried[c]) /\ g + n \in g..Len(carried[c])
        BY <3>4
      <4> QED BY <3>4, <4>1, ConcatAdjacentSubSeq
    <3>6. A \o B \o C \o t = SubSeq(carried[c], 1, m)
      BY <3>3, <3>5
    <3> HIDE DEF m, t, g, A, B, C
    <3> QED BY <2>1, <2>5, <3>1, <3>6
  <2> QED BY <2>6, <2>7
<1>5. ASSUME NEW d \in Conns, HandlerPut(d), UNCHANGED <<item, samples>>
      PROVE Held(c)' = SubSeq(carried[c], 1, got[c])'
  <2>1. UNCHANGED <<made, carried, got>> /\ out_q' = Append(out_q, Head(chunk[d]))
        /\ chunk' = [chunk EXCEPT ![d] = Tail(@)]
    BY <1>5 DEF HandlerPut, netVars
  <2>2. InHand' = InHand /\ c \in 1..Len(made)
    BY <1>5, <2>1, InHandStays
  <2> DEFINE x == Head(chunk[d])
  <2>3. x \in Sample /\ x.conn = d /\ chunk[d] \in Seq(Sample) /\ chunk[d] # <<>> /\ Tail(chunk[d]) \in Seq(Sample)
    BY <1>5, PutFacts
  <2>4. Of(out_q', c) = IF c = d THEN Append(C, x) ELSE C
    <3>1. out_q \in Seq(Sample) /\ out_q' = Append(out_q, x)
      BY <1>h, <2>1, <2>2
    <3> HIDE DEF x
    <3>2. Of(Append(out_q, x), c) = IF x.conn = c THEN Append(Of(out_q, c), x) ELSE Of(out_q, c)
      BY <2>3, <3>1, OfAppend
    <3> QED BY <2>3, <3>1, <3>2
  <2>5. Held(c)' = A \o B \o Of(out_q', c) \o chunk'[c]
    BY <1>5, <2>1, <2>2 DEF Held
  <2>6. A \o B \in Seq(Sample) /\ C \in Seq(Sample)
    BY <1>h, <2>2, ConcatProperties
  <2> HIDE DEF A, B, C
  <2>7. CASE c # d
    <3>1. chunk'[c] = chunk[c]
      BY <1>0, <1>h, <2>1, <2>2, <2>7 DEF HandlersTyped
    <3> QED BY <1>h, <2>1, <2>2, <2>4, <2>5, <2>7, <3>1
  <2>8. CASE c = d
    <3>1. chunk'[c] = Tail(D)
      BY <1>0, <2>1, <2>8 DEF HandlersTyped
    <3>2. D = <<x>> \o Tail(D) /\ Append(C, x) = C \o <<x>> /\ <<x>> \in Seq(Sample) /\ Tail(D) \in Seq(Sample)
      BY <2>3, <2>6, <2>8
    <3> DEFINE Y == A \o B
               T == Tail(D)
               X == <<x>>
    <3>3. (Y \o (C \o X)) \o T = (Y \o C) \o (X \o T)
      <4> HIDE DEF Y, T, X
      <4>1. Y \in Seq(Sample) /\ T \in Seq(Sample) /\ X \in Seq(Sample) /\ C \in Seq(Sample)
        BY <2>6, <3>2 DEF Y, T, X
      <4>2. Y \o (C \o X) = (Y \o C) \o X
        BY <4>1, ConcatSamples
      <4> DEFINE Z == Y \o C
      <4>3. Z \in Seq(Sample)
        BY <4>1, ConcatProperties
      <4> HIDE DEF Z
      <4>4. (Z \o X) \o T = Z \o (X \o T)
        BY <4>1, <4>3, ConcatSamples
      <4> QED BY <4>2, <4>4 DEF Z
    <3>4. (A \o B \o Append(C, x)) \o Tail(D) = A \o B \o C \o D
      BY <3>2, <3>3
    <3> QED BY <1>h, <2>1, <2>2, <2>4, <2>5, <2>8, <3>1, <3>4
  <2> QED BY <2>7, <2>8
<1>6. ASSUME GenGet, UNCHANGED samples PROVE Held(c)' = SubSeq(carried[c], 1, got[c])'
  <2> DEFINE x == Head(out_q)
  <2>1. UNCHANGED <<made, carried, got, chunk>> /\ out_q' = Tail(out_q) /\ item' = x /\ genPc = "drain"
    BY <1>6 DEF GenGet, netVars
  <2>2. c \in 1..Len(made)
    BY <2>1
  <2>3. x \in Sample /\ x # NoItem /\ out_q \in Seq(Sample) /\ out_q # <<>> /\ Tail(out_q) \in Seq(Sample)
    BY <1>6, <2>1, GetFacts
  <2>4. InHand = <<>>
    BY <2>1 DEF FlowInv, Hand, InHand
  <2>5. InHand' = <<x>>
    <3>1. key' = made[x.conn].peer
      BY <2>1 DEF key, Key
    <3>2. item' \notin Elems(samples'[key'])
      BY <1>6, <2>1, <3>1, GetIsNew
    <3> QED BY <2>1, <2>3, <3>2 DEF InHand, Elems
  <2> DEFINE P == Of(<<x>>, c)
             Q == Of(Tail(out_q), c)
  <2>6. P \in Seq(Sample) /\ Q \in Seq(Sample) /\ C = P \o Q /\ B = <<>>
    <3>1. <<x>> \in Seq(Sample)
      BY <2>3
    <3> QED BY <2>3, <2>4, <3>1, OfType, OfTail, OfEmpty
  <2>7. Held(c)' = A \o P \o Q \o D
    BY <1>6, <2>1, <2>5 DEF Held
  <2>8. A \o <<>> \o (P \o Q) = A \o P \o Q
    <3>1. A \in Seq(Sample)
      BY <1>h, <2>2
    <3> HIDE DEF A, P, Q
    <3>2. A \o <<>> = A
      BY <3>1, ConcatEmptySeq
    <3>3. P \in Seq(Sample) /\ Q \in Seq(Sample)
      BY <2>6
    <3>4. A \o (P \o Q) = A \o P \o Q
      BY <3>1, <3>3, ConcatSamples
    <3> QED BY <3>2, <3>4
  <2>9. A \o P \o Q \o D = SubSeq(carried[c], 1, got[c])
    <3>1. A \o B \o C \o D = SubSeq(carried[c], 1, got[c])
      BY <1>h, <2>2
    <3> HIDE DEF A, B, C, D, P, Q
    <3> QED BY <2>6, <2>8, <3>1
  <2> QED BY <2>1, <2>7, <2>9
<1>7. ASSUME Continue, UNCHANGED <<out_q, samples>> PROVE Held(c)' = SubSeq(carried[c], 1, got[c])'
  <2>1. UNCHANGED <<made, carried, got, chunk>> /\ item' = NoItem /\ mainPc = "duration"
    BY <1>7 DEF Continue, GenResume, Step, netVars
  <2>2. InHand' = <<>>
    BY <2>1 DEF InHand
  <2>3. InHand = <<>>
    <3>1. samples[key] # <<>> /\ item = samples[key][Len(samples[key])] /\ item # NoItem
      BY <2>1 DEF FlowInv, Hand, Control, Body
    <3>2. samples[key] \in Seq(Sample)
      BY <1>0, <3>1, KeyFacts DEF Typed, MainTyped
    <3>3. Len(samples[key]) \in 1..Len(samples[key])
      BY <3>1, <3>2
    <3>4. item \in Elems(samples[key])
      BY <3>1, <3>3 DEF Elems
    <3> QED BY <3>4 DEF InHand
  <2>4. c \in 1..Len(made)
    BY <2>1
  <2> QED BY <1>7, <1>h, <2>1, <2>2, <2>3, <2>4 DEF Held
<1>8. ASSUME Add, UNCHANGED <<out_q, item>> PROVE Held(c)' = SubSeq(carried[c], 1, got[c])'
  <2>1. UNCHANGED <<made, carried, got, chunk>>
    BY <1>8 DEF Add, recvVars, netVars
  <2>2. c \in 1..Len(made)
    BY <2>1
  <2>3. InHand = <<item>> /\ InHand' = <<>> /\ item \in Sample /\ made[item.conn].peer = key
    <3>1. item # NoItem /\ item \notin Elems(samples[key])
      BY <1>8, AddFacts
    <3>2. item' \in Elems(samples[key])'
      <4>1. key' = key /\ item' = item /\ item \in Elems(samples'[key])
        BY <1>8, AddFacts
      <4> QED BY <4>1 DEF Elems
    <3>3. item \in Sample /\ made[item.conn].peer = key
      BY <1>8, AddFacts DEF key, Key
    <3> QED BY <3>1, <3>2, <3>3 DEF InHand
  <2>4. B = IF item.conn = c THEN <<item>> ELSE <<>>
    BY <2>3, OfOne
  <2>5. Of(samples'[p], c) = A \o B
    <3>0. A \in Seq(Sample) /\ A \o <<>> = A
      BY <1>h, <2>2, ConcatEmptySeq
    <3>1. CASE p = key
      <4>1. samples'[p] = Append(samples[p], item)
        BY <1>8, <3>1, AddFacts
      <4>2. Of(samples'[p], c) = IF item.conn = c THEN Append(A, item) ELSE A
        <5>1. samples[p] \in Seq(Sample)
          BY <1>h, <2>2
        <5> DEFINE s == samples[p]
        <5> HIDE DEF s
        <5>2. Of(Append(s, item), c) = IF item.conn = c THEN Append(Of(s, c), item) ELSE Of(s, c)
          BY <2>3, <5>1, OfAppend DEF s
        <5> QED BY <4>1, <5>2 DEF s
      <4>3. Append(A, item) = A \o <<item>>
        BY <2>3, <3>0, AppendIsConcat
      <4> HIDE DEF A, B
      <4> QED BY <2>4, <3>0, <4>2, <4>3
    <3>2. CASE p # key
      <4>1. samples'[p] = samples[p] /\ item.conn # c
        BY <1>h, <1>8, <2>2, <2>3, <3>2, AddFacts
      <4> QED BY <2>4, <3>0, <4>1
    <3> QED BY <3>1, <3>2
  <2>6. Held(c)' = (A \o B) \o <<>> \o C \o D
    BY <1>8, <2>1, <2>3, <2>5, OfEmpty DEF Held
  <2>7. (A \o B) \o <<>> = A \o B
    <3>1. A \o B \in Seq(Sample)
      BY <1>h, <2>2, ConcatProperties
    <3> HIDE DEF A, B
    <3> QED BY <3>1, ConcatEmptySeq
  <2>8. A \o B \o C \o D = SubSeq(carried[c], 1, got[c])
    BY <1>h, <2>2
  <2> HIDE DEF A, B, C, D
  <2> QED BY <2>1, <2>6, <2>7, <2>8
<1>9. \/ UNCHANGED <<made, carried, got, chunk, out_q, item, samples>>
      \/ \E b \in Boards : /\ BoardSends(b) \/ LinkBreaks(b) \/ \E k \in Keys : BoardConnects(b, k)
                          /\ UNCHANGED samples
      \/ \E d \in Conns : HandlerRecv(d) /\ UNCHANGED samples
      \/ \E d \in Conns : HandlerPut(d) /\ UNCHANGED <<item, samples>>
      \/ GenGet /\ UNCHANGED samples
      \/ Continue /\ UNCHANGED <<out_q, samples>>
      \/ Add /\ UNCHANGED <<out_q, item>>
  BY DEF Next, Main, Handlers, Outside, Expire, Interrupt, vars, recvVars, sessVars, genVars, netVars,
         bookVars, Network, BoardDrops, RunGenerator, Generator, GenCheck, GenAccept, GenAcceptTimeout,
         GenEmpty, GenGet, GenClose, GenJoin, GenDone, Handler, HandlerCheck, HandlerTimeout, HandlerPut,
         HandlerEof, NextReturns, NextEnds, NewWriter, Add, Count, Continue,
         Break, Except, SetStopEvent, CloseReceiver, JoinStimulus, LeaveFinally,
         CheckWriters, IgnoreSignals, SaveBoard, AllSaved, Manifest, GenResume, GenUnwind,
         GenAbort, SetStop, InterruptBody, InterruptGenerator, InterruptExcept, InterruptStopping
<1> QED BY <1>1, <1>2, <1>3, <1>4, <1>5, <1>6, <1>7, <1>8, <1>9

LEMMA FlowStep == FlowInv /\ [Next]_vars => FlowInv'
  BY TypedStep, NumberedStep, HandlingStep, OriginStep, ControlStep, HandStep, HeldStep DEF FlowInv

-----------------------------------------------------------------------------
(* Interrupts and saving. *)

(* What one interrupt can do. *)
LEMMA InterruptedStep == FlowInv /\ Interrupted /\ [Next]_vars => Interrupted'
<1> SUFFICES ASSUME FlowInv, Interrupted, [Next]_vars PROVE Interrupted'
  OBVIOUS
<1>0. /\ Control /\ mainPc \in MainPcs /\ signals \in Nat
      /\ saved \in Nat /\ Len(order) \in Nat
  BY SignalsAssumption DEF FlowInv, Typed, MainTyped
<1>e. order = <<>> => Len(order) = 0
  OBVIOUS
<1>1. CASE UNCHANGED <<mainPc, genPc, stop, signals, raising, fatal, saved, order>>
  BY <1>0, <1>1 DEF Interrupted
<1>2. CASE RunGenerator
  BY <1>0, <1>2 DEF Interrupted, RunGenerator, Generator, GenCheck, GenAccept, GenAcceptTimeout, GenEmpty, GenGet,
         GenClose, GenJoin, GenDone, sessVars, bookVars, saveVars, Body
<1>3. CASE NextReturns \/ NextEnds \/ NewWriter \/ Add \/ Count \/ Continue \/ Break
  BY <1>0, <1>3 DEF Interrupted, Control, NextReturns, NextEnds, NewWriter, Add, Count, Continue, Break, Step, Body,
         GenResume, recvVars, genVars, bookVars, saveVars
<1>4. CASE Except \/ SetStopEvent \/ CloseReceiver \/ JoinStimulus \/ LeaveFinally
  BY <1>0, <1>4 DEF Interrupted, Except, SetStopEvent, CloseReceiver, JoinStimulus, LeaveFinally, Step, Body,
         GenUnwind, SetStop, recvVars, genVars, sessVars, bookVars, saveVars
<1>5. CASE CheckWriters \/ IgnoreSignals \/ AllSaved \/ Manifest
  BY <1>0, <1>e, <1>5 DEF Interrupted, CheckWriters, IgnoreSignals, AllSaved, Manifest, Step, Body,
         recvVars, genVars, bookVars, saveVars
<1>6. CASE SaveBoard
  BY <1>0, <1>6 DEF Interrupted, SaveBoard, Body, recvVars, genVars, bookVars
<1>7. ASSUME NEW s \in Signal, Interrupt(s) PROVE Interrupted'
  <2>0. signals' = signals + 1 /\ UNCHANGED <<order, saved>>
    BY <1>7 DEF Interrupt, bookVars, saveVars
  <2>1. CASE InterruptBody
    BY <1>0, <2>0, <2>1 DEF Interrupted, InterruptBody, Body, recvVars, genVars
  <2>2. CASE InterruptGenerator
    BY <1>0, <2>0, <2>2 DEF Interrupted, InterruptGenerator, Body, GenUnwind, GenAbort
  <2>3. CASE InterruptExcept
    BY <1>0, <2>0, <2>3 DEF Interrupted, InterruptExcept, Step, Body, recvVars, genVars
  <2>4. CASE InterruptStopping(s)
    BY <1>0, <1>e, <2>0, <2>4 DEF Interrupted, InterruptStopping, Body, recvVars, genVars
  <2> QED BY <1>7, <2>1, <2>2, <2>3, <2>4 DEF Interrupt
<1>8. \/ UNCHANGED <<mainPc, genPc, stop, signals, raising, fatal, saved, order>> \/ Main
      \/ \E s \in Signal : Interrupt(s)
  BY DEF Next, Handlers, Outside, Expire, vars, recvVars, sessVars, genVars, netVars, bookVars, saveVars,
         Network, BoardConnects, BoardSends, BoardDrops, LinkBreaks,
         Handler, HandlerCheck, HandlerRecv, HandlerTimeout, HandlerPut, HandlerEof
<1> QED BY <1>1, <1>2, <1>3, <1>4, <1>5, <1>6, <1>7, <1>8 DEF Main

(* The books change in three places. *)
BookMove ==
  \/ UNCHANGED <<order, samples, dropped, last_seq>>
  \/ NewWriter \/ Add \/ Count
LEMMA BookMoveStep == [Next]_vars => BookMove
  BY DEF BookMove, Next, Main, Handlers, Outside, Expire, Interrupt, vars, sessVars, bookVars,
         RunGenerator, NextReturns, NextEnds, Continue,
         Break, Except, SetStopEvent, CloseReceiver, JoinStimulus, LeaveFinally,
         CheckWriters, IgnoreSignals, SaveBoard, AllSaved, Manifest

(* Where mainPc goes while samples are booked. *)
LEMMA PcMove ==
  [Next]_vars =>
    /\ mainPc' = "newWriter" => \/ mainPc = "newWriter" /\ UNCHANGED <<item, order>>
                                \/ NextReturns
    /\ mainPc' = "count" => (mainPc = "count" /\ UNCHANGED item) \/ Add
    /\ mainPc = "count" => mainPc' = "count" \/ Count \/ mainPc' \notin Body \cup {"next"}
    /\ mainPc' \in Body \cup {"next"} => mainPc \in Body \cup {"next"}
<1> SUFFICES ASSUME [Next]_vars
    PROVE /\ mainPc' = "newWriter" => \/ mainPc = "newWriter" /\ UNCHANGED <<item, order>>
                                      \/ NextReturns
          /\ mainPc' = "count" => (mainPc = "count" /\ UNCHANGED item) \/ Add
          /\ mainPc = "count" => mainPc' = "count" \/ Count \/ mainPc' \notin Body \cup {"next"}
          /\ mainPc' \in Body \cup {"next"} => mainPc \in Body \cup {"next"}
  OBVIOUS
<1>1. CASE UNCHANGED <<mainPc, item, order>>
  BY <1>1
<1>2. CASE RunGenerator
  BY <1>2 DEF RunGenerator, sessVars, Body
<1>3. CASE NextReturns \/ NextEnds \/ NewWriter \/ Add \/ Count \/ Continue \/ Break
  BY <1>3 DEF NextReturns, NextEnds, NewWriter, Add, Count, Continue, Break, Step, Body
<1>4. CASE Except \/ SetStopEvent \/ CloseReceiver \/ JoinStimulus \/ LeaveFinally
           \/ CheckWriters \/ IgnoreSignals \/ AllSaved \/ Manifest
  BY <1>4 DEF Except, SetStopEvent, CloseReceiver, JoinStimulus, LeaveFinally,
     CheckWriters, IgnoreSignals, AllSaved, Manifest, Step, Body, sessVars
<1>5. CASE SaveBoard
  BY <1>1, <1>5 DEF SaveBoard, recvVars, genVars, bookVars
<1>6. ASSUME NEW s \in Signal, Interrupt(s)
      PROVE  /\ mainPc' \notin Body /\ (mainPc' = "next" => mainPc = "next")
             /\ mainPc = "count" => mainPc' # "next"
  BY <1>6 DEF Interrupt, InterruptBody, InterruptGenerator, InterruptExcept, InterruptStopping, Step, Body
<1>7. \/ UNCHANGED <<mainPc, item, order>> \/ Main \/ \E s \in Signal : Interrupt(s)
  BY DEF Next, Handlers, Outside, Expire, vars, recvVars, sessVars, genVars, netVars, bookVars, saveVars,
         Network, BoardConnects, BoardSends, BoardDrops, LinkBreaks,
         Handler, HandlerCheck, HandlerRecv, HandlerTimeout, HandlerPut, HandlerEof
<1> QED BY <1>1, <1>2, <1>3, <1>4, <1>5, <1>6, <1>7 DEF Main, Body

(* No key gets a second writer. *)
LEMMA WritersStep == FlowInv /\ Writers /\ [Next]_vars => Writers'
<1> SUFFICES ASSUME FlowInv, Writers, [Next]_vars PROVE Writers'
  OBVIOUS
<1>1. order \in Seq(Keys)
  BY DEF FlowInv, Typed, MainTyped
<1>2. mainPc = "newWriter" => item # NoItem /\ key \in Keys
  BY KeyFacts DEF FlowInv, Control, Hand, Body
<1>3. \A i, j \in 1..Len(order') : order'[i] = order'[j] => i = j
  <2>1. CASE UNCHANGED order
    BY <2>1 DEF Writers
  <2>2. CASE NewWriter
    <3>1. order' = Append(order, key) /\ key \in Keys /\ key \notin Elems(order)
      BY <1>2, <2>2 DEF NewWriter, Step, Writers
    <3>2. Len(order') = Len(order) + 1 /\ order'[Len(order) + 1] = key /\ Len(order) \in Nat
          /\ \A i \in 1..Len(order) : order'[i] = order[i]
      BY <1>1, <3>1, AppendProperties
    <3>3. \A i \in 1..Len(order) : order[i] # key
      BY <3>1 DEF Elems
    <3>4. \A i, j \in 1..Len(order) : order[i] = order[j] => i = j
      BY DEF Writers
    <3>5. \A i \in 1..Len(order') : i \in 1..Len(order) \/ i = Len(order) + 1
      BY <3>2
    <3> QED BY <3>2, <3>3, <3>4, <3>5
  <2>3. UNCHANGED order \/ NewWriter
    BY BookMoveStep DEF BookMove, Add, Count
  <2> QED BY <2>1, <2>2, <2>3
<1>4. mainPc' = "newWriter" => key' \notin Elems(order')
  <2>1. ASSUME mainPc = "newWriter", UNCHANGED <<item, order>> PROVE key' \notin Elems(order')
    <3>1. key' = key
      BY <1>2, <2>1, KeyStays
    <3> QED BY <2>1, <3>1 DEF Writers, Elems
  <2>2. ASSUME NextReturns, mainPc' = "newWriter" PROVE key' \notin Elems(order')
    BY <2>2 DEF NextReturns, Step, recvVars, genVars, netVars, bookVars, key, Key
  <2> QED BY <2>1, <2>2, PcMove
<1> QED BY <1>3, <1>4 DEF Writers, Elems

-----------------------------------------------------------------------------
(* The samples of a writer with one connection are a prefix of what that      *)
(* connection carried, so their numbers increase.                            *)
LEMMA SoleIncreasing ==
  ASSUME FlowInv, NEW k \in Keys, Sole(k)
  PROVE  \A i, j \in 1..Len(samples[k]) : i < j => samples[k][i].seq < samples[k][j].seq
<1> SUFFICES ASSUME NEW i \in 1..Len(samples[k]), NEW j \in 1..Len(samples[k]), i < j
             PROVE  samples[k][i].seq < samples[k][j].seq
  OBVIOUS
<1> DEFINE c == samples[k][i].conn
           s == samples[k]
<1>1. c \in Started /\ made[c].peer = k /\ c \in 1..Len(made)
  BY StartedAreMade DEF FlowInv, Origin
<1>2. \A m \in 1..Len(samples[k]) : samples[k][m].conn = c
  BY <1>1 DEF FlowInv, Origin, Sole
<1>3. s \in Seq(Sample)
  BY DEF FlowInv, Typed, MainTyped
<1>4. Of(s, c) = s
  BY <1>2, <1>3, OfAll
<1> DEFINE B == Of(InHand, c)
           C == Of(out_q, c)
           D == chunk[c]
<1>5. B \in Seq(Sample) /\ C \in Seq(Sample) /\ D \in Seq(Sample) /\ c \in Conns
  BY <1>1, HeldTyped
<1>6. s \o B \o C \o D = SubSeq(carried[c], 1, got[c])
  <2>1. Held(c) = SubSeq(carried[c], 1, got[c])
    BY <1>1 DEF FlowInv, NothingLostInside
  <2> QED BY <1>1, <1>4, <2>1 DEF Held
<1>7. i \in 1..Len(s) /\ j \in 1..Len(s)
  OBVIOUS
<1> HIDE DEF B, C, D, c, s
<1> DEFINE H == s \o B \o C \o D
<1>8. \A m \in 1..Len(s) : H[m] = s[m] /\ m \in 1..Len(H)
  <2>1. s \o B \in Seq(Sample) /\ \A m \in 1..Len(s) : (s \o B)[m] = s[m] /\ m \in 1..Len(s \o B)
    BY <1>3, <1>5
  <2> DEFINE T == s \o B
  <2> HIDE DEF T
  <2>2. T \o C \in Seq(Sample) /\ \A m \in 1..Len(T) : (T \o C)[m] = T[m] /\ m \in 1..Len(T \o C)
    BY <1>5, <2>1 DEF T
  <2> DEFINE U == T \o C
  <2> HIDE DEF U
  <2>3. \A m \in 1..Len(U) : (U \o D)[m] = U[m] /\ m \in 1..Len(U \o D)
    BY <1>5, <2>2 DEF U
  <2> QED BY <2>1, <2>2, <2>3 DEF T, U
<1> HIDE DEF H
<1>9. \A m, n \in 1..Len(H) : m < n => H[m].seq < H[n].seq
  BY <1>5, <1>6, PrefixIncreasing DEF H
<1>10. s[i].seq < s[j].seq
  BY <1>7, <1>8, <1>9
<1> QED BY <1>10 DEF s

(* A key with one connection had no more before. *)
LEMMA SoleStays == ASSUME FlowInv, [Next]_vars, NEW k, Sole(k)' PROVE Sole(k)
<1>1. Started \subseteq Started' /\ \A c \in Started : made'[c] = made[c]
  BY StartedStays, StartedAreMade, MadeStays DEF FlowInv
<1> QED BY <1>1 DEF Sole

(* The count of one writer. *)
GapCount(k) ==
  LET n == Counted(k)
  IN  IF n = 0 THEN last_seq[k] = 0 /\ dropped[k] = 0
      ELSE /\ last_seq[k] = samples[k][n].seq
           /\ dropped[k] = last_seq[k] - samples[k][1].seq + 1 - n

(* Each sample counted adds its gap. *)
LEMMA GapsStep == FlowInv /\ Gaps /\ [Next]_vars => Gaps'
<1> SUFFICES ASSUME FlowInv, Gaps, [Next]_vars, mainPc' \in Body \cup {"next"}, NEW k \in Keys, Sole(k)'
             PROVE  GapCount(k)'
  BY DEF Gaps, GapCount, Counted
<1>0. mainPc \in Body \cup {"next"} /\ Sole(k)
  BY PcMove, SoleStays
<1>1. GapCount(k)
  BY <1>0 DEF Gaps, GapCount
<1>2. samples[k] \in Seq(Sample) /\ Len(samples[k]) \in Nat
  BY DEF FlowInv, Typed, MainTyped
<1>3. mainPc = "count" => item # NoItem /\ key \in Keys
  BY KeyFacts DEF FlowInv, Control, Hand, Body
<1>4. CASE UNCHANGED <<samples, dropped, last_seq>> /\ ~Count /\ ~Add
  <2>1. mainPc' = "count" <=> mainPc = "count"
    BY <1>4, PcMove
  <2>2. mainPc' = "count" => key' = key
    BY <1>3, <1>4, <2>1, PcMove, KeyStays
  <2>3. Counted(k)' = Counted(k)
    BY <1>4, <2>1, <2>2 DEF Counted
  <2> QED BY <1>1, <1>4, <2>3 DEF GapCount
<1>5. CASE Add
  <2>1. mainPc = "add" /\ mainPc' = "count" /\ UNCHANGED <<dropped, last_seq>>
    BY <1>5 DEF Add, Step
  <2>2. CASE k = key
    <3>1. samples'[k] = Append(samples[k], item) /\ key' = k /\ item \in Sample
      BY <1>5, <2>2, AddFacts
    <3>2. Len(samples'[k]) = Len(samples[k]) + 1 /\ \A i \in 1..Len(samples[k]) : samples'[k][i] = samples[k][i]
      BY <1>2, <3>1, AppendProperties
    <3>3. Counted(k)' = Len(samples[k]) /\ Counted(k) = Len(samples[k])
      BY <1>2, <2>1, <3>1, <3>2 DEF Counted
    <3>4. Len(samples[k]) # 0 => samples'[k][1] = samples[k][1]
                                 /\ samples'[k][Len(samples[k])] = samples[k][Len(samples[k])]
      BY <1>2, <3>2
    <3> QED BY <1>1, <2>1, <3>3, <3>4 DEF GapCount
  <2>3. CASE k # key
    <3>1. samples'[k] = samples[k] /\ key' = key
      BY <1>5, <2>3, AddFacts
    <3>2. Counted(k)' = Counted(k)
      BY <2>1, <2>3, <3>1 DEF Counted
    <3> QED BY <1>1, <2>1, <3>1, <3>2 DEF GapCount
  <2> QED BY <2>2, <2>3
<1>6. CASE Count
  <2>1. mainPc = "count" /\ mainPc' = "duration" /\ UNCHANGED samples
        /\ dropped' = [dropped EXCEPT ![key] =
                   IF last_seq[key] # 0 /\ item.seq > last_seq[key] + 1
                     THEN @ + (item.seq - last_seq[key] - 1) ELSE @]
        /\ last_seq' = [last_seq EXCEPT ![key] = item.seq]
    BY <1>6 DEF Count, Step
  <2>2. Counted(k)' = Len(samples[k])
    BY <2>1 DEF Counted
  <2>3. dropped \in [Keys -> Nat] /\ last_seq \in [Keys -> 0..MaxSeq]
    BY DEF FlowInv, Typed, MainTyped
  <2>4. CASE k # key
    <3>1. Counted(k) = Len(samples[k]) /\ dropped'[k] = dropped[k] /\ last_seq'[k] = last_seq[k]
      BY <1>3, <2>1, <2>3, <2>4 DEF Counted
    <3> QED BY <1>1, <2>1, <2>2, <3>1 DEF GapCount
  <2>5. CASE k = key
    <3> DEFINE n == Len(samples[k]) - 1
               s == samples[k]
               q == item.seq
    <3>1. s # <<>> /\ item = s[Len(s)]
      BY <2>1, <2>5 DEF FlowInv, Hand
    <3>2. n \in Nat /\ Len(s) = n + 1 /\ item = s[n + 1]
      BY <1>2, <3>1
    <3>3. Counted(k) = n /\ Counted(k)' = n + 1
      BY <1>2, <2>1, <2>2, <2>5 DEF Counted
    <3>4. q \in Nat /\ q # 0
      BY <1>3, <2>1, KeyFacts, BoundsAssumption
    <3>5. last_seq'[k] = q
      BY <2>1, <2>3, <2>5
    <3>6. dropped'[k] = IF last_seq[k] # 0 /\ q > last_seq[k] + 1
                          THEN dropped[k] + (q - last_seq[k] - 1) ELSE dropped[k]
      BY <2>1, <2>3, <2>5
    <3>7. last_seq[k] \in Nat /\ dropped[k] \in Nat
      BY <2>3, BoundsAssumption
    <3>8. \A i \in 1..Len(s) : s[i].seq \in Nat /\ s[i].seq # 0
      <4>1. \A i \in 1..Len(s) : s[i] \in Sample
        BY <1>2, ElementOfSeq
      <4> QED BY <4>1, BoundsAssumption DEF Sample
    <3>9. \A i, j \in 1..Len(s) : i < j => s[i].seq < s[j].seq
      BY <1>0, SoleIncreasing
    <3> SUFFICES last_seq'[k] = s[n + 1].seq /\ dropped'[k] = last_seq'[k] - s[1].seq + 1 - (n + 1)
      BY <2>1, <3>2, <3>3 DEF GapCount
    <3>10. last_seq'[k] = s[n + 1].seq
      BY <3>2, <3>5
    <3> HIDE DEF n, q, s
    <3>11. CASE n = 0
      <4>1. last_seq[k] = 0 /\ dropped[k] = 0
        BY <1>1, <3>3, <3>11 DEF GapCount
      <4>2. s[1].seq = q
        BY <3>2, <3>11 DEF q
      <4>3. dropped'[k] = 0 /\ last_seq'[k] = q
        BY <3>5, <3>6, <4>1
      <4>4. dropped'[k] = last_seq'[k] - s[1].seq + 1 - (n + 1)
        BY <3>4, <3>11, <4>2, <4>3
      <4> QED BY <3>10, <4>4
    <3>12. CASE n # 0
      <4>1. last_seq[k] = s[n].seq /\ dropped[k] = last_seq[k] - s[1].seq + 1 - n
        BY <1>1, <3>3, <3>12 DEF GapCount, s
      <4>2. n \in 1..Len(s) /\ n + 1 \in 1..Len(s) /\ 1 \in 1..Len(s) /\ n < n + 1
        BY <3>2, <3>12
      <4>3. s[n].seq < q /\ s[n].seq \in Nat /\ s[n].seq # 0 /\ s[1].seq \in Nat
        BY <3>2, <3>8, <3>9, <4>2 DEF q
      <4>4. dropped'[k] = dropped[k] + (q - last_seq[k] - 1)
        BY <3>4, <3>6, <3>7, <4>1, <4>3
      <4>5. dropped'[k] = (s[n].seq - s[1].seq + 1 - n) + (q - s[n].seq - 1)
        BY <4>1, <4>4
      <4>6. dropped'[k] = last_seq'[k] - s[1].seq + 1 - (n + 1)
        BY <3>2, <3>4, <3>5, <4>3, <4>5
      <4> QED BY <3>10, <4>6
    <3> QED BY <3>11, <3>12
  <2> QED BY <2>4, <2>5
<1>7. (UNCHANGED <<samples, dropped, last_seq>> /\ ~Count /\ ~Add) \/ Add \/ Count
  BY BookMoveStep DEF BookMove, NewWriter
<1> QED BY <1>4, <1>5, <1>6, <1>7

-----------------------------------------------------------------------------
(* The files. *)

(* Two writers get the same tag only where MayShare says so: MAC addresses of  *)
(* two boards keep apart without their colons.                               *)
LEMMA SharedTag ==
  ASSUME Typed, NEW k \in Keys, NEW l \in Keys, NEW n, n \in BoardTag(k), n \in BoardTag(l)
  PROVE  MayShare(k, l)
<1>1. \A c \in 1..Len(made) : made[c].board \in Boards
  <2>1. \A c \in 1..Len(made) : made[c] \in Made
    BY ElementOfSeq DEF Typed, NetTyped
  <2> QED BY <2>1 DEF Made
<1>2. CASE n = Tag[k] \/ n = Tag[l]
  BY <1>2 DEF BoardTag, MayShare, AlikeTags
<1>3. CASE n # Tag[k] /\ n # Tag[l]
  <2>1. PICK c \in 1..Len(made) : made[c].peer = k /\ n = Tag[made[c].board]
    BY <1>3 DEF BoardTag, MacTags
  <2>2. PICK d \in 1..Len(made) : made[d].peer = l /\ n = Tag[made[d].board]
    BY <1>3 DEF BoardTag, MacTags
  <2>3. made[c].board = made[d].board
    BY <1>1, <2>1, <2>2, MacTagsAssumption
  <2> QED BY <2>1, <2>2, <2>3 DEF MayShare, OneBoard
<1> QED BY <1>2, <1>3

(* While files are saved nothing else that they depend on moves.            *)
LEMMA SavedMove ==
  ASSUME FlowInv, Interrupted, [Next]_vars, saved # 0
  PROVE  /\ UNCHANGED <<made, samples, order>>
         /\ UNCHANGED <<files, saved>> \/ SaveBoard
<1>1. mainPc \in {"saving", "manifest", "ended"}
  BY DEF Interrupted
<1>2. ~listening /\ mainPc \notin Body
  BY <1>1 DEF FlowInv, Control, Body
<1>3. UNCHANGED made
  <2>1. CASE Network
    BY <1>2, <2>1 DEF Network, BoardConnects, BoardSends, BoardDrops, LinkBreaks
  <2>2. CASE UNCHANGED netVars
    BY <2>2 DEF netVars
  <2> QED BY <2>1, <2>2, NetworkOrNot
<1>4. UNCHANGED <<samples, order>>
  BY <1>2, BookMoveStep DEF BookMove, NewWriter, Add, Count, Step, Body
<1>5. UNCHANGED <<files, saved>> \/ SaveBoard
  BY DEF Next, Main, Handlers, Outside, Expire, Interrupt, vars, sessVars, saveVars,
         RunGenerator, NextReturns, NextEnds, NewWriter, Add, Count, Continue,
         Break, Except, SetStopEvent, CloseReceiver, JoinStimulus, LeaveFinally,
         CheckWriters, IgnoreSignals, AllSaved, Manifest
<1> QED BY <1>3, <1>4, <1>5

(* A file, once written, stays, or another that may have its name replaces it. *)
LEMMA FiledStep == FlowInv /\ Interrupted /\ Writers /\ Filed /\ [Next]_vars => Filed'
<1> SUFFICES ASSUME FlowInv, Interrupted, Writers, Filed, [Next]_vars, NEW i \in 1..saved'
             PROVE  SavedFile(i)' \/ (\E j \in (i + 1)..saved : MayShare(order[i], order[j]))'
  BY DEF Filed
<1>0. Typed /\ order \in Seq(Keys) /\ saved \in 0..Len(order) /\ Len(order) \in Nat
  BY DEF FlowInv, Typed, MainTyped
<1>1. CASE UNCHANGED <<files, saved>>
  <2>1. saved # 0 /\ UNCHANGED <<made, samples, order>>
    BY <1>0, <1>1, SavedMove
  <2>2. SavedFile(i) \/ \E j \in (i + 1)..saved : MayShare(order[i], order[j])
    BY <1>1 DEF Filed
  <2> QED BY <1>1, <2>1, <2>2 DEF SavedFile, FileNames, BoardTag, MacTags, MayShare, OneBoard, AlikeTags
<1>2. CASE SaveBoard
  <2> DEFINE k == order[saved + 1]
  <2>1. PICK n \in FileNames(k) :
          files' = [m \in DOMAIN files \cup {n} |-> IF m = n THEN samples[k] ELSE files[m]]
    BY <1>2 DEF SaveBoard
  <2>2. UNCHANGED <<made, samples, order>> /\ saved' = saved + 1 /\ saved + 1 \in 1..Len(order)
    BY <1>0, <1>2 DEF SaveBoard, recvVars, netVars, bookVars
  <2>3. \A k1, k2 \in Keys : MayShare(k1, k2)' = MayShare(k1, k2)
    BY <2>2 DEF MayShare, OneBoard, AlikeTags, MacTags
  <2>4. FileNames(order[i])' = FileNames(order[i])
    BY <2>2 DEF FileNames, BoardTag, MacTags
  <2>5. CASE i = saved + 1
    <3>1. n \in DOMAIN files' /\ files'[n] = samples[k]
      BY <2>1
    <3> QED BY <2>2, <2>4, <2>5, <3>1 DEF SavedFile
  <2>6. CASE i # saved + 1
    <3>1. i \in 1..saved /\ i \in 1..Len(order)
      BY <1>0, <2>2, <2>6
    <3>2. order[i] \in Keys /\ k \in Keys /\ \A j \in 1..Len(order) : order[j] \in Keys
      BY <1>0, <2>2, <3>1, ElementOfSeq
    <3>3. CASE \E j \in (i + 1)..saved : MayShare(order[i], order[j])
      <4>1. PICK j \in (i + 1)..saved : MayShare(order[i], order[j])
        BY <3>3
      <4>2. j \in (i + 1)..saved' /\ j \in 1..Len(order)
        BY <1>0, <2>2, <3>1, <4>1
      <4>3. MayShare(order[i], order[j])'
        BY <2>2, <2>3, <3>2, <4>1, <4>2
      <4> QED BY <4>2, <4>3
    <3>4. CASE SavedFile(i)
      <4>1. PICK m \in FileNames(order[i]) : m \in DOMAIN files /\ files[m] = samples[order[i]]
        BY <3>4 DEF SavedFile
      <4>2. CASE m # n
        <5>1. m \in DOMAIN files' /\ files'[m] = samples[order[i]]
          BY <2>1, <4>1, <4>2
        <5> QED BY <2>2, <2>4, <4>1, <5>1 DEF SavedFile
      <4>3. CASE m = n
        <5>1. Len(order) # 1
          BY <1>0, <2>2, <3>1
        <5>2. m \in BoardTag(order[i]) /\ m \in BoardTag(k)
          BY <4>1, <4>3, <5>1, <2>1 DEF FileNames
        <5>3. MayShare(order[i], k)
          BY <1>0, <3>2, <5>2, SharedTag
        <5>4. saved + 1 \in (i + 1)..saved' /\ order' = order
          BY <1>0, <2>2, <3>1
        <5>5. PICK j \in (i + 1)..saved' : j = saved + 1 /\ order'[j] = k
          BY <5>4
        <5>6. MayShare(order[i], order[j])'
          BY <2>2, <2>3, <3>2, <5>3, <5>4, <5>5
        <5> QED BY <5>5, <5>6
      <4> QED BY <4>2, <4>3
    <3> QED BY <3>1, <3>3, <3>4 DEF Filed
  <2> QED BY <2>5, <2>6
<1>3. CASE saved = 0 /\ ~SaveBoard
  <2>1. UNCHANGED <<files, saved>>
    BY <1>3 DEF Next, Main, Handlers, Outside, Expire, Interrupt, vars, sessVars, saveVars,
         RunGenerator, NextReturns, NextEnds, NewWriter, Add, Count, Continue,
         Break, Except, SetStopEvent, CloseReceiver, JoinStimulus, LeaveFinally,
         CheckWriters, IgnoreSignals, AllSaved, Manifest
  <2> QED BY <1>1, <2>1
<1> QED BY <1>1, <1>2, <1>3, SavedMove

-----------------------------------------------------------------------------
(* The inductive invariant, and what it gives.                              *)

(* IInv is inductive. *)
LEMMA IInvStep == IInv /\ [Next]_vars => IInv'
  BY FlowStep, InterruptedStep, WritersStep, GapsStep, FiledStep DEF IInv

LEMMA IInvTypeOK == IInv => TypeOK
<1> SUFFICES ASSUME IInv PROVE TypeOK
  OBVIOUS
<1>0. NetTyped /\ HandlersTyped /\ GenTyped /\ MainTyped /\ Handling
  BY DEF IInv, FlowInv, Typed
<1>1. /\ link \in [Boards -> 0..MaxConns] /\ nextSeq \in [Boards -> 1..(MaxSeq + 1)]
      /\ Len(made) <= MaxConns /\ Elems(made) \subseteq [board : Boards, peer : Keys]
  <2>1. 0..Len(made) \subseteq 0..MaxConns /\ Len(made) <= MaxConns
    BY <1>0, BoundsAssumption DEF NetTyped
  <2>2. link \in [Boards -> 0..MaxConns]
    BY <1>0, <2>1 DEF NetTyped
  <2>3. Elems(made) \subseteq Made
    BY <1>0, ElementOfSeq DEF NetTyped, Elems
  <2> QED BY <1>0, <2>1, <2>2, <2>3 DEF NetTyped, Made
<1>2. ASSUME NEW c \in Conns
      PROVE  /\ Elems(carried[c]) \subseteq Sample
             /\ Elems(chunk[c]) \subseteq Sample
             /\ got[c] \in 0..Len(carried[c])
  <2>1. carried[c] \in Seq(Sample) /\ chunk[c] \in Seq(Sample)
    BY <1>0, <1>2 DEF NetTyped, HandlersTyped
  <2>2. got[c] \in 0..Len(carried[c])
    BY <1>0, <1>2, <2>1 DEF HandlersTyped, Handling
  <2> QED BY <2>1, <2>2, ElementOfSeq DEF Elems
<1>3. /\ end \in [Conns -> {"open", "ended", "silent"}]
      /\ hPc \in [Conns -> {"none", "check", "recv", "put", "done"}]
  BY <1>0 DEF NetTyped, HandlersTyped, HandlerPcs
<1>4. Elems(backlog) \cup Elems(threads) \subseteq 1..Len(made)
  BY <1>0, ElementOfSeq DEF GenTyped, Elems
<1>5. Elems(out_q) \subseteq Sample /\ item \in Sample \cup {NoItem}
  BY <1>0, ElementOfSeq DEF GenTyped, HandlersTyped, Elems
<1>6. /\ genPc \in {"top", "accept", "drain", "yielded", "close", "join", "closed"}
      /\ joined \in 0..Len(threads) /\ {listening, stop, raising, fatal, expired} \subseteq BOOLEAN
  BY <1>0 DEF GenTyped, MainTyped, GenPcs
<1>7. mainPc \in Body \cup {"next", "except", "finally", "closing", "stimulus", "check",
                           "ignoreInt", "ignoreTerm", "saving", "manifest", "ended", "dead"}
  BY <1>0 DEF MainTyped, MainPcs
<1>8. Elems(order) \subseteq Keys /\ \A k \in Keys : Elems(samples[k]) \subseteq Sample
  <2>1. Elems(order) \subseteq Keys
    BY <1>0, ElementOfSeq DEF MainTyped, Elems
  <2>2. ASSUME NEW k \in Keys PROVE Elems(samples[k]) \subseteq Sample
    <3>1. samples[k] \in Seq(Sample)
      BY <1>0, <2>2 DEF MainTyped
    <3> QED BY <3>1, ElementOfSeq DEF Elems
  <2> QED BY <2>1, <2>2
<1>9. /\ dropped \in [Keys -> Nat] /\ last_seq \in [Keys -> 0..MaxSeq]
      /\ signals \in 0..MaxSignals /\ saved \in 0..Len(order)
  BY <1>0 DEF MainTyped
<1> QED BY <1>1, <1>2, <1>3, <1>4, <1>5, <1>6, <1>7, <1>8, <1>9 DEF TypeOK

(* One connection by cardinality. *)
LEMMA OneConnectionSole ==
  ASSUME Typed, NEW k, OneConnection(k) PROVE Sole(k)
<1> DEFINE S == {c \in Elems(threads) : made[c].peer = k}
<1>1. IsFiniteSet(S)
  <2>1. IsFiniteSet(1..Len(made))
    BY FS_Interval DEF Typed, NetTyped
  <2>2. S \subseteq 1..Len(made)
    BY StartedAreMade DEF Started
  <2> QED BY <2>1, <2>2, FS_Subset
<1>2. Cardinality(S) = 1
  BY DEF OneConnection
<1>3. \E x : S = {x}
  BY <1>1, <1>2, FS_Singleton
<1> QED BY <1>3 DEF Sole, Started

LEMMA IInvDrops == IInv => DropsAreGaps
<1> SUFFICES ASSUME IInv, NEW k \in Elems(order), OneConnection(k), samples[k] # <<>>,
                    mainPc \in {"next", "duration"}
             PROVE  dropped[k] = Missing(k)
  BY DEF DropsAreGaps, DroppedExact
<1>1. k \in Keys /\ samples[k] \in Seq(Sample)
  BY ElementOfSeq DEF IInv, FlowInv, Typed, MainTyped, Elems
<1>2. Sole(k)
  BY OneConnectionSole DEF IInv, FlowInv
<1>3. GapCount(k)
  BY <1>1, <1>2 DEF IInv, Gaps, GapCount, Body
<1>4. Counted(k) = Len(samples[k]) /\ Len(samples[k]) # 0
  BY <1>1 DEF Counted
<1> QED BY <1>3, <1>4 DEF GapCount, Missing

LEMMA IInvSaved == IInv => EverythingSaved
<1> SUFFICES ASSUME IInv, mainPc = "ended", NEW i \in 1..Len(order)
             PROVE  HasFile(order[i]) \/ \E j \in (i + 1)..Len(order) : MayShare(order[i], order[j])
  BY DEF EverythingSaved
<1>1. saved = Len(order)
  BY DEF IInv, Interrupted
<1>2. SavedFile(i) \/ \E j \in (i + 1)..Len(order) : MayShare(order[i], order[j])
  BY <1>1 DEF IInv, Filed
<1> QED BY <1>2 DEF SavedFile, HasFile

LEMMA IInvOne == IInv => OneInterruptSaves
  BY DEF IInv, Interrupted, OneInterruptSaves

(* The strengthening of the four theorems below holds of every run.          *)
THEOREM Invariance == Spec => []IInv
<1> QED BY InitIInv, IInvStep, PTL DEF Spec

(* StreamIntact: nothing is lost, doubled or reordered between the bytes a    *)
(* handler took and the writers' samples.                                   *)
THEOREM StreamIntactCorrect == Spec => []StreamIntact
<1>1. IInv => StreamIntact
  BY IInvTypeOK DEF IInv, FlowInv, StreamIntact
<1> QED BY <1>1, Invariance, PTL

(* DropsAreGaps: the count of dropped frames is the count of gaps.           *)
THEOREM DropsAreGapsCorrect == Spec => []DropsAreGaps
  BY IInvDrops, Invariance, PTL

(* OneInterruptSaves: a first signal costs nothing that was collected.       *)
THEOREM OneInterruptSavesCorrect == Spec => []OneInterruptSaves
  BY IInvOne, Invariance, PTL

(* EverythingSaved: at a normal end every writer's samples are in a file, but  *)
(* where a later writer may have got the same name.                           *)
THEOREM EverythingSavedCorrect == Spec => []EverythingSaved
  BY IInvSaved, Invariance, PTL

====
