-------------------------- MODULE StreamFramerProofs --------------------------
(***************************************************************************)
(* The framer finds what the stream holds, for any bytes, any size of the    *)
(* pieces read, of the header and of the tail that is kept.                  *)
(*                                                                         *)
(* That what was found is the reading of what was read is not inductive: while *)
(* there is something in the buffer it is less, and what comes next decides    *)
(* what the last bytes mean.  The invariant (ReadSoFar) looks ahead: however   *)
(* much of the stream is looked at, its reading is what was found and then the *)
(* reading from where the buffer begins.                                     *)
(***************************************************************************)
EXTENDS StreamFramer, SequenceTheorems, WellFoundedInduction, TLAPS

(* A set of natural numbers has a least one.                                *)
LEMMA NatMinimum ==
  ASSUME NEW S, S \subseteq Nat, S # {}
  PROVE  \E x \in S : \A y \in S : x <= y
<1> DEFINE Below == {ss \in Nat \X Nat : ss[1] < ss[2]}
<1>1. IsWellFoundedOn(Below, Nat) BY NatLessThanWellFounded DEF OpToRel
<1>2. PICK n \in S : \A m \in S : <<m, n>> \notin Below
  <2> HIDE DEF Below
  <2> QED BY <1>1, WFMin
<1>3. \A m \in S : ~(m < n)
  BY <1>2
<1> QED BY <1>3

(* Induction on the natural numbers, with a set for the predicate.            *)
LEMMA NatSet ==
  ASSUME NEW T, 0 \in T, \A n \in Nat : n \in T => n + 1 \in T
  PROVE  Nat \subseteq T
<1> SUFFICES ASSUME Nat \ T # {} PROVE FALSE
  OBVIOUS
<1>1. PICK n \in Nat \ T : \A m \in Nat \ T : n <= m
  BY NatMinimum
<1>2. n # 0 /\ n - 1 \in Nat
  OBVIOUS
<1>3. n - 1 \in T
  BY <1>1, <1>2
<1> QED BY <1>2, <1>3

(* First is the least element.                                             *)
LEMMA FirstLeast ==
  ASSUME NEW S, S \subseteq Nat, S # {}
  PROVE  First(S) \in S /\ \A j \in S : First(S) <= j
<1>1. \E i \in S : \A j \in S : i <= j
  BY NatMinimum
<1> QED BY <1>1 DEF First

(* First is the element with nothing below it.                             *)
LEMMA FirstIs ==
  ASSUME NEW S, S \subseteq Nat, NEW i \in S, \A j \in S : i <= j
  PROVE  First(S) = i
<1>1. PICK m \in S : m = First(S) /\ \A j \in S : m <= j
  BY FirstLeast
<1>2. m <= i /\ i <= m /\ m \in Nat /\ i \in Nat
  BY <1>1
<1> QED BY <1>1, <1>2

-----------------------------------------------------------------------------
(* The reading of a stream *)

(* What a reading returns, and that of nothing.                             *)
Result == [frames : Seq(Seq(Byte)), texts : Seq(Seq(Byte))]
Empty == Found(<<>>, <<>>)

(* A piece of a byte sequence.                                             *)
LEMMA SubSeqBytes ==
  ASSUME NEW s \in Seq(Byte), NEW m \in Nat \ {0}, NEW n \in Int, n <= Len(s)
  PROVE  /\ SubSeq(s, m, n) \in Seq(Byte)
         /\ Len(SubSeq(s, m, n)) = IF m <= n THEN n - m + 1 ELSE 0
         /\ \A i \in 1 .. n - m + 1 : SubSeq(s, m, n)[i] = s[m + i - 1]
<1>1. \A i \in m .. n : s[i] \in Byte
  BY ElementOfSeq
<1> QED BY <1>1, SubSeqProperties

(* The c bytes after the first a.                                           *)
LEMMA PieceOf ==
  ASSUME NEW s \in Seq(Byte), NEW a \in Nat, NEW c \in Nat, a + c <= Len(s)
  PROVE  /\ SubSeq(s, a + 1, a + c) \in Seq(Byte)
         /\ Len(SubSeq(s, a + 1, a + c)) = c
         /\ \A i \in 1 .. c : SubSeq(s, a + 1, a + c)[i] = s[a + i]
<1>1. PICK m \in Nat \ {0}, n \in Int : m = a + 1 /\ n = a + c
  OBVIOUS
<1>2. n - m + 1 = c /\ (m <= n <=> c # 0) /\ \A i \in 1 .. c : m + i - 1 = a + i
  BY <1>1
<1>3. SubSeq(s, m, n) \in Seq(Byte) /\ Len(SubSeq(s, m, n)) = IF m <= n THEN n - m + 1 ELSE 0
  BY <1>1, SubSeqBytes
<1>4. \A i \in 1 .. c : SubSeq(s, m, n)[i] = s[m + i - 1]
  <2>1. \A i \in 1 .. n - m + 1 : SubSeq(s, m, n)[i] = s[m + i - 1]
    BY <1>1, SubSeqBytes
  <2> QED BY <1>2, <2>1
<1>5. Len(SubSeq(s, m, n)) = c
  BY <1>2, <1>3
<1>6. \A i \in 1 .. c : SubSeq(s, m, n)[i] = s[a + i]
  BY <1>2, <1>4
<1> QED BY <1>1, <1>3, <1>5, <1>6

(* Readings are put together as one would expect.                           *)
LEMMA FoundTyped ==
  ASSUME NEW f \in Seq(Seq(Byte)), NEW x \in Seq(Seq(Byte))
  PROVE  Found(f, x) \in Result /\ Found(f, x).frames = f /\ Found(f, x).texts = x
BY DEF Found, Result

(* Nothing found is a result.                                             *)
LEMMA EmptyTyped == Empty \in Result /\ Empty.frames = <<>> /\ Empty.texts = <<>>
<1>1. <<>> \in Seq(Seq(Byte)) OBVIOUS
<1> QED BY <1>1, FoundTyped DEF Empty

(* Two results joined are a result.                                        *)
LEMMA JoinTyped ==
  ASSUME NEW a \in Result, NEW b \in Result
  PROVE  /\ Join(a, b) \in Result
         /\ Join(a, b).frames = a.frames \o b.frames
         /\ Join(a, b).texts = a.texts \o b.texts
<1>1. /\ a.frames \in Seq(Seq(Byte)) /\ b.frames \in Seq(Seq(Byte))
      /\ a.texts \in Seq(Seq(Byte)) /\ b.texts \in Seq(Seq(Byte))
  BY DEF Result
<1> DEFINE f == a.frames \o b.frames
           x == a.texts \o b.texts
<1>2. f \in Seq(Seq(Byte)) /\ x \in Seq(Seq(Byte))
  BY <1>1, ConcatProperties
<1>3. Join(a, b) = Found(f, x)
  BY DEF Join
<1> HIDE DEF f, x
<1>4. Join(a, b) \in Result /\ Join(a, b).frames = f /\ Join(a, b).texts = x
  BY <1>2, <1>3, FoundTyped
<1> QED BY <1>4 DEF f, x

(* To join nothing changes nothing.                                        *)
LEMMA JoinEmpty ==
  ASSUME NEW a \in Result
  PROVE  Join(Empty, a) = a /\ Join(a, Empty) = a
<1>1. a.frames \in Seq(Seq(Byte)) /\ a.texts \in Seq(Seq(Byte)) /\ a = Found(a.frames, a.texts)
  BY DEF Result, Found
<1>2. /\ <<>> \o a.frames = a.frames /\ a.frames \o <<>> = a.frames
      /\ <<>> \o a.texts = a.texts /\ a.texts \o <<>> = a.texts
  BY <1>1, ConcatEmptySeq
<1> QED BY <1>1, <1>2, EmptyTyped DEF Join

(* How three results are grouped makes no difference.                      *)
LEMMA JoinAssociative ==
  ASSUME NEW a \in Result, NEW b \in Result, NEW c \in Result
  PROVE  Join(Join(a, b), c) = Join(a, Join(b, c))
<1>0. PICK T : T = Seq(Byte)
  OBVIOUS
<1>a. \A x, y, z \in Seq(T) : (x \o y) \o z = x \o (y \o z)
  BY ConcatAssociative
<1>1. PICK a1 \in Seq(T), b1 \in Seq(T), c1 \in Seq(T) :
        a1 = a.frames /\ b1 = b.frames /\ c1 = c.frames
  BY <1>0 DEF Result
<1>2. (a1 \o b1) \o c1 = a1 \o (b1 \o c1)
  BY <1>a, ZenonT(30)
<1>3. PICK a2 \in Seq(T), b2 \in Seq(T), c2 \in Seq(T) :
        a2 = a.texts /\ b2 = b.texts /\ c2 = c.texts
  BY <1>0 DEF Result
<1>4. (a2 \o b2) \o c2 = a2 \o (b2 \o c2)
  BY <1>a, SMTT(30)
<1>5. Join(Join(a, b), c) = Found((a1 \o b1) \o c1, (a2 \o b2) \o c2)
  BY <1>1, <1>3, JoinTyped DEF Join
<1>6. Join(a, Join(b, c)) = Found(a1 \o (b1 \o c1), a2 \o (b2 \o c2))
  BY <1>1, <1>3, JoinTyped DEF Join
<1> QED BY <1>2, <1>4, <1>5, <1>6

(* A frame ends after its header.                                          *)
LEMMA FrameEndIs ==
  ASSUME NEW s \in Seq(Byte), NEW i \in 1 .. Len(s), HeaderFits(s, i)
  PROVE  /\ i + HeaderSize - 1 \in i .. Len(s)
         /\ FrameEnd(s, i) \in Nat /\ FrameEnd(s, i) >= i + HeaderSize - 1
<1>1. i + HeaderSize - 1 \in 1 .. Len(s) /\ HeaderSize - 1 \in Nat
  BY SizesAssumption DEF HeaderFits
<1>2. PICK c \in 0 .. 255 : c = s[i + HeaderSize - 1]
  BY <1>1, ElementOfSeq DEF Byte
<1>3. FrameEnd(s, i) = (i + HeaderSize - 1) + c
  BY <1>2 DEF FrameEnd
<1>4. FrameEnd(s, i) \in Nat /\ FrameEnd(s, i) >= i + HeaderSize - 1
  BY <1>1, <1>3
<1>5. i + HeaderSize - 1 >= i
  BY <1>1
<1> QED BY <1>1, <1>4, <1>5

(* A line, a frame, a piece that was cut: at most one of them is at a place. *)
LEMMA OneKind ==
  ASSUME NEW s \in Seq(Byte), NEW i \in 1 .. Len(s)
  PROVE  /\ LineAt(s, i) => ~FrameAt(s, i) /\ ~CutAt(s, i)
         /\ FrameAt(s, i) => ~LineAt(s, i) /\ ~CutAt(s, i)
         /\ CutAt(s, i) => ~LineAt(s, i) /\ ~FrameAt(s, i)
<1>1. s[i] = Hash => ~MagicAt(s, i) /\ ~HeaderFits(s, i)
  BY DEF Hash, MAGIC, MagicAt, HeaderFits
<1>2. HeaderFits(s, i) => MagicAt(s, i)
  BY DEF HeaderFits
<1>3. FrameAt(s, i) => HeaderFits(s, i) /\ FrameEnd(s, i) <= Len(s)
  BY DEF FrameAt
<1>4. LineAt(s, i) => s[i] = Hash /\ LineEnds(s, i) # {}
  BY DEF LineAt
<1>5. CutAt(s, i) => \/ s[i] = Hash /\ LineEnds(s, i) = {}
                     \/ MagicAt(s, i) /\ ~HeaderFits(s, i)
                     \/ HeaderFits(s, i) /\ ~(FrameEnd(s, i) <= Len(s))
  <2>1. CASE HeaderFits(s, i)
    <3>1. FrameEnd(s, i) \in Nat
      BY <2>1, FrameEndIs
    <3> QED BY <3>1 DEF CutAt
  <2> QED BY <2>1 DEF CutAt
<1> QED BY <1>1, <1>2, <1>3, <1>4, <1>5

(* The next place is further on, at most one past the end.                  *)
LEMMA NextFurther ==
  ASSUME NEW s \in Seq(Byte), NEW i \in 1 .. Len(s)
  PROVE  NextAt(s, i) \in (i + 1) .. (Len(s) + 1)
<1>1. CASE LineAt(s, i)
  <2>1. LineEnds(s, i) \subseteq Nat /\ LineEnds(s, i) # {}
    BY <1>1 DEF LineEnds, LineAt
  <2>2. First(LineEnds(s, i)) \in LineEnds(s, i)
    BY <2>1, FirstLeast
  <2>3. First(LineEnds(s, i)) \in i .. Len(s)
    BY <2>2 DEF LineEnds
  <2>4. NextAt(s, i) = First(LineEnds(s, i)) + 1
    BY <1>1, OneKind DEF NextAt
  <2> QED BY <2>3, <2>4
<1>2. CASE ~LineAt(s, i) /\ FrameAt(s, i)
  <2>1. HeaderFits(s, i) /\ FrameEnd(s, i) <= Len(s)
    BY <1>2 DEF FrameAt
  <2>3. FrameEnd(s, i) \in i .. Len(s)
    BY <2>1, FrameEndIs
  <2>4. NextAt(s, i) = FrameEnd(s, i) + 1
    BY <1>2, OneKind DEF NextAt
  <2> QED BY <2>3, <2>4
<1>3. CASE ~LineAt(s, i) /\ ~FrameAt(s, i) /\ CutAt(s, i)
  BY <1>3 DEF NextAt
<1>4. CASE ~LineAt(s, i) /\ ~FrameAt(s, i) /\ ~CutAt(s, i)
  BY <1>4 DEF NextAt
<1> QED BY <1>1, <1>2, <1>3, <1>4

(* What is found at a place.                                               *)
LEMMA FoundAtTyped ==
  ASSUME NEW s \in Seq(Byte), NEW i \in 1 .. Len(s)
  PROVE  FoundAt(s, i) \in Result
<1>0. <<>> \in Seq(Seq(Byte)) /\ \A x \in Seq(Byte) : <<x>> \in Seq(Seq(Byte))
  OBVIOUS
<1>1. CASE LineAt(s, i)
  <2>1. LineEnds(s, i) \subseteq Nat /\ LineEnds(s, i) # {}
    BY <1>1 DEF LineEnds, LineAt
  <2>2. First(LineEnds(s, i)) \in LineEnds(s, i)
    BY <2>1, FirstLeast
  <2>3. First(LineEnds(s, i)) \in i .. Len(s)
    BY <2>2 DEF LineEnds
  <2> DEFINE x == SubSeq(s, i, First(LineEnds(s, i)) - 1)
  <2>4. x \in Seq(Byte)
    BY <2>3, SubSeqBytes
  <2>5. FoundAt(s, i) = Found(<<>>, <<x>>)
    BY <1>1, OneKind DEF FoundAt
  <2> HIDE DEF x
  <2>6. <<x>> \in Seq(Seq(Byte))
    BY <1>0, <2>4
  <2> QED BY <1>0, <2>5, <2>6, FoundTyped
<1>2. CASE ~LineAt(s, i) /\ FrameAt(s, i)
  <2>1. HeaderFits(s, i) /\ FrameEnd(s, i) <= Len(s)
    BY <1>2 DEF FrameAt
  <2>3. FrameEnd(s, i) \in i .. Len(s)
    BY <2>1, FrameEndIs
  <2> DEFINE x == SubSeq(s, i + HeaderSize, FrameEnd(s, i))
  <2>4. x \in Seq(Byte)
    BY <2>3, SubSeqBytes, SizesAssumption
  <2>5. FoundAt(s, i) = Found(<<x>>, <<>>)
    BY <1>2 DEF FoundAt
  <2> HIDE DEF x
  <2>6. <<x>> \in Seq(Seq(Byte))
    BY <1>0, <2>4
  <2> QED BY <1>0, <2>5, <2>6, FoundTyped
<1>3. CASE ~LineAt(s, i) /\ ~FrameAt(s, i)
  <2>1. FoundAt(s, i) = Empty
    BY <1>3 DEF FoundAt, Empty
  <2> QED BY <2>1, EmptyTyped
<1> QED BY <1>1, <1>2, <1>3

(* What the recursion asks of the readings at i.                           *)
ReadsAt(f, s, i) ==
  f[i] = IF i > Len(s) THEN Empty ELSE Join(FoundAt(s, i), f[NextAt(s, i)])

(* The recursion has a solution: from the end of s back to its beginning.     *)
LEMMA ReadingsExist ==
  ASSUME NEW s \in Seq(Byte)
  PROVE  \E f \in [1 .. Len(s) + 1 -> Result] : \A i \in 1 .. Len(s) + 1 : ReadsAt(f, s, i)
<1> DEFINE N == Len(s)
           Fits(f, k) == \A i \in (N + 1 - k) .. (N + 1) : ReadsAt(f, s, i)
           T == {k \in Nat : k <= N => \E f \in [1 .. N + 1 -> Result] : Fits(f, k)}
<1>0. N \in Nat
  BY LenProperties
<1>1. 0 \in T
  <2> DEFINE f == [i \in 1 .. N + 1 |-> Empty]
  <2>1. f \in [1 .. N + 1 -> Result]
    BY EmptyTyped
  <2>2. ReadsAt(f, s, N + 1)
    BY <1>0 DEF ReadsAt
  <2>3. Fits(f, 0)
    <3>1. \A i \in (N + 1 - 0) .. (N + 1) : i = N + 1
      BY <1>0
    <3> HIDE DEF f, N
    <3> QED BY <2>2, <3>1
  <2> HIDE DEF f, Fits
  <2> QED BY <2>1, <2>3
<1>2. ASSUME NEW k \in Nat, k \in T PROVE k + 1 \in T
  <2> SUFFICES ASSUME k + 1 <= N PROVE \E f \in [1 .. N + 1 -> Result] : Fits(f, k + 1)
    OBVIOUS
  <2>1. PICK f \in [1 .. N + 1 -> Result] : Fits(f, k)
    BY <1>0, <1>2
  <2>2. PICK i \in 1 .. N : i = N - k
    BY <1>0
  <2>3. PICK x \in Result : x = Join(FoundAt(s, i), f[NextAt(s, i)])
    <3>1. NextAt(s, i) \in 1 .. N + 1
      BY NextFurther
    <3>2. f[NextAt(s, i)] \in Result
      BY <2>1, <3>1
    <3> QED BY <3>2, FoundAtTyped, JoinTyped
  <2> DEFINE g == [f EXCEPT ![i] = x]
  <2>4. g \in [1 .. N + 1 -> Result] /\ g[i] = x /\ \A j \in 1 .. N + 1 : j # i => g[j] = f[j]
    BY <1>0
  <2>5. ASSUME NEW j \in (N + 1 - (k + 1)) .. (N + 1) PROVE ReadsAt(g, s, j)
    <3> HIDE DEF g
    <3>1. CASE j = i
      <4>1. NextAt(s, i) \in (i + 1) .. N + 1
        BY NextFurther
      <4>2. NextAt(s, i) \in 1 .. N + 1 /\ NextAt(s, i) # i
        BY <4>1, <1>0
      <4>3. g[NextAt(s, i)] = f[NextAt(s, i)]
        BY <2>4, <4>2
      <4>4. ~(i > Len(s))
        BY <2>2
      <4> QED BY <2>3, <2>4, <3>1, <4>3, <4>4 DEF ReadsAt
    <3>2. CASE j # i /\ j <= N
      <4>1. j \in (N + 1 - k) .. (N + 1) /\ j \in 1 .. N /\ j > i
        BY <1>0, <2>2, <3>2
      <4>2. ReadsAt(f, s, j)
        BY <2>1, <4>1
      <4>3. NextAt(s, j) \in (j + 1) .. N + 1
        BY <4>1, NextFurther
      <4>4. NextAt(s, j) \in 1 .. N + 1 /\ NextAt(s, j) # i
        BY <4>1, <4>3, <1>0
      <4>5. g[NextAt(s, j)] = f[NextAt(s, j)] /\ g[j] = f[j]
        BY <2>4, <4>4, <4>1, <1>0
      <4> QED BY <4>2, <4>5 DEF ReadsAt
    <3>3. CASE j # i /\ j = N + 1
      <4>1. j \in (N + 1 - k) .. (N + 1)
        BY <1>0, <3>3
      <4>2. ReadsAt(f, s, j)
        BY <2>1, <4>1
      <4>3. g[j] = f[j] /\ j > Len(s)
        BY <2>4, <3>3, <1>0
      <4> QED BY <4>2, <4>3 DEF ReadsAt
    <3>4. j <= N \/ j = N + 1
      BY <1>0
    <3> QED BY <3>1, <3>2, <3>3, <3>4
  <2>6. Fits(g, k + 1)
    BY <2>5
  <2> HIDE DEF g, Fits
  <2> QED BY <2>4, <2>6
<1>3. N \in T
  <2> HIDE DEF T
  <2> QED BY <1>0, <1>1, <1>2, NatSet
<1>4. PICK f \in [1 .. N + 1 -> Result] : Fits(f, N)
  BY <1>0, <1>3
<1>5. \A i \in 1 .. N + 1 : i \in (N + 1 - N) .. (N + 1)
  BY <1>0
<1> QED BY <1>4, <1>5

(* Readings has the values its recursion gives it.                          *)
LEMMA ReadingsAre ==
  ASSUME NEW s \in Seq(Byte)
  PROVE  /\ Readings(s) \in [1 .. Len(s) + 1 -> Result]
         /\ \A i \in 1 .. Len(s) : Readings(s)[i] = Join(FoundAt(s, i), Readings(s)[NextAt(s, i)])
         /\ Readings(s)[Len(s) + 1] = Empty
<1> DEFINE N == Len(s)
           Body(f) == [i \in 1 .. (N + 1) |->
                         IF i > N THEN Found(<<>>, <<>>) ELSE Join(FoundAt(s, i), f[NextAt(s, i)])]
<1>0. N \in Nat
  BY LenProperties
<1>1. \E f : f = Body(f)
  <2>1. PICK f \in [1 .. N + 1 -> Result] : \A i \in 1 .. N + 1 : ReadsAt(f, s, i)
    BY ReadingsExist
  <2>2. \A i \in 1 .. N + 1 : f[i] = Body(f)[i]
    BY <2>1 DEF ReadsAt, Empty
  <2>3. f = [i \in 1 .. N + 1 |-> f[i]]
    OBVIOUS
  <2>4. f = Body(f)
    BY <2>2, <2>3
  <2> QED BY <2>4
<1>2. Readings(s) = CHOOSE f : f = Body(f)
  BY DEF Readings
<1> DEFINE R == Readings(s)
<1>3. R = Body(R)
  <2> HIDE DEF Body
  <2> QED BY <1>1, <1>2
<1> HIDE DEF R
<1>4. \A i \in 1 .. N + 1 : ReadsAt(R, s, i)
  BY <1>3 DEF ReadsAt, Empty
<1>5. DOMAIN R = 1 .. N + 1 /\ R = [i \in 1 .. N + 1 |-> R[i]]
  BY <1>3
<1> DEFINE T == {k \in Nat : k <= N => \A i \in (N + 1 - k) .. (N + 1) : R[i] \in Result}
<1>6. 0 \in T
  <2>1. N + 1 > Len(s) /\ N + 1 \in 1 .. N + 1
    BY <1>0
  <2>2. R[N + 1] \in Result
    BY <1>4, <2>1, EmptyTyped DEF ReadsAt
  <2> QED BY <1>0, <2>2
<1>7. ASSUME NEW k \in Nat, k \in T PROVE k + 1 \in T
  <2> SUFFICES ASSUME k + 1 <= N, NEW i \in (N + 1 - (k + 1)) .. (N + 1) PROVE R[i] \in Result
    OBVIOUS
  <2>1. \A j \in (N + 1 - k) .. (N + 1) : R[j] \in Result
    BY <1>0, <1>7
  <2>2. CASE i = N - k
    <3>1. i \in 1 .. N /\ ~(i > Len(s)) /\ i \in 1 .. N + 1
      BY <1>0, <2>2
    <3>2. NextAt(s, i) \in (i + 1) .. (N + 1)
      BY <3>1, NextFurther
    <3>3. R[NextAt(s, i)] \in Result
      BY <2>1, <2>2, <3>2
    <3>4. R[i] = Join(FoundAt(s, i), R[NextAt(s, i)])
      BY <1>4, <3>1 DEF ReadsAt
    <3>5. FoundAt(s, i) \in Result
      BY <3>1, FoundAtTyped
    <3>6. Join(FoundAt(s, i), R[NextAt(s, i)]) \in Result
      BY <3>3, <3>5, JoinTyped
    <3> QED BY <3>4, <3>6
  <2>3. CASE i # N - k
    BY <1>0, <2>1, <2>3
  <2> QED BY <2>2, <2>3
<1>8. N \in T
  <2> HIDE DEF T
  <2> QED BY <1>0, <1>6, <1>7, NatSet
<1>9. \A i \in 1 .. N + 1 : R[i] \in Result
  BY <1>0, <1>8
<1>10. R \in [1 .. N + 1 -> Result]
  <2> HIDE DEF N
  <2> QED BY <1>5, <1>9
<1>11. \A i \in 1 .. N : R[i] = Join(FoundAt(s, i), R[NextAt(s, i)])
  BY <1>0, <1>4 DEF ReadsAt
<1>12. R[N + 1] = Empty
  BY <1>0, <1>4 DEF ReadsAt
<1> QED BY <1>10, <1>11, <1>12 DEF R

-----------------------------------------------------------------------------
(* The buffer and the stream *)

(* t is a part of s: what follows its first b bytes.                         *)
Part(t, s, b) ==
  /\ t \in Seq(Byte) /\ s \in Seq(Byte) /\ b \in Nat
  /\ b + Len(t) <= Len(s)
  /\ \A i \in 1 .. Len(t) : t[i] = s[b + i]

(* Its bytes.                                                              *)
LEMMA PartFacts ==
  ASSUME NEW t, NEW s, NEW b, Part(t, s, b)
  PROVE  /\ t \in Seq(Byte) /\ s \in Seq(Byte) /\ b \in Nat /\ Len(t) \in Nat /\ Len(s) \in Nat
         /\ b + Len(t) <= Len(s)
         /\ \A i \in 1 .. Len(t) : t[i] = s[b + i] /\ b + i \in 1 .. Len(s) /\ s[b + i] \in Byte
<1>1. /\ t \in Seq(Byte) /\ s \in Seq(Byte) /\ b \in Nat
      /\ b + Len(t) <= Len(s)
      /\ \A i \in 1 .. Len(t) : t[i] = s[b + i]
  BY DEF Part
<1>2. Len(t) \in Nat /\ Len(s) \in Nat
  BY <1>1, LenProperties
<1>3. ASSUME NEW i \in 1 .. Len(t) PROVE b + i \in 1 .. Len(s) /\ s[b + i] \in Byte
  <2>1. b + i \in 1 .. Len(s)
    BY <1>1, <1>2
  <2> QED BY <1>1, <2>1, ElementOfSeq
<1> QED BY <1>1, <1>2, <1>3

(* A magic is read off the part where it is whole.                          *)
LEMMA PartMagic ==
  ASSUME NEW t, NEW s, NEW b, Part(t, s, b), NEW i \in Nat \ {0}, i < Len(t)
  PROVE  MagicAt(t, i) <=> MagicAt(s, b + i)
<1>1. i \in 1 .. Len(t) /\ i + 1 \in 1 .. Len(t) /\ b + i < Len(s) /\ b + (i + 1) = (b + i) + 1
  BY PartFacts
<1>2. t[i] = s[b + i] /\ t[i + 1] = s[(b + i) + 1]
  BY <1>1, PartFacts
<1> QED BY <1>1, <1>2 DEF MagicAt

(* Where nothing begins the next byte is looked at.                         *)
LEMMA NothingHere ==
  ASSUME NEW s \in Seq(Byte), NEW i \in 1 .. Len(s),
         ~LineAt(s, i), ~FrameAt(s, i), ~CutAt(s, i)
  PROVE  Readings(s)[i] = Readings(s)[i + 1]
<1>1. NextAt(s, i) = i + 1 /\ FoundAt(s, i) = Empty
  BY DEF NextAt, FoundAt, Empty
<1>2. Readings(s)[i] = Join(Empty, Readings(s)[i + 1])
  BY <1>1, ReadingsAre
<1>3. Readings(s)[i + 1] \in Result
  <2>1. i + 1 \in 1 .. Len(s) + 1
    BY LenProperties
  <2> QED BY <2>1, ReadingsAre
<1> QED BY <1>2, <1>3, JoinEmpty

(* No "#" and no magic: nothing begins.                                    *)
LEMMA JunkHere ==
  ASSUME NEW s \in Seq(Byte), NEW i \in 1 .. Len(s), s[i] # Hash, ~MagicAt(s, i)
  PROVE  Readings(s)[i] = Readings(s)[i + 1]
<1>1. ~LineAt(s, i) /\ ~FrameAt(s, i) /\ ~CutAt(s, i)
  BY DEF LineAt, FrameAt, CutAt, HeaderFits
<1> QED BY <1>1, NothingHere

(* The reading is over where an item is cut short.                          *)
LEMMA CutHere ==
  ASSUME NEW s \in Seq(Byte), NEW i \in 1 .. Len(s), CutAt(s, i)
  PROVE  Readings(s)[i] = Empty
<1>1. ~LineAt(s, i) /\ ~FrameAt(s, i)
  BY OneKind
<1>2. NextAt(s, i) = Len(s) + 1 /\ FoundAt(s, i) = Empty
  BY <1>1 DEF NextAt, FoundAt, Empty
<1> QED BY <1>2, ReadingsAre, EmptyTyped, JoinEmpty

(* Junk in the part is skipped in the stream.                              *)
LEMMA SkipPart ==
  ASSUME NEW t, NEW s, NEW b, Part(t, s, b), NEW k \in Nat, k < Len(t),
         \A i \in 1 .. k : t[i] # Hash /\ ~MagicAt(t, i)
  PROVE  Readings(s)[b + 1] = Readings(s)[b + k + 1]
<1> DEFINE T == {n \in Nat : n <= k => Readings(s)[b + 1] = Readings(s)[b + n + 1]}
<1>0. s \in Seq(Byte) /\ b \in Nat /\ Len(t) \in Nat
  BY PartFacts
<1>1. 0 \in T
  BY <1>0
<1>2. ASSUME NEW n \in Nat, n \in T PROVE n + 1 \in T
  <2> SUFFICES ASSUME n + 1 <= k PROVE Readings(s)[b + 1] = Readings(s)[b + (n + 1) + 1]
    OBVIOUS
  <2>1. n + 1 \in 1 .. k /\ n + 1 \in 1 .. Len(t) /\ n + 1 < Len(t)
    BY <1>0
  <2>2. s[b + (n + 1)] # Hash /\ b + (n + 1) \in 1 .. Len(s)
    BY <2>1, PartFacts
  <2>3. ~MagicAt(s, b + (n + 1))
    BY <2>1, PartMagic
  <2>4. Readings(s)[b + (n + 1)] = Readings(s)[b + (n + 1) + 1]
    BY <1>0, <2>2, <2>3, JunkHere
  <2>5. b + (n + 1) = b + n + 1
    BY <1>0
  <2> QED BY <1>2, <2>4, <2>5
<1>3. k \in T
  <2> HIDE DEF T
  <2> QED BY <1>1, <1>2, NatSet
<1> QED BY <1>3

(* A whole line in the part.                                               *)
LEMMA LineInPart ==
  ASSUME NEW t, NEW s, NEW b, Part(t, s, b), t # <<>>, t[1] = Hash, NewlinesIn(t) # {},
         NEW nl, nl = First(NewlinesIn(t))
  PROVE  /\ nl \in 1 .. Len(t)
         /\ SubSeq(t, 1, nl - 1) \in Seq(Byte)
         /\ Readings(s)[b + 1] = Join(Found(<<>>, <<SubSeq(t, 1, nl - 1)>>), Readings(s)[b + nl + 1])
<1>0. /\ t \in Seq(Byte) /\ s \in Seq(Byte) /\ b \in Nat /\ Len(t) \in Nat \ {0} /\ Len(s) \in Nat
      /\ b + Len(t) <= Len(s)
  BY PartFacts, EmptySeq
<1>1. NewlinesIn(t) \subseteq Nat
  BY DEF NewlinesIn
<1>2. nl \in 1 .. Len(t) /\ t[nl] = Newline /\ \A j \in 1 .. Len(t) : t[j] = Newline => nl <= j
  <2>1. nl \in NewlinesIn(t) /\ \A j \in NewlinesIn(t) : nl <= j
    BY <1>1, FirstLeast
  <2> QED BY <2>1 DEF NewlinesIn
<1>3. b + nl \in LineEnds(s, b + 1)
  <2>1. s[b + nl] = Newline
    BY <1>2, PartFacts
  <2>2. b + nl \in b + 1 .. Len(s)
    BY <1>0, <1>2
  <2> QED BY <2>1, <2>2 DEF LineEnds
<1>4. ASSUME NEW j \in LineEnds(s, b + 1) PROVE b + nl <= j
  <2>1. j \in b + 1 .. Len(s) /\ s[j] = Newline
    BY DEF LineEnds
  <2>2. CASE j - b \in 1 .. Len(t)
    <3>1. t[j - b] = s[j]
      <4>1. b + (j - b) = j
        BY <1>0, <2>1
      <4> QED BY <2>2, <4>1, PartFacts
    <3>2. nl <= j - b
      BY <1>2, <2>1, <2>2, <3>1
    <3> QED BY <1>0, <1>2, <2>1, <3>2
  <2>3. CASE ~(j - b \in 1 .. Len(t))
    BY <1>0, <1>2, <2>1, <2>3
  <2> QED BY <2>2, <2>3
<1>5. First(LineEnds(s, b + 1)) = b + nl
  <2>1. LineEnds(s, b + 1) \subseteq Nat
    BY <1>0 DEF LineEnds
  <2> QED BY <1>3, <1>4, <2>1, FirstIs
<1>6. b + 1 \in 1 .. Len(s) /\ s[b + 1] = Hash
  BY <1>0, PartFacts
<1>7. LineAt(s, b + 1)
  BY <1>3, <1>6 DEF LineAt
<1>8. NextAt(s, b + 1) = b + nl + 1 /\ FoundAt(s, b + 1) = Found(<<>>, <<SubSeq(s, b + 1, b + nl - 1)>>)
  <2>1. ~FrameAt(s, b + 1) /\ ~CutAt(s, b + 1)
    BY <1>0, <1>6, <1>7, OneKind
  <2>2. NextAt(s, b + 1) = First(LineEnds(s, b + 1)) + 1
    BY <1>7, <2>1 DEF NextAt
  <2>3. FoundAt(s, b + 1) = Found(<<>>, <<SubSeq(s, b + 1, First(LineEnds(s, b + 1)) - 1)>>)
    BY <1>7, <2>1 DEF FoundAt
  <2>4. NextAt(s, b + 1) = b + nl + 1
    BY <1>5, <2>2
  <2>5. First(LineEnds(s, b + 1)) - 1 = b + nl - 1
    BY <1>0, <1>2, <1>5
  <2>6. SubSeq(s, b + 1, First(LineEnds(s, b + 1)) - 1) = SubSeq(s, b + 1, b + nl - 1)
    BY <2>5, Zenon
  <2>7. FoundAt(s, b + 1) = Found(<<>>, <<SubSeq(s, b + 1, b + nl - 1)>>)
    BY <2>3, <2>6, Zenon
  <2> QED BY <2>4, <2>7
<1>9. SubSeq(t, 1, nl - 1) = SubSeq(s, b + 1, b + nl - 1) /\ SubSeq(t, 1, nl - 1) \in Seq(Byte)
  <2>1. PICK u \in Seq(Byte) : u = SubSeq(t, 1, nl - 1) /\ Len(u) = nl - 1 /\ \A i \in 1 .. nl - 1 : u[i] = t[i]
    <3>1. /\ 1 \in Nat \ {0} /\ nl - 1 \in Int /\ nl - 1 <= Len(t) /\ (nl - 1) - 1 + 1 = nl - 1
          /\ \A i \in 1 .. nl - 1 : 1 + i - 1 = i
      BY <1>0, <1>2
    <3>2. SubSeq(t, 1, nl - 1) \in Seq(Byte) /\ Len(SubSeq(t, 1, nl - 1)) = IF 1 <= nl - 1 THEN (nl - 1) - 1 + 1 ELSE 0
      BY <1>0, <3>1, SubSeqBytes
    <3>3. Len(SubSeq(t, 1, nl - 1)) = nl - 1
      BY <1>2, <3>2
    <3>4. \A i \in 1 .. nl - 1 : SubSeq(t, 1, nl - 1)[i] = t[i]
      BY <1>0, <3>1, SubSeqBytes
    <3> QED BY <3>2, <3>3, <3>4
  <2>2. PICK v \in Seq(Byte) : v = SubSeq(s, b + 1, b + nl - 1) /\ Len(v) = nl - 1
                               /\ \A i \in 1 .. nl - 1 : v[i] = s[b + i]
    <3>1. b + 1 \in Nat \ {0} /\ b + nl - 1 <= Len(s) /\ b + nl - 1 \in Int
          /\ (b + nl - 1) - (b + 1) + 1 = nl - 1 /\ (b + 1 <= b + nl - 1 <=> 1 <= nl - 1)
      BY <1>0, <1>2
    <3>2. \A i \in 1 .. nl - 1 : (b + 1) + i - 1 = b + i
      BY <1>0, <1>2
    <3>3. SubSeq(s, b + 1, b + nl - 1) \in Seq(Byte) /\ Len(SubSeq(s, b + 1, b + nl - 1)) = nl - 1
      <4>1. /\ SubSeq(s, b + 1, b + nl - 1) \in Seq(Byte)
            /\ Len(SubSeq(s, b + 1, b + nl - 1)) = IF b + 1 <= b + nl - 1 THEN (b + nl - 1) - (b + 1) + 1 ELSE 0
        BY <1>0, <3>1, SubSeqBytes
      <4> QED BY <1>2, <3>1, <4>1
    <3>4. \A i \in 1 .. nl - 1 : SubSeq(s, b + 1, b + nl - 1)[i] = s[b + i]
      BY <1>0, <3>1, <3>2, SubSeqBytes
    <3> QED BY <3>3, <3>4
  <2>3. \A i \in 1 .. nl - 1 : u[i] = v[i]
    <3>1. \A i \in 1 .. nl - 1 : i \in 1 .. Len(t)
      BY <1>0, <1>2
    <3>2. \A i \in 1 .. nl - 1 : t[i] = s[b + i]
      BY <3>1, PartFacts
    <3> QED BY <2>1, <2>2, <3>2
  <2>4. u = v
    BY <2>1, <2>2, <2>3, SeqEqual
  <2> QED BY <2>1, <2>2, <2>4
<1>10. Readings(s)[b + 1] = Join(FoundAt(s, b + 1), Readings(s)[NextAt(s, b + 1)])
  BY <1>0, <1>6, ReadingsAre
<1> QED BY <1>2, <1>8, <1>9, <1>10

(* A magic with another version: two bytes are nothing.                     *)
LEMMA BadInPart ==
  ASSUME NEW t, NEW s, NEW b, Part(t, s, b), MagicAt(t, 1), Len(t) >= HeaderSize, t[3] # VERSION
  PROVE  Readings(s)[b + 1] = Readings(s)[b + 2 + 1]
<1>0. /\ t \in Seq(Byte) /\ s \in Seq(Byte) /\ b \in Nat /\ Len(t) \in Nat /\ Len(s) \in Nat
      /\ b + Len(t) <= Len(s) /\ Len(t) >= 4
  BY PartFacts, SizesAssumption
<1>1. b + 1 \in 1 .. Len(s) /\ b + 2 \in 1 .. Len(s)
  BY <1>0
<1>2. MagicAt(s, b + 1) /\ s[b + 1] = 26 /\ s[b + 2] = 197 /\ s[b + 3] # VERSION
  <2>1. 3 \in 1 .. Len(t)
    BY <1>0
  <2>2. MagicAt(s, b + 1)
    BY <1>0, PartMagic
  <2>3. (b + 1) + 1 = b + 2
    BY <1>0
  <2> QED BY <2>1, <2>2, <2>3, PartFacts DEF MagicAt, MAGIC
<1>3. HeaderFits(s, b + 1)
  BY <1>0, <1>2, SizesAssumption DEF HeaderFits
<1>4. ~LineAt(s, b + 1) /\ ~FrameAt(s, b + 1) /\ ~CutAt(s, b + 1)
  <2>1. (b + 1) + 2 = b + 3
    BY <1>0
  <2> QED BY <1>2, <1>3, <2>1 DEF LineAt, FrameAt, CutAt, Hash
<1>5. Readings(s)[b + 1] = Readings(s)[(b + 1) + 1]
  BY <1>0, <1>1, <1>4, NothingHere
<1>6. s[b + 2] # Hash /\ ~MagicAt(s, b + 2)
  BY <1>2 DEF Hash, MagicAt, MAGIC
<1>7. Readings(s)[b + 2] = Readings(s)[(b + 2) + 1]
  BY <1>0, <1>1, <1>6, JunkHere
<1>8. (b + 1) + 1 = b + 2
  BY <1>0
<1> QED BY <1>5, <1>7, <1>8

(* A whole frame in the part.                                              *)
LEMMA FrameInPart ==
  ASSUME NEW t, NEW s, NEW b, Part(t, s, b), MagicAt(t, 1), Len(t) >= HeaderSize, t[3] = VERSION,
         NEW n, n = HeaderSize + t[HeaderSize], Len(t) >= n
  PROVE  /\ n \in HeaderSize .. Len(t)
         /\ SubSeq(t, HeaderSize + 1, n) \in Seq(Byte)
         /\ Readings(s)[b + 1] = Join(Found(<<SubSeq(t, HeaderSize + 1, n)>>, <<>>), Readings(s)[b + n + 1])
<1>0. /\ t \in Seq(Byte) /\ s \in Seq(Byte) /\ b \in Nat /\ Len(t) \in Nat /\ Len(s) \in Nat
      /\ b + Len(t) <= Len(s) /\ Len(t) >= 4 /\ HeaderSize \in Nat /\ HeaderSize >= 4
  BY PartFacts, SizesAssumption
<1>1. b + 1 \in 1 .. Len(s) /\ HeaderSize \in 1 .. Len(t) /\ b + HeaderSize \in 1 .. Len(s)
  BY <1>0
<1>2. PICK c \in 0 .. 255 : c = t[HeaderSize] /\ c = s[b + HeaderSize]
  <2>1. t[HeaderSize] = s[b + HeaderSize]
    BY <1>1, PartFacts
  <2>2. s[b + HeaderSize] \in 0 .. 255
    BY <1>0, <1>1, ElementOfSeq DEF Byte
  <2> QED BY <2>1, <2>2
<1>3. n = HeaderSize + c /\ n \in HeaderSize .. Len(t)
  <2>1. n = HeaderSize + c
    BY <1>2
  <2> QED BY <1>0, <2>1
<1>4. MagicAt(s, b + 1) /\ s[b + 3] = VERSION
  <2>1. 3 \in 1 .. Len(t)
    BY <1>0
  <2>2. MagicAt(s, b + 1)
    BY <1>0, PartMagic
  <2> QED BY <2>1, <2>2, PartFacts
<1>5. HeaderFits(s, b + 1)
  BY <1>0, <1>4 DEF HeaderFits
<1>6. FrameEnd(s, b + 1) = b + n
  <2>1. (b + 1) + HeaderSize - 1 = b + HeaderSize
    BY <1>0
  <2>2. FrameEnd(s, b + 1) = b + HeaderSize + c
    BY <1>2, <2>1 DEF FrameEnd
  <2> QED BY <1>0, <1>3, <2>2
<1>7. FrameAt(s, b + 1)
  <2>1. (b + 1) + 2 = b + 3 /\ b + n <= Len(s)
    BY <1>0, <1>3
  <2> QED BY <1>4, <1>5, <1>6, <2>1 DEF FrameAt
<1>8. NextAt(s, b + 1) = b + n + 1
      /\ FoundAt(s, b + 1) = Found(<<SubSeq(s, b + 1 + HeaderSize, b + n)>>, <<>>)
  BY <1>0, <1>1, <1>6, <1>7, OneKind DEF NextAt, FoundAt
<1>9. SubSeq(t, HeaderSize + 1, n) = SubSeq(s, b + 1 + HeaderSize, b + n)
      /\ SubSeq(t, HeaderSize + 1, n) \in Seq(Byte)
  <2>1. PICK u \in Seq(Byte) : u = SubSeq(t, HeaderSize + 1, n) /\ Len(u) = c
                               /\ \A i \in 1 .. c : u[i] = t[HeaderSize + i]
    <3>1. HeaderSize + c <= Len(t) /\ HeaderSize + c = n
      BY <1>0, <1>3
    <3>2. SubSeq(t, HeaderSize + 1, HeaderSize + c) \in Seq(Byte)
      BY <1>0, <3>1, PieceOf
    <3>3. Len(SubSeq(t, HeaderSize + 1, HeaderSize + c)) = c
      BY <1>0, <3>1, PieceOf
    <3>4. \A i \in 1 .. c : SubSeq(t, HeaderSize + 1, HeaderSize + c)[i] = t[HeaderSize + i]
      BY <1>0, <3>1, PieceOf
    <3> QED BY <3>1, <3>2, <3>3, <3>4
  <2>2. PICK v \in Seq(Byte) : v = SubSeq(s, b + 1 + HeaderSize, b + n) /\ Len(v) = c
                               /\ \A i \in 1 .. c : v[i] = s[b + (HeaderSize + i)]
    <3>1. PICK e \in Nat : e = b + HeaderSize
      BY <1>0
    <3>2. e + c <= Len(s)
      BY <1>0, <1>3, <3>1
    <3>a. s \in Seq(Byte) /\ e \in Nat /\ c \in Nat /\ e + c <= Len(s)
      BY <1>0, <3>2
    <3>b. SubSeq(s, e + 1, e + c) \in Seq(Byte)
      BY <3>a, PieceOf
    <3>3. PICK v \in Seq(Byte) : v = SubSeq(s, e + 1, e + c)
      BY <3>b
    <3>4. Len(v) = c
      BY <3>a, <3>3, PieceOf
    <3>5. \A i \in 1 .. c : v[i] = s[e + i]
      BY <3>a, <3>3, PieceOf
    <3>6. e + 1 = b + 1 + HeaderSize /\ e + c = b + n
      BY <1>0, <1>3, <3>1
    <3>7. \A i \in 1 .. c : e + i = b + (HeaderSize + i)
      BY <1>0, <3>1
    <3>8. \A i \in 1 .. c : v[i] = s[b + (HeaderSize + i)]
      BY <3>5, <3>7
    <3> QED BY <3>3, <3>4, <3>6, <3>8
  <2>3. \A i \in 1 .. c : u[i] = v[i]
    <3>1. \A j \in 1 .. Len(t) : t[j] = s[b + j]
      BY PartFacts
    <3>2. ASSUME NEW i \in 1 .. c PROVE t[HeaderSize + i] = s[b + (HeaderSize + i)]
      <4>1. HeaderSize + i \in 1 .. Len(t)
        BY <1>0, <1>3
      <4> QED BY <3>1, <4>1
    <3> QED BY <2>1, <2>2, <3>2
  <2>4. u = v
    <3>1. Len(u) = Len(v) /\ \A i \in 1 .. Len(u) : u[i] = v[i]
      BY <2>1, <2>2, <2>3
    <3> QED BY <3>1, SeqEqual
  <2> QED BY <2>1, <2>2, <2>4
<1>10. Readings(s)[b + 1] = Join(FoundAt(s, b + 1), Readings(s)[NextAt(s, b + 1)])
  BY <1>0, <1>1, ReadingsAre
<1> QED BY <1>3, <1>8, <1>9, <1>10

-----------------------------------------------------------------------------
(* The invariant *)

(* The first n bytes sent.                                                 *)
Prefix(n) == SubSeq(Stream, 1, n)

(* The types; the buffer is bytes that were read.                            *)
Typed == TypeOK /\ buf \in Seq(Byte)

(* However much of the stream is looked at, its reading is what was found so  *)
(* far and then the reading from where the buffer begins.                    *)
ReadSoFar ==
  \A n \in pos .. Len(Stream) :
    Reading(Prefix(n)) = Join(Found(samples, lines), Readings(Prefix(n))[(pos - Len(buf)) + 1])

(* The inductive invariant.                                                *)
IInv == Typed /\ ReadSoFar

(* FlattenSeq concatenates from the left: F holds what the first items make.  *)
Flattens(F, q, S) ==
  /\ F \in [0 .. Len(q) -> Seq(S)]
  /\ F[0] = <<>>
  /\ \A i \in 1 .. Len(q) : F[i] = F[i - 1] \o q[i]
  /\ FlattenSeq(q) = F[Len(q)]

(* There is such an F: the recursion inside FlattenSeq has a solution.        *)
LEMMA FlattenIs ==
  ASSUME NEW S, NEW q \in Seq(Seq(S))
  PROVE  \E F : Flattens(F, q, S)
<1> DEFINE N == Len(q)
           Body(f) == [i \in 1 .. N |-> IF i = 1 THEN q[i] ELSE f[i - 1] \o q[i]]
           Fits(f, n) == f[0] = <<>> /\ \A i \in 1 .. n : f[i] = f[i - 1] \o q[i]
           T == {n \in Nat : n <= N => \E f \in [0 .. N -> Seq(S)] : Fits(f, n)}
<1>0. N \in Nat /\ \A i \in 1 .. N : q[i] \in Seq(S)
  BY LenProperties, ElementOfSeq
<1>e. <<>> \in Seq(S)
  BY EmptySeq
<1>1. 0 \in T
  <2> DEFINE f == [i \in 0 .. N |-> <<>>]
  <2>1. f \in [0 .. N -> Seq(S)]
    BY <1>e
  <2>2. f[0] = <<>>
    BY <1>0
  <2> HIDE DEF f
  <2>3. Fits(f, 0)
    BY <2>2
  <2> HIDE DEF Fits
  <2> QED BY <2>1, <2>3
<1>2. ASSUME NEW n \in Nat, n \in T PROVE n + 1 \in T
  <2> HIDE DEF Fits
  <2> SUFFICES ASSUME n + 1 <= N PROVE \E f \in [0 .. N -> Seq(S)] : Fits(f, n + 1)
    OBVIOUS
  <2>1. PICK f \in [0 .. N -> Seq(S)] : Fits(f, n)
    BY <1>0, <1>2
  <2> USE DEF Fits
  <2>2. n \in 0 .. N /\ n + 1 \in 1 .. N
    BY <1>0
  <2>3. PICK x \in Seq(S) : x = f[n] \o q[n + 1]
    <3>1. f[n] \in Seq(S) /\ q[n + 1] \in Seq(S)
      BY <1>0, <2>1, <2>2
    <3> QED BY <3>1, ConcatProperties
  <2> DEFINE g == [f EXCEPT ![n + 1] = x]
  <2>4. g \in [0 .. N -> Seq(S)] /\ g[n + 1] = x /\ \A j \in 0 .. N : j # n + 1 => g[j] = f[j]
    BY <1>0, <2>2
  <2> HIDE DEF g
  <2>5. g[0] = <<>>
    BY <2>1, <2>2, <2>4
  <2>6. ASSUME NEW i \in 1 .. n + 1 PROVE g[i] = g[i - 1] \o q[i]
    <3>1. CASE i = n + 1
      <4>1. i - 1 = n /\ g[n] = f[n]
        BY <2>2, <2>4, <3>1
      <4> QED BY <2>3, <2>4, <3>1, <4>1
    <3>2. CASE i # n + 1
      <4>1. i \in 1 .. n /\ i \in 0 .. N /\ i - 1 \in 0 .. N /\ i - 1 # n + 1
        BY <1>0, <2>2, <3>2
      <4>2. f[i] = f[i - 1] \o q[i]
        BY <2>1, <4>1
      <4>3. g[i] = f[i] /\ g[i - 1] = f[i - 1]
        BY <2>4, <3>2, <4>1
      <4> QED BY <4>2, <4>3
    <3> QED BY <3>1, <3>2
  <2>7. Fits(g, n + 1)
    BY <2>5, <2>6
  <2> HIDE DEF Fits
  <2> QED BY <2>4, <2>7
<1>3. N \in T
  <2> HIDE DEF T
  <2> QED BY <1>0, <1>1, <1>2, NatSet
<1>4. PICK F \in [0 .. N -> Seq(S)] : Fits(F, N)
  <2> HIDE DEF Fits
  <2> QED BY <1>0, <1>3
<1>5. CASE N = 0
  <2>1. q = <<>> /\ FlattenSeq(q) = q
    BY <1>5, EmptySeq DEF FlattenSeq
  <2>2. FlattenSeq(q) = F[N]
    BY <1>4, <1>5, <2>1
  <2> QED BY <1>4, <2>2 DEF Flattens
<1>6. CASE N # 0
  <2>1. \E f : f = Body(f)
    <3> DEFINE f == [i \in 1 .. N |-> F[i]]
    <3>1. f = Body(f)
      <4>1. ASSUME NEW i \in 1 .. N PROVE f[i] = IF i = 1 THEN q[i] ELSE f[i - 1] \o q[i]
        <5>1. F[i] = F[i - 1] \o q[i]
          BY <1>4
        <5>2. CASE i = 1
          <6>1. F[i - 1] = <<>>
            BY <1>4, <5>2
          <6>2. <<>> \o q[i] = q[i]
            BY <1>0, ConcatEmptySeq
          <6> QED BY <5>1, <5>2, <6>1, <6>2
        <5>3. CASE i # 1
          <6>1. i - 1 \in 1 .. N
            BY <1>0, <5>3
          <6>2. f[i] = F[i] /\ f[i - 1] = F[i - 1]
            BY <6>1
          <6> HIDE DEF f
          <6> QED BY <5>1, <5>3, <6>2
        <5> QED BY <5>2, <5>3
      <4>2. f = [i \in 1 .. N |-> f[i]]
        OBVIOUS
      <4> HIDE DEF f
      <4> QED BY <4>1, <4>2
    <3> HIDE DEF f, Body
    <3> QED BY <3>1
  <2>2. PICK R : R = (CHOOSE f : f = Body(f))
    OBVIOUS
  <2>3. R = Body(R)
    <3> HIDE DEF Body
    <3> QED BY <2>1, <2>2
  <2>4. FlattenSeq(q) = R[N]
    BY <1>6, <2>2 DEF FlattenSeq
  <2>5. \A i \in 1 .. N : R[i] = IF i = 1 THEN q[i] ELSE R[i - 1] \o q[i]
    BY <2>3
  <2> DEFINE V == {n \in Nat : n <= N /\ n # 0 => R[n] = F[n]}
  <2>6. 0 \in V
    OBVIOUS
  <2>7. ASSUME NEW n \in Nat, n \in V PROVE n + 1 \in V
    <3> SUFFICES ASSUME n + 1 <= N PROVE R[n + 1] = F[n + 1]
      OBVIOUS
    <3>1. n + 1 \in 1 .. N /\ (n + 1) - 1 = n
      BY <1>0
    <3>2. F[n + 1] = F[n] \o q[n + 1]
      BY <1>4, <3>1
    <3>3. CASE n = 0
      <4>1. F[n] = <<>> /\ R[n + 1] = q[n + 1]
        BY <1>4, <2>5, <3>1, <3>3
      <4>2. <<>> \o q[n + 1] = q[n + 1]
        BY <1>0, <3>1, ConcatEmptySeq
      <4> QED BY <3>2, <4>1, <4>2
    <3>4. CASE n # 0
      <4>1. n + 1 # 1 /\ n <= N
        BY <1>0, <3>4
      <4>2. R[n + 1] = R[n] \o q[n + 1]
        BY <2>5, <3>1, <4>1
      <4>3. R[n] = F[n]
        BY <2>7, <3>4, <4>1
      <4> QED BY <3>2, <4>2, <4>3
    <3> QED BY <3>3, <3>4
  <2>8. R[N] = F[N]
    <3>1. N \in V
      <4> HIDE DEF V
      <4> QED BY <1>0, <2>6, <2>7, NatSet
    <3> QED BY <1>0, <1>6, <3>1
  <2>9. FlattenSeq(q) = F[N]
    BY <2>4, <2>8
  <2> QED BY <1>4, <2>9 DEF Flattens
<1> QED BY <1>5, <1>6

(* A concatenation of sequences of a set is one.                           *)
LEMMA FlattenTyped ==
  ASSUME NEW S, NEW q \in Seq(Seq(S))
  PROVE  FlattenSeq(q) \in Seq(S)
<1>1. PICK F : Flattens(F, q, S)
  BY FlattenIs
<1>2. Len(q) \in 0 .. Len(q)
  BY LenProperties
<1> QED BY <1>1, <1>2 DEF Flattens

(* The stream is bytes.                                                    *)
LEMMA StreamBytes ==
  ASSUME sent \in Seq(Item)
  PROVE  Stream \in Seq(Byte) /\ Len(Stream) \in Nat
<1> DEFINE q == [i \in 1 .. Len(sent) |-> sent[i].bytes]
<1>1. Len(sent) \in Nat /\ \A i \in 1 .. Len(sent) : sent[i] \in Item
  BY LenProperties, ElementOfSeq
<1>2. \A i \in 1 .. Len(sent) : sent[i].bytes \in Seq(Byte)
  BY <1>1 DEF Item
<1>3. q \in Seq(Seq(Byte))
  BY <1>1, <1>2
<1>4. Stream = FlattenSeq(q)
  BY DEF Stream
<1> HIDE DEF q
<1>5. Stream \in Seq(Byte)
  BY <1>3, <1>4, FlattenTyped
<1> QED BY <1>5, LenProperties

(* The numbers of a state.                                                 *)
LEMMA TypedFacts ==
  ASSUME Typed
  PROVE  /\ sent \in Seq(Item) /\ Stream \in Seq(Byte) /\ Len(Stream) \in Nat
         /\ pos \in 0 .. Len(Stream) /\ buf \in Seq(Byte) /\ Len(buf) \in Nat /\ Len(buf) <= pos
         /\ buf = SubSeq(Stream, pos - Len(buf) + 1, pos)
         /\ samples \in Seq(Seq(Byte)) /\ lines \in Seq(Seq(Byte))
<1>1. sent \in Seq(Item) /\ buf \in Seq(Byte)
  BY DEF Typed, TypeOK
<1> QED BY <1>1, StreamBytes, LenProperties DEF Typed, TypeOK

(* The buffer is a part of every longer prefix of the stream.               *)
LEMMA BufIsPart ==
  ASSUME Typed, NEW n \in pos .. Len(Stream)
  PROVE  Part(buf, Prefix(n), pos - Len(buf)) /\ Prefix(n) \in Seq(Byte) /\ Len(Prefix(n)) = n
<1>0. /\ Stream \in Seq(Byte) /\ Len(Stream) \in Nat
      /\ pos \in 0 .. Len(Stream) /\ buf \in Seq(Byte) /\ Len(buf) \in Nat /\ Len(buf) <= pos
  BY TypedFacts
<1>1. n \in Nat /\ n <= Len(Stream) /\ pos <= n
  <2>1. pos \in Nat /\ Len(Stream) \in Nat
    BY <1>0
  <2> QED BY <2>1
<1>2. PICK s \in Seq(Byte) : s = Prefix(n) /\ Len(s) = n /\ \A i \in 1 .. n : s[i] = Stream[i]
  <2>1. /\ n - 1 + 1 = n /\ (1 <= n <=> n # 0) /\ \A i \in 1 .. n : 1 + i - 1 = i
    BY <1>1
  <2>2. /\ SubSeq(Stream, 1, n) \in Seq(Byte)
        /\ Len(SubSeq(Stream, 1, n)) = IF 1 <= n THEN n - 1 + 1 ELSE 0
    BY <1>0, <1>1, SubSeqBytes
  <2>3. Len(SubSeq(Stream, 1, n)) = n
    BY <1>1, <2>1, <2>2
  <2>4. \A i \in 1 .. n : SubSeq(Stream, 1, n)[i] = Stream[i]
    BY <1>0, <1>1, <2>1, SubSeqBytes
  <2> QED BY <2>2, <2>3, <2>4 DEF Prefix
<1>3. PICK b \in Nat : b = pos - Len(buf)
  <2>1. pos \in Nat /\ Len(buf) \in Nat /\ Len(buf) <= pos
    BY <1>0
  <2>2. pos - Len(buf) \in Nat
    BY <2>1
  <2> QED BY <2>2
<1>4. \A i \in 1 .. Len(buf) : buf[i] = Stream[b + i]
  <2>1. buf = SubSeq(Stream, b + 1, pos)
    BY <1>3, TypedFacts
  <2>2. b + 1 \in Nat \ {0} /\ pos \in Int /\ pos <= Len(Stream) /\ pos - (b + 1) + 1 = Len(buf)
    BY <1>0, <1>3
  <2>3. \A i \in 1 .. Len(buf) : SubSeq(Stream, b + 1, pos)[i] = Stream[(b + 1) + i - 1]
    BY <1>0, <2>2, SubSeqBytes
  <2>4. \A i \in 1 .. Len(buf) : (b + 1) + i - 1 = b + i
    BY <1>0
  <2>5. ASSUME NEW i \in 1 .. Len(buf) PROVE buf[i] = Stream[b + i]
    <3>1. SubSeq(Stream, b + 1, pos)[i] = Stream[b + i]
      BY <2>3, <2>4
    <3> QED BY <2>1, <3>1
  <2> QED BY <2>5
<1>5. \A i \in 1 .. Len(buf) : b + i \in 1 .. n
  BY <1>0, <1>1, <1>3
<1>6. Part(buf, s, b)
  <2>1. b + Len(buf) <= Len(s)
    BY <1>0, <1>1, <1>2, <1>3
  <2>2. \A i \in 1 .. Len(buf) : buf[i] = s[b + i]
    BY <1>2, <1>4, <1>5
  <2> QED BY <1>0, <2>1, <2>2 DEF Part
<1> QED BY <1>2, <1>3, <1>6

(* The first k bytes are taken out, and x is what they held.                 *)
LEMMA Drop ==
  ASSUME IInv, NEW k \in 0 .. Len(buf), buf' = After(buf, k), UNCHANGED <<sent, pos>>,
         samples' \in Seq(Seq(Byte)), lines' \in Seq(Seq(Byte)),
         NEW x \in Result, Found(samples', lines') = Join(Found(samples, lines), x),
         \A n \in pos .. Len(Stream) :
           Readings(Prefix(n))[(pos - Len(buf)) + 1] = Join(x, Readings(Prefix(n))[(pos - Len(buf)) + k + 1])
  PROVE  IInv'
<1>0. /\ sent \in Seq(Item) /\ Stream \in Seq(Byte) /\ Len(Stream) \in Nat
      /\ pos \in 0 .. Len(Stream) /\ buf \in Seq(Byte) /\ Len(buf) \in Nat /\ Len(buf) <= pos
      /\ buf = SubSeq(Stream, pos - Len(buf) + 1, pos)
      /\ samples \in Seq(Seq(Byte)) /\ lines \in Seq(Seq(Byte))
  BY TypedFacts DEF IInv
<1>1. Stream' = Stream /\ sent' = sent /\ pos' = pos
  BY DEF Stream
<1>2. PICK b \in Nat : b = pos - Len(buf)
  <2>1. pos \in Nat /\ Len(buf) \in Nat /\ Len(buf) <= pos
    BY <1>0
  <2>2. pos - Len(buf) \in Nat
    BY <2>1
  <2> QED BY <2>2
<1>3. buf' \in Seq(Byte) /\ Len(buf') = Len(buf) - k
  <2>1. k + 1 \in Nat \ {0} /\ Len(buf) \in Int /\ Len(buf) <= Len(buf)
    BY <1>0
  <2>2. /\ SubSeq(buf, k + 1, Len(buf)) \in Seq(Byte)
        /\ Len(SubSeq(buf, k + 1, Len(buf))) = IF k + 1 <= Len(buf) THEN Len(buf) - (k + 1) + 1 ELSE 0
    BY <1>0, <2>1, SubSeqBytes
  <2>3. Len(SubSeq(buf, k + 1, Len(buf))) = Len(buf) - k
    <3>1. Len(buf) - (k + 1) + 1 = Len(buf) - k /\ (~(k + 1 <= Len(buf)) => Len(buf) - k = 0)
      <4>1. PICK L \in Nat : L = Len(buf)
        BY <1>0
      <4>2. k \in 0 .. L
        BY <4>1
      <4> QED BY <4>1, <4>2
    <3> QED BY <2>2, <3>1
  <2> QED BY <2>2, <2>3 DEF After
<1>4. pos - Len(buf') = b + k
  BY <1>0, <1>2, <1>3
<1>5. buf' = SubSeq(Stream, b + k + 1, pos)
  <2>1. CASE k = Len(buf)
    <3>1. Len(buf) < k + 1 /\ pos < b + k + 1
      BY <1>0, <1>2, <2>1
    <3>2. SubSeq(buf, k + 1, Len(buf)) = <<>>
      BY <1>0, <3>1, SubSeqEmpty
    <3>3. SubSeq(Stream, b + k + 1, pos) = <<>>
      BY <1>0, <1>2, <3>1, SubSeqEmpty
    <3> QED BY <3>2, <3>3 DEF After
  <2>2. CASE k # Len(buf)
    <3>1. PICK L \in Nat, M \in Nat, p \in Nat : p <= M /\ L = Len(buf) /\ M = Len(Stream) /\ p = pos
      <4>1. Len(buf) \in Nat /\ Len(Stream) \in Nat
        BY <1>0
      <4>2. pos \in Nat /\ pos <= Len(Stream)
        BY <1>0, <4>1
      <4> QED BY <4>1, <4>2
    <3>2. k \in Nat /\ k < L /\ L <= p /\ b = p - L
      <4>1. k \in 0 .. L /\ k # L
        BY <2>2, <3>1
      <4>2. L <= p /\ b = p - L
        BY <1>0, <1>2, <3>1
      <4> QED BY <4>1, <4>2
    <3>3. PICK i \in 1 .. M, m \in 1 .. p - (b + 1) + 1, n \in 1 .. p - (b + 1) + 1 :
            i = b + 1 /\ m = k + 1 /\ n = L
      <4>1. b + 1 \in 1 .. M
        BY <3>1, <3>2
      <4>2. k + 1 \in 1 .. p - (b + 1) + 1 /\ L \in 1 .. p - (b + 1) + 1
        BY <3>1, <3>2
      <4> QED BY <4>1, <4>2
    <3>4. p \in 1 .. M /\ i + m - 1 = b + k + 1 /\ i + n - 1 = p
      <4>1. p \in 1 .. M
        BY <3>1, <3>2
      <4>2. i + m - 1 = b + k + 1 /\ i + n - 1 = p
        BY <3>1, <3>2, <3>3
      <4> QED BY <4>1, <4>2
    <3>5. SubSeq(SubSeq(Stream, i, p), m, n) = SubSeq(Stream, i + m - 1, i + n - 1)
      BY <1>0, <3>1, <3>3, <3>4, SubSeqOfSubSeq
    <3>6. buf = SubSeq(Stream, i, p)
      BY <1>0, <1>2, <3>1, <3>3
    <3>7. SubSeq(buf, k + 1, Len(buf)) = SubSeq(Stream, b + k + 1, pos)
      BY <3>1, <3>3, <3>4, <3>5, <3>6
    <3> QED BY <3>7 DEF After
  <2> QED BY <2>1, <2>2
<1>6. Typed'
  <2>1. Len(buf') <= pos /\ buf' = SubSeq(Stream, pos - Len(buf') + 1, pos)
    BY <1>0, <1>2, <1>3, <1>4, <1>5
  <2> QED BY <1>0, <1>1, <1>3, <2>1 DEF Typed, TypeOK
<1>7. ASSUME NEW n \in pos .. Len(Stream)
      PROVE  Reading(Prefix(n)) = Join(Found(samples', lines'), Readings(Prefix(n))[(pos - Len(buf')) + 1])
  <2>1. Reading(Prefix(n)) = Join(Found(samples, lines), Readings(Prefix(n))[b + 1])
    BY <1>2 DEF IInv, ReadSoFar
  <2>2. PICK y : y = Readings(Prefix(n))[b + k + 1]
    OBVIOUS
  <2>3. Readings(Prefix(n))[b + 1] = Join(x, y)
    BY <1>2, <2>2
  <2>4. y \in Result
    <3>1. Prefix(n) \in Seq(Byte) /\ Len(Prefix(n)) = n
      BY BufIsPart DEF IInv
    <3>2. b + k + 1 \in 1 .. n + 1
      BY <1>0, <1>2
    <3> QED BY <2>2, <3>1, <3>2, ReadingsAre
  <2>5. Found(samples, lines) \in Result
    BY <1>0, FoundTyped
  <2>6. Join(Found(samples, lines), Join(x, y)) = Join(Found(samples', lines'), y)
    BY <2>4, <2>5, JoinAssociative
  <2> QED BY <1>4, <2>1, <2>2, <2>3, <2>6
<1>8. ReadSoFar'
  <2>1. \A n : Prefix(n)' = Prefix(n)
    BY <1>1 DEF Prefix
  <2> QED BY <1>1, <1>7 DEF ReadSoFar, Prefix
<1> QED BY <1>6, <1>8 DEF IInv

-----------------------------------------------------------------------------
(* One lemma per action *)

(* One more line, one more frame.                                          *)
LEMMA OneMoreText ==
  ASSUME NEW f \in Seq(Seq(Byte)), NEW x \in Seq(Seq(Byte)), NEW u \in Seq(Byte)
  PROVE  /\ Append(x, u) \in Seq(Seq(Byte)) /\ Found(<<>>, <<u>>) \in Result
         /\ Found(f, Append(x, u)) = Join(Found(f, x), Found(<<>>, <<u>>))
<1>1. <<>> \in Seq(Seq(Byte)) /\ <<u>> \in Seq(Seq(Byte)) /\ Append(x, u) \in Seq(Seq(Byte))
  OBVIOUS
<1>2. Found(<<>>, <<u>>).frames = <<>> /\ Found(<<>>, <<u>>).texts = <<u>> /\ Found(<<>>, <<u>>) \in Result
  BY <1>1, FoundTyped
<1>3. Found(f, x).frames = f /\ Found(f, x).texts = x
  BY FoundTyped
<1>4. f \o <<>> = f
  BY ConcatEmptySeq
<1>5. Append(x, u) = x \o <<u>>
  BY AppendIsConcat
<1> QED BY <1>1, <1>2, <1>3, <1>4, <1>5 DEF Join

LEMMA OneMoreFrame ==
  ASSUME NEW f \in Seq(Seq(Byte)), NEW x \in Seq(Seq(Byte)), NEW u \in Seq(Byte)
  PROVE  /\ Append(f, u) \in Seq(Seq(Byte)) /\ Found(<<u>>, <<>>) \in Result
         /\ Found(Append(f, u), x) = Join(Found(f, x), Found(<<u>>, <<>>))
<1>1. <<>> \in Seq(Seq(Byte)) /\ <<u>> \in Seq(Seq(Byte)) /\ Append(f, u) \in Seq(Seq(Byte))
  OBVIOUS
<1>2. Found(<<u>>, <<>>).frames = <<u>> /\ Found(<<u>>, <<>>).texts = <<>> /\ Found(<<u>>, <<>>) \in Result
  BY <1>1, FoundTyped
<1>3. Found(f, x).frames = f /\ Found(f, x).texts = x
  BY FoundTyped
<1>4. x \o <<>> = x
  BY ConcatEmptySeq
<1>5. Append(f, u) = f \o <<u>>
  BY AppendIsConcat
<1> QED BY <1>1, <1>2, <1>3, <1>4, <1>5 DEF Join

(* Bytes that hold nothing are taken out.                                  *)
LEMMA DropJunk ==
  ASSUME IInv, NEW k \in 0 .. Len(buf), buf' = After(buf, k), UNCHANGED <<sent, pos, samples, lines>>,
         \A n \in pos .. Len(Stream) :
           Readings(Prefix(n))[(pos - Len(buf)) + 1] = Readings(Prefix(n))[(pos - Len(buf)) + k + 1]
  PROVE  IInv'
<1>0. /\ pos \in 0 .. Len(Stream) /\ Len(Stream) \in Nat /\ Len(buf) \in Nat /\ Len(buf) <= pos
      /\ samples \in Seq(Seq(Byte)) /\ lines \in Seq(Seq(Byte))
  BY TypedFacts DEF IInv
<1>1. samples' = samples /\ lines' = lines
  OBVIOUS
<1>2. Found(samples, lines) \in Result
  BY <1>0, FoundTyped
<1>3. Found(samples', lines') = Join(Found(samples, lines), Empty)
  BY <1>1, <1>2, JoinEmpty
<1>4. ASSUME NEW n \in pos .. Len(Stream)
      PROVE  Readings(Prefix(n))[(pos - Len(buf)) + 1] = Join(Empty, Readings(Prefix(n))[(pos - Len(buf)) + k + 1])
  <2>1. Prefix(n) \in Seq(Byte) /\ Len(Prefix(n)) = n
    BY BufIsPart DEF IInv
  <2>2. (pos - Len(buf)) + k + 1 \in 1 .. n + 1
    <3>1. PICK L \in Nat : L = Len(buf)
      BY <1>0
    <3>2. PICK M \in Nat : M = Len(Stream)
      BY <1>0
    <3>3. k \in 0 .. L /\ pos \in 0 .. M /\ L <= pos /\ n \in pos .. M
      BY <1>0, <3>1, <3>2
    <3>4. (pos - L) + k + 1 \in 1 .. n + 1
      BY <3>3
    <3> QED BY <3>1, <3>4
  <2>3. Readings(Prefix(n))[(pos - Len(buf)) + k + 1] \in Result
    BY <2>1, <2>2, ReadingsAre
  <2> QED BY <2>3, JoinEmpty
<1>5. samples' \in Seq(Seq(Byte)) /\ lines' \in Seq(Seq(Byte)) /\ UNCHANGED <<sent, pos>>
  BY <1>0, <1>1
<1> QED BY <1>3, <1>4, <1>5, EmptyTyped, Drop

(* A line is taken out: it is the reading at the buffer's start.            *)
LEMMA StatLineStep == IInv /\ StatLine => IInv'
<1> SUFFICES ASSUME IInv, StatLine PROVE IInv'
  OBVIOUS
<1>0. samples \in Seq(Seq(Byte)) /\ lines \in Seq(Seq(Byte)) /\ buf \in Seq(Byte)
      /\ pos \in 0 .. Len(Stream) /\ Len(Stream) \in Nat
  BY TypedFacts DEF IInv
<1>1. PICK nl : nl = First(NewlinesIn(buf))
  OBVIOUS
<1>2. PICK u : u = SubSeq(buf, 1, nl - 1)
  OBVIOUS
<1>3. buf # <<>> /\ buf[1] = Hash /\ NewlinesIn(buf) # {}
  BY DEF StatLine, StartsLine
<1>4. lines' = Append(lines, u) /\ buf' = After(buf, nl) /\ UNCHANGED <<sent, pos, samples>>
  BY <1>1, <1>2 DEF StatLine
<1>5. ASSUME NEW n \in pos .. Len(Stream)
      PROVE  /\ nl \in 1 .. Len(buf) /\ u \in Seq(Byte)
             /\ Readings(Prefix(n))[(pos - Len(buf)) + 1] =
                  Join(Found(<<>>, <<u>>), Readings(Prefix(n))[(pos - Len(buf)) + nl + 1])
  <2>1. Part(buf, Prefix(n), pos - Len(buf))
    BY BufIsPart DEF IInv
  <2> QED BY <1>1, <1>2, <1>3, <2>1, LineInPart
<1>6. nl \in 1 .. Len(buf) /\ u \in Seq(Byte)
  <2>1. pos \in pos .. Len(Stream)
    BY <1>0
  <2> QED BY <1>5, <2>1
<1>7. /\ Append(lines, u) \in Seq(Seq(Byte)) /\ Found(<<>>, <<u>>) \in Result
      /\ Found(samples, Append(lines, u)) = Join(Found(samples, lines), Found(<<>>, <<u>>))
  BY <1>0, <1>6, OneMoreText
<1>8. nl \in 0 .. Len(buf)
  BY <1>0, <1>6, LenProperties
<1>9. PICK x \in Result : x = Found(<<>>, <<u>>)
  BY <1>7
<1>10. Found(samples', lines') = Join(Found(samples, lines), x) /\ UNCHANGED <<sent, pos>>
       /\ samples' \in Seq(Seq(Byte)) /\ lines' \in Seq(Seq(Byte))
  BY <1>0, <1>4, <1>7, <1>9
<1>11. \A n \in pos .. Len(Stream) :
         Readings(Prefix(n))[(pos - Len(buf)) + 1] = Join(x, Readings(Prefix(n))[(pos - Len(buf)) + nl + 1])
  BY <1>5, <1>9
<1> QED BY <1>4, <1>8, <1>10, <1>11, Drop

(* A frame is taken out.                                                  *)
LEMMA TakeFrameStep == IInv /\ TakeFrame => IInv'
<1> SUFFICES ASSUME IInv, TakeFrame PROVE IInv'
  OBVIOUS
<1>0. samples \in Seq(Seq(Byte)) /\ lines \in Seq(Seq(Byte)) /\ buf \in Seq(Byte)
      /\ pos \in 0 .. Len(Stream) /\ Len(Stream) \in Nat
  BY TypedFacts DEF IInv
<1>1. PICK m : m = HeaderSize + buf[HeaderSize]
  OBVIOUS
<1>2. PICK u : u = SubSeq(buf, HeaderSize + 1, m)
  OBVIOUS
<1>3. MagicAt(buf, 1) /\ Len(buf) >= HeaderSize /\ buf[3] = VERSION /\ Len(buf) >= m
  BY <1>1 DEF TakeFrame, StartsFrame, TotalLen
<1>4. samples' = Append(samples, u) /\ buf' = After(buf, m) /\ UNCHANGED <<sent, pos, lines>>
  BY <1>1, <1>2 DEF TakeFrame, TotalLen
<1>5. ASSUME NEW n \in pos .. Len(Stream)
      PROVE  /\ m \in HeaderSize .. Len(buf) /\ u \in Seq(Byte)
             /\ Readings(Prefix(n))[(pos - Len(buf)) + 1] =
                  Join(Found(<<u>>, <<>>), Readings(Prefix(n))[(pos - Len(buf)) + m + 1])
  <2>1. Part(buf, Prefix(n), pos - Len(buf))
    BY BufIsPart DEF IInv
  <2>2. PICK s, b : s = Prefix(n) /\ b = pos - Len(buf)
    OBVIOUS
  <2>3. /\ m \in HeaderSize .. Len(buf)
        /\ SubSeq(buf, HeaderSize + 1, m) \in Seq(Byte)
        /\ Readings(s)[b + 1] = Join(Found(<<SubSeq(buf, HeaderSize + 1, m)>>, <<>>), Readings(s)[b + m + 1])
    <3>1. Part(buf, s, b)
      BY <2>1, <2>2
    <3>2. MagicAt(buf, 1) /\ Len(buf) >= HeaderSize /\ buf[3] = VERSION /\ Len(buf) >= m /\ m = HeaderSize + buf[HeaderSize]
      BY <1>1, <1>3
    <3>3. m \in HeaderSize .. Len(buf)
      BY <3>1, <3>2, FrameInPart
    <3>4. SubSeq(buf, HeaderSize + 1, m) \in Seq(Byte)
      BY <3>1, <3>2, FrameInPart
    <3>5. Readings(s)[b + 1] = Join(Found(<<SubSeq(buf, HeaderSize + 1, m)>>, <<>>), Readings(s)[b + m + 1])
      BY <3>1, <3>2, FrameInPart, SMTT(30)
    <3> QED BY <3>3, <3>4, <3>5
  <2> QED BY <1>2, <2>2, <2>3
<1>6. m \in HeaderSize .. Len(buf) /\ u \in Seq(Byte)
  <2>1. pos \in pos .. Len(Stream)
    BY <1>0
  <2> QED BY <1>5, <2>1
<1>7. /\ Append(samples, u) \in Seq(Seq(Byte)) /\ Found(<<u>>, <<>>) \in Result
      /\ Found(Append(samples, u), lines) = Join(Found(samples, lines), Found(<<u>>, <<>>))
  BY <1>0, <1>6, OneMoreFrame
<1>8. m \in 0 .. Len(buf)
  BY <1>0, <1>6, LenProperties, SizesAssumption
<1>9. PICK x \in Result : x = Found(<<u>>, <<>>)
  BY <1>7
<1>10. Found(samples', lines') = Join(Found(samples, lines), x) /\ UNCHANGED <<sent, pos>>
       /\ samples' \in Seq(Seq(Byte)) /\ lines' \in Seq(Seq(Byte))
  BY <1>0, <1>4, <1>7, <1>9
<1>11. \A n \in pos .. Len(Stream) :
         Readings(Prefix(n))[(pos - Len(buf)) + 1] = Join(x, Readings(Prefix(n))[(pos - Len(buf)) + m + 1])
  BY <1>5, <1>9
<1> QED BY <1>4, <1>8, <1>10, <1>11, Drop

(* A magic with another version is skipped.                                 *)
LEMMA BadVersionStep == IInv /\ BadVersion => IInv'
<1> SUFFICES ASSUME IInv, BadVersion PROVE IInv'
  OBVIOUS
<1>1. MagicAt(buf, 1) /\ Len(buf) >= HeaderSize /\ buf[3] # VERSION
      /\ buf' = After(buf, 2) /\ UNCHANGED <<sent, pos, samples, lines>>
  BY DEF BadVersion, StartsFrame
<1>2. 2 \in 0 .. Len(buf)
  <2>1. Len(buf) \in Nat
    BY TypedFacts DEF IInv
  <2> QED BY <1>1, <2>1, SizesAssumption
<1>3. ASSUME NEW n \in pos .. Len(Stream)
      PROVE  Readings(Prefix(n))[(pos - Len(buf)) + 1] = Readings(Prefix(n))[(pos - Len(buf)) + 2 + 1]
  <2>1. Part(buf, Prefix(n), pos - Len(buf))
    BY BufIsPart DEF IInv
  <2> QED BY <1>1, <2>1, BadInPart
<1> QED BY <1>1, <1>2, <1>3, DropJunk

(* Junk before the next place where something may begin is dropped.          *)
LEMMA DropSkipped ==
  ASSUME IInv, NEW k \in Nat, k < Len(buf), \A i \in 1 .. k : buf[i] # Hash /\ ~MagicAt(buf, i),
         buf' = After(buf, k), UNCHANGED <<sent, pos, samples, lines>>
  PROVE  IInv'
<1>1. k \in 0 .. Len(buf)
  <2>1. Len(buf) \in Nat
    BY TypedFacts DEF IInv
  <2> QED BY <2>1
<1>2. ASSUME NEW n \in pos .. Len(Stream)
      PROVE  Readings(Prefix(n))[(pos - Len(buf)) + 1] = Readings(Prefix(n))[(pos - Len(buf)) + k + 1]
  <2>1. Part(buf, Prefix(n), pos - Len(buf))
    BY BufIsPart DEF IInv
  <2> QED BY <2>1, SkipPart
<1> QED BY <1>1, <1>2, DropJunk

(* Before the first candidate there is neither a "#" nor a magic.             *)
LEMMA BeforeCandidates ==
  ASSUME Junk, buf \in Seq(Byte), NEW k \in Nat, k < Len(buf),
         \A j \in Candidates(buf) : k < j
  PROVE  \A i \in 1 .. k : buf[i] # Hash /\ ~MagicAt(buf, i)
<1> SUFFICES ASSUME NEW i \in 1 .. k PROVE buf[i] # Hash /\ ~MagicAt(buf, i)
  OBVIOUS
<1>1. CASE i = 1
  BY <1>1 DEF Junk, StartsLine, StartsFrame
<1>2. CASE i # 1
  <2>1. i \in 2 .. Len(buf)
    BY <1>2, LenProperties
  <2>2. i \notin Candidates(buf)
    BY <2>1
  <2> QED BY <2>1, <2>2 DEF Candidates
<1> QED BY <1>1, <1>2

(* Junk is skipped up to the first place where something may begin.         *)
LEMMA SkipJunkStep == IInv /\ SkipJunk => IInv'
<1> SUFFICES ASSUME IInv, SkipJunk PROVE IInv'
  OBVIOUS
<1>0. buf \in Seq(Byte) /\ Len(buf) \in Nat
  BY TypedFacts DEF IInv
<1>1. PICK c : c = First(Candidates(buf))
  OBVIOUS
<1>2. c \in 2 .. Len(buf) /\ \A j \in Candidates(buf) : c <= j
  <2>1. Candidates(buf) \subseteq 2 .. Len(buf) /\ Candidates(buf) # {}
    BY DEF SkipJunk, Candidates
  <2>2. Candidates(buf) \subseteq Nat
    BY <1>0, <2>1
  <2> QED BY <1>1, <2>1, <2>2, FirstLeast
<1>3. PICK k \in Nat : k = c - 1
  BY <1>0, <1>2
<1>4. k < Len(buf)
  BY <1>0, <1>2, <1>3
<1>5. \A j \in Candidates(buf) : k < j
  <2>1. \A j \in Candidates(buf) : j \in Nat
    BY <1>0 DEF Candidates
  <2> QED BY <1>2, <1>3, <2>1
<1>6. Junk /\ buf' = After(buf, k) /\ UNCHANGED <<sent, pos, samples, lines>>
  BY <1>1, <1>3 DEF SkipJunk
<1>7. \A i \in 1 .. k : buf[i] # Hash /\ ~MagicAt(buf, i)
  BY <1>0, <1>4, <1>5, <1>6, BeforeCandidates
<1> QED BY <1>4, <1>6, <1>7, DropSkipped

(* Junk without such a place: all but the tail goes, which may begin a magic. *)
LEMMA TrimTailStep == IInv /\ TrimTail => IInv'
<1> SUFFICES ASSUME IInv, TrimTail PROVE IInv'
  OBVIOUS
<1>0. buf \in Seq(Byte) /\ Len(buf) \in Nat /\ Len(buf) # 0
  <2>1. buf \in Seq(Byte) /\ Len(buf) \in Nat
    BY TypedFacts DEF IInv
  <2>2. buf # <<>>
    BY DEF TrimTail, CanTrim, Junk
  <2> QED BY <2>1, <2>2, EmptySeq
<1>1. PICK k \in Nat : k = Len(buf) - 1
  BY <1>0
<1>2. Junk /\ Candidates(buf) = {} /\ buf' = <<buf[Len(buf)]>> /\ UNCHANGED <<sent, pos, samples, lines>>
  BY DEF TrimTail, CanTrim, Last
<1>3. After(buf, k) = <<buf[Len(buf)]>>
  <2>1. k + 1 \in Nat \ {0} /\ Len(buf) \in Int /\ Len(buf) <= Len(buf) /\ k + 1 = Len(buf)
        /\ Len(buf) - (k + 1) + 1 = 1
    BY <1>0, <1>1
  <2>2. PICK u \in Seq(Byte) : u = SubSeq(buf, k + 1, Len(buf))
    BY <1>0, <2>1, SubSeqBytes
  <2>3. Len(u) = 1
    <3>1. Len(SubSeq(buf, k + 1, Len(buf))) = IF k + 1 <= Len(buf) THEN Len(buf) - (k + 1) + 1 ELSE 0
      BY <1>0, <2>1, SubSeqBytes
    <3> QED BY <2>1, <2>2, <3>1
  <2>4. u[1] = buf[Len(buf)]
    <3>1. 1 \in 1 .. Len(buf) - (k + 1) + 1 /\ (k + 1) + 1 - 1 = Len(buf)
      BY <1>0, <1>1, <2>1
    <3>2. SubSeq(buf, k + 1, Len(buf))[1] = buf[(k + 1) + 1 - 1]
      BY <1>0, <2>1, <3>1, SubSeqBytes
    <3> QED BY <2>2, <3>1, <3>2
  <2>5. u = <<u[1]>>
    BY <2>3
  <2> QED BY <2>2, <2>4, <2>5 DEF After
<1>4. k < Len(buf)
  BY <1>0, <1>1
<1>5. \A i \in 1 .. k : buf[i] # Hash /\ ~MagicAt(buf, i)
  BY <1>0, <1>2, <1>4, BeforeCandidates
<1> QED BY <1>2, <1>3, <1>4, <1>5, DropSkipped

(* A read adds the next bytes to the buffer: what it begins with stays.       *)
LEMMA FeedStep == IInv /\ Feed => IInv'
<1> SUFFICES ASSUME IInv, Feed PROVE IInv'
  OBVIOUS
<1>0. /\ sent \in Seq(Item) /\ Stream \in Seq(Byte) /\ Len(Stream) \in Nat
      /\ pos \in 0 .. Len(Stream) /\ buf \in Seq(Byte) /\ Len(buf) \in Nat /\ Len(buf) <= pos
      /\ buf = SubSeq(Stream, pos - Len(buf) + 1, pos)
      /\ samples \in Seq(Seq(Byte)) /\ lines \in Seq(Seq(Byte))
  BY TypedFacts DEF IInv
<1>1. PICK n \in 1 .. MaxChunk : /\ pos + n <= Len(Stream)
                                 /\ buf' = buf \o SubSeq(Stream, pos + 1, pos + n)
                                 /\ pos' = pos + n
  BY DEF Feed
<1>2. sent' = sent /\ samples' = samples /\ lines' = lines /\ Stream' = Stream
  BY DEF Feed, Stream
<1>3. PICK b \in Nat, p \in Nat : b = pos - Len(buf) /\ p = pos
  <2>1. pos \in Nat /\ Len(buf) \in Nat /\ Len(buf) <= pos
    BY <1>0
  <2>2. pos - Len(buf) \in Nat
    BY <2>1
  <2> QED BY <2>1, <2>2
<1>4. n \in Nat \ {0}
  BY SizesAssumption
<1>5. buf' \in Seq(Byte) /\ Len(buf') = Len(buf) + n
  <2>1. PICK u \in Seq(Byte) : u = SubSeq(Stream, p + 1, p + n) /\ Len(u) = n
    <3>1. p + 1 \in Nat \ {0} /\ p + n \in Int /\ p + n <= Len(Stream) /\ p + 1 <= p + n /\ (p + n) - (p + 1) + 1 = n
      BY <1>1, <1>3, <1>4
    <3>2. /\ SubSeq(Stream, p + 1, p + n) \in Seq(Byte)
          /\ Len(SubSeq(Stream, p + 1, p + n)) = IF p + 1 <= p + n THEN (p + n) - (p + 1) + 1 ELSE 0
      BY <1>0, <3>1, SubSeqBytes
    <3>3. Len(SubSeq(Stream, p + 1, p + n)) = n
      BY <3>1, <3>2
    <3> QED BY <3>2, <3>3
  <2>2. buf' = buf \o u
    BY <1>1, <1>3, <2>1
  <2> QED BY <1>0, <2>1, <2>2, ConcatProperties
<1>6. pos' - Len(buf') = b
  BY <1>0, <1>1, <1>3, <1>4, <1>5
<1>7. buf' = SubSeq(Stream, b + 1, pos')
  <2>1. PICK M \in Nat : M = Len(Stream)
    BY <1>0
  <2>2. p + n <= M /\ b <= p
    BY <1>0, <1>1, <1>3, <2>1
  <2>3. PICK i \in 1 .. M + 1, k \in b .. M, m \in p .. M : i = b + 1 /\ k = p /\ m = p + n
    <3>1. b + 1 \in 1 .. M + 1 /\ p \in b .. M /\ p + n \in p .. M
      BY <1>4, <2>2
    <3> QED BY <3>1
  <2>4. SubSeq(Stream, i, k) \o SubSeq(Stream, k + 1, m) = SubSeq(Stream, i, m)
    <3>1. k \in i - 1 .. M /\ m \in k .. M
      BY <2>3
    <3> QED BY <1>0, <2>1, <3>1, ConcatAdjacentSubSeq
  <2>5. buf = SubSeq(Stream, i, k)
    BY <1>0, <1>3, <2>3
  <2> QED BY <1>1, <1>3, <2>3, <2>4, <2>5
<1>8. pos' \in 0 .. Len(Stream) /\ Len(buf') <= pos'
  BY <1>0, <1>1, <1>3, <1>4, <1>5, <1>6
<1>9. Typed'
  BY <1>0, <1>2, <1>5, <1>6, <1>7, <1>8 DEF Typed, TypeOK
<1>10. ASSUME NEW m \in pos' .. Len(Stream)
       PROVE  Reading(Prefix(m)) = Join(Found(samples', lines'), Readings(Prefix(m))[(pos' - Len(buf')) + 1])
  <2>1. m \in pos .. Len(Stream)
    BY <1>0, <1>1, <1>3, <1>4
  <2>2. Reading(Prefix(m)) = Join(Found(samples, lines), Readings(Prefix(m))[(pos - Len(buf)) + 1])
    BY <2>1 DEF IInv, ReadSoFar
  <2> QED BY <1>2, <1>3, <1>6, <2>2
<1>11. ReadSoFar'
  BY <1>2, <1>10 DEF ReadSoFar, Prefix
<1> QED BY <1>9, <1>11 DEF IInv

(* Nothing was read.                                                      *)
LEMMA InitIInv == Init => IInv
<1> SUFFICES ASSUME Init PROVE IInv
  OBVIOUS
<1>1. sent \in Seq(Item) /\ pos = 0 /\ buf = <<>> /\ samples = <<>> /\ lines = <<>>
  BY SentAssumption DEF Init
<1>2. Stream \in Seq(Byte) /\ Len(Stream) \in Nat
  BY <1>1, StreamBytes
<1>3. Len(buf) = 0 /\ buf \in Seq(Byte) /\ samples \in Seq(Seq(Byte)) /\ lines \in Seq(Seq(Byte))
  BY <1>1
<1>4. buf = SubSeq(Stream, pos - Len(buf) + 1, pos)
  <2>1. SubSeq(Stream, 1, 0) = <<>>
    BY SubSeqEmpty
  <2>2. pos - Len(buf) + 1 = 1
    BY <1>1, <1>3
  <2> QED BY <1>1, <2>1, <2>2
<1>5. Typed
  BY <1>1, <1>2, <1>3, <1>4 DEF Typed, TypeOK
<1>6. ReadSoFar
  <2> SUFFICES ASSUME NEW n \in pos .. Len(Stream)
               PROVE  Reading(Prefix(n)) = Join(Found(samples, lines), Readings(Prefix(n))[(pos - Len(buf)) + 1])
    BY DEF ReadSoFar
  <2>1. Prefix(n) \in Seq(Byte) /\ Len(Prefix(n)) = n /\ n \in Nat
    BY <1>1, <1>2, <1>5, BufIsPart
  <2>2. Readings(Prefix(n))[1] \in Result
    <3>1. 1 \in 1 .. n + 1
      BY <2>1
    <3> QED BY <2>1, <3>1, ReadingsAre
  <2>3. (pos - Len(buf)) + 1 = 1
    BY <1>1, <1>3
  <2>4. Found(samples, lines) = Empty
    BY <1>1 DEF Empty
  <2> QED BY <2>2, <2>3, <2>4, JoinEmpty DEF Reading
<1> QED BY <1>5, <1>6 DEF IInv

(* A stutter.                                                             *)
LEMMA StutterIInv == IInv /\ UNCHANGED vars => IInv'
<1> SUFFICES ASSUME IInv, UNCHANGED vars PROVE IInv'
  OBVIOUS
<1>1. sent' = sent /\ pos' = pos /\ buf' = buf /\ samples' = samples /\ lines' = lines
  BY DEF vars
<1>2. Stream' = Stream
  BY <1>1 DEF Stream
<1> QED BY <1>1, <1>2 DEF IInv, Typed, TypeOK, ReadSoFar, Prefix

(* The invariant is inductive.                                             *)
LEMMA NextIInv == IInv /\ [Next]_vars => IInv'
BY StatLineStep, SkipJunkStep, TrimTailStep, BadVersionStep, TakeFrameStep, FeedStep, StutterIInv
   DEF Next, Extract

(* When nothing more can be taken out, the rest of what was read holds nothing. *)
LEMMA RestIsEmpty ==
  ASSUME IInv, Returns
  PROVE  Readings(Prefix(pos))[(pos - Len(buf)) + 1] = Empty
<1>0. /\ Stream \in Seq(Byte) /\ Len(Stream) \in Nat /\ pos \in 0 .. Len(Stream)
      /\ buf \in Seq(Byte) /\ Len(buf) \in Nat /\ Len(buf) <= pos
  BY TypedFacts DEF IInv
<1>1. PICK b \in Nat, p \in Nat, L \in Nat : b = pos - Len(buf) /\ p = pos /\ L = Len(buf) /\ b + L = p
  <2>1. pos \in Nat /\ Len(buf) \in Nat /\ Len(buf) <= pos
    BY <1>0
  <2>2. pos - Len(buf) \in Nat /\ (pos - Len(buf)) + Len(buf) = pos
    BY <2>1
  <2> QED BY <2>1, <2>2
<1>2. PICK s \in Seq(Byte) : s = Prefix(pos) /\ Len(s) = p /\ Part(buf, s, b)
  <2>1. pos \in pos .. Len(Stream)
    BY <1>0
  <2> QED BY <1>1, <2>1, BufIsPart DEF IInv
<1> SUFFICES Readings(s)[b + 1] = Empty
  BY <1>1, <1>2
<1>3. CASE buf = <<>>
  <2>1. b + 1 = Len(s) + 1
    BY <1>1, <1>2, <1>3, EmptySeq
  <2> QED BY <2>1, ReadingsAre
<1>4. CASE buf # <<>>
  <2>1. L \in Nat \ {0} /\ b + 1 \in 1 .. Len(s) /\ s[b + 1] = buf[1]
    <3>1. L \in Nat \ {0}
      BY <1>0, <1>1, <1>4, EmptySeq
    <3>2. 1 \in 1 .. Len(buf)
      BY <1>1, <3>1
    <3> QED BY <1>2, <3>1, <3>2, PartFacts
  <2>2. CASE StartsLine /\ NewlinesIn(buf) = {}
    <3>1. LineEnds(s, b + 1) = {}
      <4> SUFFICES ASSUME NEW j \in b + 1 .. Len(s), s[j] = Newline PROVE FALSE
        BY DEF LineEnds
      <4>1. \A i \in 1 .. Len(buf) : buf[i] = s[b + i]
        BY <1>2, PartFacts
      <4>2. j - b \in 1 .. Len(buf) /\ b + (j - b) = j
        BY <1>1, <1>2
      <4>3. buf[j - b] = Newline
        BY <4>1, <4>2
      <4> QED BY <2>2, <4>2, <4>3 DEF NewlinesIn
    <3>2. CutAt(s, b + 1)
      BY <2>1, <2>2, <3>1 DEF CutAt, StartsLine
    <3> QED BY <2>1, <3>2, CutHere
  <2>3. CASE Junk /\ Candidates(buf) = {}
    <3>1. PICK k \in Nat : k = L - 1 /\ k < Len(buf) /\ b + k + 1 = p
      <4>1. L \in Nat \ {0} /\ b + L = p /\ L = Len(buf)
        BY <1>1, <2>1
      <4>2. L - 1 \in Nat /\ L - 1 < L /\ b + (L - 1) + 1 = b + L
        BY <4>1
      <4> QED BY <4>1, <4>2
    <3>2. \A i \in 1 .. k : buf[i] # Hash /\ ~MagicAt(buf, i)
      BY <1>0, <2>3, <3>1, BeforeCandidates
    <3>3. Readings(s)[b + 1] = Readings(s)[b + k + 1]
      BY <1>2, <3>1, <3>2, SkipPart
    <3>4. buf[L] # Hash
      <4>1. CASE L = 1
        BY <2>3, <4>1 DEF Junk, StartsLine
      <4>2. CASE L # 1
        <5>1. L \in 2 .. Len(buf)
          BY <1>1, <2>1, <4>2
        <5> QED BY <2>3, <5>1 DEF Candidates
      <4> QED BY <4>1, <4>2
    <3>5. s[p] # Hash /\ p \in 1 .. Len(s)
      <4>1. L \in 1 .. Len(buf)
        BY <1>1, <2>1
      <4>2. buf[L] = s[b + L]
        BY <1>2, <4>1, PartFacts
      <4> QED BY <1>1, <1>2, <2>1, <3>4, <4>2
    <3>6. ~MagicAt(s, p)
      BY <1>2 DEF MagicAt
    <3>7. Readings(s)[p] = Readings(s)[p + 1]
      BY <3>5, <3>6, JunkHere
    <3> QED BY <1>2, <3>1, <3>3, <3>7, ReadingsAre
  <2>4. CASE StartsFrame
    <3>1. 1 < Len(buf) /\ MagicAt(buf, 1)
      BY <2>4 DEF StartsFrame, MagicAt
    <3>2. MagicAt(s, b + 1)
      BY <1>2, <3>1, PartMagic
    <3>3. CASE Len(buf) < HeaderSize
      <4>1. ~HeaderFits(s, b + 1)
        BY <1>1, <1>2, <3>3, SizesAssumption DEF HeaderFits
      <4>2. CutAt(s, b + 1)
        BY <3>2, <4>1 DEF CutAt
      <4> QED BY <2>1, <4>2, CutHere
    <3>4. CASE Len(buf) >= HeaderSize /\ buf[3] = VERSION /\ Len(buf) < TotalLen
      <4>1. HeaderSize \in 1 .. Len(buf) /\ 3 \in 1 .. Len(buf) /\ HeaderSize \in Nat
        BY <1>0, <3>4, SizesAssumption
      <4>2. HeaderFits(s, b + 1)
        BY <1>1, <1>2, <3>2, <3>4, <4>1 DEF HeaderFits
      <4>3. PICK c \in 0 .. 255 : c = buf[HeaderSize] /\ c = s[b + HeaderSize]
        <5>1. buf[HeaderSize] = s[b + HeaderSize]
          BY <1>2, <4>1, PartFacts
        <5>2. buf[HeaderSize] \in 0 .. 255
          BY <1>0, <4>1, ElementOfSeq DEF Byte
        <5> QED BY <5>1, <5>2
      <4>4. FrameEnd(s, b + 1) = b + HeaderSize + c
        <5>1. (b + 1) + HeaderSize - 1 = b + HeaderSize
          BY <4>1
        <5> QED BY <4>3, <5>1 DEF FrameEnd
      <4>5. L < HeaderSize + c
        BY <1>1, <3>4, <4>3 DEF TotalLen
      <4>6. FrameEnd(s, b + 1) > Len(s)
        BY <1>1, <1>2, <4>1, <4>4, <4>5
      <4>7. s[(b + 1) + 2] = VERSION
        <5>1. (b + 1) + 2 = b + 3
          OBVIOUS
        <5>2. buf[3] = s[b + 3]
          BY <1>2, <4>1, PartFacts
        <5> QED BY <3>4, <5>1, <5>2
      <4>8. CutAt(s, b + 1)
        BY <4>2, <4>6, <4>7 DEF CutAt
      <4> QED BY <2>1, <4>8, CutHere
    <3>5. Len(buf) < HeaderSize \/ (Len(buf) >= HeaderSize /\ buf[3] = VERSION /\ Len(buf) < TotalLen)
      BY <1>4, <2>4 DEF Returns, StartsLine, Junk, StartsFrame, MagicAt, MAGIC, Hash
    <3> QED BY <3>3, <3>4, <3>5
  <2> QED BY <1>4, <2>2, <2>3, <2>4 DEF Returns
<1> QED BY <1>3, <1>4

(* What it implies.                                                       *)
LEMMA IInvTypeOK == IInv => TypeOK
BY DEF IInv, Typed

(* When feed() returned, the rest of what was read adds nothing.             *)
LEMMA IInvChunking == IInv => ChunkingIrrelevant
<1> SUFFICES ASSUME IInv, Returns PROVE Reading(SubSeq(Stream, 1, pos)) = Found(samples, lines)
  BY DEF ChunkingIrrelevant
<1>0. pos \in 0 .. Len(Stream) /\ Len(Stream) \in Nat /\ samples \in Seq(Seq(Byte)) /\ lines \in Seq(Seq(Byte))
  BY TypedFacts DEF IInv
<1>1. pos \in pos .. Len(Stream)
  BY <1>0
<1>2. Reading(Prefix(pos)) = Join(Found(samples, lines), Readings(Prefix(pos))[(pos - Len(buf)) + 1])
  BY <1>1 DEF IInv, ReadSoFar
<1>3. Readings(Prefix(pos))[(pos - Len(buf)) + 1] = Empty
  BY RestIsEmpty
<1>4. Found(samples, lines) \in Result
  BY <1>0, FoundTyped
<1>5. Reading(Prefix(pos)) = Found(samples, lines)
  BY <1>2, <1>3, <1>4, JoinEmpty
<1> QED BY <1>5 DEF Prefix

-----------------------------------------------------------------------------
(* A clean link *)

(* Only frames, lines and the console's other text were sent.                 *)
Clean == \A i \in 1 .. Len(sent) : sent[i].kind # "noise"

(* A line of the board, a frame, alone.                                     *)
LEMMA WholeLine ==
  ASSUME NEW u, NEW s, NEW b, Part(u, s, b), IsLine(u)
  PROVE  Readings(s)[b + 1] = Join(Found(<<>>, <<SubSeq(u, 1, Len(u) - 1)>>), Readings(s)[(b + Len(u)) + 1])
<1>1. u # <<>> /\ u[1] = Hash /\ NewlinesIn(u) = {Len(u)} /\ NewlinesIn(u) # {} /\ NewlinesIn(u) \subseteq Nat
  BY DEF IsLine, EndsLine, NewlinesIn
<1>2. PICK nl : nl = First(NewlinesIn(u))
  OBVIOUS
<1>3. nl \in NewlinesIn(u)
  BY <1>1, <1>2, FirstLeast
<1>4. nl = Len(u)
  BY <1>1, <1>3
<1>5. Readings(s)[b + 1] = Join(Found(<<>>, <<SubSeq(u, 1, nl - 1)>>), Readings(s)[b + nl + 1])
  <2>1. u # <<>> /\ u[1] = Hash /\ NewlinesIn(u) # {} /\ nl = First(NewlinesIn(u))
    BY <1>1, <1>2
  <2>2. /\ nl \in 1 .. Len(u)
        /\ SubSeq(u, 1, nl - 1) \in Seq(Byte)
        /\ Readings(s)[b + 1] = Join(Found(<<>>, <<SubSeq(u, 1, nl - 1)>>), Readings(s)[b + nl + 1])
    BY <2>1, LineInPart
  <2> QED BY <2>2
<1> QED BY <1>4, <1>5

LEMMA WholeFrame ==
  ASSUME NEW u, NEW s, NEW b, Part(u, s, b), IsFrame(u)
  PROVE  Readings(s)[b + 1] = Join(Found(<<SubSeq(u, HeaderSize + 1, Len(u))>>, <<>>), Readings(s)[(b + Len(u)) + 1])
<1>1. PICK m : m = HeaderSize + u[HeaderSize]
  OBVIOUS
<1>2. Len(u) \in Nat
  BY PartFacts
<1>3. MagicAt(u, 1) /\ Len(u) >= HeaderSize /\ u[3] = VERSION /\ Len(u) = m
  BY <1>1 DEF IsFrame
<1>4. Len(u) >= m
  BY <1>2, <1>3
<1>5. Readings(s)[b + 1] = Join(Found(<<SubSeq(u, HeaderSize + 1, m)>>, <<>>), Readings(s)[b + m + 1])
  <2>1. MagicAt(u, 1) /\ Len(u) >= HeaderSize /\ u[3] = VERSION /\ Len(u) >= m /\ m = HeaderSize + u[HeaderSize]
    BY <1>1, <1>3, <1>4
  <2> QED BY <2>1, FrameInPart
<1> QED BY <1>3, <1>5

(* An item that is not noise is read as what it is, and then what follows it.  *)
LEMMA ItemRead ==
  ASSUME NEW t \in Item, t.kind # "noise", NEW s, NEW b, Part(t.bytes, s, b)
  PROVE  /\ FrameIn(t) \in Seq(Seq(Byte)) /\ TextIn(t) \in Seq(Seq(Byte))
         /\ Readings(s)[b + 1] = Join(Found(FrameIn(t), TextIn(t)), Readings(s)[(b + Len(t.bytes)) + 1])
<1>0. /\ t.kind \in {"frame", "line", "log", "noise"} /\ t.bytes \in Seq(Byte)
      /\ t.kind = "frame" => IsFrame(t.bytes)
      /\ t.kind = "line" => IsLine(t.bytes)
      /\ t.kind = "log" => IsLog(t.bytes)
  BY DEF Item
<1>1. PICK u \in Seq(Byte) : u = t.bytes
  BY <1>0
<1>2. PICK L \in Nat : L = Len(u)
  BY LenProperties
<1>3. Part(u, s, b) /\ s \in Seq(Byte) /\ b \in Nat /\ b + L <= Len(s) /\ Len(s) \in Nat
  BY <1>1, <1>2, PartFacts
<1>e. <<>> \in Seq(Seq(Byte))
  BY EmptySeq
<1>4. CASE t.kind = "frame"
  <2>2. SubSeq(u, HeaderSize + 1, L) \in Seq(Byte)
    <3>1. HeaderSize + 1 \in Nat \ {0} /\ L \in Int /\ L <= Len(u)
      BY <1>2, SizesAssumption
    <3> QED BY <3>1, SubSeqBytes
  <2>3. Readings(s)[b + 1] = Join(Found(<<SubSeq(u, HeaderSize + 1, L)>>, <<>>), Readings(s)[b + L + 1])
    <3>1. IsFrame(u)
      BY <1>0, <1>1, <1>4
    <3> QED BY <1>2, <1>3, <3>1, WholeFrame
  <2>4. FrameIn(t) = <<SubSeq(u, HeaderSize + 1, L)>> /\ TextIn(t) = <<>>
    BY <1>1, <1>2, <1>4 DEF FrameIn, TextIn, After
  <2>5. FrameIn(t) \in Seq(Seq(Byte))
    BY <2>2, <2>4
  <2> QED BY <1>1, <1>2, <1>e, <2>3, <2>4, <2>5
<1>5. CASE t.kind = "line"
  <2>3. SubSeq(u, 1, L - 1) \in Seq(Byte)
    <3>1. 1 \in Nat \ {0} /\ L - 1 \in Int /\ L - 1 <= Len(u)
      BY <1>2
    <3> QED BY <3>1, SubSeqBytes
  <2>4. Readings(s)[b + 1] = Join(Found(<<>>, <<SubSeq(u, 1, L - 1)>>), Readings(s)[b + L + 1])
    <3>1. IsLine(u)
      BY <1>0, <1>1, <1>5
    <3> QED BY <1>2, <1>3, <3>1, WholeLine
  <2>5. TextIn(t) = <<SubSeq(u, 1, L - 1)>> /\ FrameIn(t) = <<>>
    BY <1>1, <1>2, <1>5 DEF FrameIn, TextIn
  <2>6. TextIn(t) \in Seq(Seq(Byte))
    BY <2>3, <2>5
  <2> QED BY <1>1, <1>2, <1>e, <2>4, <2>5, <2>6
<1>6. CASE t.kind = "log"
  <2>1. u # <<>> /\ \A i \in 1 .. L : u[i] # Hash /\ ~MagicAt(u, i)
    BY <1>0, <1>1, <1>2, <1>6 DEF IsLog, EndsLine
  <2>2. u[L] = Newline
    BY <1>0, <1>1, <1>2, <1>6 DEF IsLog, EndsLine
  <2>3. L # 0
    BY <1>2, <2>1, EmptySeq
  <2>4. PICK k \in Nat : k = L - 1 /\ k < Len(u) /\ b + k + 1 = b + L
    BY <1>2, <1>3, <2>3
  <2>5. \A i \in 1 .. k : u[i] # Hash /\ ~MagicAt(u, i)
    BY <2>1, <2>4
  <2>6. Readings(s)[b + 1] = Readings(s)[b + k + 1]
    BY <1>3, <2>4, <2>5, SkipPart
  <2>7. s[b + L] = Newline /\ b + L \in 1 .. Len(s)
    <3>1. L \in 1 .. Len(u)
      BY <1>2, <2>3
    <3> QED BY <1>3, <2>2, <3>1, PartFacts
  <2>8. s[b + L] # Hash /\ ~MagicAt(s, b + L)
    BY <2>7 DEF Newline, Hash, MagicAt, MAGIC
  <2>9. Readings(s)[b + L] = Readings(s)[(b + L) + 1]
    BY <1>3, <2>7, <2>8, JunkHere
  <2>10. Readings(s)[(b + L) + 1] \in Result
    <3>1. (b + L) + 1 \in 1 .. Len(s) + 1
      BY <1>3
    <3> QED BY <1>3, <3>1, ReadingsAre
  <2>11. FrameIn(t) = <<>> /\ TextIn(t) = <<>>
    BY <1>6 DEF FrameIn, TextIn
  <2>12. Readings(s)[b + 1] = Join(Empty, Readings(s)[(b + L) + 1])
    BY <2>4, <2>6, <2>9, <2>10, JoinEmpty
  <2> QED BY <1>1, <1>2, <1>e, <2>11, <2>12 DEF Empty
<1> QED BY <1>0, <1>4, <1>5, <1>6

(* Each of the parts is where the concatenation has got to before it.        *)
LEMMA FlattenParts ==
  ASSUME NEW q \in Seq(Seq(Byte)), NEW F, Flattens(F, q, Byte), NEW k \in 1 .. Len(q)
  PROVE  Part(q[k], FlattenSeq(q), Len(F[k - 1])) /\ Len(F[k]) = Len(F[k - 1]) + Len(q[k])
<1> DEFINE N == Len(q)
           Begins(n) == /\ Len(F[k]) <= Len(F[k + n])
                        /\ \A i \in 1 .. Len(F[k]) : F[k + n][i] = F[k][i]
           T == {n \in Nat : n <= N - k => Begins(n)}
<1>0. N \in Nat /\ F \in [0 .. N -> Seq(Byte)] /\ k \in 1 .. N
  BY LenProperties DEF Flattens
<1>1. \A n \in 0 .. N : F[n] \in Seq(Byte) /\ Len(F[n]) \in Nat
  BY <1>0, LenProperties
<1>2. \A n \in 1 .. N : F[n] = F[n - 1] \o q[n] /\ q[n] \in Seq(Byte) /\ Len(q[n]) \in Nat
  BY ElementOfSeq, LenProperties DEF Flattens
<1>3. ASSUME NEW n \in 1 .. N
      PROVE  /\ Len(F[n]) = Len(F[n - 1]) + Len(q[n])
             /\ \A i \in 1 .. Len(F[n - 1]) : F[n][i] = F[n - 1][i]
             /\ \A i \in 1 .. Len(q[n]) : F[n][Len(F[n - 1]) + i] = q[n][i]
  <2>1. PICK a \in Seq(Byte), b \in Seq(Byte) : a = F[n - 1] /\ b = q[n] /\ F[n] = a \o b
    <3>1. n - 1 \in 0 .. N
      BY <1>0
    <3> QED BY <1>1, <1>2, <3>1
  <2>2. PICK A \in Nat, B \in Nat : A = Len(a) /\ B = Len(b)
    BY LenProperties
  <2>3. Len(a \o b) = A + B /\ \A i \in 1 .. A + B : (a \o b)[i] = IF i <= A THEN a[i] ELSE b[i - A]
    BY <2>2, ConcatProperties
  <2>4. \A i \in 1 .. A : (a \o b)[i] = a[i]
    BY <2>3
  <2>5. ASSUME NEW i \in 1 .. B PROVE (a \o b)[A + i] = b[i]
    <3>1. A + i \in 1 .. A + B /\ ~(A + i <= A) /\ (A + i) - A = i
      OBVIOUS
    <3> QED BY <2>3, <3>1
  <2>6. Len(F[n]) = Len(F[n - 1]) + Len(q[n])
    BY <2>1, <2>2, <2>3
  <2>7. \A i \in 1 .. Len(F[n - 1]) : F[n][i] = F[n - 1][i]
    BY <2>1, <2>2, <2>4
  <2>8. \A i \in 1 .. Len(q[n]) : F[n][Len(F[n - 1]) + i] = q[n][i]
    BY <2>1, <2>2, <2>5
  <2> QED BY <2>6, <2>7, <2>8
<1>4. 0 \in T
  <2>1. k + 0 = k /\ Len(F[k]) \in Nat
    BY <1>0, <1>1
  <2> QED BY <2>1
<1>5. ASSUME NEW n \in Nat, n \in T PROVE n + 1 \in T
  <2> HIDE DEF Begins
  <2> SUFFICES ASSUME n + 1 <= N - k PROVE Begins(n + 1)
    OBVIOUS
  <2>1. PICK m \in 1 .. N : m = k + (n + 1) /\ m - 1 = k + n
    BY <1>0
  <2>2. Len(F[k]) <= Len(F[m - 1]) /\ \A i \in 1 .. Len(F[k]) : F[m - 1][i] = F[k][i]
    <3>1. Begins(n)
      BY <1>0, <1>5
    <3> QED BY <2>1, <3>1 DEF Begins
  <2>3. Len(F[m]) = Len(F[m - 1]) + Len(q[m]) /\ \A i \in 1 .. Len(F[m - 1]) : F[m][i] = F[m - 1][i]
    BY <1>3
  <2>4. Len(F[k]) \in Nat /\ Len(F[m]) \in Nat /\ Len(F[m - 1]) \in Nat /\ Len(q[m]) \in Nat
    BY <1>0, <1>1, <1>2
  <2>5. Len(F[k]) <= Len(F[m])
    <3>1. PICK a \in Nat, b \in Nat, c \in Nat : a = Len(F[k]) /\ b = Len(F[m - 1]) /\ c = Len(q[m])
      BY <2>4
    <3>2. Len(F[m]) = b + c /\ a <= b
      BY <2>2, <2>3, <3>1
    <3>3. a <= b + c
      BY <3>2
    <3> QED BY <3>1, <3>2, <3>3
  <2>6. \A i \in 1 .. Len(F[k]) : i \in 1 .. Len(F[m - 1])
    <3>1. PICK a \in Nat, b \in Nat : a = Len(F[k]) /\ b = Len(F[m - 1]) /\ a <= b
      BY <2>2, <2>4
    <3>2. \A i \in 1 .. a : i \in 1 .. b
      BY <3>1
    <3> QED BY <3>1, <3>2
  <2>7. \A i \in 1 .. Len(F[k]) : F[m][i] = F[k][i]
    BY <2>2, <2>3, <2>6
  <2> QED BY <2>1, <2>5, <2>7 DEF Begins
<1>6. N - k \in T
  <2>1. N - k \in Nat
    BY <1>0
  <2> HIDE DEF T
  <2> QED BY <1>4, <1>5, <2>1, NatSet
<1>7. Len(F[k]) <= Len(F[N]) /\ \A i \in 1 .. Len(F[k]) : F[N][i] = F[k][i]
  <2>1. N - k \in Nat /\ k + (N - k) = N
    BY <1>0
  <2> QED BY <1>6, <2>1
<1>8. PICK a \in Nat, c \in Nat, M \in Nat :
        a = Len(F[k - 1]) /\ c = Len(q[k]) /\ M = Len(F[N]) /\ Len(F[k]) = a + c /\ a + c <= M
  <2>1. k - 1 \in 0 .. N /\ N \in 0 .. N
    BY <1>0
  <2>2. Len(F[k - 1]) \in Nat /\ Len(q[k]) \in Nat /\ Len(F[N]) \in Nat
    BY <1>0, <1>1, <1>2, <2>1
  <2>3. Len(F[k]) = Len(F[k - 1]) + Len(q[k])
    BY <1>0, <1>3
  <2> QED BY <1>7, <2>2, <2>3
<1>9. ASSUME NEW i \in 1 .. Len(q[k]) PROVE q[k][i] = F[N][a + i]
  <2>1. F[k][a + i] = q[k][i]
    BY <1>0, <1>3, <1>8
  <2>2. a + i \in 1 .. Len(F[k])
    <3>1. i \in 1 .. c /\ Len(F[k]) = a + c
      BY <1>8
    <3>2. a + i \in 1 .. a + c
      BY <3>1
    <3> QED BY <3>1, <3>2
  <2> QED BY <1>7, <2>1, <2>2
<1>10. FlattenSeq(q) = F[N] /\ F[N] \in Seq(Byte) /\ q[k] \in Seq(Byte)
  <2>1. N \in 0 .. N
    BY <1>0
  <2> QED BY <1>0, <1>1, <1>2, <2>1 DEF Flattens
<1> QED BY <1>8, <1>9, <1>10 DEF Part

(* A clean stream holds the frames and lines that were sent.                 *)
LEMMA CleanReading ==
  ASSUME sent \in Seq(Item), Clean
  PROVE  /\ Payloads \in Seq(Seq(Byte)) /\ Texts \in Seq(Seq(Byte))
         /\ Reading(Stream) = Found(Payloads, Texts)
<1> DEFINE q == [i \in 1 .. Len(sent) |-> sent[i].bytes]
           qf == [i \in 1 .. Len(sent) |-> FrameIn(sent[i])]
           qt == [i \in 1 .. Len(sent) |-> TextIn(sent[i])]
<1>1. PICK N \in Nat : N = Len(sent)
  BY LenProperties
<1>2. \A i \in 1 .. N : sent[i] \in Item /\ sent[i].kind # "noise" /\ sent[i].bytes \in Seq(Byte)
  <2>1. \A i \in 1 .. N : sent[i] \in Item
    BY <1>1, ElementOfSeq
  <2> QED BY <1>1, <2>1 DEF Clean, Item
<1>3. q \in Seq(Seq(Byte)) /\ Len(q) = N /\ \A i \in 1 .. N : q[i] = sent[i].bytes
  BY <1>1, <1>2
<1>4. Stream = FlattenSeq(q) /\ Payloads = FlattenSeq(qf) /\ Texts = FlattenSeq(qt)
  BY DEF Stream, Payloads, Texts
<1>s. Stream \in Seq(Byte) /\ Len(Stream) \in Nat
  BY StreamBytes
<1> HIDE DEF q
<1>5. PICK F : Flattens(F, q, Byte)
  BY <1>3, FlattenIs
<1>6. ASSUME NEW k \in 1 .. N
      PROVE  /\ FrameIn(sent[k]) \in Seq(Seq(Byte)) /\ TextIn(sent[k]) \in Seq(Seq(Byte))
             /\ Readings(Stream)[Len(F[k - 1]) + 1] =
                  Join(Found(FrameIn(sent[k]), TextIn(sent[k])), Readings(Stream)[Len(F[k]) + 1])
             /\ Len(F[k]) <= Len(Stream)
  <2>1. Part(q[k], Stream, Len(F[k - 1])) /\ Len(F[k]) = Len(F[k - 1]) + Len(q[k])
    BY <1>3, <1>4, <1>5, FlattenParts
  <2>2. PICK t \in Item : t = sent[k] /\ t.kind # "noise" /\ t.bytes = q[k]
    BY <1>2, <1>3
  <2>3. PICK b : b = Len(F[k - 1])
    OBVIOUS
  <2>4. Part(t.bytes, Stream, b)
    BY <2>1, <2>2, <2>3
  <2>5. FrameIn(t) \in Seq(Seq(Byte)) /\ TextIn(t) \in Seq(Seq(Byte))
    BY <2>2, <2>4, ItemRead
  <2>6. Readings(Stream)[b + 1] = Join(Found(FrameIn(t), TextIn(t)), Readings(Stream)[(b + Len(t.bytes)) + 1])
    BY <2>2, <2>4, ItemRead
  <2>7. Len(F[k]) = b + Len(t.bytes) /\ Len(F[k]) <= Len(Stream)
    BY <2>1, <2>2, <2>3, <2>4, PartFacts
  <2> QED BY <2>2, <2>3, <2>5, <2>6, <2>7
<1>7. qf \in Seq(Seq(Seq(Byte))) /\ Len(qf) = N /\ \A i \in 1 .. N : qf[i] = FrameIn(sent[i])
  <2>1. \A i \in 1 .. N : FrameIn(sent[i]) \in Seq(Seq(Byte))
    BY <1>6
  <2> QED BY <1>1, <2>1
<1>8. qt \in Seq(Seq(Seq(Byte))) /\ Len(qt) = N /\ \A i \in 1 .. N : qt[i] = TextIn(sent[i])
  <2>1. \A i \in 1 .. N : TextIn(sent[i]) \in Seq(Seq(Byte))
    BY <1>6
  <2> QED BY <1>1, <2>1
<1> HIDE DEF qf, qt
<1>9. PICK P : Flattens(P, qf, Seq(Byte))
  BY <1>7, FlattenIs
<1>10. PICK X : Flattens(X, qt, Seq(Byte))
  BY <1>8, FlattenIs
<1>11. \A n \in 0 .. N : P[n] \in Seq(Seq(Byte)) /\ X[n] \in Seq(Seq(Byte)) /\ F[n] \in Seq(Byte) /\ Len(F[n]) \in Nat
  <2>1. \A n \in 0 .. N : P[n] \in Seq(Seq(Byte)) /\ X[n] \in Seq(Seq(Byte)) /\ F[n] \in Seq(Byte)
    BY <1>3, <1>5, <1>7, <1>8, <1>9, <1>10 DEF Flattens
  <2> QED BY <2>1, LenProperties
<1> DEFINE R(n) == Readings(Stream)[Len(F[n]) + 1]
           T == {n \in Nat : n <= N => Reading(Stream) = Join(Found(P[n], X[n]), R(n))}
<1>12. 0 \in T
  <2>1. P[0] = <<>> /\ X[0] = <<>> /\ F[0] = <<>>
    BY <1>5, <1>9, <1>10 DEF Flattens
  <2>2. R(0) = Reading(Stream)
    BY <2>1 DEF Reading
  <2>3. Reading(Stream) \in Result
    <3>1. 1 \in 1 .. Len(Stream) + 1
      BY <1>s
    <3> QED BY <1>s, <3>1, ReadingsAre DEF Reading
  <2>4. Found(P[0], X[0]) = Empty
    BY <2>1 DEF Empty
  <2>5. Join(Empty, Reading(Stream)) = Reading(Stream)
    BY <2>3, JoinEmpty
  <2> HIDE DEF R
  <2> QED BY <2>2, <2>4, <2>5
<1>13. ASSUME NEW n \in Nat, n \in T PROVE n + 1 \in T
  <2> HIDE DEF R
  <2> SUFFICES ASSUME n + 1 <= N PROVE Reading(Stream) = Join(Found(P[n + 1], X[n + 1]), R(n + 1))
    OBVIOUS
  <2>1. n + 1 \in 1 .. N /\ (n + 1) - 1 = n /\ n \in 0 .. N /\ n + 1 \in 0 .. N /\ n <= N
    OBVIOUS
  <2>2. PICK f \in Seq(Seq(Byte)), x \in Seq(Seq(Byte)) : f = FrameIn(sent[n + 1]) /\ x = TextIn(sent[n + 1])
    BY <1>6, <2>1
  <2>3. R(n) = Join(Found(f, x), R(n + 1))
    BY <1>6, <2>1, <2>2 DEF R
  <2>4. Reading(Stream) = Join(Found(P[n], X[n]), R(n))
    BY <1>13, <2>1
  <2>5. P[n + 1] = P[n] \o f /\ X[n + 1] = X[n] \o x
    BY <1>7, <1>8, <1>9, <1>10, <2>1, <2>2 DEF Flattens
  <2>6. R(n + 1) \in Result
    <3>1. Len(F[n + 1]) + 1 \in 1 .. Len(Stream) + 1
      BY <1>6, <1>11, <1>s, <2>1
    <3> QED BY <1>s, <3>1, ReadingsAre DEF R
  <2>7. PICK g \in Seq(Seq(Byte)), y \in Seq(Seq(Byte)) : g = P[n] /\ y = X[n]
    BY <1>11, <2>1
  <2>8. Found(g, y) \in Result /\ Found(f, x) \in Result
    BY FoundTyped
  <2>9. Join(Found(g, y), Found(f, x)) = Found(g \o f, y \o x)
    BY FoundTyped DEF Join
  <2>10. Join(Found(g, y), Join(Found(f, x), R(n + 1))) = Join(Join(Found(g, y), Found(f, x)), R(n + 1))
    BY <2>6, <2>8, JoinAssociative
  <2> QED BY <2>3, <2>4, <2>5, <2>7, <2>9, <2>10
<1>14. Reading(Stream) = Join(Found(P[N], X[N]), R(N))
  <2>1. N \in T
    <3> HIDE DEF T
    <3> QED BY <1>12, <1>13, NatSet
  <2> HIDE DEF R
  <2> QED BY <2>1
<1>15. Stream = F[N] /\ Payloads = P[N] /\ Texts = X[N] /\ N \in 0 .. N
  BY <1>3, <1>4, <1>5, <1>7, <1>8, <1>9, <1>10 DEF Flattens
<1>16. R(N) = Empty
  BY <1>s, <1>15, ReadingsAre
<1>17. Payloads \in Seq(Seq(Byte)) /\ Texts \in Seq(Seq(Byte))
  BY <1>11, <1>15
<1>18. Found(Payloads, Texts) \in Result
  BY <1>17, FoundTyped
<1>19. Reading(Stream) = Found(Payloads, Texts)
  <2> HIDE DEF R
  <2> QED BY <1>14, <1>15, <1>16, <1>18, JoinEmpty
<1> QED BY <1>17, <1>19

(* A sequence is a prefix of what it was made longer to.                     *)
LEMMA ConcatIsPrefix ==
  ASSUME NEW S, NEW s \in Seq(S), NEW t \in Seq(S)
  PROVE  IsPrefix(s, s \o t)
<1>1. PICK A \in Nat, B \in Nat : A = Len(s) /\ B = Len(t)
  BY LenProperties
<1>2. PICK u \in Seq(S) : u = s \o t /\ Len(u) = A + B /\ \A i \in 1 .. A : u[i] = s[i]
  <2>1. s \o t \in Seq(S) /\ Len(s \o t) = A + B
    BY <1>1, ConcatProperties
  <2>2. \A i \in 1 .. A : i \in 1 .. A + B /\ i <= A
    OBVIOUS
  <2>3. \A i \in 1 .. A : (s \o t)[i] = s[i]
    BY <1>1, <2>2, ConcatProperties
  <2> QED BY <2>1, <2>3
<1>3. SubSeq(s, 1, A) = s
  BY <1>1, SubSeqFull
<1>4. SubSeq(u, 1, A) = s
  <2>1. \A i \in 1 .. A : u[i] \in S
    BY <1>1, <1>2, ElementOfSeq
  <2>2. PICK v \in Seq(S) : v = SubSeq(u, 1, A) /\ Len(v) = A /\ \A i \in 1 .. A : v[i] = u[i]
    <3>1. /\ SubSeq(u, 1, A) \in Seq(S)
          /\ Len(SubSeq(u, 1, A)) = IF 1 <= A THEN A - 1 + 1 ELSE 0
          /\ \A i \in 1 .. A - 1 + 1 : SubSeq(u, 1, A)[i] = u[1 + i - 1]
      BY <2>1, SubSeqProperties
    <3>2. A - 1 + 1 = A /\ \A i \in 1 .. A : 1 + i - 1 = i
      OBVIOUS
    <3>3. Len(SubSeq(u, 1, A)) = A
      BY <3>1, <3>2
    <3>4. \A i \in 1 .. A : SubSeq(u, 1, A)[i] = u[i]
      BY <3>1, <3>2
    <3> QED BY <3>1, <3>3, <3>4
  <2>3. \A i \in 1 .. Len(v) : v[i] = s[i]
    BY <1>2, <2>2
  <2> QED BY <1>1, <2>2, <2>3, SeqEqual
<1>5. A <= A + B
  OBVIOUS
<1> QED BY <1>1, <1>2, <1>3, <1>4, <1>5 DEF IsPrefix

(* Of a clean stream what was found is what was sent so far.                 *)
LEMMA IInvIntact == IInv => ItemsIntact
<1> SUFFICES ASSUME IInv PROVE NothingMisread
  BY IInvTypeOK DEF ItemsIntact
<1> SUFFICES ASSUME Clean
             PROVE  /\ IsPrefix(samples, Payloads) /\ IsPrefix(lines, Texts)
                    /\ (Returns /\ pos = Len(Stream)) => samples = Payloads /\ lines = Texts
  BY DEF NothingMisread, Clean
<1>0. /\ sent \in Seq(Item) /\ pos \in 0 .. Len(Stream) /\ Len(Stream) \in Nat /\ Stream \in Seq(Byte)
      /\ samples \in Seq(Seq(Byte)) /\ lines \in Seq(Seq(Byte)) /\ Len(buf) \in Nat /\ Len(buf) <= pos
  BY TypedFacts DEF IInv
<1>1. /\ Payloads \in Seq(Seq(Byte)) /\ Texts \in Seq(Seq(Byte))
      /\ Reading(Stream) = Found(Payloads, Texts)
  BY <1>0, CleanReading
<1>2. Prefix(Len(Stream)) = Stream
  BY <1>0, SubSeqFull DEF Prefix
<1>3. PICK y : y = Readings(Stream)[(pos - Len(buf)) + 1]
  OBVIOUS
<1>4. Found(Payloads, Texts) = Join(Found(samples, lines), y)
  <2>1. Len(Stream) \in pos .. Len(Stream)
    BY <1>0
  <2>2. Reading(Prefix(Len(Stream))) =
          Join(Found(samples, lines), Readings(Prefix(Len(Stream)))[(pos - Len(buf)) + 1])
    BY <2>1 DEF IInv, ReadSoFar
  <2> QED BY <1>1, <1>2, <1>3, <2>2
<1>5. y \in Result
  <2>1. (pos - Len(buf)) + 1 \in 1 .. Len(Stream) + 1
    <3>1. PICK M \in Nat, L \in Nat, p \in Nat : M = Len(Stream) /\ L = Len(buf) /\ p = pos /\ L <= p /\ p <= M
      <4>1. pos \in Nat /\ pos <= Len(Stream)
        BY <1>0
      <4> QED BY <1>0, <4>1
    <3>2. (p - L) + 1 \in 1 .. M + 1
      BY <3>1
    <3> QED BY <3>1, <3>2
  <2> QED BY <1>0, <1>3, <2>1, ReadingsAre
<1>6. y.frames \in Seq(Seq(Byte)) /\ y.texts \in Seq(Seq(Byte))
  BY <1>5 DEF Result
<1>7. Found(samples, lines) \in Result /\ Found(samples, lines).frames = samples /\ Found(samples, lines).texts = lines
  BY <1>0, FoundTyped
<1>8. Found(Payloads, Texts).frames = Payloads /\ Found(Payloads, Texts).texts = Texts
  BY <1>1, FoundTyped
<1>9. Payloads = samples \o y.frames /\ Texts = lines \o y.texts
  BY <1>4, <1>5, <1>7, <1>8, JoinTyped
<1>10. IsPrefix(samples, Payloads)
  BY <1>0, <1>6, <1>9, ConcatIsPrefix
<1>11. IsPrefix(lines, Texts)
  BY <1>0, <1>6, <1>9, ConcatIsPrefix
<1>12. ASSUME Returns, pos = Len(Stream) PROVE samples = Payloads /\ lines = Texts
  <2>1. Reading(SubSeq(Stream, 1, pos)) = Found(samples, lines)
    BY <1>12, IInvChunking DEF ChunkingIrrelevant
  <2>2. Found(Payloads, Texts) = Found(samples, lines)
    BY <1>1, <1>2, <1>12, <2>1 DEF Prefix
  <2> QED BY <1>7, <1>8, <2>2
<1> QED BY <1>10, <1>11, <1>12

-----------------------------------------------------------------------------

(* The buffer of StreamFramer is always the end of what was read.             *)
THEOREM TypeCorrect == Spec => []TypeOK
BY InitIInv, NextIInv, IInvTypeOK, PTL DEF Spec

(* The pieces a stream is read in make no difference: whenever feed() has     *)
(* returned, the samples and lines of all its calls are those of the bytes    *)
(* read so far, whatever these are.                                         *)
THEOREM ChunkingIrrelevantCorrect == Spec => []ChunkingIrrelevant
BY InitIInv, NextIInv, IInvChunking, PTL DEF Spec

(* Of a clean link every frame and every line comes out once, whole and in    *)
(* order, though payloads hold magics, "#" and newlines and the pieces cut    *)
(* items anywhere: _try_extract_one never takes one thing for another.        *)
THEOREM ItemsIntactCorrect == Spec => []ItemsIntact
BY InitIInv, NextIInv, IInvIntact, PTL DEF Spec
=============================================================================
