----------------------------- MODULE StreamFramer -----------------------------
(***************************************************************************)
(* collector/wire.py: StreamFramer cuts a byte stream, read in pieces of any  *)
(* size, into binary frames and "#...\n" lines.                             *)
(*                                                                         *)
(* Bytes are numbers.  The header keeps the fields the framer looks at: the   *)
(* two bytes of MAGIC, the version, and csi_len as its last byte; HeaderSize  *)
(* stands for 40 and TailMax for 4096.  A sample is its csi_data.  Each       *)
(* action is one call of _try_extract_one, the recursive ones included;      *)
(* feed() calls it until it returns None.  The senders are external: the     *)
(* frames and lines of the board, and noise.                                *)
(***************************************************************************)
EXTENDS Integers, SequencesExt

CONSTANTS
  Sent,        \* the possible sequences of items that are sent
  HeaderSize,
  TailMax,
  MaxChunk     \* the most bytes one read returns

Byte == 0..255
MAGIC == <<26, 197>>
VERSION == 1
Hash == 35
Newline == 10

MagicAt(s, i) == i < Len(s) /\ s[i] = MAGIC[1] /\ s[i + 1] = MAGIC[2]
NewlinesIn(s) == {i \in 1..Len(s) : s[i] = Newline}

(* A frame is as long as its header says; a line of the board begins with "#" *)
(* and has its newline at the end; other text of the console has neither a    *)
(* "#" nor the magic in it.  Noise is anything.                             *)
IsFrame(s) == /\ Len(s) >= HeaderSize /\ MagicAt(s, 1) /\ s[3] = VERSION
              /\ Len(s) = HeaderSize + s[HeaderSize]
EndsLine(s) == s # <<>> /\ s[Len(s)] = Newline
IsLine(s) == EndsLine(s) /\ s[1] = Hash /\ NewlinesIn(s) = {Len(s)}
IsLog(s) == EndsLine(s) /\ \A i \in 1..Len(s) : s[i] # Hash /\ ~MagicAt(s, i)

Item == {t \in [kind : {"frame", "line", "log", "noise"}, bytes : Seq(Byte)] :
           /\ t.kind = "frame" => IsFrame(t.bytes)
           /\ t.kind = "line" => IsLine(t.bytes)
           /\ t.kind = "log" => IsLog(t.bytes)}

ASSUME SentAssumption == Sent \subseteq Seq(Item)
ASSUME SizesAssumption ==
  /\ HeaderSize \in Nat /\ HeaderSize >= 4
  /\ TailMax \in Nat \ {0} /\ MaxChunk \in Nat \ {0}

VARIABLES sent, pos, buf, samples, lines

vars == <<sent, pos, buf, samples, lines>>

Stream == FlattenSeq([i \in 1..Len(sent) |-> sent[i].bytes])

Init ==
  /\ sent \in Sent
  /\ pos = 0
  /\ buf = <<>> /\ samples = <<>> /\ lines = <<>>

-----------------------------------------------------------------------------
(* What the buffer starts with *)

First(S) == CHOOSE i \in S : \A j \in S : i <= j
After(s, n) == SubSeq(s, n + 1, Len(s))

StartsLine  == buf # <<>> /\ buf[1] = Hash
StartsFrame == MagicAt(buf, 1)
Junk        == buf # <<>> /\ ~StartsLine /\ ~StartsFrame

(* buf.find(_MAGIC_BYTES, 1) and buf.find(b"#", 1) *)
(* Bug: lines are not looked for.                                            *)
CandidatesMagic(s) == {i \in 2..Len(s) : MagicAt(s, i)}

Candidates(s) == {i \in 2..Len(s) : MagicAt(s, i) \/ s[i] = Hash}

TotalLen == HeaderSize + buf[HeaderSize]

-----------------------------------------------------------------------------
(* _try_extract_one *)

StatLine ==
  /\ StartsLine
  /\ NewlinesIn(buf) # {}
  /\ LET nl == First(NewlinesIn(buf)) IN
       /\ lines' = Append(lines, SubSeq(buf, 1, nl - 1))
       /\ buf' = After(buf, nl)
  /\ UNCHANGED <<sent, pos, samples>>

SkipJunk ==
  /\ Junk
  /\ Candidates(buf) # {}
  /\ buf' = After(buf, First(Candidates(buf)) - 1)
  /\ UNCHANGED <<sent, pos, samples, lines>>

CanTrim == Junk /\ Candidates(buf) = {} /\ Len(buf) > TailMax

(* Bug: nothing of the tail is kept.                                         *)
TrimTailAll ==
  /\ CanTrim
  /\ buf' = <<>>
  /\ UNCHANGED <<sent, pos, samples, lines>>

TrimTail ==
  /\ CanTrim
  /\ buf' = <<Last(buf)>>
  /\ UNCHANGED <<sent, pos, samples, lines>>

(* Bug: the two bytes stay.                                                  *)
BadVersionStuck ==
  /\ StartsFrame
  /\ Len(buf) >= HeaderSize
  /\ buf[3] # VERSION
  /\ UNCHANGED vars

BadVersion ==
  /\ StartsFrame
  /\ Len(buf) >= HeaderSize
  /\ buf[3] # VERSION
  /\ buf' = After(buf, 2)
  /\ UNCHANGED <<sent, pos, samples, lines>>

TakeFrame ==
  /\ StartsFrame
  /\ Len(buf) >= HeaderSize
  /\ buf[3] = VERSION
  /\ Len(buf) >= TotalLen
  /\ samples' = Append(samples, SubSeq(buf, HeaderSize + 1, TotalLen))
  /\ buf' = After(buf, TotalLen)
  /\ UNCHANGED <<sent, pos, lines>>

Extract == StatLine \/ SkipJunk \/ TrimTail \/ BadVersion \/ TakeFrame

(* _try_extract_one returns None: feed() returns. *)
Returns ==
  \/ buf = <<>>
  \/ StartsLine /\ NewlinesIn(buf) = {}
  \/ Junk /\ Candidates(buf) = {} /\ Len(buf) <= TailMax
  \/ StartsFrame /\ Len(buf) < HeaderSize
  \/ StartsFrame /\ Len(buf) >= HeaderSize /\ buf[3] = VERSION /\ Len(buf) < TotalLen

Feed ==
  /\ Returns
  /\ \E n \in 1..MaxChunk :
       /\ pos + n <= Len(Stream)
       /\ buf' = buf \o SubSeq(Stream, pos + 1, pos + n)
       /\ pos' = pos + n
  /\ UNCHANGED <<sent, samples, lines>>

Next == Feed \/ Extract

Spec == Init /\ [][Next]_vars /\ WF_vars(Next)

-----------------------------------------------------------------------------
(* The buffer is bytes that were read. *)
TypeOK ==
  /\ sent \in Seq(Item)
  /\ pos \in 0..Len(Stream)
  /\ Len(buf) <= pos /\ buf = SubSeq(Stream, pos - Len(buf) + 1, pos)
  /\ samples \in Seq(Seq(Byte)) /\ lines \in Seq(Seq(Byte))

(* What a stream holds, defined on the whole of it: at a "#" a line, at a     *)
(* good header a frame, anywhere else nothing, and the next byte is looked    *)
(* at.  An item that is not complete ends the reading.                       *)
LineEnds(s, i) == {j \in i..Len(s) : s[j] = Newline}
HeaderFits(s, i) == MagicAt(s, i) /\ i + HeaderSize - 1 <= Len(s)
FrameEnd(s, i) == i + HeaderSize - 1 + s[i + HeaderSize - 1]

LineAt(s, i) == s[i] = Hash /\ LineEnds(s, i) # {}
FrameAt(s, i) == HeaderFits(s, i) /\ s[i + 2] = VERSION /\ FrameEnd(s, i) <= Len(s)
CutAt(s, i) ==
  \/ s[i] = Hash /\ LineEnds(s, i) = {}
  \/ MagicAt(s, i) /\ ~HeaderFits(s, i)
  \/ HeaderFits(s, i) /\ s[i + 2] = VERSION /\ FrameEnd(s, i) > Len(s)

NextAt(s, i) == CASE LineAt(s, i) -> First(LineEnds(s, i)) + 1
                  [] FrameAt(s, i) -> FrameEnd(s, i) + 1
                  [] CutAt(s, i) -> Len(s) + 1
                  [] OTHER -> i + 1

Found(frames, texts) == [frames |-> frames, texts |-> texts]
FoundAt(s, i) ==
  CASE LineAt(s, i) -> Found(<<>>, <<SubSeq(s, i, First(LineEnds(s, i)) - 1)>>)
    [] FrameAt(s, i) -> Found(<<SubSeq(s, i + HeaderSize, FrameEnd(s, i))>>, <<>>)
    [] OTHER -> Found(<<>>, <<>>)
Join(a, b) == Found(a.frames \o b.frames, a.texts \o b.texts)

(* The readings from each place of s, and that of all of it.                 *)
Readings(s) ==
  LET from[i \in 1..(Len(s) + 1)] ==
        IF i > Len(s) THEN Found(<<>>, <<>>) ELSE Join(FoundAt(s, i), from[NextAt(s, i)])
  IN from
Reading(s) == Readings(s)[1]

(* The pieces a stream is read in make no difference: between two calls of    *)
(* feed() the samples and lines found are those of all bytes read so far.    *)
ChunkingIrrelevant ==
  Returns => Reading(SubSeq(Stream, 1, pos)) = Found(samples, lines)

(* What the frames and the lines that were sent carry.                      *)
FrameIn(t) == IF t.kind = "frame" THEN <<After(t.bytes, HeaderSize)>> ELSE <<>>
TextIn(t) == IF t.kind = "line" THEN <<SubSeq(t.bytes, 1, Len(t.bytes) - 1)>> ELSE <<>>
Payloads == FlattenSeq([i \in 1..Len(sent) |-> FrameIn(sent[i])])
Texts == FlattenSeq([i \in 1..Len(sent) |-> TextIn(sent[i])])

(* On a link with frames, lines and the console's own text (without a "#")   *)
(* every frame and line comes out once, whole and in order, whatever bytes    *)
(* the payloads hold.                                                       *)
NothingMisread ==
  (\A i \in 1..Len(sent) : sent[i].kind # "noise") =>
  /\ IsPrefix(samples, Payloads) /\ IsPrefix(lines, Texts)
  /\ (Returns /\ pos = Len(Stream)) => samples = Payloads /\ lines = Texts

(* At any time, too, the buffer is the end of what was read.                  *)
ItemsIntact == TypeOK /\ NothingMisread

(* Every byte is looked at: no bytes are extracted from for ever. *)
ReadsAll == <>(pos = Len(Stream) /\ Returns)
=============================================================================
