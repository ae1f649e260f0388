----------------------------- MODULE SessionStore -----------------------------
(***************************************************************************)
(* The files between the collector and the models: what SessionWriter.finish  *)
(* writes for each board of a session, the manifest that build_manifest       *)
(* rebuilds from it, and the per-session caches that build_window_index of    *)
(* ml/data_pipeline/windowing.py makes and reuses.                          *)
(*                                                                         *)
(* Every file is written in place, so that it is torn from its opening to     *)
(* its closing, and stays so when its writer dies in between.  Collector,     *)
(* rebuilds and workers are processes of their own without any lock.          *)
(***************************************************************************)
EXTENDS TimeAxis

CONSTANTS
  NSessions,    \* sessions are collected one after another
  Macs,         \* the receivers
  NoMac,        \* no receiver asked for; the prefix of unprefixed files
  BoardsOf,     \* the receivers that record in each session
  Recordings,   \* the packets that a receiver can record in a session
  Workers,      \* processes that build a window index, each once
  Requests,     \* what a worker can ask for: a receiver (or NoMac) and a bin width
  Window, Stride,
  MaxCrashes    \* bound: processes that die

Sessions == 1..NSessions
Names == Macs \cup {NoMac}
Builders == {"collector", "rebuild"}

ASSUME StoreAssumption ==
  /\ NSessions \in Nat /\ IsFiniteSet(Macs) /\ NoMac \notin Macs
  /\ BoardsOf \in [Sessions -> SUBSET Macs]
  /\ Recordings \in [Sessions \X Macs -> SUBSET Seq([at : Nat, len : Nat])]
  /\ \A x \in Sessions \X Macs : <<>> \notin Recordings[x]
  /\ Requests \subseteq [mac : Names, width : Nat]
  /\ Window \in Nat \ {0} /\ Stride \in Nat \ {0}
  /\ MaxCrashes \in Nat

VARIABLES
  recorded,     \* the packets of each session and receiver
  collector,    \* the session being saved, its boards left, the open file
  disk,         \* the files of the sessions: by kind, session and prefix
  manifest,     \* the rows of manifest.csv, and whether it is whole
  building,     \* the rebuilds of the manifest
  cache,        \* the cached sessions
  worker,
  crashes

vars == <<recorded, collector, disk, manifest, building, cache, worker, crashes>>

Files == {"samples", "metadata"} \X Sessions \X Names
Absent == [state |-> "absent", mac |-> NoMac]
Torn == [state |-> "torn", mac |-> NoMac]
Whole(mac) == [state |-> "whole", mac |-> mac]

(* A session with several boards prefixes each one's files with its address. *)
Prefix(s, b) == IF Cardinality(BoardsOf[s]) > 1 THEN b ELSE NoMac

(* Caches are named after the session, the receiver asked for and the rate.  *)
SessionCachePath(s, q) == <<s, q.mac, q.width>>
CachePaths == {SessionCachePath(s, q) : s \in Sessions, q \in Requests}
NoCache == [state |-> "absent", mac |-> NoMac, bins |-> <<>>]

NotSaving(s) == [pc |-> "idle", s |-> s, left |-> {}, board |-> NoMac, file |-> 1]
NoRequest == [mac |-> NoMac, width |-> 0]
Idle == [pc |-> "idle", q |-> NoRequest, rows |-> {}, todo |-> {}, s |-> 0, index |-> {}]

Init ==
  /\ recorded \in {r \in [Sessions \X Macs -> UNION {Recordings[x] : x \in Sessions \X Macs}] :
                     \A x \in Sessions \X Macs : r[x] \in Recordings[x]}
  /\ collector = NotSaving(0)
  /\ disk = [f \in Files |-> Absent]
  /\ manifest = [rows |-> {}, whole |-> FALSE]
  /\ building = [p \in Builders |-> [pc |-> "idle", rows |-> {}]]
  /\ cache = [p \in CachePaths |-> NoCache]
  /\ worker = [w \in Workers |-> Idle]
  /\ crashes = 0

-----------------------------------------------------------------------------
(* The collector saves a session, one board after the other. *)

(* Bug: the metadata is written before the samples it describes.            *)
WriteOrderSwapped == <<"metadata", "samples">>

(* finish() writes samples.npz, then metadata.json.                         *)
WriteOrder == <<"samples", "metadata">>

CollectorFile(c) == <<WriteOrder[c.file], c.s, Prefix(c.s, c.board)>>

SaveSession ==
  /\ collector.pc = "idle" /\ building["collector"].pc \in {"idle", "ended"}
  /\ collector.s < NSessions
  /\ collector' = [NotSaving(collector.s + 1) EXCEPT !.pc = "saving",
                     !.left = BoardsOf[collector.s + 1]]
  /\ UNCHANGED <<recorded, disk, manifest, building, cache, worker, crashes>>

OpenFile(c) ==
  /\ disk' = [disk EXCEPT ![CollectorFile(c)] = Torn]
  /\ collector' = [c EXCEPT !.pc = "write"]
  /\ UNCHANGED <<recorded, manifest, building, cache, worker, crashes>>

NextBoard(b) ==
  /\ collector.pc = "saving" /\ b \in collector.left
  /\ OpenFile([collector EXCEPT !.left = @ \ {b}, !.board = b, !.file = 1])

NextFile ==
  /\ collector.pc = "open"
  /\ OpenFile([collector EXCEPT !.file = 2])

CloseFile ==
  /\ collector.pc = "write"
  /\ disk' = [disk EXCEPT ![CollectorFile(collector)] = Whole(collector.board)]
  /\ collector' = [collector EXCEPT !.pc = IF collector.file = 1 THEN "open" ELSE "saving"]
  /\ UNCHANGED <<recorded, manifest, building, cache, worker, crashes>>

(* "keep data/manifest.csv current after every session"; also without boards *)
AllSaved ==
  /\ collector.pc = "saving" /\ collector.left = {}
  /\ collector' = NotSaving(collector.s)
  /\ building' = [building EXCEPT !["collector"].pc = "read"]
  /\ UNCHANGED <<recorded, disk, manifest, cache, worker, crashes>>

-----------------------------------------------------------------------------
(* build_manifest(), at the end of each collection and once by itself. *)

Ended == [pc |-> "ended", rows |-> {}]

StartRebuild ==
  /\ building["rebuild"].pc = "idle"
  /\ building' = [building EXCEPT !["rebuild"].pc = "read"]
  /\ UNCHANGED <<recorded, collector, disk, manifest, cache, worker, crashes>>

MetaFiles == {f \in Files : f[1] = "metadata" /\ disk[f].state # "absent"}

(* Every metadata.json is parsed before the manifest is touched; one that is  *)
(* torn raises.  (The files are written one after another, so that reading    *)
(* them one by one finds what some moment had.)                             *)
ReadMetadata(p) ==
  /\ building[p].pc = "read"
  /\ building' = [building EXCEPT ![p] =
       IF \A f \in MetaFiles : disk[f].state = "whole"
         THEN [pc |-> "open", rows |-> {<<f[2], disk[f].mac>> : f \in MetaFiles}]
         ELSE Ended]
  /\ UNCHANGED <<recorded, collector, disk, manifest, cache, worker, crashes>>

OpenManifest(p) ==
  /\ building[p].pc = "open"
  /\ manifest' = [rows |-> {}, whole |-> FALSE]
  /\ building' = [building EXCEPT ![p].pc = "write"]
  /\ UNCHANGED <<recorded, collector, disk, cache, worker, crashes>>

(* A full buffer goes to the file before the last row is written (once).     *)
SpillRows(p) ==
  /\ building[p].pc = "write" /\ manifest.rows = {}
  /\ \E part \in SUBSET building[p].rows : manifest' = [rows |-> part, whole |-> FALSE]
  /\ UNCHANGED <<recorded, collector, disk, building, cache, worker, crashes>>

(* What another rebuild has written meanwhile is overwritten from the start;  *)
(* the tail of a longer text stays.                                         *)
CloseManifest(p) ==
  /\ building[p].pc = "write"
  /\ \E tail \in SUBSET (manifest.rows \ building[p].rows) :
       manifest' = [rows |-> building[p].rows \cup tail,
                    whole |-> manifest.rows \subseteq building[p].rows]
  /\ building' = [building EXCEPT ![p] = Ended]
  /\ UNCHANGED <<recorded, collector, disk, cache, worker, crashes>>

-----------------------------------------------------------------------------
(* A worker: build_window_index over the manifest's rows of its receiver. *)

WorkerFrame == UNCHANGED <<recorded, collector, disk, manifest, building, crashes>>

Fail(w) == [worker EXCEPT ![w] = [Idle EXCEPT !.pc = "failed"]]

(* A manifest that is not whole may be refused, or read as what it has.      *)
LoadManifest(w, q) ==
  /\ worker[w].pc = "idle"
  /\ LET rows == {r \in manifest.rows : q.mac \in {NoMac, r[2]}}
         started == [Idle EXCEPT !.pc = "row", !.q = q, !.rows = rows, !.todo = rows]
     IN \/ worker' = [worker EXCEPT ![w] = started]
        \/ ~manifest.whole /\ worker' = Fail(w)
  /\ UNCHANGED cache /\ WorkerFrame

(* The rows come in the manifest's order, which nothing here depends on.     *)
(* A cache file that exists is used as it is.                               *)
NextRow(w, row) ==
  /\ worker[w].pc = "row" /\ row \in worker[w].todo
  /\ worker' = [worker EXCEPT ![w].todo = @ \ {row}, ![w].s = row[1],
       ![w].pc = IF cache[SessionCachePath(row[1], worker[w].q)].state = "absent"
                   THEN "decode" ELSE "load"]
  /\ UNCHANGED cache /\ WorkerFrame

RowsDone(w) ==
  /\ worker[w].pc = "row" /\ worker[w].todo = {}
  /\ worker' = [worker EXCEPT ![w].pc = "done", ![w].s = 0]
  /\ UNCHANGED cache /\ WorkerFrame

(* Bug: only the files without a prefix are looked for.                      *)
SamplesFilePlain(s, mac) == <<"samples", s, NoMac>>

(* load_session: the receiver's own file if there is one.                    *)
SamplesFile(s, mac) ==
  IF disk[<<"samples", s, mac>>].state # "absent" THEN <<"samples", s, mac>>
  ELSE <<"samples", s, NoMac>>

(* With a bin width one boot is resampled, without one every packet is kept. *)
Decoded(r, width) ==
  LET idx == PacketIndices(r)
      ts == [k \in DOMAIN idx |-> r[idx[k]].at]
      keep == FixClockReset(ts)
      first == Min(keep) - 1
      bins == ResampleTimeAxis(SubSeq(ts, Min(keep), Max(keep)), width)
  IN IF width = 0 THEN [k \in DOMAIN idx |-> {idx[k]}]
     ELSE [k \in DOMAIN bins |-> {idx[first + i] : i \in bins[k]}]

(* A file that is missing or torn raises; otherwise the cache file is opened. *)
(* (A recording has packets: its writer was made for the first one.)         *)
DecodeSession(w) ==
  LET source == disk[SamplesFile(worker[w].s, worker[w].q.mac)]
  IN /\ worker[w].pc = "decode"
     /\ \/ /\ source.state # "whole"
           /\ worker' = Fail(w) /\ UNCHANGED cache
        \/ /\ source.state = "whole"
           /\ worker' = [worker EXCEPT ![w].pc = "write"]
           /\ cache' = [cache EXCEPT ![SessionCachePath(worker[w].s, worker[w].q)] =
                          [state |-> "torn", mac |-> source.mac, bins |-> <<>>]]
     /\ WorkerFrame

Path(w) == SessionCachePath(worker[w].s, worker[w].q)
Writing(p) == {w \in Workers : worker[w].pc = "write" /\ Path(w) = p}

(* np.savez ends.  Another worker that has opened the file again is still    *)
(* writing the same bytes over it.                                          *)
CloseCache(w) ==
  /\ worker[w].pc = "write"
  /\ worker' = [worker EXCEPT ![w].pc = "load"]
  /\ cache' = IF Writing(Path(w)) # {w} THEN cache
              ELSE [cache EXCEPT ![Path(w)] =
                      [state |-> "whole", mac |-> @.mac,
                       bins |-> Decoded(recorded[<<worker[w].s, @.mac>>], worker[w].q.width)]]
  /\ WorkerFrame

LoadCache(w) ==
  LET c == cache[Path(w)]
      windows == {[s |-> worker[w].s, mac |-> c.mac, start |-> n] :
                    n \in WindowStarts(Len(c.bins), Window, Stride)}
  IN /\ worker[w].pc = "load"
     /\ worker' = IF c.state = "torn" THEN Fail(w)
                  ELSE [worker EXCEPT ![w].pc = "row", ![w].index = @ \cup windows]
     /\ UNCHANGED cache /\ WorkerFrame

-----------------------------------------------------------------------------
(* A process is killed, or loses its disk: what it had open stays torn. *)

Crash == crashes < MaxCrashes /\ crashes' = crashes + 1

CollectorCrash ==
  /\ Crash
  /\ collector.pc # "idle" \/ building["collector"].pc \notin {"idle", "ended"}
  /\ collector' = NotSaving(collector.s)
  /\ building' = [building EXCEPT !["collector"] = Ended]
  /\ UNCHANGED <<recorded, disk, manifest, cache, worker>>

RebuildCrash ==
  /\ Crash
  /\ building["rebuild"].pc \notin {"idle", "ended"}
  /\ building' = [building EXCEPT !["rebuild"] = Ended]
  /\ UNCHANGED <<recorded, collector, disk, manifest, cache, worker>>

WorkerCrash(w) ==
  /\ Crash
  /\ worker[w].pc \notin {"idle", "failed", "done", "dead"}
  /\ worker' = [worker EXCEPT ![w] = [Idle EXCEPT !.pc = "dead"]]
  /\ UNCHANGED <<recorded, collector, disk, manifest, building, cache>>

Collect == SaveSession \/ (\E b \in Macs : NextBoard(b)) \/ NextFile \/ CloseFile \/ AllSaved

Build(p) == ReadMetadata(p) \/ OpenManifest(p) \/ SpillRows(p) \/ CloseManifest(p)

Work(w) ==
  \/ \E q \in Requests : LoadManifest(w, q)
  \/ \E row \in Sessions \X Macs : NextRow(w, row)
  \/ RowsDone(w) \/ DecodeSession(w) \/ CloseCache(w) \/ LoadCache(w)

Next ==
  \/ Collect \/ StartRebuild \/ (\E p \in Builders : Build(p))
  \/ (\E w \in Workers : Work(w) \/ WorkerCrash(w))
  \/ CollectorCrash \/ RebuildCrash

Spec == Init /\ [][Next]_vars

-----------------------------------------------------------------------------
(* Every variable keeps its type.                                            *)
TypeOK ==
  /\ collector.pc \in {"idle", "saving", "open", "write"}
  /\ collector.s \in 0..NSessions /\ collector.left \subseteq Macs
  /\ collector.board \in Names /\ collector.file \in 1..2
  /\ disk \in [Files -> [state : {"absent", "torn", "whole"}, mac : Names]]
  /\ manifest \in [rows : SUBSET (Sessions \X Macs), whole : BOOLEAN]
  /\ building \in [Builders -> [pc : {"idle", "read", "open", "write", "ended"},
                                rows : SUBSET (Sessions \X Macs)]]
  /\ crashes \in 0..MaxCrashes

(* Whatever crashes and whichever processes overlap, a row of manifest.csv    *)
(* has its recording: the samples of its receiver are whole on the disk.      *)
ListedIsReadable ==
  \A row \in manifest.rows :
    disk[<<"samples", row[1], Prefix(row[1], row[2])>>] = Whole(row[2])

(* A cached session is the longest boot of the receiver that was asked for:   *)
(* its packets of the most frequent length, from one reset of the clock to    *)
(* the next, each in the bin of its time, and no bin without packets.         *)
Boot(r, len, i, j) ==
  \A k, h \in i..j : k < h /\ r[k].len = len /\ r[h].len = len => r[k].at <= r[h].at
Sized(r, len, i, j) == Cardinality({k \in i..j : r[k].len = len})
CacheFaithful ==
  \A p \in CachePaths : cache[p].state = "whole" =>
    LET r == recorded[<<p[1], cache[p].mac>>]
        all == UNION {cache[p].bins[k] : k \in DOMAIN cache[p].bins}
        len == r[Min(all)].len
    IN /\ p[2] \in {NoMac, cache[p].mac}
       /\ \A l \in {r[i].len : i \in DOMAIN r} : Sized(r, l, 1, Len(r)) <= Sized(r, len, 1, Len(r))
       /\ all = {k \in Min(all)..Max(all) : r[k].len = len}
       /\ {} \notin {cache[p].bins[k] : k \in DOMAIN cache[p].bins}
       /\ p[3] > 0 =>
            /\ Boot(r, len, Min(all), Max(all))
            /\ \A i, j \in DOMAIN r :
                 Boot(r, len, i, j) => Sized(r, len, i, j) <= Cardinality(all)
            /\ \A i \in all : i \in cache[p].bins[1 + (r[i].at - r[Min(all)].at) \div p[3]]

(* A finished index has windows of every recorded session it was asked for    *)
(* that is long enough, each of the receiver asked for.                      *)
Long(row, q) == Len(Decoded(recorded[row], q.width)) >= Window
IndexFaithful ==
  \A w \in Workers : worker[w].pc = "done" =>
    {<<x.s, x.mac>> : x \in worker[w].index}
      = {row \in worker[w].rows : Long(row, worker[w].q)}

DataFaithful == TypeOK /\ CacheFaithful /\ IndexFaithful

(* A worker that has its rows fails only on a cache that another one is        *)
(* writing or that a crash has left torn, or because it asked for no receiver *)
(* in a session that several recorded.                                      *)
Excused(w) ==
  \/ worker[w].pc \in {"idle", "failed", "done"}
  \/ worker[w].pc = "load" /\ (crashes > 0 \/ Writing(Path(w)) # {})
  \/ worker[w].q.mac = NoMac /\ Cardinality(BoardsOf[worker[w].s]) > 1
FailuresExcused ==
  [][\A w \in Workers : worker'[w].pc = "failed" /\ worker[w] # worker'[w] => Excused(w)]_vars
===============================================================================
