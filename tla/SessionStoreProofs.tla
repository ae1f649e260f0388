-------------------------- MODULE SessionStoreProofs --------------------------
(***************************************************************************)
(* What the manifest lists can be read, whoever reads it fails only for the   *)
(* reasons named, and what the caches and indexes hold is what the receivers  *)
(* recorded, for any number of sessions, receivers, workers and crashes.      *)
(*                                                                         *)
(* ListedIsReadable is not inductive: that a row is good when it is written    *)
(* rests on the order in which the collector writes a receiver's two files,   *)
(* and that it stays good on no samples file being opened twice.  Described   *)
(* and Saving say the first, Untouched the second.  WInv adds the workers: the  *)
(* rows they have are saved, and a torn cache has a writer or a victim.      *)
(* DInv adds the data: a whole cache has the bins that Decoded makes of its   *)
(* recording, and an index the long sessions among the rows that are done.   *)
(* DecodedFacts, about the functions of TimeAxis alone, then gives the rest.  *)
(***************************************************************************)
EXTENDS SessionStore, FiniteSetTheorems, SequenceTheorems, WellFoundedInduction, TLAPS

Samples(s, n) == <<"samples", s, n>>
Metadata(s, n) == <<"metadata", s, n>>
Saved(s, b) == disk[Samples(s, Prefix(s, b))] = Whole(b)

CollectorType ==
  collector \in [pc : {"idle", "saving", "open", "write"}, s : 0..NSessions,
                 left : SUBSET Macs, board : Names, file : {1, 2}]
DiskType == disk \in [Files -> [state : {"absent", "torn", "whole"}, mac : Names]]
BuildingType ==
  building \in [Builders -> [pc : {"idle", "read", "open", "write", "ended"},
                             rows : SUBSET (Sessions \X Macs)]]
ManifestType == manifest \in [rows : SUBSET (Sessions \X Macs), whole : BOOLEAN]

(* Later sessions, and the boards still to be saved, have no files.          *)
Untouched ==
  /\ \A s \in Sessions, n \in Names :
       s > collector.s => disk[Samples(s, n)] = Absent /\ disk[Metadata(s, n)] = Absent
  /\ \A b \in collector.left :
       /\ collector.s \in Sessions /\ b \in BoardsOf[collector.s]
       /\ disk[Samples(collector.s, Prefix(collector.s, b))] = Absent
       /\ disk[Metadata(collector.s, Prefix(collector.s, b))] = Absent

(* The board being saved, and how far its files are.                        *)
Saving ==
  /\ collector.pc = "saving" => collector.s \in Sessions
  /\ collector.pc \in {"open", "write"} =>
       /\ collector.s \in Sessions
       /\ collector.board \in BoardsOf[collector.s] \ collector.left
       /\ collector.pc = "write" /\ collector.file = 1 =>
            /\ disk[Samples(collector.s, Prefix(collector.s, collector.board))] = Torn
       /\ collector.pc = "open" \/ collector.file = 2 => Saved(collector.s, collector.board)

(* Whole metadata describes whole samples.                                  *)
Described ==
  \A s \in Sessions, n \in Names :
    disk[Metadata(s, n)].state = "whole" =>
      /\ disk[Metadata(s, n)].mac \in Macs
      /\ Saved(s, disk[Metadata(s, n)].mac)

RowsSaved ==
  /\ \A row \in manifest.rows : Saved(row[1], row[2])
  /\ \A p \in Builders : \A row \in building[p].rows : Saved(row[1], row[2])

IInv == /\ CollectorType /\ DiskType /\ BuildingType /\ ManifestType
        /\ Untouched /\ Saving /\ Described /\ RowsSaved

-----------------------------------------------------------------------------
(* Two boards of one session never share a file.                            *)
LEMMA PrefixesDiffer ==
  ASSUME NEW s \in Sessions, NEW b \in BoardsOf[s], NEW c \in BoardsOf[s], b # c
  PROVE  Prefix(s, b) # Prefix(s, c)
<1>1. BoardsOf[s] \in SUBSET Macs /\ IsFiniteSet(BoardsOf[s])
  BY StoreAssumption, FS_Subset
<1>2. Cardinality(BoardsOf[s]) # 0 /\ Cardinality(BoardsOf[s]) # 1
  BY <1>1, FS_EmptySet, FS_Singleton
<1>3. Cardinality(BoardsOf[s]) > 1
  BY <1>1, <1>2, FS_CardinalityType
<1> QED BY <1>3 DEF Prefix

LEMMA PrefixType ==
  ASSUME NEW s \in Sessions, NEW b \in BoardsOf[s]
  PROVE  b \in Macs /\ Prefix(s, b) \in Names
BY StoreAssumption DEF Prefix, Names

LEMMA FileTypes ==
  ASSUME NEW s \in Sessions, NEW n \in Names
  PROVE  Samples(s, n) \in Files /\ Metadata(s, n) \in Files
BY DEF Samples, Metadata, Files

LEMMA RowPrefix ==
  ASSUME NEW s \in Sessions, NEW b \in Macs
  PROVE  Prefix(s, b) \in Names
BY DEF Prefix, Names

-----------------------------------------------------------------------------
LEMMA InitIInv == Init => IInv
<1> SUFFICES ASSUME Init PROVE IInv
  OBVIOUS
<1> USE DEF Init
<1>1. CollectorType
  BY StoreAssumption DEF CollectorType, NotSaving, Names
<1>2. DiskType
  BY DEF DiskType, Absent, Names
<1>3. BuildingType /\ ManifestType
  BY DEF BuildingType, ManifestType
<1>4. Untouched
  BY FileTypes DEF Untouched, NotSaving
<1>5. Saving
  BY DEF Saving, NotSaving
<1>6. Described
  BY FileTypes DEF Described, Absent
<1>7. RowsSaved
  BY DEF RowsSaved
<1> QED BY <1>1, <1>2, <1>3, <1>4, <1>5, <1>6, <1>7 DEF IInv

(* A step that leaves the files alone keeps what is said of them.            *)
LEMMA SameDisk ==
  ASSUME UNCHANGED disk
  PROVE  \A s, b : Saved(s, b)' <=> Saved(s, b)
BY DEF Saved

LEMMA Distinct ==
  /\ \A b : Absent # Whole(b) /\ Torn # Whole(b)
  /\ \A b : Whole(b).state = "whole" /\ Whole(b).mac = b
  /\ Torn.state = "torn" /\ Absent.state = "absent"
BY DEF Absent, Torn, Whole

(* Writing a file that is not whole samples keeps what is saved.             *)
LEMMA SavedKept ==
  ASSUME DiskType, NEW f \in Files, NEW v, disk' = [disk EXCEPT ![f] = v],
         f[1] = "metadata" \/ disk[f] = Absent \/ disk[f] = Torn
  PROVE  \A s \in Sessions, b \in Macs : Saved(s, b) => Saved(s, b)'
<1> SUFFICES ASSUME NEW s \in Sessions, NEW b \in Macs, Saved(s, b) PROVE Saved(s, b)'
  OBVIOUS
<1>1. Samples(s, Prefix(s, b)) \in Files
  BY RowPrefix, FileTypes
<1>2. Samples(s, Prefix(s, b)) # f
  BY Distinct DEF Saved, Samples
<1>3. disk'[Samples(s, Prefix(s, b))] = disk[Samples(s, Prefix(s, b))]
  BY <1>1, <1>2 DEF DiskType
<1> QED BY <1>3 DEF Saved

(* And so the rows of the manifest, as long as it has the same ones.         *)
LEMMA RowsKept ==
  ASSUME IInv, UNCHANGED <<manifest, building>>,
         \A s \in Sessions, b \in Macs : Saved(s, b) => Saved(s, b)'
  PROVE  RowsSaved' /\ BuildingType' /\ ManifestType'
<1>1. BuildingType' /\ ManifestType'
  BY DEF IInv, BuildingType, ManifestType
<1>2. \A row \in manifest.rows : row[1] \in Sessions /\ row[2] \in Macs
  BY DEF IInv, ManifestType
<1>3. \A p \in Builders : \A row \in building[p].rows : row[1] \in Sessions /\ row[2] \in Macs
  BY DEF IInv, BuildingType
<1>4. \A row \in manifest.rows : Saved(row[1], row[2])'
  BY <1>2 DEF IInv, RowsSaved
<1>5. \A p \in Builders : \A row \in building[p].rows : Saved(row[1], row[2])'
  BY <1>3 DEF IInv, RowsSaved
<1> QED BY <1>1, <1>4, <1>5 DEF RowsSaved

(* The next session.                                                        *)
LEMMA SaveSessionStep ==
  ASSUME IInv, SaveSession
  PROVE  IInv'
<1>1. collector' = [pc |-> "saving", s |-> collector.s + 1, left |-> BoardsOf[collector.s + 1],
                    board |-> NoMac, file |-> 1]
  BY DEF SaveSession, NotSaving
<1>2. collector'.pc = "saving" /\ collector'.s = collector.s + 1
        /\ collector'.left = BoardsOf[collector.s + 1]
  BY <1>1
<1>3. disk' = disk /\ manifest' = manifest /\ building' = building
  BY DEF SaveSession
<1>4. collector.s \in 0..NSessions /\ collector.s + 1 \in Sessions
  BY StoreAssumption DEF SaveSession, IInv, CollectorType, Sessions
<1>5. BoardsOf[collector.s + 1] \subseteq Macs
  BY <1>4, StoreAssumption
<1>6. CollectorType'
  <2>1. collector.s + 1 \in 0..NSessions
    BY <1>4, StoreAssumption DEF Sessions
  <2>2. NoMac \in Names
    BY DEF Names
  <2> QED BY <1>1, <1>5, <2>1, <2>2 DEF CollectorType
<1>7. DiskType' /\ BuildingType' /\ ManifestType'
  BY <1>3 DEF IInv, DiskType, BuildingType, ManifestType
<1>8. Untouched'
  <2>1. \A s \in Sessions, n \in Names : s > collector.s + 1 =>
          disk[Samples(s, n)] = Absent /\ disk[Metadata(s, n)] = Absent
    BY <1>4 DEF IInv, Untouched, Sessions
  <2>2. \A b \in BoardsOf[collector.s + 1] :
          /\ disk[Samples(collector.s + 1, Prefix(collector.s + 1, b))] = Absent
          /\ disk[Metadata(collector.s + 1, Prefix(collector.s + 1, b))] = Absent
    BY <1>4, PrefixType DEF IInv, Untouched, Sessions
  <2> QED BY <1>2, <1>3, <1>4, <2>1, <2>2 DEF Untouched
<1>9. Saving'
  <2> QED BY <1>2, <1>4 DEF Saving
<1>10. Described' /\ RowsSaved'
  BY <1>3, SameDisk DEF IInv, Described, RowsSaved
<1> QED BY <1>6, <1>7, <1>8, <1>9, <1>10 DEF IInv

(* A board's samples are opened.                                            *)
LEMMA NextBoardStep ==
  ASSUME IInv, NEW b \in Macs, NextBoard(b)
  PROVE  IInv'
<1> DEFINE s == collector.s
           f == Samples(s, Prefix(s, b))
<1>1. /\ collector.pc = "saving" /\ b \in collector.left
      /\ s \in Sessions /\ b \in BoardsOf[s] /\ disk[f] = Absent
      /\ disk[Metadata(s, Prefix(s, b))] = Absent
  BY DEF IInv, Untouched, NextBoard
<1>2. collector' = [collector EXCEPT !.pc = "write", !.left = @ \ {b}, !.board = b, !.file = 1]
  BY DEF NextBoard, OpenFile, IInv, CollectorType
<1>3. disk' = [disk EXCEPT ![f] = Torn] /\ UNCHANGED <<manifest, building>>
  BY DEF IInv, CollectorType, NextBoard, OpenFile, CollectorFile, WriteOrder, Samples
<1>4. /\ collector'.pc = "write" /\ collector'.s = s /\ collector'.left = collector.left \ {b}
      /\ collector'.board = b /\ collector'.file = 1
  BY <1>2 DEF IInv, CollectorType
<1>5. Prefix(s, b) \in Names /\ f \in Files
  BY <1>1, PrefixType, FileTypes
<1>6. \A g \in Files : g # f => disk'[g] = disk[g]
  BY <1>3, <1>5 DEF IInv, DiskType
<1>7. disk'[f] = Torn
  BY <1>3, <1>5 DEF IInv, DiskType
<1> HIDE DEF f
<1>8. \A t \in Sessions, n \in Names : disk'[Metadata(t, n)] = disk[Metadata(t, n)]
  <2> SUFFICES ASSUME NEW t \in Sessions, NEW n \in Names
               PROVE  disk'[Metadata(t, n)] = disk[Metadata(t, n)]
    OBVIOUS
  <2>1. Metadata(t, n) # f /\ Metadata(t, n) \in Files
    BY FileTypes DEF f, Metadata, Samples
  <2> QED BY <2>1, <1>6
<1>9. \A t \in Sessions, n \in Names :
        t # s \/ n # Prefix(s, b) => disk'[Samples(t, n)] = disk[Samples(t, n)]
  <2> SUFFICES ASSUME NEW t \in Sessions, NEW n \in Names, t # s \/ n # Prefix(s, b)
               PROVE  disk'[Samples(t, n)] = disk[Samples(t, n)]
    OBVIOUS
  <2>1. Samples(t, n) # f /\ Samples(t, n) \in Files
    BY FileTypes DEF f, Samples
  <2> QED BY <2>1, <1>6
<1>10. \A t \in Sessions, c \in Macs : Saved(t, c) => Saved(t, c)'
  BY <1>1, <1>3, <1>5, SavedKept DEF IInv
<1>11. CollectorType'
  BY <1>2 DEF IInv, CollectorType, Names
<1>12. DiskType'
  BY <1>3 DEF IInv, DiskType, Torn, Names
<1>13. RowsSaved' /\ BuildingType' /\ ManifestType'
  BY <1>3, <1>10, RowsKept
<1>14. Untouched'
  <2>1. \A t \in Sessions, n \in Names : t > s =>
          disk'[Samples(t, n)] = Absent /\ disk'[Metadata(t, n)] = Absent
    BY <1>8, <1>9 DEF IInv, Untouched, Sessions
  <2>2. ASSUME NEW c \in collector.left, c # b
        PROVE  /\ c \in BoardsOf[s]
               /\ disk'[Samples(s, Prefix(s, c))] = Absent
               /\ disk'[Metadata(s, Prefix(s, c))] = Absent
    <3>1. /\ c \in BoardsOf[s] /\ disk[Samples(s, Prefix(s, c))] = Absent
          /\ disk[Metadata(s, Prefix(s, c))] = Absent
      BY DEF IInv, Untouched
    <3>2. Prefix(s, c) \in Names /\ Prefix(s, c) # Prefix(s, b)
      BY <1>1, <2>2, <3>1, PrefixType, PrefixesDiffer
    <3> QED BY <1>1, <1>8, <1>9, <3>1, <3>2
  <2> QED BY <1>1, <1>4, <2>1, <2>2 DEF Untouched
<1>15. Saving'
  BY <1>1, <1>4, <1>7 DEF Saving, f
<1>16. Described'
  <2> SUFFICES ASSUME NEW t \in Sessions, NEW n \in Names, disk'[Metadata(t, n)].state = "whole"
               PROVE  /\ disk'[Metadata(t, n)].mac \in Macs
                      /\ Saved(t, disk[Metadata(t, n)].mac)'
    BY <1>8 DEF Described
  <2> QED BY <1>8, <1>10 DEF IInv, Described
<1> QED BY <1>11, <1>12, <1>13, <1>14, <1>15, <1>16 DEF IInv

(* Its metadata is opened.                                                  *)
LEMMA NextFileStep ==
  ASSUME IInv, NextFile
  PROVE  IInv'
<1>0. PICK s, b : s = collector.s /\ b = collector.board
  OBVIOUS
<1> DEFINE f == Metadata(s, Prefix(s, b))
<1>1. /\ collector.pc = "open" /\ s \in Sessions /\ b \in BoardsOf[s] \ collector.left
      /\ Saved(s, b)
  BY <1>0 DEF IInv, Saving, NextFile
<1>2. collector' = [collector EXCEPT !.pc = "write", !.file = 2]
  BY DEF NextFile, OpenFile, IInv, CollectorType
<1>3. disk' = [disk EXCEPT ![f] = Torn] /\ UNCHANGED <<manifest, building>>
  BY <1>0 DEF IInv, CollectorType, NextFile, OpenFile, CollectorFile, WriteOrder, Metadata
<1>4. /\ collector'.pc = "write" /\ collector'.s = s /\ collector'.left = collector.left
      /\ collector'.board = b /\ collector'.file = 2
  BY <1>0, <1>2 DEF IInv, CollectorType
<1>5. Prefix(s, b) \in Names /\ f \in Files
  BY <1>1, PrefixType, FileTypes
<1>6. \A g \in Files : g # f => disk'[g] = disk[g]
  BY <1>3, <1>5 DEF IInv, DiskType
<1>7. disk'[f] = Torn
  BY <1>3, <1>5 DEF IInv, DiskType
<1> HIDE DEF f
<1>8. \A t \in Sessions, n \in Names : disk'[Samples(t, n)] = disk[Samples(t, n)]
  <2> SUFFICES ASSUME NEW t \in Sessions, NEW n \in Names
               PROVE  disk'[Samples(t, n)] = disk[Samples(t, n)]
    OBVIOUS
  <2>1. Samples(t, n) # f /\ Samples(t, n) \in Files
    BY FileTypes DEF f, Metadata, Samples
  <2> QED BY <2>1, <1>6
<1>9. \A t \in Sessions, n \in Names :
        t # s \/ n # Prefix(s, b) => disk'[Metadata(t, n)] = disk[Metadata(t, n)]
  <2> SUFFICES ASSUME NEW t \in Sessions, NEW n \in Names, t # s \/ n # Prefix(s, b)
               PROVE  disk'[Metadata(t, n)] = disk[Metadata(t, n)]
    OBVIOUS
  <2>1. Metadata(t, n) # f /\ Metadata(t, n) \in Files
    BY FileTypes DEF f, Metadata
  <2> QED BY <2>1, <1>6
<1>10. \A t \in Sessions, c \in Macs : Saved(t, c) => Saved(t, c)'
  <2>1. f[1] = "metadata"
    BY DEF f, Metadata
  <2> QED BY <1>3, <1>5, <2>1, SavedKept DEF IInv
<1>11. CollectorType'
  BY <1>2 DEF IInv, CollectorType, Names
<1>12. DiskType'
  BY <1>3 DEF IInv, DiskType, Torn, Names
<1>13. RowsSaved' /\ BuildingType' /\ ManifestType'
  BY <1>3, <1>10, RowsKept
<1>14. Untouched'
  <2>1. \A t \in Sessions, n \in Names : t > s =>
          disk'[Samples(t, n)] = Absent /\ disk'[Metadata(t, n)] = Absent
    BY <1>0, <1>8, <1>9 DEF IInv, Untouched, Sessions
  <2>2. ASSUME NEW c \in collector.left
        PROVE  /\ c \in BoardsOf[s]
               /\ disk'[Samples(s, Prefix(s, c))] = Absent
               /\ disk'[Metadata(s, Prefix(s, c))] = Absent
    <3>1. /\ c \in BoardsOf[s] /\ disk[Samples(s, Prefix(s, c))] = Absent
          /\ disk[Metadata(s, Prefix(s, c))] = Absent
      BY <1>0 DEF IInv, Untouched
    <3>2. Prefix(s, c) \in Names /\ Prefix(s, c) # Prefix(s, b)
      BY <1>1, <3>1, PrefixType, PrefixesDiffer
    <3> QED BY <1>1, <1>8, <1>9, <3>1, <3>2
  <2> QED BY <1>1, <1>4, <2>1, <2>2 DEF Untouched
<1>15. Saving'
  <2>1. Saved(s, b)'
    BY <1>1, <1>10, PrefixType
  <2>2. Saved(collector.s, collector.board)' <=> Saved(s, b)'
    BY <1>4 DEF Saved
  <2> QED BY <1>1, <1>4, <2>1, <2>2 DEF Saving
<1>16. Described'
  <2> SUFFICES ASSUME NEW t \in Sessions, NEW n \in Names, disk'[Metadata(t, n)].state = "whole"
               PROVE  /\ disk'[Metadata(t, n)].mac \in Macs
                      /\ Saved(t, disk[Metadata(t, n)].mac)'
    BY DEF Described, Saved
  <2>1. Metadata(t, n) # f
    BY <1>7, Distinct
  <2>2. disk'[Metadata(t, n)] = disk[Metadata(t, n)]
    BY <1>6, <2>1, FileTypes
  <2>3. PICK c \in Macs : c = disk[Metadata(t, n)].mac /\ Saved(t, c)
    BY <2>2 DEF IInv, Described
  <2>4. Saved(t, c)'
    BY <1>10, <2>3
  <2> QED BY <2>2, <2>3, <2>4 DEF Saved
<1> QED BY <1>11, <1>12, <1>13, <1>14, <1>15, <1>16 DEF IInv

(* A file is closed: it describes, or is, what the board recorded.           *)
LEMMA CloseFileStep ==
  ASSUME IInv, CloseFile
  PROVE  IInv'
<1>0. PICK s, b : s = collector.s /\ b = collector.board
  OBVIOUS
<1> DEFINE f == CollectorFile(collector)
<1>1. /\ collector.pc = "write" /\ s \in Sessions /\ b \in BoardsOf[s] \ collector.left
      /\ collector.file \in {1, 2}
  BY <1>0 DEF IInv, CollectorType, Saving, CloseFile
<1>2. b \in Macs /\ Prefix(s, b) \in Names
  BY <1>1, PrefixType
<1>3. /\ collector.file = 1 => f = Samples(s, Prefix(s, b)) /\ disk[f] = Torn
      /\ collector.file = 2 => f = Metadata(s, Prefix(s, b)) /\ Saved(s, b)
  BY <1>0, <1>1 DEF IInv, Saving, CollectorFile, WriteOrder, Samples, Metadata
<1>4. f \in Files
  BY <1>1, <1>2, <1>3, FileTypes
<1>5. disk' = [disk EXCEPT ![f] = Whole(b)] /\ UNCHANGED <<manifest, building>>
  BY <1>0 DEF CloseFile
<1>6. \E pc \in {"open", "saving"} : collector' = [collector EXCEPT !.pc = pc]
  BY DEF CloseFile
<1>7. /\ collector'.s = s /\ collector'.left = collector.left
      /\ collector'.board = b /\ collector'.file = collector.file
      /\ collector'.pc \in {"open", "saving"}
      /\ collector'.pc = "open" => collector.file = 1
  BY <1>0, <1>1 DEF CloseFile, IInv, CollectorType
<1>8. /\ \A g \in Files : g # f => disk'[g] = disk[g]
      /\ disk'[f] = Whole(b)
  BY <1>4, <1>5 DEF IInv, DiskType
<1>9. f[1] = "metadata" \/ disk[f] = Torn
  BY <1>1, <1>3 DEF Metadata
<1> HIDE DEF f
<1>10. \A t \in Sessions, c \in Macs : Saved(t, c) => Saved(t, c)'
  BY <1>4, <1>5, <1>9, SavedKept DEF IInv
<1>11. Saved(s, b)'
  <2>1. CASE collector.file = 1
    <3>1. Saved(s, b)' <=> disk'[Samples(s, Prefix(s, b))] = Whole(b)
      BY DEF Saved
    <3> QED BY <1>3, <1>8, <2>1, <3>1
  <2>2. CASE collector.file = 2
    BY <1>1, <1>2, <1>3, <1>10, <2>2
  <2> QED BY <1>1, <2>1, <2>2
<1>12. CollectorType'
  BY <1>6 DEF IInv, CollectorType
<1>13. DiskType'
  BY <1>2, <1>5 DEF IInv, DiskType, Whole, Names
<1>14. RowsSaved' /\ BuildingType' /\ ManifestType'
  BY <1>5, <1>10, RowsKept
<1>15. \A t \in Sessions, n \in Names : t # s \/ n # Prefix(s, b) =>
         /\ disk'[Samples(t, n)] = disk[Samples(t, n)]
         /\ disk'[Metadata(t, n)] = disk[Metadata(t, n)]
  <2> SUFFICES ASSUME NEW t \in Sessions, NEW n \in Names, t # s \/ n # Prefix(s, b)
               PROVE  /\ disk'[Samples(t, n)] = disk[Samples(t, n)]
                      /\ disk'[Metadata(t, n)] = disk[Metadata(t, n)]
    OBVIOUS
  <2>1. Samples(t, n) \in Files /\ Metadata(t, n) \in Files
    BY FileTypes
  <2>2. Samples(t, n) # f /\ Metadata(t, n) # f
    BY <1>1, <1>3 DEF Samples, Metadata
  <2> QED BY <1>8, <2>1, <2>2
<1>16. Untouched'
  <2>1. \A t \in Sessions, n \in Names : t > s =>
          disk'[Samples(t, n)] = Absent /\ disk'[Metadata(t, n)] = Absent
    BY <1>0, <1>1, <1>15 DEF IInv, Untouched, Sessions
  <2>2. ASSUME NEW c \in collector.left
        PROVE  /\ c \in BoardsOf[s]
               /\ disk'[Samples(s, Prefix(s, c))] = Absent
               /\ disk'[Metadata(s, Prefix(s, c))] = Absent
    <3>1. /\ c \in BoardsOf[s] /\ disk[Samples(s, Prefix(s, c))] = Absent
          /\ disk[Metadata(s, Prefix(s, c))] = Absent
      BY <1>0 DEF IInv, Untouched
    <3>2. Prefix(s, c) \in Names /\ Prefix(s, c) # Prefix(s, b)
      BY <1>1, <3>1, PrefixType, PrefixesDiffer
    <3> QED BY <1>1, <1>15, <3>1, <3>2
  <2> QED BY <1>1, <1>7, <2>1, <2>2 DEF Untouched
<1>17. Saving'
  <2>1. Saved(collector.s, collector.board)' <=> Saved(s, b)'
    BY <1>7 DEF Saved
  <2> QED BY <1>1, <1>7, <1>11, <2>1 DEF Saving
<1>18. Described'
  <2> SUFFICES ASSUME NEW t \in Sessions, NEW n \in Names, disk'[Metadata(t, n)].state = "whole"
               PROVE  /\ disk'[Metadata(t, n)].mac \in Macs
                      /\ Saved(t, disk[Metadata(t, n)].mac)'
    BY DEF Described, Saved
  <2>1. CASE Metadata(t, n) = f
    <3>1. t = s /\ n = Prefix(s, b)
      BY <1>1, <1>3, <2>1 DEF Metadata, Samples
    <3>2. disk'[Metadata(t, n)].mac = b
      BY <1>8, <2>1, Distinct
    <3> QED BY <1>2, <1>11, <3>1, <3>2 DEF Saved
  <2>2. CASE Metadata(t, n) # f
    <3>1. disk'[Metadata(t, n)] = disk[Metadata(t, n)]
      BY <1>8, <2>2, FileTypes
    <3>2. PICK c \in Macs : c = disk[Metadata(t, n)].mac /\ Saved(t, c)
      BY <3>1 DEF IInv, Described
    <3>3. Saved(t, c)'
      BY <1>10, <3>2
    <3> QED BY <3>1, <3>2, <3>3 DEF Saved
  <2> QED BY <2>1, <2>2
<1> QED BY <1>12, <1>13, <1>14, <1>16, <1>17, <1>18 DEF IInv

(* The collector is done with a session, or dies.                           *)
LEMMA CollectorEnds ==
  ASSUME IInv, collector' = NotSaving(collector.s), UNCHANGED disk
  PROVE  CollectorType' /\ DiskType' /\ Untouched' /\ Saving' /\ Described'
<1>1. /\ collector'.s = collector.s /\ collector'.left = {} /\ collector'.pc = "idle"
  BY DEF NotSaving
<1>2. CollectorType'
  BY DEF NotSaving, IInv, CollectorType, Names
<1>3. DiskType'
  BY DEF IInv, DiskType
<1>4. Untouched'
  BY <1>1 DEF IInv, Untouched
<1>5. Saving'
  BY <1>1 DEF Saving
<1>6. Described'
  BY SameDisk DEF IInv, Described
<1> QED BY <1>2, <1>3, <1>4, <1>5, <1>6

(* The rows of a rebuild change hands without the files changing.            *)
LEMMA SameFiles ==
  ASSUME IInv, UNCHANGED <<collector, disk>>
  PROVE  CollectorType' /\ DiskType' /\ Untouched' /\ Saving' /\ Described'
<1>1. CollectorType' /\ DiskType'
  BY DEF IInv, CollectorType, DiskType
<1>2. Untouched' /\ Saving' /\ Described'
  BY SameDisk DEF IInv, Untouched, Saving, Described, Saved
<1> QED BY <1>1, <1>2

(* A rebuild that ends or goes on holds no row that it did not hold.         *)
LEMMA RowsHeld ==
  ASSUME IInv, UNCHANGED <<disk, manifest>>, BuildingType',
         \A q \in Builders : building'[q].rows \subseteq building[q].rows
  PROVE  RowsSaved' /\ ManifestType'
<1>1. \A q \in Builders : \A row \in building'[q].rows : Saved(row[1], row[2])
  BY DEF IInv, RowsSaved
<1> QED BY <1>1, SameDisk DEF IInv, RowsSaved, ManifestType

LEMMA AllSavedStep ==
  ASSUME IInv, AllSaved
  PROVE  IInv'
<1>1. /\ BuildingType'
      /\ \A q \in Builders : building'[q].rows \subseteq building[q].rows
  BY DEF AllSaved, IInv, BuildingType, Builders
<1> QED BY <1>1, RowsHeld, CollectorEnds DEF AllSaved, IInv

LEMMA CollectorCrashStep ==
  ASSUME IInv, CollectorCrash
  PROVE  IInv'
<1>1. /\ BuildingType'
      /\ \A q \in Builders : building'[q].rows \subseteq building[q].rows
  BY DEF CollectorCrash, Ended, IInv, BuildingType, Builders
<1> QED BY <1>1, RowsHeld, CollectorEnds DEF CollectorCrash, IInv

LEMMA RebuildStarts ==
  ASSUME IInv, StartRebuild
  PROVE  IInv'
<1>1. /\ BuildingType'
      /\ \A q \in Builders : building'[q].rows \subseteq building[q].rows
  BY DEF StartRebuild, IInv, BuildingType, Builders
<1> QED BY <1>1, RowsHeld, SameFiles DEF StartRebuild, IInv

LEMMA RebuildCrashStep ==
  ASSUME IInv, RebuildCrash
  PROVE  IInv'
<1>1. /\ BuildingType'
      /\ \A q \in Builders : building'[q].rows \subseteq building[q].rows
  BY DEF RebuildCrash, Ended, IInv, BuildingType, Builders
<1> QED BY <1>1, RowsHeld, SameFiles DEF RebuildCrash, IInv

(* The rows read are those of whole metadata, which Described vouches for.   *)
LEMMA ReadMetadataStep ==
  ASSUME IInv, NEW p \in Builders, ReadMetadata(p)
  PROVE  IInv'
<1> DEFINE read == {<<f[2], disk[f].mac>> : f \in MetaFiles}
<1>1. CASE \A f \in MetaFiles : disk[f].state = "whole"
  <2>1. \A f \in MetaFiles : f[2] \in Sessions /\ disk[f].mac \in Macs /\ Saved(f[2], disk[f].mac)
    <3> SUFFICES ASSUME NEW f \in MetaFiles
                 PROVE  f[2] \in Sessions /\ disk[f].mac \in Macs /\ Saved(f[2], disk[f].mac)
      OBVIOUS
    <3>1. f[2] \in Sessions /\ f[3] \in Names /\ f = Metadata(f[2], f[3])
      BY DEF MetaFiles, Files, Metadata
    <3> QED BY <1>1, <3>1 DEF IInv, Described
  <2>2. read \subseteq Sessions \X Macs /\ \A row \in read : Saved(row[1], row[2])
    BY <2>1
  <2>3. building' = [building EXCEPT ![p] = [pc |-> "open", rows |-> read]]
    BY <1>1 DEF ReadMetadata
  <2>4. UNCHANGED <<collector, disk, manifest>>
    BY DEF ReadMetadata
  <2> HIDE DEF read
  <2>5. PICK r : r = read
    OBVIOUS
  <2>6. BuildingType'
    BY <2>2, <2>3 DEF IInv, BuildingType
  <2>7. \A q \in Builders : building'[q].rows = IF q = p THEN r ELSE building[q].rows
    BY <2>3, <2>5 DEF IInv, BuildingType
  <2>8. \A row \in r : Saved(row[1], row[2])
    BY <2>2, <2>5
  <2>9. RowsSaved'
    BY <2>4, <2>7, <2>8, SameDisk DEF IInv, RowsSaved
  <2>10. ManifestType'
    BY <2>4 DEF IInv, ManifestType
  <2> QED BY <2>4, <2>6, <2>9, <2>10, SameFiles DEF IInv
<1>2. CASE ~\A f \in MetaFiles : disk[f].state = "whole"
  <2>1. building' = [building EXCEPT ![p] = [pc |-> "ended", rows |-> {}]]
    BY <1>2 DEF ReadMetadata, Ended
  <2>2. UNCHANGED <<collector, disk, manifest>>
    BY DEF ReadMetadata
  <2>3. /\ BuildingType'
        /\ \A q \in Builders : building'[q].rows \subseteq building[q].rows
    BY <2>1 DEF IInv, BuildingType
  <2> QED BY <2>2, <2>3, RowsHeld, SameFiles DEF IInv
<1> QED BY <1>1, <1>2

(* The manifest is written: with rows of its rebuild, or what was there.     *)
LEMMA ManifestWritten ==
  ASSUME IInv, UNCHANGED disk, NEW p \in Builders, NEW whole \in BOOLEAN,
         NEW rows \in SUBSET (building[p].rows \cup manifest.rows),
         manifest' = [rows |-> rows, whole |-> whole]
  PROVE  ManifestType' /\ \A row \in manifest'.rows : Saved(row[1], row[2])'
<1>1. building[p].rows \subseteq Sessions \X Macs /\ manifest.rows \subseteq Sessions \X Macs
  BY DEF IInv, BuildingType, ManifestType
<1>2. ManifestType'
  BY <1>1 DEF ManifestType
<1>3. \A row \in rows : Saved(row[1], row[2])
  BY DEF IInv, RowsSaved
<1>4. manifest'.rows = rows
  OBVIOUS
<1> QED BY <1>2, <1>3, <1>4, SameDisk

LEMMA BuildStep ==
  ASSUME IInv, NEW p \in Builders, OpenManifest(p) \/ SpillRows(p) \/ CloseManifest(p)
  PROVE  IInv'
<1>1. UNCHANGED <<collector, disk>>
  BY DEF OpenManifest, SpillRows, CloseManifest
<1>2. PICK rows, whole : /\ rows \in SUBSET (building[p].rows \cup manifest.rows)
                         /\ whole \in BOOLEAN
                         /\ manifest' = [rows |-> rows, whole |-> whole]
  BY DEF OpenManifest, SpillRows, CloseManifest
<1>3. ManifestType' /\ \A row \in manifest'.rows : Saved(row[1], row[2])'
  BY <1>1, <1>2, ManifestWritten
<1>4. /\ BuildingType'
      /\ \A q \in Builders : building'[q].rows \subseteq building[q].rows
  <2>1. CASE OpenManifest(p)
    BY <2>1 DEF OpenManifest, IInv, BuildingType
  <2>2. CASE SpillRows(p)
    BY <2>2 DEF SpillRows, IInv, BuildingType
  <2>3. CASE CloseManifest(p)
    BY <2>3 DEF CloseManifest, Ended, IInv, BuildingType
  <2> QED BY <2>1, <2>2, <2>3
<1>5. \A q \in Builders : \A row \in building'[q].rows : Saved(row[1], row[2])'
  BY <1>1, <1>4, SameDisk DEF IInv, RowsSaved
<1>6. RowsSaved'
  BY <1>3, <1>5 DEF RowsSaved
<1> QED BY <1>1, <1>3, <1>4, <1>6, SameFiles DEF IInv

(* Workers only read what IInv is about.                                    *)
LEMMA OthersStep ==
  ASSUME IInv, UNCHANGED <<collector, disk, manifest, building>>
  PROVE  IInv'
<1>1. RowsSaved' /\ BuildingType' /\ ManifestType'
  BY SameDisk DEF IInv, RowsSaved, BuildingType, ManifestType
<1> QED BY <1>1, SameFiles DEF IInv

LEMMA NextIInv == IInv /\ [Next]_vars => IInv'
<1> SUFFICES ASSUME IInv, [Next]_vars PROVE IInv'
  OBVIOUS
<1>1. CASE Collect
  <2>1. ASSUME NEW b \in Macs, NextBoard(b) PROVE IInv'
    BY <2>1, NextBoardStep
  <2> QED BY <1>1, <2>1, SaveSessionStep, NextFileStep, CloseFileStep, AllSavedStep DEF Collect
<1>2. ASSUME NEW p \in Builders, Build(p) PROVE IInv'
  BY <1>2, ReadMetadataStep, BuildStep DEF Build
<1>3. ASSUME NEW w \in Workers, Work(w) \/ WorkerCrash(w) PROVE IInv'
  <2>1. UNCHANGED <<collector, disk, manifest, building>>
    BY <1>3 DEF Work, WorkerCrash, WorkerFrame, LoadManifest, NextRow, RowsDone,
                DecodeSession, CloseCache, LoadCache
  <2> QED BY <2>1, OthersStep
<1>4. CASE UNCHANGED vars
  BY <1>4, OthersStep DEF vars
<1> QED BY <1>1, <1>2, <1>3, <1>4, RebuildStarts, CollectorCrashStep, RebuildCrashStep DEF Next

-----------------------------------------------------------------------------
(* Whatever the manifest lists can be read: of every receiver of a row the    *)
(* samples are on the disk and whole, at every moment, with rebuilds that      *)
(* overlap and processes that die between any two steps.                     *)
THEOREM ListedIsReadableCorrect == Spec => []ListedIsReadable
<1>1. IInv => ListedIsReadable
  BY DEF IInv, RowsSaved, ListedIsReadable, Saved, Samples
<1> QED BY <1>1, InitIInv, NextIInv, PTL DEF Spec

-----------------------------------------------------------------------------
(* The workers *)

(* What a worker is, and the files it makes.                                *)
WorkerState ==
  [pc : {"idle", "row", "decode", "write", "load", "done", "failed", "dead"},
   q : Requests \cup {NoRequest}, rows : SUBSET (Sessions \X Macs),
   todo : SUBSET (Sessions \X Macs), s : 0..NSessions,
   index : SUBSET [s : 0..NSessions, mac : Names, start : Int]]
WorkerType == worker \in [Workers -> WorkerState]
CacheType ==
  /\ cache = [p \in CachePaths |-> cache[p]]
  /\ \A p \in CachePaths :
       cache[p].state \in {"absent", "torn", "whole"} /\ cache[p].mac \in Names

(* A samples file is that of a board of its session.                        *)
DiskNames ==
  \A t \in Sessions, n \in Names :
    disk[Samples(t, n)] # Absent => \E b \in BoardsOf[t] : n = Prefix(t, b)

(* The rows of a worker are of the receiver it was asked for and saved; one *)
(* that reads or writes a cache is at one of them.                          *)
RowsFit(k) ==
  /\ k.todo \subseteq k.rows
  /\ \A row \in k.rows : Saved(row[1], row[2]) /\ k.q.mac \in {NoMac, row[2]}
  /\ k.pc \in {"row", "decode", "write", "load", "done"} => k.q \in Requests
  /\ k.pc \in {"decode", "write", "load"} => \E mac \in Macs : <<k.s, mac>> \in k.rows
WorkerRows == \A w \in Workers : RowsFit(worker[w])

(* A cache is torn while someone writes it, or because someone died.        *)
TornExcused ==
  /\ crashes \in Nat
  /\ \A p \in CachePaths : cache[p].state = "torn" => crashes > 0 \/ Writing(p) # {}

WInv == IInv /\ WorkerType /\ CacheType /\ DiskNames /\ WorkerRows /\ TornExcused

(* Nothing is written, nobody has begun.                                    *)
LEMMA InitWInv == Init => WInv
<1> SUFFICES ASSUME Init PROVE WInv
  OBVIOUS
<1>1. WorkerType
  BY StoreAssumption DEF Init, WorkerType, WorkerState, Idle
<1>2. CacheType /\ TornExcused
  BY DEF Init, CacheType, TornExcused, NoCache, Names
<1>3. DiskNames
  BY FileTypes DEF Init, DiskNames
<1>4. WorkerRows
  BY DEF Init, WorkerRows, RowsFit, Idle
<1> QED BY <1>1, <1>2, <1>3, <1>4, InitIInv DEF WInv

(* Whatever step is taken: the files stay, or one is opened or closed, metadata *)
(* or samples of a board of its session that nobody has closed yet.          *)
LEMMA DiskStep ==
  ASSUME IInv, [Next]_vars
  PROVE  \/ UNCHANGED disk
         \/ \E f \in Files : \E v :
              /\ disk' = [disk EXCEPT ![f] = v]
              /\ f[1] = "metadata" \/ /\ disk[f] = Absent \/ disk[f] = Torn
                                      /\ \E b \in BoardsOf[f[2]] : f[3] = Prefix(f[2], b) /\ v \in {Torn, Whole(b)}
<1> DEFINE Written(f) ==
             \E v : /\ disk' = [disk EXCEPT ![f] = v]
                    /\ f[1] = "metadata" \/ /\ disk[f] = Absent \/ disk[f] = Torn
                                            /\ \E b \in BoardsOf[f[2]] : f[3] = Prefix(f[2], b) /\ v \in {Torn, Whole(b)}
<1> SUFFICES \/ UNCHANGED disk
             \/ \E f \in Files : Written(f)
  OBVIOUS
<1>1. ASSUME NEW b \in Macs, NextBoard(b) PROVE \E f \in Files : Written(f)
  <2> DEFINE f == Samples(collector.s, Prefix(collector.s, b))
  <2>1. /\ b \in collector.left /\ collector.s \in Sessions /\ b \in BoardsOf[collector.s]
        /\ disk[f] = Absent
    BY <1>1 DEF IInv, Untouched, NextBoard
  <2>2. disk' = [disk EXCEPT ![f] = Torn]
    BY <1>1 DEF IInv, CollectorType, NextBoard, OpenFile, CollectorFile, WriteOrder, Samples
  <2>3. f \in Files /\ f[2] = collector.s /\ f[3] = Prefix(collector.s, b)
    BY <2>1, PrefixType, FileTypes DEF Samples
  <2> HIDE DEF f
  <2>4. Written(f)
    BY <2>1, <2>2, <2>3
  <2> QED BY <2>3, <2>4
<1>2. CASE NextFile
  <2> DEFINE f == Metadata(collector.s, Prefix(collector.s, collector.board))
  <2>1. collector.s \in Sessions /\ collector.board \in BoardsOf[collector.s]
    BY <1>2 DEF IInv, Saving, NextFile
  <2>2. disk' = [disk EXCEPT ![f] = Torn]
    BY <1>2 DEF IInv, CollectorType, NextFile, OpenFile, CollectorFile, WriteOrder, Metadata
  <2>3. f \in Files /\ f[1] = "metadata"
    BY <2>1, PrefixType, FileTypes DEF Metadata
  <2> HIDE DEF f
  <2> QED BY <2>2, <2>3
<1>3. CASE CloseFile
  <2> DEFINE s == collector.s
             b == collector.board
             f == CollectorFile(collector)
  <2>1. s \in Sessions /\ b \in BoardsOf[s] /\ collector.file \in {1, 2}
    BY <1>3 DEF IInv, CollectorType, Saving, CloseFile
  <2>2. disk' = [disk EXCEPT ![f] = Whole(b)]
    BY <1>3 DEF CloseFile
  <2>3. /\ collector.file = 1 => f = Samples(s, Prefix(s, b)) /\ disk[f] = Torn
        /\ collector.file = 2 => f = Metadata(s, Prefix(s, b))
    BY <1>3 DEF CloseFile, IInv, Saving, CollectorFile, WriteOrder, Samples, Metadata
  <2>4. f \in Files
    BY <2>1, <2>3, PrefixType, FileTypes
  <2>5. f[1] = "metadata" \/ (disk[f] = Torn /\ f[2] = s /\ f[3] = Prefix(s, b))
    BY <2>1, <2>3 DEF Metadata, Samples
  <2> HIDE DEF f
  <2>6. Written(f)
    BY <2>1, <2>2, <2>5
  <2> QED BY <2>4, <2>6
<1>4. CASE SaveSession \/ AllSaved \/ StartRebuild \/ CollectorCrash \/ RebuildCrash \/ UNCHANGED vars
  BY <1>4 DEF SaveSession, AllSaved, StartRebuild, CollectorCrash, RebuildCrash, vars
<1>5. ASSUME NEW p \in Builders, Build(p) PROVE UNCHANGED disk
  BY <1>5 DEF Build, ReadMetadata, OpenManifest, SpillRows, CloseManifest
<1>6. ASSUME NEW w \in Workers, Work(w) \/ WorkerCrash(w) PROVE UNCHANGED disk
  BY <1>6 DEF Work, WorkerCrash, WorkerFrame, LoadManifest, NextRow, RowsDone,
              DecodeSession, CloseCache, LoadCache
<1> HIDE DEF Written
<1> QED BY <1>1, <1>2, <1>3, <1>4, <1>5, <1>6 DEF Next, Collect

(* Saved samples stay saved: no such file is opened twice.                   *)
LEMMA SavedStays ==
  ASSUME IInv, [Next]_vars
  PROVE  \A s \in Sessions, b \in Macs : Saved(s, b) => Saved(s, b)'
<1>1. CASE UNCHANGED disk
  BY <1>1, SameDisk
<1>2. ASSUME NEW f \in Files, NEW v, disk' = [disk EXCEPT ![f] = v],
             f[1] = "metadata" \/ disk[f] = Absent \/ disk[f] = Torn
      PROVE  \A s \in Sessions, b \in Macs : Saved(s, b) => Saved(s, b)'
  BY <1>2, SavedKept DEF IInv
<1> QED BY <1>1, <1>2, DiskStep

(* Only the boards of a session get samples files.                          *)
LEMMA DiskNamesStep ==
  ASSUME IInv, DiskNames, [Next]_vars
  PROVE  DiskNames'
<1>1. CASE UNCHANGED disk
  BY <1>1 DEF DiskNames
<1>2. ASSUME NEW f \in Files, NEW v, disk' = [disk EXCEPT ![f] = v],
             f[1] = "metadata" \/ \E b \in BoardsOf[f[2]] : f[3] = Prefix(f[2], b)
      PROVE  DiskNames'
  <2> SUFFICES ASSUME NEW t \in Sessions, NEW n \in Names, disk'[Samples(t, n)] # Absent
               PROVE  \E b \in BoardsOf[t] : n = Prefix(t, b)
    BY DEF DiskNames
  <2>1. CASE Samples(t, n) = f
    BY <1>2, <2>1 DEF Samples
  <2>2. CASE Samples(t, n) # f
    <3>1. disk'[Samples(t, n)] = disk[Samples(t, n)]
      BY <1>2, <2>2, FileTypes DEF IInv, DiskType
    <3> QED BY <3>1 DEF DiskNames
  <2> QED BY <2>1, <2>2
<1> QED BY <1>1, <1>2, DiskStep
(* What one worker does leaves the others as they are.                       *)
LEMMA WorkerMoves ==
  ASSUME WInv, NEW w \in Workers, NEW k \in WorkerState,
         worker' = [worker EXCEPT ![w] = k], UNCHANGED disk, RowsFit(k)
  PROVE  WorkerType' /\ WorkerRows'
<1>1. WorkerType'
  BY DEF WInv, WorkerType
<1>2. \A v \in Workers : worker'[v] = IF v = w THEN k ELSE worker[v]
  BY DEF WInv, WorkerType
<1>3. ASSUME NEW v \in Workers PROVE RowsFit(worker'[v])
  BY <1>2 DEF WInv, WorkerRows
<1>4. ASSUME NEW v \in Workers PROVE RowsFit(worker[v])'
  BY <1>3, SameDisk DEF RowsFit
<1> QED BY <1>1, <1>4 DEF WorkerRows

(* Who writes which file stays when a worker that writes none moves.        *)
LEMMA NotWriting ==
  ASSUME WInv, NEW w \in Workers, NEW k \in WorkerState,
         worker' = [worker EXCEPT ![w] = k], worker[w].pc # "write", k.pc # "write"
  PROVE  \A p : Writing(p)' = Writing(p)
<1>1. \A v \in Workers : worker'[v] = IF v = w THEN k ELSE worker[v]
  BY DEF WInv, WorkerType
<1> SUFFICES ASSUME NEW p, NEW v \in Workers
             PROVE  (worker'[v].pc = "write" /\ Path(v)' = p) <=> (worker[v].pc = "write" /\ Path(v) = p)
  BY DEF Writing
<1> QED BY <1>1 DEF Path

(* The path a worker writes to is one of the caches.                        *)
LEMMA PathCached ==
  ASSUME WInv, NEW w \in Workers, worker[w].pc \in {"row", "decode", "write", "load"},
         NEW s \in Sessions
  PROVE  SessionCachePath(s, worker[w].q) \in CachePaths
BY DEF WInv, WorkerRows, RowsFit, CachePaths

(* A worker at a session has a row of it.                                   *)
LEMMA AtSession ==
  ASSUME WInv, NEW w \in Workers, worker[w].pc \in {"decode", "write", "load"}
  PROVE  /\ worker[w].s \in Sessions /\ Path(w) \in CachePaths
         /\ \E mac \in Macs : <<worker[w].s, mac>> \in worker[w].rows
<1>1. PICK mac \in Macs : <<worker[w].s, mac>> \in worker[w].rows
  BY DEF WInv, WorkerRows, RowsFit
<1>2. worker[w].rows \subseteq Sessions \X Macs
  BY DEF WInv, WorkerType, WorkerState
<1>3. worker[w].s \in Sessions
  BY <1>1, <1>2
<1> QED BY <1>1, <1>3, PathCached DEF Path

(* A worker that failed or died.                                            *)
LEMMA FailedState ==
  ASSUME WInv, NEW w \in Workers, NEW pc \in {"failed", "dead"}
  PROVE  [Idle EXCEPT !.pc = pc] \in WorkerState /\ RowsFit([Idle EXCEPT !.pc = pc])
         /\ [Idle EXCEPT !.pc = pc].pc = pc
BY StoreAssumption DEF Idle, WorkerState, RowsFit

(* What each step has to keep.                                              *)
WKept == WorkerType' /\ WorkerRows' /\ CacheType' /\ TornExcused'

(* A step of a worker that is not writing and does not begin to.             *)
LEMMA QuietStep ==
  ASSUME WInv, NEW w \in Workers, NEW k \in WorkerState,
         worker' = [worker EXCEPT ![w] = k], UNCHANGED <<cache, disk>>, RowsFit(k),
         worker[w].pc # "write", k.pc # "write", crashes' \in Nat, crashes' >= crashes
  PROVE  WKept
<1>1. WorkerType' /\ WorkerRows'
  BY WorkerMoves
<1>2. CacheType'
  BY DEF WInv, CacheType
<1>3. TornExcused'
  <2>1. \A p : Writing(p)' = Writing(p)
    BY NotWriting
  <2>2. crashes \in Nat /\ \A p \in CachePaths :
          cache[p].state = "torn" => crashes > 0 \/ Writing(p) # {}
    BY DEF WInv, TornExcused
  <2> SUFFICES ASSUME NEW p \in CachePaths, cache'[p].state = "torn"
               PROVE  crashes' > 0 \/ Writing(p)' # {}
    BY DEF TornExcused
  <2> QED BY <2>1, <2>2
<1> QED BY <1>1, <1>2, <1>3 DEF WKept

(* The rows taken are saved, for they are in the manifest.                  *)
LEMMA LoadManifestStep ==
  ASSUME WInv, NEW w \in Workers, NEW q \in Requests, LoadManifest(w, q)
  PROVE  WKept
<1> DEFINE rows == {r \in manifest.rows : q.mac \in {NoMac, r[2]}}
           started == [Idle EXCEPT !.pc = "row", !.q = q, !.rows = rows, !.todo = rows]
<1>1. rows \subseteq Sessions \X Macs /\ \A r \in rows : Saved(r[1], r[2])
  BY DEF WInv, IInv, ManifestType, RowsSaved
<1>2. PICK r : r = rows
  OBVIOUS
<1>0. started = [Idle EXCEPT !.pc = "row", !.q = q, !.rows = r, !.todo = r]
  BY <1>2
<1> HIDE DEF rows, started
<1>3. started \in WorkerState /\ started.pc = "row" /\ started.q = q /\ started.rows = r /\ started.todo = r
  <2>1. r \subseteq Sessions \X Macs /\ 0 \in 0..NSessions
    BY <1>1, <1>2, StoreAssumption
  <2>2. Idle \in WorkerState
    BY <2>1 DEF Idle, WorkerState
  <2> QED BY <1>0, <2>1, <2>2 DEF WorkerState
<1>4. RowsFit(started)
  <2>1. \A x \in r : q.mac \in {NoMac, x[2]}
    BY <1>2 DEF rows
  <2> QED BY <1>1, <1>2, <1>3, <2>1 DEF RowsFit
<1>5. started.pc = "row" /\ worker[w].pc = "idle" /\ UNCHANGED <<cache, disk, crashes>>
  BY <1>3 DEF LoadManifest, WorkerFrame
<1>6. crashes' \in Nat /\ crashes' >= crashes
  BY <1>5 DEF WInv, TornExcused
<1>7. worker' = [worker EXCEPT ![w] = started] \/ worker' = Fail(w)
  BY DEF LoadManifest, started, rows
<1>8. CASE worker' = [worker EXCEPT ![w] = started]
  BY <1>3, <1>4, <1>5, <1>6, <1>8, QuietStep
<1>9. CASE worker' = Fail(w)
  BY <1>5, <1>6, <1>9, FailedState, QuietStep DEF Fail
<1> QED BY <1>7, <1>8, <1>9

(* The row taken is one of its rows.                                        *)
LEMMA NextRowStep ==
  ASSUME WInv, NEW w \in Workers, NEW row \in Sessions \X Macs, NextRow(w, row)
  PROVE  WKept
<1>1. PICK pc \in {"decode", "load"} :
        worker' = [worker EXCEPT ![w].todo = @ \ {row}, ![w].s = row[1], ![w].pc = pc]
  BY DEF NextRow
<1> DEFINE k == [worker[w] EXCEPT !.todo = @ \ {row}, !.s = row[1], !.pc = pc]
<1>2. worker[w] \in WorkerState /\ RowsFit(worker[w])
  BY DEF WInv, WorkerType, WorkerRows
<1>3. worker' = [worker EXCEPT ![w] = k]
  BY <1>1 DEF WInv, WorkerType
<1>4. worker[w].pc = "row" /\ row \in worker[w].todo /\ UNCHANGED <<cache, disk, crashes>>
  BY DEF NextRow, WorkerFrame
<1>5. /\ k.pc = pc /\ k.todo = worker[w].todo \ {row} /\ k.s = row[1]
      /\ k.rows = worker[w].rows /\ k.q = worker[w].q
  BY <1>2 DEF WorkerState
<1>6. k \in WorkerState
  <2>1. row[1] \in 0..NSessions
    BY StoreAssumption DEF Sessions
  <2> QED BY <1>2, <2>1 DEF WorkerState
<1> HIDE DEF k
<1>7. RowsFit(k)
  <2>1. row[2] \in Macs /\ <<row[1], row[2]>> \in worker[w].rows
    BY <1>2, <1>4 DEF RowsFit
  <2> QED BY <1>2, <1>4, <1>5, <2>1 DEF RowsFit
<1>8. crashes' \in Nat /\ crashes' >= crashes
  BY <1>4 DEF WInv, TornExcused
<1> QED BY <1>3, <1>4, <1>5, <1>6, <1>7, <1>8, QuietStep

(* The index is finished.                                                   *)
LEMMA RowsDoneStep ==
  ASSUME WInv, NEW w \in Workers, RowsDone(w)
  PROVE  WKept
<1> DEFINE k == [worker[w] EXCEPT !.s = 0, !.pc = "done"]
<1>2. worker[w] \in WorkerState /\ RowsFit(worker[w])
  BY DEF WInv, WorkerType, WorkerRows
<1>3. worker' = [worker EXCEPT ![w] = k]
  BY DEF WInv, WorkerType, RowsDone
<1>4. worker[w].pc = "row" /\ UNCHANGED <<cache, disk, crashes>>
  BY DEF RowsDone, WorkerFrame
<1>5. /\ k.pc = "done" /\ k.todo = worker[w].todo
      /\ k.rows = worker[w].rows /\ k.q = worker[w].q
  BY <1>2 DEF WorkerState
<1>6. k \in WorkerState
  <2>1. 0 \in 0..NSessions
    BY StoreAssumption
  <2> QED BY <1>2, <2>1 DEF WorkerState
<1> HIDE DEF k
<1>7. RowsFit(k)
  BY <1>2, <1>4, <1>5 DEF RowsFit
<1>8. crashes' \in Nat /\ crashes' >= crashes
  BY <1>4 DEF WInv, TornExcused
<1> QED BY <1>3, <1>4, <1>5, <1>6, <1>7, <1>8, QuietStep

(* What a dead worker had open stays torn: that is what the count excuses.  *)
LEMMA WorkerCrashStep ==
  ASSUME WInv, NEW w \in Workers, WorkerCrash(w)
  PROVE  WKept
<1>1. crashes \in Nat /\ crashes' = crashes + 1 /\ UNCHANGED <<cache, disk>>
  BY DEF WorkerCrash, Crash, WInv, TornExcused
<1>2. WorkerType' /\ WorkerRows'
  BY <1>1, FailedState, WorkerMoves DEF WorkerCrash
<1>3. CacheType' /\ TornExcused'
  BY <1>1 DEF WInv, CacheType, TornExcused
<1> QED BY <1>2, <1>3 DEF WKept

(* A torn file ends the worker; nothing else is touched.                    *)
LEMMA LoadCacheStep ==
  ASSUME WInv, NEW w \in Workers, LoadCache(w)
  PROVE  WKept
<1> DEFINE c == cache[Path(w)]
           windows == {[s |-> worker[w].s, mac |-> c.mac, start |-> n] :
                         n \in WindowStarts(Len(c.bins), Window, Stride)}
           k == [worker[w] EXCEPT !.pc = "row", !.index = @ \cup windows]
<1>1. worker[w] \in WorkerState /\ RowsFit(worker[w])
  BY DEF WInv, WorkerType, WorkerRows
<1>2. worker[w].pc = "load" /\ UNCHANGED <<cache, disk, crashes>>
  BY DEF LoadCache, WorkerFrame
<1>3. worker' = Fail(w) \/ worker' = [worker EXCEPT ![w] = k]
  BY DEF LoadCache, WInv, WorkerType
<1>4. crashes' \in Nat /\ crashes' >= crashes
  BY <1>2 DEF WInv, TornExcused
<1>5. windows \subseteq [s : 0..NSessions, mac : Names, start : Int]
  <2>1. c.mac \in Names /\ worker[w].s \in 0..NSessions
    BY <1>1, <1>2, AtSession DEF WInv, CacheType, WorkerState
  <2>2. WindowStarts(Len(c.bins), Window, Stride) \subseteq Int
    BY DEF WindowStarts
  <2> QED BY <2>1, <2>2
<1> HIDE DEF windows
<1>6. /\ k.pc = "row" /\ k.todo = worker[w].todo
      /\ k.rows = worker[w].rows /\ k.q = worker[w].q
  BY <1>1 DEF WorkerState
<1>7. k \in WorkerState
  BY <1>1, <1>5 DEF WorkerState
<1> HIDE DEF k
<1>8. RowsFit(k)
  BY <1>1, <1>2, <1>6 DEF RowsFit
<1>9. CASE worker' = Fail(w)
  BY <1>2, <1>4, <1>9, FailedState, QuietStep DEF Fail
<1>10. CASE worker' = [worker EXCEPT ![w] = k]
  BY <1>2, <1>4, <1>6, <1>7, <1>8, <1>10, QuietStep
<1> QED BY <1>3, <1>9, <1>10

(* The file that is opened is torn, and this worker is writing it.           *)
LEMMA DecodeSessionStep ==
  ASSUME WInv, NEW w \in Workers, DecodeSession(w)
  PROVE  WKept
<1> DEFINE source == disk[SamplesFile(worker[w].s, worker[w].q.mac)]
           k == [worker[w] EXCEPT !.pc = "write"]
<1>1. worker[w] \in WorkerState /\ RowsFit(worker[w])
  BY DEF WInv, WorkerType, WorkerRows
<1>2. worker[w].pc = "decode" /\ UNCHANGED <<disk, crashes>>
  BY DEF DecodeSession, WorkerFrame
<1>3. Path(w) \in CachePaths /\ Path(w) = SessionCachePath(worker[w].s, worker[w].q)
  BY <1>2, AtSession DEF Path
<1>4. crashes' \in Nat /\ crashes' >= crashes
  BY <1>2 DEF WInv, TornExcused
<1>5. CASE worker' = Fail(w) /\ UNCHANGED cache
  BY <1>2, <1>4, <1>5, FailedState, QuietStep DEF Fail
<1>6. CASE /\ worker' = [worker EXCEPT ![w] = k]
           /\ cache' = [cache EXCEPT ![Path(w)] = [state |-> "torn", mac |-> source.mac, bins |-> <<>>]]
  <2>1. k.pc = "write" /\ k.s = worker[w].s /\ k.q = worker[w].q /\ k.rows = worker[w].rows
        /\ k.todo = worker[w].todo /\ k \in WorkerState
    BY <1>1 DEF WorkerState
  <2> HIDE DEF k
  <2>2. RowsFit(k)
    BY <1>1, <1>2, <2>1 DEF RowsFit
  <2>3. WorkerType' /\ WorkerRows'
    BY <1>2, <1>6, <2>1, <2>2, WorkerMoves
  <2>4. source.mac \in Names
    <3>1. SamplesFile(worker[w].s, worker[w].q.mac) \in Files
      <4>1. worker[w].s \in Sessions
        BY <1>2, AtSession
      <4>2. worker[w].q.mac \in Names
        <5>1. PICK mac \in Macs : <<worker[w].s, mac>> \in worker[w].rows
          BY <1>2, AtSession
        <5> QED BY <1>1, <5>1 DEF RowsFit, Names
      <4> QED BY <4>1, <4>2 DEF SamplesFile, Files, Names
    <3> QED BY <3>1 DEF WInv, IInv, DiskType
  <2>5. CacheType'
    BY <1>3, <1>6, <2>4 DEF WInv, CacheType
  <2>6. \A v \in Workers : worker'[v] = IF v = w THEN k ELSE worker[v]
    BY <1>6 DEF WInv, WorkerType
  <2>7. w \in Writing(Path(w))'
    BY <2>1, <2>6 DEF Writing, Path, SessionCachePath
  <2>8. \A p : Writing(p) \subseteq Writing(p)'
    BY <1>2, <2>6 DEF Writing, Path
  <2>9. ASSUME NEW p \in CachePaths, cache'[p].state = "torn"
        PROVE  crashes' > 0 \/ Writing(p)' # {}
    <3>1. CASE p = Path(w)
      <4>1. Path(w)' = Path(w)
        BY <2>1, <2>6 DEF Path
      <4> QED BY <3>1, <2>7, <4>1
    <3>2. CASE p # Path(w)
      <4>1. cache'[p] = cache[p]
        BY <1>3, <1>6, <3>2 DEF WInv, CacheType
      <4>2. crashes > 0 \/ Writing(p) # {}
        BY <2>9, <4>1 DEF WInv, TornExcused
      <4> QED BY <1>2, <2>8, <4>2
    <3> QED BY <3>1, <3>2
  <2>10. TornExcused'
    BY <1>4, <2>9 DEF TornExcused
  <2> QED BY <2>3, <2>5, <2>10 DEF WKept
<1>7. \/ worker' = Fail(w) /\ UNCHANGED cache
      \/ /\ worker' = [worker EXCEPT ![w] = k]
         /\ cache' = [cache EXCEPT ![Path(w)] = [state |-> "torn", mac |-> source.mac, bins |-> <<>>]]
  BY <1>3 DEF DecodeSession, WInv, WorkerType
<1> QED BY <1>5, <1>6, <1>7

(* The last of a file's writers makes it whole.                              *)
LEMMA CloseCacheStep ==
  ASSUME WInv, NEW w \in Workers, CloseCache(w)
  PROVE  WKept
<1> DEFINE k == [worker[w] EXCEPT !.pc = "load"]
<1>1. worker[w] \in WorkerState /\ RowsFit(worker[w])
  BY DEF WInv, WorkerType, WorkerRows
<1>2. worker[w].pc = "write" /\ UNCHANGED <<disk, crashes>>
  BY DEF CloseCache, WorkerFrame
<1>3. Path(w) \in CachePaths
  BY <1>2, AtSession
<1>4. k.pc = "load" /\ k.s = worker[w].s /\ k.q = worker[w].q /\ k.rows = worker[w].rows
      /\ k.todo = worker[w].todo /\ k \in WorkerState
  BY <1>1 DEF WorkerState
<1>5. worker' = [worker EXCEPT ![w] = k]
  BY DEF CloseCache, WInv, WorkerType
<1> HIDE DEF k
<1>6. RowsFit(k)
  BY <1>1, <1>2, <1>4 DEF RowsFit
<1>7. WorkerType' /\ WorkerRows'
  BY <1>2, <1>4, <1>5, <1>6, WorkerMoves
<1>8. \A v \in Workers : worker'[v] = IF v = w THEN k ELSE worker[v]
  BY <1>5 DEF WInv, WorkerType
<1>9. \A p : Writing(p) \ {w} \subseteq Writing(p)'
  BY <1>8 DEF Writing, Path
<1>10. \A p : w \in Writing(p) => p = Path(w)
  BY DEF Writing
<1>11. w \in Writing(Path(w))
  BY <1>2 DEF Writing
<1>12. crashes \in Nat /\ \A p \in CachePaths :
          cache[p].state = "torn" => crashes > 0 \/ Writing(p) # {}
  BY DEF WInv, TornExcused
<1>13. CASE Writing(Path(w)) # {w}
  <2>1. cache' = cache
    BY <1>13 DEF CloseCache
  <2>2. CacheType'
    BY <2>1 DEF WInv, CacheType
  <2>3. \A p \in CachePaths : Writing(p) # {} => Writing(p)' # {}
    BY <1>9, <1>10, <1>11, <1>13
  <2>4. TornExcused'
    BY <1>2, <1>12, <2>1, <2>3 DEF TornExcused
  <2> QED BY <1>7, <2>2, <2>4 DEF WKept
<1>14. CASE Writing(Path(w)) = {w}
  <2>1. PICK bins : cache' = [cache EXCEPT ![Path(w)] = [state |-> "whole", mac |-> @.mac, bins |-> bins]]
    BY <1>14 DEF CloseCache
  <2>2. CacheType'
    BY <1>3, <2>1 DEF WInv, CacheType
  <2>3. \A p \in CachePaths : cache'[p].state = "torn" => cache'[p] = cache[p] /\ p # Path(w)
    BY <1>3, <2>1 DEF WInv, CacheType
  <2>4. TornExcused'
    BY <1>2, <1>9, <1>10, <1>12, <2>3 DEF TornExcused
  <2> QED BY <1>7, <2>2, <2>4 DEF WKept
<1> QED BY <1>13, <1>14

(* What the collector and the rebuilds do to the workers: nothing.          *)
LEMMA OthersKeepWorkers ==
  ASSUME WInv, UNCHANGED <<worker, cache>>, crashes' \in Nat, crashes' >= crashes,
         \A s \in Sessions, b \in Macs : Saved(s, b) => Saved(s, b)'
  PROVE  WKept
<1>1. WorkerType' /\ CacheType'
  BY DEF WInv, WorkerType, CacheType
<1>2. WorkerRows'
  <2>1. ASSUME NEW v \in Workers, NEW row \in worker[v].rows PROVE Saved(row[1], row[2])'
    <3>1. row \in Sessions \X Macs
      BY DEF WInv, WorkerType, WorkerState
    <3>2. Saved(row[1], row[2])
      BY DEF WInv, WorkerRows, RowsFit
    <3> QED BY <3>1, <3>2
  <2> QED BY <2>1 DEF WInv, WorkerRows, RowsFit
<1>3. \A p : Writing(p)' = Writing(p)
  BY DEF Writing, Path
<1>4. TornExcused'
  BY <1>3 DEF WInv, TornExcused
<1> QED BY <1>1, <1>2, <1>4 DEF WKept

(* The invariant holds at every step.                                       *)
LEMMA NextWInv == WInv /\ [Next]_vars => WInv'
<1> SUFFICES ASSUME WInv, [Next]_vars PROVE WInv'
  OBVIOUS
<1>1. IInv' /\ DiskNames'
  BY NextIInv, DiskNamesStep DEF WInv
<1>2. crashes \in Nat
  BY DEF WInv, TornExcused
<1>3. ASSUME NEW w \in Workers, Work(w) \/ WorkerCrash(w) PROVE WKept
  <2>1. ASSUME NEW q \in Requests, LoadManifest(w, q) PROVE WKept
    BY <2>1, LoadManifestStep
  <2>2. ASSUME NEW row \in Sessions \X Macs, NextRow(w, row) PROVE WKept
    BY <2>2, NextRowStep
  <2> QED BY <1>3, <2>1, <2>2, RowsDoneStep, DecodeSessionStep, CloseCacheStep, LoadCacheStep,
             WorkerCrashStep DEF Work
<1>4. ASSUME Collect \/ StartRebuild \/ (\E p \in Builders : Build(p)) \/ UNCHANGED vars
      PROVE  WKept
  <2>1. UNCHANGED <<worker, cache, crashes>>
    BY <1>4 DEF Collect, SaveSession, NextBoard, NextFile, OpenFile, CloseFile, AllSaved, StartRebuild,
                Build, ReadMetadata, OpenManifest, SpillRows, CloseManifest, vars
  <2>2. crashes' \in Nat /\ crashes' >= crashes
    BY <1>2, <2>1
  <2>3. \A s \in Sessions, b \in Macs : Saved(s, b) => Saved(s, b)'
    BY SavedStays DEF WInv
  <2> QED BY <2>1, <2>2, <2>3, OthersKeepWorkers
<1>5. ASSUME CollectorCrash \/ RebuildCrash PROVE WKept
  <2>1. UNCHANGED <<worker, cache>> /\ crashes' = crashes + 1
    BY <1>5 DEF CollectorCrash, RebuildCrash, Crash
  <2>2. crashes' \in Nat /\ crashes' >= crashes
    BY <1>2, <2>1
  <2>3. \A s \in Sessions, b \in Macs : Saved(s, b) => Saved(s, b)'
    BY SavedStays DEF WInv
  <2> QED BY <2>1, <2>2, <2>3, OthersKeepWorkers
<1>6. WKept
  BY <1>3, <1>4, <1>5 DEF Next
<1> QED BY <1>1, <1>6 DEF WInv, WKept

(* What a worker that has its rows is asked for is on the disk: its own file, *)
(* or the only one.                                                         *)
LEMMA SourceWhole ==
  ASSUME WInv, NEW w \in Workers, worker[w].pc = "decode",
         ~(worker[w].q.mac = NoMac /\ Cardinality(BoardsOf[worker[w].s]) > 1)
  PROVE  disk[SamplesFile(worker[w].s, worker[w].q.mac)].state = "whole"
<1> DEFINE s == worker[w].s
           q == worker[w].q
<1>1. PICK mac \in Macs : <<s, mac>> \in worker[w].rows
  BY AtSession
<1>2. Saved(s, mac) /\ q.mac \in {NoMac, mac} /\ s \in Sessions /\ mac # NoMac
  BY <1>1, AtSession, StoreAssumption DEF WInv, WorkerRows, RowsFit
<1>3. disk[Samples(s, Prefix(s, mac))].state = "whole"
  BY <1>2, Distinct DEF Saved
<1>4. CASE Cardinality(BoardsOf[s]) > 1
  <2>1. q.mac = mac /\ Prefix(s, mac) = mac
    BY <1>2, <1>4 DEF Prefix
  <2> QED BY <1>3, <2>1 DEF SamplesFile, Samples
<1>5. CASE ~(Cardinality(BoardsOf[s]) > 1)
  <2>1. \A b : Prefix(s, b) = NoMac
    BY <1>5 DEF Prefix
  <2>2. CASE q.mac = NoMac
    BY <1>3, <2>1, <2>2 DEF SamplesFile, Samples
  <2>3. CASE q.mac = mac
    <3>1. disk[Samples(s, mac)] = Absent
      BY <1>2, <2>1 DEF WInv, DiskNames, Names
    <3>2. disk[Samples(s, mac)].state = "absent"
      BY <3>1 DEF Absent
    <3> QED BY <1>3, <2>1, <2>3, <3>2 DEF SamplesFile, Samples
  <2> QED BY <1>2, <2>2, <2>3
<1> QED BY <1>4, <1>5

(* The steps in which a worker fails, one by one.                           *)
LEMMA FailStep ==
  ASSUME WInv, Next, NEW w \in Workers, worker'[w].pc = "failed", worker[w] # worker'[w]
  PROVE  Excused(w)
<1>1. CASE Collect \/ StartRebuild \/ (\E p \in Builders : Build(p)) \/ CollectorCrash \/ RebuildCrash
  BY <1>1 DEF Collect, SaveSession, NextBoard, NextFile, OpenFile, CloseFile, AllSaved, StartRebuild,
              Build, ReadMetadata, OpenManifest, SpillRows, CloseManifest, CollectorCrash, RebuildCrash
<1>2. ASSUME NEW v \in Workers, NEW k, worker' = [worker EXCEPT ![v] = k]
      PROVE  v = w /\ k.pc = "failed"
  BY <1>2 DEF WInv, WorkerType
<1>3. worker[w] \in WorkerState
  BY DEF WInv, WorkerType
<1>4. ASSUME NEW v \in Workers, WorkerCrash(v) PROVE FALSE
  <2>1. [Idle EXCEPT !.pc = "dead"].pc = "dead"
    BY DEF Idle
  <2> QED BY <1>2, <1>4, <2>1 DEF WorkerCrash
<1>5. ASSUME NEW v \in Workers, NEW q \in Requests, LoadManifest(v, q) PROVE Excused(w)
  BY <1>2, <1>5 DEF LoadManifest, Fail, Excused
<1>6. ASSUME NEW v \in Workers, NEW row \in Sessions \X Macs, NextRow(v, row) PROVE FALSE
  <2>1. PICK pc \in {"decode", "load"} :
          worker' = [worker EXCEPT ![v].todo = @ \ {row}, ![v].s = row[1], ![v].pc = pc]
    BY <1>6 DEF NextRow
  <2> QED BY <1>3, <2>1 DEF WInv, WorkerType, WorkerState
<1>7. ASSUME NEW v \in Workers, RowsDone(v) \/ CloseCache(v) PROVE FALSE
  <2>1. PICK pc \in {"done", "load"} :
          worker' = [worker EXCEPT ![v].pc = pc] \/ worker' = [worker EXCEPT ![v].pc = pc, ![v].s = 0]
    BY <1>7 DEF RowsDone, CloseCache
  <2> QED BY <1>3, <2>1 DEF WInv, WorkerType, WorkerState
<1>8. ASSUME NEW v \in Workers, DecodeSession(v) PROVE Excused(w)
  <2>1. CASE worker' = Fail(v)
    <3>1. v = w /\ worker[w].pc = "decode"
          /\ disk[SamplesFile(worker[w].s, worker[w].q.mac)].state # "whole"
      BY <1>2, <1>3, <1>8, <2>1 DEF DecodeSession, Fail, WInv, WorkerType, WorkerState
    <3> QED BY <3>1, SourceWhole DEF Excused
  <2>2. CASE worker' = [worker EXCEPT ![v].pc = "write"]
    BY <1>3, <2>2 DEF WInv, WorkerType, WorkerState
  <2> QED BY <1>8, <2>1, <2>2 DEF DecodeSession
<1>9. ASSUME NEW v \in Workers, LoadCache(v) PROVE Excused(w)
  <2>1. CASE worker' = Fail(v) /\ cache[Path(v)].state = "torn"
    <3>1. v = w /\ worker[w].pc = "load"
      BY <1>2, <1>9, <2>1 DEF LoadCache, Fail
    <3>2. Path(w) \in CachePaths
      BY <3>1, AtSession
    <3> QED BY <2>1, <3>1, <3>2 DEF Excused, WInv, TornExcused
  <2>2. CASE ~(worker' = Fail(v) /\ cache[Path(v)].state = "torn")
    <3>1. PICK index : worker' = [worker EXCEPT ![v].pc = "row", ![v].index = index]
      BY <1>9, <2>2 DEF LoadCache, WInv, WorkerType
    <3> QED BY <1>3, <3>1 DEF WInv, WorkerType, WorkerState
  <2> QED BY <2>1, <2>2
<1> QED BY <1>1, <1>4, <1>5, <1>6, <1>7, <1>8, <1>9 DEF Next, Work

(* A worker that has its rows fails only on a cache that another one is writing *)
(* or a crash has left torn, or because it asked for no receiver in a session *)
(* that several recorded: never because a samples file is missing or torn, in *)
(* whatever order collector, rebuilds, workers and crashes come.            *)
THEOREM FailuresExcusedCorrect == Spec => FailuresExcused
<1>1. WInv /\ [Next]_vars =>
        [\A w \in Workers : worker'[w].pc = "failed" /\ worker[w] # worker'[w] => Excused(w)]_vars
  BY FailStep
<1> QED BY <1>1, InitWInv, NextWInv, PTL DEF Spec, FailuresExcused
-----------------------------------------------------------------------------
(* From packets to bins *)

LEMMA NatMinimum ==
  ASSUME NEW S, S \subseteq Nat, S # {}
  PROVE  \E x \in S : \A y \in S : x <= y
<1> DEFINE Below == {ss \in Nat \X Nat : ss[1] < ss[2]}
<1>1. IsWellFoundedOn(Below, Nat) BY NatLessThanWellFounded DEF OpToRel
<1>2. PICK n \in S : \A m \in S : <<m, n>> \notin Below
  <2> HIDE DEF Below
  <2> QED BY <1>1, WFMin
<1>3. \A m \in S : ~(m < n)
  BY <1>2
<1> QED BY <1>3

LEMMA NatSet ==
  ASSUME NEW T, 0 \in T, \A n \in Nat : n \in T => n + 1 \in T
  PROVE  Nat \subseteq T
<1> SUFFICES ASSUME Nat \ T # {} PROVE FALSE
  OBVIOUS
<1>1. PICK n \in Nat \ T : \A m \in Nat \ T : n <= m
  BY NatMinimum
<1>2. n # 0 /\ n - 1 \in Nat
  OBVIOUS
<1>3. n - 1 \in T
  BY <1>1, <1>2
<1> QED BY <1>2, <1>3

LEMMA MinNat ==
  ASSUME NEW S, S \subseteq Nat, S # {}
  PROVE  Min(S) \in S /\ Min(S) \in Nat /\ \A y \in S : Min(S) <= y
<1>1. \E x \in S : \A y \in S : x <= y
  BY NatMinimum
<1> QED BY <1>1 DEF Min

LEMMA MinIs ==
  ASSUME NEW S, S \subseteq Nat, NEW x \in S, \A y \in S : x <= y
  PROVE  Min(S) = x
<1>1. Min(S) \in Nat /\ x \in Nat /\ Min(S) <= x /\ x <= Min(S)
  BY MinNat
<1> QED BY <1>1

LEMMA MaxNat ==
  ASSUME NEW S, S \subseteq Nat, S # {}, NEW n \in Nat, \A y \in S : y <= n
  PROVE  Max(S) \in S /\ Max(S) \in Nat /\ \A y \in S : y <= Max(S)
<1> DEFINE T == {n - y : y \in S}
<1>1. PICK t \in T : \A u \in T : t <= u
  <2>0. \A y \in S : n - y \in Nat
    OBVIOUS
  <2>1. T \subseteq Nat /\ T # {}
    BY <2>0
  <2> HIDE DEF T
  <2> QED BY <2>1, NatMinimum
<1>2. PICK x \in S : t = n - x
  OBVIOUS
<1>3. \A y \in S : x >= y
  <2> SUFFICES ASSUME NEW y \in S PROVE x >= y
    OBVIOUS
  <2>1. n - x <= n - y
    BY <1>1, <1>2
  <2> QED BY <2>1
<1>4. \E z \in S : \A y \in S : z >= y
  BY <1>3
<1> QED BY <1>4 DEF Max

LEMMA MaxIs ==
  ASSUME NEW S, S \subseteq Nat, NEW x \in S, \A y \in S : y <= x
  PROVE  Max(S) = x
<1>1. x \in Nat
  OBVIOUS
<1>2. Max(S) \in Nat /\ Max(S) <= x /\ x <= Max(S)
  BY <1>1, MaxNat
<1> QED BY <1>1, <1>2

(* The kept packets are the recursion of PacketIndices.  *)
KeptRec(f, r, d, n) ==
  f = [i \in 0..n |-> IF i = 0 THEN <<>>
                      ELSE IF r[i].len = d THEN Append(f[i - 1], i) ELSE f[i - 1]]

LEMMA KeptExists == ASSUME NEW r, NEW d, NEW n \in Nat PROVE \E f : KeptRec(f, r, d, n)
<1> DEFINE T == {m \in Nat : \E f : KeptRec(f, r, d, m)}
<1>1. 0 \in T
  <2>1. KeptRec([i \in 0..0 |-> <<>>], r, d, 0) BY DEF KeptRec
  <2> QED BY <2>1
<1>2. ASSUME NEW m \in Nat, m \in T PROVE m + 1 \in T
  <2>1. PICK f : KeptRec(f, r, d, m) BY <1>2
  <2>0. PICK last : last = IF r[m + 1].len = d THEN Append(f[m], m + 1) ELSE f[m] OBVIOUS
  <2> DEFINE g == [i \in 0..m + 1 |-> IF i = m + 1 THEN last ELSE f[i]]
  <2>2. \A i \in 0..m : g[i] = f[i] OBVIOUS
  <2>3. g[m + 1] = last OBVIOUS
  <2>4. \A i \in 0..m : f[i] = IF i = 0 THEN <<>>
                               ELSE IF r[i].len = d THEN Append(f[i - 1], i) ELSE f[i - 1]
    BY <2>1 DEF KeptRec
  <2>5. \A i \in 0..m + 1 : g[i] = IF i = 0 THEN <<>>
                                   ELSE IF r[i].len = d THEN Append(g[i - 1], i) ELSE g[i - 1]
    <3>1. \A i \in 1..m + 1 : i - 1 \in 0..m OBVIOUS
    <3>2. \A i \in 0..m + 1 : i \in 0..m \/ i = m + 1 OBVIOUS
    <3>3. m + 1 # 0 /\ m + 1 - 1 = m /\ m \in 0..m /\ 0 \in 0..m OBVIOUS
    <3> HIDE DEF g
    <3>4. ASSUME NEW i \in 0..m PROVE g[i] = IF i = 0 THEN <<>>
                                   ELSE IF r[i].len = d THEN Append(g[i - 1], i) ELSE g[i - 1]
      <4>1. i # 0 => g[i - 1] = f[i - 1] BY <3>1, <2>2
      <4> QED BY <4>1, <2>2, <2>4
    <3>5. g[m + 1] = IF r[m + 1].len = d THEN Append(g[m], m + 1) ELSE g[m]
      BY <2>0, <2>2, <2>3, <3>3
    <3> QED BY <3>2, <3>3, <3>4, <3>5
  <2>6. KeptRec(g, r, d, m + 1) BY <2>5 DEF KeptRec
  <2> HIDE DEF g
  <2> QED BY <2>6
<1> HIDE DEF T
<1>3. n \in T BY <1>1, <1>2, NatSet
<1> QED BY <1>3 DEF T

LEMMA KeptUnfold ==
  ASSUME NEW r, Len(r) \in Nat
  PROVE  \E f : KeptRec(f, r, DominantCsiLen(r), Len(r)) /\ PacketIndices(r) = f[Len(r)]
<1> DEFINE d == DominantCsiLen(r)
           F(f) == f = [n \in 0..Len(r) |-> IF n = 0 THEN <<>>
                      ELSE IF r[n].len = d THEN Append(f[n - 1], n) ELSE f[n - 1]]
           g == CHOOSE f : F(f)
<1>0. PICK h : KeptRec(h, r, d, Len(r))
  BY KeptExists
<1>1. F(h)
  BY <1>0 DEF KeptRec
<1>2. F(g)
  BY <1>1
<1>3. PacketIndices(r) = g[Len(r)]
  BY DEF PacketIndices
<1> QED BY <1>2, <1>3 DEF KeptRec

(* s lists the numbers of D in their order. *)
Enumerates(s, D) ==
  /\ s \in Seq(D)
  /\ \A a, b \in 1..Len(s) : a < b => s[a] < s[b]
  /\ \A j \in D : \E a \in 1..Len(s) : s[a] = j

LEMMA EnumeratesMore ==
  ASSUME NEW D, NEW n \in Nat, D \subseteq 1..n, NEW s, Enumerates(s, D)
  PROVE  Enumerates(Append(s, n + 1), D \cup {n + 1})
<1> DEFINE E == D \cup {n + 1}
           t == Append(s, n + 1)
<1>1. s \in Seq(D) /\ Len(s) \in Nat
  BY DEF Enumerates
<1>2. \A a \in 1..Len(s) : s[a] \in D
  BY <1>1
<1>3. s \in Seq(E)
  <2>1. D \subseteq E
    OBVIOUS
  <2>2. \A a \in 1..Len(s) : s[a] \in E
    BY <1>2, <2>1
  <2>3. s = [a \in 1..Len(s) |-> s[a]]
    BY <1>1
  <2> HIDE DEF E
  <2> QED BY <1>1, <2>2, <2>3, IsASeq
<1>4. t \in Seq(E) /\ Len(t) = Len(s) + 1 /\ t[Len(s) + 1] = n + 1
      /\ \A a \in 1..Len(s) : t[a] = s[a]
  <2>1. n + 1 \in E
    OBVIOUS
  <2> HIDE DEF E
  <2> QED BY <1>3, <2>1, AppendProperties
<1> HIDE DEF t
<1>5. \A a \in 1..Len(t) : a \in 1..Len(s) \/ a = Len(s) + 1
  BY <1>1, <1>4
<1>6. ASSUME NEW a \in 1..Len(t), NEW b \in 1..Len(t), a < b PROVE t[a] < t[b]
  <2>1. a \in 1..Len(s)
    BY <1>1, <1>4, <1>6
  <2>2. CASE b \in 1..Len(s)
    BY <1>4, <1>6, <2>1, <2>2 DEF Enumerates
  <2>3. CASE b = Len(s) + 1
    <3>1. t[a] \in 1..n
      BY <1>2, <1>4, <2>1
    <3> QED BY <1>4, <2>3, <3>1
  <2> QED BY <1>5, <2>2, <2>3
<1>7. ASSUME NEW j \in E PROVE \E a \in 1..Len(t) : t[a] = j
  <2>1. CASE j = n + 1
    <3>1. Len(s) + 1 \in 1..Len(t)
      BY <1>1, <1>4
    <3> QED BY <1>4, <2>1, <3>1
  <2>2. CASE j \in D
    <3>1. PICK a \in 1..Len(s) : s[a] = j
      BY <2>2 DEF Enumerates
    <3>2. a \in 1..Len(t)
      BY <1>1, <1>4
    <3> QED BY <1>4, <3>1, <3>2
  <2> QED BY <2>1, <2>2
<1>8. t \in Seq(E)
  BY <1>4
<1> HIDE DEF E
<1> QED BY <1>6, <1>7, <1>8 DEF Enumerates, E, t

LEMMA KeptFacts ==
  ASSUME NEW r, NEW d, NEW n \in Nat, NEW f, KeptRec(f, r, d, n)
  PROVE  Enumerates(f[n], {j \in 1..n : r[j].len = d})
<1> DEFINE D(i) == {j \in 1..i : r[j].len = d}
           T == {i \in Nat : i <= n => Enumerates(f[i], D(i))}
<1>1. \A i \in 0..n : f[i] = IF i = 0 THEN <<>>
                             ELSE IF r[i].len = d THEN Append(f[i - 1], i) ELSE f[i - 1]
  BY DEF KeptRec
<1>2. 0 \in T
  <2>1. f[0] = <<>> /\ D(0) = {}
    BY <1>1
  <2>2. Enumerates(<<>>, {})
    BY DEF Enumerates
  <2> HIDE DEF D
  <2> QED BY <2>1, <2>2
<1>3. ASSUME NEW i \in Nat, i \in T PROVE i + 1 \in T
  <2> SUFFICES ASSUME i + 1 <= n PROVE Enumerates(f[i + 1], D(i + 1))
    OBVIOUS
  <2>1. i <= n /\ i + 1 \in 0..n /\ i + 1 # 0 /\ i + 1 - 1 = i
    OBVIOUS
  <2>2. Enumerates(f[i], D(i))
    BY <1>3, <2>1
  <2>3. f[i + 1] = IF r[i + 1].len = d THEN Append(f[i], i + 1) ELSE f[i]
    BY <1>1, <2>1
  <2>4. D(i) \subseteq 1..i
    OBVIOUS
  <2>5. CASE r[i + 1].len = d
    <3>1. D(i + 1) = D(i) \cup {i + 1}
      BY <2>5
    <3> HIDE DEF D
    <3> QED BY <2>2, <2>3, <2>4, <2>5, <3>1, EnumeratesMore
  <2>6. CASE r[i + 1].len # d
    <3>1. D(i + 1) = D(i)
      BY <2>6
    <3> HIDE DEF D
    <3> QED BY <2>2, <2>3, <2>6, <3>1
  <2> QED BY <2>5, <2>6
<1>4. n \in T
  <2> HIDE DEF T
  <2> QED BY <1>2, <1>3, NatSet
<1> QED BY <1>4

(* The packets of the most frequent length, in the order of the recording. *)
LEMMA PacketIndicesFacts ==
  ASSUME NEW r, Len(r) \in Nat
  PROVE  Enumerates(PacketIndices(r), {j \in 1..Len(r) : r[j].len = DominantCsiLen(r)})
<1>1. PICK f : KeptRec(f, r, DominantCsiLen(r), Len(r)) /\ PacketIndices(r) = f[Len(r)]
  BY KeptUnfold
<1>2. PICK d : d = DominantCsiLen(r)
  OBVIOUS
<1>3. KeptRec(f, r, d, Len(r)) /\ PacketIndices(r) = f[Len(r)]
  BY <1>1, <1>2
<1>4. Enumerates(f[Len(r)], {j \in 1..Len(r) : r[j].len = d})
  BY <1>3, KeptFacts
<1> QED BY <1>2, <1>3, <1>4

Packet == [at : Nat, len : Nat]

LEMMA CountType ==
  ASSUME NEW n \in Nat, NEW S, S \subseteq 1..n
  PROVE  IsFiniteSet(S) /\ Cardinality(S) \in Nat /\ Cardinality(S) <= n
<1>1. IsFiniteSet(1..n) /\ Cardinality(1..n) = n
  BY FS_Interval
<1> QED BY <1>1, FS_Subset, FS_CardinalityType

(* No length is more frequent than the dominant one. *)
LEMMA DominantFacts ==
  ASSUME NEW r \in Seq(Packet), r # <<>>
  PROVE  /\ \E i \in 1..Len(r) : r[i].len = DominantCsiLen(r)
         /\ \A l \in {r[i].len : i \in DOMAIN r} :
              Cardinality({i \in 1..Len(r) : r[i].len = l})
                <= Cardinality({i \in 1..Len(r) : r[i].len = DominantCsiLen(r)})
<1> DEFINE lens == {r[i].len : i \in DOMAIN r}
           Count(l) == Cardinality({i \in DOMAIN r : r[i].len = l})
           best == {l \in lens : \A k \in lens : Count(k) <= Count(l)}
           n == Len(r)
<1>1. n \in Nat /\ n >= 1 /\ DOMAIN r = 1..n
  OBVIOUS
<1>2. \A l : Count(l) \in Nat /\ Count(l) <= n
  BY <1>1, CountType
<1>3. lens \subseteq Nat /\ lens # {}
  <2>1. \A i \in 1..n : r[i] \in Packet
    OBVIOUS
  <2>2. \A i \in DOMAIN r : r[i].len \in Nat
    BY <1>1, <2>1 DEF Packet
  <2> QED BY <1>1, <2>2
<1>4. best # {}
  <2> HIDE DEF Count, lens
  <2> DEFINE M == {n - Count(l) : l \in lens}
  <2>1. \A l \in lens : n - Count(l) \in Nat
    BY <1>1, <1>2
  <2>2. M \subseteq Nat /\ M # {}
    BY <1>3, <2>1
  <2>3. PICK m \in M : \A k \in M : m <= k
    <3> HIDE DEF M
    <3> QED BY <2>2, NatMinimum
  <2>4. PICK l \in lens : m = n - Count(l)
    OBVIOUS
  <2>5. ASSUME NEW k \in lens PROVE Count(k) <= Count(l)
    <3>1. n - Count(l) <= n - Count(k)
      BY <2>3, <2>4
    <3> QED BY <1>1, <1>2, <3>1
  <2> QED BY <2>5
<1>5. DominantCsiLen(r) = Min(best)
  BY DEF DominantCsiLen
<1>6. DominantCsiLen(r) \in best
  <2>1. best \subseteq Nat
    BY <1>3
  <2> HIDE DEF best
  <2> QED BY <1>4, <1>5, <2>1, MinNat
<1>7. \A l \in lens : Count(l) <= Count(DominantCsiLen(r))
  BY <1>6
<1>8. DominantCsiLen(r) \in lens
  BY <1>6
<1> QED BY <1>1, <1>7, <1>8
(* Time does not step back from position i to position j.                    *)
Ascending(ts, i, j) == \A k, h \in i..j : k < h => ts[k] <= ts[h]

Starts(ts) == {1} \cup {i \in 2..Len(ts) : ts[i] < ts[i - 1]}
RunEnd(ts, b) == Min({c - 1 : c \in {d \in Starts(ts) : d > b}} \cup {Len(ts)})

LEMMA StartsType ==
  ASSUME NEW ts \in Seq(Nat), ts # <<>>
  PROVE  /\ Len(ts) \in Nat /\ Len(ts) >= 1
         /\ Starts(ts) \subseteq 1..Len(ts) /\ 1 \in Starts(ts)
BY DEF Starts

LEMMA RunEndFacts ==
  ASSUME NEW ts \in Seq(Nat), ts # <<>>, NEW b \in Starts(ts)
  PROVE  /\ RunEnd(ts, b) \in b..Len(ts)
         /\ \A d \in Starts(ts) : d > b => RunEnd(ts, b) < d
         /\ \A e \in Nat : e <= Len(ts) /\ (\A d \in Starts(ts) : d > b => e < d) => e <= RunEnd(ts, b)
<1> DEFINE later == {d \in Starts(ts) : d > b}
           S == {c - 1 : c \in later} \cup {Len(ts)}
<1>1. /\ Len(ts) \in Nat /\ b \in 1..Len(ts) /\ \A d \in Starts(ts) : d \in 1..Len(ts)
  BY StartsType
<1>2. \A d \in later : d \in 1..Len(ts) /\ d - 1 \in Nat /\ d - 1 >= b
  BY <1>1
<1>3. S \subseteq Nat /\ S # {}
  BY <1>1, <1>2
<1>4. \A y \in S : y \in Nat /\ y >= b /\ y <= Len(ts)
  BY <1>1, <1>2
<1>5. RunEnd(ts, b) = Min(S)
  BY DEF RunEnd
<1>6. Min(S) \in S /\ Min(S) \in Nat /\ \A y \in S : Min(S) <= y
  <2> HIDE DEF S
  <2> QED BY <1>3, MinNat
<1>7. ASSUME NEW d \in Starts(ts), d > b PROVE Min(S) < d
  <2>1. d - 1 \in S /\ d \in Nat
    BY <1>1, <1>7
  <2>2. Min(S) <= d - 1
    BY <1>6, <2>1
  <2> HIDE DEF S
  <2> QED BY <1>6, <2>1, <2>2
<1>8. ASSUME NEW e \in Nat, e <= Len(ts), \A d \in Starts(ts) : d > b => e < d
      PROVE  e <= Min(S)
  <2>1. \A d \in later : e <= d - 1
    BY <1>1, <1>8
  <2>2. \A y \in S : e <= y
    BY <1>8, <2>1
  <2> HIDE DEF S
  <2> QED BY <1>6, <2>2
<1>9. Min(S) \in b..Len(ts)
  <2> HIDE DEF S
  <2> QED BY <1>1, <1>4, <1>6
<1> HIDE DEF S
<1> QED BY <1>5, <1>7, <1>8, <1>9

(* Where no position is a reset, time ascends.                               *)
LEMMA NoResetAscends ==
  ASSUME NEW ts \in Seq(Nat), NEW i \in Nat, i >= 1, NEW j \in Nat, j <= Len(ts),
         \A d \in Starts(ts) : ~(i < d /\ d <= j)
  PROVE  Ascending(ts, i, j)
<1>1. \A k \in 1..Len(ts) : ts[k] \in Nat
  OBVIOUS
<1>2. ASSUME NEW d \in Nat, i < d, d <= j PROVE ts[d - 1] <= ts[d]
  <2>1. d \in 2..Len(ts) /\ d - 1 \in 1..Len(ts) /\ d \in 1..Len(ts)
    BY <1>2
  <2>2. d \notin Starts(ts)
    BY <1>2
  <2>3. ~(ts[d] < ts[d - 1])
    BY <2>1, <2>2 DEF Starts
  <2> QED BY <1>1, <2>1, <2>3
<1> SUFFICES ASSUME NEW k \in i..j PROVE \A h \in i..j : k < h => ts[k] <= ts[h]
  BY DEF Ascending
<1> DEFINE T == {x \in Nat : k + x <= j => ts[k] <= ts[k + x]}
<1>3. k \in Nat /\ k \in 1..Len(ts)
  OBVIOUS
<1>4. 0 \in T
  BY <1>1, <1>3
<1>5. ASSUME NEW x \in Nat, x \in T PROVE x + 1 \in T
  <2> SUFFICES ASSUME k + (x + 1) <= j PROVE ts[k] <= ts[k + (x + 1)]
    OBVIOUS
  <2>1. k + x <= j /\ k + (x + 1) \in Nat /\ i < k + (x + 1) /\ (k + (x + 1)) - 1 = k + x
        /\ k + x \in 1..Len(ts) /\ k + (x + 1) \in 1..Len(ts)
    BY <1>3
  <2>2. ts[k] <= ts[k + x]
    BY <1>5, <2>1
  <2>3. ts[k + x] <= ts[k + (x + 1)]
    BY <1>2, <2>1
  <2>4. ts[k] \in Nat /\ ts[k + x] \in Nat /\ ts[k + (x + 1)] \in Nat
    BY <1>1, <1>3, <2>1
  <2> QED BY <2>2, <2>3, <2>4, SMTT(30)
<1> HIDE DEF T
<1>6. Nat \subseteq T
  BY <1>4, <1>5, NatSet
<1>7. ASSUME NEW h \in i..j, k < h PROVE ts[k] <= ts[h]
  <2>1. h - k \in Nat /\ k + (h - k) = h
    BY <1>3, <1>7
  <2>2. h - k \in T
    BY <1>6, <2>1
  <2>3. k + (h - k) <= j => ts[k] <= ts[k + (h - k)]
    BY <2>2 DEF T
  <2> QED BY <2>1, <2>3
<1> QED BY <1>7

(* FixClockReset keeps an interval in which time ascends, and none is longer. *)
LEMMA FixClockResetFacts ==
  ASSUME NEW ts \in Seq(Nat), ts # <<>>
  PROVE  \E lo, hi \in 1..Len(ts) :
           /\ lo <= hi /\ FixClockReset(ts) = lo..hi /\ Ascending(ts, lo, hi)
           /\ \A i, j \in 1..Len(ts) : Ascending(ts, i, j) => j - i <= hi - lo
<1> DEFINE Size(b) == RunEnd(ts, b) - b
           bests == {b \in Starts(ts) : \A c \in Starts(ts) : Size(c) <= Size(b)}
           lo == Min(bests)
           hi == RunEnd(ts, lo)
           n == Len(ts)
<1>1. n \in Nat /\ n >= 1 /\ Starts(ts) \subseteq 1..n /\ 1 \in Starts(ts)
  BY StartsType
<1>2. \A b \in Starts(ts) : b \in 1..n /\ RunEnd(ts, b) \in b..n
  BY <1>1, RunEndFacts
<1>3. \A b \in Starts(ts) : Size(b) \in Nat /\ Size(b) <= n
  BY <1>1, <1>2
<1>4. bests # {}
  <2> HIDE DEF Size
  <2> DEFINE M == {n - Size(b) : b \in Starts(ts)}
  <2>1. M \subseteq Nat /\ M # {}
    BY <1>1, <1>3
  <2>2. PICK m \in M : \A k \in M : m <= k
    <3> HIDE DEF M
    <3> QED BY <2>1, NatMinimum
  <2>3. PICK b \in Starts(ts) : m = n - Size(b)
    OBVIOUS
  <2>4. ASSUME NEW c \in Starts(ts) PROVE Size(c) <= Size(b)
    <3>1. n - Size(b) <= n - Size(c)
      BY <2>2, <2>3
    <3> QED BY <1>1, <1>3, <3>1
  <2> QED BY <2>4
<1>5. lo \in bests
  <2>1. bests \subseteq Nat
    BY <1>1
  <2> HIDE DEF bests
  <2> QED BY <1>4, <2>1, MinNat
<1>6. FixClockReset(ts) = lo..hi
  BY DEF FixClockReset, Starts, RunEnd
<1>7. lo \in Starts(ts) /\ lo \in 1..n /\ hi \in lo..n /\ \A c \in Starts(ts) : Size(c) <= hi - lo
  <2>1. lo \in Starts(ts) /\ \A c \in Starts(ts) : Size(c) <= Size(lo)
    BY <1>5
  <2> HIDE DEF lo, bests
  <2> QED BY <1>2, <2>1
<1> HIDE DEF lo, bests
<1>8. \A d \in Starts(ts) : d > lo => hi < d
  BY <1>7, RunEndFacts
<1> HIDE DEF hi
<1>9. Ascending(ts, lo, hi)
  <2>1. \A d \in Starts(ts) : ~(lo < d /\ d <= hi)
    BY <1>1, <1>7, <1>8
  <2> QED BY <1>1, <1>7, <2>1, NoResetAscends
<1>10. ASSUME NEW i \in 1..n, NEW j \in 1..n, Ascending(ts, i, j) PROVE j - i <= hi - lo
  <2>1. CASE j < i
    BY <1>1, <1>7, <2>1
  <2>2. CASE i <= j
    <3> DEFINE B == {b \in Starts(ts) : b <= i}
    <3>1. B \subseteq Nat /\ B # {} /\ \A y \in B : y <= i
      BY <1>1
    <3>2. PICK b : b \in B /\ \A y \in B : y <= b
      <4> HIDE DEF B
      <4>1. i \in Nat OBVIOUS
      <4> QED BY <3>1, <4>1, MaxNat
    <3>3. b \in Starts(ts) /\ b <= i /\ b \in 1..n
      BY <1>1, <3>2
    <3>4. ASSUME NEW d \in Starts(ts), d > b PROVE j < d
      <4>1. d \in 1..n /\ d > i
        BY <1>1, <3>2, <3>3, <3>4
      <4>2. d > j
        <5> SUFFICES ASSUME d <= j PROVE FALSE
          BY <4>1
        <5>1. d \in 2..n /\ d \in i..j /\ d - 1 \in i..j /\ d - 1 < d /\ d # 1
          BY <4>1
        <5>2. ts[d - 1] <= ts[d]
          BY <1>10, <5>1 DEF Ascending
        <5>3. ts[d] < ts[d - 1]
          BY <5>1 DEF Starts
        <5>4. ts[d] \in Nat /\ ts[d - 1] \in Nat
          BY <5>1
        <5> QED BY <5>2, <5>3, <5>4
      <4> QED BY <4>2
    <3>5. j <= RunEnd(ts, b)
      BY <3>3, <3>4, RunEndFacts
    <3>6. RunEnd(ts, b) - b <= hi - lo /\ RunEnd(ts, b) \in b..n
      BY <1>2, <1>7, <3>3
    <3> QED BY <1>7, <3>3, <3>5, <3>6
  <2> QED BY <2>1, <2>2
<1>11. lo \in 1..n /\ hi \in 1..n /\ lo <= hi
  BY <1>7
<1> QED BY <1>6, <1>9, <1>10, <1>11
LEMMA DivOrder ==
  ASSUME NEW a \in Nat, NEW b \in Nat, a <= b, NEW w \in Nat, w > 0
  PROVE  a \div w \in Nat /\ a \div w <= b \div w /\ 0 \div w = 0
OBVIOUS

(* The bins of ResampleTimeAxis, by name.                                    *)
NNew(ts, width) == Max({2, (ts[Len(ts)] - ts[1]) \div width + 1})
BinIdx(ts, width, i) == Min({(ts[i] - ts[1]) \div width, NNew(ts, width) - 1}) + 1
Bin(ts, width, k) == {i \in DOMAIN ts : BinIdx(ts, width, i) = k}
Filled(ts, width) == {k \in 1..NNew(ts, width) : Bin(ts, width, k) # {}}
Nearest(ts, width, k) ==
  {j \in Filled(ts, width) :
     ~\E h \in Filled(ts, width) : h \in (j + 1)..(k - 1) \cup (k + 1)..(j - 1)}

(* No time is clipped: the last bin is the one of the last packet.           *)
LEMMA BinIdxFacts ==
  ASSUME NEW ts \in Seq(Nat), ts # <<>>, Ascending(ts, 1, Len(ts)), NEW width \in Nat, width > 0
  PROVE  /\ NNew(ts, width) \in Nat /\ NNew(ts, width) >= 2
         /\ \A i \in 1..Len(ts) : /\ BinIdx(ts, width, i) = 1 + (ts[i] - ts[1]) \div width
                                  /\ BinIdx(ts, width, i) \in 1..NNew(ts, width)
<1> DEFINE n == Len(ts)
           span == ts[n] - ts[1]
           top == span \div width
<1>1. n \in Nat /\ n >= 1 /\ 1 \in 1..n /\ n \in 1..n /\ \A i \in 1..n : ts[i] \in Nat
  OBVIOUS
<1>2. \A i \in 1..n : ts[1] <= ts[i] /\ ts[i] <= ts[n]
  <2> TAKE i \in 1..n
  <2>1. 1 < i => ts[1] <= ts[i]
    BY <1>1 DEF Ascending
  <2>2. i < n => ts[i] <= ts[n]
    BY <1>1 DEF Ascending
  <2> QED BY <1>1, <2>1, <2>2
<1>3. span \in Nat /\ \A i \in 1..n : ts[i] - ts[1] \in Nat /\ ts[i] - ts[1] <= span
  BY <1>1, <1>2
<1>4. top \in Nat
  <2>1. PICK a \in Nat : a = span
    BY <1>3
  <2>2. a \div width \in Nat
    BY DivOrder
  <2> HIDE DEF span
  <2> QED BY <2>1, <2>2
<1>5. \A i \in 1..n : (ts[i] - ts[1]) \div width \in Nat /\ (ts[i] - ts[1]) \div width <= top
  <2> TAKE i \in 1..n
  <2>1. PICK a \in Nat : a = ts[i] - ts[1] /\ a <= span
    BY <1>3
  <2> HIDE DEF span
  <2>2. a \div width \in Nat /\ a \div width <= span \div width
    BY <1>3, <2>1, DivOrder
  <2> QED BY <2>1, <2>2
<1> HIDE DEF top
<1>6. NNew(ts, width) \in Nat /\ NNew(ts, width) >= 2 /\ NNew(ts, width) >= top + 1
  <2>1. NNew(ts, width) = Max({2, top + 1})
    BY DEF NNew, top
  <2>2. CASE top + 1 <= 2
    <3>1. Max({2, top + 1}) = 2
      <4> DEFINE S == {2, top + 1}
      <4>1. S \subseteq Nat /\ 2 \in S /\ 2 \in Nat /\ \A y \in S : y <= 2
        BY <1>4, <2>2
      <4> HIDE DEF S
      <4>2. Max(S) = 2
        BY <4>1, MaxIs
      <4> QED BY <4>2 DEF S
    <3> QED BY <1>4, <2>1, <2>2, <3>1
  <2>3. CASE top + 1 > 2
    <3>1. Max({2, top + 1}) = top + 1
      <4> DEFINE S == {2, top + 1}
      <4>1. S \subseteq Nat /\ top + 1 \in S /\ \A y \in S : y <= top + 1
        BY <1>4, <2>3
      <4> HIDE DEF S
      <4>2. Max(S) = top + 1
        BY <4>1, MaxIs
      <4> QED BY <4>2 DEF S
    <3> QED BY <1>4, <2>1, <2>3, <3>1
  <2> QED BY <1>4, <2>2, <2>3
<1>7. ASSUME NEW i \in 1..n
      PROVE  /\ BinIdx(ts, width, i) = 1 + (ts[i] - ts[1]) \div width
             /\ BinIdx(ts, width, i) \in 1..NNew(ts, width)
  <2>1. PICK q \in Nat : q = (ts[i] - ts[1]) \div width /\ q <= top
    BY <1>5
  <2>2. PICK m \in Nat : m = NNew(ts, width) - 1 /\ q <= m
    BY <1>4, <1>6, <2>1
  <2>3. Min({q, m}) = q
    <3> DEFINE S == {q, m}
    <3>1. S \subseteq Nat /\ q \in S /\ \A y \in S : q <= y
      BY <2>2
    <3> HIDE DEF S
    <3>2. Min(S) = q
      BY <3>1, MinIs
    <3> QED BY <3>2 DEF S
  <2>4. BinIdx(ts, width, i) = q + 1
    BY <2>1, <2>2, <2>3 DEF BinIdx
  <2> QED BY <1>6, <2>1, <2>2, <2>4, SMTT(30)
<1> QED BY <1>6, <1>7

(* A bin without packets has a nearest one that has some.                    *)
LEMMA NearestExists ==
  ASSUME NEW F, F \subseteq Nat, F # {}, NEW k \in Nat
  PROVE  \E j \in F : ~\E h \in F : h \in (j + 1)..(k - 1) \cup (k + 1)..(j - 1)
<1> DEFINE Dist(j) == IF j < k THEN k - j ELSE j - k
           M == {Dist(j) : j \in F}
<1>1. \A j \in F : Dist(j) \in Nat
  OBVIOUS
<1>2. M \subseteq Nat /\ M # {}
  BY <1>1
<1>3. PICK m \in M : \A x \in M : m <= x
  <2> HIDE DEF M
  <2> QED BY <1>2, NatMinimum
<1>4. PICK j \in F : m = Dist(j)
  OBVIOUS
<1>5. \A h \in F : Dist(j) <= Dist(h)
  BY <1>3, <1>4
<1>6. ASSUME NEW h \in F, h \in (j + 1)..(k - 1) \cup (k + 1)..(j - 1) PROVE FALSE
  <2>1. j \in Nat /\ h \in Nat /\ Dist(j) <= Dist(h)
    BY <1>5
  <2> QED BY <1>6, <2>1
<1> QED BY <1>6

LEMMA ResampleFacts ==
  ASSUME NEW ts \in Seq(Nat), ts # <<>>, Ascending(ts, 1, Len(ts)), NEW width \in Nat, width > 0,
         NEW bins, bins = ResampleTimeAxis(ts, width)
  PROVE  /\ NNew(ts, width) \in Nat /\ DOMAIN bins = 1..NNew(ts, width)
         /\ bins = [k \in 1..NNew(ts, width) |-> bins[k]]
         /\ \A k \in DOMAIN bins : bins[k] \subseteq 1..Len(ts) /\ bins[k] # {}
         /\ \A i \in 1..Len(ts) : /\ 1 + (ts[i] - ts[1]) \div width \in DOMAIN bins
                                  /\ i \in bins[1 + (ts[i] - ts[1]) \div width]
<1> DEFINE N == NNew(ts, width)
           B(k) == Bin(ts, width, k)
           F == Filled(ts, width)
           Bars(k) == IF k \in F THEN B(k) ELSE UNION {B(j) : j \in Nearest(ts, width, k)}
<1>1. bins = [k \in 1..N |-> Bars(k)]
  BY DEF ResampleTimeAxis, NNew, BinIdx, Bin, Filled, Nearest
<1>2. N \in Nat /\ N >= 2 /\ Len(ts) \in Nat /\ Len(ts) >= 1 /\ DOMAIN ts = 1..Len(ts)
  BY BinIdxFacts, SMTT(30)
<1>3. \A i \in 1..Len(ts) : /\ BinIdx(ts, width, i) = 1 + (ts[i] - ts[1]) \div width
                            /\ BinIdx(ts, width, i) \in 1..N
  BY BinIdxFacts
<1>4. \A k : B(k) \subseteq 1..Len(ts)
  BY <1>2 DEF Bin
<1>5. \A k \in F : k \in 1..N /\ B(k) # {}
  BY DEF Filled
<1>6. ASSUME NEW i \in 1..Len(ts), NEW k, k = 1 + (ts[i] - ts[1]) \div width
      PROVE  k \in F /\ i \in B(k)
  <2>1. BinIdx(ts, width, i) = k /\ k \in 1..N
    BY <1>3, <1>6
  <2>2. i \in B(k)
    BY <1>2, <2>1 DEF Bin
  <2> QED BY <2>1, <2>2 DEF Filled
<1>7. F \subseteq Nat /\ F # {}
  <2>1. 1 \in 1..Len(ts)
    BY <1>2
  <2> QED BY <1>2, <1>5, <1>6, <2>1
<1> HIDE DEF N, B, F
<1>8. ASSUME NEW k \in 1..N PROVE Bars(k) \subseteq 1..Len(ts) /\ Bars(k) # {}
  <2>1. CASE k \in F
    BY <1>4, <1>5, <2>1
  <2>2. CASE k \notin F
    <3>1. PICK j \in F : ~\E h \in F : h \in (j + 1)..(k - 1) \cup (k + 1)..(j - 1)
      <4>1. k \in Nat
        BY <1>2
      <4> QED BY <1>7, <4>1, NearestExists
    <3>2. j \in Nearest(ts, width, k)
      BY <3>1 DEF Nearest, F
    <3>3. B(j) # {}
      BY <1>5
    <3>4. Bars(k) = UNION {B(x) : x \in Nearest(ts, width, k)}
      BY <2>2
    <3> QED BY <1>4, <3>2, <3>3, <3>4
  <2> QED BY <2>1, <2>2
<1>9. ASSUME NEW i \in 1..Len(ts), NEW k, k = 1 + (ts[i] - ts[1]) \div width
      PROVE  k \in 1..N /\ i \in Bars(k)
  <2>1. k \in F /\ i \in B(k)
    BY <1>6, <1>9
  <2> QED BY <1>5, <2>1
<1> HIDE DEF Bars
<1>10. DOMAIN bins = 1..N /\ \A k \in 1..N : bins[k] = Bars(k)
  BY <1>1
<1>11. \A k \in DOMAIN bins : bins[k] \subseteq 1..Len(ts) /\ bins[k] # {}
  BY <1>8, <1>10
<1>12. \A i \in 1..Len(ts) : /\ 1 + (ts[i] - ts[1]) \div width \in DOMAIN bins
                             /\ i \in bins[1 + (ts[i] - ts[1]) \div width]
  BY <1>9, <1>10
<1> QED BY <1>1, <1>2, <1>10, <1>11, <1>12 DEF N
LEMMA ResampleHolds ==
  ASSUME NEW ts \in Seq(Nat), ts # <<>>, Ascending(ts, 1, Len(ts)), NEW width \in Nat, width > 0,
         NEW bins, bins = ResampleTimeAxis(ts, width), NEW i \in 1..Len(ts),
         NEW k, k = 1 + (ts[i] - ts[1]) \div width
  PROVE  k \in DOMAIN bins /\ i \in bins[k]
BY ResampleFacts

LEMMA ResampleNonEmpty ==
  ASSUME NEW ts \in Seq(Nat), ts # <<>>, Ascending(ts, 1, Len(ts)), NEW width \in Nat, width > 0,
         NEW bins, bins = ResampleTimeAxis(ts, width)
  PROVE  /\ \E n \in Nat : DOMAIN bins = 1..n
         /\ \A k \in DOMAIN bins : bins[k] \subseteq 1..Len(ts) /\ bins[k] # {}
BY ResampleFacts

LEMMA NumbersAreNat ==
  ASSUME NEW n \in Nat, NEW D, D \subseteq 1..n
  PROVE  \A d \in D : d \in Nat
<1> SUFFICES ASSUME NEW d \in D PROVE d \in Nat
  OBVIOUS
<1>1. d \in 1..n
  OBVIOUS
<1> QED BY <1>1

(* The packets at the positions from lo to hi.                                *)
Kept(idx, lo, hi) == {idx[k] : k \in lo..hi}

LEMMA EnumeratesType ==
  ASSUME NEW D, D \subseteq Nat, NEW idx, Enumerates(idx, D)
  PROVE  /\ Len(idx) \in Nat /\ \A a \in 1..Len(idx) : idx[a] \in D /\ idx[a] \in Nat
         /\ \A a, b \in 1..Len(idx) : a < b => idx[a] < idx[b]
<1>1. idx \in Seq(D)
  BY DEF Enumerates
<1>2. Len(idx) \in Nat /\ \A a \in 1..Len(idx) : idx[a] \in D
  BY <1>1
<1>3. \A a \in 1..Len(idx) : idx[a] \in Nat
  BY <1>2
<1>4. \A a, b \in 1..Len(idx) : a < b => idx[a] < idx[b]
  BY DEF Enumerates
<1> QED BY <1>2, <1>3, <1>4

LEMMA KeptWithin ==
  ASSUME NEW D, D \subseteq Nat, NEW idx, Enumerates(idx, D),
         NEW lo \in 1..Len(idx), NEW hi \in 1..Len(idx), NEW a \in lo..hi
  PROVE  a \in 1..Len(idx) /\ idx[lo] <= idx[a] /\ idx[a] <= idx[hi]
<1>1. a \in 1..Len(idx) /\ (lo = a \/ lo < a) /\ (a = hi \/ a < hi)
  BY EnumeratesType
<1>2. idx[a] \in Nat /\ idx[lo] \in Nat /\ idx[hi] \in Nat
  BY <1>1, EnumeratesType
<1>3. (lo < a => idx[lo] < idx[a]) /\ (a < hi => idx[a] < idx[hi])
  BY <1>1, EnumeratesType
<1> QED BY <1>1, <1>2, <1>3

LEMMA WithinBounds ==
  ASSUME NEW D, D \subseteq Nat, NEW idx, Enumerates(idx, D),
         NEW a \in 1..Len(idx), NEW b \in 1..Len(idx), NEW i \in Nat, NEW j \in Nat,
         idx[a] \in i..j, idx[b] \in i..j, NEW k \in a..b
  PROVE  k \in 1..Len(idx) /\ idx[k] \in D /\ idx[k] \in i..j
<1>1. k \in 1..Len(idx) /\ idx[a] <= idx[k] /\ idx[k] <= idx[b]
  BY KeptWithin
<1>2. idx[k] \in D /\ idx[k] \in Nat
  BY <1>1, EnumeratesType
<1> QED BY <1>1, <1>2

(* A stretch of the kept packets is all of them between its first and last.  *)
LEMMA StretchEnds ==
  ASSUME NEW D, D \subseteq Nat, NEW idx, Enumerates(idx, D),
         NEW lo \in 1..Len(idx), NEW hi \in 1..Len(idx), lo <= hi
  PROVE  Min(Kept(idx, lo, hi)) = idx[lo] /\ Max(Kept(idx, lo, hi)) = idx[hi]
<1> DEFINE all == Kept(idx, lo, hi)
<1>1. \A a \in lo..hi : idx[a] \in Nat /\ idx[lo] <= idx[a] /\ idx[a] <= idx[hi]
  BY KeptWithin, EnumeratesType
<1>2. lo \in lo..hi /\ hi \in lo..hi
  OBVIOUS
<1>3. all \subseteq Nat /\ idx[lo] \in all /\ idx[hi] \in all
  BY <1>1, <1>2 DEF Kept
<1>4. \A y \in all : idx[lo] <= y /\ y <= idx[hi]
  BY <1>1 DEF Kept
<1> HIDE DEF all
<1>5. Min(all) = idx[lo] /\ Max(all) = idx[hi]
  BY <1>3, <1>4, MinIs, MaxIs
<1> QED BY <1>5 DEF all

LEMMA StretchAll ==
  ASSUME NEW D, D \subseteq Nat, NEW idx, Enumerates(idx, D),
         NEW lo \in 1..Len(idx), NEW hi \in 1..Len(idx)
  PROVE  \A k : k \in Kept(idx, lo, hi) <=> k \in D /\ k \in idx[lo]..idx[hi]
<1>1. ASSUME NEW k \in D, k \in idx[lo]..idx[hi] PROVE k \in Kept(idx, lo, hi)
  <2>1. PICK a \in 1..Len(idx) : idx[a] = k
    BY DEF Enumerates
  <2>2. idx[lo] \in Nat /\ idx[a] \in Nat /\ idx[hi] \in Nat
    BY EnumeratesType
  <2>3. idx[lo] <= idx[a] /\ idx[a] <= idx[hi]
    BY <1>1, <2>1, <2>2
  <2>4. (a < lo => idx[a] < idx[lo]) /\ (hi < a => idx[hi] < idx[a])
    BY DEF Enumerates
  <2>5. a \in lo..hi
    BY <2>2, <2>3, <2>4
  <2> QED BY <2>1, <2>5 DEF Kept
<1>2. ASSUME NEW a \in lo..hi PROVE idx[a] \in D /\ idx[a] \in idx[lo]..idx[hi]
  <2>1. a \in 1..Len(idx) /\ idx[lo] <= idx[a] /\ idx[a] <= idx[hi]
    BY KeptWithin
  <2>2. idx[a] \in D /\ idx[a] \in Nat /\ idx[lo] \in Nat /\ idx[hi] \in Nat
    BY <2>1, EnumeratesType
  <2> QED BY <2>1, <2>2
<1> QED BY <1>1, <1>2 DEF Kept

(* Packets between two positions of a shorter stretch are not more.          *)
LEMMA StretchSize ==
  ASSUME NEW n \in Nat, NEW D, D \subseteq 1..n, NEW idx, Enumerates(idx, D),
         NEW lo \in 1..Len(idx), NEW hi \in 1..Len(idx), lo <= hi,
         NEW all, all = Kept(idx, lo, hi),
         NEW S, S \subseteq D, NEW a \in 1..Len(idx), NEW b \in 1..Len(idx),
         \A k \in S : idx[a] <= k /\ k <= idx[b], b - a <= hi - lo
  PROVE  Cardinality(S) <= Cardinality(all)
<1> DEFINE f == [k \in S |-> CHOOSE x \in 1..Len(idx) : idx[x] = k]
           g == [x \in lo..hi |-> idx[x]]
<1>0. all = {idx[k] : k \in lo..hi}
  BY DEF Kept
<1>1. idx \in Seq(D) /\ Len(idx) \in Nat
  BY DEF Enumerates
<1>2. \A x \in 1..Len(idx) : idx[x] \in D /\ idx[x] \in Nat
  <2>1. \A x \in 1..Len(idx) : idx[x] \in D
    BY <1>1
  <2>2. \A d \in D : d \in Nat
    BY NumbersAreNat
  <2> QED BY <2>1, <2>2
<1>3. \A x, y \in 1..Len(idx) : x < y => idx[x] < idx[y]
  BY DEF Enumerates
<1>4. \A k \in S : f[k] \in 1..Len(idx) /\ idx[f[k]] = k
  <2> TAKE k \in S
  <2>1. \E x \in 1..Len(idx) : idx[x] = k
    BY DEF Enumerates
  <2> QED BY <2>1
<1>5. \A k \in S : f[k] \in a..b
  <2> TAKE k \in S
  <2>1. PICK x \in 1..Len(idx) : f[k] = x /\ idx[x] = k
    BY <1>4
  <2>2. idx[a] <= idx[x] /\ idx[x] <= idx[b]
    BY <2>1
  <2>3. ~(x < a) /\ ~(b < x)
    BY <1>2, <1>3, <2>2
  <2> HIDE DEF f
  <2> QED BY <1>1, <2>1, <2>3
<1>6. f \in [S -> a..b] /\ \A k, h \in S : f[k] = f[h] => k = h
  <2>1. f = [k \in S |-> f[k]]
    OBVIOUS
  <2> HIDE DEF f
  <2> QED BY <1>4, <1>5, <2>1
<1>7. f \in Injection(S, a..b)
  BY <1>6 DEF Injection, IsInjective
<1>8. IsFiniteSet(a..b) /\ Cardinality(a..b) = IF a > b THEN 0 ELSE b - a + 1
  BY FS_Interval
<1>9. IsFiniteSet(S) /\ Cardinality(S) <= Cardinality(a..b)
  <2> HIDE DEF f
  <2> QED BY <1>7, <1>8, FS_Injection
<1>10. \A x \in lo..hi : x \in 1..Len(idx)
  BY <1>1
<1>11. g \in [lo..hi -> all] /\ \A x, y \in lo..hi : g[x] = g[y] => x = y
  <2>1. ASSUME NEW x \in lo..hi, NEW y \in lo..hi, idx[x] = idx[y] PROVE x = y
    <3>1. ~(x < y) /\ ~(y < x)
      BY <1>2, <1>3, <1>10, <2>1
    <3> QED BY <3>1
  <2> QED BY <1>0, <2>1
<1>12. g \in Injection(lo..hi, all)
  BY <1>11 DEF Injection, IsInjective
<1>13. IsFiniteSet(all)
  <2>1. all \subseteq 1..n
    BY <1>0, <1>2, <1>10
  <2> QED BY <2>1, CountType
<1>14. Cardinality(lo..hi) <= Cardinality(all)
  <2> HIDE DEF g
  <2> QED BY <1>12, <1>13, FS_Injection
<1>15. Cardinality(lo..hi) = hi - lo + 1
  BY FS_Interval
<1>16. Cardinality(S) \in Nat /\ Cardinality(all) \in Nat
  BY <1>9, <1>13, FS_CardinalityType
<1> QED BY <1>8, <1>9, <1>14, <1>15, <1>16

(* What CacheFaithful says of the bins of one cache.                          *)
CachedAs(r, width, bins, all) ==
  LET len == r[Min(all)].len
  IN /\ \A l \in {r[i].len : i \in DOMAIN r} : Sized(r, l, 1, Len(r)) <= Sized(r, len, 1, Len(r))
     /\ all = {k \in Min(all)..Max(all) : r[k].len = len}
     /\ {} \notin {bins[k] : k \in DOMAIN bins}
     /\ width > 0 =>
          /\ Boot(r, len, Min(all), Max(all))
          /\ \A i, j \in DOMAIN r : Boot(r, len, i, j) => Sized(r, len, i, j) <= Cardinality(all)
          /\ \A i \in all : i \in bins[1 + (r[i].at - r[Min(all)].at) \div width]

Cached(r, width, bins) == CachedAs(r, width, bins, UNION {bins[k] : k \in DOMAIN bins})

(* The kept packets of a recording, by number and by time.                   *)
LEMMA KeptPackets ==
  ASSUME NEW r \in Seq(Packet), r # <<>>,
         NEW D, D = {k \in 1..Len(r) : r[k].len = DominantCsiLen(r)},
         NEW idx, idx = PacketIndices(r),
         NEW ts, ts = [k \in DOMAIN idx |-> r[idx[k]].at]
  PROVE  /\ Len(r) \in Nat /\ DOMAIN r = 1..Len(r) /\ D \subseteq 1..Len(r)
         /\ Enumerates(idx, D) /\ Len(idx) \in Nat /\ Len(idx) >= 1 /\ DOMAIN idx = 1..Len(idx)
         /\ ts \in Seq(Nat) /\ Len(ts) = Len(idx) /\ ts # <<>>
         /\ \A k \in 1..Len(idx) : ts[k] = r[idx[k]].at /\ ts[k] \in Nat /\ idx[k] \in D
<1>1. Len(r) \in Nat /\ DOMAIN r = 1..Len(r) /\ D \subseteq 1..Len(r)
  OBVIOUS
<1>2. Enumerates(idx, D)
  BY <1>1, PacketIndicesFacts
<1>3. idx \in Seq(D) /\ Len(idx) \in Nat /\ DOMAIN idx = 1..Len(idx)
  BY <1>2 DEF Enumerates
<1>4. PICK i \in 1..Len(r) : r[i].len = DominantCsiLen(r)
  BY DominantFacts
<1>5. \E a \in 1..Len(idx) : idx[a] = i
  BY <1>2, <1>4 DEF Enumerates
<1>6. Len(idx) >= 1
  BY <1>3, <1>5
<1>7. \A k \in 1..Len(idx) : idx[k] \in D
  BY <1>3
<1>8. \A k \in 1..Len(r) : r[k].at \in Nat
  <2>1. \A k \in 1..Len(r) : r[k] \in Packet
    OBVIOUS
  <2> QED BY <2>1 DEF Packet
<1>9. \A k \in 1..Len(idx) : ts[k] = r[idx[k]].at /\ ts[k] \in Nat /\ idx[k] \in D
  <2> TAKE k \in 1..Len(idx)
  <2>1. idx[k] \in D /\ idx[k] \in 1..Len(r)
    BY <1>1, <1>7
  <2> QED BY <1>3, <1>8, <2>1
<1>10. ts \in [1..Len(idx) -> Nat]
  BY <1>3, <1>9
<1>11. ts \in Seq(Nat) /\ Len(ts) = Len(idx) /\ ts # <<>>
  BY <1>3, <1>6, <1>10
<1> QED BY <1>1, <1>2, <1>3, <1>6, <1>9, <1>11

LEMMA KeptTimes ==
  ASSUME NEW r \in Seq(Packet), r # <<>>, NEW idx, idx = PacketIndices(r),
         NEW ts, ts = [k \in DOMAIN idx |-> r[idx[k]].at]
  PROVE  ts \in Seq(Nat) /\ Len(ts) = Len(idx) /\ ts # <<>>
<1>1. PICK D : D = {k \in 1..Len(r) : r[k].len = DominantCsiLen(r)}
  OBVIOUS
<1>2. Len(r) \in Nat /\ D \subseteq 1..Len(r)
  BY <1>1
<1>3. Enumerates(idx, D)
  BY <1>1, <1>2, PacketIndicesFacts
<1>4. idx \in Seq(D) /\ Len(idx) \in Nat /\ DOMAIN idx = 1..Len(idx)
  BY <1>3 DEF Enumerates
<1>5. \A k \in 1..Len(r) : r[k].at \in Nat
  <2>1. \A k \in 1..Len(r) : r[k] \in Packet
    OBVIOUS
  <2> QED BY <2>1 DEF Packet
<1>6. \A k \in 1..Len(idx) : r[idx[k]].at \in Nat
  <2> TAKE k \in 1..Len(idx)
  <2>1. idx[k] \in D
    BY <1>4
  <2>2. idx[k] \in 1..Len(r)
    BY <1>2, <2>1
  <2> QED BY <1>5, <2>2
<1>7. ts \in [1..Len(idx) -> Nat]
  BY <1>4, <1>6
<1>8. Len(idx) # 0
  <2>1. PICK i \in 1..Len(r) : r[i].len = DominantCsiLen(r)
    BY DominantFacts
  <2>2. \E a \in 1..Len(idx) : idx[a] = i
    BY <1>1, <1>3, <2>1 DEF Enumerates
  <2> QED BY <2>2
<1> QED BY <1>4, <1>7, <1>8

(* Of the kept packets from lo to hi, in any bins that hold them.             *)
LEMMA StretchCached ==
  ASSUME NEW r \in Seq(Packet), r # <<>>, NEW idx, idx = PacketIndices(r),
         NEW lo \in 1..Len(idx), NEW hi \in 1..Len(idx), lo <= hi,
         NEW all, all = Kept(idx, lo, hi)
  PROVE  /\ Min(all) = idx[lo] /\ Max(all) = idx[hi] /\ r[Min(all)].len = DominantCsiLen(r)
         /\ all = {k \in Min(all)..Max(all) : r[k].len = DominantCsiLen(r)}
         /\ \A l \in {r[i].len : i \in DOMAIN r} :
              Sized(r, l, 1, Len(r)) <= Sized(r, DominantCsiLen(r), 1, Len(r))
<1>0. PICK D : D = {k \in 1..Len(r) : r[k].len = DominantCsiLen(r)}
  OBVIOUS
<1>1. Len(r) \in Nat /\ DOMAIN r = 1..Len(r) /\ D \subseteq 1..Len(r) /\ Enumerates(idx, D)
  BY <1>0, KeptPackets
<1>2. /\ Min(all) = idx[lo] /\ Max(all) = idx[hi]
      /\ all = {k \in Min(all)..Max(all) : k \in D}
      /\ idx[lo] \in D /\ idx[hi] \in D
  <2>0. D \subseteq Nat /\ Enumerates(idx, D)
    BY <1>1
  <2>1. Min(all) = idx[lo] /\ Max(all) = idx[hi]
    BY <2>0, StretchEnds
  <2>2. \A k : k \in all <=> k \in D /\ k \in idx[lo]..idx[hi]
    BY <2>0, StretchAll
  <2>3. idx[lo] \in D /\ idx[hi] \in D
    BY <2>0 DEF Enumerates
  <2> QED BY <2>1, <2>2, <2>3
<1>3. PICK a \in 1..Len(r), b \in 1..Len(r) : a = Min(all) /\ b = Max(all)
  BY <1>1, <1>2
<1>4. \A k \in a..b : k \in 1..Len(r)
  BY <1>1
<1>5. all = {k \in Min(all)..Max(all) : r[k].len = DominantCsiLen(r)}
  BY <1>0, <1>2, <1>3, <1>4
<1>6. r[Min(all)].len = DominantCsiLen(r)
  BY <1>0, <1>2
<1>7. \A l \in {r[i].len : i \in DOMAIN r} :
        Sized(r, l, 1, Len(r)) <= Sized(r, DominantCsiLen(r), 1, Len(r))
  BY DominantFacts DEF Sized
<1> QED BY <1>2, <1>5, <1>6, <1>7

(* Without a bin width every kept packet is a bin.                            *)
LEMMA DecodedEvery ==
  ASSUME NEW r \in Seq(Packet), r # <<>>, NEW bins, bins = Decoded(r, 0)
  PROVE  /\ Cached(r, 0, bins)
         /\ \E n \in Nat : bins \in [1..n -> SUBSET Nat]
<1> DEFINE D == {k \in 1..Len(r) : r[k].len = DominantCsiLen(r)}
           idx == PacketIndices(r)
           all == Kept(idx, 1, Len(idx))
<1>1. /\ Len(idx) \in Nat /\ Len(idx) >= 1 /\ DOMAIN idx = 1..Len(idx)
      /\ Len(r) \in Nat /\ D \subseteq 1..Len(r) /\ \A k \in 1..Len(idx) : idx[k] \in D
  BY KeptPackets
<1>2. bins = [k \in DOMAIN idx |-> {idx[k]}]
  BY DEF Decoded
<1> HIDE DEF idx
<1>3. DOMAIN bins = 1..Len(idx) /\ \A k \in 1..Len(idx) : bins[k] = {idx[k]}
  BY <1>1, <1>2
<1>4. UNION {bins[k] : k \in DOMAIN bins} = all
  BY <1>3 DEF Kept
<1>5. /\ r[Min(all)].len = DominantCsiLen(r)
      /\ all = {k \in Min(all)..Max(all) : r[k].len = DominantCsiLen(r)}
      /\ \A l \in {r[i].len : i \in DOMAIN r} :
           Sized(r, l, 1, Len(r)) <= Sized(r, DominantCsiLen(r), 1, Len(r))
  <2>1. 1 \in 1..Len(idx) /\ Len(idx) \in 1..Len(idx) /\ 1 <= Len(idx)
    BY <1>1
  <2> HIDE DEF all
  <2>2. idx = PacketIndices(r) BY DEF idx
  <2>3. all = Kept(idx, 1, Len(idx)) BY DEF all
  <2> QED BY <2>1, <2>2, <2>3, StretchCached
<1>6. {} \notin {bins[k] : k \in DOMAIN bins}
  BY <1>3
<1>7. Cached(r, 0, bins)
  <2>1. CachedAs(r, 0, bins, all)
    <3> HIDE DEF all
    <3> QED BY <1>5, <1>6 DEF CachedAs
  <2> HIDE DEF all
  <2> QED BY <1>4, <2>1 DEF Cached
<1>8. bins \in [1..Len(idx) -> SUBSET Nat]
  <2>1. \A k \in 1..Len(idx) : idx[k] \in Nat
    BY <1>1
  <2> QED BY <1>2, <1>1, <2>1
<1> QED BY <1>1, <1>7, <1>8

(* SubSeq keeps the order of the times.                                       *)
LEMMA SubAscending ==
  ASSUME NEW ts \in Seq(Nat), NEW lo \in 1..Len(ts), NEW hi \in 1..Len(ts), lo <= hi,
         Ascending(ts, lo, hi), NEW sub, sub = SubSeq(ts, lo, hi)
  PROVE  /\ sub \in Seq(Nat) /\ sub # <<>> /\ Len(sub) = hi - lo + 1
         /\ \A x \in 1..Len(sub) : sub[x] = ts[lo + x - 1] /\ sub[x] \in Nat
         /\ Ascending(sub, 1, Len(sub))
<1>1. Len(ts) \in Nat /\ \A i \in lo..hi : i \in 1..Len(ts) /\ ts[i] \in Nat
  OBVIOUS
<1>2. /\ sub \in Seq(Nat) /\ Len(sub) = hi - lo + 1
      /\ \A x \in 1..(hi - lo + 1) : sub[x] = ts[lo + x - 1]
  BY <1>1, SubSeqProperties
<1>3. \A x \in 1..Len(sub) : lo + x - 1 \in lo..hi
  BY <1>1, <1>2
<1>4. \A x \in 1..Len(sub) : sub[x] = ts[lo + x - 1] /\ sub[x] \in Nat
  BY <1>1, <1>2, <1>3
<1>5. ASSUME NEW k \in 1..Len(sub), NEW h \in 1..Len(sub), k < h PROVE sub[k] <= sub[h]
  <2>1. lo + k - 1 \in lo..hi /\ lo + h - 1 \in lo..hi /\ lo + k - 1 < lo + h - 1
    BY <1>3, <1>5
  <2>2. ts[lo + k - 1] <= ts[lo + h - 1]
    BY <2>1 DEF Ascending
  <2> QED BY <1>4, <2>2
<1>6. Ascending(sub, 1, Len(sub))
  BY <1>5 DEF Ascending
<1>7. sub # <<>>
  <2>1. Len(sub) # 0
    BY <1>1, <1>2
  <2> QED BY <2>1
<1> QED BY <1>2, <1>4, <1>6, <1>7

(* A stretch of the recording in which the kept packets' times ascend is not *)
(* longer than the one that was kept.                                        *)
LEMMA LongestBoot ==
  ASSUME NEW r \in Seq(Packet), r # <<>>, NEW idx, idx = PacketIndices(r),
         NEW ts, ts = [k \in DOMAIN idx |-> r[idx[k]].at],
         NEW lo \in 1..Len(idx), NEW hi \in 1..Len(idx), lo <= hi,
         \A a, b \in 1..Len(idx) : Ascending(ts, a, b) => b - a <= hi - lo,
         NEW i \in DOMAIN r, NEW j \in DOMAIN r, Boot(r, DominantCsiLen(r), i, j)
  PROVE  Sized(r, DominantCsiLen(r), i, j) <= Cardinality(Kept(idx, lo, hi))
<1>0. PICK D : D = {k \in 1..Len(r) : r[k].len = DominantCsiLen(r)}
  OBVIOUS
<1>1. /\ Len(r) \in Nat /\ DOMAIN r = 1..Len(r) /\ D \subseteq 1..Len(r) /\ Enumerates(idx, D)
      /\ \A k \in 1..Len(idx) : ts[k] = r[idx[k]].at
  BY <1>0, KeptPackets
<1>2. D \subseteq Nat
  BY <1>1
<1>3. PICK S : S = {k \in i..j : r[k].len = DominantCsiLen(r)}
  OBVIOUS
<1>4. Sized(r, DominantCsiLen(r), i, j) = Cardinality(S)
  BY <1>3 DEF Sized
<1>5. S \subseteq D
  <2>1. \A k \in i..j : k \in 1..Len(r)
    BY <1>1
  <2> QED BY <1>0, <1>3, <2>1
<1>6. CASE S = {}
  <2>1. Cardinality(S) = 0
    BY <1>6, FS_EmptySet
  <2>2. \A k \in Kept(idx, lo, hi) : k \in D
    BY <1>2, <1>1, StretchAll
  <2>3. Cardinality(Kept(idx, lo, hi)) \in Nat
    BY <1>1, <2>2, CountType
  <2> QED BY <1>4, <2>1, <2>3
<1>7. CASE S # {}
  <2>1. S \subseteq Nat /\ \A y \in S : y <= j
    BY <1>1, <1>3, <1>2, <1>5
  <2>2. PICK p \in S : \A y \in S : p <= y
    BY <1>7, <2>1, NatMinimum
  <2>3. PICK q \in S : \A y \in S : y <= q
    <3>1. j \in Nat
      BY <1>1
    <3> QED BY <1>7, <2>1, <3>1, MaxNat
  <2>4. PICK a \in 1..Len(idx) : idx[a] = p
    BY <1>1, <1>5 DEF Enumerates
  <2>5. PICK b \in 1..Len(idx) : idx[b] = q
    BY <1>1, <1>5 DEF Enumerates
  <2>6. p \in i..j /\ q \in i..j
    BY <1>3
  <2>7. ASSUME NEW k \in a..b, NEW h \in a..b, k < h PROVE ts[k] <= ts[h]
    <3>0. i \in Nat /\ j \in Nat /\ idx[a] \in i..j /\ idx[b] \in i..j
      BY <1>1, <2>4, <2>5, <2>6
    <3>1. k \in 1..Len(idx) /\ idx[k] \in D /\ idx[k] \in i..j
      BY <1>1, <1>2, <3>0, WithinBounds
    <3>2. h \in 1..Len(idx) /\ idx[h] \in D /\ idx[h] \in i..j
      BY <1>1, <1>2, <3>0, WithinBounds
    <3>3. idx[k] < idx[h]
      BY <1>1, <2>7, <3>1, <3>2 DEF Enumerates
    <3>4. r[idx[k]].len = DominantCsiLen(r) /\ r[idx[h]].len = DominantCsiLen(r)
      BY <1>0, <3>1, <3>2
    <3>5. r[idx[k]].at <= r[idx[h]].at
      BY <3>1, <3>2, <3>3, <3>4 DEF Boot
    <3> QED BY <1>1, <3>1, <3>2, <3>5
  <2>8. b - a <= hi - lo
    BY <2>7 DEF Ascending
  <2>9. \A k \in S : idx[a] <= k /\ k <= idx[b]
    BY <2>2, <2>3, <2>4, <2>5
  <2>10. Cardinality(S) <= Cardinality(Kept(idx, lo, hi))
    BY <1>1, <1>5, <2>8, <2>9, StretchSize
  <2> QED BY <1>4, <2>10
<1> QED BY <1>6, <1>7

(* With a bin width one boot is kept, each packet in the bin of its time.     *)
LEMMA DecodedResampled ==
  ASSUME NEW r \in Seq(Packet), r # <<>>, NEW width \in Nat, width > 0,
         NEW bins, bins = Decoded(r, width)
  PROVE  /\ Cached(r, width, bins)
         /\ \E n \in Nat : bins \in [1..n -> SUBSET Nat]
<1> DEFINE len == DominantCsiLen(r)
           D == {k \in 1..Len(r) : r[k].len = len}
           idx == PacketIndices(r)
           ts == [k \in DOMAIN idx |-> r[idx[k]].at]
<1>0. idx = PacketIndices(r) /\ ts = [k \in DOMAIN idx |-> r[idx[k]].at]
      /\ D = {k \in 1..Len(r) : r[k].len = DominantCsiLen(r)}
  OBVIOUS
<1> HIDE DEF D, idx, ts
<1>1. /\ Len(r) \in Nat /\ DOMAIN r = 1..Len(r) /\ D \subseteq 1..Len(r) /\ Enumerates(idx, D)
      /\ Len(idx) \in Nat /\ DOMAIN idx = 1..Len(idx)
  <2>1. Len(r) \in Nat /\ DOMAIN r = 1..Len(r) /\ D \subseteq 1..Len(r)
    BY <1>0
  <2>2. Enumerates(idx, D)
    BY <1>0, <2>1, PacketIndicesFacts
  <2>3. Len(idx) \in Nat /\ DOMAIN idx = 1..Len(idx)
    BY <2>2 DEF Enumerates
  <2> QED BY <2>1, <2>2, <2>3
<1>2. ts \in Seq(Nat) /\ Len(ts) = Len(idx) /\ ts # <<>>
  <2>1. idx = PacketIndices(r) /\ ts = [k \in DOMAIN idx |-> r[idx[k]].at]
    BY <1>0
  <2> QED BY <2>1, KeptTimes
<1>3. \A k \in 1..Len(idx) : ts[k] = r[idx[k]].at /\ ts[k] \in Nat /\ idx[k] \in D
  <2>1. \A k \in 1..Len(idx) : ts[k] = r[idx[k]].at
    BY <1>0, <1>1
  <2>2. \A k \in 1..Len(idx) : ts[k] \in Nat
    BY <1>2
  <2>3. D \subseteq Nat
    BY <1>1
  <2>4. \A k \in 1..Len(idx) : idx[k] \in D
    BY <1>1, <2>3, EnumeratesType
  <2> QED BY <2>1, <2>2, <2>4
<1> DEFINE keep == FixClockReset(ts)
           first == Min(keep) - 1
           sub == SubSeq(ts, Min(keep), Max(keep))
           rbins == ResampleTimeAxis(sub, width)
<1>4. bins = [k \in DOMAIN rbins |-> {idx[first + i] : i \in rbins[k]}]
  BY DEF Decoded, idx, ts
<1> HIDE DEF rbins
<1>5. PICK lo \in 1..Len(ts), hi \in 1..Len(ts) :
           /\ lo <= hi /\ keep = lo..hi /\ Ascending(ts, lo, hi)
           /\ \A i, j \in 1..Len(ts) : Ascending(ts, i, j) => j - i <= hi - lo
  BY <1>2, FixClockResetFacts
<1>6. Min(keep) = lo /\ Max(keep) = hi
  <2>1. keep \subseteq Nat /\ lo \in keep /\ hi \in keep /\ \A y \in keep : lo <= y /\ y <= hi
    BY <1>5
  <2> HIDE DEF keep
  <2> QED BY <2>1, MinIs, MaxIs
<1>7. sub = SubSeq(ts, lo, hi) /\ first = lo - 1
  BY <1>6
<1> HIDE DEF sub, first, keep
<1>8. /\ sub \in Seq(Nat) /\ sub # <<>> /\ Len(sub) = hi - lo + 1
      /\ \A x \in 1..Len(sub) : sub[x] = ts[lo + x - 1] /\ sub[x] \in Nat
      /\ Ascending(sub, 1, Len(sub))
  <2>1. sub = SubSeq(ts, lo, hi) /\ lo <= hi /\ Ascending(ts, lo, hi)
    BY <1>5, <1>7
  <2>2. sub \in Seq(Nat) /\ sub # <<>> /\ Len(sub) = hi - lo + 1
    BY <1>2, <2>1, SubAscending
  <2>3. \A x \in 1..Len(sub) : sub[x] = ts[lo + x - 1] /\ sub[x] \in Nat
    BY <1>2, <2>1, SubAscending
  <2>4. Ascending(sub, 1, Len(sub))
    BY <1>2, <2>1, SubAscending
  <2> QED BY <2>2, <2>3, <2>4
<1>9. rbins = ResampleTimeAxis(sub, width)
  BY DEF rbins
<1>10. PICK N \in Nat : DOMAIN rbins = 1..N
  BY <1>8, <1>9, ResampleNonEmpty
<1>11. \A k \in DOMAIN rbins : rbins[k] \subseteq 1..Len(sub) /\ rbins[k] # {}
  BY <1>8, <1>9, ResampleNonEmpty
<1>12. \A x \in 1..Len(sub) : /\ 1 + (sub[x] - sub[1]) \div width \in DOMAIN rbins
                              /\ x \in rbins[1 + (sub[x] - sub[1]) \div width]
  <2> SUFFICES ASSUME NEW x \in 1..Len(sub), NEW k, k = 1 + (sub[x] - sub[1]) \div width
               PROVE  k \in DOMAIN rbins /\ x \in rbins[k]
    OBVIOUS
  <2> QED BY <1>8, <1>9, ResampleHolds
<1>13. DOMAIN bins = 1..N /\ \A k \in 1..N : bins[k] = {idx[lo - 1 + i] : i \in rbins[k]}
  BY <1>4, <1>7, <1>10
<1> DEFINE all == Kept(idx, lo, hi)
<1>14. \A x \in 1..Len(sub) : lo - 1 + x \in lo..hi /\ lo - 1 + x = lo + x - 1
  BY <1>5, <1>8
<1>15. \A a \in lo..hi : a - (lo - 1) \in 1..Len(sub) /\ lo - 1 + (a - (lo - 1)) = a
  BY <1>5, <1>8
<1>16. ASSUME NEW a \in lo..hi, NEW k, k = 1 + (ts[a] - ts[lo]) \div width
       PROVE  k \in 1..N /\ idx[a] \in bins[k]
  <2>1. PICK x \in 1..Len(sub) : lo - 1 + x = a
    BY <1>15
  <2>2. sub[x] = ts[a]
    BY <1>8, <1>14, <2>1
  <2>3. sub[1] = ts[lo]
    <3>1. 1 \in 1..Len(sub) /\ lo + 1 - 1 = lo
      BY <1>5, <1>8
    <3> QED BY <1>8, <3>1
  <2>4. k \in 1..N /\ x \in rbins[k]
    BY <1>10, <1>12, <1>16, <2>2, <2>3
  <2> QED BY <1>13, <2>1, <2>4
<1>17. UNION {bins[k] : k \in DOMAIN bins} = all
  <2>1. ASSUME NEW k \in 1..N, NEW y \in bins[k] PROVE y \in all
    <3>1. PICK x \in rbins[k] : y = idx[lo - 1 + x]
      BY <1>13, <2>1
    <3>2. x \in 1..Len(sub)
      BY <1>10, <1>11
    <3> QED BY <1>14, <3>1, <3>2 DEF Kept
  <2>2. ASSUME NEW a \in lo..hi PROVE \E k \in 1..N : idx[a] \in bins[k]
    BY <1>16
  <2>3. \A y \in all : \E a \in lo..hi : y = idx[a]
    BY DEF Kept
  <2> HIDE DEF all
  <2>4. \A y : y \in UNION {bins[k] : k \in DOMAIN bins} <=> \E k \in 1..N : y \in bins[k]
    BY <1>13
  <2>5. \A y : y \in all <=> \E k \in 1..N : y \in bins[k]
    BY <2>1, <2>2, <2>3
  <2> QED BY <2>4, <2>5
<1>18. {} \notin {bins[k] : k \in DOMAIN bins}
  <2>1. ASSUME NEW k \in 1..N PROVE bins[k] # {}
    <3>1. PICK x : x \in rbins[k]
      BY <1>10, <1>11
    <3>2. idx[lo - 1 + x] \in bins[k]
      BY <1>13, <3>1
    <3> QED BY <3>2
  <2> QED BY <1>13, <2>1
<1>19. /\ Min(all) = idx[lo] /\ Max(all) = idx[hi] /\ r[Min(all)].len = len
       /\ all = {k \in Min(all)..Max(all) : r[k].len = len}
       /\ \A l \in {r[i].len : i \in DOMAIN r} : Sized(r, l, 1, Len(r)) <= Sized(r, len, 1, Len(r))
  <2>1. idx = PacketIndices(r) /\ lo \in 1..Len(idx) /\ hi \in 1..Len(idx)
    BY <1>2 DEF idx
  <2>2. all = Kept(idx, lo, hi)
    OBVIOUS
  <2> HIDE DEF all
  <2> QED BY <1>5, <2>1, <2>2, StretchCached
<1>20. Boot(r, len, Min(all), Max(all))
  <2> SUFFICES ASSUME NEW k \in Min(all)..Max(all), NEW h \in Min(all)..Max(all),
                      k < h, r[k].len = len, r[h].len = len
               PROVE  r[k].at <= r[h].at
    BY DEF Boot
  <2>1. k \in all /\ h \in all
    BY <1>19
  <2>2. PICK a \in lo..hi, b \in lo..hi : k = idx[a] /\ h = idx[b]
    BY <2>1 DEF Kept
  <2>3. a \in 1..Len(idx) /\ b \in 1..Len(idx)
    BY <1>2
  <2>4. idx[b] < idx[a] \/ a < b
    <3>1. a = b \/ b < a \/ a < b
      OBVIOUS
    <3>2. b < a => idx[b] < idx[a]
      BY <1>1, <2>3 DEF Enumerates
    <3>3. a # b
      BY <2>2
    <3> QED BY <3>1, <3>2, <3>3
  <2>5. a < b
    <3>1. idx[a] \in Nat /\ idx[b] \in Nat
      <4>1. D \subseteq Nat
        BY <1>1
      <4> QED BY <1>1, <2>3, <4>1, EnumeratesType
    <3> QED BY <2>2, <2>4, <3>1
  <2>6. ts[a] <= ts[b]
    BY <1>5, <2>5 DEF Ascending
  <2> QED BY <1>3, <2>2, <2>3, <2>6
<1>21. \A i, j \in DOMAIN r : Boot(r, len, i, j) => Sized(r, len, i, j) <= Cardinality(all)
  <2>1. idx = PacketIndices(r) /\ ts = [k \in DOMAIN idx |-> r[idx[k]].at]
    BY DEF idx, ts
  <2>2. lo \in 1..Len(idx) /\ hi \in 1..Len(idx)
    BY <1>2
  <2>3. \A i, j \in 1..Len(idx) : Ascending(ts, i, j) => j - i <= hi - lo
    BY <1>2, <1>5
  <2> QED BY <1>5, <2>1, <2>2, <2>3, LongestBoot
<1>22. \A i \in all : i \in bins[1 + (r[i].at - r[Min(all)].at) \div width]
  <2> SUFFICES ASSUME NEW a \in lo..hi
               PROVE  idx[a] \in bins[1 + (r[idx[a]].at - r[Min(all)].at) \div width]
    BY DEF Kept
  <2>1. r[Min(all)].at = ts[lo] /\ r[idx[a]].at = ts[a]
    BY <1>2, <1>3, <1>19, SMTT(30)
  <2> QED BY <1>16, <2>1
<1>23. CachedAs(r, width, bins, all)
  <2> HIDE DEF all
  <2> QED BY <1>18, <1>19, <1>20, <1>21, <1>22 DEF CachedAs
<1>24. Cached(r, width, bins)
  <2> HIDE DEF all
  <2> QED BY <1>17, <1>23 DEF Cached
<1>25. bins \in [1..N -> SUBSET Nat]
  <2>1. \A y \in all : y \in Nat
    <3>1. \A a \in lo..hi : idx[a] \in Nat
      <4>1. D \subseteq Nat
        BY <1>1
      <4>2. \A a \in 1..Len(idx) : idx[a] \in Nat
        BY <1>1, <4>1, EnumeratesType
      <4>3. \A a \in lo..hi : a \in 1..Len(idx)
        BY <1>2
      <4> QED BY <4>2, <4>3
    <3> QED BY <3>1 DEF Kept
  <2>2. ASSUME NEW k \in 1..N PROVE bins[k] \subseteq Nat
    <3>1. \A y \in bins[k] : y \in UNION {bins[h] : h \in DOMAIN bins}
      BY <1>13
    <3> HIDE DEF all
    <3> QED BY <1>17, <2>1, <3>1
  <2>3. bins = [k \in 1..N |-> bins[k]]
    BY <1>4, <1>10
  <2> QED BY <2>2, <2>3
<1> QED BY <1>24, <1>25

-----------------------------------------------------------------------------
(* What the caches and indexes hold *)

(* What cache_session makes of a recording: every packet of the most frequent *)
(* length between the first and the last kept, and no bin empty; with a width  *)
(* they are of one boot that no other exceeds, each in the bin of its time.    *)
LEMMA DecodedFacts ==
  ASSUME NEW r \in Seq(Packet), r # <<>>, NEW width \in Nat
  PROVE  /\ Cached(r, width, Decoded(r, width))
         /\ Len(Decoded(r, width)) \in Nat
<1>1. PICK bins : bins = Decoded(r, width)
  OBVIOUS
<1>2. Cached(r, width, bins) /\ \E n \in Nat : bins \in [1..n -> SUBSET Nat]
  <2>1. CASE width = 0
    BY <1>1, <2>1, DecodedEvery
  <2>2. CASE width > 0
    BY <1>1, <2>2, DecodedResampled
  <2> QED BY <2>1, <2>2
<1>3. Len(bins) \in Nat
  <2>1. PICK n \in Nat : bins \in [1..n -> SUBSET Nat]
    BY <1>2
  <2>2. bins \in Seq(SUBSET Nat)
    BY <2>1
  <2> QED BY <2>2
<1> QED BY <1>1, <1>2, <1>3

(* What the radio gave; nothing changes it.                                 *)
RecordedType ==
  /\ recorded \in [Sessions \X Macs -> Seq(Packet)]
  /\ \A x \in Sessions \X Macs : recorded[x] # <<>>

(* Whole samples are those of a board of their session, under its name.      *)
SamplesWhole ==
  \A t \in Sessions, n \in Names :
    disk[Samples(t, n)].state = "whole" =>
      \E b \in BoardsOf[t] : n = Prefix(t, b) /\ disk[Samples(t, n)] = Whole(b)

(* A cache is of a board that was asked for, and when whole it is its bins.   *)
CacheOf(p, m) ==
  /\ m \in BoardsOf[p[1]] /\ p[2] \in {NoMac, m}
  /\ p[2] = NoMac => Prefix(p[1], m) = NoMac
CacheRight ==
  \A p \in CachePaths :
    /\ cache[p].state # "absent" => CacheOf(p, cache[p].mac)
    /\ cache[p].state = "whole" => cache[p].bins = Decoded(recorded[<<p[1], cache[p].mac>>], p[3])

(* What a worker writes is torn, what it is about to read is there.          *)
WriterRight ==
  \A w \in Workers :
    /\ worker[w].pc = "write" => cache[Path(w)].state = "torn"
    /\ worker[w].pc = "load" => cache[Path(w)].state # "absent"

(* The index has the long sessions among the rows that are done, all but the *)
(* one the worker is at.                                                    *)
Pairs(index) == {<<x.s, x.mac>> : x \in index}
LongOnes(rows, q) == {row \in rows : Long(row, q)}
IndexFit(k) ==
  /\ k.pc \in {"row", "done"} => Pairs(k.index) = LongOnes(k.rows \ k.todo, k.q)
  /\ k.pc \in {"decode", "write", "load"} =>
       \E mac \in Macs :
         /\ <<k.s, mac>> \in k.rows \ k.todo
         /\ Pairs(k.index) = LongOnes(k.rows \ (k.todo \cup {<<k.s, mac>>}), k.q)
  /\ k.pc = "done" => k.todo = {}
IndexRight == \A w \in Workers : IndexFit(worker[w])

DInv == /\ WInv /\ RecordedType /\ SamplesWhole /\ CacheRight /\ WriterRight /\ IndexRight
        /\ crashes \in 0..MaxCrashes

(* A recording of each kind, and nothing made of it yet.                     *)
LEMMA InitDInv == Init => DInv
<1> SUFFICES ASSUME Init PROVE DInv
  OBVIOUS
<1>1. RecordedType
  <2>1. ASSUME NEW x \in Sessions \X Macs PROVE recorded[x] \in Seq(Packet) /\ recorded[x] # <<>>
    <3>1. recorded[x] \in Recordings[x]
      BY DEF Init
    <3>2. Recordings[x] \subseteq Seq([at : Nat, len : Nat]) /\ <<>> \notin Recordings[x]
      BY StoreAssumption
    <3> QED BY <3>1, <3>2 DEF Packet
  <2>2. recorded = [x \in Sessions \X Macs |-> recorded[x]]
    BY DEF Init
  <2> QED BY <2>1, <2>2 DEF RecordedType
<1>2. SamplesWhole
  BY FileTypes DEF Init, SamplesWhole, Absent
<1>3. CacheRight
  BY DEF Init, CacheRight, NoCache
<1>4. WriterRight
  BY DEF Init, WriterRight, Idle
<1>5. IndexRight
  BY DEF Init, IndexRight, IndexFit, Idle
<1>6. crashes \in 0..MaxCrashes
  BY StoreAssumption DEF Init
<1> QED BY <1>1, <1>2, <1>3, <1>4, <1>5, <1>6, InitWInv DEF DInv

(* A samples file becomes whole only as its board's.                         *)
LEMMA SamplesWholeStep ==
  ASSUME IInv, SamplesWhole, [Next]_vars
  PROVE  SamplesWhole'
<1>1. CASE UNCHANGED disk
  BY <1>1 DEF SamplesWhole
<1>2. ASSUME NEW f \in Files, NEW v, disk' = [disk EXCEPT ![f] = v],
             f[1] = "metadata" \/ \E b \in BoardsOf[f[2]] : f[3] = Prefix(f[2], b) /\ v \in {Torn, Whole(b)}
      PROVE  SamplesWhole'
  <2> SUFFICES ASSUME NEW t \in Sessions, NEW n \in Names, disk'[Samples(t, n)].state = "whole"
               PROVE  \E b \in BoardsOf[t] : n = Prefix(t, b) /\ disk'[Samples(t, n)] = Whole(b)
    BY DEF SamplesWhole
  <2>1. CASE Samples(t, n) = f
    <3>1. disk'[Samples(t, n)] = v
      BY <1>2, <2>1 DEF IInv, DiskType
    <3>2. v # Torn
      BY <3>1 DEF Torn
    <3>3. f[1] = "samples" /\ f[2] = t /\ f[3] = n
      BY <2>1 DEF Samples
    <3> QED BY <1>2, <3>1, <3>2, <3>3
  <2>2. CASE Samples(t, n) # f
    <3>1. disk'[Samples(t, n)] = disk[Samples(t, n)]
      BY <1>2, <2>2, FileTypes DEF IInv, DiskType
    <3> QED BY <3>1 DEF SamplesWhole
  <2> QED BY <2>1, <2>2
<1> QED BY <1>1, <1>2, DiskStep

(* A name that is no prefix leaves no board a prefix.                        *)
LEMMA Unprefixed ==
  ASSUME NEW s \in Sessions, NEW m \in BoardsOf[s], Prefix(s, m) = NoMac, NEW b
  PROVE  Prefix(s, b) = NoMac
<1>1. m # NoMac
  BY StoreAssumption
<1> QED BY <1>1 DEF Prefix

LEMMA SavedBoard ==
  ASSUME SamplesWhole, NEW s \in Sessions, NEW b \in Macs, Saved(s, b)
  PROVE  b \in BoardsOf[s]
<1>1. Prefix(s, b) \in Names
  BY RowPrefix DEF Names, Prefix
<1>2. disk[Samples(s, Prefix(s, b))] = Whole(b)
  BY DEF Saved
<1>3. PICK c \in BoardsOf[s] : disk[Samples(s, Prefix(s, b))] = Whole(c)
  BY <1>1, <1>2 DEF SamplesWhole, Whole
<1> QED BY <1>2, <1>3 DEF Whole

(* The samples a worker finds are of the receiver it was asked for.          *)
LEMMA SourceOf ==
  ASSUME DInv, NEW w \in Workers, worker[w].pc = "decode",
         NEW source, source = disk[SamplesFile(worker[w].s, worker[w].q.mac)],
         source.state = "whole"
  PROVE  CacheOf(Path(w), source.mac)
<1> DEFINE s == worker[w].s
           q == worker[w].q
<1>1. PICK mac \in Macs : <<s, mac>> \in worker[w].rows
  BY AtSession DEF DInv
<1>2. Saved(s, mac) /\ q.mac \in {NoMac, mac} /\ s \in Sessions /\ mac # NoMac
  BY <1>1, AtSession, StoreAssumption DEF DInv, WInv, WorkerRows, RowsFit
<1>3. PICK n \in {q.mac, NoMac} : SamplesFile(s, q.mac) = Samples(s, n)
  BY DEF SamplesFile, Samples
<1>4. n \in Names
  BY <1>2, <1>3 DEF Names
<1>5. PICK m \in BoardsOf[s] : n = Prefix(s, m) /\ source = Whole(m)
  BY <1>2, <1>3, <1>4 DEF DInv, SamplesWhole
<1>6. source.mac = m /\ m # NoMac
  BY <1>2, <1>5, StoreAssumption DEF Whole
<1>7. mac \in BoardsOf[s]
  BY <1>2, SavedBoard DEF DInv
<1>8. q.mac \in {NoMac, m} /\ (q.mac = NoMac => Prefix(s, m) = NoMac)
  <2>1. CASE n = NoMac
    <3>1. Prefix(s, m) = NoMac /\ Prefix(s, mac) = NoMac
      BY <1>2, <1>5, <2>1, Unprefixed
    <3>2. m = mac
      BY <1>2, <1>5, <1>7, <3>1, PrefixesDiffer
    <3> QED BY <1>2, <3>1, <3>2
  <2>2. CASE n # NoMac
    <3>1. n = q.mac /\ Prefix(s, m) = m
      BY <1>5, <2>2 DEF Prefix
    <3> QED BY <1>5, <2>2, <3>1
  <2> QED BY <2>1, <2>2
<1>9. Path(w) = <<s, q.mac, q.width>>
  BY DEF Path, SessionCachePath
<1> HIDE DEF s, q
<1>10. Path(w)[1] = s /\ Path(w)[2] = q.mac
  BY <1>9
<1> QED BY <1>5, <1>6, <1>8, <1>10 DEF CacheOf

(* The cache a worker reads is of the receiver of its row.                   *)
LEMMA CacheOfRow ==
  ASSUME DInv, NEW w \in Workers, worker[w].pc = "load",
         NEW mac \in Macs, <<worker[w].s, mac>> \in worker[w].rows
  PROVE  cache[Path(w)].mac = mac
<1> DEFINE s == worker[w].s
           q == worker[w].q
           m == cache[Path(w)].mac
<1>1. s \in Sessions /\ Path(w) \in CachePaths
  BY AtSession DEF DInv
<1>2. Saved(s, mac) /\ q.mac \in {NoMac, mac}
  BY DEF DInv, WInv, WorkerRows, RowsFit
<1>3. Path(w)[1] = s /\ Path(w)[2] = q.mac
  BY DEF Path, SessionCachePath
<1>4. CacheOf(Path(w), m)
  BY <1>1 DEF DInv, WriterRight, CacheRight
<1>5. m \in BoardsOf[s] /\ q.mac \in {NoMac, m} /\ (q.mac = NoMac => Prefix(s, m) = NoMac)
  BY <1>3, <1>4 DEF CacheOf
<1>6. m \in Macs /\ m # NoMac /\ mac # NoMac
  BY <1>1, <1>5, StoreAssumption
<1>7. mac \in BoardsOf[s]
  BY <1>1, <1>2, SavedBoard DEF DInv
<1> HIDE DEF s, q, m
<1>8. CASE q.mac = NoMac
  <2>1. Prefix(s, m) = NoMac /\ Prefix(s, mac) = NoMac
    BY <1>1, <1>5, <1>8, Unprefixed
  <2>2. m = mac
    BY <1>1, <1>5, <1>7, <2>1, PrefixesDiffer
  <2> QED BY <2>2 DEF m
<1>9. CASE q.mac # NoMac
  BY <1>2, <1>5, <1>9 DEF m
<1> QED BY <1>8, <1>9

(* What each step has to keep.                                              *)
DKept == CacheRight' /\ WriterRight' /\ IndexRight'

(* Which sessions are long does not change: the recordings do not.           *)
LEMMA IndexMoves ==
  ASSUME DInv, NEW w \in Workers, NEW k \in WorkerState,
         worker' = [worker EXCEPT ![w] = k], UNCHANGED recorded, IndexFit(k)
  PROVE  IndexRight'
<1>1. \A v \in Workers : worker'[v] = IF v = w THEN k ELSE worker[v]
  BY DEF DInv, WInv, WorkerType
<1> SUFFICES ASSUME NEW v \in Workers PROVE IndexFit(worker[v])'
  BY DEF IndexRight
<1>2. PICK j : j = worker'[v]
  OBVIOUS
<1>3. IndexFit(j)
  BY <1>1, <1>2 DEF DInv, IndexRight
<1>4. \A rows, q : LongOnes(rows, q)' = LongOnes(rows, q)
  BY DEF LongOnes, Long
<1>5. /\ j.pc \in {"row", "done"} => Pairs(j.index) = LongOnes(j.rows \ j.todo, j.q)'
      /\ j.pc \in {"decode", "write", "load"} =>
           \E mac \in Macs :
             /\ <<j.s, mac>> \in j.rows \ j.todo
             /\ Pairs(j.index) = LongOnes(j.rows \ (j.todo \cup {<<j.s, mac>>}), j.q)'
      /\ j.pc = "done" => j.todo = {}
  BY <1>3, <1>4 DEF IndexFit
<1> QED BY <1>2, <1>5 DEF IndexFit

(* A step of a worker that leaves the files and does not begin to write.       *)
LEMMA QuietData ==
  ASSUME DInv, NEW w \in Workers, NEW k \in WorkerState,
         worker' = [worker EXCEPT ![w] = k], UNCHANGED <<cache, recorded>>,
         IndexFit(k), k.pc # "write",
         k.pc = "load" => cache[SessionCachePath(k.s, k.q)].state # "absent"
  PROVE  DKept
<1>1. \A v \in Workers : worker'[v] = IF v = w THEN k ELSE worker[v]
  BY DEF DInv, WInv, WorkerType
<1>2. CacheRight'
  BY DEF DInv, CacheRight
<1>3. WriterRight'
  BY <1>1 DEF DInv, WriterRight, Path
<1>4. IndexRight'
  BY IndexMoves
<1> QED BY <1>2, <1>3, <1>4 DEF DKept

(* A worker that failed or died has no index.                               *)
LEMMA FailedData ==
  ASSUME DInv, NEW w \in Workers, NEW pc \in {"failed", "dead"},
         worker' = [worker EXCEPT ![w] = [Idle EXCEPT !.pc = pc]], UNCHANGED <<cache, recorded>>
  PROVE  DKept
<1>1. PICK k : k = [Idle EXCEPT !.pc = pc]
  OBVIOUS
<1>2. k \in WorkerState /\ k.pc = pc
  BY <1>1, FailedState DEF DInv
<1>3. IndexFit(k)
  BY <1>2 DEF IndexFit
<1> QED BY <1>1, <1>2, <1>3, QuietData

(* It begins with an empty index, and all rows to do.                        *)
LEMMA LoadManifestData ==
  ASSUME DInv, NEW w \in Workers, NEW q \in Requests, LoadManifest(w, q)
  PROVE  DKept
<1>1. PICK rows : rows = {r \in manifest.rows : q.mac \in {NoMac, r[2]}}
  OBVIOUS
<1>2. PICK k : k = [Idle EXCEPT !.pc = "row", !.q = q, !.rows = rows, !.todo = rows]
  OBVIOUS
<1>3. UNCHANGED <<cache, recorded>> /\ (worker' = [worker EXCEPT ![w] = k] \/ worker' = Fail(w))
  BY <1>1, <1>2 DEF LoadManifest, WorkerFrame
<1>4. CASE worker' = [worker EXCEPT ![w] = k]
  <2>1. rows \subseteq Sessions \X Macs /\ 0 \in 0..NSessions
    BY <1>1, StoreAssumption DEF DInv, WInv, IInv, ManifestType
  <2>2. Idle \in WorkerState /\ Idle.index = {}
    BY <2>1 DEF Idle, WorkerState
  <2>3. k \in WorkerState /\ k.pc = "row" /\ k.rows = rows /\ k.todo = rows /\ k.index = {}
    BY <1>2, <2>1, <2>2 DEF WorkerState
  <2>4. Pairs(k.index) = {} /\ LongOnes(k.rows \ k.todo, k.q) = {}
    BY <2>3 DEF Pairs, LongOnes
  <2>5. IndexFit(k)
    BY <2>3, <2>4 DEF IndexFit
  <2> QED BY <1>3, <1>4, <2>3, <2>5, QuietData
<1>5. CASE worker' = Fail(w)
  BY <1>3, <1>5, FailedData DEF Fail
<1> QED BY <1>3, <1>4, <1>5

(* The row taken is the one that the index does not have.                    *)
LEMMA NextRowData ==
  ASSUME DInv, NEW w \in Workers, NEW row \in Sessions \X Macs, NextRow(w, row)
  PROVE  DKept
<1>1. PICK j : j = worker[w]
  OBVIOUS
<1>2. PICK pc : pc = IF cache[SessionCachePath(row[1], j.q)].state = "absent" THEN "decode" ELSE "load"
  OBVIOUS
<1>3. PICK k : k = [j EXCEPT !.todo = @ \ {row}, !.s = row[1], !.pc = pc]
  OBVIOUS
<1>4. j \in WorkerState /\ IndexFit(j) /\ RowsFit(j) /\ j.pc = "row" /\ row \in j.todo
  BY <1>1 DEF NextRow, DInv, WInv, WorkerType, WorkerRows, IndexRight
<1>5. worker' = [worker EXCEPT ![w] = k] /\ UNCHANGED <<cache, recorded>>
  BY <1>1, <1>2, <1>3 DEF NextRow, WorkerFrame, DInv, WInv, WorkerType
<1>6. row[1] \in 0..NSessions /\ row[2] \in Macs /\ row = <<row[1], row[2]>>
  BY StoreAssumption DEF Sessions
<1>7. /\ k \in WorkerState /\ k.pc = pc /\ k.todo = j.todo \ {row} /\ k.s = row[1]
      /\ k.rows = j.rows /\ k.q = j.q /\ k.index = j.index
  BY <1>2, <1>3, <1>4, <1>6 DEF WorkerState
<1>8. j.todo \subseteq j.rows /\ Pairs(j.index) = LongOnes(j.rows \ j.todo, j.q)
  BY <1>4 DEF IndexFit, RowsFit
<1>9. <<k.s, row[2]>> \in k.rows \ k.todo
  BY <1>4, <1>6, <1>7, <1>8
<1>10. k.rows \ (k.todo \cup {<<k.s, row[2]>>}) = j.rows \ j.todo
  BY <1>4, <1>6, <1>7
<1>11. IndexFit(k)
  BY <1>2, <1>6, <1>7, <1>8, <1>9, <1>10 DEF IndexFit
<1> QED BY <1>2, <1>5, <1>7, <1>11, QuietData

(* No row is left when the index is done.                                   *)
LEMMA RowsDoneData ==
  ASSUME DInv, NEW w \in Workers, RowsDone(w)
  PROVE  DKept
<1>1. PICK j : j = worker[w]
  OBVIOUS
<1>2. PICK k : k = [j EXCEPT !.pc = "done", !.s = 0]
  OBVIOUS
<1>3. j \in WorkerState /\ IndexFit(j) /\ j.pc = "row" /\ j.todo = {}
  BY <1>1 DEF RowsDone, DInv, WInv, WorkerType, IndexRight
<1>4. worker' = [worker EXCEPT ![w] = k] /\ UNCHANGED <<cache, recorded>>
  BY <1>1, <1>2 DEF RowsDone, WorkerFrame, DInv, WInv, WorkerType
<1>5. 0 \in 0..NSessions
  BY StoreAssumption
<1>6. /\ k \in WorkerState /\ k.pc = "done" /\ k.todo = j.todo /\ k.rows = j.rows
      /\ k.q = j.q /\ k.index = j.index
  BY <1>2, <1>3, <1>5 DEF WorkerState
<1>7. IndexFit(k)
  BY <1>3, <1>6 DEF IndexFit
<1> QED BY <1>4, <1>6, <1>7, QuietData

(* There is a window if and only if there are as many bins as one has.        *)
LEMMA WindowsExist ==
  ASSUME NEW n \in Nat
  PROVE  WindowStarts(n, Window, Stride) # {} <=> n >= Window
<1>1. Window \in Nat \ {0} /\ Stride \in Nat \ {0}
  BY StoreAssumption
<1>2. ASSUME n >= Window PROVE 0 \in WindowStarts(n, Window, Stride)
  <2>1. 0 \in 0..(n - Window)
    BY <1>1, <1>2
  <2>2. 0 % Stride = 0
    BY <1>1
  <2> QED BY <2>1, <2>2 DEF WindowStarts
<1>3. ASSUME NEW start \in WindowStarts(n, Window, Stride) PROVE n >= Window
  BY <1>1 DEF WindowStarts
<1> QED BY <1>2, <1>3

(* The bins of a recording are as many as those of its whole cache.           *)
LEMMA WholeCache ==
  ASSUME DInv, NEW p \in CachePaths, cache[p].state = "whole"
  PROVE  /\ cache[p].mac \in BoardsOf[p[1]] /\ cache[p].mac \in Macs /\ p[1] \in Sessions
         /\ p[3] \in Nat /\ <<p[1], cache[p].mac>> \in Sessions \X Macs
         /\ cache[p].bins = Decoded(recorded[<<p[1], cache[p].mac>>], p[3])
         /\ Cached(recorded[<<p[1], cache[p].mac>>], p[3], cache[p].bins)
         /\ Len(cache[p].bins) \in Nat
<1>1. PICK s \in Sessions, q \in Requests : p = <<s, q.mac, q.width>>
  BY DEF CachePaths, SessionCachePath
<1>2. p[1] \in Sessions /\ p[3] \in Nat
  BY <1>1, StoreAssumption
<1>3. PICK m : m = cache[p].mac
  OBVIOUS
<1>4. CacheOf(p, m) /\ cache[p].bins = Decoded(recorded[<<p[1], m>>], p[3])
  BY <1>3 DEF DInv, CacheRight
<1>5. m \in BoardsOf[p[1]] /\ m \in Macs
  BY <1>2, <1>4, StoreAssumption DEF CacheOf
<1>6. <<p[1], m>> \in Sessions \X Macs
  BY <1>2, <1>5
<1>7. PICK r : r = recorded[<<p[1], m>>]
  OBVIOUS
<1>8. r \in Seq(Packet) /\ r # <<>>
  BY <1>6, <1>7 DEF DInv, RecordedType
<1>9. Cached(r, p[3], cache[p].bins) /\ Len(cache[p].bins) \in Nat
  BY <1>2, <1>4, <1>7, <1>8, DecodedFacts
<1> QED BY <1>2, <1>3, <1>4, <1>5, <1>6, <1>7, <1>9

(* The index gets windows of the row the worker is at, if it has any.         *)
LEMMA LoadCacheData ==
  ASSUME DInv, NEW w \in Workers, LoadCache(w)
  PROVE  DKept
<1>1. PICK j : j = worker[w]
  OBVIOUS
<1>2. PICK c : c = cache[Path(w)]
  OBVIOUS
<1>3. j \in WorkerState /\ IndexFit(j) /\ j.pc = "load" /\ UNCHANGED <<cache, recorded>>
  BY <1>1 DEF LoadCache, WorkerFrame, DInv, WInv, WorkerType, IndexRight
<1>4. PICK windows : windows = {[s |-> j.s, mac |-> c.mac, start |-> n] :
                                  n \in WindowStarts(Len(c.bins), Window, Stride)}
  OBVIOUS
<1>5. PICK k : k = [j EXCEPT !.pc = "row", !.index = @ \cup windows]
  OBVIOUS
<1>6. worker' = IF c.state = "torn" THEN Fail(w) ELSE [worker EXCEPT ![w] = k]
  BY <1>1, <1>2, <1>4, <1>5 DEF LoadCache, DInv, WInv, WorkerType
<1>7. CASE c.state = "torn"
  BY <1>3, <1>6, <1>7, FailedData DEF Fail
<1>8. CASE c.state # "torn"
  <2>1. Path(w) \in CachePaths /\ j.s \in Sessions
    BY <1>1, <1>3, AtSession DEF DInv
  <2>2. c.state = "whole"
    BY <1>1, <1>2, <1>3, <1>8, <2>1 DEF DInv, WriterRight, WInv, CacheType
  <2>3. PICK mac \in Macs :
           /\ <<j.s, mac>> \in j.rows \ j.todo
           /\ Pairs(j.index) = LongOnes(j.rows \ (j.todo \cup {<<j.s, mac>>}), j.q)
    BY <1>3 DEF IndexFit
  <2>4. c.mac = mac
    BY <1>1, <1>2, <1>3, <2>3, CacheOfRow
  <2>5. Path(w)[1] = j.s /\ Path(w)[3] = j.q.width
    BY <1>1 DEF Path, SessionCachePath
  <2>6. c.bins = Decoded(recorded[<<j.s, mac>>], j.q.width) /\ Len(c.bins) \in Nat
    BY <1>2, <2>1, <2>2, <2>4, <2>5, WholeCache
  <2>7. PICK row : row = <<j.s, mac>>
    OBVIOUS
  <2>8. Long(row, j.q) <=> WindowStarts(Len(c.bins), Window, Stride) # {}
    BY <2>6, <2>7, WindowsExist DEF Long
  <2>9. Pairs(windows) = IF Long(row, j.q) THEN {row} ELSE {}
    <3>1. \A x \in windows : <<x.s, x.mac>> = row
      BY <1>4, <2>4, <2>7
    <3>2. windows # {} <=> Long(row, j.q)
      BY <1>4, <2>8
    <3>3. Pairs(windows) \subseteq {row} /\ (windows # {} => row \in Pairs(windows))
      BY <3>1 DEF Pairs
    <3>4. windows = {} => Pairs(windows) = {}
      BY DEF Pairs
    <3> QED BY <3>2, <3>3, <3>4
  <2>10. j.s \in 0..NSessions /\ windows \subseteq [s : 0..NSessions, mac : Names, start : Int]
    <3>1. j.s \in 0..NSessions /\ mac \in Names
      BY <1>3 DEF WorkerState, Names
    <3>2. WindowStarts(Len(c.bins), Window, Stride) \subseteq Int
      BY DEF WindowStarts
    <3> QED BY <1>4, <2>4, <3>1, <3>2
  <2>11. /\ k \in WorkerState /\ k.pc = "row" /\ k.todo = j.todo /\ k.rows = j.rows
         /\ k.q = j.q /\ k.index = j.index \cup windows
    BY <1>3, <1>5, <2>10 DEF WorkerState
  <2>12. Pairs(k.index) = Pairs(j.index) \cup Pairs(windows)
    BY <2>11 DEF Pairs
  <2>13. LongOnes(j.rows \ j.todo, j.q)
           = LongOnes(j.rows \ (j.todo \cup {row}), j.q) \cup (IF Long(row, j.q) THEN {row} ELSE {})
    BY <2>3, <2>7 DEF LongOnes
  <2>14. IndexFit(k)
    BY <2>3, <2>7, <2>9, <2>11, <2>12, <2>13 DEF IndexFit
  <2> QED BY <1>3, <1>6, <1>8, <2>11, <2>14, QuietData
<1> QED BY <1>7, <1>8

(* The file opened gets the samples' receiver; who else writes it opened it.  *)
LEMMA DecodeSessionData ==
  ASSUME DInv, NEW w \in Workers, DecodeSession(w)
  PROVE  DKept
<1>1. PICK j : j = worker[w]
  OBVIOUS
<1>2. PICK source : source = disk[SamplesFile(worker[w].s, worker[w].q.mac)]
  OBVIOUS
<1>3. j \in WorkerState /\ IndexFit(j) /\ j.pc = "decode" /\ UNCHANGED recorded
  BY <1>1 DEF DecodeSession, WorkerFrame, DInv, WInv, WorkerType, IndexRight
<1>4. PICK k : k = [j EXCEPT !.pc = "write"]
  OBVIOUS
<1>5. PICK p : p = Path(w)
  OBVIOUS
<1>6. PICK c : c = [state |-> "torn", mac |-> source.mac, bins |-> <<>>]
  OBVIOUS
<1>7. \/ source.state # "whole" /\ worker' = Fail(w) /\ UNCHANGED cache
      \/ /\ source.state = "whole" /\ worker' = [worker EXCEPT ![w] = k]
         /\ cache' = [cache EXCEPT ![p] = c]
  BY <1>1, <1>2, <1>4, <1>5, <1>6 DEF DecodeSession, Path, DInv, WInv, WorkerType
<1>8. CASE source.state # "whole" /\ worker' = Fail(w) /\ UNCHANGED cache
  BY <1>3, <1>8, FailedData DEF Fail
<1>9. CASE /\ source.state = "whole" /\ worker' = [worker EXCEPT ![w] = k]
           /\ cache' = [cache EXCEPT ![p] = c]
  <2>1. /\ k \in WorkerState /\ k.pc = "write" /\ k.s = j.s /\ k.q = j.q
        /\ k.rows = j.rows /\ k.todo = j.todo /\ k.index = j.index
    BY <1>3, <1>4 DEF WorkerState
  <2>2. IndexFit(k)
    BY <1>3, <2>1 DEF IndexFit
  <2>3. IndexRight'
    BY <1>3, <1>9, <2>1, <2>2, IndexMoves
  <2>4. p \in CachePaths
    BY <1>1, <1>3, <1>5, AtSession DEF DInv
  <2>5. c.state = "torn" /\ c.mac = source.mac
    BY <1>6
  <2>6. \A x \in CachePaths : cache'[x] = IF x = p THEN c ELSE cache[x]
    BY <1>9, <2>4 DEF DInv, WInv, CacheType
  <2>7. CacheOf(p, c.mac)
    BY <1>1, <1>2, <1>3, <1>5, <1>9, <2>5, SourceOf
  <2>8. CacheRight'
    BY <1>3, <2>5, <2>6, <2>7 DEF DInv, CacheRight, CacheOf
  <2>9. \A v \in Workers : worker'[v] = IF v = w THEN k ELSE worker[v]
    BY <1>9 DEF DInv, WInv, WorkerType
  <2>10. \A v \in Workers : Path(v)' = Path(v)
    BY <1>1, <2>1, <2>9 DEF Path
  <2>11. WriterRight'
    <3> SUFFICES ASSUME NEW v \in Workers
                 PROVE  /\ worker'[v].pc = "write" => cache'[Path(v)].state = "torn"
                        /\ worker'[v].pc = "load" => cache'[Path(v)].state # "absent"
      BY <2>10 DEF WriterRight
    <3>1. CASE v = w
      BY <1>5, <2>1, <2>4, <2>5, <2>6, <2>9, <3>1
    <3>2. CASE v # w /\ worker[v].pc \in {"write", "load"}
      <4>1. Path(v) \in CachePaths
        BY <3>2, AtSession DEF DInv
      <4> QED BY <2>5, <2>6, <2>9, <3>2, <4>1 DEF DInv, WriterRight
    <3> QED BY <2>9, <3>1, <3>2
  <2> QED BY <2>3, <2>8, <2>11 DEF DKept
<1> QED BY <1>7, <1>8, <1>9

(* The bins written are those of the receiver whose samples were read.        *)
LEMMA CloseCacheData ==
  ASSUME DInv, NEW w \in Workers, CloseCache(w)
  PROVE  DKept
<1>1. PICK j : j = worker[w]
  OBVIOUS
<1>2. PICK p : p = Path(w)
  OBVIOUS
<1>3. j \in WorkerState /\ IndexFit(j) /\ j.pc = "write" /\ UNCHANGED recorded
  BY <1>1 DEF CloseCache, WorkerFrame, DInv, WInv, WorkerType, IndexRight
<1>4. PICK k : k = [j EXCEPT !.pc = "load"]
  OBVIOUS
<1>5. worker' = [worker EXCEPT ![w] = k]
  BY <1>1, <1>4 DEF CloseCache, DInv, WInv, WorkerType
<1>6. /\ k \in WorkerState /\ k.pc = "load" /\ k.s = j.s /\ k.q = j.q
      /\ k.rows = j.rows /\ k.todo = j.todo /\ k.index = j.index
  BY <1>3, <1>4 DEF WorkerState
<1>7. IndexFit(k)
  BY <1>3, <1>6 DEF IndexFit
<1>8. IndexRight'
  BY <1>3, <1>5, <1>6, <1>7, IndexMoves
<1>9. p \in CachePaths
  BY <1>1, <1>2, <1>3, AtSession DEF DInv
<1>10. \A v \in Workers : worker'[v] = IF v = w THEN k ELSE worker[v]
  BY <1>5 DEF DInv, WInv, WorkerType
<1>11. \A v \in Workers : Path(v)' = Path(v)
  BY <1>1, <1>6, <1>10 DEF Path
<1>12. cache[p].state = "torn"
  BY <1>1, <1>2, <1>3 DEF DInv, WriterRight
<1>13. CASE Writing(p) # {w}
  <2>1. UNCHANGED cache
    BY <1>2, <1>13 DEF CloseCache
  <2>2. CacheRight'
    BY <1>3, <2>1 DEF DInv, CacheRight
  <2>3. WriterRight'
    BY <1>2, <1>6, <1>10, <1>11, <1>12, <2>1 DEF DInv, WriterRight
  <2> QED BY <1>8, <2>2, <2>3 DEF DKept
<1>14. CASE Writing(p) = {w}
  <2>1. PICK m : m = cache[p].mac
    OBVIOUS
  <2>2. PICK c : c = [state |-> "whole", mac |-> m,
                      bins |-> Decoded(recorded[<<j.s, m>>], j.q.width)]
    OBVIOUS
  <2>3. cache' = [cache EXCEPT ![p] = c]
    BY <1>1, <1>2, <1>14, <2>1, <2>2 DEF CloseCache
  <2>4. \A x \in CachePaths : cache'[x] = IF x = p THEN c ELSE cache[x]
    BY <1>9, <2>3 DEF DInv, WInv, CacheType
  <2>5. p[1] = j.s /\ p[3] = j.q.width
    BY <1>1, <1>2 DEF Path, SessionCachePath
  <2>6. c.state = "whole" /\ c.mac = m /\ c.bins = Decoded(recorded[<<p[1], m>>], p[3])
    BY <2>2, <2>5
  <2>7. CacheOf(p, m)
    BY <1>9, <1>12, <2>1 DEF DInv, CacheRight
  <2>8. CacheRight'
    BY <1>3, <2>4, <2>6, <2>7 DEF DInv, CacheRight, CacheOf
  <2>9. WriterRight'
    <3> SUFFICES ASSUME NEW v \in Workers
                 PROVE  /\ worker'[v].pc = "write" => cache'[Path(v)].state = "torn"
                        /\ worker'[v].pc = "load" => cache'[Path(v)].state # "absent"
      BY <1>11 DEF WriterRight
    <3>1. CASE v = w
      BY <1>2, <1>6, <1>9, <1>10, <2>4, <2>6, <3>1
    <3>2. CASE v # w /\ worker[v].pc \in {"write", "load"}
      <4>1. Path(v) \in CachePaths
        BY <3>2, AtSession DEF DInv
      <4>2. worker[v].pc = "write" => Path(v) # p
        BY <1>14, <3>2 DEF Writing
      <4> QED BY <1>10, <2>4, <2>6, <3>2, <4>1, <4>2 DEF DInv, WriterRight
    <3> QED BY <1>10, <3>1, <3>2
  <2> QED BY <1>8, <2>8, <2>9 DEF DKept
<1> QED BY <1>13, <1>14

(* Others do not touch the workers and their files.                         *)
LEMMA OthersData ==
  ASSUME DInv, UNCHANGED <<worker, cache, recorded>>
  PROVE  DKept
<1>1. CacheRight'
  BY DEF DInv, CacheRight
<1>2. WriterRight'
  BY DEF DInv, WriterRight, Path
<1>3. IndexRight'
  BY ZenonT(30) DEF DInv, IndexRight, IndexFit, LongOnes, Long
<1> QED BY <1>1, <1>2, <1>3 DEF DKept

(* The invariant holds at every step.                                       *)
LEMMA NextDInv == DInv /\ [Next]_vars => DInv'
<1> SUFFICES ASSUME DInv, [Next]_vars PROVE DInv'
  OBVIOUS
<1>1. WInv'
  BY NextWInv DEF DInv
<1>2. SamplesWhole'
  BY SamplesWholeStep DEF DInv, WInv
<1>3. UNCHANGED recorded
  BY DEF Next, Collect, SaveSession, NextBoard, NextFile, OpenFile, CloseFile, AllSaved, StartRebuild,
         Build, ReadMetadata, OpenManifest, SpillRows, CloseManifest, CollectorCrash, RebuildCrash,
         Work, WorkerCrash, WorkerFrame, LoadManifest, NextRow, RowsDone, DecodeSession, CloseCache,
         LoadCache, vars
<1>4. RecordedType'
  BY <1>3 DEF DInv, RecordedType
<1>5. crashes' \in 0..MaxCrashes
  <2>1. UNCHANGED crashes \/ Crash
    BY DEF Next, Collect, SaveSession, NextBoard, NextFile, OpenFile, CloseFile, AllSaved, StartRebuild,
           Build, ReadMetadata, OpenManifest, SpillRows, CloseManifest, CollectorCrash, RebuildCrash,
           Work, WorkerCrash, WorkerFrame, LoadManifest, NextRow, RowsDone, DecodeSession, CloseCache,
           LoadCache, vars
  <2> QED BY <2>1, StoreAssumption DEF DInv, Crash
<1>6. ASSUME NEW w \in Workers, Work(w) \/ WorkerCrash(w) PROVE DKept
  <2>1. ASSUME NEW q \in Requests, LoadManifest(w, q) PROVE DKept
    BY <2>1, LoadManifestData
  <2>2. ASSUME NEW row \in Sessions \X Macs, NextRow(w, row) PROVE DKept
    BY <2>2, NextRowData
  <2>3. CASE WorkerCrash(w)
    BY <2>3, FailedData DEF WorkerCrash
  <2> QED BY <1>6, <2>1, <2>2, <2>3, RowsDoneData, DecodeSessionData, CloseCacheData, LoadCacheData
          DEF Work
<1>7. ASSUME \/ Collect \/ StartRebuild \/ (\E p \in Builders : Build(p))
             \/ CollectorCrash \/ RebuildCrash \/ UNCHANGED vars
      PROVE  DKept
  <2>1. UNCHANGED <<worker, cache, recorded>>
    BY <1>7 DEF Collect, SaveSession, NextBoard, NextFile, OpenFile, CloseFile, AllSaved, StartRebuild,
                Build, ReadMetadata, OpenManifest, SpillRows, CloseManifest, CollectorCrash,
                RebuildCrash, vars
  <2> QED BY <2>1, OthersData
<1>8. DKept
  BY <1>6, <1>7 DEF Next
<1> QED BY <1>1, <1>2, <1>4, <1>5, <1>8 DEF DInv, DKept

(* What the invariant says of the caches and the finished indexes.            *)
LEMMA DInvFaithful == DInv => DataFaithful
<1> SUFFICES ASSUME DInv PROVE DataFaithful
  OBVIOUS
<1>1. TypeOK
  BY DEF DInv, WInv, IInv, CollectorType, DiskType, ManifestType, BuildingType, TypeOK
<1>2. CacheFaithful
  <2>1. ASSUME NEW p \in CachePaths, cache[p].state = "whole"
        PROVE  /\ p[2] \in {NoMac, cache[p].mac}
               /\ Cached(recorded[<<p[1], cache[p].mac>>], p[3], cache[p].bins)
    BY <2>1, WholeCache DEF DInv, CacheRight, CacheOf
  <2> QED BY ONLY <2>1 DEF CacheFaithful, Cached, CachedAs
<1>3. IndexFaithful
  <2> SUFFICES ASSUME NEW w \in Workers, worker[w].pc = "done"
               PROVE  {<<x.s, x.mac>> : x \in worker[w].index}
                        = {row \in worker[w].rows : Long(row, worker[w].q)}
    BY DEF IndexFaithful
  <2>1. worker[w].todo = {} /\ Pairs(worker[w].index) = LongOnes(worker[w].rows \ worker[w].todo, worker[w].q)
    BY DEF DInv, IndexRight, IndexFit
  <2>2. worker[w].rows \ worker[w].todo = worker[w].rows
    BY <2>1
  <2>3. Pairs(worker[w].index) = LongOnes(worker[w].rows, worker[w].q)
    BY <2>1, <2>2
  <2> QED BY ONLY <2>3 DEF Pairs, LongOnes
<1> QED BY <1>1, <1>2, <1>3 DEF DataFaithful

(* Whatever the receivers recorded, and however workers, rebuilds and crashes  *)
(* interleave: a whole cache has the longest boot of its receiver's packets of *)
(* the most frequent length, each in the bin of its time, and a finished index *)
(* has windows of exactly the long enough sessions it was asked for.          *)
THEOREM DataFaithfulCorrect == Spec => []DataFaithful
<1>1. DInv => DataFaithful
  BY DInvFaithful
<1> QED BY <1>1, InitDInv, NextDInv, PTL DEF Spec
===============================================================================
