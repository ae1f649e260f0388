------------------------------- MODULE TimeAxis -------------------------------
(***************************************************************************)
(* From the packets of a recording to windows: detect_dominant_csi_len and    *)
(* the window loop of ml/data_pipeline/windowing.py, and the time axis of     *)
(* ml/data_pipeline/time_resample.py.                                       *)
(*                                                                         *)
(* A packet is its device time and its csi_len.  What the code computes with  *)
(* amplitudes is kept as the set of packets it computes them from: a mean is  *)
(* the packets of its bin, an interpolated bin those of its two neighbours.   *)
(***************************************************************************)
EXTENDS Integers, Sequences, FiniteSets, FiniteSetsExt

(* The most frequent csi_len; np.argmax takes the smallest of a tie.         *)
DominantCsiLen(r) ==
  LET lens == {r[i].len : i \in DOMAIN r}
      Count(l) == Cardinality({i \in DOMAIN r : r[i].len = l})
  IN Min({l \in lens : \A k \in lens : Count(k) <= Count(l)})

(* The bucket's packet_indices, in the order of the recording.               *)
PacketIndices(r) ==
  LET dominant == DominantCsiLen(r)
      kept[n \in 0..Len(r)] ==
        IF n = 0 THEN <<>>
        ELSE IF r[n].len = dominant THEN Append(kept[n - 1], n) ELSE kept[n - 1]
  IN kept[Len(r)]

(* Bug: what follows the last reset is kept.                                 *)
FixClockResetLast(ts) ==
  LET starts == {1} \cup {i \in 2..Len(ts) : ts[i] < ts[i - 1]}
  IN Max(starts)..Len(ts)

(* The positions kept: the longest run without a step back, the first of     *)
(* several.                                                                 *)
FixClockReset(ts) ==
  LET starts == {1} \cup {i \in 2..Len(ts) : ts[i] < ts[i - 1]}
      Last(b) == Min({c - 1 : c \in {d \in starts : d > b}} \cup {Len(ts)})
      best == Min({b \in starts : \A c \in starts : Last(c) - c <= Last(b) - b})
  IN best..Last(best)

(* The bins of a time axis, each as the positions in ts it is computed from;  *)
(* there are at least two, and an empty one is interpolated.                 *)
ResampleTimeAxis(ts, width) ==
  LET n_new == Max({2, (ts[Len(ts)] - ts[1]) \div width + 1})
      BinIdx(i) == Min({(ts[i] - ts[1]) \div width, n_new - 1}) + 1
      Bin(k) == {i \in DOMAIN ts : BinIdx(i) = k}
      filled == {k \in 1..n_new : Bin(k) # {}}
      Nearest(k) == {j \in filled : ~\E h \in filled : h \in (j + 1)..(k - 1) \cup (k + 1)..(j - 1)}
  IN [k \in 1..n_new |-> IF k \in filled THEN Bin(k) ELSE UNION {Bin(j) : j \in Nearest(k)}]

(* range(0, n - window + 1, stride)                                         *)
WindowStarts(n, window, stride) ==
  {start \in 0..(n - window) : start % stride = 0}
===============================================================================
