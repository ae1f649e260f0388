----------------------------- MODULE LiveInference -----------------------------
(***************************************************************************)
(* main() of ml/inference/live_infer.py and of ml_2/inference/live_infer.py:  *)
(* the gate on the channel, the calibration of the empty room, the rolling    *)
(* windows and their verdicts, the guided phases of the first program and the *)
(* recording of the second.  What the receiver yields are the numbered frames *)
(* of one board, which may reset and count from the start again; a packet and *)
(* a sample are named by the place of their frame in the order of arrival.   *)
(*                                                                         *)
(* Left out: what a model computes (its answer is any class), logging, and    *)
(* the recheck's text.  The first program's LiveTimeResampler is not in the   *)
(* repository: it may return any number of packets of args.outputs.          *)
(***************************************************************************)
EXTENDS Integers, Sequences, SequencesExt, FiniteSets

CONSTANTS
  Programs,           \* command lines: [phases, collect, force, gated, outputs]
  GatePackets,        \* BANDWIDTH_CHECK_PACKETS
  RecheckEvery,       \* 3000 in the code
  WindowPackets, StridePackets,
  AggregateWindows, CalibSeconds,
  Bands, Expected,    \* the combinations of bandwidth and channel; the one asked for
  TaskNames,              \* the checkpoints' tasks, "presence" among them
  MaxFrames,          \* bound: frames that arrive
  MaxOdd,             \* bound: frames lost, resets, frames of another csi_len or band
  MaxTime,            \* bound: the clock
  MaxSignals          \* bound: SIGINTs and SIGTERMs

ASSUME WindowAssumption ==
  /\ WindowPackets \in Nat \ {0} /\ StridePackets \in Nat \ {0}
  /\ GatePackets \in Nat \ {0} /\ AggregateWindows \in Nat \ {0}
  /\ RecheckEvery \in Nat \ {0} /\ CalibSeconds \in Nat
(* Only the second program records, and it decodes a frame to one packet.     *)
ASSUME ProgramsAssumption ==
  \A a \in Programs : /\ a.phases \in Seq(Nat \ {0}) /\ a.outputs \subseteq Nat
                      /\ a.collect \in BOOLEAN /\ (a.collect => a.outputs = {1})
ASSUME BoundsAssumption == {MaxFrames, MaxOdd, MaxTime, MaxSignals} \subseteq Nat

VARIABLES
  args, stage, cause, signals, now,
  arrived, seq, odd,            \* frames that came; the number of the last; odd things so far
  hand,                         \* the frame the loop has received and not handled, or none
  seen, counts, warned,         \* combo_counts: its keys in order, its values; the last recheck
  made, pending,                \* history: packets decoded since the gate; those not handled yet
  calib, calib_start,
  win, pushed, window, window_idx,  \* the RollingWindower, and the last window read
  votes, reading,
  phase_idx, phase_start,
  writer, samples,              \* whether there is a writer, and its samples
  dropped, writer_last_seq,     \* writer_dropped; the last number counted, 0 for None
  missed, lost,                 \* history: frames lost between two samples of one boot; all lost
  saved

procVars  == <<args, cause, signals>>
gateVars  == <<seen, counts, warned>>
calibVars == <<calib, calib_start>>
winVars   == <<win, pushed, window, window_idx, votes, reading>>
phaseVars == <<phase_idx, phase_start>>
countVars == <<dropped, writer_last_seq>>
airVars   == <<arrived, seq, odd, samples, missed, lost>>
frameVars == <<hand, airVars, countVars>>
liveVars == <<stage, now, procVars, frameVars, gateVars, made, pending, calibVars,
          winVars, phaseVars, writer, saved>>

Listening == {"gate", "calibrating", "streaming"}

LiveInit ==
  /\ args \in Programs /\ stage = "start" /\ cause = "none" /\ signals = 0 /\ now = 0
  /\ arrived = 0 /\ seq = 0 /\ odd = 0 /\ hand = <<>>
  /\ seen = <<>> /\ counts = [b \in Bands |-> 0] /\ warned = FALSE
  /\ made = <<>> /\ pending = <<>> /\ calib = <<>> /\ calib_start = 0
  /\ win = <<>> /\ pushed = 0 /\ window = <<>> /\ window_idx = 0
  /\ votes = [t \in TaskNames |-> <<>>] /\ reading = [t \in TaskNames |-> "n/a"]
  /\ phase_idx = 0 /\ phase_start = 0
  /\ writer = FALSE /\ samples = <<>> /\ dropped = 0 /\ writer_last_seq = 0
  /\ missed = 0 /\ lost = 0 /\ saved = <<>>

(* Preflight and the checkpoints, outside every try: they fail, or not.       *)
Start ==
  /\ stage = "start"
  /\ \/ stage' = "gate" /\ cause' = cause
     \/ stage' = "exited" /\ cause' = "refused"
  /\ UNCHANGED <<args, signals, now, frameVars, gateVars, made, pending, calibVars,
                 winVars, phaseVars, writer, saved>>

-----------------------------------------------------------------------------
(* A frame. *)

Oddity(f) == f.skip + (IF f.reset THEN 1 ELSE 0)
                    + (IF f.fits /\ f.band = Expected THEN 0 ELSE 1)

(* So many frames were lost before it, since a reset if there was one.        *)
Frames == {f \in [skip : 0 .. MaxOdd, reset : BOOLEAN, band : Bands, fits : BOOLEAN] :
             odd + Oddity(f) <= MaxOdd}

(* The numbers begin at 1 here, so that 0 is none.                           *)
Number(f) == (IF f.reset THEN 0 ELSE seq) + f.skip + 1

(* The writer takes every frame, before the filter on csi_len.               *)
TakeFrame(f) ==
  /\ stage \in Listening /\ hand = <<>> /\ pending = <<>> /\ arrived < MaxFrames
  /\ hand' = <<f>> /\ arrived' = arrived + 1
  /\ seq' = Number(f) /\ odd' = odd + Oddity(f)
  /\ samples' = IF writer THEN Append(samples, arrived') ELSE samples
  /\ IF samples # <<>>
       THEN /\ lost' = lost + f.skip
            /\ missed' = missed + (IF f.reset THEN 0 ELSE f.skip)
       ELSE UNCHANGED <<lost, missed>>
  /\ UNCHANGED <<stage, now, procVars, gateVars, made, pending, calibVars, winVars,
                 phaseVars, writer, countVars, saved>>

Gap == seq - writer_last_seq - 1

(* Bug: the numbers of a board that was reset count as a negative gap.       *)
CountDropsSigned ==
  IF writer
    THEN /\ dropped' = dropped + (IF writer_last_seq # 0 THEN Gap ELSE 0)
         /\ writer_last_seq' = seq
    ELSE UNCHANGED countVars

CountDrops ==
  IF writer
    THEN /\ dropped' = dropped + (IF writer_last_seq # 0 /\ Gap > 0 THEN Gap ELSE 0)
         /\ writer_last_seq' = seq
    ELSE UNCHANGED countVars

(* The rest of the loop's body; a signal may come before it.                  *)
HandleFrame ==
  /\ stage \in Listening /\ hand # <<>> /\ hand' = <<>>
  /\ CountDrops
  /\ UNCHANGED <<args, signals, now, airVars, saved>>

Skip(f) ==
  /\ ~f.fits
  /\ HandleFrame
  /\ UNCHANGED <<stage, cause, gateVars, made, pending, calibVars, winVars, phaseVars, writer>>

n_accepted == FoldSet(LAMBDA b, n : n + counts[b], 0, Bands)

Count(f) ==
  /\ counts' = [counts EXCEPT ![f.band] = @ + 1]
  /\ seen' = IF counts[f.band] = 0 THEN Append(seen, f.band) ELSE seen

(* max() keeps the first of equals, in the order they came to the Counter.    *)
Dominant(c, order) ==
  order[CHOOSE i \in DOMAIN order :
          \A j \in DOMAIN order : IF j < i THEN c[order[j]] < c[order[i]]
                                           ELSE c[order[j]] <= c[order[i]]]

Mismatch == Dominant(counts', seen') # Expected

GateCount(f) ==
  /\ stage = "gate" /\ f.fits
  /\ n_accepted + 1 < GatePackets
  /\ HandleFrame /\ Count(f)
  /\ UNCHANGED <<stage, cause, warned, made, pending, calibVars, winVars, phaseVars, writer>>

(* The frame that completes the count opens the gate, and is not decoded.     *)
GateOpens(f) ==
  /\ stage = "gate" /\ f.fits
  /\ n_accepted + 1 >= GatePackets
  /\ HandleFrame /\ Count(f)
  /\ Mismatch => args.force
  /\ stage' = "calibrating" /\ calib_start' = now
  /\ UNCHANGED <<cause, warned, made, pending, calib, winVars, phaseVars, writer>>

(* sys.exit inside the try: the finally block runs.                          *)
GateShuts(f) ==
  /\ stage = "gate" /\ f.fits
  /\ n_accepted + 1 >= GatePackets
  /\ HandleFrame /\ Count(f)
  /\ Mismatch /\ ~args.force
  /\ stage' = "closing" /\ cause' = "gate"
  /\ UNCHANGED <<warned, made, pending, calibVars, winVars, phaseVars, writer>>

(* From the gate on a frame is decoded to packets; every RecheckEvery frames  *)
(* the counts of the whole run are looked at again, for a warning.            *)
Decode(f) ==
  /\ stage \in {"calibrating", "streaming"} /\ f.fits
  /\ HandleFrame /\ Count(f)
  /\ \E k \in args.outputs :
       /\ pending' = [i \in 1..k |-> arrived]
       /\ made' = made \o pending'
  /\ IF stage = "streaming" /\ (n_accepted + 1) % RecheckEvery = 0
       THEN warned' = Mismatch
       ELSE UNCHANGED warned
  /\ UNCHANGED <<stage, cause, calibVars, winVars, phaseVars, writer>>

-----------------------------------------------------------------------------
(* A packet. *)

Take == pending # <<>> /\ pending' = Tail(pending)

EnoughCalibration == now - calib_start >= CalibSeconds /\ Len(calib) + 1 >= WindowPackets

Calibrate ==
  /\ stage = "calibrating" /\ Take
  /\ calib' = Append(calib, Head(pending))
  /\ ~EnoughCalibration
  /\ UNCHANGED <<stage, now, procVars, frameVars, gateVars, made, calib_start, winVars,
                 phaseVars, writer, saved>>

(* The rest of the frame's packets, if any, goes to the windows.             *)
CalibrationEnds ==
  /\ stage = "calibrating" /\ Take
  /\ calib' = Append(calib, Head(pending))
  /\ EnoughCalibration
  /\ stage' = "streaming" /\ phase_start' = now /\ writer' = args.collect
  /\ UNCHANGED <<now, procVars, frameVars, gateVars, made, calib_start, winVars,
                 phase_idx, saved>>

(* Bug: a window is ready one stride after the buffer is full.               *)
ReadyAStrideLate(n) == n > WindowPackets /\ n % StridePackets = 0

Ready(n) == n >= WindowPackets /\ (n - WindowPackets) % StridePackets = 0

(* A deque with a maxlen. *)
Pushed(dq, x, maxlen) == LET s == Append(dq, x)
                         IN  IF Len(s) > maxlen THEN Tail(s) ELSE s

Push ==
  /\ stage = "streaming" /\ Take
  /\ win' = Pushed(win, Head(pending), WindowPackets)
  /\ pushed' = pushed + 1
  /\ UNCHANGED <<stage, now, procVars, frameVars, gateVars, made, calibVars, writer, saved>>

PushOnly ==
  /\ Push /\ ~Ready(pushed + 1)
  /\ UNCHANGED <<window, window_idx, votes, reading, phaseVars>>

(* The mean of the votes against a threshold of a half.                      *)
Positive(vs) == 2 * Len(SelectSeq(vs, LAMBDA v : v)) >= Len(vs)

Reading(vs) ==
  [t \in TaskNames |-> IF args.gated /\ t # "presence" /\ ~Positive(vs["presence"]) THEN "n/a"
                   ELSE IF Positive(vs[t]) THEN "positive" ELSE "negative"]

(* Bug: the next phase counts from the start of the one before.              *)
CountdownUnreset ==
  IF phase_idx < Len(args.phases) /\ now - phase_start >= args.phases[phase_idx + 1]
    THEN phase_idx' = phase_idx + 1 /\ UNCHANGED phase_start
    ELSE UNCHANGED phaseVars

Countdown ==
  IF phase_idx < Len(args.phases) /\ now - phase_start >= args.phases[phase_idx + 1]
    THEN phase_idx' = phase_idx + 1 /\ phase_start' = now
    ELSE UNCHANGED phaseVars

ShowWindow ==
  /\ Push /\ Ready(pushed + 1)
  /\ window' = win' /\ window_idx' = window_idx + 1
  /\ \E answer \in [TaskNames -> BOOLEAN] :
       votes' = [t \in TaskNames |-> Pushed(votes[t], answer[t], AggregateWindows)]
  /\ reading' = Reading(votes')
  /\ Countdown

-----------------------------------------------------------------------------
(* The end. *)

Tick ==
  /\ stage \in Listening /\ now < MaxTime
  /\ now' = now + 1
  /\ UNCHANGED <<stage, procVars, frameVars, gateVars, made, pending, calibVars, winVars,
                 phaseVars, writer, saved>>

(* A signal raises in the main thread: caught in the loop, not before it and  *)
(* not in the finally block or behind it; the save ignores it.               *)
Signal ==
  /\ signals < MaxSignals /\ signals' = signals + 1
  /\ \/ stage \in {"start", "closing"} /\ stage' = "exited" /\ cause' = "killed"
     \/ stage \in Listening /\ stage' = "closing" /\ cause' = "interrupt"
     \/ stage = "saving" /\ UNCHANGED <<stage, cause>>
  /\ UNCHANGED <<args, now, frameVars, gateVars, made, pending, calibVars, winVars, phaseVars,
                 writer, saved>>

(* The receiver raises (an unplugged serial port): nothing catches that.      *)
ReceiverFails ==
  /\ stage \in Listening /\ hand = <<>> /\ pending = <<>>
  /\ stage' = "closing" /\ cause' = "failed"
  /\ UNCHANGED <<args, signals, now, frameVars, gateVars, made, pending, calibVars, winVars,
                 phaseVars, writer, saved>>

(* Bug: the recording is saved only when a window was shown.                 *)
CloseUnseen ==
  /\ stage = "closing"
  /\ stage' = IF cause = "interrupt" /\ writer /\ samples # <<>> /\ window_idx > 0
                THEN "saving" ELSE "exited"
  /\ UNCHANGED <<procVars, now, frameVars, gateVars, made, pending, calibVars, winVars,
                 phaseVars, writer, saved>>

(* The finally block; behind it, unless an exception passes, the save.        *)
Close ==
  /\ stage = "closing"
  /\ stage' = IF cause = "interrupt" /\ writer /\ samples # <<>> THEN "saving" ELSE "exited"
  /\ UNCHANGED <<procVars, now, frameVars, gateVars, made, pending, calibVars, winVars,
                 phaseVars, writer, saved>>

Save ==
  /\ stage = "saving"
  /\ saved' = samples /\ stage' = "exited"
  /\ UNCHANGED <<procVars, now, frameVars, gateVars, made, pending, calibVars, winVars,
                 phaseVars, writer>>

LiveNext ==
  \/ Start \/ Tick \/ Signal \/ ReceiverFails \/ Close \/ Save
  \/ \E f \in Frames : TakeFrame(f)
  \/ \E f \in ToSet(hand) : Skip(f) \/ GateCount(f) \/ GateOpens(f) \/ GateShuts(f) \/ Decode(f)
  \/ Calibrate \/ CalibrationEnds \/ PushOnly \/ ShowWindow

(* The main thread goes on; that frames come, or signals, is not assumed.     *)
LiveFairness == WF_liveVars(Close \/ Save)

LiveSpec == LiveInit /\ [][LiveNext]_liveVars /\ LiveFairness

-----------------------------------------------------------------------------
(* Properties *)

LiveTypeOK ==
  /\ args \in Programs
  /\ stage \in Listening \cup {"start", "closing", "saving", "exited"}
  /\ cause \in {"none", "refused", "gate", "interrupt", "failed", "killed"}
  /\ Len(win) <= WindowPackets /\ phase_idx \in 0 .. Len(args.phases)
  /\ \A t \in TaskNames : Len(votes[t]) <= AggregateWindows
  /\ signals \in 0 .. MaxSignals /\ now \in 0 .. MaxTime /\ arrived \in 0 .. MaxFrames

(* The packets that reached the windower: all that followed the calibration. *)
Live == SubSeq(made, Len(calib) + 1, Len(made) - Len(pending))

(* The windows that build_window_index cuts from n packets start at these.    *)
BatchStarts(n) == {i \in 0 .. n - WindowPackets : i % StridePackets = 0}

(* RollingWindower.push says it emits a window exactly when the batch         *)
(* convention would.  Whatever the frames, the gaps and the packets a frame   *)
(* gives, as many windows are shown as the batch pipeline cuts from the       *)
(* packets behind the calibration, and the last one is the batch's last.      *)
LiveIsBatch ==
  LET starts == BatchStarts(Len(Live)) IN
    /\ window_idx = Cardinality(starts)
    /\ starts # {} => window = SubSeq(Live, (window_idx - 1) * StridePackets + 1,
                                            (window_idx - 1) * StridePackets + WindowPackets)

(* --collect: every packet of a window that was shown is in the recording, no *)
(* packet of the empty room is, and its drops are honest although the board   *)
(* may be reset and a signal may come between a sample and its count: never   *)
(* more than were lost, and never fewer than were lost between two samples    *)
(* of one boot, the last sample's apart when the loop was left at it.         *)
RecordingCoversWindows ==
  args.collect =>
    /\ ToSet(window) \subseteq ToSet(samples)
    /\ ToSet(calib) \cap ToSet(samples) = {}
    /\ dropped <= lost
    /\ hand = <<>> => missed <= dropped

(* The time announced for the first i phases.                               *)
TimeOf[i \in 0 .. Len(args.phases)] == IF i = 0 THEN 0 ELSE TimeOf[i - 1] + args.phases[i]

(* The phases before this one, and the calibration, have had all their time:  *)
(* the person is never told to change before the announced duration is over.  *)
PhasesNotCutShort ==
  stage = "streaming" => phase_start >= calib_start + CalibSeconds + TimeOf[phase_idx]

(* One interrupt ends the program and, when something was recorded, saves     *)
(* all of it; only a second one in the finally block or behind it prevents it. *)
InterruptSaves ==
  (stage = "closing" /\ cause = "interrupt")
    ~> (stage = "exited" /\ (cause = "killed" \/ saved = samples))

(* The recording from the first packet to the file: it covers what was shown  *)
(* while the program runs, and one interrupt puts it on disk.                 *)
RecordingKept == [](LiveTypeOK /\ RecordingCoversWindows) /\ InterruptSaves

=============================================================================
