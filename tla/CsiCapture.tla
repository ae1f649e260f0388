------------------------------ MODULE CsiCapture ------------------------------
(***************************************************************************)
(* The receiver board's capture pipeline: firmware/main/csi_capture.c and   *)
(* the counters of firmware/main/stats.[ch].                                *)
(*                                                                         *)
(* Three FreeRTOS tasks of a dual-core ESP32-S3 interleave: the WiFi task   *)
(* runs csi_rx_callback, sender_task drains the queue into the transport,   *)
(* and stats_task prints the four counters.  The counters are plain words   *)
(* without a lock, each written by one task, so every access is a step of   *)
(* its own.  A sample is represented by its capture number s_seq_counter.   *)
(* The words are 32 bits wide; MaxEvents stands for a run of fewer than     *)
(* 2^32 events, because no code on the board compares two counters.  The    *)
(* host does, and CollectSession models the wrap there.                     *)
(***************************************************************************)
EXTENDS Naturals, Sequences, FiniteSets

CONSTANTS
  QueueLen,        \* CSI_QUEUE_LEN
  FilterEnabled,   \* cfg->bssidflt_en
  MaxEvents        \* bound: CSI events the radio delivers in one run

ASSUME QueueLenAssumption == QueueLen \in Nat \ {0}
ASSUME FilterAssumption   == FilterEnabled \in BOOLEAN
ASSUME MaxEventsAssumption == MaxEvents \in Nat

VARIABLES
  events,           \* CSI events the driver has passed to the callback
  cbPc, scratch,    \* where csi_rx_callback is; the number in s_scratch
  s_seq_counter,
  s_queue,
  csi_cb_count, enqueued, drop_queue_full, drop_tx_fail,  \* g_csi_stats
  sndPc, item,      \* where sender_task is; the item it received
  sent,             \* what the transport has accepted, in order
  line, printed     \* the #STAT line being formatted, and the last one printed

callbackVars == <<events, cbPc, scratch, s_seq_counter, csi_cb_count,
                  enqueued, drop_queue_full>>
senderVars   == <<sndPc, item, sent, drop_tx_fail>>
statsVars    == <<line, printed>>
vars == <<callbackVars, s_queue, senderVars, statsVars>>

(* An info without a buffer, a frame of another network, a frame of ours. *)
EventKinds == {"empty", "foreign", "ours"}
Ignored(kind) == kind = "empty" \/ (FilterEnabled /\ kind = "foreign")

CallbackPcs == {"idle", "offering", "queued", "full"}
SenderPcs   == {"receiving", "sending", "failed"}
Counters    == {"cb", "enq", "dqf", "dtx"}
Counter == [cb |-> csi_cb_count, enq |-> enqueued,
            dqf |-> drop_queue_full, dtx |-> drop_tx_fail]
Unread == MaxEvents + 1   \* a field of the line not read yet

Init ==
  /\ events = 0 /\ cbPc = "idle" /\ scratch = 0 /\ s_seq_counter = 0
  /\ s_queue = <<>>
  /\ csi_cb_count = 0 /\ enqueued = 0 /\ drop_queue_full = 0 /\ drop_tx_fail = 0
  /\ sndPc = "receiving" /\ item = 0 /\ sent = <<>>
  /\ line = [f \in Counters |-> Unread]
  /\ printed = [f \in Counters |-> 0]

-----------------------------------------------------------------------------
(* csi_rx_callback, in the WiFi task. *)

(* Bug: the counter steps before the filter, so ignored frames use numbers.  *)
RxCallbackNumbersAll(kind) ==
  /\ cbPc = "idle"
  /\ events < MaxEvents
  /\ events' = events + 1
  /\ s_seq_counter' = s_seq_counter + 1
  /\ IF Ignored(kind)
       THEN UNCHANGED <<cbPc, scratch, csi_cb_count>>
       ELSE /\ csi_cb_count' = csi_cb_count + 1
            /\ scratch' = s_seq_counter
            /\ cbPc' = "offering"
  /\ UNCHANGED <<s_queue, enqueued, drop_queue_full, senderVars, statsVars>>

RxCallback(kind) ==
  /\ cbPc = "idle"
  /\ events < MaxEvents
  /\ events' = events + 1
  /\ IF Ignored(kind)
       THEN UNCHANGED <<cbPc, scratch, s_seq_counter, csi_cb_count>>
       ELSE /\ csi_cb_count' = csi_cb_count + 1
            /\ scratch' = s_seq_counter
            /\ s_seq_counter' = s_seq_counter + 1
            /\ cbPc' = "offering"
  /\ UNCHANGED <<s_queue, enqueued, drop_queue_full, senderVars, statsVars>>

(* xQueueSend with a zero timeout: it never waits for room. *)
QueueSend ==
  /\ cbPc = "offering"
  /\ IF Len(s_queue) < QueueLen
       THEN s_queue' = Append(s_queue, scratch) /\ cbPc' = "queued"
       ELSE cbPc' = "full" /\ UNCHANGED s_queue
  /\ UNCHANGED <<events, scratch, s_seq_counter, csi_cb_count, enqueued,
                 drop_queue_full, senderVars, statsVars>>

CountEnqueued ==
  /\ cbPc = "queued"
  /\ enqueued' = enqueued + 1
  /\ cbPc' = "idle"
  /\ UNCHANGED <<events, scratch, s_seq_counter, csi_cb_count,
                 drop_queue_full, s_queue, senderVars, statsVars>>

CountQueueFull ==
  /\ cbPc = "full"
  /\ drop_queue_full' = drop_queue_full + 1
  /\ cbPc' = "idle"
  /\ UNCHANGED <<events, scratch, s_seq_counter, csi_cb_count, enqueued,
                 s_queue, senderVars, statsVars>>

-----------------------------------------------------------------------------
(* sender_task. *)

QueueReceive ==
  /\ sndPc = "receiving"
  /\ s_queue # <<>>
  /\ item' = Head(s_queue)
  /\ s_queue' = Tail(s_queue)
  /\ sndPc' = "sending"
  /\ UNCHANGED <<callbackVars, sent, drop_tx_fail, statsVars>>

(* wire_pack_frame followed by s_send_fn answering true ... *)
SendAccepted ==
  /\ sndPc = "sending"
  /\ sent' = Append(sent, item)
  /\ sndPc' = "receiving"
  /\ UNCHANGED <<callbackVars, s_queue, item, drop_tx_fail, statsVars>>

(* Bugs: a refused sample is forgotten; is tried again although it went out;  *)
(* or ends the task.                                                        *)
RefusedForgotten ==
  /\ sndPc = "sending"
  /\ sndPc' = "receiving"
  /\ UNCHANGED <<callbackVars, s_queue, item, sent, drop_tx_fail, statsVars>>

RefusedSentTwice ==
  /\ sndPc = "sending"
  /\ sent' = Append(sent, item)
  /\ UNCHANGED <<callbackVars, s_queue, sndPc, item, drop_tx_fail, statsVars>>

RefusedEndsTask ==
  /\ sndPc = "sending"
  /\ sndPc' = "ended"
  /\ UNCHANGED <<callbackVars, s_queue, item, sent, drop_tx_fail, statsVars>>

(* ... or false (transport_tcp_send, serial_transport_send). *)
SendRefused ==
  /\ sndPc = "sending"
  /\ sndPc' = "failed"
  /\ UNCHANGED <<callbackVars, s_queue, item, sent, drop_tx_fail, statsVars>>

CountTxFail ==
  /\ sndPc = "failed"
  /\ drop_tx_fail' = drop_tx_fail + 1
  /\ sndPc' = "receiving"
  /\ UNCHANGED <<callbackVars, s_queue, item, sent, statsVars>>

-----------------------------------------------------------------------------
(* stats_task: snprintf's arguments are evaluated in an order C leaves open. *)

(* Bug: reading a counter resets it.  *)
StatsReadResets(f) ==
  /\ line[f] = Unread
  /\ line' = [line EXCEPT ![f] = Counter[f]]
  /\ drop_tx_fail' = IF f = "dtx" THEN 0 ELSE drop_tx_fail
  /\ UNCHANGED <<callbackVars, s_queue, sndPc, item, sent, printed>>

StatsRead(f) ==
  /\ line[f] = Unread
  /\ line' = [line EXCEPT ![f] = Counter[f]]
  /\ UNCHANGED <<callbackVars, s_queue, senderVars, printed>>

StatsPrint ==
  /\ \A f \in Counters : line[f] # Unread
  /\ printed' = line
  /\ line' = [f \in Counters |-> Unread]
  /\ UNCHANGED <<callbackVars, s_queue, senderVars>>

-----------------------------------------------------------------------------
CallbackRest == QueueSend \/ CountEnqueued \/ CountQueueFull
WifiTask     == CallbackRest \/ \E kind \in EventKinds : RxCallback(kind)
SenderTask   == QueueReceive \/ SendAccepted \/ SendRefused \/ CountTxFail
StatsTask    == StatsPrint \/ \E f \in Counters : StatsRead(f)

Next == WifiTask \/ SenderTask \/ StatsTask

(* The radio need not deliver another event; a callback that has started    *)
(* returns, and the two tasks are never starved for good: both block on     *)
(* their queue or delay, and the transport call returns.                    *)
Spec == /\ Init /\ [][Next]_vars
        /\ WF_vars(CallbackRest) /\ WF_vars(SenderTask) /\ WF_vars(StatsTask)

-----------------------------------------------------------------------------
TypeOK ==
  /\ events \in Nat
  /\ cbPc \in CallbackPcs /\ scratch \in Nat /\ s_seq_counter \in Nat
  /\ s_queue \in Seq(Nat) /\ Len(s_queue) <= QueueLen
  /\ csi_cb_count \in Nat /\ enqueued \in Nat
  /\ drop_queue_full \in Nat /\ drop_tx_fail \in Nat
  /\ sndPc \in SenderPcs /\ item \in Nat /\ sent \in Seq(Nat)
  /\ line \in [Counters -> Nat] /\ printed \in [Counters -> Nat]

CallbackHolds == IF cbPc = "idle" THEN 0 ELSE 1
Uncounted     == IF cbPc = "queued" THEN 1 ELSE 0
SenderHolds   == IF sndPc = "receiving" THEN 0 ELSE 1

(* stats.h: the four counters account for every captured sample.  One that  *)
(* has a number was queued, or counted as dropped, or is the one the        *)
(* callback holds; one that was queued is still in the queue, or in the     *)
(* sender's hands, or accepted by the transport, or counted as a tx drop.   *)
CallbackBalance == csi_cb_count = enqueued + drop_queue_full + CallbackHolds
QueueBalance    == enqueued + Uncounted
                     = Len(s_queue) + SenderHolds + Len(sent) + drop_tx_fail
Accounting ==
  csi_cb_count = s_seq_counter /\ CallbackBalance /\ QueueBalance

(* csi_capture.c:63: the transport is given the samples in the order of     *)
(* their capture, and none of them twice, whatever was dropped between.     *)
CaptureOrder ==
  \A i, j \in 1..Len(sent) : i < j => sent[i] < sent[j]

(* The same order along the whole pipeline, which makes CaptureOrder          *)
(* inductive: sent, then the sender's item, then the queue, then scratch.    *)
Newest == IF cbPc = "offering" THEN scratch ELSE s_seq_counter
QueueOrder  == \A i, j \in 1..Len(s_queue) : i < j => s_queue[i] < s_queue[j]
SentFirst   == \A i \in 1..Len(sent), j \in 1..Len(s_queue) : sent[i] < s_queue[j]
BelowNewest == /\ \A i \in 1..Len(sent) : sent[i] < Newest
               /\ \A j \in 1..Len(s_queue) : s_queue[j] < Newest
ItemBetween == sndPc = "sending" =>
                 /\ \A i \in 1..Len(sent) : sent[i] < item
                 /\ \A j \in 1..Len(s_queue) : item < s_queue[j]
                 /\ item < Newest
ScratchLast == cbPc = "offering" => s_seq_counter = scratch + 1
PipelineOrder == /\ CaptureOrder /\ QueueOrder /\ SentFirst
                 /\ BelowNewest /\ ItemBetween /\ ScratchLast

(* cli_collect.py:119 reads a gap between sequence numbers as a loss.  Once *)
(* the pipeline is empty the numbers missing from what was sent are exactly *)
(* as many as the two drop counters say.                                    *)
Idle == cbPc = "idle" /\ s_queue = <<>> /\ sndPc = "receiving"
Missing == {n \in 0..(s_seq_counter - 1) : \A i \in 1..Len(sent) : sent[i] # n}
GapsAreDrops == Idle => Cardinality(Missing) = drop_queue_full + drop_tx_fail

(* stats.c: although the four words are read one by one without a lock, no  *)
(* counter ever steps back from one #STAT line to the next, and none is     *)
(* ahead of the truth.                                                      *)
LinesAdvance ==
  [][\A f \in Counters : printed[f] <= printed'[f] /\ printed'[f] <= Counter'[f]]_vars

(* The numbers between the callback's counter and the transport's buffer.   *)
InFlight ==
  {s_queue[i] : i \in 1..Len(s_queue)}
    \cup (IF sndPc = "sending" THEN {item} ELSE {})
    \cup (IF cbPc = "offering" THEN {scratch} ELSE {})

(* Every captured sample is sent or dropped in the end: none stays queued.  *)
EverySampleSettles ==
  \A n \in 0..(MaxEvents - 1) : (n \in InFlight) ~> (n \notin InFlight)

(* The pipeline is a lossy FIFO: see LossyFifo.                             *)
Fifo == INSTANCE LossyFifo
          WITH issued <- s_seq_counter, pending <- InFlight, out <- sent
FifoSpec == Fifo!Spec
=============================================================================
