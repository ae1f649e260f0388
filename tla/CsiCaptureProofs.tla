--------------------------- MODULE CsiCaptureProofs ---------------------------
(***************************************************************************)
(* Proofs about CsiCapture for every queue length, filter setting and       *)
(* number of events.                                                        *)
(***************************************************************************)
EXTENDS CsiCapture, TLAPS, SequenceTheorems, FiniteSetTheorems

(* Two facts about sequences that the step lemmas cite instead of the       *)
(* definitions of Append and Tail.                                          *)
LEMMA AppendFacts ==
  ASSUME NEW S, NEW s \in Seq(S), NEW x \in S
  PROVE  /\ Append(s, x) \in Seq(S)
         /\ Len(Append(s, x)) = Len(s) + 1
         /\ \A i \in 1..Len(s) : Append(s, x)[i] = s[i]
         /\ Append(s, x)[Len(s) + 1] = x
  OBVIOUS

LEMMA QueueFacts ==
  ASSUME NEW S, NEW s \in Seq(S), s # <<>>
  PROVE  /\ Len(s) \in Nat /\ Len(s) >= 1
         /\ Head(s) = s[1] /\ Head(s) \in S
         /\ Tail(s) \in Seq(S)
         /\ Len(Tail(s)) = Len(s) - 1
         /\ \A i \in 1..Len(Tail(s)) : Tail(s)[i] = s[i + 1]
  BY HeadTailProperties, EmptySeq, LenProperties

(* Of two indices of a sequence with one more element only the higher can be  *)
(* that of the new element.                                                 *)
LEMMA LastOrBefore ==
  ASSUME NEW n \in Nat, NEW i \in 1..(n + 1), NEW j \in 1..(n + 1), i < j
  PROVE  i \in 1..n /\ (j = n + 1 \/ j \in 1..n)
OBVIOUS

-----------------------------------------------------------------------------
(* Type correctness: in particular the queue never holds more than          *)
(* CSI_QUEUE_LEN items, because xQueueSend refuses the one that does not    *)
(* fit (csi_capture.c:70).                                                  *)
LEMMA TypeStep == TypeOK /\ [Next]_vars => TypeOK'
<1> SUFFICES ASSUME TypeOK, [Next]_vars PROVE TypeOK'
  OBVIOUS
<1> USE DEF TypeOK, callbackVars, senderVars, statsVars, CallbackPcs, SenderPcs
<1>1. ASSUME NEW kind \in EventKinds, RxCallback(kind) PROVE TypeOK'
  BY <1>1 DEF RxCallback
<1>2. CASE QueueSend
  <2>1. CASE Len(s_queue) < QueueLen
    <3>1. s_queue' = Append(s_queue, scratch) /\ cbPc' = "queued"
      BY <1>2, <2>1 DEF QueueSend
    <3>2. s_queue' \in Seq(Nat) /\ Len(s_queue') = Len(s_queue) + 1
      BY <3>1, AppendFacts
    <3>3. Len(s_queue') <= QueueLen
      BY <3>2, <2>1, LenProperties, QueueLenAssumption
    <3>4. QED
      BY <1>2, <3>1, <3>2, <3>3 DEF QueueSend
  <2>2. CASE ~(Len(s_queue) < QueueLen)
    BY <1>2, <2>2 DEF QueueSend
  <2>3. QED
    BY <2>1, <2>2
<1>3. CASE CountEnqueued
  BY <1>3 DEF CountEnqueued
<1>4. CASE CountQueueFull
  BY <1>4 DEF CountQueueFull
<1>5. CASE QueueReceive
  <2>1. s_queue # <<>> /\ s_queue' = Tail(s_queue) /\ item' = Head(s_queue)
    BY <1>5 DEF QueueReceive
  <2>2. s_queue' \in Seq(Nat) /\ Len(s_queue') = Len(s_queue) - 1 /\ item' \in Nat
    BY <2>1, QueueFacts
  <2>3. QED
    BY <1>5, <2>2, LenProperties, QueueLenAssumption DEF QueueReceive
<1>6. CASE SendAccepted
  <2>1. sent' \in Seq(Nat)
    BY <1>6, AppendFacts DEF SendAccepted
  <2>2. QED
    BY <1>6, <2>1 DEF SendAccepted
<1>6a. CASE SendRefused
  BY <1>6a DEF SendRefused
<1>7. CASE CountTxFail
  BY <1>7 DEF CountTxFail
<1>8. ASSUME NEW f \in Counters, StatsRead(f) PROVE TypeOK'
  <2>1. Counter[f] \in Nat
    BY DEF Counter, Counters
  <2>2. QED
    BY <1>8, <2>1 DEF StatsRead
<1>9. CASE StatsPrint
  BY <1>9, MaxEventsAssumption DEF StatsPrint, Unread
<1>10. CASE UNCHANGED vars
  BY <1>10 DEF vars
<1>11. QED
  BY <1>1, <1>2, <1>3, <1>4, <1>5, <1>6, <1>6a, <1>7, <1>8, <1>9, <1>10
     DEF Next, WifiTask, CallbackRest, SenderTask, StatsTask

THEOREM TypeCorrect == Spec => []TypeOK
<1>1. Init => TypeOK
  BY MaxEventsAssumption, QueueLenAssumption, EmptySeq
     DEF Init, TypeOK, CallbackPcs, SenderPcs, Unread
<1>2. QED
  BY <1>1, TypeStep, PTL DEF Spec

-----------------------------------------------------------------------------
(* No sample is lost without a counter saying so (stats.h:9-12).            *)
LEMMA AccountingStep == TypeOK /\ Accounting /\ [Next]_vars => Accounting'
<1> SUFFICES ASSUME TypeOK, Accounting, [Next]_vars PROVE Accounting'
  OBVIOUS
<1> DEFINE counts == <<csi_cb_count, s_seq_counter, enqueued, drop_queue_full, drop_tx_fail>>
<1> USE DEF callbackVars, senderVars, statsVars
<1>0. /\ Len(s_queue) \in Nat /\ Len(sent) \in Nat
      /\ csi_cb_count \in Nat /\ s_seq_counter \in Nat /\ enqueued \in Nat
      /\ drop_queue_full \in Nat /\ drop_tx_fail \in Nat
      /\ CallbackHolds \in Nat /\ Uncounted \in Nat /\ SenderHolds \in Nat
  BY LenProperties DEF TypeOK, CallbackHolds, Uncounted, SenderHolds
<1>b. csi_cb_count = s_seq_counter /\ CallbackBalance /\ QueueBalance
  BY DEF Accounting
<1>1. ASSUME NEW kind \in EventKinds, RxCallback(kind) PROVE Accounting'
  <2>1. CASE Ignored(kind)
    BY <1>1, <2>1 DEF RxCallback, Accounting, CallbackBalance, QueueBalance,
       CallbackHolds, Uncounted, SenderHolds
  <2>2. CASE ~Ignored(kind)
    <3>1. /\ csi_cb_count' = csi_cb_count + 1 /\ s_seq_counter' = s_seq_counter + 1
          /\ UNCHANGED <<enqueued, drop_queue_full, drop_tx_fail, s_queue, sent>>
      BY <1>1, <2>2 DEF RxCallback
    <3>2. /\ CallbackHolds = 0 /\ CallbackHolds' = 1
          /\ Uncounted = 0 /\ Uncounted' = 0 /\ SenderHolds' = SenderHolds
      BY <1>1, <2>2 DEF RxCallback, CallbackHolds, Uncounted, SenderHolds
    <3>3. (csi_cb_count = s_seq_counter)' /\ CallbackBalance'
      BY <3>1, <3>2, <1>0, <1>b DEF CallbackBalance
    <3>4. QueueBalance'
      BY <3>1, <3>2, <1>0, <1>b DEF QueueBalance
    <3>5. QED
      BY <3>3, <3>4 DEF Accounting
  <2>3. QED
    BY <2>1, <2>2
<1>2. CASE QueueSend
  <2>1. /\ UNCHANGED <<counts, sent>>
        /\ CallbackHolds = 1 /\ CallbackHolds' = 1 /\ Uncounted = 0
        /\ SenderHolds' = SenderHolds
    BY <1>2 DEF QueueSend, CallbackHolds, Uncounted, SenderHolds
  <2>2. (csi_cb_count = s_seq_counter)' /\ CallbackBalance'
    BY <2>1, <1>0, <1>b DEF CallbackBalance
  <2>3. CASE Len(s_queue) < QueueLen
    <3>1. Len(s_queue') = Len(s_queue) + 1 /\ Uncounted' = 1
      BY <1>2, <2>3, AppendFacts DEF QueueSend, TypeOK, Uncounted
    <3>2. QueueBalance'
      BY <2>1, <3>1, <1>0, <1>b DEF QueueBalance
    <3>3. QED
      BY <2>2, <3>2 DEF Accounting
  <2>4. CASE ~(Len(s_queue) < QueueLen)
    <3>1. s_queue' = s_queue /\ Uncounted' = 0
      BY <1>2, <2>4 DEF QueueSend, Uncounted
    <3>2. QueueBalance'
      BY <2>1, <3>1, <1>0, <1>b DEF QueueBalance
    <3>3. QED
      BY <2>2, <3>2 DEF Accounting
  <2>5. QED
    BY <2>3, <2>4
<1>3. CASE CountEnqueued
  <2>1. enqueued' = enqueued + 1
        /\ UNCHANGED <<csi_cb_count, s_seq_counter, drop_queue_full, drop_tx_fail, s_queue, sent>>
    BY <1>3 DEF CountEnqueued
  <2>2. /\ CallbackHolds = 1 /\ CallbackHolds' = 0
        /\ Uncounted = 1 /\ Uncounted' = 0 /\ SenderHolds' = SenderHolds
    BY <1>3 DEF CountEnqueued, CallbackHolds, Uncounted, SenderHolds
  <2>3. (csi_cb_count = s_seq_counter)' /\ CallbackBalance'
    BY <2>1, <2>2, <1>0, <1>b DEF CallbackBalance
  <2>4. QueueBalance'
    BY <2>1, <2>2, <1>0, <1>b DEF QueueBalance
  <2>5. QED
    BY <2>3, <2>4 DEF Accounting
<1>4. CASE CountQueueFull
  <2>1. drop_queue_full' = drop_queue_full + 1
        /\ UNCHANGED <<csi_cb_count, s_seq_counter, enqueued, drop_tx_fail, s_queue, sent>>
    BY <1>4 DEF CountQueueFull
  <2>2. /\ CallbackHolds = 1 /\ CallbackHolds' = 0
        /\ Uncounted = 0 /\ Uncounted' = 0 /\ SenderHolds' = SenderHolds
    BY <1>4 DEF CountQueueFull, CallbackHolds, Uncounted, SenderHolds
  <2>3. (csi_cb_count = s_seq_counter)' /\ CallbackBalance'
    BY <2>1, <2>2, <1>0, <1>b DEF CallbackBalance
  <2>4. QueueBalance'
    BY <2>1, <2>2, <1>0, <1>b DEF QueueBalance
  <2>5. QED
    BY <2>3, <2>4 DEF Accounting
<1>5. CASE QueueReceive
  <2>1. Len(s_queue') = Len(s_queue) - 1
    BY <1>5, QueueFacts DEF QueueReceive, TypeOK
  <2>2. /\ UNCHANGED <<counts, sent, CallbackHolds, Uncounted>>
        /\ SenderHolds = 0 /\ SenderHolds' = 1
    BY <1>5 DEF QueueReceive, CallbackHolds, Uncounted, SenderHolds
  <2>3. (csi_cb_count = s_seq_counter)' /\ CallbackBalance'
    BY <2>1, <2>2, <1>0, <1>b DEF CallbackBalance
  <2>4. QueueBalance'
    BY <2>1, <2>2, <1>0, <1>b DEF QueueBalance
  <2>5. QED
    BY <2>3, <2>4 DEF Accounting
<1>6. CASE SendAccepted
  <2>1. Len(sent') = Len(sent) + 1
    BY <1>6, AppendFacts DEF SendAccepted, TypeOK
  <2>2. /\ UNCHANGED <<counts, s_queue, CallbackHolds, Uncounted>>
        /\ SenderHolds = 1 /\ SenderHolds' = 0
    BY <1>6 DEF SendAccepted, CallbackHolds, Uncounted, SenderHolds
  <2>3. (csi_cb_count = s_seq_counter)' /\ CallbackBalance'
    BY <2>1, <2>2, <1>0, <1>b DEF CallbackBalance
  <2>4. QueueBalance'
    BY <2>1, <2>2, <1>0, <1>b DEF QueueBalance
  <2>5. QED
    BY <2>3, <2>4 DEF Accounting
<1>6a. CASE SendRefused
  BY <1>6a DEF SendRefused, Accounting, CallbackBalance, QueueBalance,
       CallbackHolds, Uncounted, SenderHolds
<1>7. CASE CountTxFail
  <2>1. drop_tx_fail' = drop_tx_fail + 1
        /\ UNCHANGED <<csi_cb_count, s_seq_counter, enqueued, drop_queue_full, s_queue, sent>>
    BY <1>7 DEF CountTxFail
  <2>2. /\ UNCHANGED <<CallbackHolds, Uncounted>>
        /\ SenderHolds = 1 /\ SenderHolds' = 0
    BY <1>7 DEF CountTxFail, CallbackHolds, Uncounted, SenderHolds
  <2>3. (csi_cb_count = s_seq_counter)' /\ CallbackBalance'
    BY <2>1, <2>2, <1>0, <1>b DEF CallbackBalance
  <2>4. QueueBalance'
    BY <2>1, <2>2, <1>0, <1>b DEF QueueBalance
  <2>5. QED
    BY <2>3, <2>4 DEF Accounting
<1>8. ASSUME NEW f \in Counters, StatsRead(f) PROVE Accounting'
  BY <1>8 DEF StatsRead, Accounting, CallbackBalance, QueueBalance,
       CallbackHolds, Uncounted, SenderHolds
<1>9. CASE StatsPrint
  BY <1>9 DEF StatsPrint, Accounting, CallbackBalance, QueueBalance,
       CallbackHolds, Uncounted, SenderHolds
<1>10. CASE UNCHANGED vars
  BY <1>10 DEF vars, Accounting, CallbackBalance, QueueBalance,
       CallbackHolds, Uncounted, SenderHolds
<1>11. QED
  BY <1>1, <1>2, <1>3, <1>4, <1>5, <1>6, <1>6a, <1>7, <1>8, <1>9, <1>10
     DEF Next, WifiTask, CallbackRest, SenderTask, StatsTask

THEOREM AccountingCorrect == Spec => []Accounting
<1>1. Init => Accounting
  BY EmptySeq DEF Init, Accounting, CallbackBalance, QueueBalance, CallbackHolds, Uncounted, SenderHolds
<1>2. QED
  BY <1>1, TypeCorrect, AccountingStep, PTL DEF Spec
-----------------------------------------------------------------------------
(* The transport sees the samples in the order of their capture, and none   *)
(* twice (csi_capture.c:63, 70, 83).  CaptureOrder alone is not inductive:  *)
(* PipelineOrder extends it to the item, the queue and the scratch buffer.  *)
LEMMA OrderStep == TypeOK /\ PipelineOrder /\ [Next]_vars => PipelineOrder'
<1> SUFFICES ASSUME TypeOK, PipelineOrder, [Next]_vars PROVE PipelineOrder'
  OBVIOUS
<1> USE DEF callbackVars, senderVars, statsVars
<1> DEFINE orderVars == <<sent, s_queue, sndPc, item, Newest>>
<1>0. /\ Len(s_queue) \in Nat /\ Len(sent) \in Nat
      /\ scratch \in Nat /\ s_seq_counter \in Nat /\ item \in Nat /\ Newest \in Nat
      /\ \A i \in 1..Len(sent) : sent[i] \in Nat
      /\ \A i \in 1..Len(s_queue) : s_queue[i] \in Nat
  BY LenProperties, ElementOfSeq DEF TypeOK, Newest
<1>a. ASSUME UNCHANGED orderVars, ScratchLast' PROVE PipelineOrder'
  BY <1>a DEF PipelineOrder, CaptureOrder, QueueOrder, SentFirst, BelowNewest, ItemBetween
<1>1. ASSUME NEW kind \in EventKinds, RxCallback(kind) PROVE PipelineOrder'
  <2>1. UNCHANGED orderVars /\ ScratchLast'
    BY <1>1 DEF RxCallback, Newest, ScratchLast, PipelineOrder
  <2>2. QED
    BY <2>1, <1>a
<1>2. CASE QueueSend
  <2>1. /\ UNCHANGED <<sent, sndPc, item>>
        /\ Newest = scratch /\ Newest' = scratch + 1 /\ ScratchLast'
    BY <1>2 DEF QueueSend, Newest, ScratchLast, PipelineOrder
  <2>2. CASE Len(s_queue) < QueueLen
    <3>1. s_queue' = Append(s_queue, scratch)
      BY <1>2, <2>2 DEF QueueSend
    <3>2. /\ Len(s_queue') = Len(s_queue) + 1
          /\ \A i \in 1..Len(s_queue) : s_queue'[i] = s_queue[i]
          /\ s_queue'[Len(s_queue) + 1] = Newest
      BY <3>1, <2>1, AppendFacts DEF TypeOK
    <3>3. CaptureOrder'
      BY <2>1 DEF CaptureOrder, PipelineOrder
    <3>4. QueueOrder'
      <4> SUFFICES ASSUME NEW i \in 1..Len(s_queue'), NEW j \in 1..Len(s_queue'), i < j
                   PROVE  s_queue'[i] < s_queue'[j]
        BY DEF QueueOrder
      <4>0. i \in 1..Len(s_queue) /\ (j = Len(s_queue) + 1 \/ j \in 1..Len(s_queue))
        <5>1. i \in 1..(Len(s_queue) + 1) /\ j \in 1..(Len(s_queue) + 1)
          BY <3>2
        <5>2. QED
          BY <5>1, <1>0, LastOrBefore
      <4>1. i \in 1..Len(s_queue) /\ s_queue'[i] = s_queue[i] /\ s_queue[i] < Newest
        BY <4>0, <3>2 DEF BelowNewest, PipelineOrder
      <4>2. CASE j = Len(s_queue) + 1
        BY <4>1, <4>2, <3>2
      <4>3. CASE j \in 1..Len(s_queue)
        BY <4>1, <4>3, <3>2 DEF QueueOrder, PipelineOrder
      <4>4. QED
        BY <4>0, <4>2, <4>3
    <3>5. SentFirst'
      BY <3>2, <2>1, <1>0, SMTT(30) DEF SentFirst, BelowNewest, PipelineOrder
    <3>6. BelowNewest'
      <4>1. \A i \in 1..Len(sent) : sent[i] < Newest'
        BY <2>1, <1>0 DEF BelowNewest, PipelineOrder
      <4>2. ASSUME NEW j \in 1..Len(s_queue') PROVE s_queue'[j] < Newest'
        <5>1. CASE j = Len(s_queue) + 1
          BY <5>1, <3>2, <2>1, <1>0
        <5>2. CASE j \in 1..Len(s_queue)
          <6>1. s_queue'[j] < Newest /\ s_queue'[j] \in Nat
            BY <5>2, <3>2, <1>0 DEF BelowNewest, PipelineOrder
          <6>2. QED
            BY <6>1, <2>1, <1>0
        <5>3. QED
          BY <5>1, <5>2, <3>2, <1>0
      <4>3. QED
        BY <4>1, <4>2, <2>1 DEF BelowNewest
    <3>7. ItemBetween'
      BY <3>2, <2>1, <1>0, SMTT(30) DEF ItemBetween, PipelineOrder
    <3>8. QED
      BY <3>3, <3>4, <3>5, <3>6, <3>7, <2>1 DEF PipelineOrder
  <2>3. CASE ~(Len(s_queue) < QueueLen)
    <3>1. s_queue' = s_queue
      BY <1>2, <2>3 DEF QueueSend
    <3>2. CaptureOrder' /\ QueueOrder' /\ SentFirst'
      BY <3>1, <2>1 DEF CaptureOrder, QueueOrder, SentFirst, PipelineOrder
    <3>3. BelowNewest'
      BY <3>1, <2>1, <1>0 DEF BelowNewest, PipelineOrder
    <3>4. ItemBetween'
      BY <3>1, <2>1, <1>0 DEF ItemBetween, PipelineOrder
    <3>5. QED
      BY <3>2, <3>3, <3>4, <2>1 DEF PipelineOrder
  <2>4. QED
    BY <2>2, <2>3
<1>3. CASE CountEnqueued \/ CountQueueFull
  <2>1. UNCHANGED orderVars /\ ScratchLast'
    BY <1>3 DEF CountEnqueued, CountQueueFull, Newest, ScratchLast
  <2>2. QED
    BY <2>1, <1>a
<1>5. CASE QueueReceive
  <2>1. /\ UNCHANGED <<sent, Newest>> /\ ScratchLast' /\ sndPc' = "sending"
        /\ s_queue # <<>> /\ item' = Head(s_queue) /\ s_queue' = Tail(s_queue)
    BY <1>5 DEF QueueReceive, Newest, ScratchLast, PipelineOrder
  <2>2. /\ Len(s_queue) >= 1 /\ item' = s_queue[1]
        /\ Len(s_queue') = Len(s_queue) - 1
        /\ \A i \in 1..Len(s_queue') : s_queue'[i] = s_queue[i + 1]
    BY <2>1, QueueFacts DEF TypeOK
  <2>3. CaptureOrder'
    BY <2>1 DEF CaptureOrder, PipelineOrder
  <2>4. QueueOrder'
    <3> SUFFICES ASSUME NEW i \in 1..Len(s_queue'), NEW j \in 1..Len(s_queue'), i < j
                 PROVE  s_queue'[i] < s_queue'[j]
      BY DEF QueueOrder
    <3>1. /\ i + 1 \in 1..Len(s_queue) /\ j + 1 \in 1..Len(s_queue) /\ i + 1 < j + 1
          /\ s_queue'[i] = s_queue[i + 1] /\ s_queue'[j] = s_queue[j + 1]
      BY <2>2, <1>0
    <3>2. QED
      BY <3>1 DEF QueueOrder, PipelineOrder
  <2>5. SentFirst'
    BY <2>1, <2>2, <1>0, SMTT(30) DEF SentFirst, PipelineOrder
  <2>6. BelowNewest'
    BY <2>1, <2>2, <1>0, SMTT(30) DEF BelowNewest, PipelineOrder
  <2>7. ItemBetween'
    BY <2>1, <2>2, <1>0, SMTT(30) DEF ItemBetween, PipelineOrder, SentFirst, QueueOrder, BelowNewest
  <2>8. QED
    BY <2>1, <2>3, <2>4, <2>5, <2>6, <2>7 DEF PipelineOrder
<1>6. CASE SendAccepted
  <2>1. /\ UNCHANGED <<s_queue, Newest>> /\ ScratchLast'
        /\ sndPc = "sending" /\ sndPc' = "receiving" /\ sent' = Append(sent, item)
    BY <1>6 DEF SendAccepted, Newest, ScratchLast, PipelineOrder
  <2>2. /\ Len(sent') = Len(sent) + 1
        /\ \A i \in 1..Len(sent) : sent'[i] = sent[i]
        /\ sent'[Len(sent) + 1] = item
    BY <2>1, AppendFacts DEF TypeOK
  <2>3. CaptureOrder'
    <3> SUFFICES ASSUME NEW i \in 1..Len(sent'), NEW j \in 1..Len(sent'), i < j
                 PROVE  sent'[i] < sent'[j]
      BY DEF CaptureOrder
    <3>1. i \in 1..Len(sent) /\ sent'[i] = sent[i] /\ sent[i] < item
      BY <2>1, <2>2, <1>0, SMTT(30) DEF ItemBetween, PipelineOrder
    <3>2. CASE j = Len(sent) + 1
      BY <3>1, <3>2, <2>2
    <3>3. CASE j \in 1..Len(sent)
      <4>1. sent[i] < sent[j]
        BY <3>1, <3>3 DEF CaptureOrder, PipelineOrder
      <4>2. sent'[j] = sent[j]
        BY <3>3, <2>2
      <4>3. QED
        BY <4>1, <4>2, <3>1
    <3>4. j = Len(sent) + 1 \/ j \in 1..Len(sent)
      <4>1. j \in 1..(Len(sent) + 1)
        BY <2>2
      <4>2. QED
        BY <4>1, <1>0
    <3>5. QED
      BY <3>2, <3>3, <3>4
  <2>4. QueueOrder' /\ ItemBetween'
    BY <2>1 DEF QueueOrder, ItemBetween, PipelineOrder
  <2>5. SentFirst'
    BY <2>1, <2>2, <1>0, SMTT(30) DEF SentFirst, ItemBetween, PipelineOrder
  <2>6. BelowNewest'
    BY <2>1, <2>2, <1>0 DEF BelowNewest, ItemBetween, PipelineOrder
  <2>7. QED
    BY <2>1, <2>3, <2>4, <2>5, <2>6 DEF PipelineOrder
<1>7. CASE SendRefused \/ CountTxFail
  <2>1. /\ UNCHANGED <<sent, s_queue, item, Newest>> /\ ScratchLast'
        /\ sndPc' # "sending"
    BY <1>7 DEF SendRefused, CountTxFail, Newest, ScratchLast, PipelineOrder
  <2>2. QED
    BY <2>1 DEF PipelineOrder, CaptureOrder, QueueOrder, SentFirst, BelowNewest, ItemBetween
<1>8. CASE StatsTask \/ UNCHANGED vars
  <2>1. UNCHANGED orderVars /\ ScratchLast'
    BY <1>8 DEF StatsTask, StatsRead, StatsPrint, vars, Newest, ScratchLast, PipelineOrder
  <2>2. QED
    BY <2>1, <1>a
<1>9. QED
  BY <1>1, <1>2, <1>3, <1>5, <1>6, <1>7, <1>8
     DEF Next, WifiTask, CallbackRest, SenderTask

THEOREM PipelineOrderCorrect == Spec => []PipelineOrder
<1>1. Init => PipelineOrder
  BY EmptySeq DEF Init, PipelineOrder, CaptureOrder, QueueOrder, SentFirst, BelowNewest,
        ItemBetween, ScratchLast
<1>2. QED
  BY <1>1, TypeCorrect, OrderStep, PTL DEF Spec
-----------------------------------------------------------------------------
(* The host may read a gap in the sequence numbers as a loss: once the      *)
(* pipeline is idle, as many numbers are missing from what was sent as the  *)
(* two drop counters say (cli_collect.py:119, stats.h:11).                  *)
LEMMA SentCardinality ==
  ASSUME TypeOK, CaptureOrder
  PROVE  LET Sent == {sent[i] : i \in 1..Len(sent)}
         IN  IsFiniteSet(Sent) /\ Cardinality(Sent) = Len(sent)
<1> DEFINE Sent == {sent[i] : i \in 1..Len(sent)}
<1>1. Len(sent) \in Nat /\ sent \in [1..Len(sent) -> Nat]
  BY LenProperties DEF TypeOK
<1>2. sent \in Surjection(1..Len(sent), Sent)
  BY <1>1 DEF Surjection
<1>3. \A i, j \in 1..Len(sent) : sent[i] = sent[j] => i = j
  <2> SUFFICES ASSUME NEW i \in 1..Len(sent), NEW j \in 1..Len(sent), i < j
               PROVE  sent[i] # sent[j]
    BY <1>1
  <2>1. sent[i] < sent[j]
    BY DEF CaptureOrder
  <2>2. sent[i] \in Nat /\ sent[j] \in Nat
    BY <1>1
  <2>3. QED
    BY <2>1, <2>2
<1>4. sent \in Bijection(1..Len(sent), Sent)
  <2>1. sent \in [1..Len(sent) -> Sent]
    BY <1>2 DEF Surjection
  <2>2. sent \in Injection(1..Len(sent), Sent)
    BY <2>1, <1>3 DEF Injection, IsInjective
  <2>3. QED
    BY <2>2, <1>2 DEF Bijection
<1>5. ExistsBijection(1..Len(sent), Sent)
  BY <1>4 DEF ExistsBijection
<1>6. IsFiniteSet(Sent)
  BY <1>1, <1>5, FS_NatBijection
<1>7. QED
  BY <1>1, <1>5, <1>6, FS_CountingElements

LEMMA GapsFromBalance ==
  TypeOK /\ Accounting /\ PipelineOrder => GapsAreDrops
<1> SUFFICES ASSUME TypeOK, Accounting, PipelineOrder, Idle
             PROVE  Cardinality(Missing) = drop_queue_full + drop_tx_fail
  BY DEF GapsAreDrops
<1> DEFINE Sent == {sent[i] : i \in 1..Len(sent)}
           All  == 0..(s_seq_counter - 1)
<1>1. /\ Len(sent) \in Nat /\ s_seq_counter \in Nat /\ enqueued \in Nat
      /\ drop_queue_full \in Nat /\ drop_tx_fail \in Nat
      /\ \A i \in 1..Len(sent) : sent[i] \in Nat
  BY LenProperties, ElementOfSeq DEF TypeOK
<1>2. IsFiniteSet(Sent) /\ Cardinality(Sent) = Len(sent)
  BY SentCardinality DEF PipelineOrder
<1>3. IsFiniteSet(All) /\ Cardinality(All) = s_seq_counter
  <2>1. 0 \in Int /\ s_seq_counter - 1 \in Int
    BY <1>1
  <2>2. /\ IsFiniteSet(All)
        /\ Cardinality(All) = IF 0 > s_seq_counter - 1 THEN 0 ELSE s_seq_counter - 1 - 0 + 1
    BY <2>1, FS_Interval
  <2>3. QED
    BY <2>2, <1>1
<1>4. Sent \subseteq All
  <2>1. \A i \in 1..Len(sent) : sent[i] < s_seq_counter
    BY DEF PipelineOrder, BelowNewest, Newest, Idle
  <2>2. QED
    BY <2>1, <1>1
<1>5. Missing = All \ Sent
  BY DEF Missing
<1>6. All \cap Sent = Sent
  BY <1>4
<1>7. Cardinality(Missing) = s_seq_counter - Len(sent)
  <2>1. Cardinality(All \ Sent) = Cardinality(All) - Cardinality(All \cap Sent)
    BY <1>3, FS_Difference
  <2>2. QED
    BY <2>1, <1>2, <1>3, <1>5, <1>6
<1>8. s_seq_counter = enqueued + drop_queue_full
  BY <1>1 DEF Accounting, CallbackBalance, CallbackHolds, Idle
<1>9. enqueued = Len(sent) + drop_tx_fail
  BY <1>1, EmptySeq DEF Accounting, QueueBalance, Uncounted, SenderHolds, Idle
<1>10. QED
  BY <1>1, <1>7, <1>8, <1>9

THEOREM GapsAreDropsCorrect == Spec => []GapsAreDrops
  BY TypeCorrect, AccountingCorrect, PipelineOrderCorrect, GapsFromBalance, PTL

-----------------------------------------------------------------------------
(* The pipeline implements LossyFifo: the transport gets the captured       *)
(* samples in order, each at most once, some of them lost.                  *)
LEMMA FifoStep ==
  ASSUME TypeOK, PipelineOrder, [Next]_vars
  PROVE  [Fifo!Next]_(Fifo!vars)
<1> USE DEF callbackVars, senderVars, statsVars
<1> DEFINE fifoVars == <<s_seq_counter, InFlight, sent>>
<1>0. /\ Len(s_queue) \in Nat /\ item \in Nat /\ scratch \in Nat
      /\ \A i \in 1..Len(s_queue) : s_queue[i] \in Nat
  BY LenProperties, ElementOfSeq DEF TypeOK
<1>a. ASSUME UNCHANGED fifoVars PROVE [Fifo!Next]_(Fifo!vars)
  BY <1>a DEF Fifo!vars
<1>1. ASSUME NEW kind \in EventKinds, RxCallback(kind) PROVE [Fifo!Next]_(Fifo!vars)
  <2>1. CASE Ignored(kind)
    <3>1. UNCHANGED fifoVars
      BY <1>1, <2>1 DEF RxCallback, InFlight
    <3>2. QED
      BY <3>1, <1>a
  <2>2. CASE ~Ignored(kind)
    <3>1. Fifo!Issue
      BY <1>1, <2>2 DEF RxCallback, InFlight, Fifo!Issue
    <3>2. QED
      BY <3>1 DEF Fifo!Next
  <2>3. QED
    BY <2>1, <2>2
<1>2. CASE QueueSend
  <2>1. CASE Len(s_queue) < QueueLen
    <3>1. s_queue' = Append(s_queue, scratch) /\ cbPc = "offering" /\ cbPc' = "queued"
          /\ UNCHANGED <<s_seq_counter, sent, sndPc, item>>
      BY <1>2, <2>1 DEF QueueSend
    <3>2. {s_queue'[i] : i \in 1..Len(s_queue')} = {s_queue[i] : i \in 1..Len(s_queue)} \cup {scratch}
      <4>1. /\ Len(s_queue') = Len(s_queue) + 1
            /\ \A i \in 1..Len(s_queue) : s_queue'[i] = s_queue[i]
            /\ s_queue'[Len(s_queue) + 1] = scratch
        BY <3>1, AppendFacts DEF TypeOK
      <4>2. 1..(Len(s_queue) + 1) = 1..Len(s_queue) \cup {Len(s_queue) + 1}
        BY <1>0
      <4>3. QED
        BY <4>1, <4>2
    <3>3. UNCHANGED fifoVars
      BY <3>1, <3>2 DEF InFlight
    <3>4. QED
      BY <3>3, <1>a
  <2>2. CASE ~(Len(s_queue) < QueueLen)
    <3>1. UNCHANGED <<s_queue, s_seq_counter, sent, sndPc, item>>
          /\ cbPc = "offering" /\ cbPc' = "full"
      BY <1>2, <2>2 DEF QueueSend
    <3>2. \A i \in 1..Len(s_queue) : s_queue[i] # scratch
      BY <3>1, <1>0 DEF PipelineOrder, BelowNewest, Newest
    <3>3. sndPc = "sending" => item # scratch
      BY <3>1, <1>0 DEF PipelineOrder, ItemBetween, Newest
    <3>4. scratch \in InFlight /\ InFlight' = InFlight \ {scratch}
      BY <3>1, <3>2, <3>3 DEF InFlight
    <3>5. Fifo!Lose(scratch)
      BY <3>1, <3>4 DEF Fifo!Lose
    <3>6. QED
      BY <3>4, <3>5 DEF Fifo!Next
  <2>3. QED
    BY <2>1, <2>2
<1>3. CASE CountEnqueued \/ CountQueueFull \/ CountTxFail
  <2>1. UNCHANGED fifoVars
    BY <1>3 DEF CountEnqueued, CountQueueFull, CountTxFail, InFlight
  <2>2. QED
    BY <2>1, <1>a
<1>4. CASE QueueReceive
  <2>1. /\ s_queue # <<>> /\ item' = Head(s_queue) /\ s_queue' = Tail(s_queue)
        /\ sndPc = "receiving" /\ sndPc' = "sending"
        /\ UNCHANGED <<s_seq_counter, sent, cbPc, scratch>>
    BY <1>4 DEF QueueReceive
  <2>2. {s_queue[i] : i \in 1..Len(s_queue)} = {s_queue'[i] : i \in 1..Len(s_queue')} \cup {item'}
    <3>1. /\ Len(s_queue) >= 1 /\ item' = s_queue[1]
          /\ Len(s_queue') = Len(s_queue) - 1
          /\ \A i \in 1..Len(s_queue') : s_queue'[i] = s_queue[i + 1]
      BY <2>1, QueueFacts DEF TypeOK
    <3>2. \A i \in 1..Len(s_queue) : i = 1 \/ (i - 1 \in 1..Len(s_queue') /\ s_queue[i] = s_queue'[i - 1])
      BY <3>1, <1>0
    <3>3. \A i \in 1..Len(s_queue') : i + 1 \in 1..Len(s_queue) /\ s_queue'[i] = s_queue[i + 1]
      BY <3>1, <1>0
    <3>4. 1 \in 1..Len(s_queue)
      BY <3>1, <1>0
    <3>5. QED
      BY <3>1, <3>2, <3>3, <3>4, SMTT(30)
  <2>3. UNCHANGED fifoVars
    BY <2>1, <2>2 DEF InFlight
  <2>4. QED
    BY <2>3, <1>a
<1>5. ASSUME sndPc = "sending", sndPc' # "sending",
             UNCHANGED <<s_queue, s_seq_counter, cbPc, scratch>>
      PROVE  item \in InFlight /\ InFlight' = InFlight \ {item} /\ \A m \in InFlight : item <= m
  <2>1. \A i \in 1..Len(s_queue) : item < s_queue[i]
    BY <1>5 DEF PipelineOrder, ItemBetween
  <2>2. cbPc = "offering" => item < scratch
    BY <1>5 DEF PipelineOrder, ItemBetween, Newest
  <2>3. QED
    BY <1>5, <2>1, <2>2, <1>0 DEF InFlight
<1>6. CASE SendAccepted
  <2>1. Fifo!Deliver(item)
    BY <1>6, <1>5 DEF SendAccepted, Fifo!Deliver
  <2>2. item \in InFlight
    BY <1>6, <1>5 DEF SendAccepted
  <2>3. QED
    BY <2>1, <2>2 DEF Fifo!Next
<1>7. CASE SendRefused
  <2>1. Fifo!Lose(item)
    BY <1>7, <1>5 DEF SendRefused, Fifo!Lose
  <2>2. item \in InFlight
    BY <1>7, <1>5 DEF SendRefused
  <2>3. QED
    BY <2>1, <2>2 DEF Fifo!Next
<1>8. CASE StatsTask \/ UNCHANGED vars
  <2>1. UNCHANGED fifoVars
    BY <1>8 DEF StatsTask, StatsRead, StatsPrint, vars, InFlight
  <2>2. QED
    BY <2>1, <1>a
<1>9. QED
  BY <1>1, <1>2, <1>3, <1>4, <1>6, <1>7, <1>8
     DEF Next, WifiTask, CallbackRest, SenderTask

THEOREM CaptureImplementsFifo == Spec => FifoSpec
<1>1. Init => Fifo!Init
  BY EmptySeq DEF Init, Fifo!Init, InFlight
<1>2. TypeOK /\ PipelineOrder /\ [Next]_vars => [Fifo!Next]_(Fifo!vars)
  BY FifoStep
<1>3. QED
  BY <1>1, <1>2, TypeCorrect, PipelineOrderCorrect, PTL DEF Spec, FifoSpec, Fifo!Spec

-----------------------------------------------------------------------------
(* A line in the making is between the last line and the counters.           *)
LinesBetween ==
  \A f \in Counters :
    /\ printed[f] <= Counter[f]
    /\ line[f] # Unread => printed[f] <= line[f] /\ line[f] <= Counter[f]

(* No task ever lowers a counter. *)
LEMMA CountersRise ==
  TypeOK /\ [Next]_vars => \A f \in Counters : /\ Counter[f] \in Nat /\ Counter'[f] \in Nat
                                              /\ Counter[f] <= Counter'[f]
<1> SUFFICES ASSUME TypeOK, [Next]_vars, NEW f \in Counters
             PROVE  /\ Counter[f] \in Nat /\ Counter'[f] \in Nat
                    /\ Counter[f] <= Counter'[f]
  OBVIOUS
<1>1. TypeOK'
  BY TypeStep
<1>2. /\ csi_cb_count' \in {csi_cb_count, csi_cb_count + 1}
      /\ enqueued' \in {enqueued, enqueued + 1}
      /\ drop_queue_full' \in {drop_queue_full, drop_queue_full + 1}
      /\ drop_tx_fail' \in {drop_tx_fail, drop_tx_fail + 1}
  <2> USE DEF callbackVars, senderVars, statsVars
  <2>1. CASE WifiTask
    BY <2>1 DEF WifiTask, CallbackRest, RxCallback, QueueSend, CountEnqueued, CountQueueFull
  <2>2. CASE SenderTask
    BY <2>2 DEF SenderTask, QueueReceive, SendAccepted, SendRefused, CountTxFail
  <2>3. CASE StatsTask \/ UNCHANGED vars
    BY <2>3 DEF StatsTask, StatsPrint, StatsRead, vars
  <2> QED
    BY <2>1, <2>2, <2>3 DEF Next
<1>3. /\ csi_cb_count \in Nat /\ enqueued \in Nat /\ drop_queue_full \in Nat /\ drop_tx_fail \in Nat
  BY DEF TypeOK
<1> QED
  BY <1>2, <1>3 DEF Counter, Counters

LEMMA LinesStep ==
  TypeOK /\ LinesBetween /\ [Next]_vars =>
    /\ LinesBetween'
    /\ \A f \in Counters : printed[f] <= printed'[f] /\ printed'[f] <= Counter'[f]
<1> SUFFICES ASSUME TypeOK, LinesBetween, [Next]_vars, NEW f \in Counters
             PROVE  /\ printed'[f] <= Counter'[f]
                    /\ printed[f] <= printed'[f]
                    /\ line'[f] # Unread => printed'[f] <= line'[f] /\ line'[f] <= Counter'[f]
  BY DEF LinesBetween, Unread
<1>1. /\ Counter[f] \in Nat /\ Counter'[f] \in Nat /\ Counter[f] <= Counter'[f]
      /\ printed[f] \in Nat /\ line[f] \in Nat /\ Unread \in Nat
  BY CountersRise, MaxEventsAssumption DEF TypeOK, Unread
<1>2. /\ printed[f] <= Counter[f]
      /\ line[f] # Unread => printed[f] <= line[f] /\ line[f] <= Counter[f]
  BY DEF LinesBetween
<1>3. CASE UNCHANGED statsVars
  BY <1>1, <1>2, <1>3 DEF statsVars
<1>4. CASE StatsPrint
  <2>1. line[f] # Unread /\ printed'[f] = line[f] /\ line'[f] = Unread
    BY <1>4 DEF StatsPrint
  <2> QED
    BY <1>1, <1>2, <2>1
<1>5. ASSUME NEW g \in Counters, StatsRead(g)
      PROVE  /\ printed'[f] <= Counter'[f]
             /\ printed[f] <= printed'[f]
             /\ line'[f] # Unread => printed'[f] <= line'[f] /\ line'[f] <= Counter'[f]
  <2>1. printed'[f] = printed[f] /\ (line'[f] = line[f] \/ line'[f] = Counter[f])
    BY <1>5 DEF StatsRead, TypeOK
  <2> QED
    BY <1>1, <1>2, <2>1
<1>6. StatsTask \/ UNCHANGED statsVars
  BY DEF Next, WifiTask, CallbackRest, RxCallback, QueueSend, CountEnqueued, CountQueueFull,
         SenderTask, QueueReceive, SendAccepted, SendRefused, CountTxFail, vars
<1> QED
  BY <1>3, <1>4, <1>5, <1>6 DEF StatsTask

(* stats.c: the #STAT lines never step back and are never ahead of the        *)
(* counters, whatever the order of the four unlocked reads.                  *)
THEOREM LinesAdvanceCorrect == Spec => LinesAdvance
<1>1. Init => LinesBetween
  BY MaxEventsAssumption DEF Init, LinesBetween, Counter, Counters, Unread
<1>2. TypeOK /\ LinesBetween /\ [Next]_vars => LinesBetween'
  BY LinesStep
<1>3. TypeOK /\ LinesBetween /\ [Next]_vars =>
        [\A f \in Counters : printed[f] <= printed'[f] /\ printed'[f] <= Counter'[f]]_vars
  BY LinesStep
<1> QED
  BY <1>1, <1>2, <1>3, TypeCorrect, PTL DEF Spec, LinesAdvance
===============================================================================
