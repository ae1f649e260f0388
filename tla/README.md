# Verification of the WiFi CSI presence collector

This directory keeps a TLA+ model of the program in `src/`: ESP32-S3 boards that
capture WiFi channel state information (CSI) and stream it over TCP or USB
serial to a laptop, which frames the stream, collects labelled sessions, checks
link capacity, trains and evaluates models on the recordings, classifies live
and shows recordings and live data in a browser.  The modules are checked with
TLC on small instances; for the parts marked so they are proved with TLAPS for
every instance.

## 1. Inventory

| Part | Source | State | Operations | Hard behaviour |
|---|---|---|---|---|
| Boot and configuration | `firmware/main/app_main.c`, `cfg_store.c`; `collector/nvs_gen.py`, `config.py` | NVS keys, role | read keys, start the role's tasks in order | each step blocks until the one before stands |
| WiFi station | `wifi_sta.c` | event queue, event bit, BSSID | event handler, blocking start | the handler sleeps in the event task; BSSID copied once |
| Capture pipeline | `csi_capture.c`, `stats.[ch]` | queue of 128, sequence counter, four counters | callback, sender task, `#STAT` reporter | two cores without a lock, full queue, refused sends |
| TCP uplink | `transport_tcp.c` | socket, connected flag, mutex | connection task, send | socket closed by one task and opened by another, partial sends, reconnects |
| Serial uplink, wire format | `transport_serial.c`, `wire_format.c` | none | one write per frame, packing | text and frames share the link |
| Transmitter, hotspot | `tx_sender.c`, `ap_hotspot.c` | pacing deadline | paced broadcast | falling behind |
| Stream framer | `collector/wire.py` | byte buffer | feed, extract one | a truncated frame, false magic, text between frames |
| Receivers | `collector/transport_tcp.py`, `transport_serial.py`, `receiver.py` | server socket, threads, shared queue, stop event | accept, thread per connection, generator | a reconnecting board has two live threads, the generator stops while threads put |
| Session collector | `collector/cli_collect.py` | writers, last sequence, drop counts | per-sample loop, duration, signals, save | interrupts at every point, silence, several boards |
| Session files | `session_writer.py`, `build_manifest.py` | `samples.npz`, `metadata.json`, `manifest.csv` | save, rebuild the manifest | everything is written in place, by processes without a lock, which may be killed |
| Window pipeline | `ml/data_pipeline`, `ml_2/data` | cached sessions | decode, resample, cut windows | torn or stale caches, clock resets, mixed csi lengths |
| Splits and tasks | `ml/data_pipeline/splits.py`, `tasks.py`, `ml_2/data/splits.py` | none | folds by session, day, person | leakage between the sides, folds without a class |
| Training and evaluation | `ml/training`, `ml/evaluation`, `ml_2/training`, `ml_2/evaluation` | logs, cached indexes, checkpoints | fit, tune, test, log, skip, pool of threads | runs of hours that are killed, derived files older than the data |
| Live inference | `ml/inference`, `ml_2/inference` | phase, window buffer, votes, recording | channel gate, calibration, streaming | window alignment, phases, interrupts |
| Player server and page | `ml/visualization/player_server.py`, `realtime_player.py` | bounded queue, clients; sockets, cache, selection | receiver thread, broadcaster, request handlers; the page's event handlers | slow consumer, shutdown while a producer blocks, late answers |
| Capacity test | `capacity_test.py`, `config_editor.py`, `preflight.py`, `stimulus.py` | `config.yaml`, results | sweep, pick winner, find maximum, restore | a failing step leaves the file in between |
| Models, features, figures | `ml/models`, `ml_2/models`, `ml/visualization` | weights, plots | numeric | none a model checker reaches |
| Scripts | `scripts/*.sh` | the board's flash, `config.yaml` | push, reconnect, detect | order of steps |

**How they interact.**  A sample goes from the radio callback through the board's
queue and socket to a handler thread, the shared queue, the collector's loop and
a session's files; from there the manifest and the caches lead to windows,
splits and models.  The live programs and the player take the same stream
directly.  `capacity_test.py` reconfigures the board between measurements.

### What makes each part correct

* **Capture pipeline**: every sample that got a number is sent or counted in
  exactly one drop counter; samples leave in order, none twice; the gaps the
  laptop sees are the drops the board counted; `#STAT` lines never step back.
* **TCP uplink, station**: no descriptor leaks, none is used after `close`; the
  sender's unlocked copy of the socket is never swapped under it; every call
  returns; every loss of the link is answered by exactly one dial; once hotspot and
  laptop are back, a board that goes on capturing has a connection that stands.
* **Receivers and session collector**: what a socket delivered is what the
  writers hold, in order; `dropped` is the number of gaps; an interrupt at any
  step saves the session; a session that ends has every writer's samples in a file,
  unless a later writer could get the same tag.
* **Stream framer**: the result does not depend on how the stream was cut into
  reads; no payload is mistaken for something else; it never gets stuck.
* **Capacity test**: each result is of the transport that ran; file and board
  agree at the end; the applied setting is the right one.
* **Session files, window pipeline**: a listed session can be read; caches and
  windows are those of their recording; nothing fails without a torn file.
* **Training and evaluation**: what is tested never meets what was fitted, tuned or
  decided by, with two exceptions the properties name; a stranger stays unseen;
  features keep their labels; a rate has a denominator; a failure takes nothing else
  with it.
* **Live inference**: live windows are the batch windows; a phase has its whole
  time; the recording covers what was shown, counts its drops honestly and survives
  an interrupt.
* **Player**: a slow or absent consumer does not stop the others; what is shown
  is what is selected; whoever asked is answered.

The hazards behind these, each at its line, are in `PROJECT.json`.

## 2. Plan

Order: the path of a sample from the radio to the file first, because a silent
loss or repetition there makes every later result wrong; then the tools that
change the board's configuration; then what consumes the data.

| Step | Module | Composes, implements | Status |
|---|---|---|---|
| 1 | `CsiCapture` | implements `LossyFifo` | checked, proved |
| 2 | `TcpUplink`, `WifiSta`, `Board` | `Board` composes the other two in `app_main`'s order and implements `TcpUplink` | checked, proved (but the liveness) |
| 3 | `MultiReceiver`, `CollectSession` | `CollectSession` runs the generator of `MultiReceiver` | checked, proved (but the liveness) |
| 4 | `StreamFramer` | the reading of a whole stream, `Reading` | checked, proved (but the liveness) |
| 5 | `CapacityTest` | `config.yaml`, the board, `pick_winner` | checked, proved |
| 6 | `TimeAxis`, `SessionStore` | collector's save, rebuilds and window-index workers over one disk | checked, proved |
| 7 | `Splits`, `MlPlans`, `MlTracks`, `Ml2Plans`, `Experiment` | the scripts as plans over the splits; `Experiment` runs them | checked, proved (but what needs particular data, and the liveness) |
| 8 | `LiveInference` | both live programs; windows against the batch's | checked, proved (but the liveness) |
| 9 | `PlayerServer`, `PlayerPage` | live half; page and request half | checked, proved (but the liveness) |

What could follow: the laptop's side as a second implementation of `LossyFifo`.

## 3. Modules and code

| Module | Code | Holds |
|---|---|---|
| `LossyFifo` | (abstract) | numbers issued, pending, delivered |
| `CsiCapture` | `csi_capture.c`, `stats.[ch]` | the three tasks of the capture pipeline |
| `TcpUplink` | `firmware/main/transport_tcp.c` | the two tasks around one socket |
| `WifiSta` | `wifi_sta.c` | the event handler and what the driver posts |
| `Board` | `app_main.c` (receiver over TCP) | the order in which the two above start, and the link between them |
| `MultiReceiver` | `collector/transport_tcp.py` | handler threads, shared queue, generator |
| `CollectSession` | `cli_collect.py`, file names of `session_writer.py` | the main thread and its signals |
| `StreamFramer` | `wire.py` | the buffer and what was extracted |
| `CapacityTest` | `capacity_test.py` | the sequence of pushes, measurements and the decision |
| `TimeAxis` | `windowing.py`, `time_resample.py` | dominant csi length, clock resets, bins |
| `SessionStore` | `session_writer.py`, `build_manifest.py`, `windowing.py`, `decode_csi.py` | files, and the processes that write and read them |
| `Splits` | `splits.py`, `tasks.py` of both tracks | every fold and task mask as an operator |
| `MlPlans`, `MlTracks` | `ml/training`, `ml/evaluation` | a script as the sequence of its visible steps |
| `Ml2Plans` | `ml_2/training`, `ml_2/evaluation`, `ml_2/data` | the same for the second track |
| `Experiment` | `run_all.py`, `gpu_utils.py`, the scripts' loops | a script at a time over data that grows |
| `LiveInference` | both `live_infer.py`, `live_window.py` | one program from the gate to the saved recording |
| `PlayerServer` | `player_server.py` | receiver thread, queue, broadcaster, clients, shutdown |
| `PlayerPage` | `realtime_player.py`, the server's request handler | sockets, requests, cache, selection, playing |
| `...Proofs` | | theorems about the module of that name; `ExperimentProofs` also about `Splits` and the plans, `PlayerProofs` about `PlayerServer`, `PlayerPage` and `LiveInference` |
| `MC...` | | instances for TLC |

Operators whose comment begins with "Bug:" or "Mutant:" stand before the
definition they are a broken variant of.  They are not part of any
specification: replacing the definition by the variant must violate a property,
which shows that the property depends on that line of the code.

**CsiCapture.**  A variable per C variable: `s_seq_counter`, `s_queue`, the four
words of `g_csi_stats`, and for each task where it is (`cbPc`, `sndPc`, `line`).
`csi_rx_callback` is `RxCallback` (filter, number), `QueueSend` (zero timeout)
and the two counter steps after it; a sample is its number.  `sender_task` is
`QueueReceive`, `SendAccepted` or `SendRefused` and `CountTxFail`.  `stats_task`
reads the four counters one by one in any order, because C leaves the order of
`snprintf`'s arguments open and no lock is held, and prints them.  The `uint32_t`
counters do not wrap in the model: the board compares none of them.

**TcpUplink.**  `connection_task` from poll through `socket`, `connect` and the
mutexed publication of `s_sock` and `s_connected`; `transport_tcp_send` from the
unlocked test of `s_connected` through the copy under the mutex, the unlocked
`send()`, and the mutexed clean-up after an error.  Every access to shared state
is a step.  lwIP is external: `openFds` reuses descriptors after `close`,
`stream` is what a connection carries.  `send()` may take all, a part ("short"),
fail after a part ("broken") with the connection broken or still standing, fail at
once on a dead one, or accept bytes that never arrive.  It is assumed that a `send()`
that reports an error has not taken the whole frame.  The first `MaxFrames` frames
are followed to the laptop; later ones only keep the sender going.

**WifiSta, Board.**  The default event loop is a queue; `event_handler` takes the
first event, and between `STA_DISCONNECTED` and its `esp_wifi_connect` it sleeps in
the event task (`sleeping`), so that later events wait.  Driver, DHCP and hotspot
are external: an attempt or a link fails when the hotspot has gone, which may be back
by the time the loss is handled; an address obtained just before a loss
may be announced after it.  The length of the delay, the counter that chooses it
and the flag that only repeats `WIFI_CONNECTED_BIT` are left out.  The driver is
taken to begin an attempt when it is called idle; the code ignores what
`esp_wifi_connect` returns, so a board whose idle driver refuses is out of the
model.  `Board` starts the transport when the bit is set; from then on the link
shows to the transport only as connects that cannot succeed and connections that
break.  A send may still be taken by lwIP while the link is gone.  Nothing but a
`send()` that fails ever notices a dead connection (no keepalive is set), so a board
that captures no frames keeps one for ever: `Reconnects` is about a board that goes
on capturing, and its target is a published, open socket whose connection stands,
not the flag.

**MultiReceiver, CollectSession.**  One handler per connection (`hPc`, `chunk`),
the generator `iter_multi_samples` (`genPc`), and the main thread (`mainPc`), in
which the generator runs.  A sample is its connection and number; a board may
drop, reconnect, and reconnect from another address while old bytes are unread.
A signal raises an exception at the points where CPython looks for one: in the
loop body, inside the generator's `accept`, `get` or `join`, in `except`, in
`finally`, and between it and the two `SIG_IGN`.  `GenUnwind` and `GenAbort` are
what the exception does to the generator.  `SaveBoard` writes one board's file
under the name the board's tag gives it: `Tag` is `_sanitize_tag`, which keeps MAC
addresses apart but not IP addresses (192.168.1.12 and 192.168.11.2), and the tag is
made of the MAC that answers for the address or, when none does, of the address.

**StreamFramer.**  One action per outcome of `_try_extract_one`; `Feed` appends
the next read when it has returned `None`.  A frame's header is four bytes: the
magic, the version and `csi_len`, the fields the code looks at; its size is a
parameter.  What is sent is external: an item is a frame as long as its header
says, a line of the board, a line of another task without a "#" or a magic in it,
or noise, which is anything.  `Reading` defines the result on a whole stream, as a
recursive function over its places: what begins there, and what is read from the
place after it.  It has no buffer and no pieces.

**CapacityTest.**  One action per write of `config.yaml`, push, measurement and
decision.  `file` is the two lines the code rewrites, `nvs` the transport the
board runs; the rate goes to the stimulus thread and to no board.  A measurement
is any result `run_one` can produce.  `push_config.sh` fails with `nvs`
unchanged, written or erased; Ctrl+C comes anywhere.  The runs are without
`--config`, because the script reads the default file.

**TimeAxis, SessionStore.**  A packet is its device time and length; what the code
computes from amplitudes is kept as the set of packets it computes from.  Every
file is torn from its opening to its closing, and stays torn when its writer is
killed.  The collector saves a session's boards one file after another and
rebuilds the manifest; a second rebuild and two workers run beside it, each
open, read and write a step, and any process may die.

**Splits, plans, Experiment.**  A window is its session, receiver and index; a frame
is the sequence of windows a manifest lists.  A plan is a sequence of steps: a log
row with the windows it was fitted and tuned on (`fit`, `tune`), pretrained on
(`pre`), decided by (`cut`: those its accuracy's threshold was read off) and tested
on; a fold of a pool; a saved or reused file; an exception.  `MlPlans`, `MlTracks`
and `Ml2Plans` compute a script's plan from the files it reads when it starts;
`Experiment` runs plans, one after another or as stages of `run_all`, while sessions
are recorded, derived files are rebuilt or not, folds run in threads, each on the
device its number was given when it was submitted (`DeviceOf`: two that run may
share one, and then one may raise for lack of memory, `OutOfMemory`), and a process
is killed at any step.  A GPU is taken to have the memory for one fold.  With one
device the code runs the folds in a row and stops at the first that raises; the rows
are lost either way.  A model's numbers are left out: a classifier that must be
better than chance is nothing a model checker can say.

**LiveInference.**  Both programs are one state machine with a command line
(`args`): the gate on bandwidth and channel, calibration, resampled packets,
rolling windows, verdicts, guided phases (first program), the recording (second).
What a model answers is any class.  Signals come at every stage, and the receiver
may raise.  The frames are one board's; its numbers count up, skip what was lost,
and start again after a reset (that they wrap at 2^32 is left out).  In the second
program a frame is received and added to the recording in one step (`TakeFrame`) and
its drops are counted in the next (`CountDrops`), so that a signal can fall between.
The resampler of the first program, imported from a module that the
repository does not hold, returns any number of packets out of `args.outputs`.

**PlayerServer, PlayerPage.**  A step of asyncio ends at an `await`; the receiver
thread and the executor thread that waits in `queue.get()` interleave with it.  The
page has one step per event handler; requests and answers are on the way in order
per socket, the building of a grid is one step that may fail, and the canvas is the
pair of session and channel it was drawn from.

## 4. Runs

| Run | Instance | Shows | States, time (2 workers) |
|---|---|---|---|
| `capture` | queue of 2, 3 radio events | `Accounting`, `GapsAreDrops` at every interleaving of the three tasks; `LinesAdvance` of the `#STAT` lines; `EverySampleSettles`; the pipeline implements `LossyFifo` (`FifoSpec`) | 135,000, 30 s |
| `board` | 2 descriptors, 2 frames followed, 1 break or failed send, one hotspot that comes and goes | `SocketsAccounted`, `SendsOnLiveSocket`, `FramesIntact`, `OneDialDue`, `CallsReturn`, `Reconnects` | 153,000, 110 s |
| `collect_stream` | 1 board, 2 connections, 3 frames, chunks of 2, 1 signal | `StreamIntact`, `DropsAreGaps`, `OneInterruptSaves`, `InterruptEnds` | 626,000, 142 s |
| `collect_boards` | 2 boards, each under any of 3 addresses, two of one tag; a duration, 1 signal | `EverythingSaved` | 1,410,000, 45 s |
| `capacity` | sweeps of 2 transports x 2 rates, a search among 3 | `MeasuresWhatRuns`, `EndsConsistent`, `NoMixOfTests`, `SweepDecision`, `FindMaxDecision` | 31,000, 3 s |
| `framer` | every stream of 6 significant bytes; every 3 of 9 items | `ChunkingIrrelevant`, `ItemsIntact`, `ReadsAll` | 214,000, 23 s |
| `store` | 2 sessions, 2 receivers, 2 workers, 1 kill | `ListedIsReadable`, `DataFaithful`, `FailuresExcused` | 1,360,000, 130 s |
| `experiment` | 14 sessions, 5 people, 3 dates, 3 receivers; 18 schedules of scripts; 2 devices, 1 kill or fold without memory | `HeldOutUnseen`, `ScorableFolds`, `DataAligned`, `KillLosesOneFold`, `RunAllDelivers` | 129,000, 125 s |
| `live` | both programs; windows of 3 by 2, 8 frames, 1 odd event, 2 signals | `LiveIsBatch`, `PhasesNotCutShort`, `RecordingKept` | 1,660,000, 135 s |
| `player_server` | 2 connections, queue of 2, 4 samples | `ViewersInformed`, `StreamUnbroken`, `TransportReleased` | 51,000, 8 s |
| `player_page` | 2 sessions, 2 channels, 2 sockets, 3 clicks | `PageConsistent`, `RequestAnswered` | 539,000, 135 s |

One run shows a statement of the repository that the code does not keep; TLC's
counterexample is the evidence:

| Run | Property | Statement | What happens |
|---|---|---|---|
| `collect_doc_signal` | `NeitherLosesSession` | `cli_collect.py:11-13`: neither signal loses the session | a signal after the duration has ended the loop, or a second one, is raised outside the `try` before the handlers are set to `SIG_IGN`: nothing is saved |

**Why the bounds are enough.**  *capture*: a queue of two is the smallest in which
order can go wrong; three events fill it, overflow it, and leave one sample in every
place (scratch, queue, sender) at once.  The proofs lift the bound for safety.
*board*: two descriptors are one more than the code uses at a time, so a leak shows
at once and descriptors are reused across connections; one break or one failed send
gives a connection and the one after it, two frames one that is cut and one behind
it, and later frames, not followed, keep the sender going; the hotspot comes and
goes any number of times.  The proofs lift these bounds for safety.  *collect*: two
connections of one board, or of two, are what the shared queue and the keys can
confuse; of three addresses two have one tag and one its own (boards, and addresses
of one tag, are symmetric); three frames and chunks of two give a chunk that is
split by a signal with a frame before and after.  *capacity*: two rates and two
transports give every combination of `pick_winner`'s branches; three candidates out
of order give a pass, a failure and one not tried.  *framer*: six bytes hold a whole
header, a false one inside a payload, or a line around a magic; chunks of three and
a tail of two cut the stream at every place; three items put each kind before and
after each other.  The proofs lift these bounds for safety.  *store*: a session of
one receiver (unprefixed names) and one of two (prefixed); recordings with clock
resets, runs of equal length, tied csi lengths, an empty bin and too few bins; two
workers on one cache and a rebuild beside the collector's are all the overlaps the
code has names for.  *experiment*: the 14 sessions hold each case the splits tell
apart (a stranger on two days, one with a single session, one with several
receivers, a day without an authorized walk, a session without windows, one that is
in the hold-out list), two of them recorded later; one kill, or one fold that finds
no memory, reaches every step.  *live*: eight frames give a calibration, a phase
that ends within a window, a second one, and windows that overlap; one odd event
puts a loss, a reset of the board, a foreign band or another length anywhere; two
signals meet every stage after the first, and the step between a sample and the
count of its drops.  *player*: a queue of two is full with one item waiting; two
browsers join before, between and after the messages; three clicks change session,
channel and session again while two answers are late.

**Fairness.**  *CsiCapture*: weak fairness of the callback once it has begun and
of the two FreeRTOS tasks, which block only on the queue, on a delay or in a send
that returns; none for the radio.  *Board*: weak fairness of `app_main`, the event
task, the driver and both transport tasks; strong fairness of `socket`
and `connect` succeeding when they can again and again (`Reconnects` is about a
hotspot and a laptop that are there for good: without it a network that refuses
for ever is a legal behaviour), and of `send()` failing on a dead connection that is
sent on again and again, since lwIP's buffer is finite and its retransmissions give
up.  None for new frames, breaks or the hotspot: `Reconnects` asks for a board that
goes on capturing, because nothing but a failing `send()` finds out that a
connection is dead.  A mutex take needs no more than weak fairness.
*CollectSession*: weak fairness of the main thread, of each handler and of the
clock; none for boards and signals.  *CapacityTest*, *StreamFramer*, *Experiment*
(`Progress`, not the recording of sessions nor kills): weak fairness of the only
thread; the stream is read to its end, a pool's threads as one; none for a fold
that finds no memory.  *LiveInference*:
only of the clean-up once it has begun.  *PlayerServer*: weak fairness of each
thread and of asyncio's steps, of a read that returns when the source ends, and of
browsers that leave when the server closes; none for samples, browsers and
Ctrl+C.  *PlayerPage*: of delivery on an open socket, of the handler and of the
page's timers; none for clicks and lost connections.  *SessionStore* states none:
nothing there has to happen.  Processes that end, a finite stream or a radio that
falls silent are not deadlocks; the runs of such modules say `CHECK_DEADLOCK
FALSE`.  `board` is checked for deadlock, but can have none: the laptop's listener
and the hotspot may always change.  A task that is stuck for ever shows in
`CallsReturn` and `Reconnects`.

## 5. Proofs

The theorems hold for every value of the constants that satisfies the named
assumptions of the modules.

**CsiCaptureProofs** (any queue length, filter, number of events).  `TypeCorrect`;
`AccountingCorrect`: the two balances are inductive with the type, because each
step moves one sample between two adjacent places; `PipelineOrderCorrect`: order
of what was sent alone is not inductive, so it is stated along the whole pipeline
(sent < sender's item < queue < scratch < next number); `GapsAreDropsCorrect`
follows from both by counting: the numbers sent are as many as the sequence is
long, since it is strictly ascending; `CaptureImplementsFifo`: a step of the
callback that numbers a sample is `Issue`, an accepted send is `Deliver` (the item
is the smallest pending number by `PipelineOrder`), a drop is `Lose`, all else a
stutter; `LinesAdvanceCorrect`: a `#STAT` line in the making lies between the
last line and the counters, which only rise, whatever the order of the unlocked
reads.

**BoardProofs** (any descriptors, frames, breaks and hotspots).  The uplink's IInv
says that `connection_task` is past its poll only while `s_connected` is false, that
`s_connected` stands for a published socket of the newest connection, who holds the
mutex, and which descriptors are open.  It is what makes the unlocked reads
harmless: each task sets `s_connected` only in the direction the other waits for.
`TypeCorrect` (with the mutex), `SocketsAccountedCorrect`,
`SendsOnLiveSocketCorrect`.  On top of it `Carried` says what the laptop has
received: connections not yet made carry nothing, a whole frame was accepted, and an
accepted one is whole somewhere unless a connection is dead.
`TruncatedEndsConnection` does not follow from the network, which keeps a connection
alive through an error if it likes: once a connection ends in the piece of a failed
send it is `Abandoned`, for a newer one stands, or the sender is on its way to close
it, or no socket is published; and a send goes out on the published socket of the
newest connection only (`SendsOnLiveSocket`).  `AcceptedArriveWholeCorrect` and
`TruncatedEndsConnectionCorrect` together are `FramesIntactCorrect`.
`BoardImplementsUplink`: every step of the board is a step of `TcpUplink` or a
stutter, so each of these holds of the whole board (`BoardFramesIntact` states one).
`OneDialDueCorrect`: `OneDialDue` is inductive with the station's types,
`StationTypeCorrect`; lemmas say what a posted or handled event does to the set of
queued events that dial, and each driver step starts from a state in which that set
is empty.

**CollectSessionProofs** (any boards, addresses, connections, frames, chunk sizes,
signals).  A step moves samples from the front of one buffer to the end of the
next: what was carried, the handler's chunk, the queue, the generator's item, the
writer.  `StreamIntactCorrect`: that this chain, restricted to a connection, is
what its socket delivered so far (`NothingLostInside`) is inductive with who may
hold a sample (`Handling`, `Origin`, `Hand`) and where main thread and generator
are with respect to each other (`Control`).  `DropsAreGapsCorrect`: the count
(`Gaps`) is kept for the samples that are counted, all but one just added, and
only of an address that one connection uses; `EverythingSavedCorrect` rests on
there being one writer per address (`Writers`) and on what is already filed
(`Filed`): each writer filed so far has its file, unless one that was filed after it
could get the same tag.  Of tags only this is assumed: those of two MAC addresses
differ (`MacTagsAssumption`); any address may have the tag of another, or of a MAC.
`OneInterruptSavesCorrect` rests on what no signal, and at most one, can have done so
far (`Interrupted`).

**PlayerProofs** (any sessions, channels, sockets, clicks; any viewers, samples, queue).
`PageConsistentCorrect`: the picture belongs to the selection because the key
waited for follows every selection (`PendingIsSelection`) and data is taken only
when it answers that key (`DataIsPending`), although answers come late and on a
socket that was replaced; the wires are shown to carry nothing but requests and
answers about keys.  `StreamUnbrokenCorrect`: everything on its way from the receiver
thread to the viewers is, in this order, what was said before the first sample, the
samples that follow the last one shown, and what was said at the end (`Carried`).
`ViewersInformedCorrect`: who has not connected has got nothing, and what is
remembered is what last went out (`Connections`).

**StreamFramerProofs** (any stream of any items, any pieces, any size of header and
tail).  `TypeCorrect`; `ChunkingIrrelevantCorrect`, `ItemsIntactCorrect`.  Neither
is inductive: `ChunkingIrrelevant` says nothing while `_try_extract_one` is at work,
nor about what the bytes left in the buffer become when more arrive.  `ReadSoFar`
says it for every prefix of the stream that holds what was read: its reading is what
was found so far, joined with the reading from the buffer's first byte on.  Lemmas
say what an extraction takes out of the reading (a line, a frame, two bytes of a
wrong version, junk before the first place where something may begin), whatever
follows the buffer; the last byte of junk may be half a magic, which is why a tail
is kept. `ItemsIntact` follows: each item of a clean stream is read as what it is
from where it begins (`ItemRead`, `CleanReading`), and `FlattenParts` says where
that is.  That the recursions in `Readings` and in the library's `FlattenSeq` have a
solution is proved first (`ReadingsExist`, `FlattenIs`). The only assumptions are
the shapes of the items (`SentAssumption`) and that the header has room for its
fields, the tail is not empty and a read returns something (`SizesAssumption`).

**PlayerProofs**, live inference (both programs, any sizes, strides, phases, frames
lost, and packets per frame).  LiveInv relates everything to the list of packets
decoded so far: calibration, then what the windower got, then what is left
(`Packets`); the windower holds the latest (`Buffer`); as many windows were shown as
a stride fits into the packets, and the last begins at the last multiple of it
(`Windows`). `LiveIsBatchCorrect`, `PhasesNotCutShortCorrect` (`PhaseTime`: each
phase began no earlier than the announced times before it add up to) and
`RecordingCoversWindowsCorrect`, the safety half of `RecordingKept`: its drops lag
the truth by the gap of the frame in hand only (`Counting`), are never more than the
frames lost, and are never fewer than those lost between two frames of one boot;
what is lost around a reset the code cannot count. `ProgramsAssumption` says what
the two sources have: only the second program records, and it makes one packet of
each frame.

**ExperimentProofs** (any sessions, people, days, receivers, windows, models,
permutations, schedules, devices and kills). `HeldOutUnseenCorrect`,
`DataAlignedCorrect` and, an action property, `KillLosesOneFoldCorrect`: however the
user mixes recording, rebuilding and training, and whatever is killed. None is
inductive: a row is fair because its script computed it so when it started, long before,
from files that are older than the data. IInv says so of everything a row can come from.

* *The steps still to do* are `Good`: each row to be evaluated is `Fair` (sides,
  stranger, labels, tuning, threshold, pretraining, pairs, and the whole manifest where
  that is promised), each file to be saved is the one of today's sessions.
* *The derived files* are `Derived`: there are sets of sessions SX in SI in SM in the
  recorded ones such that matrices, index and manifest are exactly those of SX, SI and
  SM; what is cached, calibrated or saved by `ml_2` is that of some subset.  This is
  what makes the code's only staleness test, the number of rows, sufficient:
  `IndexAgain`, `TrackAgain` and `DataAgain` show that of two nested sets of sessions
  those with as many rows have the same rows in the same order.
* *Pool and script*: while folds run the script is at the step that opened the pool
  (`AtPool`), and those taken are running or done (`PoolSound`).

What a row may not have met is `Seen`: what it was fitted, tuned, pretrained on and
decided by.  Two exceptions are written into it, because the code makes them: the
scripts in `CutsAtTest` read the threshold of their accuracy and false accepts off the
scores of the test set, and `train_contrastive` pretrains on every window.  Not in any
row: the empty-room baselines, and the sweep's choice of the best model of stage T1 on
the day it is then tested on.

`PlansAreGood` is the largest part: for each of the 27 scripts, its plan on any derived
files in order is `Good`.  It rests on the splits (`DayFoldDisjoint`, `KfoldDisjoint`,
`KfoldCovers`, `DirectionDisjoint`, `PersonFoldDisjoint`, which also cover the loops that
assert nothing), on `BuildFeatureMatrix` and the dataset mask keeping positions
(`FeaturesOf`), and on sorted unique lists being what they should (`UpToLists`,
`SortedFacts`, `FlattenFacts`).  Used assumptions: the constants have the shapes their
modules name; receivers of a session differ; a session has a person unless the room is
empty (the collector insists, `cli_collect.py:83`), and nobody is recorded both as
enrolled and as a stranger (`PeopleAssumption`: a fold that holds a person out looks at
their windows labelled a stranger's).

For the kills the steps still to do have to be in a certain order, which `Good` does
not see: `Logged` says that behind each row comes the step that logs it, at once or with
the checkpoint saved first, and that no pool holds rows.  `PlansLogged` shows it of the
eight scripts that log fold by fold, and `OneFoldHeld` that memory then holds nothing, or
one row with its log next.

**SessionStoreProofs** (any sessions, receivers, recordings, requests, workers,
crashes; windows and strides are not empty, or `range` would raise).
`ListedIsReadableCorrect`.  The property is not inductive: that a row is good when
it is written rests on the collector writing a receiver's samples before its
metadata (`Described`, `Saving`), and that it stays good on no samples file being
opened twice (`Untouched`); rows travel through a rebuild's memory (`RowsSaved`).
`FailuresExcusedCorrect`, an action property: a worker's rows have their recordings
(`WorkerRows`), no file but a receiver's own or the unprefixed one is ever there
(`DiskNames`), so a worker finds its samples whole; and a torn cache has a worker
that is writing it or one that died (`TornExcused`). `DataFaithfulCorrect` has two
halves.  About the functions of `TimeAxis` alone, `DecodedFacts`: for every
recording, the bins hold exactly the packets of the most frequent length between
their first and last, and no bin is empty; with a bin width these are of one boot,
no other boot has more, and every packet is in the bin of its time.  It rests on
`PacketIndicesFacts` (the positions kept enumerate those packets in order),
`FixClockResetFacts` (a longest ascending run) and `ResampleFacts`.  About the
processes, `DInv`: whole samples are a board's of their session (`SamplesWhole`), a
cache is of the receiver asked for even while it is torn, and when whole has the
bins of that recording (`CacheRight`); what a worker writes is torn and what it is
about to read exists (`WriterRight`); its index has the long sessions among the rows
that are done, all but the one it is at (`IndexFit`).

**CapacityTestProofs** (any candidates, original setting and measurements).  IInv:
how much of the target file and board hold at each step, that the decision is the
one of the results, and that the search has climbed a prefix of its sorted plan.
`TypeCorrect`, `MeasuresWhatRunsCorrect` (an action property),
`EndsConsistentCorrect`, `NoMixOfTestsCorrect`, `SweepDecisionCorrect`,
`FindMaxDecisionCorrect`.  That a lowest drop, a last passing result and a sorted
order exist is proved from the well-foundedness of < and of its lexicographic
orders: the least arrangement of the rates is the sorted one, since exchanging two
that are out of order gives a smaller one.

**Induction.**  The library's induction theorems cannot be used here, but the
well-foundedness of < on the natural numbers can: each proofs module that needs it
derives that a set with 0 and every successor holds all numbers, and instantiates
it with a set instead of a predicate.  This is how recursive functions (`Of`, the
phases' sum, the sorted plan) are reasoned about.

**Only model-checked**: liveness and fairness (`EverySampleSettles`, `CallsReturn`,
`Reconnects`, `InterruptEnds`, `Ends`, `ReadsAll`, `TransportReleased`,
`RequestAnswered`, the second half of `RecordingKept`), which are out of the
prover's reach (`Ends` is half of `RunAllDelivers`); `ScorableFolds` and the other half,
`BacktestKeepsSurvivors`, which hold of data that
has authorized walks (without any, a fold of strangers has no denominator and a stage
no row), so that no theorem about every recording can state them.  For the two
receiver-fusion tracks `ScorableFolds` also rests on the sessions of the instance: their
day loops skip a day without authorized windows, not one without others.
**Only proved**: `PipelineOrder`, which the refinement `FifoSpec` implies, and the
type invariants of the proved modules.

## 6. Not modelled

* Serial uplink, wire format, transmitter, hotspot, preflight, stimulus, scripts:
  one write, one packing, a paced loop, sequential shell steps around drivers and
  tools; they hold no state that two parties share.
* Boot: the roles other than a receiver over TCP, and the NVS keys.
* The single-board receivers: one thread that reads and yields.
* Models, features, figures, the signal processing of the player: numeric code over
  data at rest.  Of the feature matrices the order of their rows is in `Ml2Plans`.
* `check_live_bandwidth.py`: the live programs' gate, alone, with a timeout.
* Pictures and texts of the page; the live tab's chart.

Observations made while reading.  Most are about data or configuration the
models leave out; the first group contradicts a statement of the repository.

* `--duration` (`cli_collect.py:71`) is looked at only after a sample (line 166):
  while no board sends, a session with a duration goes on until it is interrupted.
* A gap is said to be a loss (`SETUP_ESP_HOTSPOT.md:193-195`), but two
  connections of one board interleave after a reconnect, and samples that were
  received are counted as dropped (`cli_collect.py:143`).
* Files are said never to collide (`session_writer.py:60-66`), but one board under
  two addresses has two writers and one tag, and so have two addresses that differ in
  their dots only (`192.168.1.12`, `192.168.11.2`) while no MAC answers for them: the
  second replaces the first file.  `EverythingSaved` says that nothing else is lost.
* `capacity_test.py:293-295` says the file never keeps an intermediate
  combination; a failing push or Ctrl+C during the sweep leaves it (line 313).
* `gpu_utils.py:6-7` and `122-124` have each concurrent fold on a GPU of its own;
  devices go round by the fold's number (line 131), so a fold that outlasts its
  neighbours shares its GPU with the next while another stands idle.
* The threshold is said to be calibrated on a held-out slice of known walks, "never
  real stranger/none data" (`train_prototypical.py:2-5`, `train_arcface.py:4-5`,
  `ml_2/MODEL_TECHNICAL_REFERENCE.md:320-323`, `ml_2/PLAN.md:67-68`).  That
  threshold gives `calibrated_accept_rate` alone; accuracy and false accepts are
  taken at the equal-error threshold of the test scores, the stranger's among them
  (`train_prototypical.py:118-120`, `train_arcface.py:102-104`; without such a
  promise also `train_svm_gait.py:46-49`, `train_cusum.py:55-57`,
  `train_gbm.py:49-51`, `train_generative_hard_negative.py:98-100`).
* `run_day2_sweep.py:22-23` promises a log row per finished run; stage T3 writes its
  rows at the end (line 486).
* `live_infer.py`'s recheck compares counts of the whole run, so that a channel that
  changes late is warned of when the new one is the majority (lines 232-235).

Board and collector:

* The capture filter copies the BSSID once (`csi_capture.c:106`, documented in
  `wifi_sta.h` as that of "the AP we're associated to"): a hotspot that comes back
  under another BSSID leaves a connected board that captures nothing.  Main thread
  and event task share `s_bssid` without a lock.
* An address announced after the loss that ended it leaves `WIFI_CONNECTED_BIT` set
  without a link: `app_main` goes on, and its connects fail until the link is back.
* The transmitter reads the gateway's address once.
* `capacity_test.py --config X` edits X, but `push_config.sh` reads the default
  `config.yaml`: each combination is then measured on the transport that names.
* `target_sample_rate_hz`, which `--apply` writes, is read by nothing but the next
  capacity test; a session's stimulus runs at `stimulus.rate_hz`.
* A frame cut in the middle (a short `send()`, a torn serial write) makes the framer
  take the next frames' bytes for its payload, or a `#` among them for the
  beginning of a line.  It recurses once per skipped piece: a read of very many of
  them would reach Python's recursion limit.
* `config_editor.py` rewrites `config.yaml` in place, so a power loss in between
  leaves it truncated.
* The NVS keys are written by `nvs_gen.py` and read by `cfg_store.c` with no common
  definition; two sessions of one person that begin in the same second share a
  directory.
* `csi_cb_count` counts frames after the filter, not callbacks.

Files and windows:

* A torn cache file is used for as long as it exists; a reader of one that is being
  written fails; `np.savez` writes in place everywhere.
* A worker that reads the manifest during a rebuild gets fewer sessions and says
  nothing; one torn `metadata.json` makes every rebuild raise
  (`build_manifest.py:27`).
* `windowing.py` without a receiver fails on a session of several.

Training and evaluation:

* The seed is set after the model is built, and the threads of
  `run_folds_parallel` share one generator.
* `train_contrastive.py:113-116` pretrains on every window, those of the test day and
  of the stranger included, as its docstring says; its probe sees the fold alone.
* MAML's calibration and test windows share sessions (said so in its docstring);
  calibration windows of a session overlap its centroid's.
* `ml`'s baselines average all empty-room sessions, held-out ones included.
* Cached indexes are named by rate and number of sessions and never invalidated:
  one of other sessions is taken when the number is the same.
* `calib_context` winning stage T1 makes T3 fail; an empty group makes
  `_group_embeddings` raise; leave-one-day-out over one date has an empty training
  set; `run_day2_sweep` and `cross_day_drift` want exactly two dates; receiver fusion
  wants every receiver in every session.
* `run_stage2` catches the leakage assertions with every other exception;
  `backtest_all` leaves the generative rows out.

Live programs and player:

* `ml/inference/live_infer.py:38` imports `ml.inference.live_time_resample`, which the
  repository does not hold; the first program does not assert that its checkpoints
  agree on window and stride.
* In the second program a receiver that raises, or a second signal between the end
  of the loop and line 309, loses the recording.
* `check_live_bandwidth.py --timeout` is looked at only when a sample arrives.
* An error answer names no channel and is shown whatever is selected
  (`realtime_player.py:404`); the late `onclose` of an old socket overwrites the
  status after a reconnect (391); a reconnect while a request is out leaves
  "building" on the page for ever; an error in `list_sessions` closes the connection.
* After Ctrl+C the server does not exit while its executor thread waits in
  `queue.get()` for a silent source (`player_server.py:185`); the board's transport
  is released all the same.
