------------------------------ MODULE PlayerServer ------------------------------
(***************************************************************************)
(* The live half of ml/visualization/player_server.py: the receiver thread,  *)
(* the bounded queue, the executor thread that waits in queue.get() for the   *)
(* broadcaster, the connections of the browsers, and the shutdown.  Requests  *)
(* for recorded sessions are in PlayerPage.                                 *)
(*                                                                         *)
(* asyncio runs one step at a time up to the next await; a step here ends     *)
(* there.  A message is its type and, for a sample, its number.              *)
(***************************************************************************)
EXTENDS Integers, Sequences

CONSTANTS
  Viewers,      \* bound: the browsers that connect, each once
  MaxQueue,     \* queue.Queue(maxsize=2000)
  MaxSamples    \* bound: samples of the board

ASSUME QueueAssumption == MaxQueue \in Nat \ {0} /\ MaxSamples \in Nat

VARIABLES
  rcv,          \* receiver_thread_main: "check", "open", "recv", "put", "closing", "done"
  item, after,  \* in "put": the message, and where the thread goes on
  source,       \* the transport: "none", "open", "closed"
  sent,         \* samples decoded so far
  queue,
  getter, got,  \* the executor thread: "idle", "waiting" in get(), "got" a message
  stop_event, cancelled,
  main,         \* serve: "serving", "closing", "stopped", "exited"
  clients, used, last_status,
  heard, shown, \* history: the last status or error, the samples, sent to each viewer
  announced     \* history: the last status or error that left the queue

rcvVars  == <<rcv, item, after, source, sent>>
getVars  == <<getter, got>>
mainVars == <<stop_event, cancelled, main>>
viewerVars == <<clients, used, last_status, heard, shown, announced>>
serverVars == <<rcvVars, queue, getVars, mainVars, viewerVars>>

NoMessage == <<"none", 0>>
Status == <<"status", 0>>
Error == <<"error", 0>>
IsStatus(m) == m \in {Status, Error}

ServerInit ==
  /\ rcv = "check" /\ item = NoMessage /\ after = "done" /\ source = "none" /\ sent = 0
  /\ queue = <<>> /\ getter = "idle" /\ got = NoMessage
  /\ stop_event = FALSE /\ cancelled = FALSE /\ main = "serving"
  /\ clients = {} /\ used = {} /\ last_status = NoMessage /\ announced = NoMessage
  /\ heard = [c \in Viewers |-> NoMessage] /\ shown = [c \in Viewers |-> <<>>]

-----------------------------------------------------------------------------
(* The receiver thread *)

Put(m, next) == rcv' = "put" /\ item' = m /\ after' = next

(* Bug: a message is dropped when the queue is full. *)
PutDropping ==
  /\ rcv = "put"
  /\ queue' = IF Len(queue) < MaxQueue THEN Append(queue, item) ELSE queue
  /\ rcv' = after /\ item' = NoMessage /\ after' = "done"
  /\ UNCHANGED <<source, sent, getVars, mainVars, viewerVars>>

(* put() blocks while the queue is full, and looks at nothing else.          *)
PutReturns ==
  /\ rcv = "put" /\ Len(queue) < MaxQueue
  /\ queue' = Append(queue, item)
  /\ rcv' = after /\ item' = NoMessage /\ after' = "done"
  /\ UNCHANGED <<source, sent, getVars, mainVars, viewerVars>>

(* The preflight, and in --simulate the notice in its place.                 *)
Check ==
  /\ rcv = "check"
  /\ Put(Status, "open") \/ Put(Error, "done")
  /\ UNCHANGED <<source, sent, queue, getVars, mainVars, viewerVars>>

OpenSource ==
  /\ rcv = "open"
  /\ \/ source' = "open" /\ rcv' = "recv" /\ UNCHANGED <<item, after>>
     \/ Put(Error, "done") /\ UNCHANGED source
  /\ UNCHANGED <<sent, queue, getVars, mainVars, viewerVars>>

Receive ==
  /\ rcv = "recv" /\ ~stop_event /\ sent < MaxSamples
  /\ sent' = sent + 1
  /\ Put(<<"sample", sent + 1>>, "recv")
  /\ UNCHANGED <<source, queue, getVars, mainVars, viewerVars>>

(* The source sees stop_event and ends, or raises.                           *)
SourceEnds ==
  /\ rcv = "recv" /\ stop_event
  /\ rcv' = "closing"
  /\ UNCHANGED <<item, after, source, sent, queue, getVars, mainVars, viewerVars>>

SourceRaises ==
  /\ rcv = "recv"
  /\ Put(Error, "closing")
  /\ UNCHANGED <<source, sent, queue, getVars, mainVars, viewerVars>>

CloseSource ==
  /\ rcv = "closing"
  /\ source' = "closed" /\ rcv' = "done"
  /\ UNCHANGED <<item, after, sent, queue, getVars, mainVars, viewerVars>>

-----------------------------------------------------------------------------
(* The broadcaster and its executor thread *)

(* await run_in_executor(None, sample_queue.get) *)
AskGet ==
  /\ getter = "idle" /\ ~cancelled /\ main # "exited"
  /\ getter' = "waiting"
  /\ UNCHANGED <<rcvVars, queue, got, mainVars, viewerVars>>

(* The thread goes on although nobody awaits its result any more.            *)
GetReturns ==
  /\ getter = "waiting" /\ queue # <<>>
  /\ queue' = Tail(queue)
  /\ IF cancelled THEN getter' = "idle" /\ got' = NoMessage
                  ELSE getter' = "got" /\ got' = Head(queue)
  /\ UNCHANGED <<rcvVars, mainVars, viewerVars>>

(* To every viewer that is connected.                                        *)
SendToAll ==
  /\ announced' = IF IsStatus(got) THEN got ELSE announced
  /\ heard' = [c \in Viewers |-> IF c \in clients /\ IsStatus(got) THEN got ELSE heard[c]]
  /\ shown' = [c \in Viewers |-> IF c \in clients /\ ~IsStatus(got) THEN Append(shown[c], got[2])
                                ELSE shown[c]]

(* Bug: only what goes to somebody is remembered.                            *)
BroadcastUnremembered ==
  /\ getter = "got" /\ getter' = "idle" /\ got' = NoMessage
  /\ last_status' = IF IsStatus(got) /\ clients # {} THEN got ELSE last_status
  /\ SendToAll
  /\ UNCHANGED <<rcvVars, queue, mainVars, clients, used>>

Broadcast ==
  /\ getter = "got" /\ getter' = "idle" /\ got' = NoMessage
  /\ last_status' = IF IsStatus(got) THEN got ELSE last_status
  /\ SendToAll
  /\ UNCHANGED <<rcvVars, queue, mainVars, clients, used>>

-----------------------------------------------------------------------------
(* Connections *)

(* The handler's first step: into clients, and the last status on its way.    *)
Connect(c) ==
  /\ main = "serving" /\ c \notin used
  /\ used' = used \cup {c} /\ clients' = clients \cup {c}
  /\ heard' = IF last_status = NoMessage THEN heard ELSE [heard EXCEPT ![c] = last_status]
  /\ UNCHANGED <<rcvVars, queue, getVars, mainVars, last_status, shown, announced>>

Disconnect(c) ==
  /\ c \in clients
  /\ clients' = clients \ {c}
  /\ UNCHANGED <<rcvVars, queue, getVars, mainVars, used, last_status, heard, shown, announced>>

-----------------------------------------------------------------------------
(* Ctrl+C: the server closes its connections, then the finally block runs.    *)

Interrupt ==
  /\ main = "serving" /\ main' = "closing"
  /\ UNCHANGED <<rcvVars, queue, getVars, stop_event, cancelled, viewerVars>>

(* Bug: the finally block cancels the broadcaster only.                      *)
FinallyUnsignalled ==
  /\ main = "closing" /\ clients = {}
  /\ main' = "stopped" /\ cancelled' = TRUE
  /\ getter' = IF getter = "got" THEN "idle" ELSE getter
  /\ got' = NoMessage
  /\ UNCHANGED <<rcvVars, queue, stop_event, viewerVars>>

Finally ==
  /\ main = "closing" /\ clients = {}
  /\ main' = "stopped" /\ stop_event' = TRUE /\ cancelled' = TRUE
  /\ getter' = IF getter = "got" THEN "idle" ELSE getter
  /\ got' = NoMessage
  /\ UNCHANGED <<rcvVars, queue, viewerVars>>

(* asyncio.run and the interpreter join the executor's threads; the receiver  *)
(* is a daemon thread and dies with the process.                             *)
Exit ==
  /\ main = "stopped" /\ getter # "waiting"
  /\ main' = "exited"
  /\ UNCHANGED <<rcvVars, queue, getVars, stop_event, cancelled, viewerVars>>

Receiver == Check \/ OpenSource \/ Receive \/ SourceEnds \/ SourceRaises \/ CloseSource \/ PutReturns

ServerNext ==
  \/ main # "exited" /\ (Receiver \/ AskGet \/ GetReturns \/ Broadcast)
  \/ \E c \in Viewers : Connect(c) \/ Disconnect(c)
  \/ Interrupt \/ Finally \/ Exit

(* The threads and the event loop run; a sample, a failure or a Ctrl+C need   *)
(* not come.  A closed server closes every connection.                       *)
ServerFairness ==
  /\ WF_serverVars(PutReturns) /\ WF_serverVars(SourceEnds) /\ WF_serverVars(CloseSource)
  /\ WF_serverVars(AskGet) /\ WF_serverVars(GetReturns) /\ WF_serverVars(Broadcast)
  /\ WF_serverVars(Finally) /\ WF_serverVars(Exit)
  /\ \A c \in Viewers : WF_serverVars(main = "closing" /\ Disconnect(c))

ServerSpec == ServerInit /\ [][ServerNext]_serverVars /\ ServerFairness

-----------------------------------------------------------------------------
(* Properties *)

ServerTypeOK ==
  /\ rcv \in {"check", "open", "recv", "put", "closing", "done"}
  /\ after \in {"open", "recv", "closing", "done"}
  /\ source \in {"none", "open", "closed"} /\ sent \in 0 .. MaxSamples
  /\ Len(queue) <= MaxQueue /\ getter \in {"idle", "waiting", "got"}
  /\ main \in {"serving", "closing", "stopped", "exited"}
  /\ clients \subseteq used /\ used \subseteq Viewers
  /\ last_status \in {NoMessage, Status, Error}

(* "remembered so late-joining clients aren't stuck at waiting": whenever a   *)
(* browser joins, the last status it was sent is the last one there is.       *)
EveryoneInformed ==
  \A c \in clients : heard[c] = announced

(* The same with every variable in its range: the queue within its limit.     *)
ViewersInformed == ServerTypeOK /\ EveryoneInformed

(* A browser sees the samples in order and without a hole, from its first on. *)
StreamUnbroken ==
  \A c \in Viewers : \A i \in 2 .. Len(shown[c]) : shown[c][i] = shown[c][i - 1] + 1

(* The board's transport can only be held by one process: after a Ctrl+C the  *)
(* receiver closes it, or the process and the transport with it are gone,     *)
(* even when the queue is full and the broadcaster cancelled.                *)
TransportReleased ==
  (main = "closing") ~> (source # "open" \/ main = "exited")

=============================================================================
