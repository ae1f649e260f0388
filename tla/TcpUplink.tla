------------------------------ MODULE TcpUplink -------------------------------
(***************************************************************************)
(* The board's TCP transport: firmware/main/transport_tcp.c.                *)
(*                                                                         *)
(* connection_task opens a connection whenever s_connected is false;        *)
(* sender_task calls transport_tcp_send for one frame after another and     *)
(* closes the socket when send() fails.  They share s_sock and s_connected. *)
(* Writes happen under s_sock_mutex, but both tasks read s_connected        *)
(* without it and send() runs after the mutex was given back, so every      *)
(* access is a step of its own.  Delays are left out: they only postpone a  *)
(* step.  A frame is its number; a connection is numbered when it is made.  *)
(* Frames never run out, but only the first MaxFrames are followed to the    *)
(* laptop: the number MaxFrames + 1 stands for any later frame.             *)
(***************************************************************************)
EXTENDS Naturals, Sequences, FiniteSets

CONSTANTS
  Fds,          \* lwIP's socket descriptors, reused after close
  NoSock,       \* the value -1 of s_sock
  MaxFrames,    \* bound: frames whose way is followed
  MaxDrops      \* bound: connections that break or fail; the last one does not

ASSUME FdsAssumption    == Fds # {} /\ NoSock \notin Fds
ASSUME BoundsAssumption == MaxFrames \in Nat /\ MaxDrops \in Nat

Conns == 1..(MaxDrops + 1)

VARIABLES
  s_sock, s_connected, mutex,
  connPc, newSock,            \* connection_task and the socket it is opening
  sndPc, sock, frame,         \* sender_task, its copy of s_sock, its frame
  openFds, connOf,            \* lwIP: open sockets and the connection of each
  conns, alive, stream,       \* connections made, not broken, bytes they carry
  listening,                  \* whether the laptop's server accepts
  accepted                    \* frames for which transport_tcp_send said true

taskVars == <<connPc, newSock, sndPc, sock, frame, accepted>>
netVars  == <<openFds, connOf, conns, alive, stream, listening>>
vars == <<s_sock, s_connected, mutex, taskVars, netVars>>

(* What a connection carries of a frame: all, the part that a short send()   *)
(* reported, or the part that went out before an error.                     *)
Piece == [n : 1..MaxFrames, part : {"whole", "short", "broken"}]

Init ==
  /\ s_sock = NoSock /\ s_connected = FALSE /\ mutex = "free"
  /\ connPc = "poll" /\ newSock = NoSock
  /\ sndPc = "starting" /\ sock = NoSock /\ frame = 0
  /\ openFds = {} /\ connOf = [fd \in Fds |-> 1]
  /\ conns = 0 /\ alive = [c \in Conns |-> FALSE] /\ stream = [c \in Conns |-> <<>>]
  /\ listening = TRUE
  /\ accepted = {}

-----------------------------------------------------------------------------
(* connection_task *)

(* Bug: connects without looking at s_connected.                            *)
ConnPollAlways ==
  /\ connPc = "poll"
  /\ connPc' = "socket"
  /\ UNCHANGED <<s_sock, s_connected, mutex, newSock, sndPc, sock, frame, accepted, netVars>>

ConnPoll ==
  /\ connPc = "poll"
  /\ ~s_connected
  /\ connPc' = "socket"
  /\ UNCHANGED <<s_sock, s_connected, mutex, newSock, sndPc, sock, frame, accepted, netVars>>

OpenSocket(fd) ==
  /\ connPc = "socket"
  /\ fd \notin openFds
  /\ openFds' = openFds \cup {fd}
  /\ newSock' = fd
  /\ connPc' = "connect"
  /\ UNCHANGED <<s_sock, s_connected, mutex, sndPc, sock, frame, accepted,
                 connOf, conns, alive, stream, listening>>

(* socket() can always fail: lwIP's table and memory are shared. *)
SocketFails ==
  /\ connPc = "socket"
  /\ connPc' = "poll"
  /\ UNCHANGED <<s_sock, s_connected, mutex, newSock, sndPc, sock, frame, accepted, netVars>>

(* Bug: the socket of a failed connect is not closed. *)
ConnectFailsLeaks ==
  /\ connPc = "connect"
  /\ connPc' = "poll"
  /\ newSock' = NoSock
  /\ UNCHANGED <<s_sock, s_connected, mutex, sndPc, sock, frame, accepted, netVars>>

ConnectFails ==
  /\ connPc = "connect"
  /\ openFds' = openFds \ {newSock}
  /\ newSock' = NoSock
  /\ connPc' = "poll"
  /\ UNCHANGED <<s_sock, s_connected, mutex, sndPc, sock, frame, accepted,
                 connOf, conns, alive, stream, listening>>

ConnectSucceeds ==
  /\ connPc = "connect"
  /\ listening
  /\ conns + 1 \in Conns
  /\ conns' = conns + 1
  /\ connOf' = [connOf EXCEPT ![newSock] = conns + 1]
  /\ alive' = [alive EXCEPT ![conns + 1] = TRUE]
  /\ connPc' = "take"
  /\ UNCHANGED <<s_sock, s_connected, mutex, newSock, sndPc, sock, frame, accepted,
                 openFds, stream, listening>>

ConnTake ==
  /\ connPc = "take"
  /\ mutex = "free"
  /\ mutex' = "conn"
  /\ connPc' = "setSock"
  /\ UNCHANGED <<s_sock, s_connected, newSock, sndPc, sock, frame, accepted, netVars>>

ConnSetSock ==
  /\ connPc = "setSock"
  /\ s_sock' = newSock
  /\ connPc' = "setConnected"
  /\ UNCHANGED <<s_connected, mutex, newSock, sndPc, sock, frame, accepted, netVars>>

ConnSetConnected ==
  /\ connPc = "setConnected"
  /\ s_connected' = TRUE
  /\ connPc' = "give"
  /\ UNCHANGED <<s_sock, mutex, newSock, sndPc, sock, frame, accepted, netVars>>

(* Bug: the mutex is not given back.                                        *)
ConnKeepsMutex ==
  /\ connPc = "give"
  /\ newSock' = NoSock
  /\ connPc' = "poll"
  /\ UNCHANGED <<s_sock, s_connected, mutex, sndPc, sock, frame, accepted, netVars>>

ConnGive ==
  /\ connPc = "give"
  /\ mutex' = "free"
  /\ newSock' = NoSock
  /\ connPc' = "poll"
  /\ UNCHANGED <<s_sock, s_connected, sndPc, sock, frame, accepted, netVars>>

-----------------------------------------------------------------------------
(* transport_tcp_start returns once connected; then transport_tcp_send runs  *)
(* in sender_task.                                                          *)

StartReturns ==
  /\ sndPc = "starting"
  /\ s_connected
  /\ sndPc' = "idle"
  /\ UNCHANGED <<s_sock, s_connected, mutex, connPc, newSock, sock, frame, accepted, netVars>>

Followed == frame <= MaxFrames
Return(ok) == /\ sndPc' = "idle"
              /\ sock' = NoSock
              /\ accepted' = IF ok /\ Followed THEN accepted \cup {frame} ELSE accepted

SendCall ==
  /\ sndPc = "idle"
  /\ frame' = IF Followed THEN frame + 1 ELSE frame
  /\ sndPc' = "check"
  /\ UNCHANGED <<s_sock, s_connected, mutex, connPc, newSock, sock, accepted, netVars>>

SendCheck ==
  /\ sndPc = "check"
  /\ IF s_connected THEN sndPc' = "take" /\ UNCHANGED <<sock, accepted>> ELSE Return(FALSE)
  /\ UNCHANGED <<s_sock, s_connected, mutex, connPc, newSock, frame, netVars>>

SendTake ==
  /\ sndPc = "take"
  /\ mutex = "free"
  /\ mutex' = "send"
  /\ sndPc' = "copy"
  /\ UNCHANGED <<s_sock, s_connected, connPc, newSock, sock, frame, accepted, netVars>>

SendCopy ==
  /\ sndPc = "copy"
  /\ mutex' = "free"
  /\ IF s_sock = NoSock
       THEN Return(FALSE)
       ELSE sock' = s_sock /\ sndPc' = "send" /\ UNCHANGED accepted
  /\ UNCHANGED <<s_sock, s_connected, connPc, newSock, frame, netVars>>

SockAlive == sock \in openFds /\ alive[connOf[sock]]
Carry(part) ==
  stream' = IF Followed THEN [stream EXCEPT ![connOf[sock]] = Append(@, [n |-> frame, part |-> part])]
                        ELSE stream

SendWhole ==
  /\ sndPc = "send"
  /\ SockAlive
  /\ Carry("whole")
  /\ Return(TRUE)
  /\ UNCHANGED <<s_sock, s_connected, mutex, connPc, newSock, frame,
                 openFds, connOf, conns, alive, listening>>

(* The laptop is gone, but the frame still fits lwIP's send buffer. *)
SendIntoVoid ==
  /\ sndPc = "send"
  /\ sock \in openFds /\ ~alive[connOf[sock]]
  /\ Return(TRUE)
  /\ UNCHANGED <<s_sock, s_connected, mutex, connPc, newSock, frame, netVars>>

(* Bug: sent > 0 is taken for success.                                      *)
SendShortAccepted ==
  /\ sndPc = "send"
  /\ SockAlive
  /\ Carry("short")
  /\ Return(TRUE)
  /\ UNCHANGED <<s_sock, s_connected, mutex, connPc, newSock, frame,
                 openFds, connOf, conns, alive, listening>>

(* send() reports fewer bytes than it was given: false, and the socket stays *)
(* open behind the piece that went out.                                      *)
SendShort ==
  /\ sndPc = "send"
  /\ SockAlive
  /\ Carry("short")
  /\ Return(FALSE)
  /\ UNCHANGED <<s_sock, s_connected, mutex, connPc, newSock, frame,
                 openFds, connOf, conns, alive, listening>>

(* Bug: an error is answered like a short send, without closing the socket.  *)
SendErrorIgnored ==
  /\ sndPc = "send"
  /\ \/ ~SockAlive /\ UNCHANGED <<stream, alive>>
     \/ /\ SockAlive
        /\ conns \in 1..MaxDrops
        /\ Carry("broken")
        /\ alive' \in {alive, [alive EXCEPT ![connOf[sock]] = FALSE]}
  /\ Return(FALSE)
  /\ UNCHANGED <<s_sock, s_connected, mutex, connPc, newSock, frame,
                 openFds, connOf, conns, listening>>

(* send() < 0: at once on a dead socket, or after a piece of the frame.  Then  *)
(* the connection is broken, or it still stands (there is no route just now)   *)
(* and would carry what is sent next.                                         *)
SendError ==
  /\ sndPc = "send"
  /\ \/ ~SockAlive /\ UNCHANGED <<stream, alive>>
     \/ /\ SockAlive
        /\ conns \in 1..MaxDrops
        /\ Carry("broken")
        /\ alive' \in {alive, [alive EXCEPT ![connOf[sock]] = FALSE]}
  /\ sndPc' = "retake"
  /\ UNCHANGED <<s_sock, s_connected, mutex, connPc, newSock, sock, frame, accepted,
                 openFds, connOf, conns, listening>>

SendRetake ==
  /\ sndPc = "retake"
  /\ mutex = "free"
  /\ mutex' = "send"
  /\ sndPc' = "close"
  /\ UNCHANGED <<s_sock, s_connected, connPc, newSock, sock, frame, accepted, netVars>>

SendClose ==
  /\ sndPc = "close"
  /\ openFds' = openFds \ {s_sock}
  /\ sndPc' = "clearSock"
  /\ UNCHANGED <<s_sock, s_connected, mutex, connPc, newSock, sock, frame, accepted,
                 connOf, conns, alive, stream, listening>>

SendClearSock ==
  /\ sndPc = "clearSock"
  /\ s_sock' = NoSock
  /\ sndPc' = "clearConnected"
  /\ UNCHANGED <<s_connected, mutex, connPc, newSock, sock, frame, accepted, netVars>>

(* Bug: s_connected is left true.                                            *)
SendKeepsConnected ==
  /\ sndPc = "clearConnected"
  /\ sndPc' = "regive"
  /\ UNCHANGED <<s_sock, s_connected, mutex, connPc, newSock, sock, frame, accepted, netVars>>

SendClearConnected ==
  /\ sndPc = "clearConnected"
  /\ s_connected' = FALSE
  /\ sndPc' = "regive"
  /\ UNCHANGED <<s_sock, mutex, connPc, newSock, sock, frame, accepted, netVars>>

SendGive ==
  /\ sndPc = "regive"
  /\ mutex' = "free"
  /\ Return(FALSE)
  /\ UNCHANGED <<s_sock, s_connected, connPc, newSock, frame, netVars>>

-----------------------------------------------------------------------------
(* The network and the laptop. *)

Break(c) ==
  /\ alive[c]
  /\ conns \in 1..MaxDrops
  /\ alive' = [alive EXCEPT ![c] = FALSE]
  /\ UNCHANGED <<s_sock, s_connected, mutex, taskVars, openFds, connOf, conns, stream, listening>>

ServerToggles ==
  /\ listening' = ~listening
  /\ UNCHANGED <<s_sock, s_connected, mutex, taskVars, openFds, connOf, conns, alive, stream>>

-----------------------------------------------------------------------------
ConnectionTask ==
  \/ ConnPoll \/ (\E fd \in Fds : OpenSocket(fd)) \/ SocketFails
  \/ ConnectFails \/ ConnectSucceeds
  \/ ConnTake \/ ConnSetSock \/ ConnSetConnected \/ ConnGive

(* The send() call and its outcomes, then the clean-up after a failure. *)
SendOutcome == SendWhole \/ SendIntoVoid \/ SendShort \/ SendError
SendCleanup ==
  SendRetake \/ SendClose \/ SendClearSock \/ SendClearConnected \/ SendGive
SenderTask == StartReturns \/ SendCall \/ SendCheck \/ SendTake \/ SendCopy \/ SendOutcome \/ SendCleanup

Network == (\E c \in Conns : Break(c)) \/ ServerToggles

Next == ConnectionTask \/ SenderTask \/ Network

(* Fairness is stated in Board, where the tasks run.                         *)
Spec == Init /\ [][Next]_vars
-----------------------------------------------------------------------------
(* Every variable keeps its type, and s_sock_mutex is held exactly by the     *)
(* task that is between a take and its give.                                 *)
ConnHolds == connPc \in {"setSock", "setConnected", "give"}
SendHolds == sndPc \in {"copy", "close", "clearSock", "clearConnected", "regive"}
TypeOK ==
  /\ s_sock \in Fds \cup {NoSock} /\ newSock \in Fds \cup {NoSock} /\ sock \in Fds \cup {NoSock}
  /\ s_connected \in BOOLEAN /\ listening \in BOOLEAN
  /\ mutex = IF ConnHolds THEN "conn" ELSE IF SendHolds THEN "send" ELSE "free"
  /\ ~(ConnHolds /\ SendHolds)
  /\ connPc \in {"poll", "socket", "connect", "take", "setSock", "setConnected", "give"}
  /\ sndPc \in {"starting", "idle", "check", "take", "copy", "send", "retake", "close",
                "clearSock", "clearConnected", "regive"}
  /\ frame \in 0..(MaxFrames + 1) /\ conns \in 0..(MaxDrops + 1)
  /\ openFds \subseteq Fds /\ connOf \in [Fds -> Conns]
  /\ alive \in [Conns -> BOOLEAN] /\ stream \in [Conns -> Seq(Piece)]
  /\ accepted \subseteq 1..MaxFrames

(* Over any number of failed connects and reconnects no descriptor leaks and *)
(* none is used after close: the open sockets are the published one and the   *)
(* one connect_once is opening, except between close() and s_sock = -1.      *)
Published == IF sndPc = "clearSock" THEN {} ELSE {s_sock}
SocketsAccounted == openFds = (Published \cup {newSock}) \ {NoSock}

(* The socket transport_tcp_send copied under the mutex and uses after giving *)
(* it back is still the published one, open, and of the newest connection, up *)
(* to the close: connection_task never replaces it under the sender's feet,   *)
(* and close(s_sock) closes the very socket that failed.                     *)
SendsOnLiveSocket ==
  sndPc \in {"send", "retake", "close"} =>
    /\ sock = s_sock
    /\ sock \in openFds
    /\ connOf[sock] = conns

(* A frame arrives whole only if transport_tcp_send said so, and as long as   *)
(* no connection broke it says so of nothing else: sender_task counts every   *)
(* other frame in drop_tx_fail.                                              *)
ArrivedWhole == {p.n : p \in {q \in UNION {{stream[c][i] : i \in 1..Len(stream[c])} : c \in Conns} : q.part = "whole"}}
NothingBroke == \A c \in 1..conns : alive[c]
AcceptedArriveWhole ==
  /\ ArrivedWhole \subseteq accepted
  /\ NothingBroke => accepted \subseteq ArrivedWhole

(* A frame that send() failed in the middle of is the last thing its          *)
(* connection carries, also where the connection outlives the error: before   *)
(* another frame goes out the socket is closed and a new connection stands.   *)
(* The laptop's framer, new for every connection, has to skip a truncated     *)
(* frame in mid-stream only after a short send().                            *)
TruncatedEndsConnection ==
  \A c \in Conns : \A i \in 1..(Len(stream[c]) - 1) : stream[c][i].part # "broken"

(* What the laptop can rely on: both of the above.                            *)
FramesIntact == AcceptedArriveWhole /\ TruncatedEndsConnection

(* Every call of transport_tcp_send returns ("fails fast"): the sender never  *)
(* waits for ever on the mutex.                                              *)
CallsReturn == (sndPc \notin {"starting", "idle"}) ~> (sndPc = "idle")

=============================================================================
