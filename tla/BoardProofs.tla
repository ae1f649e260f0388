----------------------------- MODULE BoardProofs ------------------------------
(***************************************************************************)
(* Proofs about a receiver board.                                           *)
(*                                                                         *)
(* First the two tasks of TcpUplink alone, for every set of descriptors and    *)
(* every number of frames and drops.  IInv: connection_task is past its poll   *)
(* only while s_connected is false, s_connected stands for a published socket  *)
(* of the newest connection, and the open descriptors are accounted for.      *)
(* Carried: what the connections carry, and what transport_tcp_send said of it. *)
(*                                                                         *)
(* Then the whole board: its transport keeps every promise proved of the       *)
(* transport alone, and its station never stays offline for want of a call of  *)
(* esp_wifi_connect.                                                        *)
(***************************************************************************)
EXTENDS Board, TLAPS

Types ==
  /\ s_sock \in Fds \cup {NoSock} /\ newSock \in Fds \cup {NoSock}
  /\ sock \in Fds \cup {NoSock}
  /\ s_connected \in BOOLEAN
  /\ connPc \in {"poll", "socket", "connect", "take", "setSock", "setConnected", "give"}
  /\ sndPc \in {"starting", "idle", "check", "take", "copy", "send", "retake", "close",
                "clearSock", "clearConnected", "regive"}
  /\ conns \in 0..(MaxDrops + 1)
  /\ openFds \subseteq Fds
  /\ connOf \in [Fds -> Conns]

(* Who holds the mutex. *)
Mutex ==
  /\ mutex = IF ConnHolds THEN "conn" ELSE IF SendHolds THEN "send" ELSE "free"
  /\ ~(ConnHolds /\ SendHolds)

(* Where connection_task is, its new socket is or is not one of its own.     *)
Dialling ==
  /\ connPc \in {"poll", "socket"} => newSock = NoSock
  /\ connPc \notin {"poll", "socket"} => newSock \in Fds
  /\ connPc \in {"socket", "connect", "take", "setSock"} => ~s_connected /\ s_sock = NoSock
  /\ connPc \in {"setConnected", "give"} => s_sock = newSock
  /\ connPc = "setConnected" => ~s_connected
  /\ connPc = "give" => s_connected
  /\ connPc \in {"take", "setSock", "setConnected", "give"} => connOf[newSock] = conns /\ conns # 0

(* Published sockets, and the sender's copy of one. *)
Publishing ==
  /\ s_connected /\ sndPc # "clearConnected" => s_sock # NoSock
  /\ ~s_connected /\ s_sock # NoSock => connPc = "setConnected"
  /\ s_sock # NoSock => connOf[s_sock] = conns /\ conns # 0

Sending ==
  /\ sndPc \in {"take", "copy", "send", "retake", "close", "clearSock", "clearConnected"} => s_connected
  /\ sndPc \in {"send", "retake", "close", "clearSock"} => sock = s_sock /\ s_sock # NoSock
  /\ sndPc = "clearConnected" => s_sock = NoSock

IInv == Types /\ Mutex /\ Dialling /\ Publishing /\ Sending /\ SocketsAccounted

-----------------------------------------------------------------------------
LEMMA InitIInv == Init => IInv
<1> SUFFICES ASSUME Init PROVE IInv
  OBVIOUS
<1> USE DEF Init, ConnHolds, SendHolds
<1>1. 1 \in Conns
  BY BoundsAssumption DEF Conns
<1>2. connOf \in [Fds -> Conns]
  BY <1>1
<1>3. conns \in 0..(MaxDrops + 1)
  <2>1. conns = 0
    OBVIOUS
  <2> HIDE DEF Init
  <2> QED
    BY <2>1, BoundsAssumption
<1>6. Types
  <2>1. /\ s_sock = NoSock /\ newSock = NoSock /\ sock = NoSock /\ openFds = {}
        /\ s_connected = FALSE /\ connPc = "poll" /\ sndPc = "starting"
    OBVIOUS
  <2> HIDE DEF Init
  <2> QED
    BY <2>1, <1>2, <1>3 DEF Types
<1>4. Mutex /\ Dialling /\ Publishing /\ Sending
  BY DEF Mutex, Dialling, Publishing, Sending
<1>5. SocketsAccounted
  BY DEF SocketsAccounted, Published
<1> QED
  BY <1>6, <1>4, <1>5 DEF IInv

(* One step per action. *)
LEMMA StepIInv == IInv /\ [Next]_vars => IInv'
<1> SUFFICES ASSUME IInv, [Next]_vars PROVE IInv'
  OBVIOUS
<1> USE FdsAssumption, BoundsAssumption
<1> USE DEF IInv, Types, Mutex, Dialling, Publishing, Sending, SocketsAccounted, Published,
            ConnHolds, SendHolds, taskVars, netVars
<1>1. CASE ConnPoll
  BY <1>1 DEF ConnPoll
<1>2. ASSUME NEW fd \in Fds, OpenSocket(fd) PROVE IInv'
  BY <1>2 DEF OpenSocket
<1>3. CASE SocketFails
  BY <1>3 DEF SocketFails
<1>4. CASE ConnectFails
  BY <1>4 DEF ConnectFails
<1>5. CASE ConnectSucceeds
  BY <1>5 DEF ConnectSucceeds, Conns
<1>6. CASE ConnTake
  BY <1>6 DEF ConnTake
<1>7. CASE ConnSetSock
  BY <1>7 DEF ConnSetSock
<1>8. CASE ConnSetConnected
  BY <1>8 DEF ConnSetConnected
<1>9. CASE ConnGive
  BY <1>9 DEF ConnGive
<1>10. CASE StartReturns
  BY <1>10 DEF StartReturns
<1>11. CASE SendCall
  BY <1>11 DEF SendCall
<1>12. CASE SendCheck
  BY <1>12 DEF SendCheck, Return
<1>13. CASE SendTake
  BY <1>13 DEF SendTake
<1>14. CASE SendCopy
  BY <1>14 DEF SendCopy, Return
<1>15. CASE SendWhole
  BY <1>15 DEF SendWhole, Return
<1>16. CASE SendIntoVoid
  BY <1>16 DEF SendIntoVoid, Return
<1>17. CASE SendShort
  BY <1>17 DEF SendShort, Return
<1>18. CASE SendError
  BY <1>18 DEF SendError
<1>19. CASE SendRetake
  BY <1>19 DEF SendRetake
<1>20. CASE SendClose
  BY <1>20 DEF SendClose
<1>21. CASE SendClearSock
  BY <1>21 DEF SendClearSock
<1>22. CASE SendClearConnected
  BY <1>22 DEF SendClearConnected
<1>23. CASE SendGive
  BY <1>23 DEF SendGive, Return
<1>24. ASSUME NEW c \in Conns, Break(c) PROVE IInv'
  BY <1>24 DEF Break
<1>25. CASE ServerToggles
  BY <1>25 DEF ServerToggles
<1>26. CASE UNCHANGED vars
  BY <1>26 DEF vars
<1> QED
  BY <1>1, <1>2, <1>3, <1>4, <1>5, <1>6, <1>7, <1>8, <1>9, <1>10, <1>11, <1>12, <1>13, <1>14, <1>15, <1>16, <1>17, <1>18, <1>19, <1>20, <1>21, <1>22, <1>23, <1>24, <1>25, <1>26
     DEF Next, ConnectionTask, SenderTask, SendOutcome, SendCleanup, Network

-----------------------------------------------------------------------------
(* The remaining types: the frames, the connections and what they carry.     *)
FrameType == frame \in 0..(MaxFrames + 1) /\ (sndPc \notin {"starting", "idle"} => frame # 0)
NetTypes ==
  /\ listening \in BOOLEAN
  /\ alive \in [Conns -> BOOLEAN]
  /\ stream \in [Conns -> Seq(Piece)]
AcceptedType == accepted \subseteq 1..MaxFrames

LEMMA InitRest == Init => FrameType /\ NetTypes /\ AcceptedType
<1> SUFFICES ASSUME Init PROVE FrameType /\ NetTypes /\ AcceptedType
  OBVIOUS
<1>1. FrameType
  BY BoundsAssumption DEF Init, FrameType
<1>2. << >> \in Seq(Piece)
  OBVIOUS
<1>3. NetTypes
  BY <1>2 DEF Init, NetTypes
<1>4. AcceptedType
  BY DEF Init, AcceptedType
<1> QED
  BY <1>1, <1>3, <1>4

LEMMA FrameStep == FrameType /\ [Next]_vars => FrameType'
<1> SUFFICES ASSUME FrameType, [Next]_vars PROVE FrameType'
  OBVIOUS
<1>1. CASE SendCall
  BY <1>1, BoundsAssumption DEF SendCall, Followed, FrameType
<1>2. CASE ~SendCall
  BY <1>2 DEF FrameType, Next, ConnectionTask, SenderTask, SendOutcome, SendCleanup, Network, vars,
     taskVars, netVars, Return, ConnPoll, OpenSocket, SocketFails, ConnectFails, ConnectSucceeds,
     ConnTake, ConnSetSock, ConnSetConnected, ConnGive, StartReturns, SendCheck, SendTake, SendCopy,
     SendWhole, SendIntoVoid, SendShort, SendError, SendRetake, SendClose, SendClearSock,
     SendClearConnected, SendGive, Break, ServerToggles
<1> QED
  BY <1>1, <1>2

LEMMA AcceptedStep == FrameType /\ AcceptedType /\ [Next]_vars => AcceptedType'
<1> SUFFICES ASSUME FrameType, AcceptedType, [Next]_vars PROVE AcceptedType'
  OBVIOUS
<1>1. CASE SendWhole \/ SendIntoVoid
  <2>1. Followed => frame \in 1..MaxFrames
    <3>1. sndPc = "send"
      BY <1>1 DEF SendWhole, SendIntoVoid
    <3>2. frame \in 0..(MaxFrames + 1) /\ frame # 0
      BY <3>1 DEF FrameType
    <3> QED
      BY <3>2, BoundsAssumption DEF Followed
  <2>2. accepted' = IF Followed THEN accepted \cup {frame} ELSE accepted
    BY <1>1 DEF SendWhole, SendIntoVoid, Return
  <2> QED
    BY <2>1, <2>2 DEF AcceptedType
<1>2. CASE ~(SendWhole \/ SendIntoVoid)
  <2>1. accepted' = accepted
    BY <1>2 DEF Next, ConnectionTask, SenderTask, SendOutcome, SendCleanup, Network, vars,
     taskVars, netVars, Return, ConnPoll, OpenSocket, SocketFails, ConnectFails, ConnectSucceeds,
     ConnTake, ConnSetSock, ConnSetConnected, ConnGive, StartReturns, SendCall, SendCheck, SendTake,
     SendCopy, SendShort, SendError, SendRetake, SendClose, SendClearSock,
     SendClearConnected, SendGive, Break, ServerToggles
  <2> QED
    BY <2>1 DEF AcceptedType
<1> QED
  BY <1>1, <1>2

(* Appending one piece to the stream of one connection keeps the type.       *)
LEMMA CarryType ==
  ASSUME FrameType, NetTypes, frame # 0, NEW w \in {"whole", "short", "broken"}, Carry(w)
  PROVE  stream' \in [Conns -> Seq(Piece)]
<1>3. stream \in [Conns -> Seq(Piece)]
  BY DEF NetTypes
<1>6. CASE ~Followed
  BY <1>6, <1>3 DEF Carry
<1>7. SUFFICES ASSUME Followed PROVE stream' \in [Conns -> Seq(Piece)]
  BY <1>6
<1>1. [n |-> frame, part |-> w] \in Piece
  <2>1. frame \in 0..(MaxFrames + 1)
    BY DEF FrameType
  <2>3. frame \in 1..MaxFrames
    BY <2>1, <1>7, BoundsAssumption DEF Followed
  <2> QED
    BY <2>3 DEF Piece
<1> DEFINE c == connOf[sock]
<1>2. stream' = [stream EXCEPT ![c] = Append(stream[c], [n |-> frame, part |-> w])]
  BY <1>7 DEF Carry
<1> HIDE DEF c
<1>4. CASE c \in Conns
  <2>1. Append(stream[c], [n |-> frame, part |-> w]) \in Seq(Piece)
    BY <1>1, <1>3, <1>4
  <2> QED
    BY <1>2, <1>3, <1>4, <2>1
<1>5. CASE c \notin Conns
  BY <1>2, <1>3, <1>5
<1> QED
  BY <1>4, <1>5

LEMMA NetStep == FrameType /\ NetTypes /\ [Next]_vars => NetTypes'
<1> SUFFICES ASSUME FrameType, NetTypes, [Next]_vars PROVE NetTypes'
  OBVIOUS
<1>1. CASE SendWhole \/ SendShort \/ SendError
  <2>1. listening' = listening /\ frame # 0
    BY <1>1 DEF SendWhole, SendShort, SendError, FrameType
  <2>2. alive' \in [Conns -> BOOLEAN]
    <3>1. alive' = alive \/ alive' = [alive EXCEPT ![connOf[sock]] = FALSE]
      BY <1>1 DEF SendWhole, SendShort, SendError
    <3> QED
      BY <3>1 DEF NetTypes
  <2>3. stream' = stream \/ Carry("whole") \/ Carry("short") \/ Carry("broken")
    BY <1>1 DEF SendWhole, SendShort, SendError
  <2>4. stream' \in [Conns -> Seq(Piece)]
    BY <2>1, <2>3, CarryType DEF NetTypes
  <2> QED
    BY <2>1, <2>2, <2>4 DEF NetTypes
<1>2. CASE ~(SendWhole \/ SendShort \/ SendError)
  <2>1. stream' = stream /\ listening' \in BOOLEAN
    BY <1>2 DEF NetTypes, Next, ConnectionTask, SenderTask, SendOutcome, SendCleanup, Network, vars,
     taskVars, netVars, Return, ConnPoll, OpenSocket, SocketFails, ConnectFails, ConnectSucceeds,
     ConnTake, ConnSetSock, ConnSetConnected, ConnGive, StartReturns, SendCall, SendCheck, SendTake,
     SendCopy, SendIntoVoid, SendRetake, SendClose, SendClearSock,
     SendClearConnected, SendGive, Break, ServerToggles
  <2>2. alive' \in [Conns -> BOOLEAN]
    BY <1>2 DEF NetTypes, Next, ConnectionTask, SenderTask, SendOutcome, SendCleanup, Network, vars,
     taskVars, netVars, Return, ConnPoll, OpenSocket, SocketFails, ConnectFails, ConnectSucceeds,
     ConnTake, ConnSetSock, ConnSetConnected, ConnGive, StartReturns, SendCall, SendCheck, SendTake,
     SendCopy, SendIntoVoid, SendRetake, SendClose, SendClearSock,
     SendClearConnected, SendGive, Break, ServerToggles
  <2> QED
    BY <2>1, <2>2 DEF NetTypes
<1> QED
  BY <1>1, <1>2

-----------------------------------------------------------------------------
Inv == IInv /\ FrameType /\ NetTypes /\ AcceptedType

LEMMA Invariance == Spec => []Inv
<1>1. Init => Inv
  BY InitIInv, InitRest DEF Inv
<1>2. Inv /\ [Next]_vars => Inv'
  BY StepIInv, FrameStep, AcceptedStep, NetStep DEF Inv
<1> QED
  BY <1>1, <1>2, PTL DEF Spec

(* All variables keep their types, and the mutex is held exactly between a   *)
(* take and its give, by one task at a time.                                *)
THEOREM TypeCorrect == Spec => []TypeOK
<1>1. Inv => TypeOK
  BY DEF Inv, IInv, Types, Mutex, FrameType, NetTypes, AcceptedType, TypeOK
<1> QED
  BY <1>1, Invariance, PTL

(* No descriptor leaks and none is used after its close, whatever connects,  *)
(* fails and breaks.                                                         *)
THEOREM SocketsAccountedCorrect == Spec => []SocketsAccounted
<1>1. Inv => SocketsAccounted
  BY DEF Inv, IInv
<1> QED
  BY <1>1, Invariance, PTL

(* The sender's copy of the socket stays the published, open, newest one     *)
(* while send() and the clean-up run.                                        *)
THEOREM SendsOnLiveSocketCorrect == Spec => []SendsOnLiveSocket
<1>1. Inv => SendsOnLiveSocket
  BY DEF Inv, IInv, Types, Publishing, Sending, SocketsAccounted, Published, SendsOnLiveSocket
<1> QED
  BY <1>1, Invariance, PTL

-----------------------------------------------------------------------------
(* What the connections carry.  A connection not made yet carries nothing;    *)
(* behind a frame that broke off there is nothing, for its connection, dead    *)
(* or not, is abandoned: a newer one stands, the sender is about to close the  *)
(* socket, or none is published yet; and a frame is whole somewhere exactly if  *)
(* it was accepted, unless a connection is dead.                              *)
Fresh == \A c \in Conns : c > conns => stream[c] = <<>>
Abandoned(c) ==
  \/ c < conns
  \/ sndPc \in {"retake", "close", "clearSock"}
  \/ s_sock = NoSock /\ connPc \in {"poll", "socket", "connect"}
BrokenLast ==
  \A c \in Conns : \A i \in 1..Len(stream[c]) :
    stream[c][i].part = "broken" => i = Len(stream[c]) /\ c <= conns /\ Abandoned(c)
WholeAccepted ==
  \A c \in Conns : \A i \in 1..Len(stream[c]) :
    stream[c][i].part = "whole" => stream[c][i].n \in accepted
Arrived(f) ==
  \E c \in Conns : \E i \in 1..Len(stream[c]) : stream[c][i] = [n |-> f, part |-> "whole"]
AcceptedArrived == NothingBroke => \A f \in accepted : Arrived(f)
Carried == Fresh /\ BrokenLast /\ WholeAccepted /\ AcceptedArrived

(* During send() the copied socket is the newest connection's. *)
LEMMA SendingFacts ==
  ASSUME Inv, sndPc = "send"
  PROVE  /\ sock \in openFds /\ connOf[sock] = conns /\ conns \in Conns
         /\ Followed => frame \in 1..MaxFrames
         /\ s_sock # NoSock
<1>1. sock \in openFds /\ connOf[sock] = conns /\ s_sock # NoSock
  BY DEF Inv, IInv, Types, Publishing, Sending, SocketsAccounted, Published
<1>2. conns \in Conns
  BY <1>1 DEF Inv, IInv, Types
<1>3. frame \in 0..(MaxFrames + 1) /\ frame # 0
  BY DEF Inv, FrameType
<1> QED
  BY <1>1, <1>2, <1>3, BoundsAssumption DEF Followed

(* What Carry does to the streams. *)
LEMMA CarryFacts ==
  ASSUME Inv, sndPc = "send", NEW w \in {"whole", "short", "broken"}, Carry(w), Followed
  PROVE  LET last == Len(stream[conns]) + 1 IN
         /\ \A c \in Conns \ {conns} : stream'[c] = stream[c]
         /\ Len(stream[conns]) \in Nat /\ Len(stream'[conns]) = last
         /\ \A i \in 1..Len(stream[conns]) : stream'[conns][i] = stream[conns][i]
         /\ stream'[conns][last] = [n |-> frame, part |-> w]
<1>1. connOf[sock] = conns /\ conns \in Conns /\ frame \in 1..MaxFrames
  BY SendingFacts
<1> DEFINE p == [n |-> frame, part |-> w]
<1>2. p \in Piece
  BY <1>1 DEF Piece
<1>3. stream \in [Conns -> Seq(Piece)] /\ stream[conns] \in Seq(Piece)
  BY <1>1 DEF Inv, NetTypes
<1>4. stream' = [stream EXCEPT ![conns] = Append(stream[conns], p)]
  BY <1>1 DEF Carry
<1> HIDE DEF p
<1>5. stream'[conns] = Append(stream[conns], p) /\ \A c \in Conns \ {conns} : stream'[c] = stream[c]
  BY <1>1, <1>3, <1>4
<1>6. /\ Len(stream[conns]) \in Nat
      /\ Len(Append(stream[conns], p)) = Len(stream[conns]) + 1
      /\ \A i \in 1..Len(stream[conns]) : Append(stream[conns], p)[i] = stream[conns][i]
      /\ Append(stream[conns], p)[Len(stream[conns]) + 1] = p
  BY <1>2, <1>3
<1> QED
  BY <1>5, <1>6 DEF p

(* send() moves a piece onto a connection that is alive until then. *)
LEMMA CarryStep ==
  ASSUME Inv, Carried, sndPc = "send", NEW w \in {"whole", "short", "broken"}, Carry(w), Followed,
         conns' = conns, alive[conns],
         alive' \in {alive, [alive EXCEPT ![conns] = FALSE]},
         w = "broken" => sndPc' = "retake",
         accepted' = IF w = "whole" THEN accepted \cup {frame} ELSE accepted
  PROVE  Carried'
<1> DEFINE last == Len(stream[conns]) + 1
<1>1. /\ \A c \in Conns \ {conns} : stream'[c] = stream[c]
      /\ Len(stream[conns]) \in Nat /\ Len(stream'[conns]) = last
      /\ \A i \in 1..Len(stream[conns]) : stream'[conns][i] = stream[conns][i]
      /\ stream'[conns][last] = [n |-> frame, part |-> w]
  BY CarryFacts
<1>2. conns \in Conns /\ conns \in Nat /\ Conns \subseteq Nat /\ alive \in [Conns -> BOOLEAN]
  BY SendingFacts, BoundsAssumption DEF Conns, Inv, NetTypes
<1>3. \A i \in 1..Len(stream'[conns]) : i \in 1..Len(stream[conns]) \/ i = last
  BY <1>1
<1>4. Fresh'
  BY <1>1, <1>2 DEF Carried, Fresh
<1>5. BrokenLast'
  <2> SUFFICES ASSUME NEW c \in Conns, NEW i \in 1..Len(stream'[c]), stream'[c][i].part = "broken"
               PROVE  i = Len(stream'[c]) /\ c <= conns' /\ Abandoned(c)'
    BY DEF BrokenLast, Conns
  <2>3. s_sock # NoSock
    BY SendingFacts
  <2>1. CASE c # conns
    <3>1. stream'[c] = stream[c]
      BY <1>1, <1>2, <2>1
    <3>2. i = Len(stream[c]) /\ c <= conns
      BY <3>1 DEF Carried, BrokenLast
    <3>3. c < conns
      BY <3>2, <2>1, <1>2
    <3> QED
      BY <3>1, <3>2, <3>3 DEF Abandoned
  <2>2. CASE c = conns
    <3>1. i = last
      <4>1. ASSUME i \in 1..Len(stream[conns]) PROVE FALSE
        <5>1. stream[conns][i].part = "broken"
          BY <4>1, <1>1, <2>2
        <5>2. Abandoned(conns)
          BY <4>1, <5>1, <1>2 DEF Carried, BrokenLast
        <5> QED
          BY <5>2, <2>3, <1>2 DEF Abandoned
      <4> QED
        BY <4>1, <1>3, <2>2
    <3>2. w = "broken"
      BY <1>1, <2>2, <3>1
    <3> QED
      BY <1>1, <1>2, <2>2, <3>1, <3>2 DEF Abandoned
  <2> QED
    BY <2>1, <2>2
<1>6. WholeAccepted'
  <2> SUFFICES ASSUME NEW c \in Conns, NEW i \in 1..Len(stream'[c]), stream'[c][i].part = "whole"
               PROVE  stream'[c][i].n \in accepted'
    BY DEF WholeAccepted, Conns
  <2>1. CASE c # conns
    BY <1>1, <2>1 DEF Carried, WholeAccepted
  <2>2. CASE c = conns /\ i = last
    BY <1>1, <2>2
  <2>3. CASE c = conns /\ i # last
    BY <1>1, <1>3, <2>3 DEF Carried, WholeAccepted
  <2> QED
    BY <2>1, <2>2, <2>3
<1>7. AcceptedArrived'
  <2> SUFFICES ASSUME NothingBroke', NEW f \in accepted' PROVE Arrived(f)'
    BY DEF AcceptedArrived
  <2>1. CASE w = "whole" /\ f = frame
    <3>1. last \in 1..Len(stream'[conns])
      BY <1>1
    <3> QED
      BY <1>1, <1>2, <2>1, <3>1 DEF Arrived, Conns
  <2>2. CASE f \in accepted
    <3>1. NothingBroke
      <4> SUFFICES ASSUME NEW c \in 1..conns PROVE alive[c]
        BY DEF NothingBroke
      <4>5. c \in Conns
        <5>1. conns \in 1..(MaxDrops + 1) /\ MaxDrops \in Nat
          BY <1>2, BoundsAssumption DEF Conns
        <5> QED
          BY <5>1 DEF Conns
      <4>6. \A e \in 1..conns : alive'[e]
        BY DEF NothingBroke
      <4>1. c \in Conns /\ alive'[c]
        BY <4>5, <4>6
      <4>2. alive' = alive \/ alive' = [alive EXCEPT ![conns] = FALSE]
        OBVIOUS
      <4>3. CASE alive' = alive
        BY <4>1, <4>3
      <4>4. CASE alive' = [alive EXCEPT ![conns] = FALSE]
        BY <4>1, <4>4, <1>2
      <4> QED
        BY <4>2, <4>3, <4>4
    <3>2. PICK c \in Conns : \E i \in 1..Len(stream[c]) : stream[c][i] = [n |-> f, part |-> "whole"]
      BY <2>2, <3>1 DEF Carried, AcceptedArrived, Arrived
    <3>9. PICK i \in 1..Len(stream[c]) : stream[c][i] = [n |-> f, part |-> "whole"]
      BY <3>2
    <3>3. i \in 1..Len(stream'[c]) /\ stream'[c][i] = stream[c][i]
      BY <1>1, <3>2
    <3> QED
      BY <3>2, <3>9, <3>3 DEF Arrived, Conns
  <2> QED
    BY <2>1, <2>2
<1> QED
  BY <1>4, <1>5, <1>6, <1>7 DEF Carried

(* An abandoned connection stays abandoned: s_sock is published again only for *)
(* a newer one.                                                              *)
LEMMA AbandonedStep ==
  ASSUME Inv, [Next]_vars, NEW c \in Conns, c <= conns, Abandoned(c)
  PROVE  Abandoned(c)'
<1> USE DEF Abandoned
<1>1. conns \in Nat /\ c \in Nat
  BY BoundsAssumption DEF Inv, IInv, Types, Conns
<1>2. CASE ConnectSucceeds
  BY <1>1, <1>2 DEF ConnectSucceeds
<1>3. CASE ConnTake \/ ConnSetSock
  <2>1. connPc \in {"take", "setSock"} /\ UNCHANGED <<conns, sndPc>>
    BY <1>3 DEF ConnTake, ConnSetSock, netVars
  <2>2. ~s_connected
    BY <2>1 DEF Inv, IInv, Dialling
  <2>3. c < conns
    BY <2>1, <2>2 DEF Inv, IInv, Sending
  <2> QED
    BY <2>1, <2>3
<1>4. CASE SendClearSock
  <2>1. sndPc = "clearSock" /\ s_sock' = NoSock /\ UNCHANGED connPc
    BY <1>4 DEF SendClearSock
  <2>2. connPc = "poll"
    BY <2>1 DEF Inv, IInv, Types, Mutex, Dialling, Sending, ConnHolds, SendHolds
  <2> QED
    BY <2>1, <2>2
<1>5. CASE ConnPoll \/ (\E fd \in Fds : OpenSocket(fd)) \/ SocketFails \/ ConnectFails
           \/ ConnSetConnected \/ ConnGive
  BY <1>5 DEF ConnPoll, OpenSocket, SocketFails, ConnectFails, ConnSetConnected, ConnGive, netVars,
     Inv, IInv, Types, Dialling, FdsAssumption
<1>6. CASE StartReturns \/ SendCall \/ SendCheck \/ SendTake \/ SendCopy \/ SendOutcome
           \/ SendRetake \/ SendClose \/ SendClearConnected \/ SendGive
  BY <1>6 DEF StartReturns, SendCall, SendCheck, SendTake, SendCopy, SendOutcome, SendWhole, SendShort,
     SendIntoVoid, SendError, SendRetake, SendClose, SendClearConnected, SendGive, Return, netVars
<1>7. CASE Network \/ UNCHANGED vars
  BY <1>7 DEF Network, Break, ServerToggles, taskVars, netVars, vars
<1> QED
  BY <1>2, <1>3, <1>4, <1>5, <1>6, <1>7 DEF Next, ConnectionTask, SenderTask, SendCleanup

LEMMA CarriedStep == Inv /\ Carried /\ [Next]_vars => Carried'
<1> SUFFICES ASSUME Inv, Carried, [Next]_vars PROVE Carried'
  OBVIOUS
<1> USE DEF Carried
<1>1. conns \in Nat /\ Conns \subseteq Nat /\ alive \in [Conns -> BOOLEAN]
  BY BoundsAssumption DEF Inv, IInv, Types, NetTypes, Conns
<1>10. ASSUME stream' = stream, conns' \in {conns, conns + 1} PROVE BrokenLast'
  <2> SUFFICES ASSUME NEW c \in Conns, NEW i \in 1..Len(stream[c]), stream[c][i].part = "broken"
               PROVE  i = Len(stream[c]) /\ c <= conns' /\ Abandoned(c)'
    BY <1>10 DEF BrokenLast, Conns
  <2>1. i = Len(stream[c]) /\ c <= conns /\ Abandoned(c)
    BY DEF BrokenLast
  <2>2. Abandoned(c)'
    BY <2>1, AbandonedStep
  <2> QED
    BY <2>1, <2>2, <1>10, <1>1
<1>2. CASE UNCHANGED <<stream, alive, conns, accepted>>
  BY <1>2, <1>10 DEF Fresh, WholeAccepted, AcceptedArrived, Arrived, NothingBroke, Conns
(* A connection breaks, and nothing else. *)
<1>11. ASSUME UNCHANGED <<stream, conns, accepted>>, NEW d \in Conns, alive' = [alive EXCEPT ![d] = FALSE]
       PROVE  Carried'
  <2>1. NothingBroke' => NothingBroke
    BY <1>1, <1>11 DEF NothingBroke
  <2>2. \A f : Arrived(f)' = Arrived(f)
    BY <1>11 DEF Arrived, Conns
  <2> QED
    BY <1>10, <1>11, <2>1, <2>2 DEF Fresh, WholeAccepted, AcceptedArrived, Conns
<1>3. CASE ConnectSucceeds
  <2>1. /\ UNCHANGED <<stream, accepted>> /\ conns' = conns + 1 /\ conns + 1 \in Conns
        /\ alive' = [alive EXCEPT ![conns + 1] = TRUE]
    BY <1>3 DEF ConnectSucceeds
  <2>2. ASSUME NEW c \in Conns, c <= conns PROVE alive'[c] = alive[c]
    <3>1. c # conns + 1
      BY <1>1, <2>2
    <3> QED
      BY <1>1, <2>1, <3>1
  <2>3. Fresh'
    BY <1>1, <2>1 DEF Fresh, Conns
  <2>4. BrokenLast'
    BY <2>1, <1>10
  <2>5. WholeAccepted'
    BY <2>1 DEF WholeAccepted, Conns
  <2>6. AcceptedArrived'
    <3>1. NothingBroke' => NothingBroke
      <4> SUFFICES ASSUME NothingBroke', NEW c \in 1..conns PROVE alive[c]
        BY DEF NothingBroke
      <4>1. c \in 1..(conns + 1) /\ c <= conns /\ c \in Conns
        BY <1>1, <2>1, BoundsAssumption DEF Conns
      <4> QED
        BY <2>1, <2>2, <4>1 DEF NothingBroke
    <3>2. \A f : Arrived(f)' = Arrived(f)
      BY <2>1 DEF Arrived, Conns
    <3> QED
      BY <2>1, <3>1, <3>2 DEF AcceptedArrived
  <2> QED
    BY <2>3, <2>4, <2>5, <2>6
<1>4. CASE SendWhole
  <2>1. /\ sndPc = "send" /\ alive[connOf[sock]] /\ Carry("whole")
        /\ conns' = conns /\ alive' = alive
        /\ accepted' = IF Followed THEN accepted \cup {frame} ELSE accepted
    BY <1>4 DEF SendWhole, SockAlive, Return
  <2>2. CASE Followed
    BY <2>1, <2>2, SendingFacts, CarryStep
  <2>3. CASE ~Followed
    BY <2>1, <2>3, <1>2 DEF Carry
  <2> QED
    BY <2>2, <2>3
<1>5. CASE SendShort
  <2>1. /\ sndPc = "send" /\ alive[connOf[sock]] /\ Carry("short")
        /\ conns' = conns /\ alive' = alive /\ accepted' = accepted
    BY <1>5 DEF SendShort, SockAlive, Return
  <2>2. CASE Followed
    BY <2>1, <2>2, SendingFacts, CarryStep
  <2>3. CASE ~Followed
    BY <2>1, <2>3, <1>2 DEF Carry
  <2> QED
    BY <2>2, <2>3
<1>6. CASE SendError /\ ~UNCHANGED <<stream, alive>>
  <2>1. /\ sndPc = "send" /\ alive[connOf[sock]] /\ Carry("broken") /\ sndPc' = "retake"
        /\ conns' = conns /\ accepted' = accepted
        /\ alive' \in {alive, [alive EXCEPT ![connOf[sock]] = FALSE]}
    BY <1>6 DEF SendError, SockAlive
  <2>2. connOf[sock] = conns /\ conns \in Conns
    BY <2>1, SendingFacts
  <2>3. CASE Followed
    BY <2>1, <2>2, <2>3, CarryStep
  <2>4. CASE ~Followed
    <3>1. stream' = stream /\ alive' = [alive EXCEPT ![conns] = FALSE]
      BY <2>1, <2>2, <2>4, <1>6 DEF Carry
    <3> QED
      BY <2>1, <2>2, <3>1, <1>11
  <2> QED
    BY <2>3, <2>4
<1>7. CASE SendIntoVoid
  <2>1. /\ UNCHANGED <<stream, alive, conns>> /\ accepted \subseteq accepted'
        /\ sndPc = "send" /\ ~alive[connOf[sock]]
    BY <1>7 DEF SendIntoVoid, Return, netVars
  <2>2. conns \in 1..conns /\ ~alive[conns]
    BY <2>1, SendingFacts, BoundsAssumption DEF Conns
  <2>3. ~NothingBroke'
    BY <2>1, <2>2 DEF NothingBroke
  <2> QED
    BY <2>1, <2>3, <1>10 DEF Fresh, WholeAccepted, AcceptedArrived, Conns
<1>8. ASSUME NEW d \in Conns, Break(d) PROVE Carried'
  BY <1>8, <1>11 DEF Break, taskVars
<1>9. \/ UNCHANGED <<stream, alive, conns, accepted>>
      \/ ConnectSucceeds \/ SendWhole \/ SendShort \/ SendIntoVoid
      \/ SendError /\ ~UNCHANGED <<stream, alive>>
      \/ \E d \in Conns : Break(d)
  <2>1. CASE ConnectionTask
    BY <2>1 DEF ConnectionTask, netVars, ConnPoll, OpenSocket, SocketFails, ConnectFails, ConnTake,
                ConnSetSock, ConnSetConnected, ConnGive
  <2>2. CASE StartReturns \/ SendCall \/ SendCheck \/ SendTake \/ SendCopy
    BY <2>2 DEF netVars, StartReturns, SendCall, SendCheck, SendTake, SendCopy, Return
  <2>3. CASE SendOutcome
    BY <2>3 DEF SendOutcome, SendError
  <2>4. CASE SendCleanup
    BY <2>4 DEF SendCleanup, netVars, SendRetake, SendClose, SendClearSock, SendClearConnected,
                SendGive, Return
  <2>5. CASE Network \/ UNCHANGED vars
    BY <2>5 DEF Network, ServerToggles, taskVars, vars, netVars
  <2> QED
    BY <2>1, <2>2, <2>3, <2>4, <2>5 DEF Next, SenderTask
<1> QED
  BY <1>2, <1>3, <1>4, <1>5, <1>6, <1>7, <1>8, <1>9

LEMMA CarriedInvariance == Spec => [](Inv /\ Carried)
<1>1. Init => Carried
  <2> SUFFICES ASSUME Init PROVE Carried
    OBVIOUS
  <2>1. \A c \in Conns : stream[c] = <<>> /\ Len(stream[c]) = 0
    BY DEF Init
  <2>2. accepted = {} /\ conns = 0
    BY DEF Init
  <2> QED
    BY <2>1, <2>2 DEF Carried, Fresh, BrokenLast, WholeAccepted, AcceptedArrived
<1> QED
  BY <1>1, CarriedStep, Invariance, PTL DEF Spec

(* transport_tcp_send: a frame arrives whole only if it said so, and as long  *)
(* as no connection broke every frame it said so of arrives whole.           *)
THEOREM AcceptedArriveWholeCorrect == Spec => []AcceptedArriveWhole
<1>1. Inv /\ Carried => AcceptedArriveWhole
  <2> SUFFICES ASSUME Inv, Carried PROVE AcceptedArriveWhole
    OBVIOUS
  <2> DEFINE Pieces(c) == {stream[c][i] : i \in 1..Len(stream[c])}
             AllPieces == UNION {Pieces(c) : c \in Conns}
  <2>1. ArrivedWhole = {p.n : p \in {q \in AllPieces : q.part = "whole"}}
    BY DEF ArrivedWhole
  <2>2. \A q \in AllPieces : \E c \in Conns : \E i \in 1..Len(stream[c]) : q = stream[c][i]
    OBVIOUS
  <2>3. \A q \in AllPieces : q.part = "whole" => q.n \in accepted
    BY <2>2 DEF Carried, WholeAccepted
  <2>4. ArrivedWhole \subseteq accepted
    <3> HIDE DEF AllPieces
    <3> QED
      BY <2>1, <2>3
  <2>5. ASSUME NothingBroke, NEW f \in accepted PROVE f \in ArrivedWhole
    <3>1. Arrived(f)
      BY <2>5 DEF Carried, AcceptedArrived
    <3>2. [n |-> f, part |-> "whole"] \in AllPieces
      BY <3>1 DEF Arrived
    <3> HIDE DEF AllPieces
    <3> QED
      BY <2>1, <3>2
  <2> QED
    BY <2>4, <2>5 DEF AcceptedArriveWhole
<1> QED
  BY <1>1, CarriedInvariance, PTL

(* transport_tcp_send: a frame that send() failed in the middle of is the     *)
(* last thing its connection carries.                                        *)
THEOREM TruncatedEndsConnectionCorrect == Spec => []TruncatedEndsConnection
<1>1. Inv /\ Carried => TruncatedEndsConnection
  <2> SUFFICES ASSUME Inv, Carried, NEW c \in Conns, NEW i \in 1..(Len(stream[c]) - 1),
                      stream[c][i].part = "broken"
               PROVE  FALSE
    BY DEF TruncatedEndsConnection
  <2>1. Len(stream[c]) \in Nat
    BY DEF Inv, NetTypes
  <2>2. i \in 1..Len(stream[c]) /\ i # Len(stream[c])
    BY <2>1
  <2> QED
    BY <2>2 DEF Carried, BrokenLast
<1> QED
  BY <1>1, CarriedInvariance, PTL

(* transport_tcp_send: both together, what the laptop can rely on.            *)
THEOREM FramesIntactCorrect == Spec => []FramesIntact
BY AcceptedArriveWholeCorrect, TruncatedEndsConnectionCorrect, PTL DEF FramesIntact

-----------------------------------------------------------------------------
(* The whole board. *)

LEMMA UplinkStepIsUplink == [BoardNext]_boardVars => [Next]_vars
<1> SUFFICES ASSUME [BoardNext]_boardVars PROVE [Next]_vars
  OBVIOUS
<1>1. CASE StationReady
  BY <1>1 DEF StationReady
<1>2. CASE StationStep
  BY <1>2 DEF StationStep
<1>3. CASE UplinkStep
  BY <1>3 DEF UplinkStep, OnceJoined, Next
<1>4. CASE UNCHANGED boardVars
  BY <1>4 DEF boardVars
<1> QED
  BY <1>1, <1>2, <1>3, <1>4 DEF BoardNext

(* Behind app_main's order and a link that comes and goes, the transport       *)
(* behaves as transport_tcp.c does alone.                                     *)
THEOREM BoardImplementsUplink == BoardSpec => Spec
<1>1. BoardInit => Init
  BY DEF BoardInit
<1> QED
  BY <1>1, UplinkStepIsUplink, PTL DEF BoardSpec, Spec

(* What is proved above of transport_tcp.c, on the whole board.               *)
THEOREM BoardSocketsAccounted == BoardSpec => []SocketsAccounted
BY BoardImplementsUplink, SocketsAccountedCorrect, PTL

(* The same for the socket that the sender uses without the mutex.             *)
THEOREM BoardSendsOnLiveSocket == BoardSpec => []SendsOnLiveSocket
BY BoardImplementsUplink, SendsOnLiveSocketCorrect, PTL

(* The same for the frames that arrive.                                       *)
THEOREM BoardFramesIntact == BoardSpec => []FramesIntact
BY BoardImplementsUplink, FramesIntactCorrect, PTL

-----------------------------------------------------------------------------
(* The station.  Every event that is posted or handled changes the queue at    *)
(* one end; what the lemmas say of Dials is all the proof needs of it.         *)
StaInv == Sta!TypeOK /\ OneDialDue

LEMMA EventTypes ==
  /\ \A kind \in {"START", "CONNECTED", "DISCONNECTED", "GOT_IP"} : Sta!Event(kind) \in Sta!Events
  /\ \A a \in Aps : [kind |-> "CONNECTED", ap |-> a] \in Sta!Events
BY DEF Sta!Event, Sta!Events

(* The first event is handled: one dial less if it was one.                   *)
LEMMA DialsAfterTail ==
  ASSUME Sta!TypeOK, events # <<>>, events' = Tail(events)
  PROVE  /\ events' \in Seq(Sta!Events)
         /\ 1 \in Sta!Dials <=> Head(events).kind \in {"START", "DISCONNECTED"}
         /\ \A i \in Sta!Dials' : i + 1 \in Sta!Dials /\ i # 0
         /\ \A i \in Sta!Dials : i # 1 => i - 1 \in Sta!Dials'
         /\ Sta!Dials \subseteq Nat \ {0} /\ Sta!Dials' \subseteq Nat \ {0}
BY DEF Sta!Dials, Sta!TypeOK

(* An event that is no dial is posted.                                        *)
LEMMA DialsAfterPost ==
  ASSUME Sta!TypeOK, NEW e \in Sta!Events, events' = Append(events, e),
         e.kind \notin {"START", "DISCONNECTED"}
  PROVE  events' \in Seq(Sta!Events) /\ Sta!Dials' = Sta!Dials
BY DEF Sta!Dials, Sta!TypeOK

(* A loss is posted to a queue without dials.                                 *)
LEMMA DialsAfterLoss ==
  ASSUME Sta!TypeOK, NEW e \in Sta!Events, events' = Append(events, e),
         e.kind = "DISCONNECTED", Sta!Dials = {}
  PROVE  events' \in Seq(Sta!Events) /\ Sta!Dials' = {Len(events) + 1}
BY DEF Sta!Dials, Sta!TypeOK

LEMMA DialsAfterLateLoss ==
  ASSUME Sta!TypeOK, NEW e \in Sta!Events, NEW g \in Sta!Events, events' = events \o <<e, g>>,
         e.kind = "DISCONNECTED", g.kind = "GOT_IP", Sta!Dials = {}
  PROVE  events' \in Seq(Sta!Events) /\ Sta!Dials' = {Len(events) + 1}
BY DEF Sta!Dials, Sta!TypeOK

(* The cases of OneDialDue. *)
LEMMA DialDueCases ==
  OneDialDue <=>
    /\ link = "idle" /\ ~sleeping => \E i \in Sta!Dials : Sta!Dials = {i}
    /\ ~(link = "idle" /\ ~sleeping) => Sta!Dials = {}
    /\ sleeping => link = "idle"
BY DEF OneDialDue, Sta!OneDialDue

LEMMA StaInit == Sta!Init => StaInv
<1> SUFFICES ASSUME Sta!Init PROVE StaInv
  OBVIOUS
<1>1. Sta!Event("START") \in Sta!Events /\ Sta!Event("START").kind = "START"
  BY DEF Sta!Event, Sta!Events
<1>2. events = <<Sta!Event("START")>> /\ sleeping = FALSE /\ link = "idle"
  BY DEF Sta!Init
<1>3. Sta!Dials = {1}
  BY <1>1, <1>2 DEF Sta!Dials
<1>4. Sta!TypeOK
  <2>1. events \in Seq(Sta!Events)
    BY <1>1, <1>2
  <2>3. /\ s_bssid = NoAp /\ assoc = NoAp /\ ap \in Aps
        /\ bit = FALSE /\ dhcp = FALSE
    BY DEF Sta!Init
  <2> QED
    BY <1>2, <2>1, <2>3 DEF Sta!TypeOK
<1>5. OneDialDue
  BY <1>2, <1>3 DEF OneDialDue, Sta!OneDialDue
<1> QED
  BY <1>4, <1>5 DEF StaInv

(* Handling an event: a dial is handled only when it is the one that is due.   *)
LEMMA HandlingStep ==
  ASSUME StaInv, NEW kind, Sta!Handling(kind)
  PROVE  /\ events' \in Seq(Sta!Events)
         /\ kind \in {"START", "DISCONNECTED"} => link = "idle" /\ Sta!Dials' = {}
         /\ kind \notin {"START", "DISCONNECTED"} =>
              /\ Sta!Dials = {} => Sta!Dials' = {}
              /\ \A i \in Sta!Dials : Sta!Dials = {i} => i - 1 \in Sta!Dials' /\ Sta!Dials' = {i - 1}
<1>1. ~sleeping /\ events # <<>> /\ Head(events).kind = kind /\ events' = Tail(events)
  BY DEF Sta!Handling
<1>2. /\ events' \in Seq(Sta!Events)
      /\ 1 \in Sta!Dials <=> kind \in {"START", "DISCONNECTED"}
      /\ \A i \in Sta!Dials' : i + 1 \in Sta!Dials /\ i # 0
      /\ \A i \in Sta!Dials : i # 1 => i - 1 \in Sta!Dials'
      /\ Sta!Dials \subseteq Nat \ {0} /\ Sta!Dials' \subseteq Nat \ {0}
  BY <1>1, DialsAfterTail DEF StaInv
<1>3. ASSUME kind \in {"START", "DISCONNECTED"} PROVE link = "idle" /\ Sta!Dials' = {}
  <2>1. 1 \in Sta!Dials
    BY <1>2, <1>3
  <2>2. link = "idle" /\ Sta!Dials = {1}
    BY <2>1, <1>1, DialDueCases DEF StaInv
  <2> QED
    BY <2>2, <1>2
<1>4. ASSUME kind \notin {"START", "DISCONNECTED"}, NEW i \in Sta!Dials, Sta!Dials = {i}
      PROVE  i - 1 \in Sta!Dials' /\ Sta!Dials' = {i - 1}
  <2>1. i # 1
    BY <1>2, <1>4
  <2>2. i - 1 \in Sta!Dials'
    BY <2>1, <1>2
  <2>3. \A j \in Sta!Dials' : j = i - 1
    BY <1>2, <1>4
  <2> QED
    BY <2>2, <2>3
<1> QED
  BY <1>2, <1>3, <1>4

LEMMA StaStep == StaInv /\ [Sta!Next]_staVars => StaInv'
<1> SUFFICES ASSUME StaInv, [Sta!Next]_staVars PROVE StaInv'
  OBVIOUS
<1>a. Sta!TypeOK /\ OneDialDue
  BY DEF StaInv
<1>b. ASSUME Sta!TypeOK', Sta!Dials' = {}, sleeping' => link' = "idle", ~(link' = "idle" /\ ~sleeping')
      PROVE  StaInv'
  BY <1>b DEF StaInv, OneDialDue, Sta!OneDialDue
<1>c. ASSUME Sta!TypeOK', NEW i, Sta!Dials' = {i}, link' = "idle", ~sleeping'
      PROVE  StaInv'
  BY <1>c DEF StaInv, OneDialDue, Sta!OneDialDue
(* Neither OnConnected nor OnGotIp handles a dial or moves the link. *)
<1>d. ASSUME NEW kind, Sta!Handling(kind), kind \notin {"START", "DISCONNECTED"},
             UNCHANGED <<link, sleeping>>, Sta!TypeOK'
      PROVE  StaInv'
  <2>1. ~sleeping
    BY <1>d DEF Sta!Handling
  <2>2. CASE link = "idle"
    <3>1. PICK i \in Sta!Dials : Sta!Dials = {i}
      BY <2>1, <2>2, <1>a, DialDueCases
    <3>2. Sta!Dials' = {i - 1}
      BY <3>1, <1>d, HandlingStep
    <3> QED
      BY <3>2, <2>1, <2>2, <1>c, <1>d
  <2>3. CASE link # "idle"
    <3>1. Sta!Dials' = {}
      BY <2>3, <1>d, <1>a, HandlingStep, DialDueCases
    <3> QED
      BY <3>1, <2>1, <2>3, <1>b, <1>d
  <2> QED
    BY <2>2, <2>3
(* The driver that fails or loses its link has no dial due. *)
<1>e. ASSUME link # "idle" PROVE ~sleeping /\ Sta!Dials = {}
  BY <1>a, <1>e, DialDueCases
<1>1. CASE Sta!OnStart
  <2>1. Sta!Handling("START") /\ Sta!Connect /\ sleeping' = sleeping
    BY <1>1 DEF Sta!OnStart
  <2>2. events' \in Seq(Sta!Events) /\ link = "idle" /\ Sta!Dials' = {} /\ ~sleeping
    BY <2>1, HandlingStep DEF Sta!Handling
  <2>3. link' = "connecting" /\ ~sleeping'
    BY <2>1, <2>2 DEF Sta!Connect
  <2>4. Sta!TypeOK'
    BY <2>1, <2>2, <1>1, <1>a DEF Sta!TypeOK, Sta!OnStart, Sta!Connect
  <2> QED
    BY <2>2, <2>3, <2>4, <1>b
<1>2. CASE Sta!OnConnected
  <2>1. Sta!Handling("CONNECTED") /\ UNCHANGED <<link, sleeping>>
    BY <1>2 DEF Sta!OnConnected
  <2>2. Head(events) \in Sta!Events
    BY <2>1, <1>a DEF Sta!Handling, Sta!TypeOK
  <2>3. events' \in Seq(Sta!Events) /\ s_bssid' \in Aps \cup {NoAp}
    BY <2>1, <2>2, <1>2, HandlingStep DEF Sta!OnConnected, Sta!Events
  <2>4. Sta!TypeOK'
    BY <2>1, <2>3, <1>2, <1>a DEF Sta!TypeOK, Sta!OnConnected
  <2> QED
    BY <2>1, <2>4, <1>d
<1>3. CASE Sta!OnDisconnected
  <2>1. Sta!Handling("DISCONNECTED") /\ sleeping' = TRUE /\ link' = link
    BY <1>3 DEF Sta!OnDisconnected
  <2>2. events' \in Seq(Sta!Events) /\ link = "idle" /\ Sta!Dials' = {}
    BY <2>1, HandlingStep
  <2>3. Sta!TypeOK'
    BY <2>1, <2>2, <1>3, <1>a DEF Sta!TypeOK, Sta!OnDisconnected
  <2> QED
    BY <2>1, <2>2, <2>3, <1>b
<1>4. CASE Sta!Retry
  <2>1. sleeping /\ sleeping' = FALSE /\ Sta!Connect /\ events' = events
    BY <1>4 DEF Sta!Retry
  <2>2. link = "idle" /\ Sta!Dials = {}
    BY <2>1, <1>a, DialDueCases
  <2>3. Sta!Dials' = {}
    BY <2>1, <2>2 DEF Sta!Dials
  <2>4. Sta!TypeOK'
    BY <2>1, <1>4, <1>a DEF Sta!TypeOK, Sta!Retry, Sta!Connect
  <2>5. link' = "connecting" /\ ~sleeping'
    BY <2>1, <2>2 DEF Sta!Connect
  <2> QED
    BY <2>3, <2>4, <2>5, <1>b
<1>5. CASE Sta!OnGotIp
  <2>1. Sta!Handling("GOT_IP") /\ UNCHANGED <<link, sleeping>>
    BY <1>5 DEF Sta!OnGotIp
  <2>2. events' \in Seq(Sta!Events)
    BY <2>1, HandlingStep
  <2>3. Sta!TypeOK'
    BY <2>1, <2>2, <1>5, <1>a DEF Sta!TypeOK, Sta!OnGotIp
  <2> QED
    BY <2>1, <2>3, <1>d
<1>6. CASE Sta!Associates
  <2>1. /\ link # "idle" /\ link' = "associated" /\ sleeping' = sleeping /\ ap' = ap /\ ap # NoAp
        /\ events' = Append(events, [kind |-> "CONNECTED", ap |-> ap])
    BY <1>6 DEF Sta!Associates
  <2>2. [kind |-> "CONNECTED", ap |-> ap] \in Sta!Events
    BY <2>1, <1>a, EventTypes DEF Sta!TypeOK
  <2>3. events' \in Seq(Sta!Events) /\ Sta!Dials' = Sta!Dials
    BY <2>1, <2>2, <1>a, DialsAfterPost
  <2>4. Sta!TypeOK'
    BY <2>1, <2>3, <1>a, <1>6 DEF Sta!TypeOK, Sta!Associates
  <2> QED
    BY <2>1, <2>3, <2>4, <1>b, <1>e
<1>7. CASE Sta!FailsToAssociate
  <2>1. /\ link # "idle" /\ link' = "idle" /\ sleeping' = sleeping /\ ap' = ap
        /\ events' = Append(events, Sta!Event("DISCONNECTED"))
    BY <1>7 DEF Sta!FailsToAssociate
  <2>2. Sta!Event("DISCONNECTED") \in Sta!Events /\ Sta!Event("DISCONNECTED").kind = "DISCONNECTED"
    BY EventTypes DEF Sta!Event
  <2>3. events' \in Seq(Sta!Events) /\ Sta!Dials' = {Len(events) + 1}
    BY <2>1, <2>2, <1>a, <1>e, DialsAfterLoss
  <2>4. Sta!TypeOK'
    BY <2>1, <2>3, <1>a, <1>7 DEF Sta!TypeOK, Sta!FailsToAssociate
  <2> QED
    BY <2>1, <2>3, <2>4, <1>c, <1>e
<1>8. CASE Sta!LeaseArrives
  <2>1. /\ link # "idle" /\ link' = "ip" /\ sleeping' = sleeping /\ ap' = ap
        /\ events' = Append(events, Sta!Event("GOT_IP"))
    BY <1>8 DEF Sta!LeaseArrives
  <2>2. Sta!Event("GOT_IP") \in Sta!Events /\ Sta!Event("GOT_IP").kind = "GOT_IP"
    BY EventTypes DEF Sta!Event
  <2>3. events' \in Seq(Sta!Events) /\ Sta!Dials' = Sta!Dials
    BY <2>1, <2>2, <1>a, DialsAfterPost
  <2>4. Sta!TypeOK'
    BY <2>1, <2>3, <1>a, <1>8 DEF Sta!TypeOK, Sta!LeaseArrives
  <2> QED
    BY <2>1, <2>3, <2>4, <1>b, <1>e
<1>9. CASE Sta!LosesLink
  <2>1. link # "idle" /\ link' = "idle" /\ sleeping' = sleeping /\ ap' = ap
    BY <1>9 DEF Sta!LosesLink
  <2>2. /\ Sta!Event("DISCONNECTED") \in Sta!Events /\ Sta!Event("GOT_IP") \in Sta!Events
        /\ Sta!Event("DISCONNECTED").kind = "DISCONNECTED" /\ Sta!Event("GOT_IP").kind = "GOT_IP"
    BY EventTypes DEF Sta!Event
  <2>3. \/ events' = Append(events, Sta!Event("DISCONNECTED"))
        \/ events' = events \o <<Sta!Event("DISCONNECTED"), Sta!Event("GOT_IP")>>
    BY <1>9 DEF Sta!LosesLink
  <2>4. events' \in Seq(Sta!Events) /\ Sta!Dials' = {Len(events) + 1}
    BY <2>1, <2>2, <2>3, <1>a, <1>e, DialsAfterLoss, DialsAfterLateLoss
  <2>6. assoc' = NoAp /\ dhcp' = FALSE /\ UNCHANGED <<bit, s_bssid>>
    BY <1>9 DEF Sta!LosesLink
  <2>7. Sta!TypeOK'
    BY <2>1, <2>4, <2>6, <1>a DEF Sta!TypeOK
  <2> QED
    BY <2>1, <2>4, <2>7, <1>c, <1>e
(* The hotspot's own steps, and steps of the transport, leave the queue alone. *)
<1>10. ASSUME UNCHANGED <<events, sleeping, link>>, Sta!TypeOK' PROVE StaInv'
  BY <1>10, <1>a DEF StaInv, OneDialDue, Sta!OneDialDue, Sta!Dials
<1>11. CASE Sta!HotspotChanges
  <2>1. Sta!TypeOK' /\ UNCHANGED <<events, sleeping, link>>
    BY <1>11, <1>a DEF Sta!HotspotChanges, Sta!TypeOK
  <2> QED
    BY <2>1, <1>10
<1>12. CASE UNCHANGED staVars
  <2>1. Sta!TypeOK' /\ UNCHANGED <<events, sleeping, link>>
    BY <1>12, <1>a DEF staVars, Sta!TypeOK
  <2> QED
    BY <2>1, <1>10
<1> QED
  BY <1>1, <1>2, <1>3, <1>4, <1>5, <1>6, <1>7, <1>8, <1>9, <1>11, <1>12
     DEF Sta!Next, Sta!Handler, Sta!Driver

LEMMA BoardStepIsStation == [BoardNext]_boardVars => [Sta!Next]_staVars
<1> SUFFICES ASSUME [BoardNext]_boardVars PROVE [Sta!Next]_staVars
  OBVIOUS
<1>1. CASE StationReady
  BY <1>1 DEF StationReady
<1>2. CASE StationStep
  BY <1>2 DEF StationStep
<1>3. CASE UplinkStep
  BY <1>3 DEF UplinkStep, OnceJoined
<1>4. CASE UNCHANGED boardVars
  BY <1>4 DEF boardVars
<1> QED
  BY <1>1, <1>2, <1>3, <1>4 DEF BoardNext

(* event_handler: exactly one esp_wifi_connect is due while the driver is      *)
(* idle and none while it is busy, for any hotspots and any number of losses.   *)
THEOREM OneDialDueCorrect == BoardSpec => []OneDialDue
<1>1. BoardInit => StaInv
  BY StaInit DEF BoardInit
<1>2. StaInv => OneDialDue
  BY DEF StaInv
<1> QED
  BY <1>1, <1>2, StaStep, BoardStepIsStation, PTL DEF BoardSpec

(* wifi_sta.c: every variable of the station keeps its type.                  *)
THEOREM StationTypeCorrect == BoardSpec => []Sta!TypeOK
<1>1. BoardInit => StaInv
  BY StaInit DEF BoardInit
<1>2. StaInv => Sta!TypeOK
  BY DEF StaInv
<1> QED
  BY <1>1, <1>2, StaStep, BoardStepIsStation, PTL DEF BoardSpec
===============================================================================
