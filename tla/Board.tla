-------------------------------- MODULE Board ---------------------------------
(***************************************************************************)
(* A receiver board on the network, in the order of firmware/main/          *)
(* app_main.c: wifi_sta_init_and_connect returns when the station has its    *)
(* first address, transport_tcp_start when the first TCP connection stands,  *)
(* then capture and its sender task run.  Station (WifiSta) and transport    *)
(* (TcpUplink) know nothing of each other afterwards: a lost link shows to    *)
(* the transport only as connects and sends that fail.                       *)
(***************************************************************************)
EXTENDS TcpUplink

CONSTANTS Aps, NoAp      \* see WifiSta

ASSUME ApsAssumption == Aps # {} /\ NoAp \notin Aps

VARIABLES
  events, sleeping, bit, s_bssid, link, assoc, dhcp, ap,
  joined        \* wifi_sta_init_and_connect has returned

Sta == INSTANCE WifiSta
staVars == <<events, sleeping, bit, s_bssid, link, assoc, dhcp, ap>>
boardVars == <<vars, staVars, joined>>

BoardInit == Init /\ Sta!Init /\ joined = FALSE

StationReady ==
  /\ ~joined /\ bit /\ joined' = TRUE
  /\ UNCHANGED <<vars, staVars>>

StationStep == Sta!Next /\ UNCHANGED <<vars, joined>>

(* connection_task and sender_task exist once app_main has got that far; a    *)
(* connect succeeds only over a link that has an address.                     *)
OnceJoined(A) == joined /\ A /\ (conns' # conns => link = "ip") /\ UNCHANGED <<staVars, joined>>
UplinkStep ==
  \/ OnceJoined(ConnectionTask) \/ OnceJoined(SenderTask)
  \/ Network /\ UNCHANGED <<staVars, joined>>

BoardNext == StationReady \/ StationStep \/ UplinkStep

(* Every task is scheduled (the mutex needs nothing more: it never changes     *)
(* hands for ever while a task waits), and a socket() or connect() that could    *)
(* succeed again and again does so in the end.  The driver ends every attempt    *)
(* and every wait for an address.  Frames sent again and again on a dead        *)
(* connection fill lwIP's buffer, and send() fails in the end.                  *)
BoardFairness ==
  /\ WF_boardVars(StationReady)
  /\ WF_boardVars(StationStep /\ Sta!Handler) /\ WF_boardVars(StationStep /\ Sta!Driver)
  /\ WF_boardVars(OnceJoined(ConnectionTask))
  /\ SF_boardVars(OnceJoined(\E fd \in Fds : OpenSocket(fd))) /\ SF_boardVars(OnceJoined(ConnectSucceeds))
  /\ WF_boardVars(OnceJoined(SenderTask /\ sndPc # "idle"))
  /\ SF_boardVars(OnceJoined(~SockAlive /\ SendError))

BoardSpec == BoardInit /\ [][BoardNext]_boardVars /\ BoardFairness

-----------------------------------------------------------------------------
(* What event_handler owes the driver (WifiSta).                              *)
OneDialDue == Sta!OneDialDue

(* Once hotspot and laptop are there for good, whatever link or connection     *)
(* broke before and at whatever point, the board again and again has a         *)
(* connection that stands and is published to send on: a dead one whose flag   *)
(* is still set does not count.  Only a send() that fails ever clears the flag, *)
(* so this is promised of a board that goes on capturing frames.               *)
CanSend == s_connected /\ s_sock \in openFds /\ alive[connOf[s_sock]]
Capturing == []<>(sndPc = "check")
Reconnects == (<>[]listening /\ (\E a \in Aps : <>[](ap = a)) /\ Capturing) => []<>CanSend
=============================================================================
