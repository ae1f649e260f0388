------------------------------- MODULE PlayerPage -------------------------------
(***************************************************************************)
(* player.html, the script that ml/visualization/realtime_player.py writes,   *)
(* with the request handler of player_server.py: the sockets a page opens one  *)
(* after the other, the recorded sessions it asks for, its cache, and what it  *)
(* shows.  Every handler of the script is one step.                          *)
(*                                                                         *)
(* The data of a session and channel is that pair; the canvas is the pair it   *)
(* was drawn from; the time that is revealed is elapsed.  Filters,             *)
(* preprocessing and the live tab's picture are left out; the live stream is   *)
(* in PlayerServer.                                                          *)
(***************************************************************************)
EXTENDS Integers, Sequences, SequencesExt

CONSTANTS
  Sessions, Channels,
  FirstChannel,   \* the channel the page starts with
  MaxConns,       \* bound: sockets
  MaxClicks,      \* bound: selections, channel changes and option changes
  Duration        \* the length of each session, in animation steps

ASSUME PageAssumption ==
  FirstChannel \in Channels /\ Duration \in [Sessions -> Nat \ {0}] /\ MaxConns \in Nat \ {0}
  /\ MaxClicks \in Nat

(* Before the first click nothing is selected.                               *)
Nobody == "none"
ASSUME NobodyAssumption == Nobody \notin Sessions

VARIABLES
  sock, ws,                 \* readyState of every socket made; the last one
  up, busy, down,           \* requests on the way, the one being built, answers on the way
  status,                   \* the server status line
  listed,                   \* whether the list of sessions has come
  selected, channel, pendingLoadKey,
  asked,                    \* history: the socket of the last request
  cache, rawData, offscreen, canvas, overlay,
  timer,                    \* whether recomputeTimer runs
  playing, elapsed,
  clicks

connVars == <<sock, ws, up, busy, down>>
viewVars == <<cache, rawData, offscreen, canvas, overlay>>
selVars  == <<selected, channel, pendingLoadKey, asked>>
playVars == <<playing, elapsed>>
vars == <<connVars, status, listed, selVars, viewVars, timer, playVars, clicks>>

None == <<>>
Key(s) == <<s, channel>>
Request(type, key) == [type |-> type, key |-> key]
Conns == DOMAIN sock

Init ==
  /\ sock = <<"connecting">> /\ ws = 1 /\ status = "connecting"
  /\ up = <<<<>>>> /\ busy = <<None>> /\ down = <<<<>>>>
  /\ listed = FALSE
  /\ selected = Nobody /\ channel = FirstChannel /\ pendingLoadKey = None /\ asked = 0
  /\ cache = {} /\ rawData = None /\ offscreen = None /\ canvas = None /\ overlay = "hidden"
  /\ timer = FALSE /\ playing = FALSE /\ elapsed = 0 /\ clicks = 0

-----------------------------------------------------------------------------
(* Sockets *)

(* connectServer: the socket before is closed, and its handlers stay.         *)
Reconnect ==
  /\ Len(sock) < MaxConns
  /\ sock' = Append([sock EXCEPT ![ws] = IF @ = "closed" THEN @ ELSE "closing"], "connecting")
  /\ ws' = ws + 1 /\ status' = "connecting"
  /\ up' = Append(up, <<>>) /\ busy' = Append(busy, None) /\ down' = Append(down, <<>>)
  /\ UNCHANGED <<listed, selVars, viewVars, timer, playVars, clicks>>

Opens(c) ==
  /\ sock[c] = "connecting"
  /\ sock' = [sock EXCEPT ![c] = "open"]
  /\ status' = "connected"
  /\ up' = [up EXCEPT ![c] = Append(@, Request("list_sessions", None))]
  /\ UNCHANGED <<ws, busy, down, listed, selVars, viewVars, timer, playVars, clicks>>

(* A refused connection, the end of a closing one, or the server's end:       *)
(* whichever socket it is, onclose writes the status line.                   *)
Closes(c) ==
  /\ sock[c] # "closed"
  /\ sock' = [sock EXCEPT ![c] = "closed"]
  /\ status' = "disconnected"
  /\ UNCHANGED <<ws, up, busy, down, listed, selVars, viewVars, timer, playVars, clicks>>

-----------------------------------------------------------------------------
(* handle_request, one request of a connection after the other *)

Answer(c, type, key) == down' = [down EXCEPT ![c] = Append(@, Request(type, key))]

Handle(c) ==
  /\ sock[c] # "closed" /\ busy[c] = None /\ up[c] # <<>>
  /\ up' = [up EXCEPT ![c] = Tail(@)]
  /\ LET request == Head(up[c]) IN
       IF request.type = "list_sessions"
         THEN Answer(c, "session_list", None) /\ UNCHANGED busy
         ELSE busy' = [busy EXCEPT ![c] = request.key] /\ UNCHANGED down
  /\ UNCHANGED <<sock, ws, status, listed, selVars, viewVars, timer, playVars, clicks>>

(* Bug: a failure in the executor is not reported.                           *)
BuiltOrSilent(c) ==
  /\ sock[c] # "closed" /\ busy[c] # None
  /\ busy' = [busy EXCEPT ![c] = None]
  /\ Answer(c, "session_data", busy[c]) \/ UNCHANGED down
  /\ UNCHANGED <<sock, ws, up, status, listed, selVars, viewVars, timer, playVars, clicks>>

(* The executor has built the payload, or failed; the error names no channel. *)
Built(c) ==
  /\ sock[c] # "closed" /\ busy[c] # None
  /\ busy' = [busy EXCEPT ![c] = None]
  /\ Answer(c, "session_data", busy[c]) \/ Answer(c, "session_data_error", busy[c])
  /\ UNCHANGED <<sock, ws, up, status, listed, selVars, viewVars, timer, playVars, clicks>>

-----------------------------------------------------------------------------
(* What the page shows *)

(* onSessionDataReady: the data, then recomputeAndRender.                    *)
Show(key) ==
  /\ rawData' = key /\ overlay' = "hidden"
  /\ offscreen' = key /\ canvas' = key

(* Bug: every answer is shown, whatever is selected.                         *)
ReceiveUnasked(c) ==
  /\ sock[c] = "open" /\ down[c] # <<>> /\ Head(down[c]).type = "session_data"
  /\ down' = [down EXCEPT ![c] = Tail(@)]
  /\ LET key == Head(down[c]).key IN cache' = cache \cup {key} /\ Show(key)
  /\ UNCHANGED <<sock, ws, up, busy, status, listed, selVars, timer, playVars, clicks>>

(* A late answer goes to the cache; only the one waited for is shown.         *)
ReceiveData(c) ==
  /\ sock[c] = "open" /\ down[c] # <<>> /\ Head(down[c]).type = "session_data"
  /\ down' = [down EXCEPT ![c] = Tail(@)]
  /\ LET key == Head(down[c]).key IN
       /\ cache' = cache \cup {key}
       /\ IF key = pendingLoadKey THEN Show(key) ELSE UNCHANGED <<rawData, offscreen, canvas, overlay>>
  /\ UNCHANGED <<sock, ws, up, busy, status, listed, selVars, timer, playVars, clicks>>

ReceiveList(c) ==
  /\ sock[c] = "open" /\ down[c] # <<>> /\ Head(down[c]).type = "session_list"
  /\ down' = [down EXCEPT ![c] = Tail(@)] /\ listed' = TRUE
  /\ UNCHANGED <<sock, ws, up, busy, status, selVars, viewVars, timer, playVars, clicks>>

(* An error is shown whichever session it is about.                          *)
ReceiveError(c) ==
  /\ sock[c] = "open" /\ down[c] # <<>> /\ Head(down[c]).type = "session_data_error"
  /\ down' = [down EXCEPT ![c] = Tail(@)] /\ overlay' = "error"
  /\ UNCHANGED <<sock, ws, up, busy, status, listed, selVars, cache, rawData, offscreen, canvas,
                 timer, playVars, clicks>>

(* requestSessionData, for what is selected afterwards.                      *)
RequestSessionData(key) ==
  /\ pendingLoadKey' = key /\ asked' = ws
  /\ IF key \in cache THEN Show(key) /\ UNCHANGED <<cache, connVars>>
     ELSE /\ rawData' = None /\ UNCHANGED <<cache, offscreen, canvas, sock, ws, busy, down>>
          /\ IF sock[ws] = "open"
               THEN /\ overlay' = "building"
                    /\ up' = [up EXCEPT ![ws] = Append(@, Request("load_session", key))]
               ELSE overlay' = "not connected" /\ UNCHANGED up

Click == clicks < MaxClicks /\ clicks' = clicks + 1

SelectSession(s) ==
  /\ listed /\ Click
  /\ selected' = s /\ elapsed' = 0 /\ playing' = FALSE
  /\ RequestSessionData(Key(s))
  /\ UNCHANGED <<status, listed, channel, timer>>

ToggleChannel(ch) ==
  /\ Click /\ channel' = ch
  /\ IF selected # Nobody THEN RequestSessionData(<<selected, ch>>)
                        ELSE UNCHANGED <<pendingLoadKey, asked, viewVars, connVars>>
  /\ UNCHANGED <<selected, status, listed, timer, playVars>>

(* An option changes: scheduleRecompute.                                    *)
ChangeOption ==
  /\ Click /\ timer' = TRUE
  /\ UNCHANGED <<connVars, status, listed, selVars, viewVars, playVars>>

Recompute ==
  /\ timer /\ timer' = FALSE
  /\ offscreen' = IF rawData = None THEN offscreen ELSE rawData
  /\ canvas' = IF rawData = None THEN canvas ELSE rawData
  /\ UNCHANGED <<connVars, status, listed, selVars, cache, rawData, overlay, playVars, clicks>>

-----------------------------------------------------------------------------
(* Playing *)

(* draw() *)
Redraw == canvas' = offscreen

duration == IF selected = Nobody THEN 0 ELSE Duration[selected]

PlayUnchanged == UNCHANGED <<connVars, status, listed, selVars, cache, rawData, offscreen, overlay,
                             timer, clicks>>

PlayButton ==
  /\ playing' = (~playing /\ selected # Nobody)
  /\ UNCHANGED <<canvas, elapsed>> /\ PlayUnchanged

(* An animation frame: on, draw, and stop at the end.                        *)
Step ==
  /\ playing
  /\ elapsed' = IF elapsed < duration THEN elapsed + 1 ELSE elapsed
  /\ playing' = (elapsed' < duration)
  /\ Redraw /\ PlayUnchanged

(* Reset, or a click on the progress bar.                                    *)
Reset == playing' = FALSE /\ elapsed' = 0 /\ Redraw /\ PlayUnchanged

Seek ==
  /\ selected # Nobody
  /\ elapsed' \in 0 .. duration
  /\ Redraw /\ UNCHANGED playing /\ PlayUnchanged

Next ==
  \/ Reconnect
  \/ \E c \in Conns : \/ Opens(c) \/ Closes(c) \/ Handle(c) \/ Built(c)
                      \/ ReceiveData(c) \/ ReceiveList(c) \/ ReceiveError(c)
  \/ \E s \in Sessions : SelectSession(s)
  \/ \E ch \in Channels : ToggleChannel(ch)
  \/ ChangeOption \/ Recompute \/ PlayButton \/ Step \/ Reset \/ Seek

(* The server works on, the network delivers, timers and frames come; what    *)
(* the user does, and that a connection holds, is not assumed.               *)
Fairness ==
  /\ \A c \in 1 .. MaxConns :
       /\ WF_vars(c \in Conns /\ (Handle(c) \/ Built(c)))
       /\ WF_vars(c \in Conns /\ (ReceiveData(c) \/ ReceiveList(c) \/ ReceiveError(c)))
  /\ WF_vars(Recompute) /\ WF_vars(Step)

Spec == Init /\ [][Next]_vars /\ Fairness

-----------------------------------------------------------------------------
(* Properties *)

Keys == Sessions \X Channels

TypeOK ==
  /\ \A c \in Conns : sock[c] \in {"connecting", "open", "closing", "closed"}
  /\ ws = Len(sock) /\ status \in {"connecting", "connected", "disconnected"}
  /\ selected \in Sessions \cup {Nobody} /\ channel \in Channels
  /\ cache \subseteq Keys /\ {rawData, offscreen, pendingLoadKey} \subseteq Keys \cup {None}
  /\ overlay \in {"hidden", "building", "not connected", "error"}
  /\ elapsed \in 0 .. duration /\ clicks \in 0 .. MaxClicks

(* Whenever no overlay covers it, the picture is that of the selected session  *)
(* in the chosen channel: no late answer, timer or animation frame shows       *)
(* another.                                                                 *)
NothingStaleVisible ==
  (selected # Nobody /\ overlay = "hidden") =>
    /\ rawData = Key(selected) /\ offscreen = rawData /\ canvas = rawData

(* The data the options are applied to is that of the selection, or there is   *)
(* none yet: the amplitude options never meet phase data.                    *)
DataOfSelection == rawData # None => rawData = Key(selected)

(* Picture, data and selection belong together, whatever comes late; the       *)
(* position lies within the session.                                         *)
PageConsistent == TypeOK /\ NothingStaleVisible /\ DataOfSelection

(* A session that is being built is shown, or its error, unless the user goes  *)
(* on or the connection it was asked on is lost.                             *)
RequestAnswered ==
  \A c \in 1 .. MaxConns :
    (asked = c /\ overlay = "building" /\ c \in Conns /\ sock[c] = "open")
      ~> (overlay # "building" \/ asked # c \/ sock[c] # "open")

=============================================================================
