---------------------------- MODULE PlayerProofs ----------------------------
(***************************************************************************)
(* What the people at the laptop see, during a demonstration and live.       *)
(*                                                                         *)
(* What the page shows is what is selected, for any number of sockets, clicks, *)
(* sessions and channels.                                                   *)
(* What the viewers of the live half are sent is whole and current, for any    *)
(* number of viewers, samples and any length of the queue.                   *)
(*                                                                         *)
(* PageConsistent is not inductive: that a late answer cannot spoil it rests   *)
(* on pendingLoadKey following the selection, on the data being that of        *)
(* pendingLoadKey, and on what may be on the wires at all (an answer with data  *)
(* always names a session and a channel).                                    *)
(*                                                                         *)
(* StreamUnbroken rests on the order of everything that is on its way from the *)
(* receiver thread to the viewers (Carried): no status comes between samples,  *)
(* and the first sample on its way follows the last one shown.                *)
(*                                                                         *)
(* LiveInference, for any command line, window, stride, gate, and any number  *)
(* of frames, ticks and signals.  LiveIsBatch is not inductive: that the next *)
(* window begins one stride behind the last needs where the last one began    *)
(* (Windows), what the deque holds (Buffer), and that every packet decoded     *)
(* since the gate is in the calibration, with the windower or still to be     *)
(* handled (Packets).                                                      *)
(***************************************************************************)
EXTENDS PlayerPage, PlayerServer, LiveInference, SequenceTheorems, FiniteSetTheorems,
        WellFoundedInduction, TLAPS

(* What the page may ask, and what the server may say.                     *)
Requests == {Request("list_sessions", None)} \cup {Request("load_session", k) : k \in Keys}

Answers == {Request("session_list", None)}
           \cup {Request(t, k) : t \in {"session_data", "session_data_error"}, k \in Keys}

(* Every socket has its queues, and they carry nothing else.               *)
Wires ==
  /\ sock \in Seq({"connecting", "open", "closing", "closed"})
  /\ up \in Seq(Seq(Requests)) /\ busy \in Seq(Keys \cup {None}) /\ down \in Seq(Seq(Answers))
  /\ ws \in Nat \ {0}
  /\ Len(sock) = ws /\ Len(up) = ws /\ Len(busy) = ws /\ Len(down) = ws

(* The ranges of what the page keeps.                                      *)
Shown ==
  /\ status \in {"connecting", "connected", "disconnected"}
  /\ selected \in Sessions \cup {Nobody} /\ channel \in Channels
  /\ cache \subseteq Keys
  /\ rawData \in Keys \cup {None} /\ offscreen \in Keys \cup {None}
  /\ pendingLoadKey \in Keys \cup {None}
  /\ overlay \in {"hidden", "building", "not connected", "error"}

Position == elapsed \in 0 .. duration /\ clicks \in 0 .. MaxClicks

(* The key waited for follows every selection.                             *)
PendingIsSelection ==
  pendingLoadKey = IF selected = Nobody THEN None ELSE Key(selected)

(* Data that is there is what was waited for.                              *)
DataIsPending == rawData # None => rawData = pendingLoadKey

(* The inductive invariant.                                                *)
IInv == Wires /\ Shown /\ Position /\ PendingIsSelection /\ DataIsPending /\ NothingStaleVisible

USE DEF Conns

(* No session has an empty key.                                            *)
LEMMA NoneIsNoKey == None \notin Keys
BY DEF None, Keys

(* A page that was just opened.                                            *)
LEMMA InitInv == Init => IInv
<1> SUFFICES ASSUME Init PROVE IInv OBVIOUS
<1> USE DEF Init
<1>1. Wires
  <2>1. <<>> \in Seq(Requests) /\ <<>> \in Seq(Answers) OBVIOUS
  <2>2. QED BY <2>1 DEF Wires
<1>2. Shown BY PageAssumption DEF Shown
<1>3. Position BY PageAssumption DEF Position, duration
<1>4. PendingIsSelection /\ DataIsPending /\ NothingStaleVisible
  BY DEF PendingIsSelection, DataIsPending, NothingStaleVisible
<1>5. QED BY <1>1, <1>2, <1>3, <1>4 DEF IInv

-----------------------------------------------------------------------------
(* The sequences of the wires: a message more, one less, one queue replaced. *)
LEMMA AppendIn == ASSUME NEW S, NEW q \in Seq(S), NEW x \in S
                  PROVE Append(q, x) \in Seq(S) /\ Len(Append(q, x)) = Len(q) + 1
BY AppendProperties

(* The rest of a queue, and its first message.                             *)
LEMMA TailIn == ASSUME NEW S, NEW q \in Seq(S), q # <<>>
                PROVE Tail(q) \in Seq(S) /\ Head(q) \in S
OBVIOUS

(* One element of a sequence replaced.                                     *)
LEMMA ReplaceIn == ASSUME NEW S, NEW q \in Seq(S), NEW c \in DOMAIN q, NEW x \in S
                   PROVE [q EXCEPT ![c] = x] \in Seq(S) /\ Len([q EXCEPT ![c] = x]) = Len(q)
OBVIOUS

(* What there is for each socket.                                          *)
LEMMA WireParts ==
  ASSUME Wires, NEW c \in Conns
  PROVE /\ c \in DOMAIN up /\ c \in DOMAIN busy /\ c \in DOMAIN down
        /\ up[c] \in Seq(Requests) /\ busy[c] \in Keys \cup {None} /\ down[c] \in Seq(Answers)
<1>1. DOMAIN sock = 1 .. ws /\ DOMAIN up = 1 .. ws /\ DOMAIN busy = 1 .. ws /\ DOMAIN down = 1 .. ws
  BY DEF Wires
<1>2. QED BY <1>1 DEF Wires

(* A message that is answered or asked is of the sorts the wires carry.      *)
LEMMA Messages ==
  ASSUME NEW k \in Keys
  PROVE /\ Request("list_sessions", None) \in Requests /\ Request("load_session", k) \in Requests
        /\ Request("session_list", None) \in Answers
        /\ Request("session_data", k) \in Answers /\ Request("session_data_error", k) \in Answers
BY DEF Requests, Answers

(* An answer with data always names a key.                                 *)
LEMMA DataHasKey ==
  ASSUME NEW a \in Answers, a.type = "session_data" PROVE a.key \in Keys
BY DEF Answers, Request

(* So does a request for data.                                             *)
LEMMA LoadHasKey ==
  ASSUME NEW r \in Requests, r.type # "list_sessions" PROVE r.key \in Keys
BY DEF Requests, Request

(* Each step leaves the wires in order: first those of the sockets.        *)
LEMMA ReconnectWires == ASSUME Wires, Reconnect PROVE Wires'
<1> DEFINE closing == [sock EXCEPT ![ws] = IF @ = "closed" THEN @ ELSE "closing"]
<1>1. closing \in Seq({"connecting", "open", "closing", "closed"}) /\ Len(closing) = ws
  BY DEF Wires
<1>2. sock' = Append(closing, "connecting") BY DEF Reconnect
<1> HIDE DEF closing
<1>3. sock' \in Seq({"connecting", "open", "closing", "closed"}) /\ Len(sock') = ws + 1
  BY <1>1, <1>2, AppendIn
<1>4. <<>> \in Seq(Requests) /\ <<>> \in Seq(Answers) /\ None \in Keys \cup {None} OBVIOUS
<1>5. up' \in Seq(Seq(Requests)) /\ Len(up') = ws + 1
  BY <1>4, AppendIn DEF Reconnect, Wires
<1>6. busy' \in Seq(Keys \cup {None}) /\ Len(busy') = ws + 1
  BY <1>4, AppendIn DEF Reconnect, Wires
<1>7. down' \in Seq(Seq(Answers)) /\ Len(down') = ws + 1
  BY <1>4, AppendIn DEF Reconnect, Wires
<1>8. QED BY <1>3, <1>5, <1>6, <1>7 DEF Reconnect, Wires

(* The list is asked for first.                                            *)
LEMMA OpensWires == ASSUME Wires, NEW c \in Conns, Opens(c) PROVE Wires'
<1>1. Request("list_sessions", None) \in Requests BY DEF Requests
<1>2. Append(up[c], Request("list_sessions", None)) \in Seq(Requests) BY <1>1, WireParts, AppendIn
<1>3. up' \in Seq(Seq(Requests)) /\ Len(up') = ws
  BY <1>2, WireParts, ReplaceIn DEF Opens, Wires
<1>4. sock' \in Seq({"connecting", "open", "closing", "closed"}) /\ Len(sock') = ws
  BY ReplaceIn DEF Opens, Wires
<1>5. QED BY <1>3, <1>4 DEF Opens, Wires

(* A closed socket keeps what was on the way.                              *)
LEMMA ClosesWires == ASSUME Wires, NEW c \in Conns, Closes(c) PROVE Wires'
<1>1. sock' \in Seq({"connecting", "open", "closing", "closed"}) /\ Len(sock') = ws
  BY ReplaceIn DEF Closes, Wires
<1>2. QED BY <1>1 DEF Closes, Wires

(* Then those of the server.                                               *)
LEMMA AnswerWires ==
  ASSUME Wires, NEW c \in Conns, NEW type, NEW key, Request(type, key) \in Answers,
         Answer(c, type, key)
  PROVE down' \in Seq(Seq(Answers)) /\ Len(down') = ws
<1>1. Append(down[c], Request(type, key)) \in Seq(Answers) BY WireParts, AppendIn
<1>2. QED BY <1>1, WireParts, ReplaceIn DEF Answer, Wires

(* A request is answered at once, or its key goes to the executor.         *)
LEMMA HandleWires == ASSUME Wires, NEW c \in Conns, Handle(c) PROVE Wires'
<1> DEFINE r == Head(up[c])
<1>1. up[c] \in Seq(Requests) /\ up[c] # <<>> BY WireParts DEF Handle
<1>2. Tail(up[c]) \in Seq(Requests) /\ r \in Requests BY <1>1, TailIn
<1>3. up' \in Seq(Seq(Requests)) /\ Len(up') = ws
  BY <1>2, WireParts, ReplaceIn DEF Handle, Wires
<1>4. CASE r.type = "list_sessions"
  <2>1. Answer(c, "session_list", None) /\ busy' = busy BY <1>4 DEF Handle
  <2>2. Request("session_list", None) \in Answers BY DEF Answers
  <2>3. down' \in Seq(Seq(Answers)) /\ Len(down') = ws BY <2>1, <2>2, AnswerWires
  <2>4. QED BY <1>3, <2>1, <2>3 DEF Handle, Wires
<1>5. CASE r.type # "list_sessions"
  <2>1. r.key \in Keys BY <1>2, <1>5, LoadHasKey
  <2>2. busy' = [busy EXCEPT ![c] = r.key] /\ down' = down BY <1>5 DEF Handle
  <2> HIDE DEF r
  <2>3. busy \in Seq(Keys \cup {None}) /\ c \in DOMAIN busy /\ Len(busy) = ws /\ r.key \in Keys \cup {None}
    BY <2>1, WireParts DEF Wires
  <2>4. busy' \in Seq(Keys \cup {None}) /\ Len(busy') = ws
    BY <2>2, <2>3, ReplaceIn
  <2>5. QED BY <1>3, <2>2, <2>4 DEF Handle, Wires
<1>6. QED BY <1>4, <1>5

(* The executor answers for the key it was given.                          *)
LEMMA BuiltWires == ASSUME Wires, NEW c \in Conns, Built(c) PROVE Wires'
<1>1. busy[c] \in Keys BY WireParts DEF Built
<1>2. busy' \in Seq(Keys \cup {None}) /\ Len(busy') = ws
  BY WireParts, ReplaceIn DEF Built, Wires
<1>3. Answer(c, "session_data", busy[c]) \/ Answer(c, "session_data_error", busy[c]) BY DEF Built
<1>4. down' \in Seq(Seq(Answers)) /\ Len(down') = ws
  BY <1>1, <1>3, Messages, AnswerWires
<1>5. QED BY <1>2, <1>4 DEF Built, Wires

(* Then those of the page: taking the next answer,                         *)
LEMMA ReceiveWires ==
  ASSUME Wires, NEW c \in Conns, down[c] # <<>>, down' = [down EXCEPT ![c] = Tail(@)],
         UNCHANGED <<sock, ws, up, busy>>
  PROVE Wires' /\ Head(down[c]) \in Answers
<1>1. Tail(down[c]) \in Seq(Answers) /\ Head(down[c]) \in Answers BY WireParts, TailIn
<1>2. down' \in Seq(Seq(Answers)) /\ Len(down') = ws
  BY <1>1, WireParts, ReplaceIn DEF Wires
<1>3. QED BY <1>1, <1>2 DEF Wires

(* and asking for data.                                                    *)
LEMMA RequestWires ==
  ASSUME Wires, NEW k \in Keys, RequestSessionData(k) PROVE Wires'
<1>1. CASE UNCHANGED connVars BY <1>1 DEF connVars, Wires
<1>2. CASE UNCHANGED <<sock, ws, busy, down>>
           /\ up' = [up EXCEPT ![ws] = Append(@, Request("load_session", k))]
  <2>1. ws \in Conns BY DEF Wires
  <2>2. Append(up[ws], Request("load_session", k)) \in Seq(Requests)
    BY <2>1, WireParts, Messages, AppendIn
  <2>3. up' \in Seq(Seq(Requests)) /\ Len(up') = ws
    BY <1>2, <2>1, <2>2, WireParts, ReplaceIn DEF Wires
  <2>4. QED BY <1>2, <2>3 DEF Wires
<1>3. QED BY <1>1, <1>2 DEF RequestSessionData, connVars

-----------------------------------------------------------------------------
(* What the page shows, and what a step may change of it *)

(* What is seen, and all that decides what will be.                        *)
View == <<selected, channel, pendingLoadKey, cache, rawData, offscreen, canvas, overlay,
          elapsed, clicks>>

(* The part of the invariant that is about it.                             *)
ViewInv == Shown /\ Position /\ PendingIsSelection /\ DataIsPending /\ NothingStaleVisible

(* Steps of sockets and server leave the view alone.                       *)
LEMMA ViewKept ==
  ASSUME ViewInv, UNCHANGED View, status' \in {"connecting", "connected", "disconnected"}
  PROVE ViewInv'
BY DEF ViewInv, View, Shown, Position, duration, PendingIsSelection, DataIsPending,
       NothingStaleVisible, Key

(* An answer goes to the cache; the one waited for is shown.                  *)
LEMMA AnswerView ==
  ASSUME ViewInv, NEW k \in Keys, cache' = cache \cup {k},
         IF k = pendingLoadKey THEN Show(k) ELSE UNCHANGED <<rawData, offscreen, canvas, overlay>>,
         UNCHANGED <<status, selected, channel, pendingLoadKey, elapsed, clicks>>
  PROVE ViewInv'
<1> USE DEF ViewInv
<1>1. CASE k = pendingLoadKey
  <2>1. selected # Nobody /\ k = Key(selected)
    BY <1>1, NoneIsNoKey DEF PendingIsSelection
  <2>2. Shown' /\ Position' BY <1>1 DEF Shown, Position, duration, Show
  <2>3. PendingIsSelection' /\ DataIsPending' /\ NothingStaleVisible'
    BY <1>1, <2>1 DEF PendingIsSelection, DataIsPending, NothingStaleVisible, Show, Key
  <2>4. QED BY <2>2, <2>3
<1>2. CASE k # pendingLoadKey
  <2>1. Shown' /\ Position' BY <1>2 DEF Shown, Position, duration
  <2>2. PendingIsSelection' /\ DataIsPending' /\ NothingStaleVisible'
    BY <1>2 DEF PendingIsSelection, DataIsPending, NothingStaleVisible, Key
  <2>3. QED BY <2>1, <2>2
<1>3. QED BY <1>1, <1>2

(* Asking for the data of what is selected from now on.                       *)
LEMMA RequestView ==
  ASSUME ViewInv, NEW s \in Sessions, NEW ch \in Channels, RequestSessionData(<<s, ch>>),
         selected' = s, channel' = ch, status' = status, clicks' \in 0 .. MaxClicks,
         elapsed' = 0 \/ (s = selected /\ elapsed' = elapsed)
  PROVE ViewInv'
<1> USE DEF ViewInv
<1>1. s # Nobody /\ <<s, ch>> \in Keys BY NobodyAssumption DEF Keys
<1>2. pendingLoadKey' = <<s, ch>> BY DEF RequestSessionData
<1>3. PendingIsSelection' BY <1>1, <1>2 DEF PendingIsSelection, Key
<1>4. Position'
  <2>1. duration' = Duration[s] /\ Duration[s] \in Nat \ {0}
    BY <1>1, PageAssumption DEF duration
  <2>2. CASE elapsed' = 0 BY <2>1, <2>2 DEF Position
  <2>3. CASE s = selected /\ elapsed' = elapsed
    BY <2>1, <2>3, <1>1 DEF Position, duration
  <2>4. QED BY <2>2, <2>3
<1>5. CASE <<s, ch>> \in cache
  <2>1. Show(<<s, ch>>) /\ cache' = cache BY <1>5 DEF RequestSessionData
  <2>2. Shown' BY <1>1, <1>2, <2>1 DEF Shown, Show
  <2>3. DataIsPending' /\ NothingStaleVisible'
    BY <1>2, <2>1 DEF DataIsPending, NothingStaleVisible, Show, Key
  <2>4. QED BY <1>3, <1>4, <2>2, <2>3
<1>6. CASE <<s, ch>> \notin cache
  <2>1. /\ rawData' = None /\ UNCHANGED <<cache, offscreen, canvas>>
        /\ overlay' \in {"building", "not connected"}
    BY <1>6 DEF RequestSessionData
  <2>2. Shown' BY <1>1, <1>2, <2>1 DEF Shown
  <2>3. DataIsPending' /\ NothingStaleVisible' BY <2>1 DEF DataIsPending, NothingStaleVisible
  <2>4. QED BY <1>3, <1>4, <2>2, <2>3
<1>7. QED BY <1>5, <1>6

(* Drawing: the picture is the last one computed, or that of the data.        *)
LEMMA DrawView ==
  ASSUME ViewInv,
         \/ canvas' = offscreen /\ offscreen' = offscreen
         \/ rawData # None /\ canvas' = rawData /\ offscreen' = rawData
         \/ UNCHANGED <<canvas, offscreen>>,
         elapsed' \in 0 .. duration,
         UNCHANGED <<status, selected, channel, pendingLoadKey, cache, rawData, overlay, clicks>>
  PROVE ViewInv'
<1> USE DEF ViewInv
<1>1. Shown' BY DEF Shown
<1>2. Position' BY DEF Position, duration
<1>3. PendingIsSelection' /\ DataIsPending' BY DEF PendingIsSelection, DataIsPending, Key
<1>4. NothingStaleVisible' BY DEF NothingStaleVisible, Key
<1>5. QED BY <1>1, <1>2, <1>3, <1>4

(* The length of what is selected.                                         *)
LEMMA DurationType == ASSUME Shown PROVE duration \in Nat
BY PageAssumption DEF duration, Shown

-----------------------------------------------------------------------------
(* Every step keeps the invariant.                                         *)
LEMMA NextInv == ASSUME IInv, [Next]_vars PROVE IInv'
<1>0. Wires /\ ViewInv BY DEF IInv, ViewInv
<1>a. SUFFICES Wires' /\ ViewInv' BY DEF IInv, ViewInv
<1>b. status \in {"connecting", "connected", "disconnected"} BY <1>0 DEF ViewInv, Shown
<1> USE <1>0
<1>1. CASE Reconnect
  BY <1>1, ReconnectWires, ViewKept DEF Reconnect, View, selVars, viewVars, playVars
<1>2. ASSUME NEW c \in Conns, Opens(c) PROVE Wires' /\ ViewInv'
  BY <1>2, OpensWires, ViewKept DEF Opens, View, selVars, viewVars, playVars
<1>3. ASSUME NEW c \in Conns, Closes(c) PROVE Wires' /\ ViewInv'
  BY <1>3, ClosesWires, ViewKept DEF Closes, View, selVars, viewVars, playVars
<1>4. ASSUME NEW c \in Conns, Handle(c) PROVE Wires' /\ ViewInv'
  BY <1>4, <1>b, HandleWires, ViewKept DEF Handle, View, selVars, viewVars, playVars
<1>5. ASSUME NEW c \in Conns, Built(c) PROVE Wires' /\ ViewInv'
  BY <1>5, <1>b, BuiltWires, ViewKept DEF Built, View, selVars, viewVars, playVars
<1>6. ASSUME NEW c \in Conns, ReceiveData(c) PROVE Wires' /\ ViewInv'
  <2> DEFINE k == Head(down[c]).key
  <2>1. Wires' /\ Head(down[c]) \in Answers BY <1>6, ReceiveWires DEF ReceiveData
  <2>2. k \in Keys BY <1>6, <2>1, DataHasKey DEF ReceiveData
  <2>3. /\ cache' = cache \cup {k}
        /\ IF k = pendingLoadKey THEN Show(k) ELSE UNCHANGED <<rawData, offscreen, canvas, overlay>>
        /\ UNCHANGED <<status, selected, channel, pendingLoadKey, elapsed, clicks>>
    BY <1>6 DEF ReceiveData, selVars, playVars
  <2> HIDE DEF k
  <2>4. QED BY <2>1, <2>2, <2>3, AnswerView
<1>7. ASSUME NEW c \in Conns, ReceiveList(c) PROVE Wires' /\ ViewInv'
  <2>1. Wires' BY <1>7, ReceiveWires DEF ReceiveList
  <2>2. UNCHANGED View /\ status' = status
    BY <1>7 DEF ReceiveList, View, selVars, viewVars, playVars
  <2>3. QED BY <1>b, <2>1, <2>2, ViewKept
<1>8. ASSUME NEW c \in Conns, ReceiveError(c) PROVE Wires' /\ ViewInv'
  <2>1. Wires' BY <1>8, ReceiveWires DEF ReceiveError
  <2>2. overlay' = "error" /\ UNCHANGED <<status, selected, channel, pendingLoadKey, cache, rawData,
                                          offscreen, canvas, elapsed, clicks>>
    BY <1>8 DEF ReceiveError, selVars, playVars
  <2>3. ViewInv'
    BY <2>2 DEF ViewInv, Shown, Position, duration, PendingIsSelection, DataIsPending,
                NothingStaleVisible, Key
  <2>4. QED BY <2>1, <2>3
<1>9. ASSUME NEW s \in Sessions, SelectSession(s) PROVE Wires' /\ ViewInv'
  <2>1. channel \in Channels /\ clicks \in 0 .. MaxClicks BY DEF ViewInv, Shown, Position
  <2>2. clicks' \in 0 .. MaxClicks BY <1>9, <2>1, PageAssumption DEF SelectSession, Click
  <2>3. <<s, channel>> \in Keys /\ RequestSessionData(<<s, channel>>)
    BY <1>9, <2>1 DEF SelectSession, Key, Keys
  <2>4. Wires' BY <2>3, RequestWires
  <2>5. selected' = s /\ channel' = channel /\ status' = status /\ elapsed' = 0
    BY <1>9 DEF SelectSession
  <2>6. ViewInv' BY <2>1, <2>2, <2>3, <2>5, RequestView
  <2>7. QED BY <2>4, <2>6
<1>10. ASSUME NEW ch \in Channels, ToggleChannel(ch) PROVE Wires' /\ ViewInv'
  <2>1. clicks' \in 0 .. MaxClicks BY <1>10, PageAssumption DEF ToggleChannel, Click, ViewInv, Position
  <2>2. channel' = ch /\ selected' = selected /\ status' = status /\ elapsed' = elapsed
    BY <1>10 DEF ToggleChannel, playVars
  <2>3. CASE selected # Nobody
    <3>1. selected \in Sessions /\ <<selected, ch>> \in Keys BY <2>3 DEF ViewInv, Shown, Keys
    <3>2. RequestSessionData(<<selected, ch>>) BY <1>10, <2>3 DEF ToggleChannel
    <3>3. Wires' BY <3>1, <3>2, RequestWires
    <3>4. ViewInv' BY <2>1, <2>2, <3>1, <3>2, RequestView
    <3>5. QED BY <3>3, <3>4
  <2>4. CASE selected = Nobody
    <3>1. UNCHANGED <<pendingLoadKey, connVars, cache, rawData, offscreen, canvas, overlay>>
      BY <1>10, <2>4 DEF ToggleChannel, viewVars
    <3>2. Wires' BY <3>1 DEF connVars, Wires
    <3>3. ViewInv'
      BY <2>1, <2>2, <2>4, <3>1 DEF ViewInv, Shown, Position, duration, PendingIsSelection,
         DataIsPending, NothingStaleVisible
    <3>4. QED BY <3>2, <3>3
  <2>5. QED BY <2>3, <2>4
<1>11. CASE ChangeOption
  <2>1. Wires' BY <1>11 DEF ChangeOption, connVars, Wires
  <2>2. /\ clicks' \in 0 .. MaxClicks
        /\ UNCHANGED <<status, selected, channel, pendingLoadKey, cache, rawData, offscreen, canvas,
                       overlay, elapsed>>
    BY <1>11, PageAssumption DEF ChangeOption, Click, ViewInv, Position, selVars, viewVars, playVars
  <2>3. ViewInv'
    BY <2>2 DEF ViewInv, Shown, Position, duration, PendingIsSelection, DataIsPending,
                NothingStaleVisible, Key
  <2>4. QED BY <2>1, <2>3
<1>12. CASE Recompute
  <2>1. Wires' BY <1>12 DEF Recompute, connVars, Wires
  <2>2. /\ elapsed' \in 0 .. duration
        /\ UNCHANGED <<status, selected, channel, pendingLoadKey, cache, rawData, overlay, clicks>>
        /\ \/ rawData # None /\ canvas' = rawData /\ offscreen' = rawData
           \/ UNCHANGED <<canvas, offscreen>>
    BY <1>12 DEF Recompute, ViewInv, Position, selVars, playVars
  <2>3. QED BY <2>1, <2>2, DrawView
<1>13. CASE PlayButton \/ Step \/ Reset \/ Seek
  <2>0. duration \in Nat BY DurationType DEF ViewInv
  <2>1. PlayUnchanged BY <1>13 DEF PlayButton, Step, Reset, Seek
  <2>2. Wires' BY <2>1 DEF PlayUnchanged, connVars, Wires
  <2>3. (canvas' = offscreen \/ canvas' = canvas) /\ elapsed' \in 0 .. duration
    BY <1>13, <2>0 DEF PlayButton, Step, Reset, Seek, Redraw, ViewInv, Position
  <2>4. UNCHANGED <<status, selected, channel, pendingLoadKey, cache, rawData, offscreen, overlay,
                    clicks>>
    BY <2>1 DEF PlayUnchanged, selVars
  <2>5. QED BY <2>2, <2>3, <2>4, DrawView
<1>14. CASE UNCHANGED vars
  BY <1>14, <1>b, ViewKept DEF vars, connVars, selVars, viewVars, playVars, View, Wires
<1>15. QED
  BY <1>1, <1>2, <1>3, <1>4, <1>5, <1>6, <1>7, <1>8, <1>9, <1>10, <1>11, <1>12, <1>13, <1>14
  DEF Next

(* The invariant holds in every run of the page and its server.            *)
THEOREM Invariance == Spec => []IInv
<1>1. Init => IInv BY InitInv
<1>2. IInv /\ [Next]_vars => IInv' BY NextInv
<1>3. QED BY <1>1, <1>2, PTL DEF Spec

(* Picture, data and selection belong together and the position lies within *)
(* the session, whatever comes late and on whichever socket                *)
(* (realtime_player.py: requestSessionData, onmessage, draw).              *)
THEOREM PageConsistentCorrect == Spec => []PageConsistent
<1>1. IInv => PageConsistent
  <2> SUFFICES ASSUME IInv PROVE PageConsistent OBVIOUS
  <2>1. TypeOK
    <3>1. \A c \in Conns : sock[c] \in {"connecting", "open", "closing", "closed"} BY DEF IInv, Wires
    <3>2. ws = Len(sock) BY DEF IInv, Wires
    <3>3. {rawData, offscreen, pendingLoadKey} \subseteq Keys \cup {None} BY DEF IInv, Shown
    <3>4. QED BY <3>1, <3>2, <3>3 DEF IInv, Shown, Position, TypeOK
  <2>2. DataOfSelection
    BY DEF IInv, PendingIsSelection, DataIsPending, DataOfSelection
  <2>3. QED BY <2>1, <2>2 DEF IInv, PageConsistent
<1>2. QED BY <1>1, Invariance, PTL

-----------------------------------------------------------------------------
(* The live half *)

Statuses == {Status, Error}
SampleOf(n) == <<"sample", n>>
LiveMessages == Statuses \cup {SampleOf(n) : n \in Nat}

(* The messages on their way, from the one the broadcaster has to the one the *)
(* receiver is putting.                                                     *)
InHand(m) == IF m = NoMessage THEN <<>> ELSE <<m>>
Pending == InHand(got) \o queue \o InHand(item)

(* The receiver may still have samples.                                     *)
MoreSamples == rcv \in {"check", "open", "recv"} \/ (rcv = "put" /\ after \in {"open", "recv"})

(* z messages of the start, then n samples in order after the first k, then   *)
(* what the receiver had to say at its end.                                 *)
Ordered(line, k, n, z) ==
  /\ z + n <= Len(line)
  /\ \A i \in 1..z : line[i] \in Statuses
  /\ \A i \in (z + 1)..(z + n) : line[i] = SampleOf(k + i - z)
  /\ \A i \in (z + n + 1)..Len(line) : line[i] \in Statuses

(* Who is connected and has seen samples has seen the latest of them, number k. *)
UpToDate(k) == \A c \in clients : shown[c] # <<>> => shown[c][Len(shown[c])] = k

Carried ==
  ~cancelled =>
    \E k, n, z \in Nat :
      /\ Ordered(Pending, k, n, z) /\ UpToDate(k) /\ k + n = sent
      /\ MoreSamples => Len(Pending) = z + n

(* The ranges of the variables.                                             *)
ServerTypes ==
  /\ rcv \in {"check", "open", "recv", "put", "closing", "done"}
  /\ after \in {"open", "recv", "closing", "done"}
  /\ source \in {"none", "open", "closed"} /\ sent \in 0..MaxSamples
  /\ queue \in Seq(LiveMessages) /\ Len(queue) <= MaxQueue
  /\ IF rcv = "put" THEN item \in LiveMessages ELSE item = NoMessage
  /\ IF getter = "got" THEN got \in LiveMessages ELSE got = NoMessage
  /\ getter \in {"idle", "waiting", "got"}
  /\ main \in {"serving", "closing", "stopped", "exited"} /\ cancelled \in BOOLEAN
  /\ clients \subseteq used /\ used \subseteq Viewers
  /\ last_status \in {NoMessage} \cup Statuses
  /\ heard \in [Viewers -> {NoMessage} \cup Statuses] /\ shown \in [Viewers -> Seq(Nat)]

(* Who has not connected has got nothing; nobody is left when all is stopped.  *)
Connections ==
  /\ \A c \in Viewers \ used : heard[c] = NoMessage /\ shown[c] = <<>>
  /\ cancelled <=> main \in {"stopped", "exited"}
  /\ cancelled => clients = {} /\ getter # "got"

(* Before it has its source the receiver has no samples.                      *)
Beginning == rcv \in {"check", "open"} \/ (rcv = "put" /\ after = "open") => sent = 0

SInv == /\ ServerTypes /\ Connections /\ Beginning
        /\ last_status = announced /\ EveryoneInformed
        /\ Carried /\ StreamUnbroken

LEMMA MessageFacts ==
  /\ Status \in LiveMessages /\ Error \in LiveMessages /\ NoMessage \notin LiveMessages
  /\ Status \in Statuses /\ Error \in Statuses
  /\ \A m \in LiveMessages : IsStatus(m) <=> m \in Statuses
  /\ \A n \in Nat : SampleOf(n) \in LiveMessages /\ SampleOf(n) \notin Statuses /\ SampleOf(n)[2] = n
BY DEF LiveMessages, Statuses, SampleOf, Status, Error, NoMessage, IsStatus

LEMMA HandType ==
  ASSUME NEW m, m \in LiveMessages \/ m = NoMessage
  PROVE  /\ InHand(m) \in Seq(LiveMessages)
         /\ m = NoMessage => InHand(m) = <<>>
         /\ m \in LiveMessages => InHand(m) = <<m>>
BY MessageFacts DEF InHand

LEMMA PendingType ==
  ASSUME ServerTypes
  PROVE  Pending \in Seq(LiveMessages)
<1>1. InHand(got) \in Seq(LiveMessages) /\ InHand(item) \in Seq(LiveMessages) /\ queue \in Seq(LiveMessages)
  BY HandType DEF ServerTypes
<1> QED BY <1>1 DEF Pending

(* Nothing is sent before the first message.                                *)
LEMMA InitSInv == ServerInit => SInv
<1> SUFFICES ASSUME ServerInit PROVE SInv
  OBVIOUS
<1>1. ServerTypes
  <2>1. heard \in [Viewers -> {NoMessage} \cup Statuses] /\ shown \in [Viewers -> Seq(Nat)]
    BY DEF ServerInit
  <2>2. 0 \in 0..MaxSamples /\ <<>> \in Seq(LiveMessages) /\ Len(<<>>) <= MaxQueue
    BY QueueAssumption
  <2> QED BY <2>1, <2>2 DEF ServerInit, ServerTypes
<1>2. Connections /\ Beginning /\ last_status = announced /\ EveryoneInformed /\ StreamUnbroken
  BY DEF ServerInit, Connections, Beginning, EveryoneInformed, StreamUnbroken
<1>3. Pending = <<>>
  BY DEF ServerInit, Pending, InHand
<1>4. Ordered(Pending, 0, 0, 0) /\ UpToDate(0) /\ 0 + 0 = sent /\ Len(Pending) = 0 + 0
  BY <1>3 DEF Ordered, UpToDate, ServerInit
<1>5. Carried
  BY <1>4 DEF Carried
<1> QED BY <1>1, <1>2, <1>5 DEF SInv

(* The receiver puts a status or an error into its hand.                     *)
LEMMA OneMore ==
  ASSUME ServerTypes, rcv # "put", NEW m \in LiveMessages, item' = m, UNCHANGED <<queue, got>>
  PROVE  Len(Pending') = Len(Pending) + 1 /\ Len(Pending) \in Nat
         /\ Pending'[Len(Pending) + 1] = m /\ Pending' \in Seq(LiveMessages)
         /\ \A i \in 1..Len(Pending) : Pending'[i] = Pending[i]
<1>1. PICK p : p = InHand(got) \o queue
  OBVIOUS
<1>2. p \in Seq(LiveMessages)
  BY <1>1, HandType DEF ServerTypes
<1>3. Pending = p \o <<>> /\ Pending' = p \o <<m>>
  BY <1>1, MessageFacts, HandType DEF ServerTypes, Pending, InHand
<1> QED BY <1>2, <1>3

(* A message at the end leaves the order, if it is the next sample, or       *)
(* nothing but the end follows.                                             *)
LEMMA OrderedMore ==
  ASSUME NEW line \in Seq(LiveMessages), NEW more \in Seq(LiveMessages), NEW m \in LiveMessages,
         Len(more) = Len(line) + 1, more[Len(line) + 1] = m,
         \A i \in 1..Len(line) : more[i] = line[i],
         NEW k \in Nat, NEW n \in Nat, NEW z \in Nat, Ordered(line, k, n, z)
  PROVE  /\ m \in Statuses => Ordered(more, k, n, z)
         /\ m \in Statuses /\ n = 0 /\ Len(line) = z => Ordered(more, k, 0, z + 1)
         /\ m = SampleOf(k + n + 1) /\ Len(line) = z + n => Ordered(more, k, n + 1, z)
<1>0. PICK len : len = Len(line)
  OBVIOUS
<1>1. len \in Nat /\ Len(line) = len /\ Len(more) = len + 1
  BY <1>0
<1>2. ASSUME m \in Statuses PROVE Ordered(more, k, n, z)
  <2>0. z + n <= len
    BY <1>1 DEF Ordered
  <2>1. \A i \in 1..z : i \in 1..Len(line)
    BY <1>1, <2>0
  <2>2. \A i \in (z + 1)..(z + n) : i \in 1..Len(line)
    BY <1>1, <2>0
  <2>3. ASSUME NEW i \in (z + n + 1)..Len(more), i # len + 1
        PROVE  i \in (z + n + 1)..Len(line) /\ i \in 1..Len(line)
    BY <1>1, <2>3
  <2>4. \A i \in (z + n + 1)..Len(more) : more[i] \in Statuses
    BY <1>1, <1>2, <2>3 DEF Ordered
  <2>5. \A i \in 1..z : more[i] \in Statuses
    BY <2>1 DEF Ordered
  <2>6. \A i \in (z + 1)..(z + n) : more[i] = SampleOf(k + i - z)
    BY <2>2 DEF Ordered
  <2>7. z + n <= Len(more)
    BY <1>1, <2>0
  <2> QED BY <2>4, <2>5, <2>6, <2>7 DEF Ordered
<1>3. ASSUME m \in Statuses, n = 0, Len(line) = z PROVE Ordered(more, k, 0, z + 1)
  BY <1>1, <1>3 DEF Ordered
<1>4. ASSUME m = SampleOf(k + n + 1), Len(line) = z + n PROVE Ordered(more, k, n + 1, z)
  <2>1. \A i \in 1..z : i \in 1..Len(line)
    BY <1>1, <1>4
  <2>2. \A i \in (z + 1)..(z + n + 1) :
          \/ i \in 1..Len(line) /\ i \in (z + 1)..(z + n)
          \/ i = Len(line) + 1 /\ k + i - z = k + n + 1
    BY <1>1, <1>4
  <2>3. ASSUME NEW i \in (z + 1)..(z + n + 1) PROVE more[i] = SampleOf(k + i - z)
    BY <1>1, <1>4, <2>2, <2>3 DEF Ordered
  <2>4. \A i \in (z + n + 1 + 1)..Len(more) : FALSE
    BY <1>1, <1>4
  <2> QED BY <1>1, <1>4, <2>1, <2>3, <2>4, SMTT(30) DEF Ordered
<1> QED BY <1>2, <1>3, <1>4

(* A message less at the front.                                             *)
LEMMA OrderedLess ==
  ASSUME NEW line \in Seq(LiveMessages), line # <<>>,
         NEW k \in Nat, NEW n \in Nat, NEW z \in Nat, Ordered(line, k, n, z)
  PROVE  /\ line[1] \in Statuses =>
              \E y \in Nat : Ordered(Tail(line), k, n, y) /\ (Len(line) = z + n => Len(Tail(line)) = y + n)
         /\ line[1] \notin Statuses =>
              /\ line[1] = SampleOf(k + 1) /\ n > 0 /\ z = 0
              /\ Ordered(Tail(line), k + 1, n - 1, 0)
<1>0. PICK len : len = Len(line)
  OBVIOUS
<1>1. /\ len \in Nat \ {0} /\ Len(line) = len /\ Len(Tail(line)) = len - 1
      /\ \A i \in 1..(len - 1) : Tail(line)[i] = line[i + 1]
  BY <1>0
<1>2. PICK rest : rest = Tail(line)
  OBVIOUS
<1>3. CASE z > 0
  <2>1. line[1] \in Statuses
    BY <1>1, <1>3 DEF Ordered
  <2>2. Ordered(rest, k, n, z - 1)
    <3>1. z - 1 + n <= Len(rest)
      BY <1>1, <1>2 DEF Ordered
    <3>2. ASSUME NEW i \in 1..(z - 1) PROVE rest[i] \in Statuses
      <4>1. i + 1 \in 1..z /\ i \in 1..(len - 1)
        BY <1>1, <1>3 DEF Ordered
      <4> QED BY <1>1, <1>2, <4>1 DEF Ordered
    <3>3. ASSUME NEW i \in (z - 1 + 1)..(z - 1 + n) PROVE rest[i] = SampleOf(k + i - (z - 1))
      <4>1. i + 1 \in (z + 1)..(z + n) /\ i \in 1..(len - 1) /\ k + (i + 1) - z = k + i - (z - 1)
        BY <1>1, <1>3 DEF Ordered
      <4> QED BY <1>1, <1>2, <4>1 DEF Ordered
    <3>4. ASSUME NEW i \in (z - 1 + n + 1)..Len(rest) PROVE rest[i] \in Statuses
      <4>1. i + 1 \in (z + n + 1)..Len(line) /\ i \in 1..(len - 1)
        BY <1>1, <1>2, <1>3
      <4> QED BY <1>1, <1>2, <4>1 DEF Ordered
    <3> QED BY <3>1, <3>2, <3>3, <3>4 DEF Ordered
  <2>3. z - 1 \in Nat /\ (Len(line) = z + n => Len(rest) = z - 1 + n)
    BY <1>1, <1>2, <1>3
  <2> QED BY <1>2, <2>1, <2>2, <2>3
<1>4. CASE z = 0 /\ n > 0
  <2>1. line[1] = SampleOf(k + 1)
    <3>1. 1 \in (z + 1)..(z + n) /\ k + 1 - z = k + 1
      BY <1>4
    <3> QED BY <3>1 DEF Ordered
  <2>2. line[1] \notin Statuses
    BY <2>1, MessageFacts
  <2>3. Ordered(rest, k + 1, n - 1, 0)
    <3>1. 0 + (n - 1) <= Len(rest)
      BY <1>1, <1>2, <1>4 DEF Ordered
    <3>2. \A i \in 1..0 : rest[i] \in Statuses
      OBVIOUS
    <3>3. ASSUME NEW i \in (0 + 1)..(0 + (n - 1)) PROVE rest[i] = SampleOf(k + 1 + i - 0)
      <4>1. i + 1 \in (z + 1)..(z + n) /\ i \in 1..(len - 1) /\ k + (i + 1) - z = k + 1 + i - 0
        BY <1>1, <1>4 DEF Ordered
      <4> QED BY <1>1, <1>2, <4>1 DEF Ordered
    <3>4. ASSUME NEW i \in (0 + (n - 1) + 1)..Len(rest) PROVE rest[i] \in Statuses
      <4>1. i + 1 \in (z + n + 1)..Len(line) /\ i \in 1..(len - 1)
        BY <1>1, <1>2, <1>4
      <4> QED BY <1>1, <1>2, <4>1 DEF Ordered
    <3> QED BY <3>1, <3>2, <3>3, <3>4 DEF Ordered
  <2> QED BY <1>2, <1>4, <2>1, <2>2, <2>3
<1>5. CASE z = 0 /\ n = 0
  <2>1. line[1] \in Statuses
    <3>1. 1 \in (z + n + 1)..Len(line)
      BY <1>1, <1>5
    <3> QED BY <3>1 DEF Ordered
  <2>2. Ordered(rest, k, 0, 0)
    <3>1. ASSUME NEW i \in (0 + 0 + 1)..Len(rest) PROVE rest[i] \in Statuses
      <4>1. i + 1 \in (z + n + 1)..Len(line) /\ i \in 1..(len - 1)
        BY <1>1, <1>2, <1>5
      <4> QED BY <1>1, <1>2, <4>1 DEF Ordered
    <3>2. 0 + 0 <= Len(rest)
      BY <1>1, <1>2
    <3> QED BY <3>1, <3>2 DEF Ordered
  <2>3. Len(line) # z + n
    BY <1>1, <1>5
  <2> QED BY <1>2, <1>5, <2>1, <2>2, <2>3
<1> QED BY <1>3, <1>4, <1>5

(* What the receiver does leaves viewers and event loop alone.               *)
LEMMA ViewersSame ==
  ASSUME SInv, UNCHANGED <<getVars, mainVars, viewerVars>>
  PROVE  /\ Connections' /\ last_status' = announced' /\ EveryoneInformed' /\ StreamUnbroken'
         /\ \A k : UpToDate(k)' <=> UpToDate(k)
<1> USE DEF getVars, mainVars, viewerVars
<1>1. Connections'
  BY DEF SInv, Connections
<1>2. last_status' = announced' /\ EveryoneInformed'
  BY DEF SInv, EveryoneInformed
<1>3. StreamUnbroken'
  BY DEF SInv, StreamUnbroken
<1>4. \A k : UpToDate(k)' <=> UpToDate(k)
  BY DEF UpToDate
<1> QED BY <1>1, <1>2, <1>3, <1>4

(* It takes a status, an error or the next sample into its hand.             *)
LEMMA PutStep ==
  ASSUME SInv, rcv # "put", NEW m \in LiveMessages, NEW next \in {"open", "recv", "closing", "done"},
         Put(m, next), UNCHANGED <<source, queue, getVars, mainVars, viewerVars>>,
         \/ m \in Statuses /\ sent' = sent /\ (next = "open" => rcv = "check") /\ next # "recv"
         \/ m = SampleOf(sent + 1) /\ sent' = sent + 1 /\ next = "recv" /\ rcv = "recv"
            /\ sent < MaxSamples
  PROVE  SInv'
<1>1. rcv' = "put" /\ item' = m /\ after' = next
  BY DEF Put
<1>2. ServerTypes'
  <2>1. sent' \in 0..MaxSamples
    BY QueueAssumption DEF SInv, ServerTypes
  <2> QED BY <1>1, <2>1 DEF SInv, ServerTypes, getVars, mainVars, viewerVars
<1>3. Beginning'
  BY <1>1 DEF SInv, Beginning
<1>4. Carried'
  <2> SUFFICES ASSUME ~cancelled
               PROVE  \E k, n, z \in Nat :
                         /\ Ordered(Pending', k, n, z) /\ UpToDate(k)' /\ k + n = sent'
                         /\ MoreSamples' => Len(Pending') = z + n
    BY DEF Carried, mainVars, Ordered
  <2>1. PICK k, n, z \in Nat :
           /\ Ordered(Pending, k, n, z) /\ UpToDate(k) /\ k + n = sent
           /\ MoreSamples => Len(Pending) = z + n
    BY DEF SInv, Carried
  <2>2. PICK line, more : line = Pending /\ more = Pending'
    OBVIOUS
  <2>3. /\ Len(more) = Len(line) + 1 /\ more[Len(line) + 1] = m
        /\ \A i \in 1..Len(line) : more[i] = line[i]
    BY <1>1, <2>2, OneMore DEF SInv, getVars
  <2>4. line \in Seq(LiveMessages) /\ more \in Seq(LiveMessages) /\ Len(line) \in Nat
    <3>1. Pending \in Seq(LiveMessages)
      BY PendingType DEF SInv
    <3>2. Pending' \in Seq(LiveMessages)
      BY <1>1, OneMore DEF SInv, getVars
    <3> QED BY <2>2, <3>1, <3>2
  <2>5. Ordered(line, k, n, z) /\ UpToDate(k)'
    BY <2>1, <2>2, ViewersSame
  <2>6. CASE m \in Statuses /\ sent' = sent /\ next \in {"closing", "done"}
    <3>1. Ordered(more, k, n, z)
      BY <2>3, <2>4, <2>5, <2>6, OrderedMore
    <3>2. ~MoreSamples'
      BY <1>1, <2>6 DEF MoreSamples
    <3> QED BY <2>1, <2>2, <2>5, <2>6, <3>1, <3>2
  <2>7. CASE m \in Statuses /\ sent' = sent /\ next = "open"
    <3>1. sent = 0 /\ MoreSamples
      BY <2>7 DEF SInv, Beginning, MoreSamples
    <3>2. n = 0 /\ k = 0 /\ Len(line) = z
      BY <2>1, <2>2, <3>1
    <3>3. Ordered(more, k, 0, z + 1)
      BY <2>3, <2>4, <2>5, <2>7, <3>2, OrderedMore
    <3>4. Len(more) = (z + 1) + 0 /\ k + 0 = sent' /\ z + 1 \in Nat
      BY <2>3, <2>7, <3>1, <3>2
    <3> QED BY <2>2, <2>5, <3>3, <3>4
  <2>8. CASE m = SampleOf(sent + 1) /\ sent' = sent + 1 /\ next = "recv" /\ rcv = "recv"
    <3>1. MoreSamples
      BY <2>8 DEF MoreSamples
    <3>2. Len(line) = z + n /\ k + n + 1 = sent + 1
      BY <2>1, <2>2, <3>1
    <3>3. Ordered(more, k, n + 1, z)
      BY <2>3, <2>4, <2>5, <2>8, <3>2, OrderedMore
    <3>4. Len(more) = z + (n + 1) /\ k + (n + 1) = sent' /\ n + 1 \in Nat
      <4>1. PICK len : len = Len(line)
        OBVIOUS
      <4>2. len = z + n /\ Len(more) = len + 1 /\ k + n + 1 = sent + 1 /\ sent' = sent + 1
        BY <2>3, <2>8, <3>2, <4>1
      <4> QED BY <4>2
    <3> QED BY <2>2, <2>5, <3>3, <3>4
  <2> QED BY <2>6, <2>7, <2>8
<1> QED BY <1>2, <1>3, <1>4, ViewersSame DEF SInv

(* It goes on without a message.                                            *)
LEMMA SilentStep ==
  ASSUME SInv, rcv # "put", rcv' \in {"recv", "closing", "done"}, source' \in {"none", "open", "closed"},
         rcv' = "recv" => rcv = "open",
         UNCHANGED <<item, after, sent, queue, getVars, mainVars, viewerVars>>
  PROVE  SInv'
<1>1. ServerTypes' /\ Beginning'
  BY DEF SInv, ServerTypes, Beginning, getVars, mainVars, viewerVars
<1>2. Pending' = Pending /\ (MoreSamples' => MoreSamples)
  BY DEF Pending, MoreSamples, getVars
<1>3. Carried'
  <2>1. PICK line : line = Pending
    OBVIOUS
  <2> SUFFICES ASSUME ~cancelled
               PROVE  \E k, n, z \in Nat :
                         /\ Ordered(line, k, n, z) /\ UpToDate(k)' /\ k + n = sent'
                         /\ MoreSamples' => Len(line) = z + n
    BY <1>2, <2>1 DEF Carried, mainVars, Ordered
  <2> QED BY <1>2, <2>1, ViewersSame DEF SInv, Carried
<1> QED BY <1>1, <1>3, ViewersSame DEF SInv

LEMMA ReceiverStep ==
  ASSUME SInv, Check \/ OpenSource \/ Receive \/ SourceEnds \/ SourceRaises \/ CloseSource
  PROVE  SInv'
<1>1. CASE Check
  <2>1. rcv = "check" /\ sent' = sent /\ (Put(Status, "open") \/ Put(Error, "done"))
        /\ UNCHANGED <<source, queue, getVars, mainVars, viewerVars>>
    BY <1>1 DEF Check
  <2>2. CASE Put(Status, "open")
    BY <2>1, <2>2, MessageFacts, PutStep
  <2>3. CASE Put(Error, "done")
    BY <2>1, <2>3, MessageFacts, PutStep
  <2> QED BY <2>1, <2>2, <2>3
<1>2. CASE OpenSource
  <2>1. CASE rcv' = "recv" /\ source' = "open" /\ UNCHANGED <<item, after>>
    BY <1>2, <2>1, SilentStep DEF OpenSource
  <2>2. CASE Put(Error, "done") /\ UNCHANGED source
    BY <1>2, <2>2, MessageFacts, PutStep DEF OpenSource
  <2> QED BY <1>2, <2>1, <2>2 DEF OpenSource
<1>3. CASE Receive
  <2>1. sent \in Nat /\ SampleOf(sent + 1) \in LiveMessages
    BY MessageFacts DEF SInv, ServerTypes
  <2>2. Put(SampleOf(sent + 1), "recv") /\ rcv = "recv" /\ sent' = sent + 1 /\ sent < MaxSamples
        /\ UNCHANGED <<source, queue, getVars, mainVars, viewerVars>>
    BY <1>3 DEF Receive, SampleOf
  <2> QED BY <2>1, <2>2, PutStep
<1>4. CASE SourceEnds
  BY <1>4, SilentStep DEF SourceEnds, SInv, ServerTypes
<1>5. CASE SourceRaises
  BY <1>5, MessageFacts, PutStep DEF SourceRaises
<1>6. CASE CloseSource
  BY <1>6, SilentStep DEF CloseSource
<1> QED BY <1>1, <1>2, <1>3, <1>4, <1>5, <1>6

(* A message changes hands, and its place in the order stays.                *)
LEMMA PassedOn ==
  ASSUME SInv, UNCHANGED <<sent, mainVars, viewerVars>>, cancelled \/ Pending' = Pending,
         MoreSamples' => MoreSamples
  PROVE  Carried'
<1>1. PICK line : line = Pending
  OBVIOUS
<1> SUFFICES ASSUME ~cancelled
             PROVE  \E k, n, z \in Nat :
                       /\ Ordered(line, k, n, z) /\ UpToDate(k)' /\ k + n = sent'
                       /\ MoreSamples' => Len(line) = z + n
  BY <1>1 DEF Carried, mainVars, Ordered
<1>2. \A k : UpToDate(k)' <=> UpToDate(k)
  BY DEF UpToDate, viewerVars
<1> QED BY <1>1, <1>2 DEF SInv, Carried

LEMMA PutReturnsStep ==
  ASSUME SInv, PutReturns
  PROVE  SInv'
<1>1. /\ rcv = "put" /\ Len(queue) < MaxQueue /\ queue' = Append(queue, item) /\ rcv' = after
      /\ item' = NoMessage /\ after' = "done" /\ UNCHANGED <<source, sent, getVars, mainVars, viewerVars>>
  BY DEF PutReturns
<1>2. item \in LiveMessages /\ queue \in Seq(LiveMessages) /\ after \in {"open", "recv", "closing", "done"}
  BY <1>1 DEF SInv, ServerTypes
<1>3. ServerTypes'
  <2>1. queue' \in Seq(LiveMessages) /\ Len(queue') <= MaxQueue
    BY <1>1, <1>2, QueueAssumption
  <2> QED BY <1>1, <1>2, <2>1 DEF SInv, ServerTypes, getVars, mainVars, viewerVars
<1>4. Beginning'
  BY <1>1, <1>2 DEF SInv, Beginning
<1>5. Pending' = Pending
  <2>1. PICK h : h = InHand(got)
    OBVIOUS
  <2>2. h \in Seq(LiveMessages) /\ item # NoMessage
    BY <1>2, <2>1, HandType, MessageFacts DEF SInv, ServerTypes
  <2>3. Pending = h \o queue \o <<item>> /\ Pending' = h \o Append(queue, item) \o <<>>
    BY <1>1, <2>1, <2>2 DEF Pending, InHand, getVars
  <2> QED BY <1>2, <2>2, <2>3
<1>6. MoreSamples' => MoreSamples
  BY <1>1, <1>2 DEF MoreSamples
<1>7. Carried'
  BY <1>1, <1>5, <1>6, PassedOn
<1> QED BY <1>1, <1>3, <1>4, <1>7, ViewersSame DEF SInv

(* The executor's thread.                                                   *)
LEMMA GetterStep ==
  ASSUME SInv, AskGet \/ GetReturns
  PROVE  SInv'
<1>1. /\ getter # "got" /\ got = NoMessage
      /\ UNCHANGED <<rcvVars, mainVars, viewerVars>>
  BY DEF AskGet, GetReturns, SInv, ServerTypes
<1>2. ServerTypes' /\ (cancelled => getter' # "got") /\ (cancelled \/ Pending' = Pending)
  <2>1. CASE AskGet
    BY <1>1, <2>1 DEF AskGet, SInv, ServerTypes, Pending, rcvVars, mainVars, viewerVars
  <2>2. CASE GetReturns
    <3>1. queue \in Seq(LiveMessages) /\ queue # <<>> /\ queue' = Tail(queue) /\ Len(queue) <= MaxQueue
      BY <2>2 DEF GetReturns, SInv, ServerTypes
    <3>2. Head(queue) \in LiveMessages /\ queue' \in Seq(LiveMessages) /\ Len(queue') <= MaxQueue
      BY <3>1, QueueAssumption
    <3>3. IF cancelled THEN getter' = "idle" /\ got' = NoMessage
                       ELSE getter' = "got" /\ got' = Head(queue)
      BY <2>2 DEF GetReturns
    <3>4. ServerTypes'
      BY <1>1, <3>2, <3>3 DEF SInv, ServerTypes, rcvVars, mainVars, viewerVars
    <3>5. ASSUME ~cancelled PROVE Pending' = Pending
      <4>1. PICK h : h = InHand(item)
        OBVIOUS
      <4>2. h \in Seq(LiveMessages) /\ Head(queue) # NoMessage
        BY <3>2, <4>1, HandType, MessageFacts DEF SInv, ServerTypes
      <4>3. Pending = <<>> \o queue \o h /\ Pending' = <<Head(queue)>> \o Tail(queue) \o h
        BY <1>1, <3>1, <3>3, <3>5, <4>1, <4>2 DEF Pending, InHand, rcvVars
      <4>4. <<>> \o queue = queue /\ <<Head(queue)>> \o Tail(queue) = queue
        BY <3>1
      <4> QED BY <4>3, <4>4
    <3> QED BY <3>3, <3>4, <3>5
  <2> QED BY <2>1, <2>2
<1>3. Connections' /\ Beginning' /\ last_status' = announced' /\ EveryoneInformed' /\ StreamUnbroken'
  BY <1>1, <1>2 DEF SInv, Connections, Beginning, EveryoneInformed, StreamUnbroken,
                    rcvVars, mainVars, viewerVars
<1>4. Carried'
  BY <1>1, <1>2, PassedOn DEF MoreSamples, rcvVars
<1> QED BY <1>2, <1>3, <1>4 DEF SInv

(* A message goes to everyone who is connected.                              *)
LEMMA BroadcastStep ==
  ASSUME SInv, Broadcast
  PROVE  SInv'
<1>1. /\ getter = "got" /\ getter' = "idle" /\ got' = NoMessage
      /\ UNCHANGED <<rcvVars, queue, mainVars, clients, used>>
      /\ last_status' = IF IsStatus(got) THEN got ELSE last_status
      /\ announced' = IF IsStatus(got) THEN got ELSE announced
  BY DEF Broadcast, SendToAll
<1>2. got \in LiveMessages /\ ~cancelled /\ (IsStatus(got) <=> got \in Statuses)
  BY <1>1, MessageFacts DEF SInv, ServerTypes, Connections
<1>3. \A c \in Viewers : heard'[c] = IF c \in clients /\ got \in Statuses THEN got ELSE heard[c]
  BY <1>2 DEF Broadcast, SendToAll
<1>4. \A c \in Viewers : shown'[c] = IF c \in clients /\ got \notin Statuses THEN Append(shown[c], got[2])
                                     ELSE shown[c]
  BY <1>2 DEF Broadcast, SendToAll
<1>5. heard' = [c \in Viewers |-> heard'[c]] /\ shown' = [c \in Viewers |-> shown'[c]]
  BY DEF Broadcast, SendToAll
<1>6. clients \subseteq used /\ used \subseteq Viewers /\ \A c \in Viewers : shown[c] \in Seq(Nat)
  BY DEF SInv, ServerTypes
<1>7. got \notin Statuses => got[2] \in Nat
  BY <1>2 DEF LiveMessages, SampleOf
<1>8. ServerTypes'
  <2>1. \A c \in Viewers : heard'[c] \in {NoMessage} \cup Statuses
    BY <1>3 DEF SInv, ServerTypes
  <2>2. ASSUME NEW c \in Viewers PROVE shown'[c] \in Seq(Nat)
    <3>1. PICK s : s = shown[c]
      OBVIOUS
    <3>2. PICK number : number = got[2]
      OBVIOUS
    <3>3. s \in Seq(Nat) /\ (number \in Nat => Append(s, number) \in Seq(Nat))
      BY <1>6, <3>1
    <3> QED BY <1>4, <1>7, <3>1, <3>2, <3>3
  <2>3. heard' \in [Viewers -> {NoMessage} \cup Statuses] /\ shown' \in [Viewers -> Seq(Nat)]
    BY <1>5, <2>1, <2>2
  <2>4. last_status' \in {NoMessage} \cup Statuses
    BY <1>1, <1>2 DEF SInv, ServerTypes
  <2> QED BY <1>1, <2>3, <2>4 DEF SInv, ServerTypes, rcvVars, mainVars
<1>9. Connections'
  BY <1>1, <1>3, <1>4, <1>6 DEF SInv, Connections, mainVars
<1>10. Beginning' /\ last_status' = announced'
  BY <1>1 DEF SInv, Beginning, rcvVars
<1>11. EveryoneInformed'
  BY <1>1, <1>2, <1>3, <1>6 DEF SInv, EveryoneInformed
<1>12. PICK k, n, z \in Nat :
         /\ Ordered(Pending, k, n, z) /\ UpToDate(k) /\ k + n = sent
         /\ MoreSamples => Len(Pending) = z + n
  BY <1>2 DEF SInv, Carried
<1>13. PICK line : line = Pending
  OBVIOUS
<1>14. line \in Seq(LiveMessages) /\ line # <<>> /\ line[1] = got /\ Tail(line) = Pending'
  <2>1. PICK rest : rest = queue \o InHand(item)
    OBVIOUS
  <2>2. InHand(item) \in Seq(LiveMessages) /\ queue \in Seq(LiveMessages)
    BY HandType DEF SInv, ServerTypes
  <2>3. rest \in Seq(LiveMessages)
    BY <2>1, <2>2
  <2>4. line = <<got>> \o rest
    <3>1. InHand(got) = <<got>>
      BY <1>2, HandType
    <3>2. line = (<<got>> \o queue) \o InHand(item)
      BY <1>13, <3>1 DEF Pending
    <3>3. <<got>> \in Seq(LiveMessages)
      BY <1>2
    <3> QED BY <2>1, <2>2, <3>2, <3>3
  <2>5. Pending' = <<>> \o rest
    BY <1>1, <2>1, <2>2 DEF Pending, InHand, rcvVars
  <2> QED BY <1>2, <2>3, <2>4, <2>5
<1>15. Ordered(line, k, n, z) /\ k + n = sent /\ (MoreSamples => Len(line) = z + n)
  BY <1>12, <1>13
<1>16. sent' = sent /\ (MoreSamples' <=> MoreSamples)
  BY <1>1 DEF rcvVars, MoreSamples
<1>17. CASE got \in Statuses
  <2>1. PICK y \in Nat : Ordered(Tail(line), k, n, y) /\ (Len(line) = z + n => Len(Tail(line)) = y + n)
    BY <1>14, <1>15, <1>17, OrderedLess
  <2>2. UpToDate(k)'
    BY <1>1, <1>4, <1>6, <1>12, <1>17 DEF UpToDate
  <2>3. Carried'
    BY <1>14, <1>15, <1>16, <2>1, <2>2 DEF Carried, Ordered
  <2>4. StreamUnbroken'
    BY <1>4, <1>17 DEF SInv, StreamUnbroken
  <2> QED BY <1>8, <1>9, <1>10, <1>11, <2>3, <2>4 DEF SInv
<1>18. CASE got \notin Statuses
  <2>1. got = SampleOf(k + 1) /\ n > 0 /\ z = 0 /\ Ordered(Tail(line), k + 1, n - 1, 0)
    BY <1>14, <1>15, <1>18, OrderedLess
  <2>2. got[2] = k + 1
    BY <2>1 DEF SampleOf
  <2>3. UpToDate(k + 1)'
    <3> SUFFICES ASSUME NEW c \in clients PROVE shown'[c][Len(shown'[c])] = k + 1
      BY <1>1 DEF UpToDate
    <3>1. shown'[c] = Append(shown[c], k + 1) /\ shown[c] \in Seq(Nat)
      BY <1>4, <1>6, <1>18, <2>2
    <3> QED BY <3>1
  <2>4. Carried'
    <3>1. PICK rest : rest = Tail(line)
      OBVIOUS
    <3>2. Ordered(rest, k + 1, n - 1, 0) /\ k + 1 \in Nat /\ n - 1 \in Nat /\ (k + 1) + (n - 1) = sent'
      BY <1>15, <1>16, <2>1, <3>1
    <3>3. MoreSamples' => Len(rest) = 0 + (n - 1)
      <4>1. Len(rest) = Len(line) - 1 /\ Len(line) \in Nat
        BY <1>14, <3>1
      <4> QED BY <1>15, <1>16, <2>1, <4>1
    <3> QED BY <1>14, <2>3, <3>1, <3>2, <3>3 DEF Carried, Ordered
  <2>5. StreamUnbroken'
    <3> SUFFICES ASSUME NEW c \in Viewers, NEW i \in 2..Len(shown'[c])
                 PROVE  shown'[c][i] = shown'[c][i - 1] + 1
      BY DEF StreamUnbroken
    <3>1. PICK s : s = shown[c]
      OBVIOUS
    <3>2. s \in Seq(Nat) /\ \A j \in 2..Len(s) : s[j] = s[j - 1] + 1
      BY <1>6, <3>1 DEF SInv, StreamUnbroken
    <3>3. CASE c \in clients
      <4>1. shown'[c] = Append(s, k + 1)
        BY <1>4, <1>18, <2>2, <3>1, <3>3
      <4>2. s # <<>> => s[Len(s)] = k
        BY <1>12, <3>1, <3>3 DEF UpToDate
      <4>3. CASE i = Len(s) + 1
        BY <3>2, <4>1, <4>2, <4>3
      <4>4. CASE i # Len(s) + 1
        <5>1. i \in 2..Len(s) /\ i - 1 \in 1..Len(s)
          BY <3>2, <4>1, <4>4
        <5> QED BY <3>2, <4>1, <5>1
      <4> QED BY <4>3, <4>4
    <3>4. CASE c \notin clients
      BY <1>4, <3>1, <3>2, <3>4
    <3> QED BY <3>3, <3>4
  <2> QED BY <1>8, <1>9, <1>10, <1>11, <2>4, <2>5 DEF SInv
<1> QED BY <1>17, <1>18

(* Whoever joins is told the last status, and will begin with the next sample. *)
LEMMA ConnectStep ==
  ASSUME SInv, NEW c \in Viewers, Connect(c)
  PROVE  SInv'
<1>1. /\ main = "serving" /\ c \notin used /\ used' = used \cup {c} /\ clients' = clients \cup {c}
      /\ heard' = IF last_status = NoMessage THEN heard ELSE [heard EXCEPT ![c] = last_status]
      /\ UNCHANGED <<rcvVars, queue, getVars, mainVars, last_status, shown, announced>>
  BY DEF Connect
<1>2. ~cancelled /\ heard[c] = NoMessage /\ shown[c] = <<>> /\ c \notin clients
  BY <1>1 DEF SInv, ServerTypes, Connections
<1>3. \A d \in Viewers : heard'[d] = IF d = c THEN last_status ELSE heard[d]
  BY <1>1, <1>2 DEF SInv, ServerTypes
<1>4. ServerTypes'
  <2>1. heard' \in [Viewers -> {NoMessage} \cup Statuses]
    BY <1>1 DEF SInv, ServerTypes
  <2> QED BY <1>1, <2>1 DEF SInv, ServerTypes, rcvVars, getVars, mainVars
<1>5. Connections'
  BY <1>1, <1>2, <1>3 DEF SInv, Connections, getVars, mainVars
<1>6. Beginning' /\ last_status' = announced' /\ StreamUnbroken'
  BY <1>1 DEF SInv, Beginning, StreamUnbroken, rcvVars
<1>7. EveryoneInformed'
  BY <1>1, <1>3 DEF SInv, EveryoneInformed, ServerTypes
<1>8. Carried'
  <2>1. PICK line : line = Pending
    OBVIOUS
  <2>2. Pending' = line /\ (MoreSamples' <=> MoreSamples) /\ sent' = sent
    BY <1>1, <2>1 DEF Pending, MoreSamples, rcvVars, getVars
  <2>3. \A k : UpToDate(k) => UpToDate(k)'
    BY <1>1, <1>2 DEF UpToDate
  <2>4. PICK k, n, z \in Nat :
          /\ Ordered(line, k, n, z) /\ UpToDate(k) /\ k + n = sent
          /\ MoreSamples => Len(line) = z + n
    BY <1>2, <2>1 DEF SInv, Carried
  <2> QED BY <2>2, <2>3, <2>4 DEF Carried, Ordered
<1> QED BY <1>4, <1>5, <1>6, <1>7, <1>8 DEF SInv

(* Someone leaves, or the server is told to stop, stops and ends.             *)
LEMMA LeavingStep ==
  ASSUME SInv,
         Interrupt \/ Finally \/ Exit \/ (\E c \in Viewers : Disconnect(c)) \/ UNCHANGED serverVars
  PROVE  SInv'
<1>1. /\ clients' \subseteq clients
      /\ UNCHANGED <<rcvVars, queue, used, last_status, heard, shown, announced>>
  BY DEF Interrupt, Finally, Exit, Disconnect, serverVars, viewerVars
<1>2. /\ main' \in {"serving", "closing", "stopped", "exited"} /\ cancelled' \in BOOLEAN
      /\ cancelled' <=> main' \in {"stopped", "exited"}
      /\ \/ UNCHANGED <<getter, got>>
         \/ getter' \in {"idle", "waiting"} /\ got' = NoMessage
      /\ cancelled' => clients' = {} /\ getter' # "got"
      /\ ~cancelled' => ~cancelled /\ UNCHANGED got
  <2> USE DEF SInv, ServerTypes, Connections, mainVars, getVars
  <2>1. CASE Interrupt
    BY <2>1, <1>1 DEF Interrupt, viewerVars
  <2>2. CASE Finally
    BY <2>2, <1>1 DEF Finally, viewerVars
  <2>3. CASE Exit
    BY <2>3, <1>1 DEF Exit, viewerVars
  <2>4. CASE (\E c \in Viewers : Disconnect(c)) \/ UNCHANGED serverVars
    <3>1. UNCHANGED <<getVars, mainVars>>
      BY <2>4 DEF Disconnect, serverVars
    <3> QED BY <1>1, <3>1
  <2> QED BY <2>1, <2>2, <2>3, <2>4
<1>3. ServerTypes'
  BY <1>1, <1>2 DEF SInv, ServerTypes, rcvVars
<1>4. Connections'
  BY <1>1, <1>2 DEF SInv, Connections
<1>5. Beginning' /\ last_status' = announced' /\ EveryoneInformed' /\ StreamUnbroken'
  BY <1>1 DEF SInv, Beginning, EveryoneInformed, StreamUnbroken, rcvVars
<1>6. Carried'
  <2> SUFFICES ASSUME ~cancelled'
               PROVE  \E k, n, z \in Nat :
                         /\ Ordered(Pending', k, n, z) /\ UpToDate(k)' /\ k + n = sent'
                         /\ MoreSamples' => Len(Pending') = z + n
    BY DEF Carried, Ordered
  <2>1. PICK line : line = Pending
    OBVIOUS
  <2>2. Pending' = line /\ (MoreSamples' <=> MoreSamples) /\ sent' = sent
    BY <1>1, <1>2, <2>1 DEF Pending, MoreSamples, rcvVars
  <2>3. \A k : UpToDate(k) => UpToDate(k)'
    BY <1>1 DEF UpToDate
  <2>4. PICK k, n, z \in Nat :
          /\ Ordered(line, k, n, z) /\ UpToDate(k) /\ k + n = sent
          /\ MoreSamples => Len(line) = z + n
    BY <1>2, <2>1 DEF SInv, Carried
  <2> QED BY <2>2, <2>3, <2>4
<1> QED BY <1>3, <1>4, <1>5, <1>6, <1>1 DEF SInv

LEMMA NextSInv == SInv /\ [ServerNext]_serverVars => SInv'
<1> SUFFICES ASSUME SInv, [ServerNext]_serverVars PROVE SInv'
  OBVIOUS
<1>1. CASE Receiver \/ AskGet \/ GetReturns \/ Broadcast
  BY <1>1, ReceiverStep, PutReturnsStep, GetterStep, BroadcastStep DEF Receiver
<1>2. ASSUME NEW c \in Viewers, Connect(c) PROVE SInv'
  BY <1>2, ConnectStep
<1>3. CASE Interrupt \/ Finally \/ Exit \/ (\E c \in Viewers : Disconnect(c)) \/ UNCHANGED serverVars
  BY <1>3, LeavingStep
<1> QED BY <1>1, <1>2, <1>3 DEF ServerNext

(* For any number of viewers, queue and samples: whoever is connected knows the *)
(* last status or error that went out, however late the connection came, and   *)
(* the queue keeps its limit.                                               *)
THEOREM ViewersInformedCorrect == ServerSpec => []ViewersInformed
<1>1. SInv => ViewersInformed
  BY DEF SInv, ServerTypes, ViewersInformed, ServerTypeOK, Statuses
<1> QED BY <1>1, InitSInv, NextSInv, PTL DEF ServerSpec

(* For any number of viewers, queue and samples: no browser misses a sample    *)
(* between two that it is shown, whatever comes, goes, fails or stops.        *)
THEOREM StreamUnbrokenCorrect == ServerSpec => []StreamUnbroken
<1>1. SInv => StreamUnbroken
  BY DEF SInv
<1> QED BY <1>1, InitSInv, NextSInv, PTL DEF ServerSpec
-----------------------------------------------------------------------------
(* Live inference *)

(* The ranges of the state; packets and samples are frames that arrived.    *)
Typed ==
  /\ args \in Programs
  /\ stage \in Listening \cup {"start", "closing", "saving", "exited"}
  /\ cause \in {"none", "refused", "gate", "interrupt", "failed", "killed"}
  /\ signals \in 0 .. MaxSignals /\ now \in 0 .. MaxTime /\ arrived \in 0 .. MaxFrames
  /\ calib_start \in Nat /\ phase_start \in Nat /\ phase_idx \in 0 .. Len(args.phases)
  /\ made \in Seq(0 .. arrived) /\ pending \in Seq(0 .. arrived) /\ calib \in Seq(0 .. arrived)
  /\ win \in Seq(0 .. arrived) /\ window \in Seq(0 .. arrived) /\ pushed \in Nat /\ window_idx \in Nat
  /\ samples \in Seq(0 .. arrived) /\ writer \in BOOLEAN
  /\ seq \in Nat /\ writer_last_seq \in Nat /\ dropped \in Nat /\ missed \in Nat /\ lost \in Nat
  /\ votes \in [TaskNames -> Seq(BOOLEAN)]
  /\ \A t \in TaskNames : Len(votes[t]) <= AggregateWindows

(* What was decoded is the calibration, what the windower got, what is left.  *)
Packets ==
  /\ Len(made) = Len(calib) + pushed + Len(pending)
  /\ \A i \in 1 .. Len(calib) : calib[i] = made[i]
  /\ \A i \in 1 .. Len(pending) : pending[i] = made[Len(calib) + pushed + i]
  /\ stage \in {"start", "gate", "calibrating"} => pushed = 0
  /\ stage \in {"start", "gate"} => Len(calib) = 0

(* The windower holds the latest of them.                                    *)
Buffer ==
  /\ Len(win) = IF pushed < WindowPackets THEN pushed ELSE WindowPackets
  /\ \A i \in 1 .. Len(win) : win[i] = made[Len(calib) + pushed - Len(win) + i]

(* As many windows were shown as the packets give, and the last is the latest. *)
Windows ==
  /\ window_idx = Cardinality(BatchStarts(pushed))
  /\ window_idx = 0 => pushed < WindowPackets /\ window = <<>>
  /\ window_idx > 0 =>
       /\ (window_idx - 1) * StridePackets <= pushed - WindowPackets
       /\ pushed - WindowPackets < (window_idx - 1) * StridePackets + StridePackets
       /\ Len(window) = WindowPackets
       /\ \A i \in 1 .. WindowPackets :
            window[i] = made[Len(calib) + (window_idx - 1) * StridePackets + i]

(* No phase has begun before the calibration has ended.                    *)
PhaseTime ==
  /\ stage \in {"start", "gate", "calibrating"} => phase_idx = 0
  /\ PhasesNotCutShort

(* With --collect: the recording begins where the calibration ended.           *)
Recording ==
  args.collect =>
    /\ Len(pending) <= 1
    /\ stage = "streaming" => writer
    /\ ~writer => samples = <<>> /\ pushed = 0
    /\ writer => /\ stage \notin {"start", "gate", "calibrating"}
                 /\ \A i \in Len(calib) + 1 .. Len(made) : made[i] \in ToSet(samples)
                 /\ \A i \in 1 .. Len(calib), j \in 1 .. Len(samples) : calib[i] < samples[j]

(* What the next count will add for the frame the loop is at.                *)
Owed == IF hand # <<>> /\ writer_last_seq # 0 /\ Gap > 0 THEN Gap ELSE 0

(* The frame in hand is in the recording, and the drops lag by its gap only.  *)
Counting ==
  /\ hand # <<>> => pending = <<>> /\ seq > 0
  /\ args.collect =>
       /\ writer /\ hand # <<>> => arrived \in ToSet(samples)
       /\ IF samples = <<>> THEN writer_last_seq = 0
          ELSE hand = <<>> => writer_last_seq = seq /\ seq > 0
       /\ missed <= dropped + Owed /\ dropped + Owed <= lost

(* The inductive invariant.                                                *)
LiveInv == Typed /\ Packets /\ Buffer /\ Windows /\ PhaseTime /\ Recording /\ Counting

-----------------------------------------------------------------------------
(* Numbers *)

(* Multiples of the stride.                                                *)
LEMMA MultipleMod == ASSUME NEW s \in Nat \ {0}, NEW k \in Nat PROVE (k * s) % s = 0
OBVIOUS

(* Nothing else leaves no remainder.                                       *)
LEMMA ModMultiple == ASSUME NEW s \in Nat \ {0}, NEW m \in Nat, m % s = 0
                     PROVE \E k \in Nat : m = k * s
OBVIOUS

(* The next one.                                                           *)
LEMMA NextMultiple ==
  ASSUME NEW s \in Nat \ {0}, NEW k \in Nat, NEW m \in Nat, m % s = 0,
         k * s < m, m <= k * s + s
  PROVE m = (k + 1) * s
<1>1. PICK j \in Nat : m = j * s BY ModMultiple
<1>2. (k + 1) * s = k * s + s /\ k * s \in Nat /\ j * s \in Nat BY Z3
<1>3. j > k
  <2>1. j <= k => j * s <= k * s OBVIOUS
  <2>2. QED BY <1>1, <1>2, <2>1
<1>4. j <= k + 1
  <2>1. j >= k + 2 => j * s >= (k + 2) * s OBVIOUS
  <2>2. (k + 2) * s = k * s + s + s OBVIOUS
  <2>3. QED BY <1>1, <1>2, <2>1, <2>2
<1>5. QED BY <1>1, <1>3, <1>4

(* One packet more gives one window more exactly when it makes one ready.  *)
LEMMA StartsStep ==
  ASSUME NEW n \in Nat
  PROVE /\ IsFiniteSet(BatchStarts(n)) /\ Cardinality(BatchStarts(n)) \in Nat
        /\ Ready(n + 1) => Cardinality(BatchStarts(n + 1)) = Cardinality(BatchStarts(n)) + 1
        /\ ~Ready(n + 1) => BatchStarts(n + 1) = BatchStarts(n)
<1> USE WindowAssumption
<1>1. IsFiniteSet(BatchStarts(n)) /\ Cardinality(BatchStarts(n)) \in Nat
  <2>1. IsFiniteSet(0 .. n - WindowPackets) BY FS_Interval
  <2>2. QED BY <2>1, FS_Subset, FS_CardinalityType DEF BatchStarts
<1>2. ASSUME Ready(n + 1)
      PROVE  Cardinality(BatchStarts(n + 1)) = Cardinality(BatchStarts(n)) + 1
  <2> DEFINE m == n + 1 - WindowPackets
  <2>1. m \in Nat /\ m % StridePackets = 0 BY <1>2 DEF Ready
  <2>2. BatchStarts(n + 1) = BatchStarts(n) \cup {m} BY <2>1 DEF BatchStarts
  <2>3. m \notin BatchStarts(n) BY DEF BatchStarts
  <2>4. QED BY <1>1, <2>2, <2>3, FS_AddElement
<1>3. ASSUME ~Ready(n + 1) PROVE BatchStarts(n + 1) = BatchStarts(n)
  BY <1>3 DEF Ready, BatchStarts
<1>4. QED BY <1>1, <1>2, <1>3

-----------------------------------------------------------------------------
(* Sequences of frame numbers *)

(* More frames may be in it than there are.                                *)
LEMMA SeqWider ==
  ASSUME NEW S, NEW T, S \subseteq T, NEW q \in Seq(S) PROVE q \in Seq(T)
OBVIOUS

(* One element more.                                                       *)
LEMMA AppendSeq ==
  ASSUME NEW S, NEW q \in Seq(S), NEW x \in S
  PROVE /\ Append(q, x) \in Seq(S) /\ Len(Append(q, x)) = Len(q) + 1
        /\ \A i \in 1 .. Len(q) : Append(q, x)[i] = q[i]
        /\ Append(q, x)[Len(q) + 1] = x
OBVIOUS

(* Nothing is lost by it.                                                  *)
LEMMA AppendToSet ==
  ASSUME NEW S, NEW q \in Seq(S), NEW x \in S
  PROVE ToSet(q) \subseteq ToSet(Append(q, x)) /\ x \in ToSet(Append(q, x))
<1>1. DOMAIN q = 1 .. Len(q) /\ DOMAIN Append(q, x) = 1 .. Len(q) + 1 /\ Len(q) \in Nat OBVIOUS
<1> QED BY <1>1, AppendSeq DEF ToSet

(* One element less.                                                       *)
LEMMA TailSeq ==
  ASSUME NEW S, NEW q \in Seq(S), q # <<>>
  PROVE /\ Tail(q) \in Seq(S) /\ Len(Tail(q)) = Len(q) - 1 /\ Len(q) >= 1 /\ Head(q) \in S
        /\ Head(q) = q[1]
        /\ \A i \in 1 .. Len(q) - 1 : Tail(q)[i] = q[i + 1]
OBVIOUS

(* A deque drops its oldest element when it is full.                         *)
LEMMA PushedSeq ==
  ASSUME NEW S, NEW q \in Seq(S), NEW x \in S, NEW m \in Nat \ {0}, Len(q) <= m
  PROVE /\ Pushed(q, x, m) \in Seq(S)
        /\ Len(Pushed(q, x, m)) = IF Len(q) < m THEN Len(q) + 1 ELSE m
        /\ Pushed(q, x, m)[Len(Pushed(q, x, m))] = x
        /\ Len(q) < m => \A i \in 1 .. Len(q) : Pushed(q, x, m)[i] = q[i]
        /\ Len(q) = m => \A i \in 1 .. m - 1 : Pushed(q, x, m)[i] = q[i + 1]
<1> DEFINE a == Append(q, x)
<1>1. /\ a \in Seq(S) /\ Len(a) = Len(q) + 1 /\ a # <<>> /\ Len(q) \in Nat
      /\ \A i \in 1 .. Len(q) : a[i] = q[i]
      /\ a[Len(q) + 1] = x
  BY AppendSeq
<1>2. Pushed(q, x, m) = IF Len(a) > m THEN Tail(a) ELSE a BY DEF Pushed
<1> HIDE DEF a
<1>3. CASE Len(q) < m
  <2>1. Pushed(q, x, m) = a BY <1>1, <1>2, <1>3
  <2> QED BY <1>1, <1>3, <2>1
<1>4. CASE Len(q) = m
  <2>1. Pushed(q, x, m) = Tail(a) BY <1>1, <1>2, <1>4
  <2>2. /\ Tail(a) \in Seq(S) /\ Len(Tail(a)) = m
        /\ \A i \in 1 .. m : Tail(a)[i] = a[i + 1]
    BY <1>1, <1>4, TailSeq
  <2> QED BY <1>1, <1>4, <2>1, <2>2
<1> QED BY <1>1, <1>3, <1>4

(* What a full deque keeps moves up by one.                                *)
LEMMA FullPush ==
  ASSUME NEW S, NEW q \in Seq(S), NEW x \in S, NEW m \in Nat \ {0}, Len(q) = m,
         NEW i \in 1 .. m - 1
  PROVE  Pushed(q, x, m)[i] = q[i + 1]
<1> DEFINE a == Append(q, x)
<1>1. a \in Seq(S) /\ Len(a) = m + 1 /\ a # <<>> /\ \A j \in 1 .. m : a[j] = q[j]
  BY AppendSeq
<1>2. Pushed(q, x, m) = IF Len(a) > m THEN Tail(a) ELSE a
  BY DEF Pushed
<1> HIDE DEF a
<1>3. Pushed(q, x, m) = Tail(a)
  BY <1>1, <1>2
<1>4. i \in 1 .. Len(a) - 1 /\ i + 1 \in 1 .. m
  BY <1>1
<1>5. Tail(a)[i] = a[i + 1]
  BY <1>1, <1>4, TailSeq
<1> QED BY <1>1, <1>3, <1>4, <1>5

(* What was decoded from a frame comes behind what was decoded before.        *)
LEMMA MadeSeq ==
  ASSUME NEW S, NEW q \in Seq(S), NEW k \in Nat, NEW x \in S,
         NEW p, p = [i \in 1 .. k |-> x]
  PROVE /\ p \in Seq(S) /\ Len(p) = k /\ q \o p \in Seq(S) /\ Len(q \o p) = Len(q) + k
        /\ \A i \in 1 .. Len(q) : (q \o p)[i] = q[i]
        /\ \A i \in 1 .. k : (q \o p)[Len(q) + i] = x /\ p[i] = x
<1>1. p \in Seq(S) /\ Len(p) = k OBVIOUS
<1>2. /\ q \o p \in Seq(S) /\ Len(q \o p) = Len(q) + Len(p)
      /\ \A i \in 1 .. Len(q) + Len(p) : (q \o p)[i] = IF i <= Len(q) THEN q[i] ELSE p[i - Len(q)]
  BY <1>1, ConcatProperties
<1>3. \A i \in 1 .. k : p[i] = x OBVIOUS
<1>4. Len(q) \in Nat OBVIOUS
<1>5. ASSUME NEW i \in 1 .. k PROVE (q \o p)[Len(q) + i] = x
  <2>1. Len(q) + i \in 1 .. Len(q) + Len(p) /\ ~(Len(q) + i <= Len(q)) /\ Len(q) + i - Len(q) = i
    BY <1>1, <1>4
  <2> QED BY <1>2, <1>3, <2>1
<1> QED BY <1>1, <1>2, <1>3, <1>4, <1>5

-----------------------------------------------------------------------------
(* Induction on the natural numbers, with a set for the predicate.             *)
LEMMA NatSet ==
  ASSUME NEW T, 0 \in T, \A n \in Nat : n \in T => n + 1 \in T
  PROVE  Nat \subseteq T
<1> DEFINE Below == {ss \in Nat \X Nat : ss[1] < ss[2]}
<1>1. IsWellFoundedOn(Below, Nat) BY NatLessThanWellFounded DEF OpToRel
<1> SUFFICES ASSUME Nat \ T # {} PROVE FALSE OBVIOUS
<1>2. PICK n \in Nat \ T : \A m \in Nat \ T : <<m, n>> \notin Below
  <2> HIDE DEF Below
  <2> QED BY <1>1, WFMin
<1>3. n # 0 /\ n - 1 \in Nat /\ <<n - 1, n>> \in Below OBVIOUS
<1>4. n - 1 \in T BY <1>2, <1>3
<1> QED BY <1>3, <1>4

(* f is the sum of the first phases, up to n of them.                      *)
TimeRec(f, p, n) == f = [i \in 0 .. n |-> IF i = 0 THEN 0 ELSE f[i - 1] + p[i]]

(* The recursion of TimeOf has a solution.                                   *)
LEMMA TimeExists == ASSUME NEW p, NEW n \in Nat PROVE \E f : TimeRec(f, p, n)
<1> DEFINE T == {m \in Nat : \E f : TimeRec(f, p, m)}
<1>1. 0 \in T
  <2>1. TimeRec([i \in 0 .. 0 |-> 0], p, 0) BY DEF TimeRec
  <2> QED BY <2>1
<1>2. ASSUME NEW m \in Nat, m \in T PROVE m + 1 \in T
  <2>1. PICK f : TimeRec(f, p, m) BY <1>2
  <2> DEFINE g == [i \in 0 .. m + 1 |-> IF i = m + 1 THEN f[m] + p[m + 1] ELSE f[i]]
  <2>2. \A i \in 0 .. m : g[i] = f[i] OBVIOUS
  <2>3. g[m + 1] = f[m] + p[m + 1] OBVIOUS
  <2>4. \A i \in 0 .. m : f[i] = IF i = 0 THEN 0 ELSE f[i - 1] + p[i] BY <2>1 DEF TimeRec
  <2>5. \A i \in 0 .. m + 1 : g[i] = IF i = 0 THEN 0 ELSE g[i - 1] + p[i]
    <3>1. \A i \in 1 .. m + 1 : i - 1 \in 0 .. m OBVIOUS
    <3>2. \A i \in 0 .. m + 1 : i \in 0 .. m \/ i = m + 1 OBVIOUS
    <3>3. m + 1 # 0 /\ m + 1 - 1 = m /\ m \in 0 .. m /\ 0 \in 0 .. m OBVIOUS
    <3> HIDE DEF g
    <3> QED BY <3>1, <3>2, <3>3, <2>2, <2>3, <2>4
  <2>6. TimeRec(g, p, m + 1) BY <2>5 DEF TimeRec
  <2> HIDE DEF g
  <2> QED BY <2>6
<1> HIDE DEF T
<1>3. n \in T BY <1>1, <1>2, NatSet
<1> QED BY <1>3 DEF T

(* The time announced is added up phase by phase.                            *)
LEMMA TimeSteps ==
  ASSUME Typed
  PROVE /\ TimeOf[0] = 0 /\ \A i \in 0 .. Len(args.phases) : TimeOf[i] \in Nat
        /\ \A i \in 0 .. Len(args.phases) - 1 : TimeOf[i + 1] = TimeOf[i] + args.phases[i + 1]
<1> DEFINE p == args.phases
           n == Len(args.phases)
           f == TimeOf
<1>1. n \in Nat /\ \A i \in 1 .. n : p[i] \in Nat BY ProgramsAssumption, SMTT(30) DEF Typed
<1>2. TimeRec(TimeOf, p, n)
  <2>1. \E g : TimeRec(g, p, n) BY <1>1, TimeExists
  <2> QED BY <2>1 DEF TimeOf, TimeRec
<1> HIDE DEF p, n, f
<1>3. \A i \in 0 .. n : f[i] = IF i = 0 THEN 0 ELSE f[i - 1] + p[i] BY <1>2 DEF f, TimeRec
<1>4. f[0] = 0 BY <1>1, <1>3
<1>5. \A i \in 0 .. n - 1 : f[i + 1] = f[i] + p[i + 1]
  <2>1. \A i \in 0 .. n - 1 : i + 1 \in 0 .. n /\ i + 1 # 0 /\ i + 1 - 1 = i BY <1>1
  <2> QED BY <1>3, <2>1
<1> DEFINE T == {m \in Nat : m <= n => f[m] \in Nat}
<1>6. 0 \in T BY <1>4
<1>7. \A m \in Nat : m \in T => m + 1 \in T
  <2>1. \A m \in Nat : m + 1 <= n => m \in 0 .. n - 1 /\ m + 1 \in 1 .. n /\ m <= n BY <1>1
  <2> QED BY <1>1, <1>5, <2>1
<1>8. Nat \subseteq T
  <2> HIDE DEF T
  <2> QED BY <1>6, <1>7, NatSet
<1>9. \A i \in 0 .. n : f[i] \in Nat BY <1>1, <1>8
<1> QED BY <1>4, <1>5, <1>9 DEF f, n, p

(* Before the first frame.                                                 *)
LEMMA LiveInitInv == LiveInit => LiveInv
<1> SUFFICES ASSUME LiveInit PROVE LiveInv OBVIOUS
<1> USE DEF LiveInit
<1>1. 0 \in 0 .. MaxFrames /\ 0 \in 0 .. MaxTime /\ 0 \in 0 .. MaxSignals BY BoundsAssumption
<1>2. Len(args.phases) \in Nat BY ProgramsAssumption
<1>3. Typed
  <2>1. <<>> \in Seq(0 .. 0) /\ <<>> \in Seq(BOOLEAN) /\ Len(<<>>) = 0 OBVIOUS
  <2>2. votes \in [TaskNames -> Seq(BOOLEAN)] /\ \A t \in TaskNames : Len(votes[t]) <= AggregateWindows
    BY <2>1, WindowAssumption
  <2>3. arrived = 0 /\ 0 \in 0 .. Len(args.phases) /\ 0 \in Nat BY <1>2
  <2>4. made \in Seq(0 .. arrived) /\ pending \in Seq(0 .. arrived) /\ calib \in Seq(0 .. arrived)
        /\ win \in Seq(0 .. arrived) /\ window \in Seq(0 .. arrived) /\ samples \in Seq(0 .. arrived)
    BY <2>1
  <2> QED BY <1>1, <2>2, <2>3, <2>4 DEF Typed
<1>4. Packets BY DEF Packets
<1>5. Buffer BY WindowAssumption DEF Buffer
<1>6. Windows
  <2>1. BatchStarts(0) = {} BY WindowAssumption DEF BatchStarts
  <2>2. Cardinality(BatchStarts(0)) = 0 BY <2>1, FS_EmptySet
  <2>3. 0 < WindowPackets BY WindowAssumption
  <2> QED BY <2>2, <2>3 DEF Windows
<1>7. PhaseTime BY DEF PhaseTime, PhasesNotCutShort
<1>8. Recording BY DEF Recording
<1>9. Counting BY DEF Counting, Owed
<1> QED BY <1>3, <1>4, <1>5, <1>6, <1>7, <1>8, <1>9 DEF LiveInv

(* The rest of the loop's body: the drops catch up with the frame in hand.    *)
LEMMA HandleStep ==
  ASSUME Typed, Recording, Counting, HandleFrame, writer' = writer
  PROVE /\ Counting' /\ hand' = <<>> /\ pending = <<>> /\ stage \in Listening
        /\ UNCHANGED <<args, signals, now, arrived, seq, samples, missed, lost, saved>>
        /\ dropped' \in Nat /\ writer_last_seq' \in Nat
        /\ args.collect /\ writer => arrived \in ToSet(samples)
<1>1. /\ hand' = <<>> /\ hand # <<>> /\ stage \in Listening /\ CountDrops
      /\ UNCHANGED <<args, signals, now, arrived, seq, samples, missed, lost, saved>>
  BY DEF HandleFrame, airVars
<1>2. /\ pending = <<>> /\ seq > 0
      /\ args.collect /\ writer => arrived \in ToSet(samples)
  BY <1>1 DEF Counting
<1>3. {seq, writer_last_seq, dropped, missed, lost} \subseteq Nat BY DEF Typed
<1>4. CASE writer
  <2>1. dropped' = dropped + Owed /\ writer_last_seq' = seq BY <1>1, <1>3, <1>4 DEF CountDrops, Owed
  <2>2. Owed \in Nat BY <1>3 DEF Owed, Gap
  <2>3. dropped' \in Nat /\ writer_last_seq' \in Nat BY <1>3, <2>1, <2>2
  <2>4. Owed' = 0 BY <1>1 DEF Owed
  <2>5. args.collect => samples # <<>>
    <3>1. ToSet(<<>>) = {} BY DEF ToSet
    <3> QED BY <1>2, <1>4, <3>1
  <2>6. Counting'
    <3> SUFFICES ASSUME args.collect
                 PROVE  writer_last_seq' = seq /\ missed <= dropped' /\ dropped' <= lost
      BY <1>1, <1>2, <1>3, <2>3, <2>4, <2>5 DEF Counting
    <3> QED BY <2>1 DEF Counting
  <2> QED BY <1>1, <1>2, <2>3, <2>6
<1>5. CASE ~writer
  <2>1. UNCHANGED <<dropped, writer_last_seq>> BY <1>1, <1>5 DEF CountDrops, countVars
  <2>2. Owed' = 0 BY <1>1 DEF Owed
  <2>3. Counting'
    <3> SUFFICES ASSUME args.collect
                 PROVE  samples = <<>> /\ writer_last_seq = 0 /\ missed <= dropped /\ dropped <= lost
      BY <1>1, <1>3, <1>5, <2>1, <2>2 DEF Counting
    <3>1. samples = <<>> /\ writer_last_seq = 0 BY <1>5 DEF Recording, Counting
    <3> QED BY <1>3, <3>1 DEF Counting, Owed
  <2> QED BY <1>1, <1>2, <1>3, <2>1, <2>3
<1> QED BY <1>4, <1>5 DEF Typed

-----------------------------------------------------------------------------
(* Steps between the packets: what the windows are made of stays. *)

(* All that the windows, the phases and the verdicts are made of.          *)
flow == <<made, pending, calib, win, pushed, window, window_idx, votes, phase_idx, phase_start,
          writer>>

(* It is as good as it was.                                                *)
LEMMA FlowKept ==
  ASSUME Packets, Buffer, Windows, PhaseTime, UNCHANGED <<flow, args>>,
         stage' \in {"start", "gate"} => stage \in {"start", "gate"},
         stage' \in {"start", "gate", "calibrating"} => stage \in {"start", "gate", "calibrating"},
         stage' = "streaming" => stage = "streaming" /\ calib_start' = calib_start
  PROVE Packets' /\ Buffer' /\ Windows' /\ PhaseTime'
<1>1. Packets' BY DEF Packets, flow
<1>2. Buffer' BY DEF Buffer, flow
<1>3. Windows' BY DEF Windows, flow, BatchStarts
<1>4. TimeOf' = TimeOf BY DEF TimeOf
<1>5. PhaseTime' BY <1>4 DEF PhaseTime, PhasesNotCutShort, flow
<1> QED BY <1>1, <1>2, <1>3, <1>5

(* The types of what a step without packets leaves alone.                    *)
LEMMA FlowTyped ==
  ASSUME Typed, UNCHANGED <<flow, args>>, arrived' \in 0 .. MaxFrames,
         0 .. arrived \subseteq 0 .. arrived', samples' \in Seq(0 .. arrived'),
         {seq', writer_last_seq', dropped', missed', lost'} \subseteq Nat,
         stage' \in Listening \cup {"start", "closing", "saving", "exited"},
         cause' \in {"none", "refused", "gate", "interrupt", "failed", "killed"},
         signals' \in 0 .. MaxSignals, now' \in 0 .. MaxTime, calib_start' \in Nat
  PROVE Typed'
<1>1. /\ made' \in Seq(0 .. arrived') /\ pending' \in Seq(0 .. arrived')
      /\ calib' \in Seq(0 .. arrived') /\ win' \in Seq(0 .. arrived')
      /\ window' \in Seq(0 .. arrived')
  BY SeqWider DEF Typed, flow
<1> QED BY <1>1 DEF Typed, flow

(* Nothing comes: the clock, a signal, an end.                               *)
LEMMA QuietStep ==
  ASSUME LiveInv, UNCHANGED <<flow, args, frameVars, calib_start>>,
         stage' \in Listening \cup {"start", "closing", "saving", "exited"},
         cause' \in {"none", "refused", "gate", "interrupt", "failed", "killed"},
         signals' \in 0 .. MaxSignals, now' \in 0 .. MaxTime,
         stage' \in {"start", "gate"} => stage \in {"start", "gate"},
         stage' \in {"start", "gate", "calibrating"} => stage \in {"start", "gate", "calibrating"},
         stage' = "streaming" => stage = "streaming"
  PROVE LiveInv'
<1>1. UNCHANGED <<arrived, seq, hand, samples, missed, lost, dropped, writer_last_seq>>
  BY DEF frameVars, airVars, countVars
<1>2. Typed' BY <1>1, FlowTyped DEF LiveInv, Typed
<1>3. Packets' /\ Buffer' /\ Windows' /\ PhaseTime' BY FlowKept DEF LiveInv
<1>4. Recording' BY <1>1 DEF LiveInv, Recording, flow
<1>5. Counting' BY <1>1 DEF LiveInv, Counting, Owed, Gap, flow
<1> QED BY <1>2, <1>3, <1>4, <1>5 DEF LiveInv

(* All steps of that kind.                                                 *)
LEMMA QuietNext ==
  ASSUME LiveInv, Start \/ Tick \/ Signal \/ ReceiverFails \/ Close \/ Save \/ UNCHANGED liveVars
  PROVE LiveInv'
<1>0. Typed BY DEF LiveInv
<1> USE DEF calibVars, winVars, phaseVars, procVars, flow
<1>1. CASE Start BY <1>0, <1>1, QuietStep DEF Start, Typed, Listening
<1>2. CASE Tick BY <1>0, <1>2, BoundsAssumption, QuietStep DEF Tick, Typed
<1>3. CASE Signal
  <2>1. signals' \in 0 .. MaxSignals
    <3>1. signals \in 0 .. MaxSignals /\ MaxSignals \in Nat BY <1>0, BoundsAssumption DEF Typed
    <3>2. signals < MaxSignals /\ signals' = signals + 1 BY <1>3 DEF Signal
    <3> QED BY <3>1, <3>2
  <2>2. calib_start' \in Nat /\ now' \in 0 .. MaxTime BY <1>0, <1>3 DEF Signal, Typed
  <2> QED BY <1>0, <1>3, <2>1, <2>2, QuietStep DEF Signal, Typed, Listening
<1>4. CASE ReceiverFails BY <1>0, <1>4, QuietStep DEF ReceiverFails, Typed, Listening
<1>5. CASE Close BY <1>0, <1>5, QuietStep DEF Close, Typed, Listening
<1>6. CASE Save BY <1>0, <1>6, QuietStep DEF Save, Typed, Listening
<1>7. CASE UNCHANGED liveVars BY <1>0, <1>7, QuietStep DEF liveVars, Typed, Listening
<1> QED BY <1>1, <1>2, <1>3, <1>4, <1>5, <1>6, <1>7

(* A frame comes: the writer takes it, and the count of its drops is due.     *)
LEMMA ReceiveStep ==
  ASSUME LiveInv, NEW f \in Frames, TakeFrame(f)
  PROVE LiveInv'
<1>0. Typed /\ Recording /\ Counting BY DEF LiveInv
<1>1. /\ stage \in Listening /\ hand = <<>> /\ pending = <<>> /\ hand' = <<f>>
      /\ arrived < MaxFrames /\ arrived' = arrived + 1
      /\ seq' = (IF f.reset THEN 0 ELSE seq) + f.skip + 1
      /\ samples' = IF writer THEN Append(samples, arrived') ELSE samples
      /\ IF samples # <<>>
           THEN /\ lost' = lost + f.skip
                /\ missed' = missed + (IF f.reset THEN 0 ELSE f.skip)
           ELSE UNCHANGED <<lost, missed>>
      /\ UNCHANGED <<stage, now, args, cause, signals, calib_start, dropped, writer_last_seq>>
      /\ UNCHANGED flow
  BY DEF TakeFrame, Number, procVars, countVars, calibVars, winVars, phaseVars, flow
<1>2. /\ f.skip \in Nat /\ f.reset \in BOOLEAN /\ MaxFrames \in Nat
      /\ {seq, writer_last_seq, dropped, missed, lost} \subseteq Nat /\ writer \in BOOLEAN
      /\ arrived \in 0 .. MaxFrames /\ samples \in Seq(0 .. arrived)
  BY <1>0, BoundsAssumption DEF Frames, Typed
<1>3. /\ seq' \in Nat /\ seq' > 0 /\ lost' \in Nat /\ missed' \in Nat
      /\ arrived' \in 0 .. MaxFrames /\ 0 .. arrived \subseteq 0 .. arrived'
      /\ arrived' \in 0 .. arrived'
  <2>0. seq \in Nat /\ lost \in Nat /\ missed \in Nat BY <1>2
  <2>1. seq' \in Nat /\ seq' > 0
    <3>1. CASE f.reset BY <1>1, <1>2, <3>1
    <3>2. CASE ~f.reset BY <1>1, <1>2, <2>0, <3>2
    <3> QED BY <3>1, <3>2
  <2>2. lost' \in Nat /\ missed' \in Nat
    <3>1. CASE samples = <<>> BY <1>1, <2>0, <3>1
    <3>2. CASE samples # <<>>
      <4>1. lost' = lost + f.skip /\ missed' = missed + (IF f.reset THEN 0 ELSE f.skip)
        BY <1>1, <3>2
      <4>2. f.skip \in Nat /\ (IF f.reset THEN 0 ELSE f.skip) \in Nat BY <1>2
      <4> QED BY <2>0, <4>1, <4>2
    <3> QED BY <3>1, <3>2
  <2>3. /\ arrived' \in 0 .. MaxFrames /\ 0 .. arrived \subseteq 0 .. arrived'
        /\ arrived' \in 0 .. arrived'
    BY <1>1, <1>2
  <2> QED BY <2>1, <2>2, <2>3
<1>4. samples \in Seq(0 .. arrived') BY <1>2, <1>3, SeqWider
<1>5. samples' \in Seq(0 .. arrived')
  <2>1. CASE writer BY <1>1, <1>3, <1>4, <2>1, AppendSeq
  <2>2. CASE ~writer BY <1>1, <1>4, <2>2
  <2> QED BY <2>1, <2>2
<1>6. Typed'
  <2>1. {seq', writer_last_seq', dropped', missed', lost'} \subseteq Nat BY <1>1, <1>2, <1>3
  <2>2. /\ stage' \in Listening \cup {"start", "closing", "saving", "exited"}
        /\ cause' \in {"none", "refused", "gate", "interrupt", "failed", "killed"}
        /\ signals' \in 0 .. MaxSignals /\ now' \in 0 .. MaxTime /\ calib_start' \in Nat
    BY <1>0, <1>1 DEF Typed
  <2> QED BY <1>0, <1>1, <1>3, <1>5, <2>1, <2>2, FlowTyped
<1>7. Packets' /\ Buffer' /\ Windows' /\ PhaseTime' BY <1>1, FlowKept DEF LiveInv
<1>8. ASSUME args.collect, writer
      PROVE  /\ ToSet(samples) \subseteq ToSet(samples') /\ arrived' \in ToSet(samples')
             /\ \A i \in 1 .. Len(calib), j \in 1 .. Len(samples') : calib[i] < samples'[j]
  <2>1. /\ samples' = Append(samples, arrived') /\ Len(samples') = Len(samples) + 1
        /\ \A i \in 1 .. Len(samples) : samples'[i] = samples[i]
        /\ samples'[Len(samples) + 1] = arrived' /\ Len(samples) \in Nat
    <3>1. samples' = Append(samples, arrived') BY <1>1, <1>8
    <3> QED BY <1>3, <1>4, <3>1, AppendSeq
  <2>2. ToSet(samples) \subseteq ToSet(samples') /\ arrived' \in ToSet(samples')
    BY <1>3, <1>4, <2>1, AppendToSet
  <2>3. ASSUME NEW i \in 1 .. Len(calib), NEW j \in 1 .. Len(samples')
        PROVE  calib[i] < samples'[j]
    <3>1. calib[i] \in 0 .. arrived
      <4>1. calib \in Seq(0 .. arrived) BY <1>0 DEF Typed
      <4> QED BY <4>1, ElementOfSeq
    <3>2. CASE j <= Len(samples) BY <1>0, <1>8, <2>1, <2>3, <3>2 DEF Recording
    <3>3. CASE j = Len(samples) + 1
      <4>1. samples'[j] = arrived + 1 BY <1>1, <2>1, <3>3
      <4>2. arrived \in Nat BY <1>2
      <4> QED BY <3>1, <4>1, <4>2
    <3> QED BY <2>1, <3>2, <3>3
  <2> QED BY <2>2, <2>3
<1>9. Recording'
  <2> SUFFICES ASSUME args.collect PROVE Recording' BY <1>1 DEF Recording
  <2>1. /\ UNCHANGED <<args, pending, stage, writer, pushed, calib, made>> /\ Recording
    BY <1>0, <1>1 DEF flow
  <2>2. CASE writer BY <1>8, <2>1, <2>2 DEF Recording
  <2>3. CASE ~writer BY <1>1, <2>1, <2>3 DEF Recording
  <2> QED BY <2>2, <2>3
<1>10. Counting'
  <2>1. pending' = <<>> /\ args' = args /\ writer' = writer BY <1>1 DEF flow
  <2> SUFFICES ASSUME args.collect
               PROVE  /\ writer => arrived' \in ToSet(samples')
                      /\ samples' = <<>> => writer_last_seq' = 0
                      /\ missed' <= dropped' + Owed' /\ dropped' + Owed' <= lost'
    BY <1>1, <1>3, <2>1 DEF Counting
  <2>2. missed <= dropped /\ dropped <= lost BY <1>0, <1>1, <1>2 DEF Counting, Owed
  <2>3. CASE samples = <<>>
    <3>1. writer_last_seq' = 0 BY <1>0, <1>1, <2>3 DEF Counting
    <3>2. Owed' = 0 BY <3>1 DEF Owed
    <3> QED BY <1>1, <1>2, <1>8, <2>2, <2>3, <3>1, <3>2
  <2>4. CASE samples # <<>>
    <3>1. writer_last_seq = seq /\ seq > 0 BY <1>0, <1>1, <2>4 DEF Counting
    <3>2. writer BY <1>0, <2>4 DEF Recording
    <3>3. Gap' = IF f.reset THEN f.skip - seq ELSE f.skip BY <1>1, <1>2, <3>1 DEF Gap
    <3>4. Owed' = IF Gap' > 0 THEN Gap' ELSE 0 BY <1>1, <1>2, <3>1 DEF Owed
    <3>5. /\ Owed' \in Nat /\ Owed' <= f.skip /\ (~f.reset => Owed' = f.skip)
      BY <1>2, <3>1, <3>3, <3>4
    <3>6. /\ lost' = lost + f.skip /\ missed' = missed + (IF f.reset THEN 0 ELSE f.skip)
          /\ dropped' = dropped
      BY <1>1, <2>4
    <3>7. missed' <= dropped' + Owed' /\ dropped' + Owed' <= lost'
      BY <1>2, <2>2, <3>5, <3>6
    <3>8. samples' # <<>> BY <1>1, <1>2, <1>4, <1>3, <3>2
    <3> QED BY <1>8, <3>2, <3>7, <3>8
  <2> QED BY <2>3, <2>4
<1> QED BY <1>6, <1>7, <1>9, <1>10 DEF LiveInv

(* A frame that gives no packet.                                            *)
LEMMA BareFrame ==
  ASSUME LiveInv, HandleFrame, UNCHANGED flow, calib_start' \in Nat,
         stage' \in Listening \cup {"closing"},
         cause' \in {"none", "refused", "gate", "interrupt", "failed", "killed"},
         stage' = "gate" => stage = "gate",
         stage' = "calibrating" => stage \in {"gate", "calibrating"},
         stage' = "streaming" => stage = "streaming" /\ calib_start' = calib_start
  PROVE LiveInv'
<1>0. Typed /\ Recording /\ Counting /\ writer' = writer BY DEF LiveInv, flow
<1>1. /\ Counting' /\ UNCHANGED <<args, signals, now, arrived, seq, samples, missed, lost>>
      /\ dropped' \in Nat /\ writer_last_seq' \in Nat /\ stage \in Listening
  BY <1>0, HandleStep
<1>2. Typed'
  <2>1. {seq', writer_last_seq', dropped', missed', lost'} \subseteq Nat BY <1>0, <1>1 DEF Typed
  <2> QED BY <1>0, <1>1, <2>1, FlowTyped DEF Typed
<1>3. Packets' /\ Buffer' /\ Windows' /\ PhaseTime' BY <1>1, FlowKept DEF LiveInv, Listening
<1>4. Recording'
  <2>1. args.collect /\ writer => stage' \notin {"start", "gate", "calibrating"}
    BY <1>0, <1>1 DEF Recording, Listening
  <2> QED BY <1>0, <1>1, <2>1 DEF Recording, flow
<1> QED BY <1>1, <1>2, <1>3, <1>4 DEF LiveInv

(* All frames of that kind: odd ones, and those of the gate.               *)
LEMMA BareFrames ==
  ASSUME LiveInv, NEW f, Skip(f) \/ GateCount(f) \/ GateOpens(f) \/ GateShuts(f)
  PROVE LiveInv'
<1>0. Typed /\ stage \in Listening /\ calib_start \in Nat /\ now \in Nat
  BY BoundsAssumption DEF LiveInv, Typed, Skip, GateCount, GateOpens, GateShuts, Listening, HandleFrame
<1> USE DEF calibVars, winVars, phaseVars, flow
<1>1. CASE Skip(f) BY <1>0, <1>1, BareFrame DEF Skip, Typed, Listening
<1>2. CASE GateCount(f) BY <1>0, <1>2, BareFrame DEF GateCount, Typed, Listening
<1>3. CASE GateOpens(f) BY <1>0, <1>3, BareFrame DEF GateOpens, Typed, Listening
<1>4. CASE GateShuts(f) BY <1>0, <1>4, BareFrame DEF GateShuts, Typed, Listening
<1> QED BY <1>1, <1>2, <1>3, <1>4

-----------------------------------------------------------------------------
(* A frame's packets join those that were made. *)
LEMMA DecodeStep ==
  ASSUME LiveInv, NEW f, Decode(f)
  PROVE LiveInv'
<1>0. Typed /\ Recording /\ Packets /\ Buffer /\ Windows /\ PhaseTime /\ Counting /\ HandleFrame
  BY DEF LiveInv, Decode
<1>1. UNCHANGED <<calib, win, pushed, window, window_idx, votes, phase_idx, phase_start, writer,
                  stage, cause, calib_start>>
  BY DEF Decode, calibVars, winVars, phaseVars
<1>2. /\ Counting' /\ UNCHANGED <<args, signals, now, arrived, seq, samples, missed, lost>>
      /\ dropped' \in Nat /\ writer_last_seq' \in Nat /\ pending = <<>>
      /\ args.collect /\ writer => arrived \in ToSet(samples)
  BY <1>0, <1>1, HandleStep
<1>3. PICK k \in args.outputs : pending' = [i \in 1 .. k |-> arrived] /\ made' = made \o pending'
  BY DEF Decode
<1>4. args \in Programs /\ k \in Nat /\ (args.collect => k = 1)
  BY <1>0, ProgramsAssumption DEF Typed
<1>5. /\ pending' \in Seq(0 .. arrived) /\ Len(pending') = k
      /\ made' \in Seq(0 .. arrived) /\ Len(made') = Len(made) + k /\ Len(made) \in Nat
      /\ \A i \in 1 .. Len(made) : made'[i] = made[i]
      /\ \A i \in 1 .. k : made'[Len(made) + i] = arrived /\ pending'[i] = arrived
  <2>1. made \in Seq(0 .. arrived) /\ arrived \in 0 .. arrived
    BY <1>0, BoundsAssumption DEF Typed
  <2> QED BY <1>3, <1>4, <2>1, MadeSeq
<1>7. /\ calib \in Seq(0 .. arrived) /\ win \in Seq(0 .. arrived) /\ window \in Seq(0 .. arrived)
      /\ Len(calib) \in Nat /\ Len(win) \in Nat /\ pushed \in Nat
  BY <1>0 DEF Typed
<1>8. Typed' BY <1>0, <1>1, <1>2, <1>5, <1>7 DEF Typed
<1>9. Len(made) = Len(calib) + pushed BY <1>0, <1>2, <1>7 DEF Packets
<1>10. \A i \in 1 .. Len(calib) + pushed : made'[i] = made[i] BY <1>5, <1>9
<1>11. Packets'
  <2>1. Len(made') = Len(calib') + pushed' + Len(pending') BY <1>5, <1>1, <1>7, <1>9
  <2>2. \A i \in 1 .. Len(calib') : calib'[i] = made'[i] 
    <3>1. \A i \in 1 .. Len(calib) : i \in 1 .. Len(calib) + pushed BY <1>7
    <3> QED BY <1>0, <1>1, <1>10, <3>1 DEF Packets
  <2>3. \A i \in 1 .. Len(pending') : pending'[i] = made'[Len(calib') + pushed' + i]
    BY <1>5, <1>1, <1>9
  <2> QED BY <1>0, <1>1, <2>1, <2>2, <2>3 DEF Packets
<1>12. Buffer'
  <2>1. \A i \in 1 .. Len(win) : Len(calib) + pushed - Len(win) + i \in 1 .. Len(calib) + pushed
    BY <1>0, <1>7, WindowAssumption DEF Buffer
  <2> QED BY <1>0, <1>1, <1>10, <2>1 DEF Buffer
<1>13. Windows'
  <2>1. ASSUME window_idx > 0, NEW i \in 1 .. WindowPackets
        PROVE  Len(calib) + (window_idx - 1) * StridePackets + i \in 1 .. Len(calib) + pushed
    <3> DEFINE s == (window_idx - 1) * StridePackets
    <3>1. s <= pushed - WindowPackets /\ s \in Nat
      <4>1. s <= pushed - WindowPackets BY <1>0, <2>1 DEF Windows
      <4>2. window_idx - 1 \in Nat /\ StridePackets \in Nat
        BY <1>0, <2>1, WindowAssumption DEF Typed
      <4> QED BY <4>1, <4>2
    <3> HIDE DEF s
    <3>2. Len(calib) + s + i \in 1 .. Len(calib) + pushed BY <1>7, <3>1, WindowAssumption
    <3> QED BY <3>2 DEF s
  <2>2. window_idx > 0 => \A i \in 1 .. WindowPackets :
          window[i] = made'[Len(calib) + (window_idx - 1) * StridePackets + i]
    BY <1>0, <1>10, <2>1 DEF Windows
  <2> QED BY <1>0, <1>1, <2>2 DEF Windows, BatchStarts
<1>14. PhaseTime'
  <2>1. TimeOf' = TimeOf BY <1>2 DEF TimeOf
  <2> QED BY <1>0, <1>1, <2>1 DEF PhaseTime, PhasesNotCutShort
<1>15. Recording'
  <2> SUFFICES ASSUME args.collect PROVE Recording' BY <1>2 DEF Recording
  <2>1. writer => \A i \in Len(calib) + 1 .. Len(made') : made'[i] \in ToSet(samples)
    <3> SUFFICES ASSUME writer, NEW i \in Len(calib) + 1 .. Len(made') PROVE made'[i] \in ToSet(samples)
      OBVIOUS
    <3>1. CASE i \in Len(calib) + 1 .. Len(made)
      <4>1. made[i] \in ToSet(samples) BY <1>0, <3>1 DEF Recording
      <4>2. i \in 1 .. Len(made) BY <1>7, <3>1
      <4> QED BY <1>5, <4>1, <4>2
    <3>2. CASE i = Len(made) + 1 BY <1>2, <1>4, <1>5, <3>2
    <3> QED BY <1>4, <1>5, <1>7, <3>1, <3>2
  <2>2. Len(pending') <= 1 BY <1>4, <1>5
  <2> QED BY <1>0, <1>1, <1>2, <2>1, <2>2 DEF Recording
<1> QED BY <1>2, <1>8, <1>11, <1>12, <1>13, <1>14, <1>15 DEF LiveInv

-----------------------------------------------------------------------------
(* A packet is taken. *)
LEMMA TakeFacts ==
  ASSUME Typed, Packets, Take
  PROVE /\ Head(pending) \in 0 .. arrived /\ pending' \in Seq(0 .. arrived) /\ Len(pending) >= 1
        /\ Len(pending') = Len(pending) - 1 /\ Len(pending) \in Nat
        /\ Len(calib) \in Nat /\ pushed \in Nat /\ Len(made) \in Nat
        /\ Len(made) = Len(calib) + pushed + 1 + Len(pending')
        /\ Head(pending) = made[Len(calib) + pushed + 1]
        /\ \A i \in 1 .. Len(pending') : pending'[i] = made[Len(calib) + pushed + 1 + i]
<1>1. /\ pending \in Seq(0 .. arrived) /\ calib \in Seq(0 .. arrived) /\ made \in Seq(0 .. arrived)
      /\ pushed \in Nat
  BY DEF Typed
<1>2. /\ Head(pending) \in 0 .. arrived /\ pending' \in Seq(0 .. arrived) /\ Len(pending) >= 1
      /\ Len(pending') = Len(pending) - 1 /\ Head(pending) = pending[1]
      /\ \A i \in 1 .. Len(pending) - 1 : pending'[i] = pending[i + 1]
  BY <1>1, TailSeq DEF Take
<1>3. Len(pending) \in Nat /\ Len(calib) \in Nat /\ Len(made) \in Nat BY <1>1
<1>4. Len(made) = Len(calib) + pushed + Len(pending) BY DEF Packets
<1>5. \A i \in 1 .. Len(pending) : pending[i] = made[Len(calib) + pushed + i] BY DEF Packets
<1>6. ASSUME NEW i \in 1 .. Len(pending')
      PROVE  pending'[i] = made[Len(calib) + pushed + 1 + i]
  <2>1. i \in 1 .. Len(pending) - 1 /\ i + 1 \in 1 .. Len(pending) BY <1>2, <1>3
  <2>2. Len(calib) + pushed + 1 + i = Len(calib) + pushed + (i + 1) BY <1>1, <1>3, <2>1
  <2> QED BY <1>2, <1>5, <2>1, <2>2
<1> QED BY <1>1, <1>2, <1>3, <1>4, <1>5, <1>6

(* During the calibration it goes to the empty room.                         *)
LEMMA CalibrateStep ==
  ASSUME LiveInv, Calibrate \/ CalibrationEnds
  PROVE LiveInv'
<1>0. Typed /\ Packets /\ Buffer /\ Windows /\ PhaseTime /\ Recording /\ Counting BY DEF LiveInv
<1>1. /\ Take /\ stage = "calibrating" /\ calib' = Append(calib, Head(pending))
      /\ UNCHANGED <<args, cause, signals, now, frameVars, made, calib_start,
                     win, pushed, window, window_idx, votes, phase_idx>>
  BY DEF Calibrate, CalibrationEnds, procVars, winVars, phaseVars
<1>2. /\ pushed = 0
      /\ UNCHANGED <<arrived, seq, hand, samples, missed, lost, dropped, writer_last_seq>>
  BY <1>0, <1>1 DEF Packets, frameVars, airVars, countVars
<1>3. /\ Head(pending) \in 0 .. arrived /\ pending' \in Seq(0 .. arrived)
      /\ Len(pending') = Len(pending) - 1 /\ Len(pending) \in Nat
      /\ Len(calib) \in Nat /\ Len(made) \in Nat
      /\ Len(made) = Len(calib) + 1 + Len(pending')
      /\ Head(pending) = made[Len(calib) + 1]
      /\ \A i \in 1 .. Len(pending') : pending'[i] = made[Len(calib) + 1 + i]
  BY <1>0, <1>1, <1>2, TakeFacts
<1>4. /\ calib' \in Seq(0 .. arrived) /\ Len(calib') = Len(calib) + 1
      /\ \A i \in 1 .. Len(calib) : calib'[i] = calib[i]
      /\ calib'[Len(calib) + 1] = Head(pending)
  <2>1. calib \in Seq(0 .. arrived) BY <1>0 DEF Typed
  <2> QED BY <1>1, <1>3, <2>1, AppendSeq
<1>5. \/ stage' = "calibrating" /\ UNCHANGED <<phase_start, writer>>
      \/ /\ stage' = "streaming" /\ phase_start' = now /\ writer' = args.collect
         /\ now - calib_start >= CalibSeconds
  BY <1>1 DEF Calibrate, CalibrationEnds, EnoughCalibration, phaseVars
<1>6. Typed'
  <2>1. args.collect \in BOOLEAN /\ now \in Nat BY <1>0, ProgramsAssumption, BoundsAssumption DEF Typed
  <2>2. stage' \in Listening /\ phase_start' \in Nat /\ writer' \in BOOLEAN
    BY <1>0, <1>5, <2>1 DEF Typed, Listening
  <2> QED BY <1>0, <1>1, <1>2, <1>3, <1>4, <2>2 DEF Typed
<1>7. Packets'
  <2>1. \A i \in 1 .. Len(calib') : calib'[i] = made'[i]
    <3>1. \A i \in 1 .. Len(calib) : calib[i] = made[i] BY <1>0 DEF Packets
    <3>2. \A i \in 1 .. Len(calib') : i \in 1 .. Len(calib) \/ i = Len(calib) + 1 BY <1>3, <1>4
    <3> QED BY <1>1, <1>3, <1>4, <3>1, <3>2
  <2>2. Len(made') = Len(calib') + pushed' + Len(pending') BY <1>1, <1>2, <1>3, <1>4
  <2>3. \A i \in 1 .. Len(pending') : pending'[i] = made'[Len(calib') + pushed' + i]
    <3>1. Len(calib') + pushed' = Len(calib) + 1 BY <1>1, <1>2, <1>3, <1>4
    <3> QED BY <1>1, <1>3, <3>1
  <2> QED BY <1>1, <1>2, <1>5, <2>1, <2>2, <2>3 DEF Packets
<1>8. Buffer'
  <2>1. Len(win) = 0 BY <1>0, <1>2, WindowAssumption DEF Buffer
  <2>2. Len(win') = IF pushed' < WindowPackets THEN pushed' ELSE WindowPackets
    BY <1>0, <1>1 DEF Buffer
  <2>3. \A i \in 1 .. Len(win') : FALSE BY <1>1, <2>1
  <2> QED BY <2>2, <2>3 DEF Buffer
<1>9. Windows'
  <2>1. window_idx = 0
    <3> SUFFICES ASSUME window_idx > 0 PROVE FALSE BY <1>0 DEF Typed
    <3>1. (window_idx - 1) * StridePackets <= 0 - WindowPackets BY <1>0, <1>2 DEF Windows
    <3>2. (window_idx - 1) \in Nat /\ StridePackets \in Nat /\ WindowPackets \in Nat \ {0}
      BY <1>0, WindowAssumption DEF Typed
    <3>3. (window_idx - 1) * StridePackets >= 0 BY <3>2
    <3>4. (window_idx - 1) * StridePackets \in Int BY <3>2
    <3> QED BY <3>1, <3>2, <3>3, <3>4
  <2> QED BY <1>0, <1>1, <2>1 DEF Windows, BatchStarts
<1>10. PhaseTime'
  <2>1. phase_idx = 0 BY <1>0, <1>1 DEF PhaseTime
  <2>2. TimeOf' = TimeOf BY <1>1 DEF TimeOf
  <2>3. TimeOf[0] = 0 BY <1>0, TimeSteps
  <2>4. calib_start \in Nat /\ now \in Nat /\ CalibSeconds \in Nat
    BY <1>0, WindowAssumption, BoundsAssumption DEF Typed
  <2>5. stage' = "streaming" => phase_start' >= calib_start + CalibSeconds + 0
    BY <1>5, <2>4
  <2>6. phase_idx' = 0 /\ calib_start' = calib_start BY <1>1, <2>1
  <2> QED BY <2>2, <2>3, <2>5, <2>6 DEF PhaseTime, PhasesNotCutShort
<1>11. Recording'
  <2> SUFFICES ASSUME args.collect PROVE Recording' BY <1>1 DEF Recording
  <2>1. ~writer /\ samples = <<>> /\ Len(pending) <= 1 BY <1>0, <1>1 DEF Recording
  <2>2. Len(pending') <= 1 /\ Len(calib') = Len(made')
    BY <1>1, <1>3, <1>4, <2>1
  <2>3. \A i \in Len(calib') + 1 .. Len(made') : FALSE BY <1>1, <1>3, <1>4, <2>2
  <2>4. \A i \in 1 .. Len(calib'), j \in 1 .. Len(samples') : calib'[i] < samples'[j]
    <3>1. Len(samples') = 0 BY <1>2, <2>1
    <3> QED BY <3>1
  <2> QED BY <1>1, <1>2, <1>5, <2>1, <2>2, <2>3, <2>4 DEF Recording
<1>12. Counting'
  <2>1. hand = <<>> BY <1>0, <1>1 DEF Counting, Take
  <2>2. Owed' = Owed BY <1>2 DEF Owed, Gap
  <2> QED BY <1>0, <1>1, <1>2, <2>1, <2>2 DEF Counting
<1> QED BY <1>6, <1>7, <1>8, <1>9, <1>10, <1>11, <1>12 DEF LiveInv

-----------------------------------------------------------------------------
(* A packet goes to the windower. *)
LEMMA PushFacts ==
  ASSUME LiveInv, Push
  PROVE /\ pushed' = pushed + 1 /\ pushed \in Nat /\ Typed /\ Take /\ stage = "streaming"
        /\ win' \in Seq(0 .. arrived)
        /\ UNCHANGED <<stage, now, args, cause, signals, arrived, seq, samples, dropped,
                       writer_last_seq, missed, lost, made, calib, calib_start, writer>>
        /\ Packets' /\ Buffer' /\ Counting'
<1>0. /\ Typed /\ Packets /\ Buffer /\ Take /\ stage = "streaming" /\ pushed' = pushed + 1
      /\ win' = Pushed(win, Head(pending), WindowPackets)
      /\ UNCHANGED <<stage, now, args, cause, signals, arrived, seq, hand, samples, dropped,
                     writer_last_seq, missed, lost, made, calib, calib_start, writer>>
  BY DEF LiveInv, Push, procVars, frameVars, airVars, countVars, calibVars
<1>1. /\ Head(pending) \in 0 .. arrived /\ Len(calib) \in Nat /\ pushed \in Nat /\ Len(made) \in Nat
      /\ Len(pending') \in Nat
      /\ Len(made) = Len(calib) + pushed + 1 + Len(pending')
      /\ Head(pending) = made[Len(calib) + pushed + 1]
      /\ \A i \in 1 .. Len(pending') : pending'[i] = made[Len(calib) + pushed + 1 + i]
  BY <1>0, TakeFacts
<1>2. Packets'
  <2>1. Len(calib') + pushed' = Len(calib) + pushed + 1 BY <1>0, <1>1
  <2>2. \A i \in 1 .. Len(calib') : calib'[i] = made'[i] BY <1>0 DEF Packets
  <2>3. \A i \in 1 .. Len(pending') : pending'[i] = made'[Len(calib') + pushed' + i]
    BY <1>0, <1>1, <2>1
  <2>4. Len(made') = Len(calib') + pushed' + Len(pending') BY <1>0, <1>1, <2>1
  <2> QED BY <1>0, <2>2, <2>3, <2>4 DEF Packets
<1>3. win \in Seq(0 .. arrived) /\ Len(win) \in Nat /\ WindowPackets \in Nat \ {0}
  BY <1>0, WindowAssumption DEF Typed
<1>4. Len(win) = IF pushed < WindowPackets THEN pushed ELSE WindowPackets BY <1>0 DEF Buffer
<1> DEFINE w == win'
           h == Head(pending)
<1>5. /\ w \in Seq(0 .. arrived) /\ Len(w) = IF Len(win) < WindowPackets THEN Len(win) + 1 ELSE WindowPackets
      /\ w[Len(w)] = h
      /\ Len(win) < WindowPackets => \A i \in 1 .. Len(win) : w[i] = win[i]
      /\ Len(win) = WindowPackets => \A i \in 1 .. WindowPackets - 1 : w[i] = win[i + 1]
  <2>1. w = Pushed(win, h, WindowPackets) /\ h \in 0 .. arrived /\ Len(win) <= WindowPackets
    BY <1>0, <1>1, <1>3, <1>4
  <2> DEFINE S == 0 .. arrived
  <2>2. win \in Seq(S) /\ h \in S /\ WindowPackets \in Nat \ {0} BY <1>3, <2>1
  <2> HIDE DEF w, h, S
  <2>3. w \in Seq(S) /\ Len(w) = IF Len(win) < WindowPackets THEN Len(win) + 1 ELSE WindowPackets
    BY <2>1, <2>2, PushedSeq
  <2>4. w[Len(w)] = h BY <2>1, <2>2, PushedSeq
  <2>5. Len(win) < WindowPackets => \A i \in 1 .. Len(win) : w[i] = win[i]
    BY <2>1, <2>2, PushedSeq
  <2>6. ASSUME Len(win) = WindowPackets, NEW i \in 1 .. WindowPackets - 1 PROVE w[i] = win[i + 1]
    BY <2>1, <2>2, <2>6, FullPush
  <2> QED BY <2>3, <2>4, <2>5, <2>6 DEF S
<1>6. Len(w) = IF pushed + 1 < WindowPackets THEN pushed + 1 ELSE WindowPackets
  BY <1>1, <1>3, <1>4, <1>5
<1> HIDE DEF w, h
<1>7. ASSUME NEW i \in 1 .. Len(w)
      PROVE  w[i] = made[Len(calib) + (pushed + 1) - Len(w) + i]
  <2>1. CASE i = Len(w)
    <3>1. Len(calib) + (pushed + 1) - Len(w) + i = Len(calib) + pushed + 1
      BY <1>1, <1>3, <1>6, <2>1
    <3> QED BY <1>1, <1>5, <2>1, <3>1 DEF h
  <2>2. CASE i # Len(w) /\ Len(win) < WindowPackets
    <3>1. /\ i \in 1 .. Len(w) - 1 /\ i \in 1 .. Len(win)
          /\ Len(calib) + (pushed + 1) - Len(w) + i = Len(calib) + pushed - Len(win) + i
      BY <1>1, <1>3, <1>5, <2>2
    <3> QED BY <1>0, <1>5, <2>2, <3>1 DEF Buffer
  <2>3. CASE i # Len(w) /\ ~(Len(win) < WindowPackets)
    <3>1. /\ i \in 1 .. WindowPackets - 1 /\ i + 1 \in 1 .. Len(win) /\ Len(win) = WindowPackets
          /\ Len(calib) + (pushed + 1) - Len(w) + i = Len(calib) + pushed - Len(win) + (i + 1)
      BY <1>1, <1>3, <1>4, <1>5, <2>3
    <3> QED BY <1>0, <1>5, <2>3, <3>1 DEF Buffer
  <2> QED BY <2>1, <2>2, <2>3
<1>8. Buffer' BY <1>0, <1>6, <1>7 DEF w, Buffer
<1>9. Counting'
  <2>1. hand = <<>> BY <1>0 DEF LiveInv, Counting, Take
  <2>2. Owed' = Owed BY <1>0 DEF Owed, Gap
  <2> QED BY <1>0, <2>1, <2>2 DEF LiveInv, Counting
<1> QED BY <1>0, <1>1, <1>2, <1>5, <1>8, <1>9 DEF w

(* The recording already has it.                                            *)
LEMMA PushRecording ==
  ASSUME LiveInv, Push, window' \in Seq(0 .. arrived)
  PROVE Recording'
<1>1. /\ Recording /\ Typed /\ Packets /\ Take
      /\ UNCHANGED <<stage, args, samples, dropped, made, calib, writer>>
  BY PushFacts DEF LiveInv
<1> SUFFICES ASSUME args.collect PROVE Recording' BY <1>1 DEF Recording
<1>2. writer /\ stage = "streaming" BY <1>1, PushFacts DEF Recording
<1>3. Len(pending') <= 1 /\ Len(pending) \in Nat
  <2>1. Len(pending') = Len(pending) - 1 /\ Len(pending) \in Nat BY <1>1, TakeFacts
  <2> QED BY <1>1, <2>1 DEF Recording
<1> QED BY <1>1, <1>2, <1>3 DEF Recording

(* No window is ready, as none of the batch's ends here.                   *)
LEMMA PushOnlyStep ==
  ASSUME LiveInv, PushOnly
  PROVE LiveInv'
<1>1. /\ Push /\ ~Ready(pushed + 1)
      /\ UNCHANGED <<window, window_idx, votes, phase_idx, phase_start>>
  BY DEF PushOnly, phaseVars
<1>2. /\ pushed' = pushed + 1 /\ pushed \in Nat /\ Typed /\ Take /\ stage = "streaming"
      /\ win' \in Seq(0 .. arrived)
      /\ UNCHANGED <<stage, now, args, cause, signals, arrived, seq, samples, dropped,
                     writer_last_seq, missed, lost, made, calib, calib_start, writer>>
      /\ Packets' /\ Buffer' /\ Counting'
  BY <1>1, PushFacts
<1>3. pending' \in Seq(0 .. arrived) BY <1>2, TakeFacts DEF LiveInv
<1>4. Typed' BY <1>1, <1>2, <1>3 DEF Typed
<1>5. Windows'
  <2>0. Windows BY DEF LiveInv
  <2>1. BatchStarts(pushed + 1) = BatchStarts(pushed) BY <1>1, <1>2, StartsStep
  <2>2. CASE window_idx = 0
    <3>1. pushed + 1 < WindowPackets
      <4>1. pushed < WindowPackets BY <2>0, <2>2 DEF Windows
      <4>2. WindowPackets \in Nat /\ StridePackets \in Nat \ {0} BY WindowAssumption
      <4>3. pushed + 1 = WindowPackets => Ready(pushed + 1)
        <5>1. 0 % StridePackets = 0 BY <4>2
        <5>2. pushed + 1 = WindowPackets => pushed + 1 - WindowPackets = 0 BY <1>2, <4>2
        <5> QED BY <1>2, <4>2, <5>1, <5>2 DEF Ready
      <4> QED BY <1>1, <1>2, <4>1, <4>2, <4>3
    <3>2. window_idx' = Cardinality(BatchStarts(pushed')) BY <1>1, <1>2, <2>0, <2>1 DEF Windows
    <3>3. window_idx' = 0 /\ window' = <<>> BY <1>1, <2>0, <2>2 DEF Windows
    <3> QED BY <1>2, <3>1, <3>2, <3>3 DEF Windows, BatchStarts
  <2>3. CASE window_idx > 0
    <3> DEFINE s == (window_idx - 1) * StridePackets
               m == pushed + 1 - WindowPackets
    <3>1. /\ window_idx - 1 \in Nat /\ s \in Nat /\ StridePackets \in Nat \ {0}
          /\ WindowPackets \in Nat
      BY <1>2, <2>3, WindowAssumption DEF Typed
    <3>2. s <= pushed - WindowPackets /\ pushed - WindowPackets < s + StridePackets
      BY <2>0, <2>3 DEF Windows
    <3> HIDE DEF s
    <3>3. m \in Nat /\ s < m /\ m <= s + StridePackets BY <1>2, <3>1, <3>2
    <3>4. m # s + StridePackets
      <4> SUFFICES ASSUME m = s + StridePackets PROVE FALSE OBVIOUS
      <4>1. s + StridePackets = window_idx * StridePackets
        <5>1. (window_idx - 1) * StridePackets + StridePackets = window_idx * StridePackets
          BY <1>2, <3>1 DEF Typed
        <5> QED BY <5>1 DEF s
      <4>2. (window_idx * StridePackets) % StridePackets = 0
        BY <1>2, <3>1, MultipleMod DEF Typed
      <4>3. Ready(pushed + 1) BY <1>2, <3>1, <3>3, <4>1, <4>2 DEF Ready
      <4> QED BY <1>1, <4>3
    <3>5. s <= pushed + 1 - WindowPackets /\ pushed + 1 - WindowPackets < s + StridePackets
      BY <3>1, <3>3, <3>4
    <3>6. window_idx' = Cardinality(BatchStarts(pushed')) BY <1>1, <1>2, <2>0, <2>1 DEF Windows
    <3>7. /\ window_idx' = window_idx /\ window' = window /\ made' = made /\ calib' = calib
          /\ pushed' = pushed + 1
      BY <1>1, <1>2
    <3>8. /\ Len(window) = WindowPackets
          /\ \A i \in 1 .. WindowPackets :
               window[i] = made[Len(calib) + (window_idx - 1) * StridePackets + i]
      BY <2>0, <2>3 DEF Windows
    <3>9. window_idx' > 0 /\ (window_idx' - 1) * StridePackets = s BY <2>3, <3>7 DEF s
    <3>10. \A i \in 1 .. WindowPackets :
             window'[i] = made'[Len(calib') + (window_idx' - 1) * StridePackets + i]
      BY <3>7, <3>8
    <3>11. /\ (window_idx' - 1) * StridePackets <= pushed' - WindowPackets
           /\ pushed' - WindowPackets < (window_idx' - 1) * StridePackets + StridePackets
      <4> DEFINE t == (window_idx' - 1) * StridePackets
      <4>1. t = s BY <3>9
      <4> HIDE DEF t
      <4>2. t <= pushed' - WindowPackets /\ pushed' - WindowPackets < t + StridePackets
        BY <1>2, <3>1, <3>5, <3>7, <4>1
      <4> QED BY <4>2 DEF t
    <3>12. window_idx' # 0 BY <3>1, <3>9
    <3> QED BY <3>6, <3>7, <3>8, <3>10, <3>11, <3>12 DEF Windows, BatchStarts
  <2> QED BY <1>2, <2>2, <2>3 DEF Typed
<1>6. TimeOf' = TimeOf BY <1>2 DEF TimeOf
<1>7. PhaseTime' BY <1>1, <1>2, <1>6 DEF LiveInv, PhaseTime, PhasesNotCutShort
<1>8. Recording'
  <2>1. window' \in Seq(0 .. arrived) BY <1>1, <1>2 DEF Typed
  <2> QED BY <1>1, <2>1, PushRecording
<1> QED BY <1>2, <1>4, <1>5, <1>7, <1>8 DEF LiveInv

(* The time of the phase that ends is over.                                  *)
LEMMA CountdownStep ==
  ASSUME Typed, PhaseTime, stage = "streaming", Countdown,
         UNCHANGED <<args, stage, now, calib_start>>
  PROVE PhaseTime' /\ phase_idx' \in 0 .. Len(args.phases) /\ phase_start' \in Nat
<1>1. /\ Len(args.phases) \in Nat /\ \A i \in 1 .. Len(args.phases) : args.phases[i] \in Nat
      /\ now \in Nat /\ calib_start \in Nat /\ phase_start \in Nat /\ CalibSeconds \in Nat
      /\ phase_idx \in 0 .. Len(args.phases)
  BY ProgramsAssumption, BoundsAssumption, WindowAssumption, SMTT(30) DEF Typed
<1>2. TimeOf' = TimeOf BY DEF TimeOf
<1>3. phase_start >= calib_start + CalibSeconds + TimeOf[phase_idx] BY DEF PhaseTime, PhasesNotCutShort
<1>4. CASE /\ phase_idx < Len(args.phases) /\ now - phase_start >= args.phases[phase_idx + 1]
           /\ phase_idx' = phase_idx + 1 /\ phase_start' = now
  <2>1. /\ TimeOf[phase_idx + 1] = TimeOf[phase_idx] + args.phases[phase_idx + 1]
        /\ TimeOf[phase_idx] \in Nat /\ args.phases[phase_idx + 1] \in Nat
    <3>1. phase_idx \in 0 .. Len(args.phases) - 1 /\ phase_idx + 1 \in 1 .. Len(args.phases)
      BY <1>1, <1>4
    <3> QED BY <1>1, <3>1, TimeSteps
  <2>2. now >= calib_start + CalibSeconds + TimeOf[phase_idx + 1] BY <1>1, <1>3, <1>4, <2>1
  <2> QED BY <1>1, <1>2, <1>4, <2>2 DEF PhaseTime, PhasesNotCutShort
<1>5. CASE UNCHANGED <<phase_idx, phase_start>>
  BY <1>1, <1>2, <1>3, <1>5 DEF PhaseTime, PhasesNotCutShort
<1> QED BY <1>4, <1>5 DEF Countdown, phaseVars

(* A window is ready: it begins one stride behind the last one.            *)
LEMMA ShowWindowStep ==
  ASSUME LiveInv, ShowWindow
  PROVE LiveInv'
<1>1. /\ Push /\ Ready(pushed + 1) /\ window' = win' /\ window_idx' = window_idx + 1 /\ Countdown
  BY DEF ShowWindow
<1>2. /\ pushed' = pushed + 1 /\ pushed \in Nat /\ Typed /\ Take /\ stage = "streaming"
      /\ win' \in Seq(0 .. arrived)
      /\ UNCHANGED <<stage, now, args, cause, signals, arrived, seq, samples, dropped,
                     writer_last_seq, missed, lost, made, calib, calib_start, writer>>
      /\ Packets' /\ Buffer' /\ Counting'
  BY <1>1, PushFacts
<1>3. pending' \in Seq(0 .. arrived) BY <1>2, TakeFacts DEF LiveInv
<1>4. PhaseTime' /\ phase_idx' \in 0 .. Len(args.phases) /\ phase_start' \in Nat
  BY <1>1, <1>2, CountdownStep DEF LiveInv
<1>5. votes' \in [TaskNames -> Seq(BOOLEAN)] /\ \A t \in TaskNames : Len(votes'[t]) <= AggregateWindows
  <2>1. PICK answer \in [TaskNames -> BOOLEAN] :
          votes' = [t \in TaskNames |-> Pushed(votes[t], answer[t], AggregateWindows)]
    BY DEF ShowWindow
  <2>2. ASSUME NEW t \in TaskNames
        PROVE  /\ Pushed(votes[t], answer[t], AggregateWindows) \in Seq(BOOLEAN)
               /\ Len(Pushed(votes[t], answer[t], AggregateWindows)) <= AggregateWindows
    <3>1. /\ votes[t] \in Seq(BOOLEAN) /\ Len(votes[t]) <= AggregateWindows /\ answer[t] \in BOOLEAN
          /\ AggregateWindows \in Nat \ {0}
      BY <1>2, WindowAssumption DEF Typed
    <3>2. /\ Pushed(votes[t], answer[t], AggregateWindows) \in Seq(BOOLEAN)
          /\ Len(Pushed(votes[t], answer[t], AggregateWindows))
               = IF Len(votes[t]) < AggregateWindows THEN Len(votes[t]) + 1 ELSE AggregateWindows
      BY <3>1, PushedSeq
    <3>3. Len(votes[t]) \in Nat BY <3>1
    <3> QED BY <3>1, <3>2, <3>3
  <2> QED BY <2>1, <2>2
<1>6. Typed'
  <2>1. window_idx' \in Nat BY <1>1, <1>2 DEF Typed
  <2> QED BY <1>1, <1>2, <1>3, <1>4, <1>5, <2>1 DEF Typed
<1>7. Windows'
  <2>0. Windows BY DEF LiveInv
  <2> DEFINE m == pushed + 1 - WindowPackets
  <2>1. /\ WindowPackets \in Nat \ {0} /\ StridePackets \in Nat \ {0} /\ window_idx \in Nat
        /\ m \in Nat /\ m % StridePackets = 0
    BY <1>1, <1>2, WindowAssumption DEF Typed, Ready
  <2>2. m = window_idx * StridePackets
    <3>1. CASE window_idx = 0
      <4>1. pushed < WindowPackets BY <2>0, <3>1 DEF Windows
      <4> QED BY <1>2, <2>1, <3>1, <4>1
    <3>2. CASE window_idx > 0
      <4> DEFINE k == window_idx - 1
      <4>1. k \in Nat /\ k + 1 = window_idx BY <2>1, <3>2
      <4>2. k * StridePackets <= pushed - WindowPackets
            /\ pushed - WindowPackets < k * StridePackets + StridePackets
        BY <2>0, <3>2 DEF Windows
      <4> HIDE DEF k
      <4>3. k * StridePackets \in Nat BY <2>1, <4>1
      <4>4. k * StridePackets < m /\ m <= k * StridePackets + StridePackets
        BY <1>2, <2>1, <4>2, <4>3
      <4> HIDE DEF m
      <4>5. m = (k + 1) * StridePackets BY <2>1, <4>1, <4>4, NextMultiple
      <4> QED BY <4>1, <4>5
    <3> QED BY <2>1, <3>1, <3>2
  <2>3. Cardinality(BatchStarts(pushed')) = window_idx'
    <3>1. Cardinality(BatchStarts(pushed + 1)) = Cardinality(BatchStarts(pushed)) + 1
      BY <1>1, <1>2, StartsStep
    <3> QED BY <1>1, <1>2, <2>0, <3>1 DEF Windows
  <2>4. Len(window') = WindowPackets /\ \A i \in 1 .. WindowPackets :
          window'[i] = made'[Len(calib') + (pushed + 1) - WindowPackets + i]
    <3>1. ~(pushed' < WindowPackets) BY <1>2, <2>1
    <3> QED BY <1>1, <1>2, <3>1 DEF Buffer
  <2>5. Len(calib') \in Nat BY <1>6 DEF Typed
  <2> DEFINE s == (window_idx' - 1) * StridePackets
  <2>6. s = m BY <1>1, <2>1, <2>2
  <2>7. window_idx' > 0 BY <1>1, <2>1
  <2> HIDE DEF s
  <2>8. s <= pushed' - WindowPackets /\ pushed' - WindowPackets < s + StridePackets
    BY <1>2, <2>1, <2>6
  <2>9. \A i \in 1 .. WindowPackets : window'[i] = made'[Len(calib') + s + i]
    <3>1. \A i \in 1 .. WindowPackets :
            Len(calib') + s + i = Len(calib') + (pushed + 1) - WindowPackets + i
      BY <1>2, <2>1, <2>5, <2>6
    <3> QED BY <2>4, <3>1
  <2> QED BY <2>3, <2>4, <2>7, <2>8, <2>9 DEF s, Windows, BatchStarts
<1>8. Recording' BY <1>1, <1>2, PushRecording
<1> QED BY <1>2, <1>4, <1>6, <1>7, <1>8 DEF LiveInv

-----------------------------------------------------------------------------
(* Every step keeps the invariant.                                         *)
LEMMA LiveNextInv == ASSUME LiveInv, [LiveNext]_liveVars PROVE LiveInv'
<1>1. ASSUME NEW f, Skip(f) \/ GateCount(f) \/ GateOpens(f) \/ GateShuts(f) \/ Decode(f)
      PROVE  LiveInv'
  BY <1>1, BareFrames, DecodeStep
<1> QED BY <1>1, ReceiveStep, QuietNext, CalibrateStep, PushOnlyStep, ShowWindowStep DEF LiveNext

(* The invariant holds in every run of both programs.                      *)
THEOREM LiveInvariance == LiveSpec => []LiveInv
<1>1. LiveInit => LiveInv BY LiveInitInv
<1>2. LiveInv /\ [LiveNext]_liveVars => LiveInv' BY LiveNextInv
<1> QED BY <1>1, <1>2, PTL DEF LiveSpec

(* The live windows are those that the batch pipeline cuts from the same   *)
(* packets, as many and the same last one (live_window.py: push, against   *)
(* windowing.py), whatever frames are lost and however many packets each gives. *)
THEOREM LiveIsBatchCorrect == LiveSpec => []LiveIsBatch
<1>1. LiveInv => LiveIsBatch
  <2> SUFFICES ASSUME LiveInv PROVE LiveIsBatch OBVIOUS
  <2>0. Typed /\ Packets /\ Windows BY DEF LiveInv
  <2>1. /\ made \in Seq(0 .. arrived) /\ Len(made) \in Nat /\ Len(calib) \in Nat /\ Len(pending) \in Nat
        /\ pushed \in Nat /\ window_idx \in Nat /\ window \in Seq(0 .. arrived)
    BY <2>0 DEF Typed
  <2>2. Len(made) = Len(calib) + pushed + Len(pending) BY <2>0 DEF Packets
  <2>3. /\ Len(Live) = pushed /\ Live \in Seq(0 .. arrived)
        /\ \A i \in 1 .. pushed : Live[i] = made[Len(calib) + i]
    <3> DEFINE a == Len(calib) + 1
               b == Len(made) - Len(pending)
    <3>1. a \in 1 .. Len(made) + 1 /\ b \in a - 1 .. Len(made) /\ b - a + 1 = pushed
      BY <2>1, <2>2
    <3>2. Live = SubSeq(made, a, b) BY DEF Live
    <3> HIDE DEF a, b
    <3>3. /\ Len(SubSeq(made, a, b)) = b - a + 1 /\ SubSeq(made, a, b) \in Seq(0 .. arrived)
          /\ \A i \in 1 .. b - a + 1 : SubSeq(made, a, b)[i] = made[a + i - 1]
      <4>0. a \in Int /\ b \in Int /\ \A i \in a .. b : i \in 1 .. Len(made) BY <2>1, <3>1
      <4>1. a \in Int /\ b \in Int /\ \A i \in a .. b : made[i] \in 0 .. arrived
        BY <2>1, <4>0, ElementOfSeq
      <4>2. a <= b \/ b - a + 1 = 0 BY <3>1, <4>1
      <4> QED BY <4>1, <4>2, SubSeqProperties
    <3>4. \A i \in 1 .. pushed : a + i - 1 = Len(calib) + i BY <2>1 DEF a
    <3> QED BY <3>1, <3>2, <3>3, <3>4
  <2>4. window_idx = Cardinality(BatchStarts(Len(Live))) BY <2>0, <2>3 DEF Windows
  <2>5. ASSUME BatchStarts(Len(Live)) # {}
        PROVE  window = SubSeq(Live, (window_idx - 1) * StridePackets + 1,
                               (window_idx - 1) * StridePackets + WindowPackets)
    <3>1. window_idx > 0
      <4>1. IsFiniteSet(BatchStarts(pushed)) BY <2>1, StartsStep
      <4>2. Cardinality(BatchStarts(pushed)) # 0 BY <2>3, <2>5, <4>1, FS_EmptySet
      <4> QED BY <2>1, <2>3, <2>4, <4>2
    <3> DEFINE s == (window_idx - 1) * StridePackets
    <3>2. window_idx - 1 \in Nat /\ s \in Nat /\ WindowPackets \in Nat \ {0}
      BY <2>1, <3>1, WindowAssumption
    <3>3. /\ s <= pushed - WindowPackets /\ Len(window) = WindowPackets
          /\ \A i \in 1 .. WindowPackets : window[i] = made[Len(calib) + s + i]
      <4>1. /\ (window_idx - 1) * StridePackets <= pushed - WindowPackets
            /\ Len(window) = WindowPackets
            /\ \A i \in 1 .. WindowPackets :
                 window[i] = made[Len(calib) + (window_idx - 1) * StridePackets + i]
        BY <2>0, <3>1 DEF Windows
      <4> QED BY <4>1
    <3> HIDE DEF s
    <3> DEFINE sub == SubSeq(Live, s + 1, s + WindowPackets)
    <3>4. s + 1 \in 1 .. Len(Live) + 1 /\ s + WindowPackets \in s .. Len(Live)
          /\ s + WindowPackets - (s + 1) + 1 = WindowPackets
      BY <2>1, <2>3, <3>2, <3>3, SMTT(30)
    <3>5. sub \in Seq(0 .. arrived) /\ Len(sub) = WindowPackets
          /\ \A i \in 1 .. WindowPackets : sub[i] = Live[s + 1 + i - 1]
      <4> DEFINE a == s + 1
                 b == s + WindowPackets
      <4>1. a \in Int /\ b \in Int /\ a <= b /\ b - a + 1 = WindowPackets
            /\ \A i \in a .. b : i \in 1 .. Len(Live)
        BY <2>1, <2>3, <3>2, <3>4
      <4>2. \A i \in a .. b : Live[i] \in 0 .. arrived BY <2>3, <4>1, ElementOfSeq
      <4> HIDE DEF a, b
      <4>3. /\ SubSeq(Live, a, b) \in Seq(0 .. arrived) /\ Len(SubSeq(Live, a, b)) = b - a + 1
            /\ \A i \in 1 .. b - a + 1 : SubSeq(Live, a, b)[i] = Live[a + i - 1]
        BY <4>1, <4>2, SubSeqProperties
      <4> QED BY <4>1, <4>3 DEF a, b
    <3>6. \A i \in 1 .. WindowPackets : s + 1 + i - 1 \in 1 .. pushed
                                        /\ Len(calib) + (s + 1 + i - 1) = Len(calib) + s + i
      BY <2>1, <3>2, <3>3
    <3>7. \A i \in 1 .. WindowPackets : sub[i] = window[i] BY <2>3, <3>3, <3>5, <3>6
    <3> HIDE DEF sub
    <3>8. window = sub BY <2>1, <3>3, <3>5, <3>7
    <3> QED BY <3>8 DEF sub, s
  <2> QED BY <2>4, <2>5 DEF LiveIsBatch
<1> QED BY <1>1, LiveInvariance, PTL

(* The person is never told to change before the calibration and the phases *)
(* before have had their announced time (live_infer.py: the guided phases). *)
THEOREM PhasesNotCutShortCorrect == LiveSpec => []PhasesNotCutShort
<1>1. LiveInv => PhasesNotCutShort BY DEF LiveInv, PhaseTime
<1> QED BY <1>1, LiveInvariance, PTL

(* The recording holds every packet of a window that was shown and none of *)
(* the empty room; its drops are never more than were lost, and no fewer than *)
(* were lost between two samples of one boot, with resets of the board and a *)
(* signal between a sample and its count (ml_2's live_infer.py --collect).  *)
THEOREM RecordingCoversWindowsCorrect == LiveSpec => [](LiveTypeOK /\ RecordingCoversWindows)
<1>1. LiveInv => LiveTypeOK
  <2>1. LiveInv => Len(win) <= WindowPackets
    <3> SUFFICES ASSUME LiveInv PROVE Len(win) <= WindowPackets OBVIOUS
    <3>1. Len(win) = IF pushed < WindowPackets THEN pushed ELSE WindowPackets BY DEF LiveInv, Buffer
    <3> QED BY <3>1, WindowAssumption DEF LiveInv, Typed
  <2> QED BY <2>1 DEF LiveInv, Typed, LiveTypeOK
<1>2. LiveInv => RecordingCoversWindows
  <2> SUFFICES ASSUME LiveInv, args.collect
               PROVE  /\ ToSet(window) \subseteq ToSet(samples)
                      /\ ToSet(calib) \cap ToSet(samples) = {}
                      /\ dropped <= lost
                      /\ hand = <<>> => missed <= dropped
    BY DEF RecordingCoversWindows
  <2>0. Typed /\ Packets /\ Windows /\ Recording /\ Counting BY DEF LiveInv
  <2>1. /\ window \in Seq(0 .. arrived) /\ samples \in Seq(0 .. arrived) /\ calib \in Seq(0 .. arrived)
        /\ Len(window) \in Nat /\ Len(samples) \in Nat /\ Len(calib) \in Nat
        /\ pushed \in Nat /\ window_idx \in Nat /\ Len(pending) \in Nat
    BY <2>0 DEF Typed
  <2>2. ToSet(window) \subseteq ToSet(samples)
    <3>1. CASE window_idx = 0
      <4>1. window = <<>> BY <2>0, <3>1 DEF Windows
      <4> QED BY <4>1 DEF ToSet
    <3>2. CASE window_idx > 0
      <4> DEFINE s == (window_idx - 1) * StridePackets
      <4>1. s \in Nat /\ WindowPackets \in Nat \ {0} BY <2>1, <3>2, WindowAssumption
      <4>2. /\ s <= pushed - WindowPackets /\ Len(window) = WindowPackets
            /\ \A i \in 1 .. WindowPackets : window[i] = made[Len(calib) + s + i]
        <5>1. /\ (window_idx - 1) * StridePackets <= pushed - WindowPackets
              /\ Len(window) = WindowPackets
              /\ \A i \in 1 .. WindowPackets :
                   window[i] = made[Len(calib) + (window_idx - 1) * StridePackets + i]
          BY <2>0, <3>2 DEF Windows
        <5> QED BY <5>1
      <4> HIDE DEF s
      <4>3. pushed # 0 BY <2>1, <4>1, <4>2
      <4>4. writer BY <2>0, <4>3 DEF Recording
      <4>5. Len(made) = Len(calib) + pushed + Len(pending) BY <2>0 DEF Packets
      <4>6. \A i \in 1 .. WindowPackets : Len(calib) + s + i \in Len(calib) + 1 .. Len(made)
        BY <2>1, <4>1, <4>2, <4>5
      <4>7. \A i \in 1 .. WindowPackets : window[i] \in ToSet(samples)
        BY <2>0, <4>2, <4>4, <4>6 DEF Recording
      <4>8. DOMAIN window = 1 .. WindowPackets BY <2>1, <4>2
      <4> QED BY <4>7, <4>8 DEF ToSet
    <3> QED BY <2>1, <3>1, <3>2
  <2>3. ToSet(calib) \cap ToSet(samples) = {}
    <3>1. CASE writer
      <4>1. \A i \in 1 .. Len(calib), j \in 1 .. Len(samples) : calib[i] < samples[j]
        BY <2>0, <3>1 DEF Recording
      <4>2. \A i \in 1 .. Len(calib) : calib[i] \in Nat BY <2>0, <2>1, SMTT(30) DEF Typed
      <4>3. DOMAIN calib = 1 .. Len(calib) /\ DOMAIN samples = 1 .. Len(samples) BY <2>1
      <4> QED BY <4>1, <4>2, <4>3 DEF ToSet
    <3>2. CASE ~writer
      <4>1. samples = <<>> BY <2>0, <3>2 DEF Recording
      <4> QED BY <4>1 DEF ToSet
    <3> QED BY <3>1, <3>2
  <2>4. dropped <= lost /\ (hand = <<>> => missed <= dropped)
    <3>1. dropped \in Nat /\ lost \in Nat /\ missed \in Nat /\ Owed \in Nat
      BY <2>0 DEF Typed, Owed, Gap
    <3>2. hand = <<>> => Owed = 0 BY DEF Owed
    <3>3. missed <= dropped + Owed /\ dropped + Owed <= lost BY <2>0 DEF Counting
    <3> QED BY <3>1, <3>2, <3>3
  <2> QED BY <2>2, <2>3, <2>4
<1> QED BY <1>1, <1>2, LiveInvariance, PTL
=============================================================================
