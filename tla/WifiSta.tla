------------------------------- MODULE WifiSta --------------------------------
(***************************************************************************)
(* The board as a station of the hotspot: firmware/main/wifi_sta.c.         *)
(*                                                                         *)
(* event_handler runs in the event task, one event at a time, and sleeps    *)
(* there before it dials again.  The WiFi driver and DHCP (external) post    *)
(* the events.  The delay itself, s_retry_count that chooses it and the      *)
(* handler's s_connected, which only repeats WIFI_CONNECTED_BIT, are left    *)
(* out.  The driver is taken to start an attempt when it is called idle, as  *)
(* the code takes it to: it ignores what esp_wifi_connect returns.           *)
(***************************************************************************)
EXTENDS Naturals, Sequences

CONSTANTS
  Aps,          \* BSSIDs the hotspot can have
  NoAp          \* no hotspot; and the zeros s_bssid starts with

VARIABLES
  events,       \* the event loop's queue
  sleeping,     \* event_handler is in its vTaskDelay
  bit,          \* WIFI_CONNECTED_BIT
  s_bssid,
  link, assoc, dhcp,   \* the driver's state, its AP, whether DHCP was started
  ap            \* the BSSID of the hotspot the board hears now

vars == <<events, sleeping, bit, s_bssid, link, assoc, dhcp, ap>>

Event(kind) == [kind |-> kind, ap |-> NoAp]
Events == [kind : {"START", "CONNECTED", "DISCONNECTED", "GOT_IP"}, ap : Aps \cup {NoAp}]

(* wifi_sta_init_and_connect up to esp_wifi_start, which posts STA_START. *)
Init ==
  /\ events = <<Event("START")>> /\ sleeping = FALSE /\ bit = FALSE /\ s_bssid = NoAp
  /\ link = "idle" /\ assoc = NoAp /\ dhcp = FALSE
  /\ ap \in Aps

-----------------------------------------------------------------------------
(* event_handler *)

Handling(kind) == ~sleeping /\ events # <<>> /\ Head(events).kind = kind /\ events' = Tail(events)

(* esp_wifi_connect: a driver that is busy answers with an error instead. *)
Connect == link' = IF link = "idle" THEN "connecting" ELSE link

OnStart ==
  /\ Handling("START")
  /\ Connect
  /\ UNCHANGED <<sleeping, bit, s_bssid, assoc, dhcp, ap>>

(* esp_netif's own handler of the event starts DHCP. *)
OnConnected ==
  /\ Handling("CONNECTED")
  /\ s_bssid' = Head(events).ap
  /\ dhcp' = (link = "associated")
  /\ UNCHANGED <<sleeping, bit, link, assoc, ap>>

OnDisconnected ==
  /\ Handling("DISCONNECTED")
  /\ bit' = FALSE
  /\ sleeping' = TRUE
  /\ UNCHANGED <<s_bssid, link, assoc, dhcp, ap>>

(* Bug: dials again only while a connection was up before. *)
GivesUp ==
  /\ sleeping
  /\ sleeping' = FALSE
  /\ IF s_bssid # NoAp THEN Connect ELSE UNCHANGED link
  /\ UNCHANGED <<events, bit, s_bssid, assoc, dhcp, ap>>

Retry ==
  /\ sleeping
  /\ sleeping' = FALSE
  /\ Connect
  /\ UNCHANGED <<events, bit, s_bssid, assoc, dhcp, ap>>

OnGotIp ==
  /\ Handling("GOT_IP")
  /\ bit' = TRUE
  /\ UNCHANGED <<sleeping, s_bssid, link, assoc, dhcp, ap>>

Handler == OnStart \/ OnConnected \/ OnDisconnected \/ Retry \/ OnGotIp

-----------------------------------------------------------------------------
(* The driver, DHCP and the hotspot, which comes, goes and is out of reach. *)

Associates ==
  /\ link = "connecting" /\ ap # NoAp
  /\ link' = "associated" /\ assoc' = ap /\ dhcp' = FALSE
  /\ events' = Append(events, [kind |-> "CONNECTED", ap |-> ap])
  /\ UNCHANGED <<sleeping, bit, s_bssid, ap>>

(* An attempt or a link fails when the hotspot could not be heard meanwhile;   *)
(* by the time the loss is handled it may be back.                            *)
FailsToAssociate ==
  /\ link = "connecting"
  /\ ap = NoAp
  /\ link' = "idle"
  /\ events' = Append(events, Event("DISCONNECTED"))
  /\ UNCHANGED <<sleeping, bit, s_bssid, assoc, dhcp, ap>>

LeaseArrives ==
  /\ link = "associated" /\ dhcp
  /\ link' = "ip" /\ dhcp' = FALSE
  /\ events' = Append(events, Event("GOT_IP"))
  /\ UNCHANGED <<sleeping, bit, s_bssid, assoc, ap>>

(* DHCP's answer, received before the loss, can be told of after it. *)
LosesLink ==
  /\ link \in {"associated", "ip"}
  /\ ap # assoc
  /\ link' = "idle" /\ assoc' = NoAp /\ dhcp' = FALSE
  /\ \/ events' = Append(events, Event("DISCONNECTED"))
     \/ dhcp /\ events' = events \o <<Event("DISCONNECTED"), Event("GOT_IP")>>
  /\ UNCHANGED <<sleeping, bit, s_bssid, ap>>

HotspotChanges ==
  /\ ap' \in (Aps \cup {NoAp}) \ {ap}
  /\ UNCHANGED <<events, sleeping, bit, s_bssid, link, assoc, dhcp>>

Driver == Associates \/ FailsToAssociate \/ LeaseArrives \/ LosesLink

Next == Handler \/ Driver \/ HotspotChanges

(* Fairness is stated in Board.                                              *)
Spec == Init /\ [][Next]_vars
-----------------------------------------------------------------------------
(* Every variable keeps its type. *)
TypeOK ==
  /\ events \in Seq(Events) /\ sleeping \in BOOLEAN /\ bit \in BOOLEAN /\ dhcp \in BOOLEAN
  /\ link \in {"idle", "connecting", "associated", "ip"}
  /\ {s_bssid, assoc, ap} \subseteq Aps \cup {NoAp}

(* esp_wifi_connect is called by the handler only, when STA_START or a         *)
(* STA_DISCONNECTED is handled.  Exactly one such call is due while the driver *)
(* is idle and none while it is not, in whatever order events are handled and  *)
(* however late: no loss leaves the board offline for ever, and no call meets  *)
(* a busy driver.  While the handler sleeps no loss waits behind it.          *)
Dials == {i \in DOMAIN events : events[i].kind \in {"START", "DISCONNECTED"}}
OneDialDue ==
  IF link = "idle" /\ ~sleeping THEN \E i \in Dials : Dials = {i}
                                ELSE Dials = {} /\ (sleeping => link = "idle")
=============================================================================
