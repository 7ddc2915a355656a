-------------------------------- MODULE Station --------------------------------
(***************************************************************************)
(* What the Wi-Fi stations of the ESP32 (WifiTransport) and the ESP8266    *)
(* (Esp8266) have in common: the state that both firmwares keep under the  *)
(* same names, and their driver.                                           *)
(*                                                                         *)
(* The driver is external: it posts an event whenever it joins, fails to   *)
(* join or leaves, and none when it is told to leave what it has not       *)
(* joined.                                                                 *)
(***************************************************************************)
EXTENDS Naturals, Sequences

CONSTANTS
  MaxEvents, (* bound: events that wait                                    *)
  MaxAsleep  (* bound: tasks that sleep, as far as memory goes             *)

ASSUME StationAssumption == MaxEvents \in Nat /\ MaxAsleep \in Nat

VARIABLES
  s_has_config,
  s_station_online,
  s_reconnect_pending,
  asleep,                  (* the number of wifi_reconnect_tasks           *)
  wifi,                    (* driver                                       *)
  events                   (* driver: what the event task has still to do  *)

driver == <<wifi, events>>

Event == {"STA_START", "STA_DISCONNECTED", "GOT_IP"}

StationTypeOK ==
  /\ {s_has_config, s_station_online, s_reconnect_pending} \subseteq BOOLEAN
  /\ asleep \in 0 .. MaxAsleep
  /\ wifi \in {"stopped", "ap", "idle", "connecting", "connected"}
  /\ events \in Seq(Event)

Joined == wifi \in {"connecting", "connected"}

(* esp_wifi_connect: an error, which is ignored, unless the station is idle.*)
WifiConnect == wifi' = IF wifi = "idle" THEN "connecting" ELSE wifi

(* The events after esp_wifi_disconnect.                                   *)
AfterLeaving == IF Joined THEN Append(events, "STA_DISCONNECTED") ELSE events

(* Joining succeeds or fails, or the network is lost.                      *)
Reports ==
  /\ Len(events) < MaxEvents
  /\ \/ /\ wifi = "connecting" /\ wifi' = "connected"
        /\ events' = Append(events, "GOT_IP")
     \/ /\ Joined /\ wifi' = "idle"
        /\ events' = Append(events, "STA_DISCONNECTED")

(* The event task takes the oldest event.                                  *)
Handle(event) ==
  /\ events # <<>> /\ Head(events) = event
  /\ events' = Tail(events)
=============================================================================
