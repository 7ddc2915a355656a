----------------------------- MODULE WifiTransport -----------------------------
(***************************************************************************)
(* The Wi-Fi transport of the ESP32 firmware (wifi_transport.c): a station *)
(* that keeps trying to join its network, and a WebSocket server for one   *)
(* client that listens while it is joined.                                 *)
(*                                                                         *)
(* Credentials come and go by command_task, a firmware update suspends and *)
(* resumes the transport, the driver's events are handled in order by the  *)
(* event task, and tasks that sleep reconnect later.  The operations stop  *)
(* the server half-way; events, clients and the operations of the other    *)
(* task come in between, as no lock is shared.  A server that does not     *)
(* start, a task without memory and a panic are among what may happen; the *)
(* times of the back-off, mDNS and what the frames say are left out        *)
(* (Channel has the commands).                                             *)
(***************************************************************************)
EXTENDS Station

CONSTANTS
  Socket,    (* the sockets of WebSocket clients                           *)
  NoSocket,  (* s_active_fd of -1                                          *)
  Backoff    (* credentials may change while the station waits to try again*)

ASSUME WifiAssumption ==
  /\ NoSocket \notin Socket
  /\ Backoff \in BOOLEAN

VARIABLES
  s_station_started,
  s_suppress_next_disconnect_reconnect,
  s_runtime_suspended,
  s_httpd,                 (* the server is running                        *)
  s_active_fd,
  sockets,                 (* the WebSockets that are open                 *)
  job,                     (* the operation that each task has under way   *)
  collided                 (* history: one has begun during another's, and *)
                           (* the board has not restarted since            *)

station == <<s_has_config, s_station_started, s_station_online,
             s_reconnect_pending, s_suppress_next_disconnect_reconnect,
             s_runtime_suspended>>
server == <<s_httpd, s_active_fd, sockets>>
vars == <<station, server, job, collided, asleep, driver>>

(* Credentials come by command_task, updates by the task of BLE.           *)
Agent == {"command", "ble"}
Operation ==
  {"none", "start", "reconnect", "launch", "connect", "clear", "suspend"}
Job == [op : Operation, pc : {"stop_server", "driver"}]
NoJob == [op |-> "none", pc |-> "driver"]

Does(t, op, pc) == job' = [job EXCEPT ![t] = [op |-> op, pc |-> pc]]
Ends(t) == job' = [job EXCEPT ![t] = NoJob]
AtRest == \A t \in Agent : job[t] = NoJob

(* With credentials the station starts.                                    *)
Starting(has_config) ==
  [t \in Agent |-> IF has_config /\ t = "command"
                   THEN [op |-> "start", pc |-> "driver"] ELSE NoJob]

TypeOK ==
  /\ StationTypeOK
  /\ {s_station_started, s_suppress_next_disconnect_reconnect,
      s_runtime_suspended, s_httpd} \subseteq BOOLEAN
  /\ s_active_fd \in Socket \cup {NoSocket}
  /\ sockets \in SUBSET Socket
  /\ job \in [Agent -> Job]
  /\ collided \in BOOLEAN

(* wifi_transport_init                                                     *)
Boot(has_config) ==
  /\ s_has_config = has_config
  /\ s_station_started = FALSE
  /\ s_station_online = FALSE
  /\ s_reconnect_pending = FALSE
  /\ s_suppress_next_disconnect_reconnect = FALSE
  /\ s_runtime_suspended = FALSE
  /\ s_httpd = FALSE
  /\ s_active_fd = NoSocket
  /\ sockets = {}
  /\ job = Starting(has_config)
  /\ collided = FALSE
  /\ asleep = 0
  /\ wifi = "stopped"
  /\ events = <<>>

Init == \E has_config \in BOOLEAN : Boot(has_config)

-----------------------------------------------------------------------------
(* The driver joins, fails or leaves.                                      *)
Radio == Reports /\ UNCHANGED <<station, server, job, collided, asleep>>

-----------------------------------------------------------------------------
(* The server.                                                             *)

(* stop_server; closing a socket clears the client's state (close_session).*)
StopServer ==
  /\ s_httpd' = FALSE
  /\ sockets' = {}
  /\ s_active_fd' = IF s_active_fd \in sockets THEN NoSocket ELSE s_active_fd

(* ws_handler, the handshake.  A second client is told busy and closed.    *)
Open(fd) ==
  /\ s_httpd /\ fd \notin sockets
  /\ s_active_fd = NoSocket
  /\ sockets' = sockets \cup {fd}
  /\ s_active_fd' = fd
  /\ UNCHANGED <<station, s_httpd, job, collided, asleep,
                 driver>>

(* Mutant: the state of the client outlives its socket.                    *)
CloseKeepsState(fd) ==
  /\ fd \in sockets
  /\ sockets' = sockets \ {fd}
  /\ UNCHANGED <<s_active_fd, station, s_httpd, job, collided, asleep,
                 driver>>

(* close_session, when the client leaves, after a frame that is rejected   *)
(* or from a client that is not the active one.                            *)
Close(fd) ==
  /\ fd \in sockets
  /\ sockets' = sockets \ {fd}
  /\ s_active_fd' = IF s_active_fd = fd THEN NoSocket ELSE s_active_fd
  /\ UNCHANGED <<station, s_httpd, job, collided, asleep,
                 driver>>

-----------------------------------------------------------------------------
(* The operations.  Each sets the state, stops the server, and then talks  *)
(* to the driver.                                                          *)

Begin(t) ==
  /\ job[t] = NoJob /\ Len(events) < MaxEvents
  /\ collided' = (collided \/ ~AtRest)

Forget ==
  /\ s_active_fd' = NoSocket
  /\ s_station_online' = FALSE
  /\ s_reconnect_pending' = FALSE
  /\ UNCHANGED <<s_httpd, sockets>>

(* esp_wifi_set_mode makes a station of an access point.                   *)
StationMode ==
  /\ wifi' = IF wifi = "ap" THEN "idle" ELSE wifi
  /\ events' = IF wifi = "ap" THEN Append(events, "STA_START") ELSE events

(* start_station: a station that runs leaves its network first, and the    *)
(* event of that is not to make it reconnect.                              *)
StartStation(t) ==
  \/ /\ s_station_started
     /\ Forget
     /\ s_suppress_next_disconnect_reconnect' = TRUE
     /\ Does(t, "reconnect", "stop_server")
  \/ /\ ~s_station_started
     /\ Does(t, "start", "driver")
     /\ UNCHANGED <<s_station_online, s_reconnect_pending,
                    s_suppress_next_disconnect_reconnect, server>>

Provision ==
  /\ Begin("command")
  /\ Backoff \/ wifi # "idle"
  /\ s_has_config' = TRUE
  /\ StationMode
  /\ StartStation("command")
  /\ UNCHANGED <<s_station_started, s_runtime_suspended, asleep>>

ClearConfig ==
  /\ Begin("command")
  /\ s_has_config' = FALSE
  /\ Forget
  /\ s_suppress_next_disconnect_reconnect' = FALSE
  /\ Does("command", "clear", "stop_server")
  /\ UNCHANGED <<s_station_started, s_runtime_suspended, asleep, driver>>

Suspend ==
  /\ Begin("ble") /\ ~s_runtime_suspended
  /\ s_runtime_suspended' = TRUE
  /\ Forget
  /\ s_station_started' = FALSE
  /\ s_suppress_next_disconnect_reconnect' = TRUE
  /\ Does("ble", "suspend", "stop_server")
  /\ UNCHANGED <<s_has_config, asleep, driver>>

(* ota_wifi_stop has stopped the driver; start_station sets the flag again *)
(* if the station runs.                                                    *)
Resume ==
  /\ Begin("ble") /\ s_runtime_suspended
  /\ s_runtime_suspended' = FALSE
  /\ wifi' = "stopped" /\ events' = AfterLeaving
  /\ \/ s_has_config /\ s_station_started /\ StartStation("ble")
     \/ /\ ~(s_has_config /\ s_station_started)
        /\ s_suppress_next_disconnect_reconnect' = FALSE
        /\ IF s_has_config THEN Does("ble", "start", "driver")
                           ELSE UNCHANGED job
        /\ UNCHANGED <<s_station_online, s_reconnect_pending, server>>
  /\ UNCHANGED <<s_has_config, s_station_started, asleep>>

JobStopsServer(t) ==
  /\ job[t].pc = "stop_server"
  /\ StopServer
  /\ Does(t, job[t].op, "driver")
  /\ UNCHANGED <<station, collided, asleep, driver>>

(* start_station leaves the network and asks once more if the station runs.*)
StationChecks(t) ==
  /\ job[t].pc = "driver" /\ job[t].op \in {"start", "reconnect"}
  /\ wifi # "ap"
  /\ IF job[t].op = "reconnect"
     THEN /\ wifi' = IF Joined THEN "idle" ELSE wifi
          /\ events' = AfterLeaving
     ELSE UNCHANGED driver
  /\ Does(t, IF s_station_started THEN "connect" ELSE "launch", "driver")
  /\ UNCHANGED <<station, server, collided, asleep>>

StationStarts(t) ==
  /\ job[t] = [op |-> "launch", pc |-> "driver"]
  /\ wifi' = IF wifi = "stopped" THEN "idle" ELSE wifi
  /\ events' = IF wifi = "stopped" THEN Append(events, "STA_START") ELSE events
  /\ s_station_started' = TRUE
  /\ Ends(t)
  /\ UNCHANGED <<s_has_config, s_station_online, s_reconnect_pending,
                 s_suppress_next_disconnect_reconnect, s_runtime_suspended,
                 server, collided, asleep>>

StationReconnects(t) ==
  /\ job[t] = [op |-> "connect", pc |-> "driver"]
  /\ wifi \notin {"stopped", "ap"}
  /\ WifiConnect
  /\ Ends(t)
  /\ UNCHANGED <<station, server, collided, asleep, events>>

(* The board restarts; the credentials are in flash.                       *)
Restart ==
  /\ s_station_started' = FALSE
  /\ s_station_online' = FALSE
  /\ s_reconnect_pending' = FALSE
  /\ s_suppress_next_disconnect_reconnect' = FALSE
  /\ s_runtime_suspended' = FALSE
  /\ s_httpd' = FALSE
  /\ s_active_fd' = NoSocket
  /\ sockets' = {}
  /\ job' = Starting(s_has_config)
  /\ collided' = FALSE
  /\ asleep' = 0
  /\ wifi' = "stopped"
  /\ events' = <<>>
  /\ UNCHANGED s_has_config

(* esp_wifi_set_config fails beside an access point, and esp_wifi_connect  *)
(* also with a driver that is stopped: ESP_ERROR_CHECK restarts the board. *)
StationPanics(t) ==
  /\ \/ /\ job[t].pc = "driver" /\ job[t].op \in {"start", "reconnect"}
        /\ wifi = "ap"
     \/ job[t].op = "connect" /\ wifi \in {"stopped", "ap"}
  /\ Restart

StationStops(t) ==
  /\ job[t] = [op |-> "clear", pc |-> "driver"]
  /\ wifi' = "stopped" /\ events' = AfterLeaving
  /\ s_station_started' = FALSE
  /\ Ends(t)
  /\ UNCHANGED <<s_has_config, s_station_online, s_reconnect_pending,
                 s_suppress_next_disconnect_reconnect, s_runtime_suspended,
                 server, collided, asleep>>

(* ota_wifi_start_softap goes on with an access point.                     *)
StationYields(t) ==
  /\ job[t] = [op |-> "suspend", pc |-> "driver"]
  /\ wifi' = "ap" /\ events' = AfterLeaving
  /\ Ends(t)
  /\ UNCHANGED <<station, server, collided, asleep>>

Proceeds(t) ==
  \/ JobStopsServer(t) \/ StationChecks(t)
  \/ StationStarts(t) \/ StationReconnects(t) \/ StationPanics(t)
  \/ StationStops(t) \/ StationYields(t)

-----------------------------------------------------------------------------
(* wifi_event_handler                                                      *)

Started ==
  /\ Handle("STA_START")
  /\ s_station_started' = TRUE
  /\ WifiConnect
  /\ UNCHANGED <<s_has_config, s_station_online, s_reconnect_pending,
                 s_suppress_next_disconnect_reconnect, s_runtime_suspended,
                 server, job, collided, asleep>>

(* Without memory for a task the station reconnects at once.               *)
TryAgain ==
  \/ /\ ~s_has_config \/ s_reconnect_pending
     /\ UNCHANGED <<s_reconnect_pending, asleep, wifi>>
  \/ /\ s_has_config /\ ~s_reconnect_pending
     /\ asleep < MaxAsleep
     /\ s_reconnect_pending' = TRUE
     /\ asleep' = asleep + 1
     /\ UNCHANGED wifi
  \/ /\ s_has_config /\ ~s_reconnect_pending
     /\ WifiConnect
     /\ UNCHANGED <<s_reconnect_pending, asleep>>

(* Mutant: the early return comes before the server is stopped.            *)
DisconnectedKeepsServer ==
  /\ Handle("STA_DISCONNECTED")
  /\ s_active_fd' = NoSocket
  /\ s_station_online' = FALSE
  /\ \/ /\ s_suppress_next_disconnect_reconnect
        /\ s_suppress_next_disconnect_reconnect' = FALSE
        /\ UNCHANGED <<s_reconnect_pending, asleep, wifi, s_httpd, sockets>>
     \/ /\ ~s_suppress_next_disconnect_reconnect
        /\ UNCHANGED s_suppress_next_disconnect_reconnect
        /\ s_httpd' = FALSE
        /\ sockets' = {}
        /\ TryAgain
  /\ UNCHANGED <<s_has_config, s_station_started, s_runtime_suspended, job,
                 collided>>

(* Mutant: the flag stays set.                                             *)
DisconnectedKeepsFlag ==
  /\ Handle("STA_DISCONNECTED")
  /\ s_active_fd' = NoSocket
  /\ s_station_online' = FALSE
  /\ s_httpd' = FALSE
  /\ sockets' = {}
  /\ \/ /\ s_suppress_next_disconnect_reconnect
        /\ UNCHANGED <<s_reconnect_pending, asleep, wifi>>
     \/ ~s_suppress_next_disconnect_reconnect /\ TryAgain
  /\ UNCHANGED <<s_has_config, s_station_started, s_runtime_suspended, job,
                 collided, s_suppress_next_disconnect_reconnect>>

Disconnected ==
  /\ Handle("STA_DISCONNECTED")
  /\ s_active_fd' = NoSocket
  /\ s_station_online' = FALSE
  /\ s_httpd' = FALSE
  /\ sockets' = {}
  /\ s_suppress_next_disconnect_reconnect' = FALSE
  /\ \/ /\ s_suppress_next_disconnect_reconnect
        /\ UNCHANGED <<s_reconnect_pending, asleep, wifi>>
     \/ ~s_suppress_next_disconnect_reconnect /\ TryAgain
  /\ UNCHANGED <<s_has_config, s_station_started, s_runtime_suspended, job,
                 collided>>

(* start_server may fail.                                                  *)
GotIp ==
  /\ Handle("GOT_IP")
  /\ s_station_online' = TRUE
  /\ s_reconnect_pending' = FALSE
  /\ \/ s_httpd' = TRUE
     \/ UNCHANGED s_httpd
  /\ UNCHANGED <<s_has_config, s_station_started,
                 s_suppress_next_disconnect_reconnect, s_runtime_suspended,
                 s_active_fd, sockets, job, collided, asleep, wifi>>

HandleEvent == Started \/ Disconnected \/ GotIp

(* wifi_reconnect_task wakes up.                                           *)
Wake ==
  /\ asleep > 0
  /\ asleep' = asleep - 1
  /\ s_reconnect_pending' = FALSE
  /\ IF s_has_config THEN WifiConnect ELSE UNCHANGED wifi
  /\ UNCHANGED <<s_has_config, s_station_started, s_station_online,
                 s_suppress_next_disconnect_reconnect, s_runtime_suspended,
                 server, job, collided, events>>

-----------------------------------------------------------------------------
(* Restart, of any state, is the power that fails.                         *)
Next ==
  \/ Provision \/ ClearConfig \/ Suspend \/ Resume
  \/ \E t \in Agent : Proceeds(t)
  \/ HandleEvent \/ Wake \/ Radio \/ Restart
  \/ \E fd \in Socket : Open(fd) \/ Close(fd)

Spec == Init /\ [][Next]_vars

(* Tasks run, sleeping ends, and an attempt to join succeeds or fails.     *)
Fairness ==
  /\ \A t \in Agent : WF_vars(Proceeds(t))
  /\ WF_vars(HandleEvent)
  /\ WF_vars(Wake)
  /\ WF_vars(wifi = "connecting" /\ Radio)

FairSpec == Spec /\ Fairness

-----------------------------------------------------------------------------
(* Properties.                                                             *)

(* One client has the board, and it is connected: the state that keeps     *)
(* others out and routes the answers names an open socket, and every open  *)
(* socket is that one, unless an operation is about to close them all.     *)
OneClient ==
  /\ s_active_fd # NoSocket => s_active_fd \in sockets
  /\ (\A t \in Agent : job[t].pc # "stop_server")
     => sockets \subseteq {s_active_fd}
  /\ sockets # {} => s_httpd

(* What the status command and the network are told is true.  When the     *)
(* events of the driver have been handled, the station is online and the   *)
(* server listens only while it is in its network: no operation, however   *)
(* it interleaves with events, leaves a stale listener.  And while it is   *)
(* said to be reconnecting, a task sleeps that will.                       *)
StatusIsTrue ==
  /\ events = <<>> /\ AtRest =>
       /\ s_station_online <=> wifi = "connected"
       /\ s_httpd => wifi = "connected"
  /\ s_reconnect_pending => asleep > 0

(* Whoever loses the network or changes the credentials, somebody is left  *)
(* to join it: with every event handled and no operation under way, a      *)
(* station with credentials is joined or joining, or a task sleeps that    *)
(* will make it, unless credentials and an update have met.                *)
NoStandstill ==
  /\ s_has_config /\ ~s_runtime_suspended /\ ~collided
  /\ AtRest /\ events = <<>>
  => Joined \/ asleep > 0

(* A station with credentials never stops trying for good, however often   *)
(* its network is lost, unless credentials and an update have met.         *)
KeepsTrying ==
  \/ []<>(Joined \/ ~s_has_config \/ s_runtime_suspended)
  \/ []<><<Restart>>_vars
  \/ <>[]collided
=============================================================================
