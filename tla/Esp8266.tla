-------------------------------- MODULE Esp8266 --------------------------------
(***************************************************************************)
(* The network side of the ESP8266 firmware (emwaver_esp8266.c): a station *)
(* or an access point for provisioning, and a task that serves one         *)
(* WebSocket client after the other on sockets of its own.                 *)
(*                                                                         *)
(* Three tasks close these sockets: the server when a session ends, the    *)
(* event task when the network is lost, the command task when credentials  *)
(* come or go.  They share s_active_sock and s_listen_sock without a lock, *)
(* and a task that tests one of them, shuts it down and closes it calls    *)
(* the TCP/IP task each time, so that another may run in between.  A       *)
(* descriptor that has been closed may be given to the next socket.        *)
(*                                                                         *)
(* The single command task makes its transport session and its answers     *)
(* sequential; the serial transport, mDNS and frames are left out.         *)
(*                                                                         *)
(* What has a namesake in WifiTransport carries the prefix Esp.            *)
(***************************************************************************)
EXTENDS Station

CONSTANTS
  Sock,      (* socket descriptors                                         *)
  NoSock     (* -1                                                         *)

ASSUME Esp8266Assumption == NoSock \notin Sock

VARIABLES
  s_runtime_mode,
  s_active_sock,   (* set and reset together with s_session_connected      *)
  s_listen_sock,
  open,            (* the descriptors that are open                        *)
  target,          (* what the command task is asked to start              *)
  stage,           (* of a task that closes sockets: its next step         *)
  serving,         (* websocket_server_task with its two local descriptors *)
  crossed          (* history: the server has opened a session while       *)
                   (* another task was about to forget s_active_sock       *)

espStation == <<s_has_config, s_station_online, s_reconnect_pending,
                s_runtime_mode>>
espSockets == <<s_active_sock, s_listen_sock, open>>
espVars == <<espStation, espSockets, target, stage, serving, crossed,
             asleep, driver>>

Task == {"command", "event", "server"}
Stage == {"idle", "test_active", "close_active", "reset_active",
          "test_listen", "close_listen", "reset_listen", "last"}
ServerStep == {"none", "open", "accept", "handshake", "session", "closing", "end"}
Server == [pc : ServerStep,
           listen : Sock \cup {NoSock}, sock : Sock \cup {NoSock}]

EspTypeOK ==
  /\ StationTypeOK
  /\ s_runtime_mode \in {"none", "softap", "station"}
  /\ {s_active_sock, s_listen_sock} \subseteq Sock \cup {NoSock}
  /\ open \in SUBSET Sock
  /\ target \in {"station", "softap"}
  /\ stage \in [Task -> Stage]
  /\ serving \in Server
  /\ crossed \in BOOLEAN

NoServer == [pc |-> "none", listen |-> NoSock, sock |-> NoSock]

(* app_main starts a station or, without credentials, an access point.     *)
EspInit ==
  /\ s_has_config \in BOOLEAN
  /\ s_station_online = FALSE
  /\ s_reconnect_pending = FALSE
  /\ s_runtime_mode = "none"
  /\ s_active_sock = NoSock
  /\ s_listen_sock = NoSock
  /\ open = {}
  /\ target = IF s_has_config THEN "station" ELSE "softap"
  /\ stage = [t \in Task |-> IF t = "command" THEN "last" ELSE "idle"]
  /\ serving = NoServer
  /\ crossed = FALSE
  /\ asleep = 0
  /\ wifi = "stopped"
  /\ events = <<>>

-----------------------------------------------------------------------------
(* The driver joins, fails or leaves.                                      *)
EspRadio == Reports /\ UNCHANGED <<espStation, espSockets, target, stage,
                                   serving, crossed, asleep>>

-----------------------------------------------------------------------------
(* close_active_socket and stop_server_socket, by any of the three tasks.  *)
(* A test includes the shutdown, which wakes the server; a descriptor is   *)
(* read again for each call.  It is forgotten, by a write of its own,      *)
(* whether the test has found one or not.                                  *)

At(t, s) == stage[t] = s
Goto(t, s) == stage' = [stage EXCEPT ![t] = s]

(* The command task then takes the station for offline.                    *)
Closed(t) ==
  /\ Goto(t, "last")
  /\ s_station_online' = IF t = "command" THEN FALSE ELSE s_station_online

AfterActive(t) == IF t = "server" THEN "last" ELSE "test_listen"

TestActive(t) ==
  /\ At(t, "test_active")
  /\ Goto(t, IF s_active_sock # NoSock THEN "close_active" ELSE "reset_active")
  /\ UNCHANGED <<espSockets, s_station_online>>

(* Mutant: the descriptor is forgotten before it is closed.                *)
ForgetsFirst(t) ==
  /\ At(t, "close_active")
  /\ s_active_sock' = NoSock
  /\ Goto(t, "reset_active")
  /\ UNCHANGED <<s_listen_sock, open, s_station_online>>

CloseActive(t) ==
  /\ At(t, "close_active")
  /\ open' = open \ {s_active_sock}
  /\ Goto(t, "reset_active")
  /\ UNCHANGED <<s_active_sock, s_listen_sock, s_station_online>>

(* Mutant: the descriptor is not forgotten.                                *)
ResetNothing(t) ==
  /\ At(t, "reset_active")
  /\ Goto(t, AfterActive(t))
  /\ UNCHANGED <<espSockets, s_station_online>>

ResetActive(t) ==
  /\ At(t, "reset_active")
  /\ s_active_sock' = NoSock
  /\ Goto(t, AfterActive(t))
  /\ UNCHANGED <<s_listen_sock, open, s_station_online>>

TestListen(t) ==
  /\ At(t, "test_listen")
  /\ Goto(t, IF s_listen_sock # NoSock THEN "close_listen" ELSE "reset_listen")
  /\ UNCHANGED <<espSockets, s_station_online>>

CloseListen(t) ==
  /\ At(t, "close_listen")
  /\ open' = open \ {s_listen_sock}
  /\ Goto(t, "reset_listen")
  /\ UNCHANGED <<s_active_sock, s_listen_sock, s_station_online>>

ResetListen(t) ==
  /\ At(t, "reset_listen")
  /\ s_listen_sock' = NoSock
  /\ Closed(t)
  /\ UNCHANGED <<s_active_sock, open>>

Closes(t) ==
  /\ \/ TestActive(t) \/ CloseActive(t) \/ ResetActive(t)
     \/ TestListen(t) \/ CloseListen(t) \/ ResetListen(t)
  /\ UNCHANGED <<s_has_config, s_reconnect_pending, s_runtime_mode, target,
                 serving, crossed, asleep, driver>>

-----------------------------------------------------------------------------
(* websocket_server_task                                                   *)

(* The task is created once; xTaskCreate may fail.                         *)
EnsureServer ==
  \/ serving.pc = "none" /\ serving' = [serving EXCEPT !.pc = "open"]
  \/ UNCHANGED serving

AtServer(pc) == serving.pc = pc
UnchangedByServer ==
  UNCHANGED <<espStation, target, crossed, asleep, driver>>

(* while (s_listen_sock >= 0)                                              *)
Loop == IF s_listen_sock # NoSock THEN "accept" ELSE "end"

(* Without a socket the task tries again.                                  *)
Listen ==
  /\ AtServer("open")
  /\ \E fd \in Sock \ open :
       /\ open' = open \cup {fd}
       /\ s_listen_sock' = fd
       /\ serving' = [pc |-> "accept", listen |-> fd, sock |-> NoSock]
  /\ UnchangedByServer /\ UNCHANGED <<s_active_sock, stage>>

(* A client is turned away while s_active_sock names another, which it     *)
(* never does here (NobodyIsTurnedAway).                                   *)
Accept ==
  /\ AtServer("accept") /\ serving.listen \in open
  /\ s_active_sock = NoSock
  /\ \E fd \in Sock \ open :
       /\ open' = open \cup {fd}
       /\ serving' = [serving EXCEPT !.pc = "handshake", !.sock = fd]
  /\ UnchangedByServer /\ UNCHANGED <<s_active_sock, s_listen_sock, stage>>

AcceptFails ==
  /\ AtServer("accept")
  /\ serving' = [serving EXCEPT !.pc = "end"]
  /\ UnchangedByServer /\ UNCHANGED <<espSockets, stage>>

HandshakeSucceeds ==
  /\ AtServer("handshake") /\ serving.sock \in open
  /\ s_active_sock' = serving.sock
  /\ crossed' = (crossed \/ \E t \in Task : At(t, "reset_active"))
  /\ serving' = [serving EXCEPT !.pc = "session"]
  /\ UNCHANGED <<espStation, target, asleep, driver, s_listen_sock, open,
                 stage>>

(* Mutant: a socket whose handshake failed is left open.                   *)
HandshakeFailsOpen ==
  /\ AtServer("handshake")
  /\ serving' = [serving EXCEPT !.pc = Loop, !.sock = NoSock]
  /\ UnchangedByServer /\ UNCHANGED <<espSockets, stage>>

HandshakeFails ==
  /\ AtServer("handshake")
  /\ open' = open \ {serving.sock}
  /\ serving' = [serving EXCEPT !.pc = Loop, !.sock = NoSock]
  /\ UnchangedByServer /\ UNCHANGED <<s_active_sock, s_listen_sock, stage>>

(* The client leaves or is cut off, or a frame is bad or finds no room.    *)
SessionEnds ==
  /\ AtServer("session")
  /\ serving' = [serving EXCEPT !.pc = "closing"]
  /\ Goto("server", "test_active")
  /\ UnchangedByServer /\ UNCHANGED espSockets

SessionClosed ==
  /\ AtServer("closing") /\ At("server", "last")
  /\ serving' = [serving EXCEPT !.pc = Loop, !.sock = NoSock]
  /\ Goto("server", "idle")
  /\ UnchangedByServer /\ UNCHANGED espSockets

(* Mutant: without a listener the task ends for good.                      *)
StopsListeningForGood ==
  /\ AtServer("end")
  /\ open' = open \ {serving.listen}
  /\ s_listen_sock' =
       IF s_listen_sock = serving.listen THEN NoSock ELSE s_listen_sock
  /\ serving' = [serving EXCEPT !.listen = NoSock]
  /\ UnchangedByServer /\ UNCHANGED <<s_active_sock, stage>>

(* The descriptor is closed a second time if another task has closed it.   *)
StopsListening ==
  /\ AtServer("end")
  /\ open' = open \ {serving.listen}
  /\ s_listen_sock' =
       IF s_listen_sock = serving.listen THEN NoSock ELSE s_listen_sock
  /\ serving' = [serving EXCEPT !.pc = "open", !.listen = NoSock]
  /\ UnchangedByServer /\ UNCHANGED <<s_active_sock, stage>>

Serve ==
  \/ Listen \/ Accept \/ AcceptFails \/ HandshakeSucceeds \/ HandshakeFails
  \/ SessionEnds \/ SessionClosed \/ StopsListening \/ Closes("server")

-----------------------------------------------------------------------------
(* handle_wifi_config_opcode, start_station and start_softap               *)

EspMayBegin == At("command", "idle") /\ Len(events) < MaxEvents

Apply ==
  /\ EspMayBegin
  /\ s_has_config' = TRUE
  /\ target' = "station" /\ Goto("command", "test_active")
  /\ UNCHANGED <<s_station_online, s_reconnect_pending, s_runtime_mode,
                 espSockets, serving, crossed, asleep, driver>>

(* clear_wifi_config resets the status whether it succeeds or not.         *)
EspClearConfig ==
  /\ EspMayBegin
  /\ s_station_online' = FALSE
  /\ s_reconnect_pending' = FALSE
  /\ \/ /\ s_has_config' = FALSE
        /\ target' = "softap" /\ Goto("command", "test_active")
     \/ UNCHANGED <<s_has_config, target, stage>>
  /\ UNCHANGED <<s_runtime_mode, espSockets, serving, crossed, asleep, driver>>

EspStationStarts ==
  /\ At("command", "last") /\ target = "station"
  /\ wifi' = "idle"
  /\ events' = Append(AfterLeaving, "STA_START")
  /\ s_runtime_mode' = "station"
  /\ Goto("command", "idle")
  /\ UNCHANGED <<s_has_config, s_station_online, s_reconnect_pending,
                 espSockets, target, serving, crossed, asleep>>

SoftapStarts ==
  /\ At("command", "last") /\ target = "softap"
  /\ wifi' = "ap" /\ events' = AfterLeaving
  /\ s_runtime_mode' = "softap"
  /\ Goto("command", "idle")
  /\ EnsureServer
  /\ UNCHANGED <<s_has_config, s_station_online, s_reconnect_pending,
                 espSockets, target, crossed, asleep>>

(* The power fails, or a RESET; the credentials are in flash.              *)
EspRestart ==
  /\ s_station_online' = FALSE
  /\ s_reconnect_pending' = FALSE
  /\ s_runtime_mode' = "none"
  /\ s_active_sock' = NoSock
  /\ s_listen_sock' = NoSock
  /\ open' = {}
  /\ target' = IF s_has_config THEN "station" ELSE "softap"
  /\ stage' = [t \in Task |-> IF t = "command" THEN "last" ELSE "idle"]
  /\ serving' = NoServer
  /\ crossed' = FALSE
  /\ asleep' = 0
  /\ wifi' = "stopped"
  /\ events' = <<>>
  /\ UNCHANGED s_has_config

-----------------------------------------------------------------------------
(* wifi_event_handler                                                      *)

EspHandle(event) == At("event", "idle") /\ Handle(event)

EspStarted ==
  /\ EspHandle("STA_START")
  /\ WifiConnect
  /\ UNCHANGED <<espStation, espSockets, target, stage, serving, crossed,
                 asleep>>

(* Mutant: the station stays online.                                       *)
DisconnectedOnline ==
  /\ EspHandle("STA_DISCONNECTED")
  /\ Goto("event", "test_active")
  /\ UNCHANGED <<espStation, espSockets, target, serving, crossed, asleep,
                 wifi>>

EspDisconnected ==
  /\ EspHandle("STA_DISCONNECTED")
  /\ s_station_online' = FALSE
  /\ Goto("event", "test_active")
  /\ UNCHANGED <<s_has_config, s_reconnect_pending, s_runtime_mode,
                 espSockets, target, serving, crossed, asleep, wifi>>

(* Mutant: no task, no attempt.                                            *)
RetryOrGiveUp ==
  /\ At("event", "last")
  /\ Goto("event", "idle")
  /\ \/ /\ s_runtime_mode = "station" /\ s_has_config /\ ~s_reconnect_pending
        /\ asleep < MaxAsleep
        /\ s_reconnect_pending' = TRUE /\ asleep' = asleep + 1
     \/ UNCHANGED <<s_reconnect_pending, asleep>>
  /\ UNCHANGED <<s_has_config, s_station_online, s_runtime_mode, espSockets,
                 target, serving, crossed, driver>>

(* Without memory for a task the station reconnects at once.               *)
Retry ==
  /\ At("event", "last")
  /\ Goto("event", "idle")
  /\ \/ /\ s_runtime_mode = "station" /\ s_has_config /\ ~s_reconnect_pending
        /\ \/ /\ asleep < MaxAsleep
              /\ s_reconnect_pending' = TRUE /\ asleep' = asleep + 1
              /\ UNCHANGED wifi
           \/ WifiConnect /\ UNCHANGED <<s_reconnect_pending, asleep>>
     \/ /\ ~(s_runtime_mode = "station" /\ s_has_config /\ ~s_reconnect_pending)
        /\ UNCHANGED <<s_reconnect_pending, asleep, wifi>>
  /\ UNCHANGED <<s_has_config, s_station_online, s_runtime_mode, espSockets,
                 target, serving, crossed, events>>

EspGotIp ==
  /\ EspHandle("GOT_IP")
  /\ s_station_online' = TRUE
  /\ s_reconnect_pending' = FALSE
  /\ EnsureServer
  /\ UNCHANGED <<s_has_config, s_runtime_mode, espSockets, target, stage,
                 crossed, asleep, wifi>>

(* wifi_reconnect_task wakes up.                                           *)
EspWake ==
  /\ asleep > 0
  /\ asleep' = asleep - 1
  /\ s_reconnect_pending' = FALSE
  /\ IF s_has_config /\ s_runtime_mode = "station"
     THEN WifiConnect ELSE UNCHANGED wifi
  /\ UNCHANGED <<s_has_config, s_station_online, s_runtime_mode, espSockets,
                 target, stage, serving, crossed, events>>

-----------------------------------------------------------------------------
CommandTask == Closes("command") \/ EspStationStarts \/ SoftapStarts
EventTask == EspStarted \/ EspDisconnected \/ Closes("event") \/ Retry \/ EspGotIp

EspNext ==
  \/ Apply \/ EspClearConfig \/ CommandTask \/ EventTask \/ Serve
  \/ EspWake \/ EspRadio \/ EspRestart

EspSpec == EspInit /\ [][EspNext]_espVars

(* What the server does without a client: a call on a socket that somebody *)
(* has closed returns.                                                     *)
ServeAlone ==
  \/ Listen \/ SessionClosed \/ StopsListening \/ Closes("server")
  \/ serving.listen \notin open /\ AcceptFails
  \/ serving.sock \notin open /\ (HandshakeFails \/ SessionEnds)

(* Tasks run, sleeping ends, and an attempt to join succeeds or fails.  No *)
(* client has to come, to go on or to leave.                               *)
EspFairness ==
  /\ WF_espVars(CommandTask)
  /\ WF_espVars(EventTask)
  /\ WF_espVars(ServeAlone)
  /\ WF_espVars(EspWake)
  /\ WF_espVars(wifi = "connecting" /\ EspRadio)

EspFairSpec == EspSpec /\ EspFairness

-----------------------------------------------------------------------------
(* Properties.                                                             *)

(* The answers of the command task go to the client that is served, and a  *)
(* loss of the network reaches it: whoever closes what, s_active_sock      *)
(* names the socket of the session until that is closed, unless the server *)
(* has opened a session while another task was about to forget it.         *)
ServedClientIsKnown ==
  ~crossed /\ serving.pc = "session" /\ serving.sock \in open =>
    s_active_sock = serving.sock

(* It names no other: a server that waits for a client turns none away,    *)
(* whatever has been crossed.                                              *)
NobodyIsTurnedAway ==
  s_active_sock # NoSock =>
    s_active_sock = serving.sock /\ serving.pc \in {"session", "closing"}

(* lwIP has a handful of sockets.  None is lost, although two tasks may    *)
(* close one, or both leave it to the other: open are at most the listener *)
(* and the client that the server deals with.  Only a session that was     *)
(* opened while another task was about to forget s_active_sock may leave   *)
(* its socket open for good.                                               *)
NoSocketIsLost ==
  ~crossed =>
    open \subseteq {serving.listen} \cup
                   (IF serving.pc \in {"handshake", "session", "closing"}
                    THEN {serving.sock} ELSE {})

(* When the driver's events have been handled, a station that is said to   *)
(* be online is in its network, whatever operation an event has met        *)
(* half-way; and while it is said to be reconnecting, a task sleeps that   *)
(* will.  That a station in its network is said to be online does not      *)
(* hold: EspClearConfig resets the status even where it fails.             *)
EspStatusIsTrue ==
  /\ events = <<>> /\ At("event", "idle") /\ At("command", "idle") =>
       (s_station_online => wifi = "connected")
  /\ s_reconnect_pending => asleep > 0

(* Somebody is left to join the network: with every event handled and no   *)
(* operation under way, a board with credentials is joined or joining, or  *)
(* a task sleeps that will make it, also where a network is lost while the *)
(* credentials change.                                                     *)
EspNoStandstill ==
  /\ s_has_config
  /\ events = <<>> /\ At("event", "idle") /\ At("command", "idle")
  => Joined \/ asleep > 0

(* A board with credentials never stops trying to join its network.        *)
EspKeepsTrying ==
  \/ []<>(Joined \/ ~s_has_config)
  \/ []<><<EspRestart>>_espVars

(* A server that was created listens again and again, whatever has been    *)
(* closed under it, unless a client stays for good or crossed sessions     *)
(* have lost all of the descriptors.                                       *)
ListensAgain ==
  \/ []<>(serving.pc \in {"none", "accept"})
  \/ <>[](crossed /\ open = Sock /\ serving.pc = "open")
  \/ <>[](serving.pc \in {"handshake", "session"} /\ serving.sock \in open)
=============================================================================
