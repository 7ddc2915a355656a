----------------------------- MODULE StationProofs -----------------------------
(***************************************************************************)
(* What TLAPS proves of the two Wi-Fi stations, for any number of clients, *)
(* sockets, waiting events and sleeping tasks.                             *)
(*                                                                         *)
(* Of the ESP32 (WifiTransport), whenever credentials change and whatever  *)
(* operations overlap: its types, that it has one client, and that its     *)
(* status is true; and, if credentials do not change while it waits to try *)
(* again, that it never stands still.                                      *)
(*                                                                         *)
(* Of the ESP8266 (Esp8266), whatever tasks interleave: its types, that    *)
(* its status is true, that it never stands still and that it turns nobody *)
(* away for a client that is gone; and, until a session is opened while    *)
(* another task is about to forget its client, that no socket is lost and  *)
(* that the client that is served is known.                                *)
(***************************************************************************)
EXTENDS WifiTransport, Esp8266, TLAPS

LEMMA Bounds ==
  /\ MaxEvents \in Nat /\ MaxAsleep \in Nat /\ 0 \in 0 .. MaxAsleep
  /\ NoSocket \notin Socket
  BY StationAssumption, WifiAssumption

LEMMA NothingIsTyped == <<>> \in Seq(Event)
  OBVIOUS

LEMMA AppendIsTyped ==
  ASSUME NEW q \in Seq(Event), NEW e \in Event
  PROVE  Append(q, e) \in Seq(Event)
  OBVIOUS

LEMMA EventsAreTyped ==
  ASSUME events \in Seq(Event)
  PROVE  /\ AfterLeaving \in Seq(Event)
         /\ Append(events, "STA_START") \in Seq(Event)
         /\ Append(events, "STA_DISCONNECTED") \in Seq(Event)
         /\ Append(events, "GOT_IP") \in Seq(Event)
         /\ events # <<>> => Tail(events) \in Seq(Event)
  BY AppendIsTyped DEF AfterLeaving, Event

LEMMA JobsAreTyped ==
  /\ NoJob \in Job /\ NoJob.pc = "driver" /\ NoJob.op = "none"
  /\ \A op \in Operation, pc \in {"stop_server", "driver"} : [op |-> op, pc |-> pc] \in Job
  /\ \A j \in Job : j.op \in Operation
  /\ \A has_config \in BOOLEAN : Starting(has_config) \in [Agent -> Job]
  BY DEF Job, NoJob, Operation, Starting

LEMMA DoingIsTyped ==
  ASSUME TypeOK, NEW t
  PROVE  /\ Ends(t) => job' \in [Agent -> Job]
         /\ \A op \in Operation, pc \in {"stop_server", "driver"} :
              Does(t, op, pc) => job' \in [Agent -> Job]
  BY JobsAreTyped DEF TypeOK, Ends, Does

LEMMA BeginningIsTyped ==
  ASSUME TypeOK, NEW t, Begin(t)
  PROVE  collided' \in BOOLEAN
  BY DEF TypeOK, Begin, AtRest

LEMMA RestartKeepsTypes ==
  ASSUME TypeOK, Restart
  PROVE  TypeOK'
  BY Bounds, NothingIsTyped, JobsAreTyped DEF TypeOK, StationTypeOK, Restart

LEMMA StationIsTyped ==
  ASSUME TypeOK, NEW t, StartStation(t)
  PROVE  /\ {s_station_online', s_reconnect_pending',
             s_suppress_next_disconnect_reconnect', s_httpd'} \subseteq BOOLEAN
         /\ s_active_fd' \in Socket \cup {NoSocket} /\ sockets' \in SUBSET Socket
         /\ job' \in [Agent -> Job]
<1>1. job' \in [Agent -> Job]
  BY DoingIsTyped DEF StartStation, Operation
<1> QED
  BY <1>1 DEF TypeOK, StationTypeOK, StartStation, Forget, server

LEMMA ProceedingKeepsTypes ==
  ASSUME TypeOK, NEW t \in Agent, Proceeds(t)
  PROVE  TypeOK'
<1> USE DEF station, server, driver
<1>1. CASE JobStopsServer(t)
  <2>1. job[t].op \in Operation
    BY JobsAreTyped DEF TypeOK
  <2>2. job' \in [Agent -> Job]
    BY <1>1, <2>1, DoingIsTyped DEF JobStopsServer
  <2> QED
    BY <1>1, <2>2 DEF JobStopsServer, StopServer, TypeOK, StationTypeOK
<1>2. CASE StationChecks(t) \/ StationStarts(t) \/ StationReconnects(t)
  <2>1. events' \in Seq(Event)
    BY <1>2, EventsAreTyped
       DEF StationChecks, StationStarts, StationReconnects, TypeOK, StationTypeOK
  <2>2. job' \in [Agent -> Job]
    BY <1>2, DoingIsTyped DEF StationChecks, StationStarts, StationReconnects, Operation
  <2> QED
    BY <1>2, <2>1, <2>2 DEF StationChecks, StationStarts, StationReconnects, WifiConnect,
                            TypeOK, StationTypeOK
<1>3. CASE StationPanics(t)
  BY <1>3, RestartKeepsTypes DEF StationPanics
<1>4. CASE StationStops(t) \/ StationYields(t)
  <2>1. events' \in Seq(Event) /\ job' \in [Agent -> Job]
    BY <1>4, EventsAreTyped, DoingIsTyped
       DEF StationStops, StationYields, TypeOK, StationTypeOK
  <2> QED
    BY <1>4, <2>1 DEF StationStops, StationYields, TypeOK, StationTypeOK
<1> QED
  BY <1>1, <1>2, <1>3, <1>4 DEF Proceeds

LEMMA StepKeepsTypes ==
  ASSUME TypeOK, [Next]_vars
  PROVE  TypeOK'
<1> USE DEF station, server, driver
<1>1. CASE Provision
  <2>1. collided' \in BOOLEAN
    BY <1>1, BeginningIsTyped DEF Provision
  <2>2. events' \in Seq(Event)
    BY <1>1, EventsAreTyped DEF Provision, StationMode, TypeOK, StationTypeOK
  <2> QED
    BY <1>1, <2>1, <2>2, StationIsTyped DEF Provision, StationMode, TypeOK, StationTypeOK
<1>2. CASE ClearConfig \/ Suspend
  <2>1. job' \in [Agent -> Job] /\ collided' \in BOOLEAN
    BY <1>2, DoingIsTyped, BeginningIsTyped DEF ClearConfig, Suspend, Operation
  <2> QED
    BY <1>2, <2>1 DEF ClearConfig, Suspend, Forget, TypeOK, StationTypeOK
<1>3. CASE Resume
  <2>0. events' \in Seq(Event) /\ collided' \in BOOLEAN
    BY <1>3, EventsAreTyped, BeginningIsTyped DEF Resume, TypeOK, StationTypeOK
  <2>1. CASE s_has_config /\ s_station_started /\ StartStation("ble")
    BY <1>3, <2>0, <2>1, StationIsTyped DEF Resume, TypeOK, StationTypeOK
  <2>2. CASE ~(s_has_config /\ s_station_started)
    <3>1. UNCHANGED job \/ Does("ble", "start", "driver")
      BY <1>3, <2>2 DEF Resume
    <3>2. job' \in [Agent -> Job]
      BY <3>1, DoingIsTyped DEF TypeOK, Operation
    <3> QED
      BY <1>3, <2>0, <2>2, <3>2 DEF Resume, TypeOK, StationTypeOK
  <2> QED
    BY <1>3, <2>1, <2>2 DEF Resume
<1>4. ASSUME NEW t \in Agent, Proceeds(t) PROVE TypeOK'
  BY <1>4, ProceedingKeepsTypes
<1>5. CASE Restart
  BY <1>5, RestartKeepsTypes
<1>6. CASE Started \/ GotIp
  BY <1>6, EventsAreTyped DEF Started, GotIp, Handle, WifiConnect, TypeOK, StationTypeOK
<1>7. CASE Disconnected
  <2>1. events' \in Seq(Event)
    BY <1>7, EventsAreTyped DEF Disconnected, Handle, TypeOK, StationTypeOK
  <2>2. /\ s_reconnect_pending' \in BOOLEAN /\ asleep' \in 0 .. MaxAsleep
        /\ wifi' \in {"stopped", "ap", "idle", "connecting", "connected"}
    <3>1. CASE UNCHANGED <<s_reconnect_pending, asleep>>
      BY <1>7, <3>1 DEF Disconnected, TryAgain, WifiConnect, TypeOK, StationTypeOK
    <3>2. CASE /\ asleep < MaxAsleep /\ asleep' = asleep + 1
               /\ s_reconnect_pending' = TRUE /\ UNCHANGED wifi
      <4>1. asleep' \in 0 .. MaxAsleep
        BY <3>2, Bounds DEF TypeOK, StationTypeOK
      <4> QED
        BY <3>2, <4>1 DEF TypeOK, StationTypeOK
    <3> QED
      BY <1>7, <3>1, <3>2 DEF Disconnected, TryAgain
  <2> QED
    BY <1>7, <2>1, <2>2 DEF Disconnected, TypeOK, StationTypeOK
<1>8. CASE Wake
  <2>1. asleep' \in 0 .. MaxAsleep
    BY <1>8, Bounds DEF Wake, TypeOK, StationTypeOK
  <2> QED
    BY <1>8, <2>1 DEF Wake, WifiConnect, TypeOK, StationTypeOK
<1>9. CASE Radio
  BY <1>9, EventsAreTyped DEF Radio, Reports, Joined, TypeOK, StationTypeOK
<1>10. ASSUME NEW fd \in Socket, Open(fd) \/ Close(fd) PROVE TypeOK'
  BY <1>10 DEF Open, Close, TypeOK, StationTypeOK
<1>11. CASE UNCHANGED vars
  BY <1>11 DEF vars, TypeOK, StationTypeOK
<1> QED
  BY <1>1, <1>2, <1>3, <1>4, <1>5, <1>6, <1>7, <1>8, <1>9, <1>10, <1>11
     DEF Next, HandleEvent

(* The variables keep their types, whenever credentials, updates, events   *)
(* and clients come and go.                                                *)
THEOREM TypeCorrect == Spec => []TypeOK
<1>1. Init => TypeOK
  BY Bounds, NothingIsTyped, JobsAreTyped DEF Init, Boot, TypeOK, StationTypeOK
<1>2. TypeOK /\ [Next]_vars => TypeOK'
  BY StepKeepsTypes
<1> QED
  BY <1>1, <1>2, PTL DEF Spec

-----------------------------------------------------------------------------
(* No operation is about to close the sockets.                             *)
NoneStops == \A t \in Agent : job[t].pc # "stop_server"

LEMMA DoingStops ==
  ASSUME TypeOK, NEW t \in Agent
  PROVE  /\ \A op : Does(t, op, "stop_server") => ~NoneStops'
         /\ job[t].pc # "stop_server" /\ Ends(t) => NoneStops' = NoneStops
         /\ \A op : job[t].pc # "stop_server" /\ Does(t, op, "driver")
                     => NoneStops' = NoneStops
  BY DEF TypeOK, Does, Ends, NoneStops, NoJob

LEMMA StepKeepsOneClient ==
  ASSUME TypeOK, OneClient, [Next]_vars
  PROVE  OneClient'
<1> USE DEF OneClient, station, server, driver
<1>0. /\ NoSocket \notin sockets
      /\ "command" \in Agent /\ "ble" \in Agent
  BY Bounds DEF TypeOK, StationTypeOK, Agent
<1>1. CASE Provision \/ ClearConfig \/ Suspend \/ Resume
  <2>1. CASE Forget /\ ~NoneStops'
    BY <1>0, <2>1 DEF Forget, NoneStops
  <2>2. CASE UNCHANGED server /\ NoneStops' = NoneStops
    BY <2>2 DEF NoneStops
  <2>3. ASSUME NEW t \in Agent, Begin(t)
        PROVE  /\ job[t].pc # "stop_server"
               /\ StartStation(t) => \/ Forget /\ ~NoneStops'
                                     \/ UNCHANGED server /\ NoneStops' = NoneStops
    BY <2>3, DoingStops DEF Begin, NoJob, StartStation
  <2>4. CASE Provision
    BY <1>0, <2>1, <2>2, <2>3, <2>4 DEF Provision
  <2>5. CASE ClearConfig \/ Suspend
    BY <1>0, <2>1, <2>3, <2>5, DoingStops DEF ClearConfig, Suspend
  <2>6. CASE Resume
    <3>1. UNCHANGED job => NoneStops' = NoneStops
      BY DEF NoneStops
    <3> QED
      BY <1>0, <2>1, <2>2, <2>3, <2>6, <3>1, DoingStops DEF Resume
  <2> QED
    BY <1>1, <2>4, <2>5, <2>6
<1>2. ASSUME NEW t \in Agent, JobStopsServer(t) PROVE OneClient'
  BY <1>2 DEF JobStopsServer, StopServer
<1>3. ASSUME NEW t \in Agent,
             \/ StationChecks(t) \/ StationStarts(t) \/ StationReconnects(t)
             \/ StationStops(t) \/ StationYields(t)
      PROVE  OneClient'
  <2>1. /\ UNCHANGED server /\ job[t].pc # "stop_server"
        /\ Ends(t) \/ \E op : Does(t, op, "driver")
    BY <1>3 DEF StationChecks, StationStarts, StationReconnects, StationStops, StationYields
  <2> QED
    BY <2>1, DoingStops DEF NoneStops
<1>4. CASE Restart \/ \E t \in Agent : StationPanics(t)
  BY <1>4 DEF Restart, StationPanics
<1>5. CASE Started \/ GotIp \/ Disconnected \/ Wake
  BY <1>5 DEF Started, GotIp, Disconnected, Wake
<1>6. CASE Radio \/ UNCHANGED vars
  BY <1>6 DEF Radio, vars
<1>7. ASSUME NEW fd \in Socket, Open(fd) PROVE OneClient'
  BY <1>0, <1>7 DEF Open
<1>8. ASSUME NEW fd \in Socket, Close(fd) PROVE OneClient'
  BY <1>0, <1>8 DEF Close
<1> QED
  BY <1>0, <1>1, <1>2, <1>3, <1>4, <1>5, <1>6, <1>7, <1>8
     DEF Next, Proceeds, HandleEvent

(* One client has the board: whatever operations or events interleave with *)
(* handshakes, the state that keeps others out names an open socket, and   *)
(* no other socket is open unless all are about to be closed.              *)
THEOREM HasOneClient == Spec => []OneClient
<1>1. Init => OneClient
  BY DEF Init, Boot, OneClient
<1>2. TypeOK /\ OneClient /\ [Next]_vars => OneClient'
  BY StepKeepsOneClient
<1> QED
  BY <1>1, <1>2, TypeCorrect, PTL DEF Spec

-----------------------------------------------------------------------------
(* What the events that wait will say of the station in the end.           *)

Says(queue, event) ==
  \E i \in 1 .. Len(queue) :
    /\ queue[i] = event
    /\ \A j \in 1 .. Len(queue) : j > i => queue[j] = "STA_START"
SaysNothing(queue) == \A i \in 1 .. Len(queue) : queue[i] = "STA_START"

(* An operation is about to leave the network.                             *)
LeavesNetwork(t) == job[t].op \in {"reconnect", "clear", "suspend"}
Leaving == \E t \in Agent : LeavesNetwork(t)

(* The inductive invariant: the last event of joining or leaving that      *)
(* waits, or the status if there is none, agrees with the driver.          *)
StatusInv ==
  /\ \/ Says(events, "GOT_IP") /\ wifi = "connected"
     \/ Says(events, "STA_DISCONNECTED") /\ wifi # "connected"
     \/ /\ SaysNothing(events)
        /\ wifi = "connected" => s_station_online \/ Leaving
        /\ wifi # "connected" => ~s_station_online /\ ~s_httpd
  /\ s_reconnect_pending => asleep > 0

LEMMA Posting ==
  ASSUME NEW q \in Seq(Event), NEW e \in Event, e # "STA_START"
  PROVE  Says(Append(q, e), e)
<1>1. Len(q) + 1 \in 1 .. Len(Append(q, e))
  OBVIOUS
<1>2. Append(q, e)[Len(q) + 1] = e
  OBVIOUS
<1>3. \A j \in 1 .. Len(Append(q, e)) : ~(j > Len(q) + 1)
  OBVIOUS
<1> QED
  BY <1>1, <1>2, <1>3 DEF Says

LEMMA PostingStart ==
  ASSUME NEW q \in Seq(Event), NEW e \in Event
  PROVE  /\ Says(q, e) => Says(Append(q, "STA_START"), e)
         /\ SaysNothing(q) => SaysNothing(Append(q, "STA_START"))
<1> DEFINE queue == Append(q, "STA_START")
<1>1. /\ Len(queue) = Len(q) + 1 /\ queue[Len(q) + 1] = "STA_START"
      /\ \A i \in 1 .. Len(q) : queue[i] = q[i]
      /\ \A i \in 1 .. Len(queue) : i \in 1 .. Len(q) \/ i = Len(q) + 1
  OBVIOUS
<1> HIDE DEF queue
<1>2. Says(q, e) => Says(queue, e)
  BY <1>1 DEF Says
<1>3. SaysNothing(q) => SaysNothing(queue)
  BY <1>1 DEF SaysNothing
<1> QED
  BY <1>2, <1>3 DEF queue

LEMMA Handling ==
  ASSUME events \in Seq(Event), events # <<>>, NEW e \in Event
  PROVE  /\ SaysNothing(events) => Head(events) = "STA_START" /\ SaysNothing(Tail(events))
         /\ Says(events, e) => Says(Tail(events), e)
                               \/ (Head(events) = e /\ SaysNothing(Tail(events)))
<1> DEFINE queue == Tail(events)
<1>1. /\ Head(events) = events[1] /\ 1 \in 1 .. Len(events)
      /\ \A i \in 1 .. Len(queue) : queue[i] = events[i + 1] /\ i + 1 \in 1 .. Len(events)
      /\ \A i \in 1 .. Len(events) :
           i # 1 => i - 1 \in 1 .. Len(queue) /\ queue[i - 1] = events[i]
  OBVIOUS
<1> HIDE DEF queue
<1>2. SaysNothing(events) => Head(events) = "STA_START" /\ SaysNothing(queue)
  BY <1>1 DEF SaysNothing
<1>3. ASSUME Says(events, e)
      PROVE  Says(queue, e) \/ (Head(events) = e /\ SaysNothing(queue))
  <2>1. PICK i \in 1 .. Len(events) :
          /\ events[i] = e
          /\ \A j \in 1 .. Len(events) : j > i => events[j] = "STA_START"
    BY <1>3 DEF Says
  <2>2. CASE i = 1
    <3>1. Head(events) = e
      BY <1>1, <2>1, <2>2
    <3>2. SaysNothing(queue)
      BY <1>1, <2>1, <2>2 DEF SaysNothing
    <3> QED
      BY <3>1, <3>2
  <2>3. CASE i # 1
    <3>1. i - 1 \in 1 .. Len(queue) /\ queue[i - 1] = e
      BY <1>1, <2>1, <2>3
    <3>2. \A j \in 1 .. Len(queue) : j > i - 1 => queue[j] = "STA_START"
      BY <1>1, <2>1
    <3> QED
      BY <3>1, <3>2 DEF Says
  <2> QED
    BY <2>2, <2>3
<1> QED
  BY <1>2, <1>3 DEF queue

LEMMA Leaves ==
  ASSUME TypeOK, StatusInv
  PROVE  \/ Says(AfterLeaving, "STA_DISCONNECTED")
         \/ SaysNothing(AfterLeaving) /\ ~s_station_online /\ ~s_httpd
<1>1. CASE Joined
  BY <1>1, Posting DEF AfterLeaving, TypeOK, StationTypeOK, Event
<1>2. CASE ~Joined
  BY <1>2 DEF AfterLeaving, Joined, StatusInv
<1> QED
  BY <1>1, <1>2

LEMMA BeginningLeaves ==
  ASSUME TypeOK, NEW t \in Agent, Begin(t)
  PROVE  /\ ~LeavesNetwork(t)
         /\ \A op, pc : Does(t, op, pc) => (Leaving => Leaving')
         /\ \A op \in {"reconnect", "clear", "suspend"} : \A pc :
              Does(t, op, pc) => Leaving'
  BY DEF TypeOK, Begin, NoJob, Leaving, LeavesNetwork, Does

LEMMA ProceedingKeepsStatus ==
  ASSUME TypeOK, StatusInv, NEW t \in Agent, Proceeds(t)
  PROVE  StatusInv'
<1> USE DEF station, server, driver
<1>1. CASE JobStopsServer(t)
  <2>1. Leaving' = Leaving
    BY <1>1 DEF JobStopsServer, Does, Leaving, LeavesNetwork, TypeOK
  <2> QED
    BY <1>1, <2>1 DEF JobStopsServer, StopServer, StatusInv
<1>2. CASE StationChecks(t)
  <2>1. UNCHANGED <<s_station_online, s_httpd, s_reconnect_pending, asleep>>
    BY <1>2 DEF StationChecks
  <2>2. CASE job[t].op = "reconnect"
    <3>1. wifi' # "connected" /\ events' = AfterLeaving
      BY <1>2, <2>2 DEF StationChecks, Joined
    <3> QED
      BY <2>1, <3>1, Leaves DEF StatusInv
  <2>3. CASE job[t].op = "start"
    <3>1. Leaving => Leaving'
      BY <1>2, <2>3 DEF StationChecks, Does, Leaving, LeavesNetwork, TypeOK
    <3> QED
      BY <1>2, <2>1, <2>3, <3>1 DEF StationChecks, StatusInv
  <2> QED
    BY <1>2, <2>2, <2>3 DEF StationChecks
<1>5. CASE StationStarts(t) \/ StationReconnects(t)
  <2>1. UNCHANGED <<s_station_online, s_httpd, s_reconnect_pending, asleep>>
        /\ (wifi' = "connected" <=> wifi = "connected")
    BY <1>5 DEF StationStarts, StationReconnects, WifiConnect
  <2>2. Leaving => Leaving'
    BY <1>5 DEF StationStarts, StationReconnects, Ends, Leaving, LeavesNetwork, TypeOK
  <2>3. UNCHANGED events \/ events' = Append(events, "STA_START")
    BY <1>5 DEF StationStarts, StationReconnects
  <2> QED
    BY <2>1, <2>2, <2>3, PostingStart DEF StatusInv, TypeOK, StationTypeOK, Event
<1>3. CASE StationPanics(t)
  <2>1. SaysNothing(events')
    BY <1>3 DEF Restart, StationPanics, SaysNothing
  <2> QED
    BY <1>3, <2>1 DEF Restart, StationPanics, StatusInv
<1>4. CASE StationStops(t) \/ StationYields(t)
  <2>1. UNCHANGED <<s_station_online, s_httpd, s_reconnect_pending, asleep>>
    BY <1>4 DEF StationStops, StationYields
  <2>2. events' = AfterLeaving /\ wifi' # "connected"
    BY <1>4 DEF StationStops, StationYields
  <2> QED
    BY <2>1, <2>2, Leaves DEF StatusInv
<1> QED
  BY <1>1, <1>2, <1>3, <1>4, <1>5 DEF Proceeds

LEMMA StepKeepsStatus ==
  ASSUME TypeOK, StatusInv, [Next]_vars
  PROVE  StatusInv'
<1> USE DEF station, server, driver
<1>0. "command" \in Agent /\ "ble" \in Agent
  BY DEF Agent
<1>1. CASE Provision \/ ClearConfig \/ Suspend
  <2>1. /\ UNCHANGED <<s_httpd, asleep>> /\ (s_reconnect_pending' => s_reconnect_pending)
        /\ wifi' = "connected" <=> wifi = "connected"
        /\ UNCHANGED events \/ events' = Append(events, "STA_START")
    BY <1>1 DEF Provision, ClearConfig, Suspend, StartStation, StationMode, Forget
  <2>2. \/ UNCHANGED s_station_online /\ (Leaving => Leaving')
        \/ ~s_station_online' /\ Leaving'
    BY <1>0, <1>1, BeginningLeaves
       DEF Provision, ClearConfig, Suspend, StartStation, Forget
  <2>3. /\ SaysNothing(events) => SaysNothing(events')
        /\ Says(events, "GOT_IP") => Says(events', "GOT_IP")
        /\ Says(events, "STA_DISCONNECTED") => Says(events', "STA_DISCONNECTED")
    BY <2>1, PostingStart DEF TypeOK, StationTypeOK, Event
  <2> QED
    BY <2>1, <2>2, <2>3 DEF StatusInv
<1>2. CASE Resume
  <2>1. wifi' = "stopped" /\ events' = AfterLeaving
    BY <1>2 DEF Resume
  <2>2. /\ s_station_online' => s_station_online
        /\ s_httpd' = s_httpd
        /\ asleep' = asleep /\ (s_reconnect_pending' => s_reconnect_pending)
    BY <1>2 DEF Resume, StartStation, Forget
  <2> QED
    BY <2>1, <2>2, Leaves DEF StatusInv
<1>3. ASSUME NEW t \in Agent, Proceeds(t) PROVE StatusInv'
  BY <1>3, ProceedingKeepsStatus
<1>4. CASE Restart
  <2>1. SaysNothing(events')
    BY <1>4 DEF Restart, SaysNothing
  <2> QED
    BY <1>4, <2>1 DEF Restart, StatusInv
<1>5. CASE Started
  <2>1. UNCHANGED <<s_station_online, s_httpd, s_reconnect_pending, asleep, job>>
    BY <1>5 DEF Started
  <2>2. wifi' = "connected" <=> wifi = "connected"
    BY <1>5 DEF Started, WifiConnect
  <2>3. /\ SaysNothing(events) => SaysNothing(events')
        /\ Says(events, "GOT_IP") => Says(events', "GOT_IP")
        /\ Says(events, "STA_DISCONNECTED") => Says(events', "STA_DISCONNECTED")
    BY <1>5, Handling DEF Started, Handle, TypeOK, StationTypeOK, Event
  <2> QED
    BY <2>1, <2>2, <2>3 DEF StatusInv, Leaving, LeavesNetwork
<1>6. CASE Disconnected
  <2>1. ~s_station_online' /\ ~s_httpd'
    BY <1>6 DEF Disconnected
  <2>2. wifi' = "connected" <=> wifi = "connected"
    BY <1>6 DEF Disconnected, TryAgain, WifiConnect
  <2>3. ~SaysNothing(events) /\ (Says(events, "GOT_IP") => Says(events', "GOT_IP"))
        /\ (Says(events, "STA_DISCONNECTED")
              => Says(events', "STA_DISCONNECTED") \/ SaysNothing(events'))
    BY <1>6, Handling DEF Disconnected, Handle, TypeOK, StationTypeOK, Event
  <2>4. s_reconnect_pending' => asleep' > 0
    <3>1. UNCHANGED <<s_reconnect_pending, asleep>> \/ asleep' = asleep + 1
      BY <1>6 DEF Disconnected, TryAgain
    <3>2. asleep + 1 > 0
      BY Bounds DEF TypeOK, StationTypeOK
    <3>3. s_reconnect_pending => asleep > 0
      BY DEF StatusInv
    <3> QED
      BY <3>1, <3>2, <3>3
  <2> QED
    BY <2>1, <2>2, <2>3, <2>4 DEF StatusInv
<1>7. CASE GotIp
  <2>1. s_station_online' /\ ~s_reconnect_pending' /\ UNCHANGED wifi
    BY <1>7 DEF GotIp
  <2>2. ~SaysNothing(events)
        /\ (Says(events, "STA_DISCONNECTED") => Says(events', "STA_DISCONNECTED"))
        /\ (Says(events, "GOT_IP") => Says(events', "GOT_IP") \/ SaysNothing(events'))
    BY <1>7, Handling DEF GotIp, Handle, TypeOK, StationTypeOK, Event
  <2> QED
    BY <2>1, <2>2 DEF StatusInv
<1>8. CASE Wake
  <2>1. UNCHANGED <<s_station_online, s_httpd, events, job>> /\ ~s_reconnect_pending'
    BY <1>8 DEF Wake
  <2>2. wifi' = "connected" <=> wifi = "connected"
    BY <1>8 DEF Wake, WifiConnect
  <2> QED
    BY <2>1, <2>2 DEF StatusInv, Leaving, LeavesNetwork
<1>9. CASE Radio
  <2>1. UNCHANGED <<s_reconnect_pending, asleep>>
    BY <1>9 DEF Radio, Reports, Joined
  <2>2. \/ wifi' = "connected" /\ Says(events', "GOT_IP")
        \/ wifi' # "connected" /\ Says(events', "STA_DISCONNECTED")
    BY <1>9, Posting DEF Radio, Reports, Joined, TypeOK, StationTypeOK, Event
  <2> QED
    BY <2>1, <2>2 DEF StatusInv
<1>10. ASSUME NEW fd \in Socket, Open(fd) \/ Close(fd) PROVE StatusInv'
  BY <1>10 DEF Open, Close, StatusInv, Leaving, LeavesNetwork
<1>11. CASE UNCHANGED vars
  BY <1>11 DEF vars, StatusInv, Leaving, LeavesNetwork
<1> QED
  BY <1>0, <1>1, <1>2, <1>3, <1>4, <1>5, <1>6, <1>7, <1>8, <1>9, <1>10, <1>11
     DEF Next, HandleEvent

(* The status is true: with no event left to handle, the station is online *)
(* and the server listens only in the network, however operations, events  *)
(* and restarts interleave; reconnecting means that a task sleeps.         *)
THEOREM StatusHolds == Spec => []StatusIsTrue
<1>1. Init => StatusInv
  BY DEF Init, Boot, StatusInv, SaysNothing
<1>2. TypeOK /\ StatusInv /\ [Next]_vars => StatusInv'
  BY StepKeepsStatus
<1>3. StatusInv => StatusIsTrue
  <2>1. events = <<>> => ~Says(events, "GOT_IP") /\ ~Says(events, "STA_DISCONNECTED")
    BY DEF Says
  <2>2. AtRest => ~Leaving
    BY DEF AtRest, NoJob, Leaving, LeavesNetwork
  <2> QED
    BY <2>1, <2>2 DEF StatusInv, StatusIsTrue
<1> QED
  BY <1>1, <1>2, <1>3, TypeCorrect, PTL DEF Spec

-----------------------------------------------------------------------------
(* Which events wait, and what posting or handling one changes.            *)

Waits(queue, event) == \E i \in 1 .. Len(queue) : queue[i] = event
WaitsTwice(queue, event) ==
  \E i, j \in 1 .. Len(queue) : i # j /\ queue[i] = event /\ queue[j] = event

LEMMA AppendWaits ==
  ASSUME NEW q \in Seq(Event), NEW e \in Event
  PROVE  /\ Waits(Append(q, e), e)
         /\ Waits(q, e) => WaitsTwice(Append(q, e), e)
         /\ \A f \in Event :
              /\ Waits(q, f) => Waits(Append(q, e), f)
              /\ WaitsTwice(q, f) => WaitsTwice(Append(q, e), f)
<1> DEFINE queue == Append(q, e)
<1>1. /\ Len(q) + 1 \in 1 .. Len(queue) /\ queue[Len(q) + 1] = e
      /\ \A i \in 1 .. Len(q) :
           i \in 1 .. Len(queue) /\ queue[i] = q[i] /\ i # Len(q) + 1
  OBVIOUS
<1> HIDE DEF queue
<1>2. Waits(queue, e)
  BY <1>1 DEF Waits
<1>3. Waits(q, e) => WaitsTwice(queue, e)
  BY <1>1 DEF Waits, WaitsTwice
<1>4. \A f \in Event : /\ Waits(q, f) => Waits(queue, f)
                       /\ WaitsTwice(q, f) => WaitsTwice(queue, f)
  BY <1>1 DEF Waits, WaitsTwice
<1> QED
  BY <1>2, <1>3, <1>4 DEF queue

LEMMA TailWaits ==
  ASSUME events \in Seq(Event), events # <<>>, NEW f \in Event
  PROVE  /\ Head(events) # f => /\ Waits(events, f) => Waits(Tail(events), f)
                                /\ WaitsTwice(events, f) => WaitsTwice(Tail(events), f)
         /\ WaitsTwice(events, f) => Waits(Tail(events), f)
<1> DEFINE queue == Tail(events)
<1>1. /\ Head(events) = events[1]
      /\ \A i \in 1 .. Len(events) :
           i # 1 => i - 1 \in 1 .. Len(queue) /\ queue[i - 1] = events[i]
      /\ \A i, j \in 1 .. Len(events) : i # j => i - 1 # j - 1
  OBVIOUS
<1> HIDE DEF queue
<1>2. Head(events) # f /\ Waits(events, f) => Waits(queue, f)
  BY <1>1 DEF Waits
<1>3. Head(events) # f /\ WaitsTwice(events, f) => WaitsTwice(queue, f)
  <2> SUFFICES ASSUME Head(events) # f, WaitsTwice(events, f)
               PROVE  WaitsTwice(queue, f)
    OBVIOUS
  <2>1. PICK i, j \in 1 .. Len(events) : i # j /\ events[i] = f /\ events[j] = f
    BY DEF WaitsTwice
  <2>2. i # 1 /\ j # 1
    BY <1>1, <2>1
  <2> QED
    BY <1>1, <2>1, <2>2 DEF WaitsTwice
<1>4. WaitsTwice(events, f) => Waits(queue, f)
  BY <1>1 DEF Waits, WaitsTwice
<1> QED
  BY <1>2, <1>3, <1>4 DEF queue

-----------------------------------------------------------------------------
(* The inductive invariant of a station that tries: the flag that keeps    *)
(* the next disconnection from making it reconnect is set only while that  *)
(* disconnection is on its way, so that when it is left, a second one, a   *)
(* start or a sleeping task goes on.                                       *)

Flagged == s_suppress_next_disconnect_reconnect /\ ~s_runtime_suspended
Left == Waits(events, "STA_DISCONNECTED")

Tries ==
  \/ asleep > 0
  \/ Waits(events, "STA_START")
  \/ ~s_suppress_next_disconnect_reconnect /\ Left
  \/ WaitsTwice(events, "STA_DISCONNECTED")

UnderWay(op) == \E t \in Agent : job[t].op = op
Starts == UnderWay("start")
Rejoins == UnderWay("reconnect")
Launches == UnderWay("launch")
Connects == UnderWay("connect")
Clears == UnderWay("clear")
Suspends == UnderWay("suspend")

Alone == /\ \E t \in Agent : \A u \in Agent \ {t} : job[u] = NoJob
         /\ \A t \in Agent : job[t].op = "none" => job[t] = NoJob

Trying ==
  /\ Flagged /\ ~Rejoins /\ ~Connects => Left
  /\ Flagged /\ Rejoins => Joined \/ wifi = "stopped" \/ Left
  /\ Flagged /\ Connects => wifi = "stopped" \/ Left
  /\ s_has_config /\ ~s_runtime_suspended /\ AtRest
       => Joined \/ (wifi = "idle" /\ Tries)
  /\ wifi = "ap" \/ Suspends => s_runtime_suspended
  /\ Clears => ~s_has_config /\ ~s_suppress_next_disconnect_reconnect
  /\ (Starts \/ Launches) /\ ~s_runtime_suspended => wifi = "stopped"
  /\ Rejoins \/ Connects => s_station_started
  /\ AtRest /\ ~s_station_started => wifi \in {"stopped", "ap"}

TryingInv == ~collided => Alone /\ Trying

(* One operation is under way, and no other.                               *)
Only(op) ==
  /\ Alone /\ ~AtRest
  /\ Starts <=> op = "start"
  /\ Rejoins <=> op = "reconnect"
  /\ Launches <=> op = "launch"
  /\ Connects <=> op = "connect"
  /\ Clears <=> op = "clear"
  /\ Suspends <=> op = "suspend"

NoneUnderWay ==
  /\ Alone /\ AtRest
  /\ ~Starts /\ ~Rejoins /\ ~Launches /\ ~Connects /\ ~Clears /\ ~Suspends

(* What operations are under way when a task goes on and the other rests.  *)
LEMMA RestHasNone == AtRest => NoneUnderWay
  BY DEF AtRest, NoneUnderWay, Alone, NoJob, Starts, Rejoins, Launches, Connects, Clears,
         Suspends, UnderWay, Agent

LEMMA DoingIsUnderWay ==
  ASSUME TypeOK, NEW t \in Agent, \A u \in Agent \ {t} : job[u] = NoJob
  PROVE  /\ Ends(t) => AtRest'
         /\ \A op \in Operation \ {"none"} : \A pc : Does(t, op, pc) => Only(op)'
<1> DEFINE Is(op, pc) == /\ job'[t] = [op |-> op, pc |-> pc]
                         /\ \A u \in Agent \ {t} : job'[u] = NoJob
<1>1. /\ Ends(t) => job'[t] = NoJob /\ \A u \in Agent \ {t} : job'[u] = NoJob
      /\ \A op, pc : Does(t, op, pc) => Is(op, pc)
  BY DEF Ends, Does, TypeOK
<1>2. Ends(t) => AtRest'
  BY <1>1 DEF AtRest
<1>3. ASSUME NEW op \in Operation \ {"none"}, NEW pc, Does(t, op, pc)
      PROVE  Only(op)'
  <2>0. Is(op, pc)
    BY <1>1, <1>3
  <2>1. job'[t].op = op /\ \A u \in Agent \ {t} : job'[u] = NoJob /\ job'[u].op = "none"
    BY <2>0 DEF NoJob
  <2>2. \A o \in Operation \ {"none"} : (\E u \in Agent : job'[u].op = o) <=> o = op
    BY <2>1
  <2>3. Alone'
    BY <2>1 DEF Alone
  <2>4. ~AtRest'
    BY <2>1 DEF AtRest, NoJob
  <2> QED
    BY <2>2, <2>3, <2>4 DEF Only, Starts, Rejoins, Launches, Connects, Clears, Suspends,
                            UnderWay, Operation
<1> QED
  BY <1>2, <1>3

LEMMA WhatProceeds ==
  ASSUME TypeOK, Alone, NEW t \in Agent, Proceeds(t)
  PROVE  /\ \A u \in Agent \ {t} : job[u] = NoJob
         /\ job[t].op \in Operation \ {"none"}
         /\ Only(job[t].op)
<1>1. job[t] # NoJob
  BY DEF Proceeds, JobStopsServer, StationChecks, StationStarts, StationReconnects,
         StationPanics, StationStops, StationYields, NoJob
<1>2. \A u \in Agent \ {t} : job[u] = NoJob /\ job[u].op = "none"
  BY <1>1 DEF Alone, NoJob
<1>3. job[t].op \in Operation \ {"none"}
  BY <1>1, JobsAreTyped DEF Alone, TypeOK
<1>4. ~AtRest
  BY <1>1 DEF AtRest
<1>5. \A o \in Operation \ {"none"} : UnderWay(o) <=> o = job[t].op
  BY <1>2, <1>3 DEF UnderWay
<1> QED
  BY <1>2, <1>3, <1>4, <1>5 DEF Only, Starts, Rejoins, Launches, Connects, Clears, Suspends,
                                Operation

LEMMA JobsStay ==
  ASSUME UNCHANGED job
  PROVE  UNCHANGED <<Alone, AtRest, Starts, Rejoins, Launches, Connects, Clears, Suspends>>
  BY DEF Alone, AtRest, Starts, Rejoins, Launches, Connects, Clears, Suspends, UnderWay

LEMMA AfterLeavingWaits ==
  ASSUME TypeOK
  PROVE  /\ Joined => Waits(AfterLeaving, "STA_DISCONNECTED")
         /\ Left => Waits(AfterLeaving, "STA_DISCONNECTED")
  BY AppendWaits DEF AfterLeaving, TypeOK, StationTypeOK, Event, Left

LEMMA BeginningKeepsTrying ==
  ASSUME TypeOK, Trying, AtRest, ~Backoff, Provision \/ ClearConfig \/ Suspend \/ Resume
  PROVE  Alone' /\ Trying'
<1> USE DEF Trying, Only, station, server, driver
<1>0. /\ "command" \in Agent /\ "ble" \in Agent
      /\ \A t \in Agent : \A u \in Agent \ {t} : job[u] = NoJob
      /\ wifi \in {"stopped", "ap", "idle", "connecting", "connected"}
      /\ NoneUnderWay
      /\ {"start", "reconnect", "clear", "suspend"} \subseteq Operation \ {"none"}
  BY RestHasNone DEF AtRest, Agent, TypeOK, StationTypeOK, Operation
<1> USE DEF NoneUnderWay
<1>1. CASE Provision
  <2>1. /\ UNCHANGED <<s_station_started, s_runtime_suspended, asleep>>
        /\ wifi # "idle" /\ wifi' # "ap"
        /\ ~s_runtime_suspended => UNCHANGED <<wifi, events>> /\ Left' = Left
    BY <1>0, <1>1 DEF Provision, StationMode, Left
  <2>2. CASE s_station_started
    <3>1. Does("command", "reconnect", "stop_server")
      BY <1>1, <2>2 DEF Provision, StartStation
    <3>2. Only("reconnect")'
      BY <1>0, <3>1, DoingIsUnderWay
    <3> QED
      BY <1>0, <1>1, <2>1, <2>2, <3>2 DEF Provision, StartStation, Flagged, Joined
  <2>3. CASE ~s_station_started
    <3>1. Does("command", "start", "driver")
      BY <1>1, <2>3 DEF Provision, StartStation
    <3>2. Only("start")'
      BY <1>0, <3>1, DoingIsUnderWay
    <3> QED
      BY <1>0, <1>1, <2>1, <2>3, <3>2 DEF Provision, StartStation, Flagged, Joined
  <2> QED
    BY <2>2, <2>3
<1>2. CASE ClearConfig
  <2>1. Only("clear")'
    BY <1>0, <1>2, DoingIsUnderWay DEF ClearConfig
  <2> QED
    BY <1>2, <2>1 DEF ClearConfig, Flagged
<1>3. CASE Suspend
  <2>1. Only("suspend")'
    BY <1>0, <1>3, DoingIsUnderWay DEF Suspend
  <2> QED
    BY <1>3, <2>1 DEF Suspend, Flagged
<1>4. CASE Resume
  <2>1. wifi' = "stopped" /\ UNCHANGED <<s_has_config, s_station_started>>
    BY <1>4 DEF Resume
  <2>2. CASE s_has_config /\ s_station_started /\ StartStation("ble")
    <3>1. Only("reconnect")'
      BY <1>0, <2>2, DoingIsUnderWay DEF StartStation
    <3> QED
      BY <2>1, <2>2, <3>1
  <2>3. CASE ~(s_has_config /\ s_station_started)
    <3>1. ~Flagged'
      BY <1>4, <2>3 DEF Resume, Flagged
    <3>2. CASE s_has_config
      <4>1. Does("ble", "start", "driver")
        BY <1>4, <2>3, <3>2 DEF Resume
      <4>2. Only("start")'
        BY <1>0, <4>1, DoingIsUnderWay
      <4> QED
        BY <2>1, <3>1, <4>2
    <3>3. CASE ~s_has_config
      <4>1. UNCHANGED job
        BY <1>4, <2>3, <3>3 DEF Resume
      <4> QED
        BY <1>0, <2>1, <3>1, <3>3, <4>1, JobsStay
    <3> QED
      BY <3>2, <3>3
  <2> QED
    BY <1>4, <2>2, <2>3 DEF Resume
<1> QED
  BY <1>1, <1>2, <1>3, <1>4

LEMMA ProceedingKeepsTrying ==
  ASSUME TypeOK, Alone, Trying, NEW t \in Agent, Proceeds(t), ~StationPanics(t)
  PROVE  Alone' /\ Trying'
<1> USE DEF Trying, Only, station, server, driver
<1>0. /\ events \in Seq(Event)
      /\ {"STA_START", "STA_DISCONNECTED", "GOT_IP"} \subseteq Event
      /\ wifi \in {"stopped", "ap", "idle", "connecting", "connected"}
  BY DEF TypeOK, StationTypeOK, Event
<1>1. Ends(t) => NoneUnderWay'
  <2>1. Ends(t) => AtRest'
    BY WhatProceeds, DoingIsUnderWay
  <2> QED
    BY <2>1, RestHasNone, PTL
<1>9. /\ job[t].op \in Operation \ {"none"} /\ Only(job[t].op)
      /\ \A op \in Operation \ {"none"} : \A pc : Does(t, op, pc) => Only(op)'
  BY WhatProceeds, DoingIsUnderWay
<1>2. CASE JobStopsServer(t)
  <2>1. /\ Does(t, job[t].op, "driver") /\ Left' = Left
        /\ UNCHANGED <<station, asleep, driver>>
    BY <1>2 DEF JobStopsServer, Left
  <2>2. PICK op \in Operation \ {"none"} : op = job[t].op /\ Does(t, op, "driver")
    BY <1>9, <2>1
  <2>3. Only(op) /\ Only(op)'
    BY <1>9, <2>2
  <2>4. /\ Alone' /\ ~AtRest'
        /\ Starts' <=> Starts
        /\ Rejoins' <=> Rejoins
        /\ Launches' <=> Launches
        /\ Connects' <=> Connects
        /\ Clears' <=> Clears
        /\ Suspends' <=> Suspends
    BY <2>3
  <2> QED
    BY <2>1, <2>4 DEF Flagged, Joined
<1>3. CASE StationChecks(t)
  <2>1. UNCHANGED station
    BY <1>3 DEF StationChecks
  <2>2. CASE job[t].op = "start"
    <3>1. UNCHANGED driver /\ Left' = Left
      BY <1>3, <2>2 DEF StationChecks, Left
    <3>2. Only(IF s_station_started THEN "connect" ELSE "launch")'
      BY <1>3, <1>9 DEF StationChecks, Operation
    <3> QED
      BY <1>9, <2>1, <2>2, <3>1, <3>2 DEF Flagged
  <2>3. CASE job[t].op = "reconnect"
    <3>1. s_station_started /\ Only("connect")'
      BY <1>3, <1>9, <2>3 DEF StationChecks, Operation
    <3>2. events' = AfterLeaving /\ wifi' = IF Joined THEN "idle" ELSE wifi
      BY <1>3, <2>3 DEF StationChecks
    <3>3. Joined \/ Left => Left'
      BY <3>2, AfterLeavingWaits DEF Left
    <3> QED
      BY <1>9, <2>1, <2>3, <3>1, <3>2, <3>3 DEF Flagged, Joined
  <2> QED
    BY <1>3, <2>2, <2>3 DEF StationChecks
<1>4. CASE StationStarts(t)
  <2>1. /\ s_station_started' /\ Ends(t) /\ job[t].op = "launch"
        /\ UNCHANGED <<s_has_config, s_runtime_suspended, asleep,
                       s_suppress_next_disconnect_reconnect>>
        /\ wifi' # "stopped" /\ (wifi' = "ap" => wifi = "ap")
    BY <1>4 DEF StationStarts
  <2>2. ~s_runtime_suspended => wifi = "stopped" /\ Launches
    BY <1>9, <2>1
  <2>3. CASE s_runtime_suspended
    BY <1>1, <1>9, <2>1, <2>3 DEF NoneUnderWay, Flagged
  <2>4. CASE ~s_runtime_suspended
    <3>1. wifi' = "idle" /\ events' = Append(events, "STA_START")
      BY <1>4, <2>2, <2>4 DEF StationStarts
    <3>2. Waits(events', "STA_START") /\ (Left => Left')
      BY <1>0, <3>1, AppendWaits DEF Left
    <3> QED
      BY <1>1, <1>9, <2>1, <2>2, <3>1, <3>2 DEF NoneUnderWay, Flagged, Tries
  <2> QED
    BY <2>3, <2>4
<1>5. CASE StationReconnects(t)
  <2>1. /\ Ends(t) /\ job[t].op = "connect" /\ UNCHANGED <<station, events>>
        /\ wifi \notin {"stopped", "ap"}
        /\ wifi' = IF wifi = "idle" THEN "connecting" ELSE wifi
    BY <1>5 DEF StationReconnects, WifiConnect
  <2>2. Left' = Left /\ wifi' \in {"connecting", "connected"}
    BY <1>0, <2>1 DEF Left
  <2> QED
    BY <1>1, <1>9, <2>1, <2>2 DEF NoneUnderWay, Joined, Flagged
<1>6. CASE StationStops(t)
  <2>1. Clears /\ Ends(t) /\ wifi' = "stopped"
        /\ UNCHANGED <<s_has_config, s_suppress_next_disconnect_reconnect>>
    BY <1>6, <1>9 DEF StationStops
  <2> QED
    BY <1>1, <2>1 DEF NoneUnderWay, Flagged
<1>7. CASE StationYields(t)
  <2>1. Suspends /\ Ends(t) /\ wifi' = "ap" /\ UNCHANGED station
    BY <1>7, <1>9 DEF StationYields
  <2> QED
    BY <1>1, <2>1 DEF NoneUnderWay, Flagged
<1> QED
  BY <1>2, <1>3, <1>4, <1>5, <1>6, <1>7 DEF Proceeds

LEMMA StartingIsAlone ==
  ASSUME NEW has_config, job = Starting(has_config)
  PROVE  /\ Alone /\ (has_config => ~AtRest)
         /\ ~Rejoins /\ ~Launches /\ ~Connects /\ ~Clears /\ ~Suspends
  BY DEF Starting, Alone, AtRest, Rejoins, Launches, Connects, Clears, Suspends, UnderWay,
         NoJob, Agent

LEMMA RestartTries ==
  ASSUME Restart
  PROVE  Alone' /\ Trying'
<1>1. job' = Starting(s_has_config)' /\ s_has_config' = s_has_config
  BY DEF Restart
<1>2. /\ Alone' /\ (s_has_config' => ~AtRest')
      /\ ~Rejoins' /\ ~Launches' /\ ~Connects' /\ ~Clears' /\ ~Suspends'
  BY <1>1 DEF Starting, Alone, AtRest, Rejoins, Launches, Connects, Clears, Suspends,
              UnderWay, NoJob, Agent
<1> QED
  BY <1>2 DEF Restart, Trying, Flagged

LEMMA StepKeepsTrying ==
  ASSUME TypeOK, StatusInv, TryingInv, ~Backoff, [Next]_vars
  PROVE  TryingInv'
<1> SUFFICES ASSUME ~collided' PROVE Alone' /\ Trying'
  BY DEF TryingInv
<1> USE DEF Trying, station, server, driver
<1>0. /\ events \in Seq(Event)
      /\ {"STA_START", "STA_DISCONNECTED", "GOT_IP"} \subseteq Event
      /\ wifi \in {"stopped", "ap", "idle", "connecting", "connected"}
  BY DEF TypeOK, StationTypeOK, Event
<1>1. CASE Restart \/ \E t \in Agent : StationPanics(t)
  BY <1>1, RestartTries DEF StationPanics
<1>2. CASE Provision \/ ClearConfig \/ Suspend \/ Resume
  <2>1. AtRest /\ ~collided
    BY <1>2 DEF Provision, ClearConfig, Suspend, Resume, Begin
  <2> QED
    BY <1>2, <2>1, BeginningKeepsTrying DEF TryingInv
<1>3. ASSUME NEW t \in Agent, Proceeds(t), ~StationPanics(t) PROVE Alone' /\ Trying'
  <2>1. ~collided
    BY <1>3 DEF Proceeds, JobStopsServer, StationChecks, StationStarts, StationReconnects,
                StationStops, StationYields
  <2> QED
    BY <1>3, <2>1, ProceedingKeepsTrying DEF TryingInv
<1>4. ASSUME UNCHANGED <<job, collided>>
      PROVE  /\ Alone' /\ Alone /\ Trying
             /\ UNCHANGED <<AtRest, Starts, Rejoins, Launches, Connects, Clears, Suspends>>
  BY <1>4, JobsStay DEF TryingInv
<1>5. CASE Started
  <2>1. /\ UNCHANGED <<s_has_config, s_suppress_next_disconnect_reconnect,
                       s_runtime_suspended, job, collided, asleep>>
        /\ s_station_started' /\ wifi' = IF wifi = "idle" THEN "connecting" ELSE wifi
    BY <1>5 DEF Started, WifiConnect
  <2>2. Left => Left'
    BY <1>0, <1>5, TailWaits DEF Started, Handle, Left
  <2> QED
    BY <1>4, <2>1, <2>2 DEF Flagged, Joined
<1>6. CASE Disconnected
  <2>1. /\ UNCHANGED <<s_has_config, s_station_started, s_runtime_suspended, job, collided>>
        /\ ~s_suppress_next_disconnect_reconnect'
    BY <1>6 DEF Disconnected
  <2>2. wifi' = wifi \/ (wifi = "idle" /\ wifi' = "connecting")
    BY <1>6 DEF Disconnected, TryAgain, WifiConnect
  <2>3. /\ Waits(events, "STA_START") => Waits(events', "STA_START")
        /\ WaitsTwice(events, "STA_DISCONNECTED") => Left'
    BY <1>0, <1>6, TailWaits DEF Disconnected, Handle, Left
  <2>0. /\ Alone' /\ Trying
        /\ UNCHANGED <<AtRest, Starts, Rejoins, Launches, Connects, Clears, Suspends>>
    BY <1>4, <2>1
  <2>4. CASE s_suppress_next_disconnect_reconnect
    BY <1>6, <2>0, <2>1, <2>2, <2>3, <2>4 DEF Disconnected, Flagged, Joined, Tries
  <2>5. CASE ~s_suppress_next_disconnect_reconnect
    <3>1. s_has_config => asleep' > 0 \/ (wifi = "idle" => wifi' = "connecting")
      <4>1. asleep + 1 > 0 /\ (s_reconnect_pending => asleep > 0)
        BY Bounds DEF TypeOK, StationTypeOK, StatusInv
      <4> QED
        BY <1>6, <2>5, <4>1 DEF Disconnected, TryAgain, WifiConnect
    <3> QED
      BY <1>4, <2>1, <2>2, <3>1 DEF Flagged, Joined, Tries
  <2> QED
    BY <2>4, <2>5
<1>7. CASE GotIp
  <2>1. UNCHANGED <<s_has_config, s_station_started, s_runtime_suspended, job, collided, wifi,
                    asleep, s_suppress_next_disconnect_reconnect>>
    BY <1>7 DEF GotIp
  <2>2. /\ Waits(events, "STA_START") => Waits(events', "STA_START")
        /\ Left => Left'
        /\ WaitsTwice(events, "STA_DISCONNECTED") => WaitsTwice(events', "STA_DISCONNECTED")
    BY <1>0, <1>7, TailWaits DEF GotIp, Handle, Left
  <2> QED
    BY <1>4, <2>1, <2>2 DEF Flagged, Joined, Tries
<1>8. CASE Wake
  <2>1. /\ UNCHANGED <<s_has_config, s_station_started, s_runtime_suspended, job, collided, events,
                       s_suppress_next_disconnect_reconnect>>
        /\ wifi' = IF s_has_config /\ wifi = "idle" THEN "connecting" ELSE wifi
    BY <1>8 DEF Wake, WifiConnect
  <2>2. Left' = Left
    BY <2>1 DEF Left
  <2> QED
    BY <1>4, <2>1, <2>2 DEF Flagged, Joined
<1>9. CASE Radio
  <2>1. UNCHANGED <<s_has_config, s_station_started, s_runtime_suspended, job, collided,
                    asleep, s_suppress_next_disconnect_reconnect>>
        /\ Joined
    BY <1>9 DEF Radio, Reports, Joined
  <2>0. /\ Alone' /\ Trying
        /\ UNCHANGED <<AtRest, Starts, Rejoins, Launches, Connects, Clears, Suspends>>
    BY <1>4, <2>1
  <2>2. CASE wifi' = "connected" /\ events' = Append(events, "GOT_IP")
    <3>1. Left => Left'
      BY <1>0, <2>2, AppendWaits DEF Left
    <3> QED
      BY <1>4, <2>1, <2>2, <3>1 DEF Flagged, Joined
  <2>3. CASE wifi' = "idle" /\ events' = Append(events, "STA_DISCONNECTED")
    <3>1. Left' /\ (Left => WaitsTwice(events', "STA_DISCONNECTED"))
      BY <1>0, <2>3, AppendWaits DEF Left
    <3> QED
      BY <2>0, <2>1, <2>3, <3>1, RestHasNone DEF NoneUnderWay, Flagged, Joined, Tries
  <2> QED
    BY <1>9, <2>2, <2>3 DEF Radio, Reports
<1>10. CASE (\E fd \in Socket : Open(fd) \/ Close(fd)) \/ UNCHANGED vars
  <2>1. UNCHANGED <<station, job, collided, asleep, driver>>
    BY <1>10 DEF Open, Close, vars
  <2> QED
    BY <1>4, <2>1 DEF Flagged, Left, Joined, Tries, Waits, WaitsTwice
<1> QED
  BY <1>1, <1>2, <1>3, <1>5, <1>6, <1>7, <1>8, <1>9, <1>10 DEF Next, HandleEvent

(* Nobody is left waiting for somebody else to join the network: unless    *)
(* credentials change while the station waits to try again, or meet an     *)
(* update, one that has them is joined or joining, or a task sleeps that   *)
(* will make it, as soon as the events are handled.                        *)
THEOREM NeverStandsStill == ~Backoff => (Spec => []NoStandstill)
<1> SUFFICES ASSUME ~Backoff PROVE Spec => []NoStandstill
  OBVIOUS
<1>1. Init => StatusInv /\ TryingInv
  <2>1. Init => StatusInv
    BY DEF Init, Boot, StatusInv, SaysNothing
  <2>2. Init => TryingInv
    <3> SUFFICES ASSUME Init PROVE Alone /\ Trying
      BY DEF TryingInv
    <3>1. job = Starting(s_has_config)
      BY DEF Init, Boot
    <3>2. /\ Alone /\ (s_has_config => ~AtRest)
          /\ ~Rejoins /\ ~Launches /\ ~Connects /\ ~Clears /\ ~Suspends
      BY <3>1, StartingIsAlone
    <3> QED
      BY <3>2 DEF Init, Boot, Trying, Flagged
  <2> QED
    BY <2>1, <2>2
<1>2. TypeOK /\ StatusInv /\ TryingInv /\ [Next]_vars => StatusInv' /\ TryingInv'
  BY StepKeepsStatus, StepKeepsTrying
<1>3. TryingInv => NoStandstill
  <2>1. events = <<>> => ~Waits(events, "STA_START") /\ ~Left
                         /\ ~WaitsTwice(events, "STA_DISCONNECTED")
    BY DEF Waits, WaitsTwice, Left
  <2> QED
    BY <2>1 DEF TryingInv, Trying, NoStandstill, Tries
<1> QED
  BY <1>1, <1>2, <1>3, TypeCorrect, PTL DEF Spec

-----------------------------------------------------------------------------
(* The ESP8266.                                                            *)

LEMMA EspBounds ==
  /\ MaxEvents \in Nat /\ MaxAsleep \in Nat /\ 0 \in 0 .. MaxAsleep
  /\ NoSock \notin Sock
  BY StationAssumption, Esp8266Assumption

LEMMA GoingIsTyped ==
  ASSUME EspTypeOK, NEW t \in Task, NEW s \in Stage, Goto(t, s)
  PROVE  stage' \in [Task -> Stage]
  BY DEF EspTypeOK, Goto

(* What a task that closes sockets does to them and to the status.         *)
LEMMA ClosingIsTyped ==
  ASSUME EspTypeOK, NEW t \in Task, Closes(t)
  PROVE  /\ stage' \in [Task -> Stage]
         /\ s_station_online' \in {FALSE, s_station_online}
         /\ {s_active_sock', s_listen_sock'} \subseteq Sock \cup {NoSock}
         /\ open' \in SUBSET Sock
         /\ UNCHANGED <<s_has_config, s_reconnect_pending, s_runtime_mode, target,
                        serving, crossed, asleep, driver>>
<1> USE DEF espSockets
<1>1. \E s \in Stage : Goto(t, s)
  BY DEF Closes, TestActive, CloseActive, ResetActive, TestListen, CloseListen,
         ResetListen, AfterActive, Closed, Stage
<1>2. stage' \in [Task -> Stage]
  BY <1>1, GoingIsTyped
<1>3. s_station_online' \in {FALSE, s_station_online}
  BY DEF Closes, TestActive, CloseActive, ResetActive, TestListen, CloseListen,
         ResetListen, Closed
<1>4. /\ s_active_sock' \in {s_active_sock, NoSock}
      /\ s_listen_sock' \in {s_listen_sock, NoSock}
      /\ open' \subseteq open
  BY DEF Closes, TestActive, CloseActive, ResetActive, TestListen, CloseListen,
         ResetListen
<1> QED
  BY <1>2, <1>3, <1>4 DEF Closes, EspTypeOK

LEMMA StartIsTyped ==
  /\ [t \in Task |-> IF t = "command" THEN "last" ELSE "idle"] \in [Task -> Stage]
  /\ NoServer \in Server
<1>1. [t \in Task |-> IF t = "command" THEN "last" ELSE "idle"] \in [Task -> Stage]
  BY DEF Stage
<1>2. NoServer \in Server
  BY DEF NoServer, Server, ServerStep
<1> QED
  BY <1>1, <1>2

LEMMA EspStepKeepsTypes ==
  ASSUME EspTypeOK, [EspNext]_espVars
  PROVE  EspTypeOK'
<1> USE DEF espStation, espSockets, driver
<1>0. /\ {"command", "event", "server"} = Task
      /\ {"idle", "test_active", "last"} \subseteq Stage
      /\ s_station_online \in BOOLEAN
  BY DEF Task, Stage, EspTypeOK, StationTypeOK
<1>1. CASE Apply
  BY <1>0, <1>1, GoingIsTyped DEF Apply, EspTypeOK, StationTypeOK
<1>2. CASE EspClearConfig
  BY <1>0, <1>2, GoingIsTyped DEF EspClearConfig, EspTypeOK, StationTypeOK
<1>3. ASSUME NEW t \in Task, Closes(t) PROVE EspTypeOK'
  BY <1>0, <1>3, ClosingIsTyped DEF EspTypeOK, StationTypeOK
<1>4. CASE EspStationStarts
  <2>1. events' \in Seq(Event)
    <3>1. AfterLeaving \in Seq(Event) /\ "STA_START" \in Event
      BY EventsAreTyped DEF EspTypeOK, StationTypeOK, Event
    <3> QED
      BY <1>4, <3>1 DEF EspStationStarts
  <2> QED
    BY <1>0, <1>4, <2>1, GoingIsTyped DEF EspStationStarts, EspTypeOK, StationTypeOK
<1>5. CASE SoftapStarts
  <2>1. events' \in Seq(Event)
    BY <1>5, EventsAreTyped DEF SoftapStarts, EspTypeOK, StationTypeOK
  <2>2. serving' \in Server
    BY <1>5 DEF SoftapStarts, EnsureServer, EspTypeOK, Server, ServerStep
  <2> QED
    BY <1>0, <1>5, <2>1, <2>2, GoingIsTyped DEF SoftapStarts, EspTypeOK, StationTypeOK
<1>6. CASE EspStarted \/ EspDisconnected
  <2>1. events' \in Seq(Event)
    BY <1>6, EventsAreTyped
       DEF EspStarted, EspDisconnected, EspHandle, Handle, EspTypeOK, StationTypeOK
  <2>2. stage' \in [Task -> Stage]
    BY <1>0, <1>6, GoingIsTyped DEF EspStarted, EspDisconnected, EspTypeOK
  <2> QED
    BY <1>6, <2>1, <2>2
       DEF EspStarted, EspDisconnected, WifiConnect, EspTypeOK, StationTypeOK
<1>7. CASE EspGotIp
  <2>1. events' \in Seq(Event)
    BY <1>7, EventsAreTyped DEF EspGotIp, EspHandle, Handle, EspTypeOK, StationTypeOK
  <2>2. serving' \in Server
    BY <1>7 DEF EspGotIp, EnsureServer, EspTypeOK, Server, ServerStep
  <2> QED
    BY <1>7, <2>1, <2>2 DEF EspGotIp, EspTypeOK, StationTypeOK
<1>8. CASE Retry
  <2>1. stage' \in [Task -> Stage]
    BY <1>0, <1>8, GoingIsTyped DEF Retry
  <2>2. asleep' \in 0 .. MaxAsleep
    BY <1>8, EspBounds DEF Retry, EspTypeOK, StationTypeOK
  <2> QED
    BY <1>8, <2>1, <2>2 DEF Retry, WifiConnect, EspTypeOK, StationTypeOK
<1>9. CASE EspWake
  <2>1. asleep' \in 0 .. MaxAsleep
    BY <1>9, EspBounds DEF EspWake, EspTypeOK, StationTypeOK
  <2> QED
    BY <1>9, <2>1 DEF EspWake, WifiConnect, EspTypeOK, StationTypeOK
<1>10. CASE EspRadio
  BY <1>10, EventsAreTyped DEF EspRadio, Reports, EspTypeOK, StationTypeOK
<1>11. CASE EspRestart
  BY <1>11, EspBounds, NothingIsTyped, StartIsTyped DEF EspRestart, EspTypeOK, StationTypeOK
<1>12. CASE Serve
  <2> USE DEF UnchangedByServer, AtServer
  <2>1. /\ UNCHANGED <<espStation, target, asleep, driver>>
        /\ s_active_sock' \in Sock \cup {NoSock} /\ s_listen_sock' \in Sock \cup {NoSock}
        /\ open' \in SUBSET Sock
        /\ stage' \in [Task -> Stage]
        /\ serving' \in Server
        /\ crossed' \in BOOLEAN
    \/ Closes("server")
    <3> USE DEF EspTypeOK
    <3>1. CASE Listen
      BY <3>1 DEF Listen, Server, ServerStep
    <3>2. CASE Accept
      BY <3>2 DEF Accept, Server, ServerStep
    <3>3. CASE AcceptFails \/ HandshakeSucceeds
      BY <3>3 DEF AcceptFails, HandshakeSucceeds, Server, ServerStep
    <3>4. CASE HandshakeFails
      BY <3>4 DEF HandshakeFails, Loop, Server, ServerStep
    <3>5. CASE StopsListening
      BY <3>5 DEF StopsListening, Server, ServerStep
    <3>6. CASE SessionEnds \/ SessionClosed
      <4>1. stage' \in [Task -> Stage]
        BY <1>0, <3>6, GoingIsTyped DEF SessionEnds, SessionClosed
      <4>2. serving' \in Server
        BY <3>6 DEF SessionEnds, SessionClosed, Loop, Server, ServerStep
      <4> QED
        BY <3>6, <4>1, <4>2 DEF SessionEnds, SessionClosed
    <3> QED
      BY <1>12, <3>1, <3>2, <3>3, <3>4, <3>5, <3>6 DEF Serve
  <2> QED
    BY <1>0, <1>3, <2>1 DEF EspTypeOK, StationTypeOK
<1>13. CASE UNCHANGED espVars
  BY <1>13 DEF espVars, EspTypeOK, StationTypeOK
<1> QED
  BY <1>0, <1>1, <1>2, <1>3, <1>4, <1>5, <1>6, <1>7, <1>8, <1>9, <1>10, <1>11, <1>12,
     <1>13 DEF EspNext, CommandTask, EventTask

(* The variables of the ESP8266 keep their types, whatever tasks, events   *)
(* and clients interleave.                                                 *)
THEOREM EspTypeCorrect == EspSpec => []EspTypeOK
<1>1. EspInit => EspTypeOK
  BY EspBounds, NothingIsTyped, StartIsTyped DEF EspInit, EspTypeOK, StationTypeOK
<1>2. EspTypeOK /\ [EspNext]_espVars => EspTypeOK'
  BY EspStepKeepsTypes
<1> QED
  BY <1>1, <1>2, PTL DEF EspSpec

-----------------------------------------------------------------------------
(* The inductive invariant of the status: away from the network, the last  *)
(* event that waits is the loss of it, or the status says so already.      *)
EspStatusInv ==
  /\ \/ wifi = "connected"
     \/ Says(events, "STA_DISCONNECTED")
     \/ SaysNothing(events) /\ ~s_station_online
  /\ s_reconnect_pending => asleep > 0

LEMMA EspLeaves ==
  ASSUME EspTypeOK, EspStatusInv
  PROVE  \/ Says(AfterLeaving, "STA_DISCONNECTED")
         \/ SaysNothing(AfterLeaving) /\ ~s_station_online
<1>1. CASE Joined
  BY <1>1, Posting DEF AfterLeaving, EspTypeOK, StationTypeOK, Event
<1>2. CASE ~Joined
  BY <1>2 DEF AfterLeaving, Joined, EspStatusInv
<1> QED
  BY <1>1, <1>2

LEMMA EspStepKeepsStatus ==
  ASSUME EspTypeOK, EspStatusInv, [EspNext]_espVars
  PROVE  EspStatusInv'
<1> USE DEF espStation, espSockets, driver
<1>0. /\ events \in Seq(Event)
      /\ {"STA_START", "STA_DISCONNECTED", "GOT_IP"} = Event
      /\ {"command", "event", "server"} = Task
  BY DEF EspTypeOK, StationTypeOK, Event, Task
<1>1. CASE Apply \/ EspClearConfig
  BY <1>1 DEF Apply, EspClearConfig, EspStatusInv
<1>2. ASSUME NEW t \in Task, Closes(t) PROVE EspStatusInv'
  BY <1>2, ClosingIsTyped DEF EspStatusInv
<1>3. CASE EspStationStarts
  <2>1. UNCHANGED <<s_station_online, s_reconnect_pending, asleep>>
        /\ events' = Append(AfterLeaving, "STA_START")
    BY <1>3 DEF EspStationStarts
  <2>2. AfterLeaving \in Seq(Event)
    BY <1>0, EventsAreTyped
  <2>3. /\ Says(AfterLeaving, "STA_DISCONNECTED") => Says(events', "STA_DISCONNECTED")
        /\ SaysNothing(AfterLeaving) => SaysNothing(events')
    BY <1>0, <2>1, <2>2, PostingStart
  <2> QED
    BY <2>1, <2>3, EspLeaves DEF EspStatusInv
<1>4. CASE SoftapStarts
  <2>1. UNCHANGED <<s_station_online, s_reconnect_pending, asleep>>
        /\ events' = AfterLeaving
    BY <1>4 DEF SoftapStarts
  <2> QED
    BY <2>1, EspLeaves DEF EspStatusInv
<1>5. CASE EspStarted
  <2>1. UNCHANGED <<s_station_online, s_reconnect_pending, asleep>>
        /\ (wifi = "connected" => wifi' = "connected")
    BY <1>5 DEF EspStarted, WifiConnect
  <2>2. /\ SaysNothing(events) => SaysNothing(events')
        /\ Says(events, "STA_DISCONNECTED") => Says(events', "STA_DISCONNECTED")
    BY <1>0, <1>5, Handling DEF EspStarted, EspHandle, Handle
  <2> QED
    BY <2>1, <2>2 DEF EspStatusInv
<1>6. CASE EspDisconnected
  <2>1. ~s_station_online' /\ UNCHANGED <<s_reconnect_pending, asleep, wifi>>
    BY <1>6 DEF EspDisconnected
  <2>2. /\ ~SaysNothing(events)
        /\ Says(events, "STA_DISCONNECTED")
             => Says(events', "STA_DISCONNECTED") \/ SaysNothing(events')
    BY <1>0, <1>6, Handling DEF EspDisconnected, EspHandle, Handle
  <2> QED
    BY <2>1, <2>2 DEF EspStatusInv
<1>7. CASE EspGotIp
  <2>1. ~s_reconnect_pending' /\ UNCHANGED wifi
    BY <1>7 DEF EspGotIp
  <2>2. /\ ~SaysNothing(events)
        /\ Says(events, "STA_DISCONNECTED") => Says(events', "STA_DISCONNECTED")
    BY <1>0, <1>7, Handling DEF EspGotIp, EspHandle, Handle
  <2> QED
    BY <2>1, <2>2 DEF EspStatusInv
<1>8. CASE Retry
  <2>1. UNCHANGED <<s_station_online, events>> /\ (wifi = "connected" => wifi' = "connected")
    BY <1>8 DEF Retry, WifiConnect
  <2>2. s_reconnect_pending' => asleep' > 0
    <3>1. asleep + 1 > 0
      BY EspBounds DEF EspTypeOK, StationTypeOK
    <3> QED
      BY <1>8, <3>1 DEF Retry, EspStatusInv
  <2> QED
    BY <2>1, <2>2 DEF EspStatusInv
<1>9. CASE EspWake
  BY <1>9 DEF EspWake, WifiConnect, EspStatusInv
<1>10. CASE EspRadio
  BY <1>0, <1>10, Posting DEF EspRadio, Reports, EspStatusInv
<1>11. CASE EspRestart
  BY <1>11 DEF EspRestart, EspStatusInv, SaysNothing
<1>12. CASE Serve /\ ~Closes("server")
  <2>1. UNCHANGED <<s_station_online, s_reconnect_pending, asleep, wifi, events>>
    BY <1>12 DEF Serve, Listen, Accept, AcceptFails, HandshakeSucceeds, HandshakeFails,
                 SessionEnds, SessionClosed, StopsListening, UnchangedByServer
  <2> QED
    BY <2>1 DEF EspStatusInv
<1>13. CASE UNCHANGED espVars
  BY <1>13 DEF espVars, EspStatusInv
<1> QED
  BY <1>0, <1>1, <1>2, <1>3, <1>4, <1>5, <1>6, <1>7, <1>8, <1>9, <1>10, <1>11, <1>12,
     <1>13 DEF EspNext, CommandTask, EventTask, Serve

(* With every event handled a station that is said to be online is in its  *)
(* network, and reconnecting means that a task sleeps, whatever operation  *)
(* or task an event has met half-way.                                      *)
THEOREM EspStatusHolds == EspSpec => []EspStatusIsTrue
<1>1. EspInit => EspStatusInv
  BY DEF EspInit, EspStatusInv, SaysNothing
<1>2. EspTypeOK /\ EspStatusInv /\ [EspNext]_espVars => EspStatusInv'
  BY EspStepKeepsStatus
<1>3. EspStatusInv => EspStatusIsTrue
  <2>1. events = <<>> => ~Says(events, "STA_DISCONNECTED")
    BY DEF Says
  <2> QED
    BY <2>1 DEF EspStatusInv, EspStatusIsTrue
<1> QED
  BY <1>1, <1>2, <1>3, EspTypeCorrect, PTL DEF EspSpec

-----------------------------------------------------------------------------
(* The inductive invariant of a board that tries: between two operations   *)
(* the board that has credentials is a station, and while it is away from  *)
(* the network, a task sleeps, the event task is about to try again, or an *)
(* event waits that makes it try.                                          *)
EspTryingInv ==
  /\ ~At("command", "idle") /\ target = "softap" => ~s_has_config
  /\ At("command", "idle") =>
       /\ s_has_config => s_runtime_mode = "station"
       /\ s_runtime_mode = "station" => Joined \/ wifi = "idle"
       /\ s_has_config => \/ Joined \/ asleep > 0 \/ ~At("event", "idle")
                          \/ Waits(events, "STA_START")
                          \/ Waits(events, "STA_DISCONNECTED")

(* Where a task goes, and that the others stay where they are.             *)
LEMMA Going ==
  ASSUME EspTypeOK, NEW t \in Task, NEW s, Goto(t, s)
  PROVE  /\ stage'[t] = s
         /\ \A u \in Task : u # t => stage'[u] = stage[u]
  BY DEF EspTypeOK, Goto

LEMMA ClosingGoes ==
  ASSUME EspTypeOK, NEW t \in Task, Closes(t)
  PROVE  /\ stage[t] # "idle" /\ stage'[t] # "idle"
         /\ \A u \in Task : u # t => stage'[u] = stage[u]
<1>1. stage[t] # "idle"
  BY DEF Closes, TestActive, CloseActive, ResetActive, TestListen, CloseListen,
         ResetListen, At
<1>2. \E s \in Stage \ {"idle"} : Goto(t, s)
  BY DEF Closes, TestActive, CloseActive, ResetActive, TestListen, CloseListen,
         ResetListen, AfterActive, Closed, Stage
<1> QED
  BY <1>1, <1>2, Going

LEMMA EspStepKeepsTrying ==
  ASSUME EspTypeOK, EspStatusInv, EspTryingInv, [EspNext]_espVars
  PROVE  EspTryingInv'
<1> USE DEF EspTryingInv, espStation, espSockets, driver, At
<1>0. /\ events \in Seq(Event)
      /\ {"STA_START", "STA_DISCONNECTED", "GOT_IP"} = Event
      /\ {"command", "event", "server"} = Task
  BY DEF EspTypeOK, StationTypeOK, Event, Task
<1>1. CASE Apply
  <2>1. stage'["command"] = "test_active" /\ target' = "station"
    BY <1>0, <1>1, Going DEF Apply
  <2> QED
    BY <2>1
<1>2. CASE EspClearConfig
  <2>1. CASE ~s_has_config' /\ Goto("command", "test_active")
    <3>1. stage'["command"] = "test_active"
      BY <1>0, <2>1, Going
    <3> QED
      BY <2>1, <3>1
  <2>2. CASE UNCHANGED <<s_has_config, target, stage>>
    <3>1. UNCHANGED <<s_runtime_mode, asleep, wifi, events>>
      BY <1>2 DEF EspClearConfig
    <3> QED
      BY <2>2, <3>1 DEF Joined
  <2> QED
    BY <1>2, <2>1, <2>2 DEF EspClearConfig
<1>3. ASSUME NEW t \in Task, Closes(t) PROVE EspTryingInv'
  <2>1. UNCHANGED <<s_has_config, s_runtime_mode, target, asleep, wifi, events>>
    BY <1>3, ClosingIsTyped
  <2>2. /\ stage'["command"] = "idle" <=> stage["command"] = "idle"
        /\ stage["event"] # "idle" => stage'["event"] # "idle"
    BY <1>0, <1>3, ClosingGoes
  <2> QED
    BY <2>1, <2>2 DEF Joined
<1>4. CASE EspStationStarts
  <2>1. AfterLeaving \in Seq(Event)
    BY <1>0, EventsAreTyped
  <2>2. Waits(Append(AfterLeaving, "STA_START"), "STA_START")
    BY <1>0, <2>1, AppendWaits
  <2>3. stage'["command"] = "idle"
    BY <1>0, <1>4, Going DEF EspStationStarts
  <2> QED
    BY <1>4, <2>2, <2>3 DEF EspStationStarts
<1>5. CASE SoftapStarts
  <2>1. ~s_has_config' /\ s_runtime_mode' = "softap" /\ stage'["command"] = "idle"
    BY <1>0, <1>5, Going DEF SoftapStarts
  <2> QED
    BY <2>1
<1>6. CASE EspStarted
  BY <1>6 DEF EspStarted, WifiConnect, Joined
<1>7. CASE EspDisconnected
  <2>1. stage'["event"] = "test_active" /\ stage'["command"] = stage["command"]
    BY <1>0, <1>7, Going DEF EspDisconnected
  <2> QED
    BY <1>7, <2>1 DEF EspDisconnected, Joined
<1>8. CASE Retry
  <2>1. stage'["command"] = stage["command"]
    BY <1>0, <1>8, Going DEF Retry
  <2>2. wifi' = wifi \/ (wifi = "idle" /\ wifi' = "connecting")
    BY <1>8 DEF Retry, WifiConnect
  <2>3. s_runtime_mode = "station" /\ s_has_config
          => asleep' > 0 \/ (wifi = "idle" => wifi' = "connecting")
    <3>1. asleep + 1 > 0 /\ (s_reconnect_pending => asleep > 0)
      BY EspBounds DEF EspTypeOK, StationTypeOK, EspStatusInv
    <3> QED
      BY <1>8, <3>1 DEF Retry, WifiConnect
  <2>4. UNCHANGED <<s_has_config, s_runtime_mode, target>>
    BY <1>8 DEF Retry
  <2> QED
    BY <2>1, <2>2, <2>3, <2>4 DEF Joined
<1>9. CASE EspGotIp
  <2>1. UNCHANGED <<s_has_config, s_runtime_mode, target, stage, asleep, wifi>>
    BY <1>9 DEF EspGotIp
  <2>2. /\ Waits(events, "STA_START") => Waits(events', "STA_START")
        /\ Waits(events, "STA_DISCONNECTED") => Waits(events', "STA_DISCONNECTED")
    BY <1>0, <1>9, TailWaits DEF EspGotIp, EspHandle, Handle
  <2> QED
    BY <2>1, <2>2 DEF Joined
<1>10. CASE EspWake
  BY <1>10 DEF EspWake, WifiConnect, Joined
<1>11. CASE EspRadio
  <2>1. UNCHANGED <<s_has_config, s_runtime_mode, target, stage, asleep>>
    BY <1>11 DEF EspRadio
  <2>2. \/ wifi' = "connected"
        \/ wifi' = "idle" /\ Waits(events', "STA_DISCONNECTED")
    BY <1>0, <1>11, AppendWaits DEF EspRadio, Reports
  <2> QED
    BY <2>1, <2>2 DEF Joined
<1>12. CASE EspRestart
  BY <1>12, <1>0 DEF EspRestart
<1>13. CASE Serve /\ ~Closes("server")
  <2>1. /\ UNCHANGED <<s_has_config, s_runtime_mode, target, asleep, wifi, events>>
        /\ UNCHANGED stage \/ \E s \in Stage : Goto("server", s)
    BY <1>13 DEF Serve, Listen, Accept, AcceptFails, HandshakeSucceeds, HandshakeFails,
                 SessionEnds, SessionClosed, StopsListening, UnchangedByServer, Stage
  <2>2. stage'["command"] = stage["command"] /\ stage'["event"] = stage["event"]
    BY <1>0, <2>1, Going
  <2> QED
    BY <2>1, <2>2 DEF Joined
<1>14. CASE UNCHANGED espVars
  BY <1>14 DEF espVars, Joined
<1> QED
  BY <1>0, <1>1, <1>2, <1>3, <1>4, <1>5, <1>6, <1>7, <1>8, <1>9, <1>10, <1>11, <1>12,
     <1>13, <1>14 DEF EspNext, CommandTask, EventTask, Serve

(* Nobody is left waiting for somebody else to join the network: when the  *)
(* events are handled and no operation is under way, a board with          *)
(* credentials is joined or joining, or a task sleeps that will make it,   *)
(* however losses of the network meet changes of the credentials.          *)
THEOREM EspNeverStandsStill == EspSpec => []EspNoStandstill
<1>1. EspInit => EspStatusInv /\ EspTryingInv
  <2>1. EspInit => EspStatusInv
    BY DEF EspInit, EspStatusInv, SaysNothing
  <2>2. EspInit => EspTryingInv
    BY DEF EspInit, EspTryingInv, At, Task
  <2> QED
    BY <2>1, <2>2
<1>2. EspTypeOK /\ EspStatusInv /\ EspTryingInv /\ [EspNext]_espVars
        => EspStatusInv' /\ EspTryingInv'
  BY EspStepKeepsStatus, EspStepKeepsTrying
<1>3. EspTryingInv => EspNoStandstill
  <2>1. events = <<>> => ~Waits(events, "STA_START") /\ ~Waits(events, "STA_DISCONNECTED")
    BY DEF Waits
  <2> QED
    BY <2>1 DEF EspTryingInv, EspNoStandstill
<1> QED
  BY <1>1, <1>2, <1>3, EspTypeCorrect, PTL DEF EspSpec

-----------------------------------------------------------------------------
(* The inductive invariant of the sockets: s_active_sock names nothing but *)
(* the socket of the session.  Until a session is opened while another     *)
(* task is about to forget it, it names that as long as it is open, also   *)
(* while tasks close it: of a session that is there when a task is about   *)
(* to forget, the socket is closed.  And what the server or s_listen_sock  *)
(* does not name is not open.                                              *)

Serving == serving.pc \in {"session", "closing"}

ActiveInv ==
  /\ s_active_sock # NoSock => Serving /\ s_active_sock = serving.sock
  /\ ~crossed /\ Serving /\ serving.sock \in open => s_active_sock = serving.sock
  /\ ~crossed /\ Serving /\ (\E t \in Task : At(t, "reset_active"))
       => serving.sock \notin open

ClosingInv ==
  /\ serving.pc = "closing" <=> ~At("server", "idle")
  /\ stage["server"] \in {"idle", "test_active", "close_active", "reset_active", "last"}
  /\ At("server", "last") => s_active_sock = NoSock

ServerInv ==
  /\ s_listen_sock # NoSock => s_listen_sock = serving.listen
  /\ serving.listen = NoSock <=> serving.pc \in {"none", "open"}
  /\ serving.sock = NoSock <=> serving.pc \in {"none", "open", "accept", "end"}
  /\ NoSocketIsLost

SocketsInv == ActiveInv /\ ClosingInv /\ ServerInv

LEMMA ClosingKeepsSockets ==
  ASSUME EspTypeOK, SocketsInv, NEW t \in Task, Closes(t)
  PROVE  SocketsInv'
<1> USE DEF SocketsInv, espSockets, At
<1>0. UNCHANGED <<serving, crossed>> /\ NoSock \notin Sock /\ open \subseteq Sock
      /\ "server" \in Task
  BY ClosingIsTyped, EspBounds DEF EspTypeOK, Task
<1>1. /\ \A u \in Task : u # t => stage'[u] = stage[u]
      /\ stage[t] # "idle" /\ stage'[t] # "idle"
  BY ClosingGoes
<1>2. open' \subseteq open
      /\ s_active_sock' \in {s_active_sock, NoSock}
      /\ s_listen_sock' \in {s_listen_sock, NoSock}
  BY DEF Closes, TestActive, CloseActive, ResetActive, TestListen, CloseListen,
         ResetListen
<1>3. ServerInv'
  BY <1>0, <1>2 DEF ServerInv, NoSocketIsLost
<1>4. ActiveInv' /\ (t = "server" => /\ stage'[t] \in {"close_active", "reset_active", "last"}
                                     /\ stage'[t] = "last" => s_active_sock' = NoSock)
  <2>1. CASE TestActive(t)
    <3>1. /\ stage'[t] \in {"close_active", "reset_active"}
          /\ stage'[t] = "reset_active" => s_active_sock = NoSock
      BY <2>1, Going DEF TestActive
    <3>2. UNCHANGED <<s_active_sock, open>>
      BY <2>1 DEF TestActive
    <3>3. ActiveInv'
      BY <1>0, <1>1, <3>1, <3>2 DEF ActiveInv, Serving
    <3> QED
      BY <3>1, <3>2, <3>3
  <2>2. CASE CloseActive(t)
    <3>1. stage'[t] = "reset_active"
      BY <2>2, Going DEF CloseActive
    <3>2. UNCHANGED s_active_sock /\ open' = open \ {s_active_sock}
      BY <2>2 DEF CloseActive
    <3>3. ActiveInv'
      BY <1>0, <3>2 DEF ActiveInv, Serving
    <3> QED
      BY <3>1, <3>3
  <2>3. CASE ResetActive(t)
    <3>1. stage'[t] = AfterActive(t)
      BY <2>3, Going DEF ResetActive
    <3>2. s_active_sock' = NoSock /\ UNCHANGED open /\ stage[t] = "reset_active"
      BY <2>3 DEF ResetActive
    <3>3. ActiveInv'
      BY <1>0, <1>1, <3>1, <3>2 DEF ActiveInv, Serving, AfterActive
    <3> QED
      BY <3>1, <3>2, <3>3 DEF AfterActive
  <2>4. CASE TestListen(t) \/ CloseListen(t) \/ ResetListen(t)
    <3>1. t # "server"
      BY <2>4 DEF TestListen, CloseListen, ResetListen, ClosingInv
    <3>2. stage'[t] \in {"close_listen", "reset_listen", "last"}
      BY <2>4, Going DEF TestListen, CloseListen, ResetListen, Closed
    <3>3. UNCHANGED s_active_sock
      BY <2>4 DEF TestListen, CloseListen, ResetListen
    <3>4. ActiveInv'
      BY <1>0, <1>1, <1>2, <3>2, <3>3 DEF ActiveInv, Serving
    <3> QED
      BY <3>1, <3>4
  <2> QED
    BY <2>1, <2>2, <2>3, <2>4 DEF Closes
<1>5. ClosingInv'
  <2>1. CASE t = "server"
    BY <1>0, <1>1, <1>4, <2>1 DEF ClosingInv
  <2>2. CASE t # "server"
    BY <1>0, <1>1, <1>2, <2>2 DEF ClosingInv
  <2> QED
    BY <2>1, <2>2
<1> QED
  BY <1>3, <1>4, <1>5

LEMMA ServingKeepsSockets ==
  ASSUME EspTypeOK, SocketsInv, Serve, ~Closes("server")
  PROVE  SocketsInv'
<1> USE DEF SocketsInv, ActiveInv, ClosingInv, ServerInv, NoSocketIsLost, Serving,
            AtServer, UnchangedByServer, espSockets, At
<1>0. /\ serving \in Server /\ NoSock \notin Sock /\ open \subseteq Sock
      /\ {"command", "event", "server"} = Task
  BY EspBounds DEF EspTypeOK, Task
<1>1. CASE Listen
  BY <1>0, <1>1 DEF Listen, Server
<1>2. CASE Accept
  BY <1>0, <1>2 DEF Accept, Server
<1>3. CASE AcceptFails
  BY <1>0, <1>3 DEF AcceptFails, Server
<1>4. CASE HandshakeSucceeds
  BY <1>0, <1>4 DEF HandshakeSucceeds, Server
<1>5. CASE HandshakeFails
  BY <1>0, <1>5 DEF HandshakeFails, Loop, Server
<1>6. CASE SessionEnds
  <2>1. stage'["server"] = "test_active" /\ \A u \in Task : u # "server" => stage'[u] = stage[u]
    BY <1>0, <1>6, Going DEF SessionEnds
  <2>2. UNCHANGED <<s_active_sock, s_listen_sock, open, crossed>>
        /\ serving.pc = "session" /\ serving'.pc = "closing"
        /\ serving'.sock = serving.sock /\ serving'.listen = serving.listen
    BY <1>0, <1>6 DEF SessionEnds, Server
  <2> QED
    BY <1>0, <2>1, <2>2
<1>7. CASE SessionClosed
  <2>1. stage'["server"] = "idle" /\ \A u \in Task : u # "server" => stage'[u] = stage[u]
    BY <1>0, <1>7, Going DEF SessionClosed
  <2>2. UNCHANGED <<s_active_sock, s_listen_sock, open, crossed>>
        /\ serving.pc = "closing" /\ serving'.pc \in {"accept", "end"}
        /\ serving'.sock = NoSock /\ serving'.listen = serving.listen
        /\ s_active_sock = NoSock
    BY <1>0, <1>7 DEF SessionClosed, Loop, Server
  <2> QED
    BY <1>0, <2>1, <2>2
<1>8. CASE StopsListening
  BY <1>0, <1>8 DEF StopsListening, Server
<1> QED
  BY <1>1, <1>2, <1>3, <1>4, <1>5, <1>6, <1>7, <1>8 DEF Serve

LEMMA StepKeepsSockets ==
  ASSUME EspTypeOK, SocketsInv, [EspNext]_espVars
  PROVE  SocketsInv'
<1> USE DEF espSockets
<1>0. {"command", "event", "server"} = Task
  BY DEF Task
<1>1. ASSUME NEW t \in Task, Closes(t) PROVE SocketsInv'
  BY <1>1, ClosingKeepsSockets
<1>2. CASE Serve /\ ~Closes("server")
  BY <1>2, ServingKeepsSockets
<1>3. CASE EspRestart
  BY <1>0, <1>3 DEF EspRestart, NoServer, SocketsInv, ActiveInv, ClosingInv, ServerInv,
               NoSocketIsLost, Serving, At
<1>4. ASSUME UNCHANGED <<espSockets, crossed>>,
             (serving.pc = "none" /\ serving' = [serving EXCEPT !.pc = "open"])
               \/ UNCHANGED serving,
             NEW t \in Task \ {"server"},
             UNCHANGED stage \/ (\E s \in Stage \ {"reset_active"} : Goto(t, s))
      PROVE  SocketsInv'
  <2>1. /\ stage'["server"] = stage["server"]
        /\ \A u \in Task : stage'[u] = "reset_active" => stage[u] = "reset_active"
    BY <1>0, <1>4, Going
  <2>2. /\ serving'.listen = serving.listen /\ serving'.sock = serving.sock
        /\ serving'.pc = serving.pc \/ (serving.pc = "none" /\ serving'.pc = "open")
    BY <1>4 DEF EspTypeOK, Server
  <2> QED
    BY <1>4, <2>1, <2>2
       DEF SocketsInv, ActiveInv, ClosingInv, ServerInv, NoSocketIsLost, Serving, At
<1>5. CASE Apply \/ EspClearConfig \/ EspStationStarts \/ SoftapStarts
  <2>1. /\ UNCHANGED <<espSockets, crossed>>
        /\ (serving.pc = "none" /\ serving' = [serving EXCEPT !.pc = "open"])
             \/ UNCHANGED serving
        /\ UNCHANGED stage \/ \E s \in Stage \ {"reset_active"} : Goto("command", s)
    BY <1>5 DEF Apply, EspClearConfig, EspStationStarts, SoftapStarts, EnsureServer, Stage
  <2> QED
    BY <1>0, <1>4, <2>1
<1>6. CASE EspStarted \/ EspDisconnected \/ Retry \/ EspGotIp
  <2>1. /\ UNCHANGED <<espSockets, crossed>>
        /\ (serving.pc = "none" /\ serving' = [serving EXCEPT !.pc = "open"])
             \/ UNCHANGED serving
        /\ UNCHANGED stage \/ \E s \in Stage \ {"reset_active"} : Goto("event", s)
    BY <1>6 DEF EspStarted, EspDisconnected, Retry, EspGotIp, EnsureServer, Stage
  <2> QED
    BY <1>0, <1>4, <2>1
<1>7. CASE EspWake \/ EspRadio \/ UNCHANGED espVars
  <2>1. UNCHANGED <<espSockets, serving, crossed, stage>>
    BY <1>7 DEF EspWake, EspRadio, espVars
  <2> QED
    BY <1>0, <1>4, <2>1
<1> QED
  BY <1>0, <1>1, <1>2, <1>3, <1>5, <1>6, <1>7 DEF EspNext, CommandTask, EventTask, Serve

LEMMA SocketsAreKept == EspSpec => []SocketsInv
<1>1. EspInit => SocketsInv
  BY DEF EspInit, NoServer, SocketsInv, ActiveInv, ClosingInv, ServerInv, NoSocketIsLost,
         Serving, At, Task
<1>2. EspTypeOK /\ SocketsInv /\ [EspNext]_espVars => SocketsInv'
  BY StepKeepsSockets
<1> QED
  BY <1>1, <1>2, EspTypeCorrect, PTL DEF EspSpec

(* Whichever of the three tasks close the client's socket, once or twice,  *)
(* in whatever order: the answers go to the client that is served, until a *)
(* session is opened while another task is about to forget s_active_sock.  *)
THEOREM KnowsItsClient == EspSpec => []ServedClientIsKnown
<1>1. SocketsInv => ServedClientIsKnown
  BY DEF SocketsInv, ActiveInv, Serving, ServedClientIsKnown
<1> QED
  BY <1>1, SocketsAreKept, PTL

(* No client is turned away by a descriptor left behind: in any order.     *)
THEOREM TurnsNobodyAway == EspSpec => []NobodyIsTurnedAway
<1>1. SocketsInv => NobodyIsTurnedAway
  BY DEF SocketsInv, ActiveInv, Serving, NobodyIsTurnedAway
<1> QED
  BY <1>1, SocketsAreKept, PTL

(* Until a session is opened while another task is about to forget, no     *)
(* socket is lost: open are at most those that the server still holds and  *)
(* will close.                                                             *)
THEOREM LosesNoSocket == EspSpec => []NoSocketIsLost
<1>1. SocketsInv => NoSocketIsLost
  BY DEF SocketsInv, ServerInv
<1> QED
  BY <1>1, SocketsAreKept, PTL
=============================================================================
