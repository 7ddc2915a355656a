-------------------------------- MODULE Channel --------------------------------
(***************************************************************************)
(* The command channel of the ESP32 firmware: commands from USB and Wi-Fi  *)
(* go through one queue to command_task (init.c), and the answers of those *)
(* that came by USB go back in frames that three more tasks send as well:  *)
(* usb_midi_rx_task, transmission_monitor_task and sampler_task (usb.c,    *)
(* sampler.c).  While a stream runs the answer is left in one pending slot *)
(* for the next frame to take along.                                       *)
(*                                                                         *)
(* A command has a source, an operation and, if it came by USB, a number;  *)
(* an answer is the number of its command.  Wi-Fi answers go to the        *)
(* WebSocket and are not followed.  When the claim of a session expires is *)
(* TransportSession's; here it may, while its owner is silent.             *)
(***************************************************************************)
EXTENDS Integers, Sequences

CONSTANTS
  MaxCommand,  (* bound: the numbers of commands, which are used again     *)
  QueueLength, (* CMD_QUEUE_LEN                                            *)
  Fifo,        (* the frames that fit in TinyUSB's transmit buffer         *)
  Others,      (* the sources besides USB                                  *)
  Overlap,     (* a task may be interrupted between its reading of the     *)
               (* pending answer and its clearing                          *)
  Impatient,   (* the host may give up while its answer is on the way      *)
  StartFails   (* the interrupt of the sampler may be refused              *)

ASSUME ChannelAssumption ==
  /\ MaxCommand \in Nat /\ MaxCommand > 1
  /\ {QueueLength, Fifo} \subseteq Nat \ {0}
  /\ Others \subseteq {"WIFI"}
  /\ {Overlap, Impatient, StartFails} \subseteq BOOLEAN

VARIABLES
  cmd_queue,
  cmd,                     (* command_task: the command it answers         *)
  s_active_source,         (* the owner of the transport session           *)
  s_buffer_type,
  sampling_active,
  sampler_stream_source,
  transmission_active,
  s_pending_cmd_lane,      (* 0 unless s_pending_cmd_ready                 *)
  s_pending_bs_ready,
  frame,                   (* per task, the frame it is sending            *)
  uncleared,               (* the tasks that have still to clear the slot  *)
  fifo,                    (* the answers, or 0, in frames to the host     *)
  asked, waiting, answered,(* host: see Correspondence                     *)
  lost,                    (* the command the host waits for was dropped,  *)
                           (* or the frame with its answer                 *)
  crowded                  (* history: the host has given up on an answer  *)
                           (* still to come, or a task was interrupted     *)
                           (* with one in its hands, and since then the    *)
                           (* host has not asked with all of that gone     *)

streams == <<s_buffer_type, sampling_active, sampler_stream_source,
             transmission_active>>
sending == <<frame, uncleared, fifo>>
host == <<asked, waiting, answered, crowded>>
vars == <<cmd_queue, cmd, s_active_source, streams, s_pending_cmd_lane,
          s_pending_bs_ready, sending, host, lost>>

Source == {"USB"} \cup Others
Op == {"query", "connect", "disconnect", "operate", "sample_start",
       "sample_stop", "transmit_start", "transmit_stop"}
Number == 0 .. MaxCommand
Command == [source : Source, op : Op, n : Number]
Task == {"cmd_task", "emw_usb_rx", "tx_monitor", "sampler"}
Frame == [cmd : Number, stream : {"zeroes", "lane", "BS"}]
None == [cmd |-> 0, stream |-> "none"]
NoCommand == [source |-> "UNKNOWN", op |-> "none", n |-> 0]

TypeOK ==
  /\ cmd_queue \in Seq(Command) /\ Len(cmd_queue) <= QueueLength
  /\ cmd \in Command \cup {NoCommand}
  /\ s_active_source \in {"NONE"} \cup Source
  /\ s_buffer_type \in {"PACKET", "DOUBLE", "CIRCULAR"}
  /\ sampling_active \in BOOLEAN
  /\ sampler_stream_source \in {"UNKNOWN"} \cup Source
  /\ transmission_active \in BOOLEAN
  /\ s_pending_cmd_lane \in Number
  /\ s_pending_bs_ready \in BOOLEAN
  /\ frame \in [Task -> Frame \cup {None}]
  /\ uncleared \in SUBSET Task
  /\ fifo \in Seq(Number) /\ Len(fifo) <= Fifo
  /\ {asked, waiting, answered} \subseteq Number
  /\ {lost, crowded} \subseteq BOOLEAN

Init ==
  /\ cmd_queue = <<>>
  /\ cmd = NoCommand
  /\ s_active_source = "NONE"
  /\ s_buffer_type = "PACKET"
  /\ sampling_active = FALSE
  /\ sampler_stream_source = "UNKNOWN"
  /\ transmission_active = FALSE
  /\ s_pending_cmd_lane = 0
  /\ s_pending_bs_ready = FALSE
  /\ frame = [t \in Task |-> None]
  /\ uncleared = {}
  /\ fifo = <<>>
  /\ asked = 0
  /\ waiting = 0
  /\ answered = 0
  /\ lost = FALSE
  /\ crowded = FALSE

(* The places where the command the host waits for is, or its answer.      *)
Queued == {i \in 1 .. Len(cmd_queue) : cmd_queue[i].source = "USB"}
Framed == {t \in Task : frame[t].cmd # 0}
OnItsWay == {i \in 1 .. Len(fifo) : fifo[i] # 0}
Places ==
  {<<"queue", i>> : i \in Queued}
    \cup {p \in {<<"task">>} : cmd.source = "USB"}
    \cup {p \in {<<"pending">>} : s_pending_cmd_lane # 0}
    \cup {<<"frame", t>> : t \in Framed}
    \cup {<<"fifo", i>> : i \in OnItsWay}

-----------------------------------------------------------------------------
(* Receiving.                                                              *)

(* xQueueSendToBack without waiting: a full queue drops the command.       *)
Enqueue(c) ==
  IF Len(cmd_queue) < QueueLength
  THEN cmd_queue' = Append(cmd_queue, c)
  ELSE UNCHANGED cmd_queue

NextNumber == IF asked < MaxCommand THEN asked + 1 ELSE 1

(* process_sysex_frame: a frame with a command.  The stream lane of such a *)
(* frame is ingested like any other while the buffer is circular.          *)
Ask ==
  /\ waiting = 0
  /\ frame["emw_usb_rx"] = None
  /\ asked' = NextNumber
  /\ waiting' = asked'
  /\ answered' = 0
  /\ \E op \in Op : Enqueue([source |-> "USB", op |-> op, n |-> asked'])
  /\ lost' = (Len(cmd_queue) = QueueLength)
  /\ crowded' = (crowded /\ (Places # {} \/ uncleared # {}))
  /\ \/ UNCHANGED s_pending_bs_ready
     \/ /\ s_buffer_type = "CIRCULAR" /\ s_active_source = "USB"
        /\ s_pending_bs_ready' = TRUE
  /\ UNCHANGED <<cmd, s_active_source, streams, s_pending_cmd_lane, sending>>

(* A frame of a transmission; if the ring has no room, nothing is queued.   *)
Feed ==
  /\ s_buffer_type = "CIRCULAR" /\ s_active_source = "USB"
  /\ frame["emw_usb_rx"] = None
  /\ s_pending_bs_ready' = TRUE
  /\ UNCHANGED <<cmd_queue, cmd, s_active_source, streams,
                 s_pending_cmd_lane, sending, host, lost>>

(* enqueue_sysex of wifi_transport.c.                                      *)
AskByWifi ==
  /\ \E s \in Others, op \in Op : Enqueue([source |-> s, op |-> op, n |-> 0])
  /\ UNCHANGED <<cmd, s_active_source, streams, s_pending_cmd_lane,
                 s_pending_bs_ready, sending, host, lost>>

-----------------------------------------------------------------------------
(* command_task.                                                           *)

(* transport_session_allows_command                                        *)
Allows(c) ==
  CASE c.op = "connect" -> s_active_source \in {"NONE", c.source}
    [] c.op = "query" -> TRUE
    [] OTHER -> s_active_source = c.source

(* command_task takes a command.  Of most of them only the answer is left  *)
(* to do when the handler has done its work.                               *)
Take(c) ==
  /\ cmd = NoCommand /\ frame["cmd_task"] = None
  /\ cmd_queue # <<>> /\ c = Head(cmd_queue)
  /\ cmd_queue' = Tail(cmd_queue)
  /\ UNCHANGED <<s_pending_cmd_lane, s_pending_bs_ready, sending, host,
                 lost>>

Answering(c) == cmd' = [c EXCEPT !.op = "query"]

Busy ==
  /\ Take(Head(cmd_queue)) /\ ~Allows(Head(cmd_queue))
  /\ Answering(Head(cmd_queue))
  /\ UNCHANGED <<s_active_source, streams>>

Handle(op, c) == Take(c) /\ c.op = op /\ Allows(c)

(* The operations that only answer, once on each of their ways: discovery, *)
(* and those that drive pins and buses.  A session opcode whose source is  *)
(* not its sender's is among them.                                         *)
Query ==
  /\ Handle("query", Head(cmd_queue)) /\ Answering(Head(cmd_queue))
  /\ UNCHANGED <<s_active_source, streams>>

Operate ==
  /\ Handle("operate", Head(cmd_queue)) /\ Answering(Head(cmd_queue))
  /\ UNCHANGED <<s_active_source, streams>>

Connect ==
  /\ Handle("connect", Head(cmd_queue)) /\ Answering(Head(cmd_queue))
  /\ s_active_source' = Head(cmd_queue).source
  /\ UNCHANGED streams

Disconnect ==
  /\ Handle("disconnect", Head(cmd_queue)) /\ Answering(Head(cmd_queue))
  /\ s_active_source' = "NONE"
  /\ UNCHANGED streams

(* A START that fails late leaves the buffer type as it is by then.  After *)
(* one that succeeds the destination is still to be set.                   *)
SampleStart ==
  /\ Handle("sample_start", Head(cmd_queue))
  /\ \/ /\ sampling_active
        /\ Answering(Head(cmd_queue))
        /\ UNCHANGED streams
     \/ /\ ~sampling_active
        /\ s_buffer_type' = "DOUBLE"
        /\ sampler_stream_source' = "UNKNOWN"
        /\ \/ sampling_active' = TRUE /\ cmd' = Head(cmd_queue)
           \/ /\ StartFails
              /\ UNCHANGED sampling_active
              /\ Answering(Head(cmd_queue))
        /\ UNCHANGED transmission_active
  /\ UNCHANGED s_active_source

(* Mutant: the buffer type stays what the stream needed.                   *)
SampleStopKeepsType ==
  /\ Handle("sample_stop", Head(cmd_queue)) /\ Answering(Head(cmd_queue))
  /\ UNCHANGED s_buffer_type
  /\ sampling_active' = FALSE
  /\ sampler_stream_source' = "UNKNOWN"
  /\ UNCHANGED <<s_active_source, transmission_active>>

SampleStop ==
  /\ Handle("sample_stop", Head(cmd_queue)) /\ Answering(Head(cmd_queue))
  /\ s_buffer_type' = IF sampling_active THEN "PACKET" ELSE s_buffer_type
  /\ sampling_active' = FALSE
  /\ sampler_stream_source' = "UNKNOWN"
  /\ UNCHANGED <<s_active_source, transmission_active>>

TransmitStart ==
  /\ Handle("transmit_start", Head(cmd_queue)) /\ Answering(Head(cmd_queue))
  /\ s_buffer_type' = IF transmission_active THEN s_buffer_type ELSE "CIRCULAR"
  /\ transmission_active' = TRUE
  /\ UNCHANGED <<s_active_source, sampling_active, sampler_stream_source>>

(* transmit_stop_impl                                                      *)
EndTransmission ==
  /\ s_buffer_type' = IF transmission_active THEN "PACKET" ELSE s_buffer_type
  /\ transmission_active' = FALSE
  /\ UNCHANGED <<sampling_active, sampler_stream_source>>

TransmitStop ==
  /\ Handle("transmit_stop", Head(cmd_queue)) /\ Answering(Head(cmd_queue))
  /\ EndTransmission
  /\ UNCHANGED s_active_source

(* Mutant: the early return of the held back answer is missing.            *)
RespondTwice ==
  /\ cmd # NoCommand
  /\ cmd' = NoCommand
  /\ sampler_stream_source' =
       IF cmd.op = "sample_start" THEN cmd.source ELSE sampler_stream_source
  /\ \/ cmd.source # "USB" /\ UNCHANGED <<s_pending_cmd_lane, frame>>
     \/ /\ cmd.source = "USB"
        /\ s_pending_cmd_lane' =
             IF s_buffer_type # "PACKET" THEN cmd.n ELSE s_pending_cmd_lane
        /\ frame' = [frame EXCEPT
             !["cmd_task"] = [cmd |-> cmd.n, stream |-> "zeroes"]]
  /\ UNCHANGED <<cmd_queue, s_active_source, s_buffer_type, sampling_active,
                 transmission_active, s_pending_bs_ready, uncleared, fifo,
                 host, lost>>

(* usb_send_cmd_response, and sampler_set_stream_source before it.         *)
Respond ==
  /\ cmd # NoCommand
  /\ cmd' = NoCommand
  /\ sampler_stream_source' =
       IF cmd.op = "sample_start" THEN cmd.source ELSE sampler_stream_source
  /\ \/ cmd.source # "USB" /\ UNCHANGED <<s_pending_cmd_lane, frame>>
     \/ /\ cmd.source = "USB" /\ s_buffer_type # "PACKET"
        /\ s_pending_cmd_lane' = cmd.n
        /\ UNCHANGED frame
     \/ /\ cmd.source = "USB" /\ s_buffer_type = "PACKET"
        /\ frame' = [frame EXCEPT
             !["cmd_task"] = [cmd |-> cmd.n, stream |-> "zeroes"]]
        /\ UNCHANGED s_pending_cmd_lane
  /\ UNCHANGED <<cmd_queue, s_active_source, s_buffer_type, sampling_active,
                 transmission_active, s_pending_bs_ready, uncleared, fifo,
                 host, lost>>

CommandTask ==
  \/ Busy \/ Query \/ Operate \/ Connect \/ Disconnect
  \/ SampleStart \/ SampleStop \/ TransmitStart \/ TransmitStop
  \/ Respond

(* expire_stale_claim, in any task that asks for the claim.                *)
Expire ==
  /\ s_active_source # "NONE"
  /\ s_active_source' = "NONE"
  /\ UNCHANGED <<cmd_queue, cmd, streams, s_pending_cmd_lane,
                 s_pending_bs_ready, sending, host, lost>>

-----------------------------------------------------------------------------
(* Sending.                                                                *)

(* Mutant: the slot is not cleared.                                        *)
FillKeeps(t, stream) ==
  /\ frame[t] = None
  /\ frame' = [frame EXCEPT ![t] =
       [cmd |-> s_pending_cmd_lane, stream |-> stream]]
  /\ UNCHANGED <<cmd_queue, cmd, s_active_source, streams,
                 s_pending_cmd_lane, s_pending_bs_ready, uncleared, fifo,
                 host, lost>>

(* Mutant: only frames with a lane of the sampler take answers along.      *)
FillLanes(t, stream) ==
  /\ frame[t] = None
  /\ frame' = [frame EXCEPT ![t] =
       [cmd |-> IF stream = "lane" THEN s_pending_cmd_lane ELSE 0,
        stream |-> stream]]
  /\ s_pending_cmd_lane' = IF stream = "lane" THEN 0 ELSE s_pending_cmd_lane
  /\ UNCHANGED <<cmd_queue, cmd, s_active_source, streams,
                 s_pending_bs_ready, uncleared, fifo, host, lost>>

(* fill_frame_from_pending.  A task interrupted after it has copied the    *)
(* pending answer clears the slot when it goes on, to send.                *)
Fill(t, stream) ==
  /\ frame[t] = None
  /\ frame' = [frame EXCEPT ![t] =
       [cmd |-> s_pending_cmd_lane, stream |-> stream]]
  /\ \/ /\ s_pending_cmd_lane' = 0
        /\ UNCHANGED <<uncleared, crowded>>
     \/ /\ Overlap /\ s_pending_cmd_lane # 0
        /\ uncleared' = uncleared \cup {t}
        /\ crowded' = TRUE
        /\ UNCHANGED s_pending_cmd_lane
  /\ UNCHANGED <<cmd_queue, cmd, s_active_source, streams,
                 s_pending_bs_ready, fifo, asked, waiting, answered, lost>>

(* usb_poll_tx, of the tasks that are there.                               *)
PollTx ==
  /\ s_pending_bs_ready
  /\ \/ Fill("emw_usb_rx", "BS")
     \/ transmission_active /\ Fill("tx_monitor", "BS")
     \/ sampling_active /\ Fill("sampler", "BS")

(* usb_send_stream_lane; lanes for Wi-Fi go elsewhere.                     *)
SendStreamLane ==
  /\ sampling_active /\ sampler_stream_source # "WIFI"
  /\ Fill("sampler", "lane")

(* send_frame.  Without room the frame is given up.  Only command_task     *)
(* waits for another that is sending.                                      *)
SendFrame(t) ==
  /\ frame[t] # None
  /\ frame' = [frame EXCEPT ![t] = None]
  /\ uncleared' = uncleared \ {t}
  /\ s_pending_cmd_lane' = IF t \in uncleared THEN 0 ELSE s_pending_cmd_lane
  /\ \/ /\ Len(fifo) < Fifo
        /\ fifo' = Append(fifo, frame[t].cmd)
        /\ s_pending_bs_ready' = (s_pending_bs_ready /\ frame[t].stream # "BS")
        /\ UNCHANGED lost
     \/ /\ \/ Len(fifo) = Fifo
           \/ t # "cmd_task" /\ \E u \in Task \ {t} : frame[u] # None
        /\ lost' = (lost \/ frame[t].cmd # 0)
        /\ UNCHANGED <<fifo, s_pending_bs_ready>>
  /\ UNCHANGED <<cmd_queue, cmd, s_active_source, streams, host>>

(* transmission_monitor_task finds that the transmission is over.          *)
MonitorEnds ==
  /\ transmission_active /\ frame["tx_monitor"] = None
  /\ EndTransmission
  /\ UNCHANGED <<cmd_queue, cmd, s_active_source, s_pending_cmd_lane,
                 s_pending_bs_ready, sending, host, lost>>

-----------------------------------------------------------------------------
(* The USB host takes a frame.  The answer in it ends the wait, and is     *)
(* forgotten if nobody waits (prepareCommandResponseWait).                 *)
Collect ==
  /\ fifo # <<>>
  /\ fifo' = Tail(fifo)
  /\ IF Head(fifo) = 0 \/ waiting = 0
     THEN UNCHANGED <<waiting, answered>>
     ELSE answered' = Head(fifo) /\ waiting' = 0
  /\ UNCHANGED <<cmd_queue, cmd, s_active_source, streams,
                 s_pending_cmd_lane, s_pending_bs_ready, frame, uncleared,
                 asked, lost, crowded>>

(* awaitCommandResponse times out: of a patient host only when there is no *)
(* answer to wait for.                                                     *)
GiveUp ==
  /\ waiting # 0 /\ (lost \/ Impatient)
  /\ waiting' = 0
  /\ crowded' = (crowded \/ ~lost)
  /\ lost' = FALSE
  /\ UNCHANGED <<cmd_queue, cmd, s_active_source, streams,
                 s_pending_cmd_lane, s_pending_bs_ready, sending, asked,
                 answered>>

(* The board restarts, by RESET or without its power, and the host sees it *)
(* leave the bus.                                                          *)
Restart ==
  /\ cmd_queue' = <<>>
  /\ cmd' = NoCommand
  /\ s_active_source' = "NONE"
  /\ s_buffer_type' = "PACKET"
  /\ sampling_active' = FALSE
  /\ sampler_stream_source' = "UNKNOWN"
  /\ transmission_active' = FALSE
  /\ s_pending_cmd_lane' = 0
  /\ s_pending_bs_ready' = FALSE
  /\ frame' = [t \in Task |-> None]
  /\ uncleared' = {}
  /\ fifo' = <<>>
  /\ waiting' = 0
  /\ lost' = FALSE
  /\ UNCHANGED <<asked, answered, crowded>>

Sends == PollTx \/ SendStreamLane
Board == CommandTask \/ Sends \/ \E t \in Task : SendFrame(t)

Next ==
  \/ Board \/ Expire \/ MonitorEnds \/ Restart
  \/ Ask \/ Feed \/ AskByWifi \/ Collect \/ GiveUp

Spec == Init /\ [][Next]_vars

(* The tasks run, lanes are captured, and the host collects what is sent.  *)
Fairness ==
  /\ WF_vars(CommandTask)
  /\ WF_vars(SendStreamLane)
  /\ WF_vars(s_pending_bs_ready /\ Fill("emw_usb_rx", "BS"))
  /\ \A t \in Task : WF_vars(SendFrame(t))
  /\ WF_vars(Collect)

FairSpec == Spec /\ Fairness

-----------------------------------------------------------------------------
(* Properties.                                                             *)

(* Whatever task sends it, and whatever stream starts or stops meanwhile,  *)
(* the command the host waits for, or its answer, is in exactly one place  *)
(* of the board until it arrives, unless a full queue or a frame without   *)
(* room has lost it: it is neither overwritten in the pending slot nor     *)
(* left there when it is sent.  If the host has given up on an older       *)
(* command, this holds again from the first it sends when nothing of that  *)
(* is left on the board.                                                   *)
CommandIsInOnePlace ==
  ~crowded =>
    IF waiting # 0 /\ ~lost
    THEN \E p \in Places : Places = {p} ELSE Places = {}

(* What the host relies on: the answer that arrives is the one to the      *)
(* command it sent last, whichever of four tasks has sent it, unless       *)
(* something of an older command was left on the board when it asked, or a *)
(* task was interrupted while it took the answer from the slot.            *)
AnswersCorrespond == INSTANCE Correspondence
AnswerSpec == AnswersCorrespond!Spec

(* The same without the exception: what the hosts take for granted, and    *)
(* what Impatient or Overlap breaks (README.md, section 7).                *)
OnlyItsOwnAnswer == answered \in {0, asked}

(* A transmission takes answers along only while lanes come in, and        *)
(* streams of Wi-Fi take none.                                             *)
OtherStream ==
  \/ transmission_active
  \/ s_active_source \in Others
  \/ sampling_active /\ sampler_stream_source \in Others

(* Without such streams every command is answered: at once, or with a lane *)
(* of the host's own stream, or when that stream has been stopped.         *)
EveryCommandIsAnswered ==
  []~OtherStream => (waiting # 0 ~> waiting = 0 \/ lost)

(* During a transmission a command is answered as long as lanes come in.   *)
AnsweredWhileFed ==
  []<><<Feed>>_vars => (waiting # 0 ~> waiting = 0 \/ lost)

(* What esp/README.md says: USB remains available for discovery while      *)
(* another transport has the session.                                      *)
DiscoveryIsAnswered ==
  (\E i \in Queued : cmd_queue[i].op = "query") ~> waiting = 0 \/ lost
=============================================================================
