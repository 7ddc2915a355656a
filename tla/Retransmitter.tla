----------------------------- MODULE Retransmitter -----------------------------
(***************************************************************************)
(* The life of a transmission on the ESP32 (transmit_start_impl,           *)
(* transmit_stop_impl, transmission_monitor_task and transmission_isr in   *)
(* src/esp/main/libraries/sampler.c, usb_ingest_stream_lane in usb.c).     *)
(*                                                                         *)
(* START prepares the receive buffer, registers the interrupt and leaves   *)
(* the rest to a monitor task: it starts the timer when enough bytes have  *)
(* come (or have not come for too long) and stops the transmission when    *)
(* the buffer has drained or does not change.  STOP of the host and the    *)
(* monitor end a transmission with the same function, which no lock        *)
(* protects; the two run with the same priority, in turns or on two cores. *)
(*                                                                         *)
(* Here the buffer is the number of its bytes; RxRing has the bytes.  The  *)
(* monitor's clock counts its rounds of MONITOR_CHECK_INTERVAL_MS.         *)
(***************************************************************************)
EXTENDS Integers

CONSTANTS
  Capacity,   (* EMW_RX_BUFFER_SIZE                                          *)
  LaneBytes,  (* EMW_LANE_SIZE                                               *)
  StartFill,  (* TRANSMISSION_START_FILL_BYTES                               *)
  IdleExit,   (* TRANSMISSION_IDLE_EXIT_MS, in rounds                        *)
  Timeout,    (* TRANSMISSION_TIMEOUT_MS, in rounds                          *)
  Hasty,      (* a START may arrive before the last monitor is gone          *)
  Overlap,    (* the command task and the monitor may run at the same time   *)
  Sampling,   (* the host also starts and stops the sampler                  *)
  Failures    (* the steps of START that may fail: "isr", "task"             *)

ASSUME BufferAssumption ==
  /\ Capacity \in Nat /\ LaneBytes \in Nat \ {0} /\ StartFill \in Nat
  /\ IdleExit \in Nat \ {0} /\ Timeout \in Nat \ {0}

ASSUME ModesAssumption ==
  Hasty \in BOOLEAN /\ Overlap \in BOOLEAN /\ Sampling \in BOOLEAN

VARIABLES
  transmission_active,
  handle,         (* transmission_timer_isr_handle is not NULL               *)
  interrupt,      (* the interrupt is allocated                              *)
  timer,          (* TRANSMIT_TIMER counts                                   *)
  s_buffer_type,  (* what usb.c does with lanes: see usb_set_buffer_type     *)
  available,      (* usb_get_rx_buffer_bytes_available                       *)
  monitor,        (* transmission_monitor_task; "none": its handle is NULL   *)
  command,        (* the command task in handle_transmit_opcode              *)
  stop,           (* where each caller is in transmit_stop_impl              *)
  sampling,       (* the sampler is active                                   *)
  ticked,         (* the interrupt has run since the monitor's last round    *)
  decided         (* history: the monitor has decided to end this very       *)
                  (* transmission                                            *)

vars == <<transmission_active, handle, interrupt, timer, s_buffer_type,
          available, monitor, command, stop, sampling, ticked, decided>>

Caller == {"command", "monitor"}

NoMonitor == [pc |-> "none"]

(* The monitor's local variables, before and after it starts the timer.    *)
Filling(fill_wait) ==
  [pc |-> "round", started |-> FALSE, fill_wait |-> fill_wait,
   idle |-> 0, unchanged |-> 0, last |-> 0]
Watching(idle, unchanged, last) ==
  [pc |-> "round", started |-> TRUE, fill_wait |-> 0,
   idle |-> idle, unchanged |-> unchanged, last |-> last]

TypeOK ==
  /\ transmission_active \in BOOLEAN
  /\ handle \in BOOLEAN
  /\ interrupt \in BOOLEAN
  /\ timer \in {"paused", "counts"}
  /\ s_buffer_type \in {"PACKET", "CIRCULAR", "DOUBLE"}
  /\ available \in 0 .. Capacity
  /\ monitor \in [pc : {"none", "start", "stop", "exit"}]
                 \cup [pc : {"round"}, started : BOOLEAN, fill_wait : 0 .. Timeout,
                       idle : 0 .. IdleExit, unchanged : 0 .. Timeout,
                       last : 0 .. Capacity]
  /\ command \in {"ready", "register", "monitor"}
  /\ stop \in [Caller -> {"no", "free", "freed", "end"}]
  /\ sampling \in BOOLEAN
  /\ ticked \in BOOLEAN
  /\ decided \in BOOLEAN

Init ==
  /\ transmission_active = FALSE
  /\ handle = FALSE
  /\ interrupt = FALSE
  /\ timer = "paused"
  /\ s_buffer_type = "PACKET"
  /\ available = 0
  /\ monitor = NoMonitor
  /\ command = "ready"
  /\ stop = [p \in Caller |-> "no"]
  /\ sampling = FALSE
  /\ ticked = FALSE
  /\ decided = FALSE

-----------------------------------------------------------------------------
(* Who may take a step.                                                    *)

CommandBusy == command # "ready" \/ stop["command"] # "no"
MonitorBusy == monitor.pc \in {"start", "stop"}

CommandRuns == Overlap \/ ~MonitorBusy
MonitorRuns == Overlap \/ ~CommandBusy
Runs(p) == IF p = "command" THEN CommandRuns ELSE MonitorRuns

-----------------------------------------------------------------------------
(* The command task: START.                                                *)

(* transmit_start_impl up to configure_timer, which pauses the timer.      *)
Start ==
  /\ ~CommandBusy
  /\ CommandRuns
  /\ ~transmission_active
  /\ Hasty \/ monitor = NoMonitor
  /\ available' = 0
  /\ s_buffer_type' = "CIRCULAR"
  /\ timer' = "paused"
  /\ command' = "register"
  /\ UNCHANGED <<transmission_active, handle, interrupt, monitor, stop,
                 sampling, ticked, decided>>

Register ==
  /\ command = "register"
  /\ CommandRuns
  /\ handle' = TRUE
  /\ interrupt' = TRUE
  /\ transmission_active' = TRUE
  /\ decided' = FALSE
  /\ command' = "monitor"
  /\ UNCHANGED <<timer, s_buffer_type, available, monitor, stop, sampling,
                 ticked>>

(* Mutant: the failure leaves the buffer mode, as it does in the sampler.  *)
FailWithoutPacketMode ==
  /\ "isr" \in Failures
  /\ command = "register"
  /\ CommandRuns
  /\ command' = "ready"
  /\ UNCHANGED <<transmission_active, handle, interrupt, timer, s_buffer_type,
                 available, monitor, stop, sampling, ticked, decided>>

(* timer_isr_register fails.                                               *)
StartWithoutInterrupt ==
  /\ "isr" \in Failures
  /\ command = "register"
  /\ CommandRuns
  /\ s_buffer_type' = "PACKET"
  /\ command' = "ready"
  /\ UNCHANGED <<transmission_active, handle, interrupt, timer, available,
                 monitor, stop, sampling, ticked, decided>>

(* A monitor is created only when there is none.                           *)
EnsureMonitor ==
  /\ command = "monitor"
  /\ CommandRuns
  /\ monitor' = IF monitor = NoMonitor THEN Filling(0) ELSE monitor
  /\ command' = "ready"
  /\ UNCHANGED <<transmission_active, handle, interrupt, timer, s_buffer_type,
                 available, stop, sampling, ticked, decided>>

(* Mutant: the failure is reported, the transmission stays.                *)
FailStillActive ==
  /\ "task" \in Failures
  /\ command = "monitor"
  /\ CommandRuns
  /\ monitor = NoMonitor
  /\ command' = "ready"
  /\ UNCHANGED <<transmission_active, handle, interrupt, timer, s_buffer_type,
                 available, monitor, stop, sampling, ticked, decided>>

(* xTaskCreate fails.                                                      *)
StartWithoutMonitor ==
  /\ "task" \in Failures
  /\ command = "monitor"
  /\ CommandRuns
  /\ monitor = NoMonitor
  /\ transmission_active' = FALSE
  /\ timer' = "paused"
  /\ interrupt' = FALSE
  /\ handle' = FALSE
  /\ s_buffer_type' = "PACKET"
  /\ available' = 0
  /\ command' = "ready"
  /\ UNCHANGED <<monitor, stop, sampling, ticked, decided>>

(* The sampler sets the mode of the same buffer (sampler_start_impl and    *)
(* sampler_stop_impl).                                                     *)
StartSampler ==
  /\ Sampling
  /\ ~CommandBusy
  /\ CommandRuns
  /\ ~sampling
  /\ sampling' = TRUE
  /\ s_buffer_type' = "DOUBLE"
  /\ UNCHANGED <<transmission_active, handle, interrupt, timer, available,
                 monitor, command, stop, ticked, decided>>

StopSampler ==
  /\ ~CommandBusy
  /\ CommandRuns
  /\ sampling
  /\ sampling' = FALSE
  /\ s_buffer_type' = "PACKET"
  /\ UNCHANGED <<transmission_active, handle, interrupt, timer, available,
                 monitor, command, stop, ticked, decided>>

-----------------------------------------------------------------------------
(* transmit_stop_impl, for the host's STOP and for the monitor.            *)

StopBegin(p) ==
  /\ stop[p] = "no"
  /\ IF p = "command" THEN command = "ready" ELSE monitor.pc = "stop"
  /\ Runs(p)
  /\ transmission_active
  /\ timer' = "paused"
  /\ stop' = [stop EXCEPT ![p] = IF handle THEN "free" ELSE "end"]
  /\ UNCHANGED <<transmission_active, handle, interrupt, s_buffer_type,
                 available, monitor, command, sampling, ticked, decided>>

(* Mutant: the interrupt stays.                                            *)
StopFreeNothing(p) ==
  /\ stop[p] = "free"
  /\ Runs(p)
  /\ stop' = [stop EXCEPT ![p] = "freed"]
  /\ UNCHANGED <<transmission_active, handle, interrupt, timer, s_buffer_type,
                 available, monitor, command, sampling, ticked, decided>>

(* esp_intr_free returns when the interrupt no longer runs.                *)
StopFree(p) ==
  /\ stop[p] = "free"
  /\ Runs(p)
  /\ interrupt' = IF handle THEN FALSE ELSE interrupt
  /\ stop' = [stop EXCEPT ![p] = "freed"]
  /\ UNCHANGED <<transmission_active, handle, timer, s_buffer_type, available,
                 monitor, command, sampling, ticked, decided>>

StopEnd(p) ==
  /\ stop[p] \in {"freed", "end"}
  /\ Runs(p)
  /\ handle' = IF stop[p] = "freed" THEN FALSE ELSE handle
  /\ transmission_active' = FALSE
  /\ s_buffer_type' = "PACKET"
  /\ available' = 0
  /\ stop' = [stop EXCEPT ![p] = "no"]
  /\ monitor' = IF p = "monitor" THEN [pc |-> "exit"] ELSE monitor
  /\ UNCHANGED <<interrupt, timer, command, sampling, ticked, decided>>

-----------------------------------------------------------------------------
(* transmission_monitor_task.                                              *)

(* The interrupt comes every few microseconds, a round every few           *)
(* milliseconds: bytes that wait do not wait a whole round.                *)
RoundBegins ==
  /\ monitor.pc = "round"
  /\ MonitorRuns
  /\ timer = "counts" /\ interrupt /\ available > 0 => ticked
  /\ ticked' = FALSE

NoticeEnd ==
  /\ RoundBegins
  /\ ~transmission_active
  /\ monitor' = [pc |-> "exit"]
  /\ UNCHANGED <<transmission_active, handle, interrupt, timer, s_buffer_type,
                 available, command, stop, sampling, decided>>

Filled == available >= StartFill \/ monitor.fill_wait >= Timeout

(* Mutant: the wait is not counted.                                        *)
WaitForever ==
  /\ RoundBegins
  /\ transmission_active
  /\ ~monitor.started
  /\ monitor' = IF Filled THEN [pc |-> "start"] ELSE monitor
  /\ UNCHANGED <<transmission_active, handle, interrupt, timer, s_buffer_type,
                 available, command, stop, sampling, decided>>

(* Mutant: the end of the wait does not lead to timer_start.               *)
WaitAndWatch ==
  /\ RoundBegins
  /\ transmission_active
  /\ ~monitor.started
  /\ monitor' = IF Filled THEN Watching(0, 0, available)
                ELSE Filling(monitor.fill_wait + 1)
  /\ UNCHANGED <<transmission_active, handle, interrupt, timer, s_buffer_type,
                 available, command, stop, sampling, decided>>

WaitForBytes ==
  /\ RoundBegins
  /\ transmission_active
  /\ ~monitor.started
  /\ monitor' = IF Filled THEN [pc |-> "start"]
                ELSE Filling(monitor.fill_wait + 1)
  /\ UNCHANGED <<transmission_active, handle, interrupt, timer, s_buffer_type,
                 available, command, stop, sampling, decided>>

StartTimer ==
  /\ monitor.pc = "start"
  /\ MonitorRuns
  /\ timer' = "counts"
  /\ monitor' = Watching(0, 0, available)
  /\ UNCHANGED <<transmission_active, handle, interrupt, s_buffer_type,
                 available, command, stop, sampling, ticked, decided>>

(* The buffer has been empty, or has not changed, for too long.            *)
Watch ==
  /\ RoundBegins
  /\ transmission_active
  /\ monitor.started
  /\ LET idle == IF available = 0 THEN monitor.idle + 1 ELSE 0
         unchanged == IF available = monitor.last THEN monitor.unchanged + 1 ELSE 0
     IN  IF idle >= IdleExit \/ unchanged >= Timeout
         THEN monitor' = [pc |-> "stop"] /\ decided' = TRUE
         ELSE /\ monitor' = Watching(idle, unchanged, available)
              /\ UNCHANGED decided
  /\ UNCHANGED <<transmission_active, handle, interrupt, timer, s_buffer_type,
                 available, command, stop, sampling>>

(* transmit_stop_impl finds that the transmission has ended.               *)
StopNothing ==
  /\ monitor.pc = "stop"
  /\ stop["monitor"] = "no"
  /\ MonitorRuns
  /\ ~transmission_active
  /\ monitor' = [pc |-> "exit"]
  /\ UNCHANGED <<transmission_active, handle, interrupt, timer, s_buffer_type,
                 available, command, stop, sampling, ticked, decided>>

Exit ==
  /\ monitor.pc = "exit"
  /\ MonitorRuns
  /\ monitor' = NoMonitor
  /\ UNCHANGED <<transmission_active, handle, interrupt, timer, s_buffer_type,
                 available, command, stop, sampling, ticked, decided>>

-----------------------------------------------------------------------------
(* The stream.                                                             *)

(* usb_ingest_stream_lane, for the task that receives from USB or Wi-Fi.   *)
Ingest ==
  /\ s_buffer_type = "CIRCULAR"
  /\ available + LaneBytes < Capacity
  /\ available' = available + LaneBytes
  /\ UNCHANGED <<transmission_active, handle, interrupt, timer, s_buffer_type,
                 monitor, command, stop, sampling, ticked, decided>>

(* transmission_isr at the first bit of a byte.                            *)
PlayByte ==
  /\ timer = "counts"
  /\ interrupt
  /\ available > 0
  /\ available' = available - 1
  /\ ticked' = TRUE
  /\ UNCHANGED <<transmission_active, handle, interrupt, timer, s_buffer_type,
                 monitor, command, stop, sampling, decided>>

-----------------------------------------------------------------------------
StartCommand ==
  Start \/ Register \/ StartWithoutInterrupt \/ EnsureMonitor \/ StartWithoutMonitor
SamplerCommand == StartSampler \/ StopSampler
StopCall(p) == StopBegin(p) \/ StopFree(p) \/ StopEnd(p)
MonitorTask ==
  NoticeEnd \/ WaitForBytes \/ StartTimer \/ Watch \/ StopNothing \/ Exit

Next ==
  \/ StartCommand
  \/ SamplerCommand
  \/ \E p \in Caller : StopCall(p)
  \/ MonitorTask
  \/ Ingest
  \/ PlayByte

Spec == Init /\ [][Next]_vars

(* Both tasks run, a command once begun is finished, and the timer's       *)
(* interrupt comes again and again.                                        *)
Fairness ==
  /\ WF_vars(Register \/ EnsureMonitor)
  /\ WF_vars(StopFree("command") \/ StopEnd("command"))
  /\ WF_vars(MonitorTask \/ StopCall("monitor"))
  /\ WF_vars(PlayByte)

FairSpec == Spec /\ Fairness

-----------------------------------------------------------------------------
(* Properties.                                                             *)

(* Between commands and stops, the interrupt, its handle and the buffer    *)
(* mode say the same as transmission_active, and the timer counts only for *)
(* a transmission: every way out of a START or a transmission undoes all   *)
(* that was done.  stm/README.md, section 6.10: "When done: stops TIM3,    *)
(* restores packet mode".                                                  *)
EverythingIsUndone ==
  ~CommandBusy /\ monitor.pc # "stop" =>
    /\ handle <=> transmission_active
    /\ interrupt <=> transmission_active
    /\ s_buffer_type = "CIRCULAR" <=> transmission_active
    /\ timer = "counts" => transmission_active

(* A transmission that START has answered for is looked after: there is a  *)
(* monitor, which is not about to end.                                     *)
IsMonitored ==
  transmission_active /\ ~CommandBusy => monitor.pc \notin {"none", "exit"}

(* The monitor decides to end only a transmission that plays, or one that  *)
(* the host is stopping already: it does not take bytes that wait for a    *)
(* timer that was never started for a stuck host.                          *)
(* stm/README.md, section 6.10: START "consumes incoming stream bits".     *)
PlaysBeforeItEnds ==
  [][decided' /\ ~decided
       => (timer = "counts" /\ interrupt) \/ stop["command"] # "no"]_vars

(* While a transmission is active its lanes are taken: stm/README.md,      *)
(* section 6.10: START "switches RX to circular mode".                     *)
TakesLanes ==
  transmission_active /\ ~CommandBusy /\ stop["monitor"] = "no" =>
    s_buffer_type = "CIRCULAR"

(* However the host and the monitor get in each other's way, no byte is    *)
(* played when the transmission is over: stm/README.md, section 6.10:      *)
(* "When done: stops TIM3".                                                *)
SilentWhenOver ==
  ~transmission_active /\ ~CommandBusy /\ stop["monitor"] = "no" =>
    timer = "paused" \/ ~interrupt

(* When the host has nothing more to send, a transmission ends.            *)
TransmissionEnds ==
  <>[][available' <= available]_vars =>
    (transmission_active ~> ~transmission_active)
=============================================================================
