-------------------------------- MODULE Sampler --------------------------------
(***************************************************************************)
(* The sampler of the ESP32 firmware (src/esp/main/libraries/sampler.c):   *)
(*                                                                         *)
(*   - sampling_isr packs samples into 18-byte lanes and pushes every full *)
(*     lane on a ring of SAMPLER_RING_LANES lanes, or, while the ring      *)
(*     overflows, into a lane that is thrown away;                         *)
(*   - sampler_task sends the oldest lane to the host and pops it when the *)
(*     send succeeds;                                                      *)
(*   - the command task starts and stops sampling, and sets the transport  *)
(*     the lanes go to (handle_sample_opcode in init.c).                   *)
(*                                                                         *)
(* A lane is its number: the n-th lane completed since sampling started.   *)
(* The interrupt runs on the core of the command task, which registers it. *)
(* sampler_task is not pinned: where the chip has a second core it may run *)
(* there, in parallel with the interrupt, which does not take the lock     *)
(* s_sampler_lock.                                                         *)
(***************************************************************************)
EXTENDS Integers, Sequences

CONSTANTS
  Lanes,      (* SAMPLER_RING_LANES                                          *)
  MaxLane,    (* bound: the lanes completed in one session                   *)
  Transport,  (* the transports a START can come from                        *)
  usb, wifi,  (* EMW_COMMAND_SOURCE_USB and EMW_COMMAND_SOURCE_WIFI          *)
  Unknown,    (* EMW_COMMAND_SOURCE_UNKNOWN                                  *)
  Parallel,   (* sampler_task may run while the interrupt runs               *)
  Hasty,      (* a START may arrive before the last streaming task is gone   *)
  Failures    (* the steps of START that may fail: "isr", "task"             *)

ASSUME LanesAssumption == Lanes \in Nat /\ Lanes > 1 /\ MaxLane \in Nat

ASSUME TransportAssumption ==
  /\ Unknown \notin Transport \cup {usb, wifi}
  /\ usb # wifi
  /\ Parallel \in BOOLEAN
  /\ Hasty \in BOOLEAN

VARIABLES
  sampling_active,        (* also: the timer runs, its interrupt is registered *)
  sampler_ring,           (* the lane in each slot                           *)
  sampler_ring_head,      (* the slot the interrupt writes                   *)
  sampler_ring_tail,      (* the slot of the oldest lane                     *)
  sampler_ring_count,     (* the number of lanes waiting                     *)
  sampler_overflow_active,(* captured bytes go to sampler_overflow_lane      *)
  sampler_stream_source,  (* the transport of the stream                     *)
  s_buffer_type,          (* how usb.c sends responses: see usb_set_buffer_type *)
  isr,                    (* sampling_isr at the end of a lane               *)
  streamer,               (* sampler_task; "none": sampler_task_handle = NULL *)
  notified,               (* a stop notification waits for sampler_task      *)
  command,                (* the command task in handle_sample_opcode        *)
  starter,                (* history: the transport that started sampling    *)
  captured,               (* history: lanes completed in this session        *)
  sent                    (* history: the last lane sent in this session     *)

ring == <<sampler_ring, sampler_ring_head, sampler_ring_tail,
          sampler_ring_count, sampler_overflow_active>>
vars == <<ring, sampling_active, sampler_stream_source, s_buffer_type, isr,
          streamer, notified, command, starter, captured, sent>>

Slot == 0 .. Lanes - 1
Next1(slot) == IF slot = Lanes - 1 THEN 0 ELSE slot + 1

(* A slot holds a lane, zeroes, or a lane that is being written.           *)
Empty == 0
Partial == -1
Lane == 1 .. MaxLane
Content == Lane \cup {Empty, Partial}

IsrIdle == [pc |-> "idle"]
NoTask == [pc |-> "none"]
Ready == [pc |-> "idle"]
NothingSent == [lane |-> 0, via |-> Unknown]

TypeOK ==
  /\ sampling_active \in BOOLEAN
  /\ sampler_ring \in [Slot -> Content]
  /\ sampler_ring_head \in Slot
  /\ sampler_ring_tail \in Slot
  /\ sampler_ring_count \in 0 .. Lanes
  /\ sampler_overflow_active \in BOOLEAN
  /\ sampler_stream_source \in Transport \cup {Unknown}
  /\ s_buffer_type \in {"PACKET", "DOUBLE"}
  /\ isr \in {IsrIdle, [pc |-> "full"]} \cup [pc : {"push"}, count : 0 .. Lanes - 1]
  /\ streamer \in {NoTask} \cup [pc : {"poll", "exit", "pop"}]
                    \cup [pc : {"source"}, lane : Slot]
                    \cup [pc : {"send"}, lane : Slot, via : {usb, wifi}]
                    \cup [pc : {"decrement"}, count : 1 .. Lanes]
  /\ notified \in BOOLEAN
  /\ command \in {Ready, [pc |-> "notify"]} \cup [pc : {"task", "source"}, from : Transport]
  /\ starter \in Transport \cup {Unknown}
  /\ captured \in 0 .. MaxLane
  /\ sent \in [lane : Content, via : {usb, wifi, Unknown}]

Init ==
  /\ sampling_active = FALSE
  /\ sampler_ring = [slot \in Slot |-> Empty]
  /\ sampler_ring_head = 0
  /\ sampler_ring_tail = 0
  /\ sampler_ring_count = 0
  /\ sampler_overflow_active = FALSE
  /\ sampler_stream_source = Unknown
  /\ s_buffer_type = "PACKET"
  /\ isr = IsrIdle
  /\ streamer = NoTask
  /\ notified = FALSE
  /\ command = Ready
  /\ starter = Unknown
  /\ captured = 0
  /\ sent = NothingSent

-----------------------------------------------------------------------------
(* Who may take a step.                                                    *)

(* sampler_task between portENTER_CRITICAL and portEXIT_CRITICAL, in the   *)
(* one critical section that is more than one step.                        *)
Locked == streamer.pc = "decrement"

(* The command task shares its core with the interrupt.  It does not run   *)
(* in the middle of one, nor take the lock while sampler_task has it.      *)
CommandRuns == isr = IsrIdle /\ ~Locked

(* On the interrupt's own core sampler_task waits for it to end, and its   *)
(* critical sections keep the interrupt out.                               *)
StreamerRuns == Parallel \/ isr = IsrIdle
InterruptRuns == Parallel \/ ~Locked

-----------------------------------------------------------------------------
(* The command task.                                                       *)

(* Mutant: the tail is not reset.                                          *)
ResetKeepsTail ==
  /\ sampler_ring' = [slot \in Slot |-> IF sampling_active' /\ slot = 0
                                        THEN Partial ELSE Empty]
  /\ sampler_ring_head' = 0
  /\ UNCHANGED sampler_ring_tail
  /\ sampler_ring_count' = 0
  /\ sampler_overflow_active' = FALSE
  /\ sampler_stream_source' = Unknown

(* reset_sampler_state.  The next lane goes to the first slot.             *)
Reset ==
  /\ sampler_ring' = [slot \in Slot |-> IF sampling_active' /\ slot = 0
                                        THEN Partial ELSE Empty]
  /\ sampler_ring_head' = 0
  /\ sampler_ring_tail' = 0
  /\ sampler_ring_count' = 0
  /\ sampler_overflow_active' = FALSE
  /\ sampler_stream_source' = Unknown

(* sampler_start_impl up to timer_start.  No interrupt runs before.        *)
Start ==
  /\ command = Ready
  /\ CommandRuns
  /\ ~sampling_active
  /\ Hasty \/ streamer = NoTask
  /\ \E from \in Transport :
       /\ sampling_active' = TRUE
       /\ command' = [pc |-> "task", from |-> from]
       /\ starter' = from
  /\ Reset
  /\ s_buffer_type' = "DOUBLE"
  /\ captured' = 0
  /\ sent' = NothingSent
  /\ UNCHANGED <<isr, streamer, notified>>

(* timer_isr_register fails: START is answered with an error.              *)
StartWithoutInterrupt ==
  /\ "isr" \in Failures
  /\ command = Ready
  /\ CommandRuns
  /\ ~sampling_active
  /\ UNCHANGED sampling_active
  /\ Reset
  /\ s_buffer_type' = "DOUBLE"
  /\ UNCHANGED <<isr, streamer, notified, command, starter, captured, sent>>

(* A streaming task is created only when there is none.                    *)
EnsureTask ==
  /\ command.pc = "task"
  /\ CommandRuns
  /\ command' = [pc |-> "source", from |-> command.from]
  /\ streamer' = IF streamer = NoTask THEN [pc |-> "poll"] ELSE streamer
  /\ UNCHANGED <<ring, sampling_active, sampler_stream_source, s_buffer_type,
                 isr, notified, starter, captured, sent>>

(* Mutants: a failed START leaves sampling active, or responses held back. *)
FailWithoutCleanup ==
  /\ "task" \in Failures
  /\ command.pc = "task"
  /\ CommandRuns
  /\ streamer = NoTask
  /\ command' = Ready
  /\ UNCHANGED <<ring, sampling_active, sampler_stream_source, s_buffer_type,
                 isr, streamer, notified, starter, captured, sent>>

FailWithoutPacketMode ==
  /\ "task" \in Failures
  /\ command.pc = "task"
  /\ CommandRuns
  /\ streamer = NoTask
  /\ sampling_active' = FALSE
  /\ command' = Ready
  /\ UNCHANGED <<ring, sampler_stream_source, s_buffer_type, isr, streamer,
                 notified, starter, captured, sent>>

(* xTaskCreate fails: the interrupt is freed and START fails.              *)
StartWithoutTask ==
  /\ "task" \in Failures
  /\ command.pc = "task"
  /\ CommandRuns
  /\ streamer = NoTask
  /\ sampling_active' = FALSE
  /\ s_buffer_type' = "PACKET"
  /\ command' = Ready
  /\ UNCHANGED <<ring, sampler_stream_source, isr, streamer, notified,
                 starter, captured, sent>>

(* handle_sample_opcode, when the start has succeeded.                     *)
SetStreamSource ==
  /\ command.pc = "source"
  /\ CommandRuns
  /\ sampler_stream_source' = command.from
  /\ command' = Ready
  /\ UNCHANGED <<ring, sampling_active, s_buffer_type, isr, streamer, notified,
                 starter, captured, sent>>

(* sampler_stop_impl up to reset_sampler_state.                            *)
Stop ==
  /\ command = Ready
  /\ CommandRuns
  /\ sampling_active
  /\ sampling_active' = FALSE
  /\ s_buffer_type' = "PACKET"
  /\ Reset
  /\ command' = [pc |-> "notify"]
  /\ UNCHANGED <<isr, streamer, notified, starter, captured, sent>>

(* xTaskNotify, if there is a task to notify.  The source that STOP clears *)
(* afterwards is clear already.                                            *)
Notify ==
  /\ command.pc = "notify"
  /\ CommandRuns
  /\ notified' = (streamer # NoTask)
  /\ command' = Ready
  /\ UNCHANGED <<ring, sampling_active, sampler_stream_source, s_buffer_type,
                 isr, streamer, starter, captured, sent>>

CommandTask ==
  \/ Start
  \/ StartWithoutInterrupt
  \/ EnsureTask
  \/ StartWithoutTask
  \/ SetStreamSource
  \/ Stop
  \/ Notify

-----------------------------------------------------------------------------
(* sampling_isr, at the sample that completes a lane.                      *)

(* The lane goes on the ring if there is room.  A slot that becomes the    *)
(* destination is overwritten from now on.                                 *)
CompleteLane ==
  /\ sampling_active
  /\ isr = IsrIdle
  /\ InterruptRuns
  /\ captured < MaxLane
  /\ captured' = captured + 1
  /\ \/ /\ sampler_overflow_active
        /\ sampler_overflow_active' = (sampler_ring_count >= Lanes)
        /\ sampler_ring' = IF sampler_ring_count < Lanes
                           THEN [sampler_ring EXCEPT ![sampler_ring_head] = Partial]
                           ELSE sampler_ring
        /\ UNCHANGED isr
     \/ /\ ~sampler_overflow_active
        /\ sampler_ring' = [sampler_ring EXCEPT ![sampler_ring_head] = captured']
        /\ IF sampler_ring_count >= Lanes
           THEN sampler_overflow_active' = TRUE /\ UNCHANGED isr
           ELSE /\ isr' = [pc |-> "push", count |-> sampler_ring_count]
                /\ UNCHANGED sampler_overflow_active
  /\ UNCHANGED <<sampler_ring_head, sampler_ring_tail, sampler_ring_count,
                 sampling_active, sampler_stream_source, s_buffer_type,
                 streamer, notified, command, starter, sent>>

(* The count is written back one more than it was read.                    *)
PushLane ==
  /\ isr.pc = "push"
  /\ sampler_ring_count' = isr.count + 1
  /\ sampler_ring_head' = Next1(sampler_ring_head)
  /\ isr' = [pc |-> "full"]
  /\ UNCHANGED <<sampler_ring, sampler_ring_tail, sampler_overflow_active,
                 sampling_active, sampler_stream_source, s_buffer_type,
                 streamer, notified, command, starter, captured, sent>>

(* Mutant: the ring is taken for full one lane too late.                   *)
CheckFullLate ==
  /\ isr.pc = "full"
  /\ isr' = IsrIdle
  /\ IF sampler_ring_count > Lanes
     THEN sampler_overflow_active' = TRUE /\ UNCHANGED sampler_ring
     ELSE /\ sampler_ring' = [sampler_ring EXCEPT ![sampler_ring_head] = Partial]
          /\ UNCHANGED sampler_overflow_active
  /\ UNCHANGED <<sampler_ring_head, sampler_ring_tail, sampler_ring_count,
                 sampling_active, sampler_stream_source, s_buffer_type,
                 streamer, notified, command, starter, captured, sent>>

CheckFull ==
  /\ isr.pc = "full"
  /\ isr' = IsrIdle
  /\ IF sampler_ring_count >= Lanes
     THEN sampler_overflow_active' = TRUE /\ UNCHANGED sampler_ring
     ELSE /\ sampler_ring' = [sampler_ring EXCEPT ![sampler_ring_head] = Partial]
          /\ UNCHANGED sampler_overflow_active
  /\ UNCHANGED <<sampler_ring_head, sampler_ring_tail, sampler_ring_count,
                 sampling_active, sampler_stream_source, s_buffer_type,
                 streamer, notified, command, starter, captured, sent>>

Interrupt == CompleteLane \/ PushLane \/ CheckFull

-----------------------------------------------------------------------------
(* sampler_task.                                                           *)

(* The stop notification ends the loop.                                    *)
NoticeStop ==
  /\ streamer.pc = "poll"
  /\ StreamerRuns
  /\ notified
  /\ notified' = FALSE
  /\ streamer' = [pc |-> "exit"]
  /\ UNCHANGED <<ring, sampling_active, sampler_stream_source, s_buffer_type,
                 isr, command, starter, captured, sent>>

Exit ==
  /\ streamer.pc = "exit"
  /\ StreamerRuns
  /\ streamer' = NoTask
  /\ notified' = FALSE
  /\ UNCHANGED <<ring, sampling_active, sampler_stream_source, s_buffer_type,
                 isr, command, starter, captured, sent>>

(* Mutant: the last lane waits for another.                                *)
PeekLeavesOne ==
  /\ streamer.pc = "poll"
  /\ StreamerRuns
  /\ ~notified
  /\ sampling_active
  /\ sampler_ring_count > 1
  /\ streamer' = [pc |-> "source", lane |-> sampler_ring_tail]
  /\ UNCHANGED <<ring, sampling_active, sampler_stream_source, s_buffer_type,
                 isr, notified, command, starter, captured, sent>>

Peek ==
  /\ streamer.pc = "poll"
  /\ StreamerRuns
  /\ ~notified
  /\ sampling_active
  /\ sampler_ring_count > 0
  /\ streamer' = [pc |-> "source", lane |-> sampler_ring_tail]
  /\ UNCHANGED <<ring, sampling_active, sampler_stream_source, s_buffer_type,
                 isr, notified, command, starter, captured, sent>>

(* Everything that is not for Wi-Fi goes to USB.                           *)
ReadSource ==
  /\ streamer.pc = "source"
  /\ StreamerRuns
  /\ streamer' = [pc |-> "send", lane |-> streamer.lane,
                  via |-> IF sampler_stream_source = wifi THEN wifi ELSE usb]
  /\ UNCHANGED <<ring, sampling_active, sampler_stream_source, s_buffer_type,
                 isr, notified, command, starter, captured, sent>>

(* The lane is copied into a frame, without the lock, and sent ...         *)
Send ==
  /\ streamer.pc = "send"
  /\ StreamerRuns
  /\ sent' = [lane |-> sampler_ring[streamer.lane], via |-> streamer.via]
  /\ streamer' = [pc |-> "pop"]
  /\ UNCHANGED <<ring, sampling_active, sampler_stream_source, s_buffer_type,
                 isr, notified, command, starter, captured>>

(* Mutant: a lane that could not be sent is removed all the same.          *)
FailAndPop ==
  /\ streamer.pc = "send"
  /\ StreamerRuns
  /\ streamer' = [pc |-> "pop"]
  /\ UNCHANGED <<ring, sampling_active, sampler_stream_source, s_buffer_type,
                 isr, notified, command, starter, captured, sent>>

(* ... or the transport is busy or gone, and the lane is tried again.      *)
FailToSend ==
  /\ streamer.pc = "send"
  /\ StreamerRuns
  /\ streamer' = [pc |-> "poll"]
  /\ UNCHANGED <<ring, sampling_active, sampler_stream_source, s_buffer_type,
                 isr, notified, command, starter, captured, sent>>

(* The lane is removed unless the ring has been reset.                     *)
Pop ==
  /\ streamer.pc = "pop"
  /\ StreamerRuns
  /\ IF sampler_ring_count > 0
     THEN /\ sampler_ring_tail' = Next1(sampler_ring_tail)
          /\ streamer' = [pc |-> "decrement", count |-> sampler_ring_count]
     ELSE /\ streamer' = [pc |-> "poll"]
          /\ UNCHANGED sampler_ring_tail
  /\ UNCHANGED <<sampler_ring, sampler_ring_head, sampler_ring_count,
                 sampler_overflow_active, sampling_active,
                 sampler_stream_source, s_buffer_type, isr, notified, command,
                 starter, captured, sent>>

Decrement ==
  /\ streamer.pc = "decrement"
  /\ StreamerRuns
  /\ sampler_ring_count' = streamer.count - 1
  /\ streamer' = [pc |-> "poll"]
  /\ UNCHANGED <<sampler_ring, sampler_ring_head, sampler_ring_tail,
                 sampler_overflow_active, sampling_active,
                 sampler_stream_source, s_buffer_type, isr, notified, command,
                 starter, captured, sent>>

SamplerTask ==
  \/ NoticeStop
  \/ Exit
  \/ Peek
  \/ ReadSource
  \/ Send
  \/ FailToSend
  \/ Pop
  \/ Decrement

Next == CommandTask \/ Interrupt \/ SamplerTask

Spec == Init /\ [][Next]_vars

(* The tasks and the interrupt run, a command once begun is finished, and  *)
(* a transport that is tried again and again accepts a lane in the end.    *)
Fairness ==
  /\ WF_vars(EnsureTask \/ SetStreamSource \/ Notify)
  /\ WF_vars(PushLane \/ CheckFull)
  /\ WF_vars(NoticeStop \/ Exit \/ Peek \/ ReadSource \/ Pop \/ Decrement)
  /\ SF_vars(Send)

FairSpec == Spec /\ Fairness

-----------------------------------------------------------------------------
(* The queue of lanes that the host sees: a lane leaves it when it is      *)
(* sent, before it is popped, and joins it when the count is written.      *)
Oldest ==
  IF streamer.pc = "pop" THEN Next1(sampler_ring_tail) ELSE sampler_ring_tail

UnsentCount ==
  IF ~sampling_active THEN 0
  ELSE IF streamer.pc \in {"pop", "decrement"} THEN sampler_ring_count - 1
  ELSE sampler_ring_count

(* The i-th slot, counted from another one.                                *)
SlotFrom(first, i) ==
  LET at == first + i - 1 IN IF at < Lanes THEN at ELSE at - Lanes

Unsent == [i \in 1 .. UnsentCount |-> sampler_ring[SlotFrom(Oldest, i)]]

Queue == INSTANCE LaneQueue
           WITH Capacity <- Lanes,
                open     <- sampling_active,
                queue    <- Unsent,
                captured <- IF isr.pc = "push" THEN captured - 1 ELSE captured,
                overrun  <- sampling_active /\ sampler_overflow_active,
                last     <- sent.lane

(* On one core, and if the host waits for the streaming task to be gone    *)
(* before it starts again, the ring, the interrupt and the task that works *)
(* outside the lock are together a queue.                                  *)
QueueSpec == Queue!Spec

-----------------------------------------------------------------------------
(* Properties.                                                             *)

(* Head, tail and count, written by different contexts, agree whenever     *)
(* nobody is in the middle of a change: an update of one of them is never  *)
(* lost.                                                                   *)
RingConsistent ==
  isr = IsrIdle /\ ~Locked =>
    LET sum == sampler_ring_tail + sampler_ring_count
    IN  sampler_ring_head = IF sum < Lanes THEN sum ELSE sum - Lanes

(* A lane that has not been sent is not overwritten while sampling goes    *)
(* on: section 6.8 of stm/README.md, whose contract the ESP32 firmware     *)
(* follows, "to avoid overwriting unsent data".                            *)
UnsentLanesAreKept ==
  [][sampling_active /\ sampling_active' =>
       \A slot \in Slot :
         sampler_ring[slot] \in Lane /\ sampler_ring[slot] > sent.lane
           => sampler_ring'[slot] = sampler_ring[slot]]_vars

(* When START has been answered, there is a task that streams, and it is   *)
(* not about to end.                                                       *)
SamplingIsServed ==
  sampling_active /\ command = Ready =>
    streamer.pc \notin {"none", "exit"} /\ ~notified

(* The lanes go to the transport that started sampling: README.md of esp,  *)
(* "Sampler streams now route to the transport that started sampling".     *)
LanesGoToTheStarter ==
  [][sent' # sent /\ sent'.lane \in Lane => sent'.via = starter]_vars

(* Responses are held back for the next stream frame only while there are  *)
(* such frames: README.md of esp, "command-lane piggyback during active    *)
(* streaming".                                                             *)
HeldBackOnlyWhileStreaming ==
  s_buffer_type = "DOUBLE" => sampling_active

(* Every lane on the ring is sent, unless sampling is stopped first.       *)
EveryLaneIsSent ==
  \A n \in Lane :
    (\E slot \in Slot : sampler_ring[slot] = n)
      ~> (sent.lane >= n \/ ~sampling_active)
=============================================================================
