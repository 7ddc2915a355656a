----------------------------- MODULE SamplerProofs -----------------------------
(* Proofs about the sampler, for any number of lanes and any transports.   *)
EXTENDS Sampler, SequenceTheorems, TLAPS

-----------------------------------------------------------------------------
(* Slots and the values kept in them.                                      *)

(* The next slot is a slot.                                                *)
LEMMA NextSlot ==
  ASSUME NEW slot \in Slot PROVE Next1(slot) \in Slot
BY LanesAssumption DEF Slot, Next1

(* What each step does to the type of the variables.                       *)
LEMMA InitType == Init => TypeOK
<1> SUFFICES ASSUME Init PROVE TypeOK
  OBVIOUS
<1> USE LanesAssumption DEF Init
<1>1. sampler_ring \in [Slot -> Content] /\ 0 \in Slot
  BY DEF Content, Slot
<1>2. sent \in [lane : Content, via : {usb, wifi, Unknown}]
  BY DEF NothingSent, Content, Empty
<1>3. 0 \in 0 .. Lanes /\ 0 \in 0 .. MaxLane
  OBVIOUS
<1>4. isr = [pc |-> "idle"] /\ streamer = [pc |-> "none"] /\ command = Ready
  BY DEF NoTask, IsrIdle
<1> HIDE DEF Init
<1> QED
  BY <1>1, <1>2, <1>3, <1>4 DEF TypeOK, NoTask, IsrIdle, Init

(* The ring after a reset.                                                 *)
LEMMA ResetType ==
  ASSUME Reset
  PROVE  /\ sampler_ring' \in [Slot -> Content]
         /\ sampler_ring_head' \in Slot
         /\ sampler_ring_tail' \in Slot
         /\ sampler_ring_count' \in 0 .. Lanes
         /\ sampler_overflow_active' \in BOOLEAN
         /\ sampler_stream_source' \in Transport \cup {Unknown}
<1>1. 0 \in Slot
  BY LanesAssumption DEF Slot
<1>2. \A slot \in Slot :
        (IF sampling_active' /\ slot = 0 THEN Partial ELSE Empty) \in Content
  BY DEF Content
<1>3. sampler_ring' \in [Slot -> Content]
  BY <1>2 DEF Reset
<1>4. 0 \in 0 .. Lanes
  BY LanesAssumption
<1>5. sampler_overflow_active' \in BOOLEAN
  BY DEF Reset
<1> QED
  BY <1>1, <1>3, <1>4, <1>5 DEF Reset

(* The ring after the interrupt has written a slot.                        *)
LEMMA WriteType ==
  ASSUME TypeOK, NEW lane \in Content
  PROVE  [sampler_ring EXCEPT ![sampler_ring_head] = lane] \in [Slot -> Content]
BY DEF TypeOK

LEMMA StepType == TypeOK /\ [Next]_vars => TypeOK'
<1> SUFFICES ASSUME TypeOK, [Next]_vars PROVE TypeOK'
  OBVIOUS
<1> USE LanesAssumption DEF TypeOK, ring, NoTask, Ready, IsrIdle
<1>1. CASE Start
  <2>1. sent' \in [lane : Content, via : {usb, wifi, Unknown}]
    BY <1>1 DEF Start, NothingSent, Content, Empty
  <2> QED
    BY <1>1, <2>1, ResetType DEF Start
<1>2. CASE StartWithoutInterrupt
  BY <1>2, ResetType DEF StartWithoutInterrupt
<1>3. CASE EnsureTask
  BY <1>3 DEF EnsureTask, NoTask
<1>4. CASE StartWithoutTask
  BY <1>4 DEF StartWithoutTask, Ready
<1>5. CASE SetStreamSource
  BY <1>5 DEF SetStreamSource, Ready
<1>6. CASE Stop
  BY <1>6, ResetType DEF Stop
<1>7. CASE Notify
  BY <1>7 DEF Notify, Ready
<1>8. CASE CompleteLane
  <2>1. captured' \in Lane /\ Partial \in Content /\ captured' \in Content
    BY <1>8 DEF CompleteLane, Lane, Content
  <2>2. sampler_ring' \in [Slot -> Content]
    BY <1>8, <2>1, WriteType DEF CompleteLane
  <2>3. \/ isr' = isr
        \/ /\ sampler_ring_count < Lanes
           /\ isr' = [pc |-> "push", count |-> sampler_ring_count]
    BY <1>8 DEF CompleteLane
  <2>4. isr' \in {IsrIdle, [pc |-> "full"]}
                   \cup [pc : {"push"}, count : 0 .. Lanes - 1]
    BY <2>3
  <2>5. sampler_overflow_active' \in BOOLEAN
    <3>1. \/ sampler_overflow_active' = (sampler_ring_count >= Lanes)
          \/ sampler_overflow_active' = TRUE
          \/ sampler_overflow_active' = sampler_overflow_active
      BY <1>8, Zenon DEF CompleteLane
    <3>2. (sampler_ring_count >= Lanes) \in BOOLEAN
      OBVIOUS
    <3> QED
      BY <3>1, <3>2
  <2> QED
    BY <1>8, <2>1, <2>2, <2>4, <2>5 DEF CompleteLane, Lane
<1>9. CASE PushLane
  BY <1>9, NextSlot DEF PushLane, IsrIdle
<1>10. CASE CheckFull
  <2>1. sampler_ring' \in [Slot -> Content]
    BY <1>10, WriteType DEF CheckFull, Content
  <2>2. sampler_overflow_active' \in BOOLEAN
    BY <1>10 DEF CheckFull
  <2> QED
    BY <1>10, <2>1, <2>2 DEF CheckFull
<1>11. CASE NoticeStop
  BY <1>11 DEF NoticeStop
<1>12. CASE Exit
  BY <1>12 DEF Exit, NoTask
<1>13. CASE Peek
  BY <1>13 DEF Peek
<1>14. CASE ReadSource
  BY <1>14 DEF ReadSource
<1>15. CASE Send
  BY <1>15 DEF Send
<1>16. CASE FailToSend
  BY <1>16 DEF FailToSend
<1>17. CASE Pop
  BY <1>17, NextSlot DEF Pop
<1>18. CASE Decrement
  BY <1>18 DEF Decrement
<1>19. CASE UNCHANGED vars
  BY <1>19 DEF vars
<1> QED
  BY <1>1, <1>2, <1>3, <1>4, <1>5, <1>6, <1>7, <1>8, <1>9, <1>10, <1>11, <1>12, <1>13, <1>14, <1>15, <1>16, <1>17, <1>18, <1>19
     DEF Next, CommandTask, Interrupt, SamplerTask

(* Every variable keeps its type, on one core or two, however hastily the  *)
(* host starts again and whichever step of a start fails.                  *)
THEOREM TypeCorrect == Spec => []TypeOK
BY InitType, StepType, PTL DEF Spec

-----------------------------------------------------------------------------
(* The inductive invariant of the ring where the interrupt and the task    *)
(* share a core and a session starts only when no streaming task is left.  *)

(* How many slots after the oldest lane a slot comes.                      *)
Distance(slot) ==
  IF slot >= sampler_ring_tail THEN slot - sampler_ring_tail
  ELSE slot - sampler_ring_tail + Lanes

(* The number of lanes waiting, also while the task is removing one.       *)
Waiting == IF Locked THEN sampler_ring_count - 1 ELSE sampler_ring_count

(* The interrupt and the task do not overlap in their critical parts.      *)
OneAtATime ==
  /\ isr # IsrIdle => ~Locked
  /\ isr # IsrIdle => sampling_active
  /\ isr.pc = "push" => isr.count = sampler_ring_count
  /\ Locked => streamer.count = sampler_ring_count

HeadFollows ==
  sampler_ring_head =
    LET sum == sampler_ring_tail + Waiting
    IN  IF sum < Lanes THEN sum ELSE sum - Lanes

(* While lanes are kept there is room for the one being completed.         *)
RoomAtHead ==
  ~sampler_overflow_active /\ isr.pc # "full" => sampler_ring_count < Lanes

(* The task holds on to the oldest lane until it removes it.               *)
TaskHoldsTail ==
  sampling_active =>
    /\ streamer.pc \in {"source", "send"} =>
         streamer.lane = sampler_ring_tail /\ sampler_ring_count > 0
    /\ streamer.pc = "pop" =>
         sampler_ring_count > 0 /\ sent.lane = sampler_ring[sampler_ring_tail]

(* No streaming task outlives the session it was created for.              *)
TaskOfSession ==
  /\ ~sampling_active => command.pc \notin {"task", "source"}
  /\ sampling_active => (command.pc = "task" <=> streamer = NoTask)
  /\ sampling_active => command.pc # "notify" /\ ~notified
                        /\ streamer.pc # "exit"
  /\ streamer = NoTask => ~notified

(* The lanes completed and counted.                                        *)
Counted == IF isr.pc = "push" THEN captured - 1 ELSE captured

(* The lanes that wait were completed in order and are unsent, but for the *)
(* one being removed.                                                      *)
WaitingInOrder ==
  sampling_active =>
    \A slot \in Slot : Distance(slot) < Waiting =>
      /\ sampler_ring[slot] \in 1 .. Counted
      /\ \/ sampler_ring[slot] > sent.lane
         \/ streamer.pc = "pop" /\ slot = sampler_ring_tail
      /\ \A other \in Slot :
           Distance(other) < Distance(slot)
             => sampler_ring[other] < sampler_ring[slot]

(* Every other slot holds nothing that is still to be sent.                *)
FreeSlotsSent ==
  sampling_active =>
    \A slot \in Slot : Distance(slot) >= Waiting =>
      \/ sampler_ring[slot] <= sent.lane
      \/ sampler_ring[slot] \notin Lane
      \/ isr.pc = "push" /\ slot = sampler_ring_head

PushedLane ==
  isr.pc = "push" => sampler_ring[sampler_ring_head] = captured

SentBefore == sampling_active => 0 <= sent.lane /\ sent.lane <= Counted

IInv ==
  /\ TypeOK
  /\ OneAtATime
  /\ HeadFollows
  /\ RoomAtHead
  /\ TaskHoldsTail
  /\ TaskOfSession
  /\ WaitingInOrder
  /\ FreeSlotsSent
  /\ PushedLane
  /\ SentBefore

(* The part of the invariant that needs no assumption on the host.         *)
RingInv == TypeOK /\ OneAtATime /\ HeadFollows /\ RoomAtHead

-----------------------------------------------------------------------------
(* Head, tail and count.                                                   *)

LEMMA InitRing == Init => RingInv
<1> SUFFICES ASSUME Init PROVE RingInv
  OBVIOUS
<1>1. isr.pc = "idle" /\ ~Locked /\ isr = IsrIdle
  BY DEF Init, IsrIdle, NoTask, Locked
<1>2. OneAtATime /\ HeadFollows /\ RoomAtHead
  BY <1>1, LanesAssumption
  DEF Init, OneAtATime, HeadFollows, RoomAtHead, Waiting
<1> QED
  BY <1>2, InitType DEF RingInv

LEMMA RingStep ==
  ASSUME ~Parallel, RingInv, [Next]_vars PROVE RingInv'
<1> USE LanesAssumption DEF RingInv, OneAtATime, HeadFollows, RoomAtHead, Waiting, Locked, Slot, ring, IsrIdle, NoTask
<1>1. TypeOK'
  BY StepType
<1>2. CASE Start
  BY <1>2, <1>1 DEF Start, TypeOK, Reset, CommandRuns
<1>3. CASE StartWithoutInterrupt
  BY <1>3, <1>1 DEF StartWithoutInterrupt, TypeOK, Reset, CommandRuns
<1>4. CASE EnsureTask
  BY <1>4, <1>1 DEF EnsureTask, TypeOK, CommandRuns
<1>5. CASE StartWithoutTask
  BY <1>5, <1>1 DEF StartWithoutTask, TypeOK, CommandRuns
<1>6. CASE SetStreamSource
  BY <1>6, <1>1 DEF SetStreamSource, TypeOK, CommandRuns
<1>7. CASE Stop
  BY <1>7, <1>1 DEF Stop, TypeOK, Reset, CommandRuns
<1>8. CASE Notify
  BY <1>8, <1>1 DEF Notify, TypeOK, CommandRuns
<1>9. CASE CompleteLane
  BY <1>9, <1>1 DEF CompleteLane, TypeOK, InterruptRuns
<1>10. CASE PushLane
  BY <1>10, <1>1 DEF PushLane, TypeOK, Next1
<1>11. CASE CheckFull
  BY <1>11, <1>1 DEF CheckFull, TypeOK
<1>12. CASE NoticeStop
  BY <1>12, <1>1 DEF NoticeStop, TypeOK, StreamerRuns
<1>13. CASE Exit
  BY <1>13, <1>1 DEF Exit, TypeOK, StreamerRuns
<1>14. CASE Peek
  BY <1>14, <1>1 DEF Peek, TypeOK, StreamerRuns
<1>15. CASE ReadSource
  BY <1>15, <1>1 DEF ReadSource, TypeOK, StreamerRuns
<1>16. CASE Send
  BY <1>16, <1>1 DEF Send, TypeOK, StreamerRuns
<1>17. CASE FailToSend
  BY <1>17, <1>1 DEF FailToSend, TypeOK, StreamerRuns
<1>18. CASE Pop
  <2>1. isr.pc = "idle" /\ isr = IsrIdle /\ isr' = isr
    BY <1>18 DEF Pop, StreamerRuns
  <2>2. CASE sampler_ring_count > 0
    <3>1. /\ sampler_ring_tail' = Next1(sampler_ring_tail)
          /\ streamer' = [pc |-> "decrement", count |-> sampler_ring_count]
          /\ UNCHANGED <<sampler_ring_head, sampler_ring_count,
                         sampler_overflow_active>>
          /\ ~Locked
      BY <1>18, <2>2 DEF Pop
    <3>2. OneAtATime'
      BY <2>1, <3>1
    <3>3. HeadFollows'
      BY <2>2, <3>1 DEF TypeOK, Next1
    <3>4. RoomAtHead'
      BY <2>1, <3>1
    <3> QED
      BY <1>1, <3>2, <3>3, <3>4
  <2>3. CASE ~(sampler_ring_count > 0)
    BY <1>18, <1>1, <2>1, <2>3 DEF Pop
  <2> QED
    BY <2>2, <2>3
<1>19. CASE Decrement
  BY <1>19, <1>1 DEF Decrement, TypeOK, StreamerRuns
<1>20. CASE UNCHANGED vars
  BY <1>20, <1>1 DEF vars
<1> QED
  BY <1>2, <1>3, <1>4, <1>5, <1>6, <1>7, <1>8, <1>9, <1>10, <1>11, <1>12, <1>13, <1>14, <1>15, <1>16, <1>17, <1>18, <1>19, <1>20
     DEF Next, CommandTask, Interrupt, SamplerTask

-----------------------------------------------------------------------------
(* Distances from the oldest lane.                                         *)

LEMMA DistanceType ==
  ASSUME TypeOK, NEW slot \in Slot
  PROVE  /\ Distance(slot) \in 0 .. Lanes - 1
         /\ \A other \in Slot : Distance(other) = Distance(slot) => other = slot
         /\ Distance(slot) = 0 <=> slot = sampler_ring_tail
BY LanesAssumption DEF TypeOK, Slot, Distance

(* The slot the interrupt writes is the first free one.                    *)
LEMMA HeadIsFree ==
  ASSUME TypeOK, HeadFollows, ~Locked, sampler_ring_count < Lanes
  PROVE  Distance(sampler_ring_head) = Waiting
BY LanesAssumption DEF TypeOK, Slot, Distance, HeadFollows, Waiting

(* The interrupt writes a slot only when it is free.                       *)
LEMMA WritesFreeSlot ==
  ASSUME ~Parallel, IInv, Interrupt
  PROVE  \A slot \in Slot :
           Distance(slot) < Waiting => sampler_ring'[slot] = sampler_ring[slot]
<1> USE LanesAssumption DEF IInv, OneAtATime
<1> SUFFICES ASSUME NEW slot \in Slot, Distance(slot) < Waiting
             PROVE  sampler_ring'[slot] = sampler_ring[slot]
  OBVIOUS
<1>1. sampler_ring \in [Slot -> Content] /\ sampler_ring_head \in Slot
  BY DEF TypeOK
<1>2. CASE CompleteLane
  <2>1. ~Locked /\ isr.pc # "full" /\ isr = IsrIdle
    BY <1>2 DEF CompleteLane, InterruptRuns, IsrIdle
  <2>2. CASE sampler_ring_count < Lanes
    <3>1. slot # sampler_ring_head
      BY <2>1, <2>2, <1>1, HeadIsFree, DistanceType DEF TypeOK, Waiting
    <3> QED
      BY <3>1, <1>1, <1>2 DEF CompleteLane
  <2>3. CASE ~(sampler_ring_count < Lanes)
    BY <2>1, <2>3, <1>2 DEF CompleteLane, RoomAtHead
  <2> QED
    BY <2>2, <2>3
<1>3. CASE PushLane
  BY <1>3 DEF PushLane
<1>4. CASE CheckFull
  <2>1. ~Locked
    BY <1>4 DEF CheckFull, IsrIdle
  <2>2. CASE sampler_ring_count >= Lanes
    BY <1>4, <2>2 DEF CheckFull
  <2>3. CASE ~(sampler_ring_count >= Lanes)
    <3>1. slot # sampler_ring_head
      BY <2>1, <2>3, <1>1, HeadIsFree, DistanceType DEF TypeOK, Waiting
    <3> QED
      BY <3>1, <1>1, <1>4, <2>3 DEF CheckFull
  <2> QED
    BY <2>2, <2>3
<1> QED
  BY <1>2, <1>3, <1>4 DEF Interrupt

-----------------------------------------------------------------------------
(* The task and the session.                                               *)

(* Which sessions have a task does not depend on the ring, nor on the      *)
(* cores that the interrupt and the task run on.                           *)
LEMMA SessionStep ==
  ASSUME ~Hasty, TypeOK, TaskOfSession, [Next]_vars
  PROVE  TaskOfSession'
<1> USE DEF TaskOfSession, NoTask, Ready
<1>1. CASE Start
  <2>1. /\ sampling_active' /\ streamer' = streamer /\ streamer = [pc |-> "none"]
        /\ command'.pc = "task"
        /\ ~sampling_active /\ notified' = notified
    BY <1>1 DEF Start
  <2>2. ~notified
    BY <2>1
  <2> QED
    BY <2>1, <2>2
<1>2. CASE StartWithoutInterrupt
  BY <1>2 DEF StartWithoutInterrupt
<1>3. CASE EnsureTask
  BY <1>3 DEF EnsureTask, TypeOK
<1>4. CASE StartWithoutTask
  BY <1>4 DEF StartWithoutTask, TypeOK
<1>5. CASE SetStreamSource
  BY <1>5 DEF SetStreamSource, TypeOK
<1>6. CASE Stop
  BY <1>6 DEF Stop
<1>7. CASE Notify
  BY <1>7 DEF Notify, TypeOK
<1>8. CASE Interrupt
  BY <1>8 DEF Interrupt, CompleteLane, PushLane, CheckFull
<1>9. CASE NoticeStop \/ Exit
  BY <1>9 DEF NoticeStop, Exit
<1>10. CASE Peek \/ ReadSource \/ Send \/ FailToSend
  BY <1>10 DEF Peek, ReadSource, Send, FailToSend
<1>11. CASE Pop \/ Decrement
  BY <1>11 DEF Pop, Decrement
<1>12. CASE UNCHANGED vars
  BY <1>12 DEF vars
<1> QED
  BY <1>1, <1>2, <1>3, <1>4, <1>5, <1>6, <1>7, <1>8, <1>9, <1>10, <1>11, <1>12
     DEF Next, CommandTask, SamplerTask

LEMMA TaskStep ==
  ASSUME ~Parallel, ~Hasty, IInv, [Next]_vars
  PROVE  TaskHoldsTail'
<1> USE LanesAssumption DEF IInv, OneAtATime, TaskOfSession, TaskHoldsTail, Locked, ring, IsrIdle, NoTask, Ready
<1>1. CASE Start
  <2>1. /\ sampling_active' /\ streamer' = streamer /\ streamer = [pc |-> "none"]
        /\ command'.pc = "task"
        /\ ~sampling_active /\ notified' = notified
    BY <1>1 DEF Start
  <2>2. ~notified
    BY <2>1
  <2> QED
    BY <2>1, <2>2
<1>2. CASE StartWithoutInterrupt
  BY <1>2 DEF StartWithoutInterrupt, TypeOK, Reset, CommandRuns
<1>3. CASE EnsureTask
  BY <1>3 DEF EnsureTask, TypeOK, CommandRuns
<1>4. CASE StartWithoutTask
  BY <1>4 DEF StartWithoutTask, TypeOK, CommandRuns
<1>5. CASE SetStreamSource
  BY <1>5 DEF SetStreamSource, TypeOK, CommandRuns
<1>6. CASE Stop
  BY <1>6 DEF Stop, TypeOK, Reset, CommandRuns
<1>7. CASE Notify
  BY <1>7 DEF Notify, TypeOK, CommandRuns
<1>8. CASE CompleteLane
  <2>1. /\ UNCHANGED <<sampling_active, streamer, notified, command, sent,
                       sampler_ring_tail, sampler_ring_count>>
        /\ ~Locked /\ sampler_ring_tail \in Slot
    BY <1>8 DEF CompleteLane, InterruptRuns, TypeOK
  <2>2. streamer.pc = "pop" /\ sampling_active
          => sampler_ring'[sampler_ring_tail] = sampler_ring[sampler_ring_tail]
    BY <1>8, <2>1, WritesFreeSlot, DistanceType DEF Interrupt, TypeOK, Waiting
  <2> QED
    BY <2>1, <2>2
<1>9. CASE PushLane
  BY <1>9 DEF PushLane, TypeOK, Next1
<1>10. CASE CheckFull
  <2>1. /\ UNCHANGED <<sampling_active, streamer, notified, command, sent,
                       sampler_ring_tail, sampler_ring_count>>
        /\ ~Locked /\ sampler_ring_tail \in Slot
    BY <1>10 DEF CheckFull, InterruptRuns, TypeOK
  <2>2. streamer.pc = "pop" /\ sampling_active
          => sampler_ring'[sampler_ring_tail] = sampler_ring[sampler_ring_tail]
    BY <1>10, <2>1, WritesFreeSlot, DistanceType DEF Interrupt, TypeOK, Waiting
  <2> QED
    BY <2>1, <2>2
<1>11. CASE NoticeStop
  BY <1>11 DEF NoticeStop, TypeOK, StreamerRuns
<1>12. CASE Exit
  BY <1>12 DEF Exit, TypeOK, StreamerRuns
<1>13. CASE Peek
  BY <1>13 DEF Peek, TypeOK, StreamerRuns
<1>14. CASE ReadSource
  BY <1>14 DEF ReadSource, TypeOK, StreamerRuns
<1>15. CASE Send
  BY <1>15 DEF Send, TypeOK, StreamerRuns
<1>16. CASE FailToSend
  BY <1>16 DEF FailToSend, TypeOK, StreamerRuns
<1>17. CASE Pop
  BY <1>17 DEF Pop, TypeOK, Next1, StreamerRuns
<1>18. CASE Decrement
  BY <1>18 DEF Decrement, TypeOK, StreamerRuns
<1>19. CASE UNCHANGED vars
  BY <1>19 DEF vars
<1> QED
  BY <1>1, <1>2, <1>3, <1>4, <1>5, <1>6, <1>7, <1>8, <1>9, <1>10, <1>11, <1>12, <1>13, <1>14, <1>15, <1>16, <1>17, <1>18, <1>19
     DEF Next, CommandTask, Interrupt, SamplerTask

-----------------------------------------------------------------------------
(* The lanes.                                                              *)

LanesInOrder ==
  WaitingInOrder /\ FreeSlotsSent /\ PushedLane /\ SentBefore

(* Integers only.                                                          *)
LEMMA LaneTypes ==
  ASSUME TypeOK
  PROVE  /\ \A slot \in Slot : sampler_ring[slot] \in Int
         /\ sent.lane \in Int /\ captured \in Nat /\ Counted \in Int
         /\ sampler_ring_count \in Nat /\ Waiting \in Int
<1>1. Content \subseteq Int
  BY DEF Content, Lane, Empty, Partial
<1>2. \A slot \in Slot : sampler_ring[slot] \in Int
  BY <1>1 DEF TypeOK
<1>3. sent.lane \in Int
  BY <1>1 DEF TypeOK
<1>4. captured \in Nat /\ sampler_ring_count \in Nat
  BY LanesAssumption DEF TypeOK
<1> QED
  BY <1>2, <1>3, <1>4 DEF Counted, Waiting

(* A step that does not touch the ring, the interrupt or what was sent.    *)
LEMMA QuietStep ==
  ASSUME LanesInOrder,
         UNCHANGED <<ring, sampling_active, isr, captured, sent>>,
         streamer'.pc = "pop" <=> streamer.pc = "pop",
         Locked' <=> Locked
  PROVE  LanesInOrder'
BY DEF LanesInOrder, WaitingInOrder, FreeSlotsSent, PushedLane, SentBefore, Waiting,
       Counted, Distance, ring

(* A step after which nothing is sampled.                                  *)
LEMMA ClosedStep ==
  ASSUME ~sampling_active', isr'.pc # "push" PROVE LanesInOrder'
BY DEF LanesInOrder, WaitingInOrder, FreeSlotsSent, PushedLane, SentBefore

LEMMA StartStep == ASSUME Start PROVE LanesInOrder'
<1> USE DEF Start
<1>1. isr' = IsrIdle /\ isr'.pc = "idle" /\ ~Locked'
  BY DEF CommandRuns, IsrIdle, Locked
<1>2. Waiting' = 0
  BY <1>1 DEF Waiting, Reset
<1>3. \A slot \in Slot : Distance(slot)' >= 0 /\ sampler_ring'[slot] \notin Lane
  BY LanesAssumption DEF Reset, Distance, Slot, Lane, Empty, Partial
<1>4. \A slot \in Slot : ~(Distance(slot)' < 0)
  BY LanesAssumption DEF Reset, Distance, Slot
<1>5. sent'.lane = 0 /\ Counted' = 0
  BY <1>1 DEF NothingSent, Counted
<1>6. WaitingInOrder'
  BY <1>2, <1>4 DEF WaitingInOrder
<1>7. FreeSlotsSent'
  BY <1>3 DEF FreeSlotsSent
<1> QED
  BY <1>1, <1>5, <1>6, <1>7 DEF LanesInOrder, PushedLane, SentBefore

(* The interrupt writes the lane it has completed, or is about to          *)
(* overwrite a slot, and counts nothing.                                   *)
LEMMA WriteStep ==
  ASSUME ~Parallel, IInv, CompleteLane \/ CheckFull
  PROVE  LanesInOrder'
<1> USE LanesAssumption DEF IInv
<1>1. /\ UNCHANGED <<sampling_active, streamer, sent, sampler_ring_tail,
                     sampler_ring_head, sampler_ring_count>>
      /\ ~Locked /\ ~Locked' /\ isr.pc # "push"
  BY DEF CompleteLane, CheckFull, InterruptRuns, OneAtATime, Locked, IsrIdle
<1>2. Waiting' = Waiting /\ \A slot \in Slot : Distance(slot)' = Distance(slot)
  BY <1>1 DEF Waiting, Distance
<1>3. \A slot \in Slot :
        Distance(slot) < Waiting => sampler_ring'[slot] = sampler_ring[slot]
  BY WritesFreeSlot DEF Interrupt
<1>4. Counted \in Int /\ Counted' \in Int /\ Counted <= Counted'
  BY <1>1 DEF CompleteLane, CheckFull, Counted, TypeOK, IsrIdle
<1>5. WaitingInOrder'
  <2> SUFFICES ASSUME sampling_active, NEW slot \in Slot, Distance(slot) < Waiting
               PROVE  /\ sampler_ring'[slot] \in 1 .. Counted'
                      /\ \/ sampler_ring'[slot] > sent'.lane
                         \/ streamer'.pc = "pop" /\ slot = sampler_ring_tail'
                      /\ \A other \in Slot :
                           Distance(other) < Distance(slot)
                             => sampler_ring'[other] < sampler_ring'[slot]
    BY <1>1, <1>2 DEF WaitingInOrder
  <2>1. sampler_ring'[slot] \in 1 .. Counted'
    BY <1>3, <1>4 DEF WaitingInOrder
  <2>2. \A other \in Slot : Distance(other) < Distance(slot)
                            => Distance(other) < Waiting
    BY DistanceType, LaneTypes
  <2> QED
    BY <1>1, <1>3, <2>1, <2>2 DEF WaitingInOrder
<1>6. \A slot \in Slot :
        \/ sampler_ring'[slot] = sampler_ring[slot]
        \/ sampler_ring'[slot] = Partial
        \/ isr'.pc = "push" /\ slot = sampler_ring_head'
             /\ sampler_ring'[slot] = captured'
  BY DEF CompleteLane, CheckFull, TypeOK, RoomAtHead, IsrIdle
<1>7. FreeSlotsSent'
  BY <1>1, <1>2, <1>6 DEF FreeSlotsSent, Partial, Lane
<1>8. PushedLane'
  BY DEF CompleteLane, CheckFull, PushedLane, TypeOK, IsrIdle
<1>9. SentBefore'
  BY <1>1, <1>4, LaneTypes DEF SentBefore
<1> QED
  BY <1>5, <1>7, <1>8, <1>9 DEF LanesInOrder

(* The lane just completed joins the others.                               *)
LEMMA PushStep ==
  ASSUME ~Parallel, IInv, PushLane PROVE LanesInOrder'
<1> USE LanesAssumption DEF IInv
<1>1. /\ isr.pc = "push" /\ isr'.pc = "full" /\ isr # IsrIdle
      /\ sampler_ring_count' = sampler_ring_count + 1
      /\ sampler_ring_count < Lanes
      /\ UNCHANGED <<sampling_active, streamer, sent, sampler_ring,
                     sampler_ring_tail, captured>>
      /\ ~Locked /\ ~Locked'
  BY DEF PushLane, OneAtATime, Locked, IsrIdle, TypeOK
<1>2. /\ Waiting' = Waiting + 1
      /\ \A slot \in Slot : Distance(slot)' = Distance(slot)
  BY <1>1 DEF Waiting, Distance
<1>3. /\ sampler_ring_head \in Slot
      /\ Distance(sampler_ring_head) = Waiting
      /\ sampler_ring[sampler_ring_head] = captured
  BY <1>1, HeadIsFree DEF TypeOK, PushedLane
<1>4. Counted' = captured /\ Counted = captured - 1 /\ captured \in Nat
  BY <1>1, LaneTypes DEF Counted
<1>5. \A slot \in Slot : Distance(slot) \in Nat
  BY DistanceType
<1>6. \A slot \in Slot :
        Distance(slot) < Waiting' => Distance(slot) < Waiting
                                     \/ slot = sampler_ring_head
  BY <1>2, <1>3, <1>5, DistanceType, LaneTypes
<1>7. WaitingInOrder'
  <2> SUFFICES ASSUME sampling_active, NEW slot \in Slot, Distance(slot) < Waiting'
               PROVE  /\ sampler_ring[slot] \in 1 .. captured
                      /\ \/ sampler_ring[slot] > sent.lane
                         \/ streamer.pc = "pop" /\ slot = sampler_ring_tail
                      /\ \A other \in Slot :
                           Distance(other) < Distance(slot)
                             => sampler_ring[other] < sampler_ring[slot]
    BY <1>1, <1>2, <1>4 DEF WaitingInOrder
  <2>1. CASE Distance(slot) < Waiting
    BY <2>1, <1>4 DEF WaitingInOrder
  <2>2. CASE slot = sampler_ring_head
    <3>1. captured \in 1 .. captured
      BY <1>4, LaneTypes DEF SentBefore
    <3>2. captured > sent.lane
      BY <1>4, LaneTypes DEF SentBefore
    <3>3. \A other \in Slot : Distance(other) < Distance(slot)
                              => sampler_ring[other] < captured
      BY <2>2, <1>3, <1>4, LaneTypes DEF WaitingInOrder
    <3> QED
      BY <2>2, <1>3, <3>1, <3>2, <3>3
  <2> QED
    BY <1>6, <2>1, <2>2
<1>8. FreeSlotsSent'
  <2> SUFFICES ASSUME sampling_active, NEW slot \in Slot,
                      Distance(slot) >= Waiting + 1
               PROVE  sampler_ring[slot] <= sent.lane \/ sampler_ring[slot] \notin Lane
    BY <1>1, <1>2 DEF FreeSlotsSent
  <2>1. slot # sampler_ring_head /\ Distance(slot) >= Waiting
    BY <1>3, <1>5, LaneTypes
  <2> QED
    BY <2>1 DEF FreeSlotsSent
<1>9. PushedLane' /\ SentBefore'
  BY <1>1, <1>4, LaneTypes DEF PushedLane, SentBefore
<1> QED
  BY <1>7, <1>8, <1>9 DEF LanesInOrder

(* The oldest lane is sent.                                                *)
LEMMA SendStep ==
  ASSUME ~Parallel, IInv, Send PROVE LanesInOrder'
<1> USE LanesAssumption DEF IInv
<1>1. /\ UNCHANGED <<ring, sampling_active, isr, captured>>
      /\ isr = IsrIdle /\ isr.pc = "idle"
      /\ streamer.pc = "send" /\ streamer'.pc = "pop"
      /\ sent'.lane = sampler_ring[streamer.lane]
      /\ ~Locked /\ ~Locked'
  BY DEF Send, StreamerRuns, Locked, IsrIdle
<1>2. CASE ~sampling_active
  BY <1>1, <1>2, ClosedStep
<1>3. CASE sampling_active
  <2>1. streamer.lane = sampler_ring_tail /\ sampler_ring_count > 0
    BY <1>1, <1>3 DEF TaskHoldsTail
  <2>2. /\ sampler_ring_tail \in Slot
        /\ Distance(sampler_ring_tail) = 0
        /\ Distance(sampler_ring_tail) < Waiting
    BY <1>1, <2>1, DistanceType, LaneTypes DEF TypeOK, Waiting
  <2>3. /\ sampler_ring[sampler_ring_tail] > sent.lane
        /\ sampler_ring[sampler_ring_tail] \in 1 .. Counted
    BY <1>1, <1>3, <2>2 DEF WaitingInOrder
  <2>4. /\ Waiting' = Waiting /\ Counted' = Counted
        /\ sampler_ring' = sampler_ring
        /\ \A slot \in Slot : Distance(slot)' = Distance(slot)
    BY <1>1 DEF Waiting, Distance, Counted, ring
  <2>5. WaitingInOrder'
    <3> SUFFICES ASSUME NEW slot \in Slot, Distance(slot) < Waiting,
                        slot # sampler_ring_tail
                 PROVE  sampler_ring[slot] > sampler_ring[sampler_ring_tail]
      BY <1>1, <1>3, <2>1, <2>4 DEF WaitingInOrder, ring
    <3>1. Distance(sampler_ring_tail) < Distance(slot)
      BY <2>2, DistanceType
    <3> QED
      BY <1>3, <2>2, <3>1, LaneTypes DEF WaitingInOrder
  <2>6. FreeSlotsSent'
    <3> SUFFICES ASSUME NEW slot \in Slot, Distance(slot) >= Waiting
                 PROVE  \/ sampler_ring[slot] <= sampler_ring[sampler_ring_tail]
                        \/ sampler_ring[slot] \notin Lane
      BY <1>1, <2>1, <2>4 DEF FreeSlotsSent
    <3> QED
      BY <1>1, <1>3, <2>2, <2>3, LaneTypes DEF FreeSlotsSent
  <2>7. PushedLane' /\ SentBefore'
    BY <1>1, <2>1, <2>3, <2>4, LaneTypes DEF PushedLane, SentBefore
  <2> QED
    BY <2>5, <2>6, <2>7 DEF LanesInOrder
<1> QED
  BY <1>2, <1>3

(* The lane that was sent is removed: the next one becomes the oldest.     *)
LEMMA PopStep ==
  ASSUME ~Parallel, IInv, Pop PROVE LanesInOrder'
<1> USE LanesAssumption DEF IInv
<1>1. /\ UNCHANGED <<sampler_ring, sampling_active, isr, captured, sent>>
      /\ isr = IsrIdle /\ isr.pc = "idle"
      /\ streamer.pc = "pop" /\ ~Locked
  BY DEF Pop, StreamerRuns, Locked, IsrIdle
<1>2. CASE ~sampling_active
  BY <1>1, <1>2, ClosedStep
<1>3. CASE sampling_active
  <2>1. sampler_ring_count > 0 /\ sent.lane = sampler_ring[sampler_ring_tail]
    BY <1>1, <1>3 DEF TaskHoldsTail
  <2>2. /\ sampler_ring_tail' = Next1(sampler_ring_tail)
        /\ streamer'.pc = "decrement" /\ Locked'
        /\ sampler_ring_count' = sampler_ring_count
    BY <2>1 DEF Pop, Locked
  <2>3. Waiting' = Waiting - 1 /\ Counted' = Counted
    BY <1>1, <2>2 DEF Waiting, Counted
  <2>4. \A slot \in Slot :
          Distance(slot)' = IF slot = sampler_ring_tail THEN Lanes - 1
                            ELSE Distance(slot) - 1
    BY <2>2 DEF Distance, Next1, TypeOK, Slot
  <2>5. \A slot \in Slot : /\ Distance(slot) \in 0 .. Lanes - 1
                           /\ Distance(slot) = 0 <=> slot = sampler_ring_tail
    BY DistanceType
  <2>6. Waiting <= Lanes /\ Waiting \in Int
    BY <1>1, LaneTypes DEF Waiting, TypeOK
  <2>7. WaitingInOrder'
    <3> SUFFICES ASSUME NEW slot \in Slot, Distance(slot)' < Waiting - 1
                 PROVE  /\ sampler_ring[slot] \in 1 .. Counted
                        /\ sampler_ring[slot] > sent.lane
                        /\ \A other \in Slot :
                             Distance(other)' < Distance(slot)'
                               => sampler_ring[other] < sampler_ring[slot]
      BY <1>1, <2>3 DEF WaitingInOrder
    <3>1. Distance(slot) < Waiting /\ slot # sampler_ring_tail
      BY <2>4, <2>5, <2>6
    <3>2. \A other \in Slot : Distance(other)' < Distance(slot)'
                              => Distance(other) < Distance(slot)
      BY <2>4, <2>5, <3>1
    <3> QED
      BY <1>3, <3>1, <3>2 DEF WaitingInOrder
  <2>8. FreeSlotsSent'
    <3> SUFFICES ASSUME NEW slot \in Slot, Distance(slot)' >= Waiting - 1
                 PROVE  sampler_ring[slot] <= sent.lane \/ sampler_ring[slot] \notin Lane
      BY <1>1, <2>3 DEF FreeSlotsSent
    <3>1. CASE slot = sampler_ring_tail
      BY <3>1, <2>1, LaneTypes
    <3>2. CASE slot # sampler_ring_tail
      <4>1. Distance(slot) >= Waiting
        BY <3>2, <2>4, <2>5, <2>6
      <4> QED
        BY <4>1, <1>1, <1>3 DEF FreeSlotsSent
    <3> QED
      BY <3>1, <3>2
  <2>9. PushedLane' /\ SentBefore'
    BY <1>1, <2>3 DEF PushedLane, SentBefore
  <2> QED
    BY <2>7, <2>8, <2>9 DEF LanesInOrder
<1> QED
  BY <1>2, <1>3

LEMMA DecrementStep ==
  ASSUME ~Parallel, IInv, Decrement PROVE LanesInOrder'
<1> USE LanesAssumption DEF IInv
<1>1. /\ UNCHANGED <<sampler_ring, sampler_ring_tail, sampling_active, isr,
                     captured, sent>>
      /\ isr.pc = "idle" /\ Locked /\ ~Locked'
      /\ streamer.pc # "pop" /\ streamer'.pc # "pop"
      /\ sampler_ring_count' = sampler_ring_count - 1
  BY DEF Decrement, StreamerRuns, Locked, IsrIdle, OneAtATime
<1>2. /\ Waiting' = Waiting /\ Counted' = Counted
      /\ \A slot \in Slot : Distance(slot)' = Distance(slot)
  BY <1>1 DEF Waiting, Counted, Distance
<1> QED
  BY <1>1, <1>2
  DEF LanesInOrder, WaitingInOrder, FreeSlotsSent, PushedLane, SentBefore

-----------------------------------------------------------------------------
(* The invariant, and what follows from it.                                *)

LEMMA InitInv == Init => IInv
<1> SUFFICES ASSUME Init PROVE IInv
  OBVIOUS
<1>1. RingInv
  BY InitRing
<1>2. ~sampling_active /\ isr.pc = "idle" /\ streamer = NoTask /\ ~notified
  BY DEF Init, IsrIdle
<1>3. command.pc = "idle"
  BY DEF Init, Ready
<1> QED
  BY <1>1, <1>2, <1>3
  DEF RingInv, IInv, TaskHoldsTail, TaskOfSession, WaitingInOrder,
      FreeSlotsSent, PushedLane, SentBefore

LEMMA StepInv ==
  ASSUME ~Parallel, ~Hasty, IInv, [Next]_vars PROVE IInv'
<1>1. RingInv /\ LanesInOrder
  BY DEF IInv, RingInv, LanesInOrder
<1>2. RingInv' /\ TaskOfSession' /\ TaskHoldsTail'
  BY <1>1, RingStep, SessionStep, TaskStep DEF IInv
<1>3. LanesInOrder'
  <2>1. CASE Start
    BY <2>1, StartStep
  <2>2. CASE StartWithoutInterrupt \/ StartWithoutTask \/ Stop
    BY <2>2, ClosedStep
    DEF StartWithoutInterrupt, StartWithoutTask, Stop, CommandRuns, IsrIdle
  <2>3. CASE EnsureTask \/ SetStreamSource \/ Notify
    BY <2>3, <1>1, QuietStep
    DEF EnsureTask, SetStreamSource, Notify, ring, Locked, NoTask
  <2>4. CASE Interrupt
    BY <2>4, WriteStep, PushStep DEF Interrupt
  <2>5. CASE NoticeStop \/ Exit \/ Peek \/ ReadSource \/ FailToSend
    BY <2>5, <1>1, QuietStep
    DEF NoticeStop, Exit, Peek, ReadSource, FailToSend, ring, Locked, NoTask
  <2>6. CASE Send \/ Pop \/ Decrement
    BY <2>6, SendStep, PopStep, DecrementStep
  <2>7. CASE UNCHANGED vars
    BY <2>7, <1>1, QuietStep DEF vars, Locked
  <2> QED
    BY <2>1, <2>2, <2>3, <2>4, <2>5, <2>6, <2>7
    DEF Next, CommandTask, SamplerTask
<1> QED
  BY <1>2, <1>3 DEF IInv, RingInv, LanesInOrder

(* Head, tail and count agree on every chip whose interrupt and streaming  *)
(* task share a core, however hastily the host starts again.               *)
THEOREM RingStaysConsistent ==
  ASSUME ~Parallel PROVE Spec => []RingConsistent
<1>1. RingInv /\ [Next]_vars => RingInv'
  BY RingStep
<1>2. RingInv => RingConsistent
  BY DEF RingInv, HeadFollows, RingConsistent, Waiting
<1> QED
  BY InitRing, <1>1, <1>2, PTL DEF Spec

(* A lane that waits is not overwritten, for any number of slots, on one   *)
(* core and when the host lets the streaming task end before it starts     *)
(* again.                                                                  *)
THEOREM UnsentLanesStay ==
  ASSUME ~Parallel, ~Hasty PROVE Spec => UnsentLanesAreKept
<1>1. IInv /\ [Next]_vars => IInv'
  BY StepInv
<1>2. ASSUME IInv, [Next]_vars, sampling_active, sampling_active',
             NEW slot \in Slot, sampler_ring[slot] \in Lane,
             sampler_ring[slot] > sent.lane
      PROVE  sampler_ring'[slot] = sampler_ring[slot]
  <2>1. TypeOK
    BY <1>2 DEF IInv
  <2>2. CASE Interrupt
    <3>1. CASE Distance(slot) < Waiting
      BY <2>2, <3>1, <1>2, WritesFreeSlot
    <3>2. CASE Distance(slot) >= Waiting
      <4>1. isr.pc = "push"
        BY <3>2, <1>2, <2>1, LaneTypes DEF IInv, FreeSlotsSent
      <4> QED
        BY <2>2, <4>1 DEF Interrupt, CompleteLane, PushLane, CheckFull, IsrIdle
    <3> QED
      BY <3>1, <3>2, <2>1, DistanceType, LaneTypes
  <2>3. CASE CommandTask
    BY <2>3, <1>2
    DEF CommandTask, Start, StartWithoutInterrupt, EnsureTask, StartWithoutTask,
        SetStreamSource, Stop, Notify, ring
  <2>4. CASE SamplerTask
    BY <2>4
    DEF SamplerTask, NoticeStop, Exit, Peek, ReadSource, Send, FailToSend, Pop,
        Decrement, ring
  <2>5. CASE UNCHANGED vars
    BY <2>5 DEF vars, ring
  <2> QED
    BY <1>2, <2>2, <2>3, <2>4, <2>5 DEF Next
<1>3. IInv /\ [Next]_vars =>
        [sampling_active /\ sampling_active' =>
           \A slot \in Slot :
             sampler_ring[slot] \in Lane /\ sampler_ring[slot] > sent.lane
               => sampler_ring'[slot] = sampler_ring[slot]]_vars
  BY <1>2
<1> QED
  BY InitInv, <1>1, <1>3, PTL DEF Spec, UnsentLanesAreKept

(* A lane that is sent was completed after every lane sent before it in    *)
(* the same session: none is sent twice, and none is overtaken.            *)
SentInOrder == [][Send /\ sampling_active => sent.lane < sent'.lane]_vars

(* Under the same conditions the lanes go out in the order in which they   *)
(* were completed, each once, although a lane stays in the ring until some *)
(* time after it was sent.                                                 *)
THEOREM SendsInOrder ==
  ASSUME ~Parallel, ~Hasty PROVE Spec => SentInOrder
<1>1. IInv /\ [Next]_vars => IInv'
  BY StepInv
<1>2. ASSUME IInv, Send, sampling_active PROVE sent.lane < sent'.lane
  <2>1. streamer.pc = "send" /\ sent'.lane = sampler_ring[streamer.lane] /\ ~Locked
    BY <1>2 DEF Send, Locked
  <2>2. streamer.lane = sampler_ring_tail /\ sampler_ring_count > 0
    BY <1>2, <2>1 DEF IInv, TaskHoldsTail
  <2>3. sampler_ring_tail \in Slot /\ Distance(sampler_ring_tail) < Waiting
    BY <1>2, <2>1, <2>2, DistanceType, LaneTypes DEF IInv, TypeOK, Waiting
  <2>4. sampler_ring[sampler_ring_tail] > sent.lane
    BY <1>2, <2>1, <2>3 DEF IInv, WaitingInOrder
  <2> QED
    BY <1>2, <2>1, <2>2, <2>4, LaneTypes DEF IInv
<1>3. IInv /\ [Next]_vars => [Send /\ sampling_active => sent.lane < sent'.lane]_vars
  BY <1>2
<1> QED
  BY InitInv, <1>1, <1>3, PTL DEF Spec, SentInOrder

(* If the host lets the streaming task end before it starts again, a START *)
(* that has been answered has a task that streams, also where the task and *)
(* the interrupt run on two cores.                                         *)
THEOREM SamplingStaysServed ==
  ASSUME ~Hasty PROVE Spec => []SamplingIsServed
<1>1. Init => TypeOK /\ TaskOfSession
  BY InitType DEF Init, TaskOfSession, Ready
<1>2. TypeOK /\ TaskOfSession /\ [Next]_vars => TypeOK' /\ TaskOfSession'
  BY StepType, SessionStep
<1>3. TypeOK /\ TaskOfSession => SamplingIsServed
  <2> SUFFICES ASSUME TypeOK, TaskOfSession, sampling_active, command = Ready
               PROVE  streamer.pc \notin {"none", "exit"} /\ ~notified
    BY DEF SamplingIsServed
  <2>1. streamer # NoTask /\ streamer.pc # "exit" /\ ~notified
    BY DEF TaskOfSession, Ready
  <2>2. streamer.pc # "none"
    BY <2>1 DEF TypeOK, NoTask
  <2> QED
    BY <2>1, <2>2
<1> QED
  BY <1>1, <1>2, <1>3, PTL DEF Spec

-----------------------------------------------------------------------------
(* The ring, the interrupt and the task are together a queue of lanes.     *)

(* The interrupt pushes a lane only while lanes are kept.                  *)
PushesKept == isr.pc = "push" => ~sampler_overflow_active

(* A task that outlives its session finds nothing but zeroes.              *)
Discarded ==
  ~sampling_active /\ streamer # NoTask
    => \A slot \in Slot : sampler_ring[slot] = Empty

QueueInv == IInv /\ PushesKept /\ Discarded

LEMMA InitQueueInv == Init => QueueInv
<1> SUFFICES ASSUME Init PROVE QueueInv
  OBVIOUS
<1>1. PushesKept /\ Discarded
  BY DEF Init, IsrIdle, PushesKept, Discarded
<1> QED
  BY <1>1, InitInv DEF QueueInv

LEMMA PushesKeptStep ==
  ASSUME PushesKept, [Next]_vars PROVE PushesKept'
<1> USE DEF PushesKept, IsrIdle, ring
<1>1. CASE Start \/ StartWithoutInterrupt \/ Stop
  BY <1>1 DEF Start, StartWithoutInterrupt, Stop, CommandRuns
<1>2. CASE EnsureTask \/ StartWithoutTask \/ SetStreamSource \/ Notify
  BY <1>2 DEF EnsureTask, StartWithoutTask, SetStreamSource, Notify
<1>3. CASE CompleteLane
  BY <1>3 DEF CompleteLane
<1>4. CASE PushLane \/ CheckFull
  BY <1>4 DEF PushLane, CheckFull
<1>5. CASE SamplerTask
  BY <1>5 DEF SamplerTask, NoticeStop, Exit, Peek, ReadSource, Send, FailToSend,
              Pop, Decrement
<1>6. CASE UNCHANGED vars
  BY <1>6 DEF vars
<1> QED
  BY <1>1, <1>2, <1>3, <1>4, <1>5, <1>6 DEF Next, CommandTask, Interrupt

LEMMA DiscardedStep ==
  ASSUME IInv, Discarded, [Next]_vars PROVE Discarded'
<1> USE DEF Discarded, ring
<1>1. CASE Start
  BY <1>1 DEF Start
<1>2. CASE StartWithoutInterrupt \/ Stop
  <2>1. ~sampling_active'
    BY <1>2 DEF StartWithoutInterrupt, Stop
  <2>2. Reset
    BY <1>2 DEF StartWithoutInterrupt, Stop
  <2>3. sampler_ring' = [slot \in Slot |-> Empty]
    BY <2>1, <2>2 DEF Reset
  <2> QED
    BY <2>3
<1>3. CASE EnsureTask
  BY <1>3 DEF EnsureTask, IInv, TaskOfSession
<1>4. CASE StartWithoutTask
  BY <1>4 DEF StartWithoutTask
<1>5. CASE SetStreamSource \/ Notify
  BY <1>5 DEF SetStreamSource, Notify
<1>6. CASE Interrupt
  <2>1. sampling_active /\ sampling_active' = sampling_active
    BY <1>6 DEF Interrupt, CompleteLane, PushLane, CheckFull, IInv, OneAtATime,
                IsrIdle
  <2> QED
    BY <2>1
<1>7. CASE SamplerTask
  <2>1. /\ UNCHANGED <<sampler_ring, sampling_active>>
        /\ streamer = NoTask => streamer' = NoTask
    BY <1>7 DEF SamplerTask, NoticeStop, Exit, Peek, ReadSource, Send,
                FailToSend, Pop, Decrement, NoTask
  <2> QED
    BY <2>1
<1>8. CASE UNCHANGED vars
  BY <1>8 DEF vars
<1> QED
  BY <1>1, <1>2, <1>3, <1>4, <1>5, <1>6, <1>7, <1>8 DEF Next, CommandTask

LEMMA QueueInvAlways ==
  ASSUME ~Parallel, ~Hasty PROVE Spec => []QueueInv
<1>1. QueueInv /\ [Next]_vars => QueueInv'
  BY StepInv, PushesKeptStep, DiscardedStep DEF QueueInv
<1> QED
  BY InitQueueInv, <1>1, PTL DEF Spec

(* The slots of the lanes not sent are among those that wait.              *)
LEMMA PlacesWait ==
  ASSUME IInv, NEW i \in 1 .. UnsentCount
  PROVE  SlotFrom(Oldest, i) \in Slot /\ Distance(SlotFrom(Oldest, i)) < Waiting
<1> USE LanesAssumption
<1>1. sampling_active
  BY DEF UnsentCount
<1>2. sampler_ring_tail \in Slot /\ sampler_ring_count \in 0 .. Lanes
  BY DEF IInv, TypeOK
<1>3. CASE streamer.pc = "pop"
  <2>1. Oldest = Next1(sampler_ring_tail) /\ Waiting = sampler_ring_count
        /\ i \in 1 .. sampler_ring_count - 1
    BY <1>1, <1>3 DEF Oldest, Waiting, Locked, UnsentCount
  <2> QED
    BY <1>2, <2>1 DEF SlotFrom, Next1, Slot, Distance
<1>4. CASE streamer.pc # "pop"
  <2>1. Oldest = sampler_ring_tail /\ i \in 1 .. Waiting
    BY <1>1, <1>4 DEF Oldest, Waiting, Locked, UnsentCount
  <2>2. i \in 1 .. Lanes /\ Waiting \in Int
    BY <1>2, <2>1 DEF Waiting
  <2> QED
    BY <1>2, <2>1, <2>2 DEF SlotFrom, Slot, Distance
<1> QED
  BY <1>3, <1>4

UnsentIsSequence ==
  /\ UnsentCount \in 0 .. sampler_ring_count
  /\ Unsent \in Seq(Content)
  /\ Len(Unsent) = UnsentCount

LEMMA UnsentType == ASSUME IInv PROVE UnsentIsSequence
<1>1. sampler_ring_count \in 0 .. Lanes
  BY DEF IInv, TypeOK
<1>2. sampling_active /\ streamer.pc \in {"pop", "decrement"}
        => sampler_ring_count >= 1
  <2>1. CASE streamer.pc = "pop"
    BY <2>1, <1>1 DEF IInv, TaskHoldsTail
  <2>2. CASE streamer.pc = "decrement"
    <3>1. streamer \in [pc : {"decrement"}, count : 1 .. Lanes]
      BY <2>2 DEF IInv, TypeOK, NoTask
    <3> QED
      BY <3>1, <2>2 DEF IInv, OneAtATime, Locked
  <2> QED
    BY <2>1, <2>2
<1>3. UnsentCount \in 0 .. sampler_ring_count
  BY <1>1, <1>2 DEF UnsentCount
<1>4. \A i \in 1 .. UnsentCount : sampler_ring[SlotFrom(Oldest, i)] \in Content
  BY PlacesWait DEF IInv, TypeOK
<1>5. UnsentCount \in Nat
  BY <1>1, <1>3
<1> HIDE DEF UnsentCount
<1> QED
  BY <1>3, <1>4, <1>5 DEF Unsent, UnsentIsSequence

(* A step that leaves the unsent lanes where they are leaves the queue.    *)
LEMMA SameUnsent ==
  ASSUME UNCHANGED sampling_active,
         sampling_active =>
           /\ Oldest' = Oldest /\ UnsentCount' = UnsentCount
           /\ \A i \in 1 .. UnsentCount :
                sampler_ring'[SlotFrom(Oldest, i)] = sampler_ring[SlotFrom(Oldest, i)]
  PROVE  Unsent' = Unsent
<1>1. CASE sampling_active
  BY <1>1 DEF Unsent, SlotFrom
<1>2. CASE ~sampling_active
  <2>1. UnsentCount = 0 /\ UnsentCount' = 0
    BY <1>2 DEF UnsentCount
  <2> QED
    BY <2>1 DEF Unsent
<1> QED
  BY <1>1, <1>2

LEMMA NothingUnsent == ~sampling_active => Unsent = <<>>
<1> SUFFICES ASSUME ~sampling_active PROVE Unsent = <<>>
  OBVIOUS
<1>1. UnsentCount = 0
  BY DEF UnsentCount
<1> QED
  BY <1>1 DEF Unsent

(* The first of a sequence and the rest of it, and one more at its end.    *)
LEMMA FirstAndRest ==
  ASSUME NEW S, NEW s \in Seq(S), Len(s) > 0,
         NEW t \in Seq(S), Len(t) = Len(s) - 1,
         \A i \in 1 .. Len(t) : t[i] = s[i + 1]
  PROVE  s # <<>> /\ Head(s) = s[1] /\ t = Tail(s)
<1>1. s # <<>> /\ Head(s) = s[1]
  OBVIOUS
<1>2. /\ Tail(s) \in Seq(S)
      /\ Len(Tail(s)) = Len(s) - 1
      /\ \A i \in 1 .. Len(s) - 1 : Tail(s)[i] = s[i + 1]
  BY <1>1, HeadTailProperties
<1>3. Len(t) = Len(Tail(s)) /\ \A i \in 1 .. Len(t) : t[i] = Tail(s)[i]
  BY <1>2
<1> QED
  BY <1>1, <1>2, <1>3, SeqEqual

LEMMA OneMore ==
  ASSUME NEW S, NEW s \in Seq(S), NEW t \in Seq(S), NEW e \in S,
         Len(t) = Len(s) + 1, t[Len(t)] = e,
         \A i \in 1 .. Len(s) : t[i] = s[i]
  PROVE  t = Append(s, e)
<1>1. /\ Append(s, e) \in Seq(S)
      /\ Len(Append(s, e)) = Len(s) + 1
      /\ \A i \in 1 .. Len(s) : Append(s, e)[i] = s[i]
      /\ Append(s, e)[Len(s) + 1] = e
  BY AppendProperties
<1>2. Len(s) \in Nat
  OBVIOUS
<1>3. \A i \in 1 .. Len(t) : t[i] = Append(s, e)[i]
  <2> SUFFICES ASSUME NEW i \in 1 .. Len(t) PROVE t[i] = Append(s, e)[i]
    OBVIOUS
  <2>1. i \in 1 .. Len(s) \/ i = Len(s) + 1
    BY <1>2
  <2> QED
    BY <1>1, <2>1
<1> QED
  BY <1>1, <1>3, SeqEqual

(* A step of the task that neither sends nor removes a lane.               *)
LEMMA TaskKeepsQueue ==
  ASSUME UNCHANGED <<ring, sampling_active, captured, isr, sent>>,
         streamer.pc \notin {"pop", "decrement"},
         streamer'.pc \notin {"pop", "decrement"}
  PROVE  UNCHANGED Queue!vars
<1>1. UNCHANGED <<Oldest, UnsentCount>>
  BY DEF Oldest, UnsentCount, ring
<1>2. Unsent' = Unsent
  BY <1>1, SameUnsent DEF ring
<1> QED
  BY <1>2 DEF Queue!vars, ring

(* While no session is open, only the last lane can change.                *)
LEMMA NoQueue ==
  ASSUME QueueInv, ~sampling_active
  PROVE  /\ Unsent = <<>> /\ ~(sampling_active /\ sampler_overflow_active)
         /\ isr = IsrIdle
BY NothingUnsent DEF QueueInv, IInv, OneAtATime

(* Each step of the sampler is a step of the queue, or none.               *)
LEMMA CommandStep ==
  ASSUME QueueInv, ~Hasty, CommandTask PROVE [Queue!Next]_(Queue!vars)
<1>1. CASE Start
  <2>1. /\ ~sampling_active /\ sampling_active' /\ streamer' = NoTask
        /\ isr' = isr /\ captured' = 0 /\ sent'.lane = 0
        /\ sampler_ring_count' = 0 /\ sampler_overflow_active' = FALSE
    BY <1>1 DEF Start, Reset, NothingSent
  <2>2. isr = IsrIdle
    BY <2>1, NoQueue
  <2>3. Unsent' = <<>>
    <3>1. UnsentCount' = 0
      BY <2>1 DEF UnsentCount, NoTask
    <3> QED
      BY <3>1 DEF Unsent
  <2> QED
    BY <2>1, <2>2, <2>3 DEF Queue!Next, Queue!Open, IsrIdle
<1>2. CASE StartWithoutInterrupt
  <2>1. /\ ~sampling_active /\ ~sampling_active'
        /\ UNCHANGED <<sampling_active, isr, captured, sent>>
    BY <1>2 DEF StartWithoutInterrupt
  <2>2. Unsent' = Unsent
    BY <2>1, SameUnsent
  <2> QED
    BY <2>1, <2>2 DEF Queue!vars
<1>3. CASE EnsureTask
  <2>1. /\ streamer.pc \notin {"pop", "decrement"}
           \/ streamer' = streamer
        /\ UNCHANGED <<ring, sampling_active, isr, captured, sent>>
        /\ streamer = NoTask => streamer'.pc = "poll"
        /\ streamer # NoTask => streamer' = streamer
    BY <1>3 DEF EnsureTask, NoTask
  <2>2. UNCHANGED <<Oldest, UnsentCount>>
    BY <2>1 DEF Oldest, UnsentCount, ring, NoTask
  <2>3. Unsent' = Unsent
    BY <2>1, <2>2, SameUnsent DEF ring
  <2> QED
    BY <2>1, <2>3 DEF Queue!vars, ring
<1>4. CASE StartWithoutTask \/ Stop
  <2>1. /\ sampling_active' = FALSE
        /\ UNCHANGED <<isr, captured, sent>>
    BY <1>4 DEF StartWithoutTask, Stop
  <2>2. Unsent' = <<>>
    <3>1. UnsentCount' = 0
      BY <2>1 DEF UnsentCount
    <3> QED
      BY <3>1 DEF Unsent
  <2> QED
    BY <2>1, <2>2 DEF Queue!Next, Queue!Close
<1>5. CASE SetStreamSource \/ Notify
  <2>1. UNCHANGED <<ring, sampling_active, isr, captured, sent, streamer>>
    BY <1>5 DEF SetStreamSource, Notify
  <2>2. UNCHANGED <<Oldest, UnsentCount>>
    BY <2>1 DEF Oldest, UnsentCount, ring
  <2>3. Unsent' = Unsent
    BY <2>1, <2>2, SameUnsent DEF ring
  <2> QED
    BY <2>1, <2>3 DEF Queue!vars, ring
<1> QED
  BY <1>1, <1>2, <1>3, <1>4, <1>5 DEF CommandTask

LEMMA PushIsEnqueue ==
  ASSUME QueueInv, UnsentIsSequence, UnsentIsSequence', PushLane
  PROVE  Queue!Enqueue
<1>1. /\ isr.pc = "push" /\ isr'.pc = "full"
      /\ sampler_ring_count' = isr.count + 1
      /\ UNCHANGED <<sampler_ring, sampler_ring_tail, sampler_overflow_active,
                     sampling_active, streamer, captured, sent>>
  BY DEF PushLane
<1>2. /\ sampling_active /\ ~sampler_overflow_active /\ ~Locked
      /\ isr.count = sampler_ring_count
      /\ sampler_ring[sampler_ring_head] = captured
  BY <1>1 DEF QueueInv, IInv, OneAtATime, PushesKept, PushedLane, IsrIdle
<1>3. /\ sampler_ring_count \in 0 .. Lanes - 1
      /\ sampler_ring_tail \in Slot /\ captured \in 0 .. MaxLane
      /\ sampler_ring \in [Slot -> Content]
  <2>1. isr \in [pc : {"push"}, count : 0 .. Lanes - 1]
    BY <1>1 DEF QueueInv, IInv, TypeOK, IsrIdle
  <2> QED
    BY <1>2, <2>1 DEF QueueInv, IInv, TypeOK
<1>4. streamer.pc = "pop" => sampler_ring_count > 0
  BY <1>2 DEF QueueInv, IInv, TaskHoldsTail
<1>5. UnsentCount' = UnsentCount + 1 /\ Oldest' = Oldest
  BY <1>1, <1>2, <1>3 DEF UnsentCount, Oldest, Locked
<1>6. SlotFrom(Oldest, UnsentCount + 1) = sampler_ring_head
  <2>1. sampler_ring_head =
          LET sum == sampler_ring_tail + sampler_ring_count
          IN  IF sum < Lanes THEN sum ELSE sum - Lanes
    BY <1>2 DEF QueueInv, IInv, HeadFollows, Waiting
  <2>2. CASE streamer.pc = "pop"
    <3>1. Oldest = Next1(sampler_ring_tail) /\ UnsentCount = sampler_ring_count - 1
      BY <1>2, <2>2 DEF Oldest, UnsentCount
    <3> QED
      BY <1>3, <1>4, <2>1, <2>2, <3>1, LanesAssumption DEF SlotFrom, Next1, Slot
  <2>3. CASE streamer.pc # "pop"
    <3>1. Oldest = sampler_ring_tail /\ UnsentCount = sampler_ring_count
      BY <1>2, <2>3 DEF Oldest, UnsentCount, Locked
    <3> QED
      BY <1>3, <2>1, <3>1 DEF SlotFrom, Slot
  <2> QED
    BY <2>2, <2>3
<1>7. /\ Unsent \in Seq(Content) /\ Len(Unsent) = UnsentCount
      /\ UnsentCount \in 0 .. sampler_ring_count
      /\ Unsent' \in Seq(Content) /\ Len(Unsent') = UnsentCount'
  BY DEF UnsentIsSequence
<1>8. \A i \in 1 .. UnsentCount : Unsent'[i] = Unsent[i]
  BY <1>1, <1>3, <1>5, <1>7 DEF Unsent, SlotFrom
<1>9. Unsent'[UnsentCount + 1] = captured
  <2>1. UnsentCount + 1 \in 1 .. UnsentCount'
    BY <1>3, <1>5, <1>7
  <2>2. Unsent'[UnsentCount + 1]
          = sampler_ring'[SlotFrom(Oldest', UnsentCount + 1)]
    BY <2>1 DEF Unsent, SlotFrom
  <2> QED
    BY <1>1, <1>2, <1>5, <1>6, <2>2
<1>10. captured \in Content
  BY <1>3 DEF Content, Lane, Empty
<1>11. Unsent' = Append(Unsent, captured)
  BY <1>5, <1>7, <1>8, <1>9, <1>10, OneMore
<1>12. Len(Unsent) < Lanes
  BY <1>3, <1>7, LanesAssumption
<1>13. Counted' = captured /\ Counted = captured - 1 /\ Counted + 1 = captured
  BY <1>1, <1>3 DEF Counted
<1> QED
  BY <1>1, <1>2, <1>11, <1>12, <1>13 DEF Queue!Enqueue, Counted

LEMMA InterruptStep ==
  ASSUME ~Parallel, QueueInv, UnsentIsSequence, UnsentIsSequence', Interrupt
  PROVE  [Queue!Next]_(Queue!vars)
<1>1. CASE PushLane
  BY <1>1, PushIsEnqueue DEF Queue!Next
<1>2. ASSUME CompleteLane \/ CheckFull PROVE Unsent' = Unsent
  <2>1. UNCHANGED <<sampling_active, sampler_ring_tail, sampler_ring_count,
                    streamer>>
    BY <1>2 DEF CompleteLane, CheckFull
  <2>2. UNCHANGED <<Oldest, UnsentCount>>
    BY <2>1 DEF Oldest, UnsentCount
  <2>3. ASSUME NEW i \in 1 .. UnsentCount
        PROVE  sampler_ring'[SlotFrom(Oldest, i)] = sampler_ring[SlotFrom(Oldest, i)]
    BY <1>2, PlacesWait, WritesFreeSlot DEF QueueInv, Interrupt
  <2> QED
    BY <2>1, <2>2, <2>3, SameUnsent
<1>3. CASE CompleteLane
  <2>1. /\ sampling_active /\ UNCHANGED <<sampling_active, sent>>
        /\ isr = IsrIdle /\ captured' = captured + 1
        /\ captured \in 0 .. MaxLane
    BY <1>3 DEF CompleteLane, QueueInv, IInv, TypeOK
  <2>2. CASE sampler_overflow_active
    <3>1. isr' = IsrIdle
          /\ sampler_overflow_active' = (sampler_ring_count >= Lanes)
      BY <1>3, <2>1, <2>2 DEF CompleteLane
    <3>2. (sampler_ring_count >= Lanes) \in BOOLEAN
      OBVIOUS
    <3>3. sampler_overflow_active' \in BOOLEAN
      BY <3>1, <3>2
    <3>4. Counted = captured /\ Counted' = Counted + 1
      BY <2>1, <3>1 DEF Counted, IsrIdle
    <3> HIDE <3>1
    <3>5. Queue!Lose
      BY <1>2, <1>3, <2>1, <2>2, <3>3, <3>4 DEF Queue!Lose, Counted
    <3> QED
      BY <3>5 DEF Queue!Next
  <2>3. CASE ~sampler_overflow_active
    <3>1. sampler_ring_count < Lanes
      BY <2>1, <2>3 DEF QueueInv, IInv, RoomAtHead, IsrIdle
    <3>2. isr'.pc = "push" /\ UNCHANGED sampler_overflow_active
      BY <1>3, <2>3, <3>1, LanesAssumption DEF CompleteLane, QueueInv, IInv, TypeOK
    <3>3. Counted' = Counted
      BY <2>1, <3>2 DEF Counted, IsrIdle
    <3> QED
      BY <1>2, <1>3, <2>1, <3>2, <3>3 DEF Queue!vars, Counted
  <2> QED
    BY <2>2, <2>3
<1>4. CASE CheckFull
  <2>1. /\ isr.pc = "full" /\ isr'.pc = "idle"
        /\ UNCHANGED <<sampling_active, captured, sent>>
        /\ sampling_active
    BY <1>4 DEF CheckFull, IsrIdle, QueueInv, IInv, OneAtATime
  <2>2. Counted' = Counted
    BY <2>1 DEF Counted
  <2>3. CASE sampler_ring_count >= Lanes
    <3>1. sampler_overflow_active' = TRUE
      BY <1>4, <2>3 DEF CheckFull
    <3>2. ~Locked
      BY <2>1 DEF QueueInv, IInv, OneAtATime, IsrIdle
    <3>3. Len(Unsent) >= Lanes - 1
      <4>1. UnsentCount \in {sampler_ring_count, sampler_ring_count - 1}
        BY <2>1, <3>2 DEF UnsentCount, Locked
      <4>2. sampler_ring_count \in 0 .. Lanes
        BY DEF QueueInv, IInv, TypeOK
      <4> QED
        BY <2>3, <4>1, <4>2, LanesAssumption DEF UnsentIsSequence
    <3>4. Queue!Fill
      BY <1>2, <1>4, <2>1, <2>2, <3>1, <3>3 DEF Queue!Fill, Counted
    <3> QED
      BY <3>4 DEF Queue!Next
  <2>4. CASE ~(sampler_ring_count >= Lanes)
    <3>1. UNCHANGED sampler_overflow_active
      BY <1>4, <2>4 DEF CheckFull
    <3> QED
      BY <1>2, <1>4, <2>1, <2>2, <3>1 DEF Queue!vars, Counted
  <2> QED
    BY <2>3, <2>4
<1> QED
  BY <1>1, <1>3, <1>4 DEF Interrupt

(* A lane leaves the queue when it is sent ...                             *)
LEMMA SendIsDequeue ==
  ASSUME QueueInv, UnsentIsSequence, UnsentIsSequence', Send, sampling_active
  PROVE  Queue!Dequeue
<1>1. /\ streamer.pc = "send" /\ streamer'.pc = "pop"
      /\ sent'.lane = sampler_ring[streamer.lane]
      /\ UNCHANGED <<ring, sampling_active, isr, captured>>
  BY DEF Send
<1>2. /\ streamer.lane = sampler_ring_tail /\ sampler_ring_count > 0
      /\ sampler_ring_tail \in Slot /\ sampler_ring_count \in 0 .. Lanes
  BY <1>1 DEF QueueInv, IInv, TaskHoldsTail, TypeOK
<1>3. /\ Oldest = sampler_ring_tail /\ UnsentCount = sampler_ring_count
      /\ Oldest' = Next1(sampler_ring_tail)
      /\ UnsentCount' = sampler_ring_count - 1
  BY <1>1 DEF Oldest, UnsentCount, ring, Next1
<1>4. Unsent[1] = sent'.lane
  <2>1. 1 \in 1 .. UnsentCount /\ SlotFrom(Oldest, 1) = sampler_ring_tail
    BY <1>2, <1>3, LanesAssumption DEF SlotFrom, Slot
  <2> QED
    BY <1>1, <1>2, <2>1 DEF Unsent
<1>5. \A i \in 1 .. UnsentCount' : Unsent'[i] = Unsent[i + 1]
  <2> SUFFICES ASSUME NEW i \in 1 .. UnsentCount'
               PROVE  Unsent'[i] = Unsent[i + 1]
    OBVIOUS
  <2>1. i + 1 \in 1 .. UnsentCount
    BY <1>2, <1>3
  <2>2. Unsent'[i] = sampler_ring[SlotFrom(Oldest', i)]
    BY <1>1 DEF Unsent, SlotFrom, ring
  <2>3. SlotFrom(Oldest', i) = SlotFrom(Oldest, i + 1)
    BY <1>2, <1>3, LanesAssumption DEF SlotFrom, Next1, Slot
  <2> QED
    BY <2>1, <2>2, <2>3 DEF Unsent
<1>6. Unsent # <<>> /\ Head(Unsent) = sent'.lane /\ Unsent' = Tail(Unsent)
  <2>1. /\ Unsent \in Seq(Content) /\ Len(Unsent) > 0
        /\ Unsent' \in Seq(Content) /\ Len(Unsent') = Len(Unsent) - 1
        /\ \A i \in 1 .. Len(Unsent') : Unsent'[i] = Unsent[i + 1]
    BY <1>2, <1>3, <1>5 DEF UnsentIsSequence
  <2> QED
    BY <1>4, <2>1, FirstAndRest
<1> QED
  BY <1>1, <1>6 DEF Queue!Dequeue, ring

(* ... and its slot is freed without the host seeing it.                   *)
LEMMA SamplerTaskStep ==
  ASSUME ~Parallel, QueueInv, UnsentIsSequence, UnsentIsSequence', SamplerTask
  PROVE  [Queue!Next]_(Queue!vars)
<1>1. CASE NoticeStop \/ Exit \/ Peek \/ ReadSource \/ FailToSend
  <2>1. /\ UNCHANGED <<ring, sampling_active, captured, isr, sent>>
        /\ streamer.pc \notin {"pop", "decrement"}
        /\ streamer'.pc \notin {"pop", "decrement"}
    BY <1>1 DEF NoticeStop, Exit, Peek, ReadSource, FailToSend, NoTask
  <2> QED
    BY <2>1, TaskKeepsQueue
<1>2. CASE Send
  <2>1. CASE sampling_active
    BY <1>2, <2>1, SendIsDequeue DEF Queue!Next
  <2>2. CASE ~sampling_active
    <3>1. /\ streamer \in [pc : {"send"}, lane : Slot, via : {usb, wifi}]
          /\ streamer # NoTask
      BY <1>2 DEF Send, QueueInv, IInv, TypeOK, NoTask
    <3>2. sent'.lane = 0
      BY <1>2, <2>2, <3>1 DEF Send, QueueInv, Discarded, Empty
    <3>3. UNCHANGED <<ring, sampling_active, isr, captured>>
      BY <1>2 DEF Send
    <3>4. Unsent' = Unsent
      BY <2>2, <3>3, SameUnsent
    <3>5. Queue!SendZeroes
      BY <2>2, <3>2, <3>3, <3>4 DEF Queue!SendZeroes, ring
    <3> QED
      BY <3>5 DEF Queue!Next
  <2> QED
    BY <2>1, <2>2
<1>3. CASE Pop \/ Decrement
  <2>1. UNCHANGED <<sampler_ring, sampler_overflow_active, sampling_active,
                    isr, captured, sent>>
    BY <1>3 DEF Pop, Decrement
  <2>2. ASSUME sampling_active PROVE Oldest' = Oldest /\ UnsentCount' = UnsentCount
    <3>1. CASE Pop
      <4>1. /\ streamer.pc = "pop" /\ sampler_ring_count > 0
            /\ sampler_ring_tail' = Next1(sampler_ring_tail)
            /\ streamer'.pc = "decrement"
            /\ UNCHANGED sampler_ring_count
        BY <2>2, <3>1 DEF Pop, QueueInv, IInv, TaskHoldsTail
      <4> QED
        BY <2>1, <2>2, <4>1 DEF Oldest, UnsentCount
    <3>2. CASE Decrement
      <4>1. /\ streamer.pc = "decrement" /\ streamer'.pc = "poll"
            /\ sampler_ring_count' = sampler_ring_count - 1
            /\ UNCHANGED sampler_ring_tail
        BY <3>2 DEF Decrement, QueueInv, IInv, OneAtATime, Locked
      <4> QED
        BY <2>1, <2>2, <4>1 DEF Oldest, UnsentCount
    <3> QED
      BY <1>3, <3>1, <3>2
  <2>3. Unsent' = Unsent
    BY <2>1, <2>2, SameUnsent
  <2> QED
    BY <2>1, <2>3 DEF Queue!vars
<1> QED
  BY <1>1, <1>2, <1>3 DEF SamplerTask

(* On one core, and if the host waits for the streaming task to end before *)
(* it starts again, lanes come out in order, each once, and one is lost    *)
(* only when the ring is full, for rings of any length.                    *)
THEOREM ImplementsQueue ==
  ASSUME ~Parallel, ~Hasty
  PROVE  Spec => QueueSpec
<1>1. Init => Queue!Init
  <2>1. Init => ~sampling_active /\ isr.pc # "push"
    BY DEF Init, IsrIdle
  <2> QED
    BY <2>1, NothingUnsent DEF Init, Queue!Init, NothingSent
<1>2. QueueInv => UnsentIsSequence
  BY UnsentType DEF QueueInv
<1>3. ASSUME QueueInv, UnsentIsSequence, UnsentIsSequence', [Next]_vars
      PROVE  [Queue!Next]_(Queue!vars)
  <2>1. CASE UNCHANGED vars
    <3>1. UNCHANGED <<ring, sampling_active, isr, captured, sent, streamer>>
      BY <2>1 DEF vars
    <3>2. UNCHANGED <<Oldest, UnsentCount>>
      BY <3>1 DEF Oldest, UnsentCount, ring
    <3>3. Unsent' = Unsent
      BY <3>1, <3>2, SameUnsent DEF ring
    <3> QED
      BY <3>1, <3>3 DEF Queue!vars, ring
  <2> QED
    BY <1>3, <2>1, CommandStep, InterruptStep, SamplerTaskStep DEF Next
<1> QED
  BY <1>1, <1>2, <1>3, QueueInvAlways, PTL DEF Spec, QueueSpec, Queue!Spec
=============================================================================
