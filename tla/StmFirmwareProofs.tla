--------------------------- MODULE StmFirmwareProofs ---------------------------
(***************************************************************************)
(* What TLAPS proves of the STM32F042 firmware, for every number of        *)
(* commands and lanes and a host that keeps one command outstanding,       *)
(* whenever it sends the next: its types; that the firmware implements     *)
(* Correspondence; and, if no transmission is started while the sampler    *)
(* runs, that an answer held back has a frame to wait for.                 *)
(***************************************************************************)
EXTENDS StmFirmware, TLAPS

LEMMA Bounds ==
  /\ MaxCommand \in Nat /\ MaxCommand > 1 /\ MaxFeed \in Nat
  /\ Lanes \in Nat /\ Lanes > 0 /\ RxLanes \in Nat /\ RxLanes > 0
  /\ 0 \in 0 .. Lanes /\ 0 \in 0 .. RxLanes /\ 0 \in 0 .. MaxFeed /\ 0 \in 0 .. MaxCommand
  BY BoundsAssumption

LEMMA Answers ==
  /\ <<>> \in Seq(Status)
  /\ Ok \in Seq(Status) /\ Ok # <<>> /\ Len(Ok) = 1
  /\ Err \in Seq(Status) /\ Err # <<>> /\ Len(Err) = 1
  /\ Err \o Ok \in Seq(Status) /\ Err \o Ok # <<>>
<1>1. "OK" \in Status /\ "ERR" \in Status
  BY DEF Status
<1> QED
  BY <1>1 DEF Ok, Err

LEMMA LoopIsTyped == Loop \in MainState
  BY Answers DEF Loop, MainState

LEMMA ReplyHas ==
  ASSUME main \in MainState, NEW answers, Reply(answers)
  PROVE  main'.pc = "answer" /\ main'.todo = answers
  BY DEF Reply, MainState

LEMMA ReplyIsTyped ==
  ASSUME main \in MainState, NEW answers \in Seq(Status), Reply(answers)
  PROVE  main' \in MainState
  BY DEF Reply, MainState

LEMMA OutcomeIsAnswers ==
  ASSUME NEW op, NEW answers \in Outcome(op)
  PROVE  /\ answers \in Seq(Status)
         /\ answers # <<>>
         /\ ~FlashFails => Len(answers) = 1
<1>1. answers \in {Ok, Err} \/ (FlashFails /\ answers = Err \o Ok)
  <2>1. CASE op = "name_set"
    BY <2>1 DEF Outcome, NameSet, OkOrErr
  <2>2. CASE op \in {"gpio", "adc", "uart", "i2c", "spi", "pwm"}
    BY <2>2 DEF Outcome, Gpio, Adc, Uart, I2c, Spi, Pwm, OkOrErr
  <2>3. CASE op \in {"transmit_stop", "query", "reset", "zeroes"}
    BY <2>3 DEF Outcome, TransmitStop, Query
  <2>4. CASE op \notin {"name_set", "gpio", "adc", "uart", "i2c", "spi", "pwm",
                       "transmit_stop", "query", "reset", "zeroes"}
    BY <2>4 DEF Outcome
  <2> QED
    BY <2>1, <2>2, <2>3, <2>4
<1> QED
  BY <1>1, Answers

(* The main loop.                                                          *)
LEMMA MainKeepsTypes ==
  ASSUME TypeOK, Main
  PROVE  TypeOK'
<1> USE Bounds DEF TypeOK, command, ring, mode, pending, feed, usb, host
<1>1. CASE Sent
  BY <1>1 DEF Sent, MainState
<1>2. CASE SendStatus
  <2>1. Head(main.todo) \in Status /\ Tail(main.todo) \in Seq(Status)
    BY <1>2 DEF SendStatus, MainState
  <2>2. AnswerTo(Head(main.todo)) \in Answer
    BY <2>1 DEF AnswerTo, Answer, Command, NoCommand
  <2> QED
    <3>1. main' \in MainState
      BY <1>2, <2>1 DEF SendStatus, MainState
    <3>2. tx' \in Frame
      BY <1>2, <2>2 DEF SendStatus, HandOver, Frame
    <3>3. pending_cmd_lane' \in Answer \cup {NoAnswer} /\ pending_cmd_ready' \in BOOLEAN
      BY <1>2, <2>2 DEF SendStatus
    <3>4. usb_tx_timeout' \in BOOLEAN
      BY <1>2 DEF SendStatus
    <3> QED
      BY <1>2, <3>1, <3>2, <3>3, <3>4 DEF SendStatus
<1>3. ASSUME NEW stream \in {"lane", "BS"}, Piggyback(stream)
      PROVE  tx' \in Frame /\ pending_cmd_ready' \in BOOLEAN
             /\ pending_cmd_lane' \in Answer \cup {NoAnswer}
  BY <1>3 DEF Piggyback, HandOver, Frame
<1>4. CASE Drain
  BY <1>3, <1>4 DEF Drain, MainState
<1>5. CASE Pop
  BY <1>5 DEF Pop, MainState
<1>6. CASE Idle
  BY <1>6, LoopIsTyped DEF Idle
<1>7. CASE Dispatch
  BY <1>7, OutcomeIsAnswers, ReplyIsTyped DEF Dispatch
<1>8. CASE SampleStart
  <2>1. main' \in MainState
    BY <1>8, Answers, ReplyIsTyped DEF SampleStart
  <2> QED
    BY <1>8, <2>1 DEF SampleStart, EmptyRing
<1>9. CASE SampleStop
  <2>1. main' \in MainState
    BY <1>9, Answers, ReplyIsTyped DEF SampleStop
  <2> QED
    BY <1>9, <2>1 DEF SampleStop, EmptyRing
<1>10. CASE TransmitStart
  BY <1>10 DEF TransmitStart, MainState
<1>11. CASE PollTx
  BY <1>3, <1>11 DEF PollTx, MainState
<1>12. CASE Play
  BY <1>12 DEF Play, MainState
<1>13. CASE Played
  BY <1>13 DEF Played, MainState
<1>14. CASE EndTransmission
  <2>1. main' \in MainState
    BY <1>14, Answers, ReplyIsTyped DEF EndTransmission
  <2> QED
    BY <1>14, <2>1 DEF EndTransmission
<1>15. CASE Release
  BY <1>15 DEF Release, MainState
<1>16. CASE Clear
  BY <1>16, LoopIsTyped DEF Clear
<1>17. CASE Reset
  <2>1. NoFrame \in Frame
    BY DEF NoFrame, Frame
  <2> QED
    BY <1>17, <2>1, LoopIsTyped DEF Reset
<1> QED
  BY <1>1, <1>2, <1>4, <1>5, <1>6, <1>7, <1>8, <1>9, <1>10, <1>11, <1>12, <1>13,
     <1>14, <1>15, <1>16, <1>17 DEF Main

(* The interrupts and the host.                                            *)
LEMMA OthersKeepTypes ==
  ASSUME TypeOK, Interrupt \/ Ask \/ Feed \/ Collect
  PROVE  TypeOK'
<1> USE Bounds DEF TypeOK, command, ring, mode, pending, feed, usb, host
<1>1. CASE Interrupt
  <2>1. CASE Capture
    <3>1. sampler_ring_count' \in 0 .. Lanes
      BY <2>1 DEF Capture
    <3>2. sampler_overflow_active' \in BOOLEAN
      <4>1. CASE sampler_ring_count >= Lanes
        BY <2>1, <4>1 DEF Capture
      <4>2. CASE ~(sampler_ring_count >= Lanes)
        <5>1. sampler_overflow_active' = FALSE
              \/ sampler_overflow_active' = (sampler_ring_count' >= Lanes)
          BY <2>1, <4>2 DEF Capture
        <5>2. (sampler_ring_count' >= Lanes) \in BOOLEAN
          OBVIOUS
        <5> QED
          BY <5>1, <5>2
      <4> QED
        BY <4>1, <4>2
    <3> QED
      BY <2>1, <3>1, <3>2 DEF Capture
  <2>2. CASE PlayLane
    BY <2>2 DEF PlayLane
  <2> QED
    BY <1>1, <2>1, <2>2 DEF Interrupt
<1>2. ASSUME NEW cmd \in Command \cup {NoCommand}, Receive(cmd)
      PROVE  /\ midi_packet' \in Command \cup {NoCommand}
             /\ midi_packet_ready' \in BOOLEAN
             /\ rxBuffer' \in 0 .. RxLanes
             /\ pending_bs_ready' \in BOOLEAN
  <2>1. rxBuffer' \in 0 .. RxLanes
    BY <1>2 DEF Receive
  <2>2. pending_bs_ready' \in BOOLEAN
    BY <1>2 DEF Receive
  <2>3. midi_packet' \in Command \cup {NoCommand} /\ midi_packet_ready' \in BOOLEAN
    BY <1>2 DEF Receive, Take
  <2> QED
    BY <2>1, <2>2, <2>3
<1>3. CASE Ask
  <2>1. asked' \in 1 .. MaxCommand
    BY <1>3, Bounds DEF Ask, NextNumber
  <2>2. PICK op \in Op : Receive([op |-> op, n |-> asked'])
    BY <1>3 DEF Ask
  <2>3. [op |-> op, n |-> asked'] \in Command
    BY <2>1 DEF Command
  <2> QED
    BY <1>2, <1>3, <2>1, <2>2, <2>3 DEF Ask
<1>4. CASE Feed
  BY <1>2, <1>4 DEF Feed
<1>5. CASE Collect
  <2>1. tx.cmd \in Answer \cup {NoAnswer}
    BY DEF Frame
  <2>2. tx.cmd # NoAnswer => tx.cmd.n \in 0 .. MaxCommand
    BY <2>1 DEF Answer
  <2> QED
    BY <1>5, <2>2 DEF Collect, NoFrame, Frame
<1> QED
  BY <1>1, <1>3, <1>4, <1>5

(* The variables keep their types, however long the session, whatever the  *)
(* host sends and whenever it collects.                                    *)
THEOREM TypeCorrect == Spec => []TypeOK
<1>1. Init => TypeOK
  <2>1. NoFrame \in Frame
    BY DEF NoFrame, Frame
  <2> QED
    BY <2>1, Bounds, LoopIsTyped DEF Init, TypeOK
<1>2. TypeOK /\ [Next]_vars => TypeOK'
  <2> SUFFICES ASSUME TypeOK, [Next]_vars PROVE TypeOK'
    OBVIOUS
  <2>1. CASE UNCHANGED vars
    BY <2>1 DEF vars, command, ring, mode, pending, feed, usb, host, TypeOK
  <2> QED
    BY <2>1, MainKeepsTypes, OthersKeepTypes DEF Next
<1> QED
  BY <1>1, <1>2, PTL DEF Spec

-----------------------------------------------------------------------------
(* The inductive invariant of the answers: a command is in the buffer, or  *)
(* its answer is held back or in the endpoint, and nowhere else, and only  *)
(* while the host waits.  A command that is taken while the buffer is      *)
(* cleared loses its number (Clear), and its answer then ends the wait     *)
(* without being taken for one.                                            *)

Places ==
  /\ main.pc \in {"answer", "prefill", "play", "stop"} => midi_packet_ready
  /\ main.pc # "answer" => main.todo = <<>>
  /\ Len(main.todo) <= 1

(* The command that waits for its handler, or its answer for being sent.   *)
Undone == midi_packet_ready /\ (main.pc # "answer" \/ main.todo # <<>>)

IsAwaited(n) == waiting # 0 /\ n \in {waiting, 0}

UndoneIsAwaited ==
  Undone => IsAwaited(midi_packet.n) /\ ~pending_cmd_ready /\ tx.cmd = NoAnswer
HeldBackIsAwaited ==
  pending_cmd_ready => /\ IsAwaited(pending_cmd_lane.n)
                       /\ pending_cmd_lane # NoAnswer
                       /\ tx.cmd = NoAnswer
SentIsAwaited == tx.cmd # NoAnswer => IsAwaited(tx.cmd.n)

Inv == /\ Places /\ UndoneIsAwaited /\ HeldBackIsAwaited /\ SentIsAwaited
       /\ waiting # 0 => answered = 0

(* What the main loop does to the answers when it gives one.               *)
LEMMA StatusKeepsInv ==
  ASSUME TypeOK, Inv, SendStatus
  PROVE  Inv' /\ main'.pc = "answer" /\ main'.todo = <<>>
         /\ (pending_cmd_ready' => HeldBack)
<1> USE DEF Inv, Places, Undone, UndoneIsAwaited, HeldBackIsAwaited, SentIsAwaited,
            IsAwaited, command, host
<1>0. main.todo \in Seq(Status) /\ main \in MainState
  BY DEF TypeOK, MainState
<1>1. Tail(main.todo) = <<>> /\ Undone
  BY <1>0 DEF SendStatus
<1>2. Head(main.todo) \in Status
  BY <1>0 DEF SendStatus
<1>3. AnswerTo(Head(main.todo)) # NoAnswer /\ AnswerTo(Head(main.todo)).n = midi_packet.n
  BY <1>1, <1>2 DEF AnswerTo, NoAnswer, Status
<1>4. main'.pc = "answer" /\ main'.todo = <<>> /\ midi_packet_ready
  BY <1>0, <1>1 DEF SendStatus, MainState
<1>5. CASE HeldBack
  BY <1>1, <1>3, <1>4, <1>5 DEF SendStatus
<1>6. CASE ~HeldBack
  BY <1>1, <1>3, <1>4, <1>6 DEF SendStatus, HandOver, pending
<1> QED
  BY <1>5, <1>6, <1>4

LEMMA MainKeepsInv ==
  ASSUME TypeOK, Inv, ~FlashFails, Main
  PROVE  Inv'
<1> USE DEF Inv, Places, Undone, UndoneIsAwaited, HeldBackIsAwaited, SentIsAwaited,
            IsAwaited, command, ring, mode, pending, feed, usb, host
<1>0. main.todo \in Seq(Status) /\ main \in MainState
  BY DEF TypeOK, MainState
<1>1. CASE Sent
  BY <1>0, <1>1 DEF Sent, MainState
<1>2. CASE SendStatus
  BY <1>2, StatusKeepsInv
<1>4. CASE Drain
  BY <1>0, <1>4 DEF Drain, Piggyback, HandOver, MainState, NoFrame
<1>5. CASE Pop
  BY <1>0, <1>5 DEF Pop, MainState
<1>6. CASE Idle
  BY <1>0, <1>6 DEF Idle, MainState, Loop
<1>7. CASE Dispatch
  <2>1. main'.pc = "answer" /\ main'.todo # <<>> /\ Len(main'.todo) = 1
    BY <1>0, <1>7, OutcomeIsAnswers, ReplyHas DEF Dispatch
  <2> QED
    BY <1>7, <2>1 DEF Dispatch
<1>8. CASE SampleStart
  <2>1. main'.pc = "answer" /\ main'.todo # <<>> /\ Len(main'.todo) = 1
    BY <1>0, <1>8, Answers, ReplyHas DEF SampleStart
  <2> QED
    BY <1>8, <2>1 DEF SampleStart, EmptyRing
<1>9. CASE SampleStop
  <2>1. main'.pc = "answer" /\ main'.todo # <<>> /\ Len(main'.todo) = 1
    BY <1>0, <1>9, Answers, ReplyHas DEF SampleStop
  <2> QED
    BY <1>9, <2>1 DEF SampleStop, EmptyRing
<1>10. CASE TransmitStart
  BY <1>0, <1>10 DEF TransmitStart, MainState
<1>11. CASE PollTx
  BY <1>0, <1>11 DEF PollTx, Piggyback, HandOver, MainState, NoFrame
<1>12. CASE Play
  BY <1>0, <1>12 DEF Play, MainState
<1>13. CASE Played
  BY <1>0, <1>13 DEF Played, MainState
<1>14. CASE EndTransmission
  <2>1. main'.pc = "answer" /\ main'.todo # <<>> /\ Len(main'.todo) = 1
    BY <1>0, <1>14, Answers, ReplyHas DEF EndTransmission
  <2> QED
    BY <1>14, <2>1 DEF EndTransmission
<1>15. CASE Release
  BY <1>0, <1>15 DEF Release, MainState
<1>16. CASE Clear
  BY <1>0, <1>16 DEF Clear, MainState, Loop, NoCommand
<1>17. CASE Reset
  BY <1>0, <1>17 DEF Reset, MainState, Loop, NoFrame
<1> QED
  BY <1>1, <1>2, <1>4, <1>5, <1>6, <1>7, <1>8, <1>9, <1>10, <1>11, <1>12, <1>13,
     <1>14, <1>15, <1>16, <1>17 DEF Main

(* What becomes of a new command: it is taken, or there is no trace of it. *)
LEMMA Asking ==
  ASSUME TypeOK, Ask
  PROVE  /\ waiting = 0 /\ waiting' = asked' /\ waiting' # 0 /\ answered' = 0
         /\ UNCHANGED <<mode, pending, usb, main>>
         /\ \/ UNCHANGED command
            \/ /\ ~midi_packet_ready /\ midi_packet' \in [op : Op, n : {waiting'}]
               /\ midi_packet_ready'
               /\ midi_packet'.op = "transmit_start" => Mixed \/ ism_mode = "IDLE"
<1>1. asked' # 0
  BY Bounds DEF Ask, NextNumber, TypeOK
<1>2. PICK op \in Op :
        /\ Receive([op |-> op, n |-> asked'])
        /\ op = "transmit_start" => Mixed \/ ism_mode = "IDLE"
  BY DEF Ask
<1>3. \/ UNCHANGED command
      \/ /\ ~midi_packet_ready /\ midi_packet' = [op |-> op, n |-> asked']
         /\ midi_packet_ready'
  BY <1>2 DEF Receive, Take, command
<1> QED
  BY <1>1, <1>2, <1>3 DEF Ask

LEMMA OthersKeepInv ==
  ASSUME TypeOK, Inv, Interrupt \/ Ask \/ Feed \/ Collect
  PROVE  Inv'
<1> USE DEF Inv, Places, Undone, UndoneIsAwaited, HeldBackIsAwaited, SentIsAwaited,
            IsAwaited, command, ring, mode, pending, feed, usb, host
<1>1. CASE Interrupt
  BY <1>1 DEF Interrupt, Capture, PlayLane
<1>2. CASE Ask
  BY <1>2, Asking
<1>3. CASE Feed
  BY <1>3 DEF Feed, Receive, Take
<1>4. CASE Collect
  BY <1>4 DEF Collect, NoFrame
<1> QED
  BY <1>1, <1>2, <1>3, <1>4

LEMMA StepKeepsInv ==
  ASSUME ~FlashFails, TypeOK, Inv, [Next]_vars
  PROVE  Inv'
<1>1. CASE UNCHANGED vars
  BY <1>1 DEF vars, command, ring, mode, pending, feed, usb, host, Inv, Places,
     Undone, UndoneIsAwaited, HeldBackIsAwaited, SentIsAwaited, IsAwaited
<1> QED
  BY <1>1, MainKeepsInv, OthersKeepInv DEF Next

LEMMA InitInv == Init => Inv
BY DEF Init, Inv, Places, Undone, UndoneIsAwaited, Loop, HeldBackIsAwaited,
       SentIsAwaited, NoFrame

(* Unless programming the flash fails, the firmware implements             *)
(* Correspondence: whatever the timing of interrupts, frames and timeouts, *)
(* also for a host that sends its next command while the last one is being *)
(* consumed, or transmits while it samples, an answer is collected only    *)
(* while its own command is waited for.                                    *)
THEOREM ImplementsCorrespondence ==
  ASSUME ~FlashFails
  PROVE  Spec => AnswerSpec
<1> DEFINE AVars == AnswersCorrespond!vars
<1>1. Init => AnswersCorrespond!Init
  BY DEF Init, AnswersCorrespond!Init
<1>2. TypeOK /\ Inv /\ [Next]_vars => [AnswersCorrespond!Next]_AVars
  <2> SUFFICES ASSUME TypeOK, Inv, [Next]_vars PROVE [AnswersCorrespond!Next]_AVars
    OBVIOUS
  <2> USE DEF AnswersCorrespond!vars, AnswersCorrespond!Next
  <2>1. CASE Ask
    BY <2>1, Bounds DEF Ask, NextNumber, TypeOK, AnswersCorrespond!Ask
  <2>2. CASE Collect
    <3>1. CASE tx.cmd = NoAnswer
      BY <2>2, <3>1 DEF Collect
    <3>2. CASE tx.cmd # NoAnswer /\ tx.cmd.n = waiting
      <4>1. waiting \in Nat
        BY Bounds DEF TypeOK
      <4> QED
        BY <2>2, <3>2, <4>1 DEF Collect, AnswersCorrespond!Answer, Inv, SentIsAwaited,
                                IsAwaited
    <3>3. CASE tx.cmd # NoAnswer /\ tx.cmd.n # waiting
      <4>1. waiting' = 0 /\ UNCHANGED <<asked, answered>>
        BY <2>2, <3>3 DEF Collect, Inv, SentIsAwaited, IsAwaited
      <4> QED
        BY <4>1 DEF AnswersCorrespond!Disconnect
    <3> QED
      BY <3>1, <3>2, <3>3
  <2>3. CASE Reset
    BY <2>3 DEF Reset, AnswersCorrespond!Disconnect
  <2>4. ASSUME UNCHANGED host PROVE UNCHANGED AVars
    BY <2>4 DEF host
  <2>5. CASE Interrupt \/ Feed \/ UNCHANGED vars
    BY <2>4, <2>5 DEF Interrupt, Capture, PlayLane, Feed, vars
  <2>6. CASE Main /\ ~Reset
    BY <2>4, <2>6 DEF Main, Sent, SendStatus, Drain, Pop, Idle, Dispatch, SampleStart,
       SampleStop, TransmitStart, PollTx, Play, Played, EndTransmission, Release, Clear
  <2> QED
    BY <2>1, <2>2, <2>3, <2>5, <2>6 DEF Next
<1>3. TypeOK /\ Inv /\ [Next]_vars => Inv'
  BY StepKeepsInv
<1> QED
  BY <1>1, <1>2, <1>3, InitInv, TypeCorrect, PTL DEF Spec, AnswerSpec, AnswersCorrespond!Spec

LEMMA CorrespondenceMatches == AnswerSpec => []AnswersCorrespond!Matches
<1>1. AnswersCorrespond!Init => AnswersCorrespond!Matches
  BY DEF AnswersCorrespond!Init, AnswersCorrespond!Matches
<1>2. AnswersCorrespond!Matches /\ [AnswersCorrespond!Next]_(AnswersCorrespond!vars)
        => AnswersCorrespond!Matches'
  BY DEF AnswersCorrespond!Matches, AnswersCorrespond!Next, AnswersCorrespond!vars,
         AnswersCorrespond!Ask, AnswersCorrespond!Answer, AnswersCorrespond!Disconnect,
         AnswersCorrespond!Copied
<1> QED
  BY <1>1, <1>2, PTL DEF AnswerSpec, AnswersCorrespond!Spec

(* Under the same condition the answer a host has got last is the answer   *)
(* to its last command, although it matches nothing, and no further answer *)
(* comes before it asks again.                                             *)
THEOREM AnswersMatch ==
  ASSUME ~FlashFails
  PROVE  Spec => []AnswersCorrespond!Matches
BY ImplementsCorrespondence, CorrespondenceMatches, PTL

-----------------------------------------------------------------------------
(* The inductive invariant of the modes, if no transmission is started     *)
(* while the sampler runs: mode, buffer type and timer change together,    *)
(* and a command that would break this does not wait in the buffer.        *)

InTransmission == main.pc \in {"prefill", "play", "stop"}
Modes ==
  IF InTransmission
  THEN ism_mode = "IDLE" /\ emw_buf_type = "CIRCULAR"
  ELSE \/ ism_mode = "RAW_SAMPLING" /\ emw_buf_type = "DOUBLE" /\ timer
       \/ ism_mode = "IDLE" /\ emw_buf_type = "PACKET"
TransmitsAlone ==
  Undone /\ midi_packet.op = "transmit_start" => ism_mode = "IDLE"

ModesInv == Modes /\ TransmitsAlone /\ HeldBackHasACarrier

LEMMA MainKeepsModes ==
  ASSUME TypeOK, Inv, ModesInv, Main
  PROVE  ModesInv'
<1> USE DEF ModesInv, Modes, InTransmission, TransmitsAlone, HeldBackHasACarrier, Undone,
            command, ring, mode, pending, feed, usb, host
<1>0. main \in MainState
      /\ (main.pc \in {"answer", "prefill", "play", "stop"} => midi_packet_ready)
      /\ (Undone => ~pending_cmd_ready)
  BY DEF TypeOK, Inv, Places, UndoneIsAwaited
<1>1. CASE Sent
  BY <1>0, <1>1 DEF Sent, MainState
<1>2. CASE SendStatus
  <2>1. main'.pc = "answer" /\ main'.todo = <<>> /\ (pending_cmd_ready' => HeldBack)
    BY <1>2, StatusKeepsInv
  <2> QED
    BY <1>2, <2>1 DEF SendStatus, HeldBack
<1>4. CASE Drain
  BY <1>0, <1>4 DEF Drain, Piggyback, MainState
<1>5. CASE Pop
  BY <1>0, <1>5 DEF Pop, MainState
<1>6. CASE Idle
  BY <1>0, <1>6 DEF Idle, Loop
<1>7. CASE Dispatch
  <2>1. main'.pc = "answer"
    BY <1>0, <1>7, OutcomeIsAnswers, ReplyHas DEF Dispatch
  <2> QED
    BY <1>7, <2>1 DEF Dispatch
<1>8. CASE SampleStart
  <2>1. main'.pc = "answer"
    BY <1>0, <1>8, Answers, ReplyHas DEF SampleStart
  <2> QED
    BY <1>8, <2>1 DEF SampleStart
<1>9. CASE SampleStop
  <2>1. main'.pc = "answer"
    BY <1>0, <1>9, Answers, ReplyHas DEF SampleStop
  <2> QED
    BY <1>0, <1>9, <2>1 DEF SampleStop
<1>10. CASE TransmitStart
  BY <1>0, <1>10 DEF TransmitStart, MainState
<1>11. CASE PollTx
  BY <1>0, <1>11 DEF PollTx, Piggyback, MainState
<1>12. CASE Play
  BY <1>0, <1>12 DEF Play, MainState
<1>13. CASE Played
  BY <1>0, <1>13 DEF Played, MainState
<1>14. CASE EndTransmission
  <2>1. main'.pc = "answer"
    BY <1>0, <1>14, Answers, ReplyHas DEF EndTransmission
  <2> QED
    BY <1>0, <1>14, <2>1 DEF EndTransmission
<1>15. CASE Release
  BY <1>0, <1>15 DEF Release, MainState
<1>16. CASE Clear
  BY <1>0, <1>16 DEF Clear, Loop, NoCommand
<1>17. CASE Reset
  BY <1>0, <1>17 DEF Reset, Loop
<1> QED
  BY <1>1, <1>2, <1>4, <1>5, <1>6, <1>7, <1>8, <1>9, <1>10, <1>11, <1>12, <1>13,
     <1>14, <1>15, <1>16, <1>17 DEF Main

LEMMA OthersKeepModes ==
  ASSUME TypeOK, Inv, ModesInv, ~Mixed, Interrupt \/ Ask \/ Feed \/ Collect
  PROVE  ModesInv'
<1> USE DEF ModesInv, Modes, InTransmission, TransmitsAlone, HeldBackHasACarrier, Undone,
            command, ring, mode, pending, feed, usb, host
<1>1. CASE Interrupt
  BY <1>1 DEF Interrupt, Capture, PlayLane
<1>2. CASE Ask
  BY <1>2, Asking
<1>3. CASE Feed
  BY <1>3 DEF Feed, Receive, Take
<1>4. CASE Collect
  BY <1>4 DEF Collect
<1> QED
  BY <1>1, <1>2, <1>3, <1>4

(* If the host stops the sampler before it transmits, and programming the  *)
(* flash does not fail, an answer is held back only while the sampler runs *)
(* and so has a lane to travel with, in sessions of any length, also where *)
(* commands arrive while the last one is being consumed.                   *)
THEOREM HeldBackAnswersTravel ==
  ASSUME ~Mixed, ~FlashFails
  PROVE  Spec => []HeldBackHasACarrier
<1>1. Init => Inv /\ ModesInv
  <2>1. Init => ModesInv
    BY DEF Init, ModesInv, Modes, InTransmission, TransmitsAlone, HeldBackHasACarrier, Loop
  <2> QED
    BY <2>1, InitInv
<1>2. TypeOK /\ Inv /\ ModesInv /\ [Next]_vars => Inv' /\ ModesInv'
  <2> SUFFICES ASSUME TypeOK, Inv, ModesInv, [Next]_vars PROVE Inv' /\ ModesInv'
    OBVIOUS
  <2>1. Inv'
    BY StepKeepsInv
  <2>2. CASE UNCHANGED vars
    BY <2>1, <2>2 DEF vars, command, mode, pending, ModesInv, Modes, InTransmission,
       TransmitsAlone, Undone, HeldBackHasACarrier
  <2> QED
    BY <2>1, <2>2, MainKeepsModes, OthersKeepModes DEF Next
<1>3. ModesInv => HeldBackHasACarrier
  BY DEF ModesInv
<1> QED
  BY <1>1, <1>2, <1>3, TypeCorrect, PTL DEF Spec
=============================================================================
