------------------------------ MODULE StmFirmware ------------------------------
(***************************************************************************)
(* The STM32F042 firmware (src/stm/emwaver-firmware): the main loop of     *)
(* Core/Src/main.c, the USB interrupt (MIDI_Receive_FS, DataIn) and the    *)
(* timer interrupt (EMW_TIM3_Tick_ISR).  There is no operating system: the *)
(* main loop takes one command at a time out of one buffer that the USB    *)
(* interrupt fills, and the interrupts run between any two of its steps.   *)
(*                                                                         *)
(* A command is its operation and its number; an answer is the number of   *)
(* the command it belongs to and its status.  A lane is counted, not kept: *)
(* Sampler.tla shows in what order the same ring gives its lanes away.     *)
(***************************************************************************)
EXTENDS Integers, Sequences

CONSTANTS
  MaxCommand,  (* bound: the numbers of commands, which are used again     *)
  Lanes,       (* SAMPLER_RING_LANES                                       *)
  RxLanes,     (* the lanes that fit in rxBuffer                           *)
  MaxFeed,     (* bound: the lanes the host sends in one transmission      *)
  Stalls,      (* the host may leave a frame uncollected past the timeout  *)
  Prompt,      (* a command may arrive while the last one is being consumed*)
  Mixed,       (* a transmission may be started while the sampler runs     *)
  FlashFails   (* programming the flash may fail half way                  *)

ASSUME BoundsAssumption ==
  /\ {MaxCommand, MaxFeed} \subseteq Nat /\ MaxCommand > 1
  /\ {Lanes, RxLanes} \subseteq Nat \ {0}
  /\ {Stalls, Prompt, Mixed, FlashFails} \subseteq BOOLEAN

VARIABLES
  midi_packet,             (* the command                                  *)
  midi_packet_ready,       (* the main loop has it to do                   *)
  ism_mode,
  emw_buf_type,
  timer,                   (* TIM3 runs                                    *)
  sampler_ring_count,
  sampler_overflow_active,
  pending_cmd_lane,        (* the answer that waits for a frame            *)
  pending_cmd_ready,
  rxBuffer,                (* the lanes in the buffer                      *)
  pending_bs_ready,        (* a buffer status waits for the main loop      *)
  main,                    (* the main loop                                *)
  tx,                      (* the frame in the IN endpoint; TxState        *)
  usb_tx_timeout,          (* a send has timed out                         *)
  fed,                     (* host: lanes sent in this transmission        *)
  asked, waiting, answered (* host: see Correspondence                     *)

command == <<midi_packet, midi_packet_ready>>
ring == <<sampler_ring_count, sampler_overflow_active>>
mode == <<ism_mode, emw_buf_type, timer>>
pending == <<pending_cmd_lane, pending_cmd_ready>>
feed == <<rxBuffer, pending_bs_ready, fed>>
usb == <<tx, usb_tx_timeout>>
host == <<asked, waiting, answered>>
vars == <<command, ring, mode, pending, feed, usb, main, host>>

NoCommand == [op |-> "zeroes", n |-> 0]
NoAnswer == [n |-> 0, status |-> "zeroes"]
NoFrame == [cmd |-> NoAnswer, stream |-> "none"]

Op == {"query", "name_set", "gpio", "adc", "uart", "i2c", "spi", "pwm", "reset",
       "sample_start", "sample_stop", "transmit_start", "transmit_stop"}
Command == [op : Op, n : 1 .. MaxCommand]
Status == {"OK", "ERR"}
Answer == [n : 0 .. MaxCommand, status : Status]
Frame == [cmd : Answer \cup {NoAnswer}, stream : {"none", "zeroes", "lane", "BS"}]

(* The main loop: the place it has reached, whether it waits for a frame   *)
(* to leave, and the answers it has still to give.                         *)
MainState == [pc : {"loop", "pop", "check", "answer", "zero", "reset",
                    "prefill", "play", "stop"},
              wait : BOOLEAN, todo : Seq(Status)]
Loop == [pc |-> "loop", wait |-> FALSE, todo |-> <<>>]
Ok == <<"OK">>
Err == <<"ERR">>

TypeOK ==
  /\ midi_packet \in Command \cup {NoCommand}
  /\ midi_packet_ready \in BOOLEAN
  /\ ism_mode \in {"IDLE", "RAW_SAMPLING"}
  /\ emw_buf_type \in {"PACKET", "DOUBLE", "CIRCULAR"}
  /\ timer \in BOOLEAN
  /\ sampler_ring_count \in 0 .. Lanes
  /\ sampler_overflow_active \in BOOLEAN
  /\ pending_cmd_lane \in Answer \cup {NoAnswer}
  /\ pending_cmd_ready \in BOOLEAN
  /\ rxBuffer \in 0 .. RxLanes
  /\ pending_bs_ready \in BOOLEAN
  /\ main \in MainState
  /\ tx \in Frame
  /\ usb_tx_timeout \in BOOLEAN
  /\ fed \in 0 .. MaxFeed
  /\ asked \in 0 .. MaxCommand
  /\ waiting \in 0 .. MaxCommand
  /\ answered \in 0 .. MaxCommand

Init ==
  /\ midi_packet = NoCommand
  /\ midi_packet_ready = FALSE
  /\ ism_mode = "IDLE"
  /\ emw_buf_type = "PACKET"
  /\ timer = FALSE
  /\ sampler_ring_count = 0
  /\ sampler_overflow_active = FALSE
  /\ pending_cmd_lane = NoAnswer
  /\ pending_cmd_ready = FALSE
  /\ rxBuffer = 0
  /\ pending_bs_ready = FALSE
  /\ main = Loop
  /\ tx = NoFrame
  /\ usb_tx_timeout = FALSE
  /\ fed = 0
  /\ asked = 0
  /\ waiting = 0
  /\ answered = 0

-----------------------------------------------------------------------------
(* Sending a frame.  MIDI_SendResponsePkt_FS waits for the endpoint, hands *)
(* the frame over and waits until the host has collected it; each wait may *)
(* time out.  A frame that was handed over stays in the endpoint.          *)

HandOver(frame) ==
  /\ tx = NoFrame
  /\ tx' = frame

(* The frame has left, or the send has waited long enough.                 *)
Sent ==
  /\ main.wait
  /\ \/ tx = NoFrame /\ UNCHANGED usb_tx_timeout
     \/ tx # NoFrame /\ Stalls /\ usb_tx_timeout' = TRUE
  /\ main' = [main EXCEPT !.wait = FALSE]
  /\ UNCHANGED <<command, ring, mode, pending, feed, tx, host>>

(* The answer to the command in midi_packet.                               *)
AnswerTo(status) == [n |-> midi_packet.n, status |-> status]

(* While the sampler or a transmission runs an answer is held back, for    *)
(* the next frame to carry.                                                *)
HeldBack == ism_mode = "RAW_SAMPLING" \/ emw_buf_type = "CIRCULAR"

(* command_send_status                                                     *)
SendStatus ==
  /\ main.pc = "answer" /\ ~main.wait /\ main.todo # <<>>
  /\ IF HeldBack
     THEN /\ pending_cmd_lane' = AnswerTo(Head(main.todo))
          /\ pending_cmd_ready' = TRUE
          /\ main' = [main EXCEPT !.todo = Tail(@)]
          /\ UNCHANGED <<tx, usb_tx_timeout>>
     ELSE /\ \/ /\ HandOver([cmd |-> AnswerTo(Head(main.todo)), stream |-> "zeroes"])
                /\ main' = [main EXCEPT !.todo = Tail(@), !.wait = TRUE]
                /\ UNCHANGED usb_tx_timeout
             \/ /\ Stalls /\ tx # NoFrame
                /\ usb_tx_timeout' = TRUE
                /\ main' = [main EXCEPT !.todo = Tail(@)]
                /\ UNCHANGED tx
          /\ UNCHANGED pending
  /\ UNCHANGED <<command, ring, mode, feed, host>>

(* Mutant: the answer is not copied into the frame.                        *)
Forgetful(stream) ==
  /\ HandOver([cmd |-> NoAnswer, stream |-> stream])
  /\ pending_cmd_ready' = FALSE
  /\ UNCHANGED pending_cmd_lane

(* Mutant: the answer stays pending.                                       *)
Repeating(stream) ==
  /\ HandOver([cmd |-> IF pending_cmd_ready THEN pending_cmd_lane ELSE NoAnswer,
               stream |-> stream])
  /\ UNCHANGED pending

(* A frame with a lane or a buffer status takes the pending answer along.  *)
Piggyback(stream) ==
  /\ HandOver([cmd |-> IF pending_cmd_ready THEN pending_cmd_lane ELSE NoAnswer,
               stream |-> stream])
  /\ pending_cmd_ready' = FALSE
  /\ UNCHANGED pending_cmd_lane

-----------------------------------------------------------------------------
(* The main loop.                                                          *)

(* try_send_sampling_superframe: only if the endpoint is free.             *)
Drain ==
  /\ main.pc = "loop"
  /\ IF ism_mode = "RAW_SAMPLING" /\ sampler_ring_count > 0 /\ tx = NoFrame
     THEN Piggyback("lane") /\ main' = [main EXCEPT !.pc = "pop"]
     ELSE UNCHANGED <<tx, pending>> /\ main' = [main EXCEPT !.pc = "check"]
  /\ UNCHANGED <<command, ring, mode, feed, usb_tx_timeout, host>>

Pop ==
  /\ main.pc = "pop"
  /\ sampler_ring_count' = IF sampler_ring_count > 0 THEN sampler_ring_count - 1 ELSE 0
  /\ main' = [main EXCEPT !.pc = "check"]
  /\ UNCHANGED <<command, sampler_overflow_active, mode, pending, feed, usb,
                 host>>

Idle ==
  /\ main.pc = "check" /\ ~midi_packet_ready
  /\ main' = Loop
  /\ UNCHANGED <<command, ring, mode, pending, feed, usb, host>>

Reply(answers) == main' = [main EXCEPT !.pc = "answer", !.todo = answers]

(* What the handlers that only answer may answer with.  They reject a pin, *)
(* a length or a subcommand, or a peripheral fails, and stop at once.      *)
OkOrErr == {Ok, Err}
Query == {Ok}
Gpio == OkOrErr
Adc == OkOrErr
Uart == OkOrErr
I2c == OkOrErr
Spi == OkOrErr
Pwm == OkOrErr
TransmitStop == {Ok}

(* The break after a half-word that cannot be programmed leaves the loop   *)
(* over the name, not the switch: NAME_SET answers ERR and then OK.        *)
NameSet == OkOrErr \cup IF FlashFails THEN {Err \o Ok} ELSE {}

Outcome(op) ==
  CASE op = "name_set" -> NameSet
    [] op = "gpio" -> Gpio
    [] op = "adc" -> Adc
    [] op = "uart" -> Uart
    [] op = "i2c" -> I2c
    [] op = "spi" -> Spi
    [] op = "pwm" -> Pwm
    [] op = "transmit_stop" -> TransmitStop
    [] op \in {"query", "reset", "zeroes"} -> Query
    [] OTHER -> {Err}

Dispatch ==
  /\ main.pc = "check" /\ midi_packet_ready
  /\ \E answers \in Outcome(midi_packet.op) : Reply(answers)
  /\ UNCHANGED <<command, ring, mode, pending, feed, usb, host>>

EmptyRing == sampler_ring_count' = 0 /\ sampler_overflow_active' = FALSE

SampleStart ==
  /\ main.pc = "check" /\ midi_packet_ready /\ midi_packet.op = "sample_start"
  /\ EmptyRing
  /\ emw_buf_type' = "DOUBLE"
  /\ ism_mode' = "RAW_SAMPLING"
  /\ timer' = TRUE
  /\ Reply(Ok)
  /\ UNCHANGED <<command, pending, feed, usb, host>>

(* Mutant: ism_mode keeps its value.                                       *)
StopStaysRaw ==
  /\ main.pc = "check" /\ midi_packet_ready /\ midi_packet.op = "sample_stop"
  /\ timer' = FALSE
  /\ emw_buf_type' = "PACKET"
  /\ EmptyRing
  /\ Reply(Ok)
  /\ UNCHANGED <<command, ism_mode, pending, feed, usb, host>>

(* stop_sampling                                                           *)
SampleStop ==
  /\ main.pc = "check" /\ midi_packet_ready /\ midi_packet.op = "sample_stop"
  /\ timer' = FALSE
  /\ emw_buf_type' = "PACKET"
  /\ EmptyRing
  /\ ism_mode' = "IDLE"
  /\ Reply(Ok)
  /\ UNCHANGED <<command, pending, feed, usb, host>>

TransmitStart ==
  /\ main.pc = "check" /\ midi_packet_ready /\ midi_packet.op = "transmit_start"
  /\ rxBuffer' = 0
  /\ emw_buf_type' = "CIRCULAR"
  /\ main' = [main EXCEPT !.pc = "prefill"]
  /\ UNCHANGED <<command, ring, ism_mode, timer, pending, pending_bs_ready,
                 fed, usb, host>>

(* MIDI_PollTx_FS, in the two loops of a transmission.                     *)
PollTx ==
  /\ main.pc \in {"prefill", "play"} /\ ~main.wait
  /\ pending_bs_ready
  /\ pending_bs_ready' = FALSE
  /\ Piggyback("BS")
  /\ main' = [main EXCEPT !.wait = TRUE]
  /\ UNCHANGED <<command, ring, mode, rxBuffer, fed, usb_tx_timeout, host>>

(* The timer starts after 250 bytes, or after two seconds without them: at *)
(* any time.                                                               *)
Play ==
  /\ main.pc = "prefill" /\ ~main.wait
  /\ timer' = TRUE
  /\ main' = [main EXCEPT !.pc = "play"]
  /\ UNCHANGED <<command, ring, ism_mode, emw_buf_type, pending, feed, usb,
                 host>>

Played ==
  /\ main.pc = "play" /\ ~main.wait /\ rxBuffer = 0
  /\ main' = [main EXCEPT !.pc = "stop"]
  /\ UNCHANGED <<command, ring, mode, pending, feed, usb, host>>

EndTransmission ==
  /\ main.pc = "stop"
  /\ timer' = FALSE
  /\ emw_buf_type' = "PACKET"
  /\ rxBuffer' = 0
  /\ Reply(Ok)
  /\ UNCHANGED <<command, ring, ism_mode, pending, pending_bs_ready, fed,
                 usb, host>>

(* midi_packet_consume: the buffer is released before it is cleared.       *)
Release ==
  /\ main.pc = "answer" /\ ~main.wait /\ main.todo = <<>>
  /\ midi_packet_ready' = FALSE
  /\ main' = [main EXCEPT !.pc = IF midi_packet.op = "reset" THEN "reset" ELSE "zero"]
  /\ UNCHANGED <<midi_packet, ring, mode, pending, feed, usb, host>>

Clear ==
  /\ main.pc = "zero"
  /\ midi_packet' = NoCommand
  /\ main' = Loop
  /\ UNCHANGED <<midi_packet_ready, ring, mode, pending, feed, usb, host>>

(* RESET and ENTER_DFU: the device leaves the bus and comes back, in the   *)
(* second case after it was flashed.  The host sees it leave.              *)
Reset ==
  /\ main.pc = "reset"
  /\ midi_packet' = NoCommand
  /\ midi_packet_ready' = FALSE
  /\ ism_mode' = "IDLE"
  /\ emw_buf_type' = "PACKET"
  /\ timer' = FALSE
  /\ sampler_ring_count' = 0
  /\ sampler_overflow_active' = FALSE
  /\ pending_cmd_lane' = NoAnswer
  /\ pending_cmd_ready' = FALSE
  /\ rxBuffer' = 0
  /\ pending_bs_ready' = FALSE
  /\ main' = Loop
  /\ tx' = NoFrame
  /\ waiting' = 0
  /\ UNCHANGED <<fed, usb_tx_timeout, asked, answered>>

Main ==
  \/ Sent \/ SendStatus
  \/ Drain \/ Pop \/ Idle \/ Dispatch
  \/ SampleStart \/ SampleStop
  \/ TransmitStart \/ PollTx \/ Play \/ Played \/ EndTransmission
  \/ Release \/ Clear \/ Reset

-----------------------------------------------------------------------------
(* The interrupts.                                                         *)

(* ISR_Sampler_raw at the end of a lane: the lane is pushed, or it was a   *)
(* lane to throw away.                                                     *)
Capture ==
  /\ timer /\ emw_buf_type = "DOUBLE" /\ ism_mode = "RAW_SAMPLING"
  /\ IF sampler_overflow_active
     THEN /\ sampler_overflow_active' = (sampler_ring_count >= Lanes)
          /\ UNCHANGED sampler_ring_count
     ELSE IF sampler_ring_count >= Lanes
     THEN /\ sampler_overflow_active' = TRUE
          /\ UNCHANGED sampler_ring_count
     ELSE /\ sampler_ring_count' = sampler_ring_count + 1
          /\ sampler_overflow_active' = (sampler_ring_count' >= Lanes)
  /\ UNCHANGED <<command, mode, pending, feed, usb, main, host>>

(* ISR_Sampler_writing at the end of a lane.                               *)
PlayLane ==
  /\ timer /\ emw_buf_type = "CIRCULAR"
  /\ rxBuffer > 0
  /\ rxBuffer' = rxBuffer - 1
  /\ UNCHANGED <<command, ring, mode, pending, pending_bs_ready, fed, usb, main, host>>

(* A command lane is taken if the last command is done, and if not, it is  *)
(* dropped without an answer.                                              *)
Take(cmd) ==
  IF cmd # NoCommand /\ ~midi_packet_ready
  THEN midi_packet' = cmd /\ midi_packet_ready' = TRUE
  ELSE UNCHANGED command

(* MIDI_Receive_FS.  A stream lane that does not fit takes the command     *)
(* lane of its frame with it.                                              *)
Receive(cmd) ==
  IF emw_buf_type # "CIRCULAR"
  THEN Take(cmd) /\ UNCHANGED <<rxBuffer, pending_bs_ready>>
  ELSE IF rxBuffer = RxLanes
  THEN UNCHANGED <<command, rxBuffer, pending_bs_ready>>
  ELSE /\ rxBuffer' = rxBuffer + 1
       /\ pending_bs_ready' = TRUE
       /\ Take(cmd)

-----------------------------------------------------------------------------
(* The host, with one command outstanding, as sendCommand of the apps      *)
(* keeps it.                                                               *)

NextNumber == IF asked < MaxCommand THEN asked + 1 ELSE 1

Ask ==
  /\ waiting = 0
  /\ Prompt \/ (main.pc \in {"loop", "pop", "check"} /\ ~midi_packet_ready)
  /\ asked' = NextNumber
  /\ waiting' = asked'
  /\ answered' = 0
  /\ fed' = 0
  /\ \E op \in Op :
       /\ op = "transmit_start" => Mixed \/ ism_mode = "IDLE"
       /\ Receive([op |-> op, n |-> asked'])
  /\ UNCHANGED <<ring, mode, pending, usb, main>>

(* A frame of a transmission: nothing in the command lane.                 *)
Feed ==
  /\ emw_buf_type = "CIRCULAR" /\ fed < MaxFeed
  /\ fed' = fed + 1
  /\ Receive(NoCommand)
  /\ UNCHANGED <<ring, mode, pending, usb, main, host>>

(* The host collects the frame in the endpoint (DataIn).  The answer in it *)
(* ends the wait.                                                          *)
Collect ==
  /\ tx # NoFrame
  /\ tx' = NoFrame
  /\ IF tx.cmd = NoAnswer
     THEN UNCHANGED <<waiting, answered>>
     ELSE answered' = tx.cmd.n /\ waiting' = 0
  /\ UNCHANGED <<command, ring, mode, pending, feed, usb_tx_timeout, main, asked>>

Interrupt == Capture \/ PlayLane

Next == Main \/ Interrupt \/ Ask \/ Feed \/ Collect

Spec == Init /\ [][Next]_vars

(* The main loop runs, the timer ticks while it is started, and the host   *)
(* collects what is sent.  Nothing makes the host send.                    *)
Fairness ==
  /\ WF_vars(Main)
  /\ WF_vars(Capture)
  /\ WF_vars(PlayLane)
  /\ WF_vars(Collect)

FairSpec == Spec /\ Fairness

-----------------------------------------------------------------------------
(* Properties.                                                             *)

(* An answer that is held back has a frame to wait for: the sampler runs,  *)
(* with the timer and the buffer type that make it produce lanes.          *)
(* Otherwise command_send_status puts it where nobody looks.               *)
HeldBackHasACarrier ==
  pending_cmd_ready => ism_mode = "RAW_SAMPLING" /\ emw_buf_type = "DOUBLE" /\ timer

(* The firmware keeps what the hosts rely on: an answer is collected only  *)
(* while a command waits for one, and it is the answer to that command,    *)
(* whether it was sent at once, with a lane or after a transmission.       *)
AnswersCorrespond == INSTANCE Correspondence WITH crowded <- FALSE
AnswerSpec == AnswersCorrespond!Spec

(* The main loop answers every command it is given: directly, with a lane  *)
(* of the sampler, or when a transmission has come to its end; unless a    *)
(* send has timed out.                                                     *)
EveryCommandIsAnswered == waiting # 0 ~> waiting = 0 \/ usb_tx_timeout
=============================================================================
