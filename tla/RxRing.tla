-------------------------------- MODULE RxRing --------------------------------
(***************************************************************************)
(* The receive buffer of the ESP32 retransmitter, a ring of bytes without  *)
(* a lock (usb_ingest_stream_lane and the usb_*_rx_buffer functions in     *)
(* src/esp/main/libraries/usb.c; transmission_isr and the parts of         *)
(* transmit_start_impl and transmit_stop_impl that touch it in sampler.c). *)
(*                                                                         *)
(*   - The task that receives from USB or Wi-Fi writes a lane byte by byte *)
(*     beyond the head and publishes it by moving the head;                *)
(*   - the timer interrupt takes a byte at the tail and plays its bits,    *)
(*     one at each tick;                                                   *)
(*   - the command task clears the ring when a transmission starts, and    *)
(*     when it ends.                                                       *)
(*                                                                         *)
(* A byte is its number: the n-th byte that the host has sent in this      *)
(* transmission, 0 where the buffer is cleared.                            *)
(***************************************************************************)
EXTENDS Integers, Sequences

CONSTANTS
  Size,      (* EMW_RX_BUFFER_SIZE                                           *)
  LaneSize,  (* EMW_LANE_SIZE                                                *)
  Bits,      (* the bits of a byte: 8                                        *)
  MaxByte,   (* bound: the bytes the host sends in one transmission          *)
  Overlap    (* a command may overtake the receiving task in a lane          *)

ASSUME RingAssumption ==
  /\ Size \in Nat /\ LaneSize \in Nat \ {0} /\ LaneSize < Size
  /\ Bits \in Nat \ {0}
  /\ MaxByte \in Nat

ASSUME OverlapAssumption == Overlap \in BOOLEAN

VARIABLES
  s_rx_buffer,
  s_rx_head,        (* the slot after the last byte                          *)
  s_rx_tail,        (* the slot of the first byte                            *)
  s_buffer_type,    (* lanes are taken when it is "CIRCULAR"                 *)
  receiver,         (* the receiving task in usb_ingest_stream_lane          *)
  command,          (* the command task in transmit_stop_impl                *)
  playing,          (* the timer's interrupt comes                           *)
  tx_bit_index,     (* the bit of the next tick                              *)
  tx_current_byte,  (* the byte taken last                                   *)
  received          (* history: bytes the host has sent                      *)

vars == <<s_rx_buffer, s_rx_head, s_rx_tail, s_buffer_type, receiver, command,
          playing, tx_bit_index, tx_current_byte, received>>

Slot == 0 .. Size - 1
Byte == 0 .. MaxByte

(* Mutant: the index runs off the end.                                     *)
AfterUnwrapped(slot) == slot + 1

After(slot) == IF slot = Size - 1 THEN 0 ELSE slot + 1

Idle == [pc |-> "idle"]

(* usb_get_rx_buffer_bytes_available                                       *)
Available ==
  IF s_rx_head >= s_rx_tail THEN s_rx_head - s_rx_tail
  ELSE s_rx_head + Size - s_rx_tail

TypeOK ==
  /\ s_rx_buffer \in [Slot -> Byte]
  /\ s_rx_head \in Slot
  /\ s_rx_tail \in Slot
  /\ s_buffer_type \in {"PACKET", "CIRCULAR"}
  /\ receiver \in {Idle} \cup [pc : {"write"}, next_head : Slot, count : 0 .. LaneSize]
  /\ command \in {"ready", "flush"}
  /\ playing \in BOOLEAN
  /\ tx_bit_index \in 0 .. Bits - 1
  /\ tx_current_byte \in Byte
  /\ received \in Byte

(* usb_init_rx_buffer                                                      *)
Clear ==
  /\ s_rx_buffer' = [slot \in Slot |-> 0]
  /\ s_rx_head' = 0
  /\ s_rx_tail' = 0

(* reset_transmission_state                                                *)
Rest ==
  /\ tx_bit_index' = 0
  /\ tx_current_byte' = 0

Init ==
  /\ s_rx_buffer = [slot \in Slot |-> 0]
  /\ s_rx_head = 0
  /\ s_rx_tail = 0
  /\ s_buffer_type = "PACKET"
  /\ receiver = Idle
  /\ command = "ready"
  /\ playing = FALSE
  /\ tx_bit_index = 0
  /\ tx_current_byte = 0
  /\ received = 0

-----------------------------------------------------------------------------
(* The command task and the monitor.                                       *)

CommandRuns == Overlap \/ receiver = Idle
ReceiverRuns == Overlap \/ command = "ready"

(* transmit_start_impl.  A START that fails leaves the ring cleared and    *)
(* the mode as it was: no change, where commands hold up the receiver.     *)
Start ==
  /\ s_buffer_type = "PACKET"
  /\ command = "ready"
  /\ CommandRuns
  /\ Clear
  /\ Rest
  /\ s_buffer_type' = "CIRCULAR"
  /\ received' = 0
  /\ UNCHANGED <<receiver, command, playing>>

(* timer_start, in the monitor                                             *)
StartTimer ==
  /\ s_buffer_type = "CIRCULAR"
  /\ command = "ready"
  /\ ~playing
  /\ playing' = TRUE
  /\ UNCHANGED <<s_rx_buffer, s_rx_head, s_rx_tail, s_buffer_type, receiver,
                 command, tx_bit_index, tx_current_byte, received>>

(* transmit_stop_impl: no interrupt comes any more, lanes are refused ...  *)
Stop ==
  /\ s_buffer_type = "CIRCULAR"
  /\ command = "ready"
  /\ CommandRuns
  /\ playing' = FALSE
  /\ s_buffer_type' = "PACKET"
  /\ command' = "flush"
  /\ UNCHANGED <<s_rx_buffer, s_rx_head, s_rx_tail, receiver, tx_bit_index,
                 tx_current_byte, received>>

(* ... and the buffer is cleared.                                          *)
Flush ==
  /\ command = "flush"
  /\ CommandRuns
  /\ Clear
  /\ Rest
  /\ command' = "ready"
  /\ UNCHANGED <<s_buffer_type, receiver, playing, received>>

-----------------------------------------------------------------------------
(* usb_ingest_stream_lane                                                  *)

BeginLane ==
  /\ receiver = Idle
  /\ ReceiverRuns
  /\ s_buffer_type = "CIRCULAR"
  /\ received + LaneSize <= MaxByte
  /\ receiver' = [pc |-> "write", next_head |-> s_rx_head, count |-> 0]
  /\ UNCHANGED <<s_rx_buffer, s_rx_head, s_rx_tail, s_buffer_type, command,
                 playing, tx_bit_index, tx_current_byte, received>>

(* Mutant: a byte is written whether there is a free slot or not.          *)
WriteByteUnchecked ==
  /\ receiver.pc = "write"
  /\ ReceiverRuns
  /\ receiver.count < LaneSize
  /\ s_rx_buffer' = [s_rx_buffer EXCEPT ![receiver.next_head]
                       = received + receiver.count + 1]
  /\ receiver' = [pc |-> "write", next_head |-> After(receiver.next_head),
                  count |-> receiver.count + 1]
  /\ UNCHANGED <<s_rx_head, s_rx_tail, s_buffer_type, command, playing,
                 tx_bit_index, tx_current_byte, received>>

(* A byte goes into the next slot.  When that leaves no free slot, the     *)
(* lane is given up: the head has not moved.                               *)
WriteByte ==
  /\ receiver.pc = "write"
  /\ ReceiverRuns
  /\ receiver.count < LaneSize
  /\ s_rx_buffer' = [s_rx_buffer EXCEPT ![receiver.next_head]
                       = received + receiver.count + 1]
  /\ IF After(receiver.next_head) = s_rx_tail
     THEN receiver' = Idle /\ received' = received + LaneSize
     ELSE /\ receiver' = [pc |-> "write", next_head |-> After(receiver.next_head),
                          count |-> receiver.count + 1]
          /\ UNCHANGED received
  /\ UNCHANGED <<s_rx_head, s_rx_tail, s_buffer_type, command, playing,
                 tx_bit_index, tx_current_byte>>

Publish ==
  /\ receiver.pc = "write"
  /\ ReceiverRuns
  /\ receiver.count = LaneSize
  /\ s_rx_head' = receiver.next_head
  /\ receiver' = Idle
  /\ received' = received + LaneSize
  /\ UNCHANGED <<s_rx_buffer, s_rx_tail, s_buffer_type, command, playing,
                 tx_bit_index, tx_current_byte>>

-----------------------------------------------------------------------------
(* transmission_isr                                                        *)

NextBit == IF tx_bit_index = Bits - 1 THEN 0 ELSE tx_bit_index + 1

(* Mutant: a byte is taken only when another one waits behind it.          *)
TakeAllButOne ==
  /\ playing
  /\ Available > 1
  /\ tx_bit_index = 0
  /\ tx_current_byte' = s_rx_buffer[s_rx_tail]
  /\ s_rx_tail' = After(s_rx_tail)
  /\ tx_bit_index' = NextBit
  /\ UNCHANGED <<s_rx_buffer, s_rx_head, s_buffer_type, receiver, command,
                 playing, received>>

(* A byte is taken when its first bit is due.                              *)
TakeByte ==
  /\ playing
  /\ Available > 0
  /\ tx_bit_index = 0
  /\ tx_current_byte' = s_rx_buffer[s_rx_tail]
  /\ s_rx_tail' = After(s_rx_tail)
  /\ tx_bit_index' = NextBit
  /\ UNCHANGED <<s_rx_buffer, s_rx_head, s_buffer_type, receiver, command,
                 playing, received>>

PlayBit ==
  /\ playing
  /\ Available > 0
  /\ tx_bit_index # 0
  /\ tx_bit_index' = NextBit
  /\ UNCHANGED <<s_rx_buffer, s_rx_head, s_rx_tail, s_buffer_type, receiver,
                 command, playing, tx_current_byte, received>>

(* Nothing waits: the pin is low, and the next byte starts afresh.         *)
PlayNothing ==
  /\ playing
  /\ Available = 0
  /\ tx_bit_index' = 0
  /\ UNCHANGED <<s_rx_buffer, s_rx_head, s_rx_tail, s_buffer_type, receiver,
                 command, playing, tx_current_byte, received>>

-----------------------------------------------------------------------------
CommandTask == Start \/ StartTimer \/ Stop \/ Flush
Receiver == BeginLane \/ WriteByte \/ Publish
Interrupt == TakeByte \/ PlayBit \/ PlayNothing

Next == CommandTask \/ Receiver \/ Interrupt

Spec == Init /\ [][Next]_vars

(* The interrupt comes again and again.                                    *)
FairSpec == Spec /\ WF_vars(Interrupt)

-----------------------------------------------------------------------------
Taking == s_buffer_type = "CIRCULAR"

(* The n-th slot from a slot on, which is the first.                       *)
From(slot, n) ==
  IF slot + n - 1 < Size THEN slot + n - 1 ELSE slot + n - 1 - Size

(* The bytes from the tail to the head are the queue of a ByteQueue that   *)
(* holds one byte less than the ring.                                      *)
Waiting == [n \in 1 .. Available |-> s_rx_buffer[From(s_rx_tail, n)]]

Queue == INSTANCE ByteQueue
           WITH Capacity <- Size - 1,
                open     <- Taking,
                queue    <- IF Taking THEN Waiting ELSE <<>>,
                offered  <- IF Taking THEN received ELSE 0,
                last     <- IF Taking THEN tx_current_byte ELSE 0

-----------------------------------------------------------------------------
(* Properties.                                                             *)

(* If a command waits for the receiving task to finish its lane, the ring  *)
(* implements a queue of bytes: although interrupt and receiving task      *)
(* share it without a lock, the bytes are taken in the order in which      *)
(* they were sent, each once, and a lane is lost, as a whole, only when    *)
(* there is no room for it.                                                *)
QueueSpec == Queue!Spec

(* A byte that is begun is played to its last bit: stm/README.md, section  *)
(* 6.10, whose contract the ESP32 firmware follows: START "consumes        *)
(* incoming stream bits".                                                  *)
BytesArePlayedToTheEnd ==
  [][playing /\ playing' /\ tx_bit_index # 0 /\ tx_bit_index' = 0
       => tx_bit_index = Bits - 1]_vars

(* When a transmission is over, nothing is left in the buffer:             *)
(* stm/README.md, section 6.10: "When done: flushes/frees RX buffer".  A   *)
(* STOP that comes between the receiving task's test of the mode and its   *)
(* writing of the head (Overlap = TRUE) leaves a lane behind.              *)
EmptyWhenOver ==
  ~Taking /\ command = "ready" => Available = 0

(* The interrupt takes every byte out of the buffer, unless the            *)
(* transmission is stopped: with full rings, refused lanes and wraps none  *)
(* is left behind.  That it is then played to its last bit is              *)
(* BytesArePlayedToTheEnd, which is not true of the byte that empties the  *)
(* ring.                                                                   *)
EveryByteIsTaken ==
  \A n \in 1 .. MaxByte :
    playing /\ Available > 0 /\ s_rx_buffer[s_rx_tail] = n
      ~> tx_current_byte >= n \/ ~playing
=============================================================================
