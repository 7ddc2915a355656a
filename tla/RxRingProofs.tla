----------------------------- MODULE RxRingProofs -----------------------------
(* Proofs about the receive ring, for every size of ring and lane.         *)
EXTENDS RxRing, SequenceTheorems, TLAPS

-----------------------------------------------------------------------------
(* Types.                                                                  *)

LEMMA NextSlot ==
  ASSUME NEW slot \in Slot PROVE After(slot) \in Slot
BY RingAssumption DEF Slot, After

LEMMA InitType == Init => TypeOK
<1> SUFFICES ASSUME Init PROVE TypeOK
  OBVIOUS
<1>1. 0 \in Slot /\ 0 \in Byte /\ 0 \in 0 .. Bits - 1
  BY RingAssumption DEF Slot, Byte
<1> QED
  BY <1>1 DEF Init, TypeOK

LEMMA ClearType ==
  ASSUME Clear
  PROVE  s_rx_buffer' \in [Slot -> Byte] /\ s_rx_head' \in Slot /\ s_rx_tail' \in Slot
<1>1. 0 \in Slot /\ 0 \in Byte
  BY RingAssumption DEF Slot, Byte
<1> QED
  BY <1>1 DEF Clear

(* The room of a lane that is being written, in the numbering of bytes: a  *)
(* lane is begun only if its bytes have numbers.                           *)
LaneHasNumbers == receiver # Idle => received + LaneSize <= MaxByte

Typed == TypeOK /\ LaneHasNumbers

LEMMA StepType == Typed /\ [Next]_vars => Typed'
<1> SUFFICES ASSUME Typed, [Next]_vars PROVE Typed'
  OBVIOUS
<1> USE RingAssumption DEF Typed, TypeOK, LaneHasNumbers, Byte
<1>0. 0 \in Byte /\ 0 \in 0 .. Bits - 1 /\ NextBit \in 0 .. Bits - 1
  BY DEF NextBit
<1>1. CASE Start
  BY <1>1, <1>0, ClearType DEF Start, Rest
<1>2. CASE StartTimer
  BY <1>2 DEF StartTimer
<1>3. CASE Stop
  BY <1>3 DEF Stop
<1>4. CASE Flush
  BY <1>4, <1>0, ClearType DEF Flush, Rest
<1>5. CASE BeginLane
  BY <1>5 DEF BeginLane
<1>6. CASE WriteByte
  <2>1. /\ receiver \in [pc : {"write"}, next_head : Slot, count : 0 .. LaneSize]
        /\ received + LaneSize <= MaxByte
    BY <1>6 DEF WriteByte, Idle
  <2>2. received + receiver.count + 1 \in Byte
    BY <1>6, <2>1 DEF WriteByte
  <2>3. s_rx_buffer' \in [Slot -> Byte]
    BY <1>6, <2>1, <2>2 DEF WriteByte
  <2>4. CASE After(receiver.next_head) = s_rx_tail
    BY <1>6, <2>1, <2>3, <2>4 DEF WriteByte
  <2>5. CASE After(receiver.next_head) # s_rx_tail
    <3>1. After(receiver.next_head) \in Slot /\ receiver.count + 1 \in 0 .. LaneSize
      BY <1>6, <2>1, NextSlot DEF WriteByte
    <3> QED
      BY <1>6, <2>1, <2>3, <2>5, <3>1 DEF WriteByte
  <2> QED
    BY <2>4, <2>5
<1>7. CASE Publish
  <2>1. /\ receiver \in [pc : {"write"}, next_head : Slot, count : 0 .. LaneSize]
        /\ received + LaneSize <= MaxByte
    BY <1>7 DEF Publish, Idle
  <2> QED
    BY <1>7, <2>1 DEF Publish
<1>8. CASE TakeByte
  BY <1>8, <1>0, NextSlot DEF TakeByte
<1>9. CASE PlayBit
  BY <1>9, <1>0 DEF PlayBit
<1>10. CASE PlayNothing
  BY <1>10, <1>0 DEF PlayNothing
<1>11. CASE UNCHANGED vars
  BY <1>11 DEF vars
<1> QED
  BY <1>1, <1>2, <1>3, <1>4, <1>5, <1>6, <1>7, <1>8, <1>9, <1>10, <1>11
     DEF Next, CommandTask, Receiver, Interrupt

LEMMA TypedAlways == Spec => []Typed
<1>1. Init => Typed
  BY InitType DEF Init, Typed, LaneHasNumbers
<1> QED
  BY <1>1, StepType, PTL DEF Spec

(* Every variable keeps its type, whatever the sizes of ring and lane, and *)
(* also where commands overtake the receiving task.                        *)
THEOREM TypeCorrect == Spec => []TypeOK
<1>1. Typed => TypeOK
  BY DEF Typed
<1> QED
  BY <1>1, TypedAlways, PTL

-----------------------------------------------------------------------------
(* The geometry of the ring.                                               *)

(* From the tail the ring has Size slots, one after the other, and the     *)
(* head is the one after the bytes that wait.                              *)
LEMMA Geometry ==
  ASSUME s_rx_head \in Slot, s_rx_tail \in Slot
  PROVE  /\ Available \in 0 .. Size - 1
         /\ \A n \in 1 .. Size : From(s_rx_tail, n) \in Slot
         /\ \A m, n \in 1 .. Size : From(s_rx_tail, m) = From(s_rx_tail, n) => m = n
         /\ \A n \in 1 .. Size - 1 : After(From(s_rx_tail, n)) = From(s_rx_tail, n + 1)
         /\ After(From(s_rx_tail, Size)) = s_rx_tail
         /\ From(s_rx_tail, 1) = s_rx_tail
         /\ From(s_rx_tail, Available + 1) = s_rx_head
BY RingAssumption DEF Slot, Available, From, After

(* A step that leaves the indices alone leaves the geometry alone.         *)
LEMMA SameGeometry ==
  ASSUME s_rx_head' = s_rx_head, s_rx_tail' = s_rx_tail
  PROVE  Available' = Available
BY DEF Available

(* After a step of the tail, the n-th slot is the one after the old n-th.  *)
LEMMA TailMoves ==
  ASSUME s_rx_head \in Slot, s_rx_tail \in Slot, Available > 0,
         s_rx_head' = s_rx_head, s_rx_tail' = After(s_rx_tail)
  PROVE  /\ Available' = Available - 1
         /\ \A n \in 1 .. Size - 1 : From(s_rx_tail', n) = From(s_rx_tail, n + 1)
BY RingAssumption DEF Slot, Available, From, After

-----------------------------------------------------------------------------
(* The inductive invariant, where commands wait for the receiving task.    *)

(* A lane is written while a transmission is open and no command is under  *)
(* way.  Its bytes follow the bytes that wait, in order, and one slot      *)
(* stays free.                                                             *)
LaneInProgress ==
  receiver # Idle =>
    /\ Taking
    /\ command = "ready"
    /\ Available + receiver.count < Size
    /\ receiver.next_head = From(s_rx_tail, Available + receiver.count + 1)
    /\ \A n \in 1 .. receiver.count :
         s_rx_buffer[From(s_rx_tail, Available + n)] = received + n

(* Nothing is played, and nothing waits, outside a transmission.           *)
Closed ==
  /\ playing => Taking
  /\ command = "flush" => ~Taking
  /\ ~Taking /\ command = "ready" => s_rx_head = s_rx_tail

Inv == Typed /\ LaneInProgress /\ Closed

LEMMA InitInv == Init => Inv
<1> SUFFICES ASSUME Init PROVE Inv
  OBVIOUS
<1>1. Typed
  BY InitType DEF Init, Typed, LaneHasNumbers
<1> QED
  BY <1>1 DEF Init, Inv, LaneInProgress, Closed

LEMMA StepInv == ASSUME ~Overlap PROVE Inv /\ [Next]_vars => Inv'
<1> SUFFICES ASSUME Inv, [Next]_vars PROVE Inv'
  OBVIOUS
<1>0. Typed' /\ Typed
  BY StepType DEF Inv
<1>t. /\ s_rx_head \in Slot /\ s_rx_tail \in Slot /\ s_rx_buffer \in [Slot -> Byte]
      /\ command \in {"ready", "flush"}
      /\ receiver # Idle =>
           receiver \in [pc : {"write"}, next_head : Slot, count : 0 .. LaneSize]
  BY <1>0 DEF Typed, TypeOK
<1> SUFFICES LaneInProgress' /\ Closed'
  BY <1>0 DEF Inv
<1> USE DEF Inv
<1>1. CASE Start
  BY <1>1 DEF Start, CommandRuns, Clear, LaneInProgress, Closed, Taking
<1>2. CASE StartTimer
  BY <1>2, SameGeometry DEF StartTimer, LaneInProgress, Closed, Taking
<1>3. CASE Stop
  BY <1>3 DEF Stop, CommandRuns, LaneInProgress, Closed, Taking
<1>4. CASE Flush
  BY <1>4 DEF Flush, CommandRuns, Clear, LaneInProgress, Closed, Taking
<1>5. CASE BeginLane
  <2>1. receiver' = [pc |-> "write", next_head |-> s_rx_head, count |-> 0]
    BY <1>5 DEF BeginLane
  <2>2. Available' = Available /\ s_rx_tail' = s_rx_tail
    BY <1>5, SameGeometry DEF BeginLane
  <2>3. Available \in 0 .. Size - 1 /\ From(s_rx_tail, Available + 1) = s_rx_head
    BY <1>t, Geometry
  <2>4. LaneInProgress'
    <3>1. Taking' /\ command' = "ready"
      BY <1>5, <1>t DEF BeginLane, Closed, Taking
    <3> QED
      BY <2>1, <2>2, <2>3, <3>1, RingAssumption DEF LaneInProgress
  <2> QED
    BY <1>5, <2>4 DEF BeginLane, Closed, Taking
<1>6. CASE WriteByte
  <2>1. /\ receiver \in [pc : {"write"}, next_head : Slot, count : 0 .. LaneSize]
        /\ receiver # Idle
        /\ receiver.count < LaneSize
    BY <1>6, <1>t DEF WriteByte, Idle
  <2>2. Available' = Available /\ s_rx_tail' = s_rx_tail
    BY <1>6, SameGeometry DEF WriteByte
  <2>3. Available \in 0 .. Size - 1
    BY <1>t, Geometry
  <2>4. CASE After(receiver.next_head) = s_rx_tail
    BY <1>6, <2>4 DEF WriteByte, LaneInProgress, Closed, Taking
  <2>5. CASE After(receiver.next_head) # s_rx_tail
    <3> DEFINE end == Available + receiver.count + 1
    <3>1. end \in 1 .. Size /\ receiver.next_head = From(s_rx_tail, end)
      BY <2>1, <2>3, RingAssumption DEF LaneInProgress
    <3>2. end # Size
      BY <3>1, <2>5, <1>t, Geometry
    <3>3. After(receiver.next_head) = From(s_rx_tail, end + 1)
      BY <3>1, <3>2, <1>t, Geometry, RingAssumption
    <3>4. receiver' = [pc |-> "write", next_head |-> From(s_rx_tail, end + 1),
                       count |-> receiver.count + 1]
      BY <1>6, <2>5, <3>3 DEF WriteByte
    <3>5. ASSUME NEW n \in 1 .. receiver.count + 1
          PROVE  s_rx_buffer'[From(s_rx_tail, Available + n)] = received + n
      <4>1. s_rx_buffer' = [s_rx_buffer EXCEPT ![From(s_rx_tail, end)]
                              = received + receiver.count + 1]
        BY <1>6, <3>1 DEF WriteByte
      <4>. Available + n \in 1 .. Size
        BY <2>1, <2>3, <3>1, RingAssumption
      <4>2. From(s_rx_tail, Available + n) \in Slot /\ From(s_rx_tail, end) \in Slot
        BY <3>1, <1>t, Geometry
      <4>3. CASE n = receiver.count + 1
        <5>1. Available + n = end /\ received + n = received + receiver.count + 1
          BY <4>3, <2>1, <2>3, <1>0 DEF Typed, TypeOK, Byte
        <5> HIDE DEF end
        <5> QED
          BY <4>1, <4>2, <5>1, <1>t
      <4>4. CASE n \in 1 .. receiver.count
        <5>1. From(s_rx_tail, Available + n) # From(s_rx_tail, end)
          BY <4>4, <4>2, <3>1, <2>1, <2>3, <1>t, Geometry
        <5>2. s_rx_buffer[From(s_rx_tail, Available + n)] = received + n
          BY <4>4, <2>1 DEF LaneInProgress
        <5> QED
          BY <4>1, <4>2, <5>1, <5>2, <1>t
      <4> QED
        BY <4>3, <4>4, <2>1
    <3>6. Taking' /\ command' = "ready" /\ received' = received
      BY <1>6, <2>1, <2>5 DEF WriteByte, LaneInProgress, Taking
    <3>7. receiver'.count = receiver.count + 1
          /\ receiver'.next_head = From(s_rx_tail, Available + receiver'.count + 1)
          /\ Available + receiver'.count < Size
      BY <3>4, <3>1, <3>2, <2>1, <2>3, RingAssumption
    <3>8. LaneInProgress'
      BY <2>2, <3>5, <3>6, <3>7 DEF LaneInProgress
    <3> QED
      BY <1>6, <3>8 DEF WriteByte, Closed, Taking
  <2> QED
    BY <2>4, <2>5
<1>7. CASE Publish
  <2>1. receiver # Idle
    BY <1>7 DEF Publish, Idle
  <2> QED
    BY <1>7, <2>1 DEF Publish, LaneInProgress, Closed, Taking
<1>8. CASE TakeByte
  <2>1. /\ Available > 0
        /\ s_rx_head' = s_rx_head /\ s_rx_tail' = After(s_rx_tail)
        /\ receiver' = receiver /\ received' = received /\ s_rx_buffer' = s_rx_buffer
        /\ command' = command /\ Taking' = Taking /\ playing' = playing
    BY <1>8 DEF TakeByte, Taking
  <2>2. /\ Available' = Available - 1
        /\ \A n \in 1 .. Size - 1 : From(s_rx_tail', n) = From(s_rx_tail, n + 1)
    BY <2>1, <1>t, TailMoves
  <2>3. Available \in 1 .. Size - 1
    BY <2>1, <1>t, Geometry
  <2>4. ASSUME receiver # Idle
        PROVE  /\ Available' + receiver.count < Size
               /\ receiver.next_head = From(s_rx_tail', Available' + receiver.count + 1)
               /\ \A n \in 1 .. receiver.count :
                    s_rx_buffer[From(s_rx_tail', Available' + n)] = received + n
    <3>1. /\ receiver.count \in Nat
          /\ Available + receiver.count < Size
          /\ receiver.next_head = From(s_rx_tail, Available + receiver.count + 1)
          /\ \A n \in 1 .. receiver.count :
               s_rx_buffer[From(s_rx_tail, Available + n)] = received + n
      BY <2>4, <1>t DEF LaneInProgress
    <3>2. \A n \in 1 .. receiver.count + 1 :
            From(s_rx_tail', Available' + n) = From(s_rx_tail, Available + n)
      <4> TAKE n \in 1 .. receiver.count + 1
      <4>1. Available' + n \in 1 .. Size - 1 /\ Available' + n + 1 = Available + n
        BY <2>2, <2>3, <3>1, RingAssumption
      <4> QED
        BY <4>1, <2>2
    <3>3. From(s_rx_tail', Available' + (receiver.count + 1))
            = From(s_rx_tail, Available + (receiver.count + 1))
      BY <3>1, <3>2
    <3> QED
      BY <2>2, <2>3, <3>1, <3>2, <3>3, RingAssumption DEF From
  <2>5. Taking
    BY <1>8 DEF TakeByte, Closed
  <2> QED
    BY <2>1, <2>4, <2>5 DEF LaneInProgress, Closed
<1>9. CASE PlayBit
  BY <1>9, SameGeometry DEF PlayBit, LaneInProgress, Closed, Taking
<1>10. CASE PlayNothing
  BY <1>10, SameGeometry DEF PlayNothing, LaneInProgress, Closed, Taking
<1>11. CASE UNCHANGED vars
  BY <1>11, SameGeometry DEF vars, LaneInProgress, Closed, Taking
<1> QED
  BY <1>1, <1>2, <1>3, <1>4, <1>5, <1>6, <1>7, <1>8, <1>9, <1>10, <1>11
     DEF Next, CommandTask, Receiver, Interrupt

LEMMA InvAlways == ASSUME ~Overlap PROVE Spec => []Inv
BY InitInv, StepInv, PTL DEF Spec

-----------------------------------------------------------------------------
(* The refinement.                                                         *)

(* A function on 1 .. k is a sequence: its length, first element and tail. *)
LEMMA FunctionsAreSequences ==
  ASSUME NEW S, NEW k \in Nat, NEW s \in [1 .. k -> S]
  PROVE  s \in Seq(S) /\ Len(s) = k
OBVIOUS

LEMMA HeadAndTail ==
  ASSUME NEW S, NEW k \in Nat \ {0}, NEW s \in [1 .. k -> S]
  PROVE  /\ s # <<>>
         /\ Head(s) = s[1]
         /\ Tail(s) \in [1 .. k - 1 -> S]
         /\ \A n \in 1 .. k - 1 : Tail(s)[n] = s[n + 1]
<1>1. s \in Seq(S) /\ Len(s) = k /\ s # <<>>
  BY FunctionsAreSequences
<1>2. /\ Tail(s) \in Seq(S)
      /\ Len(Tail(s)) = k - 1
      /\ \A n \in 1 .. k - 1 : Tail(s)[n] = s[n + 1]
  BY <1>1, HeadTailProperties
<1>3. Tail(s) \in [1 .. k - 1 -> S]
  BY <1>2, LenProperties
<1>4. Head(s) = s[1]
  BY <1>1
<1> QED
  BY <1>1, <1>2, <1>3, <1>4

LEMMA Concatenation ==
  ASSUME NEW k \in Nat, NEW s \in [1 .. k -> Nat],
         NEW l \in Nat, NEW t \in [1 .. l -> Nat]
  PROVE  /\ s \o t \in [1 .. k + l -> Nat]
         /\ \A n \in 1 .. k + l : (s \o t)[n] = IF n <= k THEN s[n] ELSE t[n - k]
<1>1. s \in Seq(Nat) /\ Len(s) = k /\ t \in Seq(Nat) /\ Len(t) = l
  BY FunctionsAreSequences
<1>2. /\ s \o t \in Seq(Nat)
      /\ Len(s \o t) = k + l
      /\ \A n \in 1 .. k + l : (s \o t)[n] = IF n <= k THEN s[n] ELSE t[n - k]
  BY <1>1, ConcatProperties
<1>3. s \o t \in [1 .. k + l -> Nat]
  BY <1>2, LenProperties
<1> QED
  BY <1>2, <1>3

LEMMA WaitingType ==
  ASSUME TypeOK
  PROVE  Waiting \in [1 .. Available -> Byte] /\ Available \in 0 .. Size - 1
<1>1. Available \in 0 .. Size - 1
      /\ \A n \in 1 .. Size : From(s_rx_tail, n) \in Slot
  BY Geometry DEF TypeOK
<1>2. \A n \in 1 .. Available : s_rx_buffer[From(s_rx_tail, n)] \in Byte
  BY <1>1, RingAssumption DEF TypeOK
<1> QED
  BY <1>1, <1>2 DEF Waiting

LEMMA InitQueue == Init => Queue!Init
BY DEF Init, Taking, Queue!Init, Queue!Empty

LEMMA StepQueue ==
  ASSUME ~Overlap PROVE Inv /\ Inv' /\ [Next]_vars => [Queue!Next]_(Queue!vars)
<1> SUFFICES ASSUME Inv, Inv', [Next]_vars PROVE [Queue!Next]_(Queue!vars)
  OBVIOUS
<1>t. TypeOK /\ TypeOK'
  BY DEF Inv, Typed
<1>l. receiver # Idle =>
        receiver \in [pc : {"write"}, next_head : Slot, count : 0 .. LaneSize]
  BY <1>t DEF TypeOK
<1>1. CASE Start
  <2>1. ~Taking /\ Taking' /\ received' = 0 /\ tx_current_byte' = 0
    BY <1>1 DEF Start, Taking, Rest
  <2>2. Available' = 0
    BY <1>1, RingAssumption DEF Start, Clear, Available
  <2>3. Waiting' = <<>>
    BY <2>2 DEF Waiting
  <2>4. Queue!Open
    BY <2>1, <2>3 DEF Queue!Open, Queue!Empty
  <2> QED
    BY <2>4 DEF Queue!Next
<1>3. CASE Stop
  <2>1. Taking /\ ~Taking'
    BY <1>3 DEF Stop, Taking
  <2>2. Queue!Close
    BY <2>1 DEF Queue!Close, Queue!Empty
  <2> QED
    BY <2>2 DEF Queue!Next
<1>4. CASE Flush
  <2>1. ~Taking /\ s_buffer_type' = s_buffer_type
    BY <1>4 DEF Flush, Inv, Closed
  <2> QED
    BY <2>1 DEF Queue!vars, Taking
<1>6. CASE WriteByte
  <2>1. /\ receiver # Idle
        /\ receiver \in [pc : {"write"}, next_head : Slot, count : 0 .. LaneSize]
        /\ receiver.count < LaneSize
    BY <1>6, <1>l DEF WriteByte, Idle
  <2>2. /\ Taking /\ Taking'
        /\ Available + receiver.count < Size
        /\ receiver.next_head = From(s_rx_tail, Available + receiver.count + 1)
    BY <1>6, <2>1 DEF WriteByte, Inv, LaneInProgress, Taking
  <2>3. Available' = Available /\ s_rx_tail' = s_rx_tail /\ tx_current_byte' = tx_current_byte
    BY <1>6, SameGeometry DEF WriteByte
  <2>4. Available \in 0 .. Size - 1
    BY <1>t, WaitingType
  <2>5. Waiting' = Waiting
    <3>1. ASSUME NEW n \in 1 .. Available
          PROVE  s_rx_buffer'[From(s_rx_tail, n)] = s_rx_buffer[From(s_rx_tail, n)]
      <4>1. n \in 1 .. Size /\ Available + receiver.count + 1 \in 1 .. Size
            /\ n # Available + receiver.count + 1
        BY <2>1, <2>2, <2>4, RingAssumption
      <4>2. From(s_rx_tail, n) # receiver.next_head
        BY <4>1, <2>2, <1>t, Geometry DEF TypeOK
      <4> QED
        BY <1>6, <4>2, <1>t DEF WriteByte, TypeOK
    <3> QED
      BY <2>3, <3>1 DEF Waiting
  <2>6. CASE After(receiver.next_head) = s_rx_tail
    <3>1. Available + receiver.count + 1 = Size
      <4>1. Available + receiver.count + 1 \in 1 .. Size
        BY <2>1, <2>2, <2>4, RingAssumption
      <4>2. SUFFICES ASSUME Available + receiver.count + 1 \in 1 .. Size - 1 PROVE FALSE
        BY <4>1, RingAssumption
      <4>3. After(receiver.next_head)
              = From(s_rx_tail, (Available + receiver.count + 1) + 1)
        BY <2>2, <4>2, <1>t, Geometry DEF TypeOK
      <4>4. (Available + receiver.count + 1) + 1 \in 1 .. Size
            /\ (Available + receiver.count + 1) + 1 # 1 /\ 1 \in 1 .. Size
        BY <4>2, RingAssumption
      <4> QED
        BY <4>3, <4>4, <2>6, <1>t, Geometry DEF TypeOK
    <3>2. Len(Waiting) + LaneSize > Size - 1
      <4>1. Len(Waiting) = Available
        BY <1>t, WaitingType, FunctionsAreSequences
      <4> QED
        BY <3>1, <4>1, <2>1, <2>4, RingAssumption
    <3>3. received' = received + LaneSize
      BY <1>6, <2>6 DEF WriteByte
    <3>4. Queue!Refuse
      BY <2>2, <2>3, <2>5, <3>2, <3>3 DEF Queue!Refuse
    <3> QED
      BY <3>4 DEF Queue!Next
  <2>7. CASE After(receiver.next_head) # s_rx_tail
    <3>1. received' = received
      BY <1>6, <2>7 DEF WriteByte
    <3> QED
      BY <2>2, <2>3, <2>5, <3>1 DEF Queue!vars
  <2> QED
    BY <2>6, <2>7
<1>7. CASE Publish
  <2>1. /\ receiver # Idle
        /\ receiver.count = LaneSize
    BY <1>7 DEF Publish, Idle
  <2>2. /\ Taking /\ Taking'
        /\ Available + LaneSize < Size
        /\ s_rx_head' = From(s_rx_tail, Available + LaneSize + 1)
        /\ \A n \in 1 .. LaneSize :
             s_rx_buffer[From(s_rx_tail, Available + n)] = received + n
    BY <1>7, <2>1 DEF Publish, Inv, LaneInProgress, Taking
  <2>3. /\ s_rx_tail' = s_rx_tail /\ s_rx_buffer' = s_rx_buffer
        /\ tx_current_byte' = tx_current_byte /\ received' = received + LaneSize
    BY <1>7 DEF Publish
  <2>4. Available \in 0 .. Size - 1 /\ Waiting \in [1 .. Available -> Byte]
        /\ Waiting \in [1 .. Available -> Nat]
    BY <1>t, WaitingType DEF Byte
  <2>5. Available' = Available + LaneSize
    BY <2>2, <2>3, <2>4, <1>t, RingAssumption DEF Available, From, TypeOK, Slot
  <2> DEFINE lane == [i \in 1 .. LaneSize |-> received + i]
  <2>6. lane \in [1 .. LaneSize -> Nat]
    BY <1>t, RingAssumption DEF TypeOK, Byte
  <2>7. /\ Waiting \o lane \in [1 .. Available + LaneSize -> Nat]
        /\ \A n \in 1 .. Available + LaneSize :
             (Waiting \o lane)[n]
               = IF n <= Available THEN Waiting[n] ELSE lane[n - Available]
    <3> HIDE DEF lane
    <3>1. Available \in Nat /\ LaneSize \in Nat
      BY <2>4, RingAssumption
    <3> QED
      BY <2>4, <2>6, <3>1, Concatenation
  <2>8. Waiting' = Waiting \o lane
    <3>1. ASSUME NEW n \in 1 .. Available + LaneSize
          PROVE  s_rx_buffer[From(s_rx_tail, n)]
                   = IF n <= Available THEN Waiting[n] ELSE lane[n - Available]
      <4>1. CASE n <= Available
        BY <4>1, <2>4 DEF Waiting
      <4>2. CASE ~(n <= Available)
        <5>1. n - Available \in 1 .. LaneSize /\ Available + (n - Available) = n
          BY <4>2, <2>4, RingAssumption
        <5>2. s_rx_buffer[From(s_rx_tail, Available + (n - Available))]
                = received + (n - Available)
          BY <5>1, <2>2
        <5> QED
          BY <4>2, <5>1, <5>2
      <4> QED
        BY <4>1, <4>2
    <3>2. Waiting' = [n \in 1 .. Available + LaneSize |-> s_rx_buffer[From(s_rx_tail, n)]]
      BY <2>3, <2>5 DEF Waiting
    <3> HIDE DEF lane
    <3> QED
      BY <3>1, <3>2, <2>7
  <2>9. Len(Waiting) + LaneSize <= Size - 1
    <3>1. Len(Waiting) = Available
      BY <2>4, FunctionsAreSequences
    <3> QED
      BY <3>1, <2>2, <2>4, RingAssumption
  <2>10. Queue!Put
    BY <2>2, <2>3, <2>8, <2>9 DEF Queue!Put, Queue!Lane
  <2> QED
    BY <2>10 DEF Queue!Next
<1>8. CASE TakeByte
  <2>1. /\ Available > 0
        /\ tx_current_byte' = s_rx_buffer[s_rx_tail]
        /\ s_rx_head' = s_rx_head /\ s_rx_tail' = After(s_rx_tail)
        /\ s_rx_buffer' = s_rx_buffer /\ received' = received
        /\ Taking /\ Taking'
    BY <1>8 DEF TakeByte, Taking, Inv, Closed
  <2>2. /\ Available' = Available - 1
        /\ \A n \in 1 .. Size - 1 : From(s_rx_tail', n) = From(s_rx_tail, n + 1)
    BY <2>1, <1>t, TailMoves DEF TypeOK
  <2>3. Available \in 1 .. Size - 1 /\ Waiting \in [1 .. Available -> Byte]
        /\ From(s_rx_tail, 1) = s_rx_tail
    BY <2>1, <1>t, WaitingType, Geometry DEF TypeOK
  <2>4. /\ Waiting # <<>>
        /\ Head(Waiting) = Waiting[1]
        /\ Tail(Waiting) \in [1 .. Available - 1 -> Byte]
        /\ \A n \in 1 .. Available - 1 : Tail(Waiting)[n] = Waiting[n + 1]
    <3>1. Available \in Nat \ {0}
      BY <2>3
    <3>2. \A k \in Nat \ {0} : \A s \in [1 .. k -> Byte] :
            /\ s # <<>>
            /\ Head(s) = s[1]
            /\ Tail(s) \in [1 .. k - 1 -> Byte]
            /\ \A n \in 1 .. k - 1 : Tail(s)[n] = s[n + 1]
      BY HeadAndTail
    <3> QED
      BY <2>3, <3>1, <3>2, Zenon
  <2>5. Head(Waiting) = tx_current_byte'
    BY <2>1, <2>3, <2>4 DEF Waiting
  <2>6. Tail(Waiting) = Waiting'
    <3>1. ASSUME NEW n \in 1 .. Available - 1
          PROVE  Waiting[n + 1] = s_rx_buffer[From(s_rx_tail', n)]
      <4>1. n \in 1 .. Size - 1 /\ n + 1 \in 1 .. Available
        BY <2>3, RingAssumption
      <4> QED
        BY <4>1, <2>2 DEF Waiting
    <3>2. Waiting' = [n \in 1 .. Available - 1 |-> s_rx_buffer[From(s_rx_tail', n)]]
      BY <2>1, <2>2 DEF Waiting
    <3> QED
      BY <2>4, <3>1, <3>2
  <2>7. Queue!Take
    BY <2>1, <2>4, <2>5, <2>6 DEF Queue!Take
  <2> QED
    BY <2>7 DEF Queue!Next
<1>9. CASE UNCHANGED <<s_rx_buffer, s_rx_head, s_rx_tail, s_buffer_type,
                       received, tx_current_byte>>
  BY <1>9, SameGeometry DEF Queue!vars, Waiting, Taking
<1> QED
  BY <1>1, <1>3, <1>4, <1>6, <1>7, <1>8, <1>9
     DEF Next, CommandTask, Receiver, Interrupt, StartTimer, BeginLane, PlayBit,
         PlayNothing, vars

(* Where commands wait for the receiving task, the ring implements a queue *)
(* of bytes that takes whole lanes, for every size of ring and lane.       *)
THEOREM ImplementsQueue == ASSUME ~Overlap PROVE Spec => QueueSpec
BY InitQueue, StepQueue, InvAlways, PTL DEF Spec, QueueSpec, Queue!Spec
-----------------------------------------------------------------------------
(* The order of the bytes.                                                 *)

(* A byte that is taken was sent after every byte that was taken before it *)
(* in the same transmission: none is played twice, and none is overtaken.  *)
PlayedInOrder == [][TakeByte => tx_current_byte < tx_current_byte']_vars

(* The n-th byte that waits.                                               *)
Nth(n) == s_rx_buffer[From(s_rx_tail, n)]

(* The bytes that wait come after the one that is played, one after the    *)
(* other, and before those that are still to come.                         *)
Ascending ==
  Taking =>
    /\ \A n \in 1 .. Available : tx_current_byte < Nth(n) /\ Nth(n) <= received
    /\ \A m, n \in 1 .. Available : m < n => Nth(m) < Nth(n)
    /\ tx_current_byte <= received

LEMMA StepAscending ==
  ASSUME ~Overlap, Inv, Ascending, [Next]_vars
  PROVE  Ascending'
<1>0. /\ s_rx_head \in Slot /\ s_rx_tail \in Slot /\ s_rx_buffer \in [Slot -> Byte]
      /\ received \in Nat /\ tx_current_byte \in Nat
      /\ command \in {"ready", "flush"}
      /\ receiver # Idle =>
           receiver \in [pc : {"write"}, next_head : Slot, count : 0 .. LaneSize]
  BY DEF Inv, Typed, TypeOK, Byte
<1>1. /\ Available \in 0 .. Size - 1
      /\ \A n \in 1 .. Available : From(s_rx_tail, n) \in Slot /\ Nth(n) \in Nat
  BY <1>0, Geometry, RingAssumption DEF Nth, Byte
<1>2. CASE Start
  <2>1. Available' = 0 /\ tx_current_byte' = 0 /\ received' = 0
    BY <1>2 DEF Start, Clear, Rest, Available
  <2> QED
    BY <2>1 DEF Ascending
<1>3. CASE Stop \/ Flush
  <2>1. ~Taking'
    BY <1>3 DEF Stop, Flush, Inv, Closed, Taking
  <2> QED
    BY <2>1 DEF Ascending
<1>4. CASE WriteByte
  <2>1. /\ receiver \in [pc : {"write"}, next_head : Slot, count : 0 .. LaneSize]
        /\ receiver # Idle
    BY <1>4, <1>0 DEF WriteByte, Idle
  <2>2. /\ UNCHANGED <<s_rx_head, s_rx_tail, s_buffer_type, tx_current_byte>>
        /\ received' \in {received, received + LaneSize}
        /\ s_rx_buffer' = [s_rx_buffer EXCEPT ![receiver.next_head]
                             = received + receiver.count + 1]
    BY <1>4 DEF WriteByte
  <2>3. /\ receiver.next_head = From(s_rx_tail, Available + receiver.count + 1)
        /\ Available + receiver.count + 1 \in 1 .. Size
    BY <2>1, <1>1, RingAssumption DEF Inv, LaneInProgress
  <2>4. ASSUME NEW n \in 1 .. Available
        PROVE  From(s_rx_tail, n) # receiver.next_head
    <3>1. /\ n \in 1 .. Size
          /\ n # Available + receiver.count + 1
      BY <2>1, <1>1, RingAssumption
    <3> QED
      BY <2>3, <3>1, <1>0, Geometry
  <2>5. Available' = Available /\ \A n \in 1 .. Available : Nth(n)' = Nth(n)
    BY <2>2, <2>4, <1>0, <1>1, SameGeometry DEF Nth, From
  <2>6. received <= received' /\ received' \in Nat
    BY <2>2, <1>0, RingAssumption
  <2> QED
    BY <2>2, <2>5, <2>6, <1>0, <1>1 DEF Ascending, Taking
<1>5. CASE Publish
  <2>1. /\ receiver \in [pc : {"write"}, next_head : Slot, count : 0 .. LaneSize]
        /\ receiver # Idle /\ receiver.count = LaneSize
    BY <1>5, <1>0 DEF Publish, Idle
  <2>2. /\ s_rx_head' = receiver.next_head /\ received' = received + LaneSize
        /\ UNCHANGED <<s_rx_buffer, s_rx_tail, s_buffer_type, tx_current_byte>>
    BY <1>5 DEF Publish
  <2>3. /\ receiver.next_head = From(s_rx_tail, Available + LaneSize + 1)
        /\ Available + LaneSize < Size
        /\ \A n \in 1 .. LaneSize : Nth(Available + n) = received + n
        /\ Taking
    BY <2>1 DEF Inv, LaneInProgress, Nth
  <2>4. Available' = Available + LaneSize
    BY <2>2, <2>3, <1>0, <1>1, RingAssumption DEF Available, From, Slot
  <2>5. \A n \in 1 .. Available' : Nth(n)' = Nth(n)
    BY <2>2 DEF Nth, From
  <2>6. \A n \in 1 .. Available' :
          n > Available => Nth(n) = received + (n - Available)
    <3> SUFFICES ASSUME NEW n \in 1 .. Available', n > Available
                 PROVE  Nth(n) = received + (n - Available)
      OBVIOUS
    <3>1. n - Available \in 1 .. LaneSize /\ Available + (n - Available) = n
      BY <2>4, <1>1, RingAssumption
    <3> QED
      BY <2>3, <3>1
  <2>7. /\ \A n \in 1 .. Available : tx_current_byte < Nth(n) /\ Nth(n) <= received
        /\ \A m, n \in 1 .. Available : m < n => Nth(m) < Nth(n)
        /\ tx_current_byte <= received
    BY <2>3, <1>0 DEF Ascending
  <2> QED
    BY <2>2, <2>4, <2>5, <2>6, <2>7, <1>0, <1>1, RingAssumption DEF Ascending
<1>6. CASE TakeByte
  <2>1. /\ Available > 0 /\ tx_current_byte' = s_rx_buffer[s_rx_tail]
        /\ s_rx_head' = s_rx_head /\ s_rx_tail' = After(s_rx_tail)
        /\ UNCHANGED <<s_rx_buffer, s_buffer_type, received>>
    BY <1>6 DEF TakeByte
  <2>2. /\ Available' = Available - 1
        /\ \A n \in 1 .. Available - 1 : Nth(n)' = Nth(n + 1)
    <3>1. /\ Available' = Available - 1
          /\ \A n \in 1 .. Size - 1 : From(s_rx_tail', n) = From(s_rx_tail, n + 1)
      BY <2>1, <1>0, TailMoves
    <3>2. \A n \in 1 .. Available - 1 : n \in 1 .. Size - 1
      BY <2>1, <1>1, RingAssumption
    <3> QED
      BY <2>1, <3>1, <3>2 DEF Nth
  <2>3. tx_current_byte' = Nth(1)
    BY <2>1, <1>0, Geometry DEF Nth
  <2> QED
    BY <2>1, <2>2, <2>3, <1>1 DEF Ascending, Taking
<1>7. CASE StartTimer \/ BeginLane \/ PlayBit \/ PlayNothing \/ UNCHANGED vars
  <2>1. UNCHANGED <<s_rx_buffer, s_rx_head, s_rx_tail, s_buffer_type,
                    tx_current_byte, received>>
    BY <1>7 DEF StartTimer, BeginLane, PlayBit, PlayNothing, vars
  <2>2. Available' = Available /\ \A n \in 1 .. Available : Nth(n)' = Nth(n)
    BY <2>1, SameGeometry DEF Nth, From
  <2> QED
    BY <2>1, <2>2 DEF Ascending, Taking
<1> QED
  BY <1>2, <1>3, <1>4, <1>5, <1>6, <1>7
     DEF Next, CommandTask, Receiver, Interrupt

(* Bytes are played in the order in which they were sent, each once, for   *)
(* every size of ring and lane, although interrupt and receiving task      *)
(* share the ring without a lock.                                          *)
THEOREM PlaysInOrder == ASSUME ~Overlap PROVE Spec => PlayedInOrder
<1>1. Init => Inv /\ Ascending
  BY InitInv DEF Init, Ascending, Taking
<1>2. Inv /\ Ascending /\ [Next]_vars => Inv' /\ Ascending'
  BY StepInv, StepAscending
<1>3. Inv /\ Ascending /\ [Next]_vars =>
        [TakeByte => tx_current_byte < tx_current_byte']_vars
  <2> SUFFICES ASSUME Inv, Ascending, TakeByte
               PROVE  tx_current_byte < tx_current_byte'
    OBVIOUS
  <2>1. Taking /\ Available > 0 /\ tx_current_byte' = s_rx_buffer[s_rx_tail]
    BY DEF TakeByte, Inv, Closed
  <2>2. 1 \in 1 .. Available /\ Nth(1) = s_rx_buffer[s_rx_tail]
    BY <2>1, Geometry DEF Inv, Typed, TypeOK, Nth
  <2> QED
    BY <2>1, <2>2 DEF Ascending
<1> QED
  BY <1>1, <1>2, <1>3, PTL DEF Spec, PlayedInOrder
=============================================================================
