----------------------------- MODULE ChannelProofs -----------------------------
(***************************************************************************)
(* What TLAPS proves of the command channel, for every length of the queue *)
(* and of the transmit buffer, with any host and with tasks that interrupt *)
(* one another: its types, that unless the board is crowded the command of *)
(* the host is in one place of it, and that the channel implements         *)
(* Correspondence.  Of tasks that do not interrupt one another between the *)
(* reading of the pending answer and its clearing: that the newest command *)
(* of a host is not forgotten for older ones.                              *)
(***************************************************************************)
EXTENDS Channel, TLAPS

LEMMA Bounds ==
  /\ MaxCommand \in Nat /\ MaxCommand > 1
  /\ QueueLength \in Nat /\ QueueLength > 0 /\ Fifo \in Nat /\ Fifo > 0
  /\ 0 \in Number /\ 0 \in 0 .. MaxCommand
  BY ChannelAssumption DEF Number

LEMMA Sources ==
  /\ "USB" \in Source /\ Others \subseteq Source
  /\ Source \subseteq {"USB", "WIFI"} /\ "USB" \notin Others
  BY ChannelAssumption DEF Source

LEMMA NothingIsTyped ==
  /\ <<>> \in Seq(Command) /\ <<>> \in Seq(Number) /\ Len(<<>>) = 0
  /\ Len(<<>>) <= QueueLength /\ Len(<<>>) <= Fifo
  /\ [t \in Task |-> None] \in [Task -> Frame \cup {None}]
<1>1. <<>> \in Seq(Command) /\ <<>> \in Seq(Number) /\ Len(<<>>) = 0
  OBVIOUS
<1> QED
  BY <1>1, Bounds

LEMMA NumberIsTyped ==
  ASSUME asked \in Number
  PROVE  NextNumber \in Number /\ NextNumber # 0 /\ NextNumber # asked
  BY Bounds DEF NextNumber, Number

LEMMA EnqueueIsTyped ==
  ASSUME cmd_queue \in Seq(Command), Len(cmd_queue) <= QueueLength,
         NEW c \in Command, Enqueue(c)
  PROVE  cmd_queue' \in Seq(Command) /\ Len(cmd_queue') <= QueueLength
<1>1. CASE Len(cmd_queue) < QueueLength
  BY <1>1, Bounds DEF Enqueue
<1>2. CASE ~(Len(cmd_queue) < QueueLength)
  BY <1>2 DEF Enqueue
<1> QED
  BY <1>1, <1>2

LEMMA TakeIsTyped ==
  ASSUME TypeOK, Take(Head(cmd_queue))
  PROVE  /\ Head(cmd_queue) \in Command
         /\ cmd_queue' \in Seq(Command) /\ Len(cmd_queue') <= QueueLength
         /\ UNCHANGED <<s_pending_cmd_lane, s_pending_bs_ready, sending, host, lost>>
  BY Bounds DEF TypeOK, Take

LEMMA AnsweringIsTyped ==
  ASSUME NEW c \in Command, Answering(c)
  PROVE  cmd' \in Command /\ cmd'.source = c.source /\ cmd'.n = c.n
  BY DEF Answering, Command, Op

(* command_task.                                                           *)
LEMMA CommandTaskKeepsTypes ==
  ASSUME TypeOK, CommandTask
  PROVE  TypeOK'
<1> DEFINE c == Head(cmd_queue)
<1>1. ASSUME Take(c), cmd' \in Command,
             s_active_source' \in {"NONE"} \cup Source,
             s_buffer_type' \in {"PACKET", "DOUBLE", "CIRCULAR"},
             sampling_active' \in BOOLEAN,
             sampler_stream_source' \in {"UNKNOWN"} \cup Source,
             transmission_active' \in BOOLEAN
      PROVE  TypeOK'
  BY <1>1, TakeIsTyped DEF TypeOK, sending, host
<1> USE DEF Handle, streams
<1>2. CASE Busy \/ Query \/ Operate
  <2>1. Take(c) /\ Answering(c) /\ UNCHANGED <<s_active_source, streams>>
    BY <1>2 DEF Busy, Query, Operate
  <2>2. cmd' \in Command
    BY <2>1, TakeIsTyped, AnsweringIsTyped
  <2> QED
    BY <1>1, <2>1, <2>2 DEF TypeOK
<1>3. CASE Connect \/ Disconnect
  <2>1. Take(c) /\ Answering(c) /\ UNCHANGED streams
    BY <1>3 DEF Connect, Disconnect
  <2>2. cmd' \in Command /\ c.source \in Source
    BY <2>1, TakeIsTyped, AnsweringIsTyped DEF Command
  <2> QED
    BY <1>1, <1>3, <2>1, <2>2 DEF TypeOK, Connect, Disconnect
<1>4. CASE SampleStart
  <2>1. Take(c) /\ (Answering(c) \/ cmd' = c)
    BY <1>4 DEF SampleStart
  <2>2. cmd' \in Command
    BY <2>1, TakeIsTyped, AnsweringIsTyped
  <2> QED
    BY <1>1, <1>4, <2>1, <2>2 DEF TypeOK, SampleStart
<1>5. CASE SampleStop \/ TransmitStart \/ TransmitStop
  <2>1. Take(c) /\ Answering(c)
    BY <1>5 DEF SampleStop, TransmitStart, TransmitStop
  <2>2. cmd' \in Command
    BY <2>1, TakeIsTyped, AnsweringIsTyped
  <2> QED
    BY <1>1, <1>5, <2>1, <2>2
       DEF TypeOK, SampleStop, TransmitStart, TransmitStop, EndTransmission
<1>6. CASE Respond
  <2>1. cmd \in Command
    BY <1>6 DEF Respond, TypeOK
  <2>2. cmd.n \in Number /\ cmd.source \in Source
    BY <2>1 DEF Command
  <2>3. sampler_stream_source' \in {"UNKNOWN"} \cup Source
    BY <1>6, <2>2 DEF Respond, TypeOK
  <2>4. frame' \in [Task -> Frame \cup {None}] /\ s_pending_cmd_lane' \in Number
    BY <1>6, <2>2 DEF Respond, TypeOK, Frame
  <2> QED
    BY <1>6, <2>3, <2>4 DEF Respond, TypeOK, host
<1> QED
  BY <1>2, <1>3, <1>4, <1>5, <1>6 DEF CommandTask

(* Receiving, sending and the host.                                        *)
LEMMA OthersKeepTypes ==
  ASSUME TypeOK, [Next]_vars, ~CommandTask
  PROVE  TypeOK'
<1> USE Bounds DEF TypeOK, streams, sending, host
<1>1. CASE Ask
  <2>1. asked' \in Number /\ waiting' \in Number
    BY <1>1, NumberIsTyped DEF Ask
  <2>2. PICK op \in Op : Enqueue([source |-> "USB", op |-> op, n |-> asked'])
    BY <1>1 DEF Ask
  <2>3. [source |-> "USB", op |-> op, n |-> asked'] \in Command
    BY <2>1, Sources DEF Command
  <2>4. cmd_queue' \in Seq(Command) /\ Len(cmd_queue') <= QueueLength
    BY <2>2, <2>3, EnqueueIsTyped
  <2>5. lost' \in BOOLEAN
    BY <1>1 DEF Ask
  <2>6. s_pending_bs_ready' \in BOOLEAN
    BY <1>1 DEF Ask
  <2> QED
    BY <1>1, <2>1, <2>4, <2>5, <2>6 DEF Ask
<1>2. CASE AskByWifi
  <2>1. PICK s \in Others, op \in Op : Enqueue([source |-> s, op |-> op, n |-> 0])
    BY <1>2 DEF AskByWifi
  <2>2. [source |-> s, op |-> op, n |-> 0] \in Command
    BY <2>1, Sources DEF Command
  <2>3. cmd_queue' \in Seq(Command) /\ Len(cmd_queue') <= QueueLength
    BY <2>1, <2>2, EnqueueIsTyped
  <2> QED
    BY <1>2, <2>3 DEF AskByWifi
<1>3. CASE Feed \/ Expire \/ MonitorEnds \/ GiveUp
  BY <1>3 DEF Feed, Expire, MonitorEnds, EndTransmission, GiveUp
<1>4. ASSUME NEW t \in Task, NEW stream \in {"lane", "BS"}, Fill(t, stream)
      PROVE  TypeOK'
  <2>1. [cmd |-> s_pending_cmd_lane, stream |-> stream] \in Frame
    BY DEF Frame
  <2>2. frame' \in [Task -> Frame \cup {None}]
    BY <1>4, <2>1 DEF Fill
  <2> QED
    BY <1>4, <2>2 DEF Fill
<1>5. CASE Sends
  BY <1>4, <1>5 DEF Sends, PollTx, SendStreamLane, Task
<1>7. ASSUME NEW t \in Task, SendFrame(t) PROVE TypeOK'
  <2>1. frame[t].cmd \in Number
    BY <1>7 DEF SendFrame, Frame
  <2>2. frame' \in [Task -> Frame \cup {None}]
    BY <1>7 DEF SendFrame
  <2>3. fifo' \in Seq(Number) /\ Len(fifo') <= Fifo
    <3>1. CASE Len(fifo) < Fifo /\ fifo' = Append(fifo, frame[t].cmd)
      BY <2>1, <3>1
    <3>2. CASE UNCHANGED fifo
      BY <3>2
    <3> QED
      BY <1>7, <3>1, <3>2 DEF SendFrame
  <2>4. s_pending_bs_ready' \in BOOLEAN
    BY <1>7 DEF SendFrame
  <2>5. lost' \in BOOLEAN
    BY <1>7 DEF SendFrame
  <2>6. uncleared' \in SUBSET Task /\ s_pending_cmd_lane' \in Number
    BY <1>7, Bounds DEF SendFrame
  <2> QED
    BY <1>7, <2>2, <2>3, <2>4, <2>5, <2>6 DEF SendFrame
<1>8. CASE Collect
  <2>1. fifo' \in Seq(Number) /\ Len(fifo') <= Fifo
    BY <1>8 DEF Collect
  <2>2. Head(fifo) \in Number
    BY <1>8 DEF Collect
  <2> QED
    BY <1>8, <2>1, <2>2 DEF Collect
<1>9. CASE Restart
  BY <1>9, NothingIsTyped DEF Restart
<1>10. CASE UNCHANGED vars
  BY <1>10 DEF vars
<1> QED
  BY <1>1, <1>2, <1>3, <1>5, <1>7, <1>8, <1>9, <1>10 DEF Next, Board

(* The variables keep their types: the queue and the transmit buffer never *)
(* exceed their limits, whatever tasks and hosts do.                       *)
THEOREM TypeCorrect == Spec => []TypeOK
<1>1. Init => TypeOK
  BY Bounds, NothingIsTyped DEF Init, TypeOK
<1>2. TypeOK /\ [Next]_vars => TypeOK'
  BY CommandTaskKeepsTypes, OthersKeepTypes
<1> QED
  BY <1>1, <1>2, PTL DEF Spec

-----------------------------------------------------------------------------
(* Where the command the host waits for is, or its answer.                 *)

NoneOf(queue) == \A i \in 1 .. Len(queue) : queue[i].source # "USB"
OneOf(queue, n) ==
  \E i \in 1 .. Len(queue) :
    /\ queue[i].source = "USB" /\ queue[i].n = n
    /\ \A j \in 1 .. Len(queue) : j # i => queue[j].source # "USB"

NoAnswer(answers) == \A i \in 1 .. Len(answers) : answers[i] = 0
OneAnswer(answers, n) ==
  \E i \in 1 .. Len(answers) :
    /\ answers[i] = n
    /\ \A j \in 1 .. Len(answers) : j # i => answers[j] = 0

NoFrame(frames) == \A t \in Task : frames[t].cmd = 0
OneFrame(frames, n) ==
  \E t \in Task :
    /\ frames[t].cmd = n
    /\ \A u \in Task : u # t => frames[u].cmd = 0

NotWithTask == cmd.source # "USB"
NotPending == s_pending_cmd_lane = 0

Nowhere ==
  /\ NoneOf(cmd_queue) /\ NotWithTask /\ NotPending
  /\ NoFrame(frame) /\ NoAnswer(fifo)
InQueue ==
  /\ OneOf(cmd_queue, waiting) /\ NotWithTask /\ NotPending
  /\ NoFrame(frame) /\ NoAnswer(fifo)
WithTask ==
  /\ NoneOf(cmd_queue) /\ cmd.source = "USB" /\ cmd.n = waiting /\ NotPending
  /\ NoFrame(frame) /\ NoAnswer(fifo)
Pending ==
  /\ NoneOf(cmd_queue) /\ NotWithTask /\ s_pending_cmd_lane = waiting
  /\ NoFrame(frame) /\ NoAnswer(fifo)
InFrame ==
  /\ NoneOf(cmd_queue) /\ NotWithTask /\ NotPending
  /\ OneFrame(frame, waiting) /\ NoAnswer(fifo)
InFifo ==
  /\ NoneOf(cmd_queue) /\ NotWithTask /\ NotPending
  /\ NoFrame(frame) /\ OneAnswer(fifo, waiting)

Somewhere == InQueue \/ WithTask \/ Pending \/ InFrame \/ InFifo

Awaited == waiting # 0 /\ ~lost

(* The board has the command the host waits for in one place, and no other *)
(* of its commands.                                                        *)
Orderly ==
  /\ uncleared = {}
  /\ Awaited => Somewhere
  /\ ~Awaited => Nowhere

(* The inductive invariant: CommandIsInOnePlace, and what is found there   *)
(* is the command the host waits for.                                      *)
Inv == ~crowded => Orderly

-----------------------------------------------------------------------------
(* The queue, the transmit buffer and the frames.                          *)

LEMMA AppendedElements ==
  ASSUME NEW S, NEW s \in Seq(S), NEW e \in S
  PROVE  /\ Len(Append(s, e)) = Len(s) + 1
         /\ Append(s, e)[Len(s) + 1] = e
         /\ \A i \in 1 .. Len(s) : Append(s, e)[i] = s[i]
         /\ \A i \in 1 .. Len(s) + 1 : i = Len(s) + 1 \/ i \in 1 .. Len(s)
  OBVIOUS

LEMMA RemainingElements ==
  ASSUME NEW S, NEW s \in Seq(S), s # <<>>
  PROVE  /\ Head(s) \in S /\ Head(s) = s[1] /\ 1 \in 1 .. Len(s)
         /\ \A i \in 1 .. Len(Tail(s)) : Tail(s)[i] = s[i + 1] /\ i + 1 \in 1 .. Len(s) /\ i + 1 # 1
         /\ \A i \in 1 .. Len(s) : i # 1 => i - 1 \in 1 .. Len(Tail(s)) /\ Tail(s)[i - 1] = s[i]
  OBVIOUS

LEMMA EnqueueOther ==
  ASSUME cmd_queue \in Seq(Command), NEW c \in Command, Enqueue(c),
         c.source # "USB", NEW n
  PROVE  /\ NoneOf(cmd_queue) => NoneOf(cmd_queue')
         /\ OneOf(cmd_queue, n) => OneOf(cmd_queue', n)
<1>1. CASE UNCHANGED cmd_queue
  BY <1>1
<1>2. CASE cmd_queue' = Append(cmd_queue, c)
  BY <1>2, AppendedElements DEF NoneOf, OneOf
<1> QED
  BY <1>1, <1>2 DEF Enqueue

LEMMA EnqueueUsb ==
  ASSUME cmd_queue \in Seq(Command), NEW c \in Command, Enqueue(c),
         c.source = "USB", NoneOf(cmd_queue)
  PROVE  /\ Len(cmd_queue) < QueueLength => OneOf(cmd_queue', c.n)
         /\ ~(Len(cmd_queue) < QueueLength) => NoneOf(cmd_queue')
<1>1. CASE ~(Len(cmd_queue) < QueueLength)
  BY <1>1 DEF Enqueue
<1>2. CASE Len(cmd_queue) < QueueLength
  <2>1. cmd_queue' = Append(cmd_queue, c)
    BY <1>2 DEF Enqueue
  <2>2. Len(cmd_queue) + 1 \in 1 .. Len(cmd_queue')
    BY <2>1, AppendedElements
  <2>3. cmd_queue'[Len(cmd_queue) + 1] = c
    BY <2>1, AppendedElements
  <2>4. \A j \in 1 .. Len(cmd_queue') :
          j # Len(cmd_queue) + 1 => cmd_queue'[j].source # "USB"
    BY <2>1, AppendedElements DEF NoneOf
  <2> QED
    BY <1>2, <2>2, <2>3, <2>4 DEF OneOf
<1> QED
  BY <1>1, <1>2

LEMMA Dequeue ==
  ASSUME NEW queue \in Seq(Command), queue # <<>>, NEW n
  PROVE  /\ NoneOf(queue) => Head(queue).source # "USB" /\ NoneOf(Tail(queue))
         /\ OneOf(queue, n) /\ Head(queue).source = "USB"
              => Head(queue).n = n /\ NoneOf(Tail(queue))
         /\ OneOf(queue, n) /\ Head(queue).source # "USB" => OneOf(Tail(queue), n)
<1>1. NoneOf(queue) => Head(queue).source # "USB" /\ NoneOf(Tail(queue))
  BY RemainingElements DEF NoneOf
<1>2. ASSUME OneOf(queue, n), Head(queue).source = "USB"
      PROVE  Head(queue).n = n /\ NoneOf(Tail(queue))
  BY <1>2, RemainingElements DEF NoneOf, OneOf
<1>3. ASSUME OneOf(queue, n), Head(queue).source # "USB"
      PROVE  OneOf(Tail(queue), n)
  <2>1. PICK i \in 1 .. Len(queue) :
          /\ queue[i].source = "USB" /\ queue[i].n = n
          /\ \A j \in 1 .. Len(queue) : j # i => queue[j].source # "USB"
    BY <1>3 DEF OneOf
  <2>2. i # 1
    BY <1>3, <2>1, RemainingElements
  <2>3. i - 1 \in 1 .. Len(Tail(queue)) /\ Tail(queue)[i - 1] = queue[i]
    BY <2>2, RemainingElements
  <2>4. \A j \in 1 .. Len(Tail(queue)) : j # i - 1 => Tail(queue)[j].source # "USB"
    BY <2>1, RemainingElements
  <2> QED
    BY <2>1, <2>3, <2>4 DEF OneOf
<1> QED
  BY <1>1, <1>2, <1>3

LEMMA SendAnswer ==
  ASSUME NEW answers \in Seq(Number), NEW a \in Number, NEW n \in Number
  PROVE  /\ a = 0 /\ NoAnswer(answers) => NoAnswer(Append(answers, a))
         /\ a = 0 /\ OneAnswer(answers, n) => OneAnswer(Append(answers, a), n)
         /\ NoAnswer(answers) => OneAnswer(Append(answers, a), a)
<1>1. a = 0 /\ NoAnswer(answers) => NoAnswer(Append(answers, a))
  BY AppendedElements DEF NoAnswer
<1>2. a = 0 /\ OneAnswer(answers, n) => OneAnswer(Append(answers, a), n)
  BY AppendedElements DEF OneAnswer
<1>3. ASSUME NoAnswer(answers) PROVE OneAnswer(Append(answers, a), a)
  <2>1. Len(answers) + 1 \in 1 .. Len(Append(answers, a))
    BY AppendedElements
  <2>2. Append(answers, a)[Len(answers) + 1] = a
    BY AppendedElements
  <2>3. \A j \in 1 .. Len(Append(answers, a)) :
          j # Len(answers) + 1 => Append(answers, a)[j] = 0
    BY <1>3, AppendedElements DEF NoAnswer
  <2> QED
    BY <2>1, <2>2, <2>3 DEF OneAnswer
<1> QED
  BY <1>1, <1>2, <1>3

LEMMA CollectAnswer ==
  ASSUME NEW answers \in Seq(Number), answers # <<>>, NEW n \in Number, n # 0
  PROVE  /\ NoAnswer(answers) => Head(answers) = 0 /\ NoAnswer(Tail(answers))
         /\ OneAnswer(answers, n) /\ Head(answers) # 0
              => Head(answers) = n /\ NoAnswer(Tail(answers))
         /\ OneAnswer(answers, n) /\ Head(answers) = 0 => OneAnswer(Tail(answers), n)
<1>1. NoAnswer(answers) => Head(answers) = 0 /\ NoAnswer(Tail(answers))
  BY RemainingElements DEF NoAnswer
<1>2. ASSUME OneAnswer(answers, n), Head(answers) # 0
      PROVE  Head(answers) = n /\ NoAnswer(Tail(answers))
  BY <1>2, RemainingElements DEF NoAnswer, OneAnswer
<1>3. ASSUME OneAnswer(answers, n), Head(answers) = 0
      PROVE  OneAnswer(Tail(answers), n)
  <2>1. PICK i \in 1 .. Len(answers) :
          /\ answers[i] = n
          /\ \A j \in 1 .. Len(answers) : j # i => answers[j] = 0
    BY <1>3 DEF OneAnswer
  <2>2. i # 1
    BY <1>3, <2>1, RemainingElements
  <2>3. i - 1 \in 1 .. Len(Tail(answers)) /\ Tail(answers)[i - 1] = answers[i]
    BY <2>2, RemainingElements
  <2>4. \A j \in 1 .. Len(Tail(answers)) : j # i - 1 => Tail(answers)[j] = 0
    BY <2>1, RemainingElements
  <2> QED
    BY <2>1, <2>3, <2>4 DEF OneAnswer
<1> QED
  BY <1>1, <1>2, <1>3

LEMMA FrameChanges ==
  ASSUME NEW frames \in [Task -> Frame \cup {None}], NEW t \in Task,
         NEW f \in Frame \cup {None}, NEW n \in Number
  PROVE  /\ NoFrame(frames) /\ f.cmd = 0 => NoFrame([frames EXCEPT ![t] = f])
         /\ NoFrame(frames) => OneFrame([frames EXCEPT ![t] = f], f.cmd)
         /\ OneFrame(frames, n) /\ frames[t].cmd = 0 /\ n # 0 /\ f.cmd = 0
              => OneFrame([frames EXCEPT ![t] = f], n)
         /\ OneFrame(frames, n) /\ frames[t].cmd # 0 /\ f.cmd = 0
              => frames[t].cmd = n /\ NoFrame([frames EXCEPT ![t] = f])
  BY DEF NoFrame, OneFrame

-----------------------------------------------------------------------------
(* Every step keeps the invariant.                                         *)

(* command_task takes a command: if it is the USB host's, it is with the   *)
(* task now.                                                               *)
LEMMA TakeKeepsOrder ==
  ASSUME TypeOK, Orderly, Take(Head(cmd_queue)),
         cmd'.source = Head(cmd_queue).source, cmd'.n = Head(cmd_queue).n
  PROVE  Orderly'
<1> DEFINE c == Head(cmd_queue)
<1>1. /\ cmd_queue \in Seq(Command) /\ cmd_queue # <<>>
      /\ cmd_queue' = Tail(cmd_queue) /\ cmd = NoCommand
      /\ UNCHANGED <<s_pending_cmd_lane, frame, uncleared, fifo, waiting, lost>>
  BY DEF Take, TypeOK, sending, host
<1>2. ~WithTask
  BY <1>1 DEF WithTask, NoCommand
<1> USE DEF NotWithTask, NotPending
<1>3. ASSUME Nowhere PROVE Nowhere'
  BY <1>1, <1>3, Dequeue DEF Nowhere
<1>4. ASSUME InQueue PROVE InQueue' \/ WithTask'
  BY <1>1, <1>4, Dequeue DEF InQueue, WithTask
<1>5. (Pending => Pending') /\ (InFrame => InFrame') /\ (InFifo => InFifo')
  BY <1>1, Dequeue DEF Pending, InFrame, InFifo
<1> QED
  BY <1>1, <1>2, <1>3, <1>4, <1>5 DEF Orderly, Awaited, Somewhere

(* usb_send_cmd_response puts the answer into a frame or the pending slot. *)
LEMMA RespondKeepsOrder ==
  ASSUME TypeOK, Orderly, Respond
  PROVE  Orderly'
<1>1. UNCHANGED <<cmd_queue, uncleared, fifo, waiting, lost>> /\ cmd' = NoCommand
  BY DEF Respond, host
<1>2. cmd'.source # "USB"
  BY <1>1 DEF NoCommand
<1> USE DEF NotWithTask, NotPending
<1>3. CASE cmd.source # "USB"
  <2>1. UNCHANGED <<s_pending_cmd_lane, frame>>
    BY <1>3 DEF Respond
  <2> QED
    BY <1>1, <1>2, <1>3, <2>1
       DEF Orderly, Awaited, Somewhere, Nowhere, InQueue, WithTask, Pending, InFrame, InFifo
<1>4. CASE cmd.source = "USB"
  <2>1. Awaited /\ WithTask
    BY <1>4 DEF Orderly, Somewhere, Nowhere, InQueue, Pending, InFrame, InFifo
  <2>2. CASE s_pending_cmd_lane' = cmd.n /\ UNCHANGED frame
    <3>1. Pending'
      BY <1>1, <1>2, <2>1, <2>2 DEF WithTask, Pending
    <3> QED
      BY <1>1, <2>1, <3>1 DEF Orderly, Awaited, Somewhere
  <2>3. CASE /\ frame' = [frame EXCEPT
                  !["cmd_task"] = [cmd |-> cmd.n, stream |-> "zeroes"]]
             /\ UNCHANGED s_pending_cmd_lane
    <3>1. cmd.n \in Number
      BY <1>4 DEF Respond, TypeOK, Command
    <3>2. [cmd |-> cmd.n, stream |-> "zeroes"] \in Frame
      BY <3>1 DEF Frame
    <3>3. OneFrame(frame', cmd.n)
      <4> DEFINE f == [cmd |-> cmd.n, stream |-> "zeroes"]
      <4>1. f \in Frame \cup {None} /\ f.cmd = cmd.n
        BY <3>2
      <4>2. "cmd_task" \in Task /\ frame \in [Task -> Frame \cup {None}] /\ NoFrame(frame)
        BY <2>1 DEF TypeOK, Task, WithTask
      <4>3. frame' = [frame EXCEPT !["cmd_task"] = f]
        BY <2>3
      <4> HIDE DEF f
      <4> QED
        BY <3>1, <4>1, <4>2, <4>3, FrameChanges
    <3>4. InFrame'
      BY <1>1, <1>2, <2>1, <2>3, <3>3 DEF WithTask, InFrame
    <3> QED
      BY <1>1, <2>1, <3>4 DEF Orderly, Awaited, Somewhere
  <2> QED
    BY <1>4, <2>2, <2>3 DEF Respond
<1> QED
  BY <1>3, <1>4

LEMMA CommandTaskKeepsOrder ==
  ASSUME TypeOK, Orderly, CommandTask
  PROVE  Orderly'
<1> DEFINE c == Head(cmd_queue)
<1>1. CASE Respond
  BY <1>1, RespondKeepsOrder
<1>2. CASE CommandTask /\ ~Respond
  <2>1. Take(c) /\ (Answering(c) \/ cmd' = c)
    BY <1>2 DEF CommandTask, Busy, Handle, Query, Operate, Connect, Disconnect,
       SampleStart, SampleStop, TransmitStart, TransmitStop
  <2>2. cmd'.source = c.source /\ cmd'.n = c.n
    BY <2>1, TakeIsTyped, AnsweringIsTyped
  <2> QED
    BY <2>1, <2>2, TakeKeepsOrder
<1> QED
  BY <1>1, <1>2

(* A board without anything of the host.                                   *)
LEMMA NoPlaces ==
  ASSUME TypeOK, Places = {}
  PROVE  Nowhere
<1>1. /\ Queued = {} /\ cmd.source # "USB" /\ s_pending_cmd_lane = 0
      /\ Framed = {} /\ OnItsWay = {}
  BY DEF Places
<1>2. NoneOf(cmd_queue)
  BY <1>1 DEF Queued, NoneOf
<1>3. NoFrame(frame)
  BY <1>1 DEF Framed, NoFrame
<1>4. NoAnswer(fifo)
  BY <1>1 DEF OnItsWay, NoAnswer
<1> QED
  BY <1>1, <1>2, <1>3, <1>4 DEF Nowhere, NotWithTask, NotPending

(* The host's only command is in the queue, or lost, if nothing was there. *)
LEMMA AskMakesOrder ==
  ASSUME TypeOK, Inv, Ask, ~crowded'
  PROVE  Orderly'
<1>1. PICK op \in Op : Enqueue([source |-> "USB", op |-> op, n |-> asked'])
  BY DEF Ask
<1> DEFINE c == [source |-> "USB", op |-> op, n |-> asked']
<1>2. asked' \in Number /\ asked' # 0
  BY NumberIsTyped DEF Ask, TypeOK
<1>3. c \in Command /\ c.source = "USB" /\ c.n = asked'
  BY <1>2, Sources DEF Command
<1>4. Nowhere /\ uncleared = {}
  BY NoPlaces DEF Ask, Inv, Orderly, Awaited
<1>5. /\ UNCHANGED <<cmd, s_pending_cmd_lane, frame, uncleared, fifo>>
      /\ waiting' = asked'
  BY DEF Ask, sending
<1>6. lost' <=> Len(cmd_queue) = QueueLength
  BY DEF Ask
<1>7. lost' <=> ~(Len(cmd_queue) < QueueLength)
  BY <1>6, Bounds DEF TypeOK
<1> USE DEF NotWithTask, NotPending
<1>8. CASE lost'
  <2>1. NoneOf(cmd_queue')
    BY <1>1, <1>3, <1>4, <1>7, <1>8, EnqueueUsb DEF Nowhere, TypeOK
  <2>2. Nowhere'
    BY <1>4, <1>5, <2>1 DEF Nowhere
  <2> QED
    BY <1>4, <1>5, <1>8, <2>2 DEF Orderly, Awaited
<1>9. CASE ~lost'
  <2>1. OneOf(cmd_queue', asked')
    BY <1>1, <1>3, <1>4, <1>7, <1>9, EnqueueUsb DEF Nowhere, TypeOK
  <2>2. InQueue'
    BY <1>4, <1>5, <2>1 DEF Nowhere, InQueue
  <2> QED
    BY <1>2, <1>4, <1>5, <1>9, <2>2 DEF Orderly, Awaited, Somewhere
<1> QED
  BY <1>8, <1>9

LEMMA AskByWifiKeepsOrder ==
  ASSUME TypeOK, Orderly, AskByWifi
  PROVE  Orderly'
<1>1. PICK s \in Others, op \in Op : Enqueue([source |-> s, op |-> op, n |-> 0])
  BY DEF AskByWifi
<1>2. [source |-> s, op |-> op, n |-> 0] \in Command /\ s # "USB"
  BY Sources, Bounds DEF Command
<1>3. /\ NoneOf(cmd_queue) => NoneOf(cmd_queue')
      /\ OneOf(cmd_queue, waiting) => OneOf(cmd_queue', waiting)
  BY <1>1, <1>2, EnqueueOther DEF TypeOK
<1>4. UNCHANGED <<cmd, s_pending_cmd_lane, frame, uncleared, fifo, waiting, lost>>
  BY DEF AskByWifi, sending, host
<1> QED
  BY <1>3, <1>4 DEF Orderly, Awaited, Somewhere, Nowhere, InQueue, WithTask, Pending,
     InFrame, InFifo, NotWithTask, NotPending

(* fill_frame_from_pending, without an interruption.                       *)
LEMMA FillKeepsOrder ==
  ASSUME TypeOK, Orderly, ~crowded', NEW t \in Task, NEW stream \in {"lane", "BS"},
         Fill(t, stream)
  PROVE  Orderly'
<1> DEFINE f == [cmd |-> s_pending_cmd_lane, stream |-> stream]
<1>1. /\ frame[t] = None /\ frame' = [frame EXCEPT ![t] = f]
      /\ s_pending_cmd_lane' = 0
      /\ UNCHANGED <<cmd_queue, cmd, uncleared, fifo, waiting, lost>>
  BY DEF Fill, Orderly
<1>2. f \in Frame /\ f.cmd = s_pending_cmd_lane
  BY DEF Frame, TypeOK
<1>3. frame \in [Task -> Frame \cup {None}] /\ waiting \in Number
      /\ frame[t].cmd = 0
  BY <1>1 DEF TypeOK, None
<1> HIDE DEF f
<1> USE DEF NotWithTask, NotPending
<1>4. CASE s_pending_cmd_lane = 0
  <2>1. NoFrame(frame) => NoFrame(frame')
    BY <1>1, <1>2, <1>3, <1>4, FrameChanges
  <2>2. waiting # 0 /\ OneFrame(frame, waiting) => OneFrame(frame', waiting)
    BY <1>1, <1>2, <1>3, <1>4, FrameChanges
  <2> QED
    BY <1>1, <1>4, <2>1, <2>2
       DEF Orderly, Awaited, Somewhere, Nowhere, InQueue, WithTask, Pending, InFrame, InFifo
<1>5. CASE s_pending_cmd_lane # 0
  <2>1. Awaited /\ Pending
    BY <1>5 DEF Orderly, Somewhere, Nowhere, InQueue, WithTask, InFrame, InFifo
  <2>2. OneFrame(frame', f.cmd)
    BY <1>1, <1>2, <1>3, <2>1, FrameChanges DEF Pending
  <2>3. InFrame'
    BY <1>1, <1>2, <2>1, <2>2 DEF Pending, InFrame
  <2> QED
    BY <1>1, <2>1, <2>3 DEF Orderly, Awaited, Somewhere
<1> QED
  BY <1>4, <1>5

(* send_frame: the frame is in the transmit buffer, or given up.           *)
LEMMA SendFrameKeepsOrder ==
  ASSUME TypeOK, Orderly, NEW t \in Task, SendFrame(t)
  PROVE  Orderly'
<1>1. /\ frame' = [frame EXCEPT ![t] = None]
      /\ UNCHANGED <<cmd_queue, cmd, s_pending_cmd_lane, uncleared, waiting>>
      /\ \/ fifo' = Append(fifo, frame[t].cmd) /\ UNCHANGED lost
         \/ UNCHANGED fifo /\ (lost' <=> lost \/ frame[t].cmd # 0)
  BY DEF SendFrame, host, Orderly
<1>2. /\ frame \in [Task -> Frame \cup {None}] /\ waiting \in Number
      /\ frame[t].cmd \in Number /\ fifo \in Seq(Number) /\ None.cmd = 0
  BY Bounds DEF TypeOK, Frame, None
<1> USE DEF NotWithTask, NotPending
<1>3. CASE frame[t].cmd = 0
  <2>1. NoFrame(frame) => NoFrame(frame')
    BY <1>1, <1>2, FrameChanges
  <2>2. waiting # 0 /\ OneFrame(frame, waiting) => OneFrame(frame', waiting)
    BY <1>1, <1>2, <1>3, FrameChanges
  <2>3. NoAnswer(fifo) => NoAnswer(fifo')
    BY <1>1, <1>2, <1>3, SendAnswer
  <2>4. OneAnswer(fifo, waiting) => OneAnswer(fifo', waiting)
    BY <1>1, <1>2, <1>3, SendAnswer
  <2>5. lost' <=> lost
    BY <1>1, <1>3
  <2> QED
    BY <1>1, <2>1, <2>2, <2>3, <2>4, <2>5
       DEF Orderly, Awaited, Somewhere, Nowhere, InQueue, WithTask, Pending, InFrame, InFifo
<1>4. CASE frame[t].cmd # 0
  <2>1. Awaited /\ InFrame
    BY <1>4 DEF Orderly, Somewhere, Nowhere, InQueue, WithTask, Pending, InFifo, NoFrame
  <2>2. frame[t].cmd = waiting /\ NoFrame(frame')
    BY <1>1, <1>2, <1>4, <2>1, FrameChanges DEF InFrame
  <2>3. CASE fifo' = Append(fifo, frame[t].cmd) /\ UNCHANGED lost
    <3>1. OneAnswer(fifo', waiting)
      BY <1>2, <2>1, <2>2, <2>3, SendAnswer DEF InFrame
    <3>2. InFifo'
      BY <1>1, <2>1, <2>2, <3>1 DEF InFrame, InFifo
    <3> QED
      BY <1>1, <2>1, <2>3, <3>2 DEF Orderly, Awaited, Somewhere
  <2>4. CASE UNCHANGED fifo /\ lost'
    <3>1. Nowhere'
      BY <1>1, <2>1, <2>2, <2>4 DEF InFrame, Nowhere
    <3> QED
      BY <1>1, <2>4, <3>1 DEF Orderly, Awaited
  <2> QED
    BY <1>1, <1>4, <2>3, <2>4
<1> QED
  BY <1>3, <1>4

LEMMA CollectKeepsOrder ==
  ASSUME TypeOK, Orderly, Collect
  PROVE  Orderly'
<1>1. /\ fifo # <<>> /\ fifo' = Tail(fifo)
      /\ UNCHANGED <<cmd_queue, cmd, s_pending_cmd_lane, frame, uncleared, lost>>
  BY DEF Collect
<1>2. fifo \in Seq(Number) /\ waiting \in Number
  BY DEF TypeOK
<1> USE DEF NotWithTask, NotPending
<1>3. CASE Head(fifo) = 0 /\ UNCHANGED waiting
  <2>1. NoAnswer(fifo) => NoAnswer(fifo')
    BY <1>1, <1>2, <1>3, CollectAnswer, Bounds DEF NoAnswer
  <2>2. waiting # 0 /\ OneAnswer(fifo, waiting) => OneAnswer(fifo', waiting)
    BY <1>1, <1>2, <1>3, CollectAnswer
  <2> QED
    BY <1>1, <1>3, <2>1, <2>2
       DEF Orderly, Awaited, Somewhere, Nowhere, InQueue, WithTask, Pending, InFrame, InFifo
<1>4. CASE Head(fifo) # 0
  <2>1. ~NoAnswer(fifo)
    BY <1>1, <1>2, <1>4, RemainingElements DEF NoAnswer
  <2>2. Awaited /\ InFifo
    BY <2>1 DEF Orderly, Somewhere, Nowhere, InQueue, WithTask, Pending, InFrame
  <2>3. NoAnswer(fifo')
    BY <1>1, <1>2, <1>4, <2>2, CollectAnswer DEF InFifo, Awaited
  <2>4. waiting' = 0
    BY <1>4, <2>2 DEF Collect, Awaited
  <2> QED
    BY <1>1, <2>2, <2>3, <2>4 DEF Orderly, Awaited, Nowhere, InFifo
<1>5. CASE waiting = 0 /\ UNCHANGED waiting
  <2>1. Nowhere
    BY <1>5 DEF Orderly, Awaited
  <2>2. NoAnswer(fifo')
    BY <1>1, <1>2, <2>1, RemainingElements DEF Nowhere, NoAnswer
  <2> QED
    BY <1>1, <1>5, <2>1, <2>2 DEF Orderly, Awaited, Nowhere
<1> QED
  BY <1>3, <1>4, <1>5 DEF Collect

LEMMA StepKeepsOrder ==
  ASSUME TypeOK, Orderly, ~crowded', ~Ask, [Next]_vars
  PROVE  Orderly'
<1>1. CASE CommandTask
  BY <1>1, CommandTaskKeepsOrder
<1>2. CASE Sends
  BY <1>2, FillKeepsOrder DEF Sends, PollTx, SendStreamLane, Task
<1>3. ASSUME NEW t \in Task, SendFrame(t) PROVE Orderly'
  BY <1>3, SendFrameKeepsOrder
<1>4. CASE AskByWifi \/ Collect
  BY <1>4, AskByWifiKeepsOrder, CollectKeepsOrder
<1>5. CASE Feed \/ Expire \/ MonitorEnds \/ UNCHANGED vars
  <2>1. UNCHANGED <<cmd_queue, cmd, s_pending_cmd_lane, frame, uncleared, fifo,
                    waiting, lost>>
    BY <1>5 DEF Feed, Expire, MonitorEnds, vars, sending, host
  <2> QED
    BY <2>1 DEF Orderly, Awaited, Somewhere, Nowhere, InQueue, WithTask, Pending,
       InFrame, InFifo, NotWithTask, NotPending
<1>6. CASE Restart
  <2>1. NoneOf(cmd_queue') /\ NoAnswer(fifo')
    BY <1>6, NothingIsTyped DEF Restart, NoneOf, NoAnswer
  <2>2. NoFrame(frame') /\ cmd'.source # "USB"
    BY <1>6 DEF Restart, NoFrame, None, NoCommand
  <2> QED
    BY <1>6, <2>1, <2>2 DEF Restart, Orderly, Awaited, Nowhere, NotWithTask, NotPending
<1>7. CASE GiveUp
  <2>1. /\ UNCHANGED <<cmd_queue, cmd, s_pending_cmd_lane, frame, uncleared, fifo>>
        /\ lost /\ waiting' = 0
    BY <1>7 DEF GiveUp, Orderly, sending
  <2> QED
    BY <2>1 DEF Orderly, Awaited, Nowhere, NotWithTask, NotPending
<1> QED
  BY <1>1, <1>2, <1>3, <1>4, <1>5, <1>6, <1>7 DEF Next, Board

(* Only where the host asks does a crowded board come to be in order.      *)
LEMMA StepKeepsInv ==
  ASSUME TypeOK, Inv, [Next]_vars
  PROVE  Inv'
<1>1. CASE Ask
  BY <1>1, AskMakesOrder DEF Inv
<1>2. CASE ~Ask
  <2>1. crowded => crowded'
    <3>1. ASSUME NEW t \in Task, NEW stream, Fill(t, stream) PROVE crowded => crowded'
      BY <3>1 DEF Fill
    <3>2. CASE CommandTask
      BY <3>2 DEF CommandTask, Busy, Handle, Take, Query, Operate, Connect, Disconnect,
         SampleStart, SampleStop, TransmitStart, TransmitStop, Respond, host
    <3>3. CASE Sends
      BY <3>1, <3>3 DEF Sends, PollTx, SendStreamLane, Task
    <3>4. ASSUME NEW t \in Task, SendFrame(t) PROVE crowded => crowded'
      BY <3>4 DEF SendFrame, host
    <3>5. CASE Feed \/ AskByWifi \/ Collect \/ Expire \/ MonitorEnds \/ GiveUp
               \/ Restart \/ UNCHANGED vars
      BY <3>5 DEF Feed, AskByWifi, Collect, Expire, MonitorEnds, GiveUp, Restart,
         vars, host
    <3> QED
      BY <1>2, <3>2, <3>3, <3>4, <3>5 DEF Next, Board
  <2> QED
    BY <1>2, <2>1, StepKeepsOrder DEF Inv
<1> QED
  BY <1>1, <1>2

LEMMA InvHolds == Spec => []Inv
<1>1. Init => Inv
  <2>1. Init => NoneOf(cmd_queue) /\ NoAnswer(fifo)
    BY NothingIsTyped DEF Init, NoneOf, NoAnswer
  <2>2. Init => NoFrame(frame) /\ cmd.source # "USB"
    BY DEF Init, NoFrame, None, NoCommand
  <2> QED
    BY <2>1, <2>2 DEF Init, Inv, Orderly, Awaited, Nowhere, NotWithTask, NotPending
<1>2. TypeOK /\ Inv /\ [Next]_vars => Inv'
  BY StepKeepsInv
<1> QED
  BY <1>1, <1>2, TypeCorrect, PTL DEF Spec

-----------------------------------------------------------------------------
(* Whichever task sends it and whatever streams start or stop meanwhile,   *)
(* the command the host waits for, or its answer, is in exactly one place  *)
(* of the board until it arrives or is lost for want of room, if nothing   *)
(* of an older one was there when it asked, and no task is interrupted     *)
(* with the answer in its hands.                                           *)
THEOREM CommandIsSafe == Spec => []CommandIsInOnePlace
<1> USE DEF NotWithTask, NotPending
<1>2. ASSUME NoneOf(cmd_queue) PROVE Queued = {}
  BY <1>2 DEF NoneOf, Queued
<1>3. ASSUME NoFrame(frame) PROVE Framed = {}
  BY <1>3 DEF NoFrame, Framed
<1>4. ASSUME NoAnswer(fifo) PROVE OnItsWay = {}
  BY <1>4 DEF NoAnswer, OnItsWay
<1>5. ASSUME Nowhere PROVE Places = {}
  BY <1>2, <1>3, <1>4, <1>5 DEF Nowhere, Places
<1>6. ASSUME TypeOK, waiting # 0, Somewhere PROVE \E p \in Places : Places = {p}
  <2>1. CASE InQueue
    <3>1. PICK i \in 1 .. Len(cmd_queue) : Queued = {i}
      BY <2>1 DEF InQueue, OneOf, Queued
    <3>2. Places = {<<"queue", i>>}
      BY <1>3, <1>4, <2>1, <3>1 DEF InQueue, Places
    <3> QED
      BY <3>2
  <2>2. CASE WithTask
    <3>1. Places = {<<"task">>}
      BY <1>2, <1>3, <1>4, <2>2 DEF WithTask, Places
    <3> QED
      BY <3>1
  <2>3. CASE Pending
    <3>1. Places = {<<"pending">>}
      BY <1>2, <1>3, <1>4, <1>6, <2>3 DEF Pending, Places
    <3> QED
      BY <3>1
  <2>4. CASE InFrame
    <3>1. PICK t \in Task : Framed = {t}
      BY <1>6, <2>4 DEF InFrame, OneFrame, Framed
    <3>2. Places = {<<"frame", t>>}
      BY <1>2, <1>4, <2>4, <3>1 DEF InFrame, Places
    <3> QED
      BY <3>2
  <2>5. CASE InFifo
    <3>1. PICK i \in 1 .. Len(fifo) : OnItsWay = {i}
      BY <1>6, <2>5 DEF InFifo, OneAnswer, OnItsWay
    <3>2. Places = {<<"fifo", i>>}
      BY <1>2, <1>3, <2>5, <3>1 DEF InFifo, Places
    <3> QED
      BY <3>2
  <2> QED
    BY <1>6, <2>1, <2>2, <2>3, <2>4, <2>5 DEF Somewhere
<1>7. TypeOK /\ Inv => CommandIsInOnePlace
  BY <1>5, <1>6 DEF Inv, Orderly, Awaited, CommandIsInOnePlace
<1> QED
  BY <1>7, InvHolds, TypeCorrect, PTL

(* The channel implements Correspondence, with any host and any schedule   *)
(* of its tasks: an answer arrives only while its own command is waited    *)
(* for, unless there was something of an older command on the board when   *)
(* it was sent, or a task was interrupted with the answer in its hands.    *)
THEOREM ImplementsCorrespondence == Spec => AnswerSpec
<1> DEFINE AVars == AnswersCorrespond!vars
<1>2. Init => AnswersCorrespond!Init
  BY DEF Init, AnswersCorrespond!Init
<1>3. TypeOK /\ Inv /\ [Next]_vars => [AnswersCorrespond!Next]_AVars
  <2> SUFFICES ASSUME TypeOK, Inv, [Next]_vars PROVE [AnswersCorrespond!Next]_AVars
    OBVIOUS
  <2> USE DEF AnswersCorrespond!vars, AnswersCorrespond!Next
  <2>1. CASE Ask
    <3>1. asked' \in Nat \ {0, asked}
      BY <2>1, NumberIsTyped, Bounds DEF Ask, TypeOK, Number
    <3>2. crowded' \in BOOLEAN /\ (~crowded => ~crowded')
      BY <2>1 DEF Ask
    <3> QED
      BY <2>1, <3>1, <3>2 DEF Ask, AnswersCorrespond!Ask
  <2>2. CASE Collect
    <3>1. CASE UNCHANGED <<waiting, answered>>
      BY <2>2, <3>1 DEF Collect
    <3>2. CASE /\ Head(fifo) # 0 /\ waiting # 0
               /\ answered' = Head(fifo) /\ waiting' = 0
      <4>1. fifo \in Seq(Number) /\ fifo # <<>> /\ waiting \in Number
        BY <2>2 DEF Collect, TypeOK
      <4>2. ~NoAnswer(fifo)
        BY <3>2, <4>1, RemainingElements DEF NoAnswer
      <4>3. ~crowded => OneAnswer(fifo, waiting)
        BY <4>2 DEF Inv, Orderly, Somewhere, Nowhere, InQueue, WithTask, Pending,
           InFrame, InFifo
      <4>4. ~crowded => Head(fifo) = waiting
        BY <3>2, <4>1, <4>3, CollectAnswer
      <4>5. Head(fifo) \in Nat \ {0}
        BY <3>2, <4>1, RemainingElements, Bounds DEF Number
      <4> QED
        BY <2>2, <3>2, <4>4, <4>5 DEF Collect, AnswersCorrespond!Answer
    <3> QED
      BY <2>2, <3>1, <3>2 DEF Collect
  <2>3. CASE GiveUp \/ Restart
    BY <2>3 DEF GiveUp, Restart, TypeOK, AnswersCorrespond!Disconnect
  <2>4. ASSUME UNCHANGED host PROVE UNCHANGED AVars
    BY <2>4 DEF host
  <2>5. CASE CommandTask
    <3>1. Respond \/ Take(Head(cmd_queue))
      BY <2>5 DEF CommandTask, Busy, Handle, Query, Operate, Connect, Disconnect,
         SampleStart, SampleStop, TransmitStart, TransmitStop
    <3> QED
      BY <2>4, <3>1 DEF Respond, Take
  <2>6. ASSUME NEW t \in Task, NEW stream, Fill(t, stream)
        PROVE  AnswersCorrespond!Copied \/ UNCHANGED host
    BY <2>6 DEF Fill, host, AnswersCorrespond!Copied
  <2>7. CASE Sends
    <3>1. AnswersCorrespond!Copied \/ UNCHANGED host
      BY <2>6, <2>7 DEF Sends, PollTx, SendStreamLane, Task
    <3> QED
      BY <2>4, <3>1
  <2>8. ASSUME NEW t \in Task, SendFrame(t) PROVE UNCHANGED AVars
    BY <2>4, <2>8 DEF SendFrame
  <2>9. CASE Feed \/ AskByWifi \/ Expire \/ MonitorEnds \/ UNCHANGED vars
    BY <2>4, <2>9 DEF Feed, AskByWifi, Expire, MonitorEnds, vars
  <2> QED
    BY <2>1, <2>2, <2>3, <2>5, <2>7, <2>8, <2>9 DEF Next, Board
<1> QED
  BY <1>2, <1>3, InvHolds, TypeCorrect, PTL
     DEF Spec, AnswerSpec, AnswersCorrespond!Spec

LEMMA CorrespondenceMatches == AnswerSpec => []AnswersCorrespond!Matches
<1>1. AnswersCorrespond!Init => AnswersCorrespond!Matches
  BY DEF AnswersCorrespond!Init, AnswersCorrespond!Matches
<1>2. AnswersCorrespond!Matches /\ [AnswersCorrespond!Next]_(AnswersCorrespond!vars)
        => AnswersCorrespond!Matches'
  <2> SUFFICES ASSUME AnswersCorrespond!Matches,
                      [AnswersCorrespond!Next]_(AnswersCorrespond!vars)
               PROVE  AnswersCorrespond!Matches'
    OBVIOUS
  <2> USE DEF AnswersCorrespond!Matches
  <2>1. CASE AnswersCorrespond!Ask
    BY <2>1 DEF AnswersCorrespond!Ask
  <2>2. CASE AnswersCorrespond!Answer
    <3>1. ~crowded' => ~crowded
      BY <2>2 DEF AnswersCorrespond!Answer
    <3> QED
      BY <2>2, <3>1 DEF AnswersCorrespond!Answer
  <2>3. CASE AnswersCorrespond!Disconnect \/ AnswersCorrespond!Copied
    <3>1. ~crowded' => ~crowded
      BY <2>3 DEF AnswersCorrespond!Disconnect, AnswersCorrespond!Copied
    <3> QED
      BY <2>3, <3>1 DEF AnswersCorrespond!Disconnect, AnswersCorrespond!Copied
  <2>4. CASE UNCHANGED AnswersCorrespond!vars
    BY <2>4 DEF AnswersCorrespond!vars
  <2> QED
    BY <2>1, <2>2, <2>3, <2>4 DEF AnswersCorrespond!Next
<1> QED
  BY <1>1, <1>2, PTL DEF AnswerSpec, AnswersCorrespond!Spec

(* With any host and any schedule: unless the board is crowded the answer  *)
(* a host has got last is the answer to its last command, although it      *)
(* matches nothing, and no further answer comes before it asks again.      *)
THEOREM AnswersMatch == Spec => []AnswersCorrespond!Matches
BY ImplementsCorrespondence, CorrespondenceMatches, PTL
-----------------------------------------------------------------------------
(* A host that gives up early and asks again may get the answer to an      *)
(* older command for that of its newest.  But its newest command is not    *)
(* forgotten for the older ones: until something is taken for its answer   *)
(* or it is lost for want of room, it is in the queue, with the task, or   *)
(* its answer is in the pending slot, in a frame or on its way.            *)
NewestIsKept ==
  Awaited =>
    \/ \E i \in Queued : cmd_queue[i].n = waiting
    \/ cmd.source = "USB" /\ cmd.n = waiting
    \/ s_pending_cmd_lane = waiting
    \/ \E t \in Task : frame[t].cmd = waiting
    \/ \E i \in 1 .. Len(fifo) : fifo[i] = waiting

NewestOf(queue, n) ==
  \E i \in 1 .. Len(queue) :
    /\ queue[i].source = "USB" /\ queue[i].n = n
    /\ \A j \in 1 .. Len(queue) : j > i => queue[j].source # "USB"

(* The inductive invariant: no command of the host comes after its newest, *)
(* so that no other answer takes its place in the pending slot, and        *)
(* command_task sends one frame before it takes the next command.          *)
KeptInv ==
  /\ uncleared = {}
  /\ cmd # NoCommand => frame["cmd_task"] = None
  /\ Awaited =>
       \/ NewestOf(cmd_queue, waiting)
       \/ NoneOf(cmd_queue) /\ cmd.source = "USB" /\ cmd.n = waiting
       \/ NoneOf(cmd_queue) /\ NotWithTask /\ s_pending_cmd_lane = waiting
       \/ \E t \in Task : frame[t].cmd = waiting
       \/ \E i \in 1 .. Len(fifo) : fifo[i] = waiting

LEMMA EnqueueAfterNewest ==
  ASSUME cmd_queue \in Seq(Command), NEW c \in Command, Enqueue(c), NEW n
  PROVE  /\ c.source # "USB" /\ NewestOf(cmd_queue, n) => NewestOf(cmd_queue', n)
         /\ c.source = "USB" /\ Len(cmd_queue) < QueueLength => NewestOf(cmd_queue', c.n)
<1>1. CASE UNCHANGED cmd_queue /\ ~(Len(cmd_queue) < QueueLength)
  BY <1>1
<1>2. CASE cmd_queue' = Append(cmd_queue, c)
  <2>1. /\ Len(cmd_queue') = Len(cmd_queue) + 1 /\ Len(cmd_queue) \in Nat
        /\ cmd_queue'[Len(cmd_queue) + 1] = c
        /\ \A i \in 1 .. Len(cmd_queue) : cmd_queue'[i] = cmd_queue[i]
        /\ \A i \in 1 .. Len(cmd_queue') : i = Len(cmd_queue) + 1 \/ i \in 1 .. Len(cmd_queue)
    BY <1>2, AppendedElements
  <2>2. ASSUME c.source # "USB", NewestOf(cmd_queue, n) PROVE NewestOf(cmd_queue', n)
    <3>1. PICK i \in 1 .. Len(cmd_queue) :
            /\ cmd_queue[i].source = "USB" /\ cmd_queue[i].n = n
            /\ \A j \in 1 .. Len(cmd_queue) : j > i => cmd_queue[j].source # "USB"
      BY <2>2 DEF NewestOf
    <3>2. i \in 1 .. Len(cmd_queue') /\ cmd_queue'[i] = cmd_queue[i]
      BY <2>1
    <3>3. \A j \in 1 .. Len(cmd_queue') : j > i => cmd_queue'[j].source # "USB"
      BY <2>1, <2>2, <3>1
    <3> QED
      BY <3>1, <3>2, <3>3 DEF NewestOf
  <2>3. ASSUME c.source = "USB" PROVE NewestOf(cmd_queue', c.n)
    <3>1. Len(cmd_queue') \in 1 .. Len(cmd_queue') /\ cmd_queue'[Len(cmd_queue')] = c
      BY <2>1
    <3>2. \A j \in 1 .. Len(cmd_queue') : ~(j > Len(cmd_queue'))
      BY <2>1
    <3> QED
      BY <2>3, <3>1, <3>2 DEF NewestOf
  <2> QED
    BY <2>2, <2>3
<1> QED
  BY <1>1, <1>2 DEF Enqueue

LEMMA DequeueNewest ==
  ASSUME NEW queue \in Seq(Command), queue # <<>>, NEW n, NewestOf(queue, n)
  PROVE  \/ Head(queue).source = "USB" /\ Head(queue).n = n /\ NoneOf(Tail(queue))
         \/ NewestOf(Tail(queue), n)
<1>1. PICK i \in 1 .. Len(queue) :
        /\ queue[i].source = "USB" /\ queue[i].n = n
        /\ \A j \in 1 .. Len(queue) : j > i => queue[j].source # "USB"
  BY DEF NewestOf
<1>2. CASE i = 1
  <2>1. NoneOf(Tail(queue))
    BY <1>1, <1>2, RemainingElements DEF NoneOf
  <2> QED
    BY <1>1, <1>2, <2>1, RemainingElements
<1>3. CASE i # 1
  <2>1. i - 1 \in 1 .. Len(Tail(queue)) /\ Tail(queue)[i - 1] = queue[i]
    BY <1>3, RemainingElements
  <2>2. \A j \in 1 .. Len(Tail(queue)) : j > i - 1 => Tail(queue)[j].source # "USB"
    BY <1>1, RemainingElements
  <2> QED
    BY <1>1, <2>1, <2>2 DEF NewestOf
<1> QED
  BY <1>2, <1>3

LEMMA CommandTaskKeepsNewest ==
  ASSUME TypeOK, KeptInv, CommandTask
  PROVE  KeptInv'
<1> DEFINE c == Head(cmd_queue)
<1> USE DEF NotWithTask
<1>1. CASE Respond
  <2>1. UNCHANGED <<cmd_queue, uncleared, fifo, waiting, lost>> /\ cmd' = NoCommand
        /\ cmd # NoCommand
    BY <1>1 DEF Respond, host
  <2>2. cmd'.source # "USB"
    BY <2>1 DEF NoCommand
  <2>3. CASE cmd.source # "USB"
    <3>1. UNCHANGED <<s_pending_cmd_lane, frame>>
      BY <1>1, <2>3 DEF Respond
    <3> QED
      BY <2>1, <2>2, <2>3, <3>1 DEF KeptInv, Awaited
  <2>4. CASE cmd.source = "USB" /\ s_pending_cmd_lane' = cmd.n /\ UNCHANGED frame
    BY <2>1, <2>2, <2>4 DEF KeptInv, Awaited
  <2>5. CASE /\ cmd.source = "USB" /\ UNCHANGED s_pending_cmd_lane
             /\ frame' = [frame EXCEPT
                  !["cmd_task"] = [cmd |-> cmd.n, stream |-> "zeroes"]]
    <3>1. /\ "cmd_task" \in Task /\ frame'["cmd_task"].cmd = cmd.n
          /\ \A t \in Task \ {"cmd_task"} : frame'[t] = frame[t]
      BY <2>5 DEF TypeOK, Task
    <3>2. frame["cmd_task"].cmd = 0
      BY <2>1 DEF KeptInv, None
    <3>3. ASSUME Awaited, \E t \in Task : frame[t].cmd = waiting
          PROVE  \E t \in Task : frame'[t].cmd = waiting
      BY <3>1, <3>2, <3>3 DEF Awaited
    <3> QED
      BY <2>1, <2>2, <2>5, <3>1, <3>3 DEF KeptInv, Awaited
  <2> QED
    BY <1>1, <2>3, <2>4, <2>5 DEF Respond
<1>2. CASE CommandTask /\ ~Respond
  <2>1. Take(c) /\ (Answering(c) \/ cmd' = c)
    BY <1>2 DEF CommandTask, Busy, Handle, Query, Operate, Connect, Disconnect,
       SampleStart, SampleStop, TransmitStart, TransmitStop
  <2>2. cmd'.source = c.source /\ cmd'.n = c.n
    BY <2>1, TakeIsTyped, AnsweringIsTyped
  <2>3. /\ cmd_queue \in Seq(Command) /\ cmd_queue # <<>> /\ cmd_queue' = Tail(cmd_queue)
        /\ cmd = NoCommand /\ frame["cmd_task"] = None
        /\ UNCHANGED <<s_pending_cmd_lane, frame, uncleared, fifo, waiting, lost>>
    BY <2>1 DEF Take, TypeOK, sending, host
  <2>4. NewestOf(cmd_queue, waiting) =>
          \/ NewestOf(cmd_queue', waiting)
          \/ NoneOf(cmd_queue') /\ cmd'.source = "USB" /\ cmd'.n = waiting
    BY <2>2, <2>3, DequeueNewest
  <2>5. NoneOf(cmd_queue) => NoneOf(cmd_queue') /\ cmd'.source # "USB"
    BY <2>2, <2>3, Dequeue
  <2>6. cmd.source # "USB"
    BY <2>3 DEF NoCommand
  <2> QED
    BY <2>3, <2>4, <2>5, <2>6 DEF KeptInv, Awaited
<1> QED
  BY <1>1, <1>2

LEMMA SendingKeepsNewest ==
  ASSUME TypeOK, KeptInv, ~Overlap, Sends \/ \E t \in Task : SendFrame(t)
  PROVE  KeptInv'
<1> USE DEF NotWithTask
<1>1. ASSUME NEW t \in Task \ {"cmd_task"}, NEW stream, Fill(t, stream) PROVE KeptInv'
  <2>1. /\ frame[t] = None /\ frame'[t].cmd = s_pending_cmd_lane
        /\ \A u \in Task \ {t} : frame'[u] = frame[u]
        /\ UNCHANGED <<cmd_queue, cmd, uncleared, fifo, waiting, lost>>
    BY <1>1 DEF Fill, TypeOK, host
  <2>2. frame[t].cmd = 0 /\ frame'["cmd_task"] = frame["cmd_task"]
    BY <2>1 DEF None, Task
  <2>3. ASSUME Awaited, \E u \in Task : frame[u].cmd = waiting
        PROVE  \E u \in Task : frame'[u].cmd = waiting
    BY <2>1, <2>2, <2>3 DEF Awaited
  <2> QED
    BY <2>1, <2>2, <2>3 DEF KeptInv, Awaited
<1>2. CASE Sends
  BY <1>1, <1>2 DEF Sends, PollTx, SendStreamLane, Task
<1>3. ASSUME NEW t \in Task, SendFrame(t) PROVE KeptInv'
  <2>1. /\ frame'[t] = None /\ \A u \in Task \ {t} : frame'[u] = frame[u]
        /\ UNCHANGED <<cmd_queue, cmd, s_pending_cmd_lane, uncleared, waiting>>
        /\ \/ fifo' = Append(fifo, frame[t].cmd) /\ UNCHANGED lost
           \/ UNCHANGED fifo /\ (lost' <=> lost \/ frame[t].cmd # 0)
    BY <1>3 DEF SendFrame, host, KeptInv, TypeOK
  <2>2. frame[t].cmd \in Number /\ fifo \in Seq(Number)
    BY <1>3, Bounds DEF TypeOK, Frame, None
  <2>3. cmd # NoCommand => frame'["cmd_task"] = None
    BY <2>1 DEF KeptInv, Task
  <2>4. ASSUME \E i \in 1 .. Len(fifo) : fifo[i] = waiting
        PROVE  \E i \in 1 .. Len(fifo') : fifo'[i] = waiting
    <3>1. CASE UNCHANGED fifo
      BY <2>4, <3>1
    <3>2. CASE fifo' = Append(fifo, frame[t].cmd)
      BY <2>2, <2>4, <3>2, AppendedElements
    <3> QED
      BY <2>1, <3>1, <3>2
  <2>5. ASSUME Awaited', \E u \in Task : frame[u].cmd = waiting
        PROVE  \/ \E u \in Task : frame'[u].cmd = waiting
               \/ \E i \in 1 .. Len(fifo') : fifo'[i] = waiting
    <3>1. PICK u \in Task : frame[u].cmd = waiting
      BY <2>5
    <3>2. CASE u # t
      BY <2>1, <3>1, <3>2
    <3>3. CASE u = t
      <4>1. fifo' = Append(fifo, waiting)
        BY <2>1, <2>5, <3>1, <3>3 DEF Awaited
      <4>2. Len(fifo) + 1 \in 1 .. Len(fifo') /\ fifo'[Len(fifo) + 1] = waiting
        BY <2>2, <3>1, <3>3, <4>1, AppendedElements
      <4> QED
        BY <4>2
    <3> QED
      BY <3>2, <3>3
  <2>6. Awaited' => Awaited
    BY <2>1 DEF Awaited
  <2> QED
    BY <2>1, <2>3, <2>4, <2>5, <2>6 DEF KeptInv
<1> QED
  BY <1>2, <1>3

LEMMA StepKeepsNewest ==
  ASSUME TypeOK, KeptInv, ~Overlap, [Next]_vars
  PROVE  KeptInv'
<1> USE DEF NotWithTask
<1>1. CASE CommandTask
  BY <1>1, CommandTaskKeepsNewest
<1>2. CASE Sends \/ \E t \in Task : SendFrame(t)
  BY <1>2, SendingKeepsNewest
<1>3. CASE Ask
  <2>1. PICK op \in Op : Enqueue([source |-> "USB", op |-> op, n |-> asked'])
    BY <1>3 DEF Ask
  <2> DEFINE c == [source |-> "USB", op |-> op, n |-> asked']
  <2>2. c \in Command /\ c.source = "USB" /\ c.n = asked'
    BY <1>3, Sources, NumberIsTyped DEF Ask, TypeOK, Command
  <2>3. /\ UNCHANGED <<cmd, frame, uncleared>> /\ waiting' = asked'
        /\ lost' <=> Len(cmd_queue) = QueueLength
    BY <1>3 DEF Ask, sending
  <2>4. Len(cmd_queue) < QueueLength => NewestOf(cmd_queue', c.n)
    <3>1. cmd_queue \in Seq(Command) /\ Enqueue(c)
      BY <2>1 DEF TypeOK
    <3> HIDE DEF c
    <3> QED
      BY <2>2, <3>1, EnqueueAfterNewest
  <2>5. ~lost' => NewestOf(cmd_queue', waiting')
    BY <2>2, <2>3, <2>4, Bounds DEF TypeOK
  <2> QED
    BY <2>3, <2>5 DEF KeptInv, Awaited
<1>4. CASE AskByWifi
  <2>1. PICK s \in Others, op \in Op : Enqueue([source |-> s, op |-> op, n |-> 0])
    BY <1>4 DEF AskByWifi
  <2> DEFINE c == [source |-> s, op |-> op, n |-> 0]
  <2>2. c \in Command /\ c.source # "USB"
    BY Sources, Bounds DEF Command
  <2>3. /\ NoneOf(cmd_queue) => NoneOf(cmd_queue')
        /\ NewestOf(cmd_queue, waiting) => NewestOf(cmd_queue', waiting)
    BY <2>1, <2>2, EnqueueOther, EnqueueAfterNewest DEF TypeOK
  <2>4. UNCHANGED <<cmd, s_pending_cmd_lane, frame, uncleared, fifo, waiting, lost>>
    BY <1>4 DEF AskByWifi, sending, host
  <2> QED
    BY <2>3, <2>4 DEF KeptInv, Awaited
<1>5. CASE Collect
  <2>1. /\ fifo # <<>> /\ fifo' = Tail(fifo)
        /\ UNCHANGED <<cmd_queue, cmd, s_pending_cmd_lane, frame, uncleared, lost>>
        /\ \/ waiting' = 0
           \/ Head(fifo) = 0 /\ waiting' = waiting
    BY <1>5 DEF Collect, host
  <2>2. ASSUME Awaited', \E i \in 1 .. Len(fifo) : fifo[i] = waiting
        PROVE  \E i \in 1 .. Len(fifo') : fifo'[i] = waiting
    <3>1. Head(fifo) = 0 /\ waiting' = waiting /\ waiting # 0
      BY <2>1, <2>2 DEF Awaited
    <3>2. PICK i \in 1 .. Len(fifo) : fifo[i] = waiting
      BY <2>2
    <3>3. fifo \in Seq(Number)
      BY DEF TypeOK
    <3>4. i # 1
      BY <2>1, <3>1, <3>2, <3>3, RemainingElements
    <3> QED
      BY <2>1, <3>2, <3>3, <3>4, RemainingElements
  <2> QED
    BY <2>1, <2>2 DEF KeptInv, Awaited
<1>6. CASE Feed \/ Expire \/ MonitorEnds \/ UNCHANGED vars
  <2>1. UNCHANGED <<cmd_queue, cmd, s_pending_cmd_lane, frame, uncleared, fifo,
                    waiting, lost>>
    BY <1>6 DEF Feed, Expire, MonitorEnds, vars, sending, host
  <2> QED
    BY <2>1 DEF KeptInv, Awaited
<1>7. CASE Restart \/ GiveUp
  <2>1. waiting' = 0
    BY <1>7 DEF Restart, GiveUp
  <2>2. uncleared' = {} /\ (cmd' # NoCommand => frame'["cmd_task"] = None)
    BY <1>7 DEF Restart, GiveUp, sending, KeptInv
  <2> QED
    BY <2>1, <2>2 DEF KeptInv, Awaited
<1> QED
  BY <1>1, <1>2, <1>3, <1>4, <1>5, <1>6, <1>7 DEF Next, Board

(* However soon the host gives up, and whichever tasks send: its newest    *)
(* command or the answer to it is on the board until the host has taken    *)
(* an answer for it, unless it is lost for want of room.                   *)
THEOREM KeepsTheNewest ==
  ASSUME ~Overlap
  PROVE  Spec => []NewestIsKept
<1>1. Init => KeptInv
  BY DEF Init, KeptInv, Awaited
<1>2. TypeOK /\ KeptInv /\ [Next]_vars => KeptInv'
  BY StepKeepsNewest
<1>3. KeptInv => NewestIsKept
  BY DEF KeptInv, NewestIsKept, NewestOf, Queued
<1> QED
  BY <1>1, <1>2, <1>3, TypeCorrect, PTL DEF Spec
=============================================================================
