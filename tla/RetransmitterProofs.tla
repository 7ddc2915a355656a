-------------------------- MODULE RetransmitterProofs --------------------------
(* Proofs about the retransmitter, for any buffer size and any timeouts.   *)
EXTENDS Retransmitter, TLAPS

-----------------------------------------------------------------------------
(* Types.                                                                  *)

Round == [pc : {"round"}, started : BOOLEAN, fill_wait : 0 .. Timeout,
          idle : 0 .. IdleExit, unchanged : 0 .. Timeout, last : 0 .. Capacity]
Elsewhere == [pc : {"none", "start", "stop", "exit"}]

(* In a round the monitor has its local variables.                         *)
LEMMA RoundType ==
  ASSUME TypeOK, monitor.pc = "round"
  PROVE  monitor \in Round
BY DEF TypeOK, Round

LEMMA FillingType ==
  ASSUME NEW n \in 0 .. Timeout
  PROVE  Filling(n) \in Round
BY BufferAssumption DEF Filling, Round

LEMMA WatchingType ==
  ASSUME NEW i \in 0 .. IdleExit, NEW u \in 0 .. Timeout, NEW l \in 0 .. Capacity
  PROVE  Watching(i, u, l) \in Round
BY BufferAssumption DEF Watching, Round

(* What a step that leaves everything but the monitor does to the types.   *)
LEMMA MonitorStepType ==
  ASSUME TypeOK,
         monitor' \in Elsewhere \cup Round,
         timer' \in {"paused", "counts"}, ticked' \in BOOLEAN, decided' \in BOOLEAN,
         UNCHANGED <<transmission_active, handle, interrupt, s_buffer_type,
                     available, command, stop, sampling>>
  PROVE  TypeOK'
BY DEF TypeOK, Elsewhere, Round

LEMMA InitType == Init => TypeOK
<1> SUFFICES ASSUME Init PROVE TypeOK
  OBVIOUS
<1>1. monitor \in Elsewhere
  BY DEF Init, NoMonitor, Elsewhere
<1>2. stop \in [Caller -> {"no", "free", "freed", "end"}] /\ 0 \in 0 .. Capacity
  BY BufferAssumption DEF Init
<1> QED
  BY <1>1, <1>2 DEF Init, TypeOK, Elsewhere

LEMMA CommandType == TypeOK /\ (StartCommand \/ SamplerCommand) => TypeOK'
<1> SUFFICES ASSUME TypeOK, StartCommand \/ SamplerCommand PROVE TypeOK'
  OBVIOUS
<1>0. 0 \in 0 .. Capacity /\ Filling(0) \in Round
  BY BufferAssumption, FillingType
<1>1. CASE Start
  BY <1>0, <1>1 DEF Start, TypeOK
<1>2. CASE Register
  BY <1>2 DEF Register, TypeOK
<1>3. CASE StartWithoutInterrupt
  BY <1>3 DEF StartWithoutInterrupt, TypeOK
<1>4. CASE EnsureMonitor
  BY <1>0, <1>4 DEF EnsureMonitor, TypeOK, Round
<1>5. CASE StartWithoutMonitor
  BY <1>0, <1>5 DEF StartWithoutMonitor, TypeOK
<1>6. CASE StartSampler
  BY <1>6 DEF StartSampler, TypeOK
<1>7. CASE StopSampler
  BY <1>7 DEF StopSampler, TypeOK
<1> QED
  BY <1>1, <1>2, <1>3, <1>4, <1>5, <1>6, <1>7 DEF StartCommand, SamplerCommand

LEMMA StopType == TypeOK /\ (\E p \in Caller : StopCall(p)) => TypeOK'
<1> SUFFICES ASSUME TypeOK, NEW p \in Caller, StopCall(p) PROVE TypeOK'
  OBVIOUS
<1>0. 0 \in 0 .. Capacity /\ [pc |-> "exit"] \in Elsewhere
  BY BufferAssumption DEF Elsewhere
<1>1. \A s \in {"no", "free", "freed", "end"} :
        [stop EXCEPT ![p] = s] \in [Caller -> {"no", "free", "freed", "end"}]
  BY DEF TypeOK
<1>2. CASE StopBegin(p)
  <2>1. stop' \in [Caller -> {"no", "free", "freed", "end"}]
    BY <1>1, <1>2 DEF StopBegin
  <2> QED
    BY <1>2, <2>1 DEF StopBegin, TypeOK
<1>3. CASE StopFree(p)
  <2>1. stop' \in [Caller -> {"no", "free", "freed", "end"}]
    BY <1>1, <1>3 DEF StopFree
  <2> QED
    BY <1>3, <2>1 DEF StopFree, TypeOK
<1>4. CASE StopEnd(p)
  <2>1. stop' \in [Caller -> {"no", "free", "freed", "end"}]
    BY <1>1, <1>4 DEF StopEnd
  <2>2. monitor' \in Elsewhere \cup Round
    BY <1>0, <1>4 DEF StopEnd, TypeOK, Elsewhere, Round
  <2> QED
    BY <1>0, <1>4, <2>1, <2>2 DEF StopEnd, TypeOK, Elsewhere, Round
<1> QED
  BY <1>2, <1>3, <1>4 DEF StopCall

LEMMA MonitorType == TypeOK /\ MonitorTask => TypeOK'
<1> SUFFICES ASSUME TypeOK, MonitorTask PROVE TypeOK'
  OBVIOUS
<1>0. /\ \A s \in {"none", "start", "stop", "exit"} : [pc |-> s] \in Elsewhere
      /\ timer \in {"paused", "counts"} /\ ticked \in BOOLEAN /\ decided \in BOOLEAN
      /\ available \in 0 .. Capacity
  BY DEF TypeOK, Elsewhere
<1>1. CASE NoticeEnd
  BY <1>0, <1>1, MonitorStepType DEF NoticeEnd, RoundBegins
<1>2. CASE WaitForBytes
  <2>1. monitor \in Round
    BY <1>2, RoundType DEF WaitForBytes, RoundBegins
  <2>2. ~Filled => monitor.fill_wait + 1 \in 0 .. Timeout
    BY <2>1, BufferAssumption DEF Filled, Round
  <2>3. ~Filled => Filling(monitor.fill_wait + 1) \in Round
    BY <2>2, FillingType
  <2> QED
    BY <1>0, <1>2, <2>3, MonitorStepType DEF WaitForBytes, RoundBegins
<1>3. CASE StartTimer
  <2>1. Watching(0, 0, available) \in Round
    BY <1>0, WatchingType, BufferAssumption
  <2> QED
    BY <1>0, <1>3, <2>1, MonitorStepType DEF StartTimer
<1>4. CASE Watch
  <2>1. monitor \in Round
    BY <1>4, RoundType DEF Watch, RoundBegins
  <2> DEFINE idle == IF available = 0 THEN monitor.idle + 1 ELSE 0
             unchanged == IF available = monitor.last THEN monitor.unchanged + 1 ELSE 0
  <2>2. ~(idle >= IdleExit \/ unchanged >= Timeout) =>
          idle \in 0 .. IdleExit /\ unchanged \in 0 .. Timeout
    BY <2>1, BufferAssumption DEF Round
  <2> HIDE DEF idle, unchanged
  <2>3. ~(idle >= IdleExit \/ unchanged >= Timeout) =>
          Watching(idle, unchanged, available) \in Round
    BY <1>0, <2>2, WatchingType
  <2>4. monitor' \in Elsewhere \cup Round /\ decided' \in BOOLEAN
    BY <1>0, <1>4, <2>3 DEF Watch, idle, unchanged
  <2> QED
    BY <1>0, <1>4, <2>4, MonitorStepType DEF Watch, RoundBegins
<1>5. CASE StopNothing
  BY <1>0, <1>5, MonitorStepType DEF StopNothing
<1>6. CASE Exit
  BY <1>0, <1>6, MonitorStepType DEF Exit, NoMonitor
<1> QED
  BY <1>1, <1>2, <1>3, <1>4, <1>5, <1>6 DEF MonitorTask

LEMMA StepType == TypeOK /\ [Next]_vars => TypeOK'
<1> SUFFICES ASSUME TypeOK, [Next]_vars PROVE TypeOK'
  OBVIOUS
<1>1. CASE Ingest
  <2>1. available' \in 0 .. Capacity
    BY <1>1, BufferAssumption DEF Ingest, TypeOK
  <2> QED
    BY <1>1, <2>1 DEF Ingest, TypeOK
<1>2. CASE PlayByte
  <2>1. available' \in 0 .. Capacity
    BY <1>2, BufferAssumption DEF PlayByte, TypeOK
  <2> QED
    BY <1>2, <2>1 DEF PlayByte, TypeOK
<1>3. CASE UNCHANGED vars
  BY <1>3 DEF vars, TypeOK
<1> QED
  BY <1>1, <1>2, <1>3, CommandType, StopType, MonitorType DEF Next

(* The variables keep their types: no lane is taken that does not fit.     *)
THEOREM TypeCorrect == Spec => []TypeOK
BY InitType, StepType, PTL DEF Spec

-----------------------------------------------------------------------------
(* What a START, a STOP and the monitor's end have done at each of their   *)
(* steps, when they come one after the other.                              *)

Registering ==
  ~transmission_active /\ ~handle /\ ~interrupt
    /\ s_buffer_type = "CIRCULAR" /\ timer = "paused"
Loaded ==
  transmission_active /\ handle /\ s_buffer_type = "CIRCULAR" /\ timer = "paused"
Settled ==
  /\ handle <=> transmission_active
  /\ interrupt <=> transmission_active
  /\ s_buffer_type = "CIRCULAR" <=> transmission_active
  /\ timer = "counts" => transmission_active

InTurn ==
  /\ ~(CommandBusy /\ MonitorBusy)
  /\ stop["monitor"] # "no" => monitor.pc = "stop"
  /\ command # "ready" => stop["command"] = "no"
  /\ ~sampling
Steps ==
  /\ command = "register" => Registering
  /\ command = "monitor" => Loaded /\ interrupt
  /\ \A p \in Caller :
       /\ stop[p] = "free" => Loaded /\ interrupt
       /\ stop[p] = "freed" => Loaded /\ ~interrupt
       /\ stop[p] # "end"
  /\ command = "ready" /\ (\A p \in Caller : stop[p] = "no") => Settled
  /\ MonitorBusy => transmission_active

Orderly == TypeOK /\ InTurn /\ Steps

LEMMA InitOrderly == Init => Orderly
<1> SUFFICES ASSUME Init PROVE InTurn /\ Steps
  BY InitType DEF Orderly
<1>1. \A p \in Caller : stop[p] = "no"
  BY DEF Init
<1>2. stop["monitor"] = "no" /\ stop["command"] = "no"
  BY <1>1 DEF Caller
<1> QED
  BY <1>1, <1>2 DEF Init, InTurn, Steps, Settled, CommandBusy, MonitorBusy, NoMonitor

(* No step of a command disturbs the order.                                *)
LEMMA CommandOrderly ==
  ASSUME ~Overlap, ~Sampling, Orderly, StartCommand \/ SamplerCommand
  PROVE  Orderly'
<1>0. TypeOK /\ TypeOK'
  BY CommandType DEF Orderly
<1> USE DEF Orderly, InTurn, Steps, CommandBusy, MonitorBusy, CommandRuns
<1>1. CASE Start
  <2>1. /\ stop["command"] = "no" /\ stop["monitor"] = "no"
        /\ \A p \in Caller : stop[p] = "no"
    BY <1>0, <1>1 DEF Start, Caller
  <2> QED
    BY <1>0, <1>1, <2>1 DEF Start, Registering, Settled
<1>2. CASE Register
  BY <1>0, <1>2 DEF Register, Registering, Loaded, Caller
<1>3. CASE StartWithoutInterrupt
  BY <1>0, <1>3 DEF StartWithoutInterrupt, Registering, Settled, Loaded, Caller
<1>4. CASE EnsureMonitor
  BY <1>0, <1>4 DEF EnsureMonitor, Settled, Loaded, Caller, NoMonitor, Filling
<1>5. CASE StartWithoutMonitor
  BY <1>0, <1>5 DEF StartWithoutMonitor, Settled, Loaded, Caller, NoMonitor
<1>6. CASE StartSampler
  BY <1>6 DEF StartSampler
<1>7. CASE StopSampler
  BY <1>7 DEF StopSampler
<1> QED
  BY <1>1, <1>2, <1>3, <1>4, <1>5, <1>6, <1>7 DEF StartCommand, SamplerCommand

(* Nor does a step of transmit_stop_impl.                                  *)
LEMMA StopOrderly ==
  ASSUME ~Overlap, Orderly, NEW p \in Caller, StopCall(p)
  PROVE  Orderly'
<1>0. TypeOK /\ TypeOK'
  BY StopType DEF Orderly
<1> DEFINE q == IF p = "command" THEN "monitor" ELSE "command"
<1>a. /\ Caller = {p, q} /\ p # q /\ q \in Caller
      /\ "command" \in Caller /\ "monitor" \in Caller
  BY DEF Caller
<1>b. stop' = [stop EXCEPT ![p] = stop'[p]]
  BY <1>0 DEF StopCall, StopBegin, StopFree, StopEnd, TypeOK
<1>c. stop[q] = "no" /\ stop'[q] = "no" /\ command = "ready"
  BY <1>0, <1>a, <1>b DEF Orderly, InTurn, CommandBusy, MonitorBusy, StopCall,
     StopBegin, StopFree, StopEnd, Runs, CommandRuns, MonitorRuns, TypeOK, Caller
<1> USE DEF Orderly, InTurn, Steps, CommandBusy, MonitorBusy
<1>1. CASE StopBegin(p)
  <2>1. stop[p] = "no" /\ Settled /\ transmission_active
    BY <1>1, <1>a, <1>c DEF StopBegin
  <2>2. stop'[p] = "free" /\ timer' = "paused"
    BY <1>0, <1>1, <2>1 DEF StopBegin, Settled, TypeOK
  <2>3. Loaded' /\ interrupt' /\ command' = "ready" /\ ~sampling'
    BY <1>0, <1>1, <1>c, <2>1, <2>2 DEF StopBegin, Settled, Loaded, TypeOK
  <2>4. InTurn'
    BY <1>1, <1>a, <1>c, <2>3 DEF StopBegin, Runs, CommandRuns, MonitorRuns
  <2> QED
    BY <1>0, <1>a, <1>c, <2>2, <2>3, <2>4 DEF Loaded
<1>2. CASE StopFree(p)
  <2>1. Loaded /\ interrupt /\ stop'[p] = "freed"
    BY <1>0, <1>2 DEF StopFree, TypeOK
  <2>2. Loaded' /\ ~interrupt' /\ command' = "ready" /\ ~sampling'
    BY <1>2, <1>c, <2>1 DEF StopFree, Loaded
  <2>3. InTurn'
    BY <1>2, <1>a, <1>c, <2>2 DEF StopFree, Runs, CommandRuns, MonitorRuns
  <2> QED
    BY <1>0, <1>a, <1>c, <2>1, <2>2, <2>3 DEF Loaded
<1>3. CASE StopEnd(p)
  <2>1. Loaded /\ ~interrupt /\ stop'[p] = "no" /\ stop[p] = "freed"
    BY <1>0, <1>3 DEF StopEnd, TypeOK
  <2>2. Settled' /\ command' = "ready" /\ ~sampling'
    BY <1>3, <1>c, <2>1 DEF StopEnd, Loaded, Settled
  <2>3. ~MonitorBusy'
    BY <1>0, <1>3, <1>a, <1>c, <2>1 DEF StopEnd, Runs, CommandRuns, Caller
  <2>4. \A r \in Caller : stop'[r] = "no"
    BY <1>a, <1>c, <2>1
  <2> QED
    BY <1>0, <1>a, <2>2, <2>3, <2>4
<1> QED
  BY <1>1, <1>2, <1>3 DEF StopCall

(* Nor does the monitor ...                                                *)
LEMMA MonitorOrderly ==
  ASSUME ~Overlap, Orderly, MonitorTask
  PROVE  Orderly'
<1>0. TypeOK /\ TypeOK'
  BY MonitorType DEF Orderly
<1> USE DEF Orderly, InTurn, Steps, CommandBusy, MonitorBusy, MonitorRuns
<1>1. CASE NoticeEnd
  BY <1>0, <1>1 DEF NoticeEnd, RoundBegins, Settled, Loaded, Registering
<1>2. CASE WaitForBytes
  BY <1>0, <1>2 DEF WaitForBytes, RoundBegins, Settled, Loaded, Registering, Filling
<1>3. CASE StartTimer
  <2>1. MonitorBusy /\ ~MonitorBusy' /\ command = "ready" /\ stop["command"] = "no"
    BY <1>3 DEF StartTimer, Watching
  <2>2. Settled'
    BY <1>3, <2>1 DEF StartTimer, Settled, Caller
  <2> QED
    BY <1>0, <1>3, <2>1, <2>2 DEF StartTimer, Loaded, Caller
<1>4. CASE Watch
  BY <1>0, <1>4 DEF Watch, RoundBegins, Settled, Loaded, Registering, Watching
<1>5. CASE StopNothing
  BY <1>0, <1>5 DEF StopNothing
<1>6. CASE Exit
  BY <1>0, <1>6 DEF Exit, NoMonitor, Settled, Loaded, Registering
<1> QED
  BY <1>1, <1>2, <1>3, <1>4, <1>5, <1>6 DEF MonitorTask

(* ... nor the stream.                                                     *)
LEMMA StepOrderly ==
  ASSUME ~Overlap, ~Sampling, Orderly, [Next]_vars
  PROVE  Orderly'
<1>0. TypeOK /\ TypeOK'
  BY StepType DEF Orderly
<1>1. CASE Ingest \/ PlayByte \/ UNCHANGED vars
  BY <1>0, <1>1 DEF Ingest, PlayByte, vars, Orderly, InTurn, Steps, CommandBusy,
     MonitorBusy, Registering, Loaded, Settled
<1> QED
  BY <1>1, CommandOrderly, StopOrderly, MonitorOrderly DEF Next

(* Interrupt, handle, buffer mode and timer agree with the flag whenever   *)
(* no command and no stop is under way.                                    *)
THEOREM AllIsUndone ==
  ASSUME ~Overlap, ~Sampling
  PROVE  Spec => []EverythingIsUndone
<1>1. Init => Orderly
  BY InitOrderly
<1>2. Orderly /\ [Next]_vars => Orderly'
  BY StepOrderly
<1>3. Orderly => EverythingIsUndone
  BY DEF Orderly, InTurn, Steps, Settled, EverythingIsUndone, CommandBusy, Caller
<1> QED
  BY <1>1, <1>2, <1>3, PTL DEF Spec

-----------------------------------------------------------------------------
(* The monitor of a transmission, when the host waits for the last one to  *)
(* be gone, however commands, monitor and sampler overlap: a START finds   *)
(* no monitor and the one it creates stays until the transmission is over, *)
(* it watches only what it has started, and the interrupt is freed only by *)
(* a stop that ends the transmission.                                      *)

Guarded ==
  /\ command # "ready" => monitor = NoMonitor /\ stop["command"] = "no"
  /\ transmission_active /\ command # "monitor" =>
       monitor.pc \notin {"none", "exit"}
  /\ stop["monitor"] # "no" => monitor.pc = "stop"
  /\ monitor.pc = "round" /\ transmission_active /\ ~CommandBusy =>
       (monitor.started => timer = "counts")
  /\ transmission_active /\ (\A p \in Caller : stop[p] = "no") => interrupt

LEMMA StepGuarded ==
  ASSUME ~Hasty, TypeOK, TypeOK', Guarded, [Next]_vars
  PROVE  Guarded'
<1> USE DEF Guarded, CommandBusy, Caller
<1>1. CASE StartCommand \/ SamplerCommand
  <2>1. CASE Start
    BY <2>1 DEF Start, NoMonitor
  <2>2. CASE Register
    BY <2>2 DEF Register, NoMonitor
  <2>3. CASE StartWithoutInterrupt
    BY <2>3 DEF StartWithoutInterrupt, NoMonitor
  <2>4. CASE EnsureMonitor
    BY <2>4 DEF EnsureMonitor, Filling, NoMonitor
  <2>5. CASE StartWithoutMonitor
    BY <2>5 DEF StartWithoutMonitor
  <2>6. CASE StartSampler \/ StopSampler
    BY <2>6 DEF StartSampler, StopSampler
  <2> QED
    BY <1>1, <2>1, <2>2, <2>3, <2>4, <2>5, <2>6 DEF StartCommand, SamplerCommand
<1>2. ASSUME NEW p \in Caller, StopCall(p)
      PROVE  Guarded'
  <2>1. CASE StopBegin(p)
    BY <2>1 DEF StopBegin, TypeOK
  <2>2. CASE StopFree(p)
    <3>1. CASE p = "command"
      BY <2>2, <3>1 DEF StopFree, TypeOK
    <3>2. CASE p = "monitor"
      BY <2>2, <3>2 DEF StopFree, TypeOK
    <3> QED
      BY <1>2, <3>1, <3>2
  <2>3. CASE StopEnd(p)
    <3>1. /\ stop[p] # "no" /\ ~transmission_active' /\ command' = command
          /\ stop' = [stop EXCEPT ![p] = "no"]
          /\ stop \in [Caller -> {"no", "free", "freed", "end"}]
      BY <2>3 DEF StopEnd, TypeOK
    <3>2. CASE p = "command"
      BY <2>3, <3>1, <3>2 DEF StopEnd
    <3>3. CASE p = "monitor"
      <4>1. monitor.pc = "stop" /\ command = "ready"
        BY <3>1, <3>3 DEF NoMonitor
      <4> QED
        BY <3>1, <3>3, <4>1
    <3> QED
      BY <3>2, <3>3
  <2> QED
    BY <1>2, <2>1, <2>2, <2>3 DEF StopCall
<1>3. CASE MonitorTask
  <2>0. monitor.pc # "none" => command = "ready"
    BY DEF NoMonitor
  <2>1. CASE NoticeEnd
    BY <2>0, <2>1 DEF NoticeEnd, RoundBegins
  <2>2. CASE WaitForBytes
    BY <2>0, <2>2 DEF WaitForBytes, RoundBegins, Filling
  <2>3. CASE StartTimer
    BY <2>0, <2>3 DEF StartTimer, Watching
  <2>4. CASE Watch
    BY <2>0, <2>4 DEF Watch, RoundBegins, Watching
  <2>5. CASE StopNothing
    BY <2>0, <2>5 DEF StopNothing
  <2>6. CASE Exit
    BY <2>0, <2>6 DEF Exit, NoMonitor
  <2> QED
    BY <1>3, <2>1, <2>2, <2>3, <2>4, <2>5, <2>6 DEF MonitorTask
<1>4. CASE Ingest \/ PlayByte \/ UNCHANGED vars
  BY <1>4 DEF Ingest, PlayByte, vars
<1> QED
  BY <1>1, <1>2, <1>3, <1>4 DEF Next

LEMMA InitGuarded == Init => Guarded
BY DEF Init, Guarded, NoMonitor, Caller

(* If the host waits for the last monitor to be gone, a transmission that  *)
(* START has answered for has a monitor, also where the command task and   *)
(* the monitor run at the same time and the sampler comes in between.      *)
THEOREM AlwaysMonitored ==
  ASSUME ~Hasty
  PROVE  Spec => []IsMonitored
<1>1. Init => TypeOK /\ Guarded
  BY InitType, InitGuarded
<1>2. TypeOK /\ Guarded /\ [Next]_vars => TypeOK' /\ Guarded'
  BY StepType, StepGuarded
<1>3. Guarded => IsMonitored
  BY DEF Guarded, IsMonitored, CommandBusy
<1> QED
  BY <1>1, <1>2, <1>3, PTL DEF Spec

(* Under the same condition, and also where commands and rounds of the     *)
(* monitor overlap, the monitor decides to end only a transmission that    *)
(* plays or that the host is stopping.                                     *)
THEOREM EndsWhatPlays ==
  ASSUME ~Hasty
  PROVE  Spec => PlaysBeforeItEnds
<1>1. Init => TypeOK /\ Guarded
  BY InitType, InitGuarded
<1>2. TypeOK /\ Guarded /\ [Next]_vars => TypeOK' /\ Guarded'
  BY StepType, StepGuarded
<1> DEFINE Plays == (timer = "counts" /\ interrupt) \/ stop["command"] # "no"
<1>3. Guarded /\ [Next]_vars => (decided' /\ ~decided => Plays)
  <2> SUFFICES ASSUME Guarded, [Next]_vars, decided', ~decided,
                      stop["command"] = "no"
               PROVE  timer = "counts" /\ interrupt
    OBVIOUS
  <2>1. Watch
    BY DEF Next, vars, StartCommand, SamplerCommand, StopCall, MonitorTask, Start,
       Register, StartWithoutInterrupt, EnsureMonitor, StartWithoutMonitor,
       StartSampler, StopSampler, StopBegin, StopFree, StopEnd, NoticeEnd,
       WaitForBytes, StartTimer, StopNothing, Exit, Ingest, PlayByte
  <2>2. transmission_active /\ monitor.pc = "round" /\ monitor.started
    BY <2>1 DEF Watch, RoundBegins
  <2>3. ~CommandBusy /\ \A p \in Caller : stop[p] = "no"
    BY <2>2 DEF Guarded, CommandBusy, Caller, NoMonitor
  <2> QED
    BY <2>2, <2>3 DEF Guarded
<1>4. Guarded /\ [Next]_vars => [decided' /\ ~decided => Plays]_vars
  BY <1>3
<1> QED
  BY <1>1, <1>2, <1>4, PTL DEF Spec, PlaysBeforeItEnds

-----------------------------------------------------------------------------
(* Silence at the end, however commands, monitor and sampler overlap: a    *)
(* stop that is overtaken may leave an interrupt behind, but then the      *)
(* timer is paused and nobody is about to start it.                        *)

Silent ==
  /\ transmission_active => handle
  /\ \A p \in Caller : stop[p] # "end"
  /\ stop["command"] = "free" =>
       handle \/ (timer = "paused" /\ monitor.pc \in {"none", "exit"})
  /\ stop["command"] = "freed" =>
       ~interrupt \/ (timer = "paused" /\ monitor.pc \in {"none", "exit"})
  /\ stop["monitor"] # "no" => timer = "paused" /\ monitor.pc = "stop"
  /\ monitor.pc = "start" /\ ~transmission_active => ~interrupt
  /\ ~transmission_active => timer = "paused" \/ ~interrupt
  /\ command # "ready" => stop["command"] = "no"

LEMMA StepSilent ==
  ASSUME TypeOK, TypeOK', Silent, [Next]_vars
  PROVE  Silent'
<1> USE DEF Silent, Caller
<1>1. CASE StartCommand \/ SamplerCommand
  <2>1. CASE Start
    BY <2>1 DEF Start, CommandBusy
  <2>2. CASE Register
    BY <2>2 DEF Register
  <2>3. CASE StartWithoutInterrupt
    BY <2>3 DEF StartWithoutInterrupt
  <2>4. CASE EnsureMonitor
    BY <2>4 DEF EnsureMonitor, Filling, NoMonitor
  <2>5. CASE StartWithoutMonitor
    BY <2>5 DEF StartWithoutMonitor, NoMonitor
  <2>6. CASE StartSampler \/ StopSampler
    BY <2>6 DEF StartSampler, StopSampler, CommandBusy
  <2> QED
    BY <1>1, <2>1, <2>2, <2>3, <2>4, <2>5, <2>6 DEF StartCommand, SamplerCommand
<1>2. ASSUME NEW p \in Caller, StopCall(p)
      PROVE  Silent'
  <2>1. CASE p = "command"
    <3>1. CASE StopBegin(p)
      BY <2>1, <3>1 DEF StopBegin, TypeOK
    <3>2. CASE StopFree(p)
      BY <2>1, <3>2 DEF StopFree, TypeOK
    <3>3. CASE StopEnd(p)
      BY <2>1, <3>3 DEF StopEnd, TypeOK
    <3> QED
      BY <1>2, <3>1, <3>2, <3>3 DEF StopCall
  <2>2. CASE p = "monitor"
    <3>1. CASE StopBegin(p)
      BY <2>2, <3>1 DEF StopBegin, TypeOK
    <3>2. CASE StopFree(p)
      BY <2>2, <3>2 DEF StopFree, TypeOK
    <3>3. CASE StopEnd(p)
      BY <2>2, <3>3 DEF StopEnd, TypeOK
    <3> QED
      BY <1>2, <3>1, <3>2, <3>3 DEF StopCall
  <2> QED
    BY <2>1, <2>2
<1>3. CASE MonitorTask
  <2>1. CASE NoticeEnd
    BY <2>1 DEF NoticeEnd, RoundBegins
  <2>2. CASE WaitForBytes
    BY <2>2 DEF WaitForBytes, RoundBegins, Filling, CommandBusy
  <2>3. CASE StartTimer
    BY <2>3 DEF StartTimer, Watching
  <2>4. CASE Watch
    BY <2>4 DEF Watch, RoundBegins, Watching, CommandBusy
  <2>5. CASE StopNothing
    BY <2>5 DEF StopNothing
  <2>6. CASE Exit
    BY <2>6 DEF Exit, NoMonitor
  <2> QED
    BY <1>3, <2>1, <2>2, <2>3, <2>4, <2>5, <2>6 DEF MonitorTask
<1>4. CASE Ingest \/ PlayByte \/ UNCHANGED vars
  BY <1>4 DEF Ingest, PlayByte, vars
<1> QED
  BY <1>1, <1>2, <1>3, <1>4 DEF Next

(* No byte is played when the transmission is over, under any schedule.    *)
THEOREM SilentInTheEnd == Spec => []SilentWhenOver
<1>1. Init => TypeOK /\ Silent
  BY InitType DEF Init, Silent, NoMonitor, Caller
<1>2. TypeOK /\ Silent /\ [Next]_vars => TypeOK' /\ Silent'
  BY StepType, StepSilent
<1>3. Silent => SilentWhenOver
  BY DEF Silent, SilentWhenOver
<1> QED
  BY <1>1, <1>2, <1>3, PTL DEF Spec
=============================================================================
