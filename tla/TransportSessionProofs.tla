------------------------ MODULE TransportSessionProofs ------------------------
(***************************************************************************)
(* Proofs about TransportSession: for any set of transports, any timeout   *)
(* and any width of the tick counter, with the receive tasks running, the  *)
(* claim is exclusive and never taken over, and a stale claim keeps nobody *)
(* out; as long as no stream lane arrives, the session is a lease.         *)
(***************************************************************************)
EXTENDS TransportSession, TLAPS

(* With a claim, outside the moment between its publication and its stamp, *)
(* the history variable idle is what the unsigned subtraction computes.    *)
IdleIsElapsed ==
  s_active_source # NoSource /\ task.pc # "stamp"
    => idle = Elapsed(tick, s_last_activity_tick)

(* Each step of the command task works on the commands that lead there;    *)
(* only a claim of a real source is published and stamped.                 *)
StepsFit ==
  /\ task.pc = "gate" => task.cmd.op \notin Discovery
  /\ task.pc = "renew" => RenewsClaim(task.cmd)
  /\ task.pc = "connect" => task.cmd.op = "connect"
  /\ task.pc = "disconnect" => task.cmd.op = "disconnect"
  /\ task.pc = "publish" => task.cmd.op = "connect"
  /\ task.pc = "stamp" => task.cmd.op \in {"connect", "heartbeat"}
  /\ task.pc \in {"connect", "publish", "stamp"} => task.cmd.source \in Source

(* Between two looks at the claim the first one has found a live one; in   *)
(* the handler of CONNECT that can only be the sender's own.               *)
SawALiveClaim ==
  task.pc \in {"gate", "connect"}
    => /\ seen.owner # NoSource
       /\ seen.age <= Timeout
       /\ s_active_source \in {seen.owner, NoSource}

Inv ==
  TypeOK /\ HandlerExclusive /\ StepsFit /\ IdleIsElapsed /\ SawALiveClaim

-----------------------------------------------------------------------------
(* The unsigned difference of two ticks is a tick, and zero at once.       *)
LEMMA ElapsedType ==
  ASSUME NEW now \in Tick, NEW then \in Tick
  PROVE  Elapsed(now, then) \in Tick /\ Elapsed(now, now) = 0
BY TimeAssumption DEF Elapsed, Tick

(* It grows by one with every tick, the one that wraps included, until the *)
(* counter has gone all the way round.                                     *)
LEMMA ElapsedStep ==
  ASSUME NEW now \in Tick, NEW then \in Tick,
         Elapsed(now, then) < TickMod - 1
  PROVE  Elapsed(IF now = TickMod - 1 THEN 0 ELSE now + 1, then)
           = Elapsed(now, then) + 1
BY TimeAssumption DEF Elapsed, Tick

(* The values of the command task and of its command.                      *)
LEMMA TaskType ==
  ASSUME TypeOK, task.pc # "receive"
  PROVE  /\ task \in [pc : {"gate", "renew", "handle", "connect", "publish",
                           "stamp", "disconnect"},
                     cmd : Command]
         /\ task.cmd \in Command
         /\ task.cmd.source \in Source \cup {NoSource}
BY DEF TypeOK, TaskState, Idle, Command

(* The fields of a command.                                                *)
LEMMA CommandType ==
  ASSUME NEW cmd \in Command
  PROVE  /\ cmd.source \in Source \cup {NoSource}
         /\ cmd.requested \in Source \cup {NoSource}
         /\ cmd.via \in Source
BY DEF Command

(* The expiry keeps the owner or leaves none.                              *)
LEMMA LiveOwnerType ==
  LiveOwner \in {s_active_source, NoSource}
BY DEF LiveOwner

(* While the invariant holds, the handlers and the gate see a claim exactly*)
(* as long as its true age is within the timeout.                          *)
LEMMA LiveIffYoung ==
  ASSUME Inv, s_active_source # NoSource, task.pc # "stamp"
  PROVE  /\ idle <= Timeout => LiveOwner = s_active_source
         /\ idle > Timeout => LiveOwner = NoSource
<1>1. idle = Elapsed(tick, s_last_activity_tick)
  BY DEF Inv, IdleIsElapsed
<1>2. idle \in Nat /\ Timeout \in Nat
  BY TimeAssumption DEF Inv, TypeOK
<1> QED
  BY <1>1, <1>2 DEF LiveOwner, Stale

-----------------------------------------------------------------------------
(* The invariant holds at boot.                                            *)
LEMMA InitInv == Init => Inv
<1> SUFFICES ASSUME Init PROVE Inv
  OBVIOUS
<1>1. TypeOK
  BY TimeAssumption, SourceAssumption
  DEF Init, TypeOK, Tick, TaskState, Reading, NotReading, Reply, NothingSeen
<1>2. HandlerExclusive /\ StepsFit /\ IdleIsElapsed /\ SawALiveClaim
  BY DEF Init, HandlerExclusive, StepsFit, IdleIsElapsed, SawALiveClaim, Idle
<1> QED
  BY <1>1, <1>2 DEF Inv

(* Time keeps the invariant.                                               *)
LEMMA TickInv == Inv /\ AdvanceTick => Inv'
<1> SUFFICES ASSUME Inv, AdvanceTick PROVE Inv'
  OBVIOUS
<1> USE DEF Inv
<1>1. TypeOK'
  BY TimeAssumption DEF AdvanceTick, TypeOK, Tick, sessionVars
<1>2. HandlerExclusive' /\ StepsFit' /\ SawALiveClaim'
  BY DEF AdvanceTick, HandlerExclusive, StepsFit, SawALiveClaim, RenewsClaim,
         sessionVars
<1>3. IdleIsElapsed'
  <2> SUFFICES ASSUME s_active_source' # NoSource, task'.pc # "stamp"
               PROVE  idle' = Elapsed(tick', s_last_activity_tick')
    BY DEF IdleIsElapsed
  <2>1. /\ s_active_source # NoSource
        /\ idle = Elapsed(tick, s_last_activity_tick)
        /\ idle < MaxIdle
        /\ idle' = idle + 1
        /\ s_last_activity_tick' = s_last_activity_tick
    BY DEF AdvanceTick, IdleIsElapsed, sessionVars
  <2>2. Elapsed(tick, s_last_activity_tick) < TickMod - 1
    BY <2>1, TimeAssumption DEF TypeOK
  <2>3. Elapsed(tick', s_last_activity_tick) = idle + 1
    BY <2>1, <2>2, ElapsedStep DEF AdvanceTick, TypeOK
  <2> QED
    BY <2>1, <2>3
<1> QED
  BY <1>1, <1>2, <1>3

(* What the steps of the command task leave behind.                        *)
LEMMA ProceedTypes ==
  ASSUME NEW pc \in {"gate", "renew", "handle", "connect", "publish", "stamp",
                     "disconnect"},
         NEW cmd \in Command, Proceed(pc, cmd)
  PROVE  /\ task' \in TaskState /\ task'.pc = pc /\ task'.cmd = cmd
         /\ reply' \in Reply /\ reply'.status # "BUSY"
BY DEF Proceed, TaskState, Reply, NoReply

LEMMA FinishTypes ==
  ASSUME NEW status \in Status, NEW cmd \in Command, Finish(status, cmd)
  PROVE  /\ task' \in TaskState /\ task'.pc = "receive"
         /\ reply' \in Reply /\ reply'.cmd = cmd /\ reply'.status = status
BY DEF Finish, Respond, TaskState, Reply, Idle

(* A first look that finds a claim finds a live one.                       *)
LEMMA LooksAtALiveClaim ==
  ASSUME Inv, task.pc # "stamp", LiveOwner # NoSource,
         NEW pc, NEW cmd, LookAgain(pc, cmd)
  PROVE  /\ seen' \in [owner : Source \cup {NoSource}, age : 0 .. MaxIdle]
         /\ seen'.owner = s_active_source /\ seen'.owner # NoSource
         /\ seen'.age <= Timeout
<1>1. s_active_source # NoSource /\ LiveOwner = s_active_source
  BY LiveOwnerType
<1>2. idle \in 0 .. MaxIdle /\ s_active_source \in Source \cup {NoSource}
  BY DEF Inv, TypeOK
<1>3. idle <= Timeout
  <2>1. idle \in Nat /\ Timeout \in Nat
    BY <1>2, TimeAssumption
  <2> QED
    BY <1>1, <2>1, LiveIffYoung
<1> QED
  BY <1>1, <1>2, <1>3 DEF LookAgain

(* The first look of the gate keeps the invariant.                         *)
LEMMA ReceiveInv == Inv /\ Receive => Inv'
<1> SUFFICES ASSUME Inv, NEW cmd \in Command,
                    task = Idle,
                    s_active_source' = LiveOwner,
                    \/ /\ \/ cmd.op \in Discovery
                          \/ cmd.op = "connect" /\ LiveOwner = NoSource
                       /\ Proceed("handle", cmd)
                       /\ UNCHANGED seen
                    \/ /\ Finish("BUSY", cmd)
                       /\ UNCHANGED seen
                    \/ /\ cmd.op \notin Discovery /\ LiveOwner # NoSource
                       /\ LookAgain("gate", cmd),
                    UNCHANGED <<s_last_activity_tick, tick, reader, idle>>
             PROVE  Inv'
  BY DEF Receive
<1> USE DEF Inv
<1>1. task.pc = "receive" /\ "BUSY" \in Status
  BY DEF Idle, Status
<1>2. s_active_source' \in {s_active_source, NoSource}
  BY LiveOwnerType
<1>3. IdleIsElapsed'
  BY <1>1, <1>2 DEF IdleIsElapsed
<1>4. CASE Proceed("handle", cmd) /\ UNCHANGED seen
           /\ (cmd.op \in Discovery \/ (cmd.op = "connect" /\ LiveOwner = NoSource))
  <2>1. TypeOK'
    BY <1>2, <1>4, ProceedTypes DEF TypeOK
  <2>2. HandlerExclusive' /\ StepsFit' /\ SawALiveClaim'
    BY <1>4, ProceedTypes DEF HandlerExclusive, StepsFit, SawALiveClaim
  <2> QED
    BY <1>3, <2>1, <2>2
<1>5. CASE Finish("BUSY", cmd) /\ UNCHANGED seen
  <2>1. TypeOK'
    BY <1>1, <1>2, <1>5, FinishTypes DEF TypeOK
  <2>2. HandlerExclusive' /\ StepsFit' /\ SawALiveClaim'
    BY <1>1, <1>5, FinishTypes DEF HandlerExclusive, StepsFit, SawALiveClaim
  <2> QED
    BY <1>3, <2>1, <2>2
<1>6. CASE cmd.op \notin Discovery /\ LiveOwner # NoSource /\ LookAgain("gate", cmd)
  <2>1. Proceed("gate", cmd)
    BY <1>6 DEF LookAgain
  <2>2. /\ seen' \in [owner : Source \cup {NoSource}, age : 0 .. MaxIdle]
        /\ seen'.owner = s_active_source /\ seen'.owner # NoSource
        /\ seen'.age <= Timeout
    BY <1>1, <1>6, LooksAtALiveClaim
  <2>3. TypeOK'
    BY <1>2, <2>1, <2>2, ProceedTypes DEF TypeOK
  <2>4. HandlerExclusive' /\ StepsFit' /\ SawALiveClaim'
    BY <1>2, <1>6, <2>1, <2>2, ProceedTypes
    DEF HandlerExclusive, StepsFit, SawALiveClaim
  <2> QED
    BY <1>3, <2>3, <2>4
<1> QED
  BY <1>4, <1>5, <1>6

(* The second looks keep the invariant: they pass only the sender that     *)
(* holds the claim.                                                        *)
LEMMA SecondLookInv == Inv /\ (Gate \/ ConnectAgain) => Inv'
<1> SUFFICES ASSUME Inv, Gate \/ ConnectAgain PROVE Inv'
  OBVIOUS
<1> USE DEF Inv
<1> DEFINE cmd == task.cmd
<1>1. cmd \in Command /\ task.pc \in {"gate", "connect"} /\ "BUSY" \in Status
  BY TaskType DEF Gate, ConnectAgain, Status
<1>2. /\ UNCHANGED <<s_active_source, s_last_activity_tick, tick, reader, idle>>
      /\ seen' = NothingSeen
      /\ 0 \in 0 .. MaxIdle
  BY TimeAssumption DEF Gate, ConnectAgain, sessionVars
<1>3. ASSUME NEW pc \in {"renew", "handle", "publish"}, Proceed(pc, cmd),
             s_active_source = cmd.source,
             pc = "renew" => RenewsClaim(cmd),
             pc = "publish" => cmd.op = "connect" /\ cmd.source \in Source
      PROVE  Inv'
  <2>1. TypeOK'
    BY <1>1, <1>2, <1>3, ProceedTypes DEF TypeOK, NothingSeen
  <2>2. IdleIsElapsed'
    BY <1>1, <1>2, <1>3, ProceedTypes DEF IdleIsElapsed
  <2>3. HandlerExclusive' /\ StepsFit' /\ SawALiveClaim'
    BY <1>1, <1>2, <1>3, ProceedTypes
    DEF HandlerExclusive, StepsFit, SawALiveClaim, RenewsClaim
  <2> QED
    BY <2>1, <2>2, <2>3
<1>4. CASE Finish("BUSY", cmd)
  <2>1. TypeOK'
    BY <1>1, <1>2, <1>4, FinishTypes DEF TypeOK, NothingSeen
  <2>2. IdleIsElapsed' /\ HandlerExclusive' /\ StepsFit' /\ SawALiveClaim'
    BY <1>1, <1>2, <1>4, FinishTypes
    DEF IdleIsElapsed, HandlerExclusive, StepsFit, SawALiveClaim
  <2> QED
    BY <2>1, <2>2
<1>5. CASE Gate
  <2>1. CASE OwnedBySender(cmd) /\ RenewsClaim(cmd) /\ Proceed("renew", cmd)
    BY <1>3, <2>1 DEF OwnedBySender
  <2>2. CASE OwnedBySender(cmd) /\ Proceed("handle", cmd)
    BY <1>3, <2>2 DEF OwnedBySender
  <2> QED
    BY <1>4, <1>5, <2>1, <2>2 DEF Gate
<1>6. CASE ConnectAgain
  <2>1. CASE OwnedBySender(cmd) /\ Proceed("publish", cmd)
    BY <1>3, <1>6, <2>1 DEF OwnedBySender, ConnectAgain, StepsFit
  <2> QED
    BY <1>4, <1>6, <2>1 DEF ConnectAgain
<1> QED
  BY <1>5, <1>6

(* The first look of CONNECT keeps the invariant.                          *)
LEMMA ConnectInv == Inv /\ Connect => Inv'
<1> SUFFICES ASSUME Inv, Connect PROVE Inv'
  OBVIOUS
<1> USE DEF Inv
<1> DEFINE cmd == task.cmd
<1>1. /\ cmd \in Command /\ task.pc = "handle" /\ cmd.op = "connect"
      /\ cmd.source \in Source \cup {NoSource}
      /\ s_active_source \in {cmd.source, NoSource}
      /\ "BUSY" \in Status
  BY TaskType DEF Connect, Handling, HandlerExclusive, Discovery, Status
<1>2. /\ s_active_source' \in {s_active_source, NoSource}
      /\ UNCHANGED <<s_last_activity_tick, tick, reader, idle>>
  BY LiveOwnerType DEF Connect
<1>3. CASE Finish("BUSY", cmd) /\ UNCHANGED seen
  <2>1. TypeOK'
    BY <1>1, <1>2, <1>3, FinishTypes DEF TypeOK
  <2>2. IdleIsElapsed' /\ HandlerExclusive' /\ StepsFit' /\ SawALiveClaim'
    BY <1>1, <1>2, <1>3, FinishTypes
    DEF IdleIsElapsed, HandlerExclusive, StepsFit, SawALiveClaim
  <2> QED
    BY <2>1, <2>2
<1>4. CASE cmd.source # NoSource /\ Proceed("publish", cmd) /\ UNCHANGED seen
  <2>1. TypeOK'
    BY <1>1, <1>2, <1>4, ProceedTypes DEF TypeOK
  <2>2. IdleIsElapsed' /\ HandlerExclusive' /\ StepsFit' /\ SawALiveClaim'
    BY <1>1, <1>2, <1>4, ProceedTypes
    DEF IdleIsElapsed, HandlerExclusive, StepsFit, SawALiveClaim
  <2> QED
    BY <2>1, <2>2
<1>5. CASE cmd.source # NoSource /\ LiveOwner # NoSource /\ LookAgain("connect", cmd)
  <2>1. Proceed("connect", cmd)
    BY <1>5 DEF LookAgain
  <2>2. /\ seen' \in [owner : Source \cup {NoSource}, age : 0 .. MaxIdle]
        /\ seen'.owner = s_active_source /\ seen'.owner # NoSource
        /\ seen'.age <= Timeout
    BY <1>1, <1>5, LooksAtALiveClaim
  <2>3. TypeOK'
    BY <1>1, <1>2, <2>1, <2>2, ProceedTypes DEF TypeOK
  <2>4. IdleIsElapsed' /\ HandlerExclusive' /\ StepsFit' /\ SawALiveClaim'
    BY <1>1, <1>2, <1>5, <2>1, <2>2, ProceedTypes
    DEF IdleIsElapsed, HandlerExclusive, StepsFit, SawALiveClaim
  <2> QED
    BY <2>3, <2>4
<1> QED
  BY <1>3, <1>4, <1>5 DEF Connect

(* Publishing a claim, and each time stamp, keep the invariant: the stamp  *)
(* is what makes idle agree again.                                         *)
LEMMA PublishInv == Inv /\ (Publish \/ StampClaim \/ Renew) => Inv'
<1> SUFFICES ASSUME Inv, Publish \/ StampClaim \/ Renew PROVE Inv'
  OBVIOUS
<1> USE DEF Inv
<1>1. /\ task.cmd \in Command /\ "OK" \in Status
      /\ tick \in Tick /\ 0 \in 0 .. MaxIdle
  BY TaskType, TimeAssumption DEF Publish, StampClaim, Renew, Status, TypeOK
<1>2. CASE Publish
  <2>1. TypeOK'
    BY <1>1, <1>2, ProceedTypes DEF Publish, TypeOK, StepsFit
  <2>2. HandlerExclusive' /\ StepsFit' /\ IdleIsElapsed' /\ SawALiveClaim'
    BY <1>1, <1>2, ProceedTypes
    DEF Publish, HandlerExclusive, StepsFit, IdleIsElapsed, SawALiveClaim
  <2> QED
    BY <2>1, <2>2
<1>3. CASE StampClaim
  <2>1. TypeOK'
    BY <1>1, <1>3, FinishTypes DEF StampClaim, TypeOK
  <2>2. HandlerExclusive' /\ StepsFit' /\ IdleIsElapsed' /\ SawALiveClaim'
    BY <1>1, <1>3, FinishTypes, ElapsedType
    DEF StampClaim, HandlerExclusive, StepsFit, IdleIsElapsed, SawALiveClaim
  <2> QED
    BY <2>1, <2>2
<1>4. CASE Renew
  <2>1. TypeOK'
    BY <1>1, <1>4, ProceedTypes DEF Renew, TypeOK
  <2>2. HandlerExclusive' /\ StepsFit' /\ IdleIsElapsed' /\ SawALiveClaim'
    BY <1>1, <1>4, ProceedTypes, ElapsedType
    DEF Renew, HandlerExclusive, StepsFit, IdleIsElapsed, SawALiveClaim
  <2> QED
    BY <2>1, <2>2
<1> QED
  BY <1>2, <1>3, <1>4

(* The handlers that may end the claim, go on to renew it or leave it      *)
(* alone keep the invariant.                                               *)
LEMMA HandlerInv ==
  Inv /\ (Disconnect \/ Release \/ Heartbeat \/ SessionStatus \/ OtherCommand)
    => Inv'
<1> SUFFICES ASSUME Inv,
                    \/ Disconnect \/ Release \/ Heartbeat
                    \/ SessionStatus \/ OtherCommand
             PROVE  Inv'
  OBVIOUS
<1> USE DEF Inv
<1> DEFINE cmd == task.cmd
<1>1. /\ task.pc \in {"handle", "disconnect"} /\ cmd \in Command
      /\ cmd.source \in Source \cup {NoSource}
  BY TaskType DEF Disconnect, Release, Heartbeat, SessionStatus, OtherCommand,
                  Handling
<1>2. /\ s_active_source' \in {s_active_source, NoSource}
      /\ UNCHANGED <<s_last_activity_tick, tick, reader, idle, seen>>
  BY LiveOwnerType
  DEF Disconnect, Release, Heartbeat, SessionStatus, OtherCommand, sessionVars
<1>3. CASE \E status \in Status : Finish(status, cmd)
  <2>1. TypeOK'
    BY <1>1, <1>2, <1>3, FinishTypes DEF TypeOK
  <2>2. HandlerExclusive' /\ StepsFit' /\ IdleIsElapsed' /\ SawALiveClaim'
    BY <1>1, <1>2, <1>3, FinishTypes
    DEF HandlerExclusive, StepsFit, IdleIsElapsed, SawALiveClaim
  <2> QED
    BY <2>1, <2>2
<1>4. CASE \/ Disconnect /\ Proceed("disconnect", cmd)
           \/ Heartbeat /\ cmd.source # NoSource /\ Proceed("stamp", cmd)
  <2>1. TypeOK'
    BY <1>1, <1>2, <1>4, ProceedTypes DEF TypeOK
  <2>2. HandlerExclusive' /\ StepsFit' /\ IdleIsElapsed' /\ SawALiveClaim'
    BY <1>1, <1>2, <1>4, ProceedTypes
    DEF HandlerExclusive, StepsFit, IdleIsElapsed, SawALiveClaim,
        Disconnect, Heartbeat, Handling
  <2> QED
    BY <2>1, <2>2
<1>5. \/ \E status \in Status : Finish(status, cmd)
      \/ Disconnect /\ Proceed("disconnect", cmd)
      \/ Heartbeat /\ cmd.source # NoSource /\ Proceed("stamp", cmd)
  <2>1. {"OK", "BUSY", "ERR"} = Status
    BY DEF Status
  <2>2. CASE Disconnect
    BY <2>1, <2>2 DEF Disconnect
  <2>3. CASE Release
    BY <2>1, <2>3 DEF Release
  <2>4. CASE Heartbeat
    BY <2>1, <2>4 DEF Heartbeat
  <2>5. CASE SessionStatus \/ OtherCommand
    BY <2>1, <2>5 DEF SessionStatus, OtherCommand
  <2> QED
    BY <2>2, <2>3, <2>4, <2>5
<1> QED
  BY <1>3, <1>4, <1>5

(* A receive task keeps the invariant: all it does to the session is to    *)
(* drop the claim.                                                         *)
LEMMA ReaderInv ==
  ASSUME Inv, NEW s \in Streams, ReceiveTask(s)
  PROVE  Inv'
<1> USE DEF Inv
<1>1. /\ s_active_source' \in {s_active_source, NoSource}
      /\ UNCHANGED <<s_last_activity_tick, tick, task, reply, idle, seen>>
  BY DEF ReceiveTask, ReadSource, ReadNow, ReadLast, ClearClaim, Decide,
         sessionVars
<1>2. reader' \in [Streams -> Reading]
  <2>1. reader[s] \in Reading /\ 0 \in Tick /\ tick \in Tick
    BY TimeAssumption DEF TypeOK, Tick
  <2>2. CASE ReadSource(s) \/ ReadNow(s) \/ ClearClaim(s) \/ Decide(s)
    BY <2>1, <2>2
    DEF ReadSource, ReadNow, ClearClaim, Decide, GoTo, TypeOK, Reading,
        NotReading
  <2>3. CASE ReadLast(s)
    BY <2>1, <2>3 DEF ReadLast, TypeOK, Reading
  <2> QED
    BY <2>2, <2>3 DEF ReceiveTask
<1>3. TypeOK'
  BY <1>1, <1>2 DEF TypeOK
<1>4. HandlerExclusive' /\ StepsFit' /\ IdleIsElapsed' /\ SawALiveClaim'
  BY <1>1 DEF HandlerExclusive, StepsFit, IdleIsElapsed, SawALiveClaim,
              RenewsClaim
<1> QED
  BY <1>3, <1>4

(* Every step of every task keeps the invariant.                           *)
LEMMA NextInv == Inv /\ [Next]_vars => Inv'
<1> SUFFICES ASSUME Inv, [Next]_vars PROVE Inv'
  OBVIOUS
<1>1. CASE AdvanceTick
  BY <1>1, TickInv
<1>2. CASE CommandTask
  BY <1>2, ReceiveInv, SecondLookInv, ConnectInv, PublishInv, HandlerInv
  DEF CommandTask
<1>3. CASE \E s \in Streams : ReceiveTask(s)
  BY <1>3, ReaderInv
<1>4. CASE UNCHANGED vars
  BY <1>4 DEF vars, Inv, TypeOK, HandlerExclusive, StepsFit, IdleIsElapsed,
              SawALiveClaim, RenewsClaim
<1> QED
  BY <1>1, <1>2, <1>3, <1>4 DEF Next

(* The inductive invariant is an invariant.                                *)
LEMMA Invariance == Spec => []Inv
BY InitInv, NextInv, PTL DEF Spec

-----------------------------------------------------------------------------
(* Every variable of the session keeps its type.                           *)
THEOREM TypeCorrect == Spec => []TypeOK
<1>1. Inv => TypeOK
  BY DEF Inv
<1> QED
  BY <1>1, Invariance, PTL

(* Whatever the receive tasks do between the gate and the handler, no      *)
(* other transport holds the claim while a handler that needs it runs.     *)
THEOREM HandlersAreExclusive == Spec => []HandlerExclusive
<1>1. Inv => HandlerExclusive
  BY DEF Inv
<1> QED
  BY <1>1, Invariance, PTL

(* No step of any task hands the claim of one transport to another.        *)
THEOREM ClaimIsNeverTakenOver == Spec => NoTakeover
<1> DEFINE Kept == s_active_source # NoSource
                     /\ s_active_source' # s_active_source
                     => s_active_source' = NoSource
<1>1. ASSUME Inv, [Next]_vars PROVE [Kept]_vars
  <2>1. CASE AdvanceTick
    BY <2>1 DEF AdvanceTick, sessionVars
  <2>2. CASE \/ Receive \/ Connect \/ Disconnect \/ Release
             \/ Heartbeat \/ SessionStatus
    BY <2>2, LiveOwnerType
    DEF Receive, Connect, Disconnect, Release, Heartbeat, SessionStatus
  <2>3. CASE Gate \/ Renew \/ ConnectAgain \/ StampClaim \/ OtherCommand
    BY <2>3
    DEF Gate, Renew, ConnectAgain, StampClaim, OtherCommand, sessionVars
  <2>4. CASE Publish
    <3>1. s_active_source \in {task.cmd.source, NoSource}
      BY <1>1, <2>4 DEF Publish, Inv, HandlerExclusive, StepsFit, Discovery
    <3> QED
      BY <2>4, <3>1 DEF Publish
  <2>5. CASE \E s \in Streams : ReceiveTask(s)
    BY <2>5 DEF ReceiveTask, ReadSource, ReadNow, ReadLast, ClearClaim, Decide,
                sessionVars
  <2>6. CASE UNCHANGED vars
    BY <2>6 DEF vars
  <2> QED
    BY <1>1, <2>1, <2>2, <2>3, <2>4, <2>5, <2>6 DEF Next, CommandTask
<1> QED
  BY <1>1, Invariance, PTL DEF Spec, NoTakeover

(* CONNECT, sent with the sender's own source, is answered BUSY only where *)
(* the first of two looks found a claim younger than the timeout, and for  *)
(* the sender's own claim only if it was dropped between the two looks.    *)
THEOREM StaleClaimsKeepNobodyOut == Spec => StaleClaimKeepsNobodyOut
<1> DEFINE Young == /\ seen.owner # NoSource
                    /\ seen.age <= Timeout
                    /\ seen.owner = reply'.cmd.source
                         => s_active_source = NoSource
<1>1. ASSUME Inv, Next, ConnectRefused PROVE Young
  <2> USE DEF ConnectRefused
  <2>1. CASE \/ AdvanceTick
             \/ \E s \in Streams : ReceiveTask(s)
    BY <1>1, <2>1 DEF AdvanceTick, ReceiveTask, ReadSource, ReadNow, ReadLast,
                      ClearClaim, Decide
  <2>2. CASE Publish \/ StampClaim \/ Renew \/ SessionStatus \/ OtherCommand
    BY <1>1, <2>2
    DEF Publish, StampClaim, Renew, SessionStatus, OtherCommand, Proceed,
        Finish, Respond, NoReply
  <2>3. CASE Disconnect \/ Release \/ Heartbeat
    BY <1>1, <2>3
    DEF Disconnect, Release, Heartbeat, Handling, Proceed, Finish, Respond,
        NoReply, Inv, StepsFit
  <2>4. CASE Receive
    BY <1>1, <2>4
    DEF Receive, RenewsClaim, LookAgain, Proceed, Finish, Respond, NoReply
  <2>5. CASE Connect
    BY <1>1, <2>5
    DEF Connect, LookAgain, Proceed, Finish, Respond, NoReply
  <2>6. CASE Gate \/ ConnectAgain
    <3>1. ~OwnedBySender(task.cmd) /\ reply'.cmd = task.cmd
      BY <1>1, <2>6
      DEF Gate, ConnectAgain, Proceed, Finish, Respond, NoReply
    <3>2. /\ seen.owner # NoSource
          /\ seen.age <= Timeout
          /\ s_active_source \in {seen.owner, NoSource}
      BY <1>1, <2>6 DEF Gate, ConnectAgain, Inv, SawALiveClaim
    <3> QED
      BY <3>1, <3>2 DEF OwnedBySender
  <2> QED
    BY <1>1, <2>1, <2>2, <2>3, <2>4, <2>5, <2>6 DEF Next, CommandTask
<1>2. ASSUME Inv, [Next]_vars PROVE [ConnectRefused => Young]_vars
  BY <1>1, <1>2
<1> QED
  BY <1>2, Invariance, PTL DEF Spec, StaleClaimKeepsNobodyOut

-----------------------------------------------------------------------------
(* Without receive tasks the owner cannot change between the second look   *)
(* and the end of a command that needed the claim.                         *)
HandlerOwns ==
  /\ (\/ task.pc = "handle" /\ task.cmd.op \notin Discovery \cup {"connect"}
      \/ task.pc \in {"renew", "stamp"})
       => s_active_source = task.cmd.source
  /\ task.pc = "renew" => s_active_source # NoSource
  /\ task.pc = "gate" => s_active_source # NoSource

LEMMA HandlerOwnsStep ==
  ASSUME Streams = {}, Inv, HandlerOwns, [Next]_vars
  PROVE  HandlerOwns'
<1> USE DEF HandlerOwns
<1>1. CASE AdvanceTick
  BY <1>1 DEF AdvanceTick, sessionVars
<1>2. CASE Receive
  BY <1>2
  DEF Receive, LookAgain, Proceed, Finish, Idle, Discovery, RenewsClaim
<1>3. CASE Gate
  BY <1>3
  DEF Gate, Proceed, Finish, Idle, OwnedBySender, RenewsClaim, sessionVars
<1>4. CASE Renew
  BY <1>4 DEF Renew, Proceed
<1>5. CASE Connect \/ ConnectAgain \/ Disconnect
  BY <1>5 DEF Connect, ConnectAgain, Disconnect, LookAgain, Proceed, Finish, Idle
<1>6. CASE Publish \/ StampClaim
  BY <1>6 DEF Publish, StampClaim, Proceed, Finish, Idle
<1>7. CASE Release \/ SessionStatus \/ OtherCommand
  BY <1>7 DEF Release, SessionStatus, OtherCommand, Finish, Idle
<1>8. CASE Heartbeat
  BY <1>8 DEF Heartbeat, Proceed, Finish, Idle
<1>9. CASE UNCHANGED vars
  BY <1>9 DEF vars
<1> QED
  BY <1>1, <1>2, <1>3, <1>4, <1>5, <1>6, <1>7, <1>8, <1>9 DEF Next, CommandTask

(* Each step of the firmware is a step of the lease, or none.              *)
LEMMA LeaseStep ==
  ASSUME Streams = {}, Inv, HandlerOwns, [Next]_vars
  PROVE  [Lease!Next]_(Lease!vars)
<1> DEFINE leaving == IF Leaving THEN task.cmd.source ELSE NoSource
<1> USE DEF Inv
<1>1. idle \in Nat /\ Timeout \in Nat
  BY TimeAssumption DEF TypeOK
<1>2. ASSUME task.pc # "stamp", LiveOwner # s_active_source
      PROVE  s_active_source # NoSource /\ LiveOwner = NoSource /\ idle > Timeout
  BY <1>1, <1>2, LiveIffYoung, LiveOwnerType
<1>3. ASSUME leaving = NoSource, leaving' = NoSource, idle' = idle,
             \/ s_active_source' = s_active_source
             \/ s_active_source' = LiveOwner /\ task.pc # "stamp"
      PROVE  [Lease!Next]_(Lease!vars)
  BY <1>2, <1>3 DEF Lease!Next, Lease!Lapse, Lease!vars
<1>4. CASE AdvanceTick
  BY <1>4, <1>1
  DEF AdvanceTick, sessionVars, Leaving, Handling, Lease!Next,
      Lease!TimePasses, Lease!vars
<1>5. CASE Receive
  <2>1. task.pc = "receive" /\ leaving = NoSource
    BY <1>5 DEF Receive, Idle, Leaving, Handling
  <2>2. leaving' = NoSource /\ idle' = idle /\ s_active_source' = LiveOwner
    BY <1>5
    DEF Receive, LookAgain, Proceed, Finish, Idle, Leaving, Handling, Discovery
  <2> QED
    BY <1>3, <2>1, <2>2
<1>6. CASE Gate \/ ConnectAgain
  <2>1. leaving = NoSource /\ leaving' = NoSource
    BY <1>6
    DEF Gate, ConnectAgain, Proceed, Finish, Idle, Leaving, Handling,
        RenewsClaim, StepsFit
  <2>2. idle' = idle /\ s_active_source' = s_active_source
    BY <1>6 DEF Gate, ConnectAgain, sessionVars
  <2> QED
    BY <1>3, <2>1, <2>2
<1>7. CASE Renew
  <2>1. /\ s_active_source = task.cmd.source
        /\ s_active_source \in Source
        /\ s_active_source' = s_active_source /\ idle' = 0
        /\ leaving = NoSource
    BY <1>7 DEF Renew, HandlerOwns, TypeOK, Leaving, Handling
  <2>2. leaving' = IF task.cmd.op = "disconnect" THEN task.cmd.source
                                                ELSE NoSource
    BY <1>7 DEF Renew, Proceed, Leaving, Handling
  <2> QED
    BY <2>1, <2>2 DEF Lease!Next, Lease!AskToLeave, Lease!Hold
<1>8. CASE Connect
  <2>1. leaving = NoSource /\ leaving' = NoSource
    BY <1>8 DEF Connect, LookAgain, Proceed, Finish, Idle, Leaving, Handling
  <2>2. /\ idle' = idle /\ task.pc # "stamp"
        /\ s_active_source' \in {s_active_source, LiveOwner}
    BY <1>8 DEF Connect, Handling
  <2> QED
    BY <1>3, <2>1, <2>2
<1>9. CASE Publish \/ StampClaim
  <2>1. /\ task.cmd.source \in Source
        /\ s_active_source \in {task.cmd.source, NoSource}
        /\ task.pc = "stamp" => s_active_source = task.cmd.source
    BY <1>9
    DEF Publish, StampClaim, HandlerExclusive, StepsFit, Discovery, HandlerOwns
  <2>2. leaving = NoSource /\ leaving' = NoSource
    BY <1>9 DEF Publish, StampClaim, Proceed, Finish, Idle, Leaving, Handling
  <2>3. s_active_source' = task.cmd.source /\ idle' = 0
    BY <1>9, <2>1 DEF Publish, StampClaim
  <2> QED
    BY <2>1, <2>2, <2>3 DEF Lease!Next, Lease!Hold
<1>10. CASE Disconnect \/ Release
  <2>1. /\ task.pc \in {"handle", "disconnect"}
        /\ task.cmd.op = "disconnect"
        /\ s_active_source \in {task.cmd.source, NoSource}
        /\ leaving = task.cmd.source
        /\ idle' = idle
        /\ s_active_source' \in {s_active_source, NoSource}
    BY <1>10, LiveOwnerType
    DEF Disconnect, Release, Handling, Leaving, HandlerExclusive, Discovery,
        StepsFit
  <2>2. CASE Disconnect /\ Proceed("disconnect", task.cmd)
    <3>1. leaving' = task.cmd.source
      BY <2>2 DEF Proceed, Leaving
    <3>2. s_active_source' = s_active_source
      BY <2>2, LiveOwnerType DEF Disconnect, Proceed, Finish, Idle
    <3> QED
      BY <2>1, <3>1, <3>2 DEF Lease!vars
  <2>3. CASE task' = Idle
    <3>1. leaving' = NoSource
      BY <2>3 DEF Idle, Leaving, Handling
    <3> QED
      BY <2>1, <3>1 DEF Lease!Next, Lease!AnswerLeave, Lease!vars
  <2> QED
    BY <1>10, <2>2, <2>3 DEF Disconnect, Release, Finish
<1>11. CASE Heartbeat \/ SessionStatus \/ OtherCommand
  <2>1. leaving = NoSource /\ leaving' = NoSource
    BY <1>11
    DEF Heartbeat, SessionStatus, OtherCommand, Proceed, Finish, Idle, Leaving,
        Handling
  <2>2. /\ idle' = idle /\ task.pc # "stamp"
        /\ s_active_source' \in {s_active_source, LiveOwner}
    BY <1>11 DEF Heartbeat, SessionStatus, OtherCommand, Handling, sessionVars
  <2> QED
    BY <1>3, <2>1, <2>2
<1>12. CASE UNCHANGED vars
  BY <1>12 DEF vars, Leaving, Handling, Lease!vars
<1> QED
  BY <1>4, <1>5, <1>6, <1>7, <1>8, <1>9, <1>10, <1>11, <1>12
  DEF Next, CommandTask

(* As long as no stream lane arrives, the session implements the lease.    *)
THEOREM ImplementsLease ==
  ASSUME Streams = {}
  PROVE  Spec => LeaseSpec
<1>1. Init => Lease!Init /\ HandlerOwns
  BY DEF Init, Lease!Init, Leaving, Handling, Idle, HandlerOwns
<1>2. ASSUME Inv, HandlerOwns, [Next]_vars
      PROVE  [Lease!Next]_(Lease!vars) /\ HandlerOwns'
  BY <1>2, LeaseStep, HandlerOwnsStep
<1> QED
  BY <1>1, <1>2, Invariance, PTL DEF Spec, LeaseSpec, Lease!Spec

-----------------------------------------------------------------------------
(* Where every receive path stamps what it queues, the handler of an       *)
(* operation runs for a command of the transport it is stamped with, and   *)
(* the claim is exclusive: nobody operates the board but the owner.        *)
StampedTruly == task.pc # "receive" => task.cmd.source = task.cmd.via

LEMMA StampedTrulyStep ==
  ASSUME Unstamped = {}, Inv, StampedTruly, [Next]_vars
  PROVE  StampedTruly'
<1> USE DEF StampedTruly
<1>1. CASE AdvanceTick
  BY <1>1 DEF AdvanceTick
<1>2. CASE Receive
  BY <1>2 DEF Receive, Stamp, LookAgain, Proceed, Finish, Idle
<1>3. CASE \/ Gate \/ Renew \/ Connect \/ ConnectAgain \/ Publish \/ StampClaim
           \/ Disconnect \/ Release \/ Heartbeat \/ SessionStatus \/ OtherCommand
  <2>1. task.pc # "receive"
    BY <1>3
    DEF Gate, Renew, Connect, ConnectAgain, Publish, StampClaim, Disconnect,
        Release, Heartbeat, SessionStatus, OtherCommand, Handling
  <2>2. task'.pc # "receive" => task'.cmd = task.cmd
    BY <1>3
    DEF Gate, Renew, Connect, ConnectAgain, Publish, StampClaim, Disconnect,
        Release, Heartbeat, SessionStatus, OtherCommand, LookAgain, Proceed,
        Finish, Idle
  <2> QED
    BY <2>1, <2>2
<1>4. CASE \E s \in Streams : ReceiveTask(s)
  BY <1>4 DEF ReceiveTask, ReadSource, ReadNow, ReadLast, ClearClaim, Decide
<1>5. CASE UNCHANGED vars
  BY <1>5 DEF vars
<1> QED
  BY <1>1, <1>2, <1>3, <1>4, <1>5 DEF Next, CommandTask

THEOREM OnlyTheOwnerOperates ==
  ASSUME Unstamped = {}
  PROVE  Spec => []OperationsComeFromTheOwner
<1>1. Init => StampedTruly
  BY DEF Init, Idle, StampedTruly
<1>2. Inv /\ StampedTruly /\ [Next]_vars => StampedTruly'
  BY StampedTrulyStep
<1>3. Inv /\ StampedTruly => OperationsComeFromTheOwner
  BY DEF Inv, StampedTruly, HandlerExclusive, Discovery,
         OperationsComeFromTheOwner
<1> QED
  BY <1>1, <1>2, <1>3, Invariance, PTL DEF Spec
=============================================================================
