------------------------------- MODULE OtaProofs -------------------------------
(***************************************************************************)
(* Proofs about Ota, for every set of images, every size of the slot and   *)
(* every number of uploads.                                                *)
(***************************************************************************)
EXTENDS Ota, TLAPS

(* What a task holds in its local variables when it uses them.             *)
Locals ==
  \A t \in Task :
    /\ task[t].at \in {"begin", "adopt"} => task[t].image \in Images /\ task[t].handle \in Handle
    /\ task[t].at \in {"write", "hash"} => task[t].chunk \in Chunk

(* POST has something left to receive as long as it handles a chunk.       *)
SomethingLeft ==
  /\ task[http].at \in {"write", "hash", "count"} => remaining > 0
  /\ task[http].at # "stopping"

TasksTyped ==
  task \in [Task -> TaskState] /\ remaining \in 0 .. Capacity /\ Locals /\ SomethingLeft

Typed == TypeOK /\ Locals /\ SomethingLeft

(* A session belongs to a connected BLE client, or a task that works on it *)
(* will end it or hand it over.                                            *)
Owned ==
  session.active =>
    \/ g_ble_session_active /\ linked
    \/ task[ble].at \in {"abort", "clear"}
    \/ task[http].at \notin {"idle", "begin", "adopt"}

(* A BLE client is connected while the host task handles one of its writes.*)
Connected == task[ble].at \in {"idle", "abort", "clear"} \/ linked

----------------------------------------------------------------------------
(* Where a task goes when it takes a step or returns, the other task stays *)
(* where it is.                                                            *)
LEMMA GotoMoves ==
  ASSUME task \in [Task -> TaskState], NEW t \in Task, NEW step \in Step, Goto(t, step)
  PROVE  /\ task' \in [Task -> TaskState]
         /\ task'[t].at = step
         /\ task'[t].image = task[t].image
         /\ task'[t].handle = task[t].handle
         /\ task'[t].chunk = task[t].chunk
         /\ \A u \in Task \ {t} : task'[u] = task[u]
BY DEF Goto, TaskState

LEMMA ReturnMoves ==
  ASSUME task \in [Task -> TaskState], NEW t \in Task, Return(t)
  PROVE  /\ task' \in [Task -> TaskState]
         /\ task'[t].at = "idle"
         /\ \A u \in Task \ {t} : task'[u] = task[u]
BY DEF Return, TaskState, AtRest, Step

(* The session keeps its type.                                             *)
LEMMA SessionTyped ==
  ASSUME Typed, [Next]_vars
  PROVE  session' \in Session
<1> USE DEF Typed, TypeOK, Session
<1>1. CASE UNCHANGED session
  BY <1>1
<1>2. ASSUME NEW t \in Task, Adopt(t) \/ AdoptFails(t) PROVE session' \in Session
  <2>1. task[t].image \in Images /\ task[t].handle \in Handle
    BY <1>2 DEF Adopt, AdoptFails, Locals, At
  <2>2. \E hashing \in BOOLEAN : session' = SessionOf(t, hashing)
    BY <1>2 DEF Adopt, AdoptFails
  <2> QED
    BY <2>1, <2>2 DEF SessionOf
<1>3. ASSUME NEW t \in Task, Hash(t) PROVE session' \in Session
  <2>1. task[t].chunk \in Chunk
    BY <1>3 DEF Hash, Locals, At
  <2>2. Append(session.digest, task[t].chunk) \in Seq(Chunk)
    BY <2>1
  <2>3. session' = [session EXCEPT !.digest = Append(@, task[t].chunk)]
    BY <1>3 DEF Hash
  <2> QED
    BY <2>2, <2>3
<1>4. ASSUME NEW t \in Task, Count(t) PROVE session' \in Session
  BY <1>4 DEF Count
<1>5. ASSUME NEW t \in Task, Verify(t) PROVE session' \in Session
  BY <1>5 DEF Verify
<1>6. ASSUME NEW t \in Task, Done(t) PROVE session' \in Session
  BY <1>6 DEF Done
<1>7. CASE session' = NoSession
  BY <1>7 DEF NoSession
<1> QED
  BY <1>1, <1>2, <1>3, <1>4, <1>5, <1>6, <1>7
     DEF Next, vars, Handler, Post, BleClient, Announce, Begin, BeginFails, Receive, DataWrite,
         Take, ReceiveFails, Write, WriteFails, EndWrite, AllReceived, CheckSize, End, EndFails,
         Select, SelectFails, AbortHandle, Clear, AbortWrite, Connect, Disconnect, StartSoftAp,
         StopSoftAp, SoftApStopped, Restart, PowerLoss, Reboot

(* A task that goes on to a step keeps what the step needs.                *)
LEMMA GotoTyped ==
  ASSUME Typed, NEW t \in Task, NEW step \in Step, Goto(t, step), UNCHANGED remaining,
         step \in {"begin", "adopt"} => task[t].at \in {"begin", "adopt"},
         step \in {"write", "hash"} => task[t].at \in {"write", "hash"},
         step \in {"write", "hash", "count"} => task[t].at \in {"write", "hash", "count"},
         t = http => step # "stopping"
  PROVE  TasksTyped'
BY GotoMoves DEF Typed, TypeOK, TasksTyped, Locals, SomethingLeft, Task

LEMMA ReturnTyped ==
  ASSUME Typed, NEW t \in Task, Return(t),
         remaining' = remaining \/ (t = http /\ remaining' = 0)
  PROVE  TasksTyped'
BY ReturnMoves, ImagesAssumption DEF Typed, TypeOK, TasksTyped, Locals, SomethingLeft, Task

LEMMA TakeTyped ==
  ASSUME Typed, NEW t \in Task, NEW chunk \in Chunk, Take(t, chunk),
         t = http => remaining > 0
  PROVE  TasksTyped'
<1>1. CASE Abort(t)
  BY <1>1, GotoTyped DEF Take, Abort, Step
<1>2. CASE task' = [task EXCEPT ![t].at = "write", ![t].chunk = chunk]
  <2>1. /\ task' \in [Task -> TaskState]
        /\ task'[t].at = "write" /\ task'[t].chunk = chunk
        /\ \A u \in Task \ {t} : task'[u] = task[u]
    BY <1>2 DEF Typed, TypeOK, TaskState, Step
  <2> QED
    BY <2>1 DEF Take, Typed, TypeOK, TasksTyped, Locals, SomethingLeft, Task
<1> QED
  BY <1>1, <1>2 DEF Take

(* The tasks keep what their steps need.                                   *)
LEMMA TasksKeepTypes ==
  ASSUME Typed, [Next]_vars
  PROVE  TasksTyped'
<1>1. CASE UNCHANGED <<task, remaining>>
  BY <1>1 DEF Typed, TypeOK, TasksTyped, Locals, SomethingLeft
<1>2. ASSUME NEW t \in Task, NEW image \in Images, Announce(t, image) PROVE TasksTyped'
  <2>1. task' = [task EXCEPT ![t] = [at |-> "begin", image |-> image,
                                     handle |-> uploads + 1, chunk |-> None]]
    BY <1>2 DEF Announce
  <2>2. uploads + 1 \in Handle /\ remaining' = remaining
    BY <1>2, ImagesAssumption DEF Announce, Typed, TypeOK, Handle
  <2>3. /\ task' \in [Task -> TaskState]
        /\ task'[t] = [at |-> "begin", image |-> image, handle |-> uploads + 1, chunk |-> None]
        /\ \A u \in Task \ {t} : task'[u] = task[u]
    BY <2>1, <2>2 DEF Typed, TypeOK, TaskState, Step
  <2> QED
    BY <2>2, <2>3 DEF Typed, TypeOK, TasksTyped, Locals, SomethingLeft, Task
<1>3. ASSUME NEW t \in Task, Begin(t) \/ Write(t) \/ Hash(t) PROVE TasksTyped'
  BY <1>3, GotoTyped DEF Begin, Write, Hash, At, Step
<1>4. ASSUME NEW t \in Task, BeginFails(t) \/ Done(t) \/ Clear(t) PROVE TasksTyped'
  BY <1>4, ReturnTyped DEF BeginFails, Done, Clear
<1>5. ASSUME NEW t \in Task, Adopt(t) PROVE TasksTyped'
  <2>1. CASE t = ble
    BY <1>5, <2>1, ReturnTyped DEF Adopt
  <2>2. CASE t # ble
    <3>1. /\ task' \in [Task -> TaskState]
          /\ task'[t].at = "receive"
          /\ \A u \in Task \ {t} : task'[u] = task[u]
      BY <1>5, <2>2, GotoMoves DEF Adopt, Step, Typed, TypeOK
    <3>2. remaining' \in 0 .. Capacity
      BY <1>5, <2>2, ImagesAssumption DEF Adopt, Typed, Locals, At
    <3> QED
      BY <2>2, <3>1, <3>2 DEF Typed, TypeOK, TasksTyped, Locals, SomethingLeft, Task
  <2> QED
    BY <2>1, <2>2
<1>6. ASSUME NEW t \in Task,
             \/ AdoptFails(t) \/ WriteFails(t) \/ Verify(t) \/ End(t) \/ EndFails(t)
             \/ Select(t) \/ SelectFails(t) \/ AbortHandle(t)
      PROVE  TasksTyped'
  BY <1>6, GotoTyped
     DEF AdoptFails, WriteFails, Verify, End, EndFails, Select, SelectFails, AbortHandle,
         Abort, AbortKeepingSession, Step
<1>7. ASSUME NEW t \in Task, CheckSize(t) PROVE TasksTyped'
  BY <1>7, GotoTyped, ReturnTyped DEF CheckSize, Step
<1>8. ASSUME NEW chunk \in Chunk, Receive(chunk) \/ DataWrite(chunk) PROVE TasksTyped'
  BY <1>8, TakeTyped, ImagesAssumption DEF Receive, DataWrite, Task
<1>9. ASSUME NEW t \in Task, Count(t) PROVE TasksTyped'
  <2>1. CASE t = ble
    BY <1>9, <2>1, ReturnTyped DEF Count
  <2>2. CASE t = http
    <3>1. task' = [task EXCEPT ![t].at = "receive", ![t].chunk = None]
      BY <1>9, <2>2, ImagesAssumption DEF Count
    <3>2. /\ task' \in [Task -> TaskState]
          /\ task'[t].at = "receive"
          /\ \A u \in Task \ {t} : task'[u] = task[u]
      BY <3>1 DEF Typed, TypeOK, TaskState, Step
    <3>3. remaining' \in 0 .. Capacity
      BY <1>9, <2>2, ImagesAssumption DEF Count, At, Typed, TypeOK, SomethingLeft
    <3> QED
      BY <2>2, <3>2, <3>3 DEF Typed, TypeOK, TasksTyped, Locals, SomethingLeft, Task
  <2> QED
    BY <2>1, <2>2 DEF Task
<1>10. CASE ReceiveFails \/ EndWrite \/ AllReceived \/ AbortWrite \/ StopSoftAp
  BY <1>10, GotoTyped, ImagesAssumption
     DEF ReceiveFails, EndWrite, AllReceived, AbortWrite, StopSoftAp, Abort, Step, Task
<1>11. CASE Disconnect \/ SoftApStopped
  BY <1>1, <1>11, GotoTyped, ReturnTyped, ImagesAssumption
     DEF Disconnect, SoftApStopped, Abort, Step, Task
<1>12. CASE Reboot
  <2>1. AtRest \in TaskState
    BY DEF AtRest, TaskState, Step
  <2>2. \A t \in Task : task'[t] = AtRest
    BY <1>12 DEF Reboot
  <2>3. task' \in [Task -> TaskState] /\ http \in Task
    BY <1>12, <2>1 DEF Reboot, Task
  <2>4. remaining' \in 0 .. Capacity
    BY <1>12, ImagesAssumption DEF Reboot
  <2> QED
    BY <2>2, <2>3, <2>4 DEF TasksTyped, Locals, SomethingLeft, AtRest
<1> QED
  BY <1>1, <1>2, <1>3, <1>4, <1>5, <1>6, <1>7, <1>8, <1>9, <1>10, <1>11, <1>12
     DEF Next, vars, Handler, Post, BleClient, Connect, StartSoftAp, Restart, PowerLoss

(* So do the flash and its handles.                                        *)
FlashType ==
  /\ flash \in [Slot -> Chunk \cup {Erased, Garbage}]
  /\ DOMAIN written \subseteq Handle
  /\ \A h \in DOMAIN written : written[h] \in 0 .. Capacity
  /\ boot \in {"running", "update"}
  /\ chosen \in Images \cup {None}

LEMMA FlashTyped ==
  ASSUME Typed, [Next]_vars
  PROVE  FlashType'
<1>1. FlashType
  BY DEF Typed, TypeOK, FlashType
<1>2. CASE unchangedFlash
  BY <1>1, <1>2 DEF unchangedFlash, FlashType
<1>3. ASSUME NEW t \in Task, Begin(t) PROVE FlashType'
  <2>1. task[t].handle \in Handle /\ 0 \in 0 .. Capacity
    BY <1>3, ImagesAssumption DEF Begin, Locals, At, Typed
  <2> QED
    BY <1>1, <1>3, <2>1 DEF Begin, FlashType
<1>4. ASSUME NEW t \in Task, Write(t) PROVE FlashType'
  <2>1. PICK n \in Slot :
          /\ flash' = [flash EXCEPT ![n] = IF @ = Erased THEN task[t].chunk ELSE Garbage]
          /\ written' = [written EXCEPT ![session.handle] = n]
    BY <1>4 DEF Write
  <2>2. task[t].chunk \in Chunk /\ n \in 0 .. Capacity
    BY <1>4, ImagesAssumption DEF Write, Locals, At, Slot, Typed
  <2> QED
    BY <1>1, <1>4, <2>1, <2>2 DEF Write, FlashType
<1>5. CASE Close(session.handle) /\ flash' = flash /\ boot' = boot /\ chosen' = chosen
  BY <1>1, <1>5 DEF Close, FlashType
<1>6. ASSUME NEW t \in Task, Select(t) PROVE FlashType'
  BY <1>1, <1>6 DEF Select, Session, FlashType, Typed, TypeOK
<1>7. CASE Reboot
  BY <1>1, <1>7 DEF Reboot, NoHandles, FlashType
<1>8. ASSUME NEW t \in Task, End(t) \/ EndFails(t) PROVE FlashType'
  BY <1>5, <1>8 DEF End, EndFails
<1>9. ASSUME NEW t \in Task, AbortHandle(t) PROVE FlashType'
  BY <1>2, <1>5, <1>9 DEF AbortHandle, unchangedFlash
<1>10. ASSUME NEW t \in Task, Handler(t) PROVE FlashType'
  BY <1>2, <1>3, <1>4, <1>6, <1>8, <1>9, <1>10
     DEF Handler, BeginFails, Adopt, AdoptFails, Hash, WriteFails, Count, CheckSize, Verify,
         SelectFails, Done, Clear
<1>11. CASE Post \/ BleClient
  BY <1>2, <1>11
     DEF Post, BleClient, Receive, DataWrite, Take, ReceiveFails, EndWrite, AllReceived,
         AbortWrite, Connect, Disconnect, StartSoftAp, StopSoftAp
<1>12. CASE UNCHANGED vars
  BY <1>2, <1>12 DEF vars, unchangedFlash
<1>13. CASE \E t \in Task, image \in Images : Announce(t, image)
  BY <1>2, <1>13 DEF Announce
<1>14. CASE SoftApStopped
  BY <1>2, <1>14 DEF SoftApStopped
<1> QED
  BY <1>7, <1>10, <1>11, <1>12, <1>13, <1>14 DEF Next, Restart, PowerLoss

(* And so do the flags.                                                    *)
FlagsType ==
  /\ g_ble_session_active \in BOOLEAN /\ g_running \in BOOLEAN
  /\ linked \in BOOLEAN /\ restarting \in BOOLEAN /\ uploads \in 0 .. MaxUploads

LEMMA FlagsTyped ==
  ASSUME Typed, [Next]_vars
  PROVE  FlagsType'
<1> FlagsType
  BY DEF Typed, TypeOK, FlagsType
<1>1. ASSUME NEW t \in Task, Handler(t) PROVE FlagsType'
  BY <1>1
     DEF Handler, Begin, BeginFails, Adopt, AdoptFails, Write, Hash, WriteFails, Count,
         CheckSize, Verify, End, EndFails, Select, SelectFails, Done, AbortHandle, Clear,
         Abort, AbortKeepingSession, unchangedOutside, FlagsType
<1>2. ASSUME NEW t \in Task, NEW image \in Images, Announce(t, image) PROVE FlagsType'
  BY <1>2, ImagesAssumption DEF Announce, FlagsType
<1>3. CASE Post
  BY <1>3 DEF Post, Receive, ReceiveFails, AllReceived, Take, Abort, unchangedOutside, FlagsType
<1>4. CASE BleClient
  BY <1>4
     DEF BleClient, DataWrite, EndWrite, AbortWrite, Connect, Disconnect, StartSoftAp,
         StopSoftAp, Take, Abort, unchangedOutside, FlagsType
<1>5. CASE SoftApStopped
  BY <1>5 DEF SoftApStopped, FlagsType
<1>6. CASE Reboot
  <2>1. /\ g_ble_session_active' = FALSE /\ g_running' = FALSE
        /\ linked' = FALSE /\ restarting' = FALSE /\ uploads' = 0
    BY <1>6 DEF Reboot
  <2>2. 0 \in 0 .. MaxUploads
    BY ImagesAssumption
  <2>3. \A b : b = FALSE => b \in BOOLEAN
    OBVIOUS
  <2> QED
    BY <2>1, <2>2, <2>3, Zenon DEF FlagsType
<1>7. CASE UNCHANGED vars
  BY <1>7 DEF vars, FlagsType
<1> QED
  BY <1>1, <1>2, <1>3, <1>4, <1>5, <1>6, <1>7 DEF Next, Restart, PowerLoss

LEMMA TypedInit == Init => Typed
<1> SUFFICES ASSUME Init PROVE Typed
  OBVIOUS
<1>1. AtRest \in TaskState /\ NoSession \in Session
  BY DEF AtRest, TaskState, Step, NoSession, Session
<1>2. http \in Task /\ \A t \in Task : task[t] = AtRest
  BY DEF Init, Task
<1>3. Locals /\ SomethingLeft
  BY <1>2 DEF Locals, SomethingLeft, AtRest
<1>4. /\ remaining \in 0 .. Capacity /\ uploads \in 0 .. MaxUploads
      /\ DOMAIN written = {}
      /\ flash \in [Slot -> Chunk \cup {Erased, Garbage}]
  BY ImagesAssumption DEF Init, NoHandles
<1>5. session \in Session /\ task \in [Task -> TaskState]
  BY <1>1 DEF Init
<1>6. TypeOK
  BY <1>4, <1>5 DEF Init, TypeOK
<1> QED
  BY <1>3, <1>6 DEF Typed

LEMMA TypedNext == Typed /\ [Next]_vars => Typed'
BY SessionTyped, TasksKeepTypes, FlashTyped, FlagsTyped DEF Typed, TypeOK, TasksTyped, FlashType, FlagsType

(* The variables keep their types: nothing is counted below zero, and no   *)
(* task meets a step without what it needs.                                *)
THEOREM TypeCorrect == Spec => []TypeOK
<1>1. Typed => TypeOK
  BY DEF Typed
<1> QED
  BY <1>1, TypedInit, TypedNext, PTL DEF Spec
----------------------------------------------------------------------------
(* No session is left without an owner.                                    *)
Cared == Owned /\ Connected

LEMMA CaredByTask ==
  ASSUME Typed, Cared, NEW t \in Task, Handler(t)
  PROVE  Cared'
<1> task \in [Task -> TaskState]
  BY DEF Typed, TypeOK
<1>1. ASSUME Begin(t) PROVE Cared'
  BY <1>1, GotoMoves DEF Begin, At, Cared, Owned, Connected, Task, Step, unchangedOutside
<1>2. ASSUME BeginFails(t) PROVE Cared'
  BY <1>2, ReturnMoves DEF BeginFails, At, Cared, Owned, Connected, Task, unchangedOutside
<1>3. ASSUME Adopt(t) PROVE Cared'
  BY <1>3, GotoMoves, ReturnMoves, ImagesAssumption
     DEF Adopt, At, Cared, Owned, Connected, Task, Step, unchangedOutside
<1>4. ASSUME AdoptFails(t) PROVE Cared'
  BY <1>4, GotoMoves
     DEF AdoptFails, AbortKeepingSession, At, Cared, Owned, Connected, Task, Step, unchangedOutside
<1>5. ASSUME Write(t) \/ Hash(t) PROVE Cared'
  <2>1. session'.active = session.active
    BY <1>5 DEF Write, Hash, Typed, TypeOK, Session
  <2> QED
    BY <1>5, <2>1, GotoMoves
       DEF Write, Hash, At, Cared, Owned, Connected, Task, Step, unchangedOutside
<1>6. ASSUME WriteFails(t) PROVE Cared'
  BY <1>6, GotoMoves
     DEF WriteFails, Abort, At, Cared, Owned, Connected, Task, Step, unchangedOutside
<1>7. ASSUME Count(t) PROVE Cared'
  <2>1. session'.active = session.active
    BY <1>7 DEF Count, Typed, TypeOK, Session
  <2>2. CASE t = ble
    BY <1>7, <2>1, <2>2, ReturnMoves, ImagesAssumption
       DEF Count, At, Cared, Owned, Connected, Task, unchangedOutside
  <2>3. CASE t = http
    <3>1. task' = [task EXCEPT ![t].at = "receive", ![t].chunk = None]
      BY <1>7, <2>3, ImagesAssumption DEF Count
    <3>2. task'[http].at = "receive" /\ task'[ble] = task[ble]
      BY <3>1, <2>3, ImagesAssumption DEF Task, TaskState
    <3> QED
      BY <1>7, <2>1, <3>2 DEF Count, At, Cared, Owned, Connected, unchangedOutside
  <2> QED
    BY <2>2, <2>3 DEF Task
<1>8. ASSUME CheckSize(t) PROVE Cared'
  BY <1>8, GotoMoves, ReturnMoves
     DEF CheckSize, At, Cared, Owned, Connected, Task, Step, unchangedOutside
<1>9. ASSUME Verify(t) PROVE Cared'
  <2>1. session'.active = session.active
    BY <1>9 DEF Verify, Typed, TypeOK, Session
  <2> QED
    BY <1>9, <2>1, GotoMoves
       DEF Verify, At, Cared, Owned, Connected, Task, Step, unchangedOutside
<1>10. ASSUME End(t) \/ EndFails(t) \/ Select(t) \/ SelectFails(t) PROVE Cared'
  BY <1>10, GotoMoves
     DEF End, EndFails, Select, SelectFails, AbortKeepingSession, At, Cared, Owned, Connected,
         Task, Step, unchangedOutside
<1>11. ASSUME Done(t) PROVE Cared'
  <2>1. session'.active = FALSE
    BY <1>11 DEF Done, Typed, TypeOK, Session
  <2> QED
    BY <1>11, <2>1, ReturnMoves DEF Done, At, Cared, Owned, Connected, Task
<1>12. ASSUME AbortHandle(t) PROVE Cared'
  BY <1>12, GotoMoves
     DEF AbortHandle, At, Cared, Owned, Connected, Task, Step, unchangedOutside
<1>13. ASSUME Clear(t) PROVE Cared'
  <2>1. session'.active = FALSE
    BY <1>13 DEF Clear, NoSession
  <2> QED
    BY <1>13, <2>1, ReturnMoves DEF Clear, At, Cared, Owned, Connected, Task, unchangedOutside
<1> QED
  BY <1>1, <1>2, <1>3, <1>4, <1>5, <1>6, <1>7, <1>8, <1>9, <1>10, <1>11, <1>12, <1>13 DEF Handler

LEMMA CaredByTake ==
  ASSUME Typed, Cared, NEW t \in Task, NEW chunk \in Chunk, Take(t, chunk),
         t = ble => linked, task[t].at \in {"idle", "receive"}, t = http => task[t].at = "receive"
  PROVE  Cared'
<1>1. CASE Abort(t)
  BY <1>1, GotoMoves
     DEF Take, Abort, Typed, TypeOK, Cared, Owned, Connected, Task, Step, unchangedOutside
<1>2. CASE /\ task' = [task EXCEPT ![t].at = "write", ![t].chunk = chunk]
           /\ UNCHANGED g_ble_session_active
  <2>1. task'[t].at = "write" /\ \A u \in Task \ {t} : task'[u] = task[u]
    BY <1>2 DEF Typed, TypeOK, TaskState
  <2> QED
    BY <1>2, <2>1 DEF Take, Cared, Owned, Connected, Task, unchangedOutside
<1> QED
  BY <1>1, <1>2 DEF Take

LEMMA CaredNext == Typed /\ Cared /\ [Next]_vars => Cared'
<1> SUFFICES ASSUME Typed, Cared, [Next]_vars PROVE Cared'
  OBVIOUS
<1> task \in [Task -> TaskState] /\ ble \in Task /\ http \in Task /\ ble # http
  BY ImagesAssumption DEF Typed, TypeOK, Task
<1>1. ASSUME NEW t \in Task, NEW image \in Images, Announce(t, image) PROVE Cared'
  <2>1. task'[t].at = "begin" /\ \A u \in Task \ {t} : task'[u] = task[u]
    BY <1>1 DEF Announce
  <2> QED
    BY <1>1, <2>1 DEF Announce, Reachable, Cared, Owned, Connected, Task
<1>2. CASE \E chunk \in Chunk : Receive(chunk) \/ DataWrite(chunk)
  BY <1>2, CaredByTake DEF Receive, DataWrite, At
<1>3. CASE ReceiveFails \/ AllReceived
  BY <1>3, GotoMoves
     DEF ReceiveFails, AllReceived, Abort, At, Cared, Owned, Connected, Task, Step, unchangedOutside
<1>4. CASE EndWrite \/ AbortWrite \/ StopSoftAp
  BY <1>4, GotoMoves
     DEF EndWrite, AbortWrite, StopSoftAp, Abort, At, Cared, Owned, Connected, Task, Step,
         unchangedOutside
<1>5. CASE Connect \/ StartSoftAp
  BY <1>5 DEF Connect, StartSoftAp, At, Cared, Owned, Connected
<1>6. CASE Disconnect
  BY <1>6, GotoMoves DEF Disconnect, Abort, At, Cared, Owned, Connected, Task, Step
<1>7. CASE SoftApStopped
  BY <1>7, ReturnMoves DEF SoftApStopped, At, Cared, Owned, Connected, Task
<1>8. CASE Reboot
  <2>1. session'.active = FALSE
    BY <1>8 DEF Reboot, NoSession
  <2>2. task'[ble].at = "idle"
    BY <1>8 DEF Reboot, AtRest
  <2> QED
    BY <2>1, <2>2 DEF Cared, Owned, Connected
<1>9. CASE UNCHANGED vars
  BY <1>9 DEF vars, Cared, Owned, Connected
<1> QED
  BY <1>1, <1>2, <1>3, <1>4, <1>5, <1>6, <1>7, <1>8, <1>9, CaredByTask
     DEF Next, Post, BleClient, Restart, PowerLoss

(* Whatever the two tasks do to the one session, also if the hosts wait    *)
(* for nothing: a session that no task works on belongs to a connected     *)
(* BLE client.                                                             *)
THEOREM NothingIsOrphaned == Spec => []NoOrphan
<1>1. Init => Cared
  <2>1. Init => session.active = FALSE
    BY DEF Init, NoSession
  <2>2. Init => task[ble].at = "idle"
    BY DEF Init, Task, AtRest
  <2> QED
    BY <2>1, <2>2 DEF Cared, Owned, Connected
<1>2. Cared => NoOrphan
  BY DEF Cared, Owned, NoOrphan, At, Task
<1>3. Typed /\ Cared /\ [Next]_vars => (Typed /\ Cared)'
  BY TypedNext, CaredNext
<1> QED
  BY <1>1, <1>2, <1>3, TypedInit, PTL DEF Spec
----------------------------------------------------------------------------
(* What hosts must not do for the rest: an upload begins only when no      *)
(* other one is handled and no image is selected (Hasty = FALSE).          *)

Preparing(t) == task[t].at \in {"begin", "adopt"}
Writing(t) == task[t].at \in {"write", "hash", "count"}
Ending(t) == task[t].at \in {"verify", "end", "select", "done"}

(* One task at a time writes to the flash, and none while the other ends   *)
(* the upload.                                                             *)
OneWriter ==
  /\ Preparing(ble) \/ Writing(ble) => task[http].at = "idle"
  /\ Preparing(http) \/ Writing(http) =>
       ~Preparing(ble) /\ ~Writing(ble) /\ ~Ending(ble)
  /\ Preparing(http) => task[ble].at # "finish"

(* A session begins when there is none, and never once an image is         *)
(* selected.                                                               *)
BeginsAlone ==
  (\E t \in Task : Preparing(t)) => ~session.active /\ ~session.hashing /\ boot = "running"

(* The image of a session that a task ends has been received completely.   *)
Complete ==
  /\ session.active /\ (\E t \in Task : Writing(t)) => session.received < Total
  /\ session.active /\ ((\E t \in Task : Ending(t)) \/ boot = "update")
       => session.received = Total
  /\ boot = "update" => ~\E t \in Task : Writing(t)
  /\ session.active => session.announced # None

(* The hash is over before the image is selected.                          *)
HashEnds ==
  /\ session.hashing => session.active
  /\ \A t \in Task : task[t].at \in {"end", "select", "done"} => ~session.hashing

Ordered == OneWriter /\ BeginsAlone /\ Complete /\ HashEnds

LEMMA OrderedByTask ==
  ASSUME ~Hasty, Typed, Ordered, NEW t \in Task, Handler(t)
  PROVE  Ordered'
<1> USE DEF Preparing, Writing, Ending, OneWriter, BeginsAlone, Complete, HashEnds, Ordered,
            Task, At
<1> task \in [Task -> TaskState] /\ ble # http /\ session \in Session
  BY ImagesAssumption DEF Typed, TypeOK
<1>1. ASSUME Begin(t) PROVE Ordered'
  BY <1>1, GotoMoves DEF Begin, Step, Total
<1>2. ASSUME BeginFails(t) PROVE Ordered'
  BY <1>2, ReturnMoves DEF BeginFails, unchangedFlash, Total
<1>3. ASSUME Adopt(t) \/ AdoptFails(t) PROVE Ordered'
  <2>1. /\ task'[t].at \in {"idle", "receive", "abort"}
        /\ \A u \in Task \ {t} : task'[u] = task[u]
    BY <1>3, GotoMoves, ReturnMoves DEF Adopt, AdoptFails, AbortKeepingSession, Step
  <2>2. task[t].image \in Images /\ task[t].image # None
    BY <1>3, ImagesAssumption DEF Adopt, AdoptFails, Typed, Locals
  <2>3. session'.active /\ session'.announced # None /\ boot' = boot
    BY <1>3, <2>2 DEF Adopt, AdoptFails, SessionOf, unchangedFlash
  <2> QED
    BY <1>3, <2>1, <2>3 DEF Adopt, AdoptFails
<1>4. ASSUME Write(t) PROVE Ordered'
  BY <1>4, GotoMoves DEF Write, Step, Total
<1>5. ASSUME Hash(t) PROVE Ordered'
  <2>1. /\ session'.active = session.active /\ session'.hashing = session.hashing
        /\ session'.received = session.received /\ session'.announced = session.announced
    BY <1>5 DEF Hash, Session
  <2> QED
    BY <1>5, <2>1, GotoMoves DEF Hash, Step, unchangedFlash, Total
<1>6. ASSUME WriteFails(t) PROVE Ordered'
  BY <1>6, GotoMoves DEF WriteFails, Abort, Step, unchangedFlash, Total
<1>7. ASSUME Count(t) PROVE Ordered'
  <2>1. /\ session'.active = session.active /\ session'.hashing = session.hashing
        /\ session'.announced = session.announced
    BY <1>7 DEF Count, Session
  <2>2. /\ task'[t].at \in {"idle", "receive"}
        /\ \A u \in Task \ {t} : task'[u] = task[u]
    BY <1>7, ReturnMoves DEF Count, TaskState
  <2> QED
    BY <1>7, <2>1, <2>2 DEF Count, unchangedFlash
<1>8. ASSUME CheckSize(t) PROVE Ordered'
  BY <1>8, GotoMoves, ReturnMoves DEF CheckSize, Step, unchangedFlash, Total
<1>9. ASSUME Verify(t) PROVE Ordered'
  <2>1. /\ session'.active = session.active /\ session'.hashing = FALSE
        /\ session'.received = session.received /\ session'.announced = session.announced
    BY <1>9 DEF Verify, Session
  <2> QED
    BY <1>9, <2>1, GotoMoves DEF Verify, Step, unchangedFlash, Total
<1>10. ASSUME End(t) \/ EndFails(t) \/ SelectFails(t) PROVE Ordered'
  BY <1>10, GotoMoves
     DEF End, EndFails, SelectFails, AbortKeepingSession, Step, unchangedFlash, Total
<1>11. ASSUME Select(t) PROVE Ordered'
  BY <1>11, GotoMoves DEF Select, Step, Total
<1>12. ASSUME Done(t) PROVE Ordered'
  <2>1. session'.active = FALSE /\ session'.hashing = session.hashing
    BY <1>12 DEF Done, Session
  <2> QED
    BY <1>12, <2>1, ReturnMoves DEF Done, unchangedFlash
<1>13. ASSUME AbortHandle(t) PROVE Ordered'
  BY <1>13, GotoMoves DEF AbortHandle, Step, Total
<1>14. ASSUME Clear(t) PROVE Ordered'
  BY <1>14, ReturnMoves DEF Clear, NoSession, unchangedFlash
<1> QED
  BY <1>1, <1>2, <1>3, <1>4, <1>5, <1>6, <1>7, <1>8, <1>9, <1>10, <1>11, <1>12, <1>13, <1>14
     DEF Handler

LEMMA OrderedByTake ==
  ASSUME ~Hasty, Typed, Ordered, NEW t \in Task, NEW chunk \in Chunk, Take(t, chunk),
         t = ble => task[http].at = "idle" /\ task[ble].at = "idle",
         t = http => task[http].at = "receive"
  PROVE  Ordered'
<1> USE DEF Preparing, Writing, Ending, OneWriter, BeginsAlone, Complete, HashEnds, Ordered, Task
<1> task \in [Task -> TaskState] /\ ble # http /\ session \in Session
  BY ImagesAssumption DEF Typed, TypeOK
<1>1. CASE session.active /\ session.received + 1 <= Total
  <2>1. /\ task'[t].at = "write"
        /\ \A u \in Task \ {t} : task'[u] = task[u]
    BY <1>1 DEF Take, TaskState
  <2>2. session.received < Total
    <3>1. session.received \in Int /\ Total \in Int
      BY ImagesAssumption DEF Session, Total
    <3> QED
      BY <1>1, <3>1
  <2> QED
    BY <1>1, <2>1, <2>2 DEF Take, unchangedFlash, Total
<1>2. CASE ~(session.active /\ session.received + 1 <= Total)
  BY <1>2, GotoMoves DEF Take, Abort, Step, unchangedFlash, Total
<1> QED
  BY <1>1, <1>2

LEMMA OrderedNext ==
  ASSUME ~Hasty, Typed, Ordered, [Next]_vars
  PROVE  Ordered'
<1> USE DEF Preparing, Writing, Ending, OneWriter, BeginsAlone, Complete, HashEnds, Ordered,
            Task, At
<1> task \in [Task -> TaskState] /\ ble # http /\ session \in Session
  BY ImagesAssumption DEF Typed, TypeOK
<1>1. ASSUME NEW t \in Task, NEW image \in Images, Announce(t, image) PROVE Ordered'
  <2>1. task'[t].at = "begin" /\ \A u \in Task \ {t} : task'[u] = task[u]
    BY <1>1 DEF Announce
  <2> QED
    BY <1>1, <2>1 DEF Announce, Patient, unchangedFlash
<1>2. CASE \E chunk \in Chunk : Receive(chunk) \/ DataWrite(chunk)
  BY <1>2, OrderedByTake DEF Receive, DataWrite
<1>3. CASE ReceiveFails \/ AllReceived
  BY <1>3, GotoMoves DEF ReceiveFails, AllReceived, Abort, Step, unchangedFlash, Total
<1>4. CASE EndWrite \/ AbortWrite \/ StopSoftAp
  BY <1>4, GotoMoves DEF EndWrite, AbortWrite, StopSoftAp, Abort, Step, unchangedFlash, Total
<1>5. CASE UNCHANGED <<session, task, boot>>
  BY <1>5 DEF Total
<1>6. CASE Connect \/ StartSoftAp \/ UNCHANGED vars
  BY <1>5, <1>6 DEF Connect, StartSoftAp, unchangedFlash, vars
<1>7. CASE Disconnect
  <2>1. UNCHANGED <<session, boot>>
    BY <1>7 DEF Disconnect, unchangedFlash
  <2>2. CASE UNCHANGED task
    BY <1>5, <2>1, <2>2
  <2>3. CASE Goto(ble, "abort")
    BY <2>1, <2>3, GotoMoves, <1>7 DEF Disconnect, Step, Total
  <2> QED
    BY <1>7, <2>2, <2>3 DEF Disconnect, Abort
<1>8. CASE SoftApStopped
  BY <1>8, ReturnMoves DEF SoftApStopped, unchangedFlash, Total
<1>9. CASE Reboot
  BY <1>9 DEF Reboot, NoSession, AtRest
<1> QED
  BY <1>1, <1>2, <1>3, <1>4, <1>6, <1>7, <1>8, <1>9, OrderedByTask
     DEF Next, Post, BleClient, Restart, PowerLoss

----------------------------------------------------------------------------
(* What was hashed is what was written, and what comes will find the flash *)
(* behind it erased.                                                       *)

Behind == \E t \in Task : task[t].at = "hash"
Ahead == \E t \in Task : task[t].at = "count"

(* No chunk of the session was written and then given up.                  *)
InStep ==
  \/ task[http].at \in {"receive", "write", "hash", "count"}
  \/ task[http].at = "idle" /\ task[ble].at \notin {"abort", "clear"}

HashedIsWritten ==
  /\ \A n \in Slot : n <= Len(session.digest) => flash[n] = session.digest[n]
  /\ \A t \in Task, n \in Slot :
       task[t].at = "hash" /\ n = Len(session.digest) + 1 => flash[n] = task[t].chunk

RoomIsErased ==
  session.handle \in DOMAIN written =>
    /\ \A n \in Slot : written[session.handle] < n /\ n <= Total => flash[n] = Erased
    /\ InStep => written[session.handle] = Len(session.digest) + (IF Behind THEN 1 ELSE 0)

Counted == InStep => session.received = Len(session.digest) - (IF Ahead THEN 1 ELSE 0)

Tracked == session.active => HashedIsWritten /\ RoomIsErased /\ Counted

(* A session begins in erased flash.                                       *)
Fresh ==
  \A t \in Task : task[t].at = "adopt" =>
    /\ \A n \in Slot : n <= Len(task[t].image) => flash[n] = Erased
    /\ task[t].handle \in DOMAIN written => written[task[t].handle] = 0

LEMMA TrackedElsewhere ==
  ASSUME Tracked, Fresh, UNCHANGED <<session, flash>>,
         written' = written \/ Close(session.handle),
         \A t \in Task : task'[t].at = "hash" =>
           task[t].at = "hash" /\ task'[t].chunk = task[t].chunk,
         \A t \in Task : task'[t].at = "adopt" =>
           task[t].at = "adopt" /\ task'[t].image = task[t].image /\ task'[t].handle = task[t].handle,
         session.active /\ InStep' => InStep /\ (Behind' <=> Behind) /\ (Ahead' <=> Ahead)
  PROVE  Tracked' /\ Fresh'
<1>1. /\ DOMAIN written' \subseteq DOMAIN written
      /\ \A h \in DOMAIN written' : written'[h] = written[h]
  BY DEF Close
<1>2. Total' = Total
  BY DEF Total
<1>3. Fresh'
  BY <1>1 DEF Fresh
<1>4. ASSUME session.active PROVE HashedIsWritten' /\ RoomIsErased' /\ Counted'
  <2>1. HashedIsWritten'
    BY <1>4 DEF Tracked, HashedIsWritten
  <2>2. RoomIsErased'
    BY <1>1, <1>2, <1>4 DEF Tracked, RoomIsErased
  <2>3. Counted'
    BY <1>4 DEF Tracked, Counted
  <2> QED
    BY <2>1, <2>2, <2>3
<1> QED
  BY <1>3, <1>4 DEF Tracked

(* The task that writes a chunk is alone, and in step.                     *)
LEMMA WriterInStep ==
  ASSUME Ordered, NEW t \in Task, Writing(t)
  PROVE  /\ InStep
         /\ \A u \in Task \ {t} : ~Writing(u) /\ ~Preparing(u)
         /\ t = ble => task[http].at = "idle"
BY ImagesAssumption DEF Ordered, OneWriter, Writing, Preparing, InStep, Task

LEMMA TrackedWrite ==
  ASSUME Typed, Ordered, Tracked, Fresh, NEW t \in Task, Write(t)
  PROVE  Tracked' /\ Fresh'
<1> DEFINE h == session.handle
           n == written[h] + 1
<1>1. /\ task \in [Task -> TaskState] /\ flash \in [Slot -> Chunk \cup {Erased, Garbage}]
      /\ session \in Session /\ h \in DOMAIN written /\ written[h] \in Nat
  BY DEF Typed, TypeOK, Write
<1>2. /\ n \in Slot
      /\ flash' = [flash EXCEPT ![n] = IF @ = Erased THEN task[t].chunk ELSE Garbage]
      /\ written' = [written EXCEPT ![h] = n]
      /\ session' = session
  BY DEF Write
<1>3. /\ task'[t].at = "hash" /\ task'[t].chunk = task[t].chunk
      /\ \A u \in Task \ {t} : task'[u] = task[u]
  BY <1>1, GotoMoves DEF Write, Step
<1>4. /\ Writing(t) /\ task[t].at = "write"
      /\ InStep /\ ~Behind /\ ~Ahead
      /\ \A u \in Task \ {t} : ~Writing(u) /\ ~Preparing(u)
  <2>1. Writing(t) /\ task[t].at = "write"
    BY DEF Write, At, Writing
  <2> QED
    BY <2>1, WriterInStep DEF Behind, Ahead, Writing
<1>5. Fresh'
  BY <1>3, <1>4 DEF Fresh, Preparing
<1>6. ASSUME session.active PROVE HashedIsWritten' /\ RoomIsErased' /\ Counted'
  <2>1. /\ written[h] = Len(session.digest) /\ session.received = Len(session.digest)
        /\ session.received < Total
    <3>1. written[h] = Len(session.digest) + 0 /\ session.received = Len(session.digest) - 0
      BY <1>1, <1>4, <1>6 DEF Tracked, RoomIsErased, Counted
    <3> QED
      BY <1>1, <1>4, <1>6, <3>1 DEF Ordered, Complete, Session
  <2>2. n = Len(session.digest) + 1 /\ n <= Total /\ Len(session.digest) \in Nat
    <3>1. Total \in Int /\ Len(session.digest) \in Nat
      BY <1>1, ImagesAssumption DEF Total, Session
    <3> QED
      BY <2>1, <3>1
  <2>3. flash[n] = Erased
    BY <1>1, <1>2, <1>6, <2>2 DEF Tracked, RoomIsErased
  <2>4. /\ flash'[n] = task[t].chunk
        /\ \A k \in Slot : k # n => flash'[k] = flash[k]
        /\ written'[h] = n /\ DOMAIN written' = DOMAIN written
    BY <1>1, <1>2, <2>3
  <2>5. Behind' /\ ~Ahead' /\ Total' = Total
    BY <1>2, <1>3, <1>4 DEF Behind, Ahead, Total, Writing
  <2>6. HashedIsWritten'
    <3>1. \A k \in Slot : k <= Len(session.digest) => flash'[k] = session.digest[k]
      BY <1>6, <2>2, <2>4 DEF Slot, Tracked, HashedIsWritten
    <3>2. \A u \in Task : task'[u].at = "hash" => u = t
      BY <1>3, <1>4 DEF Writing
    <3> QED
      BY <1>2, <1>3, <2>2, <2>4, <3>1, <3>2 DEF HashedIsWritten
  <2>7. RoomIsErased'
    <3>1. \A k \in Slot : n < k /\ k <= Total => flash'[k] = Erased
      BY <1>1, <1>6, <2>2, <2>4 DEF Slot, Tracked, RoomIsErased
    <3> QED
      BY <1>2, <2>2, <2>4, <2>5, <3>1 DEF RoomIsErased
  <2>8. Counted'
    BY <1>2, <2>1, <2>2, <2>5 DEF Counted
  <2> QED
    BY <2>6, <2>7, <2>8
<1> QED
  BY <1>2, <1>5, <1>6 DEF Tracked

LEMMA TrackedHash ==
  ASSUME Typed, Ordered, Tracked, Fresh, NEW t \in Task, Hash(t)
  PROVE  Tracked' /\ Fresh'
<1> DEFINE d == session.digest
           c == task[t].chunk
<1>1. /\ task \in [Task -> TaskState] /\ session \in Session /\ d \in Seq(Chunk) /\ c \in Chunk
  BY DEF Typed, TypeOK, Hash, Locals, At, Session
<1>2. /\ session'.active = session.active /\ session'.handle = session.handle
      /\ session'.received = session.received /\ session'.announced = session.announced
      /\ session'.digest = Append(d, c)
      /\ UNCHANGED <<flash, written>>
  BY <1>1 DEF Hash, Session, unchangedFlash
<1>3. task'[t].at = "count" /\ \A u \in Task \ {t} : task'[u] = task[u]
  BY <1>1, GotoMoves DEF Hash, Step
<1>4. /\ task[t].at = "hash"
      /\ InStep /\ Behind /\ ~Ahead
      /\ \A u \in Task \ {t} : ~Writing(u) /\ ~Preparing(u)
  <2>1. Writing(t) /\ task[t].at = "hash"
    BY DEF Hash, At, Writing
  <2> QED
    BY <2>1, WriterInStep DEF Behind, Ahead, Writing
<1>5. Fresh'
  BY <1>2, <1>3, <1>4 DEF Fresh, Preparing
<1>6. /\ Len(Append(d, c)) = Len(d) + 1 /\ Len(d) \in Nat
      /\ Append(d, c)[Len(d) + 1] = c
      /\ \A n \in 1 .. Len(d) : Append(d, c)[n] = d[n]
  BY <1>1
<1>7. ~Behind' /\ Ahead' /\ Total' = Total
  BY <1>2, <1>3, <1>4 DEF Behind, Ahead, Total, Writing
<1>8. ASSUME session.active PROVE HashedIsWritten' /\ RoomIsErased' /\ Counted'
  <2>1. HashedIsWritten'
    <3>1. ASSUME NEW n \in Slot, n <= Len(d) + 1 PROVE flash[n] = Append(d, c)[n]
      <4>1. CASE n = Len(d) + 1
        BY <1>4, <1>6, <1>8, <4>1 DEF Tracked, HashedIsWritten
      <4>2. CASE n <= Len(d)
        <5>1. n \in 1 .. Len(d)
          BY <1>6, <3>1, <4>2 DEF Slot
        <5>2. flash[n] = d[n]
          BY <1>8, <3>1, <4>2 DEF Tracked, HashedIsWritten
        <5> QED
          BY <1>6, <5>1, <5>2
      <4> QED
        BY <1>6, <3>1, <4>1, <4>2 DEF Slot
    <3>2. \A u \in Task : task'[u].at # "hash"
      BY <1>3, <1>4 DEF Writing
    <3> QED
      BY <1>2, <1>6, <3>1, <3>2 DEF HashedIsWritten
  <2>2. RoomIsErased'
    BY <1>2, <1>4, <1>6, <1>7, <1>8 DEF Tracked, RoomIsErased
  <2>3. Counted'
    BY <1>1, <1>2, <1>4, <1>6, <1>7, <1>8 DEF Tracked, Counted, Session
  <2> QED
    BY <2>1, <2>2, <2>3
<1> QED
  BY <1>2, <1>5, <1>8 DEF Tracked

LEMMA TrackedCount ==
  ASSUME Typed, Ordered, Tracked, Fresh, NEW t \in Task, Count(t)
  PROVE  Tracked' /\ Fresh'
<1>1. task \in [Task -> TaskState] /\ session \in Session
  BY DEF Typed, TypeOK
<1>2. /\ session'.active = session.active /\ session'.handle = session.handle
      /\ session'.received = session.received + 1 /\ session'.announced = session.announced
      /\ session'.digest = session.digest
      /\ UNCHANGED <<flash, written>>
  BY <1>1 DEF Count, Session, unchangedFlash
<1>3. task'[t].at \in {"idle", "receive"} /\ \A u \in Task \ {t} : task'[u] = task[u]
  BY <1>1, ReturnMoves DEF Count, TaskState
<1>4. /\ InStep /\ ~Behind /\ Ahead
      /\ \A u \in Task \ {t} : ~Writing(u) /\ ~Preparing(u)
  <2>1. Writing(t) /\ task[t].at = "count"
    BY DEF Count, At, Writing
  <2> QED
    BY <2>1, WriterInStep DEF Behind, Ahead, Writing
<1>5. Fresh'
  BY <1>2, <1>3, <1>4 DEF Fresh, Preparing
<1>6. ~Behind' /\ ~Ahead' /\ Total' = Total
  BY <1>2, <1>3, <1>4 DEF Behind, Ahead, Total, Writing
<1>7. ASSUME session.active PROVE HashedIsWritten' /\ RoomIsErased' /\ Counted'
  <2>1. HashedIsWritten'
    BY <1>2, <1>6, <1>7 DEF Tracked, HashedIsWritten, Behind
  <2>2. RoomIsErased'
    BY <1>2, <1>4, <1>6, <1>7 DEF Tracked, RoomIsErased
  <2>3. Counted'
    <3>1. session.received = Len(session.digest) - 1 /\ Len(session.digest) \in Nat
      BY <1>1, <1>4, <1>7 DEF Tracked, Counted, Session
    <3> QED
      BY <1>2, <1>6, <3>1 DEF Counted
  <2> QED
    BY <2>1, <2>2, <2>3
<1> QED
  BY <1>2, <1>5, <1>7 DEF Tracked

LEMMA TrackedAdopt ==
  ASSUME Typed, Ordered, Tracked, Fresh, NEW t \in Task, Adopt(t) \/ AdoptFails(t)
  PROVE  Tracked' /\ Fresh'
<1>1. /\ task'[t].at \in {"idle", "receive", "abort"}
      /\ \A u \in Task \ {t} : task'[u] = task[u]
  BY GotoMoves, ReturnMoves DEF Adopt, AdoptFails, AbortKeepingSession, Step, Typed, TypeOK
<1>2. /\ task[t].at = "adopt" /\ task[t].image # None
      /\ session'.digest = <<>> /\ session'.received = 0 /\ session'.handle = task[t].handle
      /\ session'.announced = task[t].image
      /\ UNCHANGED <<flash, written>>
  BY ImagesAssumption DEF Adopt, AdoptFails, At, Typed, Locals, SessionOf, unchangedFlash
<1>3. \A u \in Task \ {t} : ~Writing(u) /\ ~Preparing(u)
  BY <1>2, ImagesAssumption DEF Ordered, OneWriter, Writing, Preparing, Task
<1>4. ~Behind' /\ ~Ahead' /\ Total' = Len(task[t].image)
  BY <1>1, <1>2, <1>3 DEF Behind, Ahead, Total, Writing
<1>5. Fresh'
  BY <1>1, <1>3 DEF Fresh, Preparing
<1>6. HashedIsWritten'
  BY <1>2, <1>4 DEF HashedIsWritten, Behind, Slot
<1>7. RoomIsErased'
  BY <1>2, <1>4 DEF Fresh, RoomIsErased, Slot
<1>8. Counted'
  BY <1>2, <1>4 DEF Counted
<1> QED
  BY <1>5, <1>6, <1>7, <1>8 DEF Tracked

LEMMA TrackedByTask ==
  ASSUME Typed, Ordered, Tracked, Fresh, NEW t \in Task, Handler(t)
  PROVE  Tracked' /\ Fresh'
<1> USE DEF Task, At
<1> task \in [Task -> TaskState] /\ ble # http /\ session \in Session
  BY ImagesAssumption DEF Typed, TypeOK
<1>1. ASSUME Begin(t) PROVE Tracked' /\ Fresh'
  <2>1. ~session.active /\ session' = session
    BY <1>1 DEF Begin, Ordered, BeginsAlone, Preparing
  <2>2. \A u \in Task : u # t => task'[u].at # "adopt"
    BY <1>1, GotoMoves DEF Begin, Step, Ordered, OneWriter, Preparing
  <2>3. task'[t].image = task[t].image /\ task'[t].handle = task[t].handle
    BY <1>1, GotoMoves DEF Begin, Step
  <2>4. /\ \A n \in Slot : n <= Len(task[t].image) => flash'[n] = Erased
        /\ written'[task[t].handle] = 0
    BY <1>1 DEF Begin
  <2> QED
    BY <2>1, <2>2, <2>3, <2>4 DEF Tracked, Fresh
<1>2. ASSUME BeginFails(t) PROVE Tracked' /\ Fresh'
  <2>1. ~session.active
    BY <1>2 DEF BeginFails, Ordered, BeginsAlone, Preparing
  <2> QED
    BY <1>2, <2>1, ReturnMoves, TrackedElsewhere DEF BeginFails, unchangedFlash
<1>3. ASSUME WriteFails(t) PROVE Tracked' /\ Fresh'
  <2>1. t = ble => task[http].at = "idle"
    BY <1>3, WriterInStep DEF WriteFails, Writing
  <2>2. ~InStep'
    BY <1>3, <2>1, GotoMoves DEF WriteFails, Abort, Step, InStep
  <2> QED
    BY <1>3, <2>2, GotoMoves, TrackedElsewhere DEF WriteFails, Abort, Step, unchangedFlash
<1>4. ASSUME CheckSize(t) PROVE Tracked' /\ Fresh'
  <2>1. session.active /\ InStep' => InStep /\ (Behind' <=> Behind) /\ (Ahead' <=> Ahead)
    BY <1>4, GotoMoves DEF CheckSize, Step, InStep, Behind, Ahead
  <2> QED
    BY <1>4, <2>1, GotoMoves, ReturnMoves, TrackedElsewhere DEF CheckSize, Step, unchangedFlash
<1>5. ASSUME \/ End(t) \/ EndFails(t) \/ SelectFails(t) \/ Select(t)
             \/ AbortHandle(t)
      PROVE  Tracked' /\ Fresh'
  <2>1. PICK step \in {"select", "abort", "done", "clear"} :
          /\ Goto(t, step)
          /\ task[t].at \in {"end", "select", "abort"}
          /\ task[t].at = "abort" => step = "clear"
    BY <1>5 DEF End, EndFails, SelectFails, Select, AbortHandle, AbortKeepingSession
  <2>2. task'[t].at = step /\ \A u \in Task \ {t} : task'[u] = task[u]
    BY <2>1, GotoMoves DEF Step
  <2>3. InStep' => InStep /\ (Behind' <=> Behind) /\ (Ahead' <=> Ahead)
    BY <2>1, <2>2 DEF InStep, Behind, Ahead
  <2>4. UNCHANGED <<session, flash>> /\ (written' = written \/ Close(session.handle))
    BY <1>5
       DEF End, EndFails, SelectFails, Select, AbortHandle, unchangedFlash
  <2> QED
    BY <2>1, <2>2, <2>3, <2>4, TrackedElsewhere
<1>6. ASSUME Verify(t) PROVE Tracked' /\ Fresh'
  <2>1. /\ session'.active = session.active /\ session'.handle = session.handle
        /\ session'.received = session.received /\ session'.announced = session.announced
        /\ session'.digest = session.digest
        /\ UNCHANGED <<flash, written>>
    BY <1>6 DEF Verify, Session, unchangedFlash
  <2>2. /\ task[t].at = "verify" /\ task'[t].at \in {"end", "abort"}
        /\ \A u \in Task \ {t} : task'[u] = task[u]
    BY <1>6, GotoMoves DEF Verify, Step
  <2>3. InStep' => InStep /\ (Behind' <=> Behind) /\ (Ahead' <=> Ahead)
    BY <2>2 DEF InStep, Behind, Ahead
  <2>4. Fresh' /\ Total' = Total
    BY <2>1, <2>2 DEF Fresh, Total
  <2>5. ASSUME session.active PROVE HashedIsWritten' /\ RoomIsErased' /\ Counted'
    <3>1. HashedIsWritten'
      BY <2>1, <2>2, <2>5 DEF Tracked, HashedIsWritten
    <3>2. RoomIsErased'
      BY <2>1, <2>3, <2>4, <2>5 DEF Tracked, RoomIsErased
    <3>3. Counted'
      BY <2>1, <2>3, <2>5 DEF Tracked, Counted
    <3> QED
      BY <3>1, <3>2, <3>3
  <2> QED
    BY <2>1, <2>4, <2>5 DEF Tracked
<1>7. ASSUME Done(t) \/ Clear(t) PROVE Tracked' /\ Fresh'
  <2>1. session'.active = FALSE
    <3>1. CASE Done(t)
      BY <3>1 DEF Done, Session
    <3>2. CASE Clear(t)
      BY <3>2 DEF Clear, NoSession
    <3> QED
      BY <1>7, <3>1, <3>2
  <2>2. UNCHANGED <<flash, written>>
    BY <1>7 DEF Done, Clear, unchangedFlash
  <2>3. task'[t].at = "idle" /\ \A u \in Task \ {t} : task'[u] = task[u]
    BY <1>7, ReturnMoves DEF Done, Clear
  <2> QED
    BY <2>1, <2>2, <2>3 DEF Tracked, Fresh
<1> QED
  BY <1>1, <1>2, <1>3, <1>4, <1>5, <1>6, <1>7,
     TrackedWrite, TrackedHash, TrackedCount, TrackedAdopt
     DEF Handler

LEMMA TrackedByTake ==
  ASSUME Typed, Tracked, Fresh, NEW t \in Task, NEW chunk \in Chunk, Take(t, chunk),
         t = ble => task[http].at = "idle" /\ task[ble].at = "idle",
         t = http => task[http].at = "receive"
  PROVE  Tracked' /\ Fresh'
<1> task \in [Task -> TaskState] /\ ble # http
  BY ImagesAssumption DEF Typed, TypeOK
<1>1. /\ task'[t].at \in {"write", "abort"}
      /\ \A u \in Task \ {t} : task'[u] = task[u]
  <2>1. CASE task' = [task EXCEPT ![t].at = "write", ![t].chunk = chunk]
    BY <2>1 DEF TaskState
  <2>2. CASE Goto(t, "abort")
    BY <2>2, GotoMoves DEF Step
  <2> QED
    BY <2>1, <2>2 DEF Take, Abort
<1>2. InStep' => InStep /\ (Behind' <=> Behind) /\ (Ahead' <=> Ahead)
  BY <1>1 DEF InStep, Behind, Ahead, Task
<1> QED
  BY <1>1, <1>2, TrackedElsewhere DEF Take, unchangedFlash, Task

LEMMA TrackedNext ==
  ASSUME ~Hasty, Typed, Ordered, Tracked, Fresh, [Next]_vars
  PROVE  Tracked' /\ Fresh'
<1> USE DEF Task, At
<1> task \in [Task -> TaskState] /\ ble # http
  BY ImagesAssumption DEF Typed, TypeOK
<1>1. ASSUME NEW t \in Task, NEW image \in Images, Announce(t, image) PROVE Tracked' /\ Fresh'
  <2>1. task'[t].at = "begin" /\ \A u \in Task \ {t} : task'[u] = task[u]
    BY <1>1 DEF Announce
  <2> QED
    BY <1>1, <2>1, TrackedElsewhere DEF Announce, unchangedFlash
<1>2. CASE \E chunk \in Chunk : Receive(chunk) \/ DataWrite(chunk)
  BY <1>2, TrackedByTake DEF Receive, DataWrite
<1>3. CASE \/ ReceiveFails \/ AllReceived \/ EndWrite \/ AbortWrite \/ StopSoftAp
  <2>1. PICK t \in Task, step \in {"abort", "finish", "stopping"} : Goto(t, step)
    BY <1>3 DEF ReceiveFails, AllReceived, EndWrite, AbortWrite, StopSoftAp, Abort
  <2>2. \/ t = http /\ task[t].at = "receive" /\ step \in {"abort", "finish"}
        \/ t = ble /\ task[t].at = "idle"
    <3>1. step \in Step
      BY DEF Step
    <3>2. task'[t].at = step /\ \A u \in Task \ {t} : task'[u] = task[u]
      BY <2>1, <3>1, GotoMoves
    <3>3. CASE ReceiveFails \/ AllReceived
      <4>1. task[http].at = "receive" /\ task'[http].at \in {"abort", "finish"}
        BY <3>3, GotoMoves DEF ReceiveFails, AllReceived, Abort, Step
      <4> QED
        BY <3>2, <4>1
    <3>4. CASE EndWrite \/ AbortWrite \/ StopSoftAp
      <4>1. task[ble].at = "idle" /\ task'[ble].at # "idle"
        BY <3>4, GotoMoves DEF EndWrite, AbortWrite, StopSoftAp, Abort, Step
      <4> QED
        BY <3>2, <4>1
    <3> QED
      BY <1>3, <3>3, <3>4
  <2>3. task'[t].at = step /\ \A u \in Task \ {t} : task'[u] = task[u]
    BY <2>1, GotoMoves DEF Step
  <2>4. InStep' => InStep /\ (Behind' <=> Behind) /\ (Ahead' <=> Ahead)
    BY <2>2, <2>3 DEF InStep, Behind, Ahead
  <2> QED
    BY <1>3, <2>3, <2>4, TrackedElsewhere
       DEF ReceiveFails, AllReceived, EndWrite, AbortWrite, StopSoftAp, unchangedFlash
<1>4. CASE UNCHANGED <<session, task, flash, written>>
  BY <1>4, TrackedElsewhere DEF InStep, Behind, Ahead
<1>5. CASE Connect \/ StartSoftAp \/ UNCHANGED vars
  BY <1>4, <1>5 DEF Connect, StartSoftAp, unchangedFlash, vars
<1>6. CASE Disconnect
  <2>1. UNCHANGED <<session, flash, written>> /\ task[ble].at = "idle"
    BY <1>6 DEF Disconnect, unchangedFlash
  <2>2. CASE Goto(ble, "abort")
    <3>1. task'[ble].at = "abort" /\ task'[http] = task[http]
      BY <2>2, GotoMoves DEF Step
    <3>2. InStep' => InStep /\ (Behind' <=> Behind) /\ (Ahead' <=> Ahead)
      BY <2>1, <3>1 DEF InStep, Behind, Ahead
    <3> QED
      BY <2>1, <3>1, <3>2, TrackedElsewhere
  <2> QED
    BY <1>4, <1>6, <2>1, <2>2 DEF Disconnect, Abort
<1>7. CASE SoftApStopped
  <2>1. /\ task[ble].at = "stopping" /\ task'[ble].at = "idle" /\ task'[http] = task[http]
        /\ UNCHANGED <<session, flash, written>>
    BY <1>7, ReturnMoves DEF SoftApStopped, unchangedFlash
  <2>2. InStep' => InStep /\ (Behind' <=> Behind) /\ (Ahead' <=> Ahead)
    BY <2>1 DEF InStep, Behind, Ahead
  <2> QED
    BY <2>1, <2>2, TrackedElsewhere
<1>8. CASE Reboot
  BY <1>8 DEF Reboot, NoSession, AtRest, Tracked, Fresh
<1> QED
  BY <1>1, <1>2, <1>3, <1>5, <1>6, <1>7, <1>8, TrackedByTask
     DEF Next, Post, BleClient, Restart, PowerLoss

----------------------------------------------------------------------------
(* What is selected was verified, and what was verified stays.             *)

Verified ==
  \A t \in Task :
    task[t].at \in {"end", "select"} /\ session.announced # None => Holds(session.announced)

Right == Verified /\ BootsWhatWasAnnounced

(* A session whose hash matches is in the flash.                           *)
LEMMA MatchIsHeld ==
  ASSUME Typed, Ordered, Tracked, HashMatches
  PROVE  Holds(session.announced)
<1>1. session.active /\ session.announced \in Images /\ session.digest = session.announced
  BY DEF HashMatches, Ordered, HashEnds, Typed, TypeOK, Session
<1>2. \A n \in Slot : n <= Len(session.announced) => flash[n] = session.announced[n]
  BY <1>1 DEF Tracked, HashedIsWritten
<1>3. Len(session.announced) \in 1 .. Capacity
  BY <1>1, ImagesAssumption
<1> QED
  BY <1>2, <1>3, ImagesAssumption DEF Holds, Slot

(* Nothing changes while the flash, the announcement and the selection     *)
(* stay, and no task begins to end the upload.                             *)
LEMMA RightElsewhere ==
  ASSUME Right, UNCHANGED <<flash, boot, chosen>>,
         session'.announced \in {session.announced, None},
         \A t \in Task : task'[t].at \in {"end", "select"} => task[t].at \in {"end", "select"}
  PROVE  Right'
BY DEF Right, Verified, BootsWhatWasAnnounced, Holds

LEMMA RightByTask ==
  ASSUME Typed, Ordered, Tracked, Right, NEW t \in Task, Handler(t)
  PROVE  Right'
<1> USE DEF At
<1> task \in [Task -> TaskState] /\ session \in Session
  BY DEF Typed, TypeOK
<1>1. ASSUME Begin(t) \/ Write(t) PROVE Right'
  <2>1. task'[t].at \in {"adopt", "hash"} /\ \A u \in Task \ {t} : task'[u] = task[u]
    BY <1>1, GotoMoves DEF Begin, Write, Step
  <2>2. boot' # "update"
    BY <1>1 DEF Begin, Write, Ordered, BeginsAlone, Complete, Preparing, Writing
  <2>3. \A u \in Task : task'[u].at \notin {"end", "select"} \/ session'.announced = None
    <3>1. Preparing(t) \/ Writing(t)
      BY <1>1 DEF Begin, Write, Preparing, Writing
    <3>2. \A u \in Task : ~Ending(u)
      BY <3>1, ImagesAssumption DEF Ordered, OneWriter, Preparing, Writing, Ending, Task
    <3> QED
      BY <2>1, <3>2 DEF Ending
  <2> QED
    BY <2>2, <2>3 DEF Right, Verified, BootsWhatWasAnnounced
<1>2. ASSUME Adopt(t) \/ AdoptFails(t) PROVE Right'
  <2>1. /\ task'[t].at \in {"idle", "receive", "abort"}
        /\ \A u \in Task \ {t} : task'[u] = task[u]
    BY <1>2, GotoMoves, ReturnMoves DEF Adopt, AdoptFails, AbortKeepingSession, Step
  <2>2. Preparing(t) /\ UNCHANGED <<boot, chosen>>
    BY <1>2 DEF Adopt, AdoptFails, Preparing, unchangedFlash
  <2>3. boot' # "update"
    BY <2>2 DEF Ordered, BeginsAlone
  <2>4. \A u \in Task : ~Ending(u)
    BY <2>2, ImagesAssumption DEF Ordered, OneWriter, Preparing, Writing, Ending, Task
  <2> QED
    BY <2>1, <2>3, <2>4 DEF Right, Verified, BootsWhatWasAnnounced, Ending
<1>3. ASSUME Verify(t) PROVE Right'
  <2>1. session'.announced = session.announced /\ UNCHANGED <<flash, boot, chosen>>
    BY <1>3 DEF Verify, Session, unchangedFlash
  <2>2. /\ task'[t].at = IF HashMatches THEN "end" ELSE "abort"
        /\ \A u \in Task \ {t} : task'[u] = task[u]
    BY <1>3, GotoMoves DEF Verify, Step
  <2>3. HashMatches => Holds(session.announced)
    BY MatchIsHeld
  <2> QED
    BY <2>1, <2>2, <2>3 DEF Right, Verified, BootsWhatWasAnnounced, Holds
<1>4. ASSUME Select(t) PROVE Right'
  <2>1. /\ task'[t].at = "done" /\ \A u \in Task \ {t} : task'[u] = task[u]
        /\ task[t].at = "select" /\ session.announced # None
        /\ chosen' = session.announced /\ UNCHANGED <<session, flash>>
    BY <1>4, GotoMoves DEF Select, Step
  <2>2. Holds(session.announced)
    BY <2>1 DEF Right, Verified
  <2> QED
    BY <2>1, <2>2 DEF Right, Verified, BootsWhatWasAnnounced, Holds
<1>5. ASSUME End(t) PROVE Right'
  BY <1>5, GotoMoves, RightElsewhere DEF End, Step
<1>6. ASSUME BeginFails(t) \/ WriteFails(t) \/ CheckSize(t) PROVE Right'
  BY <1>6, GotoMoves, ReturnMoves, RightElsewhere
     DEF BeginFails, WriteFails, CheckSize, Abort, Step, unchangedFlash
<1>7. ASSUME EndFails(t) \/ SelectFails(t) \/ AbortHandle(t) PROVE Right'
  BY <1>7, GotoMoves, RightElsewhere
     DEF EndFails, SelectFails, AbortHandle, AbortKeepingSession, Step, unchangedFlash
<1>8. ASSUME Hash(t) PROVE Right'
  <2>1. session'.announced = session.announced
    BY <1>8 DEF Hash, Session
  <2> QED
    BY <1>8, <2>1, GotoMoves, RightElsewhere DEF Hash, Step, unchangedFlash
<1>9. ASSUME Count(t) PROVE Right'
  <2>1. session'.announced = session.announced
    BY <1>9 DEF Count, Session
  <2>2. task'[t].at \in {"idle", "receive"} /\ \A u \in Task \ {t} : task'[u] = task[u]
    BY <1>9, ReturnMoves DEF Count, TaskState
  <2> QED
    BY <1>9, <2>1, <2>2, RightElsewhere DEF Count, unchangedFlash
<1>10. ASSUME Done(t) \/ Clear(t) PROVE Right'
  <2>1. session'.announced \in {session.announced, None}
    <3>1. CASE Done(t)
      BY <3>1 DEF Done, Session
    <3>2. CASE Clear(t)
      BY <3>2 DEF Clear, NoSession
    <3> QED
      BY <1>10, <3>1, <3>2
  <2> QED
    BY <1>10, <2>1, ReturnMoves, RightElsewhere DEF Done, Clear, unchangedFlash
<1> QED
  BY <1>1, <1>2, <1>3, <1>4, <1>5, <1>6, <1>7, <1>8, <1>9, <1>10 DEF Handler

LEMMA RightNext ==
  ASSUME Typed, Ordered, Tracked, Right, [Next]_vars
  PROVE  Right'
<1> task \in [Task -> TaskState] /\ ble \in Task /\ http \in Task
  BY DEF Typed, TypeOK, Task
<1>1. ASSUME NEW t \in Task, NEW image \in Images, Announce(t, image) PROVE Right'
  BY <1>1, RightElsewhere DEF Announce, unchangedFlash
<1>2. ASSUME NEW t \in Task, NEW chunk \in Chunk, Take(t, chunk) PROVE Right'
  <2>1. /\ task'[t].at \in {"write", "abort"}
        /\ \A u \in Task \ {t} : task'[u] = task[u]
    <3>1. CASE task' = [task EXCEPT ![t].at = "write", ![t].chunk = chunk]
      BY <3>1 DEF TaskState
    <3>2. CASE Goto(t, "abort")
      BY <3>2, GotoMoves DEF Step
    <3> QED
      BY <1>2, <3>1, <3>2 DEF Take, Abort
  <2> QED
    BY <1>2, <2>1, RightElsewhere DEF Take, unchangedFlash
<1>3. CASE ReceiveFails \/ AllReceived
  BY <1>3, GotoMoves, RightElsewhere DEF ReceiveFails, AllReceived, Abort, Step, unchangedFlash
<1>4. CASE EndWrite \/ AbortWrite \/ StopSoftAp
  BY <1>4, GotoMoves, RightElsewhere
     DEF EndWrite, AbortWrite, StopSoftAp, Abort, Step, unchangedFlash
<1>5. CASE Connect \/ StartSoftAp \/ UNCHANGED vars
  BY <1>5, RightElsewhere DEF Connect, StartSoftAp, unchangedFlash, vars
<1>6. CASE Disconnect
  BY <1>6, GotoMoves, RightElsewhere DEF Disconnect, Abort, Step, unchangedFlash
<1>7. CASE SoftApStopped
  BY <1>7, ReturnMoves, RightElsewhere DEF SoftApStopped, unchangedFlash
<1>8. CASE Reboot
  <2>1. /\ \A t \in Task : task'[t].at = "idle"
        /\ boot' = "running"
    BY <1>8 DEF Reboot, AtRest
  <2> QED
    BY <2>1 DEF Right, Verified, BootsWhatWasAnnounced
<1> QED
  BY <1>1, <1>2, <1>3, <1>4, <1>5, <1>6, <1>7, <1>8, RightByTask
     DEF Next, Post, BleClient, Receive, DataWrite, Restart, PowerLoss

Sound == Typed /\ Ordered /\ Tracked /\ Fresh /\ Right

LEMMA SoundInit == Init => Sound
<1> SUFFICES ASSUME Init PROVE Sound
  OBVIOUS
<1>1. /\ \A t \in Task : task[t].at = "idle"
      /\ ble \in Task /\ http \in Task
  BY DEF Init, AtRest, Task
<1>2. /\ session.active = FALSE /\ session.hashing = FALSE
      /\ boot = "running"
  BY DEF Init, NoSession
<1>3. Ordered
  BY <1>1, <1>2
     DEF Ordered, OneWriter, BeginsAlone, Complete, HashEnds, Preparing, Writing, Ending
<1>4. Tracked /\ Fresh /\ Right
  BY <1>1, <1>2 DEF Tracked, Fresh, Right, Verified, BootsWhatWasAnnounced
<1> QED
  BY <1>3, <1>4, TypedInit DEF Sound

(* If uploads begin only when no other is handled and none is selected,    *)
(* the board is told to boot the update slot only while that slot holds    *)
(* the whole image the host announced: whatever a BLE client ends or       *)
(* aborts, whichever call fails, and whenever the power does.              *)
THEOREM BootsOnlyWhatWasAnnounced ==
  ASSUME ~Hasty PROVE Spec => []BootsWhatWasAnnounced
<1>1. Sound /\ [Next]_vars => Sound'
  BY TypedNext, OrderedNext, TrackedNext, RightNext DEF Sound
<1>2. Sound => BootsWhatWasAnnounced
  BY DEF Sound, Right
<1> QED
  BY <1>1, <1>2, SoundInit, PTL DEF Spec
==============================================================================
