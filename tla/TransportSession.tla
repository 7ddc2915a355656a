--------------------------- MODULE TransportSession ---------------------------
(***************************************************************************)
(* The transport session of the ESP32 firmware                             *)
(* (src/esp/main/libraries/transport_session.c) and its two kinds of       *)
(* clients:                                                                *)
(*                                                                         *)
(*   - the command task (command_task in init.c), the only task that       *)
(*     claims, renews and releases the session: it admits one command at a *)
(*     time through transport_session_allows_command and then runs its     *)
(*     handler, handle_transport_session_opcode for the session opcodes;   *)
(*                                                                         *)
(*   - the receive task of each streaming transport (usb.c,                *)
(*     wifi_transport.c, ble_server.c), which calls                        *)
(*     transport_session_allows_stream before it takes in a stream lane.   *)
(*                                                                         *)
(* s_active_source and s_last_activity_tick are shared by these tasks      *)
(* without a lock, and volatile: every comparison with s_active_source is  *)
(* a read of its own.  What a receive task does is one step per access.    *)
(* What the command task does is one step per look at the claim: the       *)
(* expiry and the read that follows it are one step, because a receive     *)
(* task only ever writes EMW_TRANSPORT_SOURCE_NONE, which the read finds   *)
(* as if it had been there before; the second read of the same condition,  *)
(* the publication of a claim and each time stamp are steps of their own.  *)
(***************************************************************************)
EXTENDS Naturals

CONSTANTS
  Source,     (* the transports: EMW_COMMAND_SOURCE_USB, _BLE, _WIFI         *)
  NoSource,   (* EMW_TRANSPORT_SOURCE_NONE                                   *)
  Streams,    (* the transports whose receive task may take in stream lanes  *)
  Unstamped,  (* the transports whose receive path leaves cmd.source unset   *)
  Timeout,    (* TRANSPORT_SESSION_TIMEOUT_MS, in ticks                      *)
  TickMod,    (* the number of values of TickType_t                          *)
  MaxIdle     (* bound: the longest time a claim goes without a renewal      *)

ASSUME SourceAssumption ==
  /\ NoSource \notin Source
  /\ Streams \subseteq Source
  /\ Unstamped \subseteq Source

(* A claim that nobody touches for a whole turn of the tick counter (497   *)
(* days of a 32-bit counter at the 100 Hz of sdkconfig) looks fresh again: *)
(* the bound leaves that turn out.                                         *)
ASSUME TimeAssumption ==
  /\ Timeout \in Nat
  /\ MaxIdle \in Nat
  /\ TickMod \in Nat
  /\ Timeout < MaxIdle
  /\ MaxIdle < TickMod

VARIABLES
  s_active_source,       (* the claim: its owner, or NoSource                *)
  s_last_activity_tick,  (* the tick at which the claim was last renewed     *)
  tick,                  (* xTaskGetTickCount()                              *)
  task,                  (* the command task: the command it handles         *)
  reader,                (* the receive tasks inside allows_stream           *)
  reply,                 (* the response the command task has just sent      *)
  idle,                  (* history: the true age of the last renewal        *)
  seen                   (* history: owner and age of the claim at the first *)
                         (* of two looks, until the second one is taken      *)

sessionVars == <<s_active_source, s_last_activity_tick>>
vars == <<s_active_source, s_last_activity_tick, tick, task, reader, reply,
          idle, seen>>

(* The kinds of commands the gate tells apart.  "discovery" stands for the *)
(* opcodes of is_allowed_discovery_command, "operation" for every other    *)
(* opcode and for a session opcode with an unknown subcommand.             *)
Discovery == {"status", "discovery"}

(* source is cmd.source, by which the gate knows the sender; via is the    *)
(* transport the command really came in on; requested is cmd.data[2].      *)
(* Only the session opcodes that change the claim look at requested.       *)
Command ==
  [op : {"connect", "disconnect", "heartbeat"}, via : Source,
   source : Source \cup {NoSource}, requested : Source \cup {NoSource}]
  \cup
  [op : Discovery \cup {"operation"}, via : Source,
   source : Source \cup {NoSource}, requested : {NoSource}]

Idle == [pc |-> "receive"]
TaskState ==
  {Idle}
  \cup
  [pc : {"gate", "renew", "handle", "connect", "publish", "stamp", "disconnect"},
   cmd : Command]

Tick == 0 .. TickMod - 1
Reading == [pc : {"source", "now", "last", "clear", "decide"}, now : Tick]
NotReading == [pc |-> "source", now |-> 0]

NothingSeen == [owner |-> NoSource, age |-> 0]

Status == {"OK", "ERR", "BUSY"}
NoReply == [status |-> "none"]
Reply == {NoReply} \cup [status : Status, cmd : Command]

TypeOK ==
  /\ s_active_source \in Source \cup {NoSource}
  /\ s_last_activity_tick \in Tick
  /\ tick \in Tick
  /\ task \in TaskState
  /\ reader \in [Streams -> Reading]
  /\ reply \in Reply
  /\ idle \in 0 .. MaxIdle
  /\ seen \in [owner : Source \cup {NoSource}, age : 0 .. MaxIdle]

Init ==
  /\ s_active_source = NoSource
  /\ s_last_activity_tick = 0
  /\ tick = 0
  /\ task = Idle
  /\ reader = [s \in Streams |-> NotReading]
  /\ reply = NoReply
  /\ idle = 0
  /\ seen = NothingSeen

-----------------------------------------------------------------------------
(* Time.                                                                   *)

(* Mutant: the difference saturates at 0 instead of wrapping.              *)
ElapsedNoWrap(now, then) == IF then <= now THEN now - then ELSE 0

(* now - then in the unsigned arithmetic of TickType_t.                    *)
Elapsed(now, then) ==
  IF then <= now THEN now - then ELSE TickMod - then + now

AdvanceTick ==
  /\ s_active_source # NoSource => idle < MaxIdle
  /\ tick' = IF tick = TickMod - 1 THEN 0 ELSE tick + 1
  /\ idle' = IF idle < MaxIdle THEN idle + 1 ELSE idle
  /\ UNCHANGED <<sessionVars, task, reader, reply, seen>>

-----------------------------------------------------------------------------
(* The functions of transport_session.c as the command task sees them.     *)

(* Mutant: the claim expires one tick early.                               *)
StaleEarly(now, last) == Elapsed(now, last) >= Timeout

Stale(now, last) == Elapsed(now, last) > Timeout

(* The owner that expire_stale_claim leaves.                               *)
LiveOwner ==
  IF s_active_source # NoSource /\ Stale(tick, s_last_activity_tick)
  THEN NoSource
  ELSE s_active_source

(* Mutant: any source may use a claim, whoever holds it.                   *)
OwnedBySomebody(cmd) == s_active_source # NoSource

(* The second look of the gate and of the handlers.                        *)
OwnedBySender(cmd) == s_active_source = cmd.source

RenewsClaim(cmd) == cmd.op \notin Discovery \cup {"connect"}

Respond(status, cmd) == reply' = [status |-> status, cmd |-> cmd]

(* The command task goes on with cmd at pc, or is done with it.            *)
Proceed(pc, cmd) == task' = [pc |-> pc, cmd |-> cmd] /\ reply' = NoReply
Finish(status, cmd) == task' = Idle /\ Respond(status, cmd)

(* It has found the claim of somebody and looks again.                     *)
LookAgain(pc, cmd) ==
  /\ Proceed(pc, cmd)
  /\ seen' = [owner |-> LiveOwner, age |-> idle]

-----------------------------------------------------------------------------
(* The command task.                                                       *)

(* What the receive path of transport s can put in cmd.source: s, or, when *)
(* the structure is left uninitialised, anything.  A value that is no      *)
(* transport's acts as one more member of Source, on which nobody sends.   *)
Stamp(s) == IF s \in Unstamped THEN Source \cup {NoSource} ELSE {s}

(* command_task takes a command off the queue; the gate expires the claim  *)
(* and looks: a discovery command passes, and CONNECT passes and any other *)
(* command is answered BUSY when there is no claim.                        *)
Receive ==
  \E cmd \in Command :
    /\ task = Idle
    /\ cmd.source \in Stamp(cmd.via)
    /\ s_active_source' = LiveOwner
    /\ \/ /\ cmd.op \in Discovery \/ (cmd.op = "connect" /\ LiveOwner = NoSource)
          /\ Proceed("handle", cmd)
          /\ UNCHANGED seen
       \/ /\ RenewsClaim(cmd) /\ LiveOwner = NoSource
          /\ Finish("BUSY", cmd)
          /\ UNCHANGED seen
       \/ /\ cmd.op \notin Discovery /\ LiveOwner # NoSource
          /\ LookAgain("gate", cmd)
    /\ UNCHANGED <<s_last_activity_tick, tick, reader, idle>>

(* The gate has found a claim and reads it once more.                      *)
Gate ==
  /\ task.pc = "gate"
  /\ LET cmd == task.cmd
     IN  \/ /\ OwnedBySender(cmd)
            /\ Proceed(IF RenewsClaim(cmd) THEN "renew" ELSE "handle", cmd)
         \/ ~OwnedBySender(cmd) /\ Finish("BUSY", cmd)
  /\ seen' = NothingSeen
  /\ UNCHANGED <<sessionVars, tick, reader, idle>>

(* A command that needs the claim and has passed renews it.                *)
Renew ==
  /\ task.pc = "renew"
  /\ s_last_activity_tick' = tick
  /\ idle' = 0
  /\ Proceed("handle", task.cmd)
  /\ UNCHANGED <<s_active_source, tick, reader, seen>>

Handling(op) == task.pc = "handle" /\ task.cmd.op = op

(* Mutant: the handler trusts the gate and claims for the source named in  *)
(* the command.                                                            *)
ConnectRequested ==
  /\ Handling("connect")
  /\ s_active_source' = LiveOwner
  /\ task.cmd.requested # NoSource
  /\ Proceed("publish", [task.cmd EXCEPT !.source = task.cmd.requested])
  /\ UNCHANGED <<s_last_activity_tick, tick, reader, idle, seen>>

(* EMW_TRANSPORT_SESSION_CONNECT: transport_session_connect, called if the *)
(* command names its own source, expires the claim and decides afresh ...  *)
Connect ==
  /\ Handling("connect")
  /\ LET cmd == task.cmd
     IN  \/ /\ cmd.requested # cmd.source
            /\ Finish("BUSY", cmd)
            /\ UNCHANGED <<s_active_source, seen>>
         \/ /\ cmd.requested = cmd.source
            /\ s_active_source' = LiveOwner
            /\ \/ /\ cmd.source = NoSource
                  /\ Finish("BUSY", cmd)
                  /\ UNCHANGED seen
               \/ /\ cmd.source # NoSource /\ LiveOwner = NoSource
                  /\ Proceed("publish", cmd)
                  /\ UNCHANGED seen
               \/ /\ cmd.source # NoSource /\ LiveOwner # NoSource
                  /\ LookAgain("connect", cmd)
  /\ UNCHANGED <<s_last_activity_tick, tick, reader, idle>>

(* ... with a second look if it has found a claim ...                      *)
ConnectAgain ==
  /\ task.pc = "connect"
  /\ LET cmd == task.cmd
     IN  \/ OwnedBySender(cmd) /\ Proceed("publish", cmd)
         \/ ~OwnedBySender(cmd) /\ Finish("BUSY", cmd)
  /\ seen' = NothingSeen
  /\ UNCHANGED <<sessionVars, tick, reader, idle>>

(* ... publishes the owner ...                                             *)
Publish ==
  /\ task.pc = "publish"
  /\ s_active_source' = task.cmd.source
  /\ idle' = 0
  /\ Proceed("stamp", task.cmd)
  /\ UNCHANGED <<s_last_activity_tick, tick, reader, seen>>

(* ... and its time stamp after it; HEARTBEAT ends the same way.           *)
StampClaim ==
  /\ task.pc = "stamp"
  /\ s_last_activity_tick' = tick
  /\ idle' = 0
  /\ Finish("OK", task.cmd)
  /\ UNCHANGED <<s_active_source, tick, reader, seen>>

(* EMW_TRANSPORT_SESSION_DISCONNECT: a claim that is gone counts as        *)
(* released; one that is there is looked at again ...                      *)
Disconnect ==
  /\ Handling("disconnect")
  /\ LET cmd == task.cmd
     IN  \/ /\ cmd.requested # cmd.source
            /\ Finish("BUSY", cmd)
            /\ UNCHANGED s_active_source
         \/ /\ cmd.requested = cmd.source
            /\ s_active_source' = LiveOwner
            /\ IF LiveOwner = NoSource THEN Finish("OK", cmd)
                                       ELSE Proceed("disconnect", cmd)
  /\ UNCHANGED <<s_last_activity_tick, tick, reader, idle, seen>>

(* ... and dropped if it is still the sender's.                            *)
Release ==
  /\ task.pc = "disconnect"
  /\ IF OwnedBySender(task.cmd)
     THEN s_active_source' = NoSource /\ Finish("OK", task.cmd)
     ELSE UNCHANGED s_active_source /\ Finish("BUSY", task.cmd)
  /\ UNCHANGED <<s_last_activity_tick, tick, reader, idle, seen>>

(* EMW_TRANSPORT_SESSION_HEARTBEAT: the sender's own claim is renewed, by  *)
(* the step that follows.                                                  *)
Heartbeat ==
  /\ Handling("heartbeat")
  /\ LET cmd == task.cmd
     IN  \/ /\ cmd.requested # cmd.source
            /\ Finish("BUSY", cmd)
            /\ UNCHANGED s_active_source
         \/ /\ cmd.requested = cmd.source
            /\ s_active_source' = LiveOwner
            /\ IF cmd.source # NoSource /\ LiveOwner = cmd.source
               THEN Proceed("stamp", cmd) ELSE Finish("BUSY", cmd)
  /\ UNCHANGED <<s_last_activity_tick, tick, reader, idle, seen>>

(* EMW_TRANSPORT_SESSION_STATUS: transport_session_active_source expires a *)
(* stale claim on the way.                                                 *)
SessionStatus ==
  /\ Handling("status")
  /\ s_active_source' = LiveOwner
  /\ Finish("OK", task.cmd)
  /\ UNCHANGED <<s_last_activity_tick, tick, reader, idle, seen>>

(* Every other handler: it leaves the session alone and answers OK or ERR. *)
OtherCommand ==
  /\ Handling("discovery") \/ Handling("operation")
  /\ \E status \in {"OK", "ERR"} : Finish(status, task.cmd)
  /\ UNCHANGED <<sessionVars, tick, reader, idle, seen>>

CommandTask ==
  \/ Receive
  \/ Gate
  \/ Renew
  \/ Connect
  \/ ConnectAgain
  \/ Publish
  \/ StampClaim
  \/ Disconnect
  \/ Release
  \/ Heartbeat
  \/ SessionStatus
  \/ OtherCommand

-----------------------------------------------------------------------------
(* A receive task in transport_session_allows_stream, one access a step.   *)

GoTo(s, pc) == reader' = [reader EXCEPT ![s].pc = pc]

(* expire_stale_claim: nothing to expire when there is no claim.           *)
ReadSource(s) ==
  /\ reader[s].pc = "source"
  /\ GoTo(s, IF s_active_source = NoSource THEN "decide" ELSE "now")
  /\ UNCHANGED <<sessionVars, tick, task, reply, idle, seen>>

ReadNow(s) ==
  /\ reader[s].pc = "now"
  /\ reader' = [reader EXCEPT ![s] = [pc |-> "last", now |-> tick]]
  /\ UNCHANGED <<sessionVars, tick, task, reply, idle, seen>>

ReadLast(s) ==
  /\ reader[s].pc = "last"
  /\ reader' = [reader EXCEPT ![s] =
                  [pc |-> IF Stale(@.now, s_last_activity_tick)
                          THEN "clear" ELSE "decide",
                   now |-> 0]]
  /\ UNCHANGED <<sessionVars, tick, task, reply, idle, seen>>

ClearClaim(s) ==
  /\ reader[s].pc = "clear"
  /\ s_active_source' = NoSource
  /\ GoTo(s, "decide")
  /\ UNCHANGED <<s_last_activity_tick, tick, task, reply, idle, seen>>

(* The answer: the lane is taken in if and only if s owns the claim.       *)
Decide(s) ==
  /\ reader[s].pc = "decide"
  /\ reader' = [reader EXCEPT ![s] = NotReading]
  /\ UNCHANGED <<sessionVars, tick, task, reply, idle, seen>>

ReceiveTask(s) ==
  ReadSource(s) \/ ReadNow(s) \/ ReadLast(s) \/ ClearClaim(s) \/ Decide(s)

Next ==
  \/ AdvanceTick
  \/ CommandTask
  \/ \E s \in Streams : ReceiveTask(s)

Spec == Init /\ [][Next]_vars

-----------------------------------------------------------------------------
(* The handler of DISCONNECT is at work.                                   *)
Leaving == Handling("disconnect") \/ task.pc = "disconnect"

(* As long as no stream lane arrives, the session is the exclusive lease   *)
(* its clients expect: one owner, no takeover, and a claim that ends only  *)
(* by its owner's DISCONNECT or after the timeout.                         *)
Lease == INSTANCE SessionLease
           WITH owner   <- s_active_source,
                leaving <- IF Leaving THEN task.cmd.source ELSE NoSource

LeaseSpec == Lease!Spec

-----------------------------------------------------------------------------
(* Properties.                                                             *)

(* While the command task runs the handler of a command that needed the    *)
(* session, no transport other than the one the command is stamped with    *)
(* holds it.  The gate decides on a claim that any receive task may drop   *)
(* before the handler starts: dropping it must be all that can happen.     *)
HandlerExclusive ==
  task.pc \notin {"receive", "gate"} /\ task.cmd.op \notin Discovery
    => s_active_source \in {task.cmd.source, NoSource}

(* The claim is never taken over: between two owners there is a moment     *)
(* without an owner, so that the first one's next command is refused and   *)
(* not run beside the second one's.  The connect handler checks the claim  *)
(* twice, in the gate and in transport_session_connect, and tasks that     *)
(* expire it run in between.                                               *)
NoTakeover ==
  [][s_active_source # NoSource /\ s_active_source' # s_active_source
       => s_active_source' = NoSource]_vars

(* A claim ends because its owner released it or because it has not been   *)
(* renewed for more than the timeout, and for no other reason: section 5.2 *)
(* of docs/TRANSPORT_SESSION_PROTOCOL.html, "auto-expires a session after  *)
(* 5000ms of inactivity".                                                  *)
ClaimEndsForAReason ==
  [][s_active_source # NoSource /\ s_active_source' = NoSource
       => \/ idle > Timeout
          \/ Leaving /\ task.cmd.source = s_active_source]_vars

(* A step that answers BUSY to a well-formed CONNECT.                      *)
ConnectRefused ==
  /\ reply' # reply
  /\ reply'.status = "BUSY"
  /\ reply'.cmd.op = "connect"
  /\ reply'.cmd.requested = reply'.cmd.source
  /\ reply'.cmd.source # NoSource

(* A claim nobody renews keeps nobody out: CONNECT, sent the way the       *)
(* protocol asks, is refused only where the gate or the handler, when it   *)
(* looked first, found a claim younger than the timeout; if that was the   *)
(* sender's own, a receive task has dropped it between the two looks.      *)
StaleClaimKeepsNobodyOut ==
  [][ConnectRefused
       => /\ seen.owner # NoSource
          /\ seen.age <= Timeout
          /\ seen.owner = reply'.cmd.source => s_active_source = NoSource]_vars

(* The stronger form, that CONNECT is refused only while another transport *)
(* holds a claim within the timeout, is not true of the code: the claim    *)
(* may be dropped between the two reads of one condition.                  *)
RefusedOnlyForAnother ==
  [][ConnectRefused
       => s_active_source \notin {NoSource, reply'.cmd.source}]_vars

(* Section 8 of docs/TRANSPORT_SESSION_PROTOCOL.html: the firmware knows   *)
(* the source from the transport layer; a command that needs the session   *)
(* passes the gate only if it came in on the transport that owns it.       *)
OperationsComeFromTheOwner ==
  task.pc = "handle" /\ task.cmd.op = "operation"
    => s_active_source \in {task.cmd.via, NoSource}
=============================================================================
