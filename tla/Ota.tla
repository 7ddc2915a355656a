---------------------------------- MODULE Ota ----------------------------------
(***************************************************************************)
(* Firmware updates of the ESP32 (ota_core.c, ota_ble.c and ota_wifi.c in  *)
(* src/esp/main/libraries).                                                *)
(*                                                                         *)
(* An upload announces the hash of an image, sends its bytes and ends; the *)
(* board writes them to the update slot of the flash and boots from it if  *)
(* they hash to what was announced.  There is one session, g_session, for  *)
(* both ways in: the BLE host task handles the writes of a BLE client one  *)
(* by one, and the task of the HTTP server handles a whole upload over the *)
(* SoftAP in one call.  No lock protects the session, and a BLE client may *)
(* abort or end whatever session there is.                                 *)
(*                                                                         *)
(* A step of a task is one call into the flash driver or one visit to the  *)
(* session.  An image is the sequence of its chunks, and a hash is the     *)
(* sequence that was hashed: SHA-256 tells all images apart.               *)
(***************************************************************************)
EXTENDS Integers, Sequences

CONSTANTS
  ble, http,    (* the two tasks: the BLE host task and the HTTP server's    *)
  Chunk,        (* what one write may carry                                  *)
  Images,       (* the images a host may announce, sequences of chunks       *)
  Capacity,     (* of a slot of the flash, in chunks                         *)
  MaxUploads,   (* bound: the uploads between two restarts                   *)
  Hasty,        (* an upload may begin while another one is handled or the   *)
                (* board has an image to restart with, and a BLE client may  *)
                (* write data while one is handled over HTTP                 *)
  GivesLength,  (* external: httpd_req_get_hdr_value_str returns the length  *)
                (* of a header it finds, as ota_post_handler takes it to.    *)
                (* That of ESP-IDF returns ESP_OK, which is 0                *)
  None, Erased, Garbage

ASSUME ImagesAssumption ==
  /\ Capacity \in Nat
  /\ \A image \in Images : image \in Seq(Chunk) /\ Len(image) \in 1 .. Capacity
  /\ MaxUploads \in Nat /\ {Hasty, GivesLength} \subseteq BOOLEAN
  /\ None \notin Images \cup Chunk
  /\ Erased # Garbage /\ Chunk \cap {Erased, Garbage} = {}
  /\ ble # http

VARIABLES
  session,      (* g_session                                                 *)
  g_ble_session_active,
  g_running,    (* the SoftAP and its HTTP server run                        *)
  task,         (* where each task is, and its local variables               *)
  remaining,    (* ota_post_handler's                                        *)
  linked,       (* a BLE client is connected                                 *)
  restarting,   (* a restart task sleeps its two seconds                     *)
  flash,        (* what the update slot holds                                *)
  written,      (* the chunks written through each open update handle        *)
  boot,         (* the slot of the boot partition: "running" or "update"     *)
  uploads,      (* announced since the last restart                          *)
  chosen        (* history: the image announced by the session that was      *)
                (* selected for boot                                         *)

vars == <<session, g_ble_session_active, g_running, task, remaining, linked,
          restarting, flash, written, boot, uploads, chosen>>

Task == {ble, http}
Handle == 1 .. MaxUploads
Slot == 1 .. Capacity

(* The slot begins with this image: the flash driver's own verification of *)
(* an image looks no further.                                              *)
Holds(image) == \A n \in 1 .. Len(image) : flash[n] = image[n]

NoSession == [active |-> FALSE, handle |-> 0, announced |-> None, received |-> 0,
              hashing |-> FALSE, digest |-> <<>>]

(* total_size, which is 0 in a session that was cleared.                   *)
Total == IF session.announced = None THEN 0 ELSE Len(session.announced)

NoHandles == [h \in {} |-> 0]

AtRest == [at |-> "idle", image |-> None, handle |-> 0, chunk |-> None]

Step == {"idle", "begin", "adopt", "receive", "write", "hash", "count", "finish",
         "verify", "end", "select", "done", "abort", "clear", "stopping"}

Session == [active : BOOLEAN, handle : {0} \cup Handle, announced : Images \cup {None},
            received : Nat, hashing : BOOLEAN, digest : Seq(Chunk)]

TaskState == [at : Step, image : Images \cup {None},
              handle : {0} \cup Handle, chunk : Chunk \cup {None}]

TypeOK ==
  /\ session \in Session
  /\ g_ble_session_active \in BOOLEAN
  /\ g_running \in BOOLEAN
  /\ task \in [Task -> TaskState]
  /\ remaining \in 0 .. Capacity
  /\ linked \in BOOLEAN
  /\ restarting \in BOOLEAN
  /\ flash \in [Slot -> Chunk \cup {Erased, Garbage}]
  /\ DOMAIN written \subseteq Handle
  /\ \A h \in DOMAIN written : written[h] \in 0 .. Capacity
  /\ boot \in {"running", "update"}
  /\ uploads \in 0 .. MaxUploads
  /\ chosen \in Images \cup {None}

Init ==
  /\ session = NoSession
  /\ g_ble_session_active = FALSE
  /\ g_running = FALSE
  /\ task = [t \in Task |-> AtRest]
  /\ remaining = 0
  /\ linked = FALSE
  /\ restarting = FALSE
  /\ written = NoHandles
  /\ uploads = 0
  /\ flash = [n \in Slot |-> Erased]
  /\ boot = "running"
  /\ chosen = None

At(t, step) == task[t].at = step
Goto(t, step) == task' = [task EXCEPT ![t].at = step]
Return(t) == task' = [task EXCEPT ![t] = AtRest]

(* The BLE handlers give up the session when they abort it, except where   *)
(* the end of an upload fails.                                             *)
Abort(t) ==
  /\ Goto(t, "abort")
  /\ g_ble_session_active' = IF t = ble THEN FALSE ELSE g_ble_session_active
AbortKeepingSession(t) ==
  /\ Goto(t, "abort")
  /\ UNCHANGED g_ble_session_active

unchangedFlash == UNCHANGED <<flash, written, boot, chosen>>
unchangedOutside == UNCHANGED <<g_running, linked, restarting, uploads>>

----------------------------------------------------------------------------
(* ota_core_start, called for START over BLE and for POST /ota.            *)

Patient(t) ==
  \/ Hasty
  \/ /\ \A u \in Task : At(u, "idle")
     /\ boot = "running"

Reachable(t) == IF t = ble THEN linked ELSE g_running /\ ~At(ble, "stopping")

(* Over HTTP a hash that is not there, or has no length, is answered 400.  *)
HashIsRead(t) == t = ble \/ GivesLength

Announce(t, image) ==
  /\ At(t, "idle")
  /\ Reachable(t)
  /\ Patient(t)
  /\ HashIsRead(t)
  /\ uploads < MaxUploads
  /\ ~session.active
  /\ uploads' = uploads + 1
  /\ task' = [task EXCEPT ![t] = [at |-> "begin", image |-> image,
                                  handle |-> uploads + 1, chunk |-> None]]
  /\ UNCHANGED <<session, g_ble_session_active, g_running, remaining, linked, restarting>>
  /\ unchangedFlash

(* esp_ota_begin erases as much of the slot as the image will need.        *)
Begin(t) ==
  /\ At(t, "begin")
  /\ flash' = [n \in Slot |-> IF n <= Len(task[t].image) THEN Erased ELSE flash[n]]
  /\ written' = [h \in DOMAIN written \cup {task[t].handle} |->
                   IF h = task[t].handle THEN 0 ELSE written[h]]
  /\ Goto(t, "adopt")
  /\ UNCHANGED <<session, g_ble_session_active, remaining, boot, chosen>>
  /\ unchangedOutside

BeginFails(t) ==
  /\ At(t, "begin")
  /\ Return(t)
  /\ UNCHANGED <<session, g_ble_session_active, remaining>>
  /\ unchangedFlash /\ unchangedOutside

SessionOf(t, hashing) ==
  [active |-> TRUE, handle |-> task[t].handle, announced |-> task[t].image,
   received |-> 0, hashing |-> hashing, digest |-> <<>>]

Adopt(t) ==
  /\ At(t, "adopt")
  /\ session' = SessionOf(t, TRUE)
  /\ IF t = ble
     THEN g_ble_session_active' = TRUE /\ Return(t) /\ UNCHANGED remaining
     ELSE /\ remaining' = Len(task[t].image)
          /\ Goto(t, "receive")
          /\ UNCHANGED g_ble_session_active
  /\ unchangedFlash /\ unchangedOutside

AdoptFails(t) ==
  /\ At(t, "adopt")
  /\ session' = SessionOf(t, FALSE)
  /\ AbortKeepingSession(t)
  /\ UNCHANGED remaining
  /\ unchangedFlash /\ unchangedOutside

----------------------------------------------------------------------------
(* ota_core_write, called for a data write over BLE and for what POST has  *)
(* received.                                                               *)

Take(t, chunk) ==
  /\ IF session.active /\ session.received + 1 <= Total
     THEN /\ task' = [task EXCEPT ![t].at = "write", ![t].chunk = chunk]
          /\ UNCHANGED g_ble_session_active
     ELSE Abort(t)
  /\ UNCHANGED <<session, remaining>>
  /\ unchangedFlash /\ unchangedOutside

Receive(chunk) ==
  /\ At(http, "receive")
  /\ remaining > 0
  /\ Take(http, chunk)

(* Mutant: the session is left as it is when the client goes silent.       *)
ReceiveGivesUp ==
  /\ At(http, "receive")
  /\ remaining > 0
  /\ remaining' = 0
  /\ Return(http)
  /\ UNCHANGED <<session, g_ble_session_active>>
  /\ unchangedFlash /\ unchangedOutside

ReceiveFails ==
  /\ At(http, "receive")
  /\ remaining > 0
  /\ Abort(http)
  /\ UNCHANGED <<session, remaining>>
  /\ unchangedFlash /\ unchangedOutside

DataWrite(chunk) ==
  /\ At(ble, "idle")
  /\ linked
  /\ Hasty \/ At(http, "idle")
  /\ session.active /\ g_ble_session_active
  /\ Take(ble, chunk)

(* Flash that is not erased keeps a mixture of the old and the new.        *)
Write(t) ==
  /\ At(t, "write")
  /\ session.handle \in DOMAIN written
  /\ LET n == written[session.handle] + 1
     IN  /\ n \in Slot
         /\ flash' = [flash EXCEPT ![n] = IF @ = Erased THEN task[t].chunk ELSE Garbage]
         /\ written' = [written EXCEPT ![session.handle] = n]
  /\ Goto(t, "hash")
  /\ UNCHANGED <<session, g_ble_session_active, remaining, boot, chosen>>
  /\ unchangedOutside

Hash(t) ==
  /\ At(t, "hash")
  /\ session' = [session EXCEPT !.digest = Append(@, task[t].chunk)]
  /\ Goto(t, "count")
  /\ UNCHANGED <<g_ble_session_active, remaining>>
  /\ unchangedFlash /\ unchangedOutside

WriteFails(t) ==
  /\ At(t, "write") \/ At(t, "hash")
  /\ Abort(t)
  /\ UNCHANGED <<session, remaining>>
  /\ unchangedFlash /\ unchangedOutside

Count(t) ==
  /\ At(t, "count")
  /\ session' = [session EXCEPT !.received = @ + 1]
  /\ IF t = ble
     THEN Return(t) /\ UNCHANGED remaining
     ELSE /\ remaining' = remaining - 1
          /\ task' = [task EXCEPT ![t].at = "receive", ![t].chunk = None]
  /\ UNCHANGED g_ble_session_active
  /\ unchangedFlash /\ unchangedOutside

----------------------------------------------------------------------------
(* ota_core_finish, called for END over BLE and at the end of POST.        *)

EndWrite ==
  /\ At(ble, "idle")
  /\ linked
  /\ session.active
  /\ Goto(ble, "finish")
  /\ UNCHANGED <<session, g_ble_session_active, remaining>>
  /\ unchangedFlash /\ unchangedOutside

AllReceived ==
  /\ At(http, "receive")
  /\ remaining = 0
  /\ Goto(http, "finish")
  /\ UNCHANGED <<session, g_ble_session_active, remaining>>
  /\ unchangedFlash /\ unchangedOutside

CheckSize(t) ==
  /\ At(t, "finish")
  /\ IF ~session.active THEN Return(t)
     ELSE Goto(t, IF session.received # Total THEN "abort" ELSE "verify")
  /\ UNCHANGED <<session, g_ble_session_active, remaining>>
  /\ unchangedFlash /\ unchangedOutside

(* Mutant: the hash is computed and not compared.                          *)
HashIgnored == session.hashing /\ session.announced # None

(* A context that was freed hashes to nothing that was announced.          *)
HashMatches ==
  /\ session.hashing
  /\ session.announced # None
  /\ session.digest = session.announced

Verify(t) ==
  /\ At(t, "verify")
  /\ session' = [session EXCEPT !.hashing = FALSE]
  /\ Goto(t, IF HashMatches THEN "end" ELSE "abort")
  /\ UNCHANGED <<g_ble_session_active, remaining>>
  /\ unchangedFlash /\ unchangedOutside

(* esp_ota_end closes the handle also when it finds no image in the slot.  *)
Close(handle) == written' = [h \in DOMAIN written \ {handle} |-> written[h]]

End(t) ==
  /\ At(t, "end")
  /\ session.handle \in DOMAIN written
  /\ Close(session.handle)
  /\ \E image \in Images : Holds(image)
  /\ Goto(t, "select")
  /\ UNCHANGED <<session, g_ble_session_active, remaining, flash, boot, chosen>>
  /\ unchangedOutside

EndFails(t) ==
  /\ At(t, "end")
  /\ Close(session.handle)
  /\ AbortKeepingSession(t)
  /\ UNCHANGED <<session, remaining, flash, boot, chosen>>
  /\ unchangedOutside

(* esp_ota_set_boot_partition refuses a slot without an image, and the     *)
(* partition of a session that was cleared is NULL.                        *)
Select(t) ==
  /\ At(t, "select")
  /\ session.announced # None
  /\ \E image \in Images : Holds(image)
  /\ boot' = "update"
  /\ chosen' = session.announced
  /\ Goto(t, "done")
  /\ UNCHANGED <<session, g_ble_session_active, remaining, flash, written>>
  /\ unchangedOutside

SelectFails(t) ==
  /\ At(t, "select")
  /\ AbortKeepingSession(t)
  /\ UNCHANGED <<session, remaining>>
  /\ unchangedFlash /\ unchangedOutside

(* The restart task may not come to be: xTaskCreate's result is dropped.   *)
Done(t) ==
  /\ At(t, "done")
  /\ session' = [session EXCEPT !.active = FALSE]
  /\ g_ble_session_active' = IF t = ble THEN FALSE ELSE g_ble_session_active
  /\ restarting' \in {restarting, TRUE}
  /\ Return(t)
  /\ remaining' = IF t = http THEN 0 ELSE remaining
  /\ UNCHANGED <<g_running, linked, uploads>>
  /\ unchangedFlash

----------------------------------------------------------------------------
(* ota_core_abort, and what ends in it over BLE.                           *)

AbortHandle(t) ==
  /\ At(t, "abort")
  /\ IF session.active THEN Close(session.handle) ELSE UNCHANGED written
  /\ Goto(t, "clear")
  /\ UNCHANGED <<session, g_ble_session_active, remaining, flash, boot, chosen>>
  /\ unchangedOutside

Clear(t) ==
  /\ At(t, "clear")
  /\ session' = NoSession
  /\ remaining' = IF t = http THEN 0 ELSE remaining
  /\ Return(t)
  /\ UNCHANGED g_ble_session_active
  /\ unchangedFlash /\ unchangedOutside

AbortWrite ==
  /\ At(ble, "idle")
  /\ linked
  /\ Abort(ble)
  /\ UNCHANGED <<session, remaining>>
  /\ unchangedFlash /\ unchangedOutside

Connect ==
  /\ At(ble, "idle")
  /\ ~linked
  /\ linked' = TRUE
  /\ UNCHANGED <<session, g_ble_session_active, g_running, task, remaining, restarting, uploads>>
  /\ unchangedFlash

(* Mutant: a disconnection does not abort the upload.                      *)
DisconnectSilently ==
  /\ At(ble, "idle")
  /\ linked
  /\ linked' = FALSE
  /\ UNCHANGED <<session, g_ble_session_active, g_running, task, remaining, restarting, uploads>>
  /\ unchangedFlash

Disconnect ==
  /\ At(ble, "idle")
  /\ linked
  /\ linked' = FALSE
  /\ IF g_ble_session_active THEN Abort(ble) ELSE UNCHANGED <<task, g_ble_session_active>>
  /\ UNCHANGED <<session, g_running, remaining, restarting, uploads>>
  /\ unchangedFlash

----------------------------------------------------------------------------
(* The SoftAP, which a BLE client starts and stops, and restarts.          *)

StartSoftAp ==
  /\ At(ble, "idle")
  /\ linked
  /\ ~g_running
  /\ g_running' = TRUE
  /\ UNCHANGED <<session, g_ble_session_active, task, remaining, linked, restarting, uploads>>
  /\ unchangedFlash

StopSoftAp ==
  /\ At(ble, "idle")
  /\ linked
  /\ g_running
  /\ Goto(ble, "stopping")
  /\ UNCHANGED <<session, g_ble_session_active, remaining>>
  /\ unchangedFlash /\ unchangedOutside

(* Mutant: the stop waits for a BLE client's session as well.              *)
SoftApStoppedBetweenSessions ==
  /\ At(ble, "stopping")
  /\ At(http, "idle")
  /\ ~session.active
  /\ g_running' = FALSE
  /\ Return(ble)
  /\ UNCHANGED <<session, g_ble_session_active, remaining, linked, restarting, uploads>>
  /\ unchangedFlash

(* httpd_stop waits for the server's task to come to an end.               *)
SoftApStopped ==
  /\ At(ble, "stopping")
  /\ At(http, "idle")
  /\ g_running' = FALSE
  /\ Return(ble)
  /\ UNCHANGED <<session, g_ble_session_active, remaining, linked, restarting, uploads>>
  /\ unchangedFlash

(* The bootloader takes the selected slot if it holds an image, and the    *)
(* other slot, whatever it holds, is the next one to be updated.           *)
Reboot ==
  /\ session' = NoSession
  /\ g_ble_session_active' = FALSE
  /\ g_running' = FALSE
  /\ task' = [t \in Task |-> AtRest]
  /\ remaining' = 0
  /\ linked' = FALSE
  /\ restarting' = FALSE
  /\ written' = NoHandles
  /\ uploads' = 0
  /\ flash' = IF boot = "update" /\ \E image \in Images : Holds(image)
              THEN [n \in Slot |-> Garbage] ELSE flash
  /\ boot' = "running"
  /\ chosen' = None

Restart == restarting /\ Reboot

PowerLoss == Reboot

----------------------------------------------------------------------------
Handler(t) ==
  \/ Begin(t) \/ BeginFails(t) \/ Adopt(t) \/ AdoptFails(t)
  \/ Write(t) \/ Hash(t) \/ WriteFails(t) \/ Count(t)
  \/ CheckSize(t) \/ Verify(t) \/ End(t) \/ EndFails(t)
  \/ Select(t) \/ SelectFails(t) \/ Done(t)
  \/ AbortHandle(t) \/ Clear(t)

Post ==
  \/ \E chunk \in Chunk : Receive(chunk)
  \/ ReceiveFails
  \/ AllReceived

BleClient ==
  \/ \E chunk \in Chunk : DataWrite(chunk)
  \/ EndWrite
  \/ AbortWrite
  \/ Connect
  \/ Disconnect
  \/ StartSoftAp
  \/ StopSoftAp

Next ==
  \/ \E t \in Task, image \in Images : Announce(t, image)
  \/ \E t \in Task : Handler(t)
  \/ Post
  \/ BleClient
  \/ SoftApStopped
  \/ Restart
  \/ PowerLoss

Spec == Init /\ [][Next]_vars

(* The tasks run, the receive timeout of the HTTP server ends a wait for a *)
(* client, and the restart task wakes up.                                  *)
Fairness ==
  /\ \A t \in Task : WF_vars(Handler(t))
  /\ WF_vars(Post)
  /\ WF_vars(SoftApStopped)
  /\ WF_vars(Restart)

FairSpec == Spec /\ Fairness

----------------------------------------------------------------------------
(* Whatever the two tasks do to the one session, and whenever the power    *)
(* fails, the board is told to boot the update slot only while that slot   *)
(* holds the whole image the host announced.                               *)
BootsWhatWasAnnounced == boot = "update" => chosen # None /\ Holds(chosen)

(* A session that no task works on belongs to a connected BLE client,      *)
(* who can end it or whose disconnection will.                             *)
NoOrphan ==
  session.active /\ (\A t \in Task : At(t, "idle"))
    => g_ble_session_active /\ linked

(* Every session ends when its client has gone.                            *)
SessionsEnd == <>[]~linked => []<>~session.active

(* Every BLE write and every POST is answered, also a stop of the SoftAP   *)
(* that has to wait for an upload.                                         *)
HandlersReturn == \A t \in Task : ~At(t, "idle") ~> At(t, "idle")
==============================================================================
