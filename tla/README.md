# Formal models of EMWaver

EMWaver drives radio and GPIO experiments from a phone or a computer. An app
runs a script in a local JavaScript engine; the script's calls become 18-byte
binary commands that travel over USB-MIDI, Bluetooth LE or a Wi-Fi WebSocket to
a board, whose firmware executes them and answers. While a board samples or
retransmits a signal, 18-byte *stream lanes* travel beside the commands in the
same 36-byte superframes.

This directory models the parts of the system where most of the interplay is:
the ESP32 firmware under `src/esp/main/libraries`, the STM32F042 firmware under
`src/stm/emwaver-firmware`, the network side of the ESP8266 firmware, and the
host that waits for their answers.
Everything is translated from the code; the documents under `src/docs` and the
READMEs are only used to know what the code is meant to do.

## 1. Inventory

### 1.1 Components of the ESP32 firmware

| component | state it keeps | operations | interacts with |
|---|---|---|---|
| transport session (`transport_session.c`) | which transport owns the device, when it was last heard of | gate a command, gate a stream lane, connect, disconnect, heartbeat, status | called by the command task and by every receive task, without a lock |
| command task (`init.c`) | a queue of 10 commands, the command's source | receive, gate, dispatch to a handler, respond | queue filled by the receive tasks; handlers call every other component |
| sampler (`sampler.c`) | a ring of 16 lanes, overflow flag, bit and byte indices, the destination of the stream, a task handle | start, stop, timer interrupt (capture), streaming task | timer interrupt, streaming task, command task; USB and Wi-Fi senders |
| retransmitter (`sampler.c`) | active flag, interrupt handle, monitor task handle, bit index | start, stop, timer interrupt (playback), monitor task | receive ring of `usb.c`; stopped by its monitor or by the command task |
| receive ring and USB transport (`usb.c`) | a 512-byte circular buffer, buffer type, one pending response, one pending buffer status | ingest a lane, read bytes, init/flush/free, send response, send lane, send status | receive tasks write, playback interrupt reads, command task resets |
| Wi-Fi transport (`wifi_transport.c`) | staged and stored credentials, station state, one WebSocket client, reconnect state | provision, clear, suspend, resume, station events, reconnect task, WebSocket handler, send | event loop task, HTTP server task, reconnect task, command task |
| BLE transport (`ble_server.c`) | connection, 8-command receive buffer, SysEx reassembly | write, notify, connect, disconnect | NimBLE host task; OTA over BLE |
| firmware update (`ota_core.c`, `ota_ble.c`, `ota_wifi.c`, `ota_status.c`) | the one update session, byte counts, BLE session flag, SoftAP state | start, write, finish, abort, status, reboot | BLE host task and HTTP server task, which share the session without a lock; flash driver, bootloader |
| command registry (`command_registry.c`) | table of text commands | register, parse, run | called from the command task |
| GPIO, ADC, SPI, PWM handlers and radio drivers (`gpio_commands.c`, `spi.c`, `cc1101.c`, `mfrc522.c`, `rfm69.c`) | peripheral configuration | one handler per opcode | called from the command task only |

### 1.2 The rest of the repository

| part | what it is | here |
|---|---|---|
| STM32F042 firmware (`stm/emwaver-firmware/Core/Src/main.c`, `USB_DEVICE/App`) | a main loop that takes one command at a time from one buffer, a USB interrupt that fills it, a timer interrupt that samples and plays; a held-back answer and a buffer status, sent with the lanes | `StmFirmware` |
| hosts (Apple: Swift; Linux: Rust, `linux/crates`; Android: Java; Windows: C#) | one command outstanding, a wait with a timeout, feeding of a transmission; around it a script runtime, buffers, an interface | the one outstanding command in `Channel` and `StmFirmware`; the rest is not modelled |
| ESP8266 firmware (`esp/esp8266`) | a station or access point, a task that serves one WebSocket client after the other, a serial line, one command task; no sampler | `Esp8266` |
| AVR firmware (`arduino`) | a single loop that answers over a serial line | not modelled |
| Linux core (`linux/crates/emwaver-linux-core`), flashing tools (`crates/emwaver-dfu`) | bookkeeping on the interface's thread; a sequential download | not modelled |
| simulator, web pages, board drawings, release scripts | data and packaging | not modelled |

`PROJECT.json` lists each with its status and the reason; section 6 says more.

### 1.3 What is hard here

The firmware runs four kinds of code at once: timer interrupts, the command
task, one receive task per transport, and helper tasks that come and go
(streaming task, transmit monitor, reconnect task, restart tasks). On the
ESP32 and the ESP32-S3 they run on two cores. Most shared variables are plain
or `volatile` without a lock, so an order of two steps nobody had in mind is the
main danger:

* a session claim is checked, renewed and expired by tasks that do not exclude
  one another;
* a streaming task looks at a lane, sends it without the lock, and removes "the
  oldest lane" later, when the ring may have been reset;
* a stop request is a notification to a task that may not have noticed it when
  the next start arrives;
* the sample counter of the ring is written by an interrupt on one core and by
  a task on the other;
* the receive ring has a writer, a reader and a resetting task, and the buffer
  type decides by which way responses leave;
* failures at any step (no interrupt slot, no memory for a task, a send that
  times out) leave through early returns that must undo what was done;
* an answer carries no number: the host takes the next one that arrives for the
  answer to its last command, while four tasks send frames and one slot holds
  the answer back for a frame that somebody has to send;
* the Wi-Fi driver's events are handled by one task, commands and a firmware
  update change the station from others, and sleeping tasks reconnect later;
* on the ESP8266 three tasks close the server's sockets without a lock;
* on the STM32 the main loop clears flags that interrupts set;
* the firmware update has one session for two tasks: a BLE client may abort or
  end an upload that the HTTP server is in the middle of, and the power may fail
  at any step.

### 1.4 What makes each component correct

| component | properties | status |
|---|---|---|
| transport session | one transport at a time runs commands; no takeover; a claim ends for a reason; a stale claim blocks nobody, at worst one that has just gone | `TransportSession` |
| sampler | lanes come out in order, each once; an unsent lane is not overwritten; sampling is served; every lane is sent | `Sampler` |
| retransmitter | every way out undoes everything; a transmission is monitored, plays, ends; silence afterwards | `Retransmitter` |
| receive ring | a queue of bytes that takes whole lanes; every byte is taken by the interrupt (the one that empties the ring is cut off after its first bit, section 7); the ring is empty when it is over (not if a lane is published late, section 7) | `RxRing` |
| firmware update | boots only what was announced and verified; no session without an owner; sessions and handlers end | `Ota` |
| command channel, host | a command or its answer is in one place until it arrives or is lost for want of room; the answer that arrives is the right one; every command is answered | `Channel`, `Correspondence` |
| Wi-Fi transport | one client; the status is true once the events are handled; a configured station never stops trying, unless operations collide | `WifiTransport` |
| STM32F042 firmware | an answer that is held back has a carrier; the answer that arrives is the right one; every command is answered | `StmFirmware`, `Correspondence` |
| ESP8266 network | answers reach the client that is served, and no socket is lost, until a session is opened while another task forgets the last one; nobody is turned away for a client that is gone; the server listens again; the status is true; the station never stops trying | `Esp8266` |
| BLE receive path | reassembly survives bad fragments | not modelled (section 6) |
| device registry (Linux), flashing tools | a script session is bound to a device that is there; a download ends in an image or in an error | not modelled: sequential |

## 2. Plan

The order follows how much goes wrong when the component does, and how little of
it a test on a board can reach.

| step | modules | question | state |
|---|---|---|---|
| 1 | `TransportSession`, `SessionLease` | who owns the device | done; every safety property proved |
| 2 | `Sampler`, `LaneQueue` | does the captured signal reach the host | done; safety and refinement proved |
| 3 | `Retransmitter` | does a transmission begin, play and end | done; safety proved |
| 4 | `RxRing`, `ByteQueue` | are the bytes played that were sent | done; safety and refinement proved |
| 5 | `Ota` | does the board boot what it was given | done; safety proved |
| 6 | `StmFirmware`, `Correspondence` | does a single loop with two interrupts answer every command, each with its own answer | done; safety and refinement proved |
| 7 | `Channel`, `Correspondence` | does every command get its own answer on the ESP32: the queue, the pending answer of `usb.c`, the four tasks that send it, the host that waits | done; safety and refinement proved |
| 8 | `Station`, `WifiTransport` | does a configured board come online and stay reachable, for one client | done; safety proved |
| 9 | `Station`, `Esp8266` | does a server whose sockets others close go on serving | done; safety proved |
| 10 | `BleReceive` | what of a client's writes becomes commands (reassembly of SysEx fragments) | left |
| 11 | `Board` | `TransportSession` composed with `Channel`, with the timeout of the claim instead of `Expire` | left |

The abstract specifications are `SessionLease` (an exclusive lease),
`LaneQueue` (a lossy queue of lanes), `ByteQueue` (a queue that takes whole
lanes) and `Correspondence` (the answer that arrives is the answer to the last
command; its `Matches` says what a host makes of that), which two different
firmwares implement.

## 3. The modules

In every module an operation of the code is an action, and an action ends where
another context (interrupt, task, core) can see or disturb what it has done so
far. Names are the code's. Constants that are booleans choose between the
circumstances of a board or a host; they are listed in section 3.10. Definitions
that follow a comment `Mutant:` are wrong on purpose: a plausible bug in the
definition after them, which the properties have to find.

### 3.1 `TransportSession` (with `SessionLease`, `MCTransportSession`, `TransportSessionProofs`)

`transport_session.c`: which transport owns the device. Variables:
`s_active_source`, `s_last_activity_tick`, the tick counter (which wraps), the
command task with the command it handles, the receive tasks inside
`transport_session_allows_stream`, the last reply, and two history variables:
the true age of the claim (`idle`), and what the command task found at the first
of two looks at the claim (`seen`).

`s_active_source` is volatile, and a condition that names it twice reads it
twice. The command task therefore gates a command in up to three steps: it
expires the claim and looks (`Receive`), looks again if it has found one (`Gate`),
and stamps it (`Renew`). CONNECT does the same once more (`Connect`,
`ConnectAgain`, `Publish`, `StampClaim`), DISCONNECT looks twice before it drops
the claim (`Disconnect`, `Release`); the other handlers are one step and a stamp
(`Heartbeat`, `SessionStatus`, `OtherCommand`). Expiry and the look that follows
are one step, because all that a receive task writes in between is
`EMW_TRANSPORT_SOURCE_NONE`, which the look then finds as if it had been there
before. A receive task that judges a stream lane performs one access per step
(`ReadSource`, `ReadNow`, `ReadLast`, `ClearClaim`, `Decide`). The command
carries the transport it came by (`via`) and the one it is stamped with
(`source`); on the raw path of `ble_server.c` the stamp is whatever the stack
holds.

`SessionLease` is what the session promises: an exclusive lease that its owner
renews, gives back or loses after the timeout.

### 3.2 `Sampler` (with `LaneQueue`, `MCSampler`, `SamplerProofs`)

`sampler.c`, lines 380–570 and the sampling handler of `init.c`: the interrupt
fills a lane and pushes it (`CompleteLane`, `PushLane`, `CheckFull`), the
streaming task sends and removes the oldest lane (`Peek`, `ReadSource`, `Send`,
`FailToSend`, `Pop`, `Decrement`, `NoticeStop`, `Exit`), the command task starts
and stops (`Start`, `EnsureTask`, `SetStreamSource`, `Stop`, `Notify` and the
failures). A lane is its number in the session; a slot of the ring holds a lane,
nothing, or a partial lane. `sampler_ring_count++` of the interrupt and the
task's decrement are a read and a write each. A START while sampling, and a STOP
while not, change nothing and are no actions.

`LaneQueue` is what the host sees: lanes in order, each once, lost only when
`Capacity - 1` others wait. A send that is under way when sampling is stopped
may still deliver a lane of zeroes, because the ring has been cleared under it
(`SendZeroes`).

### 3.3 `Retransmitter` (with `MCRetransmitter`, `RetransmitterProofs`)

The other half of `sampler.c`: START (`Start`, `Register`, `EnsureMonitor` and
the failures), `transmit_stop_impl` for its two callers, the command task and
the monitor (`StopBegin`, `StopFree`, `StopEnd`, `StopNothing`), the rounds of
the monitor (`NoticeEnd`, `Filled`, `WaitForBytes`, `StartTimer`, `Watch`,
`Exit`), the timer's interrupt (`PlayByte`) and the lanes that come in
(`Ingest`). The buffer is the number of its bytes. Registration and release of
the interrupt, of its handle and of the timer are separate facts, so that an
inconsistency between them can be seen. The sampler appears as what it shares
with the retransmitter, the buffer mode.

A round of the monitor begins only when the interrupt has run since the last
round (a round is 10 ms, the interrupt comes every few microseconds) and,
unless `Overlap` is TRUE, when a command is over, which takes less than a
millisecond (`RoundBegins`, `MonitorRuns`). With `Overlap` a round may begin in
the middle of a command, as the monitor's loop does on the other core.

### 3.4 `RxRing` (with `ByteQueue`, `MCRxRing`, `RxRingProofs`)

The ring of bytes between `usb_ingest_stream_lane`, which USB and Wi-Fi share,
and `transmission_isr`: a byte is written (`WriteByte`), the lane is published
by moving the head (`Publish`) or given up when a slot is missing; the interrupt
takes a byte (`TakeByte`), plays a bit per tick (`PlayBit`) or finds nothing
(`PlayNothing`). Commands clear the ring (`Start`, `Stop`, `Flush`). A byte is
its number in the transmission.

`ByteQueue` is a queue of bytes that takes or refuses whole lanes.

`Retransmitter` and `RxRing` share the life of a transmission: what
`Retransmitter` counts as `available` are the bytes of `RxRing`, and `playing`
in `RxRing` is "the timer counts and the interrupt is registered".

### 3.5 `Ota` (with `MCOta`, `OtaProofs`)

`ota_core.c`, `ota_ble.c` and `ota_wifi.c`: one upload session, worked on by the
BLE host task and by the HTTP server's task. A task is at a step of
`ota_core_start` (`Announce`, `Begin`, `Adopt`), `ota_core_write` (`Receive` or
`DataWrite`, `Write`, `Hash`, `Count`), `ota_core_finish` (`EndWrite` or
`AllReceived`, `CheckSize`, `Verify`, `End`, `Select`, `Done`) or
`ota_core_abort` (`AbortHandle`, `Clear`), each with its failures, and every step
is one call of the flash driver or one visit to `g_session`. Around them a BLE
client connects and disconnects, starts and stops the SoftAP (`httpd_stop` waits
for the server's task), and the board restarts or loses power. The flash is an
array of chunks; a chunk written to flash that is not erased becomes garbage; an
image is the sequence of its chunks and a hash is what was hashed, in order. The
bootloader boots the selected slot if it begins with an image.

`HashIsRead` is the first thing an upload over HTTP needs: `ota_post_handler`
(`ota_wifi.c:116`) refuses it with 400 unless the lookup of the hash header
returns something above 0. What that is, is the HTTP server's: ESP-IDF returns
`ESP_OK`, which is 0, and then every upload is refused and no HTTP task ever works
on the session (`GivesLength` FALSE). The run takes a server that returns the
length, so that what the handler does with an upload is checked at all.

`g_ble_session_active` is written only by the BLE host task and read only by it,
so its reset is part of the step in which the handler decides to abort.

### 3.6 `Channel` (with `Correspondence`, `MCChannel`, `ChannelProofs`)

A command of the USB host on its way through the ESP32: into `cmd_queue`
(`Ask`, `Enqueue`, which drops it when the queue is full), past the gate into a
handler (`Busy`, `Query`, `Operate`, `Connect`, `Disconnect`, `SampleStart`,
`SampleStop`, `TransmitStart`, `TransmitStop`), to `usb_send_cmd_response`
(`Respond`), which sends it at once or, unless the buffer type is `PACKET`,
leaves it in the pending slot. Four tasks build frames (`Fill`): the receive task
and the monitor when a buffer status is due (`PollTx`), the streaming task with
a lane (`SendStreamLane`) and the command task itself. A frame goes into
TinyUSB's buffer, or is given up when there is no room or another task is
sending (`SendFrame`). The host collects frames (`Collect`), feeds a
transmission (`Feed`) and asks again when it has its answer or has timed out
(`GiveUp`). Wi-Fi commands share the queue, the session and the streams
(`AskByWifi`); their answers go another way. A claim may expire at any time
(`Expire`): when exactly, is `TransportSession`'s.

Handlers that drive pins or buses answer and change nothing here; there are two
of them, `Query` for those the gate lets through without a claim and `Operate`
for those it does not.

A frame takes the pending answer along by copying it and clearing it, without a
lock: a task that is interrupted in between leaves the slot as it was
(`uncleared`; only if `Overlap` is TRUE), and another may copy it again.

Two history variables say when an answer may be out of its place. `lost` marks
that the command the host waits for, or the frame with its answer, was dropped;
a host gives up only then, unless `Impatient` is TRUE. `crowded` marks that it
has given up on an answer that was not lost, or that a task was interrupted
between copying and clearing; the mark goes when the host asks again while
nothing of its commands is left on the board (`Places`).

`Correspondence` is what the hosts rely on: after a command at most one answer
arrives, and it belongs to it, unless an answer may be out of its place
(`crowded`), when any may arrive.

### 3.7 `StmFirmware` (with `Correspondence`, `MCStmFirmware`, `StmFirmwareProofs`)

The main loop of `stm/.../main.c`: it sends what is due (`Drain`), takes the
command (`Pop`, `Idle`), dispatches it (`Dispatch`, with `SampleStart`,
`SampleStop`, `TransmitStart` and an `Outcome` for every other opcode), answers
(`SendStatus`, which leaves the answer in `pending_cmd_lane` while the sampler
runs), clears the buffer (`Release`, `Clear`: the flag first), plays a
transmission to its end (`PollTx`, `Play`, `Played`, `EndTransmission`) or
resets (`Reset`). A send busy-waits for the endpoint and gives up after a
timeout. Between any two of these steps the timer interrupt captures a lane or
plays one (`Capture`, `PlayLane`) and the USB interrupt takes a frame of the
host (`Take`, `Receive`, `Feed`) or learns that one was collected (`Collect`).
It refines `Correspondence` with `crowded <- FALSE`: with one loop and a host that
waits, no answer is ever out of its place.

### 3.8 `WifiTransport` (with `Station`, `MCWifiTransport`, `StationProofs`)

`Station` holds what the two stations have in common, and `Esp8266` extends it
too: the variables that both firmwares keep under the same names
(`s_has_config`, `s_station_online`, `s_reconnect_pending`), the sleeping tasks,
and the driver, which is external (`WifiConnect`, `AfterLeaving`, `Reports`,
`Handle`).

`wifi_transport.c`: credentials come and go by the command task (`Provision`,
`ClearConfig`); a firmware update, by the task of BLE, takes the radio and gives
it back (`Suspend`, `Resume`). Each of these stops the server and then acts on
the driver, and the event task, or the operation of the other task, may run in
between, since no lock is shared: `job` says what each of the two has half-way
(`JobStopsServer`, `StationChecks`, `StationStarts`, `StationReconnects`,
`StationStops`, `StationYields`). `start_station` makes a station of an access
point (`StationMode`) and asks twice whether the station runs: before the server
is stopped and the network left, and after (`StationChecks`); only then it starts
the driver or has it connect. The history variable `collided` marks that an
operation has begun while the other task's was under way, until the board
restarts. The event task handles the driver's events in order (`Started`,
`Disconnected`, `GotIp`), a sleeping `wifi_reconnect_task` wakes (`Wake`), clients
shake hands and leave (`Open`, `Close`). The driver is external (`Radio`): it
joins, fails or leaves and posts an event each time. A driver error in an
operation ends in `ESP_ERROR_CHECK`, which restarts the board (`StationPanics`,
`Restart`).

### 3.9 `Esp8266` (with `Station`, `MCEsp8266`, `StationProofs`)

`emwaver_esp8266.c`: credentials come and go (`Apply`, `EspClearConfig`), which
closes the sockets and restarts the radio as a station or an access point
(`EspStationStarts`, `SoftapStarts`); the event task handles the driver's events
(`EspStarted`, `EspDisconnected`, then `Retry`; `EspGotIp`); tasks sleep and
reconnect (`EspWake`). What has a namesake in `WifiTransport` carries the prefix
`Esp`, so that one module can hold the proofs about both. The server's task listens, accepts, shakes hands, serves and starts
over (`Listen`, `Accept`, `HandshakeSucceeds`, `SessionEnds`, `SessionClosed`,
`StopsListening` and the failures). `Closes(t)` is `close_active_socket` and
`stop_server_socket`, one socket call per step, for each of the three tasks that
run them: they test a shared descriptor, close what it names by then if it names
any, and forget it in either case. Descriptors are reused. The history variable
`crossed` marks that a session was opened while another task was about to forget
`s_active_sock`, until the board restarts.

The socket layer is external: a call on a descriptor that has been closed
returns with an error, also when it was blocked at that time.

### 3.10 Constants that choose the circumstances

| constant | in | TRUE means |
|---|---|---|
| `Unstamped` | `TransportSession` | the transports whose receive path leaves `cmd.source` unset (`{ble}` in the code) |
| `Streams` | `TransportSession` | the transports whose receive task checks stream lanes |
| `Parallel` | `Sampler` | the streaming task may run on the other core than the interrupt (ESP32, ESP32-S3: tasks are not pinned) |
| `Hasty` | `Sampler`, `Retransmitter` | a host sends START before the helper task of the last session is gone (up to 10 ms after the STOP) |
| `Hasty` | `Ota` | an upload is announced while another is handled, or in the two seconds before the board restarts with a new image; or a BLE client writes data during an upload over HTTP |
| `GivesLength` | `Ota` | the HTTP server returns a length for the hash header, and not `ESP_OK` (external; the run assumes it) |
| `Overlap` | `Retransmitter`, `RxRing` | the command task may overtake the monitor, or the receiving task, in the middle of a step, and a monitor's round may begin within a command (two cores, or preemption) |
| `Sampling` | `Retransmitter` | the host also starts and stops the sampler |
| `Failures` | `Sampler`, `Retransmitter` | which steps of START may fail: interrupt allocation, task creation |
| `Overlap` | `Channel` | a task may be interrupted between copying the pending answer and clearing it (two cores, or preemption) |
| `Impatient` | `Channel` | the host times out while its answer is still on the way |
| `StartFails` | `Channel` | the sampler's interrupt may be refused |
| `Stalls` | `StmFirmware` | the host may leave a frame in the endpoint past the firmware's timeout |
| `Prompt` | `StmFirmware` | a command may arrive before the last one has been cleared away |
| `Mixed` | `StmFirmware` | the host starts a transmission while the sampler runs |
| `FlashFails` | `StmFirmware` | programming the name may fail half-way |
| `Backoff` | `WifiTransport` | credentials may change while the station waits to try again |

The runs that pass state what the code gets right and name the circumstances it
needs. Where the code needs a circumstance that it does not ensure itself, the
opposite value of the constant can be tried: section 7 lists what happens.

## 4. What is checked

| run | module | distinct states | question | outcome |
|---|---|---|---|---|
| `session_commands` | `MCTransportSession` | 47,807 | without stream lanes, is the session an exclusive lease, across a wrap of the tick counter, also with BLE commands of undefined source? | holds |
| `session_streams` | `MCTransportSession` | 175,829 | with two receive tasks that expire claims access by access, between any two looks of the command task: are handlers exclusive, do operations come from the owner, are claims not taken over, and stale claims harmless? | holds |
| `sampler_queue` | `MCSampler` | 13,975 | on one core, with a patient host, is the sampler a queue of lanes, and is every lane sent? | holds |
| `retransmit_life` | `MCRetransmitter` | 590 | does every transmission play, end and undo what it did, through all failures? | holds |
| `retransmit_any_order` | `MCRetransmitter` | 7,285 | with everything overlapping, is it silent when it is over? | holds |
| `rx_queue` | `MCRxRing` | 905 | is the ring a queue that takes whole lanes, and is every byte taken by the interrupt? | holds |
| `ota_update` | `MCOta` | 161,264 | through failures, aborts, disconnections and power loss, does the board boot only what was announced, and do sessions and handlers end? | holds |
| `channel_answers` | `MCChannel` | 427,884 | with four tasks that send, streams of two transports and full queues, does the USB host get each answer, once, and as the answer to its own command? | holds |
| `channel_discovery` | `MCChannel` | – | is discovery over USB answered while Wi-Fi has the session? | violated |
| `stm_host` | `MCStmFirmware` | 37,955 | does the single loop answer every command, whatever its two interrupts do, and through sends that time out? | holds |
| `wifi_station` | `MCWifiTransport` | 185,258 | with the operations of two tasks, driver events, sleeping tasks and clients interleaved: one client, a true status, no standstill, and no end of trying? | holds |
| `esp8266_network` | `MCEsp8266` | 1,338,122 | with three tasks that close a server's sockets: do answers reach the client and is no socket lost until sessions cross, is nobody turned away, does nothing stand still, does it listen again? | holds |

`channel_answers` and `esp8266_network` take a minute or two, `ota_update` half
of one, and the others seconds. Types are proved (section 5) for every
module; the run of the receive ring, whose types say that no index leaves the
ring, checks them too.

### 4.1 Bounds

* `session_*`: timeout 2 (or 1) ticks, a counter of 6 (or 4) values. Young,
  just timed out and stale claims exist and the counter wraps between any two
  of them; two or three transports are an owner, a rival and a bystander. A claim
  is never left for a whole turn of the counter (`MaxIdle`): on the board that
  turn takes 497 days at 100 Hz. `session_streams` uses the symmetry of the
  transports, none of which is named by the code it runs.
* `sampler_queue`: a ring of 3 lanes and 8 lanes in a session. The ring fills,
  overflows, drains and wraps more than twice; a session may end at every step.
  Lanes beyond the eighth repeat this. Failures of both kinds occur.
* `retransmit_*`: a buffer of 6 bytes, lanes of 2, a start level of 3, two
  rounds to the exit of an idle buffer and three to the timeout: below the
  level, at it, full and drained are all reached, and both timers run out.
* `rx_queue`: a ring of 5 slots and lanes of 2 bytes, so that lanes start at
  every slot and the ring is full with and without a slot left; 10 bytes are
  two turns; 3 bits stand for first, middle and last.
* `ota_update`: three images, two of which begin alike and one of which is
  shorter; a slot of three chunks; two uploads before a restart, so that one may
  follow an aborted one; chunks may arrive in any order and number.
* `channel_*`: a queue and a USB buffer of one place each, so that both are full
  whenever a second one comes; one rival transport; two numbers for commands,
  used in turn. Since the host has one command outstanding, two numbers tell the
  answer to the last command from a late or doubled one, and the number of
  commands is not bounded.
* `stm_host`: a ring of two sampled lanes, a transmit buffer of two, three lanes
  fed to a transmission, three numbers used in turn. The
  host may leave a frame past the firmware's timeout (`Stalls`).
* `wifi_station`: two clients (the one that is served and its rival), four
  events that wait, and two tasks asleep, which is one more than the flag
  `s_reconnect_pending` is meant to allow.
* `esp8266_network`: two descriptors, the listener and the client. With
  exactly as many as the server needs, one that is lost is missed, and one that
  is closed is reused at once. An operation or a driver event begins only while
  fewer than two events wait.

### 4.2 Fairness

* `Sampler`: the command, interrupt and streaming task, once begun, go on (weak
  fairness): FreeRTOS schedules them, and none waits for another for ever. `Send`
  is strongly fair: a host that is there reads, and a transport that is tried
  again and again takes a lane in the end. Neither START nor STOP is fair.
* `Retransmitter`: weak fairness of command, monitor and interrupt. That a
  transmission ends is claimed only for a host that falls silent for good, and
  this is the premise of `TransmissionEnds`, not a fairness condition.
* `RxRing`: weak fairness of the interrupt, which the hardware timer raises.
* `Ota`: weak fairness of the steps of a handler, of the POST handler's loop (its
  receive times out), of the stop of the SoftAP and of the restart task. The
  clients and the power supply are not fair. `SessionsEnd` has the premise that
  the BLE client has gone for good.
* `Channel`: weak fairness of the command task, of the streaming task's lanes
  (the timer captures while sampling is active), of the receive task's poll for a
  buffer status that is due, of each task that is sending a frame, and of the
  host's collecting. The host need not ask nor feed: `AnsweredWhileFed` has the
  feeding as its premise, and `EveryCommandIsAnswered` that no transmission and
  no stream or claim of another transport comes in between.
* `StmFirmware`: weak fairness of the main loop, of the timer's interrupt while
  it is started, and of the host's collecting. Nothing makes the host send.
* `WifiTransport`: weak fairness of operations that have begun, of the event
  task and of sleeping tasks; an attempt to join comes to a result. That it ever
  succeeds is not assumed.
* `Esp8266`: the same, and weak fairness of what the server does without a
  client (`ServeAlone`): opening its socket, returning from calls on a socket
  that somebody has closed, closing and starting over. No client has to come, to
  go on or to leave.
* `TransportSession` has no liveness property: no command has to come.

### 4.3 Findings

One run ends in a violation and shows a disagreement of the code with its
documents. `channel_discovery`: `usb_send_cmd_response` (`usb.c:157`) holds a USB
answer back while the buffer type is not `PACKET`, whoever runs the stream, and
relies on a later USB frame to take it along. The lanes of a stream that Wi-Fi
started go to the WebSocket, and a transmission sends frames only when a lane
arrives over USB, so the answer stays where it is, also when the stream is over.
`esp/README.md:175` promises that USB remains available for discovery.

Further disagreements, which need a change of one constant or property of a
passing configuration to be seen, are listed in section 7.

## 5. What is proved

The proofs hold for every value of the constants that satisfies the assumptions
in the modules and the condition in the last column, and for any number of steps.

| theorem | says | needs |
|---|---|---|
| `TransportSessionProofs!TypeCorrect`, `HandlersAreExclusive`, `ClaimIsNeverTakenOver`, `StaleClaimsKeepNobodyOut` | types; one transport at a time; no takeover; CONNECT is refused only where a look found a claim younger than the timeout, and where that was the sender's own, it has just gone | – |
| `TransportSessionProofs!OnlyTheOwnerOperates` | an operation comes from the transport that holds the claim, or nobody holds it | every receive path stamps its commands (`Unstamped = {}`) |
| `TransportSessionProofs!ImplementsLease` | the session implements `SessionLease` | no receive task checks stream lanes |
| `SamplerProofs!TypeCorrect` | types, also on two cores and after hasty restarts | – |
| `SamplerProofs!RingStaysConsistent` | head, tail and count agree | one core |
| `SamplerProofs!SamplingStaysServed` | sampling is served, on one core or two | a patient host |
| `SamplerProofs!UnsentLanesStay`, `SendsInOrder` | no unsent lane is overwritten; lanes are sent in order, each once | one core, a patient host |
| `SamplerProofs!ImplementsQueue` | the sampler implements `LaneQueue` | one core, a patient host |
| `RetransmitterProofs!TypeCorrect`, `SilentInTheEnd` | types; silence when it is over | – |
| `RetransmitterProofs!AllIsUndone` | every way out undoes everything | no overlap, no sampling |
| `RetransmitterProofs!AlwaysMonitored`, `EndsWhatPlays` | the monitor is there, and ends only what it has seen play, also when callers overlap, rounds begin within a command and the host samples | a patient host |
| `RxRingProofs!TypeCorrect` | types | – |
| `RxRingProofs!ImplementsQueue` | the ring implements `ByteQueue` | commands wait for the receiving task |
| `RxRingProofs!PlaysInOrder` | bytes are played in the order in which they were sent, each once | the same |
| `OtaProofs!TypeCorrect`, `NothingIsOrphaned` | types; no session without an owner | – |
| `OtaProofs!BootsOnlyWhatWasAnnounced` | the selected slot holds the image that was announced | patient hosts |
| `ChannelProofs!TypeCorrect` | types | – |
| `ChannelProofs!CommandIsSafe` | a command or its answer is in one place until it arrives or is lost, unless it is crowded | – |
| `ChannelProofs!ImplementsCorrespondence` | the ESP32's channel implements `Correspondence`, however early its host gives up and whatever is interrupted | – |
| `ChannelProofs!AnswersMatch` | unless it is crowded, the answer that came last is the answer to the last command | – |
| `ChannelProofs!KeepsTheNewest` | the newest command or its answer is on the board until the host takes some answer for it, or it is lost for want of room | no task is interrupted while it takes the answer |
| `StmFirmwareProofs!TypeCorrect` | types | – |
| `StmFirmwareProofs!HeldBackAnswersTravel` | an answer that is held back has a lane to wait for | a host that does not mix streams; flash that works |
| `StmFirmwareProofs!ImplementsCorrespondence` | the STM32's loop implements `Correspondence`, also for a host that mixes streams or sends early | flash that works |
| `StmFirmwareProofs!AnswersMatch` | the answer that came last is the answer to the last command, and the only one | the same |
| `StationProofs!TypeCorrect`, `HasOneClient`, `StatusHolds` | ESP32: types; one client; a true status; also when credentials change at any time and operations overlap | – |
| `StationProofs!NeverStandsStill` | ESP32: somebody is always left to join the network, until operations collide | credentials do not change between two attempts |
| `StationProofs!EspTypeCorrect`, `EspStatusHolds`, `EspNeverStandsStill` | ESP8266: types; a true status; somebody is always left to join the network | – |
| `StationProofs!TurnsNobodyAway` | ESP8266: `s_active_sock` names the client that the server deals with, or nobody | – |
| `StationProofs!KnowsItsClient`, `LosesNoSocket` | ESP8266: until sessions cross, answers reach the client that is served, and only the sockets in use are open | – |

No condition is there for the proof's sake: TLC finds each of these properties
violated in the configuration of its run when one of its conditions is dropped
(section 7 tells the stories), also those that no run checks
(`SentInOrder`, `PlayedInOrder` and `NewestIsKept`, which the modules of the
proofs define). The same goes for the exceptions that are part of a property
(`crowded`, `crossed`, `collided`): each is a history of what has happened, not
an assumption about what may, and TLC finds the property violated without it.

### 5.1 The arguments

**Transport session.** `Inv` adds three facts to the types and to exclusion: what
kind of command is at which step (`StepsFit`); the true age of the renewal is what
the unsigned difference of the ticks shows, wrapped or not (`ElapsedStep`); and
between two looks at the claim the first has found one that was not too old, of
which since then at most nothing is left (`SawALiveClaim`). With it, a refusal by
the gate or by CONNECT goes back to a young claim, also when a receive task has
cleared it before the second look. A receive task can only remove a claim, and
this is why exclusion survives what `ClaimEndsForAReason` does not. The refinement adds
that a handler's command comes from the owner as long as no claim is removed
behind its back. For `OnlyTheOwnerOperates`, `StampedTruly` says that a command's
stamp is the transport it came by; with it, the gate's decision about the stamp
is one about the transport.

**Sampler.** `RingInv` says that the head follows the tail by the number of
waiting lanes and that there is room for a lane unless the ring overflows; it
needs only that interrupt and task do not overlap in their critical parts. `IInv`
adds what the streaming task relies on when it works outside the lock: the lane
it sends stays the oldest one until it removes it (`TaskHoldsTail`), because no
task outlives its session (`TaskOfSession`); waiting lanes are in order and unsent
(`WaitingInOrder`), the other slots hold nothing unsent (`FreeSlotsSent`). For
the refinement, `QueueInv` adds what links ring and queue at the edges: a lane is
pushed only while the ring does not overflow, and a task that is still sending
when its session has ended finds zeroes. Every step is then an `Enqueue`, `Fill`,
`Lose`, `Dequeue`, `Close` or `SendZeroes` of `LaneQueue`, or none.

**Retransmitter.** `Orderly` says phase by phase what START and
`transmit_stop_impl` have done so far, so that at the end nothing is left over.
`Guarded` is about the monitor alone: there is one while a transmission that was
answered goes on, and its `started` means that it has started this transmission's
timer, as far as no command is in between. It rests only on the host that waits
for the last monitor: what other callers undo behind the monitor's back it does
not read, and what a round finds that begins within a START it does not trust. `Silent` is another, weaker invariant that holds however
the callers overlap: when a stop is overtaken, an interrupt may stay behind, but
then the timer is paused and nobody is left who would start it.

**Receive ring.** `LaneInProgress` says that the bytes written so far follow the
waiting ones in order and leave a slot free; so publishing them appends a whole
lane to the queue, and taking at the tail in between does not disturb them
(`TailMoves`). `Ascending` is an invariant beside it: the bytes that wait come
after the one that is played, in order, and before those still to come.

**Firmware update.** `Owned` says that an active session belongs to a connected
BLE client whose flag is set, or that a task is at a step that will end it or
hand it over; `Connected` that a BLE handler runs only for a connected client. A
session that passes from one owner to the other, as when a BLE client ends the
upload of the HTTP task, stays within the disjunction. This needs nothing of the hosts.

That the board boots only what was announced does: with patient hosts, one task
at a time writes, and no session begins beside another or after a selection
(`Ordered`: `OneWriter`, `BeginsAlone`, `Complete`, `HashEnds`). A BLE client may
still end or abort the session under the HTTP task's hands; `Tracked` therefore
says only of an active session, and of a task that has not given up half-way
(`InStep`), that what was hashed is what is in the flash (`HashedIsWritten`) and
that the rest of the slot is still erased (`RoomIsErased`). So the next chunk
lands in erased flash behind the hashed ones, a hash that matches means that the
slot holds the image (`MatchIsHeld`), and nothing is written between that
comparison and the restart. Cutting the invariant at any of these parts makes
it fail at a single step: without `InStep`, for example, a write that failed
after the flash took it would have to be hashed.

**Channel.** `Inv` says where the command is, unless it is crowded. While the host
waits and nothing is lost, exactly one of these holds: it is in the queue, with
the command task, its answer is in the pending slot, in the frame of one task, or
in the USB buffer; otherwise it, and any answer, is nowhere. Queue and buffer have
any length, so the places in them are indices, and popping the head moves each
index by one. That an answer is collected only while its command waits follows,
and this is all that `Correspondence` asks. A task interrupted while it takes the
pending answer leaves it in two places, and a host that gives up too early leaves
an answer nobody waits for; the invariant then says nothing until the host asks
again and none of this is left, and from there on it holds as from the start
(`AskMakesOrder`, `NoPlaces`).
Without a patient host there may be many commands on their way at once; `KeptInv`
therefore follows the newest one alone, the last of the host's in the queue, and says that it is somewhere, not that it is there once.

**STM32.** `Inv` follows the command through the main loop: what is still undone
belongs to the command that is awaited (`UndoneIsAwaited`), so does an answer that
is held back, which is then not in the endpoint as well (`HeldBackIsAwaited`), and
one in the endpoint (`SentIsAwaited`, all that the refinement needs). It does not
mention the modes, and so holds for hosts that mix the streams; a name that cannot
be programmed, answered twice, breaks it. That mode, buffer type and timer agree
between the commands that change them (`Modes`) is an invariant of its own, under
which a held-back answer has a lane to travel with.

**Wi-Fi of the ESP32.** `OneClient` is inductive once the types are known. `StatusInv` looks
ahead through the events that wait: the last one that speaks of joining or
leaving, or the status itself when none does, agrees with the driver, unless an
operation is about to leave the network. When no event waits and no operation is
half-way, the status is therefore true, also for operations that interleave.
`TryingInv` says that somebody will join: unless the station is joined or a task
sleeps, there is an event to come, or an operation half-way, that leads to an
attempt, and the flag that suppresses one reconnection is set only as long as the
event it was meant for, and a join after it, are still to come. It speaks of one
operation at a time: two that collide may undo each other's half, so it says
nothing after that. Credentials that change while the station is idle set the
flag for an event that never comes, and this is the one condition.

**ESP8266.** The status is argued in the same way. That nothing stands still needs
no condition here, because a restart of the radio always posts `STA_START`. For
the sockets, `ActiveInv` says that `s_active_sock` names the session's socket or
nothing, from which it follows that nobody is turned away; and, until sessions
cross, that it names it while it is open, and that it is closed when some task is
about to forget its name. `ClosingInv` says that the server is done closing only
when the name is gone, `ServerInv` what each step of the server has open. Three
tasks may then close one socket in any order without closing another. A session
that is opened while another task is about to forget the name, because it has
closed the last one's socket or had found none, is what sets `crossed`.

### 5.2 What is only model-checked

Liveness (`EveryLaneIsSent`, `TransmissionEnds`, `EveryByteIsTaken`,
`SessionsEnd`, `HandlersReturn`, `EveryCommandIsAnswered` of both firmwares,
`AnsweredWhileFed`, `KeepsTrying`, `EspKeepsTrying`, `ListensAgain`) is beyond
the prover, as are statements about ENABLED. `NoStandstill` and `EspNoStandstill`
are the part of `KeepsTrying` that is a statement about states, and are proved.

## 6. What is not modelled

* Samples, bits of a lane, pulse widths, registers of radios and sensors, the
  text of commands: data that no property above distinguishes. Handlers that
  drive pins, buses, radios or sensors run to their end in one task and answer;
  in the models they are one step that answers.
* BLE receive path: the reassembly of SysEx messages from fragments, a sequential
  algorithm on bytes. The receive buffer of `ble_server.c` is dead code: nothing
  calls `ble_set_transmitter_mode`, which would fill it.
* Wi-Fi of the ESP32: mDNS, the times of the back-off, the text of the status;
  two tasks inside `httpd_stop` at once (`stop_server` takes one step); an answer that goes to another client
  than the one that asked, when the connection changes between the two.
* ESP8266: its session gate, which is `TransportSession`'s without stream lanes,
  the framing of its serial line, mDNS and the times of the back-off. Two things
  of its server that are visible in the model without being a property: the
  branch that answers "503 Busy" (`emwaver_esp8266.c:1539`) is never reached,
  because the only task that accepts a client is then serving the other one
  (`ServedClientIsKnown`), although `docs/ESP32_WIFI_TRANSPORT_PLAN.md:19` wants a
  second client told; and a receive has no timeout, so that a client that falls
  silent keeps others out until the TCP connection dies (the second disjunct of
  `ListensAgain`).
* `TransportSession` and `Channel` are not composed: in `Channel` a claim may
  expire at any time, which allows more than `TransportSession` does, and in
  `TransportSession` the answers are immediate.
* A turn of the tick counter without a renewal (497 days), and a receive buffer
  that is freed while it is used (it is static memory; freeing it clears it).
* Memory ordering below the level of single accesses: a variable is read or
  written in one step and seen at once by the other core. What is found on two
  cores is found already under this assumption.
* `esp_ota_begin` fails without having erased anything.
* Uploads over HTTP that ESP-IDF's own return value of the header lookup keeps
  from ever beginning (`GivesLength`, section 3.5): with it FALSE the HTTP part of
  `Ota` is never entered and there is little left to check.
* The AVR firmware (one loop over a serial line), the Linux core and runtime, the
  flashing tools, the applications, the simulator, the web pages and the
  hardware: sequential programs, user interfaces, or the host's side of the
  protocol that `Channel` and `StmFirmware` already have. `PROJECT.json` lists
  each with the reason.

Most of the C code in the repository by far is not the project's own: the
STM32 HAL and CMSIS headers and drivers under `stm/emwaver-firmware/Drivers` make
up nearly all of its lines. They are external to the models, as are ESP-IDF and
TinyUSB.

## 7. Variations to try

The following change one constant of a passing configuration, add one definition
of the module to it, or drop the exception of one property, and end in a
violation. They show what the code
needs of its circumstances, or a defect that the properties of the passing runs
had to step around.

| configuration | change | violates | what happens |
|---|---|---|---|
| `SessionStreams.cfg` | add `PROPERTY ClaimEndsForAReason` | itself | a receive task reads the clock before the time stamp (`transport_session.c:27`); a renewal in between makes the unsigned difference wrap, and a fresh claim is dropped; a claim that is published before its stamp (line 118) suffers the same |
| `SessionStreams.cfg` | add `PROPERTY RefusedOnlyForAnother` | itself | the gate and CONNECT read `s_active_source` twice (`transport_session.c:76`, `115`): a receive task that clears the sender's own claim between the reads has CONNECT answered BUSY although nobody holds the session |
| `SessionCommands.cfg` | add `INVARIANT OperationsComeFromTheOwner` | itself | a raw BLE write enters the queue with a source that was never assigned (`ble_server.c:375`) and runs as the command of another transport |
| `SamplerQueue.cfg` | `Parallel = TRUE` | `UnsentLanesAreKept` | the interrupt increments the lane count without the lock under which the task decrements it (`sampler.c:425`); an update is lost, and an unsent lane is overwritten |
| `SamplerQueue.cfg` | `Hasty = TRUE` | `SamplingIsServed` | a START within the streaming task's polling interval of a STOP meets the old task, which ends (`sampler.c:522`) |
| `SamplerQueue.cfg` | add `INVARIANT HeldBackOnlyWhileStreaming` | itself | a START whose interrupt cannot be allocated leaves answers held back (`sampler.c:512`) |
| `SamplerQueue.cfg` | add `PROPERTY LanesGoToTheStarter` | itself | the destination is set after the stream has started (`init.c:858`): the first lanes of a session that Wi-Fi starts may go to USB, although `esp/README.md:161` says that streams go to the transport that started sampling |
| `RetransmitLife.cfg` | `Hasty = TRUE` | `IsMonitored`, `PlaysBeforeItEnds` | a START within a monitor round of a STOP keeps the old monitor, whose local `timer_started` is still true: the timer is never started and the transmission is timed out |
| `RetransmitLife.cfg` | `Overlap = TRUE` | `EverythingIsUndone` | two callers in `transmit_stop_impl`, or the monitor's start of the timer after a STOP |
| `RetransmitAnyOrder.cfg` | add `INVARIANT TakesLanes` | itself | START of the sampler switches the buffer mode of a running transmission (`sampler.c:503`) |
| `RxQueue.cfg` | add `PROPERTY BytesArePlayedToTheEnd` | itself | the interrupt looks for waiting bytes at every bit (`sampler.c:439`), so the byte that empties the ring is cut off after its first bit |
| `RxQueue.cfg` | `Overlap = TRUE`, add `INVARIANT EmptyWhenOver` | itself | a lane is published after the STOP has flushed the ring |
| `OtaUpdate.cfg` | `Hasty = TRUE` | `BootsWhatWasAnnounced` | an upload that begins after one was selected for boot erases the slot; the board stays on its old image if the power fails, and the selection is lost |
| `ChannelAnswers.cfg` | `Overlap = TRUE`, add `INVARIANT OnlyItsOwnAnswer` | itself | two tasks send the pending answer; the host takes the second copy for the answer to its next command (`usb.c:452`) |
| `ChannelAnswers.cfg` | `Impatient = TRUE`, add `INVARIANT OnlyItsOwnAnswer` | itself | the answer to a command that timed out is taken for the answer to the next one |
| `ChannelAnswers.cfg` | `StartFails = TRUE` | `EveryCommandIsAnswered` | the early return of a failed START leaves answers held back (`sampler.c:512`) |
| `StmHost.cfg` | `Prompt = TRUE` | `EveryCommandIsAnswered` | the loop marks its buffer free before it clears it (`main.c:210`), and a command that arrives in between is cleared away |
| `StmHost.cfg` | `Mixed = TRUE` | `HeldBackHasACarrier` | a transmission that starts while the sampler runs leaves an answer pending that no lane will take along |
| `StmHost.cfg` | `FlashFails = TRUE` | `AnswerSpec` | a name that cannot be written is answered with an error and then with a success (`main.c:1771`) |
| `WifiStation.cfg` | `Backoff = TRUE` | `NoStandstill`, `KeepsTrying` | see below |
| `WifiStation.cfg` | `NoStandstill`, `KeepsTrying` without their `collided` | themselves | credentials that come while the transport resumes: an STA_START from before the update says that the station runs, `start_station` of the command task takes it for running and sets the flag that suppresses a reconnection, while that of the resuming task has yet to start the driver; no disconnection comes to clear the flag, and the first failed attempt to join is swallowed |
| `Esp8266Network.cfg` | `ServedClientIsKnown`, `NoSocketIsLost` without their `~crossed` | themselves | a task forgets the client's descriptor only after the server has given it to the next client, or after it had found none to close (`emwaver_esp8266.c:2034` is unconditional): that client gets no answers, and its socket is never closed |

On `Backoff`: `start_station` (`wifi_transport.c:464`) sets the flag
that suppresses one reconnection before `esp_wifi_disconnect`, also when the
station is idle between two attempts and no event will follow. The flag then
swallows the next disconnection that does happen: after one failed attempt with
the new credentials the board never tries again, although `esp/README.md:167`
says that reprovisioning reconnects with them.

`EspStatusIsTrue` says less than `StatusIsTrue` of the ESP32, because
`clear_wifi_config` resets the status even if erasing the credentials has
failed (`emwaver_esp8266.c:1809`): the station is then connected and reported
offline.

## 8. Running

`tlc -config <name>.cfg <module>` checks a run of section 4 (`tlc -deadlock` is
not needed: deadlock is checked wherever the system cannot stop). `tlapm
<module>Proofs.tla` checks the proofs of a module. `PROJECT.json` lists, for
every definition, the lines of the source it stands for.
