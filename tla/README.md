# Verification project for the ESP32 NMEA2000 gateway

TLA+ models of the gateway firmware (`lib/` and `src/main.cpp`), TLC
configurations that check them, and proofs of their central facts that TLAPS
checks for every size of the system.

1. [The system](#1-the-system): components, interactions, what is hard
2. [The modules](#2-the-modules): how state and actions correspond to the code
3. [The runs](#3-the-runs): what is checked, bounds, fairness
4. [The proofs](#4-the-proofs)
5. [Findings](#5-findings)
6. [Not modelled](#6-not-modelled)
7. [Plan](#7-plan)

`PROJECT.json` lists components, runs, the lines behind every definition,
hazards and theorems.

## 1. The system

The firmware joins an NMEA2000 bus (CAN), serial lines, USB, TCP and UDP
clients and, on the OBP60 devices, a display. It is C++ on FreeRTOS. What runs
at the same time:

* **Main task** (`loopRun`, `src/main.cpp`). Holds `mainLock` for one iteration:
  log, WiFi, timers, CAN, reading and writing of every channel, dispatch of
  what was read, own RMC, and at most one message of the request queue.
* **Web task** (`async_tcp`). All HTTP handlers. One that needs state of the main
  task sends a request through the queue and waits 500 ms; if the answer is
  late, the response goes on as a chunked one that polls. Forms and firmware
  images arrive as a sequence of body chunks.
* **User tasks** (OBP60, sensors, LED, button, example). They reach the core
  through `GwApi`, whose wrappers take `mainLock`, through the request queue,
  and each other through the task interfaces.
* **Helpers.** A task for each mDNS query of a TCP client; a task that restarts
  the device 800 ms after an update or a new configuration.

### Components

| component | state | operations | interacts with | what is hard | correct means |
|---|---|---|---|---|---|
| ring buffer (`lib/queue/GwBuffer`) | cells, two pointers | add, fill, fetch, read, reset, fetch a line | all channels | wrap-around, full versus empty, partial writes | a FIFO of bytes; sentences are queued whole or not at all |
| request queue (`lib/queue/GwMessage`, `lib/gwwebserver`) | reference count, handled, notifier, consumed, queue | send and wait, send and forget, fetch, process, late answer | web task, user tasks, button, main task | a timeout racing the answer; life time over three tasks and a web response | nobody uses a deleted message; results are read complete; everything is deleted in the end |
| task interfaces (`lib/usercode`, `lib/api`) | map of shared pointers with update counters | set, get, update | user tasks | copying outside of the lock; update in place | only an update of the object being copied may tear a value; no update is lost; changes are noticed where nobody updates |
| TCP server (`GwSocketServer`, `GwSocketConnection`) | slots with descriptor, two buffers, write timeout | accept, read, write, drop, send to clients, read messages | dispatch | slots change owner in the middle of a dispatch; slow clients; partial failures of sockets | no echo, no mixture of clients, no leaked descriptor, slots come back |
| TCP client (`GwTcpClient`) | state machine, address, descriptor | connect, resolve, check, retry | resolve task | asynchronous answers, failures on every path | paced attempts, no leak, reconnects |
| dispatch and channels (`src/main.cpp`, `lib/channel`) | options and filters, last source of the converter | forward, convert, encode (Seasmart, Actisense), own RMC | everything that sends | one message takes several paths through the gateway, and several gateways are connected | no echo, no duplicate, no loop |
| boat data (`lib/boatData`, wind handlers of both converters) | value, source, time stamp | update, updateMax, isValid, interval | converters, display | priorities among sources that fall silent; wrap of `millis()` | preferred sources win; valid means recent; maximum is the maximum |
| firmware update (`lib/gwupdate`) | updateRunning, per request error | chunk, finish | web task, flash | uploads interleave, are abandoned, are taken over after 60 s | one writer; OK means one complete image, selected for the next start |
| configuration (`lib/config`, setConfig in `src/main.cpp`) | items in RAM, preferences in flash, parser state per request | parse chunk, updateValue, reset | web task, restart | values are saved one by one while chunks arrive, and compared with those in use; nobody looks whether they were written | what a form could write is stored as it was sent, also when a lost form is sent again; nothing without the password |
| CAN driver and timers (`lib/nmea2ktwai`, `lib/timer`) | driver state, timeouts, time stamps | send, recover, report | bus, main task | recovery from bus off, wrap of `millis()` | recovery is tried again and again, and in time |
| WiFi (`lib/gwwifi`) | mutex, time stamps | connect, retry, shut down access point | main task, user tasks | mutex timeouts taken for a lost connection; calls of the driver fail one by one | the client comes back to its network |
| UDP (`GwUdpReader`, `GwUdpWriter`) | sockets, station address | follow address changes, read, send | WiFi, dispatch | the network is lost between two calls; a failed bind is not tried again | sockets follow the address, none is lost |
| serial lines, USB (`lib/serial`) | two ring buffers | read, write, flush | dispatch, log | flush blocks the main task | sentences stay whole |
| user tasks (`lib/usercode`, `GwApi`) | lists of tasks, capabilities, handlers | register, start, end, delegate | all tasks | a task ends while its API is in use | no call on a deleted API |
| log (`lib/log`, `GwSerialLog` in `lib/channel`) | lock, buffer, writer, ring of the USB line | log, flush | all tasks | partial flush; the ring is shared with sentences | what was logged leaves once and in order |
| XDR mappings (`lib/xdrmappings`) | mappings by name and by field, unmapped measurements | look-ups in both directions | converters, boat data | modes and order of the mappings; a message of the bus is put together from values of different times | a value keeps its field and its instance |
| converters (`lib/nmea0183ton2k`, `lib/nmea2kto0183`, `lib/nmea2ktoais`, `lib/aisparser`) | minimal intervals, waypoint numbers | one handler per sentence and PGN | dispatch, boat data | fragments, numbering | each quantity keeps its meaning |
| button, LED (`lib/buttontask`, `lib/ledtask`) | press times | poll | request queue, task interfaces | long press, debounce | one reset per press of 12 s |
| sensors (`lib/iictask`, `lib/spitask`, `lib/sensors`) | sensor list | poll, send | API | - | - |
| OBP60 alarms (`lib/obp60task/OBPAlarms`) | state and times of each alarm | check, confirm, snooze | boat data, keys | delay, hysteresis, snooze and suspend overlap; invalid data | never early, never silent without a reason, comes back |
| OBP60 history (`lib/obp60task`: `OBPRingBuffer`, `OBPDataOperations`, `OBPcharts`) | rings of samples, windows of charts | add, read, move the window | boat data, pages | windows of pages that are hidden while the ring goes on | a chart keeps up with the newest value |
| OBP60 display (the rest of `lib/obp60task`) | pages, keys | draw, switch pages | API | - | - |
| web interface, build scripts (`web`, `tools`, `*.py`) | - | - | HTTP | - | - |

## 2. The modules

Each component has a module with its state, one action per operation and its
properties, and values for TLC in an `MC...` module. Theorems are in `..._proofs`, of a
module or of a composition, and facts about numbers in `NumberFacts`.
Operators named `<definition>_<Fault>` are faulty forms of the definition that
follows them; no specification uses them. They document what each property
notices.

| module | models | abstracted |
|---|---|---|
| `ByteFifo` | what a buffer promises: a bounded queue of bytes | |
| `GwBuffer` | the ring, pointer by pointer, with partial handlers and the line fetch of `GwMessageFetcher` | bytes are members of a set with one delimiter |
| `GwRequestQueue` | `GwMessage`, `GwRequestQueue`, the delayed response of `GwWebServer`, the end of `loopRun` | time: a wait may end at any moment; the result is a number of bytes |
| `GwTaskInterfaces` | get, set, update with the lock and the copy that follows it | one class; its fields are copied one by one, versions tell values apart |
| `GwSocketServer` | slots, both buffers, accept, write timeout, disconnects and socket errors, and the nested loop call during a dispatch | buffers hold whole sentences (bytes are `GwBuffer`'s business) |
| `GwTcpClient` | the state machine, the resolve task, descriptors of the stack | time is one flag, "more than CON_TIMEOUT has passed" |
| `GwRouting` | the dispatch of lines, Seasmart, Actisense and NMEA2000 messages to all channels with their options and filters, user tasks, own RMC, and gateways joined by TCP | a converter gives nothing or one message of the other protocol with the same data |
| `GwBoatData` | update, updateMax and isValid as the handlers of MWV and of PGN 130306 use them | three items (angle, speed, maximum); the clock counts modulo `Period` |
| `GwMaintenance` | setConfig, the preferences, firmware uploads, resets and the restart | a form is read pair by pair, since a chunk may end anywhere; what is left of a name or a value that is too long is a constant (`EndOf`); the hash of the password is the password, and `useAdminPass` is on; the Update library and the boot loader are external |
| `GwNetwork` | the WiFi loop with its mutex, and the UDP sockets that follow the address of the station | time in ticks; the driver is external and may lose the network between `isConnected` and `localIP` (which is read in one step with `broadcastIP`); whether and when the access point is switched off is left open; packets are channels of `GwRouting` |
| `GwCanBus` | the CAN driver's start and recovery, run by `GwTimer` on a clock that starts again | the TWAI driver is external; received frames go to the NMEA2000 library |
| `GwLog` | the log buffer, the buffer before a writer is set, and flushing from two tasks into the ring of the USB line to which the main loop adds sentences | the log in units: how many fit into buffers and ring matters, not what they say. A line is logged in one step, under the lock of the log. Adding to the ring is two steps (copy, move the pointer), only the reading side is locked |
| `OBPAlarms` | checkAlarms, the alarm page and its keys | times are ages in refreshes; a value is the zone it is in (in range, within the hysteresis, beyond, invalid); the start of the clock again and the buzzer are left out |
| `OBPHistory` | the ring, its filling, and the window of a chart | a value is the number of its sample. All of it runs in the display task, the lock of the buffer is never waited for |
| `GwXDRMappings` | look-ups of mappings in both directions, the boat items of their names, unmapped measurements, convertXDR and the PGN handlers that send XDR | one category and one source; whether a minimal interval has passed is left open |
| `GwConnections` | `GwTcpClient` and `GwNetwork` together, for what is said about the descriptors of both | |
| `MCMainLoop`, `MCServices`, `MCValues` | compositions of modules that share no state (section 3) | |

### Correspondence with the code

* **Steps.** An action is what runs without another actor in between. A dispatch
  is one step in `GwRouting` since `mainLock` is held; in `GwSocketServer` it is
  split at the nested loop call, as clients (the network) act in between; in
  `GwRequestQueue` every reference count change, queue operation and
  notification is a step of its own, as three tasks run there; in
  `GwTaskInterfaces` each copied field is a step since the lock is released; in
  `GwNetwork` every call of the driver is one, since the driver is a task of its
  own. `OBPAlarms`, `OBPHistory`, `GwXDRMappings` and `GwBoatData` run in one task: a
  step is a whole pass, sentence or message.
* **Failures.** Full queues, refused sends, failing `recv`, `send`, `getsockopt`,
  `socket`, `bind` and multicast joins, missing memory for a task, mutex timeouts,
  calls of the WiFi and CAN drivers, writes to the flash, lost connections,
  power failures and unanswered queries are disjuncts of the actions whose code
  has the branch. The network, the drivers and the remote devices are actions of
  the environment, marked external in the map.
* **Undefined content.** The cells of a ring are not initialised by `new[]`:
  `GwBuffer` starts with any content. The results of writes to the preferences are
  ignored, so every write may fail in `GwMaintenance`: the partition may be full,
  or erased below the library (`ResetConfigRequest`).
* **History variables** (`origin`, `sent` of `GwRouting`, `recent`, `expected`, `known`,
  `setAt`, `expired`, `ok`, `accepted`, `logged`, `seen`, `history` of `OBPAlarms`, `disturbed` of
  `GwTaskInterfaces`, `waited` and `missed` of `GwCanBus`, `fresh` and `failed` of a form) are never read by an action that models code.
* **Configuration** that is fixed at boot is a variable set in `Init` from a set of
  choices (`config`, `built`, `maxClients`, `remoteAddress`, `lateFailure`, `writerType`,
  `readerType`, `setup`, `table`, `usb`), so one run covers all of them.

`GwRouting` and `GwSocketServer` overlap on purpose: the first shows that the
*rules* of the dispatch do not echo, the second that the *slots* that carry the
source ids stay with their clients while the rules are applied. `GwBuffer` is
the ring below both, and below `GwLog`. `GwBoatData` is what `GwRouting` leaves open
when a converter refuses a value, and what `OBPAlarms` and `OBPHistory` see as
valid or invalid. `GwMaintenance` is what the web requests of `GwRequestQueue` that
carry a body do.

## 3. The runs

Three runs check modules that share no state side by side: a variable `part`,
chosen initially, names the one that acts, and the others stand still in one
fixed initial state. So their state spaces add up and do not multiply, and every
property is checked in its own part. Fairness conditions are those of the
modules, restricted to their part.

| run | question | instance and why it is enough |
|---|---|---|
| `main_loop`, gateways | No echo, no duplicate, no loop, every message dies out (`NoEcho`, `OncePerForm`, `NeverReturns`, `DiesOut`) | a lone gateway with all options of USB and the TCP server and a filtered serial line; or a chain of three gateways on TCP connections. One message in flight per direction: messages do not influence each other but for the last source |
| `main_loop`, requests | References are exact (`RefcountExact`), nothing is used after it was deleted (`NoUseAfterFree`) or read unfinished (`ResultComplete`), everything is deleted (`NoLeak`) and a late answer delivered (`LateAnswerSent`) | web, user and button task, two messages, a queue of one: a message queued while another is processed, a full queue, reuse of addresses; results of two bytes for split responses |
| `main_loop`, ring | The ring is a FIFO (`FifoSpec`), writes are not torn (`WritesQueued`) | four cells: each pair of offsets, empty, full, and wrapped runs of two pieces; chunks up to four bytes exceed the free space; a message buffer that is too small |
| `sockets` | No echo, isolation of slots, no leaked descriptor, slots are freed (`NoEcho`, `SlotIsolation`, `NoLeakedSocket`, `SlotFreed`) | two clients on two slots with buffers of one sentence, or on one slot with buffers of two: reuse of a slot in a dispatch, refusal, partial writes |
| `values`, boat data | Priority, maximum (`Priority`, `MaxIsPeak`) | three sources of two protocols, two speeds, five milliseconds with a timeout of two: values time out and come back; the clock does not wrap |
| `values`, alarms | Never early, silent only for a reason, keys are respected, an alarm comes back (`NotEarly`, `NotSilent`, `KeysAreRespected`, `ComesBack`) | a limit alarm and a time alarm in both orders (the keys act on the first active one), the delay longer and shorter than snooze and suspend; every sequence of zones |
| `values`, history | A chart keeps up with the newest value (`ChartKeepsUp`) | a ring of seven, twelve samples: overwritten almost twice; two axes, two intervals, any number of samples between two displays: a window set before the ring was full and drawn after that lags behind |
| `values`, xdr | No value changes its instance (`InstancesKept`) | four tables with every mode and two fields, two instances, sentences of two transducers, both directions in any order |
| `services`, settings and firmware | Of what a form answered OK could write, is all stored, also when a lost form is sent again; who writes an upload; what an upload answered OK selects (`OkIsStored`, `UploadsApart`, `OkIsSelected`) | two clients, the password and one item, four forms (an item as in use and an empty secret; both items changed; a value that is too long; a name that is), any write may fail, images of two chunks, resets and power failures at any time. A behaviour has forms or uploads: they meet in the restart only, and `Reboot` may come at any time |
| `services`, tasks | Does anything but an update of the very object tear what is read (`TornOnlyByUpdate`)? Is an update lost (`NoLostUpdate`)? Is a change noticed where nobody updates (`ChangesNoticed`)? | three firmwares: two setters and a reader; two updaters and a setter; a setter, an updater and a reader. Two fields are needed for a mixture, a third object for a set during a copy |
| `services`, network | The WiFi client comes back, UDP sockets follow its address, no descriptor is lost or used after its close (`ClientComesBack`, `SocketsFollow`, `DescriptorsOwned`) | two addresses, a descriptor for every socket, one failure or mutex timeout at any call, four pairs of UDP types that reach every branch of both classes |
| `services`, can | An interface off the bus runs again (`BusRecovers`), and is looked at in time (`CheckedInTime`) | a clock of eight ticks, an interval of three, passes up to two ticks apart: clock and sum start again one before the other, and the clock while the action is due; two failures: one in a recovery and one in the start that repeats it |
| `services`, client | Leaks, awaited answers, pacing, reconnection (`DescriptorsOwned`, `AnswerIsAwaited`, `Paced`, `ReconnectsUnlessLate`) | two descriptors: one lost leaves one, two lost leave none; all three forms of address |
| `services`, log | The log keeps its order and is sent once (`LogInOrder`) | a ring with three usable units for a log of up to five: one flush needs two rounds, and stops in the middle; main and web task flush |
| `sockets_blocked` | Does the write timeout close a client that takes nothing (`BlockedClientClosed`)? | violated, as all that follow: section 5 |
| `routing_rmc` | Does the own RMC reach every channel (`OwnRmcToAll`)? | |
| `tcp_client_late` | Does the TCP client always reconnect (`Reconnects`)? | connections may also fail between `getsockopt` and `recv` |
| `boat_data_wrap` | Is a valid value recent (`ValidIsRecent`)? | the clock starts again |
| `alarms_cleared` | Is an alarm silent only if somebody has confirmed it (`SilentOnlyIfConfirmed`)? | as in `values` |
| `log_shared` | Is what the USB line has accepted what is in its ring (`LineInOrder`)? | sentences and forms |
| `xdr_single` | Is the name of a single mapping sent for its instance only (`OnlyThisInstance`)? | one field, two instances |
| `xdr_current` | Does a message that a transducer causes carry its value (`CurrentSent`)? | a single and an automatic mapping of one field |

The type invariants of `GwTaskInterfaces`, `GwMaintenance`, `GwNetwork`, `GwCanBus`,
`GwTcpClient` and `GwLog` are the parts of `ServicesTypeOK`, those of `GwBoatData`,
`OBPAlarms`, `OBPHistory` and `GwXDRMappings` the parts of `ValuesTypeOK`. All of them,
and those of `GwBuffer`, `GwRequestQueue`, `GwRouting` and `GwSocketServer`, are proved
(section 4).

All bounds are CONSTANTS: the message, chunk, form, file, socket and connection
sets, `MaxInbox` (unread sentences in the network), `Capacity` (messages in flight),
`MaxVersion` (versions are used again), `MaxUpdates` (sets since the last update), `MaxTime`,
`MaxFaults` and `MaxFailures` (calls that fail), `MaxSamples`, `MaxHeard`, `LogSize`, `IniSize`
and `TxSize` (buffers). `MaxUnknown` is the limit of 200 in `addUnknown`, small enough
to be met.

Some properties leave out what the code does; section 5 names these cases again.

`OkIsStored` speaks of the pairs that fit and whose write did not fail, in a form
that found its items as they are in use or as it sets them, and was not disturbed
by another one or by a reset. The code answers OK in the other cases too.
`TornOnlyByUpdate` leaves out values that an update of the same object tears: the
copy is made outside of the lock, and three firmwares show that nothing else does
it. `ChangesNoticed` is about firmwares in which nobody updates: `update` restarts
the counter. `CheckedInTime` leaves out that the clock starts again after the
action has become due and before the loop comes to it (`missed`): the action then
waits until the clock has come round. `BusRecovers` holds then too. `LogInOrder`
compares what was logged with what was accepted; that this is what is in the ring
is `LineInOrder`, see below. `SocketsFollow` allows what the code
gives up: a bind or a join that failed is not tried again as long as the address
stays. `BusRecovers` leaves out a failed `twai_driver_install`: after it no state is
reported from which the code recovers. `UploadsApart` allows what the 60 s allow.
`ChartKeepsUp` leaves out pages that were hidden for exactly a ring of values.
`InstancesKept` is checked for tables in which single mappings are given for every
instance of a field, or an automatic one after them (`EveryInstanceMapped`), and no
name is used twice (`NamesApart`): `xdr_single` shows what happens otherwise. `services`
has lines that either take sentences or are flushed by forms: on these `LineInOrder`,
which `log_shared` refutes, is a theorem.

### Fairness

* `GwRequestQueue`: the main task goes on (`WF`), a task inside a call goes on,
  and an open response is polled again and again, whatever requests come in
  between (`SF`: one `async_tcp` task serves its events in order). No request has
  to come, and none has to be processed in time.
* `GwSocketServer`: `WF` of the main loop, `SF` of reading each channel once per
  iteration. Clients need not do anything.
* `GwRouting`: `WF` of reading each inbox, as `loopRun` reads every channel.
* `GwTcpClient`: the main loop, the clock and the query (which has a timeout) go
  on. `SF` for the environment only where reconnection is asked: a reachable
  device does not refuse *every* attempt.
* `GwNetwork`: `WF` of the main loop and of the clock; `SF` of `Join`: the network is in
  range again and again while the client tries to join. Failures end
  (`MaxFaults`).
* `GwCanBus`: `WF` of the loop's timers and of the clock; `SF` of a pass while the
  action is due: passes are not in step with the clock, so that one of them
  falls into the time in which the action is due if this time comes again and
  again. A pass takes at most two ticks.
* `OBPAlarms`: `WF` of the refresh of the display task. Nobody has to press a key.

`GwBuffer`, `GwTaskInterfaces`, `GwBoatData`, `GwMaintenance`, `GwLog`, `OBPHistory` and
`GwXDRMappings` state safety only.

## 4. The proofs

TLAPS proves the following for all values of the constants that satisfy the
named assumption of the module (`GwBufferAssumption`, ...). Hypotheses beyond it
are named in the table. Every safety property of the runs that find no error is
stated by a theorem.

| about | theorem | argument |
|---|---|---|
| `GwBuffer` (`GwBuffer_proofs`) | `TypeCorrect`, `SpaceCorrect` | pointers stay in the block; `Wrap` of a pointer and a run is a pointer |
| | `RingIsFifo`: `BufferSpec => FifoSpec` | refinement of `ByteFifo` under `Content`: storing a run behind the writer appends (`ContentGrows`), moving the reader drops (`ContentShrinks`); `addData` and the fetch loop are two runs. Induction is not needed since `Content` is a function of offsets |
| | `WholeWrites`: `BufferSpec => WritesQueued` | both passes of `addData` and the one or two runs of a fill store exactly their bytes behind the content, wherever it crosses the end of the block (`ContentAppends`) |
| | `MessageFits` | if the message buffer is as large as the ring (as in `GwChannel`), no terminated message is dropped as too long |
| `GwRequestQueue` (`GwRequestQueue_proofs`) | `TypeCorrect`, `RefcountCorrect`, `MemorySafe`, `ResultsAreComplete` | `RefcountExact` alone is not inductive: it needs how many references each phase of a task still owes (`Phases`), that a message is queued once and not both queued and fetched (`QueueOnce`), that the allocated messages are those with references (`AliveIsReferenced`), and that a notification follows the result (`Finished`) |
| `GwSocketServer` (`GwSocketServer_proofs`) | `TypeCorrect`, `EchoFree`, `Isolated`, `NoLeak` | who owns a descriptor (`Owned`), who is in a slot while a message is dispatched (`Held`: the source id names the client or nobody), that free slots have empty buffers (`CleanSlots`), and that the message in dispatch is apart from what is still queued (`MessageApart`) |
| `GwRouting` (`GwRouting_proofs`) | `TypeCorrect`, `NoEchoes` | every step sends by operators that skip their source; the port of a source id is its own channel |
| | `EachFormOnce` | each part of a dispatch sends each form at most once to a port (`Count` of `Places`, added up over concatenations), and a converted message is not encoded or converted back (`isConverted`), so that no two parts send the same form |
| | `NoLoop`: `NeverReturns` in every tree | assumes `B \in Behinds`: what is behind the ends of connections, i.e. that they form a tree. Invariant: a message that arrives at an end comes from behind it (`FromBehind`) |
| `GwTcpClient` (`GwConnections_proofs`) | `TypeCorrect`, `NoLeak`, `Awaited` | states that may call `setClient` have no descriptor (`IdleWithoutClient`), unless a connection has failed late |
| | `AttemptsPaced`: `TcpSpec => Paced` | an attempt starts the interval anew, and who is on the way to the next one, also by way of a name that is resolved, has waited for its end (`Waited`) |
| `GwNetwork` (`GwConnections_proofs`) | `UdpSocketsOwned`, `AllDescriptorsOwned` | `SocketsOwned` needs that a socket of the writer that does not exist has no descriptor and that the reader and the writer have none before they begin (`Owners`); then closing frees just the own descriptor (`CloseFrees`) and opening takes one of nobody (`BoundTakes`). With `NoLeak` this is `DescriptorsOwned` |
| | `NetworkTyped` | a descriptor that is taken is the lowest free one, which exists since the sockets own what is taken (`Owners`) |
| `GwMaintenance` (`MCServices_proofs`) | `MaintenanceTyped`, `StoredAsSent` | `OkIsStored`: of an undisturbed form the pairs that were read are stored, but for those that failed, and every other item is still as it is in use or stored already (`FormsHalfStored`): only then is comparing with the value in use as good as comparing with the stored one |
| | `Apart`, `OkSelected` | an upload that was not refused counts as running and is the only one until 60 s have passed (`OneOwner`); while an image is open none is answered OK (`ImageOpen`) |
| `GwTaskInterfaces` (`MCServices_proofs`) | `TasksTyped`, `NothingLost` | whoever is in the middle of an update holds the lock, and the fields it has changed so far show the next version (`UpdatersInv`): the history of completed changes is the stored version |
| | `Whole`, `Noticed` | `Whole`, `TornOnlyByUpdate` in every firmware: what a reader copies is the same in every field until an update works on this object, since a set works on an object that no reader has (its shared pointer keeps it alive) and outside of the lock what is stored is whole (`CopiesInv`). `Noticed`: where nobody updates, equal counters are equal versions (`ReadersInv`) |
| `GwLog` (`MCServices_proofs`) | `LogKeepsOrder` | `LogInOrder` needs who holds the lock in which phase, and that what a task adds is the next part of the log or a whole sentence (`LogRoles`), and that the ring never has more to fetch than was accepted, even where both tasks have spoiled it (`RingCounts`, modulo its size). `OnlyLog` is a recursive function: that it distributes over concatenation is `OnlyLogConcat` |
| | `LineKept`: `LineInOrder` without shared lines | assumes that no setup both sends sentences and has forms: then only one task adds (`OneUse`), the accepted units are in the cells behind the reader and what is being added behind them (`LineHolds`). `log_shared` shows the other case |
| `GwCanBus` (`MCServices_proofs`) | `CanTyped` | |
| | `LookedAtInTime`: `CheckedInTime` | as long as nothing was missed, the clock is as far from the time stamp as the timer has waited, and has not started again while the action was due (`WaitInv`): so a pass that finds it not due has waited for less than the interval |
| all services | `ServicesTyped` | `ServicesApart`: the composition implements the specification of each part, so that their theorems hold in it |
| `GwBoatData` (`MCValues_proofs`) | `BoatDataTyped`, `ValidInTime`, `PriorityKept`, `MaximumCovers` | assume `BelowWrap`: no sum of a time and a timeout reaches the end of the clock. Then a stamp is the time of its change (`Good`), so `isValid` is a test of age; `Peak` relates speed and maximum |
| `OBPAlarms` (`MCValues_proofs`) | `AlarmsTyped`, `SilenceExplained`, `KeysRespected`, `NeverEarly` | an alarm is pending only while a mark is set and its silence is over, not longer than its value has been beyond the limit, and its silence is over just if none is recorded (`PendingIsMarked`, `Consistent`, for each alarm by itself) |
| `OBPHistory` (`MCValues_proofs`) | `HistoryTyped`, `ChartsKeepUp` | the ring has the last samples at their places modulo its capacity (`Holds`); a window is behind by no more than one value, or by what came while it grew (`Lags`) |
| `GwXDRMappings` (`MCValues_proofs`) | `XdrTyped` | of the measurements that are asked for, no more are added than the list has room for (`UnknownGrows`) |
| | `InstancesStay` | assumes `EveryInstanceMapped` and `NamesApart`. Every boat item has a value of the instance its name is for (`Own`): a look-up by field gives a name for the instance asked for (`SelectedName`), one by name means what the other devices mean (`SentName`) |
| | `SingleNamesApart`: `OnlyThisInstance` | of the last, for tables that ignore no instance of a field with a single mapping. `xdr_single` shows what happens without `EveryInstanceMapped` |
| these four | `ValuesTyped` | `ValuesApart`, as with the services |

`MCValuesAssumption` states `BelowWrap`, `EveryInstanceMapped` and `NamesApart` of the
instance in `MCValues`, and TLC evaluates it: the hypotheses are met by the same
tables that are checked. `NumberFacts` has what several proofs share: remainders
(`RemainderOfSum`, `RemaindersDiffer`, `RemainderSmall`), the largest element of a set
of numbers, and `SetInduction`, an induction over the elements of a set, which
needs no operator as a parameter and so can be used with what recursive
functions compute (`OnlyLog`).

Only model-checked:

* liveness: `NoLeak` of requests, `LateAnswerSent`, `SlotFreed`, `DiesOut`,
  `ReconnectsUnlessLate`, `ClientComesBack`, `SocketsFollow`, `BusRecovers`, `ComesBack`. Their
  proofs would need ENABLED and fairness, which the prover does not treat.

## 5. Findings

Each is the counterexample of a run.

1. `sockets_blocked`: on `EAGAIN` the write callback returns before it looks at the
   timeout (`GwSocketConnection.cpp:151`): a client that takes nothing keeps its
   slot.
2. `routing_rmc`: the own RMC carries the source of the message converted last
   (`N2kDataToNMEA0183.cpp:51`) and is withheld from this channel.
3. `tcp_client_late`: a connection that fails between `getsockopt` and `recv` is not
   closed (`GwTcpClient.cpp:175`) and its descriptor is overwritten.
4. `boat_data_wrap`: after 49.7 days values that had timed out become valid again
   (`GwBoatData.cpp:29`).
5. `alarms_cleared`: an alarm whose value comes back into range by itself is
   suspended as if it had been confirmed (`OBPAlarms.cpp:494`), by default for 60
   minutes.
6. `log_shared`: the web task flushes the log into the ring of the USB line while the
   main loop adds sentences to it (`GwChannelList.cpp:128`); the lock of the line
   only protects `write`.
7. `xdr_single`: the case of single mappings falls through into the one of automatic
   mappings (`GwXDRMappings.cpp:394`): a single mapping is used for every instance
   that has no mapping.
8. `xdr_current`: the value that was received is overwritten by the stored one of the
   preferred mapping for the same field (`NMEA0183DataToN2K.cpp:170`).

Seen while reading, without a run:

* Task interfaces: `get` copies the object after the lock was released
  (`GwApi.h:293`) while `update` changes it in place (`GwApi.h:299`), so a value may be
  read as a mixture of two, though the interface "ensures that there is a correct
  locking of the data" (`GwApi.h:47`). The third firmware of `services` does this, and
  `TornOnlyByUpdate` says that nothing else does. `ConfiguredSensors` has an updater
  and readers, but its sensors are added during setup. The result of `get` is 1
  after every `update` (`GwUserCode.cpp:125`), so that comparing it shows no change of
  what is updated. A refused change of an existing object is stored all the same
  (`GwApi.h:304`).
* A user task that ends deletes its API (`GwUserCode.cpp:364`), which other tasks
  may be using.
* `GwTimer.h:37` assigns instead of comparing, so that all actions count from 0.
* `GwUdpWriter.cpp:133` computes the source mode for multicast but passes `S_SRC`.
* `GwMessage.cxx:52` waits `maxWait` instead of the rest.
* Configuration: three ways to answer OK without having stored what was sent. The
  result of `putString` is ignored (`GWConfig.cpp:105`), also when the preferences are
  full, and so is that of `updateValue` (`main.cpp:714`). A name of 32 bytes or a value
  of 511 starts its buffer again (`main.cpp:642`, `665`), so that only its end is
  taken, as a name that may be another item's and as the value. And a form that is
  sent after another one was cut off, with the values in use, stores nothing: what
  the first one has stored becomes active with the restart.
* Timers: if `millis()` starts again after an action has become due and before the
  loop comes to it, the action waits for 49.7 days (`GwTimer.h:18`).
* The log may cut sentences on the USB line, and be cut by them, since a flush
  writes in pieces.
* Button: a reset request that finds the queue full is lost; it is repeated after
  another 12 s of pressing.
* OBP60: a key is handled by the page of the moment, not by the one shown when it
  was pressed (`obp60task.cpp:685`). A chart's window lags: once the ring is full,
  `getBufferStartNSize` (`OBPcharts.cpp:251`) moves the start of the window back by all
  new values, also by those that came before the ring was full, so that up to
  as many of the newest are not drawn until the window is set anew. With axes of
  399 or about 230 values and a ring of 1920, this is minutes. The proof of
  `ChartsKeepUp` found it: the bound first stated, the distance at which a
  window is set anew, was not inductive, and TLC then gave a behaviour for a ring
  of eight and axes of two and five. A page hidden for exactly a ring (32 minutes)
  sees no new value; a history of 16 bit numbers has 0 as its lowest value, so that a rate
  of turn loses its sign; middle and median of a ring include invalid entries.
* XDR: the direction of a mapping is parsed but no look-up reads it. The look-ups of
  other fields in `convertXDR` put measurements that never arrived into the list of
  unmapped ones. With `unknownXdr`, an unmapped transducer with the name of a mapped
  one, but another type, gets into the same boat item.

## 6. Not modelled

External code (FreeRTOS, lwIP, the NMEA libraries, Update, Preferences, the WiFi
and CAN drivers) appears only as the environment of a module. Conversions of
units and field formats are arithmetic on single messages and are better tested
with samples: they are most of the lines of both converters. Display pages,
fonts, sensor drivers, the web interface and build scripts are drawing, data,
hardware or run elsewhere. Of modelled components there are left out:

* `GwNetwork`: `setup`, mDNS and what the UDP sockets send and receive;
* `GwMaintenance`: `setValue`, which only runs before the tasks start, MD5, and the
  case without `useAdminPass`;
* `GwBoatData`: the satellite list, text formats, items other than wind;
* `GwXDRMappings`: text forms of the table and of entries, other sources of the same
  PGNs, Seasmart as a source (the bus is preferred to all, so its values are always
  taken), the example entry of the web interface;
* `OBPHistory`: calibration, smoothing and true wind, scales and drawing;
* `OBPAlarms`: the buzzer, comparison of numbers, the start of `millis()` again.

## 7. Plan

Modelled, in order of importance: `GwBuffer`, `GwRequestQueue`, `GwTaskInterfaces`,
`GwSocketServer`, `GwRouting`, `GwTcpClient`, `GwBoatData`, `GwMaintenance`, `OBPAlarms`,
`GwNetwork`, `GwCanBus`, `GwLog`, `OBPHistory`, `GwXDRMappings`, with the abstract
specification `ByteFifo`.

To model next:

1. the life cycle of user tasks and their API (`GwUserCode`, `GwApi`), with the web
   task as its other user;
2. the button task: debounce, reports, one factory reset per press;
3. waypoint numbers and routes of the NMEA0183 converter, AIS fragments;
4. the satellite list of the boat data and further handlers;
5. keypad and choice of pages of the OBP60.

To state and prove next:

* an abstract broadcast server (a client gets sentences of others in order,
  whole) that `GwSocketServer` implements;
* an abstract register (get returns a value that was set) that
  `GwTaskInterfaces` without update implements;
* `CurrentSent` for tables with one mapping for each field and instance.
