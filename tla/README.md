# The ground control station, in TLA+

This directory is a verification development for the LibrePilot ground control
station (`src/ground/gcs`): TLA+ modules of its telemetry and of the clients
that depend on it most, the TLC configurations that check them on small instances,
and TLAPS proofs of their safety for every value of the constants. Paths below are relative to
`src/ground/gcs/src/plugins`.

## 1. Inventory

The repository snapshot holds the ground side only (the flight code is not part
of it), so the flight side is the environment of every module.

### The core: from an object to the wire

| component | state | operations | interacts with |
|---|---|---|---|
| **UAVObject, UAVObjectManager** (`uavobjects/`) | the instances of each object, their data, metadata and `isKnown` flag | register, pack/unpack, `updated()`, `requestUpdate()`, `emitTransactionCompleted()` | signals to Telemetry and to every gadget; unpacked by UAVTalk |
| **UAVTalk** (`uavtalk/uavtalk.cpp`) | the device, the receive state machine, `transMap`: which response is awaited under which object and instance | send an object or a request, receive OBJ, OBJ_REQ, OBJ_ACK, ACK and NACK, cancel, close all | called by Telemetry, signals `transactionCompleted` |
| **Telemetry** (`uavtalk/telemetry.cpp`) | its own `transMap` with retries and a timer per transaction, two event queues, update timers | object events, transaction timer, completion, update-mode wiring | drives UAVTalk; tells the objects |
| **TelemetryMonitor** (`uavtalk/telemetrymonitor.cpp`) | `GCSTelemetryStats.Status`, connection timer, queue of objects to retrieve, pending object | periodic statistics, FlightTelemetryStats, FirmwareIAPObj, completions | asks Telemetry for objects; announces connected()/disconnected() |
| **TelemetryManager** (`uavtalk/telemetrymanager.cpp`) | `m_connectionState`, device, owner of the three above | start, stop (GUI thread), onStart, onStop, onConnect, onDisconnect (telemetry thread) | ConnectionManager and all gadgets |

### Around the core

* **ObjectPersistence save queue** (`uavobjectutil/uavobjectutilmanager.cpp`):
  queue, `saveState`, failure timer. A save is acknowledged, then completed or
  failed by a later object update.
* **UAVObject helpers, SmartSaveButton** (`uavobjectutil/uavobjecthelper.cpp`,
  `uavobjectwidgetutils/smartsavebutton.cpp`): wait for a completion in a
  nested event loop, three tries each.
* **SSP and its thread** (`uploader/SSP/`): stop-and-wait serial protocol with
  sequence numbers, acknowledges and retries; a thread hands packets over.
* **DFU** (`uploader/op_dfu.cpp`) and the **uploader widget**: request and
  response with the boot loader; halt, reset, boot and rescue, each a slot that
  waits in event loops of its own while every other slot runs.
* **ConnectionManager** (`coreplugin/connectionmanager.cpp`): device list, the
  open device, polling. It tells TelemetryManager to start and stop, and the
  uploader makes it disconnect and stop polling.
* **Path plan upload** (`opmap/modeluavoproxy.cpp`): the rows of the editor, the
  instances of Waypoint and PathAction made of them, one transaction each.
* **Flight log download, log replay**: clients of the core.
* Device I/O, settings import/export, plugin loader, generators, gadgets, the
  Java port and vendored libraries: not part of the program's protocol logic.
  `PROJECT.json` lists each with the reason it is left out.

### What is hard here

* **Two tables for one fact.** UAVTalk and Telemetry each keep a transaction
  map, each look up with a wildcard, and each close on their own.
* **Silence.** A request made while one is in progress is dropped without a
  word, a message that cannot be sent is not timed, a stop notifies nobody.
  Whoever waits depends on somebody else's transaction.
* **Re-entrancy.** A completion calls the object, which calls its listeners,
  which make the next request, all inside one dispatch.
* **Objects outlive connections.** A value received from one device is still
  there for the next handshake.
* **Time.** Retries race late answers; the connection time-out samples a timer
  that reception restarts.
* **Two threads, queued calls.** start and stop change members at once and are
  carried out later; a completion reaches the uploader when the state it was for
  may be gone; a device is closed while another thread reads it.
* **Half-done work.** A plan is some dozens of transactions, each of which may
  fail, and neither side has a way to take it back.

What makes each correct: *UAVTalk/Telemetry* - the tables agree, every open
transaction is answered, retried or given up, exactly one conclusion is
announced, exclusive transactions exclude each other. *Monitor* - a connection
rests on an acknowledge of its own, a lost link is noticed, the retrieval is
never orphaned and is not announced before it is complete. *Save queue* - the
result reported for an object is the one of its own save. *SSP* - each packet is
delivered at most once and acknowledged ones exactly once. *Plans* - what is
reported sent is what the table says, what is read back was one plan.
*Connection and uploader* - the telemetry thread ends up on the device that is
open, the state it shows is true, nothing polls while a board is in its boot
loader unless another operation of the user has intervened.

## 2. Modules

| module | what it is |
|---|---|
| `UAVTalk` | the transaction map of UAVTalk and the operators on it |
| `Telemetry` | the transaction layer: EXTENDS `UAVTalk`, one action per dispatch |
| `RequestBroker` | what that layer promises for single-instance objects (abstract) |
| `TelemetryProofs`, `BrokerProofs` | theorems about `Telemetry` |
| `MCTelemetry` | instances of `Telemetry` for TLC |
| `TelemetryMonitor` | handshake, retrieval, announcement |
| `MonitorProofs` | theorems about `TelemetryMonitor` |
| `MCTelemetryMonitor` | an instance of it for TLC |
| `ObjectSave` | the save queue, two threads, the link, the flight side |
| `SaveProofs` | theorems about `ObjectSave` |
| `MCObjectSave` | instances of it for TLC |
| `Ssp` | the serial protocol: a port before and after each of its operations |
| `SspThread` | two ports, a lossy line, the SSP thread, the uploader that hands packets over: EXTENDS `Ssp` |
| `Delivery` | what one direction of that link promises (abstract) |
| `SspProofs` | theorems about the hand-over of `SspThread` |
| `DeliveryProofs` | `SspThread` implements `Delivery`; its types: EXTENDS `SspProofs` |
| `MCSspThread` | an instance of `SspThread` for TLC |
| `PathPlan`, `PathPlanProofs`, `MCPathPlan` | plans sent and read back, theorems, instances |
| `TelemetryManager` | start and stop between the two threads |
| `ConnectionManager` | devices, opening, closing, polling: EXTENDS `TelemetryManager` |
| `Uploader` | halt, boot and rescue: EXTENDS `ConnectionManager` |
| `UploaderProofs`, `MCUploader` | theorems about the three, instances for TLC |

### UAVTalk and Telemetry

Both classes live in the telemetry thread, so a step is one dispatch of its
event loop, with every slot called in it.

| variable | code |
|---|---|
| `ioOpen` | the `QPointer` to the device is not null |
| `numInst` | instances registered per object |
| `talk` | `UAVTalk::transMap`: `"OBJ"`, `"ACK"` or none under each object and instance, 65535 being all instances |
| `trans` | `Telemetry::transMap`: `objRequest`, `retriesRemaining`, whether the timer runs |
| `connected` | `GCSTelemetryStats.Status` is CONNECTED |
| `known` | the `isKnown` flags |
| `waiting`, `refused` | history: who was not told yet; whether the device refused a message |

| action | code |
|---|---|
| `Request` = `Accept`, `Drop`, `Reject` | an object signals an update or a request: `processObjectUpdates`, `processObjectQueue`, `processObjectTransaction`, `sendObject` |
| `Timeout` = `Retry`, `GiveUp` | `transactionTimeout` |
| `Receive` = `ReceiveObj`, `ReceiveObjAck`, `ReceiveAck`, `ReceiveNack` | `receiveObject`, `updateAck`, `updateNack`, then `transactionCompleted` |
| `ChangeStatus` | the monitor moves the status |
| `DeviceDeleted` | ConnectionManager deletes the device under the stack |
| `Restart`, `ForgetObjects` | `onStop` followed by `onStart`; Telemetry forgets all objects when deleted and when made |

Abstractions. The event queues are empty between dispatches: every enqueue is
followed by a call that dequeues one element, so a step hands its event straight
to the processing. Packets carry type, object and instance; any packet about a
known object may arrive at any time, which covers loss, delay, duplication and
reordering. A retransmission is refused or not by choice as long as the device
is there, and always when it is gone. OBJ_REQ packets change neither table.
Unacknowledged updates open and close their transaction within one call and so
leave no trace. Timers have no durations: one that runs may fire.

### TelemetryMonitor

| variable | code |
|---|---|
| `gcsStatus`, `flightStatus` | the two `Status` fields, as the ground station holds them |
| `boardKnown` | `FirmwareIAPObj.BoardType` is not 0 |
| `rxObjects`, `connectionTimer` | objects received since the last `resetStats`; the `QTime`, in units of 2 s, `Never` if not started |
| `queue`, `objPending` | the retrieval |
| `iapListening` | `firmwareIAPUpdated` is connected |
| `announced` | what TelemetryManager was last told: connected() or disconnected() |
| `inProgress` | objects with an open transaction |
| `refused`, `seen`, `answered` | history |

`StatsTimer` and `ReceiveFlightStats` are the two callers of
`processStatsUpdates`; `Conclude`, `RequestAccepted` and `RequestRejected` are
what the transaction layer does to an object, with the slot
`transactionCompleted` that runs inside it and makes the next request;
`UpdateIap` is an update of FirmwareIAPObj by either side; `Receive` is any
other packet.

The transaction layer is taken at the level that `BrokerProofs` proves
of `Telemetry`: a transaction is opened by a request when none is in progress,
a request meanwhile joins it, one conclusion is announced, a request without a
connection is turned away. Time is counted in `STATS_CONNECT_PERIOD_MS` (2 s),
the update period being two and the time-out four of them; a read of the timer
at the limit, or between two ticks around it, may go either way. The queue is a
set: the order of the object manager is one of those a set allows. Disconnecting
a retrieved object from the monitor (`obj->disconnect(this)`) removes all
connections of that object, so concluding FirmwareIAPObj also removes
`firmwareIAPUpdated`: this is modelled.

### ObjectSave

The queue of `UAVObjectUtilManager` lives in the GUI thread and listens to
ObjectPersistence, whose transaction lives in the telemetry thread. Signals
between them are queued, so a slot is an entry of `guiEvents` that runs later,
with the data ObjectPersistence has by then and even if the signal was
disconnected meanwhile; an update of the object is counted in `requests` until
Telemetry takes it up.

| variable | code |
|---|---|
| `queue`, `saveState`, `failureTimer` | the members of the same name |
| `connected` | which signals of ObjectPersistence are connected to the manager |
| `objper` | its data: the operation and the object (ID and instance) |
| `guiEvents`, `requests` | what is posted to the GUI and to the telemetry thread |
| `running` | TelemetryManager has a telemetry stack |
| `trans`, `retries` | the transaction on ObjectPersistence, with or without a timer |
| `toFlight`, `toGcs`, `flightSaved` | the link and the flight side |
| `confirmed`, `turn`, `lost` | history |

`Save` is `saveObjectToSD`; `RunSlot` runs `TransactionSucceeded`,
`TransactionFailed` or `PersistenceUpdated`; `FailureTimeout` is the failure
timer. All of them end with `SaveNext` as in the code. `TakeUpdate`, `Timeout`
and `Receive` are the parts of Telemetry and UAVTalk that concern one
single-instance acknowledged object, in which a transmission may be refused and
a retry sends the data as they are by then. `OtherUpdate` is any other user of
ObjectPersistence: the object browser, which loads, saves and erases, the
configuration pages, which load, and the export of a template. The flight side is external: it acknowledges or refuses an
object and then sends the result, as the comments of `saveNextObject` describe.
Taking an object off an empty `QQueue` is undefined; in the model the slot then
waits. The nested processing of the
manager's own slot when `updated()` is called in the same thread changes
nothing: it finds `AWAITING_ACK`.

### Ssp and SspThread

`Ssp` gives the port of `qssp.cpp` as a record and each operation as a function
of it. `SspThread` runs it at both ends; the boot loader's end is external (its
code is not in the repository) and assumed to run the same protocol.

| variable | code |
|---|---|
| `port` | `SendState`, `txSeqNo`, `rxSeqNo`, `retryCount` and `txBuf` of each end |
| `line` | the bytes of whole packets on their way to an end |
| `thread` | where `DFUObject::DFUObject` (synchronisation) or `qsspt::run` is, `receivestatus` and `sendstatus` |
| `datapending`, `caller` | the hand-over of `sendData`; whether its caller is before or in the wait |
| `sent`, `got`, `confirmed`, `calls`, `refused`, `early` | history |

| action | code |
|---|---|
| `Start`, `SynchroniseRound` | `ssp_Synchronise`, tried by the constructor of `DFUObject` |
| `ThreadRound`, `ThreadHandOver` | one turn of `run`: receive, send process; then `ssp_SendData` of a pending packet and `wakeAll` |
| `CallSendData`, `Wait`, `WaitTimeout` | `sendData` |
| `BoardRound`, `BoardSend`, `Lose` | the boot loader and the line |

Abstractions. A packet is its number and its load; escapes, length and CRC only
lose packets. A flag of the port that stands for an acknowledge (bit 7 of
`txSeqNo`) is read nowhere else. The count of transmissions saturates at the
limit it is compared with. Time is a choice: an attempt is over or not; the wait
of 10 s ends no earlier than the last of `max_retry` attempts of 1 s begins.
Two assumptions are made about the line, without which stop-and-wait with a
bounded number cannot work. `Young`: it holds no packet, and no acknowledge, back
for a whole cycle of numbers; what gets that old is lost, with all that is ahead
of it. `Timely`: nor does an end wait for an acknowledge of its own while the
other sends a whole cycle. The second is needed because an acknowledge is built in the
buffer of the packet that awaits one (see below): a retry after such a wait would
repeat an acknowledge whose number is in use again. With 127 numbers and a limit
of some ten seconds for each packet both are mild.

### PathPlan

| variable | code |
|---|---|
| `rows` | `flightDataModel` |
| `gcs`, `board` | the instances of Waypoint and PathAction and the PathPlan on each side |
| `op` | `sendPathPlan` or `receivePathPlan` and the object it waits for |
| `result` | what the last of them reported |
| `sends`, `written` | the bound; history: every plan summed up |

`SendPathPlan` is `modelToObjects` and the start of the loop, `SendObject` and
`ReceiveObject` are one `doObjectAndWait` each with what follows it, up to
`objectsToModel` after the last. `Edit` is any change of the table: the modal
progress dialog keeps the user from it during an operation. A transaction that
fails may have arrived. `BoardRestart` and `GcsRestart` may happen at any time.
The coordinates of a waypoint are one value: the conversion between polar and
Cartesian coordinates (which loses the bearing of a waypoint at distance zero) is
not modelled. The check sum `Crc` is a constant operator, any function of the
waypoints and actions with values of eight bits: nothing is assumed of how well it
tells plans apart. The instances for TLC use a parity, which overlooks that two
rows were exchanged and which action a waypoint names, so that torn plans are
accepted in them. Where a waypoint of such a plan names an action that is not
there, `objectsToModel` leaves the row what it has (`Q_ASSERT` aside, which ends a
debug build); the row of a plan that has grown is any.

### TelemetryManager, ConnectionManager and Uploader

`TelemetryManager` gives `start` and `stop`, which run in the GUI thread, as
functions of the manager, and its slots in the telemetry thread as actions on
what was posted. `ConnectionManager` adds the slots of the GUI thread, each one
step with all it calls; `Uploader` adds the slots of the uploader and its waits.

| variable | code |
|---|---|
| `manager` | `m_connectionState`, `m_telemetryDevice`, what is posted to the telemetry thread |
| `stack` | the device of UAVTalk, whether the monitor announced its connection |
| `alive` | the `QIODevice` objects that exist |
| `plugged`, `devList`, `io`, `polling`, `button` | the machine; `m_devList`; `m_ioDev` with `m_connectionDevice`; the polling; the connect button |
| `step`, `dfu`, `resetOnly` | `m_currentIAPStep`, `m_dfu`, `m_resetOnly` |
| `frames` | the event loops the slots of the uploader wait in, innermost last |
| `listening`, `transaction`, `completions` | how often `goToBootloader` is connected to FirmwareIAPObj, the transaction on it, the completions posted |
| `enabled` | the buttons halt, reset, boot (three of them) and rescue |
| `lost`, `found` | disconnected() and connected() of the telemetry manager, posted to the widget |

| action | code |
|---|---|
| `OnStart`, `OnStop`, `OnDelete`, `OnConnect`, `OnDisconnect` | the telemetry thread |
| `DevChanged`, `OnConnectClicked`, `Plug` | `devChanged` with the list and the drop-down, the button, the machine |
| `SystemHalt`, `SystemReset` | the slots of the two buttons, which call `goToBootloader` (`SendFirst`, `Oops`, `NothingToDo`) |
| `TransactionCompleted` | `goToBootloader` called for the end of a transaction, up to its first wait |
| `SendNext`, `StopPolling`, `Search`, `Searched`, `FindDevices`, `Halted` | `goToBootloader` between two of its waits |
| `Boot`, `Booted`, `Rescue`, `Rescued` | `commonSystemBoot`, `systemRescue` before and after the work on the board |
| `AutopilotDisconnected`, `Populate` | `onAutopilotDisconnect`, `onAutopilotConnect` with `populate` |
| `RequestIap`, `Conclude` | the other users of FirmwareIAPObj; the end of a transaction on it |

The serial connection has its device deleted by the telemetry thread
(`deleteLater`), the HID connection deletes it at once. A device object is one of
a few handles, used again when nothing refers to it. Whether a board is armed, a
device opens, or the settings connect automatically is a choice. A button can be
clicked when it is enabled, in a wait of another operation too: the loss of
telemetry enables boot and rescue while a halt waits for its board, and reset is
never disabled by a halt. A wait is an entry of `frames`; what the slot does when
it is over is a step of its own, possible for the entry at the end only. The
notices of the telemetry manager and the completions of transactions come from
different queues of the GUI thread and are taken in any order. Where the code
would use a DFU object that was deleted in its wait the model has no step for
that operation any more. Not modelled: the guided update, the device pages with
their transfers, and the reconnection timers of the connection manager, whose
slots nothing is connected to.

## 3. Runs

| run | question | instance and why it is enough |
|---|---|---|
| `multi` | do the two tables stay in step? | one object, three instances, one retry: instance zero, two others and the wildcard are all the kinds of key there are, and one retry gives a first and a last attempt. Transactions of different objects share nothing. |
| `single` | does the layer implement `RequestBroker`? with fair timers, is every waiter told? | a metaobject and an object admitted before the connection: the two kinds of single-instance object the code distinguishes |
| `unsent` | (violation) does an unsent message time out, as the comment says? | one object |
| `monitor` | is a retrieval ever orphaned or announced early? does it end? is silence noticed? | two objects retrieved, FirmwareIAPObj and one admitted without a connection, and one more that only others ask for; fair timers |
| `stale_ack` | (violation) is an acknowledge the answer to this handshake? | two objects, neither admitted without a connection |
| `save` | does the save queue keep in step with the transaction and the results? | two objects of different ID, so that a late result can be for the wrong one; one retry, two packets and two posted slots, so that an acknowledge and a result are under way together |
| `save_live` | does the queue move? | one object, and another user who saves it too; one posted slot |
| `ssp` | does the link keep the promise of `Delivery` in both directions? is every call handed over once, and does it return? | numbers 1 and 2, so that they roll over within the three packets of the station; two transmissions of each, one packet of the boot loader, one packet under way in each direction, a bootloader that starts from any equal numbers |
| `plan` | is a plan reported sent on the board? what is read back as a plan? | up to two rows, two positions, two actions, two plans sent one over the other: one plan may be shorter than the one before, which leaves instances behind its counts. The check sum is a parity, so that plans share it |
| `plan_rest` | (violation) does the board fly the plan of the table? | two values of a parameter `findPathAction` does not compare |
| `uploader` | do the two threads and the uploader agree on what is open, running and polling? | what disturbs a DFU operation? | one USB and one serial device with a device object each, one of them known at a time, two events posted to the telemetry thread, one connection to FirmwareIAPObj, one completion and one notice; two DFU waits inside each other |
| `board_reset` | (violation) was the board reset when telemetry is given up for it? | both devices, one wait at a time: nothing nested is needed |

The bounds are: `MaxInst` and `MaxRetries` of `Telemetry` (set in the
configurations, the code has 1000 and 2); `Elapsed` of `TelemetryMonitor` (a
timer beyond the limit stays one past it); `MaxQueue`, `MaxLink` and `MaxEvents`
of `ObjectSave` (a full link loses packets, a full event queue makes the sender
wait); `MaxSeq` (127 in the code), `MaxRetry` and `MaxSync` (10), `MaxCalls`,
`MaxReplies` and `MaxLine` (a full line loses packets) of `SspThread`; `MaxRows`,
`MaxSends` and `ActionWidth` (256 in the code, never fewer than a plan of
`MaxRows` needs) of `PathPlan`; `MaxPosted` (no device is opened behind as many
events), `MaxFrames`, `MaxCompletions`, `MaxListening` and `MaxNotices` of the
uploader (what would go beyond waits). In `uploader` a constraint (`Bounds`) leaves
out what two devices known at a time would add, which opening, closing and
polling do one after the other anyway, and follows a wait inside another
one only where both are for a DFU object and the telemetry thread is idle. That is
where the waits of two operations meet: a halt has disconnected telemetry before
its first DFU wait. A view leaves out whose the transaction on FirmwareIAPObj is,
which only `BoardIsReset` reads. The theorems about the uploader have none of
these bounds: any devices, any number of waits, connections, completions and
notices.

Deadlock is checked except in `ssp`, `plan` and `plan_rest`: those systems may
stop, when the calls or plans the bound allows are done or the link was never
synchronised.

### What the violations show

* **`unsent`** - `processObjectTransaction` does not start the timer when the
  message was not sent; the comment there says it "will timeout". The
  transaction stays open, its requester is not told and all later requests for
  the object are dropped.
* **`stale_ack`** - the handshake is completed by a HANDSHAKEACK that an earlier
  device sent: `FlightTelemetryStats` keeps the last value received.
* **`plan_rest`** - `findPathAction` compares three of four parameters: rows that
  differ in the fourth share one action, and the board flies something else than
  the table says, although the plan was reported sent.
* **`board_reset`** - the callback of `goToBootloader` hears the end of every
  transaction on FirmwareIAPObj. If somebody else's request is in progress the
  command is dropped and the end of that request is taken for its acknowledge;
  telemetry is then disconnected for a board that was never asked to reset.

### Known deviations without a run

Met while modelling; each is what the code does, and the models do it too where
they cover it.

* A connection on a new device completed by a stale HANDSHAKEACK is not timed out
  if that device never sends anything: the `QTime` behind the time-out is started
  by reception only (telemetrymonitor.cpp:215-219). `SilenceNoticed` is therefore
  stated for a link that was heard.
* `disconnect(firmwareIAPObj)` (telemetrymonitor.cpp:182) is the wrong way round:
  connected() is emitted again on later updates of FirmwareIAPObj, even with no
  connection.
* The result of a save is compared by object ID only (uavobjectutilmanager.cpp:220),
  not by instance; `SuccessIsReal` is checked on objects of different ID.
* `Q_ASSERT(saveState == AWAITING_ACK)` (uavobjectutilmanager.cpp:152) fails when
  another user of ObjectPersistence saves meanwhile.
* The comment of `objectPersistenceTransactionCompleted` says a failed
  transaction resends the request; the code takes the object off the queue.
* SSP: an acknowledge overwrites the packet in `txBuf` that awaits its own, so a
  retry sends the acknowledge again (the model does; `SendReturns` and `Delivery`
  hold all the same); a packet found BUSY by
  `ssp_SendData` is lost without a word, which happens behind a call that
  returned too early (`RefusedOnlyIfEarly`); a synchronisation that succeeds at
  the last try counts as failed; it does not reset `retryCount`; `mbuf` keeps a
  pointer to the caller's buffer after the wait timed out.
* `Delivery` has a hole (`Mistakable`): if all packets of a whole cycle of numbers,
  or of several, are given up, the next is taken for a copy of the last that
  arrived and is reported acknowledged.
* `connectionState` shows DISCONNECTED instead of CONNECTING while the stack of a
  stop followed by a start is being built; `StateIsTrue` says what is true of it.
* USB devices are deleted in the GUI thread while onStart may still be about to
  build a stack on the pointer; `SerialOutlivesStack` holds of serial devices only.
* A device unplugged and plugged in again between two polls stays open on a dead
  handle.
* `connectDevice` ignores its parameter and opens the device the drop-down shows.
* While a board is in its boot loader `devChanged` enables the connect button
  again, and between `disconnectDevice` and `suspendPolling` of a halt (200 ms) a
  USB device may be connected automatically: a connection can then be opened
  during DFU. `OnlyInnerEndsDisturb` is about the polling only.
* "otherwise it will mess up DFU" (uploadergadgetwidget.cpp:399) does not keep
  polling off: `onAutopilotDisconnect` enables boot and rescue while
  `goToBootloader` is in its `sleep`s or searches, and a boot or a rescue that ends
  there resumes the polling (:645, :936) under the halt, which goes on.
* A reset clicked, or a boot that ends, in the `sleep(500)` after `enterDFU` deletes
  `m_dfu`, and the halt then calls `findDevices` on a null pointer (:449).
* `goToBootloader` connects itself to FirmwareIAPObj again whenever it starts anew
  (:337) and disconnects only when it is done: a completion is then heard twice.
* `bootButtonsSetEnable` reads `devices[0]` of a DFU object that has not looked for
  its devices yet (:251), when telemetry is lost during the `sleep(500)`.
* A rescue that is cancelled or timed out and a boot that fails leave the polling
  suspended; too many boards leave the step at BOOTLOADER; a reset that fails
  leaves `m_resetOnly` set for the next halt.
* A plan whose parts are of several plans is accepted when read back if their check
  sums of eight bits agree (modeluavoproxy.cpp:506).
* The result of a load or an erasure of an object by another user of
  ObjectPersistence is taken for that of a save of it.

`save_live` holds up to `lost`: if the telemetry is stopped, is not there or the
device refuses the message while an acknowledge is awaited, nothing ends the
save, all later ones wait behind it until the program ends.

### Fairness

`FairSpec` of `Telemetry` is weak fairness of each transaction timer: a running
`QTimer` fires once and the event loop dispatches it. Nothing is assumed of the
flight side or the device. `FairSpec` of `TelemetryMonitor` is weak fairness of
the statistics timer (a repeating `QTimer`) and, as long as the device takes
every message, of the conclusion of each transaction, which is what `WaiterTold`
establishes of the layer below. That of `ObjectSave` is weak fairness of both
event loops and of both timers; of the link and the flight side nothing.
`FairSpec` of `SspThread` is weak fairness of the SSP thread and of the uploader
in its wait, and strong fairness of an expired attempt and of reading what has
arrived (the choice of a round among them stands for the clock, which does run
out, and for bytes that do come in); of the boot loader and the line nothing. The
other modules state no fairness and no liveness. That a device that was pulled
out is at last released was tried and left out: the state space with fairness is
beyond a run.

## 4. Proofs

Every safety property that a passing run checks is a theorem, and so are both
refinements. TLAPS checks them for every set of objects, number of instances and
retries, set of objects to retrieve, numbering, line and link, set of field
values and number of rows, set of ports and device objects and number of posted
events, from the assumptions named in the modules: multi-instance objects and
metaobjects are objects and disjoint, `MaxInst` fits the wire, `NoTrans` and
`NoObj` are no transaction and no object, something is retrieved, a field of a
plan has at least one value, an object to save has an ID, USB ports and their
device objects are ports and device objects, the bounds are numbers.
Where a theorem has a hypothesis of its own the table below names it.

*Tables.* None of `TalkOwned`, `TimerBacked`, `TablesAgree` is inductive alone.
`TalkOwned` says that what UAVTalk awaits is open in Telemetry; to preserve it
when a transaction is given up, the cancellation in UAVTalk - which looks up by
object and instance, not by key - must hit the key that Telemetry closes. On a
time-out of the all-instances transaction the lookup starts from instance zero,
so it hits the right key only if no transaction on instance zero is open: this
is `ZeroExcludesAll`, and it holds since each of the two requests finds the
other. The inductive invariant `TablesInv` of `TelemetryProofs` is their
conjunction with the type invariant.

*Broker.* `TelemetryImplementsBroker` maps initial states to initial states
and each step to a broker step or a stutter; it needs that a single-instance
object never has an all-instances transaction.

*Monitor.* `MonitorInv` adds `NothingSkipped` to the type invariant and
`RetrievalDriven`: while connected every object to be retrieved is queued,
pending or concluded. An announcement comes from an empty queue and the end of
the pending transaction, so it follows.

*Save queue.* `SaveInv` relates the slots that are posted, the transaction and
`saveState`: at most one of a posted update of ObjectPersistence, its
transaction and the slot of its end is outstanding, and only while an
acknowledge is awaited. So the slot finds the state it asserts, and leaves it.
This needs `OtherOps = {}`: any other user makes the slot run in
a state it was not posted for (the deviation of the `Q_ASSERT` above), and
`save_live` is the run with such a user. `SuccessIsReal` needs less: `RealInv`
follows the word "Completed" from the flight side over the link into
ObjectPersistence, whose data a retry may send back; it is always of an object
that was saved. It needs `OtherOps \subseteq {"Save"}`: the result of a load or of
an erasure (`eraseObject` of the object browser) is "Completed" too, with the
object it was asked for, and the manager takes it for that of its own save of an
object with this ID.

*SSP hand-over.* `HandedOverOnce` is inductive (`Balance` in `SspProofs`): the
two places that change a count change its partner in the same step.
`RefusedOnlyIfEarly` is not: it needs `QuietUnlessEarly`, that as long as no call
returned early a pending packet finds the port idle, since there is one caller at
a time and he only leaves the wait after his packet was acknowledged or given up.

*Delivery.* The invariant `SspInv` of `DeliveryProofs` has one half (`Dir`) for
each direction. It gives every packet on the line and in a buffer its index and
its number: the number of packet `i` is `i` counted from the base of its end,
modulo the cycle, where the base is zero for the station, whose synchronisation
announces it, and whatever its last session left for the boot loader. Data and
acknowledges on a line are in the order they were sent (`InOrder`), what is ahead is
beyond what has arrived or a copy of it (`Above`), an acknowledge answers a
packet that arrived or one that cannot be told from the last that did
(`Answers`), and everything is less than a cycle old (`Recent`, from `Young` and
`Timely`). Two indices less than a cycle apart with the same number are the same
packet: so an acknowledge that matches is the one awaited, and a number other
than the last is a new packet. `Opened` says that no data is sent before the
synchronisation was acknowledged, when `rxSeqNo` of the other end may still be
anything. The proof attempt corrected the model in three places: `Mistakable`
spoke of a single cycle, `Young` kept a packet behind one that was too old, and
`Timely` was missing.

*Plans.* `ReceivedPlanIsVouched` needs `SumsWritten`, that the counts and the
check sum of the PathPlan on either side, whole or half overwritten, are those of
a plan that `modelToObjects` summed up: they travel in one object and are never
assembled. It says as much as the check sum can and no more: the waypoints and
actions around it may be of other plans if `Crc` does not tell.
`ReceivedPlanIsTheBoards` does not rest on the check sum: an operation that has
ended well has copied every instance the plan counts (`Copied`), so the rows are
those of the board; with `SentPlanArrives` a plan that is sent and read back is the
one that was sent. `NoResultYet` says a result is cleared before the objects
change under it. The other properties need what `modelToObjects` computes. It is
a fold over the rows; that an invariant of its steps holds of the result is
proved by taking the least row at which it fails. `PlanInv` says which
instances an operation has transferred already (`Transfer`), that every plan
summed up fits into the editor (`Fits`), and `SentInv` that
resolving the waypoints of the station gives the table. `SentPlanArrives` has the
hypothesis `Exact`: a row has a number in `Waypoint.Action`, and rows do not
differ in what `findPathAction` leaves out. Without the second it is false
(`plan_rest`); without the first the index wraps.

*Connection and uploader.* The GUI thread and the telemetry thread agree on
nothing at a given moment, so `LinkInv` of `UploaderProofs` states what the posted
events will do: starts and stops alternate (`Chain`), the first fits the stack
there is, and the last is a start exactly if a device is open. With an empty queue
`StackFollowsDevice` and `StateIsTrue` are left over. A
serial device is deleted by an event posted behind the stop of the stack that
reads it, hence `SerialOutlivesStack`. `OnlyInnerEndsDisturb` needs the types
alone: every step that resumes the polling ends a DFU wait or deletes the DFU
object, which are the two things the property allows, and every step that enters
such a wait or makes such an object finds the polling off or suspends it, or is
disturbed already (`DisturbStep`, action by action).

| module | theorem | states |
|---|---|---|
| `TelemetryProofs` | `TypeCorrect`, `EveryExpectationIsOwned`, `TimedTransactionsAreAnswerable`, `ZeroAndAllExclusive`, `TablesAgreeUnlessRefused` | the invariants of run `multi` |
| `BrokerProofs` | `TelemetryImplementsBroker`, `SingleWaiterRemembered` | `ImplementsBroker`, `SingleRemembered` (run `single`) |
| `MonitorProofs` | `MonitorTypeCorrect`, `UnfinishedRetrievalIsDriven`, `AnnouncementFollowsRetrieval` | the safety properties of run `monitor` |
| `SaveProofs` | `SaveTypes` | `TypeOK` of `ObjectSave`, for any other users |
| | `TracksQueue`, `SlotsExpected` | `SaveTracksQueue`, `SlotExpected` (run `save`), if `OtherOps = {}` |
| | `SuccessReal` | `SuccessIsReal`, if `OtherOps \subseteq {"Save"}` |
| `SspProofs` | `EachCallHandedOverOnce`, `RefusedBehindEarlyReturn` | `HandedOverOnce`, `RefusedOnlyIfEarly` (run `ssp`) |
| `DeliveryProofs` | `DeliveryImplemented`, `SspTypes` | `ImplementsDelivery` and `TypeOK` (run `ssp`) |
| `PathPlanProofs` | `PlansAreVouched`, `PlansReadAreTheBoards`, `PlanTypes`, `RefusalsAreDue` | `ReceivedPlanIsVouched`, `ReceivedPlanIsTheBoards`, `TypeOK`, `RefusedOnlyIfTorn` (run `plan`) |
| | `SentPlansArrive` | `SentPlanArrives`, if `Exact` |
| `UploaderProofs` | `StartsStopsAlternate`, `StateTrue`, `StackFollows`, `SerialOutlives`, `OpenListed`, `UploaderTypes` | the properties of run `uploader`, for any nesting of the waits |
| | `InnerEndsAlone` | `OnlyInnerEndsDisturb` (run `uploader`) |

Only model-checked: the liveness properties (`WaiterTold`, `RetrievalEnds`,
`SilenceNoticed`, `QueueMoves`, `SendReturns`), since fairness rests on ENABLED,
which is beyond the prover; and the violations, which are counterexamples. The
induction theorems of the library take an operator as a parameter, which no
installed prover instantiates; what is proved by induction here is proved by a
least counterexample.

## 5. Plan

Done: the core (`UAVTalk`, `Telemetry`, `RequestBroker`, `TelemetryMonitor`),
`ObjectSave`, the serial link (`Ssp`, `SspThread`, `Delivery`), `PathPlan`,
`TelemetryManager` with `ConnectionManager` and `Uploader`, and the safety of
them all as theorems. Next, in order:

1. The guided update (`autoUpdate`), which reboots the board through the same
   slots, and the device pages of the uploader.
2. `TelemetryQueue` (re-entrancy and the queue limits), `TelemetryUpdate`
   (update modes and signal wiring), `TelemetryLink` (flight store, late ACKs).
3. `TalkReceive`, the byte-level receiver over bounded streams; the transfer of
   a firmware image with its packet counts; `FlightLog`; `SmartSave`.

## 6. Not modelled

* **The rest of the telemetry core**: the update modes, the event queues (empty
  between dispatches in `Telemetry`), the byte-level receiver. Planned above.
* **DFU transfer, guided update, flight log download, SmartSaveButton**: planned.
* **Waiters and stops**: the helper that waits for a completion in an event loop
  is one step of `PathPlan`, so what a stop does to it is not seen.
* **Device I/O, USB monitors, IP connection, log files, settings files**: I/O
  with no protocol state of their own.
* **Gadgets, configuration pages, setup wizard, map, plots**: most of the code of
  the station by far. It edits and shows objects; what it relies on is that
  requests are answered and saves confirmed, which the core is checked for.
* **Plugin loader, object generator**: start-up and build-time code.
* **Java port, MATLAB and vendored libraries (Eigen, Qwt, ...)**: not part of the
  program, or a separate one.
