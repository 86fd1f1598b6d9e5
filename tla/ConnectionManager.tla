------------------------- MODULE ConnectionManager -------------------------
(***************************************************************************)
(* The connection manager (coreplugin/connectionmanager.cpp) in the GUI    *)
(* thread, over the telemetry manager: the list of devices, which follows  *)
(* what is plugged in, the device that is open, and the polling the        *)
(* uploader suspends.  A step is one slot, with all the slots it calls.    *)
(*                                                                         *)
(* Its timers for reconnection are left out: nothing connects the slots    *)
(* that start them.  A device that fails to open leaves no trace.          *)
(***************************************************************************)
EXTENDS TelemetryManager, Naturals

CONSTANTS Port,             \* the devices that may be plugged in
          Usb,              \* those of the HID connection, the others are serial
          UsbHandle,        \* the device objects of the HID connection
          NoPort,
          MaxPosted         \* bound: no device is opened behind as many events

ASSUME PortAssumption == /\ Usb \subseteq Port /\ UsbHandle \subseteq Handle
                         /\ NoPort \notin Port /\ MaxPosted \in Nat

VARIABLES plugged,          \* the devices plugged in
          devList,          \* m_devList
          io,               \* m_ioDev and m_connectionDevice
          polling,          \* the connections look for devices
          button            \* the connect button is enabled

connection == <<plugged, devList, io, polling, button>>

NoDevice  == [device |-> NoHandle, port |-> NoPort]
Connected == io # NoDevice
Kinds     == {Usb, Port \ Usb}

HandlesOf(p) == IF p \in Usb THEN UsbHandle ELSE Handle \ UsbHandle

\* A device object that nothing refers to.
Free(h) == /\ h \notin alive /\ h \notin {manager.device, stack.device}
           /\ \A i \in DOMAIN manager.posted : manager.posted[i].device # h

ConnectionInit == /\ ManagerInit
                  /\ plugged \in SUBSET Port /\ devList = {} /\ io = NoDevice
                  /\ polling = TRUE /\ button = FALSE

-----------------------------------------------------------------------------
(* What one slot changes, as functions of the state: a slot may disconnect *)
(* one device and connect another.                                         *)
Current == [manager |-> manager, alive |-> alive, io |-> io]

Becomes(w) == manager' = w.manager /\ alive' = w.alive /\ io' = w.io

\* connectDevice, when the device opens.
ConnectDevice(w, p, h) == [manager |-> Start(w.manager, h), alive |-> w.alive \cup {h},
                           io |-> [device |-> h, port |-> p]]

\* closeDevice: the HID connection deletes its device at once, the serial one
\* has it deleted by the thread it was moved to.
CloseDevice(w) ==
  LET h == w.io.device
  IN  IF h \in UsbHandle THEN [w EXCEPT !.alive = @ \ {h}]
      ELSE [w EXCEPT !.manager = Post(@, Delete(h))]

\* Variant with a plausible mistake: telemetry is told after the device is closed.
DisconnectDeviceLate(w) ==
  IF w.io = NoDevice THEN w
  ELSE LET c == CloseDevice(w)
       IN  [c EXCEPT !.manager = Stop(@), !.io = NoDevice]

DisconnectDevice(w) ==
  IF w.io = NoDevice THEN w
  ELSE [CloseDevice([w EXCEPT !.manager = Stop(@)]) EXCEPT !.io = NoDevice]

\* The ways a device of ps is opened, each with some new device object.
Openings(w, ps) ==
  {ConnectDevice(w, p, CHOOSE h \in HandlesOf(p) : Free(h)) :
     p \in {q \in ps \cap plugged : /\ \E h \in HandlesOf(q) : Free(h)
                                   /\ Len(w.manager.posted) < MaxPosted}}

-----------------------------------------------------------------------------
\* A suspended serial connection lists nothing.
Available(kind) == IF kind = Usb \/ polling THEN plugged \cap kind ELSE {}

\* updateConnectionList: what is gone is forgotten, and disconnected.
\* Variant with a plausible mistake: it is only forgotten.
UpdateConnectionListOnly(kind) == Current

UpdateConnectionList(kind) ==
  IF Connected /\ io.port \in devList \cap kind /\ io.port \notin Available(kind)
  THEN DisconnectDevice(Current) ELSE Current

\* updateConnectionDropdown: with nothing open the first USB device that opens
\* is connected, if the settings say so.
UpdateConnectionDropdown(w, listed, autoConnect) ==
  {w} \cup IF w.io = NoDevice /\ autoConnect /\ polling
           THEN Openings(w, listed \cap Usb) ELSE {}

\* A connection tells of a change; suspended, the HID connection still tells of
\* a device that was plugged in.
Notified(kind) == polling \/ (kind = Usb /\ (plugged \cap Usb) \ devList # {})

DevChanged(kind, autoConnect) ==
  /\ Notified(kind)
  /\ devList' = (devList \ kind) \cup Available(kind)
  /\ \E w \in UpdateConnectionDropdown(UpdateConnectionList(kind), devList', autoConnect) :
       Becomes(w)
  /\ button' = (devList' # {})
  /\ UNCHANGED <<plugged, polling, stack>>

OnConnectClicked ==
  /\ button
  /\ IF Connected THEN Becomes(DisconnectDevice(Current))
     ELSE \E w \in Openings(Current, devList) : Becomes(w)
  /\ UNCHANGED <<plugged, devList, polling, button, stack>>

\* suspendPolling, with the device the caller leaves open, and resumePolling.
SetPolling(on) == polling' = on /\ button' = on /\ UNCHANGED <<plugged, devList, stack>>

SuspendPolling(w) == Becomes(w) /\ SetPolling(FALSE)
ResumePolling     == Becomes(Current) /\ SetPolling(TRUE)

\* Somebody plugs a device in or pulls it out.
Plug(p) == /\ plugged' = IF p \in plugged THEN plugged \ {p} ELSE plugged \cup {p}
           /\ UNCHANGED <<devList, io, polling, button, managerVars>>

-----------------------------------------------------------------------------
ConnectionTypeOK ==
  /\ ManagerTypeOK
  /\ plugged \subseteq Port /\ devList \subseteq Port
  /\ io \in [device : Handle, port : Port] \cup {NoDevice}
  /\ polling \in BOOLEAN /\ button \in BOOLEAN

\* Once the telemetry thread has caught up, the stack runs on the device that
\* is open, and there is none if none is.
StackFollowsDevice == manager.posted = <<>> => stack.device = io.device

\* A serial device outlives the stack that reads it, and is there when a stack
\* is built on it ("take ownership of the device", start).
SerialOutlivesStack ==
  /\ stack.device \notin UsbHandle \cup {NoHandle} => stack.device \in alive
  /\ Next1("start") /\ manager.device \notin UsbHandle => manager.device \in alive

\* The device that is open is one of the list: none that was found gone, with
\* polling suspended or not, stays open and forgotten.
OpenIsListed == Connected => io.port \in devList
=============================================================================
