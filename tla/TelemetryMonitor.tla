-------------------------- MODULE TelemetryMonitor --------------------------
(***************************************************************************)
(* The connection monitor of the ground control station: the handshake     *)
(* with the autopilot, the retrieval of its objects once connected and the *)
(* announcement of the connection (plugins/uavtalk/telemetrymonitor.cpp,   *)
(* with the two slots of telemetrymanager.cpp that listen to it).          *)
(*                                                                         *)
(* A step is one dispatch of the telemetry thread and includes the slots   *)
(* it calls.  The transaction layer is taken at the level of module        *)
(* RequestBroker: an object is in progress from a request until one        *)
(* conclusion is announced, and a request for it meanwhile is dropped.     *)
(* The flight side is the environment: any packet may arrive at any time.  *)
(***************************************************************************)
EXTENDS Naturals

CONSTANTS
  Obj,        \* UAVObjects, instance zero
  Retrieved,  \* metaobjects, settings, and data objects updated on change
  Handshake,  \* those transacted even without a connection
  Iap,        \* FirmwareIAPObj
  NoObj       \* the null pointer

ASSUME RetrievedAssumption == Retrieved \subseteq Obj /\ Retrieved # {}

ASSUME ObjectsAssumption ==
  Handshake \subseteq Obj /\ Iap \in Obj /\ NoObj \notin Obj

(* Time is counted in STATS_CONNECT_PERIOD_MS; STATS_UPDATE_PERIOD_MS is   *)
(* two of them and CONNECTION_TIMEOUT_MS four.                             *)
UpdatePeriod == 2
ConnectionTimeout == 4
Never == ConnectionTimeout + 2    \* the value of a timer never started
Elapsed == 0 .. (ConnectionTimeout + 1)   \* longer times are as good as its end

Status == {"DISCONNECTED", "HANDSHAKEREQ", "HANDSHAKEACK", "CONNECTED"}

VARIABLES
  gcsStatus,         \* GCSTelemetryStats.Status
  flightStatus,      \* FlightTelemetryStats.Status as last received
  boardKnown,        \* FirmwareIAPObj.BoardType as last received is not 0
  rxObjects,         \* objects were received since the last resetStats
  connectionTimer,   \* time since it was started, or Never
  queue,             \* objects still to be retrieved
  objPending,        \* the object being retrieved, or NoObj
  iapListening,      \* objectUpdated of FirmwareIAPObj reaches the monitor
  announced,         \* TelemetryManager was last told connected()
  inProgress,        \* objects with an open transaction
  refused,           \* history: the device has refused a message
  seen,              \* history: objects concluded since the connection
  answered           \* history: HANDSHAKEACK came since a connection was lost

link == <<gcsStatus, flightStatus, boardKnown, rxObjects, connectionTimer, answered>>
retrieval == <<queue, objPending, iapListening, announced, inProgress, refused>>
vars == <<link, retrieval, seen>>

TypeOK ==
  /\ gcsStatus \in Status \ {"HANDSHAKEACK"}
  /\ flightStatus \in Status
  /\ {boardKnown, rxObjects, iapListening, announced, refused, answered} \subseteq BOOLEAN
  /\ connectionTimer \in Elapsed \cup {Never}
  /\ queue \subseteq Retrieved
  /\ objPending \in (Retrieved \ queue) \cup {NoObj}
  /\ inProgress \subseteq Obj
  /\ seen \subseteq Obj

Init ==
  /\ gcsStatus = "DISCONNECTED"
  /\ flightStatus = "DISCONNECTED"
  /\ boardKnown = FALSE
  /\ rxObjects = FALSE
  /\ connectionTimer = Never
  /\ queue = {}
  /\ objPending = NoObj
  /\ iapListening = FALSE
  /\ announced = FALSE
  /\ inProgress = {}
  /\ refused = FALSE
  /\ seen = {}
  /\ answered = FALSE

-----------------------------------------------------------------------------
(* Variant with a plausible mistake: the object stays in the queue.        *)
RetrieveNextPeek(remaining, open, board, listening, told) ==
  \E obj \in remaining \cup {Iap} :
    /\ queue' = remaining
    /\ objPending' = obj
    /\ inProgress' = open \cup {obj}
    /\ announced' = told
    /\ iapListening' = listening
    /\ UNCHANGED refused

(* retrieveNextObject, with the transactions then open, the board then     *)
(* known, and the listeners and the announcement the caller leaves.  It    *)
(* takes the objects in the order of the object manager; any order will do *)
(* here.  The request is dropped if a transaction is in progress; if not   *)
(* it opens one, although the device may refuse the message.               *)
RetrieveNext(remaining, open, board, listening, told) ==
  \/ /\ remaining = {}
     /\ queue' = {}
     /\ objPending' = NoObj
     /\ announced' = (told \/ board)
     /\ iapListening' = (listening \/ ~board)
     /\ inProgress' = open
     /\ refused' = refused
  \/ \E obj \in remaining, sent \in BOOLEAN :
       /\ queue' = remaining \ {obj}
       /\ objPending' = obj
       /\ inProgress' = open \cup {obj}
       /\ refused' = (refused \/ (obj \notin open /\ ~sent))
       /\ announced' = told
       /\ iapListening' = listening

(* Variant with a plausible mistake: all objects are taken.                *)
StartUnfiltered ==
  RetrieveNext(Obj, inProgress, boardKnown, iapListening, announced)

(* startRetrievingObjects *)
StartRetrieving ==
  RetrieveNext(Retrieved, inProgress, boardKnown, iapListening, announced)

(* Variants with a plausible mistake: the slot does not compare the sender *)
(* with the pending object; a broken-off retrieval leaves its queue.       *)
CompletedBlindly(obj, open, board, told) ==
  IF gcsStatus = "CONNECTED" /\ objPending # NoObj
  THEN RetrieveNext(queue, open, board, iapListening /\ obj # Iap, told)
  ELSE /\ announced' = told
       /\ inProgress' = open
       /\ UNCHANGED <<queue, objPending, iapListening, refused>>

CompletedForgetful(obj, open, board, told) ==
  /\ announced' = told
  /\ inProgress' = open
  /\ UNCHANGED <<iapListening, refused>>
  /\ IF obj = objPending
     THEN objPending' = NoObj /\ UNCHANGED queue
     ELSE UNCHANGED <<queue, objPending>>

(* transactionCompleted, as the slot of an object whose transaction has    *)
(* been concluded or turned away.  Disconnecting the object being          *)
(* retrieved from the monitor removes its objectUpdated connection too,    *)
(* which matters if it is FirmwareIAPObj.                                  *)
TransactionCompleted(obj, open, board, told) ==
  \/ /\ obj = objPending
     /\ gcsStatus = "CONNECTED"
     /\ RetrieveNext(queue, open, board, iapListening /\ obj # Iap, told)
  \/ /\ obj = objPending
     /\ gcsStatus # "CONNECTED"
     /\ queue' = {}
     /\ objPending' = NoObj
     /\ iapListening' = (iapListening /\ obj # Iap)
     /\ announced' = told
     /\ inProgress' = open
     /\ refused' = refused
  \/ /\ obj # objPending
     /\ announced' = told
     /\ inProgress' = open
     /\ UNCHANGED <<queue, objPending, iapListening, refused>>

(* firmwareIAPUpdated.  Its disconnect(firmwareIAPObj) is the wrong way    *)
(* round and removes no connection, so it announces every later update.    *)
FirmwareIAPUpdated(board) == announced \/ (iapListening /\ board)

-----------------------------------------------------------------------------
(* connectionTimer->elapsed() > CONNECTION_TIMEOUT_MS, read between two    *)
(* times; at the limit itself it may go either way.  A timer never started *)
(* has no time elapsed, and one just started neither.                      *)
TimedOut(from, to) ==
  IF rxObjects \/ connectionTimer = Never THEN {FALSE}
  ELSE {late \in BOOLEAN : IF late THEN to >= ConnectionTimeout
                                   ELSE from <= ConnectionTimeout}

NextStatus(flight, late) ==
  CASE gcsStatus = "DISCONNECTED" -> "HANDSHAKEREQ"
    [] gcsStatus = "HANDSHAKEREQ" ->
         IF flight = "HANDSHAKEACK" THEN "CONNECTED" ELSE "HANDSHAKEREQ"
    [] gcsStatus = "CONNECTED" ->
         IF flight = "DISCONNECTED" \/ late THEN "DISCONNECTED" ELSE "CONNECTED"

(* processStatsUpdates, with the time at which it reads the timer.         *)
ProcessStatsUpdates(flight, from, to) ==
  \E late \in TimedOut(from, to) :
    /\ gcsStatus' = NextStatus(flight, late)
    /\ connectionTimer' = IF rxObjects THEN 0 ELSE from
    /\ \/ /\ gcsStatus' = gcsStatus \/ gcsStatus' = "HANDSHAKEREQ"
          /\ UNCHANGED <<retrieval, seen>>
       \/ /\ gcsStatus' = "CONNECTED" /\ gcsStatus # "CONNECTED"
          /\ StartRetrieving
          /\ seen' = {}
       \/ /\ gcsStatus' = "DISCONNECTED"
          /\ announced' = FALSE
          /\ UNCHANGED <<queue, objPending, iapListening, inProgress, refused, seen>>

(* statsTimer, whose interval is the longer one only while connected.      *)
Period == IF gcsStatus = "CONNECTED" THEN UpdatePeriod ELSE 1

(* Variant with a plausible mistake: restart() instead of elapsed().       *)
LaterRestarted(time) == IF connectionTimer = Never THEN Never ELSE time

Later(time) ==
  IF connectionTimer = Never THEN Never
  ELSE IF connectionTimer + time \in Elapsed THEN connectionTimer + time
       ELSE ConnectionTimeout + 1

StatsTimer ==
  /\ ProcessStatsUpdates(flightStatus, Later(Period), Later(Period))
  /\ rxObjects' = FALSE
  /\ answered' = (answered /\ gcsStatus' # "DISCONNECTED")
  /\ UNCHANGED <<flightStatus, boardKnown>>

(* FlightTelemetryStats is received: flightStatsUpdated.                   *)
ReceiveFlightStats(status) ==
  /\ flightStatus' = status
  /\ rxObjects' = TRUE
  /\ IF gcsStatus # "CONNECTED" \/ status # "CONNECTED"
     THEN ProcessStatsUpdates(status, connectionTimer, Later(Period))
     ELSE UNCHANGED <<gcsStatus, connectionTimer, retrieval, seen>>
  /\ answered' = (gcsStatus' # "DISCONNECTED"
                  /\ (answered \/ status = "HANDSHAKEACK"))
  /\ UNCHANGED boardKnown

-----------------------------------------------------------------------------
(* FirmwareIAPObj is updated, by a packet or by the ground station itself. *)
UpdateIap(board, received) ==
  /\ boardKnown' = board
  /\ announced' = FirmwareIAPUpdated(board)
  /\ rxObjects' = (rxObjects \/ received)
  /\ UNCHANGED <<gcsStatus, flightStatus, connectionTimer, answered, queue,
                 objPending, iapListening, inProgress, refused, seen>>

(* A transaction ends, answered or given up, and the object says so.  The  *)
(* answer may be a new FirmwareIAPObj, which is unpacked first.            *)
Conclude(obj, received, board) ==
  /\ obj \in inProgress
  /\ board # boardKnown => obj = Iap /\ received
  /\ TransactionCompleted(obj, inProgress \ {obj}, board,
                          IF obj = Iap /\ received THEN FirmwareIAPUpdated(board)
                                                   ELSE announced)
  /\ boardKnown' = board
  /\ rxObjects' = (rxObjects \/ received)
  /\ seen' = seen \cup {obj}
  /\ UNCHANGED <<gcsStatus, flightStatus, connectionTimer, answered>>

(* Another part of the ground station requests or updates an object.       *)
Admitted(obj) == gcsStatus = "CONNECTED" \/ obj \in Handshake

RequestAccepted(obj, sent) ==
  /\ Admitted(obj)
  /\ inProgress' = inProgress \cup {obj}
  /\ refused' = (refused \/ (obj \notin inProgress /\ ~sent))
  /\ UNCHANGED <<link, queue, objPending, iapListening, announced, seen>>

(* Without a connection the object is told of a failure at once, even if   *)
(* an earlier transaction of it is still in progress.  So is a metaobject  *)
(* that is unpacked then.                                                  *)
RequestRejected(obj) ==
  /\ ~Admitted(obj)
  /\ TransactionCompleted(obj, inProgress, boardKnown, announced)
  /\ UNCHANGED <<link, seen>>

Receive ==
  /\ rxObjects' = TRUE
  /\ UNCHANGED <<gcsStatus, flightStatus, boardKnown, connectionTimer,
                 answered, retrieval, seen>>

(* onStop, onStart: the monitor and the layers below are deleted and made  *)
(* anew for the next device.  The objects keep what was last received, and *)
(* GCSTelemetryStats is set to DISCONNECTED.                               *)
Restart ==
  /\ gcsStatus' = "DISCONNECTED"
  /\ rxObjects' = FALSE
  /\ connectionTimer' = Never
  /\ queue' = {}
  /\ objPending' = NoObj
  /\ iapListening' = FALSE
  /\ announced' = FALSE
  /\ inProgress' = {}
  /\ refused' = FALSE
  /\ seen' = {}
  /\ answered' = FALSE
  /\ UNCHANGED <<flightStatus, boardKnown>>

Next ==
  \/ StatsTimer
  \/ \E status \in Status : ReceiveFlightStats(status)
  \/ \E board, received \in BOOLEAN : UpdateIap(board, received)
  \/ \E obj \in Obj, received, board \in BOOLEAN : Conclude(obj, received, board)
  \/ \E obj \in Obj, sent \in BOOLEAN : RequestAccepted(obj, sent)
  \/ \E obj \in Obj : RequestRejected(obj)
  \/ Receive
  \/ Restart

Spec == Init /\ [][Next]_vars

(* The event loop gets round to the statistics timer, and as long as the   *)
(* device takes every message each transaction is answered or given up     *)
(* (WaiterTold of module Telemetry).                                       *)
FairSpec ==
  /\ Spec
  /\ WF_vars(StatsTimer)
  /\ \A obj \in Obj :
       WF_vars(~refused /\ \E received, board \in BOOLEAN : Conclude(obj, received, board))
-----------------------------------------------------------------------------
(* A retrieval that is not over is driven by an open transaction, the one  *)
(* thing that will call the monitor again: across lost connections, failed *)
(* requests and requests dropped because another part of the ground        *)
(* station had a transaction on the object, it is never left waiting for a *)
(* signal that nobody will send.                                           *)
RetrievalDriven ==
  /\ queue # {} => objPending # NoObj
  /\ objPending # NoObj => objPending \in inProgress

(* The end of a retrieval announces the connection only with the           *)
(* autopilot connected and after a transaction on every object to be       *)
(* retrieved has been concluded since the connection was established,      *)
(* whatever retrievals were broken off before.  (The other announcement is *)
(* the one of firmwareIAPUpdated.)                                         *)
AnnouncedWhenRetrieved ==
  [][~announced /\ announced' /\ ~iapListening
       => gcsStatus = "CONNECTED" /\ Retrieved \subseteq seen']_vars

(* With a device that takes every message a retrieval comes to its end, or *)
(* the connection is lost first.                                           *)
RetrievalEnds ==
  gcsStatus = "CONNECTED" /\ objPending # NoObj
    ~> (gcsStatus # "CONNECTED" \/ objPending = NoObj \/ refused)

(* If the connection timer was ever started, a link gone silent is noticed *)
(* by the statistics updates.                                              *)
SilenceNoticed ==
  gcsStatus = "CONNECTED" /\ connectionTimer # Never
    ~> (gcsStatus # "CONNECTED" \/ rxObjects)

(* A connection rests on an acknowledge received since the connection      *)
(* before it was lost ("Request connection", "Check for connection         *)
(* acknowledge" in processStatsUpdates).                                   *)
AckAnswersRequest == gcsStatus = "CONNECTED" => answered
=============================================================================
