----------------------------- MODULE ObjectSave -----------------------------
(***************************************************************************)
(* Saving objects on the board: the queue of UAVObjectUtilManager          *)
(* (plugins/uavobjectutil/uavobjectutilmanager.cpp), which runs in the GUI *)
(* thread, with the one transaction of ObjectPersistence in the telemetry  *)
(* thread, a lossy link and the flight side.                               *)
(*                                                                         *)
(* Signals between the two threads are queued: a slot runs after the       *)
(* signal, with the data ObjectPersistence holds by then, and runs even if *)
(* it was disconnected in between.                                         *)
(***************************************************************************)
EXTENDS Naturals, Sequences

CONSTANTS
  Obj,         \* instances of settings objects that are saved
  Id,          \* Id[o] is the object ID of o, shared by its instances
  OtherOps,    \* what other parts of the station use ObjectPersistence for
  MaxRetries,  \* of a transaction
  MaxQueue,    \* bound on the save queue
  MaxLink,     \* bound on the packets in flight: more are lost
  MaxEvents    \* bound on the events posted to a thread

ASSUME IdAssumption == DOMAIN Id = Obj

ASSUME BoundsAssumption ==
  /\ OtherOps \subseteq {"Load", "Save", "Delete"}
  /\ {MaxRetries, MaxQueue, MaxLink, MaxEvents} \subseteq Nat

\* What the flight side answers with a result, and what the data says else.
Operations == {"Load", "Save", "Delete"}
Data == [Operation: Operations \cup {"NOP", "Completed", "Error"}, object: Obj]
Packet == [type: {"ACK", "NACK"}] \cup [type: {"OBJ"}, data: Data]
Answer(type) == [type |-> type]

VARIABLES
  queue,         \* objects to be saved, the first one being saved
  saveState,     \* IDLE, AWAITING_ACK or AWAITING_COMPLETED
  failureTimer,  \* it runs
  connected,     \* which signals of ObjectPersistence reach the manager
  objper,        \* the data of ObjectPersistence
  guiEvents,     \* slots of the manager posted to the GUI thread
  requests,      \* updates of ObjectPersistence posted to Telemetry
  running,       \* there is a telemetry stack
  trans,         \* transaction on ObjectPersistence: none, timed, or open
                 \* without a timer: unsent, or sent but not sent again
  retries,       \* its retriesRemaining
  toFlight, toGcs,  \* the link
  flightSaved,   \* history: objects the flight side has saved
  confirmed,     \* history: objects whose save was reported a success
  turn,          \* history: changes with each object taken off the queue
  lost           \* history: nobody will conclude the current request

gui == <<queue, saveState, failureTimer, connected, confirmed, turn>>
link == <<toFlight, toGcs, flightSaved>>
telemetry == <<trans, retries>>
vars == <<gui, objper, guiEvents, requests, running, telemetry, link, lost>>

TypeOK ==
  /\ queue \in Seq(Obj)
  /\ saveState \in {"IDLE", "AWAITING_ACK", "AWAITING_COMPLETED"}
  /\ failureTimer \in BOOLEAN
  /\ connected \in SUBSET {"transactionCompleted", "objectUpdated"}
  /\ objper \in Data
  /\ guiEvents \in Seq({"success", "failure", "updated"})
  /\ requests \in Nat
  /\ running \in BOOLEAN
  /\ trans \in {"none", "timed", "unsent", "untimed"}
  /\ retries \in 0 .. MaxRetries
  /\ toFlight \in Seq(Data)
  /\ toGcs \in Seq(Packet)
  /\ flightSaved \subseteq Obj
  /\ confirmed \subseteq Obj
  /\ {turn, lost} \subseteq BOOLEAN

Init ==
  /\ queue = <<>>
  /\ saveState = "IDLE"
  /\ failureTimer = FALSE
  /\ connected = {}
  /\ objper \in [Operation: {"NOP"}, object: Obj]
  /\ guiEvents = <<>>
  /\ requests = 0
  /\ running = TRUE
  /\ trans = "none"
  /\ retries = 0
  /\ toFlight = <<>>
  /\ toGcs = <<>>
  /\ flightSaved = {}
  /\ confirmed = {}
  /\ turn = FALSE
  /\ lost = FALSE

-----------------------------------------------------------------------------
(* ObjectPersistence is set and updated(): Telemetry gets an event, if it  *)
(* exists.  The manager's own slot is called directly, but neither finds   *)
(* an operation it acts upon.                                              *)
Update(data) ==
  /\ objper' = data
  /\ requests' = IF running THEN requests + 1 ELSE requests

(* Variant with a plausible mistake: the state is not reset when there is  *)
(* nothing more to save.                                                   *)
SaveNextBusy(objects) ==
  IF objects = <<>>
  THEN /\ connected' = {}
       /\ UNCHANGED <<saveState, objper, requests, lost>>
  ELSE /\ saveState' = "AWAITING_ACK"
       /\ connected' = {"transactionCompleted", "objectUpdated"}
       /\ Update([Operation |-> "Save", object |-> Head(objects)])
       /\ lost' = ~running

(* saveNextObject *)
SaveNext(objects) ==
  IF objects = <<>>
  THEN /\ saveState' = "IDLE"
       /\ connected' = {}
       /\ UNCHANGED <<objper, requests, lost>>
  ELSE /\ saveState' = "AWAITING_ACK"
       /\ connected' = {"transactionCompleted", "objectUpdated"}
       /\ Update([Operation |-> "Save", object |-> Head(objects)])
       /\ lost' = ~running

(* saveObjectToSD *)
Save(obj) ==
  /\ Len(queue) < MaxQueue
  /\ queue' = Append(queue, obj)
  /\ IF queue = <<>> THEN SaveNext(queue')
                     ELSE UNCHANGED <<saveState, connected, objper, requests, lost>>
  /\ UNCHANGED <<failureTimer, confirmed, turn, guiEvents, running, telemetry, link>>

(* The object at the head of the queue is done with, saved or not, and the *)
(* next one has its turn.  Taking an object off an empty queue is          *)
(* undefined: here the slot then waits.                                    *)
Finish(success) ==
  /\ queue # <<>>
  /\ queue' = Tail(queue)
  /\ confirmed' = IF success THEN confirmed \cup {Head(queue)} ELSE confirmed
  /\ turn' = ~turn
  /\ SaveNext(Tail(queue))

-----------------------------------------------------------------------------
(* Variant with a plausible mistake: no provision for a missing result.    *)
TransactionSucceededUntimed ==
  /\ saveState' = "AWAITING_COMPLETED"
  /\ connected' = connected \ {"transactionCompleted"}
  /\ UNCHANGED <<failureTimer, queue, confirmed, turn, objper, requests, lost>>

(* objectPersistenceTransactionCompleted(success)                          *)
TransactionSucceeded ==
  /\ saveState' = "AWAITING_COMPLETED"
  /\ connected' = connected \ {"transactionCompleted"}
  /\ failureTimer' = TRUE
  /\ UNCHANGED <<queue, confirmed, turn, objper, requests, lost>>

(* objectPersistenceTransactionCompleted(failure), which does not look at  *)
(* the state.                                                              *)
TransactionFailed ==
  /\ Finish(FALSE)
  /\ UNCHANGED failureTimer

(* objectPersistenceOperationFailed *)
OperationFailed ==
  IF saveState = "AWAITING_COMPLETED" THEN Finish(FALSE)
  ELSE UNCHANGED <<queue, saveState, connected, confirmed, turn, objper, requests, lost>>

(* Variant with a plausible mistake: the object is not compared at all.    *)
AnyObject == TRUE

(* The result is of the object being saved.  Only the object ID is         *)
(* compared.                                                               *)
RightObject == Id[objper.object] = Id[Head(queue)]

(* objectPersistenceUpdated, with the data of ObjectPersistence as it is   *)
(* when the slot runs.                                                     *)
PersistenceUpdated ==
  IF saveState = "AWAITING_COMPLETED" /\ objper.Operation \in {"Completed", "Error"}
  THEN /\ failureTimer' = FALSE
       /\ Finish(objper.Operation = "Completed" /\ RightObject)
  ELSE UNCHANGED <<failureTimer, queue, saveState, connected, confirmed, turn,
                   objper, requests, lost>>

(* The GUI thread runs the next slot posted to it.                         *)
RunSlot ==
  /\ guiEvents # <<>>
  /\ guiEvents' = Tail(guiEvents)
  /\ \/ Head(guiEvents) = "success" /\ TransactionSucceeded
     \/ Head(guiEvents) = "failure" /\ TransactionFailed
     \/ Head(guiEvents) = "updated" /\ PersistenceUpdated
  /\ UNCHANGED <<running, telemetry, link>>

FailureTimeout ==
  /\ failureTimer
  /\ failureTimer' = FALSE
  /\ OperationFailed
  /\ UNCHANGED <<guiEvents, running, telemetry, link>>

(* The object browser loads, saves or erases an object without the         *)
(* manager, a configuration page loads and the export of a template saves. *)
OtherUpdate(operation, obj) ==
  /\ requests < MaxEvents
  /\ Update([Operation |-> operation, object |-> obj])
  /\ UNCHANGED <<gui, guiEvents, running, telemetry, link, lost>>

-----------------------------------------------------------------------------
(* Variants with a plausible mistake: a retry too many, and a transaction  *)
(* that is told of but not closed.                                         *)
OneMoreRetry == retries >= 0
LeaveOpen == UNCHANGED trans

RetriesRemain == retries > 0
CloseTransaction == trans' = "none"

(* The telemetry thread.  A signal that is connected when it is emitted is *)
(* posted to the GUI thread.                                               *)
Post(signal, slot) ==
  /\ Len(guiEvents) < MaxEvents
  /\ guiEvents' = IF signal \in connected THEN Append(guiEvents, slot) ELSE guiEvents

Carry(channel, packets) ==
  LET all == channel \o packets
  IN  IF Len(all) <= MaxLink THEN all ELSE SubSeq(all, 1, MaxLink)

(* Telemetry takes up an update: dropped if the transaction is open, sent  *)
(* with the data the object has now, or refused by the device.             *)
TakeUpdate ==
  /\ running
  /\ requests > 0
  /\ requests' = requests - 1
  /\ \/ /\ trans # "none"
        /\ lost' = (lost \/ trans # "timed")
        /\ UNCHANGED <<telemetry, toFlight>>
     \/ /\ trans = "none"
        /\ trans' = "timed"
        /\ retries' = MaxRetries
        /\ toFlight' = Carry(toFlight, <<objper>>)
        /\ UNCHANGED lost
     \/ /\ trans = "none"
        /\ trans' = "unsent"
        /\ retries' = MaxRetries
        /\ lost' = TRUE
        /\ UNCHANGED toFlight
  /\ UNCHANGED <<gui, objper, guiEvents, running, toGcs, flightSaved>>

(* The timer of the transaction runs out: the message is sent again, or    *)
(* refused and then not timed, or given up.                                *)
Timeout ==
  /\ trans = "timed"
  /\ \/ /\ RetriesRemain
        /\ retries' = retries - 1
        /\ \/ toFlight' = Carry(toFlight, <<objper>>) /\ UNCHANGED <<trans, lost>>
           \/ trans' = "untimed" /\ lost' = TRUE /\ UNCHANGED toFlight
        /\ UNCHANGED guiEvents
     \/ /\ ~RetriesRemain
        /\ CloseTransaction
        /\ UNCHANGED retries
        /\ Post("transactionCompleted", "failure")
        /\ UNCHANGED <<toFlight, lost>>
  /\ UNCHANGED <<gui, objper, requests, running, toGcs, flightSaved>>

(* A packet from the flight side: an answer closes the transaction that is *)
(* open, whichever it is; a result replaces the data of the object.        *)
Receive ==
  /\ running
  /\ toGcs # <<>>
  /\ toGcs' = Tail(toGcs)
  /\ LET packet == Head(toGcs)
     IN  \/ /\ packet.type # "OBJ"
            /\ trans \in {"timed", "untimed"}
            /\ CloseTransaction
            /\ Post("transactionCompleted",
                    IF packet.type = "ACK" THEN "success" ELSE "failure")
            /\ UNCHANGED objper
         \/ /\ packet.type # "OBJ"
            /\ trans \in {"none", "unsent"}
            /\ UNCHANGED <<objper, trans, guiEvents>>
         \/ /\ packet.type = "OBJ"
            /\ objper' = packet.data
            /\ Post("objectUpdated", "updated")
            /\ UNCHANGED trans
  /\ UNCHANGED <<gui, requests, running, retries, toFlight, flightSaved, lost>>

(* The stack is deleted with its transactions and the events posted to it, *)
(* and nobody is told; later another one is made.                          *)
Stop ==
  /\ running
  /\ running' = FALSE
  /\ trans' = "none"
  /\ requests' = 0
  /\ toFlight' = <<>>
  /\ toGcs' = <<>>
  /\ lost' = TRUE
  /\ UNCHANGED <<gui, objper, guiEvents, retries, flightSaved>>

StartStack ==
  /\ ~running
  /\ running' = TRUE
  /\ UNCHANGED <<gui, objper, guiEvents, requests, telemetry, link, lost>>

-----------------------------------------------------------------------------
(* The link loses packets.  The flight side, as the comments of            *)
(* saveNextObject and of its slots describe it, acknowledges the object    *)
(* and sends the result of an operation, or refuses it.  A retry made      *)
(* after the result has replaced the data asks for no operation.           *)
Lose ==
  /\ \/ toFlight # <<>> /\ toFlight' = Tail(toFlight) /\ UNCHANGED toGcs
     \/ toGcs # <<>> /\ toGcs' = Tail(toGcs) /\ UNCHANGED toFlight
  /\ UNCHANGED <<gui, objper, guiEvents, requests, running, telemetry, flightSaved, lost>>

FlightReceive(done) ==
  /\ toFlight # <<>>
  /\ toFlight' = Tail(toFlight)
  /\ LET data == Head(toFlight)
         result == [data EXCEPT !.Operation = IF done THEN "Completed" ELSE "Error"]
     IN  \/ /\ data.Operation \in Operations
            /\ toGcs' = Carry(toGcs, <<Answer("ACK"), [type |-> "OBJ", data |-> result]>>)
            /\ flightSaved' = IF done /\ data.Operation = "Save"
                              THEN flightSaved \cup {data.object} ELSE flightSaved
         \/ /\ data.Operation \notin Operations
            /\ toGcs' = Carry(toGcs, <<Answer("ACK")>>)
            /\ UNCHANGED flightSaved
         \/ /\ toGcs' = Carry(toGcs, <<Answer("NACK")>>)
            /\ UNCHANGED flightSaved
  /\ UNCHANGED <<gui, objper, guiEvents, requests, running, telemetry, lost>>

Next ==
  \/ \E obj \in Obj : Save(obj)
  \/ RunSlot
  \/ FailureTimeout
  \/ \E operation \in OtherOps, obj \in Obj : OtherUpdate(operation, obj)
  \/ TakeUpdate
  \/ Timeout
  \/ Receive
  \/ Stop
  \/ StartStack
  \/ Lose
  \/ \E done \in BOOLEAN : FlightReceive(done)

Spec == Init /\ [][Next]_vars

(* Both event loops get round to what is posted to them and to the timers  *)
(* that have run out.                                                      *)
FairSpec ==
  /\ Spec
  /\ WF_vars(RunSlot)
  /\ WF_vars(FailureTimeout)
  /\ WF_vars(TakeUpdate)
  /\ WF_vars(Timeout)
-----------------------------------------------------------------------------
(* The state of the save and the queue agree in all interleavings of the   *)
(* two threads: something is being saved if and only if something is       *)
(* queued, and then a slot of the manager is still connected to a signal   *)
(* that can end it.  saveNextObject asserts the first half.                *)
SaveTracksQueue ==
  /\ saveState = "IDLE" <=> queue = <<>>
  /\ saveState = "AWAITING_ACK" => "transactionCompleted" \in connected
  /\ saveState = "AWAITING_COMPLETED" => failureTimer

(* A success is reported only for an object ID the flight side did save.   *)
(* Nobody else may load or erase: the results of these say no more than    *)
(* "completed", and would be taken for that of a save.                     *)
SuccessIsReal ==
  \A obj \in confirmed : \E other \in flightSaved : Id[other] = Id[obj]

(* Unless the telemetry stack is stopped or the device refuses the         *)
(* message, the object being saved is reported on and the queue moves,     *)
(* whatever the link loses.                                                *)
QueueMoves ==
  \A b \in BOOLEAN :
    queue # <<>> /\ turn = b ~> (turn # b \/ lost)

(* When no other part of the station uses ObjectPersistence, the slot of a *)
(* finished transaction finds the state it expects, whenever it runs: a    *)
(* success comes while the acknowledge is awaited, as asserted, and a      *)
(* failure finds the object to be taken off the queue.                     *)
SlotExpected ==
  guiEvents # <<>> =>
    /\ Head(guiEvents) = "success" => saveState = "AWAITING_ACK"
    /\ Head(guiEvents) = "failure" => queue # <<>>
=============================================================================
