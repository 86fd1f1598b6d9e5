----------------------------- MODULE Telemetry -----------------------------
(***************************************************************************)
(* The transaction layer of the ground control station: class Telemetry    *)
(* (plugins/uavtalk/telemetry.cpp) on top of UAVTalk.  Both live in the    *)
(* telemetry thread, so one step is one dispatch of its event loop: a      *)
(* request or update signalled by an object, a packet read from the        *)
(* device, a transaction timer.  The flight side is the environment: any   *)
(* packet about a known object may arrive at any time.                     *)
(*                                                                         *)
(* The event queues are empty between dispatches (every enqueue is         *)
(* followed by the call that dequeues one element), so a step hands its    *)
(* event straight to the processing.  waiting and refused are history.     *)
(***************************************************************************)
EXTENDS UAVTalk

CONSTANTS
  Handshake,   \* GCSTelemetryStats, OPLinkSettings, ObjectPersistence
  MaxRetries,  \* MAX_RETRIES
  NoTrans      \* an empty slot of the transaction map

Transaction == [objRequest: BOOLEAN, retriesRemaining: 0 .. MaxRetries,
                timer: BOOLEAN]

ASSUME HandshakeAssumption == Handshake \subseteq Obj

ASSUME RetriesAssumption == MaxRetries \in Nat

ASSUME NoTransAssumption == NoTrans \notin Transaction

VARIABLES
  connected,  \* GCSTelemetryStats.Status = CONNECTED
  trans,      \* Telemetry::transMap
  known,      \* instances whose isKnown flag is set
  waiting,    \* instances asked for and not yet told of a completion
  refused     \* the device has refused a transacted message since Start

vars == <<talkVars, connected, trans, known, waiting, refused>>

TypeOK ==
  /\ TalkTypeOK
  /\ connected \in BOOLEAN
  /\ trans \in [Key -> Transaction \cup {NoTrans}]
  /\ known \subseteq Instance
  /\ waiting \subseteq Instance
  /\ refused \in BOOLEAN

Init ==
  /\ TalkInit
  /\ connected = FALSE
  /\ trans = [k \in Key |-> NoTrans]
  /\ known = {}
  /\ waiting = {}
  /\ refused = FALSE

-----------------------------------------------------------------------------
TransOpen == {k \in Key : trans[k] # NoTrans}

TransFind(o, i) == FindKey(TransOpen, o, i)

InProgress(o, i) == TransFind(o, i) \in TransOpen

(* The instance a transaction was opened on: requests for all instances    *)
(* are made on instance zero.                                              *)
InstOf(k) == IF k[2] = ALL_INSTANCES THEN 0 ELSE k[2]

(* emitTransactionCompleted *)
Notify(o, i) == waiting' = waiting \ {<<o, i>>}

(* Variants with a plausible mistake: the timer runs although nothing was  *)
(* sent; only the first attempt is timed.                                  *)
ProcessTimedAnyway(k, objRequest, retries, sent) ==
  /\ trans' = [trans EXCEPT ![k] = [objRequest |-> objRequest,
                                    retriesRemaining |-> retries,
                                    timer |-> TRUE]]
  /\ TalkTransaction(k, objRequest, sent)
  /\ refused' = (refused \/ ~sent)

ProcessTimedOnce(k, objRequest, retries, sent) ==
  /\ trans' = [trans EXCEPT ![k] = [objRequest |-> objRequest,
                                    retriesRemaining |-> retries,
                                    timer |-> sent /\ retries = MaxRetries]]
  /\ TalkTransaction(k, objRequest, sent)
  /\ refused' = (refused \/ ~sent)

(* processObjectTransaction, for a message that expects a response: the    *)
(* timer starts only if the message was sent.                              *)
ProcessTransaction(k, objRequest, retries, sent) ==
  /\ trans' = [trans EXCEPT ![k] = [objRequest |-> objRequest,
                                    retriesRemaining |-> retries,
                                    timer |-> sent]]
  /\ TalkTransaction(k, objRequest, sent)
  /\ refused' = (refused \/ ~sent)

(* The objects may be transacted before the connection is established only *)
(* if the handshake needs them.                                            *)
Admitted(o) == connected \/ o \in Handshake

(* Variant with a plausible mistake: no look at what is in progress.       *)
AcceptBlindly(o, i, all, objRequest, sent) ==
  /\ Admitted(o)
  /\ ProcessTransaction(<<o, IF all THEN ALL_INSTANCES ELSE i>>, objRequest,
                        MaxRetries, sent)
  /\ waiting' = waiting \cup {<<o, i>>}
  /\ UNCHANGED <<ioOpen, numInst, connected, known>>

(* A request for (or an acknowledged update of) one instance or all of     *)
(* them reaches processObjectUpdates and, from there, processObjectQueue.  *)
(* Unacknowledged updates leave no trace in either table: they open and    *)
(* close their transaction in one call.                                    *)
Accept(o, i, all, objRequest, sent) ==
  /\ Admitted(o)
  /\ ~InProgress(o, i)
  /\ ProcessTransaction(<<o, IF all THEN ALL_INSTANCES ELSE i>>, objRequest,
                        MaxRetries, sent)
  /\ waiting' = waiting \cup {<<o, i>>}
  /\ UNCHANGED <<ioOpen, numInst, connected, known>>

(* The lookup finds a transaction: the event is dropped with no word.      *)
Drop(o, i) ==
  /\ Admitted(o)
  /\ InProgress(o, i)
  /\ waiting' = waiting \cup {<<o, i>>}
  /\ UNCHANGED <<talkVars, connected, trans, known, refused>>

(* Not connected: the event fails at once.                                 *)
Reject(o, i) ==
  /\ ~Admitted(o)
  /\ Notify(o, i)
  /\ UNCHANGED <<talkVars, connected, trans, known, refused>>

Request(o, i) ==
  /\ i < numInst[o]
  /\ \/ \E all, objRequest \in BOOLEAN, sent \in SendResults :
          /\ all => o \in Multi /\ i = 0
          /\ Accept(o, i, all, objRequest, sent)
     \/ Drop(o, i)
     \/ Reject(o, i)

-----------------------------------------------------------------------------
(* Variants with a plausible mistake: one retry too many, and a failure    *)
(* nobody is told of.                                                      *)
RetryOnceMore(k, sent) ==
  /\ trans[k].retriesRemaining >= 0
  /\ ProcessTransaction(k, trans[k].objRequest, trans[k].retriesRemaining - 1,
                        sent)
  /\ UNCHANGED <<ioOpen, numInst, connected, known, waiting>>

GiveUpSilently(k) ==
  /\ trans[k].retriesRemaining = 0
  /\ TalkCancel(k[1], InstOf(k))
  /\ trans' = [trans EXCEPT ![k] = NoTrans]
  /\ UNCHANGED <<ioOpen, numInst, connected, known, waiting, refused>>

(* transactionTimeout: a single shot timer has run out.                    *)
Retry(k, sent) ==
  /\ trans[k].retriesRemaining > 0
  /\ ProcessTransaction(k, trans[k].objRequest, trans[k].retriesRemaining - 1,
                        sent)
  /\ UNCHANGED <<ioOpen, numInst, connected, known, waiting>>

GiveUp(k) ==
  /\ trans[k].retriesRemaining = 0
  /\ TalkCancel(k[1], InstOf(k))
  /\ trans' = [trans EXCEPT ![k] = NoTrans]
  /\ Notify(k[1], InstOf(k))
  /\ UNCHANGED <<ioOpen, numInst, connected, known, refused>>

Timeout(k) ==
  /\ k \in TransOpen
  /\ trans[k].timer
  /\ \/ \E sent \in SendResults : Retry(k, sent)
     \/ GiveUp(k)

-----------------------------------------------------------------------------
(* UAVTalk closes the transaction it found and Telemetry, told of the      *)
(* object in the packet, closes the one it finds itself; finding none, it  *)
(* only warns.                                                             *)
Complete(o, i, success) ==
  /\ TalkClose(TalkFind(o, i))
  /\ IF InProgress(o, i)
     THEN /\ trans' = [trans EXCEPT ![TransFind(o, i)] = NoTrans]
          /\ known' = IF success THEN known \cup {<<o, i>>}
                                 ELSE known \ {<<o, i>>}
          /\ Notify(o, i)
     ELSE UNCHANGED <<trans, known, waiting>>

(* objectUnpacked, which only metaobjects are connected to: without a      *)
(* connection the unpack event is answered like a failed request.          *)
UnpackFails(o) == o \in Meta /\ ~Admitted(o)

ReceiveObj(o, i) ==
  /\ Updatable(o, i)
  /\ RegisterInstance(o, i)
  /\ IF Acks("OBJ", o, i)
     THEN Complete(o, i, TRUE)
     ELSE /\ IF UnpackFails(o) THEN Notify(o, i) ELSE UNCHANGED waiting
          /\ UNCHANGED <<talk, trans, known>>
  /\ UNCHANGED <<ioOpen, connected, refused>>

(* An object the flight side wants acknowledged completes no request.      *)
ReceiveObjAck(o, i) ==
  /\ Updatable(o, i)
  /\ RegisterInstance(o, i)
  /\ IF UnpackFails(o) THEN Notify(o, i) ELSE UNCHANGED waiting
  /\ UNCHANGED <<ioOpen, connected, refused, talk, trans, known>>

ReceiveAck(o, i) ==
  /\ i < numInst[o]
  /\ Acks("ACK", o, i)
  /\ Complete(o, i, TRUE)
  /\ UNCHANGED <<ioOpen, numInst, connected, refused>>

ReceiveNack(o, i) ==
  /\ i < numInst[o]
  /\ Nacks(o, i)
  /\ Complete(o, i, FALSE)
  /\ UNCHANGED <<ioOpen, numInst, connected, refused>>

Receive(o, i) ==
  /\ ioOpen
  /\ \/ ReceiveObj(o, i)
     \/ ReceiveObjAck(o, i)
     \/ ReceiveAck(o, i)
     \/ ReceiveNack(o, i)

-----------------------------------------------------------------------------
(* TelemetryMonitor moves GCSTelemetryStats.Status.                        *)
ChangeStatus ==
  /\ connected' = ~connected
  /\ UNCHANGED <<talkVars, trans, known, waiting, refused>>

(* The connection plugin deletes the device under the running stack.       *)
DeviceDeleted ==
  /\ ioOpen
  /\ ioOpen' = FALSE
  /\ UNCHANGED <<numInst, talk, connected, trans, known, waiting, refused>>

(* Telemetry forgets all objects when it is deleted and when it is made.   *)
ForgetObjects == known' = {}

(* The monitor, Telemetry and UAVTalk are deleted, which closes all their  *)
(* transactions without a notification, and made anew on the next device.  *)
Restart ==
  /\ ioOpen' = TRUE
  /\ talk' = [k \in Key |-> "none"]
  /\ trans' = [k \in Key |-> NoTrans]
  /\ connected' = FALSE
  /\ waiting' = {}
  /\ refused' = FALSE
  /\ ForgetObjects
  /\ UNCHANGED numInst

Next ==
  \/ \E o \in Obj, i \in Inst : Request(o, i) \/ Receive(o, i)
  \/ \E k \in Key : Timeout(k)
  \/ ChangeStatus
  \/ DeviceDeleted
  \/ Restart

Spec == Init /\ [][Next]_vars

(* The event loop gets round to every timer that has run out.              *)
FairSpec == Spec /\ \A k \in Key : WF_vars(Timeout(k))
-----------------------------------------------------------------------------
(* Every transaction UAVTalk still waits on has its owner in Telemetry, so *)
(* that a response which completes the one always completes something in   *)
(* the other: the "did not expect it" branch of transactionCompleted is    *)
(* dead as long as there is a device to read from.                         *)
TalkOwned == ioOpen => TalkOpen \subseteq TransOpen

(* A running timer of a single-instance transaction means that UAVTalk     *)
(* waits under the same key for the type that answers it, so a response    *)
(* that comes in time is never missed.  (A transaction on all instances    *)
(* does not have this: a NACK of another instance can take its UAVTalk     *)
(* half away.)                                                             *)
TimerBacked ==
  ioOpen =>
    \A k \in TransOpen :
      trans[k].timer /\ k[2] # ALL_INSTANCES
        => talk[k] = RespType(trans[k].objRequest)

(* The TODO of processObjectQueue asks that a transaction on all instances *)
(* excludes the others of its object.  What the code does achieve is that  *)
(* it excludes the one on instance zero, which is the one it would be      *)
(* confused with on a time-out.                                            *)
ZeroExcludesAll ==
  \A o \in Obj : ~({<<o, 0>>, <<o, ALL_INSTANCES>>} \subseteq TransOpen)

(* As long as the device takes every message the two tables agree key by   *)
(* key and type by type, and every open transaction is timed: it will be   *)
(* answered or retried, it cannot be forgotten.                            *)
TablesAgree ==
  ioOpen /\ ~refused =>
    \A k \in Key :
      IF k \in TransOpen
      THEN trans[k].timer /\ talk[k] = RespType(trans[k].objRequest)
      ELSE talk[k] = "none"

(* Whoever waits on a single-instance object waits on an open transaction, *)
(* although a request made while another is in progress is dropped without *)
(* a word.                                                                 *)
SingleRemembered ==
  \A o \in Obj \ Multi : <<o, 0>> \in waiting => <<o, 0>> \in TransOpen

(* While the device stays, every open transaction is answered or given up  *)
(* eventually.  The code says so even of a message that could not be sent: *)
(* "the transaction will not complete and will timeout" (telemetry.cpp,    *)
(* processObjectTransaction).                                              *)
UnsentTimesOut ==
  \A k \in Key : k \in TransOpen ~> (k \notin TransOpen \/ ~ioOpen)

(* With a device that takes every message, whoever waits on a              *)
(* single-instance object is told eventually, whatever the flight side     *)
(* sends or does not send.                                                 *)
WaiterTold ==
  \A o \in Obj \ Multi :
    <<o, 0>> \in waiting ~> (<<o, 0>> \notin waiting \/ refused \/ ~ioOpen)

-----------------------------------------------------------------------------
(* Seen from its single-instance objects, the transaction layer is the     *)
(* broker of module RequestBroker.                                         *)
Single == Obj \ Multi

SingleOpen == {o \in Single : <<o, 0>> \in TransOpen}

Broker == INSTANCE RequestBroker WITH
  Client <- Single,
  inProgress <- SingleOpen,
  left <- [o \in Single |-> IF o \in SingleOpen
                            THEN trans[<<o, 0>>].retriesRemaining ELSE 0],
  asking <- {o \in Single : <<o, 0>> \in waiting}

(* Every step of the tables and of the notifications is one the broker     *)
(* allows: no transaction is opened twice, retried beyond its budget or    *)
(* closed behind the back of who waits for it.                             *)
ImplementsBroker == Broker!BrokerSpec
=============================================================================
