------------------------------ MODULE UAVTalk ------------------------------
(***************************************************************************)
(* The transaction half of the UAVTalk protocol engine of the ground       *)
(* control station (plugins/uavtalk/uavtalk.cpp): which responses it is    *)
(* waiting for, how a request opens such an expectation and how a received *)
(* packet closes it.  The byte-level framing is another component; here a  *)
(* packet is its type, object and instance.                                *)
(*                                                                         *)
(* The module declares the state and the helpers; module Telemetry, the    *)
(* only client of UAVTalk, turns them into steps.                          *)
(***************************************************************************)
EXTENDS Naturals, Sequences

CONSTANTS
  Obj,      \* UAVObject ids registered with the object manager
  Multi,    \* those that have several instances
  Meta,     \* those that are the metaobject of another object
  MaxInst   \* UAVObjectManager::MAX_INSTANCES

ALL_INSTANCES == 65535   \* 0xFFFF on the wire: every instance of an object

ASSUME ObjectsAssumption ==
  /\ Multi \subseteq Obj
  /\ Meta \subseteq Obj \ Multi

ASSUME InstancesAssumption == MaxInst \in 1 .. ALL_INSTANCES

Inst == 0 .. (MaxInst - 1)
Instance == Obj \X Inst                           \* one UAVObject
Key == Obj \X (Inst \cup {ALL_INSTANCES})         \* one slot of a transMap

VARIABLES
  ioOpen,   \* the QPointer to the device is not null
  numInst,  \* number of instances of each object known to the manager
  talk      \* UAVTalk::transMap: response type awaited under each key, or none

talkVars == <<ioOpen, numInst, talk>>

RespType(objRequest) == IF objRequest THEN "OBJ" ELSE "ACK"

TalkTypeOK ==
  /\ ioOpen \in BOOLEAN
  /\ numInst \in [Obj -> 1 .. MaxInst]
  /\ talk \in [Key -> {"none", "OBJ", "ACK"}]

TalkInit ==
  /\ ioOpen = TRUE
  /\ numInst = [o \in Obj |-> 1]
  /\ talk = [k \in Key |-> "none"]

-----------------------------------------------------------------------------
(* Variants of the definitions below with a plausible mistake in them; the *)
(* properties are checked to tell each from the real one.                  *)
FindWithoutWildcard(open, o, i) == <<o, i>>

TalkCancelExact(o, i) ==
  talk' = IF ioOpen THEN [talk EXCEPT ![<<o, i>>] = "none"] ELSE talk

(* findTransaction, which UAVTalk and Telemetry both have: the transaction *)
(* of the instance itself, or else the one on all instances.  It finds     *)
(* nothing when the key it returns is not one of the open ones.            *)
FindKey(open, o, i) ==
  IF <<o, i>> \in open THEN <<o, i>> ELSE <<o, ALL_INSTANCES>>

TalkOpen == {k \in Key : talk[k] # "none"}

TalkFind(o, i) == FindKey(TalkOpen, o, i)

(* A transmission is refused when the device is gone or not writable, or   *)
(* its backlog is full.                                                    *)
SendResults == IF ioOpen THEN BOOLEAN ELSE {FALSE}

(* objectTransaction for a type that expects a response: the transaction   *)
(* opens only once the packets are written.                                *)
TalkTransaction(k, objRequest, sent) ==
  talk' = IF sent THEN [talk EXCEPT ![k] = RespType(objRequest)] ELSE talk

(* cancelTransaction: closes what a lookup from the object finds, and      *)
(* nothing at all when the device is gone.                                 *)
TalkCancel(o, i) ==
  talk' = IF ioOpen THEN [talk EXCEPT ![TalkFind(o, i)] = "none"] ELSE talk

(* updateObject, the instance side: an instance the manager does not have  *)
(* yet is created, together with those below it; on a single instance      *)
(* object the registration fails.                                          *)
Updatable(o, i) == i < numInst[o] \/ o \in Multi

RegisterInstance(o, i) ==
  numInst' = IF i < numInst[o] THEN numInst ELSE [numInst EXCEPT ![o] = i + 1]

(* updateAck: does a packet of this type complete the transaction found?   *)
(* One on all instances completes on instance zero, which is sent last.    *)
Acks(type, o, i) ==
  LET k == TalkFind(o, i)
  IN  /\ talk[k] = type
      /\ k[2] = ALL_INSTANCES => i = 0

(* updateNack: any transaction found is completed, whatever it waits for.  *)
Nacks(o, i) == talk[TalkFind(o, i)] # "none"

TalkClose(k) == talk' = [talk EXCEPT ![k] = "none"]
=============================================================================
