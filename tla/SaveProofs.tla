---------------------------- MODULE SaveProofs -----------------------------
(***************************************************************************)
(* The queue of saves: every variable keeps its type; a reported success   *)
(* is one of the flight side as long as nobody asks it to load or erase;   *)
(* and, when the manager alone uses ObjectPersistence, its state follows its queue   *)
(* and its slots find the state they expect.                               *)
(***************************************************************************)
EXTENDS ObjectSave, SequenceTheorems, TLAPS

Slot == {"success", "failure", "updated"}

(* The slot posted at i tells the end of a transaction.                    *)
Tells(i) == guiEvents[i] \in {"success", "failure"}

NothingTold == \A i \in DOMAIN guiEvents : ~Tells(i)

(* What waits to be told: the current save has one update posted, or one   *)
(* transaction, or one slot that tells its end, and nothing else has any.  *)
Outstanding ==
  /\ requests \in {0, 1}
  /\ requests = 1 => trans = "none"
  /\ requests = 1 \/ trans # "none" => NothingTold
  /\ \A i, j \in DOMAIN guiEvents : Tells(i) /\ Tells(j) => i = j
  /\ saveState # "AWAITING_ACK" =>
       requests = 0 /\ trans = "none" /\ NothingTold

SaveInv == TypeOK /\ Outstanding /\ SaveTracksQueue

(* Data asks for no load and no erasure, and a result that says completed  *)
(* is of an object the flight side saved.                                  *)
Asked == {d \in Data : d.Operation \notin {"Load", "Delete"}}
TrueOf(saved) == {d \in Data : d.Operation = "Completed" => d.object \in saved}
PacketOf(saved) ==
  {p \in Packet : p.type = "OBJ" => /\ p.data \in TrueOf(saved)
                                    /\ p.data.Operation \in {"Completed", "Error"}}

RealInv ==
  /\ TypeOK
  /\ objper \in TrueOf(flightSaved)
  /\ objper \in Asked
  /\ toFlight \in Seq(Asked)
  /\ toGcs \in Seq(PacketOf(flightSaved))
  /\ SuccessIsReal

-----------------------------------------------------------------------------
(* Sequences and data.                                                     *)
LEMMA SeqMono ==
  ASSUME NEW S, NEW T, S \subseteq T, NEW s \in Seq(S)
  PROVE  s \in Seq(T)
<1>1. Len(s) \in Nat /\ s \in [1 .. Len(s) -> S]
  BY LenProperties
<1>2. s \in [1 .. Len(s) -> T]
  BY <1>1
<1>. QED
  BY <1>1, <1>2

LEMMA CarryKeeps ==
  ASSUME NEW S, NEW channel \in Seq(S), NEW packets \in Seq(S)
  PROVE  Carry(channel, packets) \in Seq(S)
<1>. DEFINE all == channel \o packets
<1>1. all \in Seq(S) /\ Len(all) \in Nat
  BY ConcatProperties, LenProperties
<1>2. ASSUME ~(Len(all) <= MaxLink)
      PROVE  SubSeq(all, 1, MaxLink) \in Seq(S)
  <2>1. MaxLink \in Nat
    BY BoundsAssumption
  <2>2. \A i \in 1 .. MaxLink : all[i] \in S
    BY <1>1, <1>2, <2>1, ElementOfSeq
  <2>. HIDE DEF all
  <2>. QED
    BY <2>1, <2>2, SubSeqProperties
<1>. QED
  BY <1>1, <1>2 DEF Carry

LEMMA TailHead ==
  ASSUME NEW S, NEW s \in Seq(S), s # <<>>
  PROVE  Head(s) \in S /\ Tail(s) \in Seq(S)
BY HeadTailProperties

LEMMA Packets ==
  /\ \A p \in Packet : p.type = "OBJ" => p.data \in Data
  /\ \A p \in Packet : p.type \in {"ACK", "NACK", "OBJ"}
  /\ Answer("ACK") \in Packet /\ Answer("NACK") \in Packet
  /\ \A d \in Data : [type |-> "OBJ", data |-> d] \in Packet
BY DEF Packet, Answer

LEMMA Results ==
  ASSUME NEW data \in Data, NEW op \in {"Completed", "Error"}
  PROVE  /\ [data EXCEPT !.Operation = op] \in Data
         /\ [data EXCEPT !.Operation = op].Operation = op
         /\ [data EXCEPT !.Operation = op].object = data.object
BY DEF Data

-----------------------------------------------------------------------------
(* Types.                                                                  *)
LEMMA SaveNextTypes ==
  ASSUME TypeOK, NEW objects \in Seq(Obj), SaveNext(objects)
  PROVE  /\ saveState' \in {"IDLE", "AWAITING_ACK", "AWAITING_COMPLETED"}
         /\ connected' \in SUBSET {"transactionCompleted", "objectUpdated"}
         /\ objper' \in Data /\ requests' \in Nat /\ lost' \in BOOLEAN
<1>1. CASE objects = <<>>
  BY <1>1 DEF SaveNext, TypeOK
<1>2. CASE objects # <<>>
  <2>1. [Operation |-> "Save", object |-> Head(objects)] \in Data
    BY <1>2, TailHead DEF Data, Operations
  <2>. QED
    BY <1>2, <2>1 DEF SaveNext, Update, TypeOK
<1>. QED
  BY <1>1, <1>2

GuiTypes ==
  /\ queue' \in Seq(Obj) /\ confirmed' \subseteq Obj /\ turn' \in BOOLEAN
  /\ saveState' \in {"IDLE", "AWAITING_ACK", "AWAITING_COMPLETED"}
  /\ connected' \in SUBSET {"transactionCompleted", "objectUpdated"}
  /\ objper' \in Data /\ requests' \in Nat /\ lost' \in BOOLEAN

LEMMA FinishTypes ==
  ASSUME TypeOK, NEW success, Finish(success)
  PROVE  GuiTypes
<1>1. Tail(queue) \in Seq(Obj) /\ Head(queue) \in Obj
  BY TailHead DEF Finish, TypeOK
<1>2. SaveNext(Tail(queue))
  BY DEF Finish
<1>3. /\ saveState' \in {"IDLE", "AWAITING_ACK", "AWAITING_COMPLETED"}
      /\ connected' \in SUBSET {"transactionCompleted", "objectUpdated"}
      /\ objper' \in Data /\ requests' \in Nat /\ lost' \in BOOLEAN
  BY <1>1, <1>2, SaveNextTypes
<1>4. confirmed' \subseteq Obj /\ queue' \in Seq(Obj) /\ turn' \in BOOLEAN
  BY <1>1 DEF Finish, TypeOK
<1>. QED
  BY <1>3, <1>4 DEF GuiTypes

LEMMA TypeInit == Init => TypeOK
<1>1. /\ <<>> \in Seq(Obj) /\ <<>> \in Seq({"success", "failure", "updated"})
      /\ <<>> \in Seq(Data) /\ <<>> \in Seq(Packet)
  BY EmptySeq
<1>2. 0 \in 0 .. MaxRetries
  BY BoundsAssumption
<1>3. [Operation : {"NOP"}, object : Obj] \subseteq Data
  BY DEF Data
<1>. SUFFICES ASSUME Init
              PROVE  TypeOK
  OBVIOUS
<1>4. turn \in BOOLEAN /\ lost \in BOOLEAN
  BY DEF Init
<1>5. /\ queue \in Seq(Obj) /\ guiEvents \in Seq({"success", "failure", "updated"})
      /\ toFlight \in Seq(Data) /\ toGcs \in Seq(Packet)
  BY <1>1 DEF Init
<1>6. /\ saveState \in {"IDLE", "AWAITING_ACK", "AWAITING_COMPLETED"}
      /\ failureTimer \in BOOLEAN
      /\ connected \in SUBSET {"transactionCompleted", "objectUpdated"}
      /\ objper \in Data /\ requests \in Nat /\ running \in BOOLEAN
      /\ trans \in {"none", "timed", "unsent", "untimed"}
      /\ retries \in 0 .. MaxRetries
      /\ flightSaved \subseteq Obj /\ confirmed \subseteq Obj
  BY <1>2, <1>3 DEF Init
<1>. QED
  BY <1>4, <1>5, <1>6 DEF TypeOK

LEMMA PostTypes ==
  ASSUME TypeOK, NEW signal, NEW slot \in Slot, Post(signal, slot)
  PROVE  guiEvents' \in Seq(Slot)
<1>1. Append(guiEvents, slot) \in Seq(Slot)
  BY AppendProperties DEF TypeOK, Slot
<1>. QED
  BY <1>1 DEF Post, TypeOK, Slot

LEMMA TypeNext == TypeOK /\ [Next]_vars => TypeOK'
<1>. SUFFICES ASSUME TypeOK, [Next]_vars
              PROVE  TypeOK'
  OBVIOUS
<1>s. guiEvents \in Seq(Slot) /\ (guiEvents' \in Seq(Slot) => guiEvents' \in Seq({"success", "failure", "updated"}))
  BY DEF TypeOK, Slot
<1>1. ASSUME NEW obj \in Obj, Save(obj)
      PROVE  TypeOK'
  <2>1. queue' \in Seq(Obj)
    BY <1>1, AppendProperties DEF Save, TypeOK
  <2>2. /\ saveState' \in {"IDLE", "AWAITING_ACK", "AWAITING_COMPLETED"}
        /\ connected' \in SUBSET {"transactionCompleted", "objectUpdated"}
        /\ objper' \in Data /\ requests' \in Nat /\ lost' \in BOOLEAN
    <3>1. CASE queue = <<>>
      <4>1. SaveNext(queue')
        BY <1>1, <3>1 DEF Save
      <4>. QED
        BY <2>1, <4>1, SaveNextTypes
    <3>2. CASE queue # <<>>
      BY <1>1, <3>2 DEF Save, TypeOK
    <3>. QED
      BY <3>1, <3>2
  <2>. QED
    BY <1>1, <2>1, <2>2 DEF Save, TypeOK, telemetry, link
<1>2. ASSUME RunSlot
      PROVE  TypeOK'
  <2>1. guiEvents' \in Seq(Slot)
    BY <1>s, <1>2, TailHead DEF RunSlot
  <2>2. GuiTypes /\ failureTimer' \in BOOLEAN
    <3>1. CASE TransactionSucceeded
      BY <3>1 DEF TransactionSucceeded, GuiTypes, TypeOK
    <3>2. CASE TransactionFailed
      BY <3>2, FinishTypes DEF TransactionFailed, TypeOK
    <3>3. CASE PersistenceUpdated
      <4>1. CASE saveState = "AWAITING_COMPLETED" /\ objper.Operation \in {"Completed", "Error"}
        BY <3>3, <4>1, FinishTypes DEF PersistenceUpdated
      <4>2. CASE ~(saveState = "AWAITING_COMPLETED" /\ objper.Operation \in {"Completed", "Error"})
        BY <3>3, <4>2 DEF PersistenceUpdated, GuiTypes, TypeOK
      <4>. QED
        BY <4>1, <4>2
    <3>. QED
      BY <1>2, <3>1, <3>2, <3>3 DEF RunSlot
  <2>. QED
    BY <1>2, <1>s, <2>1, <2>2 DEF RunSlot, GuiTypes, TypeOK, telemetry, link
<1>3. ASSUME FailureTimeout
      PROVE  TypeOK'
  <2>1. GuiTypes
    <3>1. CASE saveState = "AWAITING_COMPLETED"
      BY <1>3, <3>1, FinishTypes DEF FailureTimeout, OperationFailed
    <3>2. CASE saveState # "AWAITING_COMPLETED"
      BY <1>3, <3>2 DEF FailureTimeout, OperationFailed, GuiTypes, TypeOK
    <3>. QED
      BY <3>1, <3>2
  <2>. QED
    BY <1>3, <2>1 DEF FailureTimeout, GuiTypes, TypeOK, telemetry, link
<1>4. ASSUME NEW operation \in OtherOps, NEW obj \in Obj, OtherUpdate(operation, obj)
      PROVE  TypeOK'
  <2>1. [Operation |-> operation, object |-> obj] \in Data
    BY BoundsAssumption DEF Data, Operations
  <2>. QED
    BY <1>4, <2>1 DEF OtherUpdate, Update, TypeOK, gui, telemetry, link
<1>5. ASSUME TakeUpdate
      PROVE  TypeOK'
  <2>1. Carry(toFlight, <<objper>>) \in Seq(Data)
    <3>1. <<objper>> \in Seq(Data) /\ toFlight \in Seq(Data)
      BY DEF TypeOK
    <3>. QED
      BY <3>1, CarryKeeps
  <2>2. MaxRetries \in 0 .. MaxRetries
    BY BoundsAssumption
  <2>3. /\ toFlight' \in Seq(Data) /\ retries' \in 0 .. MaxRetries /\ lost' \in BOOLEAN
        /\ trans' \in {"none", "timed", "unsent", "untimed"} /\ requests' \in Nat
    <3>1. requests \in Nat /\ requests > 0 => requests - 1 \in Nat
      OBVIOUS
    <3>. QED
      BY <1>5, <2>1, <2>2, <3>1 DEF TakeUpdate, telemetry, TypeOK
  <2>. QED
    BY <1>5, <2>3 DEF TakeUpdate, TypeOK, gui
<1>6. ASSUME Timeout
      PROVE  TypeOK'
  <2>1. Carry(toFlight, <<objper>>) \in Seq(Data)
    <3>1. <<objper>> \in Seq(Data) /\ toFlight \in Seq(Data)
      BY DEF TypeOK
    <3>. QED
      BY <3>1, CarryKeeps
  <2>2. guiEvents' \in Seq(Slot)
    BY <1>6, <1>s, PostTypes DEF Timeout, Slot
  <2>3. /\ toFlight' \in Seq(Data) /\ retries' \in 0 .. MaxRetries /\ lost' \in BOOLEAN
        /\ trans' \in {"none", "timed", "unsent", "untimed"}
    <3>1. MaxRetries \in Nat
      BY BoundsAssumption
    <3>2. retries \in 0 .. MaxRetries /\ retries > 0 => retries - 1 \in 0 .. MaxRetries
      BY <3>1
    <3>. QED
      BY <1>6, <2>1, <3>2 DEF Timeout, RetriesRemain, CloseTransaction, TypeOK
  <2>. QED
    BY <1>6, <1>s, <2>2, <2>3 DEF Timeout, TypeOK, gui
<1>7. ASSUME Receive
      PROVE  TypeOK'
  <2>1. toGcs' \in Seq(Packet) /\ Head(toGcs) \in Packet
    BY <1>7, TailHead DEF Receive, TypeOK
  <2>2. guiEvents' \in Seq(Slot)
    BY <1>7, <1>s, PostTypes DEF Receive, Slot
  <2>3. objper' \in Data /\ trans' \in {"none", "timed", "unsent", "untimed"}
    BY <1>7, <2>1, Packets DEF Receive, CloseTransaction, TypeOK
  <2>. QED
    BY <1>7, <1>s, <2>1, <2>2, <2>3 DEF Receive, TypeOK, gui
<1>8. ASSUME Stop \/ StartStack
      PROVE  TypeOK'
  <2>1. <<>> \in Seq(Data) /\ <<>> \in Seq(Packet)
    BY EmptySeq
  <2>2. /\ toFlight' \in Seq(Data) /\ toGcs' \in Seq(Packet)
        /\ lost' \in BOOLEAN /\ running' \in BOOLEAN /\ requests' \in Nat
        /\ trans' \in {"none", "timed", "unsent", "untimed"}
        /\ flightSaved' = flightSaved /\ retries' = retries
    <3>1. CASE Stop
      BY <2>1, <3>1 DEF Stop, TypeOK
    <3>2. CASE StartStack
      BY <3>2 DEF StartStack, TypeOK, telemetry, link
    <3>. QED
      BY <1>8, <3>1, <3>2
  <2>3. UNCHANGED <<gui, objper, guiEvents>>
    BY <1>8 DEF Stop, StartStack
  <2>. QED
    BY <2>2, <2>3 DEF TypeOK, gui
<1>9. ASSUME Lose
      PROVE  TypeOK'
  <2>1. toFlight' \in Seq(Data) /\ toGcs' \in Seq(Packet)
    BY <1>9, TailHead DEF Lose, TypeOK
  <2>. QED
    BY <1>9, <2>1 DEF Lose, TypeOK, gui, telemetry
<1>10. ASSUME NEW done \in BOOLEAN, FlightReceive(done)
       PROVE  TypeOK'
  <2>. DEFINE data == Head(toFlight)
              op == IF done THEN "Completed" ELSE "Error"
              result == [data EXCEPT !.Operation = op]
  <2>1. toFlight' \in Seq(Data) /\ data \in Data
    BY <1>10, TailHead DEF FlightReceive, TypeOK
  <2>2. [type |-> "OBJ", data |-> result] \in Packet
    BY <2>1, Results, Packets
  <2>3. /\ Carry(toGcs, <<Answer("ACK"), [type |-> "OBJ", data |-> result]>>) \in Seq(Packet)
        /\ Carry(toGcs, <<Answer("ACK")>>) \in Seq(Packet)
        /\ Carry(toGcs, <<Answer("NACK")>>) \in Seq(Packet)
    <3>1. /\ <<Answer("ACK"), [type |-> "OBJ", data |-> result]>> \in Seq(Packet)
          /\ <<Answer("ACK")>> \in Seq(Packet) /\ <<Answer("NACK")>> \in Seq(Packet)
      BY <2>2, Packets
    <3>. QED
      BY <3>1, CarryKeeps DEF TypeOK
  <2>4. toGcs' \in Seq(Packet)
    BY <1>10, <2>3 DEF FlightReceive
  <2>5. flightSaved' \subseteq Obj
    <3>1. data.object \in Obj
      BY <2>1 DEF Data
    <3>. QED
      BY <1>10, <3>1 DEF FlightReceive, TypeOK
  <2>. QED
    BY <1>10, <2>1, <2>4, <2>5 DEF FlightReceive, TypeOK, gui, telemetry
<1>11. ASSUME UNCHANGED vars
       PROVE  TypeOK'
  BY <1>11 DEF vars, TypeOK, gui, telemetry, link
<1>. QED
  BY <1>1, <1>2, <1>3, <1>4, <1>5, <1>6, <1>7, <1>8, <1>9, <1>10, <1>11 DEF Next

(* The type of every variable, whoever else uses ObjectPersistence.        *)
THEOREM SaveTypes == Spec => []TypeOK
<1>. QED
  BY TypeInit, TypeNext, PTL DEF Spec

-----------------------------------------------------------------------------
(* The manager alone uses ObjectPersistence.                               *)
Idle == requests = 0 /\ trans = "none"

LEMMA SaveInit == Init => SaveInv
BY TypeInit DEF Init, SaveInv, Outstanding, SaveTracksQueue, Tells, NothingTold

(* The next save starts, or nothing is left to save, with nothing          *)
(* outstanding of the last one.                                            *)
LEMMA SaveNextKeeps ==
  ASSUME TypeOK, Idle, trans' = "none", NothingTold', NEW objects,
         queue' = objects, SaveNext(objects)
  PROVE  Outstanding' /\ SaveTracksQueue'
BY DEF Idle, SaveNext, Update, Outstanding, SaveTracksQueue, NothingTold

LEMMA FinishKeeps ==
  ASSUME TypeOK, Idle, trans' = "none", NothingTold', NEW success, Finish(success)
  PROVE  Outstanding' /\ SaveTracksQueue'
BY SaveNextKeeps DEF Finish

(* What is posted, and what is left when the first slot has run.           *)
LEMMA PostedSlots ==
  ASSUME TypeOK, NEW slot \in Slot, guiEvents' \in {guiEvents, Append(guiEvents, slot)}
  PROVE  /\ slot = "updated" =>
              /\ NothingTold => NothingTold'
              /\ (\A i, j \in DOMAIN guiEvents : Tells(i) /\ Tells(j) => i = j)
                   => \A i, j \in DOMAIN guiEvents' : Tells(i)' /\ Tells(j)' => i = j
         /\ NothingTold => \A i, j \in DOMAIN guiEvents' : Tells(i)' /\ Tells(j)' => i = j
<1>1. guiEvents \in Seq(Slot) /\ Len(guiEvents) \in Nat /\ DOMAIN guiEvents = 1 .. Len(guiEvents)
  BY LenProperties DEF TypeOK, Slot
<1>2. CASE guiEvents' = guiEvents
  BY <1>2 DEF NothingTold, Tells
<1>3. CASE guiEvents' = Append(guiEvents, slot)
  <2>1. /\ DOMAIN guiEvents' = 1 .. Len(guiEvents) + 1
        /\ \A i \in 1 .. Len(guiEvents) : guiEvents'[i] = guiEvents[i]
        /\ guiEvents'[Len(guiEvents) + 1] = slot
    BY <1>1, <1>3, AppendProperties, LenProperties
  <2>2. \A i \in DOMAIN guiEvents' : i \in DOMAIN guiEvents \/ i = Len(guiEvents) + 1
    BY <1>1, <2>1
  <2>3. \A i \in DOMAIN guiEvents : Tells(i)' = Tells(i)
    BY <1>1, <2>1 DEF Tells
  <2>4. \A i \in DOMAIN guiEvents' : i = Len(guiEvents) + 1 /\ slot = "updated" => ~Tells(i)'
    BY <2>1 DEF Tells
  <2>. QED
    BY <2>2, <2>3, <2>4 DEF NothingTold
<1>. QED
  BY <1>2, <1>3

LEMMA TakenSlot ==
  ASSUME TypeOK, guiEvents # <<>>, guiEvents' = Tail(guiEvents),
         \A i, j \in DOMAIN guiEvents : Tells(i) /\ Tells(j) => i = j
  PROVE  /\ Head(guiEvents) = guiEvents[1] /\ 1 \in DOMAIN guiEvents
         /\ Tells(1) => NothingTold'
         /\ NothingTold => NothingTold'
         /\ \A i, j \in DOMAIN guiEvents' : Tells(i)' /\ Tells(j)' => i = j
<1>1. /\ guiEvents \in Seq(Slot) /\ Len(guiEvents) \in Nat \ {0}
      /\ DOMAIN guiEvents = 1 .. Len(guiEvents)
  BY LenProperties, EmptySeq DEF TypeOK, Slot
<1>2. /\ Len(guiEvents') = Len(guiEvents) - 1
      /\ \A i \in 1 .. Len(guiEvents) - 1 : guiEvents'[i] = guiEvents[i + 1]
      /\ guiEvents' \in Seq(Slot)
  BY <1>1, HeadTailProperties
<1>3. DOMAIN guiEvents' = 1 .. Len(guiEvents) - 1
  BY <1>2, LenProperties
<1>4. \A i \in DOMAIN guiEvents' :
        i \in Nat /\ i + 1 \in DOMAIN guiEvents /\ i + 1 # 1 /\ Tells(i)' = Tells(i + 1)
  BY <1>1, <1>2, <1>3 DEF Tells
<1>5. Head(guiEvents) = guiEvents[1] /\ 1 \in DOMAIN guiEvents
  BY <1>1
<1>6. \A i, j \in DOMAIN guiEvents' : i + 1 = j + 1 => i = j
  BY <1>4
<1>. QED
  BY <1>4, <1>5, <1>6 DEF NothingTold

LEMMA SaveStep ==
  ASSUME OtherOps = {}
  PROVE  SaveInv /\ [Next]_vars => SaveInv'
<1>. SUFFICES ASSUME SaveInv, [Next]_vars
              PROVE  Outstanding' /\ SaveTracksQueue'
  BY TypeNext DEF SaveInv
<1>t. TypeOK /\ Outstanding /\ SaveTracksQueue
  BY DEF SaveInv
<1>. DEFINE Goal == Outstanding' /\ SaveTracksQueue'
<1>1. ASSUME NEW obj \in Obj, Save(obj)
      PROVE  Goal
  <2>1. queue' # <<>>
    BY <1>1, <1>t, AppendProperties DEF Save, TypeOK
  <2>2. CASE queue = <<>>
    <3>1. Idle /\ NothingTold
      BY <1>t, <2>2 DEF Outstanding, SaveTracksQueue, Idle
    <3>. QED
      BY <1>1, <1>t, <2>2, <3>1, SaveNextKeeps DEF Save, telemetry, Idle, NothingTold, Tells
  <2>3. CASE queue # <<>>
    BY <1>1, <1>t, <2>1, <2>3
       DEF Save, telemetry, Outstanding, SaveTracksQueue, NothingTold, Tells
  <2>. QED
    BY <2>2, <2>3
<1>2. CASE RunSlot
  <2>. DEFINE slot == Head(guiEvents)
  <2>1. /\ slot = guiEvents[1] /\ 1 \in DOMAIN guiEvents
        /\ Tells(1) => NothingTold'
        /\ NothingTold => NothingTold'
        /\ \A i, j \in DOMAIN guiEvents' : Tells(i)' /\ Tells(j)' => i = j
    BY <1>2, <1>t, TakenSlot DEF RunSlot, Outstanding
  <2>2. UNCHANGED trans
    BY <1>2 DEF RunSlot, telemetry
  <2>3. CASE slot \in {"success", "failure"}
    <3>1. Tells(1) /\ ~NothingTold
      BY <2>1, <2>3 DEF Tells, NothingTold
    <3>2. Idle /\ saveState = "AWAITING_ACK"
      BY <1>t, <3>1 DEF Outstanding, Idle, TypeOK
    <3>3. NothingTold' /\ queue # <<>>
      BY <1>t, <2>1, <3>1, <3>2 DEF SaveTracksQueue
    <3>4. CASE TransactionSucceeded
      BY <2>2, <3>2, <3>3, <3>4
         DEF TransactionSucceeded, Outstanding, SaveTracksQueue, Idle, NothingTold
    <3>5. CASE TransactionFailed
      BY <1>t, <2>2, <3>2, <3>3, <3>5, FinishKeeps DEF TransactionFailed, Idle
    <3>. QED
      BY <1>2, <2>3, <3>4, <3>5 DEF RunSlot
  <2>4. CASE slot \notin {"success", "failure"}
    <3>1. PersistenceUpdated
      BY <1>2, <2>4 DEF RunSlot
    <3>2. CASE saveState = "AWAITING_COMPLETED" /\ objper.Operation \in {"Completed", "Error"}
      <4>1. Idle /\ NothingTold
        BY <1>t, <3>2 DEF Outstanding, Idle
      <4>2. PICK success : Finish(success)
        BY <3>1, <3>2 DEF PersistenceUpdated
      <4>. QED
        BY <1>t, <2>1, <2>2, <4>1, <4>2, FinishKeeps DEF Idle
    <3>3. CASE ~(saveState = "AWAITING_COMPLETED" /\ objper.Operation \in {"Completed", "Error"})
      <4>1. UNCHANGED <<failureTimer, queue, saveState, connected, requests>>
        BY <3>1, <3>3 DEF PersistenceUpdated
      <4>. QED
        BY <1>t, <2>1, <2>2, <4>1 DEF Outstanding, SaveTracksQueue
    <3>. QED
      BY <3>2, <3>3
  <2>. QED
    BY <2>3, <2>4
<1>3. CASE FailureTimeout
  <2>1. UNCHANGED <<trans, guiEvents>>
    BY <1>3 DEF FailureTimeout, telemetry
  <2>2. CASE saveState = "AWAITING_COMPLETED"
    <3>1. Idle /\ NothingTold
      BY <1>t, <2>2 DEF Outstanding, Idle
    <3>2. NothingTold'
      BY <2>1, <3>1 DEF NothingTold, Tells
    <3>. QED
      BY <1>3, <1>t, <2>1, <2>2, <3>1, <3>2, FinishKeeps DEF FailureTimeout, OperationFailed, Idle
  <2>3. CASE saveState # "AWAITING_COMPLETED"
    BY <1>3, <1>t, <2>1, <2>3
       DEF FailureTimeout, OperationFailed, Outstanding, SaveTracksQueue, NothingTold, Tells
  <2>. QED
    BY <2>2, <2>3
<1>4. CASE TakeUpdate
  <2>1. requests = 1 /\ requests' = 0 /\ NothingTold /\ saveState = "AWAITING_ACK"
    BY <1>4, <1>t DEF TakeUpdate, Outstanding, TypeOK
  <2>. QED
    BY <1>4, <1>t, <2>1 DEF TakeUpdate, Outstanding, SaveTracksQueue, NothingTold, Tells, gui
<1>5. CASE Timeout
  <2>1. trans' = "none" \/ guiEvents' = guiEvents
    BY <1>5 DEF Timeout, CloseTransaction
  <2>2. requests = 0 /\ NothingTold /\ saveState = "AWAITING_ACK" /\ requests' = 0
    BY <1>5, <1>t DEF Timeout, Outstanding
  <2>3. guiEvents' \in {guiEvents, Append(guiEvents, "failure")}
    BY <1>5 DEF Timeout, Post
  <2>4. \A i, j \in DOMAIN guiEvents' : Tells(i)' /\ Tells(j)' => i = j
    BY <1>t, <2>2, <2>3, PostedSlots DEF Slot
  <2>5. trans' # "none" => NothingTold'
    BY <1>5, <2>1, <2>2 DEF NothingTold, Tells
  <2>. QED
    BY <1>5, <1>t, <2>2, <2>4, <2>5 DEF Timeout, Outstanding, SaveTracksQueue, gui
<1>6. CASE Receive
  <2>. DEFINE packet == Head(toGcs)
  <2>0. UNCHANGED <<queue, saveState, failureTimer, connected, requests>>
    BY <1>6 DEF Receive, gui
  <2>1. CASE packet.type # "OBJ" /\ trans \in {"timed", "untimed"}
    <3>1. requests = 0 /\ NothingTold /\ saveState = "AWAITING_ACK"
      BY <1>t, <2>1 DEF Outstanding
    <3>2. trans' = "none"
      BY <1>6, <2>1 DEF Receive, CloseTransaction
    <3>3. PICK slot \in Slot : guiEvents' \in {guiEvents, Append(guiEvents, slot)}
      BY <1>6, <2>1 DEF Receive, Post, Slot
    <3>4. \A i, j \in DOMAIN guiEvents' : Tells(i)' /\ Tells(j)' => i = j
      BY <1>t, <3>1, <3>3, PostedSlots
    <3>. QED
      BY <1>t, <2>0, <3>1, <3>2, <3>4 DEF Outstanding, SaveTracksQueue
  <2>2. CASE packet.type # "OBJ" /\ trans \notin {"timed", "untimed"}
    BY <1>6, <1>t, <2>0, <2>2 DEF Receive, Outstanding, SaveTracksQueue, NothingTold, Tells
  <2>3. CASE packet.type = "OBJ"
    <3>1. guiEvents' \in {guiEvents, Append(guiEvents, "updated")} /\ trans' = trans
      BY <1>6, <2>3 DEF Receive, Post
    <3>2. /\ NothingTold => NothingTold'
          /\ \A i, j \in DOMAIN guiEvents' : Tells(i)' /\ Tells(j)' => i = j
      BY <1>t, <3>1, PostedSlots DEF Slot, Outstanding
    <3>. QED
      BY <1>t, <2>0, <3>1, <3>2 DEF Outstanding, SaveTracksQueue
  <2>. QED
    BY <2>1, <2>2, <2>3
<1>7. CASE Stop
  BY <1>7, <1>t DEF Stop, gui, Outstanding, SaveTracksQueue, NothingTold, Tells
<1>8. CASE StartStack \/ Lose
  BY <1>8, <1>t DEF StartStack, Lose, gui, telemetry, Outstanding, SaveTracksQueue,
       NothingTold, Tells
<1>9. ASSUME NEW done \in BOOLEAN, FlightReceive(done)
      PROVE  Goal
  BY <1>9, <1>t DEF FlightReceive, gui, telemetry, Outstanding, SaveTracksQueue,
       NothingTold, Tells
<1>10. CASE UNCHANGED vars
  BY <1>10, <1>t DEF vars, gui, telemetry, Outstanding, SaveTracksQueue, NothingTold, Tells
<1>. QED
  BY <1>1, <1>2, <1>3, <1>4, <1>5, <1>6, <1>7, <1>8, <1>9, <1>10 DEF Next

LEMMA SaveInvariant ==
  ASSUME OtherOps = {}
  PROVE  Spec => []SaveInv
<1>. QED
  BY SaveInit, SaveStep, PTL DEF Spec

(* While no other part of the station uses ObjectPersistence, something is *)
(* being saved if and only if something is queued, and the slot or the     *)
(* timer that can end the save is there, whatever is lost or stopped.      *)
THEOREM TracksQueue ==
  ASSUME OtherOps = {}
  PROVE  Spec => []SaveTracksQueue
<1>1. SaveInv => SaveTracksQueue
  BY DEF SaveInv
<1>. QED
  BY <1>1, SaveInvariant, PTL

(* Under the same condition the slot of a finished transaction finds the   *)
(* state it asserts, however late it runs.                                 *)
THEOREM SlotsExpected ==
  ASSUME OtherOps = {}
  PROVE  Spec => []SlotExpected
<1>1. SaveInv => SlotExpected
  <2>. SUFFICES ASSUME SaveInv, guiEvents # <<>>, Head(guiEvents) \in {"success", "failure"}
                PROVE  saveState = "AWAITING_ACK" /\ queue # <<>>
    BY DEF SlotExpected
  <2>1. guiEvents \in Seq(Slot) /\ Len(guiEvents) \in Nat \ {0} /\ DOMAIN guiEvents = 1 .. Len(guiEvents)
    BY LenProperties, EmptySeq DEF SaveInv, TypeOK, Slot
  <2>2. ~NothingTold
    BY <2>1 DEF NothingTold, Tells
  <2>3. saveState = "AWAITING_ACK"
    BY <2>2 DEF SaveInv, Outstanding
  <2>. QED
    BY <2>3 DEF SaveInv, SaveTracksQueue
<1>. QED
  BY <1>1, SaveInvariant, PTL

-----------------------------------------------------------------------------
(* A success is real.                                                      *)
Sent == objper \in TrueOf(flightSaved) /\ objper \in Asked

LEMMA RealInit == Init => RealInv
<1>. SUFFICES ASSUME Init
              PROVE  RealInv
  OBVIOUS
<1>1. <<>> \in Seq(Asked) /\ <<>> \in Seq(PacketOf(flightSaved))
  BY EmptySeq
<1>. QED
  BY <1>1, TypeInit DEF Init, RealInv, TrueOf, Asked, TypeOK, SuccessIsReal

(* The next save, if any, is asked for and is not yet a result.            *)
LEMMA SaveNextSent ==
  ASSUME TypeOK, Sent, UNCHANGED flightSaved,
         NEW objects \in Seq(Obj), SaveNext(objects)
  PROVE  Sent'
<1>1. CASE objects = <<>>
  BY <1>1 DEF SaveNext, Sent
<1>2. CASE objects # <<>>
  <2>1. Head(objects) \in Obj
    BY <1>2, TailHead
  <2>. QED
    BY <1>2, <2>1 DEF SaveNext, Update, Sent, TrueOf, Asked, Data, Operations
<1>. QED
  BY <1>1, <1>2

(* What a slot that ends a save reports.                                   *)
LEMMA FinishReal ==
  ASSUME RealInv, UNCHANGED flightSaved,
         NEW success, Finish(success),
         success => objper.Operation = "Completed" /\ RightObject
  PROVE  Sent' /\ SuccessIsReal'
<1>1. Tail(queue) \in Seq(Obj) /\ Head(queue) \in Obj
  BY TailHead DEF Finish, RealInv, TypeOK
<1>2. Sent'
  BY <1>1, SaveNextSent DEF Finish, RealInv, Sent
<1>3. success => \E other \in flightSaved : Id[other] = Id[Head(queue)]
  BY DEF RealInv, TrueOf, RightObject
<1>. QED
  BY <1>2, <1>3 DEF Finish, RealInv, SuccessIsReal

LEMMA RealStep ==
  ASSUME OtherOps \subseteq {"Save"}
  PROVE  RealInv /\ [Next]_vars => RealInv'
<1>. SUFFICES ASSUME RealInv, [Next]_vars
              PROVE  Sent' /\ toFlight' \in Seq(Asked)
                       /\ toGcs' \in Seq(PacketOf(flightSaved')) /\ SuccessIsReal'
  BY TypeNext DEF RealInv, Sent
<1>t. /\ TypeOK /\ Sent /\ toFlight \in Seq(Asked) /\ toGcs \in Seq(PacketOf(flightSaved))
      /\ SuccessIsReal
  BY DEF RealInv, Sent
<1>. DEFINE Goal == Sent' /\ toFlight' \in Seq(Asked)
                      /\ toGcs' \in Seq(PacketOf(flightSaved')) /\ SuccessIsReal'
<1>a. ASSUME UNCHANGED link, UNCHANGED trans, Sent', SuccessIsReal'
      PROVE  Goal
  BY <1>t, <1>a DEF link
<1>b. UNCHANGED <<confirmed, flightSaved>> => SuccessIsReal'
  BY <1>t DEF SuccessIsReal
<1>1. ASSUME NEW obj \in Obj, Save(obj)
      PROVE  Goal
  <2>1. UNCHANGED link /\ UNCHANGED trans /\ UNCHANGED <<confirmed, flightSaved>>
    BY <1>1 DEF Save, telemetry, link
  <2>2. queue' \in Seq(Obj)
    BY <1>1, <1>t, AppendProperties DEF Save, TypeOK
  <2>3. Sent'
    <3>1. CASE queue = <<>>
      BY <1>1, <1>t, <2>1, <2>2, <3>1, SaveNextSent DEF Save
    <3>2. CASE queue # <<>>
      BY <1>1, <1>t, <2>1, <3>2 DEF Save, Sent
    <3>. QED
      BY <3>1, <3>2
  <2>. QED
    BY <1>a, <1>b, <2>1, <2>3
<1>2. CASE RunSlot
  <2>1. UNCHANGED link /\ UNCHANGED trans /\ UNCHANGED flightSaved
    BY <1>2 DEF RunSlot, telemetry, link
  <2>2. CASE TransactionSucceeded
    BY <1>a, <1>b, <1>t, <2>1, <2>2 DEF TransactionSucceeded, Sent
  <2>3. CASE TransactionFailed
    <3>1. Sent' /\ SuccessIsReal'
      BY <2>1, <2>3, FinishReal DEF TransactionFailed
    <3>. QED
      BY <1>a, <2>1, <3>1
  <2>4. CASE PersistenceUpdated
    <3>1. CASE saveState = "AWAITING_COMPLETED" /\ objper.Operation \in {"Completed", "Error"}
      <4>1. Finish(objper.Operation = "Completed" /\ RightObject)
        BY <2>4, <3>1 DEF PersistenceUpdated
      <4>2. Sent' /\ SuccessIsReal'
        BY <2>1, <4>1, FinishReal
      <4>. QED
        BY <1>a, <2>1, <4>2
    <3>2. CASE ~(saveState = "AWAITING_COMPLETED" /\ objper.Operation \in {"Completed", "Error"})
      <4>1. UNCHANGED <<confirmed, objper, requests>>
        BY <2>4, <3>2 DEF PersistenceUpdated
      <4>. QED
        BY <1>a, <1>b, <1>t, <2>1, <4>1 DEF Sent
    <3>. QED
      BY <3>1, <3>2
  <2>. QED
    BY <1>2, <2>2, <2>3, <2>4 DEF RunSlot
<1>3. CASE FailureTimeout
  <2>1. UNCHANGED link /\ UNCHANGED trans /\ UNCHANGED flightSaved
    BY <1>3 DEF FailureTimeout, telemetry, link
  <2>2. CASE saveState = "AWAITING_COMPLETED"
    <3>1. Finish(FALSE)
      BY <1>3, <2>2 DEF FailureTimeout, OperationFailed
    <3>2. Sent' /\ SuccessIsReal'
      BY <2>1, <3>1, FinishReal
    <3>. QED
      BY <1>a, <2>1, <3>2
  <2>3. CASE saveState # "AWAITING_COMPLETED"
    <3>1. UNCHANGED <<confirmed, objper, requests>>
      BY <1>3, <2>3 DEF FailureTimeout, OperationFailed
    <3>. QED
      BY <1>a, <1>b, <1>t, <2>1, <3>1 DEF Sent
  <2>. QED
    BY <2>2, <2>3
<1>4. ASSUME NEW operation \in OtherOps, NEW obj \in Obj, OtherUpdate(operation, obj)
      PROVE  Goal
  <2>1. operation = "Save"
    BY BoundsAssumption
  <2>2. Sent'
    BY <1>4, <2>1 DEF OtherUpdate, Update, Sent, TrueOf, Asked, Data, Operations
  <2>. QED
    BY <1>4, <1>a, <1>b, <2>2 DEF OtherUpdate, gui, telemetry, link
<1>c. ASSUME toFlight' \in {toFlight, Carry(toFlight, <<objper>>)}
      PROVE  toFlight' \in Seq(Asked)
  <2>1. <<objper>> \in Seq(Asked)
    BY <1>t DEF Sent
  <2>. QED
    BY <1>c, <1>t, <2>1, CarryKeeps
<1>5. CASE TakeUpdate
  <2>2. toFlight' \in Seq(Asked)
    BY <1>5, <1>c DEF TakeUpdate
  <2>3. UNCHANGED <<objper, toGcs, flightSaved, confirmed>>
    BY <1>5 DEF TakeUpdate, gui
  <2>. QED
    BY <1>b, <1>t, <2>2, <2>3 DEF Sent
<1>6. CASE Timeout
  <2>2. toFlight' \in Seq(Asked)
    BY <1>6, <1>c DEF Timeout
  <2>3. UNCHANGED <<objper, toGcs, flightSaved, confirmed>>
    BY <1>6 DEF Timeout, gui
  <2>. QED
    BY <1>b, <1>t, <2>2, <2>3 DEF Sent
<1>7. CASE Receive
  <2>. DEFINE packet == Head(toGcs)
  <2>1. packet \in PacketOf(flightSaved) /\ toGcs' \in Seq(PacketOf(flightSaved))
    BY <1>7, <1>t, TailHead DEF Receive
  <2>2. UNCHANGED <<toFlight, flightSaved, confirmed>>
    BY <1>7 DEF Receive, gui
  <2>3. Sent'
    <3>1. CASE packet.type = "OBJ"
      <4>1. objper' = packet.data /\ packet.data \in TrueOf(flightSaved)
        BY <1>7, <2>1, <3>1 DEF Receive, PacketOf
      <4>2. objper' \in Asked
        BY <2>1, <3>1, <4>1 DEF PacketOf, TrueOf, Asked
      <4>. QED
        BY <2>2, <4>1, <4>2 DEF Sent
    <3>2. CASE packet.type # "OBJ"
      BY <1>7, <1>t, <2>2, <3>2 DEF Receive, Sent
    <3>. QED
      BY <3>1, <3>2
  <2>. QED
    BY <1>b, <1>t, <2>1, <2>2, <2>3
<1>8. CASE Stop \/ StartStack
  <2>1. <<>> \in Seq(Asked) /\ <<>> \in Seq(PacketOf(flightSaved))
    BY EmptySeq
  <2>2. UNCHANGED <<objper, flightSaved, confirmed>>
    BY <1>8 DEF Stop, StartStack, gui, link
  <2>3. toFlight' \in {<<>>, toFlight} /\ toGcs' \in {<<>>, toGcs}
    BY <1>8 DEF Stop, StartStack, link
  <2>. QED
    BY <1>b, <1>t, <2>1, <2>2, <2>3 DEF Sent
<1>9. CASE Lose
  <2>1. toFlight' \in Seq(Asked) /\ toGcs' \in Seq(PacketOf(flightSaved))
    BY <1>9, <1>t, TailHead DEF Lose
  <2>2. UNCHANGED <<objper, flightSaved, confirmed>>
    BY <1>9 DEF Lose, gui, telemetry
  <2>. QED
    BY <1>b, <1>t, <2>1, <2>2 DEF Sent
<1>10. ASSUME NEW done \in BOOLEAN, FlightReceive(done)
       PROVE  Goal
  <2>. DEFINE data == Head(toFlight)
              op == IF done THEN "Completed" ELSE "Error"
              result == [data EXCEPT !.Operation = op]
              answers == <<Answer("ACK"), [type |-> "OBJ", data |-> result]>>
  <2>1. toFlight' \in Seq(Asked) /\ data \in Asked
    BY <1>10, <1>t, TailHead DEF FlightReceive
  <2>2. flightSaved \subseteq flightSaved'
    BY <1>10 DEF FlightReceive
  <2>3. PacketOf(flightSaved) \subseteq PacketOf(flightSaved')
    BY <2>2 DEF PacketOf, TrueOf
  <2>4. toGcs \in Seq(PacketOf(flightSaved'))
    BY <1>t, <2>3, SeqMono
  <2>5. Answer("ACK") \in PacketOf(flightSaved') /\ Answer("NACK") \in PacketOf(flightSaved')
    BY Packets DEF PacketOf, Answer
  <2>6. ASSUME toGcs' \in {Carry(toGcs, <<Answer("ACK")>>), Carry(toGcs, <<Answer("NACK")>>)}
        PROVE  toGcs' \in Seq(PacketOf(flightSaved'))
    <3>1. /\ <<Answer("ACK")>> \in Seq(PacketOf(flightSaved'))
          /\ <<Answer("NACK")>> \in Seq(PacketOf(flightSaved'))
      BY <2>5
    <3>. DEFINE real == PacketOf(flightSaved')
    <3>2. /\ toGcs \in Seq(real)
          /\ <<Answer("ACK")>> \in Seq(real) /\ <<Answer("NACK")>> \in Seq(real)
      BY <2>4, <3>1
    <3>. HIDE DEF real
    <3>3. /\ Carry(toGcs, <<Answer("ACK")>>) \in Seq(real)
          /\ Carry(toGcs, <<Answer("NACK")>>) \in Seq(real)
      BY <3>2, CarryKeeps
    <3>4. toGcs' \in Seq(real)
      BY <2>6, <3>3
    <3>. QED
      BY <3>4 DEF real
  <2>7. ASSUME /\ data.Operation \in Operations
               /\ toGcs' = Carry(toGcs, answers)
               /\ flightSaved' = IF done /\ data.Operation = "Save"
                                 THEN flightSaved \cup {data.object} ELSE flightSaved
        PROVE  toGcs' \in Seq(PacketOf(flightSaved'))
    <3>1. data \in Data /\ data.Operation = "Save"
      BY <2>1, <2>7 DEF Asked, Operations
    <3>2. result \in Data /\ result.Operation = op /\ result.object = data.object
      BY <3>1, Results
    <3>3. result \in TrueOf(flightSaved')
      <4>. HIDE DEF result
      <4>1. result.Operation = "Completed" => done
        BY <3>2
      <4>2. done => result.object \in flightSaved'
        BY <2>7, <3>1, <3>2
      <4>. QED
        BY <3>2, <4>1, <4>2 DEF TrueOf
    <3>4. [type |-> "OBJ", data |-> result] \in PacketOf(flightSaved')
      <4>. HIDE DEF result
      <4>. QED
        BY <3>2, <3>3, Packets DEF PacketOf
    <3>5. answers \in Seq(PacketOf(flightSaved'))
      BY <2>5, <3>4
    <3>. DEFINE real == PacketOf(flightSaved')
    <3>6. toGcs \in Seq(real) /\ answers \in Seq(real)
      BY <2>4, <3>5
    <3>. HIDE DEF real, answers
    <3>7. Carry(toGcs, answers) \in Seq(real)
      BY <3>6, CarryKeeps
    <3>8. toGcs' \in Seq(real)
      BY <2>7, <3>7 DEF answers
    <3>. QED
      BY <3>8 DEF real
  <2>8. toGcs' \in Seq(PacketOf(flightSaved'))
    BY <1>10, <2>6, <2>7 DEF FlightReceive
  <2>9. UNCHANGED <<objper, confirmed>>
    BY <1>10 DEF FlightReceive, gui, telemetry
  <2>10. Sent'
    BY <1>t, <2>2, <2>9 DEF Sent, TrueOf
  <2>11. SuccessIsReal'
    BY <1>t, <2>2, <2>9 DEF SuccessIsReal
  <2>. QED
    BY <2>1, <2>8, <2>10, <2>11
<1>11. CASE UNCHANGED vars
  BY <1>11, <1>a, <1>b, <1>t DEF vars, gui, link, telemetry, Sent
<1>. QED
  BY <1>1, <1>2, <1>3, <1>4, <1>5, <1>6, <1>7, <1>8, <1>9, <1>10, <1>11 DEF Next

(* When other parts of the station save, but neither load nor erase, a     *)
(* success is reported only for an object ID the flight side did save:     *)
(* over a link that loses packets, after late answers and across stacks.   *)
(* The result of a load or of an erasure, by the object browser say, is    *)
(* taken for that of a save.                                               *)
THEOREM SuccessReal ==
  ASSUME OtherOps \subseteq {"Save"}
  PROVE  Spec => []SuccessIsReal
<1>1. RealInv => SuccessIsReal
  BY DEF RealInv
<1>. QED
  BY <1>1, RealInit, RealStep, PTL DEF Spec
=============================================================================
