---------------------------- MODULE BrokerProofs ----------------------------
(***************************************************************************)
(* For single-instance objects, Telemetry implements RequestBroker: every  *)
(* step maps to a step of the broker or to a stutter.                      *)
(***************************************************************************)
EXTENDS TelemetryProofs

(* A single-instance object has instance zero only, and is never the       *)
(* subject of a transaction on all instances.                              *)
SingleInv ==
  /\ TypeOK
  /\ \A o \in Single : numInst[o] = 1 /\ <<o, ALL_INSTANCES>> \notin TransOpen

OpenOf(o) == <<o, 0>> \in TransOpen
LeftOf(o) == IF OpenOf(o) THEN trans[<<o, 0>>].retriesRemaining ELSE 0

AskedOf(o) == <<o, 0>> \in waiting

LeftView == [o \in Single |-> IF o \in SingleOpen
                              THEN trans[<<o, 0>>].retriesRemaining ELSE 0]
AskingView == {o \in Single : <<o, 0>> \in waiting}

(* The broker's state in terms of each object on its own, before and after *)
(* a step.                                                                 *)
LEMMA BrokerView ==
  /\ SingleOpen = {o \in Single : OpenOf(o)}
  /\ SingleOpen' = {o \in Single : OpenOf(o)'}
  /\ LeftView = [o \in Single |-> LeftOf(o)]
  /\ LeftView' = [o \in Single |-> LeftOf(o)']
  /\ AskingView = {o \in Single : AskedOf(o)}
  /\ AskingView' = {o \in Single : AskedOf(o)'}
BY DEF SingleOpen, OpenOf, LeftOf, LeftView, AskingView, AskedOf

LEMMA SingleFind ==
  ASSUME SingleInv, NEW o \in Single
  PROVE  /\ 0 \in Inst
         /\ <<o, 0>> \in Key
         /\ \A i \in Inst : i < numInst[o] => i = 0
         /\ InProgress(o, 0) <=> OpenOf(o)
         /\ InProgress(o, 0) => TransFind(o, 0) = <<o, 0>>
<1>1. 0 \in Inst
  BY InstanceBounds DEF Inst
<1>2. <<o, 0>> \in Key
  BY <1>1 DEF Single, Key
<1>3. \A i \in Inst : i < 1 => i = 0
  BY InstancesAssumption DEF Inst
<1>. QED
  BY <1>1, <1>2, <1>3 DEF SingleInv, InProgress, TransFind, FindKey, OpenOf

LEMMA SingleInit == Init => SingleInv
BY InitType DEF SingleInv, Init, TalkInit, TransOpen, Single

LEMMA SingleNext == SingleInv /\ [Next]_vars => SingleInv'
<1>. SUFFICES ASSUME SingleInv, [Next]_vars,
                     NEW p \in Single
              PROVE  (numInst[p] = 1 /\ <<p, ALL_INSTANCES>> \notin TransOpen)'
  BY NextType DEF SingleInv
<1>. DEFINE Goal == (numInst[p] = 1 /\ <<p, ALL_INSTANCES>> \notin TransOpen)'
<1>. USE DEF SingleInv, Single
<1>0. TypeOK'
  BY NextType
<1>1. ASSUME NEW o \in Obj, NEW i \in Inst, NEW all \in BOOLEAN,
             NEW objRequest \in BOOLEAN, NEW sent \in BOOLEAN,
             Admissible(o, i, all, sent), Accept(o, i, all, objRequest, sent)
      PROVE  Goal
  <2>. DEFINE k == <<o, IF all THEN ALL_INSTANCES ELSE i>>
  <2>1. k \in Key
    BY Keys
  <2>1a. k # <<p, ALL_INSTANCES>>
    BY <1>1, Keys DEF Admissible
  <2>2. MaxRetries \in 0 .. MaxRetries
    BY RetriesAssumption
  <2>3. TransOpen' = TransOpen \cup {k}
    BY <1>1, <2>1, <2>2, TransactionOpens DEF Accept
  <2>. QED
    BY <1>1, <2>1a, <2>3 DEF Accept
<1>2. ASSUME NEW o \in Obj, NEW i \in Inst, NEW success,
             Complete(o, i, success)
      PROVE  TransOpen' \subseteq TransOpen
  BY <1>2 DEF Complete, TransOpen, TypeOK
<1>3. ASSUME NEW o \in Obj, NEW i \in Inst, Updatable(o, i), RegisterInstance(o, i)
      PROVE  numInst'[p] = 1
  BY <1>3 DEF Updatable, RegisterInstance, TypeOK, TalkTypeOK
<1>4. ASSUME NEW o \in Obj, NEW i \in Inst, Drop(o, i) \/ Reject(o, i)
      PROVE  Goal
  BY <1>4 DEF Drop, Reject, talkVars, TransOpen
<1>5. ASSUME NEW o \in Obj, NEW i \in Inst, ReceiveObj(o, i)
      PROVE  Goal
  <2>1. numInst'[p] = 1
    BY <1>3, <1>5 DEF ReceiveObj
  <2>2. CASE Acks("OBJ", o, i)
    BY <1>2, <1>5, <2>1, <2>2 DEF ReceiveObj
  <2>3. CASE ~Acks("OBJ", o, i)
    BY <1>5, <2>1, <2>3 DEF ReceiveObj, TransOpen
  <2>. QED
    BY <2>2, <2>3
<1>6. ASSUME NEW o \in Obj, NEW i \in Inst, ReceiveObjAck(o, i)
      PROVE  Goal
  BY <1>3, <1>6 DEF ReceiveObjAck, TransOpen
<1>7. ASSUME NEW o \in Obj, NEW i \in Inst, ReceiveAck(o, i) \/ ReceiveNack(o, i)
      PROVE  Goal
  <2>1. TransOpen' \subseteq TransOpen
    <3>1. CASE ReceiveAck(o, i)
      BY <1>2, <3>1 DEF ReceiveAck
    <3>2. CASE ReceiveNack(o, i)
      BY <1>2, <3>2 DEF ReceiveNack
    <3>. QED
      BY <1>7, <3>1, <3>2
  <2>2. numInst' = numInst
    BY <1>7 DEF ReceiveAck, ReceiveNack
  <2>. QED
    BY <2>1, <2>2
<1>8. ASSUME NEW k \in TransOpen, NEW sent \in BOOLEAN, Retry(k, sent)
      PROVE  Goal
  BY <1>8 DEF Retry, ProcessTransaction, TransOpen, TypeOK
<1>9. ASSUME NEW k \in TransOpen, GiveUp(k)
      PROVE  Goal
  BY <1>9 DEF GiveUp, TransOpen, TypeOK
<1>10. ASSUME ChangeStatus \/ DeviceDeleted \/ Restart \/ UNCHANGED vars
       PROVE  Goal
  BY <1>10 DEF ChangeStatus, DeviceDeleted, Restart, vars, talkVars, TransOpen
<1>. HIDE DEF Goal
<1>11. Goal
  BY <1>1, <1>4, <1>5, <1>6, <1>7, <1>8, <1>9, <1>10, StepCases
<1>. QED
  BY <1>11 DEF Goal

-----------------------------------------------------------------------------
(* A step that leaves the transactions and the waiting of single-instance  *)
(* objects alone is a stutter of the broker.                               *)
Untouched ==
  \A o \in Single : /\ OpenOf(o)' = OpenOf(o)
                    /\ LeftOf(o)' = LeftOf(o)
                    /\ AskedOf(o)' = AskedOf(o)

BrokerStep == Broker!BrokerNext \/ UNCHANGED Broker!brokerVars

(* The instance's state, by the names used here.                           *)
LEMMA BrokerVars == Broker!brokerVars = <<SingleOpen, LeftView, AskingView>>
BY DEF Broker!brokerVars, LeftView, AskingView

LEMMA UntouchedStutters ==
  ASSUME Untouched
  PROVE  BrokerStep
<1>1. SingleOpen' = SingleOpen /\ LeftView' = LeftView /\ AskingView' = AskingView
  BY BrokerView DEF Untouched
<1>. QED
  BY <1>1 DEF BrokerStep, Broker!brokerVars, LeftView, AskingView

(* What a step that touches at most the object c does to that state.       *)
OthersUntouched(c) ==
  \A o \in Single \ {c} : /\ OpenOf(o)' = OpenOf(o)
                          /\ LeftOf(o)' = LeftOf(o)
                          /\ AskedOf(o)' = AskedOf(o)

LEMMA OneTouched ==
  ASSUME NEW c \in Single, OthersUntouched(c)
  PROVE  /\ OpenOf(c)' => SingleOpen' = SingleOpen \cup {c}
         /\ ~OpenOf(c)' => SingleOpen' = SingleOpen \ {c}
         /\ LeftView' = [LeftView EXCEPT ![c] = LeftOf(c)']
         /\ AskedOf(c)' => AskingView' = AskingView \cup {c}
         /\ ~AskedOf(c)' => AskingView' = AskingView \ {c}
         /\ OpenOf(c) <=> c \in SingleOpen
         /\ LeftView[c] = LeftOf(c)
         /\ OpenOf(c)' = OpenOf(c) => SingleOpen' = SingleOpen
         /\ LeftOf(c)' = LeftOf(c) => LeftView' = LeftView
         /\ AskedOf(c)' = AskedOf(c) => AskingView' = AskingView
<1>1. /\ OpenOf(c)' => SingleOpen' = SingleOpen \cup {c}
      /\ ~OpenOf(c)' => SingleOpen' = SingleOpen \ {c}
      /\ OpenOf(c) <=> c \in SingleOpen
      /\ OpenOf(c)' = OpenOf(c) => SingleOpen' = SingleOpen
  BY BrokerView DEF OthersUntouched
<1>2. /\ LeftView' = [LeftView EXCEPT ![c] = LeftOf(c)']
      /\ LeftView[c] = LeftOf(c)
      /\ LeftOf(c)' = LeftOf(c) => LeftView' = LeftView
  BY BrokerView DEF OthersUntouched
<1>3. /\ AskedOf(c)' => AskingView' = AskingView \cup {c}
      /\ ~AskedOf(c)' => AskingView' = AskingView \ {c}
      /\ AskedOf(c)' = AskedOf(c) => AskingView' = AskingView
  BY BrokerView DEF OthersUntouched
<1>. QED
  BY <1>1, <1>2, <1>3

(* The broker's steps on c, in terms of the state of c.                    *)
LEMMA BrokerSteps ==
  ASSUME NEW c \in Single, OthersUntouched(c),
         \/ ~OpenOf(c) /\ OpenOf(c)' /\ LeftOf(c)' = MaxRetries /\ AskedOf(c)'
         \/ OpenOf(c) /\ OpenOf(c)' /\ LeftOf(c)' = LeftOf(c) /\ AskedOf(c)'
         \/ OpenOf(c)' = OpenOf(c) /\ LeftOf(c)' = LeftOf(c) /\ ~AskedOf(c)'
         \/ /\ OpenOf(c) /\ OpenOf(c)'
            /\ LeftOf(c) > 0 /\ LeftOf(c)' = LeftOf(c) - 1
            /\ AskedOf(c)' = AskedOf(c)
         \/ OpenOf(c) /\ ~OpenOf(c)' /\ LeftOf(c)' = 0 /\ ~AskedOf(c)'
  PROVE  BrokerStep
<1>. USE OneTouched DEF BrokerStep, Broker!BrokerNext
<1>1. CASE ~OpenOf(c) /\ OpenOf(c)' /\ LeftOf(c)' = MaxRetries /\ AskedOf(c)'
  <2>1. Broker!Start(c)
    BY <1>1 DEF Broker!Start, LeftView, AskingView
  <2>. QED
    BY <2>1
<1>2. CASE OpenOf(c) /\ OpenOf(c)' /\ LeftOf(c)' = LeftOf(c) /\ AskedOf(c)'
  <2>1. Broker!Join(c)
    BY <1>2 DEF Broker!Join, LeftView, AskingView
  <2>. QED
    BY <2>1
<1>3. CASE OpenOf(c)' = OpenOf(c) /\ LeftOf(c)' = LeftOf(c) /\ ~AskedOf(c)'
  <2>1. Broker!TurnAway(c)
    BY <1>3 DEF Broker!TurnAway, LeftView, AskingView
  <2>. QED
    BY <2>1
<1>4. CASE /\ OpenOf(c) /\ OpenOf(c)'
           /\ LeftOf(c) > 0 /\ LeftOf(c)' = LeftOf(c) - 1
           /\ AskedOf(c)' = AskedOf(c)
  <2>1. Broker!Resend(c)
    BY <1>4 DEF Broker!Resend, LeftView, AskingView
  <2>. QED
    BY <2>1
<1>5. CASE OpenOf(c) /\ ~OpenOf(c)' /\ LeftOf(c)' = 0 /\ ~AskedOf(c)'
  <2>1. Broker!Conclude(c)
    BY <1>5 DEF Broker!Conclude, LeftView, AskingView
  <2>. QED
    BY <2>1
<1>. QED
  BY <1>1, <1>2, <1>3, <1>4, <1>5

-----------------------------------------------------------------------------
(* The steps of Telemetry, one by one *)

(* Opening or closing the key k leaves the objects it is not about alone.  *)
LEMMA KeyFrame ==
  ASSUME SingleInv, NEW k \in Key,
         \A j \in Key \ {k} : trans'[j] = trans[j],
         NEW p \in Single, k # <<p, 0>>
  PROVE  OpenOf(p)' = OpenOf(p) /\ LeftOf(p)' = LeftOf(p)
<1>1. <<p, 0>> \in Key \ {k}
  BY SingleFind
<1>2. trans'[<<p, 0>>] = trans[<<p, 0>>]
  BY <1>1
<1>3. (<<p, 0>> \in TransOpen)' <=> <<p, 0>> \in TransOpen
  BY <1>1, <1>2 DEF TransOpen
<1>. QED
  BY <1>2, <1>3 DEF OpenOf, LeftOf

LEMMA AskFrame ==
  ASSUME NEW o, NEW i, NEW p \in Single, <<o, i>> # <<p, 0>>,
         waiting' = waiting \cup {<<o, i>>} \/ waiting' = waiting \ {<<o, i>>}
  PROVE  AskedOf(p)' = AskedOf(p)
BY DEF AskedOf

LEMMA AcceptMaps ==
  ASSUME SingleInv, NEW o \in Obj, NEW i \in Inst, NEW all \in BOOLEAN,
         NEW objRequest \in BOOLEAN, NEW sent \in BOOLEAN,
         Admissible(o, i, all, sent), Accept(o, i, all, objRequest, sent)
  PROVE  BrokerStep
<1>. DEFINE k == <<o, IF all THEN ALL_INSTANCES ELSE i>>
<1>1. k \in Key
  BY Keys
<1>2. MaxRetries \in 0 .. MaxRetries
  BY RetriesAssumption
<1>3. /\ TransOpen' = TransOpen \cup {k}
      /\ \A j \in Key \ {k} : trans'[j] = trans[j]
  BY <1>1, <1>2, TransactionOpens DEF SingleInv, Accept
<1>4. waiting' = waiting \cup {<<o, i>>}
  BY DEF Accept
<1>6. CASE o \in Multi
  <2>1. \A p \in Single : k # <<p, 0>> /\ <<o, i>> # <<p, 0>>
    BY <1>6 DEF Single
  <2>2. Untouched
    BY <1>1, <1>3, <1>4, <2>1, KeyFrame, AskFrame DEF Untouched
  <2>. QED
    BY <2>2, UntouchedStutters
<1>7. CASE o \notin Multi
  <2>1. o \in Single /\ i = 0 /\ ~all
    BY <1>7, SingleFind DEF Single, Admissible
  <2>2. k = <<o, 0>>
    BY <2>1
  <2>3. OthersUntouched(o)
    <3>1. \A p \in Single \ {o} : k # <<p, 0>> /\ <<o, i>> # <<p, 0>>
      OBVIOUS
    <3>. QED
      BY <1>1, <1>3, <1>4, <3>1, KeyFrame, AskFrame DEF OthersUntouched
  <2>4. ~OpenOf(o)
    BY <2>1, SingleFind DEF Accept
  <2>5. trans'[k].retriesRemaining = MaxRetries
    BY <1>1 DEF Accept, ProcessTransaction, SingleInv, TypeOK
  <2>6. OpenOf(o)' /\ LeftOf(o)' = MaxRetries /\ AskedOf(o)'
    BY <1>3, <1>4, <2>1, <2>2, <2>5 DEF OpenOf, LeftOf, AskedOf
  <2>. QED
    BY <2>1, <2>3, <2>4, <2>6, BrokerSteps
<1>. QED
  BY <1>6, <1>7

LEMMA DropMaps ==
  ASSUME SingleInv, NEW o \in Obj, NEW i \in Inst, i < numInst[o], Drop(o, i)
  PROVE  BrokerStep
<1>1. UNCHANGED trans /\ waiting' = waiting \cup {<<o, i>>}
  BY DEF Drop
<1>2. \A p \in Single : OpenOf(p)' = OpenOf(p) /\ LeftOf(p)' = LeftOf(p)
  BY <1>1 DEF OpenOf, LeftOf, TransOpen
<1>3. CASE o \in Multi
  <2>1. Untouched
    BY <1>1, <1>2, <1>3 DEF Untouched, AskedOf, Single
  <2>. QED
    BY <2>1, UntouchedStutters
<1>4. CASE o \notin Multi
  <2>1. o \in Single /\ i = 0 /\ OpenOf(o)
    BY <1>4, SingleFind DEF Single, Drop
  <2>2. OthersUntouched(o) /\ AskedOf(o)'
    BY <1>1, <1>2, <2>1 DEF OthersUntouched, AskedOf
  <2>. QED
    BY <1>2, <2>1, <2>2, BrokerSteps
<1>. QED
  BY <1>3, <1>4

(* A notification that closes nothing is a request turned away.            *)
LEMMA NotifyMaps ==
  ASSUME SingleInv, NEW o \in Obj, NEW i \in Inst, i < numInst[o] \/ o \in Multi,
         UNCHANGED trans, Notify(o, i) \/ UNCHANGED waiting
  PROVE  BrokerStep
<1>1. \A p \in Single : OpenOf(p)' = OpenOf(p) /\ LeftOf(p)' = LeftOf(p)
  BY DEF OpenOf, LeftOf, TransOpen
<1>2. CASE o \in Multi \/ UNCHANGED waiting
  <2>1. Untouched
    BY <1>1, <1>2 DEF Untouched, AskedOf, Single, Notify
  <2>. QED
    BY <2>1, UntouchedStutters
<1>3. CASE o \notin Multi /\ Notify(o, i)
  <2>1. o \in Single /\ i = 0
    BY <1>3, SingleFind DEF Single
  <2>2. OthersUntouched(o) /\ ~AskedOf(o)'
    BY <1>1, <1>3, <2>1 DEF OthersUntouched, AskedOf, Notify
  <2>. QED
    BY <1>1, <2>1, <2>2, BrokerSteps
<1>. QED
  BY <1>2, <1>3

LEMMA CompleteMaps ==
  ASSUME SingleInv, NEW o \in Obj, NEW i \in Inst, NEW success,
         i < numInst[o] \/ o \in Multi, Complete(o, i, success)
  PROVE  BrokerStep
<1>1. CASE ~InProgress(o, i)
  BY <1>1, NotifyMaps DEF Complete
<1>2. CASE InProgress(o, i)
  <2>1. /\ trans' = [trans EXCEPT ![TransFind(o, i)] = NoTrans]
        /\ waiting' = waiting \ {<<o, i>>}
    BY <1>2 DEF Complete, Notify
  <2>2. /\ TransFind(o, i) \in Key
        /\ TransOpen' = TransOpen \ {TransFind(o, i)}
        /\ \A k \in Key \ {TransFind(o, i)} : trans'[k] = trans[k]
    BY <1>2, <2>1 DEF InProgress, TransOpen, SingleInv, TypeOK
  <2>4. CASE o \in Multi
    <3>1. \A p \in Single : p # o
      BY <2>4 DEF Single
    <3>2. \A p \in Single : TransFind(o, i) # <<p, 0>> /\ <<o, i>> # <<p, 0>>
      BY <3>1 DEF TransFind, FindKey
    <3>3. Untouched
      BY <2>1, <2>2, <3>2, KeyFrame, AskFrame DEF Untouched
    <3>. QED
      BY <3>3, UntouchedStutters
  <2>5. CASE o \notin Multi
    <3>1. o \in Single /\ i = 0 /\ OpenOf(o) /\ TransFind(o, i) = <<o, 0>>
      BY <1>2, <2>5, SingleFind DEF Single
    <3>2. OthersUntouched(o)
      <4>1. \A p \in Single \ {o} : <<o, 0>> # <<p, 0>>
        OBVIOUS
      <4>. QED
        BY <2>1, <2>2, <3>1, <4>1, KeyFrame, AskFrame DEF OthersUntouched
    <3>3. ~OpenOf(o)' /\ LeftOf(o)' = 0 /\ ~AskedOf(o)'
      BY <2>1, <2>2, <3>1 DEF OpenOf, LeftOf, AskedOf
    <3>. QED
      BY <3>1, <3>2, <3>3, BrokerSteps
  <2>. QED
    BY <2>4, <2>5
<1>. QED
  BY <1>1, <1>2

(* For an open key on a single-instance object, the instance is zero or    *)
(* the key is of no interest to the broker.                                *)
LEMMA SingleKey ==
  ASSUME SingleInv, NEW k \in TransOpen, NEW p \in Single
  PROVE  /\ k = <<p, 0>> => k[1] = p /\ InstOf(k) = 0
         /\ k # <<p, 0>> => <<k[1], InstOf(k)>> # <<p, 0>>
<1>1. k \in Key
  BY DEF TransOpen
<1>2. /\ k = <<k[1], k[2]>>
      /\ k[2] # ALL_INSTANCES => InstOf(k) = k[2]
      /\ k[2] = ALL_INSTANCES => InstOf(k) = 0
  BY <1>1, KeyParts
<1>3. k # <<p, ALL_INSTANCES>>
  BY DEF SingleInv
<1>4. k[2] = ALL_INSTANCES => k[1] # p
  BY <1>2, <1>3
<1>5. ASSUME k # <<p, 0>> PROVE <<k[1], InstOf(k)>> # <<p, 0>>
  BY <1>2, <1>4, <1>5
<1>6. ASSUME k = <<p, 0>> PROVE k[1] = p /\ InstOf(k) = 0
  BY <1>2, <1>6
<1>. QED
  BY <1>5, <1>6

LEMMA RetryMaps ==
  ASSUME SingleInv, NEW k \in TransOpen, NEW sent \in BOOLEAN, Retry(k, sent)
  PROVE  BrokerStep
<1>1. k \in Key /\ trans[k] \in Transaction
  BY DEF TransOpen, SingleInv, TypeOK
<1>2. /\ trans[k].objRequest \in BOOLEAN
      /\ trans[k].retriesRemaining \in Nat
      /\ trans[k].retriesRemaining > 0
      /\ trans[k].retriesRemaining - 1 \in 0 .. MaxRetries
  BY <1>1, RetriesAssumption DEF Retry, Transaction
<1>3. /\ TransOpen' = TransOpen
      /\ \A j \in Key \ {k} : trans'[j] = trans[j]
  BY <1>1, <1>2, TransactionOpens, ZenonT(60) DEF SingleInv, Retry
<1>4. trans'[k].retriesRemaining = trans[k].retriesRemaining - 1
  BY <1>1 DEF Retry, ProcessTransaction, SingleInv, TypeOK
<1>5. \A p \in Single : AskedOf(p)' = AskedOf(p)
  BY DEF Retry, AskedOf
<1>6. CASE \E p \in Single : k = <<p, 0>>
  <2>1. PICK p \in Single : k = <<p, 0>>
    BY <1>6
  <2>2. \A q \in Single \ {p} : k # <<q, 0>>
    BY <2>1
  <2>3. OthersUntouched(p)
    BY <1>1, <1>3, <1>5, <2>2, KeyFrame DEF OthersUntouched
  <2>4. OpenOf(p) /\ OpenOf(p)' /\ LeftOf(p) > 0 /\ LeftOf(p)' = LeftOf(p) - 1
    BY <1>2, <1>3, <1>4, <2>1 DEF OpenOf, LeftOf
  <2>. QED
    BY <1>5, <2>3, <2>4, BrokerSteps
<1>7. CASE \A p \in Single : k # <<p, 0>>
  <2>1. Untouched
    BY <1>1, <1>3, <1>5, <1>7, KeyFrame DEF Untouched
  <2>. QED
    BY <2>1, UntouchedStutters
<1>. QED
  BY <1>6, <1>7

LEMMA GiveUpMaps ==
  ASSUME SingleInv, NEW k \in TransOpen, GiveUp(k)
  PROVE  BrokerStep
<1>1. k \in Key
  BY DEF TransOpen
<1>2. /\ TransOpen' = TransOpen \ {k}
      /\ \A j \in Key \ {k} : trans'[j] = trans[j]
      /\ waiting' = waiting \ {<<k[1], InstOf(k)>>}
  BY <1>1 DEF GiveUp, Notify, TransOpen, SingleInv, TypeOK
<1>3. CASE \E p \in Single : k = <<p, 0>>
  <2>1. PICK p \in Single : k = <<p, 0>>
    BY <1>3
  <2>2. \A q \in Single \ {p} : k # <<q, 0>> /\ <<k[1], InstOf(k)>> # <<q, 0>>
    BY <2>1, SingleKey
  <2>3. OthersUntouched(p)
    BY <1>1, <1>2, <2>2, KeyFrame, AskFrame DEF OthersUntouched
  <2>4. <<k[1], InstOf(k)>> = <<p, 0>>
    BY <2>1, SingleKey
  <2>5. OpenOf(p) /\ ~OpenOf(p)' /\ LeftOf(p)' = 0 /\ ~AskedOf(p)'
    BY <1>2, <2>1, <2>4 DEF OpenOf, LeftOf, AskedOf
  <2>. QED
    BY <2>3, <2>5, BrokerSteps
<1>4. CASE \A p \in Single : k # <<p, 0>>
  <2>1. \A p \in Single : <<k[1], InstOf(k)>> # <<p, 0>>
    BY <1>4, SingleKey
  <2>2. Untouched
    BY <1>1, <1>2, <1>4, <2>1, KeyFrame, AskFrame DEF Untouched
  <2>. QED
    BY <2>2, UntouchedStutters
<1>. QED
  BY <1>3, <1>4

LEMMA RestartMaps ==
  ASSUME Restart
  PROVE  BrokerStep
<1>1. \A p \in Single : ~OpenOf(p)' /\ LeftOf(p)' = 0 /\ ~AskedOf(p)'
  BY DEF Restart, OpenOf, LeftOf, AskedOf, TransOpen
<1>2. /\ SingleOpen' = {}
      /\ LeftView' = [c \in Single |-> 0]
      /\ AskingView' = {}
  BY <1>1, BrokerView
<1>3. Broker!Reset
  BY <1>2 DEF Broker!Reset, LeftView, AskingView
<1>. QED
  BY <1>3 DEF BrokerStep, Broker!BrokerNext

LEMMA StepMaps ==
  ASSUME SingleInv, [Next]_vars
  PROVE  BrokerStep
<1>1. ASSUME NEW o \in Obj, NEW i \in Inst, i < numInst[o], Reject(o, i)
      PROVE  BrokerStep
  BY <1>1, NotifyMaps DEF Reject
<1>2. ASSUME NEW o \in Obj, NEW i \in Inst, ReceiveObj(o, i)
      PROVE  BrokerStep
  BY <1>2, CompleteMaps, NotifyMaps DEF ReceiveObj, Updatable
<1>3. ASSUME NEW o \in Obj, NEW i \in Inst, ReceiveObjAck(o, i)
      PROVE  BrokerStep
  BY <1>3, NotifyMaps DEF ReceiveObjAck, Updatable
<1>4. ASSUME NEW o \in Obj, NEW i \in Inst, ReceiveAck(o, i)
      PROVE  BrokerStep
  BY <1>4, CompleteMaps DEF ReceiveAck
<1>5. ASSUME NEW o \in Obj, NEW i \in Inst, ReceiveNack(o, i)
      PROVE  BrokerStep
  BY <1>5, CompleteMaps DEF ReceiveNack
<1>6. ASSUME ChangeStatus \/ DeviceDeleted \/ UNCHANGED vars
      PROVE  BrokerStep
  <2>1. UNCHANGED <<trans, waiting>>
    BY <1>6 DEF ChangeStatus, DeviceDeleted, vars
  <2>2. Untouched
    BY <2>1 DEF Untouched, OpenOf, LeftOf, AskedOf, TransOpen
  <2>. QED
    BY <2>2, UntouchedStutters
<1>. QED
  BY <1>1, <1>2, <1>3, <1>4, <1>5, <1>6, AcceptMaps, DropMaps, RetryMaps,
     GiveUpMaps, RestartMaps, StepCases

LEMMA InitMaps == Init => Broker!BrokerInit
<1>. SUFFICES ASSUME Init PROVE Broker!BrokerInit
  OBVIOUS
<1>1. SingleOpen = {} /\ AskingView = {}
  BY DEF Init, SingleOpen, AskingView, TransOpen
<1>. QED
  BY <1>1 DEF Broker!BrokerInit, AskingView

(* Telemetry keeps the broker's promises to single-instance objects.       *)
THEOREM TelemetryImplementsBroker == Spec => ImplementsBroker
<1>1. SingleInv /\ [Next]_vars => [Broker!BrokerNext]_(Broker!brokerVars)
  BY StepMaps DEF BrokerStep
<1>. QED
  BY <1>1, SingleInit, SingleNext, InitMaps, PTL
  DEF Spec, ImplementsBroker, Broker!BrokerSpec

(* Nobody waits on a single-instance object without an open transaction.   *)
THEOREM SingleWaiterRemembered == Spec => []SingleRemembered
<1>. DEFINE Remembered == AskingView \subseteq SingleOpen
<1>1. Init => Remembered
  BY DEF Init, AskingView
<1>2. Remembered /\ BrokerStep => Remembered'
  BY DEF BrokerStep, Broker!BrokerNext, Broker!Start, Broker!Join,
         Broker!TurnAway, Broker!Resend, Broker!Conclude, Broker!Reset,
         Broker!brokerVars, AskingView
<1>3. SingleInv /\ [Next]_vars => BrokerStep
  BY StepMaps
<1>4. Remembered => SingleRemembered
  BY DEF AskingView, SingleOpen, SingleRemembered, Single
<1>. QED
  BY <1>1, <1>2, <1>3, <1>4, SingleInit, SingleNext, PTL DEF Spec
=============================================================================
