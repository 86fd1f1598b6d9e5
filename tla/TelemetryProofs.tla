-------------------------- MODULE TelemetryProofs --------------------------
(***************************************************************************)
(* Proofs about module Telemetry, for every set of objects, every number   *)
(* of instances and every number of retries.                               *)
(***************************************************************************)
EXTENDS Telemetry, TLAPS

(* The instances fit below the number that stands for all of them.         *)
LEMMA InstanceBounds == MaxInst \in Nat \ {0} /\ ALL_INSTANCES \in Nat /\ MaxInst <= ALL_INSTANCES
<1>1. ALL_INSTANCES \in Nat
  BY DEF ALL_INSTANCES
<1>. QED
  BY <1>1, InstancesAssumption

(* The keys of a transaction map are what the lookups and the requests     *)
(* produce, and the wildcard is no instance.                               *)
LEMMA Keys ==
  ASSUME NEW o \in Obj, NEW i \in Inst
  PROVE  /\ <<o, i>> \in Key
         /\ <<o, ALL_INSTANCES>> \in Key
         /\ i # ALL_INSTANCES
         /\ <<o, i>> \in Instance
         /\ 0 \in Inst
         /\ \A open : FindKey(open, o, i) \in {<<o, i>>, <<o, ALL_INSTANCES>>}
<1>1. i # ALL_INSTANCES /\ 0 \in Inst
  BY InstanceBounds DEF Inst
<1>2. \A open : FindKey(open, o, i) \in {<<o, i>>, <<o, ALL_INSTANCES>>}
  BY DEF FindKey
<1>. QED
  BY <1>1, <1>2 DEF Key, Instance

LEMMA KeyParts ==
  ASSUME NEW k \in Key
  PROVE  /\ k[1] \in Obj
         /\ InstOf(k) \in Inst
         /\ k = <<k[1], k[2]>>
         /\ k[2] # ALL_INSTANCES => InstOf(k) = k[2]
         /\ k[2] = ALL_INSTANCES => InstOf(k) = 0
BY InstanceBounds DEF Key, Inst, InstOf

(* A request comes in one instance or, on instance zero, all of them.      *)
Admissible(o, i, all, sent) ==
  /\ i < numInst[o]
  /\ all => o \in Multi /\ i = 0
  /\ sent \in SendResults

(* The steps of the system, one disjunct per path through a handler.       *)
LEMMA StepCases ==
  ASSUME [Next]_vars
  PROVE  \/ \E o \in Obj, i \in Inst, all, objRequest, sent \in BOOLEAN :
               Admissible(o, i, all, sent) /\ Accept(o, i, all, objRequest, sent)
         \/ \E o \in Obj, i \in Inst : i < numInst[o] /\ Drop(o, i)
         \/ \E o \in Obj, i \in Inst : i < numInst[o] /\ Reject(o, i)
         \/ \E o \in Obj, i \in Inst : ioOpen /\ ReceiveObj(o, i)
         \/ \E o \in Obj, i \in Inst : ioOpen /\ ReceiveObjAck(o, i)
         \/ \E o \in Obj, i \in Inst : ioOpen /\ ReceiveAck(o, i)
         \/ \E o \in Obj, i \in Inst : ioOpen /\ ReceiveNack(o, i)
         \/ \E k \in TransOpen, sent \in BOOLEAN :
               sent \in SendResults /\ trans[k].timer /\ Retry(k, sent)
         \/ \E k \in TransOpen : trans[k].timer /\ GiveUp(k)
         \/ ChangeStatus
         \/ DeviceDeleted
         \/ Restart
         \/ UNCHANGED vars
<1>0. SendResults \subseteq BOOLEAN
  BY DEF SendResults
<1>1. CASE \E o \in Obj, i \in Inst : Request(o, i)
  BY <1>0, <1>1 DEF Request, Admissible
<1>2. CASE \E o \in Obj, i \in Inst : Receive(o, i)
  BY <1>2 DEF Receive
<1>3. CASE \E k \in Key : Timeout(k)
  BY <1>0, <1>3 DEF Timeout
<1>. QED
  BY <1>1, <1>2, <1>3 DEF Next

-----------------------------------------------------------------------------
(* Type correctness *)

LEMMA InitType == Init => TypeOK
<1>1. 1 \in 1 .. MaxInst
  BY InstanceBounds
<1>. QED
  BY <1>1 DEF Init, TalkInit, TypeOK, TalkTypeOK

LEMMA TransactionStepType ==
  ASSUME TypeOK, NEW k \in Key, NEW objRequest \in BOOLEAN,
         NEW retries \in 0 .. MaxRetries, NEW sent \in BOOLEAN,
         ProcessTransaction(k, objRequest, retries, sent)
  PROVE  /\ trans' \in [Key -> Transaction \cup {NoTrans}]
         /\ talk' \in [Key -> {"none", "OBJ", "ACK"}]
         /\ refused' \in BOOLEAN
<1>1. RespType(objRequest) \in {"OBJ", "ACK"}
  BY DEF RespType
<1>2. talk' \in [Key -> {"none", "OBJ", "ACK"}]
  BY <1>1 DEF ProcessTransaction, TalkTransaction, TypeOK, TalkTypeOK
<1>3. trans' \in [Key -> Transaction \cup {NoTrans}]
  BY DEF ProcessTransaction, TypeOK, Transaction
<1>4. refused' \in BOOLEAN
  BY DEF ProcessTransaction, TypeOK
<1>. QED
  BY <1>2, <1>3, <1>4

LEMMA CompleteType ==
  ASSUME TypeOK, NEW o \in Obj, NEW i \in Inst, NEW success \in BOOLEAN,
         Complete(o, i, success)
  PROVE  /\ trans' \in [Key -> Transaction \cup {NoTrans}]
         /\ talk' \in [Key -> {"none", "OBJ", "ACK"}]
         /\ known' \subseteq Instance
         /\ waiting' \subseteq Instance
<1>1. <<o, i>> \in Instance
  BY Keys
<1>2. talk' \in [Key -> {"none", "OBJ", "ACK"}]
  BY DEF Complete, TalkClose, TypeOK, TalkTypeOK
<1>3. trans' \in [Key -> Transaction \cup {NoTrans}]
  BY DEF Complete, TypeOK
<1>4. known' \subseteq Instance /\ waiting' \subseteq Instance
  BY <1>1 DEF Complete, Notify, TypeOK
<1>. QED
  BY <1>2, <1>3, <1>4

LEMMA RegisterType ==
  ASSUME TypeOK, NEW o \in Obj, NEW i \in Inst, RegisterInstance(o, i)
  PROVE  numInst' \in [Obj -> 1 .. MaxInst]
<1>1. i + 1 \in 1 .. MaxInst
  BY InstancesAssumption DEF Inst
<1>. QED
  BY <1>1 DEF RegisterInstance, TypeOK, TalkTypeOK

LEMMA NextType == TypeOK /\ [Next]_vars => TypeOK'
<1>. SUFFICES ASSUME TypeOK, [Next]_vars
              PROVE  TypeOK'
  OBVIOUS
<1>. USE DEF TypeOK, TalkTypeOK
<1>1. ASSUME NEW o \in Obj, NEW i \in Inst, NEW all \in BOOLEAN,
             NEW objRequest \in BOOLEAN, NEW sent \in BOOLEAN,
             Accept(o, i, all, objRequest, sent)
      PROVE  TypeOK'
  <2>1. <<o, IF all THEN ALL_INSTANCES ELSE i>> \in Key /\ <<o, i>> \in Instance
    BY Keys
  <2>2. MaxRetries \in 0 .. MaxRetries
    BY RetriesAssumption
  <2>. QED
    BY <1>1, <2>1, <2>2, TransactionStepType DEF Accept
<1>2. ASSUME NEW o \in Obj, NEW i \in Inst, Drop(o, i)
      PROVE  TypeOK'
  BY <1>2, Keys DEF Drop, talkVars
<1>3. ASSUME NEW o \in Obj, NEW i \in Inst, Reject(o, i)
      PROVE  TypeOK'
  BY <1>3 DEF Reject, Notify, talkVars
<1>4. ASSUME NEW o \in Obj, NEW i \in Inst, ReceiveObj(o, i)
      PROVE  TypeOK'
  BY <1>4, CompleteType, RegisterType DEF ReceiveObj, Notify
<1>5. ASSUME NEW o \in Obj, NEW i \in Inst, ReceiveObjAck(o, i)
      PROVE  TypeOK'
  BY <1>5, RegisterType DEF ReceiveObjAck, Notify
<1>6. ASSUME NEW o \in Obj, NEW i \in Inst, ReceiveAck(o, i)
      PROVE  TypeOK'
  BY <1>6, CompleteType DEF ReceiveAck
<1>7. ASSUME NEW o \in Obj, NEW i \in Inst, ReceiveNack(o, i)
      PROVE  TypeOK'
  BY <1>7, CompleteType DEF ReceiveNack
<1>8. ASSUME NEW k \in TransOpen, NEW sent \in BOOLEAN, Retry(k, sent)
      PROVE  TypeOK'
  <2>1. k \in Key /\ trans[k] \in Transaction
    BY DEF TransOpen
  <2>2. /\ trans[k].objRequest \in BOOLEAN
        /\ trans[k].retriesRemaining - 1 \in 0 .. MaxRetries
    BY <1>8, <2>1, RetriesAssumption DEF Retry, Transaction
  <2>. QED
    BY <1>8, <2>1, <2>2, TransactionStepType DEF Retry
<1>9. ASSUME NEW k \in TransOpen, GiveUp(k)
      PROVE  TypeOK'
  BY <1>9 DEF GiveUp, TalkCancel, Notify
<1>10. CASE ChangeStatus
  BY <1>10 DEF ChangeStatus, talkVars
<1>11. CASE DeviceDeleted
  BY <1>11 DEF DeviceDeleted
<1>12. CASE Restart
  BY <1>12 DEF Restart, ForgetObjects
<1>13. CASE UNCHANGED vars
  BY <1>13 DEF vars, talkVars
<1>. QED
  BY <1>1, <1>2, <1>3, <1>4, <1>5, <1>6, <1>7, <1>8, <1>9, <1>10, <1>11,
     <1>12, <1>13, StepCases

(* The state of the transaction layer keeps its type.                      *)
THEOREM TypeCorrect == Spec => []TypeOK
BY InitType, NextType, PTL DEF Spec

-----------------------------------------------------------------------------
(* The two transaction tables *)

(* ZeroExcludesAll is what makes the lookup by object on a time-out find   *)
(* the transaction that timed out, so TalkOwned rests on it.               *)
TablesInv ==
  /\ TypeOK
  /\ ZeroExcludesAll
  /\ TalkOwned
  /\ TimerBacked
  /\ TablesAgree

LEMMA InitTables == Init => TablesInv
<1>. SUFFICES ASSUME Init PROVE TablesInv
  OBVIOUS
<1>1. TransOpen = {} /\ TalkOpen = {}
  BY DEF Init, TalkInit, TransOpen, TalkOpen
<1>2. \A k \in Key : talk[k] = "none"
  BY DEF Init, TalkInit
<1>. QED
  BY <1>1, <1>2, InitType
  DEF TablesInv, ZeroExcludesAll, TalkOwned, TimerBacked, TablesAgree

(* What ProcessTransaction does to the tables, seen as sets of open keys.  *)
LEMMA TransactionOpens ==
  ASSUME TypeOK, NEW k \in Key, NEW objRequest \in BOOLEAN,
         NEW retries \in 0 .. MaxRetries, NEW sent \in BOOLEAN,
         ProcessTransaction(k, objRequest, retries, sent)
  PROVE  /\ TransOpen' = TransOpen \cup {k}
         /\ TalkOpen' = IF sent THEN TalkOpen \cup {k} ELSE TalkOpen
         /\ trans'[k].objRequest = objRequest
         /\ trans'[k].timer = sent
         /\ sent => talk'[k] = RespType(objRequest)
         /\ ~sent => talk'[k] = talk[k]
         /\ \A j \in Key \ {k} : trans'[j] = trans[j] /\ talk'[j] = talk[j]
         /\ refused' = (refused \/ ~sent)
<1>. DEFINE new == [objRequest |-> objRequest, retriesRemaining |-> retries,
                    timer |-> sent]
<1>1. new # NoTrans
  BY NoTransAssumption DEF Transaction
<1>2. /\ trans'[k] = new
      /\ \A j \in Key \ {k} : trans'[j] = trans[j]
  BY DEF ProcessTransaction, TypeOK
<1>3. /\ sent => talk'[k] = RespType(objRequest)
      /\ ~sent => talk'[k] = talk[k]
      /\ \A j \in Key \ {k} : talk'[j] = talk[j]
  BY DEF ProcessTransaction, TalkTransaction, TypeOK, TalkTypeOK
<1>4. RespType(objRequest) # "none"
  BY DEF RespType
<1>5. TransOpen' = TransOpen \cup {k}
  BY <1>1, <1>2 DEF TransOpen
<1>6. TalkOpen' = IF sent THEN TalkOpen \cup {k} ELSE TalkOpen
  BY <1>3, <1>4 DEF TalkOpen
<1>. QED
  BY <1>2, <1>3, <1>5, <1>6 DEF ProcessTransaction

(* What Complete does to them: with a device, the key Telemetry closes is  *)
(* no longer waited on by UAVTalk.                                         *)
LEMMA CompleteCloses ==
  ASSUME TypeOK, TalkOwned, ioOpen, NEW o \in Obj, NEW i \in Inst,
         NEW success, TalkFind(o, i) \in TalkOpen, Complete(o, i, success)
  PROVE  /\ TransFind(o, i) \in TransOpen
         /\ TransOpen' = TransOpen \ {TransFind(o, i)}
         /\ TalkOpen' = TalkOpen \ {TalkFind(o, i)}
         /\ TransFind(o, i) \notin TalkOpen'
         /\ \A k \in TransOpen' : trans'[k] = trans[k]
         /\ \A k \in Key \ {TalkFind(o, i)} : talk'[k] = talk[k]
         /\ TalkFind(o, i) \in {TransFind(o, i), <<o, ALL_INSTANCES>>}
<1>1. /\ TalkFind(o, i) \in {<<o, i>>, <<o, ALL_INSTANCES>>}
      /\ TransFind(o, i) \in {<<o, i>>, <<o, ALL_INSTANCES>>}
      /\ TalkFind(o, i) \in Key
      /\ TransFind(o, i) \in Key
  BY Keys DEF TalkFind, TransFind
<1>2. TalkOpen \subseteq TransOpen
  BY DEF TalkOwned
<1>3. TransFind(o, i) \in TransOpen
  BY <1>1, <1>2 DEF TalkFind, TransFind, FindKey
<1>4. /\ talk' = [talk EXCEPT ![TalkFind(o, i)] = "none"]
      /\ trans' = [trans EXCEPT ![TransFind(o, i)] = NoTrans]
  BY <1>3 DEF Complete, TalkClose, InProgress
<1>5. TransOpen' = TransOpen \ {TransFind(o, i)}
  BY <1>1, <1>4 DEF TransOpen, TypeOK
<1>6. TalkOpen' = TalkOpen \ {TalkFind(o, i)}
  BY <1>1, <1>4 DEF TalkOpen, TypeOK, TalkTypeOK
<1>7. TransFind(o, i) \notin TalkOpen'
  BY <1>2, <1>6 DEF TalkFind, TransFind, FindKey
<1>8. /\ \A k \in TransOpen' : trans'[k] = trans[k]
      /\ \A k \in Key \ {TalkFind(o, i)} : talk'[k] = talk[k]
  BY <1>1, <1>4, <1>5 DEF TypeOK, TalkTypeOK, TransOpen
<1>9. TalkFind(o, i) \in {TransFind(o, i), <<o, ALL_INSTANCES>>}
  BY <1>1, <1>2 DEF TalkFind, TransFind, FindKey
<1>. QED
  BY <1>3, <1>5, <1>6, <1>7, <1>8, <1>9

LEMMA AnswerFound ==
  ASSUME NEW o \in Obj, NEW i \in Inst,
         \/ \E type \in {"OBJ", "ACK"} : Acks(type, o, i)
         \/ Nacks(o, i)
  PROVE  TalkFind(o, i) \in TalkOpen
<1>1. TalkFind(o, i) \in Key
  BY Keys DEF TalkFind
<1>. QED
  BY <1>1 DEF Acks, Nacks, TalkOpen

(* Giving up closes the key in both tables: the lookup from the object     *)
(* finds the right one because zero and all are never open together.       *)
LEMMA GiveUpCloses ==
  ASSUME TypeOK, TalkOwned, ZeroExcludesAll, ioOpen,
         NEW k \in TransOpen, GiveUp(k)
  PROVE  /\ TransOpen' = TransOpen \ {k}
         /\ k \notin TalkOpen'
         /\ \A j \in TransOpen' : trans'[j] = trans[j]
         /\ \A j \in Key : talk'[j] \in {talk[j], "none"}
         /\ \A j \in Key \ {k} : j[2] # ALL_INSTANCES => talk'[j] = talk[j]
         /\ k \in TalkOpen => \A j \in Key \ {k} : talk'[j] = talk[j]
<1>. DEFINE o == k[1]
            i == InstOf(k)
<1>1. k \in Key
  BY DEF TransOpen
<1>2. o \in Obj /\ i \in Inst /\ 0 \in Inst
  BY <1>1, KeyParts, Keys
<1>3. /\ k[2] # ALL_INSTANCES => k = <<o, i>>
      /\ k[2] = ALL_INSTANCES => i = 0 /\ k = <<o, ALL_INSTANCES>>
  BY <1>1, KeyParts
<1>4. /\ talk' = [talk EXCEPT ![TalkFind(o, i)] = "none"]
      /\ trans' = [trans EXCEPT ![k] = NoTrans]
  BY DEF GiveUp, TalkCancel
<1>5. TalkFind(o, i) \in Key /\ <<o, i>> \in Key
  BY <1>2, Keys DEF TalkFind
<1>6. k[2] = ALL_INSTANCES => <<o, i>> \notin TalkOpen
  BY <1>2, <1>3 DEF ZeroExcludesAll, TalkOwned
<1>7. /\ k \in TalkOpen => TalkFind(o, i) = k
      /\ TalkFind(o, i) \in {k, <<o, ALL_INSTANCES>>}
  BY <1>3, <1>6 DEF TalkFind, FindKey
<1>8. TransOpen' = TransOpen \ {k}
  BY <1>1, <1>4 DEF TransOpen, TypeOK
<1>9. /\ talk'[TalkFind(o, i)] = "none"
      /\ \A j \in Key \ {TalkFind(o, i)} : talk'[j] = talk[j]
  BY <1>4, <1>5 DEF TypeOK, TalkTypeOK
<1>10. k \notin TalkOpen'
  BY <1>7, <1>9 DEF TalkOpen
<1>11. \A j \in TransOpen' : trans'[j] = trans[j]
  BY <1>4, <1>8 DEF TransOpen, TypeOK
<1>12. \A j \in Key \ {k} : j[2] # ALL_INSTANCES => talk'[j] = talk[j]
  BY <1>7, <1>9
<1>. QED
  BY <1>7, <1>8, <1>9, <1>10, <1>11, <1>12

LEMMA AcceptTables ==
  ASSUME TablesInv, NEW o \in Obj, NEW i \in Inst, NEW all \in BOOLEAN,
         NEW objRequest \in BOOLEAN, NEW sent \in BOOLEAN,
         Admissible(o, i, all, sent), Accept(o, i, all, objRequest, sent)
  PROVE  ZeroExcludesAll' /\ TalkOwned' /\ TimerBacked' /\ TablesAgree'
<1>. DEFINE k == <<o, IF all THEN ALL_INSTANCES ELSE i>>
<1>1. /\ k \in Key
      /\ MaxRetries \in 0 .. MaxRetries
      /\ ProcessTransaction(k, objRequest, MaxRetries, sent)
  <2>1. k \in Key
    BY Keys
  <2>2. MaxRetries \in 0 .. MaxRetries
    BY RetriesAssumption
  <2>. QED
    BY <2>1, <2>2 DEF Accept
<1>2. /\ TransOpen' = TransOpen \cup {k}
      /\ TalkOpen' = IF sent THEN TalkOpen \cup {k} ELSE TalkOpen
      /\ trans'[k].objRequest = objRequest
      /\ trans'[k].timer = sent
      /\ sent => talk'[k] = RespType(objRequest)
      /\ \A j \in Key \ {k} : trans'[j] = trans[j] /\ talk'[j] = talk[j]
      /\ refused' = (refused \/ ~sent)
  BY <1>1, TransactionOpens DEF TablesInv
<1>3. ioOpen' = ioOpen
  BY DEF Accept
<1>4. <<o, i>> \notin TransOpen /\ <<o, ALL_INSTANCES>> \notin TransOpen
  BY DEF Accept, InProgress, TransFind, FindKey
<1>5. ZeroExcludesAll'
  <2>1. i # ALL_INSTANCES /\ 0 # ALL_INSTANCES
    BY Keys
  <2>2. \A p \in Obj : ~({<<p, 0>>, <<p, ALL_INSTANCES>>} \subseteq TransOpen \cup {k})
    BY <1>4, <2>1 DEF TablesInv, ZeroExcludesAll, Admissible
  <2>. QED
    BY <1>2, <2>2 DEF ZeroExcludesAll
<1>6. TalkOwned'
  BY <1>2, <1>3 DEF TablesInv, TalkOwned
<1>7. TimerBacked'
  BY <1>2, <1>3 DEF TablesInv, TimerBacked, TransOpen
<1>8. TablesAgree'
  BY <1>2, <1>3 DEF TablesInv, TablesAgree, TransOpen
<1>. QED
  BY <1>5, <1>6, <1>7, <1>8

LEMMA RetryTables ==
  ASSUME TablesInv, NEW k \in TransOpen, NEW sent \in BOOLEAN, Retry(k, sent)
  PROVE  ZeroExcludesAll' /\ TalkOwned' /\ TimerBacked' /\ TablesAgree'
<1>1. k \in Key /\ trans[k] \in Transaction
  BY DEF TransOpen, TablesInv, TypeOK
<1>2. /\ trans[k].objRequest \in BOOLEAN
      /\ trans[k].retriesRemaining - 1 \in 0 .. MaxRetries
  BY <1>1, RetriesAssumption DEF Retry, Transaction
<1>3. /\ TransOpen' = TransOpen
      /\ TalkOpen' = IF sent THEN TalkOpen \cup {k} ELSE TalkOpen
      /\ trans'[k].objRequest = trans[k].objRequest
      /\ trans'[k].timer = sent
      /\ sent => talk'[k] = RespType(trans[k].objRequest)
      /\ ~sent => talk'[k] = talk[k]
      /\ \A j \in Key \ {k} : trans'[j] = trans[j] /\ talk'[j] = talk[j]
      /\ refused' = (refused \/ ~sent)
  BY <1>1, <1>2, TransactionOpens, ZenonT(60) DEF TablesInv, Retry
<1>4. ioOpen' = ioOpen
  BY DEF Retry
<1>5. ZeroExcludesAll' /\ TalkOwned'
  BY <1>3, <1>4 DEF TablesInv, ZeroExcludesAll, TalkOwned
<1>6. TimerBacked'
  BY <1>3, <1>4 DEF TablesInv, TimerBacked, TransOpen
<1>7. TablesAgree'
  BY <1>3, <1>4 DEF TablesInv, TablesAgree, TransOpen
<1>. QED
  BY <1>5, <1>6, <1>7

LEMMA GiveUpTables ==
  ASSUME TablesInv, NEW k \in TransOpen, GiveUp(k)
  PROVE  ZeroExcludesAll' /\ TalkOwned' /\ TimerBacked' /\ TablesAgree'
<1>1. /\ ioOpen' = ioOpen
      /\ refused' = refused
      /\ TransOpen' = TransOpen \ {k}
  BY DEF GiveUp, TransOpen, TablesInv, TypeOK
<1>2. ZeroExcludesAll'
  BY <1>1 DEF TablesInv, ZeroExcludesAll
<1>3. CASE ~ioOpen
  BY <1>1, <1>2, <1>3 DEF TalkOwned, TimerBacked, TablesAgree
<1>4. CASE ioOpen
  <2>1. /\ k \notin TalkOpen'
        /\ \A j \in TransOpen' : trans'[j] = trans[j]
        /\ \A j \in Key : talk'[j] \in {talk[j], "none"}
        /\ \A j \in Key \ {k} : j[2] # ALL_INSTANCES => talk'[j] = talk[j]
        /\ k \in TalkOpen => \A j \in Key \ {k} : talk'[j] = talk[j]
    BY <1>4, GiveUpCloses DEF TablesInv
  <2>2. TalkOwned'
    BY <1>1, <2>1 DEF TablesInv, TalkOwned, TalkOpen
  <2>3. TimerBacked'
    BY <1>1, <2>1 DEF TablesInv, TimerBacked, TransOpen
  <2>4. TablesAgree'
    <3>1. k \in Key /\ trans[k] \in Transaction
      BY DEF TransOpen, TablesInv, TypeOK
    <3>2. RespType(trans[k].objRequest) # "none"
      BY DEF RespType
    <3>3. ~refused => k \in TalkOpen
      BY <1>4, <3>1, <3>2 DEF TablesInv, TablesAgree, TalkOpen
    <3>. QED
      BY <1>1, <2>1, <3>1, <3>3 DEF TablesInv, TablesAgree, TransOpen, TalkOpen
  <2>. QED
    BY <1>2, <2>2, <2>3, <2>4
<1>. QED
  BY <1>3, <1>4 DEF TablesInv, TypeOK, TalkTypeOK

LEMMA CompleteTables ==
  ASSUME TablesInv, ioOpen, NEW o \in Obj, NEW i \in Inst, NEW success,
         TalkFind(o, i) \in TalkOpen, Complete(o, i, success),
         UNCHANGED <<ioOpen, refused>>
  PROVE  ZeroExcludesAll' /\ TalkOwned' /\ TimerBacked' /\ TablesAgree'
<1>1. /\ TransFind(o, i) \in TransOpen
      /\ TransOpen' = TransOpen \ {TransFind(o, i)}
      /\ TalkOpen' = TalkOpen \ {TalkFind(o, i)}
      /\ TransFind(o, i) \notin TalkOpen'
      /\ \A k \in TransOpen' : trans'[k] = trans[k]
      /\ \A k \in Key \ {TalkFind(o, i)} : talk'[k] = talk[k]
      /\ TalkFind(o, i) \in {TransFind(o, i), <<o, ALL_INSTANCES>>}
  BY CompleteCloses DEF TablesInv
<1>2. ZeroExcludesAll' /\ TalkOwned'
  BY <1>1 DEF TablesInv, ZeroExcludesAll, TalkOwned
<1>3. TimerBacked'
  BY <1>1 DEF TablesInv, TimerBacked, TransOpen
<1>4. TablesAgree'
  <2>. SUFFICES ASSUME ~refused PROVE TablesAgree'
    BY DEF TablesAgree
  <2>1. TransOpen = TalkOpen
    <3>1. \A k \in TransOpen : talk[k] # "none"
      BY DEF TablesInv, TablesAgree, TransOpen, RespType
    <3>. QED
      BY <3>1 DEF TablesInv, TalkOwned, TransOpen, TalkOpen
  <2>2. TransFind(o, i) = TalkFind(o, i)
    BY <2>1 DEF TransFind, TalkFind
  <2>. QED
    BY <1>1, <2>2 DEF TablesInv, TablesAgree, TransOpen, TalkOpen
<1>. QED
  BY <1>2, <1>3, <1>4

LEMMA NextTables == TablesInv /\ [Next]_vars => TablesInv'
<1>. SUFFICES ASSUME TablesInv, [Next]_vars
              PROVE  TablesInv'
  OBVIOUS
<1>0. TypeOK'
  BY NextType DEF TablesInv
<1>. DEFINE Goal == ZeroExcludesAll' /\ TalkOwned' /\ TimerBacked' /\ TablesAgree'
<1>a. ASSUME UNCHANGED <<ioOpen, talk, trans, refused>>
      PROVE  Goal
  BY <1>a DEF TablesInv, ZeroExcludesAll, TalkOwned, TimerBacked, TablesAgree,
              TransOpen, TalkOpen
<1>1. ASSUME NEW o \in Obj, NEW i \in Inst, NEW all \in BOOLEAN,
             NEW objRequest \in BOOLEAN, NEW sent \in BOOLEAN,
             Admissible(o, i, all, sent), Accept(o, i, all, objRequest, sent)
      PROVE  Goal
  BY <1>1, AcceptTables
<1>2. ASSUME NEW o \in Obj, NEW i \in Inst, Drop(o, i) \/ Reject(o, i)
      PROVE  Goal
  BY <1>a, <1>2 DEF Drop, Reject, talkVars
<1>3. ASSUME NEW o \in Obj, NEW i \in Inst, ioOpen, ReceiveObj(o, i)
      PROVE  Goal
  <2>1. CASE Acks("OBJ", o, i)
    BY <1>3, <2>1, AnswerFound, CompleteTables DEF ReceiveObj
  <2>2. CASE ~Acks("OBJ", o, i)
    BY <1>a, <1>3, <2>2 DEF ReceiveObj
  <2>. QED
    BY <2>1, <2>2
<1>4. ASSUME NEW o \in Obj, NEW i \in Inst, ReceiveObjAck(o, i)
      PROVE  Goal
  BY <1>a, <1>4 DEF ReceiveObjAck
<1>5. ASSUME NEW o \in Obj, NEW i \in Inst, ioOpen, ReceiveAck(o, i)
      PROVE  Goal
  BY <1>5, AnswerFound, CompleteTables DEF ReceiveAck
<1>6. ASSUME NEW o \in Obj, NEW i \in Inst, ioOpen, ReceiveNack(o, i)
      PROVE  Goal
  BY <1>6, AnswerFound, CompleteTables DEF ReceiveNack
<1>7. ASSUME NEW k \in TransOpen, NEW sent \in BOOLEAN, Retry(k, sent)
      PROVE  Goal
  BY <1>7, RetryTables
<1>8. ASSUME NEW k \in TransOpen, GiveUp(k)
      PROVE  Goal
  BY <1>8, GiveUpTables
<1>9. ASSUME ChangeStatus
       PROVE  Goal
  BY <1>a, <1>9 DEF ChangeStatus, talkVars
<1>10. ASSUME DeviceDeleted
       PROVE  Goal
  BY <1>10 DEF DeviceDeleted, TablesInv, ZeroExcludesAll, TalkOwned,
               TimerBacked, TablesAgree, TransOpen
<1>11. ASSUME Restart
       PROVE  Goal
  <2>1. /\ TransOpen' = {}
        /\ TalkOpen' = {}
        /\ \A k \in Key : talk'[k] = "none"
    BY <1>11 DEF Restart, TransOpen, TalkOpen
  <2>. QED
    BY <2>1 DEF ZeroExcludesAll, TalkOwned, TimerBacked, TablesAgree
<1>12. ASSUME UNCHANGED vars
       PROVE  Goal
  BY <1>a, <1>12 DEF vars, talkVars
<1>. HIDE DEF Goal
<1>13. Goal
  BY <1>1, <1>2, <1>3, <1>4, <1>5, <1>6, <1>7, <1>8, <1>9, <1>10, <1>11,
     <1>12, StepCases
<1>. QED
  BY <1>0, <1>13 DEF TablesInv, Goal

THEOREM TablesCorrect == Spec => []TablesInv
BY InitTables, NextTables, PTL DEF Spec

(* UAVTalk never waits for an answer nobody is interested in any more.     *)
THEOREM EveryExpectationIsOwned == Spec => []TalkOwned
<1>1. TablesInv => TalkOwned
  BY DEF TablesInv
<1>. QED
  BY <1>1, TablesCorrect, PTL

(* A timed single-instance transaction can be answered.                    *)
THEOREM TimedTransactionsAreAnswerable == Spec => []TimerBacked
<1>1. TablesInv => TimerBacked
  BY DEF TablesInv
<1>. QED
  BY <1>1, TablesCorrect, PTL

(* Instance zero and all instances are never in progress together.         *)
THEOREM ZeroAndAllExclusive == Spec => []ZeroExcludesAll
<1>1. TablesInv => ZeroExcludesAll
  BY DEF TablesInv
<1>. QED
  BY <1>1, TablesCorrect, PTL

(* With a device that takes every message, nothing is ever forgotten.      *)
THEOREM TablesAgreeUnlessRefused == Spec => []TablesAgree
<1>1. TablesInv => TablesAgree
  BY DEF TablesInv
<1>. QED
  BY <1>1, TablesCorrect, PTL
=============================================================================
