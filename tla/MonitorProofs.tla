---------------------------- MODULE MonitorProofs ----------------------------
(***************************************************************************)
(* Proofs about TelemetryMonitor: its type invariant, that an unfinished   *)
(* retrieval is always driven by an open transaction, and that the end of  *)
(* a retrieval announces the connection only after every object.           *)
(***************************************************************************)
EXTENDS TelemetryMonitor, TLAPS

(* While connected, every object to be retrieved is still in the queue, is *)
(* the pending one, or has been concluded since the connection.            *)
NothingSkipped ==
  gcsStatus = "CONNECTED" => Retrieved \subseteq queue \cup {objPending} \cup seen

RetrievalTypeOK ==
  /\ {iapListening, announced, refused} \subseteq BOOLEAN
  /\ queue \subseteq Retrieved
  /\ objPending \in (Retrieved \ queue) \cup {NoObj}
  /\ inProgress \subseteq Obj

MonitorInv == TypeOK /\ RetrievalDriven /\ NothingSkipped

USE RetrievedAssumption, ObjectsAssumption
-----------------------------------------------------------------------------
(* retrieveNextObject leaves a retrieval that is driven by the transaction *)
(* of the pending object, and takes each of its objects or keeps it.       *)
LEMMA RetrieveNextDrives ==
  ASSUME NEW remaining \in SUBSET Retrieved, NEW open \in SUBSET Obj,
         NEW board \in BOOLEAN, NEW listening \in BOOLEAN, NEW told \in BOOLEAN,
         refused \in BOOLEAN,
         RetrieveNext(remaining, open, board, listening, told)
  PROVE  /\ RetrievalTypeOK'
         /\ RetrievalDriven'
         /\ remaining \subseteq queue' \cup {objPending'}
         /\ announced' /\ ~told => remaining = {}
<1>1. CASE /\ remaining = {}
           /\ queue' = {}
           /\ objPending' = NoObj
           /\ announced' = (told \/ board)
           /\ iapListening' = (listening \/ ~board)
           /\ inProgress' = open
           /\ refused' = refused
  BY <1>1 DEF RetrievalTypeOK, RetrievalDriven
<1>2. ASSUME NEW obj \in remaining, NEW sent \in BOOLEAN,
             queue' = remaining \ {obj},
             objPending' = obj,
             inProgress' = open \cup {obj},
             refused' = (refused \/ (obj \notin open /\ ~sent)),
             announced' = told,
             iapListening' = listening
      PROVE  /\ RetrievalTypeOK'
             /\ RetrievalDriven'
             /\ remaining \subseteq queue' \cup {objPending'}
             /\ announced' /\ ~told => remaining = {}
  BY <1>2 DEF RetrievalTypeOK, RetrievalDriven
<1> QED BY <1>1, <1>2 DEF RetrieveNext

(* The slot transactionCompleted keeps the retrieval driven, whatever      *)
(* transaction it is told of, and while connected skips no object but that *)
(* one.  A connection it announces is one with nothing left to retrieve.   *)
LEMMA CompletedDrives ==
  ASSUME MonitorInv, NEW obj \in Obj, NEW open \in SUBSET Obj,
         NEW board \in BOOLEAN, NEW told \in BOOLEAN,
         inProgress \ {obj} \subseteq open,
         TransactionCompleted(obj, open, board, told)
  PROVE  /\ RetrievalTypeOK'
         /\ RetrievalDriven'
         /\ gcsStatus = "CONNECTED"
              => Retrieved \subseteq queue' \cup {objPending'} \cup seen \cup {obj}
         /\ announced' /\ ~told
              => gcsStatus = "CONNECTED" /\ Retrieved \subseteq seen \cup {obj}
<1> USE DEF MonitorInv, TypeOK
<1>1. CASE /\ obj = objPending
           /\ gcsStatus = "CONNECTED"
           /\ RetrieveNext(queue, open, board, iapListening /\ obj # Iap, told)
  <2> DEFINE listening == iapListening /\ obj # Iap
  <2>1. listening \in BOOLEAN
    <3>1. CASE listening
      BY <3>1
    <3>2. CASE ~listening
      BY <3>2
    <3> QED BY <3>1, <3>2
  <2>2. refused \in BOOLEAN /\ queue \in SUBSET Retrieved /\ RetrieveNext(queue, open, board, listening, told)
    BY <1>1
  <2> HIDE DEF listening
  <2>3. /\ RetrievalTypeOK'
        /\ RetrievalDriven'
        /\ queue \subseteq queue' \cup {objPending'}
        /\ announced' /\ ~told => queue = {}
    BY <2>2, <2>1, RetrieveNextDrives
  <2> QED BY <1>1, <2>3 DEF NothingSkipped
<1>2. CASE /\ obj = objPending
           /\ gcsStatus # "CONNECTED"
           /\ queue' = {}
           /\ objPending' = NoObj
           /\ iapListening' = (iapListening /\ obj # Iap)
           /\ announced' = told
           /\ inProgress' = open
           /\ refused' = refused
  BY <1>2 DEF RetrievalTypeOK, RetrievalDriven
<1>3. CASE /\ obj # objPending
           /\ announced' = told
           /\ inProgress' = open
           /\ UNCHANGED <<queue, objPending, iapListening, refused>>
  BY <1>3 DEF RetrievalTypeOK, RetrievalDriven, NothingSkipped
<1> QED BY <1>1, <1>2, <1>3 DEF TransactionCompleted

(* processStatsUpdates keeps the invariant: a new connection starts its    *)
(* retrieval over, a lost one leaves the old retrieval to its transaction. *)
LEMMA ProcessStatsKeeps ==
  ASSUME MonitorInv, NEW flight, NEW from \in Elapsed \cup {Never}, NEW to,
         ProcessStatsUpdates(flight, from, to)
  PROVE  /\ RetrievalTypeOK' /\ RetrievalDriven' /\ NothingSkipped'
         /\ gcsStatus' \in Status \ {"HANDSHAKEACK"}
         /\ connectionTimer' \in Elapsed \cup {Never}
         /\ seen' \subseteq Obj
         /\ announced' => announced
<1> USE DEF MonitorInv, TypeOK
<1>1. PICK late \in TimedOut(from, to) :
        /\ gcsStatus' = NextStatus(flight, late)
        /\ connectionTimer' = IF rxObjects THEN 0 ELSE from
        /\ \/ /\ gcsStatus' = gcsStatus \/ gcsStatus' = "HANDSHAKEREQ"
              /\ UNCHANGED <<retrieval, seen>>
           \/ /\ gcsStatus' = "CONNECTED" /\ gcsStatus # "CONNECTED"
              /\ StartRetrieving
              /\ seen' = {}
           \/ /\ gcsStatus' = "DISCONNECTED"
              /\ announced' = FALSE
              /\ UNCHANGED <<queue, objPending, iapListening, inProgress, refused, seen>>
  BY DEF ProcessStatsUpdates
<1>2. gcsStatus' \in Status \ {"HANDSHAKEACK"}
  BY <1>1 DEF NextStatus, Status
<1>3. connectionTimer' \in Elapsed \cup {Never}
  BY <1>1 DEF Elapsed, ConnectionTimeout
<1>4. CASE /\ gcsStatus' = gcsStatus \/ gcsStatus' = "HANDSHAKEREQ"
           /\ UNCHANGED <<retrieval, seen>>
  BY <1>2, <1>3, <1>4 DEF RetrievalTypeOK, RetrievalDriven, NothingSkipped, retrieval
<1>5. CASE /\ gcsStatus' = "CONNECTED" /\ gcsStatus # "CONNECTED"
           /\ StartRetrieving
           /\ seen' = {}
  <2>1. /\ RetrievalTypeOK'
        /\ RetrievalDriven'
        /\ Retrieved \subseteq queue' \cup {objPending'}
        /\ announced' /\ ~announced => Retrieved = {}
    BY <1>5, RetrieveNextDrives DEF StartRetrieving
  <2> QED BY <1>2, <1>3, <1>5, <2>1 DEF NothingSkipped
<1>6. CASE /\ gcsStatus' = "DISCONNECTED"
           /\ announced' = FALSE
           /\ UNCHANGED <<queue, objPending, iapListening, inProgress, refused, seen>>
  BY <1>2, <1>3, <1>6 DEF RetrievalTypeOK, RetrievalDriven, NothingSkipped
<1> QED BY <1>1, <1>4, <1>5, <1>6

(* The timer keeps its range as time passes.                               *)
LEMMA LaterTyped ==
  ASSUME connectionTimer \in Elapsed \cup {Never}, NEW time
  PROVE  Later(time) \in Elapsed \cup {Never}
BY DEF Later, Elapsed, ConnectionTimeout
-----------------------------------------------------------------------------
(* The type invariant and its two companions hold initially.               *)
LEMMA MonitorInit == Init => MonitorInv
BY DEF Init, MonitorInv, TypeOK, RetrievalDriven, NothingSkipped, Status, Elapsed,
       Never, ConnectionTimeout

(* ... and every step of the monitor keeps them.                           *)
LEMMA MonitorStep == MonitorInv /\ [Next]_vars => MonitorInv'
<1> SUFFICES ASSUME MonitorInv, [Next]_vars PROVE MonitorInv'
  OBVIOUS
<1>1. CASE StatsTimer
  <2>1. Later(Period) \in Elapsed \cup {Never}
    BY LaterTyped DEF MonitorInv, TypeOK
  <2>2. /\ RetrievalTypeOK' /\ RetrievalDriven' /\ NothingSkipped'
        /\ gcsStatus' \in Status \ {"HANDSHAKEACK"}
        /\ connectionTimer' \in Elapsed \cup {Never}
        /\ seen' \subseteq Obj
    BY <1>1, <2>1, ProcessStatsKeeps DEF StatsTimer
  <2>3. {rxObjects', answered', boardKnown'} \subseteq BOOLEAN /\ flightStatus' \in Status
    BY <1>1 DEF StatsTimer, MonitorInv, TypeOK
  <2> QED BY <2>2, <2>3 DEF MonitorInv, TypeOK, RetrievalTypeOK
<1>2. ASSUME NEW status \in Status, ReceiveFlightStats(status)
      PROVE  MonitorInv'
  <2>1. /\ RetrievalTypeOK' /\ RetrievalDriven' /\ NothingSkipped'
        /\ gcsStatus' \in Status \ {"HANDSHAKEACK"}
        /\ connectionTimer' \in Elapsed \cup {Never}
        /\ seen' \subseteq Obj
    <3>1. CASE ProcessStatsUpdates(status, connectionTimer, Later(Period))
      BY <3>1, ProcessStatsKeeps DEF MonitorInv, TypeOK
    <3>2. CASE UNCHANGED <<gcsStatus, connectionTimer, retrieval, seen>>
      BY <3>2 DEF retrieval, MonitorInv, TypeOK, RetrievalTypeOK, RetrievalDriven, NothingSkipped
    <3> QED BY <1>2, <3>1, <3>2 DEF ReceiveFlightStats
  <2>2. {rxObjects', answered', boardKnown'} \subseteq BOOLEAN /\ flightStatus' \in Status
    BY <1>2 DEF ReceiveFlightStats, MonitorInv, TypeOK
  <2> QED BY <2>1, <2>2 DEF MonitorInv, TypeOK, RetrievalTypeOK
<1>3. ASSUME NEW board \in BOOLEAN, NEW received \in BOOLEAN, UpdateIap(board, received)
      PROVE  MonitorInv'
  BY <1>3 DEF UpdateIap, FirmwareIAPUpdated, MonitorInv, TypeOK, RetrievalDriven, NothingSkipped
<1>4. ASSUME NEW obj \in Obj, NEW received \in BOOLEAN, NEW board \in BOOLEAN,
             Conclude(obj, received, board)
      PROVE  MonitorInv'
  <2> DEFINE told == IF obj = Iap /\ received THEN FirmwareIAPUpdated(board) ELSE announced
  <2>1. told \in BOOLEAN
    BY DEF FirmwareIAPUpdated, MonitorInv, TypeOK
  <2>2. TransactionCompleted(obj, inProgress \ {obj}, board, told)
    BY <1>4 DEF Conclude
  <2>3. inProgress \ {obj} \in SUBSET Obj
    BY DEF MonitorInv, TypeOK
  <2> HIDE DEF told
  <2>4. /\ RetrievalTypeOK'
        /\ RetrievalDriven'
        /\ gcsStatus = "CONNECTED"
             => Retrieved \subseteq queue' \cup {objPending'} \cup seen \cup {obj}
    BY <2>1, <2>2, <2>3, CompletedDrives, SMTT(40)
  <2>5. NothingSkipped'
    BY <1>4, <2>4 DEF Conclude, NothingSkipped
  <2>6. TypeOK'
    BY <1>4, <2>4 DEF Conclude, RetrievalTypeOK, MonitorInv, TypeOK
  <2> QED BY <2>4, <2>5, <2>6 DEF MonitorInv
<1>5. ASSUME NEW obj \in Obj, NEW sent \in BOOLEAN, RequestAccepted(obj, sent)
      PROVE  MonitorInv'
  BY <1>5 DEF RequestAccepted, link, MonitorInv, TypeOK, RetrievalDriven, NothingSkipped
<1>6. ASSUME NEW obj \in Obj, RequestRejected(obj)
      PROVE  MonitorInv'
  <2>1. /\ RetrievalTypeOK'
        /\ RetrievalDriven'
    BY <1>6, CompletedDrives DEF RequestRejected, MonitorInv, TypeOK
  <2>2. NothingSkipped' /\ UNCHANGED <<link, seen>>
    BY <1>6 DEF RequestRejected, Admitted, NothingSkipped, link
  <2> QED BY <2>1, <2>2 DEF link, RetrievalTypeOK, MonitorInv, TypeOK
<1>7. CASE Receive
  BY <1>7 DEF Receive, retrieval, MonitorInv, TypeOK, RetrievalDriven, NothingSkipped
<1>8. CASE Restart
  BY <1>8 DEF Restart, MonitorInv, TypeOK, RetrievalDriven, NothingSkipped, Status, Elapsed,
              Never, ConnectionTimeout
<1>9. CASE UNCHANGED vars
  BY <1>9 DEF vars, link, retrieval, MonitorInv, TypeOK, RetrievalDriven, NothingSkipped
<1> QED BY <1>1, <1>2, <1>3, <1>4, <1>5, <1>6, <1>7, <1>8, <1>9 DEF Next

LEMMA MonitorInvariant == Spec => []MonitorInv
BY MonitorInit, MonitorStep, PTL DEF Spec
-----------------------------------------------------------------------------
(* TypeOK of TelemetryMonitor is an invariant: the status never takes the  *)
(* value HANDSHAKEACK, which is the flight side's, and the pending object  *)
(* is never also in the queue.                                             *)
THEOREM MonitorTypeCorrect == Spec => []TypeOK
BY MonitorInvariant, PTL DEF MonitorInv

(* An unfinished retrieval always has the open transaction that will carry *)
(* it on: processStatsUpdates and transactionCompleted never leave         *)
(* objPending waiting for a signal nobody will send.                       *)
THEOREM UnfinishedRetrievalIsDriven == Spec => []RetrievalDriven
BY MonitorInvariant, PTL DEF MonitorInv

(* retrieveNextObject emits connected() only with the autopilot connected  *)
(* and every object to be retrieved concluded since then.                  *)
THEOREM AnnouncementFollowsRetrieval == Spec => AnnouncedWhenRetrieved
<1> DEFINE Announced == ~announced /\ announced' /\ ~iapListening
                          => gcsStatus = "CONNECTED" /\ Retrieved \subseteq seen'
<1>1. MonitorInv /\ [Next]_vars => [Announced]_vars
  <2> SUFFICES ASSUME MonitorInv, Next, ~announced, announced', ~iapListening
               PROVE  gcsStatus = "CONNECTED" /\ Retrieved \subseteq seen'
    OBVIOUS
  <2>1. ~StatsTimer
    <3>1. Later(Period) \in Elapsed \cup {Never}
      BY LaterTyped DEF MonitorInv, TypeOK
    <3> QED BY <3>1, ProcessStatsKeeps DEF StatsTimer
  <2>2. ASSUME NEW status \in Status, ReceiveFlightStats(status)
        PROVE  FALSE
    <3>1. announced' => announced
      BY <2>2, ProcessStatsKeeps DEF ReceiveFlightStats, retrieval, MonitorInv, TypeOK
    <3> QED BY <3>1
  <2>3. ASSUME NEW obj \in Obj, NEW received \in BOOLEAN, NEW board \in BOOLEAN,
               Conclude(obj, received, board)
        PROVE  gcsStatus = "CONNECTED" /\ Retrieved \subseteq seen'
    <3>1. TransactionCompleted(obj, inProgress \ {obj}, board, announced)
      BY <2>3 DEF Conclude, FirmwareIAPUpdated, MonitorInv, TypeOK
    <3>2. announced \in BOOLEAN /\ inProgress \ {obj} \in SUBSET Obj
      BY DEF MonitorInv, TypeOK
    <3>3. announced' /\ ~announced
            => gcsStatus = "CONNECTED" /\ Retrieved \subseteq seen \cup {obj}
      BY <3>1, <3>2, CompletedDrives
    <3> QED BY <2>3, <3>3 DEF Conclude
  <2>4. ASSUME NEW obj \in Obj, RequestRejected(obj)
        PROVE  FALSE
    <3>1. announced' /\ ~announced => gcsStatus = "CONNECTED"
      BY <2>4, CompletedDrives DEF RequestRejected, MonitorInv, TypeOK
    <3> QED BY <2>4, <3>1 DEF RequestRejected, Admitted
  <2>5. ASSUME NEW board \in BOOLEAN, NEW received \in BOOLEAN, UpdateIap(board, received)
        PROVE  FALSE
    BY <2>5 DEF UpdateIap, FirmwareIAPUpdated
  <2>6. ASSUME NEW obj \in Obj, NEW sent \in BOOLEAN, RequestAccepted(obj, sent)
        PROVE  FALSE
    BY <2>6 DEF RequestAccepted
  <2>7. ~Receive /\ ~Restart
    BY DEF Receive, Restart, retrieval
  <2> QED BY <2>1, <2>2, <2>3, <2>4, <2>5, <2>6, <2>7 DEF Next
<1> QED BY <1>1, MonitorInvariant, PTL DEF Spec, AnnouncedWhenRetrieved
=============================================================================
