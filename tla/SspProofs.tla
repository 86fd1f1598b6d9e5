----------------------------- MODULE SspProofs -----------------------------
(***************************************************************************)
(* Proofs about SspThread, for every cycle of numbers, every number of     *)
(* transmissions and every bound: what becomes of the packets that are     *)
(* handed from the uploader to the thread.                                 *)
(***************************************************************************)
EXTENDS SspThread, TLAPS

Counters == /\ sent \in [Ends -> Nat]
            /\ calls \in Nat /\ refused \in Nat /\ datapending \in BOOLEAN

Pending == IF datapending THEN 1 ELSE 0

Balance == calls = sent["gcs"] + refused + Pending

CountInv == Counters /\ Balance

LEMMA PendingValue ==
  /\ datapending = TRUE => Pending = 1
  /\ datapending = FALSE => Pending = 0
BY DEF Pending

LEMMA InitCount == Init => CountInv
<1> SUFFICES ASSUME Init PROVE CountInv
  OBVIOUS
<1>1. datapending = FALSE /\ sent = [e \in Ends |-> 0] /\ calls = 0 /\ refused = 0
  BY DEF Init
<1>2. Counters
  BY <1>1 DEF Counters
<1>3. sent["gcs"] = 0
  BY <1>1 DEF Ends
<1> QED
  BY <1>1, <1>2, <1>3, PendingValue DEF CountInv, Balance

LEMMA NextCount == CountInv /\ [Next]_vars => CountInv'
<1> SUFFICES ASSUME CountInv, [Next]_vars PROVE CountInv'
  OBVIOUS
<1> USE DEF CountInv, Counters, Balance
<1>0. /\ sent["gcs"] \in Nat /\ sent["board"] \in Nat /\ Pending \in Nat
      /\ datapending' = TRUE => Pending' = 1
      /\ datapending' = FALSE => Pending' = 0
  BY PendingValue DEF Ends, Pending
<1>1. ASSUME UNCHANGED <<sent, calls, refused, datapending>> PROVE CountInv'
  BY <1>1 DEF Pending
<1>2. CASE ThreadHandOver
  <2>1. HandOver /\ UNCHANGED calls
    BY <1>2 DEF ThreadHandOver
  <2>2. CASE ~datapending \/ ~thread.idle
    BY <1>1, <2>1, <2>2 DEF HandOver, ports
  <2>3. CASE datapending /\ thread.idle /\ Idle(port["gcs"])
    <3>1. sent' = [sent EXCEPT !["gcs"] = @ + 1] /\ UNCHANGED refused /\ datapending' = FALSE
      BY <2>1, <2>3 DEF HandOver, Transmit
    <3>2. sent' \in [Ends -> Nat] /\ sent'["gcs"] = sent["gcs"] + 1
      BY <3>1 DEF Ends
    <3>3. Pending = 1 /\ Pending' = 0
      BY <1>0, <2>3, <3>1, PendingValue
    <3>4. Balance'
      BY <1>0, <2>1, <3>1, <3>2, <3>3
    <3> QED
      BY <2>1, <3>1, <3>2, <3>4
  <2>4. CASE datapending /\ thread.idle /\ ~Idle(port["gcs"])
    <3>1. UNCHANGED sent /\ refused' = refused + 1 /\ datapending' = FALSE
      BY <2>1, <2>4 DEF HandOver, ports
    <3>2. Pending = 1 /\ Pending' = 0
      BY <1>0, <2>4, <3>1, PendingValue
    <3>3. Balance'
      BY <1>0, <2>1, <3>1, <3>2
    <3>4. refused' \in Nat /\ calls' \in Nat /\ sent' \in [Ends -> Nat]
      BY <2>1, <3>1
    <3>5. datapending' \in BOOLEAN
      BY <3>1
    <3> QED
      BY <3>3, <3>4, <3>5
  <2> QED
    BY <2>2, <2>3, <2>4
<1>3. CASE CallSendData
  <2>1. /\ UNCHANGED <<sent, refused>> /\ calls' = calls + 1
        /\ datapending = FALSE /\ datapending' = TRUE
    BY <1>3 DEF CallSendData, ports
  <2>2. Pending = 0 /\ Pending' = 1
    BY <1>0, <2>1, PendingValue
  <2>3. Balance'
    BY <1>0, <2>1, <2>2
  <2> QED
    BY <2>1, <2>3
<1>4. CASE BoardSend
  <2>1. sent' = [sent EXCEPT !["board"] = @ + 1] /\ UNCHANGED <<calls, refused, datapending>>
    BY <1>4 DEF BoardSend, Transmit, user
  <2>2. sent' \in [Ends -> Nat] /\ sent'["gcs"] = sent["gcs"] /\ Pending' = Pending
    BY <2>1 DEF Ends, Pending
  <2> QED
    BY <2>1, <2>2
<1>5. ASSUME Stations \/ Board PROVE CountInv'
  <2>1. UNCHANGED <<sent, calls, refused, datapending>>
    BY <1>5 DEF Stations, Board, SynchroniseRound, ThreadRound, BoardRound, Round, user
  <2> QED
    BY <1>1, <2>1
<1>6. ASSUME Start \/ Wait \/ WaitTimeout \/ (\E e \in Ends : Lose(e)) \/ UNCHANGED vars
      PROVE  CountInv'
  <2>1. UNCHANGED <<sent, calls, refused, datapending>>
    BY <1>6 DEF Start, Wait, WaitTimeout, Return, Lose, vars, ports, user
  <2> QED
    BY <1>1, <2>1
<1> QED
  BY <1>2, <1>3, <1>4, <1>5, <1>6 DEF Next

(* Every call of sendData that filled mbuf has its packet transmitted for  *)
(* the first time once, refused as BUSY once, or still lies there: however *)
(* the two threads interleave, no call is forgotten and none counts twice. *)
THEOREM EachCallHandedOverOnce == Spec => []HandedOverOnce
<1>1. Init => CountInv
  BY InitCount
<1>2. CountInv /\ [Next]_vars => CountInv'
  BY NextCount
<1>3. CountInv => HandedOverOnce
  BY DEF CountInv, Balance, Pending, HandedOverOnce
<1> QED
  BY <1>1, <1>2, <1>3, PTL DEF Spec

-----------------------------------------------------------------------------
PortRecord(p) == p = [state |-> p.state, txSeq |-> p.txSeq, rxSeq |-> p.rxSeq,
                      retry |-> p.retry, txBuf |-> p.txBuf]

PortRecords == /\ DOMAIN port = Ends /\ port = [e \in Ends |-> port[e]]
               /\ \A e \in Ends : PortRecord(port[e])

Opening == thread.pc \notin {"round", "handover"}

ThreadRecord == thread = [pc |-> thread.pc, tries |-> thread.tries,
                          idle |-> thread.idle, acked |-> thread.acked]

(* Until a call has returned too early, a packet in mbuf finds the port    *)
(* idle, and while nobody is in sendData there is neither a packet in mbuf *)
(* nor one under way.  The link is opened before anybody calls.            *)
QuietUnlessEarly ==
  /\ Opening => caller = "out" /\ ~datapending /\ refused = 0
  /\ ~early => /\ refused = 0
               /\ datapending => Idle(port["gcs"])
               /\ caller = "out" /\ ~Opening => ~datapending /\ Idle(port["gcs"])

EarlyInv == PortRecords /\ ThreadRecord /\ QuietUnlessEarly /\ early \in BOOLEAN
              /\ datapending \in BOOLEAN /\ refused \in Nat

LEMMA SendPacketEffect ==
  ASSUME NEW p, PortRecord(p)
  PROVE  PortRecord(SendPacket(p)) /\ SendPacket(p).state = p.state
<1>1. \E r : SendPacket(p) = [p EXCEPT !.retry = r]
  BY DEF SendPacket
<1> QED
  BY <1>1 DEF PortRecord

(* A round leaves an idle port idle, and a port whose acknowledge it       *)
(* reports.                                                                *)
LEMMA RoundEffect ==
  ASSUME NEW e \in Ends, NEW in, NEW expired \in BOOLEAN, PortRecords,
         Round(e, in, expired)
  PROVE  /\ PortRecords'
         /\ \A x \in Ends : x # e => port'[x] = port[x]
         /\ Idle(port[e]) => Idle(port'[e])
         /\ SendStatus(Received(e, in), expired) = "ACKED" => Idle(port'[e])
<1> DEFINE p == Received(e, in)
           q == SendProcess(p, expired)
<1>1. PortRecord(p) /\ (Idle(port[e]) => p.state \in {"IDLE", "ACKED"})
  <2>1. PortRecord(port[e])
    BY DEF PortRecords
  <2>2. CASE in = <<>>
    BY <2>1, <2>2 DEF Received, Idle
  <2>3. CASE in # <<>>
    <3> DEFINE k == in[1]
    <3>1. p = ReceivePacket(port[e], k)
      BY <2>3 DEF Received
    <3>2. CASE Matches(port[e], k)
      <4>1. p = [port[e] EXCEPT !.state = "ACKED"]
        BY <3>1, <3>2 DEF ReceivePacket, Matches
      <4> QED
        BY <2>1, <4>1 DEF PortRecord
    <3>3. CASE ~Matches(port[e], k) /\ k.type = "data"
      <4>1. p = [SendAck(port[e], k) EXCEPT !.rxSeq = k.seq]
        BY <3>1, <3>3 DEF ReceivePacket
      <4>2. PortRecord(SendAck(port[e], k)) /\ SendAck(port[e], k).state = port[e].state
        <5> DEFINE a == [port[e] EXCEPT !.txBuf = Ack(k)]
        <5>1. PortRecord(a) /\ a.state = port[e].state
          BY <2>1 DEF PortRecord
        <5>2. SendAck(port[e], k) = SendPacket(a)
          BY DEF SendAck
        <5> HIDE DEF a
        <5> QED
          BY <5>1, <5>2, SendPacketEffect
      <4> QED
        BY <2>1, <4>1, <4>2 DEF PortRecord, Idle
    <3>4. CASE ~Matches(port[e], k) /\ k.type # "data"
      BY <2>1, <3>1, <3>4 DEF ReceivePacket, Idle
    <3> QED
      BY <3>2, <3>3, <3>4
  <2> QED
    BY <2>2, <2>3
<1>2. /\ PortRecord(q)
      /\ p.state \in {"IDLE", "ACKED"} => Idle(q)
  <2>1. CASE Resends(p, expired)
    <3>1. q = SendPacket(p) /\ p.state = "AWAITING_ACK"
      BY <2>1 DEF SendProcess, Resends
    <3> QED
      BY <1>1, <3>1, SendPacketEffect
  <2>2. CASE ~Resends(p, expired)
    BY <1>1, <2>2 DEF SendProcess, PortRecord, Idle
  <2> QED
    BY <2>1, <2>2
<1>3. port' = [port EXCEPT ![e] = q]
  BY DEF Round
<1>4. SendStatus(p, expired) = "ACKED" => p.state = "ACKED"
  BY DEF SendStatus
<1> HIDE DEF p, q
<1>5. PortRecords'
  BY <1>2, <1>3 DEF PortRecords
<1>6. port'[e] = q /\ \A x \in Ends : x # e => port'[x] = port[x]
  BY <1>3 DEF PortRecords
<1> QED
  BY <1>1, <1>2, <1>4, <1>5, <1>6 DEF p, q

LEMMA TransmitEffect ==
  ASSUME NEW e \in Ends, PortRecords, Transmit(e)
  PROVE  PortRecords' /\ \A x \in Ends : x # e => port'[x] = port[x]
<1> DEFINE q == SendData(port[e], sent[e] + 1)
<1>1. port' = [port EXCEPT ![e] = q]
  BY DEF Transmit
<1>2. PortRecord(port[e])
  BY DEF PortRecords
<1>3. \E s, b : q = SendPacket([port[e] EXCEPT !.state = "AWAITING_ACK", !.txSeq = s,
                                               !.retry = 0, !.txBuf = b])
  BY DEF SendData
<1>4. \A s, b : PortRecord([port[e] EXCEPT !.state = "AWAITING_ACK", !.txSeq = s,
                                            !.retry = 0, !.txBuf = b])
  <2> SUFFICES ASSUME NEW s, NEW b
               PROVE  PortRecord([port[e] EXCEPT !.state = "AWAITING_ACK", !.txSeq = s,
                                                 !.retry = 0, !.txBuf = b])
    OBVIOUS
  <2> DEFINE a == [port[e] EXCEPT !.state = "AWAITING_ACK"]
             t == [a EXCEPT !.txSeq = s]
             r == [t EXCEPT !.retry = 0]
  <2>1. PortRecord(a)
    BY <1>2 DEF PortRecord
  <2> HIDE DEF a
  <2>2. PortRecord(t)
    BY <2>1 DEF PortRecord
  <2> HIDE DEF t
  <2>3. PortRecord(r)
    BY <2>2 DEF PortRecord
  <2> HIDE DEF r
  <2>4. PortRecord([r EXCEPT !.txBuf = b])
    BY <2>3 DEF PortRecord
  <2> QED
    BY <2>4 DEF a, t, r
<1>5. PortRecord(q)
  BY <1>3, <1>4, SendPacketEffect
<1> HIDE DEF q
<1> QED
  BY <1>1, <1>5 DEF PortRecords

LEMMA InitEarly == Init => EarlyInv
<1> SUFFICES ASSUME Init PROVE EarlyInv
  OBVIOUS
<1>1. PICK n \in Earlier :
        port = [e \in Ends |-> IF e = "gcs" THEN PortInit
                               ELSE [PortInit EXCEPT !.rxSeq = n[1], !.txSeq = n[2]]]
  BY DEF Init
<1>2. /\ PortRecord(PortInit)
      /\ PortRecord([PortInit EXCEPT !.rxSeq = n[1], !.txSeq = n[2]])
  <2> DEFINE a == [PortInit EXCEPT !.rxSeq = n[1]]
  <2>1. PortRecord(PortInit)
    BY DEF PortRecord, PortInit
  <2>2. PortRecord(a)
    BY <2>1 DEF PortRecord
  <2> HIDE DEF a
  <2>3. PortRecord([a EXCEPT !.txSeq = n[2]])
    BY <2>2 DEF PortRecord
  <2> QED
    BY <2>1, <2>3 DEF a
<1>3. PortRecords
  BY <1>1, <1>2 DEF PortRecords
<1> QED
  BY <1>3 DEF Init, EarlyInv, ThreadRecord, QuietUnlessEarly, Opening

LEMMA NextEarly == EarlyInv /\ [Next]_vars => EarlyInv'
<1> SUFFICES ASSUME EarlyInv, [Next]_vars PROVE EarlyInv'
  OBVIOUS
<1> USE DEF EarlyInv
<1>0. "gcs" \in Ends /\ "board" \in Ends
  BY DEF Ends
<1>1. CASE Start
  <2>1. PortRecords'
    <3> DEFINE q == Synchronise(port["gcs"])
    <3>1. \E s, t, r, b : q = [port["gcs"] EXCEPT !.state = s, !.txSeq = t, !.txBuf = b, !.retry = r]
      BY <1>0 DEF Synchronise, SendPacket, PortRecords, PortRecord
    <3>2. PortRecord(q)
      BY <1>0, <3>1 DEF PortRecord, PortRecords
    <3>3. port' = [port EXCEPT !["gcs"] = q]
      BY <1>1 DEF Start
    <3> QED
      BY <3>2, <3>3 DEF PortRecords
  <2> QED
    BY <1>1, <2>1 DEF Start, user, ThreadRecord, QuietUnlessEarly, Opening
<1>2. ASSUME NEW in, NEW expired \in BOOLEAN, SynchroniseRound(in, expired)
      PROVE  EarlyInv'
  <2> DEFINE status == SendStatus(Received("gcs", in), expired)
  <2>1. PortRecords' /\ (status = "ACKED" => Idle(port'["gcs"]))
    BY <1>0, <1>2, RoundEffect DEF SynchroniseRound
  <2>2. UNCHANGED <<datapending, caller, refused, early>> /\ thread.pc = "synchronising"
    BY <1>2 DEF SynchroniseRound, user
  <2>3. thread' = Synchronised(status)
    BY <1>2 DEF SynchroniseRound
  <2> HIDE DEF status
  <2>4. /\ ThreadRecord'
        /\ thread'.pc \in {"round", "handover"} => thread'.pc = "round" /\ status = "ACKED"
    BY <2>2, <2>3 DEF Synchronised, ThreadRecord
  <2> QED
    BY <2>1, <2>2, <2>4 DEF QuietUnlessEarly, Opening
<1>3. ASSUME NEW in, NEW expired \in BOOLEAN, ThreadRound(in, expired)
      PROVE  EarlyInv'
  <2>1. PortRecords' /\ (Idle(port["gcs"]) => Idle(port'["gcs"]))
    BY <1>0, <1>3, RoundEffect DEF ThreadRound
  <2>2. UNCHANGED <<datapending, caller, refused, early>> /\ thread.pc = "round"
    BY <1>3 DEF ThreadRound, user
  <2>3. ThreadRecord' /\ thread'.pc = "handover"
    BY <1>3 DEF ThreadRound, ThreadRecord
  <2> QED
    BY <2>1, <2>2, <2>3 DEF QuietUnlessEarly, Opening
<1>4. CASE ThreadHandOver
  <2>1. thread.pc = "handover" /\ thread'.pc = "round" /\ ThreadRecord'
    BY <1>4 DEF ThreadHandOver, ThreadRecord
  <2>2. HandOver
    BY <1>4 DEF ThreadHandOver
  <2>3. /\ early' \in BOOLEAN /\ (early => early')
        /\ \/ UNCHANGED <<caller, early>>
           \/ /\ caller' = "out"
              /\ ~early' => ~datapending' /\ Idle(port'["gcs"])
    BY <1>4 DEF ThreadHandOver, Return
  <2>4. CASE ~datapending \/ ~thread.idle
    <3>1. UNCHANGED <<port, datapending, refused>>
      BY <2>2, <2>4 DEF HandOver, ports
    <3> QED
      BY <2>1, <2>3, <3>1 DEF QuietUnlessEarly, Opening, PortRecords
  <2>5. CASE datapending /\ thread.idle /\ Idle(port["gcs"])
    <3>1. Transmit("gcs") /\ UNCHANGED refused /\ datapending' = FALSE
      BY <2>2, <2>5 DEF HandOver
    <3>2. PortRecords'
      BY <1>0, <3>1, TransmitEffect
    <3> QED
      BY <2>1, <2>3, <2>5, <3>1, <3>2 DEF QuietUnlessEarly, Opening
  <2>6. CASE datapending /\ thread.idle /\ ~Idle(port["gcs"])
    <3>1. UNCHANGED port /\ datapending' = FALSE /\ refused' = refused + 1
      BY <2>2, <2>6 DEF HandOver, ports
    <3>2. early
      BY <2>6 DEF QuietUnlessEarly
    <3>3. refused' \in Nat /\ early' /\ PortRecords'
      BY <2>3, <3>1, <3>2 DEF PortRecords
    <3>4. QuietUnlessEarly'
      BY <2>1, <3>3 DEF QuietUnlessEarly, Opening
    <3> QED
      BY <2>1, <2>3, <3>1, <3>3, <3>4
  <2> QED
    BY <2>4, <2>5, <2>6
<1>5. CASE CallSendData
  <2>1. UNCHANGED <<port, thread, refused, early>>
    BY <1>5 DEF CallSendData, ports
  <2> QED
    BY <1>5, <2>1 DEF CallSendData, QuietUnlessEarly, Opening, PortRecords, ThreadRecord
<1>6. CASE Wait
  <2>1. UNCHANGED <<port, thread, datapending, refused, early>>
    BY <1>6 DEF Wait, ports
  <2> QED
    BY <1>6, <2>1 DEF Wait, QuietUnlessEarly, Opening, PortRecords, ThreadRecord
<1>7. CASE WaitTimeout
  <2>1. UNCHANGED <<port, thread, datapending, refused>>
    BY <1>7 DEF WaitTimeout, ports
  <2> QED
    BY <1>7, <2>1 DEF WaitTimeout, Return, QuietUnlessEarly, Opening, PortRecords, ThreadRecord
<1>8. ASSUME Board \/ BoardSend PROVE EarlyInv'
  <2>1. UNCHANGED <<thread, datapending, caller, refused, early>>
    BY <1>8 DEF Board, BoardRound, BoardSend, user
  <2>2. PortRecords' /\ port'["gcs"] = port["gcs"]
    <3>1. CASE BoardSend
      BY <1>0, <3>1, TransmitEffect DEF BoardSend
    <3>2. CASE Board
      BY <1>0, <3>2, RoundEffect DEF Board, BoardRound
    <3> QED
      BY <1>8, <3>1, <3>2
  <2> QED
    BY <2>1, <2>2 DEF QuietUnlessEarly, Opening, ThreadRecord
<1>9. ASSUME (\E e \in Ends : Lose(e)) \/ UNCHANGED vars PROVE EarlyInv'
  <2>1. UNCHANGED <<port, thread, datapending, caller, refused, early>>
    BY <1>9 DEF Lose, vars, user
  <2> QED
    BY <2>1 DEF QuietUnlessEarly, Opening, ThreadRecord, PortRecords
<1> QED
  BY <1>1, <1>2, <1>3, <1>4, <1>5, <1>6, <1>7, <1>8, <1>9 DEF Next, Stations

(* A packet is refused as BUSY, and lost without a word, only behind a     *)
(* call of sendData that returned while its own packet was pending or      *)
(* under way: a false wake-up or a wait that ended during the last         *)
(* transmission is always at the bottom of it.                             *)
THEOREM RefusedBehindEarlyReturn == Spec => []RefusedOnlyIfEarly
<1>1. Init => EarlyInv
  BY InitEarly
<1>2. EarlyInv /\ [Next]_vars => EarlyInv'
  BY NextEarly
<1>3. EarlyInv => RefusedOnlyIfEarly
  BY DEF EarlyInv, QuietUnlessEarly, RefusedOnlyIfEarly
<1> QED
  BY <1>1, <1>2, <1>3, PTL DEF Spec
=============================================================================
