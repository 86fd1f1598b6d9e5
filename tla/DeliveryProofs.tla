--------------------------- MODULE DeliveryProofs ---------------------------
(***************************************************************************)
(* SspThread keeps the promise of Delivery in both directions, for every   *)
(* cycle of numbers, every number of transmissions and every bound.        *)
(***************************************************************************)
EXTENDS SspProofs, SequenceTheorems, WellFoundedInduction

-----------------------------------------------------------------------------
(* Numbers.  Packet i of an end whose last session ended with number base  *)
(* has number s.                                                           *)
Numbered(base, i, s) == /\ s \in 0 .. MaxSeq
                        /\ i = 0 => s = base
                        /\ i # 0 => s # 0
                        /\ \E q \in Nat : base + i = q * MaxSeq + s

LEMMA FirstNumber ==
  ASSUME NEW base \in 0 .. MaxSeq
  PROVE  Numbered(base, 0, base)
<1>1. MaxSeq \in Nat
  BY SspAssumption
<1>2. base + 0 = 0 * MaxSeq + base /\ 0 \in Nat
  BY <1>1
<1>. QED
  BY <1>2 DEF Numbered

LEMMA NextNumber ==
  ASSUME NEW base \in 0 .. MaxSeq, NEW i \in Nat, NEW s, Numbered(base, i, s)
  PROVE  Numbered(base, i + 1, NextSeq(s))
<1>1. MaxSeq \in Nat /\ MaxSeq >= 1 /\ s \in 0 .. MaxSeq
  BY SspAssumption DEF Numbered
<1>2. PICK q \in Nat : base + i = q * MaxSeq + s
  BY DEF Numbered
<1>3. PICK c \in Int : c = q * MaxSeq
  BY <1>1
<1>4. (q + 1) * MaxSeq = c + MaxSeq
  BY <1>1, <1>3
<1>5. CASE s = MaxSeq
  <2>1. NextSeq(s) = 1
    BY <1>5 DEF NextSeq
  <2>2. base + (i + 1) = (q + 1) * MaxSeq + 1
    BY <1>1, <1>2, <1>3, <1>4, <1>5
  <2>3. 1 \in 0 .. MaxSeq /\ i + 1 # 0 /\ q + 1 \in Nat
    BY <1>1
  <2>. QED
    BY <2>1, <2>2, <2>3 DEF Numbered
<1>6. CASE s # MaxSeq
  <2>1. NextSeq(s) = s + 1
    BY <1>6 DEF NextSeq
  <2>2. base + (i + 1) = q * MaxSeq + (s + 1)
    BY <1>1, <1>2, <1>3
  <2>3. s + 1 \in 0 .. MaxSeq /\ i + 1 # 0 /\ s + 1 # 0
    BY <1>1, <1>6
  <2>. QED
    BY <2>1, <2>2, <2>3 DEF Numbered
<1>. QED
  BY <1>5, <1>6

LEMMA Multiple ==
  ASSUME NEW M \in Nat \ {0}, NEW c \in Int
  PROVE  /\ (c * M) % M = 0
         /\ 0 <= c * M /\ c * M < M => c = 0
<1>1. ASSUME NEW d \in Int, d >= 1
      PROVE  d * M >= M
  BY <1>1
<1>2. ASSUME NEW d \in Int, d <= -1
      PROVE  d * M <= -M
  BY <1>2
<1>3. 0 <= c * M /\ c * M < M => c = 0
  BY <1>1, <1>2
<1>4. (c * M) % M = 0
  OBVIOUS
<1>. QED
  BY <1>3, <1>4

(* Packets of one number are whole cycles apart.                           *)
LEMMA SameNumber ==
  ASSUME NEW base \in 0 .. MaxSeq, NEW i \in Nat, NEW j \in Nat, NEW s,
         Numbered(base, i, s), Numbered(base, j, s)
  PROVE  /\ (i - j) % MaxSeq = 0
         /\ j <= i /\ i - j < MaxSeq => i = j
<1>1. MaxSeq \in Nat \ {0} /\ s \in 0 .. MaxSeq
  BY SspAssumption DEF Numbered
<1>2. PICK q \in Nat : base + i = q * MaxSeq + s
  BY DEF Numbered
<1>3. PICK r \in Nat : base + j = r * MaxSeq + s
  BY DEF Numbered
<1>4. i - j = (q - r) * MaxSeq
  BY <1>1, <1>2, <1>3
<1>5. PICK c \in Int : c = q - r
  OBVIOUS
<1>6. i - j = c * MaxSeq
  BY <1>4, <1>5
<1>7. (i - j) % MaxSeq = 0
  BY <1>1, <1>6, Multiple
<1>8. j <= i /\ i - j < MaxSeq => c = 0
  BY <1>1, <1>6, Multiple
<1>. QED
  BY <1>1, <1>6, <1>7, <1>8

-----------------------------------------------------------------------------
(* The invariant.  b[e] is the number base of end e, what is behind the    *)
(* numbers of its packets.                                                 *)
Pkt   == [type : {"data", "ack"}, seq : 0 .. MaxSeq, load : Nat]
PortT == [state : {"IDLE", "AWAITING_ACK", "ACKED"}, txSeq : 0 .. MaxSeq,
          rxSeq : 0 .. MaxSeq, retry : 0 .. MaxRetry, txBuf : Pkt]

Types == /\ port \in [Ends -> PortT] /\ \A e \in Ends : port[e].state # "ACKED"
         /\ line \in [Ends -> Seq(Pkt)]
         /\ sent \in [Ends -> Nat] /\ got \in [Ends -> Seq(Nat)]
         /\ confirmed \in [Ends -> SUBSET Nat]

(* Only the station asks its peer to forget, before its first packet; then *)
(* every number but the one the peer received last is new to it.           *)
Heard(x) == got[x] # <<>> \/ port[x].rxSeq = 0

Recent(e, k) == k.load = 0 \/ sent[e] - k.load < MaxSeq

\* k is a packet of e.
DataOK(b, e, k) == /\ k.load <= sent[e]
                   /\ k.load = 0 => k.seq = 0 /\ e = "gcs"
                   /\ k.load # 0 => Numbered(b[e], k.load, k.seq)

\* k acknowledges a packet of e that arrived, or was taken for the one that had
\* arrived last.
Answers(b, e, k) == \E g \in ToSet(got[Peer(e)]) :
                      /\ g <= k.load /\ Numbered(b[e], g, k.seq)
                      /\ \A j \in ToSet(got[Peer(e)]) : j <= g \/ j > k.load

AckOK(b, e, k) == /\ k.load <= sent[e]
                  /\ k.load = 0 => k.seq = 0 /\ e = "gcs" /\ Heard(Peer(e))
                  /\ k.load # 0 => Numbered(b[e], k.load, k.seq) /\ Answers(b, e, k)

\* The packets of e on their way, and the acknowledges on their way back.
Datas(e) == {k \in ToSet(line[Peer(e)]) : k.type = "data"}
Acks(e)  == {k \in ToSet(line[e]) : k.type = "ack"}

DataLine(b, e) == \A k \in Datas(e) : DataOK(b, e, k) /\ Recent(e, k)

AckLine(b, e) == \A k \in Acks(e) : AckOK(b, e, k) /\ Recent(e, k)

AckBuf(b, e) == port[Peer(e)].txBuf.type = "ack" => AckOK(b, e, port[Peer(e)].txBuf)

DataBuf(b, e) ==
  port[e].txBuf.type = "data" =>
    /\ port[e].txBuf.load = sent[e]
    /\ port[e].state = "AWAITING_ACK" => DataOK(b, e, port[e].txBuf)

\* The packets of e are in order, and none is behind what is known of at the other
\* end.
Ordered(l) == \A i, j \in 1 .. Len(l) :
                i < j /\ l[i].type = "data" /\ l[j].type = "data" => l[i].load <= l[j].load

InOrder(e) == Ordered(line[Peer(e)])

Above(e) ==
  \A k \in Datas(e) :
    /\ \A g \in ToSet(got[Peer(e)]) : g <= k.load
    /\ \A a \in Acks(e) : a.load <= k.load
    /\ port[Peer(e)].txBuf.type = "ack" => port[Peer(e)].txBuf.load <= k.load

GotOK(e) == \A g \in ToSet(got[Peer(e)]) : g \in 1 .. sent[e] /\ g <= Last(got[Peer(e)])

Expects(b, e) == got[Peer(e)] # <<>> => Numbered(b[e], Last(got[Peer(e)]), port[Peer(e)].rxSeq)

Counts(b, e) == /\ Numbered(b[e], sent[e], port[e].txSeq)
                /\ sent[e] > 0 => Heard(Peer(e))
                /\ confirmed[e] \subseteq 1 .. sent[e]

Dir(b, e) == /\ DataLine(b, e) /\ AckLine(b, e) /\ AckBuf(b, e) /\ DataBuf(b, e)
             /\ InOrder(e) /\ Above(e) /\ GotOK(e) /\ Expects(b, e) /\ Counts(b, e)

Opened == /\ sent["gcs"] > 0 => thread.pc \in {"round", "handover"}
          /\ thread.pc \in {"round", "handover"} => Heard("board")
          /\ Heard("gcs")

DInv(b) == Types /\ Dir(b, "gcs") /\ Dir(b, "board") /\ Opened

-----------------------------------------------------------------------------
(* The line.                                                               *)

\* m is l without what was first, followed by packets of T.
Flow(l, m, T) == \E n \in Nat : \A i \in 1 .. Len(m) :
                   IF i + n <= Len(l) THEN m[i] = l[i + n] ELSE m[i] \in T

LEMMA PutFlows ==
  ASSUME NEW l \in Seq(Pkt), NEW ps \in Seq(Pkt)
  PROVE  /\ Put(l, ps) \in Seq(Pkt) /\ Len(Put(l, ps)) <= MaxLine
         /\ \A i \in 1 .. Len(Put(l, ps)) : IF i <= Len(l) THEN Put(l, ps)[i] = l[i]
                                            ELSE Put(l, ps)[i] \in ToSet(ps)
<1>1. PICK all : all = l \o ps
  OBVIOUS
<1>2. /\ Len(l) \in Nat /\ Len(ps) \in Nat /\ MaxLine \in Nat
      /\ DOMAIN ps = 1 .. Len(ps)
  BY LenProperties, ThreadAssumption
<1>3. /\ all \in Seq(Pkt) /\ Len(all) = Len(l) + Len(ps)
      /\ \A i \in 1 .. Len(l) + Len(ps) :
           all[i] = IF i <= Len(l) THEN l[i] ELSE ps[i - Len(l)]
  BY <1>1, ConcatProperties
<1>4. PICK n \in 0 .. MaxLine : n = IF Len(all) < MaxLine THEN Len(all) ELSE MaxLine
  BY <1>2, <1>3
<1>5. n \in Nat /\ n <= Len(all)
  BY <1>2, <1>3, <1>4
<1>6. \A i \in 1 .. n : all[i] \in Pkt
  BY <1>2, <1>3, <1>5, ElementOfSeq
<1>7. Put(l, ps) = SubSeq(all, 1, n)
  BY <1>1, <1>4 DEF Put
<1>8. /\ SubSeq(all, 1, n) \in Seq(Pkt)
      /\ Len(SubSeq(all, 1, n)) = IF 1 <= n THEN n - 1 + 1 ELSE 0
      /\ \A i \in 1 .. n - 1 + 1 : SubSeq(all, 1, n)[i] = all[1 + i - 1]
  BY <1>5, <1>6, SubSeqProperties
<1>9. Len(SubSeq(all, 1, n)) = n /\ \A i \in 1 .. n : SubSeq(all, 1, n)[i] = all[i]
  <2>1. n - 1 + 1 = n /\ \A i \in 1 .. n : 1 + i - 1 = i
    BY <1>5
  <2>. QED
    BY <1>5, <1>8, <2>1
<1>10. ASSUME NEW i \in 1 .. n
       PROVE  IF i <= Len(l) THEN all[i] = l[i] ELSE all[i] \in ToSet(ps)
  <2>1. i \in 1 .. Len(l) + Len(ps)
    BY <1>2, <1>3, <1>5
  <2>2. CASE i <= Len(l)
    BY <1>3, <2>1, <2>2
  <2>3. CASE ~(i <= Len(l))
    <3>1. all[i] = ps[i - Len(l)] /\ i - Len(l) \in DOMAIN ps
      BY <1>2, <1>3, <2>1, <2>3
    <3>. QED
      BY <2>3, <3>1 DEF ToSet
  <2>. QED
    BY <2>2, <2>3
<1>11. Len(SubSeq(all, 1, n)) <= MaxLine
  BY <1>2, <1>4, <1>9
<1>. QED
  BY <1>7, <1>8, <1>9, <1>10, <1>11

LEMMA CutFlows ==
  ASSUME NEW l \in Seq(Pkt), NEW n \in 0 .. Len(l)
  PROVE  LET m == SubSeq(l, n + 1, Len(l))
         IN  /\ m \in Seq(Pkt) /\ Len(m) = Len(l) - n
             /\ \A i \in 1 .. Len(m) : m[i] = l[i + n]
<1>1. Len(l) \in Nat /\ n \in Nat /\ n <= Len(l)
  BY LenProperties
<1>2. \A i \in n + 1 .. Len(l) : l[i] \in Pkt
  BY <1>1, ElementOfSeq
<1>3. PICK m : m = SubSeq(l, n + 1, Len(l))
  OBVIOUS
<1>4. /\ m \in Seq(Pkt)
      /\ Len(m) = IF n + 1 <= Len(l) THEN Len(l) - (n + 1) + 1 ELSE 0
      /\ \A i \in 1 .. Len(l) - (n + 1) + 1 : m[i] = l[(n + 1) + i - 1]
  <2>1. n + 1 \in Int /\ Len(l) \in Int
    BY <1>1
  <2>. QED
    BY <1>2, <1>3, <2>1, SubSeqProperties
<1>5. Len(m) = Len(l) - n /\ Len(l) - (n + 1) + 1 = Len(l) - n
  BY <1>1, <1>4
<1>6. \A i \in 1 .. Len(m) : (n + 1) + i - 1 = i + n
  BY <1>1, <1>5
<1>. QED
  BY <1>3, <1>4, <1>5, <1>6

LEMMA LeastExists ==
  ASSUME NEW U, U \subseteq Nat, U # {}
  PROVE  \E u \in U : \A v \in U : u <= v
<1>1. OpToRel(<, Nat) = {ss \in Nat \X Nat : ss[1] < ss[2]}
  BY Zenon DEF OpToRel
<1>2. PICK u \in U : \A v \in U : ~ (<<v, u>> \in {ss \in Nat \X Nat : ss[1] < ss[2]})
  BY <1>1, NatLessThanWellFounded, WFMin, ZenonT(60)
<1>3. \A v \in U : ~(v < u)
  BY <1>2
<1>. QED
  BY <1>3

LEMMA GreatestExists ==
  ASSUME NEW k \in Nat, NEW T, T \subseteq 0 .. k, T # {}
  PROVE  Max(T) \in T /\ \A y \in T : y <= Max(T)
<1>1. PICK U : U = {i \in Nat : k - i \in T}
  OBVIOUS
<1>2. \A y \in T : k - y \in U
  BY <1>1
<1>3. U \subseteq Nat /\ U # {}
  BY <1>1, <1>2
<1>4. PICK u \in U : \A v \in U : u <= v
  BY <1>3, LeastExists
<1>5. k - u \in T /\ \A y \in T : k - u >= y
  BY <1>1, <1>2, <1>4
<1>6. Max(T) \in T /\ \A y \in T : Max(T) >= y
  BY <1>5, Zenon DEF Max
<1>. QED
  BY <1>6

(* What an end finds on the line after it sent a packet.                   *)
LEMMA YoungFlows ==
  ASSUME Types, NEW e \in Ends, NEW x \in Ends
  PROVE  /\ Young(e, x) \in Seq(Pkt) /\ Len(Young(e, x)) <= Len(line[x])
         /\ \E n \in Nat : /\ Len(Young(e, x)) + n = Len(line[x])
                          /\ \A i \in 1 .. Len(Young(e, x)) : Young(e, x)[i] = line[x][i + n]
         /\ \A i \in 1 .. Len(Young(e, x)) : ~Old(e, x, Young(e, x)[i])
<1>1. PICK l \in Seq(Pkt) : l = line[x]
  BY DEF Types
<1>2. Len(l) \in Nat /\ DOMAIN l = 1 .. Len(l)
  BY LenProperties
<1>3. PICK old : old = {i \in 1 .. Len(l) : Old(e, x, l[i])}
  OBVIOUS
<1>4. PICK n : n = Max(old \cup {0})
  OBVIOUS
<1>5. n \in old \cup {0} /\ \A y \in old \cup {0} : y <= n
  <2>1. old \cup {0} \subseteq 0 .. Len(l) /\ old \cup {0} # {}
    BY <1>2, <1>3
  <2>. QED
    BY <1>2, <1>4, <2>1, GreatestExists
<1>6. n \in 0 .. Len(l)
  BY <1>2, <1>3, <1>5
<1>7. PICK m : m = SubSeq(l, n + 1, Len(l))
  OBVIOUS
<1>8. Young(e, x) = m
  BY <1>1, <1>2, <1>3, <1>4, <1>7 DEF Young
<1>9. /\ m \in Seq(Pkt) /\ Len(m) = Len(l) - n
      /\ \A i \in 1 .. Len(m) : m[i] = l[i + n]
  BY <1>6, <1>7, CutFlows
<1>10. ASSUME NEW i \in 1 .. Len(m)
       PROVE  i + n \in 1 .. Len(l) /\ i + n \notin old
  BY <1>2, <1>5, <1>6, <1>9
<1>11. \A i \in 1 .. Len(m) : ~Old(e, x, m[i])
  BY <1>3, <1>9, <1>10
<1>12. Len(m) <= Len(l) /\ n \in Nat /\ Len(m) + n = Len(l)
  BY <1>2, <1>6, <1>9
<1>. QED
  BY <1>1, <1>8, <1>9, <1>10, <1>11, <1>12

-----------------------------------------------------------------------------
(* The port.                                                               *)
LEMMA PortFields ==
  ASSUME NEW p \in PortT
  PROVE  /\ p = [state |-> p.state, txSeq |-> p.txSeq, rxSeq |-> p.rxSeq,
                 retry |-> p.retry, txBuf |-> p.txBuf]
         /\ p.state \in {"IDLE", "AWAITING_ACK", "ACKED"}
         /\ p.txSeq \in 0 .. MaxSeq /\ p.rxSeq \in 0 .. MaxSeq
         /\ p.retry \in 0 .. MaxRetry /\ p.txBuf \in Pkt
BY DEF PortT

LEMMA PortMade ==
  ASSUME NEW st \in {"IDLE", "AWAITING_ACK", "ACKED"}, NEW tx \in 0 .. MaxSeq,
         NEW rx \in 0 .. MaxSeq, NEW r \in 0 .. MaxRetry, NEW k \in Pkt
  PROVE  [state |-> st, txSeq |-> tx, rxSeq |-> rx, retry |-> r, txBuf |-> k] \in PortT
BY DEF PortT

LEMMA SendPacketIs ==
  ASSUME NEW st \in {"IDLE", "AWAITING_ACK", "ACKED"}, NEW tx \in 0 .. MaxSeq,
         NEW rx \in 0 .. MaxSeq, NEW r \in 0 .. MaxRetry, NEW k \in Pkt, NEW p,
         p = [state |-> st, txSeq |-> tx, rxSeq |-> rx, retry |-> r, txBuf |-> k]
  PROVE  LET q == SendPacket(p)
         IN  /\ q \in PortT /\ q.state = st /\ q.txSeq = tx /\ q.rxSeq = rx /\ q.txBuf = k
<1>1. PICK s \in 0 .. MaxRetry : s = IF r < MaxRetry THEN r + 1 ELSE r
  BY SspAssumption
<1>2. SendPacket(p) = [p EXCEPT !.retry = s]
  BY <1>1 DEF SendPacket
<1>3. SendPacket(p) = [state |-> st, txSeq |-> tx, rxSeq |-> rx, retry |-> s, txBuf |-> k]
  BY <1>2
<1>4. SendPacket(p) \in PortT
  BY <1>3, PortMade
<1>. QED
  BY <1>3, <1>4

LEMMA PacketFacts ==
  /\ \A s \in 0 .. MaxSeq, d \in Nat :
       /\ Data(s, d) \in Pkt /\ Data(s, d).type = "data"
       /\ Data(s, d).seq = s /\ Data(s, d).load = d
  /\ Synch \in Pkt /\ Synch.type = "data" /\ Synch.seq = 0 /\ Synch.load = 0
  /\ \A k \in Pkt : /\ Ack(k) \in Pkt /\ Ack(k).type = "ack"
                    /\ Ack(k).seq = k.seq /\ Ack(k).load = k.load
<1>1. 0 \in 0 .. MaxSeq /\ 0 \in Nat
  BY SspAssumption
<1>2. \A s \in 0 .. MaxSeq, d \in Nat :
       /\ Data(s, d) \in Pkt /\ Data(s, d).type = "data"
       /\ Data(s, d).seq = s /\ Data(s, d).load = d
  BY DEF Data, Pkt
<1>3. \A k \in Pkt : /\ Ack(k) \in Pkt /\ Ack(k).type = "ack"
                     /\ Ack(k).seq = k.seq /\ Ack(k).load = k.load
  BY DEF Ack, Pkt
<1>. QED
  BY <1>1, <1>2, <1>3 DEF Synch

LEMMA NextSeqIs == \A s \in 0 .. MaxSeq : NextSeq(s) \in 0 .. MaxSeq
BY SspAssumption DEF NextSeq

LEMMA SendDataIs ==
  ASSUME NEW p \in PortT, NEW d \in Nat
  PROVE  LET q == SendData(p, d)
         IN  /\ q \in PortT /\ q.state = "AWAITING_ACK" /\ q.txSeq = NextSeq(p.txSeq)
             /\ q.rxSeq = p.rxSeq /\ q.txBuf = Data(NextSeq(p.txSeq), d)
<1>1. PICK s \in 0 .. MaxSeq : s = NextSeq(p.txSeq)
  BY PortFields, NextSeqIs
<1>2. PICK k \in Pkt : k = Data(s, d)
  BY PacketFacts
<1>3. p.rxSeq \in 0 .. MaxSeq /\ 0 \in 0 .. MaxRetry
  BY PortFields, SspAssumption
<1>4. PICK u : u = [state |-> "AWAITING_ACK", txSeq |-> s, rxSeq |-> p.rxSeq,
                    retry |-> 0, txBuf |-> k]
  OBVIOUS
<1>5. SendData(p, d) = SendPacket(u)
  <2>1. PICK p1 : p1 = [p EXCEPT !.state = "AWAITING_ACK"]
    OBVIOUS
  <2>2. p1 = [state |-> "AWAITING_ACK", txSeq |-> p.txSeq, rxSeq |-> p.rxSeq,
              retry |-> p.retry, txBuf |-> p.txBuf]
    BY <2>1, PortFields
  <2>3. PICK p2 : p2 = [p1 EXCEPT !.txSeq = s]
    OBVIOUS
  <2>4. p2 = [state |-> "AWAITING_ACK", txSeq |-> s, rxSeq |-> p.rxSeq,
              retry |-> p.retry, txBuf |-> p.txBuf]
    BY <2>2, <2>3
  <2>5. PICK p3 : p3 = [p2 EXCEPT !.retry = 0]
    OBVIOUS
  <2>6. p3 = [state |-> "AWAITING_ACK", txSeq |-> s, rxSeq |-> p.rxSeq,
              retry |-> 0, txBuf |-> p.txBuf]
    BY <2>4, <2>5
  <2>7. [p3 EXCEPT !.txBuf = k] = u
    BY <1>4, <2>6
  <2>8. [p EXCEPT !.state = "AWAITING_ACK", !.txSeq = s, !.retry = 0, !.txBuf = k]
          = [p3 EXCEPT !.txBuf = k]
    BY <2>1, <2>3, <2>5, Zenon
  <2>. QED
    BY <1>1, <1>2, <2>7, <2>8 DEF SendData
<1>6. LET q == SendPacket(u)
      IN  /\ q \in PortT /\ q.state = "AWAITING_ACK" /\ q.txSeq = s /\ q.rxSeq = p.rxSeq
          /\ q.txBuf = k
  BY <1>3, <1>4, SendPacketIs
<1>. QED
  BY <1>1, <1>2, <1>5, <1>6

LEMMA SynchroniseIs ==
  ASSUME NEW p \in PortT
  PROVE  LET q == Synchronise(p)
         IN  /\ q \in PortT /\ q.state = "AWAITING_ACK" /\ q.txSeq = 0
             /\ q.rxSeq = p.rxSeq /\ q.txBuf = Synch
<1>1. PICK k \in Pkt : k = Synch
  BY PacketFacts
<1>2. p.rxSeq \in 0 .. MaxSeq /\ p.retry \in 0 .. MaxRetry /\ 0 \in 0 .. MaxSeq
  BY PortFields, SspAssumption
<1>3. PICK u : u = [state |-> "AWAITING_ACK", txSeq |-> 0, rxSeq |-> p.rxSeq,
                    retry |-> p.retry, txBuf |-> k]
  OBVIOUS
<1>4. Synchronise(p) = SendPacket(u)
  <2>1. PICK p1 : p1 = [p EXCEPT !.state = "AWAITING_ACK"]
    OBVIOUS
  <2>2. p1 = [state |-> "AWAITING_ACK", txSeq |-> p.txSeq, rxSeq |-> p.rxSeq,
              retry |-> p.retry, txBuf |-> p.txBuf]
    BY <2>1, PortFields
  <2>3. PICK p2 : p2 = [p1 EXCEPT !.txSeq = 0]
    OBVIOUS
  <2>4. p2 = [state |-> "AWAITING_ACK", txSeq |-> 0, rxSeq |-> p.rxSeq,
              retry |-> p.retry, txBuf |-> p.txBuf]
    BY <2>2, <2>3
  <2>5. [p2 EXCEPT !.txBuf = k] = u
    BY <1>3, <2>4
  <2>6. [p EXCEPT !.state = "AWAITING_ACK", !.txSeq = 0, !.txBuf = k]
          = [p2 EXCEPT !.txBuf = k]
    BY <2>1, <2>3, Zenon
  <2>. QED
    BY <1>1, <2>5, <2>6 DEF Synchronise
<1>5. LET q == SendPacket(u)
      IN  /\ q \in PortT /\ q.state = "AWAITING_ACK" /\ q.txSeq = 0 /\ q.rxSeq = p.rxSeq
          /\ q.txBuf = k
  BY <1>2, <1>3, SendPacketIs
<1>. QED
  BY <1>1, <1>4, <1>5

LEMMA SendAckIs ==
  ASSUME NEW p \in PortT, NEW k \in Pkt
  PROVE  LET q == SendAck(p, k)
         IN  /\ q \in PortT /\ q.state = p.state /\ q.txSeq = p.txSeq
             /\ q.rxSeq = p.rxSeq /\ q.txBuf = Ack(k)
<1>1. PICK a \in Pkt : a = Ack(k)
  BY PacketFacts
<1>2. /\ p.state \in {"IDLE", "AWAITING_ACK", "ACKED"} /\ p.txSeq \in 0 .. MaxSeq
      /\ p.rxSeq \in 0 .. MaxSeq /\ p.retry \in 0 .. MaxRetry
  BY PortFields
<1>3. PICK u : u = [state |-> p.state, txSeq |-> p.txSeq, rxSeq |-> p.rxSeq,
                    retry |-> p.retry, txBuf |-> a]
  OBVIOUS
<1>4. SendAck(p, k) = SendPacket(u)
  <2>1. [p EXCEPT !.txBuf = a] = u
    BY <1>3, PortFields
  <2>. QED
    BY <1>1, <2>1 DEF SendAck
<1>5. LET q == SendPacket(u)
      IN  /\ q \in PortT /\ q.state = p.state /\ q.txSeq = p.txSeq /\ q.rxSeq = p.rxSeq
          /\ q.txBuf = a
  BY <1>2, <1>3, SendPacketIs
<1>. QED
  BY <1>1, <1>4, <1>5

(* The port after a packet: an acknowledge of the last number ends the     *)
(* wait; a data packet leaves its number and the acknowledge.              *)
LEMMA ReceiveIs ==
  ASSUME NEW p \in PortT, NEW k \in Pkt
  PROVE  LET q == ReceivePacket(p, k)
         IN  /\ q \in PortT /\ q.txSeq = p.txSeq
             /\ q.state = p.state \/ (q.state = "ACKED" /\ Matches(p, k))
             /\ k.type = "ack" => q.rxSeq = p.rxSeq /\ q.txBuf = p.txBuf
             /\ k.type = "data" => q.rxSeq = k.seq /\ q.txBuf = Ack(k)
<1>1. CASE Matches(p, k)
  <2>1. ReceivePacket(p, k) = [p EXCEPT !.state = "ACKED"] /\ k.type = "ack"
    BY <1>1 DEF ReceivePacket, Matches
  <2>2. ReceivePacket(p, k) = [state |-> "ACKED", txSeq |-> p.txSeq, rxSeq |-> p.rxSeq,
                               retry |-> p.retry, txBuf |-> p.txBuf]
    BY <2>1, PortFields
  <2>3. ReceivePacket(p, k) \in PortT
    BY <2>2, PortFields, PortMade
  <2>. QED
    BY <1>1, <2>1, <2>2, <2>3
<1>2. CASE ~Matches(p, k) /\ k.type = "data"
  <2>1. ReceivePacket(p, k) = [SendAck(p, k) EXCEPT !.rxSeq = k.seq]
    BY <1>2 DEF ReceivePacket
  <2>2. PICK u \in PortT : u = SendAck(p, k) /\ u.state = p.state /\ u.txSeq = p.txSeq
                           /\ u.txBuf = Ack(k)
    BY SendAckIs
  <2>3. ReceivePacket(p, k) = [state |-> u.state, txSeq |-> u.txSeq, rxSeq |-> k.seq,
                               retry |-> u.retry, txBuf |-> u.txBuf]
    BY <2>1, <2>2, PortFields
  <2>4. k.seq \in 0 .. MaxSeq
    BY DEF Pkt
  <2>5. ReceivePacket(p, k) \in PortT
    BY <2>3, <2>4, PortFields, PortMade
  <2>. QED
    BY <1>2, <2>2, <2>3, <2>5
<1>3. CASE ~Matches(p, k) /\ k.type # "data"
  BY <1>3 DEF ReceivePacket
<1>. QED
  BY <1>1, <1>2, <1>3

LEMMA SendProcessIs ==
  ASSUME NEW p \in PortT, NEW expired \in BOOLEAN
  PROVE  LET q == SendProcess(p, expired)
         IN  /\ q \in PortT /\ q.txSeq = p.txSeq /\ q.rxSeq = p.rxSeq /\ q.txBuf = p.txBuf
             /\ q.state \in {"IDLE", "AWAITING_ACK"}
             /\ q.state = "AWAITING_ACK" => p.state = "AWAITING_ACK"
             /\ Resends(p, expired) => p.state = "AWAITING_ACK"
<1>1. CASE Resends(p, expired)
  <2>1. SendProcess(p, expired) = SendPacket(p) /\ p.state = "AWAITING_ACK"
    BY <1>1 DEF SendProcess, Resends
  <2>2. LET q == SendPacket(p)
        IN  q \in PortT /\ q.state = p.state /\ q.txSeq = p.txSeq /\ q.rxSeq = p.rxSeq
              /\ q.txBuf = p.txBuf
    BY PortFields, SendPacketIs
  <2>. QED
    BY <2>1, <2>2
<1>2. CASE ~Resends(p, expired) /\ p.state = "AWAITING_ACK" /\ ~expired
  BY <1>2 DEF SendProcess, Resends
<1>3. CASE ~Resends(p, expired) /\ ~(p.state = "AWAITING_ACK" /\ ~expired)
  <2>1. SendProcess(p, expired) = [p EXCEPT !.state = "IDLE"]
    BY <1>3 DEF SendProcess
  <2>2. SendProcess(p, expired) = [state |-> "IDLE", txSeq |-> p.txSeq, rxSeq |-> p.rxSeq,
                                   retry |-> p.retry, txBuf |-> p.txBuf]
    BY <2>1, PortFields
  <2>3. SendProcess(p, expired) \in PortT
    BY <2>2, PortFields, PortMade
  <2>. QED
    BY <1>3, <2>2, <2>3
<1>. QED
  BY <1>1, <1>2, <1>3

-----------------------------------------------------------------------------
(* What the steps of an end do.                                            *)
LEMMA PeerFacts ==
  ASSUME NEW e \in Ends
  PROVE  /\ Peer(e) \in Ends /\ Peer(e) # e /\ Peer(Peer(e)) = e
         /\ \A y \in Ends : y = e \/ y = Peer(e)
BY DEF Ends, Peer

TakesNothing(e) == /\ line'[e] = line[e]
                   /\ port'[e].rxSeq = port[e].rxSeq /\ port'[e].txBuf = port[e].txBuf
                   /\ UNCHANGED <<got, confirmed>>

TakesAck(e, k) == /\ line[e] # <<>> /\ k = line[e][1] /\ line'[e] = Tail(line[e])
                  /\ k.type = "ack"
                  /\ port'[e].rxSeq = port[e].rxSeq /\ port'[e].txBuf = port[e].txBuf
                  /\ UNCHANGED got
                  /\ \/ UNCHANGED confirmed
                     \/ /\ k.seq = port[e].txSeq /\ port[e].txSeq # 0
                        /\ confirmed' = [confirmed EXCEPT ![e] = @ \cup {sent[e]}]

TakesData(e, k) == /\ line[e] # <<>> /\ k = line[e][1] /\ line'[e] = Tail(line[e])
                   /\ k.type = "data"
                   /\ port'[e].rxSeq = k.seq /\ port'[e].txBuf = Ack(k)
                   /\ UNCHANGED confirmed
                   /\ IF k.seq # 0 /\ k.seq # port[e].rxSeq
                      THEN got' = [got EXCEPT ![e] = Append(@, k.load)] ELSE got' = got

\* Packets of T are written, all of them from the transmit buffer.
Writes(e, T) == /\ T \subseteq {port'[e].txBuf}
                /\ Flow(line[Peer(e)], line'[Peer(e)], T)
                /\ T # {} /\ port'[e].txBuf.type = "data" =>
                     port[e].state = "AWAITING_ACK" /\ port'[e].txBuf = port[e].txBuf
                /\ T # {} /\ port'[e].txBuf.type = "ack" =>
                     (\E k : TakesData(e, k)) \/ Timely(e, port'[e].txBuf)

LEMMA InputIs ==
  ASSUME Types, NEW e \in Ends, NEW in \in Inputs(e)
  PROVE  in = <<>> \/ (line[e] # <<>> /\ in # <<>> /\ in[1] = line[e][1] /\ in[1] \in Pkt)
<1>1. PICK l \in Seq(Pkt) : l = line[e]
  BY DEF Types
<1>2. Len(l) \in Nat
  BY LenProperties
<1>3. PICK n \in 0 .. 1 : n <= Len(l) /\ in = SubSeq(l, 1, n)
  BY <1>1 DEF Inputs
<1>4. CASE n = 0
  BY <1>3, <1>4, SubSeqEmpty
<1>5. CASE n = 1
  <2>1. l[1] \in Pkt /\ l # <<>>
    BY <1>2, <1>3, <1>5, ElementOfSeq, EmptySeq
  <2>2. \A i \in 1 .. 1 : l[i] \in Pkt
    BY <2>1
  <2>3. /\ SubSeq(l, 1, 1) \in Seq(Pkt)
        /\ Len(SubSeq(l, 1, 1)) = IF 1 <= 1 THEN 1 - 1 + 1 ELSE 0
        /\ \A i \in 1 .. 1 - 1 + 1 : SubSeq(l, 1, 1)[i] = l[1 + i - 1]
    BY <2>2, SubSeqProperties
  <2>4. Len(in) = 1 /\ in[1] = l[1]
    BY <1>3, <1>5, <2>3
  <2>5. in # <<>>
    <3>1. in = <<>> => Len(in) = 0
      OBVIOUS
    <3>2. Len(in) # 0
      BY <2>4
    <3>. QED
      BY <3>1, <3>2, Zenon
  <2>. QED
    BY <1>1, <2>1, <2>4, <2>5
<1>. QED
  BY <1>3, <1>4, <1>5

LEMMA RoundIs ==
  ASSUME Types, NEW e \in Ends, NEW in \in Inputs(e), NEW expired \in BOOLEAN,
         Round(e, in, expired)
  PROVE  /\ port' \in [Ends -> PortT] /\ line' \in [Ends -> Seq(Pkt)]
         /\ port'[Peer(e)] = port[Peer(e)]
         /\ port'[e].txSeq = port[e].txSeq /\ port'[e].state \in {"IDLE", "AWAITING_ACK"}
         /\ port'[e].state = "AWAITING_ACK" => port[e].state = "AWAITING_ACK"
         /\ UNCHANGED sent
         /\ TakesNothing(e) \/ \E k \in Pkt : TakesAck(e, k) \/ TakesData(e, k)
         /\ \E T : Writes(e, T)
         /\ Len(line'[Peer(e)]) <= MaxLine
         /\ SendStatus(Received(e, in), expired) = "ACKED" => \E k \in Pkt : TakesAck(e, k)
<1>. DEFINE x == Peer(e)
<1>1. x \in Ends /\ x # e
  BY PeerFacts
<1>2. PICK p \in PortT : p = Received(e, in)
  <2>1. port[e] \in PortT
    BY DEF Types
  <2>. QED
    BY <2>1, InputIs, ReceiveIs DEF Received
<1>3. PICK q \in PortT : q = SendProcess(p, expired)
  BY SendProcessIs
<1>4. /\ q.txSeq = p.txSeq /\ q.rxSeq = p.rxSeq /\ q.txBuf = p.txBuf
      /\ q.state \in {"IDLE", "AWAITING_ACK"}
      /\ q.state = "AWAITING_ACK" => p.state = "AWAITING_ACK"
      /\ Resends(p, expired) => p.state = "AWAITING_ACK"
  BY <1>3, SendProcessIs
<1>5. /\ port' \in [Ends -> PortT] /\ port'[e] = q /\ port'[x] = port[x]
  <2>1. port' = [port EXCEPT ![e] = q]
    BY <1>2, <1>3 DEF Round
  <2>. QED
    BY <1>1, <2>1 DEF Types
<1>6. /\ in = <<>> => p = port[e]
      /\ in # <<>> => p = ReceivePacket(port[e], in[1])
  BY <1>2 DEF Received
<1>7. port[e] \in PortT /\ port[e].state # "ACKED"
  BY DEF Types
<1>8. PICK out : out = (IF in = <<>> THEN <<>> ELSE Answer(port[e], in[1]))
                         \o (IF Resends(p, expired) /\ Timely(e, p.txBuf)
                             THEN <<p.txBuf>> ELSE <<>>)
  OBVIOUS
<1>9. line' = [line EXCEPT ![e] = IF in = <<>> THEN @ ELSE Tail(@), ![x] = Put(@, out)]
  BY <1>2, <1>8 DEF Round
<1>10. line'[e] = (IF in = <<>> THEN line[e] ELSE Tail(line[e])) /\ line'[x] = Put(line[x], out)
         /\ DOMAIN line' = Ends /\ line' = [y \in Ends |-> line'[y]]
  BY <1>1, <1>9 DEF Types
<1>11. p.txBuf \in Pkt
  BY PortFields
<1>12. in # <<>> /\ in[1].type = "data" => Answer(port[e], in[1]) = <<p.txBuf>>
  <2>. SUFFICES ASSUME in # <<>>, in[1].type = "data"
                PROVE  Answer(port[e], in[1]) = <<p.txBuf>>
    OBVIOUS
  <2>1. in[1] \in Pkt
    BY InputIs
  <2>2. SendAck(port[e], in[1]).txBuf = Ack(in[1]) /\ p.txBuf = Ack(in[1])
    BY <1>6, <1>7, <2>1, SendAckIs, ReceiveIs, SMTT(40)
  <2>. QED
    BY <2>2 DEF Answer
<1>13. PICK t \in Pkt : t = p.txBuf
  BY <1>11
<1>14. PICK one \in {<<>>, <<t>>} :
         /\ one = IF in = <<>> THEN <<>> ELSE Answer(port[e], in[1])
         /\ one # <<>> => in # <<>> /\ in[1].type = "data"
  BY <1>12, <1>13 DEF Answer
<1>15. PICK two \in {<<>>, <<t>>} :
         /\ two = IF Resends(p, expired) /\ Timely(e, p.txBuf) THEN <<p.txBuf>> ELSE <<>>
         /\ two # <<>> => Resends(p, expired) /\ Timely(e, p.txBuf)
  BY <1>13
<1>16. out = one \o two
  BY <1>8, <1>14, <1>15
<1>17. /\ out \in Seq(Pkt) /\ ToSet(out) \subseteq {t}
       /\ one = <<>> /\ two = <<>> => ToSet(out) = {}
  <2>1. {t} \subseteq Pkt /\ one \in Seq({t}) /\ two \in Seq({t})
    <3>1. <<>> \in Seq({t}) /\ <<t>> \in Seq({t})
      BY EmptySeq
    <3>. QED
      BY <3>1
  <2>2. out \in Seq({t})
    BY <1>16, <2>1, ConcatProperties
  <2>3. \A i \in DOMAIN out : out[i] \in {t}
    BY <2>2
  <2>4. out \in Seq(Pkt)
    BY <2>1, <2>2, SeqMonotonic
  <2>5. one = <<>> /\ two = <<>> => out = <<>>
    BY <1>16
  <2>6. ToSet(<<>>) = {}
    BY DEF ToSet
  <2>. QED
    BY <2>3, <2>4, <2>5, <2>6 DEF ToSet
<1>18. /\ line'[x] \in Seq(Pkt) /\ Len(line'[x]) <= MaxLine
       /\ \A i \in 1 .. Len(line'[x]) : IF i <= Len(line[x]) THEN line'[x][i] = line[x][i]
                                        ELSE line'[x][i] \in ToSet(out)
  <2>1. line[x] \in Seq(Pkt)
    BY <1>1 DEF Types
  <2>. QED
    BY <1>10, <1>17, <2>1, PutFlows
<1>19. line'[e] \in Seq(Pkt)
  <2>1. line[e] \in Seq(Pkt)
    BY DEF Types
  <2>2. in # <<>> => line[e] # <<>>
    BY InputIs
  <2>. QED
    BY <1>10, <2>1, <2>2, HeadTailProperties
<1>20. line' \in [Ends -> Seq(Pkt)]
  BY <1>1, <1>10, <1>18, <1>19, PeerFacts
<1>21. Flow(line[x], line'[x], ToSet(out))
  <2>1. \A i \in 1 .. Len(line'[x]) : i + 0 = i
    OBVIOUS
  <2>2. \A i \in 1 .. Len(line'[x]) : IF i + 0 <= Len(line[x]) THEN line'[x][i] = line[x][i + 0]
                                      ELSE line'[x][i] \in ToSet(out)
    BY <1>18, <2>1
  <2>. QED
    BY <2>2 DEF Flow
<1>22. UNCHANGED sent
  BY DEF Round
<1>23. /\ got' = [got EXCEPT ![e] = IF in # <<>> /\ IsNew(port[e], in[1])
                                    THEN Append(@, in[1].load) ELSE @]
       /\ confirmed' = [confirmed EXCEPT ![e] =
                          IF SendStatus(p, expired) = "ACKED" /\ p.txSeq # 0
                          THEN @ \cup {sent[e]} ELSE @]
  BY <1>2 DEF Round
<1>24. got = [got EXCEPT ![e] = got[e]] /\ confirmed = [confirmed EXCEPT ![e] = confirmed[e]]
  BY DEF Types
<1>25. SendStatus(p, expired) = "ACKED" => p.state = "ACKED"
  BY DEF SendStatus
<1>. HIDE DEF x
<1>26. CASE in = <<>>
  <2>1. p = port[e] /\ got' = got /\ confirmed' = confirmed
    BY <1>6, <1>7, <1>23, <1>24, <1>25, <1>26
  <2>2. TakesNothing(e)
    BY <1>4, <1>5, <1>10, <1>26, <2>1 DEF TakesNothing
  <2>3. one = <<>>
    BY <1>14, <1>26
  <2>4. Writes(e, ToSet(out))
    BY <1>4, <1>5, <1>13, <1>15, <1>17, <1>21, <2>1, <2>3 DEF Writes, x
  <2>. QED
    BY <1>2, <1>4, <1>5, <1>7, <1>18, <1>20, <1>22, <1>25, <2>1, <2>2, <2>4 DEF x
<1>27. ASSUME in # <<>>, in[1].type = "ack"
       PROVE  /\ TakesAck(e, in[1]) /\ Writes(e, ToSet(out))
              /\ p.txSeq = port[e].txSeq /\ (p.state = "AWAITING_ACK" => port[e].state = "AWAITING_ACK")
  <2>1. in[1] \in Pkt /\ line[e] # <<>> /\ in[1] = line[e][1]
    BY <1>27, InputIs
  <2>2. /\ p.txSeq = port[e].txSeq /\ p.rxSeq = port[e].rxSeq /\ p.txBuf = port[e].txBuf
        /\ p.state = port[e].state \/ (p.state = "ACKED" /\ Matches(port[e], in[1]))
    BY <1>6, <1>7, <1>27, <2>1, ReceiveIs
  <2>3. got' = got
    BY <1>23, <1>24, <1>27 DEF IsNew
  <2>4. \/ confirmed' = confirmed
        \/ /\ in[1].seq = port[e].txSeq /\ port[e].txSeq # 0
           /\ confirmed' = [confirmed EXCEPT ![e] = @ \cup {sent[e]}]
    BY <1>7, <1>23, <1>24, <1>25, <2>2 DEF Matches
  <2>5. TakesAck(e, in[1])
    BY <1>4, <1>5, <1>10, <1>27, <2>1, <2>2, <2>3, <2>4 DEF TakesAck
  <2>6. one = <<>>
    BY <1>14, <1>27
  <2>7. Writes(e, ToSet(out))
    BY <1>4, <1>5, <1>13, <1>15, <1>17, <1>21, <2>2, <2>6 DEF Writes, x
  <2>. QED
    BY <2>2, <2>5, <2>7
<1>28. ASSUME in # <<>>, in[1].type = "data"
       PROVE  /\ TakesData(e, in[1]) /\ Writes(e, ToSet(out)) /\ p.state # "ACKED"
              /\ p.txSeq = port[e].txSeq /\ (p.state = "AWAITING_ACK" => port[e].state = "AWAITING_ACK")
  <2>1. in[1] \in Pkt /\ line[e] # <<>> /\ in[1] = line[e][1]
    BY <1>28, InputIs
  <2>2. /\ p.txSeq = port[e].txSeq /\ p.rxSeq = in[1].seq /\ p.txBuf = Ack(in[1])
        /\ p.state = port[e].state
    <3>1. p = ReceivePacket(port[e], in[1]) /\ ~Matches(port[e], in[1])
      BY <1>6, <1>28 DEF Matches
    <3>. QED
      BY <1>7, <1>28, <2>1, <3>1, ReceiveIs
  <2>3. confirmed' = confirmed
    BY <1>7, <1>23, <1>24, <1>25, <2>2
  <2>4. IF in[1].seq # 0 /\ in[1].seq # port[e].rxSeq
        THEN got' = [got EXCEPT ![e] = Append(@, in[1].load)] ELSE got' = got
    BY <1>23, <1>24, <1>28 DEF IsNew
  <2>5. TakesData(e, in[1])
    BY <1>4, <1>5, <1>10, <1>28, <2>1, <2>2, <2>3, <2>4 DEF TakesData
  <2>6. q.txBuf.type = "ack"
    BY <1>4, <2>1, <2>2, PacketFacts
  <2>7. Writes(e, ToSet(out))
    BY <1>4, <1>5, <1>13, <1>17, <1>21, <2>5, <2>6 DEF Writes, x
  <2>. QED
    BY <1>7, <2>2, <2>5, <2>7
<1>29. CASE in # <<>>
  <2>1. in[1] \in Pkt /\ in[1].type \in {"data", "ack"}
    BY <1>29, InputIs DEF Pkt
  <2>2. /\ TakesAck(e, in[1]) \/ TakesData(e, in[1])
        /\ Writes(e, ToSet(out)) /\ p.txSeq = port[e].txSeq
        /\ p.state = "AWAITING_ACK" => port[e].state = "AWAITING_ACK"
    BY <1>27, <1>28, <1>29, <2>1
  <2>3. SendStatus(p, expired) = "ACKED" => TakesAck(e, in[1])
    BY <1>25, <1>27, <1>28, <1>29, <2>1
  <2>. QED
    BY <1>2, <1>4, <1>5, <1>18, <1>20, <1>22, <2>1, <2>2, <2>3 DEF x
<1>. QED
  BY <1>26, <1>29

LEMMA TransmitIs ==
  ASSUME Types, NEW e \in Ends, Transmit(e)
  PROVE  /\ port' \in [Ends -> PortT] /\ line' \in [Ends -> Seq(Pkt)]
         /\ port'[Peer(e)] = port[Peer(e)]
         /\ port'[e].txSeq = NextSeq(port[e].txSeq) /\ port'[e].state = "AWAITING_ACK"
         /\ port'[e].rxSeq = port[e].rxSeq
         /\ port'[e].txBuf = Data(NextSeq(port[e].txSeq), sent[e] + 1)
         /\ sent' = [sent EXCEPT ![e] = @ + 1]
         /\ UNCHANGED <<got, confirmed>>
         /\ line'[e] = Young(e, e)
         /\ line'[Peer(e)] = Put(Young(e, Peer(e)), <<port'[e].txBuf>>)
<1>. DEFINE x == Peer(e)
<1>1. x \in Ends /\ x # e
  BY PeerFacts
<1>2. port[e] \in PortT /\ sent[e] + 1 \in Nat
  BY DEF Types
<1>3. PICK q \in PortT : /\ q = SendData(port[e], sent[e] + 1)
                         /\ q.state = "AWAITING_ACK" /\ q.txSeq = NextSeq(port[e].txSeq)
                         /\ q.rxSeq = port[e].rxSeq
                         /\ q.txBuf = Data(NextSeq(port[e].txSeq), sent[e] + 1)
  BY <1>2, SendDataIs
<1>4. port' = [port EXCEPT ![e] = q]
  BY <1>3 DEF Transmit
<1>5. port' \in [Ends -> PortT] /\ port'[e] = q /\ port'[x] = port[x]
  BY <1>1, <1>4 DEF Types
<1>6. line' = [y \in Ends |-> IF y = e THEN Young(e, y)
                              ELSE Put(Young(e, y), <<port'[e].txBuf>>)]
  BY DEF Transmit
<1>7. line'[e] = Young(e, e) /\ line'[x] = Put(Young(e, x), <<port'[e].txBuf>>)
  BY <1>1, <1>6
<1>8. port'[e].txBuf \in Pkt /\ <<port'[e].txBuf>> \in Seq(Pkt)
  BY <1>5, PortFields
<1>9. Young(e, e) \in Seq(Pkt) /\ Young(e, x) \in Seq(Pkt)
  BY <1>1, YoungFlows
<1>10. Put(Young(e, x), <<port'[e].txBuf>>) \in Seq(Pkt)
  BY <1>8, <1>9, PutFlows
<1>. HIDE DEF x
<1>11. line' \in [Ends -> Seq(Pkt)]
  <2>1. \A y \in Ends : line'[y] \in Seq(Pkt)
    BY <1>7, <1>9, <1>10, PeerFacts DEF x
  <2>. QED
    BY <1>6, <2>1
<1>12. sent' = [sent EXCEPT ![e] = @ + 1] /\ UNCHANGED <<got, confirmed>>
  BY DEF Transmit
<1>. QED
  BY <1>3, <1>5, <1>7, <1>11, <1>12 DEF x

-----------------------------------------------------------------------------
(* What a step makes of a line.                                            *)
LEMMA FlowElements ==
  ASSUME NEW l \in Seq(Pkt), NEW m \in Seq(Pkt), NEW T, Flow(l, m, T)
  PROVE  ToSet(m) \subseteq ToSet(l) \cup T
<1>1. PICK n \in Nat : \A i \in 1 .. Len(m) :
        IF i + n <= Len(l) THEN m[i] = l[i + n] ELSE m[i] \in T
  BY DEF Flow
<1>2. /\ Len(l) \in Nat /\ Len(m) \in Nat
      /\ DOMAIN l = 1 .. Len(l) /\ DOMAIN m = 1 .. Len(m)
  BY LenProperties
<1>3. ASSUME NEW i \in 1 .. Len(m) PROVE m[i] \in ToSet(l) \cup T
  <2>1. CASE i + n <= Len(l)
    <3>1. i + n \in DOMAIN l /\ m[i] = l[i + n]
      BY <1>1, <1>2, <2>1
    <3>. QED
      BY <3>1 DEF ToSet
  <2>. QED
    BY <1>1, <2>1
<1>. QED
  BY <1>2, <1>3 DEF ToSet

LEMMA FlowOrdered ==
  ASSUME NEW l \in Seq(Pkt), NEW m \in Seq(Pkt), NEW T, Flow(l, m, T), Ordered(l),
         NEW c \in Nat,
         \A k \in ToSet(l) : k.type = "data" => k.load <= c,
         \A k \in T : k.type = "data" => k.load = c
  PROVE  Ordered(m)
<1>1. PICK n \in Nat : \A i \in 1 .. Len(m) :
        IF i + n <= Len(l) THEN m[i] = l[i + n] ELSE m[i] \in T
  BY DEF Flow
<1>2. /\ Len(l) \in Nat /\ Len(m) \in Nat
      /\ DOMAIN l = 1 .. Len(l) /\ DOMAIN m = 1 .. Len(m)
  BY LenProperties
<1>. SUFFICES ASSUME NEW i \in 1 .. Len(m), NEW j \in 1 .. Len(m), i < j,
                     m[i].type = "data", m[j].type = "data"
              PROVE  m[i].load <= m[j].load
  BY DEF Ordered
<1>3. CASE j + n <= Len(l)
  <2>1. /\ i + n \in 1 .. Len(l) /\ j + n \in 1 .. Len(l) /\ i + n < j + n
        /\ m[i] = l[i + n] /\ m[j] = l[j + n]
    BY <1>1, <1>2, <1>3
  <2>. QED
    BY <2>1 DEF Ordered
<1>4. CASE ~(j + n <= Len(l))
  <2>1. m[j].load = c
    BY <1>1, <1>4
  <2>2. m[i] \in ToSet(l) \cup T
    BY <1>2, FlowElements DEF ToSet
  <2>3. m[i].load <= c
    BY <2>2
  <2>. QED
    BY <2>1, <2>3
<1>. QED
  BY <1>3, <1>4

LEMMA FlowSame ==
  ASSUME NEW l \in Seq(Pkt), NEW T
  PROVE  Flow(l, l, T)
<1>1. Len(l) \in Nat /\ 0 \in Nat
  BY LenProperties
<1>2. \A i \in 1 .. Len(l) : i + 0 = i /\ i <= Len(l)
  BY <1>1
<1>3. \A i \in 1 .. Len(l) : IF i + 0 <= Len(l) THEN l[i] = l[i + 0] ELSE l[i] \in T
  BY <1>2
<1>. QED
  BY <1>1, <1>3 DEF Flow

LEMMA TailFlows ==
  ASSUME NEW l \in Seq(Pkt), l # <<>>
  PROVE  /\ Tail(l) \in Seq(Pkt) /\ Flow(l, Tail(l), {}) /\ Len(Tail(l)) <= Len(l)
         /\ l[1] \in ToSet(l) /\ l[1] \in Pkt
         /\ Ordered(l) => \A k \in ToSet(Tail(l)) :
              l[1].type = "data" /\ k.type = "data" => l[1].load <= k.load
<1>1. /\ Len(l) \in Nat \ {0} /\ DOMAIN l = 1 .. Len(l)
      /\ Tail(l) \in Seq(Pkt) /\ Len(Tail(l)) = Len(l) - 1
      /\ \A i \in 1 .. Len(Tail(l)) : Tail(l)[i] = l[i + 1]
  BY HeadTailProperties, LenProperties, EmptySeq
<1>2. DOMAIN Tail(l) = 1 .. Len(Tail(l))
  BY <1>1, LenProperties
<1>3. \A i \in 1 .. Len(Tail(l)) : i + 1 \in 1 .. Len(l)
  BY <1>1
<1>4. Flow(l, Tail(l), {})
  <2>1. 1 \in Nat /\ \A i \in 1 .. Len(Tail(l)) :
           IF i + 1 <= Len(l) THEN Tail(l)[i] = l[i + 1] ELSE Tail(l)[i] \in {}
    BY <1>1, <1>3
  <2>. QED
    BY <2>1 DEF Flow
<1>5. 1 \in 1 .. Len(l) /\ l[1] \in ToSet(l)
  BY <1>1 DEF ToSet
<1>6. l[1] \in Pkt
  BY <1>5, ElementOfSeq
<1>7. ASSUME Ordered(l), NEW k \in ToSet(Tail(l)), l[1].type = "data", k.type = "data"
      PROVE  l[1].load <= k.load
  <2>1. PICK i \in 1 .. Len(Tail(l)) : k = Tail(l)[i]
    BY <1>2 DEF ToSet
  <2>2. k = l[i + 1] /\ i + 1 \in 1 .. Len(l) /\ 1 < i + 1
    BY <1>1, <1>3, <2>1
  <2>. QED
    BY <1>5, <1>7, <2>2 DEF Ordered
<1>. QED
  BY <1>1, <1>4, <1>5, <1>6, <1>7

LEMMA TransmitFlows ==
  ASSUME Types, NEW e \in Ends, Transmit(e)
  PROVE  LET x == Peer(e)
             k == Data(NextSeq(port[e].txSeq), sent[e] + 1)
         IN  /\ Flow(line[e], line'[e], {}) /\ Flow(line[x], line'[x], {k})
             /\ \A y \in ToSet(line'[e]) : y \in ToSet(line[e]) /\ ~Old(e, e, y)
             /\ \A y \in ToSet(line'[x]) : y = k \/ (y \in ToSet(line[x]) /\ ~Old(e, x, y))
             /\ Len(line'[x]) <= MaxLine /\ Len(line'[e]) <= Len(line[e])
             /\ k \in Pkt
<1>1. PICK x \in Ends : x = Peer(e)
  BY PeerFacts
<1>2. PICK k \in Pkt : k = Data(NextSeq(port[e].txSeq), sent[e] + 1)
  BY TransmitIs, PortFields
<1>3. /\ line'[e] = Young(e, e) /\ line'[x] = Put(Young(e, x), <<k>>)
      /\ line'[e] \in Seq(Pkt) /\ line'[x] \in Seq(Pkt)
  BY <1>1, <1>2, TransmitIs
<1>4. ASSUME NEW y \in Ends
      PROVE  /\ Young(e, y) \in Seq(Pkt) /\ Flow(line[y], Young(e, y), {})
             /\ \A z \in ToSet(Young(e, y)) : z \in ToSet(line[y]) /\ ~Old(e, y, z)
             /\ Len(Young(e, y)) <= Len(line[y])
  <2>1. line[y] \in Seq(Pkt) /\ Young(e, y) \in Seq(Pkt)
    BY YoungFlows DEF Types
  <2>2. PICK n \in Nat : /\ Len(Young(e, y)) + n = Len(line[y])
                         /\ \A i \in 1 .. Len(Young(e, y)) : Young(e, y)[i] = line[y][i + n]
    BY YoungFlows
  <2>3. /\ Len(line[y]) \in Nat /\ Len(Young(e, y)) \in Nat
        /\ DOMAIN Young(e, y) = 1 .. Len(Young(e, y))
    BY <2>1, LenProperties
  <2>4. Flow(line[y], Young(e, y), {})
    <3>1. \A i \in 1 .. Len(Young(e, y)) : i + n <= Len(line[y])
      BY <2>2, <2>3
    <3>2. \A i \in 1 .. Len(Young(e, y)) :
            IF i + n <= Len(line[y]) THEN Young(e, y)[i] = line[y][i + n]
            ELSE Young(e, y)[i] \in {}
      BY <2>2, <3>1
    <3>. QED
      BY <3>2 DEF Flow
  <2>5. ToSet(Young(e, y)) \subseteq ToSet(line[y])
    BY <2>1, <2>4, FlowElements
  <2>6. ASSUME NEW z \in ToSet(Young(e, y)) PROVE ~Old(e, y, z)
    <3>1. PICK i \in 1 .. Len(Young(e, y)) : z = Young(e, y)[i]
      BY <2>3 DEF ToSet
    <3>2. ~Old(e, y, Young(e, y)[i])
      BY YoungFlows
    <3>. QED
      BY <3>1, <3>2, Zenon
  <2>. QED
    BY <2>1, <2>2, <2>3, <2>4, <2>5, <2>6
<1>5. /\ line[x] \in Seq(Pkt) /\ <<k>> \in Seq(Pkt) /\ ToSet(<<k>>) = {k}
      /\ Young(e, x) \in Seq(Pkt)
  BY <1>4 DEF Types, ToSet
<1>6. PICK m \in Seq(Pkt) : m = line'[x]
  BY <1>3
<1>7. PICK y \in Seq(Pkt) : y = Young(e, x)
  BY <1>5
<1>8. /\ Len(m) <= MaxLine
      /\ \A i \in 1 .. Len(m) : IF i <= Len(y) THEN m[i] = y[i] ELSE m[i] \in {k}
  <2>1. m = Put(y, <<k>>)
    BY <1>3, <1>6, <1>7
  <2>. QED
    BY <1>5, <2>1, PutFlows
<1>9. PICK n \in Nat : /\ Len(y) + n = Len(line[x])
                       /\ \A i \in 1 .. Len(y) : y[i] = line[x][i + n]
  BY <1>7, YoungFlows
<1>10. /\ Len(line[x]) \in Nat /\ Len(y) \in Nat /\ Len(m) \in Nat
       /\ DOMAIN m = 1 .. Len(m) /\ DOMAIN y = 1 .. Len(y)
  BY <1>5, LenProperties
<1>11. Flow(line[x], m, {k})
  <2>1. ASSUME NEW i \in 1 .. Len(m)
        PROVE  IF i + n <= Len(line[x]) THEN m[i] = line[x][i + n] ELSE m[i] \in {k}
    <3>1. i + n <= Len(line[x]) <=> i <= Len(y)
      BY <1>9, <1>10
    <3>2. CASE i <= Len(y)
      BY <1>8, <1>9, <3>1, <3>2, <1>10
    <3>3. CASE ~(i <= Len(y))
      BY <1>8, <3>1, <3>3
    <3>. QED
      BY <3>2, <3>3
  <2>. QED
    BY <2>1 DEF Flow
<1>12. ASSUME NEW z \in ToSet(m)
       PROVE  z = k \/ z \in ToSet(y)
  <2>1. PICK i \in 1 .. Len(m) : z = m[i]
    BY <1>10 DEF ToSet
  <2>2. i <= Len(y) => i \in DOMAIN y
    BY <1>10
  <2>. QED
    BY <1>8, <2>1, <2>2 DEF ToSet
<1>. QED
  BY <1>1, <1>2, <1>3, <1>4, <1>6, <1>7, <1>8, <1>11, <1>12

-----------------------------------------------------------------------------
(* What arrived.                                                           *)
LEMMA OneNumber ==
  ASSUME NEW base \in 0 .. MaxSeq, NEW i \in Nat, NEW s, NEW t,
         Numbered(base, i, s), Numbered(base, i, t)
  PROVE  s = t
<1>1. MaxSeq \in Nat \ {0} /\ s \in 0 .. MaxSeq /\ t \in 0 .. MaxSeq
  BY SspAssumption DEF Numbered
<1>2. CASE i = 0
  BY <1>2 DEF Numbered
<1>3. CASE i # 0
  <2>1. s # 0 /\ t # 0
    BY <1>3 DEF Numbered
  <2>2. PICK q \in Nat : base + i = q * MaxSeq + s
    BY DEF Numbered
  <2>3. PICK r \in Nat : base + i = r * MaxSeq + t
    BY DEF Numbered
  <2>4. (q - r) * MaxSeq = t - s /\ (r - q) * MaxSeq = s - t
    BY <1>1, <2>2, <2>3
  <2>5. PICK c \in Int, d \in Int : c = q - r /\ d = r - q
    OBVIOUS
  <2>6. c * MaxSeq = t - s /\ d * MaxSeq = s - t
    BY <2>4, <2>5
  <2>7. 0 <= t - s => c = 0
    BY <1>1, <2>1, <2>6, Multiple
  <2>8. 0 <= s - t => d = 0
    BY <1>1, <2>1, <2>6, Multiple
  <2>. QED
    BY <1>1, <2>6, <2>7, <2>8
<1>. QED
  BY <1>2, <1>3

LEMMA SeqFacts ==
  ASSUME NEW q \in Seq(Nat)
  PROVE  /\ ToSet(q) \subseteq Nat
         /\ q # <<>> => Last(q) \in ToSet(q)
         /\ q = <<>> => ToSet(q) = {}
         /\ \A c \in Nat : /\ Append(q, c) \in Seq(Nat) /\ Append(q, c) # <<>>
                           /\ Last(Append(q, c)) = c
                           /\ ToSet(Append(q, c)) = ToSet(q) \cup {c}
<1>1. Len(q) \in Nat /\ DOMAIN q = 1 .. Len(q) /\ (q # <<>> => Len(q) # 0)
  BY LenProperties, EmptySeq
<1>2. ToSet(q) \subseteq Nat
  BY <1>1, ElementOfSeq DEF ToSet
<1>3. q # <<>> => Last(q) \in ToSet(q)
  <2>1. q # <<>> => Len(q) \in DOMAIN q
    BY <1>1
  <2>. QED
    BY <2>1 DEF Last, ToSet
<1>4. q = <<>> => ToSet(q) = {}
  BY DEF ToSet
<1>5. ASSUME NEW c \in Nat
      PROVE  /\ Append(q, c) \in Seq(Nat) /\ Append(q, c) # <<>>
             /\ Last(Append(q, c)) = c
             /\ ToSet(Append(q, c)) = ToSet(q) \cup {c}
  <2>1. PICK r \in Seq(Nat) : r = Append(q, c)
    BY AppendProperties
  <2>2. /\ Len(r) = Len(q) + 1 /\ r # <<>>
        /\ \A i \in 1 .. Len(q) : r[i] = q[i]
        /\ r[Len(q) + 1] = c
    BY <2>1, AppendProperties
  <2>3. DOMAIN r = 1 .. Len(q) + 1
    BY <2>2, LenProperties
  <2>4. Last(r) = c
    BY <2>2 DEF Last
  <2>5. ToSet(r) \subseteq ToSet(q) \cup {c}
    BY <1>1, <2>2, <2>3 DEF ToSet
  <2>6. c \in ToSet(r)
    <3>1. Len(q) + 1 \in DOMAIN r
      BY <1>1, <2>3
    <3>. QED
      BY <2>2, <3>1 DEF ToSet
  <2>7. ToSet(q) \subseteq ToSet(r)
    <3>1. \A i \in DOMAIN q : i \in DOMAIN r /\ r[i] = q[i]
      BY <1>1, <2>2, <2>3
    <3>. QED
      BY <3>1 DEF ToSet
  <2>. QED
    BY <2>1, <2>2, <2>4, <2>5, <2>6, <2>7
<1>. QED
  BY <1>2, <1>3, <1>4, <1>5

-----------------------------------------------------------------------------
(* The types.                                                              *)
LEMMA TypeFacts ==
  ASSUME Types, NEW s \in Ends
  PROVE  /\ line[s] \in Seq(Pkt) /\ line[Peer(s)] \in Seq(Pkt)
         /\ Datas(s) \subseteq Pkt /\ Acks(s) \subseteq Pkt
         /\ sent[s] \in Nat /\ got[Peer(s)] \in Seq(Nat)
         /\ ToSet(got[Peer(s)]) \subseteq Nat
         /\ port[s] \in PortT /\ port[Peer(s)] \in PortT
         /\ port[s].txBuf \in Pkt /\ port[Peer(s)].txBuf \in Pkt
         /\ \A k \in Pkt : k.load \in Nat /\ k.seq \in 0 .. MaxSeq /\ k.type \in {"data", "ack"}
<1>1. Peer(s) \in Ends
  BY PeerFacts
<1>2. line[s] \in Seq(Pkt) /\ line[Peer(s)] \in Seq(Pkt)
  BY <1>1 DEF Types
<1>3. \A l \in Seq(Pkt) : ToSet(l) \subseteq Pkt
  BY LenProperties, ElementOfSeq DEF ToSet
<1>4. Datas(s) \subseteq Pkt /\ Acks(s) \subseteq Pkt
  BY <1>2, <1>3 DEF Datas, Acks
<1>5. sent[s] \in Nat /\ got[Peer(s)] \in Seq(Nat) /\ port[s] \in PortT /\ port[Peer(s)] \in PortT
  BY <1>1 DEF Types
<1>. QED
  BY <1>2, <1>4, <1>5, SeqFacts, PortFields DEF Pkt

LEMMA RoundTypes ==
  ASSUME Types, NEW e \in Ends, NEW in \in Inputs(e), NEW expired \in BOOLEAN,
         Round(e, in, expired)
  PROVE  Types'
<1>1. /\ port' \in [Ends -> PortT] /\ line' \in [Ends -> Seq(Pkt)]
      /\ port'[Peer(e)] = port[Peer(e)] /\ port'[e].state \in {"IDLE", "AWAITING_ACK"}
      /\ UNCHANGED sent
      /\ TakesNothing(e) \/ \E k \in Pkt : TakesAck(e, k) \/ TakesData(e, k)
  BY RoundIs
<1>2. \A y \in Ends : port'[y].state # "ACKED"
  BY <1>1, PeerFacts DEF Types
<1>3. got' \in [Ends -> Seq(Nat)]
  <2>1. CASE got' = got
    BY <2>1 DEF Types
  <2>2. ASSUME NEW k \in Pkt, got' = [got EXCEPT ![e] = Append(@, k.load)]
        PROVE  got' \in [Ends -> Seq(Nat)]
    <3>1. k.load \in Nat /\ got[e] \in Seq(Nat)
      BY DEF Pkt, Types
    <3>2. PICK r \in Seq(Nat) : r = Append(got[e], k.load)
      BY <3>1, SeqFacts
    <3>3. got' = [got EXCEPT ![e] = r]
      BY <2>2, <3>2
    <3>. QED
      BY <3>3 DEF Types
  <2>. QED
    BY <1>1, <2>1, <2>2 DEF TakesNothing, TakesAck, TakesData
<1>4. confirmed' \in [Ends -> SUBSET Nat]
  <2>1. CASE confirmed' = confirmed
    BY <2>1 DEF Types
  <2>2. CASE confirmed' = [confirmed EXCEPT ![e] = @ \cup {sent[e]}]
    <3>1. PICK c \in SUBSET Nat : c = confirmed[e] \cup {sent[e]}
      BY DEF Types
    <3>2. confirmed' = [confirmed EXCEPT ![e] = c]
      BY <2>2, <3>1
    <3>. QED
      BY <3>2 DEF Types
  <2>. QED
    BY <1>1, <2>1, <2>2 DEF TakesNothing, TakesAck, TakesData
<1>. QED
  BY <1>1, <1>2, <1>3, <1>4 DEF Types

LEMMA TransmitTypes ==
  ASSUME Types, NEW e \in Ends, Transmit(e)
  PROVE  Types' /\ sent'[e] = sent[e] + 1 /\ sent'[Peer(e)] = sent[Peer(e)]
<1>1. /\ port' \in [Ends -> PortT] /\ line' \in [Ends -> Seq(Pkt)]
      /\ port'[Peer(e)] = port[Peer(e)] /\ port'[e].state = "AWAITING_ACK"
      /\ sent' = [sent EXCEPT ![e] = @ + 1] /\ UNCHANGED <<got, confirmed>>
  BY TransmitIs
<1>2. \A y \in Ends : port'[y].state # "ACKED"
  BY <1>1, PeerFacts DEF Types
<1>3. /\ sent' \in [Ends -> Nat] /\ sent'[e] = sent[e] + 1
      /\ sent'[Peer(e)] = sent[Peer(e)]
  BY <1>1, PeerFacts DEF Types
<1>. QED
  BY <1>1, <1>2, <1>3 DEF Types

LEMMA LineSets ==
  ASSUME Types, Types', NEW s \in Ends, NEW x \in Ends, x = Peer(s), NEW T, NEW U,
         Flow(line[x], line'[x], T), Flow(line[s], line'[s], U)
  PROVE  /\ \A k \in Datas(s)' : k \in Datas(s) \/ (k \in T /\ k.type = "data")
         /\ \A k \in Acks(s)' : k \in Acks(s) \/ (k \in U /\ k.type = "ack")
<1>1. /\ line[x] \in Seq(Pkt) /\ line'[x] \in Seq(Pkt)
      /\ line[s] \in Seq(Pkt) /\ line'[s] \in Seq(Pkt)
  BY DEF Types
<1>2. ToSet(line'[x]) \subseteq ToSet(line[x]) \cup T
  BY <1>1, FlowElements
<1>3. ToSet(line'[s]) \subseteq ToSet(line[s]) \cup U
  BY <1>1, FlowElements
<1>. QED
  BY <1>2, <1>3 DEF Datas, Acks

(* Data that is written is the packet sent last.                           *)
LEMMA StillInOrder ==
  ASSUME Types, Types', NEW s \in Ends, NEW x \in Ends, x = Peer(s), NEW T, NEW c \in Nat,
         Flow(line[x], line'[x], T), \A k \in T : k.type = "data" => k.load = c,
         \A k \in Datas(s) : k.load <= c, InOrder(s)
  PROVE  InOrder(s)'
<1>1. line[x] \in Seq(Pkt) /\ line'[x] \in Seq(Pkt)
  BY DEF Types
<1>2. Ordered(line[x]) /\ \A k \in ToSet(line[x]) : k.type = "data" => k.load <= c
  BY DEF InOrder, Datas
<1>3. Ordered(line'[x])
  BY <1>1, <1>2, FlowOrdered
<1>. QED
  BY <1>3 DEF InOrder

-----------------------------------------------------------------------------
(* The steps.  First those that add no packet and no acknowledge of s.     *)
LEMMA LessDir ==
  ASSUME Types, Types', NEW b \in [Ends -> 0 .. MaxSeq], NEW s \in Ends, NEW x \in Ends,
         x = Peer(s), Dir(b, s), NEW U, Flow(line[x], line'[x], {}), Flow(line[s], line'[s], U),
         \A k \in U : k.type # "ack",
         port'[x].rxSeq = port[x].rxSeq, got'[x] = got[x],
         port'[x].txBuf = port[x].txBuf \/ port'[x].txBuf.type # "ack",
         port'[s].txSeq = port[s].txSeq, port'[s].txBuf = port[s].txBuf,
         port'[s].state = "AWAITING_ACK" => port[s].state = "AWAITING_ACK",
         sent'[s] = sent[s], confirmed'[s] = confirmed[s]
  PROVE  Dir(b, s)'
<1>1. /\ \A k \in Datas(s)' : k \in Datas(s)
      /\ \A k \in Acks(s)' : k \in Acks(s)
  <2>1. /\ \A k \in Datas(s)' : k \in Datas(s) \/ (k \in {} /\ k.type = "data")
        /\ \A k \in Acks(s)' : k \in Acks(s) \/ (k \in U /\ k.type = "ack")
    BY LineSets, SMTT(40)
  <2>. QED
    BY <2>1
<1>2. Heard(x) => Heard(x)'
  BY DEF Heard
<1>3. /\ \A k : DataOK(b, s, k) => DataOK(b, s, k)'
      /\ \A k : Recent(s, k) => Recent(s, k)'
      /\ \A k : AckOK(b, s, k) => AckOK(b, s, k)'
  BY <1>2 DEF DataOK, Recent, AckOK, Answers
<1>4. DataLine(b, s)' /\ AckLine(b, s)'
  BY <1>1, <1>3 DEF Dir, DataLine, AckLine
<1>5. AckBuf(b, s)' /\ DataBuf(b, s)'
  BY <1>3 DEF Dir, AckBuf, DataBuf
<1>6. InOrder(s)'
  <2>1. sent[s] \in Nat /\ \A k \in Datas(s) : k.load <= sent[s]
    BY TypeFacts DEF Dir, DataLine, DataOK
  <2>. QED
    BY <2>1, StillInOrder, SMTT(40) DEF Dir
<1>7. Above(s)'
  BY <1>1 DEF Dir, Above
<1>8. GotOK(s)' /\ Expects(b, s)' /\ Counts(b, s)'
  BY <1>2 DEF Dir, GotOK, Expects, Counts
<1>. QED
  BY <1>4, <1>5, <1>6, <1>7, <1>8 DEF Dir

(* The sender writes a packet: the one it repeats, or a new one.           *)
LEMMA MoreDir ==
  ASSUME Types, Types', NEW b \in [Ends -> 0 .. MaxSeq], NEW s \in Ends, NEW x \in Ends,
         x = Peer(s), Dir(b, s), NEW T, Flow(line[x], line'[x], T), Flow(line[s], line'[s], {}),
         port'[x] = port[x], got'[x] = got[x], sent[s] <= sent'[s],
         \A k \in T : k.type = "data" =>
            k.load = sent'[s] /\ DataOK(b, s, k)' /\ Recent(s, k)',
         \A k \in Datas(s)' : Recent(s, k)', \A k \in Acks(s)' : Recent(s, k)',
         DataBuf(b, s)', Counts(b, s)'
  PROVE  Dir(b, s)'
<1>1. /\ \A k \in Datas(s)' : k \in Datas(s) \/ (k \in T /\ k.type = "data")
      /\ \A k \in Acks(s)' : k \in Acks(s)
  BY LineSets
<1>2. /\ sent[s] \in Nat /\ sent'[s] \in Nat /\ Datas(s) \subseteq Pkt /\ Acks(s) \subseteq Pkt
      /\ port[x].txBuf \in Pkt /\ \A k \in Pkt : k.load \in Nat
      /\ ToSet(got[x]) \subseteq Nat
  BY TypeFacts DEF Types
<1>3. Heard(x) => Heard(x)'
  BY DEF Heard
<1>4. /\ \A k \in Pkt : DataOK(b, s, k) => DataOK(b, s, k)'
      /\ \A k \in Pkt : AckOK(b, s, k) => AckOK(b, s, k)'
  BY <1>2, <1>3 DEF DataOK, AckOK, Answers
<1>5. DataLine(b, s)' /\ AckLine(b, s)'
  BY <1>1, <1>2, <1>4 DEF Dir, DataLine, AckLine
<1>6. AckBuf(b, s)'
  BY <1>2, <1>4 DEF Dir, AckBuf
<1>7. /\ \A k \in Datas(s) : k.load <= sent[s]
      /\ \A a \in Acks(s) : a.load <= sent[s]
      /\ \A g \in ToSet(got[x]) : g <= sent[s]
      /\ port[x].txBuf.type = "ack" => port[x].txBuf.load <= sent[s]
  BY DEF Dir, DataLine, DataOK, AckLine, AckOK, GotOK, AckBuf
<1>8. InOrder(s)'
  <2>1. \A k \in Datas(s) : k.load <= sent'[s]
    BY <1>2, <1>7
  <2>. QED
    BY <1>2, <2>1, StillInOrder, ZenonT(60) DEF Dir
<1>9. Above(s)'
  <2>. SUFFICES ASSUME NEW k \in Datas(s)'
                PROVE  /\ \A g \in ToSet(got[x]) : g <= k.load
                       /\ \A a \in Acks(s) : a.load <= k.load
                       /\ port[x].txBuf.type = "ack" => port[x].txBuf.load <= k.load
    BY <1>1 DEF Above
  <2>1. CASE k \in Datas(s)
    BY <2>1 DEF Dir, Above
  <2>2. CASE k.load = sent'[s]
    BY <1>2, <1>7, <2>2
  <2>. QED
    BY <1>1, <2>1, <2>2
<1>10. GotOK(s)' /\ Expects(b, s)'
  BY <1>2 DEF Dir, GotOK, Expects
<1>. QED
  BY <1>5, <1>6, <1>8, <1>9, <1>10 DEF Dir

(* The receiver takes a packet or an acknowledge, and may write an         *)
(* acknowledge of s.                                                       *)
LEMMA LineOfRound ==
  ASSUME Types, NEW e \in Ends,
         TakesNothing(e) \/ \E k \in Pkt : TakesAck(e, k) \/ TakesData(e, k)
  PROVE  Flow(line[e], line'[e], {})
<1>1. line[e] \in Seq(Pkt)
  BY DEF Types
<1>2. line'[e] = line[e] \/ (line[e] # <<>> /\ line'[e] = Tail(line[e]))
  BY DEF TakesNothing, TakesAck, TakesData
<1>. QED
  BY <1>1, <1>2, FlowSame, TailFlows

(* The acknowledge an end reports is one of the packet it sent last: that  *)
(* packet has arrived, or its number is the one that arrived last.         *)
LEMMA Confirms ==
  ASSUME Types, NEW b \in [Ends -> 0 .. MaxSeq], NEW s \in Ends, NEW x \in Ends,
         x = Peer(s), Dir(b, s),
         TakesNothing(s) \/ \E k \in Pkt : TakesAck(s, k) \/ TakesData(s, k)
  PROVE  \/ confirmed'[s] = confirmed[s]
         \/ /\ confirmed'[s] = confirmed[s] \cup {sent[s]} /\ sent[s] \in 1 .. sent[s]
            /\ got[x] # <<>> /\ (sent[s] - Last(got[x])) % MaxSeq = 0
<1>1. CASE confirmed' = confirmed
  BY <1>1
<1>2. ASSUME NEW k \in Pkt, TakesAck(s, k), k.seq = port[s].txSeq, port[s].txSeq # 0,
             confirmed' = [confirmed EXCEPT ![s] = @ \cup {sent[s]}]
      PROVE  /\ confirmed'[s] = confirmed[s] \cup {sent[s]} /\ sent[s] \in 1 .. sent[s]
             /\ got[x] # <<>> /\ (sent[s] - Last(got[x])) % MaxSeq = 0
  <2>1. k \in Acks(s)
    <3>1. k \in ToSet(line[s])
      BY <1>2, TypeFacts, TailFlows DEF TakesAck
    <3>. QED
      BY <1>2, <3>1 DEF TakesAck, Acks
  <2>2. AckOK(b, s, k) /\ Recent(s, k)
    BY <2>1 DEF Dir, AckLine
  <2>3. /\ sent[s] \in Nat /\ k.load \in Nat /\ MaxSeq \in Nat \ {0} /\ b[s] \in 0 .. MaxSeq
        /\ got[x] \in Seq(Nat) /\ ToSet(got[x]) \subseteq Nat
    BY TypeFacts, SspAssumption
  <2>4. /\ k.load # 0 /\ k.load <= sent[s] /\ sent[s] - k.load < MaxSeq
        /\ Numbered(b[s], k.load, k.seq) /\ Answers(b, s, k)
    BY <1>2, <2>2, <2>3 DEF AckOK, Recent
  <2>5. Numbered(b[s], sent[s], k.seq)
    BY <1>2 DEF Dir, Counts
  <2>6. sent[s] = k.load
    BY <2>3, <2>4, <2>5, SameNumber
  <2>7. PICK g \in ToSet(got[x]) : /\ g <= k.load /\ Numbered(b[s], g, k.seq)
                                   /\ \A j \in ToSet(got[x]) : j <= g \/ j > k.load
    BY <2>4 DEF Answers
  <2>8. \A j \in ToSet(got[x]) : j <= sent[s] /\ j <= Last(got[x])
    BY <2>3 DEF Dir, GotOK
  <2>9. got[x] # <<>> /\ Last(got[x]) \in ToSet(got[x])
    BY <2>3, <2>7, SeqFacts
  <2>10. g = Last(got[x])
    BY <2>3, <2>6, <2>7, <2>8, <2>9, SMTT(40)
  <2>11. g \in Nat /\ (sent[s] - g) % MaxSeq = 0
    BY <2>3, <2>5, <2>7, SameNumber
  <2>12. confirmed'[s] = confirmed[s] \cup {sent[s]}
    BY <1>2 DEF Types
  <2>13. sent[s] \in 1 .. sent[s]
    BY <2>3, <2>4, <2>6
  <2>. QED
    BY <2>9, <2>10, <2>11, <2>12, <2>13
<1>3. ASSUME NEW k \in Pkt, TakesAck(s, k)
      PROVE  \/ confirmed'[s] = confirmed[s]
             \/ /\ confirmed'[s] = confirmed[s] \cup {sent[s]} /\ sent[s] \in 1 .. sent[s]
                /\ got[x] # <<>> /\ (sent[s] - Last(got[x])) % MaxSeq = 0
  BY <1>1, <1>2, <1>3 DEF TakesAck
<1>. QED
  BY <1>1, <1>3 DEF TakesNothing, TakesData

LEMMA SenderRound ==
  ASSUME Types, Types', NEW b \in [Ends -> 0 .. MaxSeq], NEW s \in Ends, Dir(b, s),
         NEW in \in Inputs(s), NEW expired \in BOOLEAN, Round(s, in, expired)
  PROVE  Dir(b, s)'
<1>1. PICK x \in Ends : x = Peer(s) /\ x # s
  BY PeerFacts
<1>2. /\ port'[x] = port[x] /\ port'[s].txSeq = port[s].txSeq
      /\ port'[s].state = "AWAITING_ACK" => port[s].state = "AWAITING_ACK"
      /\ sent' = sent
      /\ TakesNothing(s) \/ \E k \in Pkt : TakesAck(s, k) \/ TakesData(s, k)
  BY <1>1, RoundIs
<1>3. PICK T : Writes(s, T)
  BY RoundIs
<1>4. Flow(line[s], line'[s], {}) /\ Flow(line[x], line'[x], T)
  BY <1>1, <1>2, <1>3, LineOfRound DEF Writes
<1>5. got'[x] = got[x]
  BY <1>1, <1>2 DEF TakesNothing, TakesAck, TakesData, Types
<1>6. port'[s].txBuf.type = "data" => port'[s].txBuf = port[s].txBuf
  <2>1. ASSUME NEW k \in Pkt, TakesData(s, k) PROVE port'[s].txBuf.type = "ack"
    BY <2>1, PacketFacts DEF TakesData
  <2>. QED
    BY <1>2, <2>1 DEF TakesNothing, TakesAck
<1>7. /\ \A k : DataOK(b, s, k) => DataOK(b, s, k)'
      /\ \A k : Recent(s, k) => Recent(s, k)'
  BY <1>2 DEF DataOK, Recent
<1>8. DataBuf(b, s)'
  BY <1>2, <1>6, <1>7 DEF Dir, DataBuf
<1>9. MaxSeq \in Nat \ {0} /\ sent[s] \in Nat
  BY SspAssumption, TypeFacts
<1>10. ASSUME NEW k \in T, k.type = "data"
       PROVE  k.load = sent'[s] /\ DataOK(b, s, k)' /\ Recent(s, k)'
  <2>1. k = port'[s].txBuf /\ T # {}
    BY <1>3 DEF Writes
  <2>2. port[s].state = "AWAITING_ACK" /\ k = port[s].txBuf
    BY <1>3, <1>10, <2>1 DEF Writes
  <2>3. k.load = sent[s] /\ DataOK(b, s, k)
    BY <1>10, <2>2 DEF Dir, DataBuf
  <2>4. Recent(s, k)
    BY <1>9, <2>3 DEF Recent
  <2>. QED
    BY <1>2, <1>7, <2>3, <2>4
<1>11. /\ \A k \in Datas(s)' : k \in Datas(s) \/ (k \in T /\ k.type = "data")
       /\ \A k \in Acks(s)' : k \in Acks(s)
  BY <1>1, <1>4, LineSets
<1>12. /\ \A k \in Datas(s)' : Recent(s, k)'
       /\ \A k \in Acks(s)' : Recent(s, k)'
  BY <1>7, <1>10, <1>11 DEF Dir, DataLine, AckLine
<1>13. confirmed'[s] \subseteq 1 .. sent[s]
  BY <1>1, <1>2, Confirms DEF Dir, Counts
<1>14. Counts(b, s)'
  <2>1. Heard(x)' <=> Heard(x)
    BY <1>2, <1>5 DEF Heard
  <2>. QED
    BY <1>1, <1>2, <1>13, <2>1 DEF Dir, Counts
<1>15. sent[s] <= sent'[s]
  BY <1>2, <1>9
<1>. QED
  BY <1>1, <1>2, <1>4, <1>5, <1>8, <1>10, <1>12, <1>14, <1>15, MoreDir

LEMMA ReceiverRound ==
  ASSUME Types, Types', NEW b \in [Ends -> 0 .. MaxSeq], NEW s \in Ends, NEW x \in Ends,
         x = Peer(s), Dir(b, s),
         NEW in \in Inputs(x), NEW expired \in BOOLEAN, Round(x, in, expired)
  PROVE  /\ Dir(b, s)' /\ (Heard(x) => Heard(x)')
         /\ \/ got'[x] = got[x]
            \/ \E i \in 1 .. sent[s] : /\ \A j \in ToSet(got[x]) : j < i
                                       /\ got'[x] = Append(got[x], i)
<1>1. Peer(x) = s /\ x # s
  BY PeerFacts
<1>2. /\ port'[s] = port[s] /\ sent' = sent
      /\ TakesNothing(x) \/ \E k \in Pkt : TakesAck(x, k) \/ TakesData(x, k)
  BY <1>1, RoundIs
<1>3. PICK U : Writes(x, U)
  BY RoundIs
<1>4. Flow(line[x], line'[x], {}) /\ Flow(line[s], line'[s], U)
  BY <1>1, <1>2, <1>3, LineOfRound DEF Writes
<1>5. confirmed'[s] = confirmed[s]
  BY <1>1, <1>2 DEF TakesNothing, TakesAck, TakesData, Types
<1>6. /\ \A k \in Datas(s)' : k \in Datas(s)
      /\ \A k \in Acks(s)' : k \in Acks(s) \/ (k \in U /\ k.type = "ack")
  <2>1. /\ \A k \in Datas(s)' : k \in Datas(s) \/ (k \in {} /\ k.type = "data")
        /\ \A k \in Acks(s)' : k \in Acks(s) \/ (k \in U /\ k.type = "ack")
    BY <1>4, LineSets
  <2>. QED
    BY <2>1
<1>7. InOrder(s)'
  <2>1. sent[s] \in Nat /\ \A k \in Datas(s) : k.load <= sent[s]
    BY TypeFacts DEF Dir, DataLine, DataOK
  <2>. QED
    BY <1>4, <2>1, StillInOrder DEF Dir
<1>8. DataLine(b, s)'
  BY <1>2, <1>6 DEF Dir, DataLine, DataOK, Recent
<1>9. DataBuf(b, s)'
  BY <1>2 DEF Dir, DataBuf, DataOK
<1>10. /\ sent[s] \in Nat /\ got[x] \in Seq(Nat) /\ ToSet(got[x]) \subseteq Nat
       /\ Datas(s) \subseteq Pkt /\ Acks(s) \subseteq Pkt
       /\ port[x].txBuf \in Pkt /\ b[s] \in 0 .. MaxSeq
       /\ \A k \in Pkt : k.load \in Nat /\ k.seq \in 0 .. MaxSeq
  BY TypeFacts
<1>11. \A k \in U : k = port'[x].txBuf
  BY <1>3 DEF Writes
<1>12. CASE ~\E k \in Pkt : TakesData(x, k)
  <2>1. /\ port'[x].rxSeq = port[x].rxSeq /\ port'[x].txBuf = port[x].txBuf
        /\ got'[x] = got[x]
    BY <1>2, <1>12 DEF TakesNothing, TakesAck
  <2>2. Heard(x)' <=> Heard(x)
    BY <2>1 DEF Heard
  <2>3. \A k : AckOK(b, s, k) => AckOK(b, s, k)'
    BY <1>1, <1>2, <2>1, <2>2 DEF AckOK, Answers
  <2>4. ASSUME NEW k \in U, k.type = "ack"
        PROVE  /\ AckOK(b, s, k) /\ Recent(s, k)
               /\ \A y \in Datas(s) : k.load <= y.load
    <3>1. k = port[x].txBuf
      BY <1>11, <2>1
    <3>2. AckOK(b, s, k) /\ \A y \in Datas(s) : k.load <= y.load
      BY <2>4, <3>1 DEF Dir, AckBuf, Above
    <3>3. Timely(x, k)
      <4>1. U # {} /\ port'[x].txBuf = k /\ k.type = "ack"
        BY <1>11, <2>4
      <4>2. ~\E y : TakesData(x, y)
        <5>. SUFFICES ASSUME NEW y, TakesData(x, y) PROVE FALSE
          OBVIOUS
        <5>1. y \in Pkt
          BY <1>1, TypeFacts, TailFlows DEF TakesData
        <5>. QED
          BY <1>12, <5>1
      <4>. QED
        BY <1>3, <4>1, <4>2 DEF Writes
    <3>4. Recent(s, k)
      BY <1>1, <2>4, <3>3 DEF Timely, Recent
    <3>. QED
      BY <3>2, <3>4
  <2>5. AckLine(b, s)'
    <3>. SUFFICES ASSUME NEW k \in Acks(s)' PROVE AckOK(b, s, k)' /\ Recent(s, k)'
      BY DEF AckLine
    <3>1. AckOK(b, s, k) /\ Recent(s, k)
      BY <1>6, <2>4 DEF Dir, AckLine
    <3>2. Recent(s, k)'
      BY <1>2, <3>1 DEF Recent
    <3>. QED
      BY <2>3, <3>1, <3>2
  <2>6. AckBuf(b, s)'
    BY <2>1, <2>3 DEF Dir, AckBuf
  <2>7. Above(s)'
    BY <1>6, <2>1, <2>4 DEF Dir, Above
  <2>8. GotOK(s)' /\ Expects(b, s)' /\ Counts(b, s)'
    BY <1>1, <1>2, <1>5, <2>1, <2>2 DEF Dir, GotOK, Expects, Counts
  <2>. QED
    BY <1>7, <1>8, <1>9, <2>1, <2>2, <2>5, <2>6, <2>7, <2>8 DEF Dir
<1>13. ASSUME NEW k \in Pkt, TakesData(x, k)
       PROVE  /\ Dir(b, s)' /\ (Heard(x) => Heard(x)')
              /\ \/ got'[x] = got[x]
                 \/ \E i \in 1 .. sent[s] : /\ \A j \in ToSet(got[x]) : j < i
                                            /\ got'[x] = Append(got[x], i)
  <2>1. /\ port'[x].rxSeq = k.seq /\ port'[x].txBuf = Ack(k) /\ k.type = "data"
        /\ Ack(k).type = "ack" /\ Ack(k).seq = k.seq /\ Ack(k).load = k.load
    BY <1>13, PacketFacts DEF TakesData
  <2>2. k \in Datas(s) /\ \A y \in Datas(s)' : k.load <= y.load
    <3>1. /\ line[x] \in Seq(Pkt) /\ line[x] # <<>> /\ k = line[x][1]
          /\ line'[x] = Tail(line[x]) /\ Ordered(line[x])
      BY <1>1, <1>13 DEF TakesData, Dir, InOrder, Types
    <3>2. k \in ToSet(line[x]) /\ \A y \in ToSet(line'[x]) : y.type = "data" => k.load <= y.load
      BY <2>1, <3>1, TailFlows
    <3>. QED
      BY <2>1, <3>2 DEF Datas
  <2>3. /\ DataOK(b, s, k) /\ Recent(s, k)
        /\ \A g \in ToSet(got[x]) : g <= k.load
        /\ \A a \in Acks(s) : a.load <= k.load
    BY <2>2 DEF Dir, DataLine, Above
  <2>4. /\ \A g \in ToSet(got[x]) : g \in 1 .. sent[s] /\ g <= Last(got[x])
        /\ got[x] # <<>> => /\ Last(got[x]) \in ToSet(got[x])
                            /\ Numbered(b[s], Last(got[x]), port[x].rxSeq)
        /\ sent[s] > 0 => Heard(x)
        /\ Numbered(b[s], sent[s], port[s].txSeq)
    BY <1>10, SeqFacts DEF Dir, GotOK, Expects, Counts
  <2>5. \A y \in U : y = Ack(k)
    BY <1>11, <2>1
  <2>6. ASSUME /\ ToSet(got'[x]) \subseteq ToSet(got[x]) \cup {k.load}
               /\ \A a \in Acks(s) : AckOK(b, s, a)'
               /\ AckOK(b, s, Ack(k))'
               /\ Heard(x) => Heard(x)'
               /\ GotOK(s)' /\ Expects(b, s)'
        PROVE  Dir(b, s)'
    <3>1. AckLine(b, s)'
      <4>1. \A a \in Acks(s) : Recent(s, a)
        BY DEF Dir, AckLine
      <4>2. Recent(s, Ack(k))
        BY <2>1, <2>3 DEF Recent
      <4>3. \A a : Recent(s, a) => Recent(s, a)'
        BY <1>2 DEF Recent
      <4>. QED
        BY <1>6, <2>5, <2>6, <4>1, <4>2, <4>3 DEF AckLine
    <3>2. AckBuf(b, s)'
      BY <2>1, <2>6 DEF AckBuf
    <3>3. Above(s)'
      <4>. SUFFICES ASSUME NEW y \in Datas(s)'
                    PROVE  /\ \A g \in ToSet(got'[x]) : g <= y.load
                           /\ \A a \in Acks(s)' : a.load <= y.load
                           /\ port'[x].txBuf.load <= y.load
        BY DEF Above
      <4>1. y \in Datas(s) /\ k.load <= y.load
        BY <1>6, <2>2
      <4>2. /\ \A g \in ToSet(got[x]) : g <= y.load
            /\ \A a \in Acks(s) : a.load <= y.load
        BY <4>1 DEF Dir, Above
      <4>. QED
        BY <1>6, <2>1, <2>5, <2>6, <4>1, <4>2
    <3>4. Counts(b, s)'
      BY <1>1, <1>2, <1>5, <2>6 DEF Dir, Counts
    <3>. QED
      BY <1>7, <1>8, <1>9, <2>6, <3>1, <3>2, <3>3, <3>4 DEF Dir
  <2>7. CASE k.load = 0
    <3>1. k.seq = 0 /\ s = "gcs"
      BY <2>3, <2>7 DEF DataOK
    <3>2. ToSet(got[x]) = {}
      BY <1>10, <2>3, <2>4, <2>7
    <3>3. got[x] = <<>>
      BY <2>4, <3>2
    <3>4. got'[x] = got[x]
      BY <1>13, <3>1 DEF TakesData
    <3>5. Heard(x)'
      BY <2>1, <3>1 DEF Heard
    <3>6. AckOK(b, s, Ack(k))'
      BY <1>1, <1>2, <1>10, <2>1, <2>7, <3>1, <3>5 DEF AckOK
    <3>7. \A a \in Acks(s) : AckOK(b, s, a)'
      BY <1>1, <1>2, <3>4, <3>5 DEF Dir, AckLine, AckOK, Answers
    <3>8. GotOK(s)' /\ Expects(b, s)'
      BY <1>1, <3>2, <3>3, <3>4 DEF GotOK, Expects
    <3>. QED
      BY <2>6, <3>4, <3>5, <3>6, <3>7, <3>8
  <2>8. CASE k.load # 0 /\ k.seq # port[x].rxSeq
    <3>1. Numbered(b[s], k.load, k.seq) /\ k.seq # 0 /\ k.load <= sent[s]
      BY <2>3, <2>8 DEF DataOK, Numbered
    <3>2. got' = [got EXCEPT ![x] = Append(@, k.load)]
      BY <1>13, <2>8, <3>1 DEF TakesData
    <3>3. /\ got'[x] = Append(got[x], k.load) /\ got'[x] # <<>>
          /\ Last(got'[x]) = k.load /\ ToSet(got'[x]) = ToSet(got[x]) \cup {k.load}
      <4>1. got'[x] = Append(got[x], k.load)
        BY <3>2 DEF Types
      <4>2. PICK q \in Seq(Nat), c \in Nat : q = got[x] /\ c = k.load
        BY <1>10
      <4>3. /\ Append(q, c) # <<>> /\ Last(Append(q, c)) = c
            /\ ToSet(Append(q, c)) = ToSet(q) \cup {c}
        BY SeqFacts
      <4>. QED
        BY <4>1, <4>2, <4>3, Zenon
    <3>4. Heard(x)'
      BY <3>3 DEF Heard
    <3>5. AckOK(b, s, Ack(k))'
      <4>1. Answers(b, s, Ack(k))'
        <5>1. k.load \in ToSet(got'[x]) /\ \A j \in ToSet(got'[x]) : j <= k.load
          BY <1>10, <2>3, <3>3
        <5>2. k.load <= Ack(k).load /\ Numbered(b[s], k.load, Ack(k).seq)
          BY <1>10, <2>1, <3>1
        <5>. QED
          BY <1>1, <5>1, <5>2 DEF Answers
      <4>. QED
        BY <1>2, <2>1, <2>8, <3>1, <4>1 DEF AckOK
    <3>6. ASSUME NEW a \in Acks(s) PROVE AckOK(b, s, a)'
      <4>1. AckOK(b, s, a) /\ a.load <= k.load /\ a.load \in Nat
        BY <1>10, <2>3 DEF Dir, AckLine
      <4>2. CASE a.load = 0
        BY <1>1, <1>2, <3>4, <4>1, <4>2 DEF AckOK
      <4>3. CASE a.load # 0
        <5>1. Numbered(b[s], a.load, a.seq)
          BY <4>1, <4>3 DEF AckOK
        <5>2. PICK g \in ToSet(got[x]) : /\ g <= a.load /\ Numbered(b[s], g, a.seq)
                                         /\ \A j \in ToSet(got[x]) : j <= g \/ j > a.load
          BY <4>1, <4>3 DEF AckOK, Answers
        <5>3. a.load # k.load
          <6>. SUFFICES ASSUME a.load = k.load PROVE FALSE
            OBVIOUS
          <6>1. a.seq = k.seq
            BY <1>10, <3>1, <5>1, OneNumber
          <6>2. g \in Nat /\ Last(got[x]) \in Nat /\ Last(got[x]) \in ToSet(got[x])
                /\ Numbered(b[s], Last(got[x]), port[x].rxSeq)
            BY <1>10, <2>4, SeqFacts
          <6>3. g = Last(got[x])
            BY <1>10, <2>3, <2>4, <5>2, <6>2
          <6>4. port[x].rxSeq = a.seq
            BY <1>10, <5>2, <6>2, <6>3, OneNumber
          <6>. QED
            BY <2>8, <6>1, <6>4
        <5>4. k.load > a.load
          BY <1>10, <4>1, <5>3
        <5>5. \A j \in ToSet(got'[x]) : j <= g \/ j > a.load
          BY <3>3, <5>2, <5>4
        <5>6. Answers(b, s, a)'
          BY <1>1, <3>3, <5>2, <5>5 DEF Answers
        <5>. QED
          BY <1>2, <4>1, <4>3, <5>1, <5>6 DEF AckOK
      <4>. QED
        BY <4>2, <4>3
    <3>7. GotOK(s)'
      <4>1. k.load \in 1 .. sent[s]
        BY <1>10, <2>8, <3>1
      <4>2. \A g \in ToSet(got'[x]) : g \in 1 .. sent[s] /\ g <= k.load
        BY <1>10, <2>3, <2>4, <3>3, <4>1
      <4>. QED
        BY <1>1, <1>2, <3>3, <4>2 DEF GotOK
    <3>8. Expects(b, s)'
      BY <1>1, <2>1, <3>1, <3>3 DEF Expects
    <3>9. \A j \in ToSet(got[x]) : j < k.load
      <4>1. ASSUME k.load \in ToSet(got[x]) PROVE FALSE
        <5>1. /\ Last(got[x]) = k.load /\ got[x] # <<>>
          BY <1>10, <2>3, <2>4, <4>1, SeqFacts, SMTT(40)
        <5>2. port[x].rxSeq = k.seq
          BY <1>10, <2>4, <3>1, <5>1, OneNumber
        <5>. QED
          BY <2>8, <5>2
      <4>. QED
        BY <1>10, <2>3, <4>1
    <3>10. k.load \in 1 .. sent[s]
      BY <1>10, <2>8, <3>1
    <3>. QED
      BY <2>6, <3>3, <3>4, <3>5, <3>6, <3>7, <3>8, <3>9, <3>10
  <2>9. CASE k.load # 0 /\ k.seq = port[x].rxSeq
    <3>1. Numbered(b[s], k.load, k.seq) /\ k.seq # 0 /\ k.load <= sent[s]
      BY <2>3, <2>9 DEF DataOK, Numbered
    <3>2. got'[x] = got[x] /\ port'[x].rxSeq = port[x].rxSeq
      BY <1>13, <2>1, <2>9 DEF TakesData
    <3>3. got[x] # <<>>
      BY <1>10, <2>4, <2>9, <3>1 DEF Heard
    <3>4. Heard(x)' <=> Heard(x)
      BY <3>2 DEF Heard
    <3>5. \A a \in Acks(s) : AckOK(b, s, a)'
      BY <1>1, <1>2, <3>2, <3>4 DEF Dir, AckLine, AckOK, Answers
    <3>6. AckOK(b, s, Ack(k))'
      <4>1. Answers(b, s, Ack(k))'
        <5>1. PICK g \in ToSet(got'[x]) : g = Last(got[x])
          BY <2>4, <3>2, <3>3
        <5>2. /\ g <= Ack(k).load /\ Numbered(b[s], g, Ack(k).seq)
              /\ \A j \in ToSet(got'[x]) : j <= g
          BY <2>1, <2>3, <2>4, <2>9, <3>2, <3>3, <5>1
        <5>. QED
          BY <1>1, <5>1, <5>2 DEF Answers
      <4>. QED
        BY <1>2, <2>1, <2>9, <3>1, <4>1 DEF AckOK
    <3>7. GotOK(s)' /\ Expects(b, s)'
      BY <1>1, <1>2, <3>2 DEF Dir, GotOK, Expects
    <3>. QED
      BY <2>6, <3>2, <3>4, <3>5, <3>6, <3>7
  <2>. QED
    BY <2>7, <2>8, <2>9
<1>. QED
  BY <1>12, <1>13

LEMMA SenderTransmit ==
  ASSUME Types, Types', NEW b \in [Ends -> 0 .. MaxSeq], NEW s \in Ends, NEW x \in Ends,
         x = Peer(s), Dir(b, s), Heard(x), Transmit(s)
  PROVE  Dir(b, s)'
<1>1. x # s
  BY PeerFacts
<1>2. PICK k \in Pkt : /\ k = Data(NextSeq(port[s].txSeq), sent[s] + 1)
                       /\ Flow(line[s], line'[s], {}) /\ Flow(line[x], line'[x], {k})
                       /\ \A y \in ToSet(line'[s]) : ~Old(s, s, y)
                       /\ \A y \in ToSet(line'[x]) : y = k \/ ~Old(s, x, y)
  BY TransmitFlows
<1>3. /\ port'[x] = port[x] /\ port'[s].txSeq = NextSeq(port[s].txSeq)
      /\ port'[s].txBuf = k /\ UNCHANGED <<got, confirmed>>
      /\ sent'[s] = sent[s] + 1
  BY <1>2, TransmitIs, TransmitTypes
<1>4. /\ sent[s] \in Nat /\ MaxSeq \in Nat \ {0} /\ b[s] \in 0 .. MaxSeq
      /\ port[s].txSeq \in 0 .. MaxSeq
  BY TypeFacts, PortFields, SspAssumption
<1>5. k.type = "data" /\ k.seq = NextSeq(port[s].txSeq) /\ k.load = sent[s] + 1
  <2>1. PICK c \in 0 .. MaxSeq, d \in Nat : c = NextSeq(port[s].txSeq) /\ d = sent[s] + 1
    BY <1>4, NextSeqIs
  <2>2. Data(c, d).type = "data" /\ Data(c, d).seq = c /\ Data(c, d).load = d
    BY PacketFacts
  <2>. QED
    BY <1>2, <2>1, <2>2, Zenon
<1>6. Numbered(b[s], sent[s] + 1, NextSeq(port[s].txSeq))
  BY <1>4, NextNumber DEF Dir, Counts
<1>7. DataOK(b, s, k)'
  BY <1>3, <1>4, <1>5, <1>6 DEF DataOK
<1>8. Recent(s, k)'
  BY <1>3, <1>4, <1>5 DEF Recent
<1>9. DataBuf(b, s)'
  BY <1>3, <1>5, <1>7 DEF DataBuf
<1>10. Counts(b, s)'
  <2>1. Heard(x)'
    BY <1>3 DEF Heard
  <2>2. 1 .. sent[s] \subseteq 1 .. sent[s] + 1
    BY <1>4
  <2>3. confirmed'[s] \subseteq 1 .. sent'[s]
    BY <1>3, <2>2 DEF Dir, Counts
  <2>. QED
    BY <1>3, <1>6, <2>1, <2>3 DEF Counts
<1>11. ASSUME NEW y \in Datas(s)' PROVE Recent(s, y)'
  <2>1. y.type = "data" /\ (y = k \/ ~Old(s, x, y))
    BY <1>2, <1>11 DEF Datas
  <2>2. y \in Pkt /\ y.load \in Nat
    <3>1. Datas(s)' \subseteq Pkt
      <4>1. \A q \in Seq(Pkt) : ToSet(q) \subseteq Pkt
        BY LenProperties, ElementOfSeq DEF ToSet
      <4>2. line'[x] \in Seq(Pkt)
        BY DEF Types
      <4>. QED
        BY <4>1, <4>2 DEF Datas
    <3>. QED
      BY <3>1 DEF Pkt
  <2>3. ~Old(s, x, y) => y.load = 0 \/ sent[s] + 1 - y.load < MaxSeq
    BY <1>4, <2>1, <2>2 DEF Old
  <2>4. CASE y = k
    BY <1>8, <2>4
  <2>5. CASE ~Old(s, x, y)
    BY <1>3, <1>4, <2>2, <2>3, <2>5 DEF Recent
  <2>. QED
    BY <2>1, <2>4, <2>5
<1>12. ASSUME NEW y \in Acks(s)' PROVE Recent(s, y)'
  <2>1. y.type = "ack" /\ ~Old(s, s, y)
    BY <1>2, <1>12 DEF Acks
  <2>2. y.load \in Nat
    <3>1. \A q \in Seq(Pkt) : ToSet(q) \subseteq Pkt
      BY LenProperties, ElementOfSeq DEF ToSet
    <3>2. line'[s] \in Seq(Pkt)
      BY DEF Types
    <3>3. y \in Pkt
      BY <3>1, <3>2 DEF Acks
    <3>. QED
      BY <3>3 DEF Pkt
  <2>3. y.load = 0 \/ sent[s] + 1 - y.load < MaxSeq
    BY <1>1, <1>4, <2>1, <2>2 DEF Old
  <2>. QED
    BY <1>3, <1>4, <2>2, <2>3 DEF Recent
<1>13. sent[s] <= sent'[s] /\ got'[x] = got[x]
  BY <1>3, <1>4
<1>14. \A y \in {k} : y.type = "data" =>
          y.load = sent'[s] /\ DataOK(b, s, y)' /\ Recent(s, y)'
  BY <1>3, <1>5, <1>7, <1>8
<1>15. PICK T : T = {k}
  OBVIOUS
<1>16. /\ Flow(line[x], line'[x], T) /\ Flow(line[s], line'[s], {})
       /\ \A y \in T : y.type = "data" =>
            y.load = sent'[s] /\ DataOK(b, s, y)' /\ Recent(s, y)'
  BY <1>2, <1>14, <1>15
<1>. QED
  BY <1>3, <1>9, <1>10, <1>11, <1>12, <1>13, <1>16, MoreDir

LEMMA ReceiverTransmit ==
  ASSUME Types, Types', NEW b \in [Ends -> 0 .. MaxSeq], NEW s \in Ends, NEW x \in Ends,
         x = Peer(s), Dir(b, s), Transmit(x)
  PROVE  Dir(b, s)'
<1>1. Peer(x) = s /\ x # s
  BY PeerFacts
<1>2. PICK k \in Pkt : /\ k = Data(NextSeq(port[x].txSeq), sent[x] + 1)
                       /\ Flow(line[x], line'[x], {}) /\ Flow(line[s], line'[s], {k})
  BY <1>1, TransmitFlows
<1>3. /\ port'[s] = port[s] /\ port'[x].rxSeq = port[x].rxSeq
      /\ port'[x].txBuf = k /\ UNCHANGED <<got, confirmed>>
      /\ sent'[s] = sent[s]
  BY <1>1, <1>2, TransmitIs, TransmitTypes
<1>4. k.type # "ack"
  <2>1. NextSeq(port[x].txSeq) \in 0 .. MaxSeq /\ sent[x] + 1 \in Nat
    BY TypeFacts, PortFields, NextSeqIs
  <2>. QED
    BY <1>2, <2>1, PacketFacts
<1>5. PICK U : U = {k}
  OBVIOUS
<1>6. /\ Flow(line[x], line'[x], {}) /\ Flow(line[s], line'[s], U)
      /\ \A y \in U : y.type # "ack"
  BY <1>2, <1>4, <1>5
<1>7. port'[x].txBuf.type # "ack"
  BY <1>3, <1>4
<1>8. port'[s].txSeq = port[s].txSeq /\ port'[s].txBuf = port[s].txBuf
      /\ port'[s].state = port[s].state /\ got'[x] = got[x] /\ confirmed'[s] = confirmed[s]
  BY <1>3
<1>. QED
  BY <1>3, <1>6, <1>7, <1>8, LessDir

LEMMA DirOfStart ==
  ASSUME NEW b \in [Ends -> 0 .. MaxSeq], b["gcs"] = 0, DInv(b), Start
  PROVE  /\ Types' /\ Dir(b, "gcs")' /\ Dir(b, "board")' /\ Opened'
         /\ UNCHANGED <<sent, got, confirmed>>
<1>1. /\ "gcs" \in Ends /\ "board" \in Ends /\ Peer("gcs") = "board" /\ Peer("board") = "gcs"
      /\ Types /\ Dir(b, "gcs") /\ Dir(b, "board")
  BY DEF Ends, Peer, DInv
<1>2. /\ thread.pc = "synchronise" /\ thread'.pc \in {"synchronising", thread'.pc}
      /\ port' = [port EXCEPT !["gcs"] = Synchronise(port["gcs"])]
      /\ line' = [line EXCEPT !["board"] = Put(@, <<Synch>>)]
      /\ UNCHANGED <<sent, got, confirmed>>
  BY DEF Start
<1>3. PICK q \in PortT : /\ q = Synchronise(port["gcs"]) /\ q.state = "AWAITING_ACK"
                         /\ q.txSeq = 0 /\ q.rxSeq = port["gcs"].rxSeq /\ q.txBuf = Synch
  BY <1>1, SynchroniseIs DEF Types
<1>4. /\ port' \in [Ends -> PortT] /\ port'["gcs"] = q /\ port'["board"] = port["board"]
      /\ \A e \in Ends : port'[e].state # "ACKED"
  <2>1. port' = [port EXCEPT !["gcs"] = q]
    BY <1>2, <1>3
  <2>2. port \in [Ends -> PortT] /\ \A e \in Ends : port[e].state # "ACKED"
    BY <1>1 DEF Types
  <2>3. /\ port' \in [Ends -> PortT] /\ port'["gcs"] = q /\ port'["board"] = port["board"]
    BY <1>1, <2>1, <2>2
  <2>. QED
    BY <1>3, <2>2, <2>3 DEF Ends
<1>5. Synch \in Pkt /\ Synch.type = "data" /\ Synch.seq = 0 /\ Synch.load = 0
  BY PacketFacts
<1>6. PICK m \in Seq(Pkt) : /\ m = Put(line["board"], <<Synch>>)
                            /\ Flow(line["board"], m, {Synch})
  <2>1. line["board"] \in Seq(Pkt) /\ <<Synch>> \in Seq(Pkt) /\ ToSet(<<Synch>>) = {Synch}
    BY <1>1, <1>5 DEF Types, ToSet
  <2>2. PICK m \in Seq(Pkt) : m = Put(line["board"], <<Synch>>)
    BY <2>1, PutFlows
  <2>3. \A i \in 1 .. Len(m) : IF i <= Len(line["board"]) THEN m[i] = line["board"][i]
                                ELSE m[i] \in {Synch}
    BY <2>1, <2>2, PutFlows
  <2>4. \A i \in 1 .. Len(m) : i + 0 = i
    OBVIOUS
  <2>5. 0 \in Nat /\ \A i \in 1 .. Len(m) :
          IF i + 0 <= Len(line["board"]) THEN m[i] = line["board"][i + 0] ELSE m[i] \in {Synch}
    BY <2>3, <2>4
  <2>. QED
    BY <2>2, <2>5 DEF Flow
<1>7. line' \in [Ends -> Seq(Pkt)] /\ line'["board"] = m /\ line'["gcs"] = line["gcs"]
  <2>1. line' = [line EXCEPT !["board"] = m]
    BY <1>2, <1>6
  <2>. QED
    BY <1>1, <2>1 DEF Types
<1>8. Types'
  BY <1>1, <1>2, <1>4, <1>7 DEF Types
<1>9. Flow(line["gcs"], line'["gcs"], {}) /\ Flow(line["board"], line'["board"], {Synch})
  <2>1. line["gcs"] \in Seq(Pkt)
    BY <1>1 DEF Types
  <2>. QED
    BY <1>6, <1>7, <2>1, FlowSame
<1>10. sent["gcs"] = 0 /\ sent' = sent /\ confirmed' = confirmed /\ got' = got
  BY <1>1, <1>2 DEF DInv, Opened, Types
<1>11. Dir(b, "gcs")'
  <2>1. DataOK(b, "gcs", Synch)'
    BY <1>5, <1>10 DEF DataOK
  <2>2. DataBuf(b, "gcs")'
    BY <1>3, <1>4, <1>5, <1>10, <2>1 DEF DataBuf
  <2>3. Counts(b, "gcs")'
    <3>1. Numbered(b["gcs"], 0, 0)
      <4>1. 0 \in 0 .. MaxSeq
        BY SspAssumption
      <4>. QED
        BY <4>1, FirstNumber
    <3>2. Heard("board")' <=> Heard("board")
      BY <1>2, <1>4 DEF Heard
    <3>. QED
      BY <1>1, <1>3, <1>4, <1>10, <3>1, <3>2 DEF Dir, Counts
  <2>4. /\ \A k \in Datas("gcs")' : k \in Datas("gcs") \/ (k \in {Synch} /\ k.type = "data")
        /\ \A k \in Acks("gcs")' : k \in Acks("gcs") \/ (k \in {} /\ k.type = "ack")
    <3>1. PICK T, U : T = {Synch} /\ U = {}
      OBVIOUS
    <3>2. PICK s \in Ends, x \in Ends : s = "gcs" /\ x = "board" /\ x = Peer(s)
      BY <1>1
    <3>3. Flow(line[x], line'[x], T) /\ Flow(line[s], line'[s], U)
      BY <1>9, <3>1, <3>2
    <3>4. /\ \A k \in Datas(s)' : k \in Datas(s) \/ (k \in T /\ k.type = "data")
          /\ \A k \in Acks(s)' : k \in Acks(s) \/ (k \in U /\ k.type = "ack")
      BY <1>1, <1>8, <3>2, <3>3, LineSets
    <3>. QED
      BY <3>1, <3>2, <3>4 DEF Datas, Acks
  <2>5. \A k : Recent("gcs", k) => Recent("gcs", k)'
    BY <1>10 DEF Recent
  <2>6. Recent("gcs", Synch)'
    BY <1>5 DEF Recent
  <2>7. /\ \A k \in Datas("gcs")' : Recent("gcs", k)'
        /\ \A k \in Acks("gcs")' : Recent("gcs", k)'
    BY <1>1, <2>4, <2>5, <2>6 DEF Dir, DataLine, AckLine
  <2>8. \A k \in {Synch} : k.type = "data" =>
          k.load = sent'["gcs"] /\ DataOK(b, "gcs", k)' /\ Recent("gcs", k)'
    BY <1>5, <1>10, <2>1, <2>6
  <2>9. sent["gcs"] <= sent'["gcs"] /\ got'["board"] = got["board"]
    BY <1>10
  <2>10. PICK T : T = {Synch}
    OBVIOUS
  <2>11. /\ Flow(line["board"], line'["board"], T)
         /\ \A k \in T : k.type = "data" =>
              k.load = sent'["gcs"] /\ DataOK(b, "gcs", k)' /\ Recent("gcs", k)'
    BY <1>9, <2>8, <2>10
  <2>. QED
    BY <1>1, <1>4, <1>8, <1>9, <2>2, <2>3, <2>7, <2>9, <2>11, MoreDir
<1>12. Dir(b, "board")'
  <2>1. \A k \in {Synch} : k.type # "ack"
    BY <1>5
  <2>2. port'["gcs"].rxSeq = port["gcs"].rxSeq /\ port'["gcs"].txBuf.type # "ack"
    BY <1>3, <1>4, <1>5
  <2>. QED
    BY <1>1, <1>4, <1>8, <1>9, <1>10, <2>1, <2>2, LessDir
<1>13. Opened'
  <2>1. thread'.pc \notin {"round", "handover"}
    BY <1>2 DEF Start
  <2>2. Heard("gcs")'
    BY <1>3, <1>4, <1>10 DEF DInv, Opened, Heard
  <2>. QED
    BY <1>10, <2>1, <2>2 DEF Opened
<1>. QED
  BY <1>8, <1>10, <1>11, <1>12, <1>13

-----------------------------------------------------------------------------
(* One direction, seen as Delivery.                                        *)
Kept(s) ==
  LET x == Peer(s)
  IN  \/ UNCHANGED <<sent[s], got[x], confirmed[s]>>
      \/ sent'[s] = sent[s] + 1 /\ UNCHANGED <<got[x], confirmed[s]>>
      \/ /\ \E i \in 1 .. sent[s] : /\ \A j \in ToSet(got[x]) : j < i
                                   /\ got'[x] = Append(got[x], i)
         /\ UNCHANGED <<sent[s], confirmed[s]>>
      \/ /\ sent[s] \in 1 .. sent[s] /\ got[x] # <<>>
         /\ (sent[s] - Last(got[x])) % MaxSeq = 0
         /\ confirmed'[s] = confirmed[s] \cup {sent[s]}
         /\ UNCHANGED <<sent[s], got[x]>>

Links(b) == Types /\ Dir(b, "gcs") /\ Dir(b, "board") /\ Heard("gcs")

LEMMA RoundLinks ==
  ASSUME NEW b \in [Ends -> 0 .. MaxSeq], Links(b), NEW e \in Ends,
         NEW in \in Inputs(e), NEW expired \in BOOLEAN, Round(e, in, expired)
  PROVE  /\ Links(b)' /\ (Heard("board") => Heard("board")')
         /\ Kept("gcs") /\ Kept("board") /\ UNCHANGED sent
<1>1. PICK x \in Ends : x = Peer(e) /\ Peer(x) = e /\ x # e
  BY PeerFacts
<1>2. Types /\ Dir(b, e) /\ Dir(b, x) /\ Types'
  BY RoundTypes DEF Links, Ends
<1>3. /\ sent' = sent /\ port'[x] = port[x]
      /\ TakesNothing(e) \/ \E k \in Pkt : TakesAck(e, k) \/ TakesData(e, k)
  BY <1>1, <1>2, RoundIs
<1>4. Dir(b, e)'
  BY <1>2, SenderRound
<1>5. /\ Dir(b, x)' /\ (Heard(e) => Heard(e)')
      /\ \/ got'[e] = got[e]
         \/ \E i \in 1 .. sent[x] : /\ \A j \in ToSet(got[e]) : j < i
                                    /\ got'[e] = Append(got[e], i)
  <2>1. PICK i \in Inputs(e), t \in BOOLEAN : i = in /\ t = expired /\ Round(e, i, t)
    OBVIOUS
  <2>2. e = Peer(x) /\ Types /\ Types' /\ Dir(b, x)
    BY <1>1, <1>2
  <2>3. \/ got'[e] = got[e]
        \/ \E j \in 1 .. sent[x] : /\ \A g \in ToSet(got[e]) : g < j
                                   /\ got'[e] = Append(got[e], j)
    BY <2>1, <2>2, ReceiverRound, ZenonT(60)
  <2>4. Dir(b, x)'
    BY <2>1, <2>2, ReceiverRound, Zenon
  <2>5. (Heard(e) => Heard(e)')
    BY <2>1, <2>2, ReceiverRound, Zenon
  <2>. QED
    BY <2>3, <2>4, <2>5
<1>6. \/ confirmed'[e] = confirmed[e]
      \/ /\ confirmed'[e] = confirmed[e] \cup {sent[e]} /\ sent[e] \in 1 .. sent[e]
         /\ got[x] # <<>> /\ (sent[e] - Last(got[x])) % MaxSeq = 0
  BY <1>1, <1>2, <1>3, Confirms
<1>7. got'[x] = got[x] /\ confirmed'[x] = confirmed[x]
  BY <1>1, <1>2, <1>3 DEF TakesNothing, TakesAck, TakesData, Types
<1>8. Heard(x) => Heard(x)'
  BY <1>3, <1>7 DEF Heard
<1>9. Kept(e)
  BY <1>1, <1>3, <1>6, <1>7 DEF Kept
<1>10. Kept(x)
  BY <1>1, <1>3, <1>5, <1>7 DEF Kept
<1>11. (e = "gcs" /\ x = "board") \/ (e = "board" /\ x = "gcs")
  BY <1>1 DEF Ends
<1>. QED
  BY <1>2, <1>3, <1>4, <1>5, <1>8, <1>9, <1>10, <1>11 DEF Links

LEMMA TransmitLinks ==
  ASSUME NEW b \in [Ends -> 0 .. MaxSeq], Links(b), NEW e \in Ends, Heard(Peer(e)), Transmit(e)
  PROVE  /\ Links(b)' /\ (Heard("board") => Heard("board")') /\ Kept("gcs") /\ Kept("board")
         /\ sent'[Peer(e)] = sent[Peer(e)]
<1>1. PICK x \in Ends : x = Peer(e) /\ Peer(x) = e /\ x # e
  BY PeerFacts
<1>2. Types /\ Dir(b, e) /\ Dir(b, x) /\ Types' /\ Heard(x)
  BY <1>1, TransmitTypes DEF Links, Ends
<1>3. Dir(b, e)'
  BY <1>1, <1>2, SenderTransmit
<1>4. Dir(b, x)'
  BY <1>1, <1>2, ReceiverTransmit
<1>5. /\ UNCHANGED <<got, confirmed>> /\ sent'[e] = sent[e] + 1 /\ sent'[x] = sent[x]
      /\ port'[e].rxSeq = port[e].rxSeq /\ port'[x] = port[x]
  BY <1>1, <1>2, TransmitIs, TransmitTypes
<1>6. (Heard(e) => Heard(e)') /\ (Heard(x) => Heard(x)')
  BY <1>5 DEF Heard
<1>7. Kept(e) /\ Kept(x)
  BY <1>1, <1>5 DEF Kept
<1>8. (e = "gcs" /\ x = "board") \/ (e = "board" /\ x = "gcs")
  BY <1>1 DEF Ends
<1>. QED
  BY <1>1, <1>2, <1>3, <1>4, <1>5, <1>6, <1>7, <1>8 DEF Links

LEMMA LoseLinks ==
  ASSUME NEW b \in [Ends -> 0 .. MaxSeq], Links(b), NEW e \in Ends, Lose(e)
  PROVE  Links(b)'
<1>1. /\ line[e] # <<>> /\ line' = [line EXCEPT ![e] = Tail(@)]
      /\ UNCHANGED <<port, sent, got, confirmed>> /\ Types
  BY DEF Lose, Links
<1>2. line[e] \in Seq(Pkt)
  BY <1>1 DEF Types
<1>3. Tail(line[e]) \in Seq(Pkt) /\ Flow(line[e], Tail(line[e]), {})
  BY <1>1, <1>2, TailFlows
<1>4. PICK m \in Seq(Pkt) : m = Tail(line[e])
  BY <1>3
<1>5. line' = [line EXCEPT ![e] = m]
  BY <1>1, <1>4
<1>6. Types'
  BY <1>1, <1>5 DEF Types
<1>7. \A y \in Ends : Flow(line[y], line'[y], {})
  <2>1. ASSUME NEW y \in Ends PROVE Flow(line[y], line'[y], {})
    <3>1. CASE y = e
      <4>1. line'[e] = Tail(line[e])
        BY <1>1 DEF Types
      <4>. QED
        BY <1>3, <3>1, <4>1
    <3>2. CASE y # e
      <4>1. line'[y] = line[y] /\ line[y] \in Seq(Pkt)
        BY <1>1, <3>2 DEF Types
      <4>. QED
        BY <4>1, FlowSame
    <3>. QED
      BY <3>1, <3>2
  <2>. QED
    BY <2>1
<1>8. ASSUME NEW s \in Ends, Dir(b, s) PROVE Dir(b, s)'
  <2>1. PICK x \in Ends : x = Peer(s)
    BY PeerFacts
  <2>2. Flow(line[x], line'[x], {}) /\ Flow(line[s], line'[s], {})
    BY <1>7, <2>1
  <2>. QED
    <3>1. PICK U : U = {}
      OBVIOUS
    <3>2. /\ Flow(line[x], line'[x], {}) /\ Flow(line[s], line'[s], U)
          /\ \A k \in U : k.type # "ack"
      BY <2>2, <3>1
    <3>. QED
      BY <1>1, <1>6, <1>8, <2>1, <3>2, LessDir
<1>9. "gcs" \in Ends /\ "board" \in Ends
  BY DEF Ends
<1>10. Heard("gcs")'
  BY <1>1 DEF Links, Heard
<1>. QED
  BY <1>6, <1>8, <1>9, <1>10 DEF Links

LEMMA SameLinks ==
  ASSUME NEW b, Links(b), UNCHANGED ports
  PROVE  Links(b)' /\ (Heard("board")' <=> Heard("board")) /\ Kept("gcs") /\ Kept("board")
<1>1. UNCHANGED <<port, line, sent, got, confirmed>>
  BY DEF ports
<1>2. /\ Types' = Types /\ Heard("board")' = Heard("board") /\ Heard("gcs")' = Heard("gcs")
  BY <1>1 DEF Types, Heard
<1>3. ASSUME NEW s, Dir(b, s) PROVE Dir(b, s)'
  BY <1>1, <1>3 DEF Dir, DataLine, AckLine, AckBuf, DataBuf, InOrder, Above, GotOK, Expects,
       Counts, Datas, Acks, DataOK, AckOK, Answers, Recent, Heard, Ordered
<1>4. Kept("gcs") /\ Kept("board")
  BY <1>1 DEF Kept
<1>. QED
  BY <1>2, <1>3, <1>4 DEF Links

(* The invariant with a number base for either end; the station starts its *)
(* session with number 0.                                                  *)
SspInv == \E b \in [Ends -> 0 .. MaxSeq] : b["gcs"] = 0 /\ DInv(b)

LEMMA NextLinks ==
  ASSUME NEW b \in [Ends -> 0 .. MaxSeq], b["gcs"] = 0, DInv(b), ThreadRecord, [Next]_vars
  PROVE  DInv(b)' /\ Kept("gcs") /\ Kept("board")
<1>1. Links(b) /\ Opened /\ "gcs" \in Ends /\ "board" \in Ends /\ Peer("board") = "gcs"
  BY DEF Links, DInv, Opened, Ends, Peer
<1>2. ASSUME Links(b)', Opened' PROVE DInv(b)'
  BY <1>2 DEF Links, DInv
<1>3. CASE Start
  <2>1. DInv(b)' /\ UNCHANGED <<sent, got, confirmed>>
    BY <1>3, DirOfStart DEF DInv
  <2>. QED
    BY <2>1 DEF Kept
<1>4. ASSUME NEW in \in Inputs("gcs"), NEW expired \in BOOLEAN, SynchroniseRound(in, expired)
      PROVE  DInv(b)' /\ Kept("gcs") /\ Kept("board")
  <2>1. /\ thread.pc = "synchronising" /\ Round("gcs", in, expired)
        /\ thread' = Synchronised(SendStatus(Received("gcs", in), expired))
    BY <1>4 DEF SynchroniseRound
  <2>2. /\ Links(b)' /\ (Heard("board") => Heard("board")') /\ UNCHANGED sent
        /\ Kept("gcs") /\ Kept("board")
    BY <1>1, <2>1, RoundLinks
  <2>3. thread'.pc \in {"round", "handover"} =>
          SendStatus(Received("gcs", in), expired) = "ACKED"
    <3>1. PICK st : st = SendStatus(Received("gcs", in), expired)
      OBVIOUS
    <3>2. thread' = Synchronised(st) /\ thread.pc = "synchronising"
      BY <2>1, <3>1
    <3>3. CASE st = "WAITING"
      BY <3>2, <3>3 DEF Synchronised
    <3>4. CASE st # "WAITING" /\ st # "ACKED"
      <4>1. \/ thread' = [thread EXCEPT !.pc = "failed"]
            \/ thread' = [thread EXCEPT !.pc = "synchronise", !.tries = @ + 1]
        BY <3>2, <3>4 DEF Synchronised
      <4>. QED
        BY <4>1 DEF ThreadRecord
    <3>. QED
      BY <3>1, <3>3, <3>4
  <2>4. SendStatus(Received("gcs", in), expired) = "ACKED" => Heard("board")
    <3>. SUFFICES ASSUME SendStatus(Received("gcs", in), expired) = "ACKED"
                  PROVE  Heard("board")
      OBVIOUS
    <3>1. PICK k \in Pkt : TakesAck("gcs", k)
      BY <1>1, <2>1, RoundIs DEF Links
    <3>2. k \in Acks("gcs")
      <4>1. line["gcs"] \in Seq(Pkt)
        BY <1>1 DEF Links, Types
      <4>2. k \in ToSet(line["gcs"])
        BY <3>1, <4>1, TailFlows DEF TakesAck
      <4>. QED
        BY <3>1, <4>2 DEF TakesAck, Acks
    <3>3. AckOK(b, "gcs", k) /\ sent["gcs"] = 0 /\ k.load \in Nat
      BY <1>1, <2>1, <3>2, TypeFacts DEF Links, Dir, AckLine, Opened
    <3>4. k.load = 0
      BY <3>3 DEF AckOK
    <3>. QED
      BY <1>1, <3>3, <3>4, PeerFacts DEF AckOK, Peer
  <2>5. Opened'
    <3>1. sent'["gcs"] = 0
      BY <1>1, <2>1, <2>2, TypeFacts DEF Opened, Links
    <3>2. Heard("gcs")'
      BY <2>2 DEF Links
    <3>. QED
      BY <2>2, <2>3, <2>4, <3>1, <3>2 DEF Opened
  <2>. QED
    BY <1>2, <2>2, <2>5
<1>5. ASSUME NEW in \in Inputs("gcs"), NEW expired \in BOOLEAN, ThreadRound(in, expired)
      PROVE  DInv(b)' /\ Kept("gcs") /\ Kept("board")
  <2>1. thread.pc = "round" /\ Round("gcs", in, expired)
    BY <1>5 DEF ThreadRound
  <2>2. thread'.pc = "handover" \/ thread' .pc = thread.pc
    BY <1>5 DEF ThreadRound
  <2>3. /\ Links(b)' /\ (Heard("board") => Heard("board")') /\ UNCHANGED sent
        /\ Kept("gcs") /\ Kept("board")
    BY <1>1, <2>1, RoundLinks
  <2>4. Opened'
    BY <1>1, <2>1, <2>2, <2>3 DEF Opened, Links
  <2>. QED
    BY <1>2, <2>3, <2>4
<1>6. CASE ThreadHandOver
  <2>1. /\ thread.pc = "handover" /\ Heard("board")
        /\ thread' = [thread EXCEPT !.pc = "round", !.idle = FALSE, !.acked = FALSE]
    BY <1>1, <1>6 DEF ThreadHandOver, Opened
  <2>2. thread'.pc \in {"round", "handover"}
    BY <2>1
  <2>3. Transmit("gcs") \/ UNCHANGED ports
    BY <1>6 DEF ThreadHandOver, HandOver, ports
  <2>4. Links(b)' /\ Heard("board")' /\ Kept("gcs") /\ Kept("board")
    <3>1. CASE Transmit("gcs")
      <4>1. Heard(Peer("gcs"))
        BY <2>1 DEF Peer
      <4>. QED
        BY <1>1, <2>1, <3>1, <4>1, TransmitLinks
    <3>2. CASE UNCHANGED ports
      BY <1>1, <2>1, <3>2, SameLinks
    <3>. QED
      BY <2>3, <3>1, <3>2
  <2>5. Opened'
    BY <2>2, <2>4 DEF Opened, Links
  <2>. QED
    BY <1>2, <2>4, <2>5
<1>7. ASSUME NEW in \in Inputs("board"), NEW expired \in BOOLEAN, BoardRound(in, expired)
      PROVE  DInv(b)' /\ Kept("gcs") /\ Kept("board")
  <2>1. Round("board", in, expired) /\ UNCHANGED thread
    BY <1>7 DEF BoardRound
  <2>2. /\ Links(b)' /\ (Heard("board") => Heard("board")') /\ UNCHANGED sent
        /\ Kept("gcs") /\ Kept("board")
    BY <1>1, <2>1, RoundLinks
  <2>3. Opened'
    BY <1>1, <2>1, <2>2 DEF Opened, Links
  <2>. QED
    BY <1>2, <2>2, <2>3
<1>8. ASSUME UNCHANGED ports, UNCHANGED thread
      PROVE  DInv(b)' /\ Kept("gcs") /\ Kept("board")
  <2>1. /\ Links(b)' /\ (Heard("board")' <=> Heard("board")) /\ Kept("gcs") /\ Kept("board")
    BY <1>1, <1>8, SameLinks
  <2>2. Opened'
    BY <1>1, <1>8, <2>1 DEF Opened, Links, ports
  <2>. QED
    BY <1>2, <2>1, <2>2
<1>9. ASSUME NEW e \in Ends, Lose(e) PROVE DInv(b)' /\ Kept("gcs") /\ Kept("board")
  <2>1. UNCHANGED <<port, sent, got, confirmed, thread>>
    BY <1>9 DEF Lose
  <2>2. Links(b)'
    BY <1>1, <1>9, LoseLinks
  <2>3. Opened'
    BY <1>1, <2>1 DEF Opened, Heard
  <2>4. Kept("gcs") /\ Kept("board")
    BY <2>1 DEF Kept
  <2>. QED
    BY <1>2, <2>2, <2>3, <2>4
<1>10. CASE CallSendData \/ Wait \/ WaitTimeout \/ UNCHANGED vars
  BY <1>8, <1>10 DEF CallSendData, Wait, WaitTimeout, vars, ports
<1>11. CASE BoardSend
  <2>1. Transmit("board") /\ UNCHANGED thread /\ Heard(Peer("board"))
    BY <1>1, <1>11 DEF BoardSend, Links
  <2>2. /\ Links(b)' /\ (Heard("board") => Heard("board")') /\ Kept("gcs") /\ Kept("board")
        /\ sent'["gcs"] = sent["gcs"]
    BY <1>1, <2>1, TransmitLinks
  <2>3. Opened'
    BY <1>1, <2>1, <2>2 DEF Opened, Links
  <2>. QED
    BY <1>2, <2>2, <2>3
<1>. QED
  BY <1>3, <1>4, <1>5, <1>6, <1>7, <1>9, <1>10, <1>11 DEF Next, Stations, Board

LEMMA InitLinks == Init => SspInv
<1>. SUFFICES ASSUME Init PROVE SspInv
  OBVIOUS
<1>1. PICK n \in Earlier :
        port = [e \in Ends |-> IF e = "gcs" THEN PortInit
                               ELSE [PortInit EXCEPT !.rxSeq = n[1], !.txSeq = n[2]]]
  BY DEF Init
<1>2. /\ line = [e \in Ends |-> <<>>] /\ sent = [e \in Ends |-> 0]
      /\ got = [e \in Ends |-> <<>>] /\ confirmed = [e \in Ends |-> {}]
      /\ thread.pc = "synchronise"
  BY DEF Init
<1>3. "gcs" \in Ends /\ "board" \in Ends /\ Peer("gcs") = "board" /\ Peer("board") = "gcs"
  BY DEF Ends, Peer
<1>4. PICK r \in 0 .. MaxSeq, t \in 0 .. MaxSeq : r = n[1] /\ t = n[2]
  BY ThreadAssumption
<1>5. 0 \in 0 .. MaxSeq /\ 0 \in 0 .. MaxRetry
  BY SspAssumption
<1>6. Synch \in Pkt /\ Synch.type = "data" /\ Synch.load = 0
  BY PacketFacts
<1>7. /\ port["gcs"] = [state |-> "IDLE", txSeq |-> 0, rxSeq |-> 0, retry |-> 0, txBuf |-> Synch]
      /\ port["board"] = [state |-> "IDLE", txSeq |-> t, rxSeq |-> r, retry |-> 0, txBuf |-> Synch]
  <2>1. port["gcs"] = PortInit
    BY <1>1, <1>3
  <2>2. port["board"] = [PortInit EXCEPT !.rxSeq = r, !.txSeq = t]
    BY <1>1, <1>3, <1>4
  <2>3. PICK a : a = [PortInit EXCEPT !.rxSeq = r]
    OBVIOUS
  <2>4. a = [state |-> "IDLE", txSeq |-> 0, rxSeq |-> r, retry |-> 0, txBuf |-> Synch]
    BY <2>3 DEF PortInit
  <2>5. [a EXCEPT !.txSeq = t] = [state |-> "IDLE", txSeq |-> t, rxSeq |-> r, retry |-> 0,
                                  txBuf |-> Synch]
    BY <2>4
  <2>6. [PortInit EXCEPT !.rxSeq = r, !.txSeq = t] = [a EXCEPT !.txSeq = t]
    BY <2>3, Zenon
  <2>. QED
    BY <2>1, <2>2, <2>5, <2>6 DEF PortInit
<1>8. port["gcs"] \in PortT /\ port["board"] \in PortT
  BY <1>5, <1>6, <1>7, PortMade
<1>9. /\ \A e \in Ends : /\ port[e].state = "IDLE" /\ port[e].txBuf = Synch
                          /\ line[e] = <<>> /\ sent[e] = 0 /\ got[e] = <<>> /\ confirmed[e] = {}
      /\ port["gcs"].rxSeq = 0 /\ port["gcs"].txSeq = 0 /\ port["board"].txSeq = t
  BY <1>2, <1>7 DEF Ends
<1>10. Types
  <2>1. port \in [Ends -> PortT]
    <3>1. \A e \in Ends : port[e] \in PortT
      BY <1>8 DEF Ends
    <3>2. port = [e \in Ends |-> port[e]]
      BY <1>1
    <3>. QED
      BY <3>1, <3>2
  <2>2. line \in [Ends -> Seq(Pkt)] /\ got \in [Ends -> Seq(Nat)]
    <3>1. <<>> \in Seq(Pkt) /\ <<>> \in Seq(Nat)
      BY EmptySeq
    <3>. QED
      BY <1>2, <3>1
  <2>3. sent \in [Ends -> Nat] /\ confirmed \in [Ends -> SUBSET Nat]
    BY <1>2
  <2>4. \A e \in Ends : port[e].state # "ACKED"
    BY <1>9
  <2>. QED
    BY <2>1, <2>2, <2>3, <2>4 DEF Types
<1>11. PICK b \in [Ends -> 0 .. MaxSeq] : b = [e \in Ends |-> port[e].txSeq]
  <2>1. \A e \in Ends : port[e].txSeq \in 0 .. MaxSeq
    BY <1>5, <1>7, <1>9 DEF Ends
  <2>. QED
    BY <2>1
<1>12. ASSUME NEW s \in Ends PROVE Dir(b, s)
  <2>1. PICK x \in Ends : x = Peer(s)
    BY PeerFacts
  <2>2. Datas(s) = {} /\ Acks(s) = {} /\ ToSet(got[x]) = {} /\ Len(line[x]) = 0
    BY <1>9, <2>1 DEF Datas, Acks, ToSet
  <2>3. DataLine(b, s) /\ AckLine(b, s) /\ Above(s) /\ GotOK(s)
    BY <2>1, <2>2 DEF DataLine, AckLine, Above, GotOK
  <2>4. AckBuf(b, s) /\ DataBuf(b, s)
    BY <1>6, <1>9, <2>1 DEF AckBuf, DataBuf
  <2>5. InOrder(s)
    BY <2>1, <2>2 DEF InOrder, Ordered
  <2>6. Expects(b, s)
    BY <1>9, <2>1 DEF Expects
  <2>7. Counts(b, s)
    <3>1. b[s] \in 0 .. MaxSeq /\ b[s] = port[s].txSeq
      BY <1>11
    <3>2. Numbered(b[s], 0, b[s])
      BY <3>1, FirstNumber
    <3>. QED
      BY <1>9, <3>1, <3>2 DEF Counts
  <2>. QED
    BY <2>3, <2>4, <2>5, <2>6, <2>7 DEF Dir
<1>13. Opened
  BY <1>2, <1>3, <1>9 DEF Opened, Heard
<1>. QED
  BY <1>3, <1>9, <1>10, <1>11, <1>12, <1>13 DEF SspInv, DInv

LEMMA NextSsp ==
  ASSUME SspInv, EarlyInv, [Next]_vars
  PROVE  SspInv' /\ Kept("gcs") /\ Kept("board")
<1>1. PICK b \in [Ends -> 0 .. MaxSeq] : b["gcs"] = 0 /\ DInv(b)
  BY DEF SspInv
<1>2. DInv(b)' /\ Kept("gcs") /\ Kept("board")
  BY <1>1, NextLinks DEF EarlyInv
<1>. QED
  BY <1>1, <1>2 DEF SspInv

LEMMA KeptIsDelivery ==
  /\ Kept("gcs") => [ToBoard!Next]_(ToBoard!vars)
  /\ Kept("board") => [ToStation!Next]_(ToStation!vars)
<1>1. Peer("gcs") = "board" /\ Peer("board") = "gcs"
  BY DEF Peer
<1>2. ASSUME Kept("gcs") PROVE [ToBoard!Next]_(ToBoard!vars)
  <2>1. CASE UNCHANGED <<sent["gcs"], got["board"], confirmed["gcs"]>>
    BY <2>1 DEF ToBoard!vars
  <2>2. CASE sent'["gcs"] = sent["gcs"] + 1 /\ UNCHANGED <<got["board"], confirmed["gcs"]>>
    BY <2>2 DEF ToBoard!Next, ToBoard!Send
  <2>3. ASSUME NEW i \in 1 .. sent["gcs"], \A j \in ToSet(got["board"]) : j < i,
               got'["board"] = Append(got["board"], i),
               UNCHANGED <<sent["gcs"], confirmed["gcs"]>>
        PROVE  ToBoard!Next
    <3>1. ToBoard!Arrive(i)
      BY <2>3 DEF ToBoard!Arrive, ToBoard!ToSet, ToSet
    <3>. QED
      BY <3>1 DEF ToBoard!Next
  <2>4. ASSUME sent["gcs"] \in 1 .. sent["gcs"], got["board"] # <<>>,
               (sent["gcs"] - Last(got["board"])) % MaxSeq = 0,
               confirmed'["gcs"] = confirmed["gcs"] \cup {sent["gcs"]},
               UNCHANGED <<sent["gcs"], got["board"]>>
        PROVE  ToBoard!Next
    <3>1. ToBoard!Confirm(sent["gcs"])
      BY <2>4 DEF ToBoard!Confirm, ToBoard!Mistakable, ToBoard!Last, Last
    <3>. QED
      BY <2>4, <3>1 DEF ToBoard!Next
  <2>. QED
    BY <1>1, <1>2, <2>1, <2>2, <2>3, <2>4 DEF Kept
<1>3. ASSUME Kept("board") PROVE [ToStation!Next]_(ToStation!vars)
  <2>1. CASE UNCHANGED <<sent["board"], got["gcs"], confirmed["board"]>>
    BY <2>1 DEF ToStation!vars
  <2>2. CASE sent'["board"] = sent["board"] + 1 /\ UNCHANGED <<got["gcs"], confirmed["board"]>>
    BY <2>2 DEF ToStation!Next, ToStation!Send
  <2>3. ASSUME NEW i \in 1 .. sent["board"], \A j \in ToSet(got["gcs"]) : j < i,
               got'["gcs"] = Append(got["gcs"], i),
               UNCHANGED <<sent["board"], confirmed["board"]>>
        PROVE  ToStation!Next
    <3>1. ToStation!Arrive(i)
      BY <2>3 DEF ToStation!Arrive, ToStation!ToSet, ToSet
    <3>. QED
      BY <3>1 DEF ToStation!Next
  <2>4. ASSUME sent["board"] \in 1 .. sent["board"], got["gcs"] # <<>>,
               (sent["board"] - Last(got["gcs"])) % MaxSeq = 0,
               confirmed'["board"] = confirmed["board"] \cup {sent["board"]},
               UNCHANGED <<sent["board"], got["gcs"]>>
        PROVE  ToStation!Next
    <3>1. ToStation!Confirm(sent["board"])
      BY <2>4 DEF ToStation!Confirm, ToStation!Mistakable, ToStation!Last, Last
    <3>. QED
      BY <2>4, <3>1 DEF ToStation!Next
  <2>. QED
    BY <1>1, <1>3, <2>1, <2>2, <2>3, <2>4 DEF Kept
<1>. QED
  BY <1>2, <1>3

(* Whatever the line loses, however the timers run and wherever the other  *)
(* end's last session stopped, packets are delivered in order and once,    *)
(* and what is reported acknowledged has arrived, or cannot be told from   *)
(* the last packet that did.                                               *)
THEOREM DeliveryImplemented == Spec => ImplementsDelivery
<1>1. Init => SspInv /\ EarlyInv
  BY InitLinks, InitEarly
<1>2. SspInv /\ EarlyInv /\ [Next]_vars => SspInv' /\ EarlyInv'
  BY NextSsp, NextEarly
<1>3. Init => ToBoard!Init /\ ToStation!Init
  BY DEF Init, ToBoard!Init, ToStation!Init, Ends
<1>4. SspInv /\ EarlyInv /\ [Next]_vars =>
        [ToBoard!Next]_(ToBoard!vars) /\ [ToStation!Next]_(ToStation!vars)
  BY NextSsp, KeptIsDelivery
<1>. QED
  BY <1>1, <1>2, <1>3, <1>4, PTL DEF Spec, ImplementsDelivery, ToBoard!Spec, ToStation!Spec

-----------------------------------------------------------------------------
(* The type of every variable.  The loads are bounded by what was sent, and *)
(* that by the calls of the uploader and the replies of the bootloader.    *)
ThreadT == [pc : {"synchronise", "synchronising", "round", "handover", "failed"},
            tries : 0 .. MaxSync, idle : BOOLEAN, acked : BOOLEAN]

BoundInv == /\ thread \in ThreadT /\ caller \in {"out", "entered", "waiting"}
            /\ calls <= MaxCalls /\ sent["board"] <= MaxReplies
            /\ \A e \in Ends : Len(line[e]) <= MaxLine

LEMMA ThreadFields ==
  ASSUME NEW t \in ThreadT
  PROVE  /\ t = [pc |-> t.pc, tries |-> t.tries, idle |-> t.idle, acked |-> t.acked]
         /\ t.pc \in {"synchronise", "synchronising", "round", "handover", "failed"}
         /\ t.tries \in 0 .. MaxSync /\ t.idle \in BOOLEAN /\ t.acked \in BOOLEAN
BY DEF ThreadT

LEMMA LineBounds ==
  ASSUME Types, \A y \in Ends : Len(line[y]) <= MaxLine, NEW e \in Ends,
         \/ \E in \in Inputs(e), expired \in BOOLEAN : Round(e, in, expired)
         \/ Transmit(e) \/ Lose(e)
  PROVE  \A y \in Ends : Len(line'[y]) <= MaxLine
<1>1. PICK x \in Ends : x = Peer(e) /\ x # e /\ \A y \in Ends : y = e \/ y = x
  BY PeerFacts
<1>2. PICK l \in Seq(Pkt) : l = line[e]
  BY DEF Types
<1>3. Len(l) \in Nat /\ MaxLine \in Nat /\ Len(l) <= MaxLine
  BY <1>2, LenProperties, ThreadAssumption
<1>4. l # <<>> => Len(Tail(l)) <= MaxLine
  <2>1. l # <<>> => Len(Tail(l)) = Len(l) - 1
    BY HeadTailProperties
  <2>. QED
    BY <1>3, <2>1
<1>5. ASSUME NEW in \in Inputs(e), NEW expired \in BOOLEAN, Round(e, in, expired)
      PROVE  Len(line'[e]) <= MaxLine /\ Len(line'[x]) <= MaxLine
  <2>1. /\ TakesNothing(e) \/ \E k \in Pkt : TakesAck(e, k) \/ TakesData(e, k)
        /\ Len(line'[x]) <= MaxLine
    BY <1>1, <1>5, RoundIs
  <2>2. line'[e] = line[e] \/ (line[e] # <<>> /\ line'[e] = Tail(line[e]))
    BY <2>1 DEF TakesNothing, TakesAck, TakesData
  <2>. QED
    BY <1>2, <1>3, <1>4, <2>1, <2>2
<1>6. CASE Transmit(e)
  <2>1. Len(line'[x]) <= MaxLine /\ Len(line'[e]) <= Len(line[e])
    BY <1>1, <1>6, TransmitFlows
  <2>2. Len(line'[e]) \in Nat
    <3>1. line'[e] \in Seq(Pkt)
      BY <1>6, TransmitIs
    <3>. QED
      BY <3>1, LenProperties
  <2>. QED
    BY <1>1, <1>2, <1>3, <2>1, <2>2
<1>7. CASE Lose(e)
  <2>1. line[e] # <<>> /\ line'[e] = Tail(line[e]) /\ line'[x] = line[x]
    BY <1>1, <1>7 DEF Lose, Types
  <2>. QED
    BY <1>1, <1>2, <1>4, <2>1
<1>. QED
  BY <1>1, <1>5, <1>6, <1>7

LEMMA InitBounds == Init => BoundInv
<1>. SUFFICES ASSUME Init PROVE BoundInv
  OBVIOUS
<1>1. MaxLine \in Nat /\ MaxReplies \in Nat /\ MaxCalls \in Nat /\ MaxSync \in Nat
  BY ThreadAssumption
<1>2. 0 \in 0 .. MaxSync
  BY <1>1
<1>3. thread \in ThreadT
  BY <1>2 DEF Init, ThreadT
<1>4. \A e \in Ends : Len(line[e]) <= MaxLine
  <2>1. \A e \in Ends : Len(line[e]) = 0
    BY DEF Init
  <2>. QED
    BY <1>1, <2>1
<1>5. sent["board"] = 0 /\ calls = 0 /\ caller = "out"
  BY DEF Init, Ends
<1>. QED
  BY <1>1, <1>3, <1>4, <1>5 DEF BoundInv

LEMMA NextBounds ==
  ASSUME Types, BoundInv, CountInv, [Next]_vars
  PROVE  BoundInv'
<1>1. /\ thread \in ThreadT /\ caller \in {"out", "entered", "waiting"}
      /\ calls <= MaxCalls /\ sent["board"] <= MaxReplies
      /\ \A e \in Ends : Len(line[e]) <= MaxLine
      /\ "gcs" \in Ends /\ "board" \in Ends /\ Peer("gcs") = "board" /\ Peer("board") = "gcs"
      /\ calls \in Nat /\ MaxCalls \in Nat /\ MaxReplies \in Nat /\ sent["board"] \in Nat
      /\ MaxSync \in Nat
  BY ThreadAssumption DEF BoundInv, Ends, Peer, CountInv, Counters
<1>2. ASSUME NEW e \in Ends,
             \/ \E in \in Inputs(e), expired \in BOOLEAN : Round(e, in, expired)
             \/ Transmit(e) \/ Lose(e)
      PROVE  \A y \in Ends : Len(line'[y]) <= MaxLine
  BY <1>1, <1>2, LineBounds
<1>3. CASE Start
  <2>1. thread' = [thread EXCEPT !.pc = "synchronising"] /\ UNCHANGED <<sent, calls, caller>>
    BY <1>3 DEF Start, user
  <2>2. thread' \in ThreadT
    BY <1>1, <2>1 DEF ThreadT
  <2>3. \A y \in Ends : Len(line'[y]) <= MaxLine
    <3>1. line["board"] \in Seq(Pkt) /\ <<Synch>> \in Seq(Pkt)
      BY <1>1, PacketFacts DEF Types
    <3>2. Len(Put(line["board"], <<Synch>>)) <= MaxLine
      BY <3>1, PutFlows
    <3>3. line' = [line EXCEPT !["board"] = Put(@, <<Synch>>)]
      BY <1>3 DEF Start
    <3>4. line'["board"] = Put(line["board"], <<Synch>>) /\ line'["gcs"] = line["gcs"]
      BY <1>1, <3>3 DEF Types
    <3>. QED
      BY <1>1, <3>2, <3>4 DEF Ends
  <2>. QED
    BY <1>1, <2>1, <2>2, <2>3 DEF BoundInv
<1>4. ASSUME NEW in \in Inputs("gcs"), NEW expired \in BOOLEAN, SynchroniseRound(in, expired)
      PROVE  BoundInv'
  <2>1. Round("gcs", in, expired) /\ UNCHANGED <<sent, calls, caller>>
    BY <1>4 DEF SynchroniseRound, Round, user
  <2>2. thread' \in ThreadT
    <3>1. PICK st : st = SendStatus(Received("gcs", in), expired)
      OBVIOUS
    <3>2. thread' = Synchronised(st)
      BY <1>4, <3>1 DEF SynchroniseRound
    <3>3. CASE st = "WAITING"
      BY <1>1, <3>2, <3>3 DEF Synchronised
    <3>4. CASE st # "WAITING" /\ thread.tries = MaxSync
      <4>1. thread' = [thread EXCEPT !.pc = "failed"]
        BY <1>1, <3>2, <3>4 DEF Synchronised
      <4>. QED
        BY <1>1, <4>1 DEF ThreadT
    <3>5. CASE st # "WAITING" /\ thread.tries # MaxSync /\ st = "ACKED" /\ thread.tries < MaxSync
      <4>1. thread' = [thread EXCEPT !.pc = "round"]
        BY <3>2, <3>5 DEF Synchronised
      <4>. QED
        BY <1>1, <4>1 DEF ThreadT
    <3>6. CASE /\ st # "WAITING" /\ thread.tries # MaxSync
               /\ ~(st = "ACKED" /\ thread.tries < MaxSync)
      <4>1. PICK n \in 0 .. MaxSync : n = thread.tries + 1
        BY <1>1, <3>6, ThreadFields
      <4>2. thread' = [thread EXCEPT !.pc = "synchronise", !.tries = n]
        BY <3>2, <3>6, <4>1 DEF Synchronised
      <4>. QED
        BY <1>1, <4>2 DEF ThreadT
    <3>. QED
      BY <3>3, <3>4, <3>5, <3>6
  <2>. QED
    BY <1>1, <1>2, <2>1, <2>2 DEF BoundInv
<1>5. ASSUME NEW in \in Inputs("gcs"), NEW expired \in BOOLEAN, ThreadRound(in, expired)
      PROVE  BoundInv'
  <2>1. Round("gcs", in, expired) /\ UNCHANGED <<sent, calls, caller>>
    BY <1>5 DEF ThreadRound, Round, user
  <2>2. PICK part \in BOOLEAN :
          thread' = [thread EXCEPT !.pc = "handover", !.idle = in = <<>> /\ ~part,
                       !.acked = SendStatus(Received("gcs", in), expired) = "ACKED"]
    BY <1>5 DEF ThreadRound
  <2>3. PICK i \in BOOLEAN, a \in BOOLEAN :
          /\ i = (in = <<>> /\ ~part)
          /\ a = (SendStatus(Received("gcs", in), expired) = "ACKED")
    OBVIOUS
  <2>4. thread' = [thread EXCEPT !.pc = "handover", !.idle = i, !.acked = a]
    BY <2>2, <2>3
  <2>5. thread' \in ThreadT
    BY <1>1, <2>4 DEF ThreadT
  <2>. QED
    BY <1>1, <1>2, <2>1, <2>5 DEF BoundInv
<1>6. CASE ThreadHandOver
  <2>1. /\ thread' = [thread EXCEPT !.pc = "round", !.idle = FALSE, !.acked = FALSE]
        /\ caller' \in {"out", caller} /\ UNCHANGED calls
    BY <1>6 DEF ThreadHandOver, Return
  <2>2. thread' \in ThreadT
    BY <1>1, <2>1 DEF ThreadT
  <2>3. Transmit("gcs") \/ UNCHANGED <<line, sent>>
    BY <1>6 DEF ThreadHandOver, HandOver, ports
  <2>4. sent'["board"] = sent["board"] /\ \A y \in Ends : Len(line'[y]) <= MaxLine
    BY <1>1, <1>2, <2>3, TransmitTypes
  <2>. QED
    BY <1>1, <2>1, <2>2, <2>4 DEF BoundInv
<1>7. ASSUME NEW in \in Inputs("board"), NEW expired \in BOOLEAN, BoardRound(in, expired)
      PROVE  BoundInv'
  <2>1. Round("board", in, expired) /\ UNCHANGED <<sent, thread, calls, caller>>
    BY <1>7 DEF BoardRound, Round, user
  <2>. QED
    BY <1>1, <1>2, <2>1 DEF BoundInv
<1>8. CASE BoardSend
  <2>1. Transmit("board") /\ UNCHANGED <<thread, calls, caller>> /\ sent["board"] < MaxReplies
    BY <1>8 DEF BoardSend, user
  <2>2. sent'["board"] = sent["board"] + 1
    BY <1>1, <2>1, TransmitTypes
  <2>. QED
    BY <1>1, <1>2, <2>1, <2>2 DEF BoundInv
<1>9. CASE CallSendData
  <2>1. /\ UNCHANGED <<line, sent, thread>> /\ calls' = calls + 1 /\ calls < MaxCalls
        /\ caller' = "entered"
    BY <1>9 DEF CallSendData, ports
  <2>. QED
    BY <1>1, <2>1 DEF BoundInv
<1>10. CASE Wait \/ WaitTimeout \/ UNCHANGED vars
  <2>1. UNCHANGED <<line, sent, thread, calls>> /\ caller' \in {"waiting", "out", caller}
    BY <1>10 DEF Wait, WaitTimeout, Return, ports, vars
  <2>. QED
    BY <1>1, <2>1 DEF BoundInv
<1>11. ASSUME NEW e \in Ends, Lose(e) PROVE BoundInv'
  <2>1. UNCHANGED <<sent, thread, calls, caller>>
    BY <1>11 DEF Lose, user
  <2>. QED
    BY <1>1, <1>2, <1>11, <2>1 DEF BoundInv
<1>. QED
  BY <1>3, <1>4, <1>5, <1>6, <1>7, <1>8, <1>9, <1>10, <1>11 DEF Next, Stations, Board

LEMMA TypesFollow ==
  ASSUME SspInv, EarlyInv, CountInv, BoundInv
  PROVE  TypeOK
<1>1. PICK b \in [Ends -> 0 .. MaxSeq] : Types /\ Dir(b, "gcs") /\ Dir(b, "board")
  BY DEF SspInv, DInv
<1>2. \A e \in Ends : Dir(b, e)
  BY <1>1 DEF Ends
<1>3. /\ MaxCalls \in Nat /\ MaxReplies \in Nat /\ "gcs" \in Ends /\ "board" \in Ends
      /\ calls \in Nat /\ refused \in Nat /\ sent["gcs"] \in Nat /\ sent["board"] \in Nat
      /\ calls <= MaxCalls /\ sent["board"] <= MaxReplies
  BY <1>1, ThreadAssumption DEF CountInv, Counters, BoundInv, Ends, Types
<1>4. calls = sent["gcs"] + refused + Pending /\ Pending \in Nat
  BY DEF CountInv, Balance, Pending
<1>5. refused \in 0 .. MaxCalls /\ calls \in 0 .. MaxCalls /\ sent["gcs"] <= MaxCalls
  BY <1>3, <1>4
<1>6. \A e \in Ends : sent[e] \in 0 .. MaxCalls + MaxReplies
  BY <1>3, <1>5 DEF Ends
<1>7. ASSUME NEW e \in Ends
      PROVE  port[e] \in Ports
  <2>1. PICK p \in PortT : p = port[e]
    BY <1>1 DEF Types
  <2>2. PICK k \in Pkt : k = p.txBuf
    BY PortFields
  <2>3. PICK x \in Ends : x = Peer(e) /\ Peer(x) = e
    BY PeerFacts
  <2>4. k.load <= sent[e] \/ k.load <= sent[x]
    <3>1. k.load \in Nat /\ k.type \in {"data", "ack"} /\ sent[e] \in Nat
      BY <1>1 DEF Pkt, Types
    <3>2. k.type = "data" => k.load = sent[e]
      BY <1>2, <2>1, <2>2 DEF Dir, DataBuf
    <3>3. k.type = "ack" => k.load <= sent[x]
      BY <1>2, <2>1, <2>2, <2>3 DEF Dir, AckBuf, AckOK
    <3>. QED
      BY <3>1, <3>2, <3>3
  <2>5. k.load \in 0 .. MaxCalls + MaxReplies
    <3>1. k.load \in Nat /\ sent[e] \in 0 .. MaxCalls + MaxReplies
          /\ sent[x] \in 0 .. MaxCalls + MaxReplies
      BY <1>6 DEF Pkt
    <3>. QED
      BY <1>3, <2>4, <3>1
  <2>6. k \in [type : {"data", "ack"}, seq : 0 .. MaxSeq, load : 0 .. MaxCalls + MaxReplies]
    BY <2>5 DEF Pkt
  <2>. QED
    BY <2>1, <2>2, <2>6 DEF PortT, Ports
<1>8. port \in [Ends -> Ports] /\ \A e \in Ends : port[e].state # "ACKED"
  BY <1>1, <1>7 DEF Types
<1>9. ASSUME NEW e \in Ends
      PROVE  /\ Len(line[e]) <= MaxLine /\ sent[e] \in 0 .. MaxCalls + MaxReplies
             /\ ToSet(got[e]) \subseteq 1 .. sent[Peer(e)]
             /\ confirmed[e] \subseteq 0 .. sent[e]
  <2>1. Peer(e) \in Ends /\ Peer(Peer(e)) = e
    BY PeerFacts
  <2>2. ToSet(got[e]) \subseteq 1 .. sent[Peer(e)]
    BY <1>2, <2>1 DEF Dir, GotOK
  <2>3. confirmed[e] \subseteq 1 .. sent[e]
    BY <1>2 DEF Dir, Counts
  <2>. QED
    BY <1>6, <2>2, <2>3 DEF BoundInv
<1>10. /\ thread.pc \in {"synchronise", "synchronising", "round", "handover", "failed"}
       /\ thread.tries \in 0 .. MaxSync /\ thread.idle \in BOOLEAN /\ thread.acked \in BOOLEAN
       /\ caller \in {"out", "entered", "waiting"}
  BY ThreadFields DEF BoundInv
<1>11. datapending \in BOOLEAN /\ early \in BOOLEAN
  BY DEF EarlyInv
<1>. QED
  BY <1>5, <1>8, <1>9, <1>10, <1>11 DEF TypeOK

(* No packet that an end holds, received or reported acknowledged was      *)
(* never sent, and no acknowledge stays unreported after a round.          *)
THEOREM SspTypes == Spec => []TypeOK
<1>1. Init => SspInv /\ EarlyInv /\ CountInv /\ BoundInv
  BY InitLinks, InitEarly, InitCount, InitBounds
<1>2. SspInv /\ EarlyInv /\ CountInv /\ BoundInv /\ [Next]_vars =>
        SspInv' /\ EarlyInv' /\ CountInv' /\ BoundInv'
  <2>1. SspInv => Types
    BY DEF SspInv, DInv
  <2>. QED
    BY <2>1, NextSsp, NextEarly, NextCount, NextBounds
<1>3. SspInv /\ EarlyInv /\ CountInv /\ BoundInv => TypeOK
  BY TypesFollow
<1>. QED
  BY <1>1, <1>2, <1>3, PTL DEF Spec
=============================================================================
