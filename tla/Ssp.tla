--------------------------------- MODULE Ssp ---------------------------------
(***************************************************************************)
(* The port of the Simple Serial Protocol (uploader/SSP/qssp.cpp): stop and *)
(* wait, with a number per packet, an acknowledge per packet and a bounded *)
(* number of transmissions.  The operators give the port after a step and  *)
(* what it writes to the line; SspThread runs them at the two ends.        *)
(*                                                                         *)
(* A packet that passes the checksum is one the other end has sent: the    *)
(* byte level (escapes, length, CRC) only ever loses packets.              *)
(***************************************************************************)
EXTENDS Integers, Sequences

CONSTANTS MaxSeq,           \* the last number before the roll-over, 0x7F
          MaxRetry          \* transmissions of one packet (port.h, max_retry)

ASSUME SspAssumption == MaxSeq \in Nat \ {0} /\ MaxRetry \in Nat \ {0}

-----------------------------------------------------------------------------
(* Packets.  load is the data of a data packet; an acknowledge carries none *)
(* (load tells which packet it answers, and no step reads it).             *)
Data(s, d) == [type |-> "data", seq |-> s, load |-> d]
Synch      == Data(0, 0)
Ack(k)     == [k EXCEPT !.type = "ack"]

\* The port keeps one transmit buffer for data and acknowledges alike.
PortInit == [state |-> "IDLE", txSeq |-> 0, rxSeq |-> 0, retry |-> 0,
             txBuf |-> Synch]

NextSeq(s) == IF s = MaxSeq THEN 1 ELSE s + 1

\* sf_SendPacket counts every transmission, of acknowledges too.  Only
\* retry < MaxRetry is ever read, so the count saturates there.
SendPacket(p) ==
  [p EXCEPT !.retry = IF @ < MaxRetry THEN @ + 1 ELSE @]

-----------------------------------------------------------------------------
(* Sending: only an idle port takes a packet.                              *)
Idle(p) == p.state = "IDLE"

SendData(p, d) ==
  LET s == NextSeq(p.txSeq)
  IN  SendPacket([p EXCEPT !.state = "AWAITING_ACK", !.txSeq = s, !.retry = 0,
                           !.txBuf = Data(s, d)])

\* A request to the other end to forget the number it received last.  The
\* count of transmissions is not reset.
Synchronise(p) ==
  SendPacket([p EXCEPT !.state = "AWAITING_ACK", !.txSeq = 0, !.txBuf = Synch])

(* The periodic step.  expired: the time of the last transmission is over. *)
TriesLeft(p) == p.retry < MaxRetry

Resends(p, expired) == p.state = "AWAITING_ACK" /\ expired /\ TriesLeft(p)

GivesUp(p, expired) == p.state = "AWAITING_ACK" /\ expired /\ ~TriesLeft(p)

\* Variants with a plausible mistake: the acknowledge is reported for ever; each
\* transmission starts the count afresh.
SendProcessKeeps(p, expired) ==
  IF Resends(p, expired) THEN SendPacket(p)
  ELSE IF GivesUp(p, expired) THEN [p EXCEPT !.state = "IDLE"] ELSE p

SendProcessTireless(p, expired) ==
  IF Resends(p, expired) THEN SendPacket([p EXCEPT !.retry = 0])
  ELSE IF p.state = "AWAITING_ACK" /\ ~expired THEN p
  ELSE [p EXCEPT !.state = "IDLE"]

SendProcess(p, expired) ==
  IF Resends(p, expired) THEN SendPacket(p)
  ELSE IF p.state = "AWAITING_ACK" /\ ~expired THEN p
  ELSE [p EXCEPT !.state = "IDLE"]

SendStatus(p, expired) ==
  CASE p.state = "ACKED"   -> "ACKED"
    [] p.state = "IDLE"    -> "IDLE"
    [] GivesUp(p, expired) -> "TIMEOUT"
    [] OTHER               -> "WAITING"

-----------------------------------------------------------------------------
(* Receiving one packet: an acknowledge of the last number sent is taken in *)
(* every state; a data packet is acknowledged, new or not.                 *)
\* Variant with a plausible mistake: any acknowledge will do.
MatchesAny(p, k) == k.type = "ack"

Matches(p, k) == k.type = "ack" /\ k.seq = p.txSeq

IsNew(p, k) == k.type = "data" /\ k.seq # 0 /\ k.seq # p.rxSeq

SendAck(p, k) == SendPacket([p EXCEPT !.txBuf = Ack(k)])

ReceivePacket(p, k) ==
  CASE Matches(p, k)    -> [p EXCEPT !.state = "ACKED"]
    [] k.type = "data"  -> [SendAck(p, k) EXCEPT !.rxSeq = k.seq]
    [] OTHER            -> p

\* What receiving k writes to the line.
Answer(p, k) == IF k.type = "data" THEN <<SendAck(p, k).txBuf>> ELSE <<>>
=============================================================================
