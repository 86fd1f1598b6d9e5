----------------------------- MODULE SspThread -----------------------------
(***************************************************************************)
(* The serial link of the uploader: the SSP thread of the station          *)
(* (uploader/SSP/qsspt.cpp), the uploader that hands it one packet at a    *)
(* time and waits on a condition, a line that loses and delays packets,    *)
(* and the bootloader, which runs the same protocol and is not part of the *)
(* repository.                                                             *)
(*                                                                         *)
(* A packet is known by its load, its place among the packets of its end.  *)
(***************************************************************************)
EXTENDS Ssp, FiniteSets, SequencesExt

CONSTANTS Earlier,          \* the numbers <<received, sent>> of an earlier session
                            \* the bootloader may start from
          MaxSync,          \* synchronisations before giving up (op_dfu.cpp, 10)
          MaxCalls,         \* bound on the calls of sendData
          MaxReplies,       \* bound on the packets of the bootloader
          MaxLine           \* bound on the packets under way in one direction

ASSUME ThreadAssumption == /\ Earlier \subseteq (0..MaxSeq) \X (0..MaxSeq)
                           /\ {MaxSync, MaxCalls, MaxReplies, MaxLine} \subseteq Nat

VARIABLES port,             \* the port of each end
          line,             \* line[e]: the packets on their way to e
          sent,             \* how many packets an end has transmitted
          got,              \* the packets handed to the callback of an end
          confirmed,        \* the packets reported SSP_TX_ACKED at an end
          thread,           \* where the SSP thread is, and what it saw last
          datapending,      \* a packet lies in mbuf
          caller,           \* the uploader in sendData
          calls, refused,   \* calls that filled mbuf, packets refused as BUSY
          early             \* a call returned before its packet was settled

ports == <<port, line, sent, got, confirmed>>
user  == <<datapending, caller, calls, refused, early>>
vars  == <<port, line, sent, got, confirmed, thread, datapending, caller,
           calls, refused, early>>

Ends == {"gcs", "board"}
Peer(e) == IF e = "gcs" THEN "board" ELSE "gcs"

Init ==
  /\ \E n \in Earlier :
       port = [e \in Ends |-> IF e = "gcs" THEN PortInit
                              ELSE [PortInit EXCEPT !.rxSeq = n[1], !.txSeq = n[2]]]
  /\ line = [e \in Ends |-> <<>>]
  /\ sent = [e \in Ends |-> 0]
  /\ got = [e \in Ends |-> <<>>]
  /\ confirmed = [e \in Ends |-> {}]
  /\ thread = [pc |-> "synchronise", tries |-> 0, idle |-> FALSE, acked |-> FALSE]
  /\ datapending = FALSE /\ caller = "out"
  /\ calls = 0 /\ refused = 0 /\ early = FALSE

-----------------------------------------------------------------------------
(* The line.  What does not fit is lost.                                   *)
Put(l, ps) == LET all == l \o ps
              IN  SubSeq(all, 1, IF Len(all) < MaxLine THEN Len(all) ELSE MaxLine)

Lose(e) == /\ line[e] # <<>>
           /\ line' = [line EXCEPT ![e] = Tail(@)]
           /\ UNCHANGED <<port, sent, got, confirmed, thread, user>>

\* The line keeps no packet of e, nor its acknowledge, for a whole cycle of
\* numbers: what is that old when e sends its next packet is lost, with all that
\* is ahead of it.
Old(e, x, k) == /\ (k.type = "data") = (x = Peer(e))
                /\ k.load # 0 /\ sent[e] + 1 - k.load >= MaxSeq

Young(e, x) == LET old == {i \in DOMAIN line[x] : Old(e, x, line[x][i])}
               IN  SubSeq(line[x], Max(old \cup {0}) + 1, Len(line[x]))

\* Nor does an end wait that long for an acknowledge: what it repeats meanwhile,
\* which may be its last acknowledge, is lost when it is that old.
Timely(e, k) == k.type = "data" \/ k.load = 0 \/ sent[Peer(e)] - k.load < MaxSeq

-----------------------------------------------------------------------------
(* One round of an end: it receives at most one packet (in is empty or the *)
(* next packet of the line), then runs the send process.                   *)
Received(e, in) == IF in = <<>> THEN port[e] ELSE ReceivePacket(port[e], in[1])

Round(e, in, expired) ==
  LET p   == Received(e, in)
      out == (IF in = <<>> THEN <<>> ELSE Answer(port[e], in[1]))
             \o (IF Resends(p, expired) /\ Timely(e, p.txBuf) THEN <<p.txBuf>> ELSE <<>>)
      new == in # <<>> /\ IsNew(port[e], in[1])
      ok  == SendStatus(p, expired) = "ACKED" /\ p.txSeq # 0
  IN  /\ port' = [port EXCEPT ![e] = SendProcess(p, expired)]
      /\ line' = [line EXCEPT ![e] = IF in = <<>> THEN @ ELSE Tail(@),
                              ![Peer(e)] = Put(@, out)]
      /\ got' = [got EXCEPT ![e] = IF new THEN Append(@, in[1].load) ELSE @]
      /\ confirmed' = [confirmed EXCEPT ![e] = IF ok THEN @ \cup {sent[e]} ELSE @]
      /\ UNCHANGED sent

Inputs(e) == {SubSeq(line[e], 1, n) : n \in {m \in 0..1 : m <= Len(line[e])}}

\* End e puts a new packet into the transmit buffer and sends it.
Transmit(e) ==
  /\ port' = [port EXCEPT ![e] = SendData(@, sent[e] + 1)]
  /\ line' = [x \in Ends |-> IF x = e THEN Young(e, x)
                            ELSE Put(Young(e, x), <<port'[e].txBuf>>)]
  /\ sent' = [sent EXCEPT ![e] = @ + 1]
  /\ UNCHANGED <<got, confirmed>>

-----------------------------------------------------------------------------
(* Opening the link: the constructor of DFUObject synchronises until the   *)
(* other end acknowledges, then starts the thread.                         *)
Start == /\ thread.pc = "synchronise"
         /\ port' = [port EXCEPT !["gcs"] = Synchronise(@)]
         /\ line' = [line EXCEPT !["board"] = Put(@, <<Synch>>)]
         /\ thread' = [thread EXCEPT !.pc = "synchronising"]
         /\ UNCHANGED <<sent, got, confirmed, user>>

\* The count is compared with the limit after a success too.
Synchronised(status) ==
  CASE status = "WAITING"                               -> thread
    [] status # "WAITING" /\ thread.tries = MaxSync    -> [thread EXCEPT !.pc = "failed"]
    [] status = "ACKED" /\ thread.tries < MaxSync      -> [thread EXCEPT !.pc = "round"]
    [] OTHER -> [thread EXCEPT !.pc = "synchronise", !.tries = @ + 1]

SynchroniseRound(in, expired) ==
  /\ thread.pc = "synchronising"
  /\ Round("gcs", in, expired)
  /\ thread' = Synchronised(SendStatus(Received("gcs", in), expired))
  /\ UNCHANGED user

-----------------------------------------------------------------------------
(* The loop of the thread: a round, then the hand-over and the wake-up.    *)
(* Part of a packet may be there: nothing is received, but the line is not *)
(* idle either.                                                            *)
ThreadRound(in, expired) ==
  /\ thread.pc = "round"
  /\ Round("gcs", in, expired)
  /\ \E part \in {FALSE, in = <<>> /\ line["gcs"] # <<>>} :
       thread' = [thread EXCEPT !.pc = "handover", !.idle = in = <<>> /\ ~part,
                    !.acked = SendStatus(Received("gcs", in), expired) = "ACKED"]
  /\ UNCHANGED user

\* Variant with a plausible mistake: the packet stays in mbuf.
HandOverKeeps ==
  IF ~datapending \/ ~thread.idle THEN UNCHANGED <<ports, datapending, refused>>
  ELSE /\ UNCHANGED datapending
       /\ IF Idle(port["gcs"])
          THEN Transmit("gcs") /\ UNCHANGED refused
          ELSE refused' = refused + 1 /\ UNCHANGED ports

\* The packet leaves mbuf whether ssp_SendData takes it or is busy.
HandOver ==
  IF ~datapending \/ ~thread.idle THEN UNCHANGED <<ports, datapending, refused>>
  ELSE /\ datapending' = FALSE
       /\ IF Idle(port["gcs"])
          THEN Transmit("gcs") /\ UNCHANGED refused
          ELSE refused' = refused + 1 /\ UNCHANGED ports

\* sendData returns true however the wait ended.
Return == /\ caller' = "out"
          /\ early' = (early \/ datapending' \/ ~Idle(port'["gcs"]))

\* wakeAll wakes whoever waits at that moment and nobody later.  What the
\* round saw is not read again.
ThreadHandOver ==
  /\ thread.pc = "handover"
  /\ HandOver
  /\ IF thread.acked /\ caller = "waiting" THEN Return ELSE UNCHANGED <<caller, early>>
  /\ thread' = [thread EXCEPT !.pc = "round", !.idle = FALSE, !.acked = FALSE]
  /\ UNCHANGED calls

-----------------------------------------------------------------------------
(* The uploader.  A call that finds a packet in mbuf returns false and     *)
(* changes nothing.  First a variant that overwrites it.                   *)
CallSendDataBlindly == /\ thread.pc \in {"round", "handover"}
                       /\ caller = "out" /\ calls < MaxCalls
                       /\ datapending' = TRUE /\ calls' = calls + 1
                       /\ caller' = "entered"
                       /\ UNCHANGED <<ports, thread, refused, early>>

CallSendData == /\ thread.pc \in {"round", "handover"}
                /\ caller = "out" /\ ~datapending /\ calls < MaxCalls
                /\ datapending' = TRUE /\ calls' = calls + 1
                /\ caller' = "entered"
                /\ UNCHANGED <<ports, thread, refused, early>>

Wait == /\ caller = "entered"
        /\ caller' = "waiting"
        /\ UNCHANGED <<ports, thread, datapending, calls, refused, early>>

\* The wait ends after 10 s, the length of MaxRetry transmissions of 1 s: the
\* thread has taken the packet and at most its last transmission still runs.
WaitTimeout == /\ caller = "waiting" /\ ~datapending
               /\ Idle(port["gcs"]) \/ ~TriesLeft(port["gcs"])
               /\ UNCHANGED <<ports, thread, datapending, calls, refused>>
               /\ Return

-----------------------------------------------------------------------------
(* The bootloader: the same rounds, and a reply whenever it is idle.       *)
BoardRound(in, expired) == /\ Round("board", in, expired)
                           /\ UNCHANGED <<thread, user>>

BoardSend == /\ Idle(port["board"]) /\ sent["board"] < MaxReplies
             /\ Transmit("board")
             /\ UNCHANGED <<thread, user>>

-----------------------------------------------------------------------------
Stations == \E in \in Inputs("gcs"), expired \in BOOLEAN :
              SynchroniseRound(in, expired) \/ ThreadRound(in, expired)

Board == \E in \in Inputs("board"), expired \in BOOLEAN : BoardRound(in, expired)

Next == \/ Start \/ Stations \/ ThreadHandOver
        \/ CallSendData \/ Wait \/ WaitTimeout
        \/ Board \/ BoardSend
        \/ \E e \in Ends : Lose(e)

Spec == Init /\ [][Next]_vars

(***************************************************************************)
(* The thread of the station and the uploader keep running; a timer that   *)
(* runs does expire, and what arrives at the station is read.  Nothing is  *)
(* assumed of the bootloader and the line.                                 *)
(***************************************************************************)
Thread == Start \/ Stations \/ ThreadHandOver

Takes == \E expired \in BOOLEAN : \E in \in Inputs("gcs") \ {<<>>} :
           SynchroniseRound(in, expired) \/ ThreadRound(in, expired)

Expires == /\ port["gcs"].state = "AWAITING_ACK"
           /\ SynchroniseRound(<<>>, TRUE) \/ ThreadRound(<<>>, TRUE)

Fairness == /\ WF_vars(Thread) /\ WF_vars(Wait \/ WaitTimeout)
            /\ SF_vars(Takes) /\ SF_vars(Expires)

FairSpec == Spec /\ Fairness

-----------------------------------------------------------------------------
Ports == [state : {"IDLE", "AWAITING_ACK", "ACKED"}, txSeq : 0..MaxSeq,
          rxSeq : 0..MaxSeq, retry : 0..MaxRetry,
          txBuf : [type : {"data", "ack"}, seq : 0..MaxSeq,
                   load : 0..MaxCalls + MaxReplies]]

\* The type of every variable; outside a round no acknowledge is left to report.
TypeOK ==
  /\ port \in [Ends -> Ports] /\ \A e \in Ends : port[e].state # "ACKED"
  /\ \A e \in Ends : /\ Len(line[e]) <= MaxLine
                     /\ sent[e] \in 0..MaxCalls + MaxReplies
                     /\ ToSet(got[e]) \subseteq 1..sent[Peer(e)]
                     /\ confirmed[e] \subseteq 0..sent[e]
  /\ thread.pc \in {"synchronise", "synchronising", "round", "handover", "failed"}
  /\ thread.tries \in 0..MaxSync /\ thread.idle \in BOOLEAN /\ thread.acked \in BOOLEAN
  /\ datapending \in BOOLEAN /\ caller \in {"out", "entered", "waiting"}
  /\ calls \in 0..MaxCalls /\ refused \in 0..MaxCalls /\ early \in BOOLEAN

\* Every call of sendData is handed over once: transmitted, refused or pending.
HandedOverOnce == calls = sent["gcs"] + refused + (IF datapending THEN 1 ELSE 0)

\* A packet is refused as BUSY only behind a call that returned too early.
RefusedOnlyIfEarly == refused > 0 => early

\* Both directions keep the promise of Delivery.
ToBoard == INSTANCE Delivery WITH Cycle <- MaxSeq, sent <- sent["gcs"],
             got <- got["board"], confirmed <- confirmed["gcs"]
ToStation == INSTANCE Delivery WITH Cycle <- MaxSeq, sent <- sent["board"],
               got <- got["gcs"], confirmed <- confirmed["board"]

ImplementsDelivery == ToBoard!Spec /\ ToStation!Spec

\* sendData returns.
SendReturns == caller # "out" ~> caller = "out"
=============================================================================
