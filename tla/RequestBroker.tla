--------------------------- MODULE RequestBroker ---------------------------
(***************************************************************************)
(* What the transaction layer promises to those who request or send a      *)
(* single-instance object: a request starts a transaction or joins the one *)
(* in progress; a transaction is transmitted at most 1 + MaxRetries times  *)
(* and, unless the service is restarted, it stays open until one           *)
(* conclusion is announced to everyone who waits for it.  Without a        *)
(* connection a request is turned away at once.                            *)
(***************************************************************************)
EXTENDS Naturals

CONSTANTS
  Client,      \* the objects one can ask for
  MaxRetries   \* how often an unanswered transmission is repeated

VARIABLES
  inProgress,  \* the objects with an open transaction
  left,        \* retransmissions each of them has left
  asking       \* the objects someone waits for

brokerVars == <<inProgress, left, asking>>

BrokerInit ==
  /\ inProgress = {}
  /\ left = [c \in Client |-> 0]
  /\ asking = {}

Start(c) ==
  /\ c \notin inProgress
  /\ inProgress' = inProgress \cup {c}
  /\ left' = [left EXCEPT ![c] = MaxRetries]
  /\ asking' = asking \cup {c}

Join(c) ==
  /\ c \in inProgress
  /\ asking' = asking \cup {c}
  /\ UNCHANGED <<inProgress, left>>

TurnAway(c) ==
  /\ asking' = asking \ {c}
  /\ UNCHANGED <<inProgress, left>>

Resend(c) ==
  /\ c \in inProgress
  /\ left[c] > 0
  /\ left' = [left EXCEPT ![c] = @ - 1]
  /\ UNCHANGED <<inProgress, asking>>

Conclude(c) ==
  /\ c \in inProgress
  /\ inProgress' = inProgress \ {c}
  /\ left' = [left EXCEPT ![c] = 0]
  /\ asking' = asking \ {c}

Reset ==
  /\ inProgress' = {}
  /\ left' = [c \in Client |-> 0]
  /\ asking' = {}

BrokerNext ==
  \/ \E c \in Client : Start(c) \/ Join(c) \/ TurnAway(c) \/ Resend(c) \/ Conclude(c)
  \/ Reset

BrokerSpec == BrokerInit /\ [][BrokerNext]_brokerVars
=============================================================================
