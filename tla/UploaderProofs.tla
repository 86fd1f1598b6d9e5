--------------------------- MODULE UploaderProofs ---------------------------
(***************************************************************************)
(* The telemetry manager, the connection manager and the uploader keep the *)
(* stack, the open device and what is posted to the telemetry thread       *)
(* consistent, for any devices, any device objects and any bounds.         *)
(***************************************************************************)
EXTENDS Uploader, SequenceTheorems, TLAPS

PostedEvent == [type : {"start", "stop", "delete"}, device : Handle \cup {NoHandle}]

(* What may be posted behind what: a device is deleted, and another one is *)
(* started, behind a stop only.                                            *)
Follows(a, b) == \/ a = "start" /\ b = "stop"
                 \/ a = "stop" /\ b \in {"start", "delete"}
                 \/ a = "delete" /\ b = "start"

Chain(q) == \A i \in 1 .. Len(q) - 1 : Follows(q[i].type, q[i + 1].type)

ManagerRecord == [state : States, device : Handle \cup {NoHandle},
                  posted : Seq(PostedEvent)]

(* What holds of the manager, the device objects and the open device (w)   *)
(* and of the stack (s) between any two calls within a slot.  What is      *)
(* posted begins where the stack is and ends where the GUI thread is.      *)
Opened(w)  == w.io # NoDevice
Runs(s)    == s.device # NoHandle

WorldType(w, s) ==
  /\ w \in [manager : ManagerRecord,
            alive : SUBSET Handle,
            io : [device : Handle, port : Port] \cup {NoDevice}]
  /\ s \in [device : Handle \cup {NoHandle}, connected : BOOLEAN]

\* What is posted begins where the stack is and ends where the GUI thread is.
Ends(w, s) ==
  LET q == w.manager.posted IN
  /\ Chain(q)
  /\ q # <<>> => /\ q[1].type = "stop" <=> Runs(s)
                 /\ q[Len(q)].type = "start" <=> Opened(w)
  /\ q = <<>> => s.device = w.io.device

\* The state follows the stack that runs.
StateFollows(w, s) ==
  /\ ~Runs(s) => ~s.connected /\ w.manager.state # "CONNECTED"
  /\ w.manager.posted = <<>> => (w.manager.state = "CONNECTED" <=> s.connected)

\* The device set last is the open one, and exists unless it was deleted behind
\* the last stop; what waits to be deleted is not the device to start with.
DevicesExist(w, s) ==
  LET m == w.manager
      q == w.manager.posted
  IN
  /\ Opened(w) => m.device = w.io.device
  /\ m.device \notin UsbHandle => m.device \in w.alive \/ (q = <<>> /\ ~Runs(s))
  /\ s.device \notin UsbHandle \cup {NoHandle} => s.device \in w.alive
  /\ \A i \in 1 .. Len(q) - 1 : q[i].type = "delete" => q[i].device # m.device

WorldInv(w, s) == WorldType(w, s) /\ Ends(w, s) /\ StateFollows(w, s) /\ DevicesExist(w, s)

LinkInv ==
  /\ WorldInv(Current, stack)
  /\ plugged \subseteq Port /\ devList \subseteq Port
  /\ polling \in BOOLEAN /\ button \in BOOLEAN
  /\ OpenIsListed

-----------------------------------------------------------------------------
(* The sequence of what is posted.                                         *)
LEMMA ChainAppend ==
  ASSUME NEW q \in Seq(PostedEvent), NEW e \in PostedEvent, Chain(q),
         q # <<>> => Follows(q[Len(q)].type, e.type)
  PROVE  /\ Append(q, e) \in Seq(PostedEvent) /\ Append(q, e) # <<>>
         /\ Len(Append(q, e)) = Len(q) + 1
         /\ \A i \in 1 .. Len(q) : Append(q, e)[i] = q[i]
         /\ Append(q, e)[Len(q) + 1] = e
         /\ Chain(Append(q, e))
<1>. DEFINE r == Append(q, e)
<1>1. /\ r \in Seq(PostedEvent) /\ r # <<>>
      /\ Len(r) = Len(q) + 1
      /\ \A i \in 1 .. Len(q) : r[i] = q[i]
      /\ r[Len(q) + 1] = e
  BY AppendProperties
<1>2. Chain(r)
  <2>. SUFFICES ASSUME NEW i \in 1 .. Len(r) - 1
                PROVE  Follows(r[i].type, r[i + 1].type)
    BY DEF Chain
  <2>1. CASE i = Len(q)
    <3>1. q # <<>>
      BY <2>1, EmptySeq
    <3>. QED
      BY <1>1, <2>1, <3>1
  <2>2. CASE i # Len(q)
    <3>1. i \in 1 .. Len(q) - 1
      BY <1>1, <2>2
    <3>. QED
      BY <1>1, <3>1 DEF Chain
  <2>. QED
    BY <2>1, <2>2
<1>. QED
  BY <1>1, <1>2

LEMMA ChainTail ==
  ASSUME NEW q \in Seq(PostedEvent), q # <<>>, Chain(q)
  PROVE  /\ Tail(q) \in Seq(PostedEvent)
         /\ Len(q) >= 1 /\ Head(q) = q[1] /\ q[1] \in PostedEvent
         /\ Len(Tail(q)) = Len(q) - 1
         /\ \A i \in 1 .. Len(q) - 1 : Tail(q)[i] = q[i + 1]
         /\ Tail(q) = <<>> <=> Len(q) = 1
         /\ Tail(q) # <<>> => Follows(q[1].type, Tail(q)[1].type)
         /\ Chain(Tail(q))
<1>1. /\ Tail(q) \in Seq(PostedEvent) /\ Head(q) = q[1]
      /\ Len(Tail(q)) = Len(q) - 1 /\ Len(q) \in Nat /\ Len(q) >= 1
      /\ \A i \in 1 .. Len(q) - 1 : Tail(q)[i] = q[i + 1]
  BY HeadTailProperties, LenProperties, EmptySeq
<1>2. q[1] \in PostedEvent
  BY <1>1, ElementOfSeq
<1>3. Tail(q) = <<>> <=> Len(q) = 1
  <2>1. Tail(q) # <<>> => Len(Tail(q)) \in Nat \ {0}
    BY <1>1, EmptySeq
  <2>2. Tail(q) = <<>> => Len(Tail(q)) = 0
    BY EmptySeq
  <2>. QED
    BY <1>1, <2>1, <2>2
<1>4. Tail(q) # <<>> => 1 \in 1 .. Len(q) - 1
  BY <1>1, <1>3
<1>5. ASSUME NEW i \in 1 .. Len(Tail(q)) - 1
      PROVE  i \in 1 .. Len(q) - 1 /\ i + 1 \in 1 .. Len(q) - 1
  BY <1>1
<1>. QED
  BY <1>1, <1>2, <1>3, <1>4, <1>5 DEF Chain

-----------------------------------------------------------------------------
(* The calls within a slot.                                                *)
LEMMA Devices0 ==
  /\ NoDevice.device = NoHandle /\ NoHandle \notin Handle
  /\ \A d \in [device : Handle, port : Port] : d # NoDevice
  /\ \A w, s : WorldType(w, s) =>
       /\ w.io.device \in Handle \cup {NoHandle}
       /\ Opened(w) <=> w.io.device \in Handle
       /\ Opened(w) => w.io \in [device : Handle, port : Port]
<1>1. NoDevice.device = NoHandle /\ NoHandle \notin Handle
  BY HandleAssumption DEF NoDevice
<1>2. \A d \in [device : Handle, port : Port] : d # NoDevice
  BY <1>1
<1>. QED
  BY <1>1, <1>2 DEF WorldType, Opened

LEMMA EventTypes ==
  /\ Event("start") \in PostedEvent /\ Event("stop") \in PostedEvent
  /\ \A h \in Handle : Delete(h) \in PostedEvent
  /\ Event("start").type = "start" /\ Event("stop").type = "stop"
  /\ \A h : Delete(h).type = "delete" /\ Delete(h).device = h
BY DEF Event, Delete, PostedEvent

(* Telemetry is stopped while a device is open: only the device is still to*)
(* be closed.                                                              *)
LEMMA StopPosts ==
  ASSUME NEW w, NEW s, WorldInv(w, s), Opened(w)
  PROVE  LET q == w.manager.posted
             r == Stop(w.manager).posted
         IN  /\ r = Append(q, Event("stop")) /\ r \in Seq(PostedEvent)
             /\ Len(q) \in Nat /\ Len(r) = Len(q) + 1 /\ r # <<>>
             /\ \A i \in 1 .. Len(q) : r[i] = q[i]
             /\ r[Len(r)].type = "stop"
             /\ Chain(r)
             /\ r[1].type = "stop" <=> Runs(s)
             /\ Stop(w.manager) = [state |-> "DISCONNECTING", device |-> w.manager.device,
                                   posted |-> r]
<1>. DEFINE q == w.manager.posted
            r == Append(q, Event("stop"))
<1>1. Stop(w.manager) = [state |-> "DISCONNECTING", device |-> w.manager.device,
                         posted |-> r]
  <2>1. w.manager \in ManagerRecord
    BY DEF WorldInv, WorldType, ManagerRecord
  <2>2. [w.manager EXCEPT !.state = "DISCONNECTING"]
          = [state |-> "DISCONNECTING", device |-> w.manager.device, posted |-> q]
    BY <2>1 DEF ManagerRecord
  <2>3. Stop(w.manager)
          = [[w.manager EXCEPT !.state = "DISCONNECTING"] EXCEPT !.posted = Append(q, Event("stop"))]
    <3>. HIDE DEF r
    <3>. QED
      BY <2>2, Zenon DEF Stop, Post
  <2>. QED
    BY <2>2, <2>3
<1>2. q \in Seq(PostedEvent) /\ Len(q) \in Nat
  BY LenProperties DEF WorldInv, WorldType, ManagerRecord
<1>3. q # <<>> => Follows(q[Len(q)].type, Event("stop").type)
  BY EventTypes DEF WorldInv, Ends, Follows
<1>4. /\ r \in Seq(PostedEvent) /\ r # <<>>
      /\ Len(r) = Len(q) + 1
      /\ \A i \in 1 .. Len(q) : r[i] = q[i]
      /\ r[Len(q) + 1] = Event("stop")
      /\ Chain(r)
  BY <1>2, <1>3, ChainAppend, EventTypes DEF WorldInv, Ends
<1>5. r[1].type = "stop" <=> Runs(s)
  <2>1. CASE q = <<>>
    <3>1. Len(q) = 0
      BY <2>1, EmptySeq
    <3>2. Runs(s)
      BY <2>1, Devices0 DEF WorldInv, Ends, Runs
    <3>. QED
      BY <1>4, <3>1, <3>2, EventTypes
  <2>2. CASE q # <<>>
    <3>1. Len(q) >= 1
      BY <1>2, <2>2, EmptySeq
    <3>. QED
      BY <1>2, <1>4, <2>2, <3>1 DEF WorldInv, Ends
  <2>. QED
    BY <2>1, <2>2
<1>6. r[Len(r)].type = "stop"
  BY <1>4, EventTypes
<1>. QED
  BY <1>1, <1>2, <1>4, <1>5, <1>6

(* A device object that is new.                                            *)
New(w, h) == /\ h \notin w.alive /\ h # w.manager.device
             /\ \A i \in DOMAIN w.manager.posted : w.manager.posted[i].device # h

LEMMA DisconnectKeeps ==
  ASSUME NEW w, NEW s, WorldInv(w, s)
  PROVE  /\ WorldInv(DisconnectDevice(w), s)
         /\ ~Opened(DisconnectDevice(w))
         /\ \A h \in Handle : New(w, h) => New(DisconnectDevice(w), h)
<1>1. CASE ~Opened(w)
  BY <1>1 DEF DisconnectDevice, Opened
<1>2. CASE Opened(w)
  <2>. DEFINE v == DisconnectDevice(w)
              h == w.io.device
              q == w.manager.posted
              r == Stop(w.manager).posted
              m == [state |-> "DISCONNECTING", device |-> w.manager.device, posted |-> r]
  <2>1. /\ r \in Seq(PostedEvent) /\ Len(q) \in Nat /\ Len(r) = Len(q) + 1 /\ r # <<>>
        /\ \A i \in 1 .. Len(q) : r[i] = q[i]
        /\ r[Len(r)].type = "stop"
        /\ Chain(r)
        /\ r[1].type = "stop" <=> Runs(s)
        /\ Stop(w.manager) = m
    BY <1>2, StopPosts
  <2>2. h \in Handle /\ w.manager.device = h
    BY <1>2, Devices0 DEF WorldInv, DevicesExist
  <2>3. w = [manager |-> w.manager, alive |-> w.alive, io |-> w.io]
    BY DEF WorldInv, WorldType, ManagerRecord
  <2>t. /\ WorldType(w, s) /\ w.alive \subseteq Handle
        /\ w.manager.device \in Handle \cup {NoHandle}
        /\ s \in [device : Handle \cup {NoHandle}, connected : BOOLEAN]
    BY DEF WorldInv, WorldType, ManagerRecord
  <2>4. [w EXCEPT !.manager = Stop(@)] = [manager |-> m, alive |-> w.alive, io |-> w.io]
    BY <2>1, <2>3
  <2>5. ~Runs(s) => ~s.connected
    BY DEF WorldInv, StateFollows
  <2>6. \A i \in 1 .. Len(q) : q[i].type = "delete" => q[i].device # h
    <3>1. q # <<>> => q[Len(q)].type = "start"
      BY <1>2 DEF WorldInv, Ends
    <3>2. Len(q) >= 1 => q # <<>>
      BY EmptySeq
    <3>3. \A i \in 1 .. Len(q) - 1 : q[i].type = "delete" => q[i].device # h
      BY <2>2 DEF WorldInv, DevicesExist
    <3>. QED
      BY <2>1, <3>1, <3>2, <3>3
  <2>7. w.manager.device \notin UsbHandle => w.manager.device \in w.alive
    <3>1. q = <<>> => Runs(s)
      BY <2>2, Devices0 DEF WorldInv, Ends, Runs
    <3>. QED
      BY <3>1 DEF WorldInv, DevicesExist
  <2>8. s.device \notin UsbHandle \cup {NoHandle} => s.device \in w.alive
    BY DEF WorldInv, DevicesExist
  <2>11. \A g \in Handle : New(w, g) => \A i \in DOMAIN r : r[i].device # g
    <3>1. DOMAIN r = 1 .. Len(q) + 1 /\ DOMAIN q = 1 .. Len(q)
      BY <2>1, LenProperties DEF WorldInv, WorldType, ManagerRecord
    <3>2. r[Len(q) + 1].device = NoHandle
      BY <1>2, <2>1, StopPosts, AppendProperties, EventTypes DEF Event
    <3>. QED
      BY <2>1, <3>1, <3>2, HandleAssumption DEF New
  <2>9. CASE h \in UsbHandle
    <3>1. v = [manager |-> m, alive |-> w.alive \ {h}, io |-> NoDevice]
      BY <1>2, <2>4, <2>9 DEF DisconnectDevice, CloseDevice, Opened
    <3>. HIDE DEF v
    <3>2. WorldType(v, s)
      BY <2>1, <2>t, <3>1 DEF WorldType, ManagerRecord, States
    <3>3. Ends(v, s)
      BY <2>1, <3>1 DEF Ends, Opened
    <3>4. StateFollows(v, s)
      BY <2>1, <2>5, <3>1 DEF StateFollows
    <3>5. DevicesExist(v, s)
      <4>1. \A i \in 1 .. Len(r) - 1 : r[i].type = "delete" => r[i].device # h
        BY <2>1, <2>6
      <4>. QED
        BY <2>1, <2>2, <2>7, <2>8, <2>9, <3>1, <4>1 DEF DevicesExist, Opened
    <3>6. ~Opened(v)
      BY <3>1 DEF Opened
    <3>7. \A g \in Handle : New(w, g) => New(v, g)
      BY <2>1, <2>t, <2>11, <3>1 DEF New
    <3>. QED
      BY <3>2, <3>3, <3>4, <3>5, <3>6, <3>7 DEF WorldInv, v
  <2>10. CASE h \notin UsbHandle
    <3>. DEFINE t == Append(r, Delete(h))
    <3>1. v = [manager |-> [m EXCEPT !.posted = t], alive |-> w.alive, io |-> NoDevice]
      BY <1>2, <2>4, <2>10 DEF DisconnectDevice, CloseDevice, Opened, Post
    <3>2. /\ t \in Seq(PostedEvent) /\ t # <<>>
          /\ Len(t) = Len(r) + 1
          /\ \A i \in 1 .. Len(r) : t[i] = r[i]
          /\ t[Len(r) + 1] = Delete(h)
          /\ Chain(t)
      BY <2>1, <2>2, ChainAppend, EventTypes DEF Follows
    <3>. HIDE DEF v, t
    <3>3. WorldType(v, s)
      BY <2>t, <3>1, <3>2 DEF WorldType, ManagerRecord, States
    <3>4. Ends(v, s)
      <4>1. t[1] = r[1]
        BY <2>1, <3>2
      <4>2. t[Len(t)].type = "delete"
        BY <2>1, <3>2, EventTypes
      <4>. QED
        BY <2>1, <3>1, <3>2, <4>1, <4>2 DEF Ends, Opened
    <3>5. StateFollows(v, s)
      BY <2>5, <3>1, <3>2 DEF StateFollows
    <3>6. DevicesExist(v, s)
      <4>1. \A i \in 1 .. Len(t) - 1 : t[i].type = "delete" => t[i].device # h
        <5>. SUFFICES ASSUME NEW i \in 1 .. Len(t) - 1, t[i].type = "delete"
                      PROVE  t[i].device # h
          OBVIOUS
        <5>1. i \in 1 .. Len(r) /\ t[i] = r[i]
          BY <2>1, <3>2
        <5>2. i # Len(r)
          BY <2>1, <5>1
        <5>3. i \in 1 .. Len(q) /\ r[i] = q[i]
          BY <2>1, <5>1, <5>2
        <5>. QED
          BY <2>6, <5>1, <5>3
      <4>. QED
        BY <2>2, <2>7, <2>8, <3>1, <4>1 DEF DevicesExist, Opened
    <3>7. ~Opened(v)
      BY <3>1 DEF Opened
    <3>8. \A g \in Handle : New(w, g) => New(v, g)
      <4>1. DOMAIN t = 1 .. Len(r) + 1 /\ Len(r) \in Nat
        BY <2>1, <3>2, LenProperties
      <4>2. t[Len(r) + 1].device = h
        BY <3>2, EventTypes
      <4>3. ASSUME NEW g \in Handle, New(w, g), NEW i \in DOMAIN t
            PROVE  t[i].device # g
        <5>1. g # h
          BY <2>2, <4>3 DEF New
        <5>2. CASE i \in 1 .. Len(r)
          <6>1. i \in DOMAIN r
            BY <2>1, <5>2, LenProperties
          <6>. QED
            BY <2>11, <3>2, <4>3, <5>2, <6>1
        <5>. QED
          BY <4>1, <4>2, <5>1, <5>2
      <4>. QED
        BY <3>1, <4>3 DEF New
    <3>. QED
      BY <3>3, <3>4, <3>5, <3>6, <3>7, <3>8 DEF WorldInv, v
  <2>. QED
    BY <2>9, <2>10
<1>. QED
  BY <1>1, <1>2

LEMMA ManagerExcept ==
  ASSUME NEW m \in ManagerRecord, NEW a, NEW h
  PROVE  [m EXCEPT !.state = a, !.device = h]
           = [state |-> a, device |-> h, posted |-> m.posted]
<1>1. [m EXCEPT !.state = a] = [state |-> a, device |-> m.device, posted |-> m.posted]
  BY DEF ManagerRecord
<1>2. [m EXCEPT !.state = a, !.device = h] = [[m EXCEPT !.state = a] EXCEPT !.device = h]
  BY DEF ManagerRecord
<1>3. [[state |-> a, device |-> m.device, posted |-> m.posted] EXCEPT !.device = h]
        = [state |-> a, device |-> h, posted |-> m.posted]
  OBVIOUS
<1>. QED
  BY <1>1, <1>2, <1>3, Zenon

LEMMA ConnectKeeps ==
  ASSUME NEW w, NEW s, WorldInv(w, s), ~Opened(w),
         NEW p \in Port, NEW h \in Handle, New(w, h)
  PROVE  /\ WorldInv(ConnectDevice(w, p, h), s)
         /\ Opened(ConnectDevice(w, p, h)) /\ ConnectDevice(w, p, h).io.port = p
<1>. DEFINE v == ConnectDevice(w, p, h)
            q == w.manager.posted
            r == Append(q, Event("start"))
            m == [state |-> "CONNECTING", device |-> h, posted |-> r]
<1>1. /\ WorldType(w, s) /\ w.alive \subseteq Handle
      /\ s \in [device : Handle \cup {NoHandle}, connected : BOOLEAN]
      /\ q \in Seq(PostedEvent) /\ Len(q) \in Nat /\ DOMAIN q = 1 .. Len(q)
      /\ w.manager \in ManagerRecord
      /\ Chain(q)
  BY LenProperties DEF WorldInv, WorldType, ManagerRecord, Ends
<1>2. q # <<>> => q[Len(q)].type # "start" /\ q[Len(q)] \in PostedEvent
  <2>1. q # <<>> => Len(q) \in 1 .. Len(q)
    BY <1>1, EmptySeq
  <2>. QED
    BY <1>1, <2>1, ElementOfSeq DEF WorldInv, Ends
<1>3. q # <<>> => Follows(q[Len(q)].type, Event("start").type)
  BY <1>2, EventTypes DEF Follows, PostedEvent
<1>4. /\ r \in Seq(PostedEvent) /\ r # <<>>
      /\ Len(r) = Len(q) + 1
      /\ \A i \in 1 .. Len(q) : r[i] = q[i]
      /\ r[Len(q) + 1] = Event("start")
      /\ Chain(r)
  BY <1>1, <1>3, ChainAppend, EventTypes
<1>5. v = [manager |-> m, alive |-> w.alive \cup {h}, io |-> [device |-> h, port |-> p]]
  <2>1. [w.manager EXCEPT !.state = "CONNECTING", !.device = h]
          = [state |-> "CONNECTING", device |-> h, posted |-> q]
    <3>1. w.manager \in ManagerRecord
      BY <1>1 DEF ManagerRecord
    <3>. HIDE DEF v, r, m
    <3>. QED
      BY <3>1, ManagerExcept, Zenon
  <2>2. Start(w.manager, h)
          = [[w.manager EXCEPT !.state = "CONNECTING", !.device = h] EXCEPT !.posted = r]
    <3>. HIDE DEF m, v
    <3>. QED
      BY <2>1, Zenon DEF Start, Post
  <2>3. Start(w.manager, h) = m
    BY <2>1, <2>2
  <2>. QED
    BY <2>3 DEF ConnectDevice
<1>. HIDE DEF v, r
<1>6. Opened(v) /\ v.io.port = p
  BY <1>5, Devices0 DEF Opened
<1>7. WorldType(v, s)
  BY <1>1, <1>4, <1>5 DEF WorldType, ManagerRecord, States
<1>8. Ends(v, s)
  <2>1. r[Len(r)].type = "start"
    BY <1>1, <1>4, EventTypes
  <2>2. r[1].type = "stop" <=> Runs(s)
    <3>1. CASE q = <<>>
      <4>1. Len(q) = 0
        BY <3>1, EmptySeq
      <4>2. ~Runs(s)
        BY <3>1, Devices0 DEF WorldInv, Ends, Runs, Opened
      <4>. QED
        BY <1>4, <4>1, <4>2, EventTypes
    <3>2. CASE q # <<>>
      <4>1. Len(q) >= 1
        BY <1>1, <3>2, EmptySeq
      <4>. QED
        BY <1>1, <1>4, <3>2, <4>1 DEF WorldInv, Ends
    <3>. QED
      BY <3>1, <3>2
  <2>. QED
    BY <1>4, <1>5, <1>6, <2>1, <2>2 DEF Ends
<1>9. StateFollows(v, s)
  BY <1>4, <1>5 DEF WorldInv, StateFollows
<1>10. DevicesExist(v, s)
  <2>1. \A i \in 1 .. Len(r) - 1 : r[i].type = "delete" => r[i].device # h
    BY <1>1, <1>4 DEF New
  <2>2. s.device \notin UsbHandle \cup {NoHandle} => s.device \in w.alive \cup {h}
    BY DEF WorldInv, DevicesExist
  <2>. QED
    BY <1>5, <2>1, <2>2 DEF DevicesExist
<1>. QED
  BY <1>6, <1>7, <1>8, <1>9, <1>10 DEF WorldInv, v

-----------------------------------------------------------------------------
(* The telemetry thread.                                                   *)
LEMMA ThreadKeeps ==
  ASSUME WorldInv(Current, stack), UNCHANGED io,
         OnStop \/ OnStart \/ OnDelete \/ OnConnect \/ OnDisconnect
  PROVE  WorldInv(Current, stack)'
<1>. DEFINE q == manager.posted
            r == Tail(q)
<1>1. /\ manager \in ManagerRecord
      /\ q \in Seq(PostedEvent) /\ Len(q) \in Nat
      /\ alive \in SUBSET Handle
      /\ io \in [device : Handle, port : Port] \cup {NoDevice}
      /\ stack \in [device : Handle \cup {NoHandle}, connected : BOOLEAN]
  BY LenProperties DEF WorldInv, WorldType, ManagerRecord, Current
<1>2. /\ Chain(q)
      /\ q # <<>> => /\ q[1].type = "stop" <=> stack.device # NoHandle
                     /\ q[Len(q)].type = "start" <=> io # NoDevice
      /\ q = <<>> => stack.device = io.device
  BY DEF WorldInv, Ends, Current, Opened, Runs
<1>3. /\ stack.device = NoHandle => ~stack.connected /\ manager.state # "CONNECTED"
      /\ q = <<>> => (manager.state = "CONNECTED" <=> stack.connected)
  BY DEF WorldInv, StateFollows, Current, Runs
<1>4. /\ io # NoDevice => manager.device = io.device
      /\ manager.device \notin UsbHandle =>
           manager.device \in alive \/ (q = <<>> /\ stack.device = NoHandle)
      /\ stack.device \notin UsbHandle \cup {NoHandle} => stack.device \in alive
      /\ \A i \in 1 .. Len(q) - 1 : q[i].type = "delete" => q[i].device # manager.device
  BY DEF WorldInv, DevicesExist, Current, Opened, Runs
<1>5. q # <<>> =>
         /\ r \in Seq(PostedEvent)
         /\ Len(q) >= 1 /\ Head(q) = q[1] /\ q[1] \in PostedEvent
         /\ Len(r) = Len(q) - 1
         /\ \A i \in 1 .. Len(q) - 1 : r[i] = q[i + 1]
         /\ r = <<>> <=> Len(q) = 1
         /\ r # <<>> => Follows(q[1].type, r[1].type)
         /\ Chain(r)
  BY <1>1, <1>2, ChainTail
<1>6. q # <<>> =>
         /\ r # <<>> => r[Len(r)] = q[Len(q)]
         /\ \A i \in 1 .. Len(r) - 1 : r[i].type = "delete" => r[i].device # manager.device
  BY <1>1, <1>4, <1>5
<1>7. UsbHandle \subseteq Handle /\ NoHandle \notin Handle /\ NoDevice.device = NoHandle
  BY PortAssumption, Devices0
<1>i. Current' = [manager |-> manager', alive |-> alive', io |-> io]
  BY DEF Current
<1>. HIDE DEF r
<1>8. CASE OnStop
  <2>1. /\ q # <<>> /\ q[1].type = "stop"
        /\ stack' = [device |-> NoHandle, connected |-> FALSE]
        /\ manager' = [state |-> "DISCONNECTED", device |-> manager.device, posted |-> r]
        /\ alive' = alive
    BY <1>1, <1>5, <1>8 DEF ManagerRecord, OnStop, Next1, NoStack, r
  <2>2. WorldType(Current, stack)'
    BY <1>1, <1>5, <1>i, <2>1 DEF WorldType, ManagerRecord, States
  <2>3. r # <<>> => r[1].type # "stop"
    BY <1>5, <2>1 DEF Follows
  <2>4. r = <<>> => io = NoDevice
    BY <1>2, <1>5, <2>1
  <2>5. Ends(Current, stack)'
    BY <1>2, <1>5, <1>6, <1>7, <1>i, <2>1, <2>3, <2>4 DEF Ends, Opened, Runs
  <2>6. StateFollows(Current, stack)'
    BY <1>i, <2>1 DEF StateFollows
  <2>7. DevicesExist(Current, stack)'
    BY <1>4, <1>6, <1>i, <2>1 DEF DevicesExist, Opened, Runs
  <2>. QED
    BY <2>2, <2>5, <2>6, <2>7 DEF WorldInv
<1>9. CASE OnStart
  <2>1. /\ q # <<>> /\ q[1].type = "start"
        /\ stack' = [device |-> manager.device, connected |-> FALSE]
        /\ manager' = [state |-> manager.state, device |-> manager.device, posted |-> r]
        /\ alive' = alive
    BY <1>1, <1>5, <1>9 DEF ManagerRecord, OnStart, Next1, r
  <2>2. WorldType(Current, stack)'
    BY <1>1, <1>5, <1>i, <2>1 DEF WorldType, ManagerRecord
  <2>3. manager.device # NoHandle /\ (manager.device \notin UsbHandle => manager.device \in alive)
    BY <1>1, <1>4, <1>7, <2>1
  <2>4. r # <<>> => r[1].type = "stop"
    BY <1>5, <2>1 DEF Follows
  <2>5. r = <<>> => manager.device = io.device
    BY <1>2, <1>4, <1>5, <2>1
  <2>6. Ends(Current, stack)'
    BY <1>2, <1>5, <1>6, <1>i, <2>1, <2>3, <2>4, <2>5 DEF Ends, Opened, Runs
  <2>7. StateFollows(Current, stack)'
    BY <1>2, <1>3, <1>i, <2>1, <2>3 DEF StateFollows, Runs
  <2>8. DevicesExist(Current, stack)'
    BY <1>4, <1>6, <1>i, <2>1, <2>3 DEF DevicesExist, Opened, Runs
  <2>. QED
    BY <2>2, <2>6, <2>7, <2>8 DEF WorldInv
<1>10. CASE OnDelete
  <2>1. /\ q # <<>> /\ q[1].type = "delete"
        /\ stack' = stack
        /\ manager' = [state |-> manager.state, device |-> manager.device, posted |-> r]
        /\ alive' = alive \ {q[1].device}
    BY <1>1, <1>5, <1>10 DEF ManagerRecord, OnDelete, Next1, r
  <2>2. WorldType(Current, stack)'
    BY <1>1, <1>5, <1>i, <2>1 DEF WorldType, ManagerRecord
  <2>3. stack.device = NoHandle
    BY <1>2, <2>1
  <2>4. r # <<>> => r[1].type = "start"
    BY <1>5, <2>1 DEF Follows
  <2>5. r = <<>> => io = NoDevice
    BY <1>2, <1>5, <2>1
  <2>6. Ends(Current, stack)'
    BY <1>2, <1>5, <1>6, <1>7, <1>i, <2>1, <2>3, <2>4, <2>5 DEF Ends, Opened, Runs
  <2>7. StateFollows(Current, stack)'
    BY <1>3, <1>i, <2>1, <2>3 DEF StateFollows, Runs
  <2>8. r # <<>> => q[1].device # manager.device
    BY <1>1, <1>4, <1>5, <2>1
  <2>9. DevicesExist(Current, stack)'
    BY <1>4, <1>6, <1>i, <2>1, <2>3, <2>8 DEF DevicesExist, Opened, Runs
  <2>. QED
    BY <2>2, <2>6, <2>7, <2>9 DEF WorldInv
<1>11. CASE OnConnect \/ OnDisconnect
  <2>1. /\ stack.device # NoHandle /\ alive' = alive
        /\ \E c \in BOOLEAN :
             /\ stack' = [device |-> stack.device, connected |-> c]
             /\ manager' = [state |-> IF c THEN "CONNECTED" ELSE "DISCONNECTED",
                            device |-> manager.device, posted |-> q]
    BY <1>1, <1>11 DEF ManagerRecord, OnConnect, OnDisconnect, Running
  <2>2. WorldType(Current, stack)'
    BY <1>1, <1>i, <2>1 DEF WorldType, ManagerRecord, States
  <2>3. Ends(Current, stack)'
    BY <1>2, <1>i, <2>1 DEF Ends, Opened, Runs
  <2>4. StateFollows(Current, stack)'
    BY <1>i, <2>1 DEF StateFollows, Runs
  <2>5. DevicesExist(Current, stack)'
    BY <1>4, <1>i, <2>1 DEF DevicesExist, Opened, Runs
  <2>. QED
    BY <2>2, <2>3, <2>4, <2>5 DEF WorldInv
<1>. QED
  BY <1>8, <1>9, <1>10, <1>11

-----------------------------------------------------------------------------
(* The slots of the connection manager.                                    *)
LEMMA BecomesKeeps ==
  ASSUME NEW w, WorldInv(w, stack), Becomes(w), UNCHANGED stack
  PROVE  Current' = w /\ WorldInv(Current, stack)' /\ (Connected' <=> Opened(w))
<1>1. w = [manager |-> w.manager, alive |-> w.alive, io |-> w.io]
  BY DEF WorldInv, WorldType
<1>2. Current' = w
  BY <1>1 DEF Current, Becomes
<1>3. WorldInv(Current, stack)' <=> WorldInv(w, stack)
  BY <1>2 DEF WorldInv, WorldType, Ends, StateFollows, DevicesExist, Opened, Runs
<1>. QED
  BY <1>2, <1>3 DEF Opened, Connected, Becomes

(* What a slot has before it opens a device.                               *)
LEMMA ClosedWorlds ==
  ASSUME WorldInv(Current, stack), NEW w \in {Current, DisconnectDevice(Current)}
  PROVE  /\ WorldInv(w, stack)
         /\ Opened(w) => w = Current
         /\ \A h \in Handle : Free(h) => New(w, h)
<1>1. \A h \in Handle : Free(h) => New(Current, h)
  BY DEF Free, New, Current
<1>. QED
  BY <1>1, DisconnectKeeps

LEMMA OpeningsKeep ==
  ASSUME WorldInv(Current, stack), NEW w \in {Current, DisconnectDevice(Current)},
         ~Opened(w), plugged \subseteq Port,
         NEW ps, NEW v \in Openings(w, ps)
  PROVE  WorldInv(v, stack) /\ Opened(v) /\ v.io.port \in ps
<1>1. PICK p \in ps \cap plugged :
         /\ \E h \in HandlesOf(p) : Free(h)
         /\ v = ConnectDevice(w, p, CHOOSE h \in HandlesOf(p) : Free(h))
  BY DEF Openings
<1>2. PICK h : h \in HandlesOf(p) /\ Free(h) /\ v = ConnectDevice(w, p, h)
  BY <1>1
<1>3. h \in Handle /\ p \in Port
  BY <1>2, PortAssumption DEF HandlesOf
<1>4. WorldInv(w, stack) /\ New(w, h)
  BY <1>2, <1>3, ClosedWorlds
<1>. QED
  BY <1>2, <1>3, <1>4, ConnectKeeps

(* What the steps of the uploader do to the connection.                    *)
SetsPolling == /\ \E w \in {Current, DisconnectDevice(Current)} : Becomes(w)
               /\ polling' \in {polling, TRUE, FALSE} /\ button' \in {button, TRUE, FALSE}
               /\ UNCHANGED <<plugged, devList, stack>>

LinkStep ==
  \/ UNCHANGED link
  \/ SetsPolling
  \/ (OnStop \/ OnStart \/ OnDelete \/ OnConnect \/ OnDisconnect) /\ UNCHANGED connection
  \/ \E kind, auto : DevChanged(kind, auto)
  \/ OnConnectClicked
  \/ \E p \in Port : Plug(p)

LEMMA LinkSteps ==
  ASSUME [Next]_vars
  PROVE  LinkStep
<1>1. CASE Telemetry
  BY <1>1 DEF Telemetry, StackStopped, LinkStep
<1>2. CASE Devices
  BY <1>2 DEF Devices, LinkStep
<1>3. CASE SystemHalt \/ SystemReset
  BY <1>3 DEF SystemHalt, SystemReset, GoToBootloader, SendFirst, Oops, NothingToDo, LinkStep
<1>4. CASE TransactionCompleted
  BY <1>4 DEF TransactionCompleted, SendFirst, Oops, NothingToDo, Acknowledged, BoardReset,
              LinkStep, SetsPolling
<1>5. CASE SendNext \/ AutopilotDisconnected \/ Populate \/ RequestIap \/ UNCHANGED vars
  BY <1>5 DEF SendNext, AutopilotDisconnected, Populate, RequestIap, vars, LinkStep
<1>6. CASE StopPolling \/ Rescue
  BY <1>6 DEF StopPolling, Rescue, SuspendPolling, SetPolling, LinkStep, SetsPolling
<1>7. ASSUME NEW outcome, NEW at, EnterDfu(outcome, at)
      PROVE  LinkStep
  BY <1>7 DEF EnterDfu, ResumePolling, SetPolling, LinkStep, SetsPolling
<1>8. ASSUME NEW under, SystemBoot(under)
      PROVE  LinkStep
  BY <1>8 DEF SystemBoot, SuspendPolling, SetPolling, LinkStep, SetsPolling
<1>9. CASE Search \/ \E outcome : Searched(outcome)
  BY <1>7, <1>9 DEF Search, Searched, LinkStep
<1>10. CASE Halted \/ Boot
  BY <1>8, <1>10 DEF Halted, Boot, LinkStep
<1>11. ASSUME NEW x, FindDevices(x) \/ Booted(x) \/ Rescued(x)
       PROVE  LinkStep
  BY <1>11 DEF FindDevices, Booted, Rescued, ResumePolling, SetPolling, LinkStep, SetsPolling
<1>12. ASSUME NEW ok, Conclude(ok)
       PROVE  LinkStep
  BY <1>12 DEF Conclude, LinkStep
<1>. QED
  BY <1>1, <1>2, <1>3, <1>4, <1>5, <1>6, <1>9, <1>10, <1>11, <1>12
     DEF Next, Buttons, Waiting

LEMMA LinkInit == Init => LinkInv
<1>. SUFFICES ASSUME Init
              PROVE  LinkInv
  OBVIOUS
<1>1. /\ Current = [manager |-> [state |-> "DISCONNECTED", device |-> NoHandle, posted |-> <<>>],
                    alive |-> {}, io |-> NoDevice]
      /\ stack = [device |-> NoHandle, connected |-> FALSE]
      /\ ~Opened(Current)
  BY DEF Init, ConnectionInit, ManagerInit, Current, NoStack, Opened
<1>2. <<>> \in Seq(PostedEvent) /\ Len(<<>>) = 0
  BY EmptySeq
<1>3. WorldType(Current, stack)
  BY <1>1, <1>2 DEF WorldType, ManagerRecord, States
<1>4. Ends(Current, stack)
  <2>1. Chain(<<>>)
    BY <1>2 DEF Chain
  <2>. QED
    BY <1>1, <2>1, Devices0 DEF Ends
<1>5. StateFollows(Current, stack)
  BY <1>1 DEF StateFollows
<1>6. DevicesExist(Current, stack)
  BY <1>1, <1>2 DEF DevicesExist, Runs
<1>. QED
  BY <1>3, <1>4, <1>5, <1>6
     DEF LinkInv, WorldInv, Init, ConnectionInit, OpenIsListed, Connected

LEMMA LinkNext == LinkInv /\ [Next]_vars => LinkInv'
<1>. SUFFICES ASSUME LinkInv, LinkStep
              PROVE  LinkInv'
  BY LinkSteps
<1>1. CASE UNCHANGED link
  <2>1. Current' = Current /\ stack' = stack
    BY <1>1 DEF link, managerVars, connection, Current
  <2>2. WorldInv(Current, stack)'
    BY <2>1 DEF LinkInv, WorldInv, WorldType, Ends, StateFollows, DevicesExist, Opened, Runs
  <2>. QED
    BY <1>1, <2>2 DEF link, connection, LinkInv, OpenIsListed, Connected
<1>2. CASE SetsPolling
  <2>1. PICK w \in {Current, DisconnectDevice(Current)} : Becomes(w)
    BY <1>2 DEF SetsPolling
  <2>2. WorldInv(w, stack) /\ (Opened(w) => w = Current)
    BY ClosedWorlds DEF LinkInv
  <2>3. WorldInv(Current, stack)' /\ (Connected' => io' = io)
    BY <1>2, <2>1, <2>2, BecomesKeeps DEF SetsPolling, Becomes, Current
  <2>. QED
    BY <1>2, <2>3 DEF SetsPolling, LinkInv, OpenIsListed, Connected
<1>3. CASE (OnStop \/ OnStart \/ OnDelete \/ OnConnect \/ OnDisconnect) /\ UNCHANGED connection
  <2>1. WorldInv(Current, stack)'
    BY <1>3, ThreadKeeps DEF connection, LinkInv
  <2>. QED
    BY <1>3, <2>1 DEF connection, LinkInv, OpenIsListed, Connected
<1>4. ASSUME NEW kind, NEW auto, DevChanged(kind, auto)
      PROVE  LinkInv'
  <2>. DEFINE w == UpdateConnectionList(kind)
  <2>1. PICK v \in UpdateConnectionDropdown(w, devList', auto) : Becomes(v)
    BY <1>4 DEF DevChanged
  <2>2. w \in {Current, DisconnectDevice(Current)}
    BY DEF UpdateConnectionList
  <2>3. devList' \subseteq Port /\ devList' = (devList \ kind) \cup Available(kind)
    BY <1>4 DEF DevChanged, Available, LinkInv
  <2>4. WorldInv(v, stack) /\ (Opened(v) => v.io.port \in devList')
    <3>1. CASE v = w
      <4>1. WorldInv(w, stack) /\ (Opened(w) => w = Current)
        BY <2>2, ClosedWorlds DEF LinkInv
      <4>2. ASSUME Opened(w)
            PROVE  io.port \in devList'
        <5>1. w = Current /\ Connected
          BY <4>1, <4>2 DEF Opened, Current, Connected
        <5>2. ~(io.port \in devList \cap kind /\ io.port \notin Available(kind))
          <6>1. ASSUME io.port \in devList \cap kind /\ io.port \notin Available(kind)
                PROVE  FALSE
            <7>1. w = DisconnectDevice(Current)
              BY <5>1, <6>1 DEF UpdateConnectionList
            <7>. QED
              BY <4>2, <7>1, DisconnectKeeps DEF LinkInv
          <6>. QED
            BY <6>1
        <5>. QED
          BY <2>3, <5>1, <5>2 DEF LinkInv, OpenIsListed
      <4>. QED
        BY <3>1, <4>1, <4>2 DEF Current
    <3>2. CASE v # w
      <4>1. ~Opened(w) /\ v \in Openings(w, devList' \cap Usb)
        BY <2>1, <3>2 DEF UpdateConnectionDropdown, Opened
      <4>. HIDE DEF w
      <4>. QED
        BY <2>2, <4>1, OpeningsKeep DEF LinkInv
    <3>. QED
      BY <3>1, <3>2
  <2>5. WorldInv(Current, stack)' /\ (Connected' => io'.port \in devList')
    BY <1>4, <2>1, <2>4, BecomesKeeps DEF DevChanged, Becomes
  <2>. QED
    BY <1>4, <2>3, <2>5 DEF DevChanged, LinkInv, OpenIsListed
<1>5. CASE OnConnectClicked
  <2>1. PICK v : /\ Becomes(v) /\ WorldInv(v, stack)
                 /\ Opened(v) => v.io.port \in devList
    <3>1. CASE Connected
      BY <1>5, <3>1, DisconnectKeeps DEF OnConnectClicked, LinkInv
    <3>2. CASE ~Connected
      <4>1. ~Opened(Current)
        BY <3>2 DEF Opened, Current, Connected
      <4>. QED
        BY <1>5, <3>2, <4>1, OpeningsKeep DEF OnConnectClicked, LinkInv
    <3>. QED
      BY <3>1, <3>2
  <2>2. WorldInv(Current, stack)' /\ (Connected' => io'.port \in devList)
    BY <1>5, <2>1, BecomesKeeps DEF OnConnectClicked, Becomes
  <2>. QED
    BY <1>5, <2>2 DEF OnConnectClicked, LinkInv, OpenIsListed
<1>6. ASSUME NEW p \in Port, Plug(p)
      PROVE  LinkInv'
  <2>1. Current' = Current /\ stack' = stack
    BY <1>6 DEF Plug, managerVars, Current
  <2>2. WorldInv(Current, stack)'
    BY <2>1 DEF LinkInv, WorldInv, WorldType, Ends, StateFollows, DevicesExist, Opened, Runs
  <2>. QED
    BY <1>6, <2>2 DEF Plug, LinkInv, OpenIsListed, Connected
<1>. QED
  BY <1>1, <1>2, <1>3, <1>4, <1>5, <1>6 DEF LinkStep

-----------------------------------------------------------------------------
(* What the telemetry and connection managers promise.                     *)
LEMMA LinkGives ==
  ASSUME LinkInv
  PROVE  /\ ConnectionTypeOK
         /\ StartsAndStopsAlternate /\ StateIsTrue
         /\ StackFollowsDevice /\ SerialOutlivesStack /\ OpenIsListed
<1>1. /\ Current.manager = manager /\ Current.alive = alive /\ Current.io = io
      /\ WorldType(Current, stack)
  BY DEF LinkInv, WorldInv, Current
<1>2. ConnectionTypeOK
  BY <1>1 DEF WorldType, ManagerRecord, PostedEvent, LinkInv, ConnectionTypeOK, ManagerTypeOK
<1>3. manager.posted # <<>> => Head(manager.posted) = manager.posted[1]
  BY <1>1, ChainTail DEF WorldType, ManagerRecord, LinkInv, WorldInv, Ends
<1>4. StartsAndStopsAlternate
  BY <1>1, <1>3 DEF StartsAndStopsAlternate, Next1, Running, LinkInv, WorldInv, Ends, Runs
<1>5. StateIsTrue
  BY <1>1 DEF StateIsTrue, LinkInv, WorldInv, StateFollows
<1>6. StackFollowsDevice
  BY <1>1 DEF StackFollowsDevice, LinkInv, WorldInv, Ends
<1>7. SerialOutlivesStack
  BY <1>1 DEF SerialOutlivesStack, Next1, LinkInv, WorldInv, DevicesExist
<1>. QED
  BY <1>2, <1>4, <1>5, <1>6, <1>7 DEF LinkInv

LEMMA LinkInvariant == Spec => []LinkInv
<1>. QED
  BY LinkInit, LinkNext, PTL DEF Spec

(* Starts and stops reach the telemetry thread in turn, whatever devices   *)
(* come and go and however often the user connects: onStart and onStop     *)
(* never build a second stack nor delete one that is not there.            *)
THEOREM StartsStopsAlternate == Spec => []StartsAndStopsAlternate
<1>1. LinkInv => StartsAndStopsAlternate
  BY LinkGives
<1>. QED
  BY <1>1, LinkInvariant, PTL

(* Once the telemetry thread has caught up, m_connectionState says         *)
(* connected if and only if the stack that runs announced it.              *)
THEOREM StateTrue == Spec => []StateIsTrue
<1>1. LinkInv => StateIsTrue
  BY LinkGives
<1>. QED
  BY <1>1, LinkInvariant, PTL

(* Once the telemetry thread has caught up, the stack runs on the open     *)
(* device, and on none if none is open.                                    *)
THEOREM StackFollows == Spec => []StackFollowsDevice
<1>1. LinkInv => StackFollowsDevice
  BY LinkGives
<1>. QED
  BY <1>1, LinkInvariant, PTL

(* A serial device exists as long as a stack reads it, and when a stack is *)
(* built on it: start takes over a device that closeDevice has not had     *)
(* deleted.                                                                *)
THEOREM SerialOutlives == Spec => []SerialOutlivesStack
<1>1. LinkInv => SerialOutlivesStack
  BY LinkGives
<1>. QED
  BY <1>1, LinkInvariant, PTL

(* The open device stays one of m_devList, suspended polling or not.       *)
THEOREM OpenListed == Spec => []OpenIsListed
<1>1. LinkInv => OpenIsListed
  BY LinkGives
<1>. QED
  BY <1>1, LinkInvariant, PTL

-----------------------------------------------------------------------------
(* The uploader's own state.                                               *)
Frame == {"STEP_1", "STEP_2", "halting", "showing"} \cup DfuWaits
CompletionRecord == [own : BOOLEAN, ok : BOOLEAN]

UploadType ==
  /\ step \in Commands \cup {"READY", "BOOTLOADER"}
  /\ frames \in Seq(Frame)
  /\ dfu \in BOOLEAN /\ resetOnly \in BOOLEAN
  /\ listening \in Nat
  /\ transaction \in {"none", "own", "other"} /\ (transaction # "none" => Running)
  /\ completions \in Seq(CompletionRecord)
  /\ enabled \subseteq {"halt", "reset", "boot", "rescue"}
  /\ lost \in Nat /\ found \in Nat

LEMMA FramesKept ==
  ASSUME NEW s \in Seq(Frame)
  PROVE  /\ Len(s) \in Nat
         /\ \A f \in Frame : /\ Append(s, f) \in Seq(Frame)
                             /\ ToSet(Append(s, f)) = ToSet(s) \cup {f}
         /\ s # <<>> => /\ Last(s) \in ToSet(s)
                        /\ Front(s) \in Seq(Frame) /\ ToSet(Front(s)) \subseteq ToSet(s)
                        /\ \A f \in Frame :
                             /\ [s EXCEPT ![Len(s)] = f] \in Seq(Frame)
                             /\ f \in ToSet([s EXCEPT ![Len(s)] = f])
                             /\ ToSet([s EXCEPT ![Len(s)] = f]) \subseteq ToSet(s) \cup {f}
<1>1. Len(s) \in Nat /\ DOMAIN s = 1 .. Len(s)
  BY LenProperties
<1>2. ASSUME NEW f \in Frame
      PROVE  Append(s, f) \in Seq(Frame) /\ ToSet(Append(s, f)) = ToSet(s) \cup {f}
  <2>1. /\ Append(s, f) \in Seq(Frame)
        /\ DOMAIN Append(s, f) = 1 .. Len(s) + 1
        /\ \A i \in 1 .. Len(s) : Append(s, f)[i] = s[i]
        /\ Append(s, f)[Len(s) + 1] = f
    BY AppendProperties, LenProperties
  <2>. QED
    BY <1>1, <2>1 DEF ToSet
<1>3. ASSUME s # <<>>
      PROVE  /\ Last(s) \in ToSet(s)
             /\ Front(s) \in Seq(Frame) /\ ToSet(Front(s)) \subseteq ToSet(s)
             /\ \A f \in Frame :
                  /\ [s EXCEPT ![Len(s)] = f] \in Seq(Frame)
                  /\ f \in ToSet([s EXCEPT ![Len(s)] = f])
                  /\ ToSet([s EXCEPT ![Len(s)] = f]) \subseteq ToSet(s) \cup {f}
  <2>1. Len(s) \in Nat \ {0}
    BY <1>3, EmptySeq
  <2>2. Last(s) \in ToSet(s)
    BY <1>1, <2>1 DEF Last, ToSet
  <2>3. /\ Front(s) \in Seq(Frame) /\ Len(Front(s)) = Len(s) - 1
        /\ \A i \in 1 .. Len(s) - 1 : Front(s)[i] = s[i]
    BY <1>1, <2>1, SubSeqProperties DEF Front
  <2>4. DOMAIN Front(s) = 1 .. Len(s) - 1
    BY <2>3, LenProperties
  <2>5. ToSet(Front(s)) \subseteq ToSet(s)
    BY <1>1, <2>3, <2>4 DEF ToSet
  <2>6. ASSUME NEW f \in Frame
        PROVE  /\ [s EXCEPT ![Len(s)] = f] \in Seq(Frame)
               /\ f \in ToSet([s EXCEPT ![Len(s)] = f])
               /\ ToSet([s EXCEPT ![Len(s)] = f]) \subseteq ToSet(s) \cup {f}
    <3>1. [s EXCEPT ![Len(s)] = f] \in Seq(Frame)
      BY <1>1, <2>1, ExceptSeq
    <3>2. DOMAIN [s EXCEPT ![Len(s)] = f] = 1 .. Len(s)
      BY <1>1
    <3>. QED
      BY <1>1, <2>1, <3>1, <3>2 DEF ToSet
  <2>. QED
    BY <2>2, <2>3, <2>5, <2>6
<1>. QED
  BY <1>1, <1>2, <1>3

(* What a step does to the waits.                                          *)
FrameStep ==
  \/ UNCHANGED frames
  \/ \E f \in Frame : frames' = Append(frames, f)
  \/ frames # <<>> /\ frames' = Front(frames)
  \/ \E f \in Frame : frames # <<>> /\ frames' = [frames EXCEPT ![Len(frames)] = f]
  \/ \E f \in Frame : frames # <<>> /\ frames' = Append(Front(frames), f)

LEMMA FrameSteps ==
  ASSUME [Next]_vars
  PROVE  FrameStep
<1>. USE DEF FrameStep, Frame, DfuWaits, Enter, Become, Waits
<1>1. CASE Telemetry \/ Devices \/ RequestIap \/ UNCHANGED vars
  BY <1>1 DEF Telemetry, StackStopped, Devices, RequestIap, vars, upload, operation
<1>2. CASE AutopilotDisconnected \/ Populate \/ \E ok \in BOOLEAN : Conclude(ok)
  BY <1>2 DEF AutopilotDisconnected, Populate, Conclude, operation
<1>3. CASE SystemHalt \/ SystemReset
  BY <1>3 DEF SystemHalt, SystemReset, GoToBootloader, SendFirst, Oops, NothingToDo
<1>4. CASE TransactionCompleted
  BY <1>4 DEF TransactionCompleted, SendFirst, Oops, NothingToDo, Acknowledged, BoardReset
<1>5. CASE SendNext \/ StopPolling \/ Rescue
  BY <1>5 DEF SendNext, StopPolling, Rescue
<1>6. CASE Search \/ \E outcome : Searched(outcome)
  BY <1>6 DEF Search, Searched, EnterDfu
<1>7. CASE Halted \/ Boot
  BY <1>7 DEF Halted, Boot, SystemBoot, BootEnds
<1>8. ASSUME NEW x, FindDevices(x) \/ Booted(x) \/ Rescued(x)
      PROVE  FrameStep
  BY <1>8 DEF FindDevices, Booted, BootEnds, Rescued
<1>. QED
  BY <1>1, <1>2, <1>3, <1>4, <1>5, <1>6, <1>7, <1>8 DEF Next, Buttons, Waiting

LEMMA PostedType ==
  ASSUME NEW left \in Seq(CompletionRecord), NEW n \in Nat, NEW c \in CompletionRecord
  PROVE  Posted(left, n, c) \in Seq(CompletionRecord)
<1>1. [i \in 1 .. n |-> c] \in Seq(CompletionRecord)
  BY IsASeq
<1>. QED
  BY <1>1, ConcatProperties DEF Posted

LEMMA UpdateTypes ==
  ASSUME LinkInv, UploadType, NEW left \in Seq(CompletionRecord), NEW n \in Nat,
         Update(left, n), UNCHANGED stack
  PROVE  /\ transaction' \in {"none", "own", "other"} /\ (transaction' # "none" => Running')
         /\ completions' \in Seq(CompletionRecord)
<1>1. stack.connected => Running
  BY DEF LinkInv, WorldInv, StateFollows, Runs, Running
<1>2. Posted(left, n, Completion(TRUE, FALSE)) \in Seq(CompletionRecord)
  BY PostedType DEF Completion, CompletionRecord
<1>. QED
  BY <1>1, <1>2 DEF Update, UploadType, Running

LEMMA UploadInit == Init => UploadType
<1>. SUFFICES ASSUME Init
              PROVE  UploadType
  OBVIOUS
<1>1. frames \in Seq(Frame) /\ completions \in Seq(CompletionRecord)
  BY EmptySeq DEF Init
<1>2. listening \in Nat /\ lost \in Nat /\ found \in Nat
  BY DEF Init
<1>3. dfu \in BOOLEAN /\ resetOnly \in BOOLEAN
  BY DEF Init
<1>. QED
  BY <1>1, <1>2, <1>3 DEF Init, UploadType

(* The transaction and what is posted of its end.                          *)
LEMMA IapTypes ==
  ASSUME LinkInv, UploadType, [Next]_vars
  PROVE  /\ transaction' \in {"none", "own", "other"} /\ (transaction' # "none" => Running')
         /\ completions' \in Seq(CompletionRecord)
<1>. USE DEF UploadType
<1>. DEFINE Typed == /\ transaction' \in {"none", "own", "other"}
                     /\ transaction' # "none" => Running'
                     /\ completions' \in Seq(CompletionRecord)
<1>. SUFFICES Typed
  OBVIOUS
<1>r. UNCHANGED <<stack, transaction, completions>> => Typed
  BY DEF Running
<1>1. CASE Telemetry
  <2>1. CASE StackStopped
    BY <2>1 DEF StackStopped
  <2>2. CASE OnStart /\ UNCHANGED iap
    <3>1. Next1("start") => ~Running
      BY LinkGives DEF StartsAndStopsAlternate
    <3>. QED
      BY <2>2, <3>1 DEF OnStart, iap
  <2>3. CASE (OnDelete \/ OnConnect \/ OnDisconnect) /\ UNCHANGED iap
    <3>1. stack'.device = stack.device
      BY <2>3 DEF OnDelete, OnConnect, OnDisconnect, LinkInv, WorldInv, WorldType
    <3>. QED
      BY <2>3, <3>1 DEF iap, Running
  <2>. QED
    BY <1>1, <2>1, <2>2, <2>3 DEF Telemetry, upload
<1>2. CASE Devices \/ UNCHANGED vars
  BY <1>2, <1>r DEF Devices, DevChanged, OnConnectClicked, Plug, managerVars, iap, vars, link,
       upload
<1>3. ASSUME NEW left \in Seq(CompletionRecord),
             SendFirst(left) \/ Oops(left) \/ NothingToDo(left)
               \/ Acknowledged(left) \/ BoardReset(left)
      PROVE  Typed
  <2>1. UNCHANGED stack
    BY <1>3 DEF SendFirst, Oops, NothingToDo, Acknowledged, BoardReset, link, managerVars
  <2>2. CASE SendFirst(left)
    BY <2>1, <2>2, UpdateTypes DEF SendFirst
  <2>3. CASE Oops(left) \/ NothingToDo(left) \/ Acknowledged(left) \/ BoardReset(left)
    BY <2>1, <2>3 DEF Oops, NothingToDo, Acknowledged, BoardReset, Running
  <2>. QED
    BY <1>3, <2>2, <2>3
<1>4. CASE SystemHalt \/ SystemReset
  BY <1>3, <1>4 DEF SystemHalt, SystemReset, GoToBootloader
<1>5. CASE TransactionCompleted
  <2>1. Tail(completions) \in Seq(CompletionRecord)
    BY <1>5, HeadTailProperties DEF TransactionCompleted
  <2>. QED
    BY <1>3, <1>5, <2>1 DEF TransactionCompleted
<1>6. CASE SendNext
  BY <1>6, UpdateTypes DEF SendNext, link, managerVars
<1>7. CASE RequestIap
  BY <1>7, <1>r DEF RequestIap, link, managerVars, Running
<1>8. ASSUME NEW ok \in BOOLEAN, Conclude(ok)
      PROVE  Typed
  <2>1. Posted(completions, listening, Completion(transaction = "own", ok))
          \in Seq(CompletionRecord)
    BY PostedType DEF Completion, CompletionRecord
  <2>. QED
    BY <1>8, <2>1 DEF Conclude
<1>9. CASE StopPolling \/ Rescue \/ AutopilotDisconnected \/ Populate
  BY <1>9, <1>r DEF StopPolling, Rescue, AutopilotDisconnected, Populate, SuspendPolling,
       SetPolling, link, managerVars, iap
<1>10. CASE Search \/ \E outcome : Searched(outcome)
  BY <1>10, <1>r DEF Search, Searched, EnterDfu, ResumePolling, SetPolling, link, managerVars, iap
<1>11. CASE Halted \/ Boot
  BY <1>11, <1>r DEF Halted, Boot, SystemBoot, SuspendPolling, SetPolling, link, managerVars, iap
<1>12. ASSUME NEW x, FindDevices(x) \/ Booted(x) \/ Rescued(x)
       PROVE  Typed
  BY <1>12, <1>r DEF FindDevices, Booted, Rescued, ResumePolling, SetPolling, link,
       managerVars, iap
<1>. HIDE DEF Typed
<1>. QED
  BY <1>1, <1>2, <1>4, <1>5, <1>6, <1>7, <1>8, <1>9, <1>10, <1>11, <1>12
     DEF Next, Buttons, Waiting

(* The progress of a halt.                                                 *)
LEMMA StepTypes ==
  ASSUME UploadType, [Next]_vars
  PROVE  step' \in Commands \cup {"READY", "BOOTLOADER"}
<1>. USE DEF UploadType, Commands
<1>1. CASE Telemetry \/ Devices \/ RequestIap \/ UNCHANGED vars
  BY <1>1 DEF Telemetry, StackStopped, Devices, RequestIap, vars, upload, operation, iap, gui
<1>2. CASE AutopilotDisconnected \/ Populate \/ \E ok \in BOOLEAN : Conclude(ok)
  BY <1>2 DEF AutopilotDisconnected, Populate, Conclude, operation, iap, gui
<1>3. CASE SystemHalt \/ SystemReset
  BY <1>3 DEF SystemHalt, SystemReset, GoToBootloader, SendFirst, Oops, NothingToDo
<1>4. CASE TransactionCompleted
  BY <1>4 DEF TransactionCompleted, SendFirst, Oops, NothingToDo, Acknowledged, BoardReset
<1>5. CASE SendNext \/ StopPolling \/ Rescue
  BY <1>5 DEF SendNext, StopPolling, Rescue, iap, gui
<1>6. CASE Search \/ \E outcome : Searched(outcome)
  BY <1>6 DEF Search, Searched, EnterDfu, iap
<1>7. CASE Halted \/ Boot
  BY <1>7 DEF Halted, Boot, SystemBoot, BootEnds, iap
<1>8. ASSUME NEW x, FindDevices(x) \/ Booted(x) \/ Rescued(x)
      PROVE  step' \in Commands \cup {"READY", "BOOTLOADER"}
  BY <1>8 DEF FindDevices, Booted, BootEnds, Rescued, iap, gui
<1>. QED
  BY <1>1, <1>2, <1>3, <1>4, <1>5, <1>6, <1>7, <1>8 DEF Next, Buttons, Waiting

(* The flags of the uploader.                                              *)
LEMMA FlagTypes ==
  ASSUME UploadType, [Next]_vars
  PROVE  dfu' \in BOOLEAN /\ resetOnly' \in BOOLEAN
<1>. USE DEF UploadType
<1>1. CASE Telemetry \/ Devices \/ RequestIap \/ UNCHANGED vars
  BY <1>1 DEF Telemetry, StackStopped, Devices, RequestIap, vars, upload, operation, iap, gui
<1>2. CASE AutopilotDisconnected \/ Populate \/ \E ok \in BOOLEAN : Conclude(ok)
  BY <1>2 DEF AutopilotDisconnected, Populate, Conclude, operation, iap, gui
<1>3. CASE SystemHalt \/ SystemReset
  BY <1>3 DEF SystemHalt, SystemReset, GoToBootloader, SendFirst, Oops, NothingToDo
<1>4. CASE TransactionCompleted
  BY <1>4 DEF TransactionCompleted, SendFirst, Oops, NothingToDo, Acknowledged, BoardReset
<1>5. CASE SendNext \/ StopPolling \/ Rescue
  BY <1>5 DEF SendNext, StopPolling, Rescue, iap, gui
<1>6. CASE Search \/ \E outcome : Searched(outcome)
  BY <1>6 DEF Search, Searched, EnterDfu, iap
<1>7. CASE Halted \/ Boot
  BY <1>7 DEF Halted, Boot, SystemBoot, BootEnds, iap
<1>8. ASSUME NEW x, FindDevices(x) \/ Booted(x) \/ Rescued(x)
      PROVE  dfu' \in BOOLEAN /\ resetOnly' \in BOOLEAN
  BY <1>8 DEF FindDevices, Booted, BootEnds, Rescued, iap, gui
<1>. QED
  BY <1>1, <1>2, <1>3, <1>4, <1>5, <1>6, <1>7, <1>8 DEF Next, Buttons, Waiting

(* What is connected and posted.                                           *)
LEMMA CountTypes ==
  ASSUME UploadType, [Next]_vars
  PROVE  listening' \in Nat /\ lost' \in Nat /\ found' \in Nat
<1>. USE DEF UploadType
<1>1. CASE Telemetry \/ Devices \/ RequestIap \/ UNCHANGED vars
  BY <1>1 DEF Telemetry, StackStopped, Devices, RequestIap, vars, upload, operation, iap, gui
<1>2. CASE AutopilotDisconnected \/ Populate \/ \E ok \in BOOLEAN : Conclude(ok)
  BY <1>2 DEF AutopilotDisconnected, Populate, Conclude, operation, iap, gui
<1>3. CASE SystemHalt \/ SystemReset
  BY <1>3 DEF SystemHalt, SystemReset, GoToBootloader, SendFirst, Oops, NothingToDo
<1>4. CASE TransactionCompleted
  BY <1>4 DEF TransactionCompleted, SendFirst, Oops, NothingToDo, Acknowledged, BoardReset
<1>5. CASE SendNext \/ StopPolling \/ Rescue
  BY <1>5 DEF SendNext, StopPolling, Rescue, iap, gui
<1>6. CASE Search \/ \E outcome : Searched(outcome)
  BY <1>6 DEF Search, Searched, EnterDfu, iap
<1>7. CASE Halted \/ Boot
  BY <1>7 DEF Halted, Boot, SystemBoot, BootEnds, iap
<1>8. ASSUME NEW x, FindDevices(x) \/ Booted(x) \/ Rescued(x)
      PROVE  listening' \in Nat /\ lost' \in Nat /\ found' \in Nat
  BY <1>8 DEF FindDevices, Booted, BootEnds, Rescued, iap, gui
<1>. QED
  BY <1>1, <1>2, <1>3, <1>4, <1>5, <1>6, <1>7, <1>8 DEF Next, Buttons, Waiting

(* The buttons.                                                            *)
LEMMA ButtonTypes ==
  ASSUME UploadType, [Next]_vars
  PROVE  enabled' \subseteq {"halt", "reset", "boot", "rescue"}
<1>. USE DEF UploadType
<1>1. CASE Telemetry \/ Devices \/ RequestIap \/ UNCHANGED vars
  BY <1>1 DEF Telemetry, StackStopped, Devices, RequestIap, vars, upload, operation, iap, gui
<1>2. CASE AutopilotDisconnected \/ Populate \/ \E ok \in BOOLEAN : Conclude(ok)
  BY <1>2 DEF AutopilotDisconnected, Populate, Conclude, operation, iap, gui
<1>3. CASE SystemHalt \/ SystemReset
  BY <1>3 DEF SystemHalt, SystemReset, GoToBootloader, SendFirst, Oops, NothingToDo
<1>4. CASE TransactionCompleted
  BY <1>4 DEF TransactionCompleted, SendFirst, Oops, NothingToDo, Acknowledged, BoardReset
<1>5. CASE SendNext \/ StopPolling \/ Rescue
  BY <1>5 DEF SendNext, StopPolling, Rescue, iap, gui
<1>6. CASE Search \/ \E outcome : Searched(outcome)
  BY <1>6 DEF Search, Searched, EnterDfu, iap
<1>7. CASE Halted \/ Boot
  BY <1>7 DEF Halted, Boot, SystemBoot, BootEnds, iap
<1>8. ASSUME NEW x, FindDevices(x) \/ Booted(x) \/ Rescued(x)
      PROVE  enabled' \subseteq {"halt", "reset", "boot", "rescue"}
  BY <1>8 DEF FindDevices, Booted, BootEnds, Rescued, iap, gui
<1>. QED
  BY <1>1, <1>2, <1>3, <1>4, <1>5, <1>6, <1>7, <1>8 DEF Next, Buttons, Waiting

LEMMA UploadNext == LinkInv /\ UploadType /\ [Next]_vars => UploadType'
<1>. SUFFICES ASSUME LinkInv, UploadType, [Next]_vars
              PROVE  UploadType'
  OBVIOUS
<1>1. frames' \in Seq(Frame)
  <2>1. frames # <<>> => Front(frames) \in Seq(Frame)
    BY FramesKept DEF UploadType
  <2>2. ASSUME NEW s \in Seq(Frame), NEW f \in Frame, frames' = Append(s, f)
        PROVE  frames' \in Seq(Frame)
    BY <2>2, AppendProperties
  <2>3. ASSUME NEW f \in Frame, frames # <<>>, frames' = [frames EXCEPT ![Len(frames)] = f]
        PROVE  frames' \in Seq(Frame)
    BY <2>3, FramesKept DEF UploadType
  <2>4. frames \in Seq(Frame) /\ FrameStep
    BY FrameSteps DEF UploadType
  <2>. QED
    BY <2>1, <2>2, <2>3, <2>4 DEF FrameStep
<1>. QED
  BY <1>1, StepTypes, FlagTypes, CountTypes, ButtonTypes, IapTypes DEF UploadType

(* The type of every variable of the uploader and of the two managers: in  *)
(* particular a transaction on FirmwareIAPObj is open only while there is  *)
(* a stack.                                                                *)
THEOREM UploaderTypes == Spec => []TypeOK
<1>1. Init => LinkInv /\ UploadType
  BY LinkInit, UploadInit
<1>2. LinkInv /\ UploadType /\ [Next]_vars => (LinkInv /\ UploadType)'
  BY LinkNext, UploadNext
<1>3. LinkInv /\ UploadType => TypeOK
  BY LinkGives DEF UploadType, TypeOK, Frame, CompletionRecord
<1>. QED
  BY <1>1, <1>2, <1>3, PTL DEF Spec

-----------------------------------------------------------------------------
(* What may disturb a DFU operation.                                       *)
InnerEnd == \/ frames # <<>> /\ Last(frames) \in DfuWaits /\ frames' = Front(frames)
            \/ dfu /\ ~dfu'

LEMMA DisturbStep ==
  ASSUME UploadType, [Next]_vars, ~Disturbed, Disturbed'
  PROVE  InnerEnd
<1>f. frames \in Seq(Frame)
  BY DEF UploadType
<1>. DEFINE Mine == ToSet(frames) \cap DfuWaits
(* The three ways to leave a state undisturbed that is not disturbed.      *)
<1>1. ASSUME polling' = polling, dfu' = dfu, ToSet(frames') \cap DfuWaits \subseteq Mine
      PROVE  FALSE
  BY <1>1 DEF Disturbed, DfuWaits
<1>2. ASSUME ~polling', dfu' = dfu, "finding" \in ToSet(frames') => "finding" \in Mine
      PROVE  FALSE
  BY <1>2 DEF Disturbed, DfuWaits
<1>3. ASSUME ~polling', dfu'
      PROVE  FALSE
  BY <1>3 DEF Disturbed
<1>4. CASE Telemetry \/ Devices \/ RequestIap \/ UNCHANGED vars
  BY <1>1, <1>4 DEF Telemetry, StackStopped, Devices, RequestIap, vars, upload, operation,
       link, connection, DevChanged, OnConnectClicked, Plug
<1>5. CASE AutopilotDisconnected \/ Populate \/ \E ok \in BOOLEAN : Conclude(ok)
  BY <1>1, <1>5 DEF AutopilotDisconnected, Populate, Conclude, operation, link, connection
<1>6. CASE SystemHalt \/ SystemReset
  <2>1. UNCHANGED <<polling, frames>>
    BY <1>6 DEF SystemHalt, SystemReset, GoToBootloader, SendFirst, Oops, NothingToDo,
         link, connection
  <2>2. dfu' \in {dfu, FALSE}
    BY <1>6 DEF SystemHalt, SystemReset
  <2>. QED
    BY <1>1, <2>1, <2>2 DEF InnerEnd, UploadType
<1>7. CASE TransactionCompleted
  <2>1. polling' = polling /\ dfu' = dfu
    BY <1>7 DEF TransactionCompleted, SendFirst, Oops, NothingToDo, Acknowledged, BoardReset,
         link, connection
  <2>2. UNCHANGED frames \/ \E f \in Frame \ DfuWaits : frames' = Append(frames, f)
    BY <1>7 DEF TransactionCompleted, SendFirst, Oops, NothingToDo, Acknowledged, BoardReset,
         Enter, Frame, DfuWaits
  <2>3. ToSet(frames') \cap DfuWaits \subseteq Mine
    BY <1>f, <2>2, FramesKept
  <2>. QED
    BY <1>1, <2>1, <2>3
<1>8. CASE SendNext
  <2>1. frames # <<>> /\ frames' = Front(frames)
    BY <1>8 DEF SendNext, Waits
  <2>2. ToSet(frames') \cap DfuWaits \subseteq Mine
    BY <1>f, <2>1, FramesKept
  <2>. QED
    BY <1>1, <1>8, <2>2 DEF SendNext, link, connection
<1>9. CASE StopPolling
  <2>1. frames # <<>> /\ frames' = [frames EXCEPT ![Len(frames)] = "halted"]
    BY <1>9 DEF StopPolling, Waits, Become
  <2>2. ToSet(frames') \subseteq ToSet(frames) \cup {"halted"}
    BY <1>f, <2>1, FramesKept DEF Frame, DfuWaits
  <2>. QED
    BY <1>2, <1>9, <2>2 DEF StopPolling, SuspendPolling, SetPolling, DfuWaits
<1>10. ASSUME NEW f \in DfuWaits, Waits(f)
       PROVE  ~polling
  BY <1>10, <1>f, FramesKept DEF Waits, Disturbed
<1>11. ASSUME NEW outcome, NEW at, EnterDfu(outcome, at), NEW f \in DfuWaits, Waits(f)
       PROVE  InnerEnd
  <2>1. CASE outcome = "board"
    <3>1. ~polling /\ UNCHANGED polling
      BY <1>10, <1>11, <2>1 DEF EnterDfu, link, connection
    <3>. QED
      BY <1>3, <1>11, <2>1, <3>1 DEF EnterDfu
  <2>2. CASE outcome # "board"
    BY <1>11, <2>2 DEF EnterDfu, InnerEnd, Waits
  <2>. QED
    BY <2>1, <2>2
<1>12. CASE Search
  <2>1. CASE \E outcome : EnterDfu(outcome, "BOOTLOADER")
    BY <1>11, <1>12, <2>1 DEF Search, DfuWaits
  <2>2. CASE Become("searching") /\ UNCHANGED <<link, dfu>>
    <3>1. ToSet(frames') \subseteq ToSet(frames) \cup {"searching"}
      BY <1>f, <1>12, <2>2, FramesKept DEF Search, Waits, Become, Frame, DfuWaits
    <3>2. ~polling /\ UNCHANGED <<polling, dfu>>
      BY <1>10, <1>12, <2>2 DEF Search, DfuWaits, link, connection
    <3>3. "finding" \in ToSet(frames') => "finding" \in Mine
      BY <3>1 DEF DfuWaits
    <3>. QED
      BY <1>2, <3>2, <3>3
  <2>. QED
    BY <1>12, <2>1, <2>2 DEF Search
<1>13. ASSUME NEW outcome, Searched(outcome)
       PROVE  InnerEnd
  BY <1>11, <1>13 DEF Searched, DfuWaits
<1>14. ASSUME NEW devices, FindDevices(devices)
       PROVE  InnerEnd
  <2>1. CASE devices = "some"
    <3>1. ~polling /\ UNCHANGED <<polling, dfu>> /\ dfu
      BY <1>10, <1>14, <2>1 DEF FindDevices, DfuWaits, link, connection
    <3>. QED
      BY <1>3, <3>1
  <2>2. CASE devices # "some"
    BY <1>14, <2>2 DEF FindDevices, InnerEnd, Waits, DfuWaits
  <2>. QED
    BY <2>1, <2>2
<1>15. ASSUME NEW under, SystemBoot(under), under \in Seq(Frame), ToSet(under) \subseteq ToSet(frames)
       PROVE  InnerEnd
  <2>1. CASE dfu /\ ~dfu'
    BY <2>1 DEF InnerEnd
  <2>2. CASE ~dfu /\ Enter(under, "booting") /\ SuspendPolling(DisconnectDevice(Current))
             /\ UNCHANGED dfu
    <3>1. ToSet(frames') = ToSet(under) \cup {"booting"}
      BY <1>15, <2>2, FramesKept DEF Enter, Frame, DfuWaits
    <3>. QED
      BY <1>2, <1>15, <2>2, <3>1 DEF SuspendPolling, SetPolling, DfuWaits
  <2>. QED
    BY <1>15, <2>1, <2>2 DEF SystemBoot, BootEnds
<1>16. CASE Halted
  <2>1. Front(frames) \in Seq(Frame) /\ ToSet(Front(frames)) \subseteq ToSet(frames)
    BY <1>f, <1>16, FramesKept DEF Halted, Waits
  <2>2. CASE SystemBoot(Front(frames))
    BY <1>15, <2>1, <2>2
  <2>3. CASE frames' = Front(frames) /\ UNCHANGED <<link, dfu>>
    BY <1>1, <2>1, <2>3 DEF link, connection
  <2>. QED
    BY <1>16, <2>2, <2>3 DEF Halted
<1>17. CASE Boot
  BY <1>f, <1>15, <1>17 DEF Boot
<1>18. ASSUME NEW ok, Booted(ok)
       PROVE  InnerEnd
  BY <1>18 DEF Booted, BootEnds, InnerEnd, Waits, DfuWaits
<1>19. CASE Rescue
  <2>1. ToSet(frames') = ToSet(frames) \cup {"rescuing"}
    BY <1>f, <1>19, FramesKept DEF Rescue, Enter, Frame, DfuWaits
  <2>2. dfu \/ dfu' = dfu
    BY <1>19 DEF Rescue, UploadType
  <2>. QED
    BY <1>2, <1>19, <2>1, <2>2 DEF Rescue, SuspendPolling, SetPolling, InnerEnd, DfuWaits
<1>20. ASSUME NEW how, Rescued(how)
       PROVE  InnerEnd
  BY <1>20 DEF Rescued, InnerEnd, Waits, DfuWaits
<1>. QED
  BY <1>4, <1>5, <1>6, <1>7, <1>8, <1>9, <1>12, <1>13, <1>14, <1>16, <1>17, <1>18, <1>19, <1>20
     DEF Next, Buttons, Waiting

(* Whatever waits inside whatever, and whichever button is clicked when it *)
(* is enabled: polling gets under way while the uploader has a DFU object  *)
(* or waits for one, or goToBootloader loses the object it is about to     *)
(* use, only as an operation that began inside its wait ends or deletes    *)
(* the object (goToBootloader, systemReset, commonSystemBoot,              *)
(* systemRescue).  No other slot, device or thread disturbs it.            *)
THEOREM InnerEndsAlone == Spec => OnlyInnerEndsDisturb
<1>1. UploadType /\ [Next]_vars
        => [~Disturbed /\ Disturbed' =>
              \/ frames # <<>> /\ Last(frames) \in DfuWaits /\ frames' = Front(frames)
              \/ dfu /\ ~dfu']_vars
  BY DisturbStep DEF InnerEnd
<1>2. LinkInv /\ UploadType /\ [Next]_vars => UploadType'
  BY UploadNext
<1>. QED
  BY <1>1, <1>2, UploadInit, LinkInvariant, PTL DEF Spec, OnlyInnerEndsDisturb
=============================================================================
