-------------------------- MODULE TelemetryManager --------------------------
(***************************************************************************)
(* The telemetry manager (uavtalk/telemetrymanager.cpp): the GUI thread    *)
(* starts and stops it, the telemetry thread builds and deletes the stack  *)
(* (UAVTalk, Telemetry, TelemetryMonitor) when it gets round to what was   *)
(* posted to it.                                                           *)
(*                                                                         *)
(* start and stop are calls within a step of the GUI thread and are given  *)
(* here as functions of the manager; ConnectionManager calls them.         *)
(***************************************************************************)
EXTENDS Sequences

CONSTANTS Handle,           \* the QIODevice objects there may be at one time
          NoHandle

ASSUME HandleAssumption == NoHandle \notin Handle

VARIABLES manager,          \* m_connectionState, m_telemetryDevice, and the
                            \* events posted to the telemetry thread
          stack,            \* the device of the running stack, and whether its
                            \* monitor announced the connection last
          alive             \* the device objects that exist

managerVars == <<manager, stack, alive>>

States   == {"DISCONNECTED", "CONNECTING", "CONNECTED", "DISCONNECTING"}
Event(t) == [type |-> t, device |-> NoHandle]
Delete(h) == [type |-> "delete", device |-> h]
NoStack  == [device |-> NoHandle, connected |-> FALSE]

ManagerInit == /\ manager = [state |-> "DISCONNECTED", device |-> NoHandle,
                             posted |-> <<>>]
               /\ stack = NoStack /\ alive = {}

Post(m, e) == [m EXCEPT !.posted = Append(@, e)]

Start(m, h) == Post([m EXCEPT !.state = "CONNECTING", !.device = h], Event("start"))

\* Variant with a plausible mistake: nothing to stop without a connection.
StopIfConnected(m) ==
  IF m.state = "CONNECTED" THEN Post([m EXCEPT !.state = "DISCONNECTING"], Event("stop"))
  ELSE m

Stop(m) == Post([m EXCEPT !.state = "DISCONNECTING"], Event("stop"))

-----------------------------------------------------------------------------
(* The telemetry thread.                                                   *)
Next1(t) == manager.posted # <<>> /\ Head(manager.posted).type = t

\* The device is the one set last, not the one set when the event was posted.
\* If it was deleted meanwhile what follows is undefined; the model goes on.
OnStart == /\ Next1("start")
           /\ stack' = [device |-> manager.device, connected |-> FALSE]
           /\ manager' = [manager EXCEPT !.posted = Tail(@)]
           /\ UNCHANGED alive

\* Variant with a plausible mistake: the state is left as it is.
OnStopQuiet == /\ Next1("stop")
               /\ stack' = NoStack
               /\ manager' = [manager EXCEPT !.posted = Tail(@)]
               /\ UNCHANGED alive

OnStop == /\ Next1("stop")
          /\ stack' = NoStack
          /\ manager' = [manager EXCEPT !.posted = Tail(@), !.state = "DISCONNECTED"]
          /\ UNCHANGED alive

\* deleteLater of a device that was moved to the telemetry thread.
OnDelete == /\ Next1("delete")
            /\ alive' = alive \ {Head(manager.posted).device}
            /\ manager' = [manager EXCEPT !.posted = Tail(@)]
            /\ UNCHANGED stack

Running == stack.device # NoHandle

OnConnect == /\ Running
             /\ stack' = [stack EXCEPT !.connected = TRUE]
             /\ manager' = [manager EXCEPT !.state = "CONNECTED"]
             /\ UNCHANGED alive

OnDisconnect == /\ Running
                /\ stack' = [stack EXCEPT !.connected = FALSE]
                /\ manager' = [manager EXCEPT !.state = "DISCONNECTED"]
                /\ UNCHANGED alive

-----------------------------------------------------------------------------
ManagerTypeOK ==
  /\ manager.state \in States
  /\ manager.device \in Handle \cup {NoHandle}
  /\ manager.posted \in Seq([type : {"start", "stop", "delete"},
                             device : Handle \cup {NoHandle}])
  /\ stack \in [device : Handle \cup {NoHandle}, connected : BOOLEAN]
  /\ alive \subseteq Handle

\* Starts and stops alternate at the telemetry thread: a stack is built only
\* where there is none, and only one that was built is deleted (its pointers
\* are not checked, onStart and onStop).
StartsAndStopsAlternate ==
  /\ Next1("start") => ~Running
  /\ Next1("stop") => Running

\* Once nothing is posted the state says CONNECTED if and only if the stack
\* that runs announced its connection, however stop and start crossed the
\* announcements of the old stack.
StateIsTrue == manager.posted = <<>> => (manager.state = "CONNECTED" <=> stack.connected)
=============================================================================
