------------------------------ MODULE PathPlan ------------------------------
(***************************************************************************)
(* Sending a path plan to the board and reading it back                    *)
(* (opmap/modeluavoproxy.cpp).  The rows of the editor become instances of *)
(* Waypoint and PathAction and a PathPlan with their numbers and a check   *)
(* sum; the objects are then sent, or requested, one after the other, each *)
(* with one transaction that may fail.  The board is the other end of      *)
(* these transactions and not part of the repository.                      *)
(*                                                                         *)
(* A position stands for the fields of a Waypoint.  The fields of a        *)
(* PathAction are told apart by whether findPathAction compares them: a    *)
(* key stands for those it compares, rest for the fourth mode and condition *)
(* parameters, which it does not.  The check sum is a number of eight bits, *)
(* any function of the waypoints and actions it covers: different plans    *)
(* may share it, and a plan of parts of several is then accepted.          *)
(***************************************************************************)
EXTENDS Integers, Sequences, SequencesExt

CONSTANTS Position, Key, Rest,  \* the values of the three parts of a row
          Crc(_, _),            \* the check sum of waypoints and actions
          ActionWidth,          \* the values of Waypoint.Action, 256
          MaxRows,              \* bound on the rows of the editor
          MaxSends              \* bound on the plans sent

ASSUME PlanAssumption == /\ Position # {} /\ Key # {} /\ Rest # {}
                         /\ ActionWidth \in Nat \ {0}
                         /\ MaxRows \in Nat /\ MaxSends \in Nat

VARIABLES rows,                 \* the table of the editor
          gcs,                  \* the objects of the station
          board,                \* the objects of the board
          op,                   \* the operation in progress and its next object
          result,               \* how the last operation ended
          sends,                \* how many plans were sent
          written               \* history: the plans modelToObjects has summed up

vars == <<rows, gcs, board, op, result, sends, written>>

-----------------------------------------------------------------------------
(* Objects.  Instance i of an object is element i + 1 of its sequence; both *)
(* objects start with one instance, of which nobody has set the fields.    *)
Action   == [key : Key, rest : Rest]
Row      == [position : Position, key : Key, rest : Rest]
Waypoint == [position : Position, action : 0..ActionWidth - 1]
CrcValue == 0..255

Lists(S) == UNION {[1..n -> S] : n \in 0..MaxRows}

ASSUME CrcAssumption ==
  \A ws \in Lists(Waypoint), as \in Lists(Action) : Crc(ws, as) \in CrcValue

Unset == [position |-> CHOOSE p \in Position : TRUE, action |-> 0]
UnsetAction == [key |-> CHOOSE k \in Key : TRUE, rest |-> CHOOSE r \in Rest : TRUE]

Fresh == [waypoints |-> <<Unset>>, actions |-> <<UnsetAction>>,
          plan |-> [waypoints |-> 0, actions |-> 0, crc |-> Crc(<<>>, <<>>)]]

\* The instances the plan counts; what is behind them is left of other plans.
Used(o) == <<SubSeq(o.waypoints, 1, o.plan.waypoints),
             SubSeq(o.actions, 1, o.plan.actions)>>

\* Variant with a plausible mistake: the check sum is not looked at.
ConsistentCounts(o) == /\ o.plan.waypoints <= Len(o.waypoints)
                       /\ o.plan.actions <= Len(o.actions)

\* Every instance the plan counts is there, and the check sum is right.
Consistent(o) == /\ o.plan.waypoints <= Len(o.waypoints)
                 /\ o.plan.actions <= Len(o.actions)
                 /\ o.plan.crc = Crc(Used(o)[1], Used(o)[2])

\* The instances of old from the length of new on stay as they are.
Over(old, new) == new \o SubSeq(old, Len(new) + 1, Len(old))

-----------------------------------------------------------------------------
(* modelToObjects: one waypoint per row, one action for all rows that look *)
(* alike.                                                                  *)
Found(actions, r) == {i \in DOMAIN actions : actions[i].key = r.key}

Add(actions, r) == IF Found(actions, r) # {} THEN actions
                   ELSE Append(actions, [key |-> r.key, rest |-> r.rest])

Compressed(rs) == FoldLeft(Add, <<>>, rs)

\* Variant with a plausible mistake: actions are counted from one.
ToWaypointFromOne(r, actions) ==
  [position |-> r.position, action |-> CHOOSE j \in Found(actions, r) : TRUE]

\* Waypoint.Action is a number of eight bits.
ToWaypoint(r, actions) ==
  LET i == CHOOSE j \in Found(actions, r) : TRUE
  IN  [position |-> r.position, action |-> (i - 1) % ActionWidth]

ModelToObjects(rs, o) ==
  LET as == Compressed(rs)
      ws == [i \in DOMAIN rs |-> ToWaypoint(rs[i], as)]
  IN  [waypoints |-> Over(o.waypoints, ws), actions |-> Over(o.actions, as),
       plan |-> [waypoints |-> Len(ws), actions |-> Len(as), crc |-> Crc(ws, as)]]

\* objectsToModel: a row for each waypoint of the plan.  Where the action it names
\* is not there, the row keeps what it has: new says what that is in a new row.
ObjectsToModel(o, rs, new) ==
  [i \in 1..o.plan.waypoints |->
     LET w == o.waypoints[i]
         a == CASE w.action + 1 \in DOMAIN o.actions -> o.actions[w.action + 1]
                [] w.action + 1 \notin DOMAIN o.actions /\ i \in DOMAIN rs -> rs[i]
                [] OTHER -> new
     IN  [position |-> w.position, key |-> a.key, rest |-> a.rest]]

-----------------------------------------------------------------------------
(* An operation takes the objects in turn: number 0 is the PathPlan, the   *)
(* waypoints follow and then the actions, as many as the plan counts.      *)
Idle     == [type |-> "idle", next |-> 0]
Begin(t) == [type |-> t, next |-> 0]

Final(o) == o.plan.waypoints + o.plan.actions

Has(o, waypoints, n) == \/ n = 0
                        \/ n \in 1..waypoints /\ n <= Len(o.waypoints)
                        \/ n > waypoints /\ n - waypoints <= Len(o.actions)

Put(s, i, v) == IF i > Len(s) THEN Append(s, v) ELSE [s EXCEPT ![i] = v]

\* Object n arrives: to after the transaction.
Copy(from, to, waypoints, n) ==
  IF n = 0 THEN [to EXCEPT !.plan = from.plan]
  ELSE IF n <= waypoints
       THEN [to EXCEPT !.waypoints = Put(@, n, from.waypoints[n])]
       ELSE [to EXCEPT !.actions = Put(@, n - waypoints, from.actions[n - waypoints])]

Init == /\ rows = <<>> /\ gcs = Fresh /\ board = Fresh
        /\ op = Idle /\ result = "none" /\ sends = 0
        /\ written = {<< <<>>, <<>> >>}

\* The user edits the table; a modal dialog keeps him from it meanwhile.
Edit(rs) == /\ op = Idle /\ rs # rows
            /\ rows' = rs /\ result' = "none"
            /\ UNCHANGED <<gcs, board, op, sends, written>>

SendPathPlan == /\ op = Idle /\ sends < MaxSends
                /\ gcs' = ModelToObjects(rows, gcs)
                /\ written' = written \cup {Used(gcs')}
                /\ op' = Begin("send") /\ result' = "none" /\ sends' = sends + 1
                /\ UNCHANGED <<rows, board>>

ReceivePathPlan == /\ op = Idle
                   /\ op' = Begin("receive") /\ result' = "none"
                   /\ UNCHANGED <<rows, gcs, board, sends, written>>

Fail == /\ op' = Idle /\ result' = "failed"

-----------------------------------------------------------------------------
(* One transaction of an operation.  One that fails may have reached the   *)
(* other end all the same, when only its answer was lost.                  *)
\* Variant with a plausible mistake: the next object is sent all the same, and the
\* last transaction decides.
SendObjectRegardless(ok, arrives) ==
  /\ op.type = "send"
  /\ ok => arrives
  /\ board' = IF arrives THEN Copy(gcs, board, gcs.plan.waypoints, op.next) ELSE board
  /\ IF op.next < Final(gcs) THEN op' = [op EXCEPT !.next = @ + 1] /\ UNCHANGED result
     ELSE IF ok THEN op' = Idle /\ result' = "sent" ELSE Fail
  /\ UNCHANGED <<rows, gcs, sends, written>>

SendObject(ok, arrives) ==
  /\ op.type = "send"
  /\ ok => arrives
  /\ board' = IF arrives THEN Copy(gcs, board, gcs.plan.waypoints, op.next) ELSE board
  /\ CASE ~ok                      -> Fail
       [] ok /\ op.next < Final(gcs) -> op' = [op EXCEPT !.next = @ + 1] /\ UNCHANGED result
       [] OTHER                    -> op' = Idle /\ result' = "sent"
  /\ UNCHANGED <<rows, gcs, sends, written>>

\* Before the first waypoint and before the first action is requested the
\* missing instances are registered.
Extended(s, n, v) == s \o [i \in 1..(n - Len(s)) |-> v]

Allocated(o, n) ==
  [o EXCEPT !.waypoints = IF n = 0 THEN Extended(@, o.plan.waypoints, Unset) ELSE @,
            !.actions = IF n = o.plan.waypoints
                        THEN Extended(@, o.plan.actions, UnsetAction) ELSE @]

\* Variant with a plausible mistake: the check sum is that of all instances.
AcceptAll(o) ==
  IF o.plan.crc = Crc(o.waypoints, o.actions)
  THEN /\ \E new \in Action : rows' = ObjectsToModel(o, rows, new)
       /\ result' = "received"
  ELSE result' = "refused" /\ UNCHANGED rows

\* objectsToModel refuses a plan with missing instances or a wrong check sum.
Accept(o) ==
  IF Consistent(o)
  THEN /\ \E new \in Action : rows' = ObjectsToModel(o, rows, new)
       /\ result' = "received"
  ELSE result' = "refused" /\ UNCHANGED rows

\* Variant with a plausible mistake: a request that fails is passed over.
ReceiveObjectRegardless(ok, arrives) ==
  LET n == op.next
      o == IF arrives THEN Copy(board, gcs, gcs.plan.waypoints, n) ELSE gcs
  IN  /\ op.type = "receive"
      /\ ok => arrives
      /\ arrives => Has(board, gcs.plan.waypoints, n)
      /\ gcs' = Allocated(o, n)
      /\ IF n < Final(o)
         THEN op' = [op EXCEPT !.next = @ + 1] /\ UNCHANGED <<rows, result>>
         ELSE op' = Idle /\ Accept(gcs')
      /\ UNCHANGED <<board, sends, written>>

ReceiveObject(ok, arrives) ==
  LET n == op.next
      o == IF arrives THEN Copy(board, gcs, gcs.plan.waypoints, n) ELSE gcs
  IN  /\ op.type = "receive"
      /\ ok => arrives
      /\ arrives => Has(board, gcs.plan.waypoints, n)
      /\ IF ~ok THEN gcs' = o /\ Fail /\ UNCHANGED rows
         ELSE /\ gcs' = Allocated(o, n)
              /\ IF n < Final(o)
                 THEN op' = [op EXCEPT !.next = @ + 1] /\ UNCHANGED <<rows, result>>
                 ELSE op' = Idle /\ Accept(gcs')
      /\ UNCHANGED <<board, sends, written>>

\* Either side starts afresh: the board breaks an operation off.
BoardRestart == /\ board' = Fresh
                /\ IF op = Idle THEN result' = "none" /\ UNCHANGED op ELSE Fail
                /\ UNCHANGED <<rows, gcs, sends, written>>

GcsRestart == /\ rows' = <<>> /\ gcs' = Fresh
              /\ op' = Idle /\ result' = "none"
              /\ UNCHANGED <<board, sends, written>>

-----------------------------------------------------------------------------
Tables == Lists(Row)

Next == \/ \E rs \in Tables : Edit(rs)
        \/ SendPathPlan \/ ReceivePathPlan
        \/ \E ok, arrives \in BOOLEAN : SendObject(ok, arrives) \/ ReceiveObject(ok, arrives)
        \/ BoardRestart \/ GcsRestart

Spec == Init /\ [][Next]_vars

-----------------------------------------------------------------------------
Objects == [waypoints : Seq(Waypoint), actions : Seq(Action),
            plan : [waypoints : Nat, actions : Nat, crc : CrcValue]]

\* The type of every variable; an operation never runs past its last object.
TypeOK == /\ rows \in Tables
          /\ gcs \in Objects /\ board \in Objects
          /\ op.type \in {"idle", "send", "receive"}
          /\ op.next \in 0..Final(gcs)
          /\ result \in {"none", "sent", "received", "failed", "refused"}
          /\ sends \in 0..MaxSends
          /\ written \subseteq Seq(Waypoint) \X Seq(Action)

\* Every waypoint of the plan names an action of the plan.
Closed(o) == \A i \in 1..o.plan.waypoints : o.waypoints[i].action + 1 \in 1..o.plan.actions

\* The rows are what the plan says: waypoint by waypoint, each with its action.
Means(o, rs) ==
  /\ o.plan.waypoints = Len(rs)
  /\ Closed(o)
  /\ \A i \in 1..Len(rs) :
       LET w == o.waypoints[i]
           a == o.actions[w.action + 1]
       IN  rs[i] = [position |-> w.position, key |-> a.key, rest |-> a.rest]

\* A plan reported sent is on the board, and means what the table says.
SentPlanArrives == result = "sent" => Consistent(board) /\ Means(board, rows)

\* What the editor shows after a plan was read back is the plan on the board, with
\* nothing of what the station had before, of older instances or of a request that
\* failed on the way: unless that plan, of parts of several with the right check
\* sum, names an action it does not have.
ReceivedPlanIsTheBoards ==
  result = "received" => Consistent(board) /\ (Closed(board) => Means(board, rows))

\* A plan that was read back has the counts and the check sum of one that was
\* summed up for sending, or of the one a board starts with: parts of several plans
\* are taken for a plan only if the check sum cannot tell them from that one.
ReceivedPlanIsVouched ==
  result = "received" =>
    \E plan \in written : /\ Len(plan[1]) = gcs.plan.waypoints
                          /\ Len(plan[2]) = gcs.plan.actions
                          /\ Crc(plan[1], plan[2]) = Crc(Used(gcs)[1], Used(gcs)[2])

\* A plan is refused only if what lies on the board is not a whole plan.
RefusedOnlyIfTorn == result = "refused" => ~Consistent(board)
=============================================================================
