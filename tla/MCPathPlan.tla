---------------------------- MODULE MCPathPlan -----------------------------
(* Instances of PathPlan for TLC.                                          *)
EXTENDS PathPlan

CONSTANTS here, there, go, hold, slow, fast

Positions   == {here, there}
Keys        == {go, hold}
OneRest     == {slow}
TwoRests    == {slow, fast}
OnePosition == {here}

\* A check sum that sees a single change but not an exchange: the parity of the
\* waypoints there and of the actions to hold.  It does not see Waypoint.Action.
Parity(waypoints, actions) ==
  (Cardinality({i \in DOMAIN waypoints : waypoints[i].position # here})
     + Cardinality({i \in DOMAIN actions : actions[i].key # go})) % 2
=============================================================================
