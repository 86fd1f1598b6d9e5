---------------------------- MODULE MCTelemetry ----------------------------
(***************************************************************************)
(* Instances of Telemetry for TLC.  Transactions of different objects do   *)
(* not touch each other, so an object with several instances and a pair of *)
(* single ones (a metaobject and one of the objects admitted before the    *)
(* connection is established) are checked apart.                           *)
(***************************************************************************)
EXTENDS Telemetry

CONSTANTS
  m,      \* an object with several instances
  s,      \* a single-instance object
  meta,   \* a metaobject
  stats   \* GCSTelemetryStats

MultiObj == {m}
OneObj == {s}
MetaAndStats == {meta, stats}
OneMeta == {meta}
OneStats == {stats}
NoObj == {}
=============================================================================
