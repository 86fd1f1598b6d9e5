------------------------- MODULE MCTelemetryMonitor -------------------------
(***************************************************************************)
(* Instances of TelemetryMonitor for TLC.  The larger one retrieves        *)
(* FirmwareIAPObj and an object transacted without a connection            *)
(* (OPLinkSettings), and has one that only other parts of the ground       *)
(* station ask for.                                                        *)
(***************************************************************************)
EXTENDS TelemetryMonitor

CONSTANTS
  meta,     \* a metaobject
  oplink,   \* OPLinkSettings
  iap,      \* FirmwareIAPObj
  other     \* a data object that is not retrieved

AllObj == {oplink, iap, other}
RetrievedObj == {oplink, iap}
FewObj == {meta, iap}
OPLinkOnly == {oplink}
NoHandshake == {}
=============================================================================
