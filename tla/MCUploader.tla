----------------------------- MODULE MCUploader -----------------------------
(***************************************************************************)
(* Instances of Uploader for TLC: a USB and a serial device.               *)
(***************************************************************************)
EXTENDS Uploader, FiniteSets

CONSTANTS usb, serial, u1, s1

Ports      == {usb, serial}
OneUsb     == {usb}
UsbHandles == {u1}
Handles    == {u1, s1}

\* Bounds: one device is known at a time, and a wait is followed further inside
\* another one only if both are for a DFU object and the telemetry thread has
\* nothing left to do.
Bounds ==
  /\ Cardinality(plugged \cup devList) <= 1
  /\ Len(frames) = 2 => /\ ToSet(frames) \subseteq DfuWaits
                        /\ manager.posted = <<>> /\ ~Running /\ completions = <<>>

\* States that differ only in whose a transaction is behave alike; BoardIsReset
\* alone tells them apart.
Transactions == [open |-> transaction # "none",
                 posted |-> [i \in DOMAIN completions |-> completions[i].ok]]

View == <<link, operation, listening, Transactions, gui>>
=============================================================================
