---------------------------- MODULE MCObjectSave ----------------------------
(***************************************************************************)
(* Instances of ObjectSave for TLC: two objects, or one.                   *)
(***************************************************************************)
EXTENDS ObjectSave

CONSTANTS a, b, idA, idB

TwoObj == {a, b}
TwoIds == [o \in {a, b} |-> IF o = a THEN idA ELSE idB]
OneObj == {a}
ItsId == [o \in {a} |-> idA]
=============================================================================
