---------------------------- MODULE MCSspThread ----------------------------
(* Instances of SspThread for TLC.                                         *)
EXTENDS SspThread

EarlierNumbers == {<<n, n>> : n \in 0..MaxSeq}
=============================================================================
