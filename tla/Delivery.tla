------------------------------ MODULE Delivery ------------------------------
(***************************************************************************)
(* What one direction of the serial link promises its user, whatever the   *)
(* line loses: packets arrive in the order they were sent, none twice, and *)
(* the packet reported acknowledged has arrived.                           *)
(*                                                                         *)
(* The promise has one hole, which the numbering of the packets leaves:    *)
(* when a whole cycle of numbers is lost, or several, the next packet      *)
(* carries the number of the last one that arrived and is taken for a copy *)
(* of it.                                                                  *)
(***************************************************************************)
EXTENDS Integers, Sequences, SequencesExt

CONSTANT Cycle              \* packets have the numbers 1..Cycle in turn

VARIABLES sent,             \* how many packets were sent
          got,              \* which of them have arrived, in order of arrival
          confirmed         \* which of them were reported acknowledged

vars == <<sent, got, confirmed>>

Arrived(i) == i \in ToSet(got)

\* Packet i cannot be told from the last one that arrived.
Mistakable(i) == got # <<>> /\ (i - Last(got)) % Cycle = 0

Init == sent = 0 /\ got = <<>> /\ confirmed = {}

Send == /\ sent' = sent + 1
        /\ UNCHANGED <<got, confirmed>>

Arrive(i) == /\ \A j \in ToSet(got) : j < i
             /\ got' = Append(got, i)
             /\ UNCHANGED <<sent, confirmed>>

Confirm(i) == /\ Arrived(i) \/ Mistakable(i)
              /\ confirmed' = confirmed \cup {i}
              /\ UNCHANGED <<sent, got>>

Next == \/ Send
        \/ \E i \in 1..sent : Arrive(i) \/ (i = sent /\ Confirm(i))

Spec == Init /\ [][Next]_vars
=============================================================================
