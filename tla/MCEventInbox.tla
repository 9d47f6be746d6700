---------------------------- MODULE MCEventInbox ----------------------------
(* Instances of EventInbox for TLC. *)
EXTENDS EventInbox, TLC

CONSTANTS p1, p2, p3

ProcSymmetry == Permutations(Procs)

=============================================================================
