------------------------ MODULE MCConnectionAccounts ------------------------
(* Instances of ConnectionAccounts for TLC. *)
EXTENDS ConnectionAccounts, TLC

CONSTANTS c1, c2, s1, s2, p1, p2

\* c1 is the connection that an OAuth session provisions, with token s1.
Tokens == c1 :> s1

ProcSymmetry == Permutations(Procs)

=============================================================================
