--------------------------- MODULE MCOAuthSession ---------------------------
(* Instances of OAuthSession for TLC. *)
EXTENDS OAuthSession, TLC

CONSTANTS p1, p2, p3

ProcSymmetry == Permutations(Procs)

=============================================================================
