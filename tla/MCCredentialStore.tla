------------------------- MODULE MCCredentialStore -------------------------
(* Instances of CredentialStore for TLC. *)
EXTENDS CredentialStore

CONSTANTS p1, p2

\* The two fields an OAuth provider rotates, sorted.
TwoFields == <<"access_token", "refresh_token">>

ProcSymmetry == Permutations(Procs)

=============================================================================
