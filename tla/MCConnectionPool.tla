-------------------------- MODULE MCConnectionPool --------------------------
(* Instances of ConnectionPool for TLC. *)
EXTENDS ConnectionPool

All == Collecting \cup Nesting \cup InTransaction

=============================================================================
