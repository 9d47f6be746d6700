------------------------ MODULE MCInvocationLedger ------------------------
(* Small instances of InvocationLedger. *)
EXTENDS AccountWriteRefinement, TLC

CONSTANTS k1, k2

\* Which persistence modes callers use with a RequestID.
NoCalls == [i \in {} |-> {}]
OnlySensitive == [i \in {k1} |-> {"sensitive"}]
BothModes == [i \in {k1} |-> {"standard", "sensitive"}]
ModePerCall == [i \in {k1, k2} |-> IF i = k1 THEN {"sensitive"} ELSE {"standard"}]

\* Processes are interchangeable.
ProcSymmetry == Permutations(Procs)
==========================================================================
