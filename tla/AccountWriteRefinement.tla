----------------------- MODULE AccountWriteRefinement -----------------------
(***************************************************************************)
(* InvocationLedger implements AccountWrite: the rows of the ledger, seen  *)
(* through this mapping, take only the steps that the host was promised.   *)
(***************************************************************************)
EXTENDS InvocationLedger

\* A row is the erasure's from the moment it is frozen; a blanked row has
\* lost the evidence that every other row of an account write has.
IsErased(row) ==
    row.status # "absent" /\ (row.status = "erasing" \/ row.evidence = NoEvidence)

\* A running row is claimed, or called when its one provider call was made.
PhaseOf(i) ==
    LET row == ledger[i] IN
    IF row.status = "absent" THEN "free"
    ELSE IF IsErased(row) THEN "erased"
    ELSE IF row.status = "running" THEN IF io[i] = 0 THEN "claimed" ELSE "called"
    ELSE row.status

ContentOf(i) == IF IsErased(ledger[i]) THEN NoContent ELSE ledger[i].evidence.content

Contract ==
    INSTANCE AccountWrite WITH
        Writes <- WriteIds,
        phase <- [i \in WriteIds |-> PhaseOf(i)],
        content <- [i \in WriteIds |-> ContentOf(i)],
        effect <- [i \in WriteIds |-> effect[i]],
        told <- [i \in WriteIds |-> told[i]]

\* The ledger keeps the promises of AccountWrite: requests that race, retry
\* and crash, the reconciler and the erasure together never make a second
\* claim or call, settle a write against what the provider did, change its
\* payload or outcome, erase it while it is open, or give a reply that is not
\* true (src/README.md: "Repeated, failed, in-flight and crash-interrupted
\* requests are never reset or automatically sent again").
ImplementsAccountWrite == Contract!Spec

=============================================================================
