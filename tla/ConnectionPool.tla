--------------------------- MODULE ConnectionPool ---------------------------
(***************************************************************************)
(* The connections of the host's sql.DB and how the stores hold them.  The *)
(* standalone server opens one connection (SetMaxOpenConns(1)); requests   *)
(* and workers queue for it.                                               *)
(*                                                                         *)
(* A store operation has one of three shapes: it reads a cursor to its end *)
(* and then queries for each row it found (ListConnectionAccounts, and the *)
(* scans of the workers); it queries for each row while the cursor is open *)
(* (ListEvents, synchronizeProviderTasks); or it runs its statements in a  *)
(* transaction (withTransaction).  What the statements do is left out.     *)
(***************************************************************************)
EXTENDS Integers, FiniteSets, FiniteSetsExt

CONSTANTS
    Procs,     \* request goroutines and the worker goroutine
    Operations,\* the operations they perform
    PoolSize,  \* SetMaxOpenConns
    MaxRows    \* bound: rows of one cursor, statements of one transaction

Collecting == {"ListConnectionAccounts", "ProcessDueEvents"}
Nesting == {"ListEvents", "synchronizeProviderTasks"}
InTransaction == {"withTransaction"}

VARIABLES
    pc,     \* pc[p]: the next step of p
    op,     \* op[p]: the operation p performs
    rows,   \* rows[p]: rows p has still to read, statements still to run
    found,  \* found[p]: rows read and not yet looked up
    held    \* held[p]: connections p holds

vars == <<pc, op, rows, found, held>>

Steps == {"idle", "open", "rows", "query", "querying", "statement"}

TypeOK ==
    /\ pc \in [Procs -> Steps]
    /\ op \in [Procs -> Collecting \cup Nesting \cup InTransaction]
    /\ rows \in [Procs -> 0..MaxRows]
    /\ found \in [Procs -> 0..MaxRows]
    /\ held \in [Procs -> 0..2]

Init ==
    /\ pc = [p \in Procs |-> "idle"]
    /\ op \in {[p \in Procs |-> o] : o \in Operations}
    /\ rows = [p \in Procs |-> 0]
    /\ found = [p \in Procs |-> 0]
    /\ held = [p \in Procs |-> 0]

\* database/sql: a statement waits until a connection is free, and a cursor
\* or a transaction keeps its own.
Free == PoolSize - MapThenSumSet(LAMBDA p : held[p], Procs)

Goto(p, step) == pc' = [pc EXCEPT ![p] = step]
Acquire(p) == Free > 0 /\ held' = [held EXCEPT ![p] = @ + 1]

Release(p) == held' = [held EXCEPT ![p] = @ - 1]

-----------------------------------------------------------------------------
\* A request or a worker round, over a table that has n rows.
Begin(p) ==
    \E o \in Operations, n \in 0..MaxRows :
        /\ pc[p] = "idle"
        /\ Goto(p, "open")
        /\ op' = [op EXCEPT ![p] = o]
        /\ rows' = [rows EXCEPT ![p] = n]
        /\ UNCHANGED <<found, held>>

\* QueryContext or BeginTx.
Open(p) ==
    /\ pc[p] = "open"
    /\ Acquire(p)
    /\ Goto(p, IF op[p] \in InTransaction THEN "statement" ELSE "rows")
    /\ UNCHANGED <<op, rows, found>>

\* Which operations query while their cursor is open.
QueriesUnderCursor(o) == o \in Nesting

\* rows.Next: a row is kept for later, or looked up at once.
NextRow(p) ==
    /\ pc[p] = "rows" /\ rows[p] > 0
    /\ rows' = [rows EXCEPT ![p] = @ - 1]
    /\ found' = [found EXCEPT ![p] = @ + 1]
    /\ Goto(p, IF QueriesUnderCursor(op[p]) THEN "query" ELSE "rows")
    /\ UNCHANGED <<op, held>>

\* The end of the rows closes the cursor and gives its connection back.
CloseRows(p) ==
    /\ pc[p] = "rows" /\ rows[p] = 0
    /\ Release(p)
    /\ Goto(p, IF found[p] > 0 THEN "query" ELSE "idle")
    /\ UNCHANGED <<op, rows, found>>

\* eventExecution, upsertProviderTask, enrichAccountReadiness, a claim.
StartQuery(p) ==
    /\ pc[p] = "query"
    /\ Acquire(p)
    /\ Goto(p, "querying")
    /\ UNCHANGED <<op, rows, found>>

EndQuery(p) ==
    /\ pc[p] = "querying"
    /\ Release(p)
    /\ found' = [found EXCEPT ![p] = @ - 1]
    /\ Goto(p, IF QueriesUnderCursor(op[p]) THEN "rows"
               ELSE IF found[p] > 1 THEN "query" ELSE "idle")
    /\ UNCHANGED <<op, rows>>

\* Statements of a transaction use its connection; commit or rollback ends it.
Statement(p) ==
    /\ pc[p] = "statement" /\ rows[p] > 0
    /\ rows' = [rows EXCEPT ![p] = @ - 1]
    /\ UNCHANGED <<pc, op, found, held>>

EndTransaction(p) ==
    /\ pc[p] = "statement"
    /\ Release(p)
    /\ rows' = [rows EXCEPT ![p] = 0]
    /\ Goto(p, "idle")
    /\ UNCHANGED <<op, found>>

Work(p) == NextRow(p) \/ CloseRows(p) \/ EndQuery(p) \/ Statement(p) \/ EndTransaction(p)
Next == \E p \in Procs : Begin(p) \/ Open(p) \/ StartQuery(p) \/ Work(p)

Spec == Init /\ [][Next]_vars

-----------------------------------------------------------------------------
(* Properties *)

\* Some holder of a connection can go on: the pool is never used up by
\* operations that all wait for a further connection ("Release the cursor
\* before owner-side credential queries (one-connection hosts)").
HoldersCanProceed ==
    Free = 0 => \E p \in Procs : held[p] > 0 /\ pc[p] # "query"

=============================================================================
