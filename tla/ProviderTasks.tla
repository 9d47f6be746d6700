---------------------------- MODULE ProviderTasks ----------------------------
(***************************************************************************)
(* Background work of providers: the leased task rows of                   *)
(* _integration_connector_provider_states and the commits they produce in  *)
(* _integration_connector_provider_commits, as WorkerStore's               *)
(* ProcessDueProviderTasks keeps them.                                     *)
(*                                                                         *)
(* The workers are the replicas of one runtime: they write the same        *)
(* lease_owner (RuntimeID:integration), so that only the fencing token     *)
(* tells them apart.  During a rolling deploy they may declare different   *)
(* state versions of a task.  One action is one statement or transaction   *)
(* sent to the database, or one provider call.                             *)
(***************************************************************************)
EXTENDS Naturals, Sequences

CONSTANTS
    Workers,       \* replicas running ProcessDueProviderTasks
    Tasks,         \* background tasks (connection, task key)
    Declared,      \* Declared[w]: the state version w's code declares
    Wakes,         \* sets of tasks a result may wake
    AttemptLimit,  \* failures after which a row is dead-lettered (5 in the code)
    MaxToken,      \* bound: claims of one task
    MaxStamp,      \* bound: writes of due_at to one task
    MaxCrashes     \* bound: crashes

ASSUME DeclaredAssumption == Declared \in [Workers -> Nat \ {0}]
ASSUME TasksAssumption == Tasks # {}
ASSUME WakesAssumption == Wakes \subseteq SUBSET Tasks
ASSUME LimitsAssumption == /\ AttemptLimit \in Nat \ {0}
                           /\ MaxToken \in Nat
                           /\ MaxStamp \in Nat
                           /\ MaxCrashes \in Nat

VARIABLES
    task,       \* task[t]: the task row
    commit,     \* commit[c]: the commit row of claim c = <<task, token>>
    fenced,     \* tasks whose rows, and whose commits' rows, an erasure fenced
    receipt,    \* commits whose delivery the invocation ledger records as succeeded
    inbox,      \* claims whose events are in _integration_events
    pc,         \* pc[w]: the next step of worker w
    cand,       \* cand[w]: the row w read
    crashes,    \* crashes so far
    sent,       \* sent[c]: delivery attempts made for commit c (history)
    made        \* made[t]: the claims whose commit rows were inserted since t's
                \* state was last started afresh, oldest first (history)

rowVars == <<task, commit, fenced, receipt, inbox, sent, made>>
vars == <<task, commit, fenced, receipt, inbox, pc, cand, crashes, sent, made>>

-----------------------------------------------------------------------------
(* Types *)

Claims == Tasks \X (1..(MaxToken + 1))

TaskStatuses == {"absent", "ready", "processing", "failed", "dead_letter",
                 "erasing", "cancelled"}

\* payload_json is kept as the number of results it has absorbed since its
\* state version was installed.  due_at is kept as the number of times it was
\* written, 0 for the empty text: it is compared for equality in the claim, and
\* any due_at that is not empty comes due.  leased says that lease_owner is set.
TaskRow == [status: TaskStatuses, version: Nat, state: Nat,
            attempt: 0..AttemptLimit, leased: BOOLEAN, token: Nat,
            due: Nat]
NoTask == [status |-> "absent", version |-> 0, state |-> 0, attempt |-> 0,
           leased |-> FALSE, token |-> 0, due |-> 0]

CommitStatuses == {"absent", "pending", "processing", "succeeded", "failed",
                   "dead_letter", "erasing", "cancelled"}
CommitRow == [status: CommitStatuses, attempt: 0..AttemptLimit,
              leased: BOOLEAN, token: Nat]
NoCommit == [status |-> "absent", attempt |-> 0, leased |-> FALSE, token |-> 0]

Steps == {"idle", "insert", "reset", "claim", "execute", "result", "fail",
          "claimCommit", "deliver", "delivered", "undelivered"}

\* A worker holds the task row it scanned, or a commit's key and row.
Cand == [task: Tasks, row: TaskRow, claim: Claims, commit: CommitRow]

TypeOK ==
    /\ task \in [Tasks -> TaskRow]
    /\ commit \in [Claims -> CommitRow]
    /\ fenced \in SUBSET Tasks
    /\ receipt \in SUBSET Claims
    /\ inbox \in SUBSET Claims
    /\ pc \in [Workers -> Steps]
    /\ cand \in [Workers -> Cand]
    /\ crashes \in Nat
    /\ sent \in [Claims -> Nat]
    /\ made \in [Tasks -> Seq(Claims)]

AnyTask == CHOOSE t \in Tasks : TRUE
NoCand == [task |-> AnyTask, row |-> NoTask, claim |-> <<AnyTask, 1>>,
           commit |-> NoCommit]

Init ==
    /\ task = [t \in Tasks |-> NoTask]
    /\ commit = [c \in Claims |-> NoCommit]
    /\ fenced = {}
    /\ receipt = {}
    /\ inbox = {}
    /\ pc = [w \in Workers |-> "idle"]
    /\ cand = [w \in Workers |-> NoCand]
    /\ crashes = 0
    /\ sent = [c \in Claims |-> 0]
    /\ made = [t \in Tasks |-> <<>>]

Goto(w, step) == /\ pc' = [pc EXCEPT ![w] = step]
                 /\ UNCHANGED <<cand, crashes>>
Done(w) == /\ pc' = [pc EXCEPT ![w] = "idle"]
           /\ cand' = [cand EXCEPT ![w] = NoCand]
           /\ UNCHANGED crashes
Take(w, step, c) == /\ pc[w] = "idle"
                    /\ pc' = [pc EXCEPT ![w] = step]
                    /\ cand' = [cand EXCEPT ![w] = c]
                    /\ UNCHANGED <<rowVars, crashes>>

\* subjectRowWriteAllowed, on the rows of a task; the variant leaves it out.
AnyWriteAllowed(t) == TRUE
RowWriteAllowed(t) == t \notin fenced

\* The status after n failures.
FailedStatus(n) == IF n >= AttemptLimit THEN "dead_letter" ELSE "failed"

-----------------------------------------------------------------------------
(* synchronizeProviderTasks: every active connection's declared tasks *)

\* upsertProviderTask looks the row up; a row of the declared version is left.
SynchronizeTask(w) ==
    \E t \in Tasks :
        /\ task[t].version # Declared[w]
        /\ Take(w, IF task[t].status = "absent" THEN "insert" ELSE "reset",
                [NoCand EXCEPT !.task = t, !.row = task[t]])

\* The id is derived from connection and task key: a lost race is an error.
InsertTask(w) ==
    LET t == cand[w].task IN
    /\ pc[w] = "insert"
    /\ task' = IF task[t].status # "absent" THEN task
               ELSE [task EXCEPT ![t] =
                       [status |-> "ready", version |-> Declared[w], state |-> 0,
                        attempt |-> 0, leased |-> FALSE, token |-> 0, due |-> 1]]
    /\ Done(w)
    /\ UNCHANGED <<commit, fenced, receipt, inbox, sent, made>>

\* A new state version starts the task afresh, whatever it is doing: the lease
\* is taken away, the fencing token stays.  The variant leaves the lease.
ResetRow(row, version) ==
    [row EXCEPT !.version = version, !.state = 0, !.status = "ready",
                !.due = @ + 1, !.attempt = 0]
FreshRow(row, version) ==
    [row EXCEPT !.version = version, !.state = 0, !.status = "ready",
                !.due = @ + 1, !.attempt = 0, !.leased = FALSE]

ResetTask(w) ==
    LET t == cand[w].task IN
    /\ pc[w] = "reset"
    /\ task[t].due < MaxStamp
    /\ task' = IF ~RowWriteAllowed(t) THEN task
               ELSE [task EXCEPT ![t] = FreshRow(@, Declared[w])]
    /\ made' = IF ~RowWriteAllowed(t) THEN made ELSE [made EXCEPT ![t] = <<>>]
    /\ Done(w)
    /\ UNCHANGED <<commit, fenced, receipt, inbox, sent>>

-----------------------------------------------------------------------------
(* processProviderTasks *)

\* The scan: ready and failed rows that are due.  Their lease is always empty,
\* so the lease clause of the query excludes nothing.
ScanTask(w) ==
    \E t \in Tasks :
        /\ task[t].status \in {"ready", "failed"}
        /\ task[t].due # 0
        /\ task[t].token < MaxToken
        /\ Take(w, "claim", [NoCand EXCEPT !.task = t, !.row = task[t]])

\* claimProviderTask compares status, token and due_at with the scanned row;
\* the variant relies on the token alone.
SameToken(row, seen) == row.token = seen.token /\ row.status = seen.status
SameRow(row, seen) == row.token = seen.token /\ row.status = seen.status
                      /\ row.due = seen.due

ClaimTask(w) ==
    LET t == cand[w].task IN
    /\ pc[w] = "claim"
    /\ \/ /\ RowWriteAllowed(t) /\ SameRow(task[t], cand[w].row)
          /\ task' = [task EXCEPT ![t] =
                [@ EXCEPT !.status = "processing", !.leased = TRUE,
                          !.token = cand[w].row.token + 1]]
          /\ Goto(w, "execute")
       \/ /\ ~(RowWriteAllowed(t) /\ SameRow(task[t], cand[w].row))
          /\ Done(w)
          /\ UNCHANGED task
    /\ UNCHANGED <<commit, fenced, receipt, inbox, sent, made>>

\* executeProviderTask up to the provider's answer: connection, provider and
\* secrets are looked up, the provider runs, rotated secrets are stored; any
\* error leads to failProviderTask.
ExecuteTask(w) ==
    /\ pc[w] = "execute"
    /\ \/ Goto(w, "result")
       \/ Goto(w, "fail")
    /\ UNCHANGED rowVars

\* The lease w took still stands: same owner and the token of its claim.
\* The variant compares the owner only.
SameOwner(w) == task[cand[w].task].leased /\ RowWriteAllowed(cand[w].task)
HoldsLease(w) == /\ task[cand[w].task].leased
                 /\ task[cand[w].task].token = cand[w].row.token + 1
                 /\ RowWriteAllowed(cand[w].task)

\* The outbox of w's claim: its commit row and its events.
NewCommit == [status |-> "pending", attempt |-> 0, leased |-> FALSE, token |-> 0]
InsertOutbox(t, c) ==
    /\ commit' = [commit EXCEPT ![c] = NewCommit]
    /\ inbox' = inbox \cup {c}
    /\ made' = [made EXCEPT ![t] = Append(@, c)]

\* The transaction's rollback; in the variant the outbox of a result whose
\* lease is lost stays behind.
OutboxStays(w) ==
    LET c == <<cand[w].task, cand[w].row.token + 1>> IN
    /\ Goto(w, "fail")
    /\ IF HoldsLease(w) \/ commit[c].status # "absent"
       THEN UNCHANGED <<commit, inbox, made>>
       ELSE InsertOutbox(cand[w].task, c)
    /\ UNCHANGED <<task, fenced, receipt, sent>>
Rollback(w) == Goto(w, "fail") /\ UNCHANGED rowVars

\* commitProviderTaskResult, one transaction: the state advances, the events
\* and the commit are inserted, other tasks are woken.  A lost lease, or a
\* commit whose contract does not match, rolls all of it back.
CommitTaskResult(w) ==
    LET t == cand[w].task
        c == <<t, cand[w].row.token + 1>>
    IN
    /\ pc[w] = "result"
    /\ \/ /\ HoldsLease(w)
          /\ commit[c].status = "absent"
          /\ \E wake \in Wakes :
                /\ \A s \in wake \cup {t} : task[s].due < MaxStamp
                /\ task' = [s \in Tasks |->
                      IF s = t
                      THEN [task[s] EXCEPT !.state = cand[w].row.state + 1,
                               !.status = "ready", !.due = @ + 1, !.attempt = 0,
                               !.leased = FALSE]
                      ELSE IF s \in wake /\ RowWriteAllowed(s) /\ task[s].status # "absent"
                      THEN [task[s] EXCEPT !.due = @ + 1]
                      ELSE task[s]]
          /\ InsertOutbox(t, c)
          /\ Done(w)
          /\ UNCHANGED <<fenced, receipt, sent>>
       \/ Rollback(w)

\* failProviderTask: the attempt is counted from the scanned row.
FailTask(w) ==
    LET t == cand[w].task
        n == cand[w].row.attempt + 1
    IN
    /\ pc[w] = "fail"
    /\ task[t].due < MaxStamp
    /\ task' = IF ~HoldsLease(w) THEN task
               ELSE [task EXCEPT ![t] =
                 [@ EXCEPT !.status = FailedStatus(n),
                           !.due = IF FailedStatus(n) = "dead_letter" THEN 0
                                   ELSE task[t].due + 1,
                           !.attempt = n, !.leased = FALSE]]
    /\ Done(w)
    /\ UNCHANGED <<commit, fenced, receipt, inbox, sent, made>>

-----------------------------------------------------------------------------
(* processProviderCommits.  A commit's due_at changes only together with its *)
(* status or token, so that comparing it adds nothing and it is left out.    *)

\* The statuses the scan takes up; the variant forgets retries.
FirstSend == {"pending"}
DueCommits == {"pending", "failed"}

ScanCommit(w) ==
    \E c \in Claims :
        /\ commit[c].status \in DueCommits
        /\ Take(w, "claimCommit", [NoCand EXCEPT !.claim = c, !.commit = commit[c]])

\* The claim compares the scanned status and token; the variant goes by id alone.
AnyCommit(row, seen) == TRUE
SameCommit(row, seen) == row.status = seen.status /\ row.token = seen.token

ClaimCommit(w) ==
    LET c == cand[w].claim IN
    /\ pc[w] = "claimCommit"
    /\ \/ /\ RowWriteAllowed(c[1]) /\ SameCommit(commit[c], cand[w].commit)
          /\ commit' = [commit EXCEPT ![c] =
                [@ EXCEPT !.status = "processing", !.leased = TRUE,
                          !.token = cand[w].commit.token + 1]]
          /\ Goto(w, "deliver")
       \/ /\ ~(RowWriteAllowed(c[1]) /\ SameCommit(commit[c], cand[w].commit))
          /\ Done(w)
          /\ UNCHANGED commit
    /\ UNCHANGED <<task, fenced, receipt, inbox, sent, made>>

\* DeliveryStore.Accept under the commit's id: a recorded success is returned
\* as it is, otherwise the provider is called.
DeliverCommit(w) ==
    /\ pc[w] = "deliver"
    /\ \/ /\ Goto(w, "delivered")
          /\ receipt' = receipt \cup {cand[w].claim}
       \/ /\ cand[w].claim \notin receipt
          /\ Goto(w, "undelivered")
          /\ UNCHANGED receipt
    /\ sent' = [sent EXCEPT ![cand[w].claim] = @ + 1]
    /\ UNCHANGED <<task, commit, fenced, inbox, made>>

FinishCommit(w) ==
    LET c == cand[w].claim
        n == cand[w].commit.attempt + 1
    IN
    /\ pc[w] \in {"delivered", "undelivered"}
    /\ commit' =
         IF commit[c].leased /\ commit[c].token = cand[w].commit.token + 1
            /\ RowWriteAllowed(c[1])
         THEN [commit EXCEPT ![c] =
                 IF pc[w] = "delivered"
                 THEN [@ EXCEPT !.status = "succeeded", !.leased = FALSE]
                 ELSE [@ EXCEPT !.status = FailedStatus(n), !.attempt = n, !.leased = FALSE]]
         ELSE commit
    /\ Done(w)
    /\ UNCHANGED <<task, fenced, receipt, inbox, sent, made>>

-----------------------------------------------------------------------------
\* A worker stops between two statements; its replica goes on elsewhere.
CrashWorker(w) ==
    /\ pc[w] # "idle"
    /\ crashes < MaxCrashes
    /\ pc' = [pc EXCEPT ![w] = "idle"]
    /\ cand' = [cand EXCEPT ![w] = NoCand]
    /\ crashes' = crashes + 1
    /\ UNCHANGED rowVars

\* Erasure of the connection's subject: refused while a row is processing,
\* it freezes task and commits and advances their tokens.
CommitsOf(t) == {c \in Claims : c[1] = t /\ commit[c].status # "absent"}

\* What the erasure waits for.
CommitBusy(c) == commit[c].status = "processing"

PrepareErasure ==
    \E t \in Tasks \ fenced :
        /\ task[t].status \notin {"absent", "processing"}
        /\ \A c \in CommitsOf(t) : ~CommitBusy(c)
        /\ fenced' = fenced \cup {t}
        /\ task' = [task EXCEPT ![t] =
              [@ EXCEPT !.status = "erasing", !.token = task[t].token + 1,
                        !.leased = FALSE]]
        /\ commit' = [c \in Claims |->
              IF c \in CommitsOf(t)
              THEN [commit[c] EXCEPT !.status = "erasing", !.token = @ + 1,
                                     !.leased = FALSE]
              ELSE commit[c]]
        /\ UNCHANGED <<receipt, inbox, pc, cand, crashes, sent, made>>

EraseTask ==
    \E t \in fenced :
        /\ task[t].status = "erasing"
        /\ task' = [task EXCEPT ![t] =
              [@ EXCEPT !.status = "cancelled", !.state = 0, !.leased = FALSE, !.due = 0]]
        /\ commit' = [c \in Claims |->
              IF c \in CommitsOf(t)
              THEN [commit[c] EXCEPT !.status = "cancelled", !.leased = FALSE]
              ELSE commit[c]]
        /\ UNCHANGED <<fenced, receipt, inbox, pc, cand, crashes, sent, made>>

Work(w) == InsertTask(w) \/ ResetTask(w) \/ ClaimTask(w) \/ ExecuteTask(w)
           \/ CommitTaskResult(w) \/ FailTask(w)
           \/ ClaimCommit(w) \/ DeliverCommit(w) \/ FinishCommit(w)

Next ==
    \/ \E w \in Workers : SynchronizeTask(w) \/ ScanTask(w) \/ ScanCommit(w)
    \/ \E w \in Workers : Work(w)
    \/ \E w \in Workers : CrashWorker(w)
    \/ PrepareErasure
    \/ EraseTask

Spec == Init /\ [][Next]_vars

\* StartWorkers runs every processor again and again: a worker finishes what it
\* began, and each of its rounds scans the due commits.
FairSpec ==
    /\ Spec
    /\ \A w \in Workers : WF_vars(Work(w))
    /\ \A w \in Workers : SF_vars(ScanCommit(w))

-----------------------------------------------------------------------------
(* Properties *)

\* A worker whose lease stands computes from the state that is in the row: a
\* claim never follows a scan that a reset, another claim or an erasure has
\* overtaken, although resets keep the token and replicas share the owner.
ExecutesCurrentState ==
    \A w \in Workers :
        pc[w] \in {"execute", "result", "fail"} /\ HoldsLease(w) =>
            LET row == task[cand[w].task] IN
            /\ row.status = "processing"
            /\ row.version = cand[w].row.version
            /\ row.state = cand[w].row.state

\* At most one worker holds the lease of a task: a result that arrives after a
\* reset or under an older claim is discarded.
OneLeaseHolder ==
    \A v, w \in Workers :
        /\ v # w /\ cand[v].task = cand[w].task
        /\ pc[v] \in {"execute", "result", "fail"}
        /\ pc[w] \in {"execute", "result", "fail"}
        => ~(HoldsLease(v) /\ HoldsLease(w))

\* Within one state version a task's state advances one result at a time: no
\* result is lost under another or applied twice.  The late reset of a replica
\* that read the old version may start the same version over.
StateAdvancesByOne ==
    [][\A t \in Tasks :
          task'[t].version = task[t].version /\ t \notin fenced =>
              \/ task'[t].state \in {task[t].state, task[t].state + 1}
              \/ task'[t].state = 0 /\ task'[t].due > task[t].due]_vars

\* A commit is delivered no more often than its attempts are counted: racing
\* replicas neither repeat an uncounted delivery nor pass the limit.
DeliveriesAreCounted ==
    \A c \in Claims :
        /\ sent[c] <= AttemptLimit
        /\ commit[c].status \in {"failed", "dead_letter"} => commit[c].attempt = sent[c]

\* The outbox says what the state says: since the state was last started
\* afresh the task has made exactly one commit for every result its state has
\* absorbed, each with its events in the inbox, and nothing is sent for a claim
\* that did not commit.  Lost leases, resets and crashes between a claim and its
\* result leave neither a commit without its state nor a state without its commit.
OutboxFollowsState ==
    /\ \A c \in Claims : /\ commit[c].status # "absent" <=> c \in inbox
                         /\ sent[c] > 0 => c \in inbox
    /\ \A t \in Tasks \ fenced :
          /\ Len(made[t]) = task[t].state
          /\ \A i \in DOMAIN made[t] :
                /\ made[t][i][1] = t /\ commit[made[t][i]].status # "absent"
                /\ \A j \in DOMAIN made[t] : made[t][i] = made[t][j] => i = j

\* After the erasure froze a task nothing but the erasure writes its rows, and
\* its commits are not sent any more, though workers have read them before
\* ("Queued effects are cancelled and their worker fencing tokens advanced").
FrozenTasksStayFrozen ==
    [][\A t \in fenced :
          /\ task'[t] = task[t] \/ task'[t].status = "cancelled"
          /\ \A c \in Claims : c[1] = t =>
                /\ commit'[c] = commit[c] \/ commit'[c].status = "cancelled"
                /\ sent'[c] = sent[c]]_vars

\* A pending commit is eventually delivered, dead-lettered or erased.
CommitsSettle ==
    \A c \in Claims :
        commit[c].status \in {"pending", "failed"} ~>
            commit[c].status \in {"succeeded", "dead_letter", "erasing", "cancelled"}

=============================================================================
