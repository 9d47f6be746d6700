-------------------------- MODULE InvocationLedger --------------------------
(***************************************************************************)
(* The table _integration_invocations and everyone who writes it:          *)
(*   - DeliveryStore.Accept, the delivery of one published message;        *)
(*   - OperationsStore.Call, a synchronous call in standard or sensitive   *)
(*     persistence mode;                                                   *)
(*   - AccountWriteService.WriteConnectionAccount, a host-authorized write *)
(*     on a connected account, and the lookup of its receipt;              *)
(*   - WorkerStore.ProcessDueReconciliations, the background reconciler;   *)
(*   - the subject erasure transactions, which freeze and blank rows.      *)
(*                                                                         *)
(* A request is served by a process p of Procs, one action for each        *)
(* statement it sends to the database or call it makes to the provider;    *)
(* processes interleave at that grain and may crash between any two.       *)
(***************************************************************************)
EXTENDS Naturals

CONSTANTS
    Procs,        \* request-serving goroutines
    Workers,      \* goroutines running ProcessDueReconciliations
    DeliveryIds,  \* invocation ids "delivery:..."
    CallIds,      \* invocation ids "call:..."
    WriteIds,     \* invocation ids "account-write:..."
    CallModes,    \* CallModes[i]: the persistence modes callers use with call id i
    LookupIds,    \* ids whose operation declares ReconciliationProviderLookup
    Contents,     \* canonical payloads of account writes
    NoContent,    \* the evidence of a row that is not an account write
    MaxRequests,  \* bound: requests served by one process
    MaxRounds,    \* bound: rows taken up by one reconciler
    MaxRevision   \* bound: revisions of the account's connection

Ids == DeliveryIds \cup CallIds \cup WriteIds
CallKinds == {"standard", "sensitive"}

ASSUME IdsAssumption ==
    /\ DeliveryIds \cap CallIds = {}
    /\ DeliveryIds \cap WriteIds = {}
    /\ CallIds \cap WriteIds = {}
    /\ LookupIds \subseteq Ids
    /\ Ids # {}
ASSUME ModesAssumption == CallModes \in [CallIds -> SUBSET CallKinds]
ASSUME ContentAssumption == NoContent \notin Contents
ASSUME BoundsAssumption ==
    MaxRequests \in Nat /\ MaxRounds \in Nat /\ MaxRevision \in Nat

VARIABLES
    ledger,         \* ledger[i]: the row with id i
    subjectFenced,  \* ids of a subject, resource or message fenced by an erasure
    rowFenced,      \* ids whose row is fenced by an erasure
    revision,       \* updated_at of the connection behind the account
    pc,             \* pc[p]: the next step of process p
    job,            \* job[p]: the request p serves
    budget,         \* budget[p]: requests p may still serve
    wpc,            \* wpc[w]: the next step of reconciler w
    snap,           \* snap[w]: the row w read in its scan, and the lookup's outcome
    rounds,         \* rounds[w]: rows w may still take up
    io,             \* io[i]: provider calls made under id i (history)
    effect,         \* effect[i]: the provider applied the effect of id i (history)
    told            \* told[i]: statuses returned to callers of account write i (history)

procVars == <<pc, job, budget>>
workerVars == <<wpc, snap, rounds>>
fenceVars == <<subjectFenced, rowFenced>>
history == <<io, effect, told>>
vars == <<ledger, subjectFenced, rowFenced, revision, pc, job, budget,
          wpc, snap, rounds, io, effect, told>>

-----------------------------------------------------------------------------
(* Types *)

Statuses == {"absent", "running", "succeeded", "failed", "uncertain",
             "reconciling", "erasing"}
Evidence == [content: Contents \cup {NoContent}, revision: Nat]
NoEvidence == [content |-> NoContent, revision |-> 0]

\* metadata_json is kept as the account-write evidence, whether it holds a
\* request or response payload, and whether reconciliation has ended.
\* updated_at is the number of writes to the row: the code stores the clock
\* in nanoseconds and only ever compares it for equality.
Row == [status: Statuses, evidence: Evidence, payload: BOOLEAN,
        terminal: BOOLEAN, updatedAt: Nat]
NoRow == [status |-> "absent", evidence |-> NoEvidence, payload |-> FALSE,
          terminal |-> FALSE, updatedAt |-> 0]

Kinds == CallKinds \cup {"delivery", "write", "receipt"}
Outcomes == {"none", "succeeded", "failed", "uncertain", "not_found"}
Job == [kind: Kinds, id: Ids, content: Contents \cup {NoContent},
        revision: Nat, outcome: Outcomes]
Steps == {"idle", "claim", "prepare", "update", "guard", "insert", "authorize",
          "recheck", "call", "finish", "read", "reply"}

WorkerSteps == {"idle", "claim", "lookup", "persist"}
Lookups == {"none", "succeeded", "pending", "ended", "error"}
Snap == [id: Ids, row: Row, lookup: Lookups]

\* The kinds of request that use an id: its prefix fixes the handler, and a
\* call id is shared by both persistence modes of the same RequestID.
KindsOf(i) ==
    IF i \in DeliveryIds THEN {"delivery"}
    ELSE IF i \in WriteIds THEN {"write", "receipt"}
    ELSE CallModes[i]

TypeOK ==
    /\ ledger \in [Ids -> Row]
    /\ subjectFenced \in SUBSET Ids
    /\ rowFenced \in SUBSET Ids
    /\ revision \in Nat
    /\ pc \in [Procs -> Steps]
    /\ job \in [Procs -> Job]
    /\ budget \in [Procs -> Nat]
    /\ wpc \in [Workers -> WorkerSteps]
    /\ snap \in [Workers -> Snap]
    /\ rounds \in [Workers -> Nat]
    /\ io \in [Ids -> Nat]
    /\ effect \in [Ids -> BOOLEAN]
    /\ told \in [Ids -> SUBSET Outcomes]


AnyId == CHOOSE i \in Ids : TRUE
IdleJob == [kind |-> "delivery", id |-> AnyId, content |-> NoContent,
            revision |-> 0, outcome |-> "none"]
IdleSnap == [id |-> AnyId, row |-> NoRow, lookup |-> "none"]

Init ==
    /\ ledger = [i \in Ids |-> NoRow]
    /\ subjectFenced = {}
    /\ rowFenced = {}
    /\ revision = 0
    /\ pc = [p \in Procs |-> "idle"]
    /\ job = [p \in Procs |-> IdleJob]
    /\ budget = [p \in Procs |-> MaxRequests]
    /\ wpc = [w \in Workers |-> "idle"]
    /\ snap = [w \in Workers |-> IdleSnap]
    /\ rounds = [w \in Workers |-> MaxRounds]
    /\ io = [i \in Ids |-> 0]
    /\ effect = [i \in Ids |-> FALSE]
    /\ told = [i \in Ids |-> {}]

-----------------------------------------------------------------------------
(* Steps of a request.  Goto and Return move process p and leave the table *)
(* alone; Return also covers every error return.                           *)

Goto(p, step) == /\ pc' = [pc EXCEPT ![p] = step]
                 /\ UNCHANGED <<job, budget>>

GotoWith(p, step, outcome) ==
    /\ pc' = [pc EXCEPT ![p] = step]
    /\ job' = [job EXCEPT ![p].outcome = outcome]
    /\ UNCHANGED budget

Return(p) == /\ pc' = [pc EXCEPT ![p] = "idle"]
             /\ job' = [job EXCEPT ![p] = IdleJob]
             /\ UNCHANGED budget

Begin(p, step, kind, i, content) ==
    /\ pc[p] = "idle"
    /\ budget[p] > 0
    /\ budget' = [budget EXCEPT ![p] = @ - 1]
    /\ pc' = [pc EXCEPT ![p] = step]
    /\ job' = [job EXCEPT ![p] =
                  [kind |-> kind, id |-> i, content |-> content,
                   revision |-> revision, outcome |-> "none"]]
    /\ UNCHANGED <<ledger, fenceVars, revision, workerVars, history>>

\* Accept reads the receipt of the message: a succeeded one is returned
\* without further work.  Otherwise it finds the connection, provider,
\* operation and secrets; a failure there returns with nothing written.
AcceptDelivery(p) ==
    \E i \in DeliveryIds :
        /\ ledger[i].status # "succeeded"
        /\ Begin(p, "prepare", "delivery", i, NoContent)

\* Call refuses a fenced resource or actor, returns a succeeded invocation as
\* it is, and prepares the row the way its persistence mode says.
Call(p) ==
    \E i \in CallIds :
        /\ i \notin subjectFenced
        /\ ledger[i].status # "succeeded"
        /\ \/ /\ "standard" \in CallModes[i]
              /\ Begin(p, "prepare", "standard", i, NoContent)
           \/ /\ "sensitive" \in CallModes[i]
              /\ Begin(p, "guard", "sensitive", i, NoContent)

\* WriteConnectionAccount and ReadConnectionAccountWriteReceipt start with
\* claim(), which fails unless the expected source is the current one: only
\* requests bound to the current revision get further.
WriteConnectionAccount(p) ==
    \E i \in WriteIds, c \in Contents : Begin(p, "claim", "write", i, c)

ReadConnectionAccountWriteReceipt(p) ==
    \E i \in WriteIds, c \in Contents : Begin(p, "read", "receipt", i, c)

-----------------------------------------------------------------------------
(* Claiming a row *)

\* subjectRowWriteAllowed: the predicate every UPDATE of a row carries.
UnfencedUpdate(i) == TRUE
RowWriteAllowed(i) == i \notin rowFenced

\* prepareInvocationWithMetadata: the fence guard and the lookup of the row.
\* The two reads are one step: a fence set between them is seen again by the
\* predicate of the update and by the guard of the insert.
PrepareInvocation(p) ==
    LET i == job[p].id IN
    /\ pc[p] = "prepare"
    /\ \/ /\ i \in rowFenced \/ (i \in DeliveryIds /\ i \in subjectFenced)
          /\ Return(p)
       \/ /\ ~(i \in rowFenced \/ (i \in DeliveryIds /\ i \in subjectFenced))
          /\ Goto(p, IF ledger[i].status = "absent" THEN "guard" ELSE "update")
    /\ UNCHANGED <<ledger, fenceVars, revision, workerVars, history>>

\* An UPDATE of a row: each one moves updated_at.
Updated(row, status, evidence, payload, terminal) ==
    [status |-> status, evidence |-> evidence, payload |-> payload,
     terminal |-> terminal, updatedAt |-> row.updatedAt + 1]

\* An UPDATE that sets the status and leaves metadata_json alone.
WithStatus(row, status) ==
    Updated(row, status, row.evidence, row.payload, row.terminal)

\* The retry transition: any row that is not fenced is set to running with
\* fresh metadata, whatever its status is by now.
ResetInvocation(p) ==
    LET i == job[p].id IN
    /\ pc[p] = "update"
    /\ \/ /\ ~RowWriteAllowed(i)
          /\ Return(p)
          /\ UNCHANGED ledger
       \/ /\ RowWriteAllowed(i)
          /\ ledger' = [ledger EXCEPT ![i] =
                Updated(@, "running", NoEvidence, TRUE, FALSE)]
          /\ Goto(p, "call")
    /\ UNCHANGED <<fenceVars, revision, workerVars, history>>

\* insertInvocation reads the fences before the insert, in a statement of its
\* own.  It looks for a fence on the row, the connection and the message; the
\* connection is a shared one, and only deliveries carry a publication message.
GuardInsert(p) ==
    LET i == job[p].id IN
    /\ pc[p] = "guard"
    /\ \/ /\ i \in rowFenced \/ (i \in DeliveryIds /\ i \in subjectFenced)
          /\ IF job[p].kind = "write" THEN Goto(p, "read") ELSE Return(p)
       \/ /\ ~(i \in rowFenced \/ (i \in DeliveryIds /\ i \in subjectFenced))
          /\ Goto(p, "insert")
    /\ UNCHANGED <<ledger, fenceVars, revision, workerVars, history>>

\* What the claim stores as metadata_json.
ClaimEvidence(j) ==
    IF j.kind = "write" THEN [content |-> j.content, revision |-> j.revision]
    ELSE NoEvidence

\* The primary key admits an insert where there is no row; the variant stands
\* for an upsert that takes over rows that have not succeeded.
UpsertAdmits(i) == ledger[i].status # "succeeded"
InsertAdmits(i) == ledger[i].status = "absent"

\* The insert of the claim.  The primary key refuses it when the row exists;
\* ClaimAccountWrite then reads what is there, the others return the error.
InsertInvocation(p) ==
    LET i == job[p].id IN
    /\ pc[p] = "insert"
    /\ \/ /\ InsertAdmits(i)
          /\ ledger' = [ledger EXCEPT ![i] =
                [status |-> "running", evidence |-> ClaimEvidence(job[p]),
                 payload |-> job[p].kind \in {"delivery", "standard"},
                 terminal |-> FALSE, updatedAt |-> 1]]
          /\ Goto(p, IF job[p].kind = "write" THEN "authorize" ELSE "call")
       \/ /\ ~InsertAdmits(i)
          /\ IF job[p].kind = "write" THEN Goto(p, "read") ELSE Return(p)
          /\ UNCHANGED ledger
    /\ UNCHANGED <<fenceVars, revision, workerVars, history>>

\* ReadAccountWrite: a row with other evidence is an identity conflict, and a
\* status that is neither succeeded nor failed is reported as uncertain.
SameEvidence(row, j) ==
    row.evidence = [content |-> j.content, revision |-> j.revision]

\* Variants: the raw status, and an open claim taken for a failure.
RawStatus(row) == row.status
FailedUnlessSucceeded(row) ==
    IF row.status = "succeeded" THEN "succeeded" ELSE "failed"
ReceiptStatus(row) ==
    IF row.status \in {"succeeded", "failed"} THEN row.status ELSE "uncertain"

\* ClaimAccountWrite up to the insert: the guard on the actor and the first read.
ClaimAccountWrite(p) ==
    LET i == job[p].id IN
    /\ pc[p] = "claim"
    /\ \/ /\ i \in subjectFenced
          /\ Return(p)
       \/ /\ i \notin subjectFenced
          /\ ledger[i].status = "absent"
          /\ Goto(p, "guard")
       \/ /\ i \notin subjectFenced
          /\ ledger[i].status # "absent"
          /\ IF SameEvidence(ledger[i], job[p])
             THEN GotoWith(p, "reply", ReceiptStatus(ledger[i]))
             ELSE Return(p)
    /\ UNCHANGED <<ledger, fenceVars, revision, workerVars, history>>

\* ReadAccountWrite after a lost insert, after the terminal update, and for a
\* receipt lookup, which alone reports a missing row as not_found.
ReadAccountWrite(p) ==
    LET i == job[p].id IN
    /\ pc[p] = "read"
    /\ \/ /\ ledger[i].status = "absent"
          /\ IF job[p].kind = "receipt" THEN GotoWith(p, "reply", "not_found")
                                        ELSE Return(p)
       \/ /\ ledger[i].status # "absent"
          /\ IF SameEvidence(ledger[i], job[p])
             THEN GotoWith(p, "reply", ReceiptStatus(ledger[i]))
             ELSE Return(p)
    /\ UNCHANGED <<ledger, fenceVars, revision, workerVars, history>>

-----------------------------------------------------------------------------
(* Provider I/O *)

\* After the claim: the caller may be gone, authorization is read again, the
\* connection, provider, operation and secrets are looked up.  Any failure
\* ends the claim as failed, with no I/O.
AuthorizeAccountWrite(p) ==
    /\ pc[p] = "authorize"
    /\ \/ /\ revision = job[p].revision
          /\ Goto(p, "recheck")
       \/ GotoWith(p, "finish", "failed")
    /\ UNCHANGED <<ledger, fenceVars, revision, workerVars, history>>

\* ExecuteAccountWrite reads the connection and the grants once more between
\* resolving the secrets and the call.
RecheckAccountWrite(p) ==
    /\ pc[p] = "recheck"
    /\ \/ /\ revision = job[p].revision
          /\ Goto(p, "call")
       \/ GotoWith(p, "finish", "failed")
    /\ UNCHANGED <<ledger, fenceVars, revision, workerVars, history>>

\* External: the provider applies the effect ("ok"), declares that it did not
\* (an error classified permanent or retryable: "rejected"), or gives an
\* answer that tells nothing, with or without the effect ("unknown").
ProviderAnswers == {"ok", "rejected", "unknown"}
AppliedOn(answer) ==
    CASE answer = "ok" -> {TRUE}
      [] answer = "rejected" -> {FALSE}
      [] answer = "unknown" -> BOOLEAN

\* The outcome recorded for an answer.  An account write keeps the provider's
\* word apart from the credential rotation and distrusts an invalid receipt;
\* for the other kinds any error, a failed rotation too, is a failure.
\* The variant takes every error of an account write for a failure.
ErrorsFail(kind, answer) ==
    IF answer = "ok" THEN {"succeeded"} ELSE {"failed"}
OutcomesOf(kind, answer) ==
    IF kind = "write"
    THEN CASE answer = "ok" -> {"succeeded", "uncertain"}
           [] answer = "rejected" -> {"failed"}
           [] answer = "unknown" -> {"uncertain"}
    ELSE CASE answer = "ok" -> {"succeeded", "failed"}
           [] OTHER -> {"failed"}

ProviderCall(p) ==
    LET i == job[p].id IN
    /\ pc[p] = "call"
    /\ \E answer \in ProviderAnswers :
          \E applied \in AppliedOn(answer), o \in OutcomesOf(job[p].kind, answer) :
             /\ io' = [io EXCEPT ![i] = @ + 1]
             /\ effect' = [effect EXCEPT ![i] = @ \/ applied]
             /\ GotoWith(p, "finish", o)
    /\ UNCHANGED <<ledger, fenceVars, revision, workerVars, told>>

-----------------------------------------------------------------------------
(* Recording the outcome *)

\* finishInvocation (delivery) and the final update of Call: by id and row
\* fence only.  A delivery leaves metadata_json as it is, Call rewrites it.
FinishInvocation(p) ==
    LET i == job[p].id IN
    /\ pc[p] = "finish"
    /\ job[p].kind \in {"delivery", "standard", "sensitive"}
    /\ ledger' =
         IF ~RowWriteAllowed(i) \/ ledger[i].status = "absent" THEN ledger
         ELSE [ledger EXCEPT ![i] =
                IF job[p].kind = "delivery" THEN WithStatus(@, job[p].outcome)
                ELSE Updated(@, job[p].outcome, NoEvidence,
                             job[p].kind = "standard", FALSE)]
    /\ Return(p)
    /\ UNCHANGED <<fenceVars, revision, workerVars, history>>

\* FinishAccountWrite: the update matches the running state and the evidence
\* of the original claim.
FinishAccountWrite(p) ==
    LET i == job[p].id IN
    /\ pc[p] = "finish"
    /\ job[p].kind = "write"
    /\ \/ /\ ledger[i].status = "running"
          /\ SameEvidence(ledger[i], job[p])
          /\ RowWriteAllowed(i)
          /\ ledger' = [ledger EXCEPT ![i] =
                WithStatus(@, job[p].outcome)]
          /\ Goto(p, "read")
       \/ /\ ~ /\ ledger[i].status = "running"
               /\ SameEvidence(ledger[i], job[p])
               /\ RowWriteAllowed(i)
          /\ Return(p)
          /\ UNCHANGED ledger
    /\ UNCHANGED <<fenceVars, revision, workerVars, history>>

\* Authorization is read a last time before a result leaves the service.
ReplyAccountWrite(p) ==
    /\ pc[p] = "reply"
    /\ told' = IF revision = job[p].revision
               THEN [told EXCEPT ![job[p].id] = @ \cup {job[p].outcome}]
               ELSE told
    /\ Return(p)
    /\ UNCHANGED <<ledger, fenceVars, revision, workerVars, io, effect>>

\* A crash, or a caller whose context ends, leaves the table as it is.
Crash(p) ==
    /\ pc[p] # "idle"
    /\ Return(p)
    /\ UNCHANGED <<ledger, fenceVars, revision, workerVars, history>>

-----------------------------------------------------------------------------
(* The reconciler *)

\* failedInvocationsAcrossWorkspaces: failed rows, and reconciling rows whose
\* claim is a minute old (any age here), never an account write.
\* The variant forgets the account-write prefix.
ReconcilableAnyId(i) ==
    /\ i \in LookupIds
    /\ ledger[i].status \in {"failed", "reconciling"}
    /\ ~ledger[i].terminal
Reconcilable(i) ==
    /\ i \notin WriteIds
    /\ i \in LookupIds
    /\ ledger[i].status \in {"failed", "reconciling"}
    /\ ~ledger[i].terminal

ScanReconciliation(w) ==
    \E i \in Ids :
        /\ wpc[w] = "idle"
        /\ rounds[w] > 0
        /\ Reconcilable(i)
        /\ rounds' = [rounds EXCEPT ![w] = @ - 1]
        /\ wpc' = [wpc EXCEPT ![w] = "claim"]
        /\ snap' = [snap EXCEPT ![w] =
                      [id |-> i, row |-> ledger[i], lookup |-> "none"]]
        /\ UNCHANGED <<ledger, fenceVars, revision, procVars, history>>

EndRound(w) == /\ wpc' = [wpc EXCEPT ![w] = "idle"]
               /\ snap' = [snap EXCEPT ![w] = IdleSnap]
               /\ UNCHANGED rounds

\* The claim compares status and updated_at with the row that was scanned.
ClaimReconciliation(w) ==
    LET i == snap[w].id IN
    /\ wpc[w] = "claim"
    /\ \/ /\ RowWriteAllowed(i)
          /\ ledger[i].status = snap[w].row.status
          /\ ledger[i].updatedAt = snap[w].row.updatedAt
          /\ ledger' = [ledger EXCEPT ![i] =
                WithStatus(@, "reconciling")]
          /\ wpc' = [wpc EXCEPT ![w] = "lookup"]
          /\ UNCHANGED <<snap, rounds>>
       \/ /\ ~ /\ RowWriteAllowed(i)
               /\ ledger[i].status = snap[w].row.status
               /\ ledger[i].updatedAt = snap[w].row.updatedAt
          /\ EndRound(w)
          /\ UNCHANGED ledger
    /\ UNCHANGED <<fenceVars, revision, procVars, history>>

\* The provider lookup; a provider says succeeded only of an effect it
\* applied.  Without connection or secrets the row is left reconciling.
LookupReconciliation(w) ==
    /\ wpc[w] = "lookup"
    /\ \/ EndRound(w)
       \/ \E l \in Lookups \ {"none"} :
             /\ l = "succeeded" => effect[snap[w].id]
             /\ wpc' = [wpc EXCEPT ![w] = "persist"]
             /\ snap' = [snap EXCEPT ![w].lookup = l]
             /\ UNCHANGED rounds
    /\ UNCHANGED <<ledger, fenceVars, revision, procVars, history>>

\* The status a lookup leads to; the variant takes its end for success.
EndedIsSuccess(l) == IF l \in {"succeeded", "ended"} THEN "succeeded" ELSE "failed"
ReconciledStatus(l) == IF l = "succeeded" THEN "succeeded" ELSE "failed"

\* persistReconciliation writes the scanned metadata back with the outcome,
\* by id and row fence only.
PersistReconciliation(w) ==
    LET i == snap[w].id
        l == snap[w].lookup
    IN
    /\ wpc[w] = "persist"
    /\ ledger' =
         IF ~RowWriteAllowed(i) \/ ledger[i].status = "absent" THEN ledger
         ELSE [ledger EXCEPT ![i] =
                Updated(@, ReconciledStatus(l),
                        snap[w].row.evidence,
                        snap[w].row.payload \/ l = "succeeded",
                        l \in {"succeeded", "ended"})]
    /\ EndRound(w)
    /\ UNCHANGED <<fenceVars, revision, procVars, history>>

CrashWorker(w) ==
    /\ wpc[w] # "idle"
    /\ EndRound(w)
    /\ UNCHANGED <<ledger, fenceVars, revision, procVars, history>>

-----------------------------------------------------------------------------
(* Subject erasure, for the invocations of one subject, and the account *)

\* What an erasure waits for; the variant overlooks running invocations.
BusyReconciling == {"reconciling"}
Busy == {"running", "reconciling"}

\* PrepareSubjectErasure refuses while a collected row is busy; it fences the
\* subject, and freezes the rows that exist.
PrepareErasure ==
    \E S \in SUBSET Ids :
        /\ S # {}
        /\ S \cap subjectFenced = {}
        /\ \A i \in S : ledger[i].status \notin Busy
        /\ subjectFenced' = subjectFenced \cup S
        /\ rowFenced' = rowFenced \cup {i \in S : ledger[i].status # "absent"}
        /\ ledger' = [i \in Ids |->
              IF i \in S /\ ledger[i].status # "absent"
              THEN [ledger[i] EXCEPT !.status = "erasing"]
              ELSE ledger[i]]
        /\ UNCHANGED <<revision, procVars, workerVars, history>>

\* ErasePreparedSubject blanks the frozen rows; it keeps their ids.
EraseInvocations ==
    /\ \E i \in rowFenced : ledger[i].status = "erasing"
    /\ ledger' = [i \in Ids |->
          IF i \in rowFenced /\ ledger[i].status = "erasing"
          THEN Updated(ledger[i], "failed", NoEvidence, FALSE, FALSE)
          ELSE ledger[i]]
    /\ UNCHANGED <<fenceVars, revision, procVars, workerVars, history>>

\* External to the ledger: reconfiguration, reauthorization or revocation of
\* the account gives its connection a new revision.
ChangeAccount ==
    /\ revision < MaxRevision
    /\ revision' = revision + 1
    /\ UNCHANGED <<ledger, fenceVars, procVars, workerVars, history>>

-----------------------------------------------------------------------------
Request(p) ==
    \/ AcceptDelivery(p)
    \/ Call(p)
    \/ WriteConnectionAccount(p)
    \/ ReadConnectionAccountWriteReceipt(p)
    \/ PrepareInvocation(p)
    \/ ResetInvocation(p)
    \/ GuardInsert(p)
    \/ InsertInvocation(p)
    \/ ClaimAccountWrite(p)
    \/ ReadAccountWrite(p)
    \/ AuthorizeAccountWrite(p)
    \/ RecheckAccountWrite(p)
    \/ ProviderCall(p)
    \/ FinishInvocation(p)
    \/ FinishAccountWrite(p)
    \/ ReplyAccountWrite(p)
    \/ Crash(p)

ProcessDueReconciliations(w) ==
    \/ ScanReconciliation(w)
    \/ ClaimReconciliation(w)
    \/ LookupReconciliation(w)
    \/ PersistReconciliation(w)
    \/ CrashWorker(w)

Next ==
    \/ \E p \in Procs : Request(p)
    \/ \E w \in Workers : ProcessDueReconciliations(w)
    \/ PrepareErasure
    \/ EraseInvocations
    \/ ChangeAccount

Spec == Init /\ [][Next]_vars

-----------------------------------------------------------------------------
(* Properties *)

\* Ids whose row is only ever claimed by the insert: account writes, and call
\* ids used in sensitive mode alone.
InsertOnlyIds ==
    WriteIds \cup {i \in CallIds : "standard" \notin CallModes[i]}

\* Sensitive calls and account writes reach the provider at most once under
\* one identity, whatever is retried, raced, crashed, reconciled or erased
\* (README: "cannot reclaim the same identity, even after restart").
AtMostOnceIO == \A i \in InsertOnlyIds : io[i] <= 1

\* The steps at which p holds the claim on its row and may touch the provider.
Claimed == {"authorize", "recheck", "call", "finish"}

\* While an account write holds its claim the row is running, carries that
\* claim's evidence and is not frozen: an erasure waits for the write, and
\* FinishAccountWrite always finds its own claim.
ClaimIsIntact ==
    \A p \in Procs :
        job[p].kind = "write" /\ pc[p] \in Claimed =>
            LET row == ledger[job[p].id] IN
            /\ row.status = "running"
            /\ SameEvidence(row, job[p])
            /\ job[p].id \notin rowFenced

\* An account write recorded as failed has had no effect: the caller may send
\* it again under a new RequestID.  An effect is never recorded as a failure.
FailedWriteHadNoEffect ==
    \A i \in WriteIds :
        ledger[i].status = "failed" /\ ledger[i].evidence # NoEvidence
            => ~effect[i]

\* No two callers of one account write are told contradictory outcomes, and
\* nobody is told failed when the provider applied the effect.
RepliesAgree ==
    \A i \in WriteIds :
        "failed" \in told[i] => ~effect[i] /\ "succeeded" \notin told[i]

\* The evidence of an account write is written once: a terminal row is only
\* ever frozen and blanked by an erasure, never reset, reconciled or rewritten.
WriteEvidenceStable ==
    [][\A i \in WriteIds :
          ledger[i].status \in {"succeeded", "failed", "uncertain"} =>
              \/ ledger'[i] = ledger[i]
              \/ i \in rowFenced' /\ ledger'[i].status = "erasing"]_vars

\* A row says succeeded only if the provider applied the effect, also when the
\* status comes from a lookup that raced a retry.
SuccessIsConfirmed ==
    \A i \in Ids : ledger[i].status = "succeeded" => effect[i]

\* A frozen row stays frozen: after the fence nothing but the erasure itself
\* writes it, whatever was read before the fence.
FrozenRowsStayFrozen ==
    [][\A i \in rowFenced :
          \/ ledger'[i] = ledger[i]
          \/ /\ ledger[i].status = "erasing" /\ ledger'[i].status = "failed"
             /\ ledger'[i].evidence = NoEvidence /\ ~ledger'[i].payload]_vars

=============================================================================
