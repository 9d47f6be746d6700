----------------------- MODULE InvocationLedgerProofs -----------------------
(***************************************************************************)
(* What InvocationLedger promises, for every set of processes, reconcilers *)
(* and ids and for every bound.  The inductive invariant is IndInv; each   *)
(* of its parts says what one step of the code relies on.                  *)
(***************************************************************************)
EXTENDS AccountWriteRefinement, TLAPS

\* An outcome is fixed before FinishInvocation or FinishAccountWrite runs.
OutcomeKnown ==
    \A p \in Procs :
        pc[p] = "finish" => job[p].outcome \in {"succeeded", "failed", "uncertain"}

TypeInv == TypeOK /\ OutcomeKnown

-----------------------------------------------------------------------------
(* Types *)

\* What stands for nothing is of its type.
LEMMA IdleTypes == IdleJob \in Job /\ IdleSnap \in Snap /\ NoRow \in Row
                   /\ NoEvidence \in Evidence
<1>1. AnyId \in Ids
  BY IdsAssumption DEF AnyId
<1>2. QED
  BY <1>1 DEF IdleJob, IdleSnap, NoRow, NoEvidence, Job, Snap, Row, Evidence,
              Kinds, CallKinds, Outcomes, Statuses, Lookups

\* What an UPDATE leaves behind is a row.
LEMMA UpdatedType ==
  ASSUME NEW r \in Row, NEW st \in Statuses
  PROVE  /\ WithStatus(r, st) \in Row
         /\ \A e \in Evidence, y \in BOOLEAN, t \in BOOLEAN :
               Updated(r, st, e, y, t) \in Row
BY DEF Row, Updated, WithStatus

\* The initial state is well typed.
LEMMA InitType == Init => TypeInv
BY IdleTypes, BoundsAssumption
   DEF Init, TypeInv, TypeOK, OutcomeKnown, Steps, WorkerSteps

\* The three ways a process moves keep its program counter, its request and
\* its budget well typed, and an outcome is known whenever "finish" is reached.
ProcType == /\ pc \in [Procs -> Steps]
            /\ job \in [Procs -> Job]
            /\ budget \in [Procs -> Nat]
            /\ OutcomeKnown

\* Moving a process keeps its type.
LEMMA GotoType ==
  ASSUME NEW p \in Procs, ProcType, NEW s \in Steps \ {"finish"}, Goto(p, s)
  PROVE  ProcType'
BY DEF ProcType, OutcomeKnown, Goto

\* Moving a process with an outcome keeps the types.
LEMMA GotoWithType ==
  ASSUME NEW p \in Procs, ProcType, NEW s \in Steps, NEW o \in Outcomes,
         s = "finish" => o \in {"succeeded", "failed", "uncertain"},
         GotoWith(p, s, o)
  PROVE  ProcType'
<1>1. job' \in [Procs -> Job]
  BY DEF ProcType, GotoWith, Job
<1>2. \A q \in Procs : job'[q].outcome = IF q = p THEN o ELSE job[q].outcome
  BY DEF ProcType, GotoWith, Job
<1>3. \A q \in Procs : pc'[q] = IF q = p THEN s ELSE pc[q]
  BY DEF ProcType, GotoWith
<1>4. OutcomeKnown'
  BY <1>2, <1>3 DEF ProcType, OutcomeKnown
<1>5. QED
  BY <1>1, <1>4 DEF ProcType, GotoWith

\* A process that returns is idle.
LEMMA ReturnType ==
  ASSUME NEW p \in Procs, ProcType, Return(p)
  PROVE  ProcType'
BY IdleTypes DEF ProcType, OutcomeKnown, Return, Steps

\* A process that begins has a job of its type.
LEMMA BeginType ==
  ASSUME NEW p \in Procs, TypeInv, NEW s \in Steps \ {"finish"}, NEW k \in Kinds,
         NEW i \in Ids, NEW c \in Contents \cup {NoContent}, Begin(p, s, k, i, c)
  PROVE  ProcType'
BY DEF ProcType, TypeInv, TypeOK, OutcomeKnown, Begin, Job, Outcomes, Steps

\* Every step of a request keeps the types.
LEMMA RequestType ==
  ASSUME TypeInv, NEW p \in Procs, Request(p)
  PROVE  TypeInv'
<1> USE DEF procVars, workerVars, fenceVars, history
<1>0. ProcType
  BY DEF TypeInv, TypeOK, ProcType
<1>t. ASSUME ProcType', UNCHANGED <<ledger, fenceVars, revision, workerVars>>,
             io' \in [Ids -> Nat], effect' \in [Ids -> BOOLEAN],
             told' \in [Ids -> SUBSET Outcomes]
      PROVE  TypeInv'
  BY <1>t DEF TypeInv, TypeOK, ProcType
<1>h. UNCHANGED history => /\ io' \in [Ids -> Nat]
                           /\ effect' \in [Ids -> BOOLEAN]
                           /\ told' \in [Ids -> SUBSET Outcomes]
  BY DEF TypeInv, TypeOK
<1>j. job[p].id \in Ids /\ job[p].kind \in Kinds /\ job[p].outcome \in Outcomes
      /\ job[p].content \in Contents \cup {NoContent} /\ job[p].revision \in Nat
  BY DEF TypeInv, TypeOK, Job
<1>l. ASSUME ProcType', UNCHANGED <<fenceVars, revision, workerVars, history>>,
             ledger' \in [Ids -> Row]
      PROVE  TypeInv'
  BY <1>l DEF TypeInv, TypeOK, ProcType
<1>1. CASE AcceptDelivery(p)
  <2>1. ProcType'
    BY <1>1, BeginType DEF AcceptDelivery, Ids, Steps, Kinds
  <2>2. QED
    BY <1>1, <2>1, <1>t, <1>h DEF AcceptDelivery, Begin
<1>2. CASE Call(p)
  <2>1. ProcType'
    BY <1>2, BeginType DEF Call, Ids, Steps, Kinds, CallKinds
  <2>2. QED
    BY <1>2, <2>1, <1>t, <1>h DEF Call, Begin
<1>3. CASE WriteConnectionAccount(p)
  <2>1. ProcType'
    BY <1>3, BeginType DEF WriteConnectionAccount, Ids, Steps, Kinds
  <2>2. QED
    BY <1>3, <2>1, <1>t, <1>h DEF WriteConnectionAccount, Begin
<1>4. CASE ReadConnectionAccountWriteReceipt(p)
  <2>1. ProcType'
    BY <1>4, BeginType DEF ReadConnectionAccountWriteReceipt, Ids, Steps, Kinds
  <2>2. QED
    BY <1>4, <2>1, <1>t, <1>h DEF ReadConnectionAccountWriteReceipt, Begin
<1>5. CASE PrepareInvocation(p)
  <2>1. ProcType'
    BY <1>0, <1>5, GotoType, ReturnType DEF PrepareInvocation, Steps
  <2>2. QED
    BY <1>5, <2>1, <1>t, <1>h DEF PrepareInvocation
<1>6. CASE ResetInvocation(p)
  <2>1. ProcType'
    BY <1>0, <1>6, GotoType, ReturnType DEF ResetInvocation, RowWriteAllowed, Steps
  <2>2. ledger' \in [Ids -> Row]
    <3>1. ledger[job[p].id] \in Row
      BY <1>j DEF TypeInv, TypeOK
    <3>2. Updated(ledger[job[p].id], "running", NoEvidence, TRUE, FALSE) \in Row
      BY <3>1, IdleTypes, UpdatedType DEF Statuses
    <3>3. QED
      BY <1>6, <1>j, <3>2 DEF ResetInvocation, RowWriteAllowed, TypeInv, TypeOK
  <2>3. QED
    BY <1>6, <2>1, <2>2, <1>l DEF ResetInvocation, RowWriteAllowed
<1>7. CASE GuardInsert(p)
  <2>1. ProcType'
    BY <1>0, <1>7, GotoType, ReturnType DEF GuardInsert, Steps
  <2>2. QED
    BY <1>7, <2>1, <1>t, <1>h DEF GuardInsert
<1>8. CASE InsertInvocation(p)
  <2>1. ProcType'
    BY <1>0, <1>8, GotoType, ReturnType DEF InsertInvocation, InsertAdmits, Steps
  <2>2. ClaimEvidence(job[p]) \in Evidence
    BY <1>j, IdleTypes DEF ClaimEvidence, Evidence
  <2>3. ledger' \in [Ids -> Row]
    <3>1. [status |-> "running", evidence |-> ClaimEvidence(job[p]),
           payload |-> job[p].kind \in {"delivery", "standard"},
           terminal |-> FALSE, updatedAt |-> 1] \in Row
      BY <2>2 DEF Row, Statuses
    <3>2. QED
      BY <1>8, <1>j, <3>1 DEF InsertInvocation, InsertAdmits, TypeInv, TypeOK
  <2>4. QED
    BY <1>8, <2>1, <2>3, <1>l DEF InsertInvocation, InsertAdmits
<1>r. ReceiptStatus(ledger[job[p].id]) \in Outcomes
  BY DEF ReceiptStatus, Outcomes
<1>9. CASE ClaimAccountWrite(p)
  <2>1. ProcType'
    BY <1>0, <1>9, <1>r, GotoType, GotoWithType, ReturnType
       DEF ClaimAccountWrite, Steps
  <2>2. QED
    BY <1>9, <2>1, <1>t, <1>h DEF ClaimAccountWrite
<1>10. CASE ReadAccountWrite(p)
  <2>1. ProcType'
    BY <1>0, <1>10, <1>r, GotoWithType, ReturnType
       DEF ReadAccountWrite, Steps, Outcomes
  <2>2. QED
    BY <1>10, <2>1, <1>t, <1>h DEF ReadAccountWrite
<1>11. CASE AuthorizeAccountWrite(p)
  <2>1. ProcType'
    BY <1>0, <1>11, GotoType, GotoWithType
       DEF AuthorizeAccountWrite, Steps, Outcomes
  <2>2. QED
    BY <1>11, <2>1, <1>t, <1>h DEF AuthorizeAccountWrite
<1>12. CASE RecheckAccountWrite(p)
  <2>1. ProcType'
    BY <1>0, <1>12, GotoType, GotoWithType
       DEF RecheckAccountWrite, Steps, Outcomes
  <2>2. QED
    BY <1>12, <2>1, <1>t, <1>h DEF RecheckAccountWrite
<1>13. CASE ProviderCall(p)
  <2>1. PICK answer \in ProviderAnswers :
          \E applied \in AppliedOn(answer), o \in OutcomesOf(job[p].kind, answer) :
             /\ io' = [io EXCEPT ![job[p].id] = @ + 1]
             /\ effect' = [effect EXCEPT ![job[p].id] = @ \/ applied]
             /\ GotoWith(p, "finish", o)
    BY <1>13 DEF ProviderCall
  <2>2. PICK applied \in AppliedOn(answer), o \in OutcomesOf(job[p].kind, answer) :
             /\ io' = [io EXCEPT ![job[p].id] = @ + 1]
             /\ effect' = [effect EXCEPT ![job[p].id] = @ \/ applied]
             /\ GotoWith(p, "finish", o)
    BY <2>1
  <2>3. applied \in BOOLEAN /\ o \in {"succeeded", "failed", "uncertain"}
    BY DEF ProviderAnswers, AppliedOn, OutcomesOf
  <2>4. ProcType'
    BY <1>0, <2>2, <2>3, GotoWithType DEF Steps, Outcomes
  <2>5. io' \in [Ids -> Nat]
    BY <2>2, <1>j DEF TypeInv, TypeOK
  <2>6. effect' \in [Ids -> BOOLEAN]
    BY <2>2, <2>3, <1>j, Zenon DEF TypeInv, TypeOK
  <2>7. QED
    BY <1>13, <2>4, <2>5, <2>6, <1>t DEF ProviderCall, TypeInv, TypeOK
<1>14. CASE FinishInvocation(p)
  <2>1. ProcType'
    BY <1>0, <1>14, ReturnType DEF FinishInvocation, RowWriteAllowed
  <2>2. job[p].outcome \in Statuses
    BY <1>14 DEF FinishInvocation, RowWriteAllowed, TypeInv, OutcomeKnown, Statuses
  <2>3. ledger' \in [Ids -> Row]
    <3>1. ledger[job[p].id] \in Row
      BY <1>j DEF TypeInv, TypeOK
    <3>2. /\ WithStatus(ledger[job[p].id], job[p].outcome) \in Row
          /\ Updated(ledger[job[p].id], job[p].outcome, NoEvidence,
                     job[p].kind = "standard", FALSE) \in Row
      BY <3>1, <2>2, IdleTypes, UpdatedType
    <3>3. QED
      BY <1>14, <1>j, <3>2 DEF FinishInvocation, RowWriteAllowed, TypeInv, TypeOK
  <2>4. QED
    BY <1>14, <2>1, <2>3, <1>l DEF FinishInvocation, RowWriteAllowed
<1>15. CASE FinishAccountWrite(p)
  <2>1. ProcType'
    BY <1>0, <1>15, GotoType, ReturnType DEF FinishAccountWrite, RowWriteAllowed, Steps
  <2>2. job[p].outcome \in Statuses
    BY <1>15 DEF FinishAccountWrite, RowWriteAllowed, TypeInv, OutcomeKnown, Statuses
  <2>3. ledger' \in [Ids -> Row]
    <3>1. ledger[job[p].id] \in Row
      BY <1>j DEF TypeInv, TypeOK
    <3>2. QED
      BY <1>15, <1>j, <2>2, <3>1, UpdatedType DEF FinishAccountWrite, RowWriteAllowed, TypeInv, TypeOK
  <2>4. QED
    BY <1>15, <2>1, <2>3, <1>l DEF FinishAccountWrite, RowWriteAllowed
<1>16. CASE ReplyAccountWrite(p)
  <2>1. ProcType'
    BY <1>0, <1>16, ReturnType DEF ReplyAccountWrite
  <2>2. told' \in [Ids -> SUBSET Outcomes]
    BY <1>16, <1>j DEF ReplyAccountWrite, TypeInv, TypeOK
  <2>3. QED
    BY <1>16, <2>1, <2>2, <1>t DEF ReplyAccountWrite, TypeInv, TypeOK
<1>17. CASE Crash(p)
  <2>1. ProcType'
    BY <1>0, <1>17, ReturnType DEF Crash
  <2>2. QED
    BY <1>17, <2>1, <1>t, <1>h DEF Crash
<1>18. QED
  BY <1>1, <1>2, <1>3, <1>4, <1>5, <1>6, <1>7, <1>8, <1>9, <1>10, <1>11, <1>12,
     <1>13, <1>14, <1>15, <1>16, <1>17 DEF Request

\* Every step of a reconciler keeps the types.
LEMMA ReconcileType ==
  ASSUME TypeInv, NEW w \in Workers, ProcessDueReconciliations(w)
  PROVE  TypeInv'
<1> USE DEF procVars, workerVars, fenceVars, history, TypeInv, TypeOK, OutcomeKnown
<1>s. snap[w].id \in Ids /\ snap[w].row \in Row /\ snap[w].lookup \in Lookups
  BY DEF Snap
<1>1. CASE ScanReconciliation(w)
  BY <1>1 DEF ScanReconciliation, Snap, Lookups, WorkerSteps
<1>2. CASE ClaimReconciliation(w)
  <2>1. ledger' \in [Ids -> Row]
    <3>1. ledger[snap[w].id] \in Row /\ "reconciling" \in Statuses
      BY <1>s DEF Statuses
    <3>2. QED
      BY <1>2, <1>s, <3>1, UpdatedType DEF ClaimReconciliation, RowWriteAllowed
  <2>2. wpc' \in [Workers -> WorkerSteps] /\ snap' \in [Workers -> Snap]
        /\ rounds' \in [Workers -> Nat]
    BY <1>2, IdleTypes DEF ClaimReconciliation, RowWriteAllowed, EndRound, WorkerSteps
  <2>3. QED
    BY <1>2, <2>1, <2>2 DEF ClaimReconciliation, RowWriteAllowed
<1>3. CASE LookupReconciliation(w)
  <2>1. CASE EndRound(w)
    BY <1>3, <2>1, IdleTypes DEF LookupReconciliation, EndRound, WorkerSteps
  <2>2. CASE \E l \in Lookups : /\ wpc' = [wpc EXCEPT ![w] = "persist"]
                                /\ snap' = [snap EXCEPT ![w].lookup = l]
                                /\ UNCHANGED rounds
    <3>1. snap' \in [Workers -> Snap]
      BY <2>2 DEF Snap
    <3>2. QED
      BY <1>3, <2>2, <3>1 DEF LookupReconciliation, WorkerSteps
  <2>3. QED
    BY <1>3, <2>1, <2>2 DEF LookupReconciliation
<1>4. CASE PersistReconciliation(w)
  <2>1. ledger' \in [Ids -> Row]
    BY <1>4, <1>s DEF PersistReconciliation, RowWriteAllowed, ReconciledStatus, Row,
                      Statuses, Updated
  <2>2. wpc' \in [Workers -> WorkerSteps] /\ snap' \in [Workers -> Snap]
        /\ rounds' \in [Workers -> Nat]
    BY <1>4, IdleTypes DEF PersistReconciliation, RowWriteAllowed, ReconciledStatus,
                           EndRound, WorkerSteps
  <2>3. QED
    BY <1>4, <2>1, <2>2 DEF PersistReconciliation, RowWriteAllowed, ReconciledStatus
<1>5. CASE CrashWorker(w)
  BY <1>5, IdleTypes DEF CrashWorker, EndRound, WorkerSteps
<1>6. QED
  BY <1>1, <1>2, <1>3, <1>4, <1>5 DEF ProcessDueReconciliations

\* Every step keeps the types.
LEMMA NextType == TypeInv /\ [Next]_vars => TypeInv'
<1> SUFFICES ASSUME TypeInv, [Next]_vars PROVE TypeInv'
  OBVIOUS
<1>1. CASE PrepareErasure
  <2>1. ledger \in [Ids -> Row]
    BY DEF TypeInv, TypeOK
  <2>2. PICK S \in SUBSET Ids :
          /\ subjectFenced' = subjectFenced \cup S
          /\ rowFenced' = rowFenced \cup {i \in S : ledger[i].status # "absent"}
          /\ ledger' = [i \in Ids |->
                IF i \in S /\ ledger[i].status # "absent"
                THEN [ledger[i] EXCEPT !.status = "erasing"]
                ELSE ledger[i]]
          /\ UNCHANGED <<revision, procVars, workerVars, history>>
    BY <1>1 DEF PrepareErasure
  <2>3. ledger' \in [Ids -> Row]
    BY <2>1, <2>2 DEF Row, Statuses
  <2>4. subjectFenced' \in SUBSET Ids /\ rowFenced' \in SUBSET Ids
    BY <2>2 DEF TypeInv, TypeOK
  <2>5. QED
    BY <2>2, <2>3, <2>4 DEF TypeInv, TypeOK, OutcomeKnown, procVars, workerVars, history
<1>2. CASE EraseInvocations
  BY <1>2, IdleTypes DEF EraseInvocations, TypeInv, TypeOK, OutcomeKnown, Row,
              Statuses, Updated, procVars, workerVars, fenceVars, history
<1>3. CASE ChangeAccount
  BY <1>3 DEF ChangeAccount, TypeInv, TypeOK, OutcomeKnown,
              procVars, workerVars, fenceVars, history
<1>4. CASE UNCHANGED vars
  BY <1>4 DEF vars, TypeInv, TypeOK, OutcomeKnown
<1>5. QED
  BY <1>1, <1>2, <1>3, <1>4, RequestType, ReconcileType DEF Next

\* Every reachable state is well typed; in particular no row ever gets a
\* status outside the six the code writes.
THEOREM TypeCorrect == Spec => []TypeOK
<1>1. Spec => []TypeInv
  BY InitType, NextType, PTL DEF Spec
<1>2. QED
  BY <1>1, PTL DEF TypeInv

-----------------------------------------------------------------------------
(* The inductive invariant *)

\* The request a process serves is one its id admits, and the step it is at
\* is one of that request's handler.
KindFits ==
    \A p \in Procs : pc[p] # "idle" =>
        /\ job[p].kind \in KindsOf(job[p].id)
        /\ pc[p] \in {"prepare", "update"} => job[p].kind \in {"delivery", "standard"}
        /\ pc[p] \in {"claim", "authorize", "recheck"} => job[p].kind = "write"
        /\ pc[p] \in {"read", "reply"} => job[p].kind \in {"write", "receipt"}
        /\ pc[p] \in {"guard", "insert", "call", "finish"} => job[p].kind # "receipt"
        /\ job[p].kind \in {"write", "receipt"} => job[p].content \in Contents

\* A reconciler never holds an account write, and its lookup says succeeded
\* only of an applied effect.
LookupFits ==
    \A w \in Workers : wpc[w] # "idle" =>
        /\ snap[w].id \notin WriteIds
        /\ snap[w].lookup = "succeeded" => effect[snap[w].id]

\* A process past its claim has a row, and under an insert-only id it is the
\* only one.
ClaimIsExclusive ==
    \A p \in Procs : pc[p] \in Claimed =>
        /\ ledger[job[p].id].status # "absent"
        /\ job[p].id \in InsertOnlyIds =>
              \A q \in Procs :
                  pc[q] \in Claimed /\ job[q].id = job[p].id => q = p

\* A call made leaves a row behind, and under an insert-only id nobody is on
\* the way to another one; without a call there is no effect.
CallsAreSpent ==
    /\ \A i \in Ids : io[i] = 0 => ~effect[i]
    /\ \A i \in InsertOnlyIds : io[i] # 0 =>
          /\ io[i] = 1
          /\ ledger[i].status # "absent"
          /\ \A p \in Procs :
                job[p].id = i => pc[p] \notin {"authorize", "recheck", "call"}

\* The outcome a process carries agrees with the provider: succeeded only after
\* an effect, and a write about to be failed has had none.
OutcomeFits ==
    \A p \in Procs : pc[p] \in {"finish", "reply"} =>
        /\ job[p].outcome = "succeeded" => effect[job[p].id]
        /\ job[p].outcome = "failed" /\ job[p].kind = "write" /\ pc[p] = "finish" =>
              ~effect[job[p].id]

\* A failed reply, given or about to be, settles the identity: no effect, and
\* nobody is on the way to one.
Settled(i) ==
    /\ ~effect[i]
    /\ ledger[i].status # "absent"
    /\ \A p \in Procs : job[p].id = i => pc[p] \notin {"authorize", "recheck", "call"}

RepliesSettle ==
    /\ \A p \in Procs :
          pc[p] = "reply" /\ job[p].outcome = "failed" => Settled(job[p].id)
    /\ \A i \in WriteIds :
          /\ "failed" \in told[i] => Settled(i)
          /\ "succeeded" \in told[i] => effect[i]

\* A row is fenced only with its subject, and only when it exists.
FencesFit ==
    /\ rowFenced \subseteq subjectFenced
    /\ \A i \in rowFenced : ledger[i].status # "absent"

IndInv ==
    /\ TypeInv
    /\ KindFits
    /\ LookupFits
    /\ ClaimIsExclusive
    /\ ClaimIsIntact
    /\ CallsAreSpent
    /\ OutcomeFits
    /\ FailedWriteHadNoEffect
    /\ SuccessIsConfirmed
    /\ RepliesSettle
    /\ FencesFit


\* The invariant holds initially.
LEMMA InitInv == Init => IndInv
<1> SUFFICES ASSUME Init PROVE IndInv
  OBVIOUS
<1>1. TypeInv
  BY InitType
<1>2. KindFits /\ LookupFits /\ ClaimIsExclusive /\ ClaimIsIntact /\ OutcomeFits
  BY DEF Init, KindFits, LookupFits, ClaimIsExclusive, ClaimIsIntact, OutcomeFits,
         Claimed
<1>3. CallsAreSpent /\ RepliesSettle /\ FencesFit
  BY DEF Init, CallsAreSpent, RepliesSettle, FencesFit, InsertOnlyIds, Ids
<1>4. FailedWriteHadNoEffect /\ SuccessIsConfirmed
  BY DEF Init, FailedWriteHadNoEffect, SuccessIsConfirmed, NoRow, Ids
<1>5. QED
  BY <1>1, <1>2, <1>3, <1>4 DEF IndInv

-----------------------------------------------------------------------------
(* Steps of a request *)

\* A step of p concerns no other process.
Others(p) == \A q \in Procs \ {p} : pc'[q] = pc[q] /\ job'[q] = job[q]

\* What a step of one process leaves alone.
LEMMA ProcSteps ==
  ASSUME TypeInv, NEW p \in Procs
  PROVE  /\ \A s : Goto(p, s) => Others(p) /\ pc'[p] = s /\ job' = job
         /\ \A s, o : GotoWith(p, s, o) =>
               /\ Others(p)
               /\ pc'[p] = s
               /\ job'[p].outcome = o
               /\ job'[p].id = job[p].id
               /\ job'[p].kind = job[p].kind
               /\ job'[p].content = job[p].content
               /\ job'[p].revision = job[p].revision
         /\ Return(p) => Others(p) /\ pc'[p] = "idle"
BY DEF TypeInv, TypeOK, Goto, GotoWith, Return, Others, Job

\* A request that begins has its kind, id and content, and writes no row.
LEMMA BeginStep ==
  ASSUME TypeInv, NEW p \in Procs, NEW s, NEW k, NEW i, NEW c, Begin(p, s, k, i, c)
  PROVE  /\ Others(p)
         /\ pc'[p] = s
         /\ job'[p].kind = k
         /\ job'[p].id = i
         /\ job'[p].content = c
         /\ UNCHANGED <<ledger, fenceVars, workerVars, history>>
BY DEF TypeInv, TypeOK, Begin, Others

\* A process that touches neither table, provider nor caller, and ends outside
\* its claim, keeps the invariant if its own next step is in order.
LEMMA QuietStep ==
  ASSUME IndInv, TypeInv', NEW p \in Procs, Others(p),
         UNCHANGED <<ledger, fenceVars, workerVars, history>>,
         pc'[p] \notin Claimed,
         pc'[p] # "idle" =>
            /\ job'[p].kind \in KindsOf(job'[p].id)
            /\ pc'[p] \in {"prepare", "update"} => job'[p].kind \in {"delivery", "standard"}
            /\ pc'[p] = "claim" => job'[p].kind = "write"
            /\ pc'[p] \in {"read", "reply"} => job'[p].kind \in {"write", "receipt"}
            /\ pc'[p] \in {"guard", "insert"} => job'[p].kind # "receipt"
            /\ job'[p].kind \in {"write", "receipt"} => job'[p].content \in Contents,
         pc'[p] = "reply" =>
            /\ job'[p].outcome = "succeeded" => effect[job'[p].id]
            /\ job'[p].outcome = "failed" => Settled(job'[p].id)
  PROVE  IndInv'
<1> USE DEF fenceVars, workerVars, history, Claimed
<1>1. KindFits'
  BY DEF IndInv, KindFits, Others, KindsOf
<1>2. LookupFits' /\ FencesFit' /\ FailedWriteHadNoEffect' /\ SuccessIsConfirmed'
  BY DEF IndInv, LookupFits, FencesFit, FailedWriteHadNoEffect, SuccessIsConfirmed
<1>3. ClaimIsExclusive' /\ ClaimIsIntact'
  BY DEF IndInv, ClaimIsExclusive, ClaimIsIntact, Others, SameEvidence, InsertOnlyIds
<1>4. CallsAreSpent'
  BY DEF IndInv, CallsAreSpent, Others, InsertOnlyIds
<1>5. OutcomeFits'
  BY DEF IndInv, OutcomeFits, Others
<1>6. RepliesSettle'
  BY DEF IndInv, RepliesSettle, Settled, Others
<1>7. QED
  BY <1>1, <1>2, <1>3, <1>4, <1>5, <1>6 DEF IndInv


\* Requests that begin, look something up, reply with what they read, or end.
LEMMA QuietRequests ==
  ASSUME IndInv, TypeInv', NEW p \in Procs,
         \/ AcceptDelivery(p) \/ Call(p)
         \/ WriteConnectionAccount(p) \/ ReadConnectionAccountWriteReceipt(p)
         \/ PrepareInvocation(p) \/ GuardInsert(p)
         \/ ClaimAccountWrite(p) \/ ReadAccountWrite(p) \/ Crash(p)
  PROVE  IndInv'
<1> USE DEF fenceVars, workerVars, history, Claimed
<1>t. TypeInv
  BY DEF IndInv
<1>i. job[p].id \in Ids
  BY <1>t DEF TypeInv, TypeOK, Job
<1>1. CASE AcceptDelivery(p)
  <2>1. PICK i \in DeliveryIds : Begin(p, "prepare", "delivery", i, NoContent)
    BY <1>1 DEF AcceptDelivery
  <2>2. "delivery" \in KindsOf(i)
    BY DEF KindsOf
  <2>3. QED
    BY <1>t, <2>1, <2>2, BeginStep, QuietStep
<1>2. CASE Call(p)
  <2>1. PICK i \in CallIds :
           \/ "standard" \in CallModes[i] /\ Begin(p, "prepare", "standard", i, NoContent)
           \/ "sensitive" \in CallModes[i] /\ Begin(p, "guard", "sensitive", i, NoContent)
    BY <1>2 DEF Call
  <2>2. KindsOf(i) = CallModes[i]
    BY IdsAssumption DEF KindsOf
  <2>3. CASE "standard" \in CallModes[i] /\ Begin(p, "prepare", "standard", i, NoContent)
    BY <1>t, <2>2, <2>3, BeginStep, QuietStep
  <2>4. CASE "sensitive" \in CallModes[i] /\ Begin(p, "guard", "sensitive", i, NoContent)
    BY <1>t, <2>2, <2>4, BeginStep, QuietStep
  <2>5. QED
    BY <2>1, <2>3, <2>4
<1>3. CASE WriteConnectionAccount(p)
  <2>1. PICK i \in WriteIds, c \in Contents : Begin(p, "claim", "write", i, c)
    BY <1>3 DEF WriteConnectionAccount
  <2>2. "write" \in KindsOf(i)
    BY IdsAssumption DEF KindsOf
  <2>3. QED
    BY <1>t, <2>1, <2>2, BeginStep, QuietStep
<1>4. CASE ReadConnectionAccountWriteReceipt(p)
  <2>1. PICK i \in WriteIds, c \in Contents : Begin(p, "read", "receipt", i, c)
    BY <1>4 DEF ReadConnectionAccountWriteReceipt
  <2>2. "receipt" \in KindsOf(i)
    BY IdsAssumption DEF KindsOf
  <2>3. QED
    BY <1>t, <2>1, <2>2, BeginStep, QuietStep
<1>5. CASE PrepareInvocation(p)
  <2>1. CASE Return(p)
    BY <1>5, <1>t, <2>1, ProcSteps, QuietStep DEF PrepareInvocation
  <2>2. CASE \E s \in {"guard", "update"} : Goto(p, s)
    BY <1>5, <1>t, <2>2, ProcSteps, QuietStep
       DEF PrepareInvocation, IndInv, KindFits
  <2>3. QED
    BY <1>5, <2>1, <2>2 DEF PrepareInvocation
<1>6. CASE GuardInsert(p)
  <2>1. CASE Return(p)
    BY <1>6, <1>t, <2>1, ProcSteps, QuietStep DEF GuardInsert
  <2>2. CASE Goto(p, "insert") \/ (Goto(p, "read") /\ job[p].kind = "write")
    BY <1>6, <1>t, <2>2, ProcSteps, QuietStep DEF GuardInsert, IndInv, KindFits
  <2>3. QED
    BY <1>6, <2>1, <2>2 DEF GuardInsert
\* A write row whose evidence matches a request is nobody's claim once it is
\* terminal: what it says is final.
<1>r. ASSUME job[p].kind \in {"write", "receipt"}, pc[p] # "idle",
             ledger[job[p].id].status # "absent",
             SameEvidence(ledger[job[p].id], job[p]),
             NEW o, o = ReceiptStatus(ledger[job[p].id])
      PROVE  /\ o = "succeeded" => effect[job[p].id]
             /\ o = "failed" => Settled(job[p].id)
  <2>1. job[p].id \in WriteIds /\ job[p].content \in Contents
    BY <1>r, <1>i, ModesAssumption DEF IndInv, KindFits, KindsOf, CallKinds, Ids
  <2>2. o = "succeeded" => effect[job[p].id]
    BY <1>r, <1>i DEF IndInv, SuccessIsConfirmed, ReceiptStatus
  <2>3. ASSUME o = "failed" PROVE Settled(job[p].id)
    <3>1. ledger[job[p].id].status = "failed"
      BY <1>r, <2>3 DEF ReceiptStatus
    <3>2. ledger[job[p].id].evidence # NoEvidence
      BY <1>r, <2>1, ContentAssumption DEF SameEvidence, NoEvidence
    <3>3. ~effect[job[p].id]
      BY <2>1, <3>1, <3>2 DEF IndInv, FailedWriteHadNoEffect
    <3>4. ASSUME NEW q \in Procs, job[q].id = job[p].id,
                 pc[q] \in {"authorize", "recheck", "call"}
          PROVE  FALSE
      <4>1. job[q].kind = "write"
        BY <2>1, <3>4, IdsAssumption DEF IndInv, KindFits, KindsOf
      <4>2. QED
        BY <3>1, <3>4, <4>1 DEF IndInv, ClaimIsIntact
    <3>5. QED
      BY <1>r, <3>3, <3>4 DEF Settled
  <2>4. QED
    BY <2>2, <2>3
<1>7. CASE ClaimAccountWrite(p)
  <2>k. job[p].kind = "write" /\ job[p].kind \in KindsOf(job[p].id)
        /\ job[p].content \in Contents
    BY <1>7 DEF ClaimAccountWrite, IndInv, KindFits
  <2>1. CASE Return(p)
    BY <1>7, <1>t, <2>1, ProcSteps, QuietStep DEF ClaimAccountWrite
  <2>2. CASE Goto(p, "guard")
    BY <1>7, <1>t, <2>k, <2>2, ProcSteps, QuietStep DEF ClaimAccountWrite
  <2>3. CASE /\ ledger[job[p].id].status # "absent"
             /\ SameEvidence(ledger[job[p].id], job[p])
             /\ GotoWith(p, "reply", ReceiptStatus(ledger[job[p].id]))
    <3>1. PICK o : o = ReceiptStatus(ledger[job[p].id])
      OBVIOUS
    <3>2. /\ o = "succeeded" => effect[job[p].id]
          /\ o = "failed" => Settled(job[p].id)
      BY <1>r, <1>7, <2>k, <2>3, <3>1 DEF ClaimAccountWrite
    <3>3. /\ Others(p) /\ pc'[p] = "reply" /\ job'[p].outcome = o
          /\ job'[p].id = job[p].id /\ job'[p].kind = job[p].kind
          /\ job'[p].content = job[p].content
      BY <1>t, <2>3, <3>1, ProcSteps
    <3>4. QED
      BY <1>7, <2>k, <3>2, <3>3, QuietStep DEF ClaimAccountWrite
  <2>4. QED
    BY <1>7, <2>1, <2>2, <2>3 DEF ClaimAccountWrite
<1>8. CASE ReadAccountWrite(p)
  <2>k. job[p].kind \in {"write", "receipt"} /\ job[p].kind \in KindsOf(job[p].id)
        /\ job[p].content \in Contents
    BY <1>8 DEF ReadAccountWrite, IndInv, KindFits
  <2>1. CASE Return(p)
    BY <1>8, <1>t, <2>1, ProcSteps, QuietStep DEF ReadAccountWrite
  <2>2. CASE GotoWith(p, "reply", "not_found")
    BY <1>8, <1>t, <2>k, <2>2, ProcSteps, QuietStep DEF ReadAccountWrite
  <2>3. CASE /\ ledger[job[p].id].status # "absent"
             /\ SameEvidence(ledger[job[p].id], job[p])
             /\ GotoWith(p, "reply", ReceiptStatus(ledger[job[p].id]))
    <3>1. PICK o : o = ReceiptStatus(ledger[job[p].id])
      OBVIOUS
    <3>2. /\ o = "succeeded" => effect[job[p].id]
          /\ o = "failed" => Settled(job[p].id)
      BY <1>r, <1>8, <2>k, <2>3, <3>1 DEF ReadAccountWrite
    <3>3. /\ Others(p) /\ pc'[p] = "reply" /\ job'[p].outcome = o
          /\ job'[p].id = job[p].id /\ job'[p].kind = job[p].kind
          /\ job'[p].content = job[p].content
      BY <1>t, <2>3, <3>1, ProcSteps
    <3>4. QED
      BY <1>8, <2>k, <3>2, <3>3, QuietStep DEF ReadAccountWrite
  <2>4. QED
    BY <1>8, <2>1, <2>2, <2>3 DEF ReadAccountWrite
<1>9. CASE Crash(p)
  BY <1>9, <1>t, ProcSteps, QuietStep DEF Crash
<1>10. QED
  BY <1>1, <1>2, <1>3, <1>4, <1>5, <1>6, <1>7, <1>8, <1>9


\* The reset of a row by a delivery or a standard call: its id is not
\* insert-only, so no part about insert-only ids is concerned.
LEMMA ResetStep ==
  ASSUME IndInv, TypeInv', NEW p \in Procs, ResetInvocation(p)
  PROVE  IndInv'
<1> DEFINE i == job[p].id
<1> USE DEF fenceVars, workerVars, history, Claimed
<1>t. TypeInv
  BY DEF IndInv
<1>i. i \in Ids
  BY <1>t DEF TypeInv, TypeOK, Job
<1>1. CASE Return(p) /\ UNCHANGED ledger
  BY <1>1, <1>t, ProcSteps, QuietStep DEF ResetInvocation, RowWriteAllowed
<1>2. CASE /\ i \notin rowFenced
           /\ ledger' = [ledger EXCEPT ![i] = Updated(@, "running", NoEvidence, TRUE, FALSE)]
           /\ Goto(p, "call")
  <2>1. Others(p) /\ pc'[p] = "call" /\ job' = job
    BY <1>t, <1>2, ProcSteps
  <2>2. /\ \A j \in Ids : j # i => ledger'[j] = ledger[j]
        /\ ledger'[i].status = "running"
    BY <1>i, <1>t, <1>2 DEF TypeInv, TypeOK, Updated
  <2>3. job[p].kind \in {"delivery", "standard"} /\ job[p].kind \in KindsOf(i)
    BY DEF ResetInvocation, RowWriteAllowed, IndInv, KindFits
  <2>4. i \notin InsertOnlyIds /\ i \notin WriteIds
    BY <1>i, <2>3, IdsAssumption, ModesAssumption
       DEF KindsOf, InsertOnlyIds, Ids, CallKinds
  <2>5. UNCHANGED <<fenceVars, workerVars, history>>
    BY DEF ResetInvocation, RowWriteAllowed
  <2>ids. InsertOnlyIds \subseteq Ids /\ WriteIds \subseteq Ids
    BY DEF InsertOnlyIds, Ids
  <2>j. \A q \in Procs : job[q].id \in Ids
    BY <1>t DEF TypeInv, TypeOK, Job
  <2>k. \A q \in Procs : job[q].kind = "write" /\ pc[q] \in Claimed => job[q].id # i
    BY <1>i, <2>4, ModesAssumption DEF IndInv, KindFits, KindsOf, CallKinds, Ids
  <2>6. KindFits'
    BY <2>1, <2>3 DEF IndInv, KindFits, Others, KindsOf
  <2>7. LookupFits' /\ OutcomeFits'
    BY <2>1, <2>5 DEF IndInv, LookupFits, OutcomeFits, Others
  <2>8. ClaimIsExclusive'
    BY <2>1, <2>2, <2>4, <2>ids, <2>j DEF IndInv, ClaimIsExclusive, InsertOnlyIds, Others
  <2>9. ClaimIsIntact'
    BY <2>1, <2>2, <2>3, <2>5, <2>j, <2>k
       DEF IndInv, ClaimIsIntact, SameEvidence, Others
  <2>10. CallsAreSpent'
    BY <2>1, <2>2, <2>4, <2>5, <2>ids DEF IndInv, CallsAreSpent, InsertOnlyIds, Others
  <2>11. FailedWriteHadNoEffect' /\ SuccessIsConfirmed' /\ FencesFit'
    BY <2>2, <2>4, <2>5, <2>ids, <1>t
       DEF IndInv, FailedWriteHadNoEffect, SuccessIsConfirmed, FencesFit, TypeInv, TypeOK
  <2>12. RepliesSettle'
    <3>1. \A q \in Procs : pc[q] = "reply" => job[q].id # i
      BY <1>i, <2>4, ModesAssumption DEF IndInv, KindFits, KindsOf, CallKinds, Ids
    <3>2. \A j \in Ids : Settled(j) /\ j # i => Settled(j)'
      BY <2>1, <2>2, <2>5 DEF Settled, Others
    <3>3. QED
      BY <2>1, <2>4, <2>5, <2>ids, <2>j, <3>1, <3>2 DEF IndInv, RepliesSettle, Others
  <2>13. QED
    BY <2>6, <2>7, <2>8, <2>9, <2>10, <2>11, <2>12 DEF IndInv
<1>3. QED
  BY <1>1, <1>2 DEF ResetInvocation, RowWriteAllowed

\* The insert of the claim: it needs an absent row, so nobody holds the id and
\* nothing was ever called under it if it is insert-only.
LEMMA InsertStep ==
  ASSUME IndInv, TypeInv', NEW p \in Procs, InsertInvocation(p)
  PROVE  IndInv'
<1> DEFINE i == job[p].id
<1> USE DEF fenceVars, workerVars, history, Claimed
<1>t. TypeInv
  BY DEF IndInv
<1>i. i \in Ids
  BY <1>t DEF TypeInv, TypeOK, Job
<1>k. job[p].kind \in KindsOf(i) /\ job[p].kind # "receipt"
      /\ (job[p].kind = "write" => job[p].content \in Contents)
  BY DEF InsertInvocation, InsertAdmits, IndInv, KindFits
<1>1. CASE UNCHANGED ledger /\ (Return(p) \/ (job[p].kind = "write" /\ Goto(p, "read")))
  BY <1>1, <1>t, <1>k, ProcSteps, QuietStep DEF InsertInvocation, InsertAdmits
<1>2. CASE /\ ledger[i].status = "absent"
           /\ ledger' = [ledger EXCEPT ![i] =
                 [status |-> "running", evidence |-> ClaimEvidence(job[p]),
                  payload |-> job[p].kind \in {"delivery", "standard"},
                  terminal |-> FALSE, updatedAt |-> 1]]
           /\ Goto(p, IF job[p].kind = "write" THEN "authorize" ELSE "call")
  <2>1. /\ Others(p) /\ job' = job
        /\ pc'[p] = IF job[p].kind = "write" THEN "authorize" ELSE "call"
    BY <1>t, <1>2, ProcSteps
  <2>2. /\ \A j \in Ids : j # i => ledger'[j] = ledger[j]
        /\ ledger'[i].status = "running"
        /\ ledger'[i].evidence = ClaimEvidence(job[p])
    BY <1>i, <1>t, <1>2 DEF TypeInv, TypeOK
  <2>5. UNCHANGED <<fenceVars, workerVars, history>>
    BY DEF InsertInvocation, InsertAdmits
  <2>ids. InsertOnlyIds \subseteq Ids /\ WriteIds \subseteq Ids
    BY DEF InsertOnlyIds, Ids
  <2>j. \A q \in Procs : job[q].id \in Ids
    BY <1>t DEF TypeInv, TypeOK, Job
  <2>k. \A q \in Procs : pc[q] \in Claimed => job[q].id # i
    BY <1>2 DEF IndInv, ClaimIsExclusive
  <2>6. KindFits'
    BY <1>k, <2>1 DEF IndInv, KindFits, Others, KindsOf
  <2>7. LookupFits' /\ OutcomeFits'
    BY <2>1, <2>5 DEF IndInv, LookupFits, OutcomeFits, Others
  <2>8. ClaimIsExclusive'
    BY <2>1, <2>2, <2>ids, <2>j, <2>k DEF IndInv, ClaimIsExclusive, InsertOnlyIds, Others
  <2>f. i \notin rowFenced
    BY <1>2 DEF IndInv, FencesFit
  <2>9. ClaimIsIntact'
    BY <2>1, <2>2, <2>5, <2>j, <2>k, <2>f
       DEF IndInv, ClaimIsIntact, SameEvidence, ClaimEvidence, Others
  <2>10. CallsAreSpent'
    BY <1>2, <2>1, <2>2, <2>5, <2>ids DEF IndInv, CallsAreSpent, InsertOnlyIds, Others
  <2>11. FailedWriteHadNoEffect' /\ SuccessIsConfirmed' /\ FencesFit'
    BY <2>2, <2>5, <2>f, <2>ids, <1>t
       DEF IndInv, FailedWriteHadNoEffect, SuccessIsConfirmed, FencesFit, TypeInv, TypeOK
  <2>12. RepliesSettle'
    <3>2. \A j \in Ids : Settled(j) => Settled(j)'
      BY <1>2, <2>1, <2>2, <2>5 DEF Settled, Others
    <3>3. QED
      BY <2>1, <2>5, <2>ids, <2>j, <3>2 DEF IndInv, RepliesSettle, Others
  <2>13. QED
    BY <2>6, <2>7, <2>8, <2>9, <2>10, <2>11, <2>12 DEF IndInv
<1>3. QED
  BY <1>1, <1>2 DEF InsertInvocation, InsertAdmits


\* The checks between claim and call: the process keeps its claim, and gives
\* it up as failed only while nothing has been called.
LEMMA CheckSteps ==
  ASSUME IndInv, TypeInv', NEW p \in Procs,
         AuthorizeAccountWrite(p) \/ RecheckAccountWrite(p)
  PROVE  IndInv'
<1> USE DEF fenceVars, workerVars, history, Claimed
<1>t. TypeInv
  BY DEF IndInv
<1>1. /\ pc[p] \in {"authorize", "recheck"}
      /\ UNCHANGED <<ledger, fenceVars, workerVars, history>>
  BY DEF AuthorizeAccountWrite, RecheckAccountWrite
<1>2. /\ Others(p)
      /\ job'[p].id = job[p].id /\ job'[p].kind = job[p].kind
      /\ job'[p].content = job[p].content /\ job'[p].revision = job[p].revision
      /\ \/ pc'[p] \in {"recheck", "call"}
         \/ pc'[p] = "finish" /\ job'[p].outcome = "failed"
  BY <1>t, ProcSteps DEF AuthorizeAccountWrite, RecheckAccountWrite
<1>k. /\ job[p].kind = "write" /\ job[p].kind \in KindsOf(job[p].id)
      /\ job[p].content \in Contents
  BY <1>1 DEF IndInv, KindFits
<1>w. job[p].id \in WriteIds /\ job[p].id \in InsertOnlyIds /\ job[p].id \in Ids
  BY <1>k, <1>t, ModesAssumption
     DEF TypeInv, TypeOK, Job, KindsOf, CallKinds, InsertOnlyIds, Ids
<1>e. io[job[p].id] = 0 /\ ~effect[job[p].id]
  BY <1>1, <1>w DEF IndInv, CallsAreSpent
<1>3. KindFits'
  BY <1>2, <1>k DEF IndInv, KindFits, Others, KindsOf
<1>4. LookupFits' /\ FencesFit' /\ FailedWriteHadNoEffect' /\ SuccessIsConfirmed'
  BY <1>1 DEF IndInv, LookupFits, FencesFit, FailedWriteHadNoEffect, SuccessIsConfirmed
<1>5. ClaimIsExclusive'
  BY <1>1, <1>2 DEF IndInv, ClaimIsExclusive, Others, InsertOnlyIds
<1>6. ClaimIsIntact'
  BY <1>1, <1>2 DEF IndInv, ClaimIsIntact, Others, SameEvidence
<1>7. CallsAreSpent'
  BY <1>1, <1>2, <1>e DEF IndInv, CallsAreSpent, Others, InsertOnlyIds
<1>8. OutcomeFits'
  BY <1>1, <1>2, <1>e DEF IndInv, OutcomeFits, Others
<1>9. RepliesSettle'
  <2>1. \A j \in Ids : Settled(j) => Settled(j)'
    BY <1>1, <1>2 DEF Settled, Others
  <2>2. \A q \in Procs : job[q].id \in Ids
    BY <1>t DEF TypeInv, TypeOK, Job
  <2>3. QED
    BY <1>1, <1>2, <2>1, <2>2 DEF IndInv, RepliesSettle, Others, Ids
<1>10. QED
  BY <1>3, <1>4, <1>5, <1>6, <1>7, <1>8, <1>9 DEF IndInv

\* The call.  Under an insert-only id it is the first one, because the caller
\* alone holds the claim and the claim has not been spent.
LEMMA CallStep ==
  ASSUME IndInv, TypeInv', NEW p \in Procs, ProviderCall(p)
  PROVE  IndInv'
<1> DEFINE i == job[p].id
<1> USE DEF fenceVars, workerVars, history, Claimed
<1>t. TypeInv
  BY DEF IndInv
<1>i. i \in Ids
  BY <1>t DEF TypeInv, TypeOK, Job
<1>1. PICK answer \in ProviderAnswers :
        \E applied \in AppliedOn(answer), o \in OutcomesOf(job[p].kind, answer) :
           /\ io' = [io EXCEPT ![i] = @ + 1]
           /\ effect' = [effect EXCEPT ![i] = @ \/ applied]
           /\ GotoWith(p, "finish", o)
  BY DEF ProviderCall
<1>2. PICK applied \in AppliedOn(answer), o \in OutcomesOf(job[p].kind, answer) :
           /\ io' = [io EXCEPT ![i] = @ + 1]
           /\ effect' = [effect EXCEPT ![i] = @ \/ applied]
           /\ GotoWith(p, "finish", o)
  BY <1>1
<1>3. /\ o = "succeeded" => applied
      /\ job[p].kind = "write" /\ o = "failed" => ~applied
  BY DEF ProviderAnswers, AppliedOn, OutcomesOf
<1>4. /\ \A j \in Ids : j # i => io'[j] = io[j] /\ effect'[j] = effect[j]
      /\ io'[i] = io[i] + 1
      /\ effect'[i] <=> (effect[i] \/ applied)
  BY <1>i, <1>t, <1>2 DEF TypeInv, TypeOK
<1>5. /\ Others(p) /\ pc'[p] = "finish" /\ job'[p].outcome = o
      /\ job'[p].id = i /\ job'[p].kind = job[p].kind
      /\ job'[p].content = job[p].content /\ job'[p].revision = job[p].revision
  BY <1>t, <1>2, ProcSteps
<1>6. pc[p] = "call" /\ UNCHANGED <<ledger, fenceVars, workerVars, told>>
  BY DEF ProviderCall
<1>j. \A q \in Procs : job[q].id \in Ids
  BY <1>t DEF TypeInv, TypeOK, Job
<1>s. \A w \in Workers : snap[w].id \in Ids
  BY <1>t DEF TypeInv, TypeOK, Snap
<1>ids. InsertOnlyIds \subseteq Ids /\ WriteIds \subseteq InsertOnlyIds
  BY DEF InsertOnlyIds, Ids
<1>w. job[p].kind = "write" <=> i \in WriteIds
  BY <1>i, <1>6, ModesAssumption, IdsAssumption
     DEF IndInv, KindFits, KindsOf, CallKinds, Ids
<1>n. io[i] \in Nat
  BY <1>i, <1>t DEF TypeInv, TypeOK
<1>7. KindFits'
  BY <1>5, <1>6 DEF IndInv, KindFits, Others, KindsOf
<1>8. LookupFits'
  BY <1>4, <1>6, <1>s DEF IndInv, LookupFits
<1>9. ClaimIsExclusive' /\ FencesFit'
  BY <1>5, <1>6 DEF IndInv, ClaimIsExclusive, FencesFit, Others, InsertOnlyIds
<1>10. ClaimIsIntact'
  BY <1>5, <1>6 DEF IndInv, ClaimIsIntact, SameEvidence, Others
<1>11. CallsAreSpent'
  <2>1. \A j \in Ids : io'[j] = 0 => ~effect'[j]
    BY <1>4, <1>n DEF IndInv, CallsAreSpent
  <2>2. ASSUME NEW j \in InsertOnlyIds, io'[j] # 0
        PROVE  /\ io'[j] = 1
               /\ ledger'[j].status # "absent"
               /\ \A q \in Procs :
                     job'[q].id = j => pc'[q] \notin {"authorize", "recheck", "call"}
    <3>1. CASE j # i
      BY <1>4, <1>5, <1>6, <1>ids, <2>2, <3>1 DEF IndInv, CallsAreSpent, Others
    <3>2. CASE j = i
      <4>1. io[i] = 0
        BY <1>6, <3>2 DEF IndInv, CallsAreSpent
      <4>2. QED
        BY <1>4, <1>5, <1>6, <3>2, <4>1 DEF IndInv, ClaimIsExclusive, Others
    <3>3. QED
      BY <3>1, <3>2
  <2>3. QED
    BY <2>1, <2>2 DEF CallsAreSpent, InsertOnlyIds
<1>12. OutcomeFits'
  <2>1. job[p].kind = "write" => ~effect[i]
    BY <1>6, <1>w, <1>ids, <1>i DEF IndInv, CallsAreSpent
  <2>2. ASSUME NEW q \in Procs, q # p, pc[q] = "finish", job[q].kind = "write"
        PROVE  job[q].id # i
    BY <1>6, <1>w, <1>ids, <1>j, <2>2, ModesAssumption
       DEF IndInv, KindFits, KindsOf, CallKinds, ClaimIsExclusive, Ids
  <2>3. QED
    BY <1>3, <1>4, <1>5, <1>6, <1>i, <1>j, <2>1, <2>2 DEF IndInv, OutcomeFits, Others
<1>13. FailedWriteHadNoEffect'
  <2>1. i \in WriteIds => ledger[i].status = "running"
    BY <1>6, <1>w DEF IndInv, ClaimIsIntact
  <2>2. QED
    BY <1>4, <1>6, <1>ids, <2>1 DEF IndInv, FailedWriteHadNoEffect
<1>14. SuccessIsConfirmed'
  BY <1>4, <1>6 DEF IndInv, SuccessIsConfirmed
<1>15. RepliesSettle'
  <2>1. ~Settled(i)
    BY <1>6 DEF Settled
  <2>2. \A j \in Ids : Settled(j) /\ j # i => Settled(j)'
    BY <1>4, <1>5, <1>6 DEF Settled, Others
  <2>3. QED
    BY <1>4, <1>5, <1>6, <1>ids, <1>j, <2>1, <2>2 DEF IndInv, RepliesSettle, Others
<1>16. QED
  BY <1>7, <1>8, <1>9, <1>10, <1>11, <1>12, <1>13, <1>14, <1>15 DEF IndInv


\* A step that ends p's request, changes at most the row of one id and leaves
\* that row present, keeps what does not depend on the row's content.
LEMMA RowStep ==
  ASSUME IndInv, TypeInv', NEW p \in Procs, Others(p),
         pc'[p] \in {"idle", "read"},
         pc'[p] = "read" => job' = job /\ job[p].kind = "write" /\ pc[p] = "finish",
         UNCHANGED <<fenceVars, workerVars, history>>,
         NEW i \in Ids, \A j \in Ids : j # i => ledger'[j] = ledger[j],
         ledger[i].status # "absent" => ledger'[i].status # "absent"
  PROVE  /\ KindFits' /\ LookupFits' /\ ClaimIsExclusive' /\ CallsAreSpent'
         /\ OutcomeFits' /\ RepliesSettle' /\ FencesFit'
<1> USE DEF fenceVars, workerVars, history, Claimed
<1>t. TypeInv
  BY DEF IndInv
<1>ids. InsertOnlyIds \subseteq Ids /\ WriteIds \subseteq Ids
  BY DEF InsertOnlyIds, Ids
<1>j. \A q \in Procs : job[q].id \in Ids
  BY <1>t DEF TypeInv, TypeOK, Job
<1>1. KindFits' /\ LookupFits' /\ OutcomeFits'
  BY DEF IndInv, KindFits, LookupFits, OutcomeFits, Others, KindsOf
<1>2. ClaimIsExclusive'
  BY <1>j DEF IndInv, ClaimIsExclusive, Others, InsertOnlyIds
<1>3. CallsAreSpent'
  BY <1>ids DEF IndInv, CallsAreSpent, Others, InsertOnlyIds
<1>4. RepliesSettle'
  <2>1. \A j \in Ids : Settled(j) => Settled(j)'
    BY DEF Settled, Others
  <2>2. QED
    BY <1>ids, <1>j, <2>1 DEF IndInv, RepliesSettle, Others
<1>5. FencesFit'
  BY <1>t DEF IndInv, FencesFit, TypeInv, TypeOK
<1>6. QED
  BY <1>1, <1>2, <1>3, <1>4, <1>5

\* The terminal update of a delivery or a call.
LEMMA FinishStep ==
  ASSUME IndInv, TypeInv', NEW p \in Procs, FinishInvocation(p)
  PROVE  IndInv'
<1> DEFINE i == job[p].id
<1> USE DEF fenceVars, workerVars, history, Claimed
<1>t. TypeInv
  BY DEF IndInv
<1>i. i \in Ids
  BY <1>t DEF TypeInv, TypeOK, Job
<1>1. /\ pc[p] = "finish" /\ job[p].kind \in {"delivery", "standard", "sensitive"}
      /\ UNCHANGED <<fenceVars, workerVars, history>>
      /\ Others(p) /\ pc'[p] = "idle"
  BY <1>t, ProcSteps DEF FinishInvocation, RowWriteAllowed
<1>2. /\ \A j \in Ids : j # i => ledger'[j] = ledger[j]
      /\ ledger'[i] = ledger[i] \/ ledger'[i].status = job[p].outcome
  BY <1>i, <1>t DEF FinishInvocation, RowWriteAllowed, TypeInv, TypeOK, Updated, WithStatus
<1>3. job[p].outcome \in {"succeeded", "failed", "uncertain"}
  BY <1>1, <1>t DEF TypeInv, OutcomeKnown
<1>4. i \notin WriteIds
  BY <1>i, <1>1, IdsAssumption DEF IndInv, KindFits, KindsOf, Ids
<1>j. \A q \in Procs : job[q].id \in Ids
  BY <1>t DEF TypeInv, TypeOK, Job
<1>k. \A q \in Procs : job[q].kind = "write" /\ pc[q] \in Claimed => job[q].id # i
  BY <1>i, <1>4, ModesAssumption DEF IndInv, KindFits, KindsOf, CallKinds, Ids
<1>5. KindFits' /\ LookupFits' /\ ClaimIsExclusive' /\ CallsAreSpent'
      /\ OutcomeFits' /\ RepliesSettle' /\ FencesFit'
  BY <1>i, <1>1, <1>2, <1>3, RowStep
<1>6. ClaimIsIntact'
  BY <1>1, <1>2, <1>j, <1>k DEF IndInv, ClaimIsIntact, SameEvidence, Others
<1>7. FailedWriteHadNoEffect'
  BY <1>1, <1>2, <1>4 DEF IndInv, FailedWriteHadNoEffect, Ids
<1>8. SuccessIsConfirmed'
  BY <1>i, <1>1, <1>2 DEF IndInv, SuccessIsConfirmed, OutcomeFits
<1>9. QED
  BY <1>5, <1>6, <1>7, <1>8 DEF IndInv

\* The terminal update of an account write finds the claim as it was made, and
\* by ClaimIsExclusive it is nobody else's.
LEMMA FinishWriteStep ==
  ASSUME IndInv, TypeInv', NEW p \in Procs, FinishAccountWrite(p)
  PROVE  IndInv'
<1> DEFINE i == job[p].id
<1> USE DEF fenceVars, workerVars, history, Claimed
<1>t. TypeInv
  BY DEF IndInv
<1>i. i \in Ids
  BY <1>t DEF TypeInv, TypeOK, Job
<1>1. /\ pc[p] = "finish" /\ job[p].kind = "write"
      /\ UNCHANGED <<fenceVars, workerVars, history>>
  BY DEF FinishAccountWrite, RowWriteAllowed
<1>w. i \in WriteIds /\ i \in InsertOnlyIds
  BY <1>i, <1>1, ModesAssumption
     DEF IndInv, KindFits, KindsOf, CallKinds, InsertOnlyIds, Ids
<1>2. /\ ledger' = [ledger EXCEPT ![i] = WithStatus(@, job[p].outcome)]
      /\ Goto(p, "read")
  BY <1>1 DEF FinishAccountWrite, RowWriteAllowed, IndInv, ClaimIsIntact
<1>3. Others(p) /\ pc'[p] = "read" /\ job' = job
  BY <1>t, <1>2, ProcSteps
<1>4. /\ \A j \in Ids : j # i => ledger'[j] = ledger[j]
      /\ ledger'[i].status = job[p].outcome
  BY <1>i, <1>t, <1>2 DEF TypeInv, TypeOK, Updated, WithStatus
<1>5. job[p].outcome \in {"succeeded", "failed", "uncertain"}
  BY <1>1, <1>t DEF TypeInv, OutcomeKnown
<1>j. \A q \in Procs : job[q].id \in Ids
  BY <1>t DEF TypeInv, TypeOK, Job
<1>6. KindFits' /\ LookupFits' /\ ClaimIsExclusive' /\ CallsAreSpent'
      /\ OutcomeFits' /\ RepliesSettle' /\ FencesFit'
  BY <1>i, <1>1, <1>3, <1>4, <1>5, RowStep
<1>7. ClaimIsIntact'
  <2>1. \A q \in Procs : q # p /\ pc[q] \in Claimed => job[q].id # i
    BY <1>1, <1>w DEF IndInv, ClaimIsExclusive
  <2>2. QED
    BY <1>1, <1>3, <1>4, <1>j, <2>1 DEF IndInv, ClaimIsIntact, SameEvidence, Others
<1>8. FailedWriteHadNoEffect'
  BY <1>1, <1>4, <1>w DEF IndInv, FailedWriteHadNoEffect, OutcomeFits, Ids
<1>9. SuccessIsConfirmed'
  BY <1>1, <1>4 DEF IndInv, SuccessIsConfirmed, OutcomeFits
<1>10. QED
  BY <1>6, <1>7, <1>8, <1>9 DEF IndInv

\* The reply adds an outcome that is already settled.
LEMMA ReplyStep ==
  ASSUME IndInv, TypeInv', NEW p \in Procs, ReplyAccountWrite(p)
  PROVE  IndInv'
<1> DEFINE i == job[p].id
<1> USE DEF fenceVars, workerVars, history, Claimed
<1>t. TypeInv
  BY DEF IndInv
<1>i. i \in Ids
  BY <1>t DEF TypeInv, TypeOK, Job
<1>1. /\ pc[p] = "reply" /\ Others(p) /\ pc'[p] = "idle"
      /\ UNCHANGED <<ledger, fenceVars, workerVars, io, effect>>
  BY <1>t, ProcSteps DEF ReplyAccountWrite
<1>2. /\ \A j \in Ids : j # i => told'[j] = told[j]
      /\ told'[i] \subseteq told[i] \cup {job[p].outcome}
  BY <1>i, <1>t DEF ReplyAccountWrite, TypeInv, TypeOK
<1>j. \A q \in Procs : job[q].id \in Ids
  BY <1>t DEF TypeInv, TypeOK, Job
<1>3. KindFits' /\ OutcomeFits'
  BY <1>1 DEF IndInv, KindFits, OutcomeFits, Others, KindsOf
<1>4. /\ LookupFits' /\ FencesFit' /\ FailedWriteHadNoEffect' /\ SuccessIsConfirmed'
  BY <1>1 DEF IndInv, LookupFits, FencesFit, FailedWriteHadNoEffect, SuccessIsConfirmed
<1>5. ClaimIsExclusive' /\ ClaimIsIntact'
  BY <1>1 DEF IndInv, ClaimIsExclusive, ClaimIsIntact, Others, SameEvidence, InsertOnlyIds
<1>6. CallsAreSpent'
  BY <1>1 DEF IndInv, CallsAreSpent, Others, InsertOnlyIds
<1>7. RepliesSettle'
  <2>1. \A j \in Ids : Settled(j) => Settled(j)'
    BY <1>1 DEF Settled, Others
  <2>2. \A j \in WriteIds : "failed" \in told'[j] => Settled(j)
    BY <1>1, <1>2 DEF IndInv, RepliesSettle, Ids
  <2>3. \A j \in WriteIds : "succeeded" \in told'[j] => effect[j]
    BY <1>1, <1>2 DEF IndInv, RepliesSettle, OutcomeFits, Ids
  <2>4. QED
    BY <1>1, <1>j, <2>1, <2>2, <2>3 DEF IndInv, RepliesSettle, Others, Ids
<1>8. QED
  BY <1>3, <1>4, <1>5, <1>6, <1>7 DEF IndInv


-----------------------------------------------------------------------------
(* Steps of the reconciler, of the erasure and of the account *)

\* A step of nobody's request that leaves present rows present and touches no
\* running row, and every account write it touches becomes one without evidence
\* or one that is neither failed nor succeeded.
LEMMA TableStep ==
  ASSUME IndInv, TypeInv', UNCHANGED <<procVars, history>>,
         \A i \in Ids : ledger[i].status # "absent" => ledger'[i].status # "absent",
         \A i \in WriteIds :
            \/ ledger'[i] = ledger[i] /\ (i \in rowFenced' => i \in rowFenced)
            \/ /\ ledger[i].status # "running"
               /\ ledger'[i].status = "failed" => ledger'[i].evidence = NoEvidence,
         \A i \in Ids : ledger'[i].status = "succeeded" => effect[i],
         LookupFits', FencesFit'
  PROVE  IndInv'
<1> USE DEF procVars, history, Claimed
<1>t. TypeInv
  BY DEF IndInv
<1>ids. InsertOnlyIds \subseteq Ids /\ WriteIds \subseteq Ids
  BY DEF InsertOnlyIds, Ids
<1>j. \A q \in Procs : job[q].id \in Ids
  BY <1>t DEF TypeInv, TypeOK, Job
<1>1. KindFits' /\ OutcomeFits'
  BY DEF IndInv, KindFits, OutcomeFits, KindsOf
<1>2. ClaimIsExclusive' /\ CallsAreSpent'
  BY <1>ids, <1>j DEF IndInv, ClaimIsExclusive, CallsAreSpent, InsertOnlyIds
<1>3. ClaimIsIntact'
  <2>1. \A p \in Procs : job[p].kind = "write" /\ pc[p] \in Claimed => job[p].id \in WriteIds
    BY <1>j, ModesAssumption DEF IndInv, KindFits, KindsOf, CallKinds, Ids
  <2>2. QED
    BY <2>1 DEF IndInv, ClaimIsIntact, SameEvidence
<1>4. FailedWriteHadNoEffect' /\ SuccessIsConfirmed'
  BY DEF IndInv, FailedWriteHadNoEffect, SuccessIsConfirmed
<1>5. RepliesSettle'
  <2>1. \A i \in Ids : Settled(i) => Settled(i)'
    BY DEF Settled
  <2>2. QED
    BY <1>ids, <1>j, <2>1 DEF IndInv, RepliesSettle
<1>6. QED
  BY <1>1, <1>2, <1>3, <1>4, <1>5 DEF IndInv

\* The steps of a reconciler keep IndInv.
LEMMA ReconcileStep ==
  ASSUME IndInv, TypeInv', NEW w \in Workers, ProcessDueReconciliations(w)
  PROVE  IndInv'
<1> DEFINE i == snap[w].id
<1> USE DEF procVars, workerVars, fenceVars, history
<1>t. TypeInv
  BY DEF IndInv
<1>i. i \in Ids
  BY <1>t DEF TypeInv, TypeOK, Snap
<1>e. EndRound(w) /\ UNCHANGED effect => LookupFits'
  BY <1>t DEF IndInv, LookupFits, EndRound, TypeInv, TypeOK
<1>u. UNCHANGED <<ledger, fenceVars>> => FencesFit'
  BY DEF IndInv, FencesFit
<1>q. UNCHANGED <<ledger, fenceVars, procVars, history>> /\ LookupFits' => IndInv'
  BY <1>u, TableStep DEF IndInv, SuccessIsConfirmed
<1>1. CASE ScanReconciliation(w)
  <2>1. LookupFits'
    BY <1>1, <1>t DEF ScanReconciliation, Reconcilable, IndInv, LookupFits, TypeInv, TypeOK
  <2>2. QED
    BY <1>1, <1>q, <2>1 DEF ScanReconciliation
<1>f. ASSUME \A j \in Ids : j # i => ledger'[j] = ledger[j],
             ledger[i].status # "absent" => ledger'[i].status # "absent",
             UNCHANGED fenceVars
      PROVE  FencesFit'
  BY <1>f, <1>t DEF IndInv, FencesFit, TypeInv, TypeOK
<1>2. CASE ClaimReconciliation(w)
  <2>1. CASE EndRound(w) /\ UNCHANGED ledger
    BY <1>2, <1>e, <1>q, <2>1 DEF ClaimReconciliation, RowWriteAllowed
  <2>2. CASE /\ ledger' = [ledger EXCEPT ![i] = WithStatus(@, "reconciling")]
             /\ wpc' = [wpc EXCEPT ![w] = "lookup"]
             /\ UNCHANGED <<snap, rounds>>
    <3>1. /\ \A j \in Ids : j # i => ledger'[j] = ledger[j]
          /\ ledger'[i].status = "reconciling"
      BY <1>i, <1>t, <2>2 DEF TypeInv, TypeOK, WithStatus, Updated
    <3>2. wpc[w] # "idle" /\ UNCHANGED <<fenceVars, procVars, history>>
      BY <1>2 DEF ClaimReconciliation, RowWriteAllowed
    <3>3. i \notin WriteIds /\ LookupFits'
      BY <1>t, <2>2, <3>2 DEF IndInv, LookupFits, TypeInv, TypeOK
    <3>4. FencesFit'
      BY <1>f, <3>1, <3>2
    <3>5. QED
      BY <3>1, <3>2, <3>3, <3>4, TableStep DEF IndInv, SuccessIsConfirmed, Ids
  <2>3. QED
    BY <1>2, <2>1, <2>2 DEF ClaimReconciliation, RowWriteAllowed
<1>3. CASE LookupReconciliation(w)
  <2>1. CASE EndRound(w)
    BY <1>3, <1>e, <1>q, <2>1 DEF LookupReconciliation
  <2>2. CASE \E l \in Lookups \ {"none"} :
                /\ l = "succeeded" => effect[i]
                /\ wpc' = [wpc EXCEPT ![w] = "persist"]
                /\ snap' = [snap EXCEPT ![w].lookup = l]
                /\ UNCHANGED rounds
    <3>1. PICK l \in Lookups \ {"none"} :
                /\ l = "succeeded" => effect[i]
                /\ wpc' = [wpc EXCEPT ![w] = "persist"]
                /\ snap' = [snap EXCEPT ![w].lookup = l]
      BY <2>2
    <3>2. /\ \A v \in Workers \ {w} : snap'[v] = snap[v] /\ wpc'[v] = wpc[v]
          /\ snap'[w].id = i /\ snap'[w].lookup = l
      BY <1>t, <3>1 DEF TypeInv, TypeOK, Snap
    <3>3. wpc[w] # "idle" /\ UNCHANGED <<ledger, fenceVars, procVars, history>>
      BY <1>3 DEF LookupReconciliation
    <3>4. LookupFits'
      BY <3>1, <3>2, <3>3 DEF IndInv, LookupFits
    <3>5. QED
      BY <1>q, <3>3, <3>4
  <2>3. QED
    BY <1>3, <2>1, <2>2 DEF LookupReconciliation
<1>4. CASE PersistReconciliation(w)
  <2>1. /\ wpc[w] # "idle" /\ EndRound(w)
        /\ UNCHANGED <<fenceVars, procVars, history>>
    BY <1>4 DEF PersistReconciliation, RowWriteAllowed, ReconciledStatus
  <2>2. /\ \A j \in Ids : j # i => ledger'[j] = ledger[j]
        /\ \/ ledger'[i] = ledger[i]
           \/ ledger'[i].status = "failed"
           \/ ledger'[i].status = "succeeded" /\ snap[w].lookup = "succeeded"
    BY <1>i, <1>4, <1>t DEF PersistReconciliation, RowWriteAllowed, ReconciledStatus, TypeInv, TypeOK, Updated
  <2>3. i \notin WriteIds /\ (snap[w].lookup = "succeeded" => effect[i])
    BY <2>1 DEF IndInv, LookupFits
  <2>4. FencesFit' /\ LookupFits'
    BY <1>e, <1>f, <2>1, <2>2
  <2>5. QED
    BY <2>1, <2>2, <2>3, <2>4, TableStep DEF IndInv, SuccessIsConfirmed, Ids
<1>5. CASE CrashWorker(w)
  BY <1>5, <1>e, <1>q DEF CrashWorker
<1>6. QED
  BY <1>1, <1>2, <1>3, <1>4, <1>5 DEF ProcessDueReconciliations

\* Preparing waits for busy rows, so no claim is frozen; blanking touches only
\* frozen rows.
LEMMA ErasureStep ==
  ASSUME IndInv, TypeInv', PrepareErasure \/ EraseInvocations
  PROVE  IndInv'
<1> USE DEF procVars, workerVars, fenceVars, history
<1>t. TypeInv
  BY DEF IndInv
<1>w. UNCHANGED <<workerVars, history>> => LookupFits'
  BY DEF IndInv, LookupFits
<1>1. CASE PrepareErasure
  <2>1. PICK S \in SUBSET Ids :
           /\ \A i \in S : ledger[i].status \notin Busy
           /\ subjectFenced' = subjectFenced \cup S
           /\ rowFenced' = rowFenced \cup {i \in S : ledger[i].status # "absent"}
           /\ ledger' = [i \in Ids |->
                 IF i \in S /\ ledger[i].status # "absent"
                 THEN [ledger[i] EXCEPT !.status = "erasing"]
                 ELSE ledger[i]]
    BY <1>1 DEF PrepareErasure
  <2>2. UNCHANGED <<procVars, workerVars, history>>
    BY <1>1 DEF PrepareErasure
  <2>3. \A i \in Ids :
           \/ ledger'[i] = ledger[i] /\ (i \in rowFenced' <=> i \in rowFenced)
           \/ /\ ledger'[i].status = "erasing"
              /\ ledger[i].status \notin {"absent", "running"}
    BY <2>1, <1>t DEF TypeInv, TypeOK, Row, Busy
  <2>4. FencesFit'
    BY <2>1, <2>3, <1>t DEF IndInv, FencesFit, TypeInv, TypeOK
  <2>5. QED
    BY <1>w, <2>2, <2>3, <2>4, TableStep DEF IndInv, SuccessIsConfirmed, Ids
<1>2. CASE EraseInvocations
  <2>1. UNCHANGED <<fenceVars, procVars, workerVars, history>>
    BY <1>2 DEF EraseInvocations
  <2>2. \A i \in Ids :
           \/ ledger'[i] = ledger[i]
           \/ /\ ledger[i].status = "erasing"
              /\ ledger'[i].status = "failed"
              /\ ledger'[i].evidence = NoEvidence
    BY <1>2 DEF EraseInvocations, Updated
  <2>3. FencesFit'
    BY <1>t, <2>1, <2>2 DEF IndInv, FencesFit, TypeInv, TypeOK
  <2>4. QED
    BY <1>w, <2>1, <2>2, <2>3, TableStep DEF IndInv, SuccessIsConfirmed, Ids
<1>3. QED
  BY <1>1, <1>2

\* Every step keeps the inductive invariant.
LEMMA NextInv == IndInv /\ [Next]_vars => IndInv'
<1> SUFFICES ASSUME IndInv, [Next]_vars PROVE IndInv'
  OBVIOUS
<1>t. TypeInv'
  BY NextType DEF IndInv
<1>1. ASSUME NEW p \in Procs, Request(p) PROVE IndInv'
  BY <1>1, <1>t, QuietRequests, ResetStep, InsertStep, CheckSteps, CallStep,
     FinishStep, FinishWriteStep, ReplyStep DEF Request
<1>2. ASSUME NEW w \in Workers, ProcessDueReconciliations(w) PROVE IndInv'
  BY <1>2, <1>t, ReconcileStep
<1>3. CASE ChangeAccount \/ UNCHANGED vars
  <2>1. UNCHANGED <<ledger, subjectFenced, rowFenced, pc, job, budget, wpc, snap,
                    rounds, io, effect, told>>
    BY <1>3 DEF ChangeAccount, vars, procVars, workerVars, fenceVars, history
  <2>2. LookupFits' /\ FencesFit'
    BY <2>1 DEF IndInv, LookupFits, FencesFit
  <2>3. QED
    BY <1>t, <2>1, <2>2, TableStep DEF IndInv, SuccessIsConfirmed, procVars, history
<1>4. QED
  BY <1>1, <1>2, <1>3, <1>t, ErasureStep DEF Next

\* The invariant holds in every reachable state.
LEMMA Invariance == Spec => []IndInv
BY InitInv, NextInv, PTL DEF Spec

-----------------------------------------------------------------------------
(* The theorems *)

\* Sensitive calls and account writes reach the provider at most once under
\* one identity: the primary key lets one claim through, and no later request,
\* retry, reconciler, crash or erasure reopens it.
THEOREM AtMostOnce == Spec => []AtMostOnceIO
<1>1. IndInv => AtMostOnceIO
  BY DEF IndInv, CallsAreSpent, AtMostOnceIO, TypeInv, TypeOK, InsertOnlyIds, Ids
<1>2. QED
  BY <1>1, Invariance, PTL

\* FinishAccountWrite always finds its own claim, running and unfrozen.
THEOREM ClaimsStayIntact == Spec => []ClaimIsIntact
BY Invariance, PTL DEF IndInv

\* A write recorded as failed had no effect at the provider.
THEOREM FailureMeansNoEffect == Spec => []FailedWriteHadNoEffect
BY Invariance, PTL DEF IndInv

\* A row says succeeded only of an effect the provider applied.
THEOREM SuccessMeansEffect == Spec => []SuccessIsConfirmed
BY Invariance, PTL DEF IndInv

\* Callers of one account write never get contradictory replies, and no reply
\* says failed of an applied effect.
THEOREM ConsistentReplies == Spec => []RepliesAgree
<1>1. IndInv => RepliesAgree
  BY DEF IndInv, RepliesSettle, Settled, RepliesAgree
<1>2. QED
  BY <1>1, Invariance, PTL


\* How one step can change a row: not at all; by the claim of an absent row; by
\* an update that respects the row fence, of an account write by its own claim
\* alone; by the erasure.
RowChange(i) ==
    \/ ledger'[i] = ledger[i]
    \/ ledger[i].status = "absent"
    \/ i \notin rowFenced /\ (i \in WriteIds => ledger[i].status = "running")
    \/ /\ i \in subjectFenced' /\ i \notin subjectFenced
       /\ i \in rowFenced' /\ ledger'[i].status = "erasing"
    \/ /\ ledger[i].status = "erasing" /\ ledger'[i].status = "failed"
       /\ ledger'[i].evidence = NoEvidence /\ ~ledger'[i].payload

\* Which steps change a row, and how.
LEMMA RowChanges ==
  ASSUME IndInv, [Next]_vars, NEW i \in Ids
  PROVE  RowChange(i)
<1>t. TypeInv
  BY DEF IndInv
<1>1. ASSUME NEW p \in Procs, Request(p) PROVE RowChange(i)
  <2>i. job[p].id \in Ids
    BY <1>t DEF TypeInv, TypeOK, Job
  <2>1. CASE UNCHANGED ledger
    BY <2>1 DEF RowChange
  <2>2. CASE ResetInvocation(p)
    <3>1. job[p].id \notin WriteIds
      BY <2>2, <2>i, IdsAssumption
         DEF ResetInvocation, RowWriteAllowed, IndInv, KindFits, KindsOf, Ids
    <3>2. QED
      BY <2>2, <2>i, <3>1, <1>t DEF ResetInvocation, RowWriteAllowed, RowChange, TypeInv, TypeOK
  <2>3. CASE InsertInvocation(p)
    BY <2>3, <2>i, <1>t DEF InsertInvocation, InsertAdmits, RowChange, TypeInv, TypeOK
  <2>4. CASE FinishInvocation(p)
    <3>1. job[p].id \notin WriteIds
      BY <2>4, <2>i, IdsAssumption
         DEF FinishInvocation, RowWriteAllowed, IndInv, KindFits, KindsOf, Ids
    <3>2. QED
      BY <2>4, <2>i, <3>1, <1>t DEF FinishInvocation, RowWriteAllowed, RowChange, TypeInv, TypeOK
  <2>5. CASE FinishAccountWrite(p)
    BY <2>5, <2>i, <1>t DEF FinishAccountWrite, RowWriteAllowed, RowChange, TypeInv, TypeOK
  <2>6. QED
    BY <1>1, <2>1, <2>2, <2>3, <2>4, <2>5
       DEF Request, AcceptDelivery, Call, WriteConnectionAccount,
           ReadConnectionAccountWriteReceipt, Begin, PrepareInvocation, GuardInsert,
           ClaimAccountWrite, ReadAccountWrite, AuthorizeAccountWrite,
           RecheckAccountWrite, ProviderCall, ReplyAccountWrite, Crash
<1>2. ASSUME NEW w \in Workers, ProcessDueReconciliations(w) PROVE RowChange(i)
  <2>i. snap[w].id \in Ids /\ (wpc[w] # "idle" => snap[w].id \notin WriteIds)
    BY <1>t DEF IndInv, TypeInv, TypeOK, Snap, LookupFits
  <2>1. CASE UNCHANGED ledger
    BY <2>1 DEF RowChange
  <2>2. CASE ClaimReconciliation(w)
    BY <2>2, <2>i, <1>t DEF ClaimReconciliation, RowWriteAllowed, RowChange, TypeInv, TypeOK
  <2>3. CASE PersistReconciliation(w)
    BY <2>3, <2>i, <1>t DEF PersistReconciliation, RowWriteAllowed, ReconciledStatus, RowChange, TypeInv, TypeOK
  <2>4. QED
    BY <1>2, <2>1, <2>2, <2>3
       DEF ProcessDueReconciliations, ScanReconciliation, LookupReconciliation, CrashWorker
<1>3. CASE PrepareErasure
  BY <1>3, <1>t DEF PrepareErasure, RowChange, TypeInv, TypeOK, Row
<1>4. CASE EraseInvocations
  BY <1>4 DEF EraseInvocations, RowChange, Updated
<1>5. CASE ChangeAccount \/ UNCHANGED vars
  BY <1>5 DEF ChangeAccount, vars, RowChange
<1>6. QED
  BY <1>1, <1>2, <1>3, <1>4, <1>5 DEF Next

\* Once a row is frozen only the erasure writes it, whatever any process or
\* reconciler read before the fence.
THEOREM FrozenStaysFrozen == Spec => FrozenRowsStayFrozen
<1>1. IndInv /\ [Next]_vars =>
        [\A i \in rowFenced :
            \/ ledger'[i] = ledger[i]
            \/ /\ ledger[i].status = "erasing" /\ ledger'[i].status = "failed"
               /\ ledger'[i].evidence = NoEvidence /\ ~ledger'[i].payload]_vars
  BY RowChanges DEF IndInv, TypeInv, TypeOK, RowChange, FencesFit
<1>2. QED
  BY <1>1, Invariance, PTL DEF Spec, FrozenRowsStayFrozen

\* The evidence of a terminal account write is never rewritten, except that an
\* erasure freezes it.
THEOREM EvidenceIsStable == Spec => WriteEvidenceStable
<1>1. IndInv /\ [Next]_vars =>
        [\A i \in WriteIds :
            ledger[i].status \in {"succeeded", "failed", "uncertain"} =>
                \/ ledger'[i] = ledger[i]
                \/ i \in rowFenced' /\ ledger'[i].status = "erasing"]_vars
  BY RowChanges DEF RowChange, Ids
<1>2. QED
  BY <1>1, Invariance, PTL DEF Spec, WriteEvidenceStable

-----------------------------------------------------------------------------
(* The refinement of AccountWrite *)

\* An account write finishes as uncertain only after its call: one that ends
\* before the call ends as failed.
UncertainWasCalled ==
    \A p \in Procs :
        pc[p] = "finish" /\ job[p].kind = "write" /\ job[p].outcome = "uncertain" =>
            io[job[p].id] # 0

\* A reply on its way to a caller still agrees with the row it was read from,
\* however long ago that was.
RepliesStand ==
    \A p \in Procs :
        pc[p] = "reply" =>
            /\ job[p].id \in WriteIds
            /\ job[p].outcome \in Contract!Settled \cup {"not_found"}
            /\ job[p].outcome \in {"succeeded", "failed"} =>
                  PhaseOf(job[p].id) \in {job[p].outcome, "erased"}
            /\ job[p].outcome = "uncertain" => PhaseOf(job[p].id) # "free"

RefInv == IndInv /\ UncertainWasCalled /\ RepliesStand

\* The phases a write can pass through in one step.  A settled write does not
\* change but for its erasure, and an erased one stays erased.
PhaseOrder(i) ==
    /\ PhaseOf(i) # "free" => PhaseOf(i)' # "free"
    /\ \A o \in {"succeeded", "failed"} :
          PhaseOf(i) \in {o, "erased"} => PhaseOf(i)' \in {o, "erased"}

\* Writes whose row, calls and effect a step leaves alone look the same.
Kept(i) == /\ ledger'[i] = ledger[i] /\ io'[i] = io[i]
           /\ effect'[i] = effect[i]

\* A write that a step leaves alone maps to the same abstract write.
LEMMA KeptMaps ==
  ASSUME NEW i, Kept(i)
  PROVE  /\ PhaseOf(i)' = PhaseOf(i) /\ ContentOf(i)' = ContentOf(i)
         /\ effect'[i] = effect[i]
BY DEF Kept, PhaseOf, ContentOf, IsErased

\* A step that leaves all writes alone maps to a stutter.
LEMMA StutterMaps ==
  ASSUME \A i \in WriteIds : Kept(i) /\ told'[i] = told[i]
  PROVE  UNCHANGED Contract!vars
<1>1. \A i \in WriteIds : /\ PhaseOf(i)' = PhaseOf(i) /\ ContentOf(i)' = ContentOf(i)
                          /\ effect'[i] = effect[i] /\ told'[i] = told[i]
  BY KeptMaps
<1>2. QED
  BY <1>1 DEF Contract!vars

\* The insert of an account write is its one claim.
LEMMA InsertMaps ==
  ASSUME IndInv, NEW p \in Procs, NEW i \in WriteIds, job[p].id = i,
         InsertInvocation(p), ledger[i].status = "absent"
  PROVE  Contract!Claim(i) /\ PhaseOf(i) = "free" /\ PhaseOf(i)' = "claimed"
<1>1. i \in Ids
  BY DEF Ids
<1>2. job[p].kind = "write" /\ job[p].content \in Contents
  BY <1>1, IdsAssumption DEF IndInv, KindFits, KindsOf, InsertInvocation
<1>3. io[i] = 0
  BY <1>1 DEF IndInv, CallsAreSpent, InsertOnlyIds
<1>4. /\ ledger'[i].status = "running"
      /\ ledger'[i].evidence = [content |-> job[p].content, revision |-> job[p].revision]
      /\ \A j \in Ids \ {i} : ledger'[j] = ledger[j]
      /\ UNCHANGED <<io, effect, told>>
  BY <1>1, <1>2
     DEF InsertInvocation, InsertAdmits, ClaimEvidence, IndInv, TypeInv, TypeOK, history
<1>5. ledger'[i].evidence # NoEvidence /\ ledger'[i].evidence.content = job[p].content
  BY <1>2, <1>4, ContentAssumption DEF NoEvidence
<1>6. PhaseOf(i) = "free" /\ PhaseOf(i)' = "claimed" /\ ContentOf(i)' = job[p].content
  BY <1>3, <1>4, <1>5 DEF PhaseOf, ContentOf, IsErased
<1>7. \A j \in WriteIds \ {i} :
         PhaseOf(j)' = PhaseOf(j) /\ ContentOf(j)' = ContentOf(j)
  BY <1>4, KeptMaps DEF Kept, Ids
<1>8. QED
  BY <1>2, <1>4, <1>6, <1>7 DEF Contract!Claim

\* What ClaimIsIntact says of the phase of a write that holds its claim.
LEMMA ClaimedPhase ==
  ASSUME IndInv, NEW p \in Procs, NEW i \in WriteIds, job[p].id = i,
         job[p].kind = "write", pc[p] \in Claimed
  PROVE  /\ ledger[i].status = "running" /\ ledger[i].evidence # NoEvidence
         /\ PhaseOf(i) = IF io[i] = 0 THEN "claimed" ELSE "called"
<1>1. i \in Ids
  BY DEF Ids
<1>2. job[p].content \in Contents
  BY DEF IndInv, KindFits, Claimed
<1>3. ledger[i].status = "running" /\ SameEvidence(ledger[i], job[p])
  BY DEF IndInv, ClaimIsIntact
<1>4. ledger[i].evidence # NoEvidence
  BY <1>2, <1>3, ContentAssumption DEF SameEvidence, NoEvidence
<1>5. QED
  BY <1>3, <1>4 DEF PhaseOf, IsErased

\* The provider call of an account write is its one invocation.
LEMMA CallMaps ==
  ASSUME IndInv, NEW p \in Procs, NEW i \in WriteIds, job[p].id = i, ProviderCall(p)
  PROVE  Contract!Invoke(i) /\ PhaseOf(i) = "claimed" /\ PhaseOf(i)' = "called"
<1>1. i \in Ids /\ pc[p] = "call"
  BY DEF Ids, ProviderCall
<1>2. job[p].kind = "write"
  BY <1>1, IdsAssumption DEF IndInv, KindFits, KindsOf
<1>3. io[i] = 0 /\ ~effect[i]
  BY <1>1 DEF IndInv, CallsAreSpent, InsertOnlyIds
<1>4. PhaseOf(i) = "claimed"
  BY <1>1, <1>2, <1>3, ClaimedPhase DEF Claimed
<1>5. PICK applied \in BOOLEAN :
        /\ io' = [io EXCEPT ![i] = @ + 1]
        /\ effect' = [effect EXCEPT ![i] = @ \/ applied]
  BY DEF ProviderCall, AppliedOn, ProviderAnswers
<1>6. UNCHANGED <<ledger, told>>
  BY DEF ProviderCall
<1>7. io'[i] # 0 /\ \A j \in Ids \ {i} : io'[j] = io[j]
  BY <1>1, <1>3, <1>5 DEF IndInv, TypeInv, TypeOK
<1>8. effect'[i] = applied /\ \A j \in Ids \ {i} : effect'[j] = effect[j]
  BY <1>1, <1>3, <1>5, Zenon DEF IndInv, TypeInv, TypeOK
<1>9. ledger[i].status = "running" /\ ledger[i].evidence # NoEvidence
  BY <1>1, <1>2, ClaimedPhase DEF Claimed
<1>10. PhaseOf(i)' = "called"
  BY <1>6, <1>7, <1>9 DEF PhaseOf, IsErased
<1>11. \A j \in WriteIds \ {i} :
         PhaseOf(j)' = PhaseOf(j) /\ ContentOf(j)' = ContentOf(j)
  BY <1>6, <1>7, <1>8, KeptMaps DEF Kept, Ids
<1>12. ContentOf(i)' = ContentOf(i)
  BY <1>6 DEF ContentOf, IsErased
<1>13. \A j \in WriteIds \ {i} : effect'[j] = effect[j]
  BY <1>8 DEF Ids
<1>14. [j \in WriteIds |-> effect'[j]] = [[j \in WriteIds |-> effect[j]] EXCEPT ![i] = applied]
  BY <1>8, <1>13
<1>15. QED
  BY <1>4, <1>6, <1>10, <1>11, <1>12, <1>14 DEF Contract!Invoke

\* FinishAccountWrite settles its claim with an outcome that is true.
LEMMA FinishMaps ==
  ASSUME IndInv, UncertainWasCalled, NEW p \in Procs, NEW i \in WriteIds, job[p].id = i,
         FinishAccountWrite(p)
  PROVE  /\ Contract!Settle(i)
         /\ PhaseOf(i) \in {"claimed", "called"} /\ PhaseOf(i)' = job[p].outcome
         /\ job[p].outcome \in Contract!Settled
<1> DEFINE o == job[p].outcome
<1>1. i \in Ids /\ pc[p] = "finish" /\ job[p].kind = "write"
  BY DEF Ids, FinishAccountWrite
<1>2. /\ ledger[i].status = "running" /\ ledger[i].evidence # NoEvidence
      /\ PhaseOf(i) = IF io[i] = 0 THEN "claimed" ELSE "called"
  BY <1>1, ClaimedPhase DEF Claimed
<1>3. o \in {"succeeded", "failed", "uncertain"}
  BY <1>1 DEF IndInv, TypeInv, OutcomeKnown
<1>4. /\ o = "succeeded" => effect[i]
      /\ o = "failed" => ~effect[i]
      /\ io[i] = 0 => o = "failed"
  BY <1>1, <1>3 DEF IndInv, OutcomeFits, CallsAreSpent, UncertainWasCalled
<1>5. /\ ledger' = [ledger EXCEPT ![i] = WithStatus(@, o)]
      /\ UNCHANGED <<io, effect, told>>
  <2>1. SameEvidence(ledger[i], job[p]) /\ RowWriteAllowed(i)
    BY <1>1 DEF IndInv, ClaimIsIntact, Claimed, RowWriteAllowed
  <2>2. QED
    BY <1>2, <2>1 DEF FinishAccountWrite, history
<1>6. /\ ledger'[i].status = o /\ ledger'[i].evidence = ledger[i].evidence
      /\ \A j \in Ids \ {i} : ledger'[j] = ledger[j]
  BY <1>1, <1>5 DEF IndInv, TypeInv, TypeOK, WithStatus, Updated
<1>7. PhaseOf(i)' = o /\ ContentOf(i)' = ContentOf(i)
  BY <1>2, <1>3, <1>6 DEF PhaseOf, ContentOf, IsErased
<1>8. \A j \in WriteIds \ {i} :
         PhaseOf(j)' = PhaseOf(j) /\ ContentOf(j)' = ContentOf(j)
  BY <1>5, <1>6, KeptMaps DEF Kept, Ids
<1>9. Contract!True(i, o)
  BY <1>3, <1>4 DEF Contract!True
<1>10. o \in Contract!Settled
  BY <1>3 DEF Contract!Settled
<1>11. Contract!Settle(i)
  <2> HIDE DEF o
  <2>1. \/ PhaseOf(i) = "claimed" /\ o = "failed"
        \/ PhaseOf(i) = "called"
    BY <1>2, <1>4
  <2>2. QED
    BY <1>5, <1>7, <1>8, <1>9, <1>10, <2>1 DEF Contract!Settle
<1>12. QED
  BY <1>2, <1>7, <1>10, <1>11

\* A reply that leaves the service tells what stands, or nothing at all.
LEMMA ReplyMaps ==
  ASSUME RefInv, NEW p \in Procs, NEW i \in WriteIds, job[p].id = i,
         ReplyAccountWrite(p)
  PROVE  Contract!Tell(i) \/ UNCHANGED Contract!vars
<1> DEFINE o == job[p].outcome
<1>1. i \in Ids /\ pc[p] = "reply" /\ UNCHANGED <<ledger, io, effect>>
  BY DEF Ids, ReplyAccountWrite
<1>2. \A j \in WriteIds : Kept(j)
  BY <1>1 DEF Kept
<1>3. CASE told' = told
  BY <1>2, <1>3, StutterMaps
<1>4. CASE told' = [told EXCEPT ![i] = @ \cup {o}]
  <2>1. /\ o \in Contract!Settled \cup {"not_found"}
        /\ o \in {"succeeded", "failed"} => PhaseOf(i) \in {o, "erased"}
        /\ o = "uncertain" => PhaseOf(i) # "free"
    BY <1>1 DEF RefInv, RepliesStand
  <2>2. /\ o = "succeeded" => effect[i]
        /\ o = "failed" => ~effect[i]
    BY <1>1 DEF RefInv, IndInv, OutcomeFits, RepliesSettle, Settled
  <2>3. Contract!True(i, o)
    BY <2>2 DEF Contract!True
  <2>4. /\ told'[i] = told[i] \cup {o}
        /\ \A j \in WriteIds \ {i} : told'[j] = told[j]
    BY <1>1, <1>4 DEF RefInv, IndInv, TypeInv, TypeOK, Ids
  <2>5. \A j \in WriteIds : /\ PhaseOf(j)' = PhaseOf(j) /\ ContentOf(j)' = ContentOf(j)
                            /\ effect'[j] = effect[j]
    BY <1>2, KeptMaps
  <2> HIDE DEF o
  <2>6. QED
    BY <2>1, <2>3, <2>4, <2>5 DEF Contract!Tell
<1>5. QED
  BY <1>3, <1>4 DEF ReplyAccountWrite

\* Preparing an erasure takes settled writes, and those only, from the host.
LEMMA PrepareMaps ==
  ASSUME IndInv, PrepareErasure
  PROVE  Contract!Next /\ \A i \in WriteIds : PhaseOrder(i)
<1>1. PICK S \in SUBSET Ids :
         /\ \A i \in S : ledger[i].status \notin Busy
         /\ ledger' = [i \in Ids |->
               IF i \in S /\ ledger[i].status # "absent"
               THEN [ledger[i] EXCEPT !.status = "erasing"]
               ELSE ledger[i]]
         /\ UNCHANGED <<io, effect, told>>
  BY DEF PrepareErasure, history
<1> DEFINE T == {i \in WriteIds : i \in S /\ PhaseOf(i) \in Contract!Settled}
<1>2. ASSUME NEW i \in WriteIds
      PROVE  IF i \in T
             THEN /\ PhaseOf(i)' = "erased" /\ ContentOf(i)' = NoContent
             ELSE /\ PhaseOf(i)' = PhaseOf(i) /\ ContentOf(i)' = ContentOf(i)
  <2>1. i \in Ids /\ ledger[i] \in Row
    BY DEF Ids, IndInv, TypeInv, TypeOK
  <2>2. CASE i \notin S \/ ledger[i].status = "absent"
    <3>1. ledger'[i] = ledger[i]
      BY <1>1, <2>1, <2>2
    <3>2. i \notin T
      BY <2>2 DEF PhaseOf, Contract!Settled
    <3>3. QED
      BY <1>1, <3>1, <3>2, KeptMaps DEF Kept
  <2>3. CASE i \in S /\ ledger[i].status # "absent"
    <3>1. ledger'[i].status = "erasing"
      BY <1>1, <2>1, <2>3 DEF Row
    <3>2. PhaseOf(i)' = "erased" /\ ContentOf(i)' = NoContent
      BY <3>1 DEF PhaseOf, ContentOf, IsErased
    <3>3. ledger[i].status \in {"succeeded", "failed", "uncertain", "erasing"}
      BY <1>1, <2>1, <2>3 DEF Row, Statuses, Busy
    <3>4. CASE IsErased(ledger[i])
      <4>1. PhaseOf(i) = "erased" /\ ContentOf(i) = NoContent
        BY <2>3, <3>4 DEF PhaseOf, ContentOf
      <4>2. QED
        BY <3>2, <4>1 DEF Contract!Settled
    <3>5. CASE ~IsErased(ledger[i])
      <4>1. PhaseOf(i) \in Contract!Settled
        BY <3>3, <3>5 DEF PhaseOf, IsErased, Contract!Settled
      <4>2. QED
        BY <2>3, <3>2, <4>1
    <3>6. QED
      BY <3>4, <3>5
  <2>4. QED
    BY <2>2, <2>3
<1>3. T \in SUBSET WriteIds /\ \A i \in T : PhaseOf(i) \in Contract!Settled
  OBVIOUS
<1> HIDE DEF T
<1>4. Contract!Erase(T)
  BY <1>1, <1>2, <1>3 DEF Contract!Erase
<1>5. \A i \in WriteIds : PhaseOrder(i)
  BY <1>2, <1>3 DEF PhaseOrder
<1>6. QED
  BY <1>3, <1>4, <1>5 DEF Contract!Next

\* Blanking a frozen row changes nothing the host can see.
LEMMA BlankMaps ==
  ASSUME IndInv, EraseInvocations
  PROVE  UNCHANGED Contract!vars /\ \A i \in WriteIds : PhaseOf(i)' = PhaseOf(i)
<1>1. UNCHANGED <<io, effect, told>>
  BY DEF EraseInvocations, history
<1>2. ASSUME NEW i \in WriteIds
      PROVE  PhaseOf(i)' = PhaseOf(i) /\ ContentOf(i)' = ContentOf(i)
  <2>1. i \in Ids
    BY DEF Ids
  <2>2. CASE ledger'[i] = ledger[i]
    BY <1>1, <2>2, KeptMaps DEF Kept
  <2>3. CASE ledger'[i] # ledger[i]
    <3>1. /\ ledger[i].status = "erasing"
          /\ ledger'[i].status = "failed" /\ ledger'[i].evidence = NoEvidence
      BY <2>1, <2>3 DEF EraseInvocations, Updated
    <3>2. QED
      BY <3>1 DEF PhaseOf, ContentOf, IsErased
  <2>4. QED
    BY <2>2, <2>3
<1>3. QED
  BY <1>1, <1>2 DEF Contract!vars

\* A request that is not about an account write, and a reconciler, leave all
\* account writes alone.
LEMMA ForeignKept ==
  ASSUME IndInv, NEW i \in WriteIds
  PROVE  /\ \A p \in Procs : Request(p) /\ job[p].id # i => Kept(i) /\ told'[i] = told[i]
         /\ \A w \in Workers : ProcessDueReconciliations(w) => Kept(i) /\ told'[i] = told[i]
<1>t. /\ i \in Ids /\ ledger \in [Ids -> Row] /\ io \in [Ids -> Nat]
      /\ effect \in [Ids -> BOOLEAN] /\ told \in [Ids -> SUBSET Outcomes]
  BY DEF Ids, IndInv, TypeInv, TypeOK
<1> USE DEF history, Kept
<1>1. ASSUME NEW p \in Procs, Request(p), job[p].id # i PROVE Kept(i) /\ told'[i] = told[i]
  <2>1. CASE UNCHANGED <<ledger, history>>
    BY <2>1
  <2>2. CASE ResetInvocation(p) \/ InsertInvocation(p) \/ FinishInvocation(p)
             \/ FinishAccountWrite(p)
    BY <1>t, <1>1, <2>2
       DEF ResetInvocation, InsertInvocation, FinishInvocation, FinishAccountWrite
  <2>3. CASE ProviderCall(p)
    <3>1. PICK applied : /\ io' = [io EXCEPT ![job[p].id] = @ + 1]
                         /\ effect' = [effect EXCEPT ![job[p].id] = @ \/ applied]
                         /\ UNCHANGED <<ledger, told>>
      BY <2>3 DEF ProviderCall
    <3>2. io'[i] = io[i] /\ effect'[i] = effect[i]
      BY <1>t, <1>1, <3>1
    <3>3. QED
      BY <3>1, <3>2
  <2>4. CASE ReplyAccountWrite(p)
    BY <1>t, <1>1, <2>4 DEF ReplyAccountWrite
  <2>5. QED
    BY <1>1, <2>1, <2>2, <2>3, <2>4
       DEF Request, AcceptDelivery, Call, WriteConnectionAccount,
           ReadConnectionAccountWriteReceipt, Begin, PrepareInvocation, GuardInsert,
           ClaimAccountWrite, ReadAccountWrite, AuthorizeAccountWrite,
           RecheckAccountWrite, Crash
<1>2. ASSUME NEW w \in Workers, ProcessDueReconciliations(w)
      PROVE  Kept(i) /\ told'[i] = told[i]
  <2>1. wpc[w] # "idle" => snap[w].id # i
    BY DEF IndInv, LookupFits
  <2>2. QED
    BY <1>t, <1>2, <2>1
       DEF ProcessDueReconciliations, ScanReconciliation, ClaimReconciliation,
           LookupReconciliation, PersistReconciliation, CrashWorker
<1>3. QED
  BY <1>1, <1>2

\* Every step of the ledger is a step of AccountWrite or changes nothing in it.
LEMMA Simulates ==
  ASSUME RefInv, [Next]_vars
  PROVE  /\ Contract!Next \/ UNCHANGED Contract!vars
         /\ \A i \in WriteIds : PhaseOrder(i)
<1>i. IndInv
  BY DEF RefInv
<1>s. ASSUME \A i \in WriteIds : Kept(i) /\ told'[i] = told[i]
      PROVE  UNCHANGED Contract!vars /\ \A i \in WriteIds : PhaseOrder(i)
  BY <1>s, StutterMaps, KeptMaps DEF PhaseOrder
<1>1. ASSUME NEW p \in Procs, Request(p)
      PROVE  /\ Contract!Next \/ UNCHANGED Contract!vars
             /\ \A i \in WriteIds : PhaseOrder(i)
  <2>1. CASE job[p].id \notin WriteIds
    BY <1>1, <1>i, <1>s, <2>1, ForeignKept
  <2>2. ASSUME NEW i \in WriteIds, job[p].id = i
        PROVE  /\ Contract!Next \/ UNCHANGED Contract!vars
               /\ \A j \in WriteIds : PhaseOrder(j)
    <3>1. \A j \in WriteIds \ {i} : PhaseOf(j)' = PhaseOf(j)
      BY <1>1, <1>i, <2>2, ForeignKept, KeptMaps
    <3>2. CASE UNCHANGED <<ledger, io, effect, told>>
      BY <1>s, <3>2 DEF Kept
    <3>3. CASE InsertInvocation(p) /\ ledger' # ledger
      <4>1. ledger[i].status = "absent"
        BY <2>2, <3>3 DEF InsertInvocation, InsertAdmits
      <4>2. Contract!Claim(i) /\ PhaseOf(i) = "free" /\ PhaseOf(i)' = "claimed"
        BY <1>i, <2>2, <3>3, <4>1, InsertMaps
      <4>3. QED
        BY <3>1, <4>2 DEF Contract!Next, PhaseOrder
    <3>4. CASE ProviderCall(p)
      <4>1. Contract!Invoke(i) /\ PhaseOf(i) = "claimed" /\ PhaseOf(i)' = "called"
        BY <1>i, <2>2, <3>4, CallMaps
      <4>2. QED
        BY <3>1, <4>1 DEF Contract!Next, PhaseOrder
    <3>5. CASE FinishAccountWrite(p)
      <4>1. /\ Contract!Settle(i) /\ PhaseOf(i) \in {"claimed", "called"}
            /\ PhaseOf(i)' \in Contract!Settled
        BY <1>i, <2>2, <3>5, FinishMaps DEF RefInv
      <4>2. QED
        BY <3>1, <4>1 DEF Contract!Next, PhaseOrder, Contract!Settled
    <3>6. CASE ReplyAccountWrite(p)
      <4>1. Contract!Tell(i) \/ UNCHANGED Contract!vars
        BY <2>2, <3>6, ReplyMaps
      <4>2. PhaseOf(i)' = PhaseOf(i)
        BY <3>6, KeptMaps DEF ReplyAccountWrite, Kept
      <4>3. QED
        BY <3>1, <4>1, <4>2 DEF Contract!Next, PhaseOrder
    <3>7. ~ResetInvocation(p) /\ ~FinishInvocation(p)
      BY <1>i, <2>2, IdsAssumption
         DEF ResetInvocation, FinishInvocation, IndInv, KindFits, KindsOf, Ids
    <3>8. QED
      BY <1>1, <3>2, <3>3, <3>4, <3>5, <3>6, <3>7
         DEF Request, AcceptDelivery, Call, WriteConnectionAccount,
             ReadConnectionAccountWriteReceipt, Begin, PrepareInvocation, GuardInsert,
             InsertInvocation, ClaimAccountWrite, ReadAccountWrite,
             AuthorizeAccountWrite, RecheckAccountWrite, Crash, history
  <2>3. QED
    BY <2>1, <2>2
<1>2. ASSUME NEW w \in Workers, ProcessDueReconciliations(w)
      PROVE  UNCHANGED Contract!vars /\ \A i \in WriteIds : PhaseOrder(i)
  BY <1>2, <1>i, <1>s, ForeignKept
<1>3. CASE EraseInvocations
  BY <1>3, <1>i, BlankMaps DEF PhaseOrder
<1>4. CASE ChangeAccount \/ UNCHANGED vars
  BY <1>4, <1>s DEF ChangeAccount, vars, history, Kept
<1>5. QED
  BY <1>1, <1>2, <1>3, <1>4, <1>i, PrepareMaps DEF Next

\* What a process carries is true when it reads it, and stays true while the
\* others move.
LEMMA RefNext == RefInv /\ [Next]_vars => RefInv'
<1> SUFFICES ASSUME RefInv, [Next]_vars PROVE RefInv'
  OBVIOUS
<1>i. IndInv /\ IndInv' /\ TypeInv
  BY NextInv DEF RefInv, IndInv
<1>p. \A i \in WriteIds : PhaseOrder(i)
  BY Simulates
<1>f. ASSUME NEW p \in Procs, pc'[p] = pc[p], job'[p] = job[p],
             \A i \in Ids : io[i] # 0 => io'[i] # 0
      PROVE  /\ (/\ pc'[p] = "finish" /\ job'[p].kind = "write"
                 /\ job'[p].outcome = "uncertain") => io'[job'[p].id] # 0
             /\ pc'[p] = "reply" =>
                  /\ job'[p].id \in WriteIds
                  /\ job'[p].outcome \in Contract!Settled \cup {"not_found"}
                  /\ job'[p].outcome \in {"succeeded", "failed"} =>
                        PhaseOf(job[p].id)' \in {job'[p].outcome, "erased"}
                  /\ job'[p].outcome = "uncertain" => PhaseOf(job[p].id)' # "free"
  <2>1. job[p].id \in Ids
    BY <1>i DEF TypeInv, TypeOK, Job
  <2>2. pc[p] = "finish" /\ job[p].kind = "write" /\ job[p].outcome = "uncertain" =>
           io[job[p].id] # 0
    BY DEF RefInv, UncertainWasCalled
  <2>3. CASE pc[p] = "reply"
    <3>1. PICK k \in WriteIds : k = job[p].id
      BY <2>3 DEF RefInv, RepliesStand
    <3>2. /\ job[p].outcome \in Contract!Settled \cup {"not_found"}
          /\ job[p].outcome \in {"succeeded", "failed"} =>
                PhaseOf(k) \in {job[p].outcome, "erased"}
          /\ job[p].outcome = "uncertain" => PhaseOf(k) # "free"
      BY <2>3, <3>1 DEF RefInv, RepliesStand
    <3>3. /\ job[p].outcome \in {"succeeded", "failed"} =>
                PhaseOf(k)' \in {job[p].outcome, "erased"}
          /\ job[p].outcome = "uncertain" => PhaseOf(k)' # "free"
      BY <1>p, <3>2 DEF PhaseOrder
    <3>4. k = job'[p].id
      BY <1>f, <3>1
    <3>5. QED
      BY <1>f, <2>3, <3>2, <3>3, <3>4
  <2>4. QED
    BY <1>f, <2>1, <2>2, <2>3
<1>1. ASSUME NEW p \in Procs, Request(p) PROVE UncertainWasCalled' /\ RepliesStand'
  <2>1. job[p].id \in Ids /\ job \in [Procs -> Job] /\ pc \in [Procs -> Steps]
    BY <1>i DEF TypeInv, TypeOK, Job
  <2>2. \A i \in Ids : io[i] # 0 => io'[i] # 0
    <3>1. CASE ProviderCall(p)
      <4>1. io \in [Ids -> Nat] /\ io' = [io EXCEPT ![job[p].id] = @ + 1]
        BY <1>i, <3>1 DEF ProviderCall, TypeInv, TypeOK
      <4>2. QED
        BY <2>1, <4>1
    <3>2. CASE ~ProviderCall(p)
      BY <1>1, <3>2
         DEF Request, AcceptDelivery, Call, WriteConnectionAccount,
             ReadConnectionAccountWriteReceipt, Begin, PrepareInvocation, ResetInvocation,
             GuardInsert, InsertInvocation, ClaimAccountWrite, ReadAccountWrite,
             AuthorizeAccountWrite, RecheckAccountWrite, FinishInvocation,
             FinishAccountWrite, ReplyAccountWrite, Crash, history
    <3>3. QED
      BY <3>1, <3>2
  <2>3. Others(p)
    BY <1>1, <1>i, ProcSteps, BeginStep
       DEF Request, AcceptDelivery, Call, WriteConnectionAccount,
           ReadConnectionAccountWriteReceipt, PrepareInvocation, ResetInvocation,
           GuardInsert, InsertInvocation, ClaimAccountWrite, ReadAccountWrite,
           AuthorizeAccountWrite, RecheckAccountWrite, ProviderCall, FinishInvocation,
           FinishAccountWrite, ReplyAccountWrite, Crash
  <2>b. AcceptDelivery(p) \/ Call(p) \/ WriteConnectionAccount(p)
        \/ ReadConnectionAccountWriteReceipt(p) => pc'[p] \notin {"finish", "reply"}
    BY <1>i, BeginStep
       DEF AcceptDelivery, Call, WriteConnectionAccount, ReadConnectionAccountWriteReceipt
  <2>m. (\A t : Goto(p, t) => pc'[p] = t) /\ (Return(p) => pc'[p] = "idle")
    BY <1>i, ProcSteps
  <2>c. PrepareInvocation(p) \/ ResetInvocation(p) \/ GuardInsert(p) \/ InsertInvocation(p)
        => pc'[p] \notin {"finish", "reply"}
    <3>1. PrepareInvocation(p) \/ GuardInsert(p) => pc'[p] \notin {"finish", "reply"}
      BY <2>m DEF PrepareInvocation, GuardInsert
    <3>2. ResetInvocation(p) => Goto(p, "call") \/ Return(p)
      BY DEF ResetInvocation
    <3>3. InsertInvocation(p) => Return(p) \/ \E t \in {"authorize", "call", "read"} : Goto(p, t)
      BY DEF InsertInvocation
    <3>4. QED
      BY <2>m, <3>1, <3>2, <3>3
  <2>d. FinishInvocation(p) \/ FinishAccountWrite(p) \/ ReplyAccountWrite(p) \/ Crash(p)
        => pc'[p] \notin {"finish", "reply"}
    <3>1. FinishInvocation(p) \/ FinishAccountWrite(p) \/ ReplyAccountWrite(p) \/ Crash(p)
          => Goto(p, "read") \/ Return(p)
      BY DEF FinishInvocation, FinishAccountWrite, ReplyAccountWrite, Crash
    <3>2. QED
      BY <2>m, <3>1
  <2>e. ClaimAccountWrite(p) \/ ReadAccountWrite(p) => pc'[p] # "finish"
    BY <1>i, ProcSteps DEF ClaimAccountWrite, ReadAccountWrite
  <2>g. pc'[p] = "finish" =>
           AuthorizeAccountWrite(p) \/ RecheckAccountWrite(p) \/ ProviderCall(p)
    BY <1>1, <2>b, <2>c, <2>d, <2>e DEF Request
  <2>h. AuthorizeAccountWrite(p) \/ RecheckAccountWrite(p) \/ ProviderCall(p)
        => pc'[p] # "reply"
    BY <1>i, ProcSteps DEF AuthorizeAccountWrite, RecheckAccountWrite, ProviderCall
  <2>4. pc'[p] = "finish" /\ job'[p].kind = "write" /\ job'[p].outcome = "uncertain" =>
           io'[job'[p].id] # 0
    <3>1. CASE ProviderCall(p)
      <4>1. io \in [Ids -> Nat] /\ io' = [io EXCEPT ![job[p].id] = @ + 1]
        BY <1>i, <3>1 DEF ProviderCall, TypeInv, TypeOK
      <4>2. job'[p].id = job[p].id
        BY <1>i, <3>1, ProcSteps DEF ProviderCall
      <4>3. QED
        BY <2>1, <4>1, <4>2
    <3>2. CASE AuthorizeAccountWrite(p) \/ RecheckAccountWrite(p)
      BY <1>i, <3>2, ProcSteps DEF AuthorizeAccountWrite, RecheckAccountWrite
    <3>3. CASE ~ProviderCall(p) /\ ~AuthorizeAccountWrite(p) /\ ~RecheckAccountWrite(p)
      <4>1. pc'[p] # "finish"
        BY <2>g, <3>3
      <4>2. QED
        BY <4>1
    <3>4. QED
      BY <3>1, <3>2, <3>3
  <2>5. ASSUME pc'[p] = "reply"
        PROVE  /\ job'[p].id \in WriteIds
               /\ job'[p].outcome \in Contract!Settled \cup {"not_found"}
               /\ job'[p].outcome \in {"succeeded", "failed"} =>
                     PhaseOf(job[p].id)' \in {job'[p].outcome, "erased"}
               /\ job'[p].outcome = "uncertain" => PhaseOf(job[p].id)' # "free"
    <3>1. ClaimAccountWrite(p) \/ ReadAccountWrite(p)
      BY <1>1, <2>5, <2>b, <2>c, <2>d, <2>h DEF Request
    <3>2. PICK k \in Ids : k = job[p].id
      BY <2>1
    <3>3. k \in WriteIds /\ job[p].content \in Contents
      BY <1>i, <3>1, <3>2, IdsAssumption, ModesAssumption
         DEF ClaimAccountWrite, ReadAccountWrite, IndInv, KindFits, KindsOf, CallKinds, Ids
    <3>4. UNCHANGED <<ledger, io>> /\ job'[p].id = k
      BY <1>i, <2>5, <3>1, <3>2, ProcSteps DEF ClaimAccountWrite, ReadAccountWrite, history
    <3>5. \/ job'[p].outcome = "not_found"
          \/ /\ ledger[k].status # "absent" /\ SameEvidence(ledger[k], job[p])
             /\ job'[p].outcome = ReceiptStatus(ledger[k])
      BY <1>i, <2>5, <3>1, <3>2, ProcSteps DEF ClaimAccountWrite, ReadAccountWrite
    <3>6. CASE job'[p].outcome = "not_found"
      BY <3>3, <3>4, <3>6
    <3>7. CASE /\ ledger[k].status # "absent" /\ SameEvidence(ledger[k], job[p])
               /\ job'[p].outcome = ReceiptStatus(ledger[k])
      <4>1. ledger[k].evidence # NoEvidence
        BY <3>3, <3>7, ContentAssumption DEF SameEvidence, NoEvidence
      <4>2. /\ PhaseOf(k)' # "free"
            /\ ledger[k].status \in {"succeeded", "failed"} =>
                  PhaseOf(k)' = ledger[k].status
        BY <1>i, <3>4, <3>7, <4>1 DEF PhaseOf, IsErased, TypeInv, TypeOK, Row, Statuses
      <4>3. QED
        BY <3>3, <3>4, <3>7, <4>2 DEF ReceiptStatus, Contract!Settled
    <3>8. QED
      BY <3>5, <3>6, <3>7
  <2>6. UncertainWasCalled'
    BY <1>f, <2>2, <2>3, <2>4 DEF UncertainWasCalled, Others
  <2>7. RepliesStand'
    BY <1>f, <2>2, <2>3, <2>5 DEF RepliesStand, Others
  <2>8. QED
    BY <2>6, <2>7
<1>2. ASSUME UNCHANGED <<pc, job, io>> PROVE UncertainWasCalled' /\ RepliesStand'
  <2>1. \A p \in Procs : pc'[p] = pc[p] /\ job'[p] = job[p]
    BY <1>2
  <2>2. \A i \in Ids : io[i] # 0 => io'[i] # 0
    BY <1>2
  <2>3. UncertainWasCalled'
    BY <1>f, <2>1, <2>2 DEF UncertainWasCalled
  <2>4. RepliesStand'
    BY <1>f, <2>1, <2>2 DEF RepliesStand
  <2>5. QED
    BY <2>3, <2>4
<1>3. QED
  BY <1>i, <1>1, <1>2
     DEF RefInv, Next, ProcessDueReconciliations, ScanReconciliation, ClaimReconciliation,
         LookupReconciliation, PersistReconciliation, CrashWorker, PrepareErasure,
         EraseInvocations, ChangeAccount, vars, procVars, history

\* The ledger implements what the host was promised: seen through the mapping
\* of AccountWriteRefinement, every behaviour of requests, retries, crashes,
\* reconcilers and erasures is a behaviour of AccountWrite.
THEOREM Refinement == Spec => ImplementsAccountWrite
<1>1. Init => RefInv
  BY InitInv DEF RefInv, Init, UncertainWasCalled, RepliesStand
<1>2. Init => Contract!Init
  <2> SUFFICES ASSUME Init PROVE Contract!Init
    OBVIOUS
  <2>1. \A i \in WriteIds : /\ PhaseOf(i) = "free" /\ ContentOf(i) = NoContent
                            /\ effect[i] = FALSE /\ told[i] = {}
    BY DEF Init, PhaseOf, ContentOf, IsErased, NoRow, NoEvidence, Ids
  <2>2. QED
    BY <2>1 DEF Contract!Init
<1>3. RefInv /\ [Next]_vars => [Contract!Next]_(Contract!vars)
  BY Simulates
<1>4. QED
  BY <1>1, <1>2, <1>3, RefNext, PTL DEF Spec, Contract!Spec, ImplementsAccountWrite

=============================================================================
