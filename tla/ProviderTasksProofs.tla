------------------------- MODULE ProviderTasksProofs -------------------------
(***************************************************************************)
(* What ProviderTasks promises, for every set of replicas and tasks, every *)
(* declaration of state versions and every bound.  The inductive invariant *)
(* TasksInv relates what a worker has read to the row as it is now: tokens *)
(* never run backwards, and a row that still has the scanned token, status *)
(* and due time still has the scanned state.  OutboxInv adds what the      *)
(* state says about the commits that were made.                            *)
(***************************************************************************)
EXTENDS ProviderTasks, TLAPS

\* Steps of a worker that has claimed a task, and of one that has claimed a
\* commit.
Executing == {"execute", "result", "fail"}
Answered == {"delivered", "undelivered"}
Sending == {"deliver"} \cup Answered

\* A worker and the task row it scanned.
TaskReader(w) ==
    LET t == cand[w].task
        row == task[t]
        seen == cand[w].row
    IN
    /\ pc[w] \in {"reset", "claim"} \cup Executing => row.status # "absent"
    /\ pc[w] \in {"claim"} \cup Executing =>
          seen.token < MaxToken /\ seen.attempt < AttemptLimit
    /\ pc[w] = "claim" =>
          /\ seen.token <= row.token
          /\ seen.token = row.token /\ t \notin fenced =>
                /\ ~row.leased
                /\ seen.due <= row.due
                /\ seen.due = row.due =>
                      seen.version = row.version /\ seen.state = row.state
    /\ pc[w] \in Executing =>
          /\ seen.token + 1 <= row.token
          /\ seen.token + 1 = row.token /\ row.leased =>
                seen.version = row.version /\ seen.state = row.state

\* A claim's token has one holder.
TokensAreExclusive ==
    \A v, w \in Workers :
        v # w /\ pc[v] \in Executing /\ pc[w] \in Executing =>
            ~(cand[v].task = cand[w].task /\ cand[v].row.token = cand[w].row.token)

\* A worker and the commit it scanned.  What it has claimed stays as it claimed
\* it: nothing takes a commit from its sender, the erasure least of all.
CommitReader(w) ==
    LET c == cand[w].claim
        row == commit[c]
        seen == cand[w].commit
    IN
    /\ pc[w] \in {"claimCommit"} \cup Sending =>
          row.status # "absent" /\ seen.attempt < AttemptLimit
    /\ pc[w] = "claimCommit" =>
          /\ seen.token <= row.token
          /\ seen.token = row.token =>
                row.status \in DueCommits /\ seen.attempt = row.attempt
    /\ pc[w] \in Sending =>
          /\ row.status = "processing" /\ row.leased /\ row.token = seen.token + 1
          /\ row.attempt = seen.attempt /\ c[1] \notin fenced
    /\ pc[w] = "deliver" => sent[c] = seen.attempt
    /\ pc[w] \in Answered => sent[c] = seen.attempt + 1

SendersAreExclusive ==
    \A v, w \in Workers :
        v # w /\ pc[v] \in Sending /\ pc[w] \in Sending => cand[v].claim # cand[w].claim

TaskInv(t) ==
    LET row == task[t] IN
    /\ row.status = "absent" => row.due = 0 /\ row.state = 0 /\ row.token = 0
    /\ row.leased => row.status = "processing"
    /\ row.status \in {"ready", "failed"} => row.attempt < AttemptLimit
    /\ t \in fenced => row.status \in {"erasing", "cancelled"}

CommitInv(c) ==
    LET row == commit[c] IN
    /\ row.status # "absent" <=> c \in inbox
    /\ row.status = "absent" => row.token = 0
    /\ row.status # "absent" /\ c[1] \in fenced => row.status \in {"erasing", "cancelled"}
    /\ sent[c] > 0 => c \in inbox
    /\ sent[c] <= AttemptLimit
    /\ row.status \in {"pending", "failed", "dead_letter"} => row.attempt = sent[c]
    /\ row.status \in DueCommits => row.attempt < AttemptLimit

TasksInv ==
    /\ TypeOK
    /\ \A w \in Workers : TaskReader(w)
    /\ TokensAreExclusive
    /\ \A w \in Workers : CommitReader(w)
    /\ SendersAreExclusive
    /\ \A t \in Tasks : TaskInv(t)
    /\ \A c \in Claims : CommitInv(c)

-----------------------------------------------------------------------------
(* Types *)

\* The rows and candidates that stand for nothing are of their types.
LEMMA NoCandType == NoCand \in Cand /\ NoTask \in TaskRow /\ NoCommit \in CommitRow
<1>1. AnyTask \in Tasks
  BY TasksAssumption DEF AnyTask
<1>2. 1 \in 1..(MaxToken + 1) /\ 0 \in 0..AttemptLimit
  BY LimitsAssumption
<1>3. <<AnyTask, 1>> \in Claims
  BY <1>1, <1>2 DEF Claims
<1>4. NoTask \in TaskRow /\ NoCommit \in CommitRow
  BY <1>2 DEF NoTask, TaskRow, TaskStatuses, NoCommit, CommitRow, CommitStatuses
<1>5. QED
  BY <1>1, <1>3, <1>4 DEF NoCand, Cand

\* The columns of a task row.
LEMMA TaskRowFields ==
  ASSUME NEW row \in TaskRow
  PROVE  /\ row.status \in TaskStatuses /\ row.version \in Nat /\ row.state \in Nat
         /\ row.attempt \in 0..AttemptLimit /\ row.attempt \in Nat
         /\ row.leased \in BOOLEAN /\ row.token \in Nat /\ row.due \in Nat
BY LimitsAssumption DEF TaskRow

\* The columns of a commit row.
LEMMA CommitRowFields ==
  ASSUME NEW row \in CommitRow
  PROVE  /\ row.status \in CommitStatuses
         /\ row.attempt \in 0..AttemptLimit /\ row.attempt \in Nat
         /\ row.leased \in BOOLEAN /\ row.token \in Nat
BY LimitsAssumption DEF CommitRow

\* The fields of a candidate.
LEMMA CandFields ==
  ASSUME TypeOK, NEW w \in Workers
  PROVE  /\ cand[w] \in Cand
         /\ cand[w].task \in Tasks /\ cand[w].row \in TaskRow
         /\ cand[w].claim \in Claims /\ cand[w].commit \in CommitRow
         /\ cand[w].claim[1] \in Tasks
         /\ task[cand[w].task] \in TaskRow /\ commit[cand[w].claim] \in CommitRow
         /\ sent[cand[w].claim] \in Nat
BY DEF TypeOK, Cand, Claims

\* The ways a worker moves.
Moves(w, step, c) ==
    /\ pc' \in [Workers -> Steps]
    /\ cand' \in [Workers -> Cand]
    /\ crashes' \in Nat
    /\ pc'[w] = step /\ cand'[w] = c
    /\ \A v \in Workers \ {w} : pc'[v] = pc[v] /\ cand'[v] = cand[v]

\* Moving a worker keeps its type.
LEMMA MoveTypes ==
  ASSUME TypeOK, NEW w \in Workers
  PROVE  /\ Done(w) => Moves(w, "idle", NoCand)
         /\ CrashWorker(w) => Moves(w, "idle", NoCand)
         /\ \A step \in Steps : Goto(w, step) => Moves(w, step, cand[w])
         /\ \A step \in Steps, c \in Cand : Take(w, step, c) => Moves(w, step, c)
<1>1. pc \in [Workers -> Steps] /\ cand \in [Workers -> Cand] /\ crashes \in Nat
  BY DEF TypeOK
<1>2. QED
  BY <1>1, NoCandType DEF Done, CrashWorker, Goto, Take, Moves, Steps

-----------------------------------------------------------------------------
(* What one worker's step leaves to the others *)

\* Tokens never run backwards, and under one token only a row's holder changes
\* its state without moving its due time.
TaskGrows(t) ==
    LET row == task[t] IN
    /\ row.status # "absent" => task'[t].status # "absent"
    /\ task'[t].token >= row.token
    /\ task'[t].token = row.token =>
          /\ task'[t].leased =>
                /\ row.leased
                /\ task'[t].version = row.version /\ task'[t].state = row.state
          /\ ~row.leased /\ t \notin fenced' =>
                /\ task'[t].due >= row.due
                /\ task'[t].due = row.due =>
                      task'[t].version = row.version /\ task'[t].state = row.state

CommitGrows(c) ==
    LET row == commit[c] IN
    /\ row.status # "absent" => commit'[c].status # "absent"
    /\ commit'[c].token >= row.token
    /\ commit'[c].token = row.token /\ row.status \in DueCommits =>
          commit'[c].status \in DueCommits /\ commit'[c].attempt = row.attempt

\* A commit that is being sent stays as its sender knows it.
SenderKept(c) ==
    commit[c].status = "processing" /\ c[1] \notin fenced =>
        commit'[c] = commit[c] /\ sent'[c] = sent[c] /\ c[1] \notin fenced'

\* A worker that does not move still agrees with a task row that grows.
LEMMA OtherTaskReader ==
  ASSUME TasksInv, TypeOK', fenced \subseteq fenced', NEW v \in Workers,
         pc'[v] = pc[v], cand'[v] = cand[v], TaskGrows(cand[v].task)
  PROVE  TaskReader(v)'
<1>1. TypeOK /\ TaskReader(v)
  BY DEF TasksInv
<1>2. PICK t \in Tasks : t = cand[v].task
  BY <1>1, CandFields
<1>3. /\ task[t].token \in Nat /\ task[t].due \in Nat /\ task[t].leased \in BOOLEAN
      /\ task'[t].token \in Nat /\ task'[t].due \in Nat /\ task'[t].leased \in BOOLEAN
      /\ cand[v].row.token \in Nat /\ cand[v].row.due \in Nat
  <2>1. task[t] \in TaskRow /\ task'[t] \in TaskRow /\ cand[v].row \in TaskRow
    BY <1>1, CandFields DEF TypeOK
  <2>2. QED
    BY <2>1, TaskRowFields
<1>4. TaskGrows(t)
  BY <1>2
<1>5. QED
  BY <1>1, <1>2, <1>3, <1>4 DEF TaskReader, TaskGrows, Executing

\* A worker that does not move still agrees with a commit row that grows.
LEMMA OtherCommitReader ==
  ASSUME TasksInv, TypeOK', NEW v \in Workers,
         pc'[v] = pc[v], cand'[v] = cand[v], CommitGrows(cand[v].claim),
         pc[v] \in Sending => SenderKept(cand[v].claim)
  PROVE  CommitReader(v)'
<1>1. TypeOK /\ CommitReader(v)
  BY DEF TasksInv
<1>2. PICK c \in Claims : c = cand[v].claim
  BY <1>1, CandFields
<1>3. /\ commit[c].token \in Nat /\ commit'[c].token \in Nat
      /\ cand[v].commit.token \in Nat
  <2>1. commit[c] \in CommitRow /\ commit'[c] \in CommitRow /\ cand[v].commit \in CommitRow
    BY <1>1, CandFields DEF TypeOK
  <2>2. QED
    BY <2>1, CommitRowFields
<1>4. CASE pc[v] \in Sending
  <2>1. commit'[c] = commit[c] /\ sent'[c] = sent[c] /\ c[1] \notin fenced'
    BY <1>1, <1>2, <1>4 DEF CommitReader, SenderKept
  <2>2. QED
    BY <1>1, <1>2, <1>4, <2>1 DEF CommitReader, Sending, Answered
<1>5. CASE pc[v] \notin Sending
  BY <1>1, <1>2, <1>3, <1>5 DEF CommitReader, CommitGrows, Sending, Answered
<1>6. QED
  BY <1>4, <1>5

\* A worker's step: what is left to show of it.
LEMMA WorkerStepInv ==
  ASSUME TasksInv, TypeOK', fenced' = fenced, NEW w \in Workers,
         \A v \in Workers \ {w} : pc'[v] = pc[v] /\ cand'[v] = cand[v],
         \A t \in Tasks : TaskGrows(t) /\ TaskInv(t)',
         \A c \in Claims : /\ CommitGrows(c) /\ CommitInv(c)'
                           /\ (pc[w] \in Sending /\ cand[w].claim = c) \/ SenderKept(c),
         TaskReader(w)', CommitReader(w)',
         pc'[w] \in Executing =>
            \/ /\ pc[w] \in Executing
               /\ cand'[w].task = cand[w].task /\ cand'[w].row = cand[w].row
            \/ cand'[w].row.token = task[cand'[w].task].token,
         pc'[w] \in Sending =>
            \/ pc[w] \in Sending /\ cand'[w].claim = cand[w].claim
            \/ commit[cand'[w].claim].status # "processing"
  PROVE  TasksInv'
<1>0. TypeOK /\ TokensAreExclusive /\ SendersAreExclusive
  BY DEF TasksInv
<1>1. \A v \in Workers : TaskReader(v)'
  <2> SUFFICES ASSUME NEW v \in Workers \ {w} PROVE TaskReader(v)'
    OBVIOUS
  <2>1. TaskGrows(cand[v].task)
    BY <1>0, CandFields
  <2>2. QED
    BY <2>1, OtherTaskReader
<1>2. \A v \in Workers : CommitReader(v)'
  <2> SUFFICES ASSUME NEW v \in Workers \ {w} PROVE CommitReader(v)'
    OBVIOUS
  <2>1. cand[v].claim \in Claims
    BY <1>0, CandFields
  <2>2. pc[v] \in Sending => SenderKept(cand[v].claim)
    BY <1>0, <2>1 DEF SendersAreExclusive
  <2>3. QED
    BY <2>1, <2>2, OtherCommitReader
<1>3. TokensAreExclusive'
  <2> SUFFICES ASSUME NEW v \in Workers \ {w}, pc'[w] \in Executing, pc[v] \in Executing,
                      cand'[w].task = cand[v].task, cand'[w].row.token = cand[v].row.token
               PROVE  FALSE
    BY <1>0 DEF TokensAreExclusive
  <2>1. CASE cand'[w].row.token = task[cand'[w].task].token
    <3>1. cand[v].row.token + 1 <= task[cand[v].task].token
      BY DEF TasksInv, TaskReader
    <3>2. cand[v].row.token \in Nat
      BY <1>0, CandFields, TaskRowFields
    <3>3. QED
      BY <2>1, <3>1, <3>2
  <2>2. QED
    BY <1>0, <2>1 DEF TokensAreExclusive
<1>4. SendersAreExclusive'
  <2> SUFFICES ASSUME NEW v \in Workers \ {w}, pc'[w] \in Sending, pc[v] \in Sending,
                      cand'[w].claim = cand[v].claim
               PROVE  FALSE
    BY <1>0 DEF SendersAreExclusive
  <2>1. commit[cand[v].claim].status = "processing"
    BY DEF TasksInv, CommitReader
  <2>2. QED
    BY <1>0, <2>1 DEF SendersAreExclusive
<1>5. QED
  BY <1>1, <1>2, <1>3, <1>4 DEF TasksInv

\* The invariant holds initially.
LEMMA InitInv == Init => TasksInv
<1> SUFFICES ASSUME Init PROVE TasksInv
  OBVIOUS
<1>1. TypeOK
  BY NoCandType, LimitsAssumption DEF Init, TypeOK, Steps
<1>2. \A w \in Workers : TaskReader(w) /\ CommitReader(w)
  BY DEF Init, TaskReader, CommitReader, Executing, Sending, Answered
<1>3. TokensAreExclusive /\ SendersAreExclusive
  BY DEF Init, TokensAreExclusive, SendersAreExclusive, Executing, Sending, Answered
<1>4. \A t \in Tasks : TaskInv(t)
  BY DEF Init, TaskInv, NoTask
<1>5. \A c \in Claims : CommitInv(c)
  BY LimitsAssumption DEF Init, CommitInv, NoCommit, DueCommits
<1>6. QED
  BY <1>1, <1>2, <1>3, <1>4, <1>5 DEF TasksInv

-----------------------------------------------------------------------------
(* Steps on task rows *)

\* What does not change grows.
LEMMA SameGrows ==
  ASSUME TypeOK
  PROVE  /\ \A t \in Tasks : task'[t] = task[t] => TaskGrows(t)
         /\ \A c \in Claims : commit'[c] = commit[c] => CommitGrows(c)
<1>1. \A t \in Tasks : task[t].token \in Nat /\ task[t].due \in Nat
  BY TaskRowFields DEF TypeOK
<1>2. \A c \in Claims : commit[c].token \in Nat
  BY CommitRowFields DEF TypeOK
<1>3. QED
  BY <1>1, <1>2 DEF TaskGrows, CommitGrows

\* A worker's step that writes at most task rows.
LEMMA TaskStepInv ==
  ASSUME TasksInv, NEW w \in Workers, NEW step \in Steps, NEW c \in Cand,
         Moves(w, step, c), UNCHANGED <<commit, fenced, receipt, inbox, sent>>,
         made' \in [Tasks -> Seq(Claims)],
         task' \in [Tasks -> TaskRow],
         \A t \in Tasks : TaskGrows(t) /\ TaskInv(t)',
         TaskReader(w)', step \notin {"claimCommit"} \cup Sending,
         step \in Executing =>
            \/ pc[w] \in Executing /\ c.task = cand[w].task /\ c.row = cand[w].row
            \/ c.row.token = task[c.task].token
  PROVE  TasksInv'
<1>0. TypeOK
  BY DEF TasksInv
<1>1. TypeOK'
  BY <1>0 DEF TypeOK, Moves
<1>2. \A k \in Claims : CommitGrows(k) /\ CommitInv(k)' /\ SenderKept(k)
  BY <1>0, SameGrows DEF TasksInv, CommitInv, SenderKept
<1>3. CommitReader(w)'
  BY DEF CommitReader, Moves, Sending, Answered
<1>4. QED
  BY <1>1, <1>2, <1>3, WorkerStepInv DEF Moves

\* One task row is written, or none.
LEMMA OneTaskStepInv ==
  ASSUME TasksInv, NEW w \in Workers, NEW step \in Steps, NEW c \in Cand,
         Moves(w, step, c), UNCHANGED <<commit, fenced, receipt, inbox, sent>>,
         made' \in [Tasks -> Seq(Claims)],
         NEW t \in Tasks, NEW row \in TaskRow, task' = [task EXCEPT ![t] = row],
         TaskGrows(t), TaskInv(t)',
         TaskReader(w)', step \notin {"claimCommit"} \cup Sending,
         step \in Executing =>
            \/ pc[w] \in Executing /\ c.task = cand[w].task /\ c.row = cand[w].row
            \/ c.row.token = task[c.task].token
  PROVE  TasksInv'
<1>0. TypeOK
  BY DEF TasksInv
<1>1. task' \in [Tasks -> TaskRow] /\ \A s \in Tasks \ {t} : task'[s] = task[s]
  BY <1>0 DEF TypeOK
<1>2. \A s \in Tasks : TaskGrows(s) /\ TaskInv(s)'
  BY <1>0, <1>1, SameGrows DEF TasksInv, TaskInv
<1>3. QED
  BY <1>1, <1>2, TaskStepInv

\* No row is written and nothing is claimed.
LEMMA ReadStepInv ==
  ASSUME TasksInv, NEW w \in Workers, NEW step \in Steps, NEW c \in Cand,
         Moves(w, step, c), UNCHANGED rowVars,
         TaskReader(w)', step \notin {"claimCommit"} \cup Sending,
         step \in Executing =>
            pc[w] \in Executing /\ c.task = cand[w].task /\ c.row = cand[w].row
  PROVE  TasksInv'
<1>0. TypeOK
  BY DEF TasksInv
<1>1. task' \in [Tasks -> TaskRow] /\ made' \in [Tasks -> Seq(Claims)]
  BY <1>0 DEF TypeOK, rowVars
<1>2. \A s \in Tasks : TaskGrows(s) /\ TaskInv(s)'
  BY <1>0, SameGrows DEF TasksInv, TaskInv, rowVars
<1>3. QED
  BY <1>1, <1>2, TaskStepInv DEF rowVars

\* A worker that is done.
LEMMA IdleReader ==
  ASSUME NEW w \in Workers, Moves(w, "idle", NoCand)
  PROVE  TaskReader(w)' /\ CommitReader(w)'
BY DEF Moves, TaskReader, CommitReader, Executing, Sending, Answered

\* A worker that ends its round leaves the rows as they are.
LEMMA DoneInv ==
  ASSUME TasksInv, NEW w \in Workers, Done(w) \/ CrashWorker(w), UNCHANGED rowVars
  PROVE  TasksInv'
<1>1. Moves(w, "idle", NoCand) /\ "idle" \in Steps
  BY MoveTypes DEF TasksInv, Steps
<1>2. QED
  BY <1>1, IdleReader, NoCandType, ReadStepInv DEF Executing, Sending, Answered

\* SynchronizeTask keeps TasksInv.
LEMMA SynchronizeTaskInv ==
  ASSUME TasksInv, NEW w \in Workers, SynchronizeTask(w)
  PROVE  TasksInv'
<1>0. TypeOK
  BY DEF TasksInv
<1>1. PICK t \in Tasks :
        Take(w, IF task[t].status = "absent" THEN "insert" ELSE "reset",
             [NoCand EXCEPT !.task = t, !.row = task[t]])
  BY DEF SynchronizeTask
<1> DEFINE step == IF task[t].status = "absent" THEN "insert" ELSE "reset"
           c == [NoCand EXCEPT !.task = t, !.row = task[t]]
<1>2. c \in Cand /\ c.task = t
  BY <1>0, NoCandType DEF TypeOK, Cand
<1>3. step \in Steps /\ step \notin {"claimCommit"} \cup Sending \cup Executing
  BY DEF Steps, Sending, Answered, Executing
<1>4. Moves(w, step, c) /\ UNCHANGED rowVars
  BY <1>0, <1>1, <1>2, <1>3, MoveTypes DEF Take
<1>5. TaskReader(w)'
  <2>1. pc'[w] = step /\ cand'[w].task = t /\ task' = task
    BY <1>2, <1>4 DEF Moves, rowVars
  <2>2. QED
    BY <2>1 DEF TaskReader, Executing
<1> HIDE DEF c, step
<1>6. QED
  BY <1>2, <1>3, <1>4, <1>5, ReadStepInv

\* ScanTask keeps TasksInv.
LEMMA ScanTaskInv ==
  ASSUME TasksInv, NEW w \in Workers, ScanTask(w)
  PROVE  TasksInv'
<1>0. TypeOK
  BY DEF TasksInv
<1>1. PICK t \in Tasks :
        /\ task[t].status \in {"ready", "failed"}
        /\ task[t].token < MaxToken
        /\ Take(w, "claim", [NoCand EXCEPT !.task = t, !.row = task[t]])
  BY DEF ScanTask
<1> DEFINE c == [NoCand EXCEPT !.task = t, !.row = task[t]]
<1>2. c \in Cand /\ c.task = t /\ c.row = task[t]
  BY <1>0, NoCandType DEF TypeOK, Cand
<1>3. "claim" \in Steps /\ "claim" \notin {"claimCommit"} \cup Sending \cup Executing
  BY DEF Steps, Sending, Answered, Executing
<1>4. Moves(w, "claim", c) /\ UNCHANGED rowVars
  BY <1>0, <1>1, <1>2, <1>3, MoveTypes DEF Take
<1>5. TaskReader(w)'
  <2>1. pc'[w] = "claim" /\ cand'[w].task = t /\ cand'[w].row = task[t] /\ task' = task
    BY <1>2, <1>4 DEF Moves, rowVars
  <2>2. task[t].token \in Nat /\ task[t].due \in Nat
    BY <1>0, TaskRowFields DEF TypeOK
  <2>3. TaskInv(t)
    BY DEF TasksInv
  <2>4. QED
    BY <1>1, <2>1, <2>2, <2>3 DEF TaskReader, TaskInv, Executing
<1> HIDE DEF c
<1>6. QED
  BY <1>2, <1>3, <1>4, <1>5, ReadStepInv

\* InsertTask keeps TasksInv.
LEMMA InsertTaskInv ==
  ASSUME TasksInv, NEW w \in Workers, InsertTask(w)
  PROVE  TasksInv'
<1>0. TypeOK
  BY DEF TasksInv
<1>t. PICK t \in Tasks : t = cand[w].task
  BY <1>0, CandFields
<1> DEFINE row == [status |-> "ready", version |-> Declared[w], state |-> 0,
                   attempt |-> 0, leased |-> FALSE, token |-> 0, due |-> 1]
<1>1. Done(w) /\ UNCHANGED <<commit, fenced, receipt, inbox, sent, made>>
  BY DEF InsertTask
<1>2. CASE task[t].status # "absent"
  <2>1. UNCHANGED rowVars
    BY <1>t, <1>2 DEF InsertTask, rowVars
  <2>2. QED
    BY <1>1, <2>1, DoneInv
<1>3. CASE task[t].status = "absent"
  <2>1. task' = [task EXCEPT ![t] = row]
    BY <1>t, <1>3 DEF InsertTask
  <2>2. /\ row \in TaskRow /\ row.status = "ready" /\ row.attempt = 0 /\ row.token = 0
        /\ row.due = 1 /\ row.state = 0 /\ row.leased = FALSE
    BY DeclaredAssumption, LimitsAssumption DEF TaskRow, TaskStatuses
  <2> HIDE DEF row
  <2>3. task'[t] = row
    BY <1>0, <2>1 DEF TypeOK
  <2>4. Moves(w, "idle", NoCand) /\ "idle" \in Steps
    BY <1>0, <1>1, MoveTypes DEF Steps
  <2>5. task[t].due = 0 /\ task[t].state = 0 /\ ~task[t].leased /\ task[t].token = 0
        /\ t \notin fenced
    BY <1>3 DEF TasksInv, TaskInv
  <2>6. TaskGrows(t)
    BY <2>2, <2>3, <2>5 DEF TaskGrows
  <2>7. TaskInv(t)'
    BY <1>1, <2>2, <2>3, <2>5, LimitsAssumption DEF TaskInv
  <2>8. made' \in [Tasks -> Seq(Claims)]
    BY <1>0, <1>1 DEF TypeOK
  <2>9. QED
    BY <1>1, <2>8, <2>1, <2>2, <2>4, <2>6, <2>7, IdleReader, NoCandType, OneTaskStepInv
       DEF Executing, Sending, Answered
<1>4. QED
  BY <1>2, <1>3

\* The row a new state version starts with.
LEMMA FreshRowType ==
  ASSUME NEW row \in TaskRow, NEW version \in Nat
  PROVE  /\ FreshRow(row, version) \in TaskRow
         /\ FreshRow(row, version).status = "ready"
         /\ FreshRow(row, version).state = 0
         /\ FreshRow(row, version).version = version
         /\ FreshRow(row, version).attempt = 0
         /\ FreshRow(row, version).leased = FALSE
         /\ FreshRow(row, version).token = row.token
         /\ FreshRow(row, version).due = row.due + 1
<1> DEFINE n == row.due + 1
           fresh == [row EXCEPT !.version = version, !.state = 0, !.status = "ready",
                                !.due = n, !.attempt = 0, !.leased = FALSE]
<1>1. n \in Nat /\ 0 \in 0..AttemptLimit /\ "ready" \in TaskStatuses
  BY TaskRowFields, LimitsAssumption DEF TaskStatuses
<1>2. FreshRow(row, version) = fresh
  BY DEF FreshRow, TaskRow
<1>3. /\ fresh \in TaskRow /\ fresh.status = "ready" /\ fresh.state = 0
      /\ fresh.version = version /\ fresh.attempt = 0 /\ fresh.leased = FALSE
      /\ fresh.token = row.token /\ fresh.due = n
  <2> HIDE DEF n
  <2>1. QED
    BY <1>1 DEF TaskRow
<1>4. QED
  BY <1>2, <1>3

\* ResetTask keeps TasksInv.
LEMMA ResetTaskInv ==
  ASSUME TasksInv, NEW w \in Workers, ResetTask(w)
  PROVE  TasksInv'
<1>0. TypeOK
  BY DEF TasksInv
<1>t. PICK t \in Tasks : t = cand[w].task
  BY <1>0, CandFields
<1> DEFINE row == FreshRow(task[t], Declared[w])
<1>1. Done(w) /\ UNCHANGED <<commit, fenced, receipt, inbox, sent>>
  BY DEF ResetTask
<1>2. CASE ~RowWriteAllowed(t)
  <2>1. UNCHANGED rowVars
    BY <1>t, <1>2 DEF ResetTask, rowVars
  <2>2. QED
    BY <1>1, <2>1, DoneInv
<1>3. CASE RowWriteAllowed(t)
  <2>1. task' = [task EXCEPT ![t] = row] /\ t \notin fenced
    BY <1>t, <1>3 DEF ResetTask, RowWriteAllowed
  <2>2. task[t] \in TaskRow /\ task[t].token \in Nat /\ task[t].due \in Nat
        /\ Declared[w] \in Nat
    BY <1>0, TaskRowFields, DeclaredAssumption DEF TypeOK
  <2>3. /\ row \in TaskRow /\ row.status = "ready" /\ row.attempt = 0
        /\ row.leased = FALSE /\ row.token = task[t].token /\ row.due = task[t].due + 1
    BY <2>2, FreshRowType
  <2> HIDE DEF row
  <2>4. task'[t] = row
    BY <1>0, <2>1 DEF TypeOK
  <2>5. Moves(w, "idle", NoCand) /\ "idle" \in Steps
    BY <1>0, <1>1, MoveTypes DEF Steps
  <2>6. TaskGrows(t)
    BY <2>2, <2>3, <2>4 DEF TaskGrows
  <2>7. TaskInv(t)'
    BY <1>1, <2>1, <2>3, <2>4, LimitsAssumption DEF TaskInv
  <2>8. made' \in [Tasks -> Seq(Claims)]
    <3>1. made' = [made EXCEPT ![t] = <<>>] /\ <<>> \in Seq(Claims)
      BY <1>t, <1>3 DEF ResetTask
    <3>2. QED
      BY <1>0, <3>1 DEF TypeOK
  <2>9. QED
    BY <1>1, <2>1, <2>3, <2>5, <2>8, <2>6, <2>7, IdleReader, NoCandType, OneTaskStepInv
       DEF Executing, Sending, Answered
<1>4. QED
  BY <1>2, <1>3

\* A claim succeeds only on the row that was scanned, and takes a token nobody has.
LEMMA ClaimTaskInv ==
  ASSUME TasksInv, NEW w \in Workers, ClaimTask(w)
  PROVE  TasksInv'
<1>0. TypeOK /\ TaskReader(w)
  BY DEF TasksInv
<1>t. PICK t \in Tasks : t = cand[w].task
  BY <1>0, CandFields
<1>s. PICK seen \in TaskRow : seen = cand[w].row
  BY <1>0, CandFields
<1>1. UNCHANGED <<commit, fenced, receipt, inbox, sent, made>>
  BY DEF ClaimTask
<1>2. CASE ~(RowWriteAllowed(t) /\ SameRow(task[t], seen))
  <2>1. UNCHANGED rowVars /\ Done(w)
    BY <1>t, <1>s, <1>2 DEF ClaimTask, rowVars
  <2>2. QED
    BY <2>1, DoneInv
<1>3. CASE RowWriteAllowed(t) /\ SameRow(task[t], seen)
  <2> DEFINE n == seen.token + 1
             row == [task[t] EXCEPT !.status = "processing", !.leased = TRUE, !.token = n]
  <2>1. task' = [task EXCEPT ![t] = row] /\ Goto(w, "execute") /\ t \notin fenced
    BY <1>t, <1>s, <1>3 DEF ClaimTask, RowWriteAllowed
  <2>2. /\ task[t] \in TaskRow /\ task[t].token \in Nat /\ task[t].due \in Nat
        /\ seen.token \in Nat /\ seen.due \in Nat
    BY <1>0, TaskRowFields DEF TypeOK
  <2>3. n \in Nat /\ "processing" \in TaskStatuses
    BY <2>2 DEF TaskStatuses
  <2>4. /\ row \in TaskRow /\ row.status = "processing" /\ row.token = n
        /\ row.version = task[t].version /\ row.state = task[t].state
        /\ row.due = task[t].due
    <3> HIDE DEF n
    <3>1. QED
      BY <2>2, <2>3 DEF TaskRow
  <2>5. task[t].token = seen.token /\ task[t].due = seen.due
    BY <1>3 DEF SameRow
  <2> HIDE DEF row
  <2>6. task'[t] = row
    BY <1>0, <2>1 DEF TypeOK
  <2>7. "execute" \in Steps /\ "execute" \notin {"claimCommit"} \cup Sending
    BY DEF Steps, Sending, Answered
  <2>8. Moves(w, "execute", cand[w])
    BY <1>0, <2>1, <2>7, MoveTypes
  <2>9. TaskGrows(t)
    BY <2>2, <2>4, <2>5, <2>6 DEF TaskGrows
  <2>10. TaskInv(t)'
    BY <1>1, <2>1, <2>4, <2>6 DEF TaskInv
  <2>11. pc[w] = "claim"
    BY DEF ClaimTask
  <2>12. seen.version = task[t].version /\ seen.state = task[t].state
         /\ seen.token < MaxToken /\ seen.attempt < AttemptLimit
    BY <1>0, <1>t, <1>s, <2>1, <2>2, <2>5, <2>11 DEF TaskReader
  <2>13. TaskReader(w)'
    <3>1. pc'[w] = "execute" /\ cand'[w].task = t /\ cand'[w].row = seen
      BY <1>t, <1>s, <2>8 DEF Moves
    <3>2. QED
      BY <2>2, <2>4, <2>6, <2>12, <3>1 DEF TaskReader, Executing
  <2>14. cand[w] \in Cand /\ cand[w].row.token = task[cand[w].task].token
    BY <1>0, <1>t, <1>s, <2>5, CandFields
  <2>15. made' \in [Tasks -> Seq(Claims)]
    BY <1>0, <1>1 DEF TypeOK
  <2>16. QED
    BY <1>1, <2>15, <2>1, <2>4, <2>7, <2>8, <2>9, <2>10, <2>13, <2>14, OneTaskStepInv
<1>4. QED
  BY <1>2, <1>3

\* ExecuteTask keeps TasksInv.
LEMMA ExecuteTaskInv ==
  ASSUME TasksInv, NEW w \in Workers, NEW step \in {"result", "fail"},
         Goto(w, step), UNCHANGED rowVars, pc[w] \in Executing
  PROVE  TasksInv'
<1>0. TypeOK /\ TaskReader(w)
  BY DEF TasksInv
<1>1. step \in Steps /\ step \notin {"claimCommit"} \cup Sending
  BY DEF Steps, Sending, Answered
<1>2. Moves(w, step, cand[w]) /\ cand[w] \in Cand
  BY <1>0, <1>1, MoveTypes, CandFields
<1>3. TaskReader(w)'
  BY <1>0, <1>2 DEF TaskReader, Executing, Moves, rowVars
<1>4. QED
  BY <1>1, <1>2, <1>3, ReadStepInv

\* FailTask keeps TasksInv.
LEMMA FailTaskInv ==
  ASSUME TasksInv, NEW w \in Workers, FailTask(w)
  PROVE  TasksInv'
<1>0. TypeOK /\ TaskReader(w)
  BY DEF TasksInv
<1>t. PICK t \in Tasks : t = cand[w].task
  BY <1>0, CandFields
<1>1. Done(w) /\ UNCHANGED <<commit, fenced, receipt, inbox, sent, made>> /\ pc[w] = "fail"
  BY DEF FailTask
<1>2. CASE ~HoldsLease(w)
  <2>1. UNCHANGED rowVars
    BY <1>2 DEF FailTask, rowVars
  <2>2. QED
    BY <1>1, <2>1, DoneInv
<1>3. CASE HoldsLease(w)
  <2> DEFINE n == cand[w].row.attempt + 1
             st == FailedStatus(n)
             d == IF st = "dead_letter" THEN 0 ELSE task[t].due + 1
             row == [task[t] EXCEPT !.status = st, !.due = d, !.attempt = n, !.leased = FALSE]
  <2>1. task' = [task EXCEPT ![t] = row]
    BY <1>t, <1>3 DEF FailTask
  <2>2. /\ task[t] \in TaskRow /\ task[t].token \in Nat /\ task[t].due \in Nat
        /\ cand[w].row \in TaskRow /\ cand[w].row.attempt \in Nat
    BY <1>0, CandFields, TaskRowFields DEF TypeOK
  <2>3. n <= AttemptLimit
    BY <1>0, <1>1, <2>2, LimitsAssumption DEF TaskReader, Executing
  <2>4. n \in 0..AttemptLimit /\ d \in Nat /\ st \in {"dead_letter", "failed"}
        /\ st \in TaskStatuses /\ (st = "failed" => n < AttemptLimit)
    BY <2>2, <2>3, LimitsAssumption DEF FailedStatus, TaskStatuses
  <2>5. /\ row \in TaskRow /\ row.status = st /\ row.token = task[t].token
        /\ row.attempt = n /\ row.leased = FALSE
    <3> HIDE DEF n, st, d
    <3>1. QED
      BY <2>2, <2>4 DEF TaskRow
  <2> HIDE DEF row, d, st, n
  <2>6. task'[t] = row
    BY <1>0, <2>1 DEF TypeOK
  <2>7. Moves(w, "idle", NoCand) /\ "idle" \in Steps
    BY <1>0, <1>1, MoveTypes DEF Steps
  <2>8. task[t].leased /\ t \notin fenced
    BY <1>t, <1>3 DEF HoldsLease, RowWriteAllowed
  <2>9. TaskGrows(t)
    BY <2>2, <2>4, <2>5, <2>6, <2>8 DEF TaskGrows
  <2>10. TaskInv(t)'
    BY <1>1, <2>4, <2>5, <2>6, <2>8 DEF TaskInv
  <2>11. made' \in [Tasks -> Seq(Claims)]
    BY <1>0, <1>1 DEF TypeOK
  <2>12. QED
    BY <1>1, <2>11, <2>1, <2>5, <2>7, <2>9, <2>10, IdleReader, NoCandType, OneTaskStepInv
       DEF Executing, Sending, Answered
<1>4. QED
  BY <1>2, <1>3

\* commitProviderTaskResult: state, events and commit together, by the holder.
LEMMA CommitTaskResultInv ==
  ASSUME TasksInv, NEW w \in Workers, CommitTaskResult(w)
  PROVE  TasksInv'
<1>0. TypeOK /\ TaskReader(w)
  BY DEF TasksInv
<1>t. PICK t \in Tasks : t = cand[w].task
  BY <1>0, CandFields
<1>p. pc[w] = "result"
  BY DEF CommitTaskResult
<1>1. CASE Rollback(w)
  BY <1>1, <1>p, ExecuteTaskInv DEF Rollback, Executing
<1>2. CASE ~Rollback(w)
  <2> DEFINE n == cand[w].row.token + 1
             c == <<t, n>>
             st == cand[w].row.state + 1
             new == NewCommit
  <2>1. /\ HoldsLease(w) /\ commit[c].status = "absent"
        /\ commit' = [commit EXCEPT ![c] = new]
        /\ inbox' = inbox \cup {c}
        /\ made' = [made EXCEPT ![t] = Append(made[t], c)]
        /\ Done(w) /\ UNCHANGED <<fenced, receipt, sent>>
    BY <1>t, <1>2 DEF CommitTaskResult, InsertOutbox
  <2>2. PICK wake \in Wakes :
          task' = [s \in Tasks |->
              IF s = t
              THEN [task[s] EXCEPT !.state = st, !.status = "ready", !.due = @ + 1,
                                   !.attempt = 0, !.leased = FALSE]
              ELSE IF s \in wake /\ RowWriteAllowed(s) /\ task[s].status # "absent"
              THEN [task[s] EXCEPT !.due = @ + 1]
              ELSE task[s]]
    BY <1>t, <1>2 DEF CommitTaskResult
  <2>3. /\ cand[w].row \in TaskRow /\ cand[w].row.token \in Nat /\ cand[w].row.state \in Nat
        /\ \A s \in Tasks : /\ task[s] \in TaskRow /\ task[s].token \in Nat
                            /\ task[s].due \in Nat /\ task[s].due + 1 \in Nat
                            /\ task[s].attempt \in Nat
    BY <1>0, CandFields, TaskRowFields DEF TypeOK
  <2>4. c \in Claims /\ c[1] = t
    BY <1>0, <1>p, <2>3, LimitsAssumption DEF TaskReader, Executing, Claims
  <2>5. /\ task[t].leased /\ task[t].token = n /\ t \notin fenced
        /\ task[t].status = "processing"
    BY <1>t, <2>1 DEF HoldsLease, RowWriteAllowed, TasksInv, TaskInv
  <2>6. /\ task'[t] \in TaskRow /\ task'[t].status = "ready" /\ task'[t].attempt = 0
        /\ task'[t].leased = FALSE /\ task'[t].token = task[t].token
    <3>1. task'[t] = [task[t] EXCEPT !.state = st, !.status = "ready",
                                     !.due = task[t].due + 1, !.attempt = 0,
                                     !.leased = FALSE]
      BY <2>2, <2>3 DEF TaskRow
    <3> DEFINE d == task[t].due + 1
    <3>2. /\ st \in Nat /\ d \in Nat /\ 0 \in 0..AttemptLimit /\ "ready" \in TaskStatuses
      BY <2>3, LimitsAssumption DEF TaskStatuses
    <3>3. task'[t] = [task[t] EXCEPT !.state = st, !.status = "ready", !.due = d,
                                     !.attempt = 0, !.leased = FALSE]
      BY <3>1
    <3> HIDE DEF d, st
    <3>4. QED
      BY <2>3, <3>2, <3>3 DEF TaskRow
  <2>7. ASSUME NEW s \in Tasks \ {t}
        PROVE  /\ task'[s] \in TaskRow
               /\ task'[s].status = task[s].status /\ task'[s].version = task[s].version
               /\ task'[s].state = task[s].state /\ task'[s].leased = task[s].leased
               /\ task'[s].attempt = task[s].attempt /\ task'[s].token = task[s].token
               /\ task'[s].due \in {task[s].due, task[s].due + 1}
               /\ task[s].status = "absent" => task'[s].due = task[s].due
    <3>1. CASE s \in wake /\ RowWriteAllowed(s) /\ task[s].status # "absent"
      <4> DEFINE d == task[s].due + 1
      <4>1. task'[s] = [task[s] EXCEPT !.due = d] /\ d \in Nat
        BY <2>2, <2>3, <3>1
      <4>2. /\ task'[s] \in TaskRow
            /\ task'[s].status = task[s].status /\ task'[s].version = task[s].version
            /\ task'[s].state = task[s].state /\ task'[s].leased = task[s].leased
            /\ task'[s].attempt = task[s].attempt /\ task'[s].token = task[s].token
            /\ task'[s].due = d
        <5> HIDE DEF d
        <5>1. QED
          BY <2>3, <4>1 DEF TaskRow
      <4>3. QED
        BY <3>1, <4>2
    <3>2. CASE ~(s \in wake /\ RowWriteAllowed(s) /\ task[s].status # "absent")
      BY <2>2, <2>3, <3>2
    <3>3. QED
      BY <3>1, <3>2
  <2>8. \A s \in Tasks : TaskGrows(s)
    BY <2>3, <2>5, <2>6, <2>7 DEF TaskGrows
  <2>9. \A s \in Tasks : TaskInv(s)'
    <3>0. fenced' = fenced
      BY <2>1
    <3>1. TaskInv(t)'
      BY <2>5, <2>6, <3>0, LimitsAssumption DEF TaskInv
    <3>2. ASSUME NEW s \in Tasks \ {t} PROVE TaskInv(s)'
      <4>1. TaskInv(s)
        BY DEF TasksInv
      <4>2. QED
        BY <2>7, <3>0, <4>1 DEF TaskInv
    <3>3. QED
      BY <3>1, <3>2
  <2>10. Moves(w, "idle", NoCand)
    BY <1>0, <2>1, MoveTypes
  <2> HIDE DEF c
  <2>11. /\ new \in CommitRow /\ new.status = "pending" /\ new.attempt = 0
         /\ new.token = 0
    BY LimitsAssumption DEF NewCommit, CommitRow, CommitStatuses
  <2> HIDE DEF new
  <2>12. /\ commit' \in [Claims -> CommitRow] /\ commit'[c] = new
         /\ \A k \in Claims \ {c} : commit'[k] = commit[k]
    BY <1>0, <2>1, <2>4, <2>11 DEF TypeOK
  <2>13. task' \in [Tasks -> TaskRow]
    BY <2>2, <2>6, <2>7
  <2>14. TypeOK'
    <3>1. made' \in [Tasks -> Seq(Claims)]
      BY <1>0, <2>1, <2>4 DEF TypeOK
    <3>2. QED
      BY <1>0, <2>1, <2>4, <2>10, <2>12, <2>13, <3>1 DEF TypeOK, Moves
  <2>15. /\ commit[c] \in CommitRow /\ sent[c] \in Nat /\ commit[c].token \in Nat
         /\ commit[c].token = 0 /\ sent[c] = 0
    BY <1>0, <2>1, <2>4, CommitRowFields DEF TypeOK, TasksInv, CommitInv
  <2>16. \A k \in Claims : CommitGrows(k)
    BY <1>0, <2>1, <2>11, <2>12, <2>15, SameGrows DEF CommitGrows, DueCommits
  <2>17. \A k \in Claims : SenderKept(k)
    BY <2>1, <2>12 DEF SenderKept
  <2>18. \A k \in Claims : CommitInv(k)'
    BY <2>1, <2>4, <2>5, <2>11, <2>12, <2>15, LimitsAssumption
       DEF TasksInv, CommitInv, DueCommits
  <2>19. QED
    BY <2>1, <2>8, <2>9, <2>10, <2>14, <2>16, <2>17, <2>18, IdleReader, WorkerStepInv
       DEF Moves, Executing, Sending, Answered
<1>3. QED
  BY <1>1, <1>2

-----------------------------------------------------------------------------
(* Steps on commit rows *)

\* A worker's step that writes one commit's row, or none.
LEMMA CommitStepInv ==
  ASSUME TasksInv, NEW w \in Workers, NEW step \in Steps, NEW m \in Cand,
         Moves(w, step, m), UNCHANGED <<task, fenced, inbox, made>>,
         receipt' \in SUBSET Claims,
         NEW c \in Claims, NEW row \in CommitRow, commit' = [commit EXCEPT ![c] = row],
         sent' \in [Claims -> Nat], \A k \in Claims \ {c} : sent'[k] = sent[k],
         CommitGrows(c), CommitInv(c)',
         (pc[w] \in Sending /\ cand[w].claim = c) \/ SenderKept(c),
         CommitReader(w)', step \notin {"reset", "claim"} \cup Executing,
         step \in Sending =>
            \/ pc[w] \in Sending /\ m.claim = cand[w].claim
            \/ commit[m.claim].status # "processing"
  PROVE  TasksInv'
<1>0. TypeOK
  BY DEF TasksInv
<1>1. commit' \in [Claims -> CommitRow] /\ \A k \in Claims \ {c} : commit'[k] = commit[k]
  BY <1>0 DEF TypeOK
<1>2. TypeOK'
  BY <1>0, <1>1 DEF TypeOK, Moves
<1>3. \A k \in Claims : /\ CommitGrows(k) /\ CommitInv(k)'
                        /\ (pc[w] \in Sending /\ cand[w].claim = k) \/ SenderKept(k)
  <2> SUFFICES ASSUME NEW k \in Claims \ {c}
               PROVE  CommitGrows(k) /\ CommitInv(k)' /\ SenderKept(k)
    OBVIOUS
  <2>1. commit'[k] = commit[k] /\ sent'[k] = sent[k]
    BY <1>1
  <2>2. QED
    BY <1>0, <2>1, SameGrows DEF TasksInv, CommitInv, SenderKept
<1>4. \A t \in Tasks : TaskGrows(t) /\ TaskInv(t)'
  BY <1>0, SameGrows DEF TasksInv, TaskInv
<1>5. TaskReader(w)'
  BY DEF TaskReader, Moves, Executing
<1>6. QED
  BY <1>2, <1>3, <1>4, <1>5, WorkerStepInv DEF Moves

\* ScanCommit keeps TasksInv.
LEMMA ScanCommitInv ==
  ASSUME TasksInv, NEW w \in Workers, ScanCommit(w)
  PROVE  TasksInv'
<1>0. TypeOK
  BY DEF TasksInv
<1>1. PICK c \in Claims :
        /\ commit[c].status \in DueCommits
        /\ Take(w, "claimCommit", [NoCand EXCEPT !.claim = c, !.commit = commit[c]])
  BY DEF ScanCommit
<1> DEFINE m == [NoCand EXCEPT !.claim = c, !.commit = commit[c]]
<1>2. m \in Cand /\ m.claim = c /\ m.commit = commit[c] /\ commit[c] \in CommitRow
  BY <1>0, NoCandType DEF TypeOK, Cand
<1>3. "claimCommit" \in Steps /\ "claimCommit" \notin {"reset", "claim"} \cup Executing
      /\ "claimCommit" \notin Sending
  BY DEF Steps, Executing, Sending, Answered
<1>4. Moves(w, "claimCommit", m) /\ UNCHANGED rowVars
  BY <1>0, <1>1, <1>2, <1>3, MoveTypes DEF Take
<1>5. /\ commit' = [commit EXCEPT ![c] = commit[c]] /\ commit' = commit /\ sent' = sent
      /\ UNCHANGED <<task, fenced, inbox, made>>
      /\ receipt' \in SUBSET Claims /\ sent' \in [Claims -> Nat]
  BY <1>0, <1>4 DEF TypeOK, rowVars
<1>6. CommitInv(c) /\ commit[c].token \in Nat /\ CommitGrows(c) /\ SenderKept(c)
  BY <1>0, <1>2, <1>5, SameGrows, CommitRowFields DEF TasksInv, SenderKept
<1>7. CommitInv(c)'
  BY <1>5, <1>6 DEF CommitInv
<1>8. CommitReader(w)'
  <2>1. pc'[w] = "claimCommit" /\ cand'[w].claim = c /\ cand'[w].commit = commit[c]
    BY <1>2, <1>4 DEF Moves
  <2>2. QED
    BY <1>1, <1>3, <1>5, <1>6, <2>1 DEF CommitReader, CommitInv, DueCommits, Answered, Sending
<1> HIDE DEF m
<1>9. QED
  BY <1>2, <1>3, <1>4, <1>5, <1>6, <1>7, <1>8, CommitStepInv

\* A commit is claimed only as it was scanned, so its attempts are its sends.
LEMMA ClaimCommitInv ==
  ASSUME TasksInv, NEW w \in Workers, ClaimCommit(w)
  PROVE  TasksInv'
<1>0. TypeOK /\ CommitReader(w) /\ pc[w] = "claimCommit"
  BY DEF TasksInv, ClaimCommit
<1>c. PICK c \in Claims : c = cand[w].claim
  BY <1>0, CandFields
<1>s. PICK seen \in CommitRow : seen = cand[w].commit
  BY <1>0, CandFields
<1>1. UNCHANGED <<task, fenced, receipt, inbox, sent, made>>
  BY DEF ClaimCommit
<1>2. CASE ~(RowWriteAllowed(c[1]) /\ SameCommit(commit[c], seen))
  <2>1. UNCHANGED rowVars /\ Done(w)
    BY <1>c, <1>s, <1>2 DEF ClaimCommit, rowVars
  <2>2. QED
    BY <2>1, DoneInv
<1>3. CASE RowWriteAllowed(c[1]) /\ SameCommit(commit[c], seen)
  <2> DEFINE n == seen.token + 1
             row == [commit[c] EXCEPT !.status = "processing", !.leased = TRUE, !.token = n]
  <2>1. commit' = [commit EXCEPT ![c] = row] /\ Goto(w, "deliver") /\ c[1] \notin fenced
    BY <1>c, <1>s, <1>3 DEF ClaimCommit, RowWriteAllowed
  <2>2. /\ commit[c] \in CommitRow /\ commit[c].token \in Nat /\ seen.token \in Nat
        /\ commit[c].token = seen.token /\ n \in Nat /\ "processing" \in CommitStatuses
    BY <1>0, <1>3, CommitRowFields DEF TypeOK, SameCommit, CommitStatuses
  <2>3. /\ row \in CommitRow /\ row.status = "processing" /\ row.leased = TRUE
        /\ row.token = n /\ row.attempt = commit[c].attempt
    <3> HIDE DEF n
    <3>1. QED
      BY <2>2 DEF CommitRow
  <2>4. /\ commit[c].status \in DueCommits /\ seen.attempt = commit[c].attempt
        /\ seen.attempt < AttemptLimit /\ commit[c].status # "absent"
    BY <1>0, <1>c, <1>s, <2>2 DEF CommitReader
  <2>5. CommitInv(c) /\ sent[c] = commit[c].attempt
    BY <2>4 DEF TasksInv, CommitInv, DueCommits
  <2>6. "deliver" \in Steps /\ "deliver" \notin {"reset", "claim"} \cup Executing
    BY DEF Steps, Executing
  <2>7. Moves(w, "deliver", cand[w]) /\ cand[w] \in Cand
    BY <1>0, <2>1, <2>6, MoveTypes, CandFields
  <2> HIDE DEF row
  <2>8. commit'[c] = row
    BY <1>0, <2>1 DEF TypeOK
  <2>9. CommitGrows(c)
    BY <2>2, <2>3, <2>8 DEF CommitGrows
  <2>10. SenderKept(c) /\ commit[c].status # "processing"
    BY <2>4 DEF SenderKept, DueCommits
  <2>11. CommitInv(c)'
    BY <1>1, <2>3, <2>4, <2>5, <2>8 DEF CommitInv, DueCommits
  <2>12. CommitReader(w)'
    <3>1. pc'[w] = "deliver" /\ cand'[w].claim = c /\ cand'[w].commit = seen
      BY <1>c, <1>s, <2>7 DEF Moves
    <3>2. QED
      BY <1>1, <2>1, <2>3, <2>4, <2>5, <2>8, <3>1 DEF CommitReader, Sending, Answered
  <2>13. /\ receipt' \in SUBSET Claims /\ sent' \in [Claims -> Nat] /\ sent' = sent
         /\ commit[cand[w].claim].status # "processing"
    BY <1>0, <1>1, <1>c, <2>10 DEF TypeOK
  <2>14. QED
    BY <1>1, <2>1, <2>3, <2>6, <2>7, <2>9, <2>10, <2>11, <2>12, <2>13, CommitStepInv
<1>4. QED
  BY <1>2, <1>3

\* DeliverCommit keeps TasksInv.
LEMMA DeliverCommitInv ==
  ASSUME TasksInv, NEW w \in Workers, DeliverCommit(w)
  PROVE  TasksInv'
<1>0. TypeOK /\ CommitReader(w) /\ pc[w] = "deliver"
  BY DEF TasksInv, DeliverCommit
<1>c. PICK c \in Claims : c = cand[w].claim
  BY <1>0, CandFields
<1>s. PICK seen \in CommitRow : seen = cand[w].commit
  BY <1>0, CandFields
<1>1. PICK step \in Answered : Goto(w, step)
  BY DEF DeliverCommit, Answered
<1>2. /\ UNCHANGED <<task, commit, fenced, inbox, made>> /\ receipt' \in SUBSET Claims
      /\ sent' = [sent EXCEPT ![c] = sent[c] + 1]
  BY <1>0, <1>c DEF DeliverCommit, TypeOK
<1>3. /\ sent[c] \in Nat /\ sent' \in [Claims -> Nat] /\ sent'[c] = sent[c] + 1
      /\ \A k \in Claims \ {c} : sent'[k] = sent[k]
  BY <1>0, <1>2 DEF TypeOK
<1>4. step \in Steps /\ step \notin {"reset", "claim"} \cup Executing /\ step \in Sending
      /\ pc[w] \in Sending /\ step # "deliver" /\ step # "claimCommit"
  BY <1>0 DEF Steps, Answered, Sending, Executing
<1>5. Moves(w, step, cand[w]) /\ cand[w] \in Cand
  BY <1>0, <1>1, <1>4, MoveTypes, CandFields
<1>6. /\ commit[c] \in CommitRow /\ commit' = [commit EXCEPT ![c] = commit[c]]
      /\ CommitGrows(c) /\ seen.attempt \in Nat
  BY <1>0, <1>2, SameGrows, CommitRowFields DEF TypeOK
<1>7. /\ commit[c].status = "processing" /\ sent[c] = seen.attempt
      /\ seen.attempt < AttemptLimit /\ CommitInv(c)
  BY <1>0, <1>c, <1>s, <1>4 DEF CommitReader, TasksInv
<1>8. CommitInv(c)'
  BY <1>2, <1>3, <1>6, <1>7, LimitsAssumption DEF CommitInv, DueCommits
<1>9. CommitReader(w)'
  <2>1. pc'[w] = step /\ cand'[w].claim = c /\ cand'[w].commit = seen
    BY <1>c, <1>s, <1>5 DEF Moves
  <2>2. QED
    BY <1>0, <1>c, <1>s, <1>2, <1>3, <1>4, <1>7, <2>1 DEF CommitReader
<1>10. QED
  BY <1>2, <1>3, <1>4, <1>5, <1>6, <1>8, <1>9, <1>c, CommitStepInv

\* FinishCommit keeps TasksInv.
LEMMA FinishCommitInv ==
  ASSUME TasksInv, NEW w \in Workers, FinishCommit(w)
  PROVE  TasksInv'
<1>0. TypeOK /\ CommitReader(w) /\ pc[w] \in Answered
  BY DEF TasksInv, FinishCommit, Answered
<1>c. PICK c \in Claims : c = cand[w].claim
  BY <1>0, CandFields
<1>s. PICK seen \in CommitRow : seen = cand[w].commit
  BY <1>0, CandFields
<1>1. Done(w) /\ UNCHANGED <<task, fenced, receipt, inbox, sent, made>>
  BY DEF FinishCommit
<1> DEFINE n == seen.attempt + 1
           row == IF pc[w] = "delivered"
                  THEN [commit[c] EXCEPT !.status = "succeeded", !.leased = FALSE]
                  ELSE [commit[c] EXCEPT !.status = FailedStatus(n), !.attempt = n,
                                         !.leased = FALSE]
<1>2. /\ commit[c].status = "processing" /\ commit[c].leased
      /\ commit[c].token = seen.token + 1 /\ commit[c].attempt = seen.attempt
      /\ c[1] \notin fenced /\ seen.attempt < AttemptLimit /\ sent[c] = n
  BY <1>0, <1>c, <1>s DEF CommitReader, Sending
<1>3. commit' = [commit EXCEPT ![c] = row]
  BY <1>c, <1>s, <1>2 DEF FinishCommit, RowWriteAllowed
<1>4. commit[c] \in CommitRow /\ commit[c].token \in Nat /\ seen.attempt \in Nat
  BY <1>0, CommitRowFields DEF TypeOK
<1>5. /\ n \in 0..AttemptLimit /\ FailedStatus(n) \in {"failed", "dead_letter"}
      /\ FailedStatus(n) \in CommitStatuses /\ "succeeded" \in CommitStatuses
      /\ FailedStatus(n) = "failed" => n < AttemptLimit
  BY <1>2, <1>4, LimitsAssumption DEF FailedStatus, CommitStatuses
<1>6. /\ row \in CommitRow /\ row.token = commit[c].token
      /\ row.status \in {"succeeded", "failed", "dead_letter"}
      /\ row.status # "succeeded" => row.attempt = n
      /\ row.status = "failed" => n < AttemptLimit
  <2> DEFINE st == FailedStatus(n)
  <2>1. st \in CommitStatuses /\ st \in {"failed", "dead_letter"}
        /\ (st = "failed" => n < AttemptLimit)
        /\ row = IF pc[w] = "delivered"
                 THEN [commit[c] EXCEPT !.status = "succeeded", !.leased = FALSE]
                 ELSE [commit[c] EXCEPT !.status = st, !.attempt = n, !.leased = FALSE]
    BY <1>5
  <2> HIDE DEF n, st, row
  <2>2. CASE pc[w] = "delivered"
    BY <1>4, <1>5, <2>1, <2>2 DEF CommitRow
  <2>3. CASE pc[w] # "delivered"
    BY <1>4, <1>5, <2>1, <2>3 DEF CommitRow
  <2>4. QED
    BY <2>2, <2>3
<1> HIDE DEF row
<1>7. commit'[c] = row
  BY <1>0, <1>3 DEF TypeOK
<1>8. Moves(w, "idle", NoCand) /\ "idle" \in Steps
  BY <1>0, <1>1, MoveTypes DEF Steps
<1>9. CommitGrows(c)
  BY <1>2, <1>4, <1>6, <1>7 DEF CommitGrows, DueCommits
<1>10. CommitInv(c)'
  BY <1>1, <1>2, <1>6, <1>7 DEF TasksInv, CommitInv, DueCommits
<1>11. /\ pc[w] \in Sending /\ cand[w].claim = c
       /\ receipt' \in SUBSET Claims /\ sent' \in [Claims -> Nat] /\ sent' = sent
  BY <1>0, <1>1, <1>c DEF Sending, TypeOK
<1>12. QED
  BY <1>1, <1>3, <1>6, <1>8, <1>9, <1>10, <1>11, IdleReader, NoCandType, CommitStepInv
     DEF Executing, Sending, Answered

-----------------------------------------------------------------------------
(* Erasure *)

\* A step of no worker: what is left to show of it.
LEMMA ErasureStepInv ==
  ASSUME TasksInv, TypeOK', fenced \subseteq fenced', UNCHANGED <<pc, cand>>,
         \A t \in Tasks : TaskGrows(t) /\ TaskInv(t)',
         \A c \in Claims : CommitGrows(c) /\ CommitInv(c)' /\ SenderKept(c)
  PROVE  TasksInv'
<1>0. TypeOK
  BY DEF TasksInv
<1>1. \A v \in Workers : TaskReader(v)'
  BY <1>0, CandFields, OtherTaskReader
<1>2. \A v \in Workers : CommitReader(v)'
  BY <1>0, CandFields, OtherCommitReader
<1>3. QED
  BY <1>1, <1>2 DEF TasksInv, TokensAreExclusive, SendersAreExclusive

\* The preparation waits for a commit that is being sent, and takes every other
\* row out of its reader's hands by advancing the token.
LEMMA PrepareErasureInv ==
  ASSUME TasksInv, PrepareErasure
  PROVE  TasksInv'
<1>0. TypeOK
  BY DEF TasksInv
<1>1. PICK t \in Tasks \ fenced :
        /\ task[t].status \notin {"absent", "processing"}
        /\ \A c \in CommitsOf(t) : ~CommitBusy(c)
        /\ fenced' = fenced \cup {t}
        /\ task' = [task EXCEPT ![t] =
              [@ EXCEPT !.status = "erasing", !.token = task[t].token + 1,
                        !.leased = FALSE]]
        /\ commit' = [c \in Claims |->
              IF c \in CommitsOf(t)
              THEN [commit[c] EXCEPT !.status = "erasing", !.token = @ + 1,
                                     !.leased = FALSE]
              ELSE commit[c]]
        /\ UNCHANGED <<receipt, inbox, pc, cand, crashes, sent, made>>
  BY DEF PrepareErasure
<1>2. \A s \in Tasks : task[s] \in TaskRow /\ task[s].token \in Nat /\ task[s].due \in Nat
  BY <1>0, TaskRowFields DEF TypeOK
<1>3. \A c \in Claims : commit[c] \in CommitRow /\ commit[c].token \in Nat /\ sent[c] \in Nat
  BY <1>0, CommitRowFields DEF TypeOK
<1> DEFINE n == task[t].token + 1
           row == [task[t] EXCEPT !.status = "erasing", !.token = n, !.leased = FALSE]
<1>4. /\ row \in TaskRow /\ row.status = "erasing" /\ row.token = n /\ row.leased = FALSE
  <2>1. n \in Nat /\ "erasing" \in TaskStatuses
    BY <1>2 DEF TaskStatuses
  <2> HIDE DEF n
  <2>2. QED
    BY <1>2, <2>1 DEF TaskRow
<1>5. /\ task' \in [Tasks -> TaskRow] /\ task'[t] = row
      /\ \A s \in Tasks \ {t} : task'[s] = task[s]
  <2>1. task' = [task EXCEPT ![t] = row]
    BY <1>1
  <2> HIDE DEF row
  <2>2. QED
    BY <1>0, <1>4, <2>1 DEF TypeOK
<1>6. ASSUME NEW c \in Claims
      PROVE  /\ commit'[c] \in CommitRow
             /\ c \notin CommitsOf(t) => commit'[c] = commit[c]
             /\ c \in CommitsOf(t) => /\ commit'[c].status = "erasing"
                                      /\ commit'[c].token = commit[c].token + 1
  <2>1. CASE c \in CommitsOf(t)
    <3> DEFINE k == commit[c].token + 1
    <3>1. k \in Nat /\ "erasing" \in CommitStatuses
      BY <1>3 DEF CommitStatuses
    <3>2. commit'[c] = [commit[c] EXCEPT !.status = "erasing", !.token = k,
                                         !.leased = FALSE]
      BY <1>1, <1>3, <2>1 DEF CommitRow
    <3>3. commit'[c] \in CommitRow /\ commit'[c].status = "erasing" /\ commit'[c].token = k
      <4> HIDE DEF k
      <4>1. QED
        BY <1>3, <3>1, <3>2 DEF CommitRow
    <3>4. QED
      BY <2>1, <3>3
  <2>2. CASE c \notin CommitsOf(t)
    BY <1>1, <1>3, <2>2
  <2>3. QED
    BY <2>1, <2>2
<1>7. TypeOK'
  <2>1. commit' \in [Claims -> CommitRow]
    BY <1>1, <1>6
  <2>2. QED
    BY <1>0, <1>1, <1>5, <2>1 DEF TypeOK
<1> HIDE DEF row
<1>8. \A s \in Tasks : TaskGrows(s)
  <2>1. TaskGrows(t)
    <3>1. row.token = task[t].token + 1
      BY <1>4
    <3>2. QED
      BY <1>2, <1>4, <1>5, <3>1 DEF TaskGrows
  <2>2. QED
    BY <1>0, <1>5, <2>1, SameGrows
<1>9. \A s \in Tasks : TaskInv(s)'
  BY <1>1, <1>4, <1>5 DEF TasksInv, TaskInv
<1>10. \A c \in Claims : CommitGrows(c)
  BY <1>0, <1>3, <1>6, SameGrows DEF CommitGrows
<1>11. \A c \in Claims : SenderKept(c)
  <2> SUFFICES ASSUME NEW c \in Claims, commit[c].status = "processing", c[1] \notin fenced
               PROVE  commit'[c] = commit[c] /\ sent'[c] = sent[c] /\ c[1] \notin fenced'
    BY DEF SenderKept
  <2>1. c[1] # t
    BY <1>1 DEF CommitsOf, CommitBusy
  <2>2. QED
    BY <1>1, <1>6, <2>1 DEF CommitsOf
<1>12. \A c \in Claims : CommitInv(c)'
  BY <1>1, <1>3, <1>6 DEF TasksInv, CommitInv, CommitsOf, DueCommits
<1>13. QED
  BY <1>1, <1>7, <1>8, <1>9, <1>10, <1>11, <1>12, ErasureStepInv

\* EraseTask keeps TasksInv.
LEMMA EraseTaskInv ==
  ASSUME TasksInv, EraseTask
  PROVE  TasksInv'
<1>0. TypeOK
  BY DEF TasksInv
<1>1. PICK t \in fenced :
        /\ task[t].status = "erasing"
        /\ task' = [task EXCEPT ![t] =
              [@ EXCEPT !.status = "cancelled", !.state = 0, !.leased = FALSE, !.due = 0]]
        /\ commit' = [c \in Claims |->
              IF c \in CommitsOf(t)
              THEN [commit[c] EXCEPT !.status = "cancelled", !.leased = FALSE]
              ELSE commit[c]]
        /\ UNCHANGED <<fenced, receipt, inbox, pc, cand, crashes, sent, made>>
  BY DEF EraseTask
<1>2. t \in Tasks /\ \A s \in Tasks : /\ task[s] \in TaskRow /\ task[s].token \in Nat
                                      /\ task[s].due \in Nat
  BY <1>0, TaskRowFields DEF TypeOK
<1>3. \A c \in Claims : commit[c] \in CommitRow /\ commit[c].token \in Nat /\ sent[c] \in Nat
  BY <1>0, CommitRowFields DEF TypeOK
<1>5. /\ task' \in [Tasks -> TaskRow]
      /\ task'[t].status = "cancelled" /\ task'[t].token = task[t].token
      /\ task'[t].leased = FALSE
      /\ \A s \in Tasks \ {t} : task'[s] = task[s]
  BY <1>0, <1>1, <1>2 DEF TypeOK, TaskRow, TaskStatuses
<1>6. ASSUME NEW c \in Claims
      PROVE  /\ commit'[c] \in CommitRow
             /\ c \notin CommitsOf(t) => commit'[c] = commit[c]
             /\ c \in CommitsOf(t) => /\ commit'[c].status = "cancelled"
                                      /\ commit'[c].token = commit[c].token
  <2>1. "cancelled" \in CommitStatuses
    BY DEF CommitStatuses
  <2>2. QED
    BY <1>1, <1>3, <2>1 DEF CommitRow
<1>7. TypeOK'
  <2>1. commit' \in [Claims -> CommitRow]
    BY <1>1, <1>6
  <2>2. QED
    BY <1>0, <1>1, <1>5, <2>1 DEF TypeOK
<1>8. \A s \in Tasks : TaskGrows(s)
  <2>1. TaskGrows(t)
    <3>1. t \in fenced'
      BY <1>1
    <3>2. QED
      BY <1>2, <1>5, <3>1 DEF TaskGrows
  <2>2. QED
    BY <1>0, <1>5, <2>1, SameGrows
<1>9. \A s \in Tasks : TaskInv(s)'
  BY <1>1, <1>5 DEF TasksInv, TaskInv
<1>10. \A c \in Claims : CommitGrows(c)
  <2> SUFFICES ASSUME NEW c \in CommitsOf(t), c \in Claims PROVE CommitGrows(c)
    BY <1>0, <1>6, SameGrows
  <2>1. commit[c].status \notin DueCommits
    BY <1>1 DEF TasksInv, CommitInv, CommitsOf, DueCommits
  <2>2. QED
    BY <1>3, <1>6, <2>1 DEF CommitGrows
<1>11. \A c \in Claims : SenderKept(c)
  BY <1>1, <1>6 DEF SenderKept, CommitsOf
<1>12. \A c \in Claims : CommitInv(c)'
  BY <1>1, <1>3, <1>6 DEF TasksInv, CommitInv, CommitsOf, DueCommits
<1>13. QED
  BY <1>1, <1>7, <1>8, <1>9, <1>10, <1>11, <1>12, ErasureStepInv

\* Every step keeps the inductive invariant.
LEMMA NextInv == TasksInv /\ [Next]_vars => TasksInv'
<1> SUFFICES ASSUME TasksInv, [Next]_vars PROVE TasksInv'
  OBVIOUS
<1>1. CASE UNCHANGED vars
  <2>1. UNCHANGED rowVars /\ UNCHANGED <<pc, cand, crashes>>
    BY <1>1 DEF vars, rowVars
  <2>2. TypeOK /\ TypeOK'
    BY <2>1 DEF TasksInv, TypeOK, rowVars
  <2>3. \A t \in Tasks : TaskGrows(t) /\ TaskInv(t)'
    BY <2>1, <2>2, SameGrows DEF TasksInv, TaskInv, rowVars
  <2>4. \A c \in Claims : CommitGrows(c) /\ CommitInv(c)' /\ SenderKept(c)
    BY <2>1, <2>2, SameGrows DEF TasksInv, CommitInv, SenderKept, rowVars
  <2>5. QED
    BY <2>1, <2>2, <2>3, <2>4, ErasureStepInv DEF rowVars
<1>2. ASSUME NEW w \in Workers, ExecuteTask(w) PROVE TasksInv'
  BY <1>2, ExecuteTaskInv DEF ExecuteTask, Executing
<1>3. ASSUME NEW w \in Workers, Work(w) PROVE TasksInv'
  BY <1>2, <1>3, InsertTaskInv, ResetTaskInv, ClaimTaskInv, CommitTaskResultInv,
     FailTaskInv, ClaimCommitInv, DeliverCommitInv, FinishCommitInv DEF Work
<1>4. ASSUME NEW w \in Workers, CrashWorker(w) PROVE TasksInv'
  BY <1>4, DoneInv DEF CrashWorker
<1>5. QED
  BY <1>1, <1>3, <1>4, SynchronizeTaskInv, ScanTaskInv, ScanCommitInv,
     PrepareErasureInv, EraseTaskInv DEF Next

\* The invariant holds in every reachable state.
LEMMA Invariance == Spec => []TasksInv
BY InitInv, NextInv, PTL DEF Spec

-----------------------------------------------------------------------------
(* The outbox *)

\* The commits a task has made are one for each result its state has absorbed.
OutboxOf(t) ==
    /\ Len(made[t]) = task[t].state
    /\ \A i \in DOMAIN made[t] :
          /\ made[t][i] \in Claims /\ made[t][i][1] = t
          /\ commit[made[t][i]].status # "absent"
          /\ \A j \in DOMAIN made[t] : made[t][i] = made[t][j] => i = j

OutboxInv == \A t \in Tasks \ fenced : OutboxOf(t)

\* Events are not taken back, so that no commit row disappears.
LEMMA InboxGrows ==
  ASSUME TasksInv, TasksInv', [Next]_vars
  PROVE  \A c \in Claims : commit[c].status # "absent" => commit'[c].status # "absent"
<1>1. inbox \subseteq inbox'
  BY DEF Next, Work, vars, rowVars, SynchronizeTask, ScanTask, ScanCommit, Take,
         InsertTask, ResetTask, ClaimTask, ExecuteTask, CommitTaskResult, InsertOutbox,
         Rollback, FailTask, ClaimCommit, DeliverCommit, FinishCommit, CrashWorker,
         PrepareErasure, EraseTask
<1>2. \A c \in Claims : /\ commit[c].status # "absent" <=> c \in inbox
                        /\ commit'[c].status # "absent" <=> c \in inbox'
  BY DEF TasksInv, CommitInv
<1>3. QED
  BY <1>1, <1>2

\* A result is stored by the holder of the lease, whose state is the row's.
LEMMA CommitTaskResultState ==
  ASSUME TasksInv, NEW w \in Workers, CommitTaskResult(w), ~UNCHANGED rowVars,
         NEW t \in Tasks
  PROVE  IF t = cand[w].task
         THEN LET c == <<t, cand[w].row.token + 1>> IN
              /\ task'[t].state = task[t].state + 1
              /\ made'[t] = Append(made[t], c)
              /\ c \in Claims /\ commit[c].status = "absent"
              /\ commit'[c].status # "absent"
         ELSE task'[t].state = task[t].state /\ made'[t] = made[t]
<1>0. /\ TypeOK /\ TaskReader(w) /\ task \in [Tasks -> TaskRow] /\ task[t] \in TaskRow
      /\ made \in [Tasks -> Seq(Claims)] /\ commit \in [Claims -> CommitRow]
      /\ cand[w].task \in Tasks
  BY CandFields DEF TasksInv, TypeOK
<1>1. /\ HoldsLease(w) /\ pc[w] = "result"
      /\ commit[<<cand[w].task, cand[w].row.token + 1>>].status = "absent"
      /\ InsertOutbox(cand[w].task, <<cand[w].task, cand[w].row.token + 1>>)
  BY DEF CommitTaskResult, Rollback
<1>2. PICK wake \in Wakes :
        task' = [s \in Tasks |->
            IF s = cand[w].task
            THEN [task[s] EXCEPT !.state = cand[w].row.state + 1, !.status = "ready",
                                 !.due = @ + 1, !.attempt = 0, !.leased = FALSE]
            ELSE IF s \in wake /\ RowWriteAllowed(s) /\ task[s].status # "absent"
            THEN [task[s] EXCEPT !.due = @ + 1]
            ELSE task[s]]
  BY DEF CommitTaskResult, Rollback
<1>3. CASE t = cand[w].task
  <2>1. cand[w].row.state = task[t].state
    BY <1>0, <1>1, <1>3 DEF TaskReader, HoldsLease, Executing
  <2>2. task'[t].state = cand[w].row.state + 1
    BY <1>0, <1>2, <1>3 DEF TaskRow
  <2>3. PICK c : c = <<t, cand[w].row.token + 1>>
    OBVIOUS
  <2>4. c \in Claims
    <3>1. cand[w].row.token \in Nat /\ cand[w].row.token < MaxToken
      BY <1>0, <1>1, CandFields, TaskRowFields DEF TaskReader, Executing
    <3>2. QED
      BY <2>3, <3>1, LimitsAssumption DEF Claims
  <2>5. /\ made' = [made EXCEPT ![t] = Append(made[t], c)]
        /\ commit' = [commit EXCEPT ![c] = NewCommit] /\ commit[c].status = "absent"
    BY <1>1, <1>3, <2>3 DEF InsertOutbox
  <2>6. made'[t] = Append(made[t], c) /\ commit'[c].status # "absent"
    BY <1>0, <2>4, <2>5 DEF NewCommit
  <2>7. QED
    BY <1>3, <2>1, <2>2, <2>3, <2>4, <2>5, <2>6
<1>4. CASE t # cand[w].task
  <2>1. task'[t].state = task[t].state
    BY <1>0, <1>2, <1>4 DEF TaskRow
  <2>2. made'[t] = made[t]
    BY <1>0, <1>1, <1>4 DEF InsertOutbox
  <2>3. QED
    BY <1>4, <2>1, <2>2
<1>5. QED
  BY <1>3, <1>4

\* What a step does to the state of a task that is not fenced, and to the
\* commits that were made of it.
LEMMA StateStep ==
  ASSUME TasksInv, [Next]_vars, NEW t \in Tasks, t \notin fenced
  PROVE  \/ task'[t].state = task[t].state /\ made'[t] = made[t]
         \/ /\ task'[t].state = 0 /\ task[t].status # "absent" /\ made'[t] = <<>>
            /\ task'[t].due > task[t].due
         \/ \E w \in Workers : /\ t = cand[w].task
                               /\ CommitTaskResult(w) /\ ~UNCHANGED rowVars
<1>0. /\ TypeOK /\ task \in [Tasks -> TaskRow] /\ task[t] \in TaskRow
      /\ task[t].due \in Nat /\ task[t].state \in Nat
      /\ made \in [Tasks -> Seq(Claims)]
  BY TaskRowFields DEF TasksInv, TypeOK
<1>1. CASE UNCHANGED <<task, made>>
  BY <1>1
<1>2. ASSUME NEW w \in Workers, InsertTask(w)
      PROVE  task'[t].state = task[t].state /\ made'[t] = made[t]
  <2>1. CASE task'[t] = task[t]
    BY <1>2, <2>1 DEF InsertTask
  <2>2. CASE task'[t] # task[t]
    <3>1. /\ task[t].status = "absent"
          /\ task'[t] = [status |-> "ready", version |-> Declared[w], state |-> 0,
                         attempt |-> 0, leased |-> FALSE, token |-> 0, due |-> 1]
      BY <1>0, <1>2, <2>2 DEF InsertTask
    <3>2. task[t].state = 0
      BY <3>1 DEF TasksInv, TaskInv
    <3>3. QED
      BY <1>2, <3>1, <3>2 DEF InsertTask
  <2>3. QED
    BY <2>1, <2>2
<1>3. ASSUME NEW w \in Workers, ResetTask(w)
      PROVE  \/ task'[t].state = task[t].state /\ made'[t] = made[t]
             \/ /\ task'[t].state = 0 /\ task[t].status # "absent" /\ made'[t] = <<>>
                /\ task'[t].due > task[t].due
  <2>1. CASE cand[w].task # t
    BY <1>0, <1>3, <2>1 DEF ResetTask
  <2>2. CASE cand[w].task = t
    <3>1. task'[t] = FreshRow(task[t], Declared[w]) /\ made'[t] = <<>>
      BY <1>0, <1>3, <2>2 DEF ResetTask, RowWriteAllowed
    <3>2. Declared[w] \in Nat
      BY DeclaredAssumption
    <3>3. /\ FreshRow(task[t], Declared[w]).state = 0
          /\ FreshRow(task[t], Declared[w]).due = task[t].due + 1
      BY <1>0, <3>2, FreshRowType
    <3>4. task[t].status # "absent"
      BY <1>3, <2>2 DEF TasksInv, TaskReader, ResetTask
    <3>5. QED
      BY <1>0, <3>1, <3>3, <3>4
  <2>3. QED
    BY <2>1, <2>2
<1>4. ASSUME NEW w \in Workers, ClaimTask(w)
      PROVE  task'[t].state = task[t].state /\ made'[t] = made[t]
  <2>1. CASE task'[t] = task[t]
    BY <1>4, <2>1 DEF ClaimTask
  <2>2. CASE task'[t] # task[t]
    <3>1. task'[t] = [task[t] EXCEPT !.status = "processing", !.leased = TRUE,
                                     !.token = cand[w].row.token + 1]
      BY <1>0, <1>4, <2>2 DEF ClaimTask
    <3>2. QED
      BY <1>0, <1>4, <3>1 DEF TaskRow, ClaimTask
  <2>3. QED
    BY <2>1, <2>2
<1>5. ASSUME NEW w \in Workers, CommitTaskResult(w)
      PROVE  \/ task'[t].state = task[t].state /\ made'[t] = made[t]
             \/ t = cand[w].task /\ ~UNCHANGED rowVars
  <2>1. CASE UNCHANGED rowVars
    BY <2>1 DEF rowVars
  <2>2. CASE ~UNCHANGED rowVars
    BY <1>5, <2>2, CommitTaskResultState
  <2>3. QED
    BY <2>1, <2>2
<1>6. ASSUME NEW w \in Workers, FailTask(w)
      PROVE  task'[t].state = task[t].state /\ made'[t] = made[t]
  <2>1. CASE task'[t] = task[t]
    BY <1>6, <2>1 DEF FailTask
  <2>2. CASE task'[t] # task[t]
    <3>1. PICK st, d, n : task'[t] = [task[t] EXCEPT !.status = st, !.due = d,
                                                     !.attempt = n, !.leased = FALSE]
      BY <1>0, <1>6, <2>2 DEF FailTask
    <3>2. QED
      BY <1>0, <1>6, <3>1 DEF TaskRow, FailTask
  <2>3. QED
    BY <2>1, <2>2
<1>7. ASSUME PrepareErasure PROVE task'[t].state = task[t].state /\ made'[t] = made[t]
  <2>1. CASE task'[t] = task[t]
    BY <1>7, <2>1 DEF PrepareErasure
  <2>2. CASE task'[t] # task[t]
    <3>1. task'[t] = [task[t] EXCEPT !.status = "erasing", !.token = task[t].token + 1,
                                     !.leased = FALSE]
      BY <1>0, <1>7, <2>2 DEF PrepareErasure
    <3>2. QED
      BY <1>0, <1>7, <3>1 DEF TaskRow, PrepareErasure
  <2>3. QED
    BY <2>1, <2>2
<1>8. ASSUME EraseTask PROVE task'[t] = task[t] /\ made'[t] = made[t]
  BY <1>0, <1>8 DEF EraseTask
<1>9. QED
  BY <1>1, <1>2, <1>3, <1>4, <1>5, <1>6, <1>7, <1>8
     DEF Next, Work, vars, rowVars, SynchronizeTask, ScanTask, ScanCommit, Take,
         ExecuteTask, ClaimCommit, DeliverCommit, FinishCommit, CrashWorker

\* Every step keeps the outbox in agreement with the state.
LEMMA OutboxNext ==
  ASSUME TasksInv, TasksInv', OutboxInv, [Next]_vars
  PROVE  OutboxInv'
<1> SUFFICES ASSUME NEW t \in Tasks, t \notin fenced' PROVE OutboxOf(t)'
  BY DEF OutboxInv
<1>1. t \notin fenced
  BY DEF Next, Work, vars, rowVars, SynchronizeTask, ScanTask, ScanCommit, Take,
         InsertTask, ResetTask, ClaimTask, ExecuteTask, CommitTaskResult,
         Rollback, FailTask, ClaimCommit, DeliverCommit, FinishCommit, CrashWorker,
         PrepareErasure, EraseTask
<1>2. OutboxOf(t)
  BY <1>1 DEF OutboxInv
<1>3. \A c \in Claims : commit[c].status # "absent" => commit'[c].status # "absent"
  BY InboxGrows
<1>4. CASE task'[t].state = task[t].state /\ made'[t] = made[t]
  BY <1>2, <1>3, <1>4 DEF OutboxOf
<1>5. CASE task'[t].state = 0 /\ made'[t] = <<>>
  BY <1>5 DEF OutboxOf
<1>6. ASSUME NEW w \in Workers, t = cand[w].task,
             CommitTaskResult(w), ~UNCHANGED rowVars
      PROVE  OutboxOf(t)'
  <2>1. PICK c : c = <<t, cand[w].row.token + 1>>
    OBVIOUS
  <2>2. /\ task'[t].state = task[t].state + 1
        /\ made'[t] = Append(made[t], c)
        /\ c \in Claims /\ commit[c].status = "absent"
        /\ commit'[c].status # "absent"
    BY <1>6, <2>1, CommitTaskResultState
  <2>3. PICK m \in Seq(Claims) : m = made[t]
    BY DEF TasksInv, TypeOK
  <2>4. /\ Len(m) \in Nat /\ Len(Append(m, c)) = Len(m) + 1
        /\ DOMAIN m = 1..Len(m) /\ DOMAIN Append(m, c) = 1..(Len(m) + 1)
        /\ Append(m, c)[Len(m) + 1] = c
        /\ \A i \in 1..Len(m) : Append(m, c)[i] = m[i]
    BY <2>2, <2>3
  <2>5. Len(made'[t]) = task'[t].state
    BY <1>2, <2>2, <2>3, <2>4 DEF OutboxOf
  <2>6. \A i \in 1..Len(m) : /\ m[i] \in Claims /\ m[i][1] = t /\ m[i] # c
                             /\ commit'[m[i]].status # "absent"
                             /\ \A j \in 1..Len(m) : m[i] = m[j] => i = j
    <3>1. \A i \in 1..Len(m) : /\ m[i] \in Claims /\ m[i][1] = t
                               /\ commit[m[i]].status # "absent"
                               /\ \A j \in 1..Len(m) : m[i] = m[j] => i = j
      BY <1>2, <2>3, <2>4 DEF OutboxOf
    <3>2. QED
      BY <1>3, <2>2, <3>1
  <2>7. c[1] = t
    BY <2>1
  <2>8. PICK a : a = Append(m, c)
    OBVIOUS
  <2>9. ASSUME NEW i \in 1..(Len(m) + 1)
        PROVE  /\ a[i] \in Claims /\ a[i][1] = t
               /\ commit'[a[i]].status # "absent"
               /\ \A j \in 1..(Len(m) + 1) : a[i] = a[j] => i = j
    <3>0. /\ a[Len(m) + 1] = c /\ \A j \in 1..Len(m) : a[j] = m[j]
          /\ \A j \in 1..(Len(m) + 1) : j \in 1..Len(m) \/ j = Len(m) + 1
      BY <2>4, <2>8
    <3>1. CASE i = Len(m) + 1
      BY <2>2, <2>6, <2>7, <3>0, <3>1
    <3>2. CASE i \in 1..Len(m)
      BY <2>6, <3>0, <3>2
    <3>3. QED
      BY <3>0, <3>1, <3>2
  <2>10. made'[t] = a /\ DOMAIN a = 1..(Len(m) + 1)
    BY <2>2, <2>3, <2>4, <2>8
  <2>11. QED
    BY <2>5, <2>9, <2>10 DEF OutboxOf
<1>7. QED
  BY <1>1, <1>4, <1>5, <1>6, StateStep

\* The outbox agrees with the state in every reachable state.
LEMMA OutboxInvariance == Spec => []OutboxInv
<1>1. Init => OutboxInv
  BY DEF Init, OutboxInv, OutboxOf, NoTask
<1>2. TasksInv /\ TasksInv' /\ OutboxInv /\ [Next]_vars => OutboxInv'
  BY OutboxNext
<1>3. QED
  BY <1>1, <1>2, Invariance, PTL DEF Spec

-----------------------------------------------------------------------------
(* Theorems *)

\* Every variable keeps its type.
THEOREM TypeCorrect == Spec => []TypeOK
<1>1. TasksInv => TypeOK
  BY DEF TasksInv
<1>2. QED
  BY <1>1, Invariance, PTL

\* A lease's holder computes from the state the row has: claimProviderTask's
\* comparison of token, status and due_at lets no reset slip in between.
THEOREM HoldersAreCurrent == Spec => []ExecutesCurrentState
<1>1. TasksInv => ExecutesCurrentState
  <2> SUFFICES ASSUME TasksInv, NEW w \in Workers, pc[w] \in Executing, HoldsLease(w)
               PROVE  LET row == task[cand[w].task] IN
                      /\ row.status = "processing"
                      /\ row.version = cand[w].row.version
                      /\ row.state = cand[w].row.state
    BY DEF ExecutesCurrentState, Executing
  <2>1. TypeOK /\ TaskReader(w) /\ cand[w].task \in Tasks
    BY CandFields DEF TasksInv
  <2>2. TaskInv(cand[w].task)
    BY <2>1 DEF TasksInv
  <2>3. QED
    BY <2>1, <2>2 DEF TaskReader, TaskInv, HoldsLease
<1>2. QED
  BY <1>1, Invariance, PTL

\* The fencing token keeps two replicas, whose lease_owner is the same, from
\* holding one task's lease together.
THEOREM LeasesAreExclusive == Spec => []OneLeaseHolder
<1>1. TasksInv => OneLeaseHolder
  <2> SUFFICES ASSUME TasksInv, NEW v \in Workers, NEW w \in Workers, v # w,
                      cand[v].task = cand[w].task, pc[v] \in Executing, pc[w] \in Executing,
                      HoldsLease(v), HoldsLease(w)
               PROVE  FALSE
    BY DEF OneLeaseHolder, Executing
  <2>1. cand[v].row.token \in Nat /\ cand[w].row.token \in Nat
    BY CandFields, TaskRowFields DEF TasksInv
  <2>2. cand[v].row.token = cand[w].row.token
    BY <2>1 DEF HoldsLease
  <2>3. QED
    BY <2>2 DEF TasksInv, TokensAreExclusive
<1>2. QED
  BY <1>1, Invariance, PTL

\* commitProviderTaskResult's transaction under its lease check: one commit, with
\* its events, for each result the task's state has absorbed since it was started
\* afresh, through lost leases, resets and crashes.
THEOREM OutboxIsTransactional == Spec => []OutboxFollowsState
<1>1. TasksInv /\ OutboxInv => OutboxFollowsState
  BY DEF TasksInv, CommitInv, OutboxInv, OutboxOf, OutboxFollowsState
<1>2. QED
  BY <1>1, Invariance, OutboxInvariance, PTL

\* A commit is sent at most AttemptLimit times, and every send that failed is
\* counted.
THEOREM SendsAreCounted == Spec => []DeliveriesAreCounted
<1>1. TasksInv => DeliveriesAreCounted
  BY DEF TasksInv, CommitInv, DeliveriesAreCounted
<1>2. QED
  BY <1>1, Invariance, PTL

\* Within a state version no result is lost or applied twice.
THEOREM ResultsApplyOnce == Spec => StateAdvancesByOne
<1>1. ASSUME TasksInv, [Next]_vars
      PROVE  [\A t \in Tasks :
                task'[t].version = task[t].version /\ t \notin fenced =>
                    \/ task'[t].state \in {task[t].state, task[t].state + 1}
                    \/ task'[t].state = 0 /\ task'[t].due > task[t].due]_vars
  <2> SUFFICES ASSUME NEW t \in Tasks, t \notin fenced
               PROVE  \/ task'[t].state \in {task[t].state, task[t].state + 1}
                      \/ task'[t].state = 0 /\ task'[t].due > task[t].due
    OBVIOUS
  <2>1. ASSUME NEW w \in Workers, t = cand[w].task,
               CommitTaskResult(w), ~UNCHANGED rowVars
        PROVE  task'[t].state = task[t].state + 1
    BY <1>1, <2>1, CommitTaskResultState
  <2>2. QED
    BY <1>1, <2>1, StateStep
<1>2. QED
  BY <1>1, Invariance, PTL DEF Spec, StateAdvancesByOne

\* After PrepareSubjectErasure only the erasure writes a task and its commits,
\* and none of its commits is sent.
THEOREM FencedTasksKept == Spec => FrozenTasksStayFrozen
<1>1. ASSUME TasksInv, [Next]_vars
      PROVE  [\A t \in fenced :
                /\ task'[t] = task[t] \/ task'[t].status = "cancelled"
                /\ \A c \in Claims : c[1] = t =>
                      /\ commit'[c] = commit[c] \/ commit'[c].status = "cancelled"
                      /\ sent'[c] = sent[c]]_vars
  <2> SUFFICES ASSUME NEW t \in fenced
               PROVE  /\ task'[t] = task[t] \/ task'[t].status = "cancelled"
                      /\ \A c \in Claims : c[1] = t =>
                            /\ commit'[c] = commit[c] \/ commit'[c].status = "cancelled"
                            /\ sent'[c] = sent[c]
    OBVIOUS
  <2>0. /\ TypeOK /\ task \in [Tasks -> TaskRow] /\ commit \in [Claims -> CommitRow]
        /\ sent \in [Claims -> Nat] /\ t \in Tasks
    BY <1>1 DEF TasksInv, TypeOK
  <2>1. ASSUME NEW w \in Workers, Work(w)
        PROVE  task'[t] = task[t]
    <3>1. CASE InsertTask(w)
      <4>1. task[t].status # "absent"
        BY <1>1, <2>0 DEF TasksInv, TaskInv
      <4>2. QED
        BY <2>0, <3>1, <4>1 DEF InsertTask
    <3>2. CASE ResetTask(w)
      BY <2>0, <3>2 DEF ResetTask, RowWriteAllowed
    <3>3. CASE ClaimTask(w)
      BY <2>0, <3>3 DEF ClaimTask, RowWriteAllowed
    <3>4. CASE CommitTaskResult(w)
      BY <2>0, <3>4 DEF CommitTaskResult, Rollback, HoldsLease, RowWriteAllowed, rowVars
    <3>5. CASE FailTask(w)
      BY <2>0, <3>5 DEF FailTask, HoldsLease, RowWriteAllowed
    <3>6. QED
      BY <2>1, <3>1, <3>2, <3>3, <3>4, <3>5
         DEF Work, ExecuteTask, ClaimCommit, DeliverCommit, FinishCommit, rowVars
  <2>2. ASSUME NEW w \in Workers, Work(w), NEW c \in Claims, c[1] = t
        PROVE  commit'[c] = commit[c] /\ sent'[c] = sent[c]
    <3>1. CASE CommitTaskResult(w)
      <4>1. CASE UNCHANGED rowVars
        BY <4>1 DEF rowVars
      <4>2. CASE ~UNCHANGED rowVars
        <5>1. /\ HoldsLease(w) /\ sent' = sent
              /\ \E new : commit' =
                    [commit EXCEPT ![<<cand[w].task, cand[w].row.token + 1>>] = new]
          BY <3>1, <4>2 DEF CommitTaskResult, InsertOutbox, Rollback
        <5>2. cand[w].task # t
          BY <5>1 DEF HoldsLease, RowWriteAllowed
        <5>3. c # <<cand[w].task, cand[w].row.token + 1>>
          BY <2>2, <5>2
        <5>4. QED
          BY <2>0, <5>1, <5>3
      <4>3. QED
        BY <4>1, <4>2
    <3>2. CASE ClaimCommit(w)
      BY <2>0, <2>2, <3>2 DEF ClaimCommit, RowWriteAllowed
    <3>3. CASE DeliverCommit(w)
      <4>1. cand[w].claim[1] # t
        BY <1>1, <3>3 DEF TasksInv, CommitReader, DeliverCommit, Sending, Answered
      <4>2. QED
        BY <2>0, <2>2, <3>3, <4>1 DEF DeliverCommit
    <3>4. CASE FinishCommit(w)
      <4>1. cand[w].claim[1] # t
        BY <1>1, <3>4 DEF TasksInv, CommitReader, FinishCommit, Sending, Answered
      <4>2. QED
        BY <2>0, <2>2, <3>4, <4>1 DEF FinishCommit
    <3>5. QED
      BY <2>2, <3>1, <3>2, <3>3, <3>4
         DEF Work, InsertTask, ResetTask, ClaimTask, ExecuteTask, FailTask, rowVars
  <2>3. CASE PrepareErasure
    <3>1. PICK s \in Tasks \ fenced :
            /\ \A r \in Tasks \ {s} : task'[r] = task[r]
            /\ \A c \in Claims : c \notin CommitsOf(s) => commit'[c] = commit[c]
            /\ sent' = sent
      BY <2>0, <2>3 DEF PrepareErasure
    <3>2. \A c \in Claims : c[1] = t => c \notin CommitsOf(s)
      BY <3>1 DEF CommitsOf
    <3>3. QED
      BY <2>0, <3>1, <3>2
  <2>4. CASE EraseTask
    <3>1. PICK s \in fenced :
            /\ task' = [task EXCEPT ![s] =
                 [@ EXCEPT !.status = "cancelled", !.state = 0, !.leased = FALSE, !.due = 0]]
            /\ commit' = [c \in Claims |->
                 IF c \in CommitsOf(s)
                 THEN [commit[c] EXCEPT !.status = "cancelled", !.leased = FALSE]
                 ELSE commit[c]]
            /\ sent' = sent
      BY <2>4 DEF EraseTask
    <3>2. task'[t] = task[t] \/ task'[t].status = "cancelled"
      BY <2>0, <3>1 DEF TaskRow
    <3>3. \A c \in Claims : commit'[c] = commit[c] \/ commit'[c].status = "cancelled"
      BY <2>0, <3>1 DEF CommitRow
    <3>4. QED
      BY <3>1, <3>2, <3>3
  <2>5. QED
    BY <1>1, <2>1, <2>2, <2>3, <2>4
       DEF Next, vars, rowVars, SynchronizeTask, ScanTask, ScanCommit, Take, CrashWorker
<1>2. QED
  BY <1>1, Invariance, PTL DEF Spec, FrozenTasksStayFrozen

=============================================================================
