----------------------- MODULE PersonalRecordsProofs -----------------------
(***************************************************************************)
(* What PersonalRecords promises, for every set of users, bundles, rows,   *)
(* requests and processes. The inductive invariant RecordsInv says of a    *)
(* row, of an open transaction and of a saved plan what the statements of  *)
(* the others rely on: a frozen row is fenced, a fence outlives its row,   *)
(* and on the one-connection host a guard that has passed still stands     *)
(* when its statement runs.                                                *)
(***************************************************************************)
EXTENDS PersonalRecords, AccessScopeProofs, TLAPS

\* A row of its table. An external subject is bound at most once.
RowInv(k) ==
    /\ ~Exists(k) => rows[k] = NoRow
    /\ rows[k].status = "erasing" => <<"row", k>> \in fences
    /\ k \in IdentityKeys /\ Exists(k) =>
          /\ rows[k].ref \in Externals
          /\ \A other \in IdentityKeys \ {k} : rows[other].ref # rows[k].ref

\* An open transaction. The row that an internal caller of web push found as
\* its own is its own still, unless an erasure has fenced it since.
CallInv(t) ==
    /\ t.op \in PushOps => t.slot \in PushIds
    /\ t.op = "cleanup_push" => t.ids \subseteq PushIds
    /\ t.op = "create_key" => t.slot \in ApiKeys
    /\ t.op = "upsert_identity" => t.slot \in IdentityKeys /\ t.input.ref \in Externals
    /\ t.op \in {"upsert_webhook", "delete_webhook"} => t.slot \in WebhookKeys
    /\ t.op \in {"disable", "rotate_key"} => t.slot \in Slots \ PushIds
    /\ t.op \in {"upsert_push", "create_key", "upsert_identity", "upsert_webhook"} =>
          t.input.status = "active"
    /\ t.op \in ManagedOps => t.caller \in Managers
    /\ t.op = "create_key" => t.ids = {}
    /\ t.op = "revoke_push" => t.ids # {}
    /\ t.op \in PushOps /\ t.ids # {} /\ ~Scoped(t.caller) /\ RowWriteAllowed(t.slot) =>
          Exists(t.slot) /\ rows[t.slot].owner = Actor(t.caller)

\* What a guard has found, on the one-connection host.
GuardStands(t) ==
    /\ t.op = "upsert_push" => <<"subject", Actor(t.caller)>> \notin fences
    /\ t.op \in {"create_key", "upsert_identity"} => <<"subject", t.input.spelled>> \notin fences
    /\ t.op = "upsert_identity" => <<"external", t.input.ref>> \notin fences

\* A saved plan, its fences and its answers.
ReceiptInv(q) ==
    /\ receipt[q].plan = None => ~receipt[q].done /\ told[q] = {}
    /\ receipt[q].plan # None =>
          FencesOf(receipt[q].plan) \subseteq fences /\ told[q] = {receipt[q].plan}

\* The rows of a subject in erasure, and those that hold a fenced external
\* subject, on the one-connection host.
SubjectInv(q) ==
    receipt[q].plan # None =>
        \A k \in Slots \ WebhookKeys : rows[k].owner = receipt[q].plan.subject =>
            \/ rows[k].status = "erasing" /\ ~receipt[q].done /\ k \in receipt[q].plan.rows
            \/ rows[k].spelled # receipt[q].plan.subject

ExternalInv(k) == <<"external", rows[k].ref>> \in fences => rows[k].status = "erasing"

RecordsInv ==
    /\ TypeOK
    /\ \A k \in Slots : RowInv(k)
    /\ \A p \in Procs : CallInv(call[p])
    /\ \A q \in Requests : ReceiptInv(q)
    /\ host = "one" =>
          /\ \A p \in Procs : GuardStands(call[p])
          /\ \A q \in Requests : SubjectInv(q)
          /\ \A k \in IdentityKeys : ExternalInv(k)

-----------------------------------------------------------------------------
(* Types *)

\* A caller acts for a user.
LEMMA ActorType ==
  ASSUME NEW c \in Callers
  PROVE  Actor(c) \in Users
<1>1. CASE c \in {"scoped"} \X {b \in Bundles : Authorized(b)}
  BY <1>1, NamesAssumption DEF Actor, Scoped
<1>2. CASE c \in {"internal"} \X Users
  BY <1>2 DEF Actor, Scoped
<1>3. QED
  BY <1>1, <1>2 DEF Callers

\* The columns of a row.
LEMMA RowFields ==
  ASSUME NEW row \in Rows
  PROVE  /\ row.status \in Statuses
         /\ row.owner \in Users \cup {None} /\ row.spelled \in Spellings \cup {None}
         /\ row.ref \in Endpoints \cup Externals \cup Connections \cup {None}
         /\ row.expiry \in {"never", "later", "passed"}
BY DEF Rows

\* The missing row is of its type.
LEMMA NoRowType == NoRow \in Rows
BY DEF NoRow, Rows, Statuses

\* A status is written over what a row is.
LEMMA StatusWritten ==
  ASSUME NEW row \in Rows, NEW st \in Statuses
  PROVE  /\ [row EXCEPT !.status = st] \in Rows
         /\ [row EXCEPT !.status = st].status = st
         /\ [row EXCEPT !.status = st].owner = row.owner
         /\ [row EXCEPT !.status = st].spelled = row.spelled
         /\ [row EXCEPT !.status = st].ref = row.ref
         /\ [row EXCEPT !.status = st].expiry = row.expiry
BY DEF Rows

\* A transaction that has an operation is open.
LEMMA OpenCall ==
  ASSUME TypeOK, NEW p \in Procs, call[p].op # "idle"
  PROVE  /\ call[p] \in Calls /\ call[p].caller \in Callers
         /\ call[p].slot \in Slots \cup {None} /\ call[p].input \in Rows
         /\ call[p].ids \in SUBSET Slots
BY DEF TypeOK, Calls, Idle

\* The invariant holds initially.
LEMMA InitInv == Init => RecordsInv
<1> SUFFICES ASSUME Init PROVE RecordsInv
  OBVIOUS
<1>1. /\ rows \in [Slots -> Rows]
      /\ \A k \in Slots : /\ rows[k].status = "absent" => rows[k] = NoRow
                         /\ rows[k].status # "erasing"
      /\ \A k \in IdentityKeys : rows[k].status # "absent" =>
            /\ rows[k].ref \in Externals
            /\ \A other \in IdentityKeys \ {k} : rows[other].ref # rows[k].ref
  BY InitialRowsAssumption DEF Init
<1>2. TypeOK
  <2>1. NoReceipt \in [plan : Plans \cup {None}, done : BOOLEAN]
    BY DEF NoReceipt
  <2>2. 0 \in 0..MaxWrites
    BY BoundAssumption
  <2>3. QED
    BY <1>1, <2>1, <2>2 DEF Init, TypeOK
<1>3. \A k \in Slots : RowInv(k)
  BY <1>1 DEF RowInv, Exists
<1>4. \A p \in Procs : CallInv(call[p]) /\ GuardStands(call[p])
  BY DEF Init, Idle, CallInv, GuardStands, PushOps, ManagedOps
<1>5. \A q \in Requests : ReceiptInv(q) /\ SubjectInv(q)
  BY DEF Init, NoReceipt, ReceiptInv, SubjectInv
<1>6. \A k \in IdentityKeys : ExternalInv(k)
  BY DEF Init, ExternalInv
<1>7. QED
  BY <1>2, <1>3, <1>4, <1>5, <1>6 DEF RecordsInv

-----------------------------------------------------------------------------
(* Kinds of steps *)

\* What an open transaction has read stays true while nothing touches the rows
\* of web push that no erasure has fenced.
OwnersKept ==
    \A k \in PushIds : RowWriteAllowed(k)' =>
        /\ RowWriteAllowed(k)
        /\ Exists(k) => Exists(k)' /\ rows'[k].owner = rows[k].owner

\* A transaction that a step leaves alone keeps what it relies on.
LEMMA CallKept ==
  ASSUME NEW t, CallInv(t), OwnersKept
  PROVE  CallInv(t)'
BY DEF CallInv, OwnersKept, Scoped, Actor, Managers, Callers

\* The first half of a transaction writes nothing.
LEMMA BeginInv ==
  ASSUME RecordsInv, NEW p \in Procs, MayBegin(p),
         NEW c \in Callers, NEW op \in PushOps \cup ManagedOps, NEW k \in Slots \cup {None},
         NEW input \in Rows, NEW ids \in SUBSET Slots, Begin(p, c, op, k, input, ids),
         NEW t, t = [op |-> op, caller |-> c, slot |-> k, input |-> input, ids |-> ids],
         CallInv(t), host = "one" => GuardStands(t)
  PROVE  RecordsInv'
<1>1. t \in Calls
  BY DEF Calls
<1>2. /\ UNCHANGED <<host, rows, fences, receipt, told>>
      /\ call' = [call EXCEPT ![p] = t] /\ writes' = writes + 1
  BY DEF Begin
<1>3. TypeOK'
  BY <1>1, <1>2, BoundAssumption DEF RecordsInv, TypeOK, MayBegin
<1>4. OwnersKept
  BY <1>2 DEF OwnersKept, RowWriteAllowed, Exists
<1>5. ASSUME NEW r \in Procs PROVE CallInv(call[r])' /\ (host' = "one" => GuardStands(call[r])')
  <2>1. PICK s : s = call'[r]
    OBVIOUS
  <2>2. CallInv(s) /\ (host = "one" => GuardStands(s))
    BY <1>2, <2>1 DEF RecordsInv, TypeOK
  <2>3. CallInv(s)'
    BY <1>4, <2>2, CallKept
  <2>4. host' = "one" => GuardStands(s)'
    BY <1>2, <2>2 DEF GuardStands, Actor, Scoped
  <2>5. QED
    BY <2>1, <2>3, <2>4 DEF CallInv, GuardStands, RowWriteAllowed, Exists
<1>6. (\A j \in Slots : RowInv(j)') /\ (\A q \in Requests : ReceiptInv(q)')
  BY <1>2 DEF RecordsInv, RowInv, ReceiptInv, Exists
<1>7. host' = "one" => (\A q \in Requests : SubjectInv(q)')
                       /\ (\A j \in IdentityKeys : ExternalInv(j)')
  BY <1>2 DEF RecordsInv, SubjectInv, ExternalInv
<1>8. QED
  BY <1>3, <1>5, <1>6, <1>7 DEF RecordsInv

\* A statement leaves a row alone, or writes a whole one: it keeps the owner of
\* a web push row, respects the unique key of the external subjects, and what
\* it writes for a user or an external subject has passed a guard, or was there
\* before in a row that is not fenced.
SlotWrite(k) ==
    \/ rows'[k] = rows[k]
    \/ /\ rows'[k].status # "erasing"
       /\ rows'[k].status = "absent" => rows'[k] = NoRow
       /\ k \in PushIds /\ Exists(k) =>
             rows'[k].owner = rows[k].owner /\ rows'[k].status # "absent"
       /\ k \in IdentityKeys =>
             /\ rows'[k].ref \in Externals
             /\ \A other \in IdentityKeys \ {k} : rows'[other].ref # rows'[k].ref
       /\ host = "one" /\ k \notin WebhookKeys =>
             \/ <<"subject", rows'[k].spelled>> \notin fences
             \/ /\ rows'[k].owner = rows[k].owner /\ rows'[k].spelled = rows[k].spelled
                /\ RowWriteAllowed(k)
       /\ host = "one" /\ k \in IdentityKeys =>
             \/ <<"external", rows'[k].ref>> \notin fences
             \/ rows'[k].ref = rows[k].ref /\ RowWriteAllowed(k)

\* The second half of a transaction.
LEMMA CommitInv ==
  ASSUME RecordsInv, NEW p \in Procs, NEW new \in [Slots -> Rows], Commit(p, new),
         \A k \in Slots : SlotWrite(k)
  PROVE  RecordsInv'
<1>1. /\ UNCHANGED <<host, fences, receipt, told, writes>>
      /\ rows' = new /\ call' = [call EXCEPT ![p] = Idle]
  BY DEF Commit
<1>2. TypeOK'
  BY <1>1 DEF RecordsInv, TypeOK
<1>3. OwnersKept
  <2> SUFFICES ASSUME NEW k \in PushIds
               PROVE  Exists(k) => Exists(k)' /\ rows'[k].owner = rows[k].owner
    BY <1>1 DEF OwnersKept, RowWriteAllowed
  <2>1. k \in Slots
    BY DEF Slots
  <2>2. SlotWrite(k)
    BY <2>1
  <2>3. QED
    BY <2>2 DEF SlotWrite, Exists
<1>4. ASSUME NEW r \in Procs PROVE CallInv(call[r])' /\ (host' = "one" => GuardStands(call[r])')
  <2>1. PICK s : s = call'[r]
    OBVIOUS
  <2>2. s = call[r] \/ s = Idle
    BY <1>1, <2>1 DEF RecordsInv, TypeOK
  <2>3. CallInv(s) /\ (host = "one" => GuardStands(s))
    <3>1. CASE s = call[r]
      BY <3>1 DEF RecordsInv
    <3>2. CASE s = Idle
      BY <3>2 DEF Idle, CallInv, GuardStands, PushOps, ManagedOps
    <3>3. QED
      BY <2>2, <3>1, <3>2
  <2>4. CallInv(s)'
    BY <1>3, <2>3, CallKept
  <2>5. host' = "one" => GuardStands(s)'
    BY <1>1, <2>3 DEF GuardStands, Actor, Scoped
  <2>6. QED
    BY <2>1, <2>4, <2>5 DEF CallInv, GuardStands, RowWriteAllowed, Exists
<1>5. ASSUME NEW k \in Slots PROVE RowInv(k)'
  <2>1. SlotWrite(k) /\ RowInv(k)
    BY DEF RecordsInv
  <2>2. rows'[k].status = "absent" => rows'[k] = NoRow
    BY <2>1 DEF SlotWrite, RowInv, Exists
  <2>3. rows'[k].status = "erasing" => <<"row", k>> \in fences'
    BY <1>1, <2>1 DEF SlotWrite, RowInv
  <2>4. ASSUME k \in IdentityKeys, rows'[k].status # "absent"
        PROVE  /\ rows'[k].ref \in Externals
               /\ \A other \in IdentityKeys \ {k} : rows'[other].ref # rows'[k].ref
    <3>1. CASE rows'[k] # rows[k]
      BY <2>1, <2>4, <3>1 DEF SlotWrite
    <3>2. CASE rows'[k] = rows[k]
      <4>1. /\ rows[k].ref \in Externals
            /\ \A other \in IdentityKeys \ {k} : rows[other].ref # rows[k].ref
        BY <2>1, <2>4, <3>2 DEF RowInv, Exists
      <4>2. ASSUME NEW other \in IdentityKeys \ {k}
            PROVE  rows'[other].ref # rows'[k].ref
        <5>1. other \in Slots /\ SlotWrite(other)
          BY DEF Slots
        <5>2. CASE rows'[other] = rows[other]
          BY <3>2, <4>1, <5>2
        <5>3. CASE rows'[other] # rows[other]
          BY <2>4, <5>1, <5>3 DEF SlotWrite
        <5>4. QED
          BY <5>2, <5>3
      <4>3. QED
        BY <3>2, <4>1, <4>2
    <3>3. QED
      BY <3>1, <3>2
  <2>5. QED
    BY <2>2, <2>3, <2>4 DEF RowInv, Exists
<1>6. \A q \in Requests : ReceiptInv(q)'
  BY <1>1 DEF RecordsInv, ReceiptInv
<1>7. ASSUME host' = "one", NEW q \in Requests PROVE SubjectInv(q)'
  <2> SUFFICES ASSUME receipt[q].plan # None, NEW k \in Slots \ WebhookKeys,
                      rows'[k].owner = receipt[q].plan.subject,
                      rows'[k].spelled = receipt[q].plan.subject
               PROVE  rows'[k].status = "erasing" /\ ~receipt[q].done
                      /\ k \in receipt[q].plan.rows
    BY <1>1 DEF SubjectInv
  <2>1. SubjectInv(q) /\ ReceiptInv(q) /\ SlotWrite(k)
    BY <1>1, <1>7 DEF RecordsInv
  <2>2. /\ <<"subject", receipt[q].plan.subject>> \in fences
        /\ k \in receipt[q].plan.rows => <<"row", k>> \in fences
    BY <2>1 DEF ReceiptInv, FencesOf
  <2>3. rows'[k] = rows[k]
    BY <1>1, <1>7, <2>1, <2>2 DEF SlotWrite, SubjectInv, RowWriteAllowed
  <2>4. QED
    BY <2>1, <2>3 DEF SubjectInv
<1>8. ASSUME host' = "one", NEW k \in IdentityKeys PROVE ExternalInv(k)'
  <2>1. k \in Slots
    BY DEF Slots
  <2>2. ExternalInv(k) /\ SlotWrite(k) /\ RowInv(k)
    BY <1>1, <1>8, <2>1 DEF RecordsInv
  <2>3. QED
    BY <1>1, <1>8, <2>2 DEF ExternalInv, SlotWrite, RowInv, RowWriteAllowed
<1>9. QED
  BY <1>2, <1>4, <1>5, <1>6, <1>7, <1>8 DEF RecordsInv

\* The clock: an expiry passes.
LEMMA ExpiryInv ==
  ASSUME RecordsInv, NEW k \in PushIds, ExpiryPasses(k)
  PROVE  RecordsInv'
<1>1. /\ UNCHANGED <<host, fences, receipt, call, told, writes>>
      /\ rows' = [rows EXCEPT ![k].expiry = "passed"] /\ rows[k].expiry = "later"
  BY DEF ExpiryPasses
<1>2. k \in Slots /\ rows \in [Slots -> Rows] /\ rows[k] \in Rows
  BY DEF RecordsInv, TypeOK, Slots
<1>3. /\ rows' \in [Slots -> Rows]
      /\ \A j \in Slots : /\ rows'[j].status = rows[j].status
                          /\ rows'[j].owner = rows[j].owner
                          /\ rows'[j].spelled = rows[j].spelled
                          /\ rows'[j].ref = rows[j].ref
                          /\ j # k => rows'[j] = rows[j]
  <2> DEFINE row == [rows[k] EXCEPT !.expiry = "passed"]
  <2>1. /\ row \in Rows /\ row.status = rows[k].status
        /\ row.owner = rows[k].owner /\ row.ref = rows[k].ref
        /\ row.spelled = rows[k].spelled
    BY <1>2 DEF Rows
  <2>2. rows' = [rows EXCEPT ![k] = row]
    BY <1>1
  <2> HIDE DEF row
  <2>3. QED
    BY <1>2, <2>1, <2>2
<1>4. rows[k].status # "absent"
  <2>1. RowInv(k)
    BY <1>2 DEF RecordsInv
  <2>2. NoRow.expiry = "never"
    BY DEF NoRow
  <2>3. QED
    BY <1>1, <2>1, <2>2 DEF RowInv, Exists
<1>5. OwnersKept
  BY <1>1, <1>3 DEF OwnersKept, RowWriteAllowed, Exists, Slots
<1>6. TypeOK'
  BY <1>1, <1>3 DEF RecordsInv, TypeOK
<1>7. ASSUME NEW j \in Slots PROVE RowInv(j)'
  <2>1. j \in IdentityKeys => \A other \in IdentityKeys : other \in Slots
    BY DEF Slots
  <2>2. RowInv(j)
    BY DEF RecordsInv
  <2>3. QED
    BY <1>1, <1>3, <1>4, <2>1, <2>2 DEF RowInv, Exists
<1>8. ASSUME NEW r \in Procs PROVE CallInv(call[r])' /\ (host' = "one" => GuardStands(call[r])')
  <2>1. PICK s : s = call[r] /\ s = call'[r]
    BY <1>1
  <2>2. CallInv(s)'
    BY <1>5, <2>1, CallKept DEF RecordsInv
  <2>3. host' = "one" => GuardStands(s)'
    BY <1>1, <2>1 DEF RecordsInv, GuardStands, Actor, Scoped
  <2>4. QED
    BY <2>1, <2>2, <2>3 DEF CallInv, GuardStands, RowWriteAllowed, Exists
<1>9. \A q \in Requests : ReceiptInv(q)'
  BY <1>1 DEF RecordsInv, ReceiptInv
<1>10. host' = "one" => (\A q \in Requests : SubjectInv(q)')
                        /\ (\A j \in IdentityKeys : ExternalInv(j)')
  BY <1>1, <1>3 DEF RecordsInv, SubjectInv, ExternalInv, Slots
<1>11. QED
  BY <1>6, <1>7, <1>8, <1>9, <1>10 DEF RecordsInv

-----------------------------------------------------------------------------
(* The erasure *)

\* A plan that is collected is one, and covers the subject's rows.
LEMMA CollectType ==
  ASSUME RecordsInv, NEW q \in Requests, NEW u \in Users, NEW v \in Provenances
  PROVE  /\ Collect(q, u, v) \in Plans
         /\ Collect(q, u, v).subject = u
         /\ Collect(q, u, v).request = q
         /\ Collect(q, u, v).provenance = v
         /\ \A k \in Slots : k \in Collect(q, u, v).rows <=> BelongsTo(k, u)
         /\ \A k \in Slots \ WebhookKeys : rows[k].owner = u => k \in Collect(q, u, v).rows
         /\ \A x \in Collect(q, u, v).externals :
               \E k \in IdentityKeys : BelongsTo(k, u) /\ rows[k].ref = x
<1>1. BoundTo(u) \subseteq Externals
  BY DEF RecordsInv, RowInv, BoundTo, BelongsTo, Slots
<1>2. Collect(q, u, v) \in Plans
  BY <1>1 DEF Collect, Plans
<1>3. ASSUME NEW k \in Slots \ WebhookKeys, rows[k].owner = u PROVE BelongsTo(k, u)
  <2>1. RowInv(k) /\ NoRow.owner = None /\ u # None
    BY NamesAssumption, SpellingsAssumption DEF RecordsInv, NoRow
  <2>2. QED
    BY <1>3, <2>1 DEF BelongsTo, RowInv
<1>4. \A x \in BoundTo(u) : \E k \in IdentityKeys : BelongsTo(k, u) /\ rows[k].ref = x
  BY DEF BoundTo
<1>5. QED
  BY <1>2, <1>3, <1>4 DEF Collect

\* The fences of a plan.
LEMMA PlanFences ==
  ASSUME NEW plan \in Plans
  PROVE  /\ FencesOf(plan) \subseteq {"subject"} \X Users \cup {"external"} \X Externals
                                        \cup {"row"} \X Slots
         /\ <<"subject", plan.subject>> \in FencesOf(plan)
         /\ \A k : <<"row", k>> \in FencesOf(plan) <=> k \in plan.rows
         /\ \A x : <<"external", x>> \in FencesOf(plan) <=> x \in plan.externals
         /\ plan # None
BY NamesAssumption DEF FencesOf, Plans

\* The first preparation of a request fences and freezes what it collects.
LEMMA PrepareInv ==
  ASSUME RecordsInv, NEW q \in Requests, NEW u \in Users, NEW v \in Provenances,
         PrepareSubjectErasure(q, u, v)
  PROVE  RecordsInv'
<1>t. /\ rows \in [Slots -> Rows] /\ told \in [Requests -> SUBSET Plans]
      /\ receipt \in [Requests -> [plan : Plans \cup {None}, done : BOOLEAN]]
      /\ receipt[q] \in [plan : Plans \cup {None}, done : BOOLEAN]
  BY DEF RecordsInv, TypeOK
<1>u. UNCHANGED <<host, call, writes>>
  BY DEF PrepareSubjectErasure
<1>1. CASE receipt[q].plan # None
  <2>1. UNCHANGED <<rows, fences, receipt>> /\ told' = [told EXCEPT ![q] = @ \cup {receipt[q].plan}]
    BY <1>1 DEF PrepareSubjectErasure, PlanOf
  <2>2. told' = told
    <3>1. told[q] = {receipt[q].plan}
      BY <1>1 DEF RecordsInv, ReceiptInv
    <3>2. QED
      BY <1>t, <2>1, <3>1
  <2>3. QED
    BY <1>u, <2>1, <2>2
       DEF RecordsInv, TypeOK, RowInv, CallInv, GuardStands, ReceiptInv, SubjectInv,
           ExternalInv, Exists, RowWriteAllowed
<1>2. CASE receipt[q].plan = None
  <2> DEFINE plan == Collect(q, u, v)
  <2>1. /\ told' = [told EXCEPT ![q] = @ \cup {plan}]
        /\ fences' = fences \cup FencesOf(plan)
        /\ rows' = [k \in Slots |-> IF k \in plan.rows
                                    THEN [rows[k] EXCEPT !.status = "erasing"]
                                    ELSE rows[k]]
        /\ receipt' = [receipt EXCEPT ![q].plan = plan]
        /\ HostAdmits
    BY <1>2 DEF PrepareSubjectErasure, PlanOf
  <2>2. /\ plan \in Plans /\ plan.subject = u
        /\ \A k \in Slots : k \in plan.rows <=> BelongsTo(k, u)
        /\ \A k \in Slots \ WebhookKeys : rows[k].owner = u => k \in plan.rows
        /\ \A x \in plan.externals :
              \E k \in IdentityKeys : BelongsTo(k, u) /\ rows[k].ref = x
    BY CollectType
  <2> HIDE DEF plan
  <2>3. /\ FencesOf(plan) \subseteq {"subject"} \X Users \cup {"external"} \X Externals
                                        \cup {"row"} \X Slots
        /\ \A k : <<"row", k>> \in FencesOf(plan) <=> k \in plan.rows
        /\ \A x : <<"external", x>> \in FencesOf(plan) <=> x \in plan.externals
        /\ plan # None
    BY <2>2, PlanFences
  <2>4. ASSUME NEW k \in Slots
        PROVE  /\ rows'[k] \in Rows
               /\ rows'[k].owner = rows[k].owner /\ rows'[k].ref = rows[k].ref
               /\ rows'[k].spelled = rows[k].spelled
               /\ k \in plan.rows => rows'[k].status = "erasing" /\ rows[k].status # "absent"
               /\ k \notin plan.rows => rows'[k] = rows[k]
    <3>1. rows[k] \in Rows
      BY <1>t
    <3>2. k \in plan.rows => rows[k].status # "absent"
      BY <2>2 DEF BelongsTo, Exists
    <3>3. QED
      BY <2>1, <3>1, <3>2, StatusWritten DEF Statuses
  <2>5. /\ receipt' \in [Requests -> [plan : Plans \cup {None}, done : BOOLEAN]]
        /\ receipt'[q].plan = plan /\ receipt'[q].done = receipt[q].done
        /\ \A r \in Requests \ {q} : receipt'[r] = receipt[r]
    BY <1>t, <2>1, <2>2
  <2>6. ~receipt[q].done /\ told[q] = {}
    BY <1>2 DEF RecordsInv, ReceiptInv
  <2>7. /\ told' \in [Requests -> SUBSET Plans] /\ told'[q] = {plan}
        /\ \A r \in Requests \ {q} : told'[r] = told[r]
    BY <1>t, <2>1, <2>2, <2>6
  <2>8. rows' \in [Slots -> Rows]
    <3>1. rows' = [k \in Slots |-> rows'[k]]
      BY <2>1
    <3>2. QED
      BY <2>4, <3>1
  <2>9. TypeOK'
    BY <1>u, <2>1, <2>3, <2>5, <2>7, <2>8 DEF RecordsInv, TypeOK
  <2>10. ASSUME NEW k \in Slots PROVE RowInv(k)'
    <3>1. RowInv(k) /\ \A other \in IdentityKeys : other \in Slots
      BY DEF RecordsInv, Slots
    <3>2. Exists(k)' <=> Exists(k)
      BY <2>4 DEF Exists
    <3>3. ~Exists(k)' => rows'[k] = NoRow
      BY <2>4, <3>1, <3>2 DEF RowInv, Exists
    <3>4. rows'[k].status = "erasing" => <<"row", k>> \in fences'
      BY <2>1, <2>3, <2>4, <3>1 DEF RowInv
    <3>5. k \in IdentityKeys /\ Exists(k)' =>
             /\ rows'[k].ref \in Externals
             /\ \A other \in IdentityKeys \ {k} : rows'[other].ref # rows'[k].ref
      BY <2>4, <3>1, <3>2 DEF RowInv
    <3>6. QED
      BY <3>3, <3>4, <3>5 DEF RowInv
  <2>11. OwnersKept
    <3> SUFFICES ASSUME NEW k \in PushIds, RowWriteAllowed(k)'
                 PROVE  /\ RowWriteAllowed(k)
                        /\ Exists(k) => Exists(k)' /\ rows'[k].owner = rows[k].owner
      BY DEF OwnersKept
    <3>1. k \in Slots
      BY DEF Slots
    <3>2. QED
      BY <2>1, <2>4, <3>1 DEF RowWriteAllowed, Exists
  <2>12. ASSUME NEW p \in Procs
         PROVE  CallInv(call[p])' /\ (host' = "one" => GuardStands(call[p])')
    <3>1. PICK s : s = call[p] /\ s = call'[p]
      BY <1>u
    <3>2. CallInv(s)'
      BY <2>11, <3>1, CallKept DEF RecordsInv
    <3>3. host' = "one" => s = Idle
      BY <1>u, <2>1, <3>1 DEF HostAdmits, Quiet
    <3>4. s = Idle => GuardStands(s)'
      BY DEF Idle, GuardStands
    <3>5. QED
      BY <3>1, <3>2, <3>3, <3>4 DEF CallInv, GuardStands, RowWriteAllowed, Exists
  <2>13. ASSUME NEW r \in Requests PROVE ReceiptInv(r)'
    <3>1. CASE r = q
      BY <2>1, <2>3, <2>5, <2>7, <3>1 DEF ReceiptInv
    <3>2. CASE r # q
      <4>1. ReceiptInv(r)
        BY DEF RecordsInv
      <4>2. QED
        BY <2>1, <2>5, <2>7, <3>2, <4>1 DEF ReceiptInv
    <3>3. QED
      BY <3>1, <3>2
  <2>14. ASSUME host' = "one", NEW r \in Requests PROVE SubjectInv(r)'
    <3>1. CASE r = q
      BY <2>2, <2>4, <2>5, <2>6, <3>1 DEF SubjectInv
    <3>2. CASE r # q
      <4>1. SubjectInv(r)
        BY <1>u, <2>14 DEF RecordsInv
      <4>2. QED
        BY <2>4, <2>5, <3>2, <4>1 DEF SubjectInv
    <3>3. QED
      BY <3>1, <3>2
  <2>15. ASSUME host' = "one", NEW k \in IdentityKeys PROVE ExternalInv(k)'
    <3> SUFFICES ASSUME <<"external", rows'[k].ref>> \in fences'
                 PROVE  rows'[k].status = "erasing"
      BY DEF ExternalInv
    <3>1. k \in Slots /\ ExternalInv(k)
      BY <1>u, <2>15 DEF RecordsInv, Slots
    <3>2. CASE <<"external", rows[k].ref>> \in fences
      BY <2>4, <3>1, <3>2 DEF ExternalInv
    <3>3. CASE rows[k].ref \in plan.externals
      <4>1. PICK j \in IdentityKeys : BelongsTo(j, u) /\ rows[j].ref = rows[k].ref
        BY <2>2, <3>3
      <4>2. j \in Slots /\ RowInv(j) /\ Exists(j)
        BY <4>1 DEF Slots, RecordsInv, BelongsTo
      <4>3. j = k
        BY <4>1, <4>2 DEF RowInv
      <4>4. QED
        BY <2>2, <2>4, <3>1, <4>1, <4>3
    <3>4. QED
      BY <2>1, <2>3, <2>4, <3>1, <3>2, <3>3
  <2>16. QED
    BY <2>9, <2>10, <2>12, <2>13, <2>14, <2>15 DEF RecordsInv
<1>3. QED
  BY <1>1, <1>2

\* The execution of a saved plan removes its rows; fences and answers stay.
LEMMA EraseInv ==
  ASSUME RecordsInv, NEW q \in Requests, NEW plan \in Plans, ErasePreparedSubject(q, plan)
  PROVE  RecordsInv'
<1>1. /\ UNCHANGED <<host, fences, call, told, writes>>
      /\ receipt[q].plan = plan
      /\ rows' = [k \in Slots |-> IF k \in plan.rows THEN Erased(k) ELSE rows[k]]
      /\ receipt' = [receipt EXCEPT ![q].done = TRUE]
  BY DEF ErasePreparedSubject
<1>t. /\ rows \in [Slots -> Rows]
      /\ receipt \in [Requests -> [plan : Plans \cup {None}, done : BOOLEAN]]
      /\ receipt[q] \in [plan : Plans \cup {None}, done : BOOLEAN]
  BY DEF RecordsInv, TypeOK
<1>2. /\ receipt' \in [Requests -> [plan : Plans \cup {None}, done : BOOLEAN]]
      /\ receipt'[q].plan = plan /\ receipt'[q].done = TRUE
      /\ \A r \in Requests \ {q} : receipt'[r] = receipt[r]
  BY <1>1, <1>t
<1>e. plan # None
  BY NamesAssumption
<1>3. FencesOf(plan) \subseteq fences /\ told[q] = {plan}
  BY <1>1, <1>e DEF RecordsInv, ReceiptInv
<1>4. ASSUME NEW k \in Slots
      PROVE  /\ rows'[k] \in Rows
             /\ \/ rows'[k] = rows[k]
                \/ rows'[k] = NoRow /\ k \in plan.rows
                \/ /\ k \in WebhookKeys /\ rows'[k].owner = rows[k].owner
                   /\ rows'[k].ref = rows[k].ref /\ rows'[k].status = "disabled"
             /\ k \in plan.rows \ WebhookKeys => rows'[k] = NoRow
  <2>1. rows[k] \in Rows
    BY <1>t
  <2>2. /\ [rows[k] EXCEPT !.status = "disabled"] \in Rows
        /\ [rows[k] EXCEPT !.status = "disabled"].status = "disabled"
        /\ [rows[k] EXCEPT !.status = "disabled"].owner = rows[k].owner
        /\ [rows[k] EXCEPT !.status = "disabled"].ref = rows[k].ref
    BY <2>1, StatusWritten DEF Statuses
  <2>3. rows'[k] = IF k \in plan.rows THEN Erased(k) ELSE rows[k]
    BY <1>1
  <2>4. QED
    BY <2>1, <2>2, <2>3, NoRowType DEF Erased
<1>5. rows' \in [Slots -> Rows]
  <2>1. rows' = [k \in Slots |-> rows'[k]]
    BY <1>1
  <2>2. QED
    BY <1>4, <2>1
<1>6. TypeOK'
  BY <1>1, <1>2, <1>5 DEF RecordsInv, TypeOK
<1>n. NoRow.owner = None /\ NoRow.ref = None /\ NoRow.status = "absent"
  BY DEF NoRow
<1>7. ASSUME NEW k \in Slots PROVE RowInv(k)'
  <2>1. RowInv(k) /\ (k \in IdentityKeys => k \notin WebhookKeys)
    BY SlotsAssumption DEF RecordsInv
  <2>2. ~Exists(k)' => rows'[k] = NoRow
    BY <1>4, <2>1 DEF RowInv, Exists
  <2>3. rows'[k].status = "erasing" => <<"row", k>> \in fences'
    BY <1>1, <1>4, <1>n, <2>1 DEF RowInv
  <2>4. ASSUME k \in IdentityKeys, Exists(k)'
        PROVE  /\ rows'[k].ref \in Externals
               /\ \A other \in IdentityKeys \ {k} : rows'[other].ref # rows'[k].ref
    <3>1. rows'[k] = rows[k] /\ Exists(k)
      BY <1>4, <1>n, <2>1, <2>4 DEF Exists
    <3>2. /\ rows[k].ref \in Externals
          /\ \A other \in IdentityKeys \ {k} : rows[other].ref # rows[k].ref
      BY <2>1, <2>4, <3>1 DEF RowInv
    <3>3. ASSUME NEW other \in IdentityKeys \ {k} PROVE rows'[other].ref # rows'[k].ref
      <4>1. other \in Slots /\ other \notin WebhookKeys
        BY SlotsAssumption DEF Slots
      <4>2. rows'[other].ref \in {rows[other].ref, None}
        BY <1>4, <1>n, <4>1
      <4>3. QED
        BY <3>1, <3>2, <4>2, NamesAssumption
    <3>4. QED
      BY <3>1, <3>2, <3>3
  <2>5. QED
    BY <2>2, <2>3, <2>4 DEF RowInv
<1>8. OwnersKept
  <2> SUFFICES ASSUME NEW k \in PushIds, RowWriteAllowed(k)'
               PROVE  /\ RowWriteAllowed(k)
                      /\ Exists(k) => Exists(k)' /\ rows'[k].owner = rows[k].owner
    BY DEF OwnersKept
  <2>1. k \in Slots /\ k \notin WebhookKeys
    BY SlotsAssumption DEF Slots
  <2>2. k \notin plan.rows
    BY <1>1, <1>3 DEF FencesOf, RowWriteAllowed
  <2>3. rows'[k] = rows[k]
    BY <1>4, <2>1, <2>2
  <2>4. QED
    BY <1>1, <2>3 DEF RowWriteAllowed, Exists
<1>9. ASSUME NEW p \in Procs
      PROVE  CallInv(call[p])' /\ (host' = "one" => GuardStands(call[p])')
  <2>1. PICK s : s = call[p] /\ s = call'[p]
    BY <1>1
  <2>2. CallInv(s)'
    BY <1>8, <2>1, CallKept DEF RecordsInv
  <2>3. host' = "one" => GuardStands(s)'
    BY <1>1, <2>1 DEF RecordsInv, GuardStands, Actor, Scoped
  <2>4. QED
    BY <2>1, <2>2, <2>3 DEF CallInv, GuardStands, RowWriteAllowed, Exists
<1>10. ASSUME NEW r \in Requests PROVE ReceiptInv(r)'
  <2>1. ReceiptInv(r)
    BY DEF RecordsInv
  <2>2. QED
    BY <1>1, <1>2, <1>3, <1>e, <2>1 DEF ReceiptInv
<1>11. ASSUME host' = "one", NEW r \in Requests PROVE SubjectInv(r)'
  <2> SUFFICES ASSUME receipt'[r].plan # None, NEW k \in Slots \ WebhookKeys,
                      rows'[k].owner = receipt'[r].plan.subject,
                      rows'[k].spelled = receipt'[r].plan.subject
               PROVE  rows'[k].status = "erasing" /\ ~receipt'[r].done
                      /\ k \in receipt'[r].plan.rows
    BY DEF SubjectInv
  <2>1. SubjectInv(r) /\ receipt'[r].plan = receipt[r].plan
    BY <1>1, <1>2, <1>11 DEF RecordsInv
  <2>2. receipt[r].plan.subject # None
    BY <1>t, <2>1, NamesAssumption, SpellingsAssumption DEF Plans
  <2>3. rows'[k] = rows[k]
    BY <1>4, <1>n, <2>1, <2>2
  <2>4. rows[k].status = "erasing" /\ ~receipt[r].done /\ k \in receipt[r].plan.rows
    BY <2>1, <2>3 DEF SubjectInv
  <2>5. r # q
    BY <1>1, <1>4, <1>n, <2>1, <2>2, <2>4
  <2>6. QED
    BY <1>2, <2>1, <2>3, <2>4, <2>5
<1>12. ASSUME host' = "one", NEW k \in IdentityKeys PROVE ExternalInv(k)'
  <2>1. k \in Slots /\ ExternalInv(k) /\ k \notin WebhookKeys
    BY <1>1, <1>12, SlotsAssumption DEF RecordsInv, Slots
  <2>2. <<"external", None>> \notin fences
    BY NamesAssumption DEF RecordsInv, TypeOK
  <2>3. QED
    BY <1>1, <1>4, <1>n, <2>1, <2>2 DEF ExternalInv
<1>13. QED
  BY <1>6, <1>7, <1>9, <1>10, <1>11, <1>12 DEF RecordsInv

-----------------------------------------------------------------------------
(* The writes *)

\* What a statement may write to one slot.
WriteOk(k, row) ==
    /\ row.status # "erasing"
    /\ row.status = "absent" => row = NoRow
    /\ k \in PushIds /\ Exists(k) => row.owner = rows[k].owner /\ row.status # "absent"
    /\ k \in IdentityKeys => row.ref \in Externals /\ RefFree(k, IdentityKeys, row.ref)
    /\ host = "one" /\ k \notin WebhookKeys =>
          \/ <<"subject", row.spelled>> \notin fences
          \/ row.owner = rows[k].owner /\ row.spelled = rows[k].spelled /\ RowWriteAllowed(k)
    /\ host = "one" /\ k \in IdentityKeys =>
          \/ <<"external", row.ref>> \notin fences
          \/ row.ref = rows[k].ref /\ RowWriteAllowed(k)

\* A transaction that writes one row.
LEMMA SlotCommit ==
  ASSUME RecordsInv, NEW p \in Procs, NEW k \in Slots, NEW row \in Rows,
         Commit(p, [rows EXCEPT ![k] = row]), WriteOk(k, row)
  PROVE  RecordsInv'
<1>1. rows \in [Slots -> Rows]
  BY DEF RecordsInv, TypeOK
<1>2. rows' = [rows EXCEPT ![k] = row]
  BY DEF Commit
<1>3. rows'[k] = row /\ \A j \in Slots \ {k} : rows'[j] = rows[j]
  BY <1>1, <1>2
<1>4. SlotWrite(k)
  <2>1. \A other \in IdentityKeys : other \in Slots
    BY DEF Slots
  <2>2. QED
    BY <1>3, <2>1 DEF SlotWrite, WriteOk, RefFree
<1>5. \A j \in Slots : SlotWrite(j)
  BY <1>3, <1>4 DEF SlotWrite
<1>6. [rows EXCEPT ![k] = row] \in [Slots -> Rows]
  BY <1>1
<1>7. QED
  BY <1>5, <1>6, CommitInv

\* An update that keeps owner and reference is in order on a row that is not
\* fenced.
LEMMA UpdateOk ==
  ASSUME RecordsInv, NEW k \in Slots, Exists(k), RowWriteAllowed(k), NEW row \in Rows,
         row.owner = rows[k].owner, row.spelled = rows[k].spelled, row.ref = rows[k].ref,
         row.status \notin {"absent", "erasing"}
  PROVE  WriteOk(k, row)
<1>1. RowInv(k)
  BY DEF RecordsInv
<1>2. QED
  BY <1>1 DEF RowInv, WriteOk, RefFree

\* StorePush keeps RecordsInv.
LEMMA StorePushInv ==
  ASSUME RecordsInv, NEW p \in Procs, StorePush(p)
  PROVE  RecordsInv'
<1> DEFINE t == call[p]
           o == IF t.ids = {} THEN Actor(t.caller) ELSE rows[t.slot].owner
           w == IF t.ids = {} THEN Actor(t.caller) ELSE rows[t.slot].spelled
           row == [t.input EXCEPT !.owner = o, !.spelled = w]
<1>1. /\ t.op = "upsert_push" /\ t.slot \in PushIds /\ t.slot \in Slots
      /\ t.input \in Rows /\ t.input.status = "active" /\ t.caller \in Callers
      /\ rows[t.slot] \in Rows
      /\ host = "one" => <<"subject", Actor(t.caller)>> \notin fences
  <2>1. t.op = "upsert_push"
    BY DEF StorePush
  <2>2. CallInv(t) /\ (host = "one" => GuardStands(t))
    BY DEF RecordsInv
  <2>3. QED
    BY <2>1, <2>2, OpenCall DEF RecordsInv, TypeOK, CallInv, GuardStands, PushOps, Slots
<1>2. /\ RefFree(t.slot, PushIds, t.input.ref)
      /\ IF t.ids = {} THEN ~Exists(t.slot) ELSE Updatable(t.caller, t.slot)
      /\ Commit(p, [rows EXCEPT ![t.slot] = row])
  BY DEF StorePush
<1>3. o \in Users \cup {None} /\ w \in Spellings \cup {None}
  BY <1>1, ActorType, RowFields, SpellingsAssumption
<1>4. row \in Rows /\ row.status = "active" /\ row.owner = o /\ row.spelled = w
  <2> HIDE DEF o, w
  <2>1. QED
    BY <1>1, <1>3 DEF Rows
<1>5. WriteOk(t.slot, row)
  <2>1. t.slot \notin IdentityKeys
    BY <1>1, SlotsAssumption
  <2>2. Exists(t.slot) => /\ o = rows[t.slot].owner /\ w = rows[t.slot].spelled
                          /\ RowWriteAllowed(t.slot)
    BY <1>2 DEF Updatable
  <2>3. ~Exists(t.slot) => w = Actor(t.caller)
    BY <1>2 DEF Updatable, Finds
  <2>4. QED
    BY <1>1, <1>4, <2>1, <2>2, <2>3 DEF WriteOk
<1> HIDE DEF row
<1>6. QED
  BY <1>1, <1>2, <1>4, <1>5, SlotCommit

\* A transaction that changes the status of one row.
LEMMA StatusCommit ==
  ASSUME RecordsInv, NEW p \in Procs, NEW k \in Slots, NEW c, Updatable(c, k),
         NEW st \in Statuses \ {"absent", "erasing"},
         Commit(p, [rows EXCEPT ![k].status = st])
  PROVE  RecordsInv'
<1> DEFINE row == [rows[k] EXCEPT !.status = st]
<1>1. rows[k] \in Rows
  BY DEF RecordsInv, TypeOK
<1>2. /\ row \in Rows /\ row.status = st /\ row.owner = rows[k].owner
      /\ row.spelled = rows[k].spelled /\ row.ref = rows[k].ref
  BY <1>1, StatusWritten
<1>3. Commit(p, [rows EXCEPT ![k] = row])
  OBVIOUS
<1> HIDE DEF row
<1>4. WriteOk(k, row)
  BY <1>2, UpdateOk DEF Updatable, Finds
<1>5. QED
  BY <1>2, <1>3, <1>4, SlotCommit

\* StoreRevocation keeps RecordsInv.
LEMMA StoreRevocationInv ==
  ASSUME RecordsInv, NEW p \in Procs, StoreRevocation(p)
  PROVE  RecordsInv'
<1>1. CallInv(call[p]) /\ call[p].op = "revoke_push"
  BY DEF RecordsInv, StoreRevocation
<1>2. call[p].slot \in Slots
  BY <1>1 DEF CallInv, PushOps, Slots
<1>3. QED
  BY <1>2, StatusCommit DEF StoreRevocation, Statuses

\* StoreStatus keeps RecordsInv.
LEMMA StoreStatusInv ==
  ASSUME RecordsInv, NEW p \in Procs, StoreStatus(p)
  PROVE  RecordsInv'
<1> DEFINE st == IF call[p].op = "disable" THEN "disabled" ELSE "active"
<1>1. CallInv(call[p]) /\ call[p].op \in {"disable", "rotate_key"}
  BY DEF RecordsInv, StoreStatus
<1>2. call[p].slot \in Slots /\ Updatable(call[p].caller, call[p].slot)
  BY <1>1 DEF CallInv, StoreStatus
<1>3. Commit(p, [rows EXCEPT ![call[p].slot].status = st])
  BY DEF StoreStatus
<1>4. st \in Statuses \ {"absent", "erasing"}
  BY DEF Statuses
<1> HIDE DEF st
<1>5. QED
  BY <1>2, <1>3, <1>4, StatusCommit

\* StoreManaged keeps RecordsInv.
LEMMA StoreManagedInv ==
  ASSUME RecordsInv, NEW p \in Procs, StoreManaged(p)
  PROVE  RecordsInv'
<1> DEFINE t == call[p]
<1>0. CallInv(t) /\ (host = "one" => GuardStands(t))
  BY DEF RecordsInv
<1>1. /\ t.op \in {"create_key", "upsert_identity", "upsert_webhook"}
      /\ t.slot \in IdentityKeys => RefFree(t.slot, IdentityKeys, t.input.ref)
      /\ Commit(p, [rows EXCEPT ![t.slot] = t.input])
  BY DEF StoreManaged
<1>2. t.input \in Rows /\ t.input.status = "active" /\ t.slot \in Slots
  BY <1>0, <1>1, OpenCall DEF RecordsInv, CallInv, Slots
<1>3. t.slot \notin PushIds
  BY <1>0, <1>1, SlotsAssumption DEF CallInv
<1>4. t.slot \in IdentityKeys => t.op = "upsert_identity" /\ t.input.ref \in Externals
  BY <1>0, <1>1, SlotsAssumption DEF CallInv
<1>5. t.slot \notin WebhookKeys => t.op \in {"create_key", "upsert_identity"}
  BY <1>0, <1>1 DEF CallInv
<1>6. WriteOk(t.slot, t.input)
  BY <1>0, <1>1, <1>2, <1>3, <1>4, <1>5 DEF WriteOk, GuardStands
<1>7. QED
  BY <1>1, <1>2, <1>6, SlotCommit

\* StoreDeletion keeps RecordsInv.
LEMMA StoreDeletionInv ==
  ASSUME RecordsInv, NEW p \in Procs, StoreDeletion(p)
  PROVE  RecordsInv'
<1>1. CallInv(call[p]) /\ call[p].op = "delete_webhook"
  BY DEF RecordsInv, StoreDeletion
<1>2. call[p].slot \in WebhookKeys /\ call[p].slot \in Slots
  BY <1>1 DEF CallInv, Slots
<1>3. WriteOk(call[p].slot, NoRow)
  BY <1>2, SlotsAssumption DEF WriteOk, NoRow
<1>4. QED
  BY <1>2, <1>3, NoRowType, SlotCommit DEF StoreDeletion

\* StoreCleanup keeps RecordsInv.
LEMMA StoreCleanupInv ==
  ASSUME RecordsInv, NEW p \in Procs, StoreCleanup(p)
  PROVE  RecordsInv'
<1> DEFINE t == call[p]
           updated == {k \in t.ids : ExpiredPush(k) /\ RowWriteAllowed(k)}
           new == [k \in Slots |-> IF k \in updated
                                   THEN [rows[k] EXCEPT !.status = "expired"]
                                   ELSE rows[k]]
<1>1. t.op = "cleanup_push" /\ Commit(p, new)
  BY DEF StoreCleanup
<1>2. CallInv(t)
  BY DEF RecordsInv
<1>3. updated \subseteq PushIds
  BY <1>1, <1>2 DEF CallInv
<1>4. ASSUME NEW k \in Slots
      PROVE  /\ new[k] \in Rows
             /\ \/ new[k] = rows[k]
                \/ /\ k \in PushIds /\ RowWriteAllowed(k) /\ new[k].status = "expired"
                   /\ new[k].owner = rows[k].owner /\ new[k].spelled = rows[k].spelled
  <2>1. rows[k] \in Rows
    BY DEF RecordsInv, TypeOK
  <2>2. /\ [rows[k] EXCEPT !.status = "expired"] \in Rows
        /\ [rows[k] EXCEPT !.status = "expired"].status = "expired"
        /\ [rows[k] EXCEPT !.status = "expired"].owner = rows[k].owner
        /\ [rows[k] EXCEPT !.status = "expired"].spelled = rows[k].spelled
    BY <2>1, StatusWritten DEF Statuses
  <2>3. QED
    BY <1>3, <2>1, <2>2
<1>5. new \in [Slots -> Rows]
  BY <1>4
<1>6. rows' = new
  BY <1>1 DEF Commit
<1> HIDE DEF new, updated
<1>7. ASSUME NEW k \in Slots PROVE SlotWrite(k)
  BY <1>4, <1>6, SlotsAssumption DEF SlotWrite
<1>8. QED
  BY <1>1, <1>5, <1>7, CommitInv

\* A transaction that writes nothing keeps RecordsInv.
LEMMA RollbackInv ==
  ASSUME RecordsInv, NEW p \in Procs, Rollback(p)
  PROVE  RecordsInv'
<1>1. Commit(p, rows) /\ rows \in [Slots -> Rows]
  BY DEF Rollback, RecordsInv, TypeOK
<1>2. \A k \in Slots : SlotWrite(k)
  BY <1>1 DEF Commit, SlotWrite
<1>3. QED
  BY <1>1, <1>2, CommitInv

-----------------------------------------------------------------------------
(* The lookups *)

\* Inputs are rows of their types.
LEMMA InputTypes ==
  /\ PushInputs \subseteq Rows /\ WebhookInputs \subseteq Rows
  /\ \A row \in PushInputs \cup WebhookInputs : row.status = "active"
BY DEF PushInputs, WebhookInputs, Rows, Statuses

\* The row of a request, trimmed.
LEMMA OwnedByType ==
  ASSUME NEW raw \in Spellings, NEW ref \in Externals \cup {None}
  PROVE  /\ OwnedBy(raw, ref) \in Rows
         /\ OwnedBy(raw, ref).status = "active"
         /\ OwnedBy(raw, ref).spelled = raw
         /\ OwnedBy(raw, ref).ref = ref
<1>1. Trim[raw] \in Users
  BY SpellingsAssumption
<1>2. QED
  BY <1>1 DEF OwnedBy, NoRow, Rows, Statuses

\* BeginPush keeps RecordsInv.
LEMMA BeginPushInv ==
  ASSUME RecordsInv, NEW p \in Procs, MayBegin(p), NEW c \in Callers, BeginPush(p, c)
  PROVE  RecordsInv'
<1>1. PICK k \in PushIds :
        RevokePush(p, c, k) \/ \E row \in PushInputs : UpsertPush(p, c, k, row)
  BY DEF BeginPush
<1>2. k \in Slots
  BY DEF Slots
<1>3. CASE RevokePush(p, c, k)
  <2>1. PICK t : t = [op |-> "revoke_push", caller |-> c, slot |-> k, input |-> NoRow,
                      ids |-> {k}]
    OBVIOUS
  <2>2. Exists(k) /\ (~Scoped(c) => rows[k].owner = Actor(c))
    BY <1>3 DEF RevokePush, Finds
  <2>3. CallInv(t) /\ GuardStands(t)
    BY <2>1, <2>2 DEF CallInv, GuardStands, ManagedOps
  <2>4. Begin(p, c, "revoke_push", k, NoRow, {k})
    BY <1>3 DEF RevokePush
  <2>5. QED
    BY <1>2, <2>1, <2>3, <2>4, NoRowType, BeginInv DEF PushOps
<1>4. ASSUME NEW row \in PushInputs, UpsertPush(p, c, k, row) PROVE RecordsInv'
  <2>1. PICK t : t = [op |-> "upsert_push", caller |-> c, slot |-> k, input |-> row,
                      ids |-> FoundIds(c, k)]
    OBVIOUS
  <2>2. /\ <<"subject", Actor(c)>> \notin fences
        /\ FoundIds(c, k) # {} /\ ~Scoped(c) => Exists(k) /\ rows[k].owner = Actor(c)
        /\ Begin(p, c, "upsert_push", k, row, FoundIds(c, k))
        /\ FoundIds(c, k) \in SUBSET Slots
    BY <1>2, <1>4 DEF UpsertPush, GuardSubjectWrite, FoundIds, Finds
  <2>3. row \in Rows /\ row.status = "active"
    BY InputTypes
  <2>4. CallInv(t) /\ GuardStands(t)
    BY <2>1, <2>2, <2>3 DEF CallInv, GuardStands, ManagedOps
  <2>5. QED
    BY <1>2, <2>1, <2>2, <2>3, <2>4, BeginInv DEF PushOps
<1>5. QED
  BY <1>1, <1>3, <1>4

\* BeginManaged keeps RecordsInv.
LEMMA BeginManagedInv ==
  ASSUME RecordsInv, NEW p \in Procs, MayBegin(p), NEW c \in Managers, BeginManaged(p, c)
  PROVE  RecordsInv'
<1>c. c \in Callers
  BY DEF Managers
<1>1. CASE CleanupExpired(p, c)
  <2> DEFINE found == {k \in PushIds : ExpiredPush(k)}
  <2>1. PICK t : t = [op |-> "cleanup_push", caller |-> c, slot |-> None, input |-> NoRow,
                      ids |-> found]
    OBVIOUS
  <2>2. found \in SUBSET Slots /\ found \subseteq PushIds
    BY DEF Slots
  <2>3. Begin(p, c, "cleanup_push", None, NoRow, found)
    BY <1>1 DEF CleanupExpired
  <2> HIDE DEF found
  <2>4. CallInv(t) /\ GuardStands(t)
    BY <2>1, <2>2 DEF CallInv, GuardStands, PushOps
  <2>5. QED
    BY <1>c, <2>1, <2>2, <2>3, <2>4, NoRowType, BeginInv DEF ManagedOps
<1>2. ASSUME NEW k \in ApiKeys, NEW raw \in Spellings, CreateAPIKey(p, c, k, raw)
      PROVE  RecordsInv'
  <2> DEFINE row == OwnedBy(raw, None)
  <2>1. row \in Rows /\ row.status = "active" /\ row.spelled = raw
    BY OwnedByType
  <2>2. <<"subject", raw>> \notin fences /\ Begin(p, c, "create_key", k, row, {})
    BY <1>2 DEF CreateAPIKey, GuardSubjectWrite
  <2> HIDE DEF row
  <2>3. PICK t : t = [op |-> "create_key", caller |-> c, slot |-> k, input |-> row, ids |-> {}]
    OBVIOUS
  <2>4. CallInv(t) /\ GuardStands(t)
    BY <2>1, <2>2, <2>3 DEF CallInv, GuardStands, PushOps
  <2>5. k \in Slots
    BY DEF Slots
  <2>6. QED
    BY <1>c, <2>1, <2>2, <2>3, <2>4, <2>5, BeginInv DEF ManagedOps
<1>3. ASSUME NEW k \in IdentityKeys, NEW raw \in Spellings, NEW ref \in Externals,
             UpsertExternalIdentity(p, c, k, raw, ref)
      PROVE  RecordsInv'
  <2> DEFINE row == OwnedBy(raw, ref)
  <2>1. /\ row \in Rows /\ row.status = "active" /\ row.ref = ref /\ row.spelled = raw
    BY OwnedByType
  <2>2. /\ <<"subject", raw>> \notin fences /\ <<"external", ref>> \notin fences
        /\ Begin(p, c, "upsert_identity", k, row, FoundIds(c, k))
    BY <1>3 DEF UpsertExternalIdentity, GuardSubjectWrite, IdentityRefs
  <2> HIDE DEF row
  <2>3. PICK t : t = [op |-> "upsert_identity", caller |-> c, slot |-> k, input |-> row,
                      ids |-> FoundIds(c, k)]
    OBVIOUS
  <2>4. CallInv(t) /\ GuardStands(t)
    BY <2>1, <2>2, <2>3 DEF CallInv, GuardStands, PushOps
  <2>5. k \in Slots /\ FoundIds(c, k) \in SUBSET Slots
    BY DEF Slots, FoundIds
  <2>6. QED
    BY <1>c, <2>1, <2>2, <2>3, <2>4, <2>5, BeginInv DEF ManagedOps
<1>4. ASSUME NEW k \in WebhookKeys, NEW row \in WebhookInputs,
             UpsertWebhookSubscription(p, c, k, row)
      PROVE  RecordsInv'
  <2>1. row \in Rows /\ row.status = "active"
    BY InputTypes
  <2>2. Begin(p, c, "upsert_webhook", k, row, FoundIds(c, k))
    BY <1>4 DEF UpsertWebhookSubscription
  <2>3. PICK t : t = [op |-> "upsert_webhook", caller |-> c, slot |-> k, input |-> row,
                      ids |-> FoundIds(c, k)]
    OBVIOUS
  <2>4. CallInv(t) /\ GuardStands(t)
    BY <2>1, <2>2, <2>3 DEF CallInv, GuardStands, PushOps
  <2>5. k \in Slots /\ FoundIds(c, k) \in SUBSET Slots
    BY DEF Slots, FoundIds
  <2>6. QED
    BY <1>c, <2>1, <2>2, <2>3, <2>4, <2>5, BeginInv DEF ManagedOps
<1>5. ASSUME NEW k, NEW op, BeginFound(p, c, op, k),
             \/ op \in {"disable", "rotate_key"} /\ k \in ApiKeys \cup IdentityKeys \cup WebhookKeys
             \/ op = "delete_webhook" /\ k \in WebhookKeys
      PROVE  RecordsInv'
  <2>1. k \in Slots /\ k \notin PushIds /\ op \in ManagedOps
    BY <1>5, SlotsAssumption DEF Slots, ManagedOps
  <2>2. PICK t : t = [op |-> op, caller |-> c, slot |-> k, input |-> NoRow, ids |-> {k}]
    OBVIOUS
  <2>3. CallInv(t) /\ GuardStands(t)
    BY <1>5, <2>1, <2>2 DEF CallInv, GuardStands, PushOps
  <2>4. Begin(p, c, op, k, NoRow, {k})
    BY <1>5 DEF BeginFound
  <2>5. QED
    BY <1>c, <2>1, <2>2, <2>3, <2>4, NoRowType, BeginInv
<1>6. QED
  BY <1>1, <1>2, <1>3, <1>4, <1>5
     DEF BeginManaged, RotateAPIKey, DeleteWebhookSubscription, DisableAPIKey,
         DisableExternalIdentity, DisableWebhookSubscription

-----------------------------------------------------------------------------
(* The theorems *)

\* Every step keeps the inductive invariant.
LEMMA NextInv == RecordsInv /\ [Next]_vars => RecordsInv'
<1> SUFFICES ASSUME RecordsInv, [Next]_vars PROVE RecordsInv'
  OBVIOUS
<1>1. ASSUME NEW p \in Procs, FinishWrite(p) PROVE RecordsInv'
  BY <1>1, StorePushInv, StoreRevocationInv, StoreCleanupInv, StoreManagedInv,
     StoreStatusInv, StoreDeletionInv, RollbackInv DEF FinishWrite
<1>2. ASSUME NEW q \in Requests, Erasure(q) PROVE RecordsInv'
  <2>1. \A r \in Requests : told[r] \subseteq Plans
    BY DEF RecordsInv, TypeOK
  <2>2. QED
    BY <1>2, <2>1, PrepareInv, EraseInv DEF Erasure
<1>3. CASE UNCHANGED vars
  BY <1>3 DEF vars, RecordsInv, TypeOK, RowInv, CallInv, GuardStands, ReceiptInv, SubjectInv,
              ExternalInv, Exists, RowWriteAllowed
<1>4. QED
  BY <1>1, <1>2, <1>3, BeginPushInv, BeginManagedInv, ExpiryInv DEF Next

\* The invariant holds in every reachable state.
LEMMA Invariance == Spec => []RecordsInv
BY InitInv, NextInv, PTL DEF Spec

\* Rows, transactions, receipts and fences are always well formed.
THEOREM TypeCorrect == Spec => []TypeOK
<1>1. RecordsInv => TypeOK
  BY DEF RecordsInv
<1>2. QED
  BY <1>1, Invariance, PTL

\* After the preparation of an erasure a row of its subject is frozen until it is
\* erased, or was written by a request that spelled the subject in another way,
\* on the one-connection host.
THEOREM FencedNamesStayErased == Spec => []FencedNameKeepsNothing
<1>1. RecordsInv => FencedNameKeepsNothing
  BY DEF RecordsInv, SubjectInv, FencedNameKeepsNothing
<1>2. QED
  BY <1>1, Invariance, PTL

\* An external subject of an erased account is bound to nobody again, on the
\* one-connection host.
THEOREM ExternalsStayUnbound == Spec => []FencedExternalsStayUnbound
<1>1. RecordsInv => FencedExternalsStayUnbound
  BY DEF RecordsInv, ExternalInv, FencedExternalsStayUnbound
<1>2. QED
  BY <1>1, Invariance, PTL

\* One request has one plan: every preparation answers with it, and it is the
\* one that runs.
THEOREM OnePlanPerRequest == Spec => []PlansAgree
<1>1. RecordsInv => PlansAgree
  BY DEF RecordsInv, ReceiptInv, PlansAgree
<1>2. QED
  BY <1>1, Invariance, PTL

\* What scopedWhere lets a caller find is what its policies permit: the tables
\* are looked at through the columns they have.
LEMMA FoundIsEntitled ==
  ASSUME NEW c \in Callers, NEW k \in Slots, Finds(c, k),
         k \notin PushIds => c \in Managers,
         k \in PushIds /\ ~Scoped(c) => rows[k].owner = Actor(c)
  PROVE  Entitled(c, k)
<1>1. CASE ~Scoped(c)
  BY <1>1 DEF Entitled
<1>2. CASE Scoped(c)
  <2>1. PICK b \in Bundles : c[2] = b /\ ScopeOf(c) = AccessScope(b)
    BY <1>2 DEF Callers, Scoped, ScopeOf, Scopes
  <2>2. CASE k \in PushIds
    <3>1. Visible(AccessScope(b), {"user"}, [user |-> rows[k].owner, org |-> NoOrg])
      BY <1>2, <2>1, <2>2 DEF Finds
    <3>2. \A o \in Orgs \cup {NoOrg} : Permitted(b, [user |-> rows[k].owner, org |-> o])
      BY <3>1, VisibleIsPermitted
    <3>3. QED
      BY <1>2, <2>1, <2>2, <3>2 DEF Entitled
  <2>3. CASE k \notin PushIds
    <3>1. AllData(AccessScope(b))
      BY <1>2, <2>1, <2>3 DEF Managers, Scoped, Scopes
    <3>2. \A u \in Users, o \in Orgs \cup {NoOrg} : Permitted(b, [user |-> u, org |-> o])
      BY <3>1, AllDataPermitsEverything
    <3>3. QED
      BY <1>2, <2>1, <2>3, <3>2 DEF Entitled
  <2>4. QED
    BY <2>2, <2>3
<1>3. QED
  BY <1>1, <1>2

\* Whoever is let to all data may write every row.
LEMMA ManagerIsEntitled ==
  ASSUME NEW c \in Managers, NEW k \in Slots, Scoped(c)
  PROVE  Entitled(c, k)
<1>1. PICK b \in Bundles : c[2] = b /\ ScopeOf(c) = AccessScope(b) /\ AllData(AccessScope(b))
  BY DEF Managers, Callers, Scoped, ScopeOf, Scopes
<1>2. \A u, o : Permitted(b, [user |-> u, org |-> o])
  BY <1>1, AllDataPermitsEverything
<1>3. QED
  BY <1>1, <1>2 DEF Entitled

\* Only the second half of p's own transaction changes its state and a row.
LEMMA WriterIsFinishing ==
  ASSUME RecordsInv, [Next]_vars, NEW p \in Procs, call'[p] # call[p], rows' # rows
  PROVE  FinishWrite(p) /\ call[p].op # "idle"
<1>1. call \in [Procs -> Calls \cup {Idle}]
  BY DEF RecordsInv, TypeOK
<1>2. ASSUME NEW r \in Procs, MayBegin(r), NEW c,
             BeginPush(r, c) \/ BeginManaged(r, c)
      PROVE  rows' = rows
  BY <1>2 DEF BeginPush, RevokePush, UpsertPush, BeginManaged, CleanupExpired, CreateAPIKey,
              UpsertExternalIdentity, UpsertWebhookSubscription, RotateAPIKey, DisableAPIKey,
              DeleteWebhookSubscription, DisableExternalIdentity, DisableWebhookSubscription,
              BeginFound, Begin
<1>3. ASSUME NEW r \in Procs, FinishWrite(r) PROVE call' = [call EXCEPT ![r] = Idle]
  BY <1>3 DEF FinishWrite, StorePush, StoreRevocation, StoreCleanup, StoreManaged,
              StoreStatus, StoreDeletion, Rollback, Commit
<1>4. FinishWrite(p)
  BY <1>1, <1>2, <1>3
     DEF Next, vars, ExpiryPasses, Erasure, PrepareSubjectErasure, ErasePreparedSubject
<1>5. call[p] # Idle
  BY <1>1, <1>3, <1>4
<1>6. QED
  BY <1>1, <1>4, <1>5 DEF Calls, PushOps, ManagedOps

\* A caller changes an existing row only if its policies cover that row as it
\* is then, and a frozen row only by the unfenced DELETE.
THEOREM WritesStayInPolicy == Spec => CallersStayInPolicy
<1>1. ASSUME RecordsInv, [Next]_vars, NEW p \in Procs, NEW k \in Slots,
             call'[p] # call[p], rows'[k] # rows[k], Exists(k)
      PROVE  /\ \/ Entitled(call[p].caller, k)
                \/ call[p].op = "cleanup_push" /\ ~Scoped(call[p].caller)
             /\ rows[k].status = "erasing" => call[p].op = "delete_webhook"
  <2> DEFINE t == call[p]
  <2>0. FinishWrite(p) /\ t.op # "idle"
    BY <1>1, WriterIsFinishing
  <2>1. /\ CallInv(t) /\ RowInv(k) /\ rows \in [Slots -> Rows]
        /\ t.caller \in Callers /\ t.ids \in SUBSET Slots
    BY <1>1, <2>0, OpenCall DEF RecordsInv, TypeOK
  <2>u. ASSUME Updatable(t.caller, k), k \notin PushIds => t.caller \in Managers,
               k \in PushIds /\ ~Scoped(t.caller) => rows[k].owner = Actor(t.caller)
        PROVE  Entitled(t.caller, k) /\ rows[k].status # "erasing"
    BY <2>1, <2>u, FoundIsEntitled DEF Updatable, RowInv, RowWriteAllowed
  <2>2. CASE StorePush(p)
    <3>1. t.op = "upsert_push" /\ t.slot \in PushIds
      BY <2>1, <2>2 DEF StorePush, CallInv, PushOps
    <3>2. t.slot = k
      BY <1>1, <2>1, <2>2 DEF StorePush, Commit
    <3>3. t.ids # {} /\ Updatable(t.caller, k)
      BY <1>1, <2>2, <3>2 DEF StorePush
    <3>4. ~Scoped(t.caller) => rows[k].owner = Actor(t.caller)
      BY <2>1, <3>1, <3>2, <3>3 DEF CallInv, Updatable, PushOps
    <3>5. QED
      BY <2>u, <3>1, <3>2, <3>3, <3>4
  <2>3. CASE StoreRevocation(p)
    <3>1. t.op = "revoke_push" /\ t.slot \in PushIds /\ Updatable(t.caller, t.slot)
      BY <2>1, <2>3 DEF StoreRevocation, CallInv, PushOps
    <3>2. t.slot = k
      BY <1>1, <2>1, <2>3 DEF StoreRevocation, Commit
    <3>3. ~Scoped(t.caller) => rows[k].owner = Actor(t.caller)
      BY <2>1, <3>1, <3>2 DEF CallInv, Updatable, PushOps
    <3>4. QED
      BY <2>u, <3>1, <3>2, <3>3
  <2>4. CASE StoreCleanup(p)
    <3>1. t.op = "cleanup_push" /\ t.caller \in Managers
      BY <2>1, <2>4 DEF StoreCleanup, CallInv, ManagedOps
    <3>2. ExpiredPush(k)
      BY <1>1, <2>1, <2>4 DEF StoreCleanup, Commit
    <3>3. QED
      BY <3>1, <3>2, ManagerIsEntitled DEF ExpiredPush
  <2>5. CASE StoreManaged(p)
    <3>1. /\ t.op \in {"create_key", "upsert_identity", "upsert_webhook"}
          /\ t.caller \in Managers /\ t.slot \notin PushIds
      BY <2>1, <2>5, SlotsAssumption DEF StoreManaged, CallInv, ManagedOps
    <3>2. t.slot = k
      BY <1>1, <2>1, <2>5 DEF StoreManaged, Commit
    <3>3. Updatable(t.caller, k)
      BY <1>1, <2>5, <3>2 DEF StoreManaged
    <3>4. QED
      BY <2>u, <3>1, <3>2, <3>3
  <2>6. CASE StoreStatus(p)
    <3>1. /\ t.op \in {"disable", "rotate_key"} /\ Updatable(t.caller, t.slot)
          /\ t.caller \in Managers /\ t.slot \notin PushIds
      BY <2>1, <2>6 DEF StoreStatus, CallInv, ManagedOps
    <3>2. t.slot = k
      BY <1>1, <2>1, <2>6 DEF StoreStatus, Commit
    <3>3. QED
      BY <2>u, <3>1, <3>2
  <2>7. CASE StoreDeletion(p)
    <3>1. /\ t.op = "delete_webhook" /\ Finds(t.caller, t.slot)
          /\ t.caller \in Managers /\ t.slot \notin PushIds
      BY <2>1, <2>7, SlotsAssumption DEF StoreDeletion, CallInv, ManagedOps
    <3>2. t.slot = k
      BY <1>1, <2>1, <2>7 DEF StoreDeletion, Commit
    <3>3. QED
      BY <2>1, <3>1, <3>2, FoundIsEntitled
  <2>8. CASE Rollback(p)
    BY <1>1, <2>8 DEF Rollback, Commit
  <2>9. QED
    BY <2>0, <2>2, <2>3, <2>4, <2>5, <2>6, <2>7, <2>8 DEF FinishWrite
<1>2. RecordsInv /\ [Next]_vars =>
        [\A p \in Procs, k \in Slots :
            (call'[p] # call[p] /\ rows'[k] # rows[k] /\ Exists(k)) =>
                /\ \/ Entitled(call[p].caller, k)
                   \/ call[p].op = "cleanup_push" /\ ~Scoped(call[p].caller)
                /\ rows[k].status = "erasing" => call[p].op = "delete_webhook"]_vars
  BY <1>1
<1>3. QED
  BY <1>2, Invariance, PTL DEF Spec, CallersStayInPolicy

\* A cleanup clears all that it found, as it found it, or nothing.
THEOREM CleanupIsWhole == Spec => CleanupIsAllOrNothing
<1>1. ASSUME RecordsInv, [Next]_vars, NEW p \in Procs, call[p].op = "cleanup_push",
             call'[p] # call[p], rows' # rows, NEW k \in call[p].ids
      PROVE  /\ rows[k] = [rows[k] EXCEPT !.status = "active", !.expiry = "passed"]
             /\ rows'[k].status = "expired"
  <2>1. FinishWrite(p)
    BY <1>1, WriterIsFinishing
  <2>2. StoreCleanup(p)
    BY <1>1, <2>1
       DEF FinishWrite, StorePush, StoreRevocation, StoreManaged, StoreStatus, StoreDeletion,
           Rollback, Commit
  <2>3. k \in Slots /\ rows[k] \in Rows
    BY <1>1, OpenCall DEF RecordsInv, TypeOK
  <2>4. ExpiredPush(k) /\ RowWriteAllowed(k)
    BY <1>1, <2>2 DEF StoreCleanup, CleanupComplete
  <2>5. rows'[k] = [rows[k] EXCEPT !.status = "expired"]
    BY <1>1, <2>2, <2>3, <2>4 DEF StoreCleanup, Commit
  <2>6. rows[k].status = "active" /\ rows[k].expiry = "passed"
    BY <2>4 DEF ExpiredPush
  <2>7. QED
    BY <2>3, <2>5, <2>6 DEF Rows
<1>2. RecordsInv /\ [Next]_vars =>
        [\A p \in Procs :
            (call[p].op = "cleanup_push" /\ call'[p] # call[p] /\ rows' # rows) =>
                \A k \in call[p].ids :
                    rows[k] = [rows[k] EXCEPT !.status = "active", !.expiry = "passed"]
                    /\ rows'[k].status = "expired"]_vars
  BY <1>1
<1>3. QED
  BY <1>2, Invariance, PTL DEF Spec, CleanupIsAllOrNothing

=============================================================================
