-------------------------- MODULE PersonalRecords --------------------------
(***************************************************************************)
(* The small tables that hold something personal: web push subscriptions,  *)
(* API keys, external identities and webhook subscriptions; their writes   *)
(* by scoped HTTP callers and by internal ones; and the erasure of a       *)
(* subject whose plan spans the four tables. A write is a transaction of   *)
(* two steps, its checks and lookup, then its statement and commit. On the *)
(* one-connection host transactions follow each other; on a pool they      *)
(* interleave at the database's default isolation. The row of a slot has   *)
(* an id derived from the slot, so a row inserted again has the old id.    *)
(***************************************************************************)
EXTENDS AccessScopes, Naturals

CONSTANTS
    Procs,            \* goroutines that serve requests
    Users,
    Spellings,        \* what a request may hold for a user: a name, or a padded one
    Trim,             \* the name in a spelling
    Bundles,          \* the access bundles of HTTP principals
    Orgs,             \* organizations a row's owner may belong to
    PushIds, ApiKeys, IdentityKeys, WebhookKeys,
    Endpoints,        \* browser endpoints, by their hash
    Externals,        \* (provider, external subject) pairs
    Connections,
    ConnectionOwner,  \* the owner of a personal connection, or None
    Requests,         \* ids of erasure requests
    Provenances,      \* the records, messages and events a request names
    None,
    InitialRows,      \* what earlier writes may have left in the tables
    MaxWrites         \* bound on the writes begun

Slots == PushIds \cup ApiKeys \cup IdentityKeys \cup WebhookKeys

\* The ids of the four tables differ.
ASSUME SlotsAssumption ==
    /\ PushIds \cap (ApiKeys \cup IdentityKeys \cup WebhookKeys) = {}
    /\ ApiKeys \cap (IdentityKeys \cup WebhookKeys) = {}
    /\ IdentityKeys \cap WebhookKeys = {}
\* A name is its own spelling.
ASSUME SpellingsAssumption ==
    /\ Users \subseteq Spellings
    /\ Trim \in [Spellings -> Users]
    /\ \A u \in Users : Trim[u] = u
ASSUME BoundAssumption == MaxWrites \in Nat

Statuses == {"absent", "active", "revoked", "expired", "disabled", "erasing"}
NoRow == [status |-> "absent", owner |-> None, spelled |-> None, ref |-> None,
          expiry |-> "never"]
Rows ==
    [status : Statuses,
     owner : Users \cup {None},                                  \* user_id, actor_id
     spelled : Spellings \cup {None},         \* the owner as its writer put it (history)
     ref : Endpoints \cup Externals \cup Connections \cup {None},
     expiry : {"never", "later", "passed"}]                      \* expires_at

\* What earlier writes left: rows with all their columns, external subjects
\* bound once, and nothing frozen.
ASSUME InitialRowsAssumption ==
    \A r \in InitialRows :
        /\ r \in [Slots -> Rows]
        /\ \A k \in Slots : /\ r[k].status = "absent" => r[k] = NoRow
                           /\ r[k].status # "erasing"
        /\ \A k \in IdentityKeys : r[k].status # "absent" =>
              /\ r[k].ref \in Externals
              /\ \A other \in IdentityKeys \ {k} : r[other].ref # r[k].ref

\* An HTTP principal is authorized before its handler runs; an internal call
\* carries a user and no scope.
Callers == ({"scoped"} \X {b \in Bundles : Authorized(b)}) \cup ({"internal"} \X Users)
Scopes == [b \in Bundles |-> AccessScope(b)]
Managers == {c \in Callers : c[1] = "scoped" => AllData(Scopes[c[2]])}

PushOps == {"upsert_push", "revoke_push"}
ManagedOps == {"cleanup_push", "create_key", "upsert_identity", "upsert_webhook",
               "disable", "rotate_key", "delete_webhook"}
Calls ==
    [op : PushOps \cup ManagedOps, caller : Callers, slot : Slots \cup {None},
     input : Rows, ids : SUBSET Slots]
Idle == [op |-> "idle"]
Plans ==
    [request : Requests, subject : Users, provenance : Provenances,
     rows : SUBSET Slots, externals : SUBSET Externals]
NoReceipt == [plan |-> None, done |-> FALSE]

ASSUME NamesAssumption ==
    /\ None \notin Spellings \cup Externals
    /\ None \notin Plans
    /\ \A b \in Bundles : b.user \in Users

VARIABLES
    host,     \* "one" connection, or a "pool" of them
    rows,     \* rows[k]: the row with the id of slot k
    fences,   \* subject, external and row fences of erasures
    receipt,  \* receipt[q]: the saved plan of request q, and whether it ran
    call,     \* call[p]: the transaction p has open
    told,     \* told[q]: the plans that q was answered with or executed
    writes    \* writes begun

vars == <<host, rows, fences, receipt, call, told, writes>>

TypeOK ==
    /\ host \in {"one", "pool"}
    /\ rows \in [Slots -> Rows]
    /\ fences \subseteq {"subject"} \X Users \cup {"external"} \X Externals \cup {"row"} \X Slots
    /\ receipt \in [Requests -> [plan : Plans \cup {None}, done : BOOLEAN]]
    /\ call \in [Procs -> Calls \cup {Idle}]
    /\ told \in [Requests -> SUBSET Plans]
    /\ writes \in 0..MaxWrites

Init ==
    /\ host \in {"one", "pool"}
    /\ rows \in InitialRows
    /\ fences = {}
    /\ receipt = [q \in Requests |-> NoReceipt]
    /\ call = [p \in Procs |-> Idle]
    /\ told = [q \in Requests |-> {}]
    /\ writes = 0

-----------------------------------------------------------------------------
(* Callers, fences and transactions. *)

Scoped(c) == c[1] = "scoped"
ScopeOf(c) == Scopes[c[2]]

\* scopeOwner, and the user a web push call is about.
Actor(c) == IF Scoped(c) THEN c[2].user ELSE c[2]

Exists(k) == rows[k].status # "absent"

\* The web push table has a user column only, the managed ones have none.
Finds(c, k) ==
    /\ Exists(k)
    /\ Scoped(c) => Visible(ScopeOf(c),
                            IF k \in PushIds THEN {"user"} ELSE {},
                            [user |-> rows[k].owner, org |-> NoOrg])

\* The predicate that every UPDATE has; INSERT and DELETE do not.
RowWriteAllowed(k) == <<"row", k>> \notin fences

\* Variant: no guard.
GuardPassesAlways(refs) == TRUE

GuardSubjectWrite(refs) == refs \cap fences = {}

Updatable(c, k) == Finds(c, k) /\ RowWriteAllowed(k)

\* The unique key next to the id: an endpoint, an external subject.
RefFree(k, table, ref) == \A other \in table \ {k} : rows[other].ref # ref

Quiet == \A p \in Procs : call[p] = Idle
HostAdmits == host = "one" => Quiet
MayBegin(p) == call[p] = Idle /\ HostAdmits /\ writes < MaxWrites

Begin(p, c, op, k, input, ids) ==
    /\ call' = [call EXCEPT ![p] =
           [op |-> op, caller |-> c, slot |-> k, input |-> input, ids |-> ids]]
    /\ writes' = writes + 1
    /\ UNCHANGED <<host, rows, fences, receipt, told>>

Commit(p, newRows) ==
    /\ rows' = newRows
    /\ call' = [call EXCEPT ![p] = Idle]
    /\ UNCHANGED <<host, fences, receipt, told, writes>>

\* An error in the statement or at commit, a lost connection, or an UPDATE
\* that finds no row to change.
Rollback(p) == call[p] # Idle /\ Commit(p, rows)

FoundIds(c, k) == IF Finds(c, k) THEN {k} ELSE {}

-----------------------------------------------------------------------------
(* Web push subscriptions. *)

UpsertPush(p, c, k, row) ==
    /\ Scoped(c) => ScopeAllowsUser(ScopeOf(c), Actor(c))
    /\ GuardSubjectWrite({<<"subject", Actor(c)>>})
    /\ Finds(c, k) /\ ~Scoped(c) => rows[k].owner = Actor(c)
    /\ Begin(p, c, "upsert_push", k, row, FoundIds(c, k))

\* The owner of a row is never updated; the rows affected are not counted.
StorePush(p) ==
    LET t == call[p]
        k == t.slot
        user == Actor(t.caller)
        new == [t.input EXCEPT !.owner = IF t.ids = {} THEN user ELSE rows[k].owner,
                               !.spelled = IF t.ids = {} THEN user ELSE rows[k].spelled]
    IN  /\ t.op = "upsert_push"
        /\ RefFree(k, PushIds, t.input.ref)
        /\ IF t.ids = {} THEN ~Exists(k) ELSE Updatable(t.caller, k)
        /\ Commit(p, [rows EXCEPT ![k] = new])

RevokePush(p, c, k) ==
    /\ Finds(c, k)
    /\ ~Scoped(c) => rows[k].owner = Actor(c)
    /\ rows[k].status # "revoked"
    /\ Begin(p, c, "revoke_push", k, NoRow, {k})

\* The material is cleared with the status; the endpoint's hash stays.
StoreRevocation(p) ==
    LET t == call[p] IN
    /\ t.op = "revoke_push"
    /\ Updatable(t.caller, t.slot)
    /\ Commit(p, [rows EXCEPT ![t.slot].status = "revoked"])

ExpiredPush(k) == rows[k].status = "active" /\ rows[k].expiry = "passed"

CleanupExpired(p, c) ==
    LET found == {k \in PushIds : ExpiredPush(k)} IN
    /\ found # {}
    /\ Begin(p, c, "cleanup_push", None, NoRow, found)

\* Variant: the rows that the statement updated are not counted.
CleanupUncounted(ids, updated) == TRUE

\* The transaction fails unless every candidate was updated.
CleanupComplete(ids, updated) == updated = ids

StoreCleanup(p) ==
    LET t == call[p]
        updated == {k \in t.ids : ExpiredPush(k) /\ RowWriteAllowed(k)}
    IN  /\ t.op = "cleanup_push"
        /\ CleanupComplete(t.ids, updated)
        /\ Commit(p, [k \in Slots |-> IF k \in updated
                                      THEN [rows[k] EXCEPT !.status = "expired"]
                                      ELSE rows[k]])

ExpiryPasses(k) ==
    /\ rows[k].expiry = "later"
    /\ rows' = [rows EXCEPT ![k].expiry = "passed"]
    /\ UNCHANGED <<host, fences, receipt, call, told, writes>>

-----------------------------------------------------------------------------
(* API keys, external identities, webhook subscriptions. *)

\* The row of a request that spells the actor raw: the columns are trimmed.
OwnedBy(raw, ref) ==
    [NoRow EXCEPT !.status = "active", !.owner = Trim[raw], !.spelled = raw, !.ref = ref]

\* The guard comes before the trim.
CreateAPIKey(p, c, k, raw) ==
    /\ GuardSubjectWrite({<<"subject", raw>>})
    /\ Begin(p, c, "create_key", k, OwnedBy(raw, None), {})

\* Variant: the external subject is not asked for.
IdentityRefsActorOnly(raw, ref) == {<<"subject", raw>>}

\* Provider and external subject are trimmed for the guard, the actor is not.
IdentityRefs(raw, ref) == {<<"subject", raw>>, <<"external", ref>>}

UpsertExternalIdentity(p, c, k, raw, ref) ==
    /\ GuardSubjectWrite(IdentityRefs(raw, ref))
    /\ Begin(p, c, "upsert_identity", k, OwnedBy(raw, ref), FoundIds(c, k))

\* No fence is asked for the connection.
UpsertWebhookSubscription(p, c, k, row) ==
    Begin(p, c, "upsert_webhook", k, row, FoundIds(c, k))

\* The insert, or the update of the row that was found.
StoreManaged(p) ==
    LET t == call[p]
        k == t.slot
    IN  /\ t.op \in {"create_key", "upsert_identity", "upsert_webhook"}
        /\ k \in IdentityKeys => RefFree(k, IdentityKeys, t.input.ref)
        /\ IF t.ids = {} THEN ~Exists(k) ELSE Updatable(t.caller, k)
        /\ Commit(p, [rows EXCEPT ![k] = t.input])

\* A lookup, and later a statement on the row that was found.
BeginFound(p, c, op, k) == Finds(c, k) /\ Begin(p, c, op, k, NoRow, {k})

DisableAPIKey(p, c, k) == k \in ApiKeys /\ BeginFound(p, c, "disable", k)
DisableExternalIdentity(p, c, k) == k \in IdentityKeys /\ BeginFound(p, c, "disable", k)
DisableWebhookSubscription(p, c, k) == k \in WebhookKeys /\ BeginFound(p, c, "disable", k)
RotateAPIKey(p, c, k) == k \in ApiKeys /\ BeginFound(p, c, "rotate_key", k)
DeleteWebhookSubscription(p, c, k) == k \in WebhookKeys /\ BeginFound(p, c, "delete_webhook", k)

\* A rotation activates the key.
StoreStatus(p) ==
    LET t == call[p] IN
    /\ t.op \in {"disable", "rotate_key"}
    /\ Updatable(t.caller, t.slot)
    /\ Commit(p, [rows EXCEPT ![t.slot].status =
                      IF t.op = "disable" THEN "disabled" ELSE "active"])

\* The DELETE has no fence.
StoreDeletion(p) ==
    LET t == call[p] IN
    /\ t.op = "delete_webhook"
    /\ Finds(t.caller, t.slot)
    /\ Commit(p, [rows EXCEPT ![t.slot] = NoRow])

-----------------------------------------------------------------------------
(* The erasure of a subject. *)

\* Webhook subscriptions belong to the owner of their connection.
BelongsTo(k, u) ==
    /\ Exists(k)
    /\ IF k \in WebhookKeys THEN ConnectionOwner[rows[k].ref] = u ELSE rows[k].owner = u

\* The external subjects bound to u, of which the plan keeps digests.
BoundTo(u) == {rows[k].ref : k \in {i \in IdentityKeys : BelongsTo(i, u)}}

\* The rows of the subject in the tables of subjectSpecs.
Collect(q, u, v) ==
    [request |-> q, subject |-> u, provenance |-> v,
     rows |-> {k \in Slots : BelongsTo(k, u)},
     externals |-> BoundTo(u)]

\* Variant: a repeated preparation collects again.
PlanAnew(q, u, v) == Collect(q, u, v)

\* The saved plan is the answer to a repeated preparation.
PlanOf(q, u, v) ==
    IF receipt[q].plan = None THEN Collect(q, u, v) ELSE receipt[q].plan

\* The request of a repeated preparation must be the saved one.
SameRequest(q, u, v) ==
    receipt[q].plan # None =>
        receipt[q].plan.subject = u /\ receipt[q].plan.provenance = v

FencesOf(plan) ==
    {<<"subject", plan.subject>>} \cup {<<"external", x>> : x \in plan.externals}
        \cup {<<"row", k>> : k \in plan.rows}

PrepareSubjectErasure(q, u, v) ==
    LET plan == PlanOf(q, u, v) IN
    /\ HostAdmits
    /\ SameRequest(q, u, v)
    /\ told' = [told EXCEPT ![q] = @ \cup {plan}]
    /\ IF receipt[q].plan # None THEN UNCHANGED <<rows, fences, receipt>>
       ELSE /\ fences' = fences \cup FencesOf(plan)
            /\ rows' = [k \in Slots |-> IF k \in plan.rows
                                        THEN [rows[k] EXCEPT !.status = "erasing"]
                                        ELSE rows[k]]
            /\ receipt' = [receipt EXCEPT ![q].plan = plan]
    /\ UNCHANGED <<host, call, writes>>

\* Webhook subscriptions are blanked, the other rows are deleted.
Erased(k) ==
    IF ~Exists(k) THEN NoRow
    ELSE IF k \in WebhookKeys THEN [rows[k] EXCEPT !.status = "disabled"]
    ELSE NoRow

\* Called with any plan that some preparation returned, in any order, again
\* after it has run: a result that is saved is the answer.
ErasePreparedSubject(q, plan) ==
    /\ HostAdmits
    /\ plan.request = q
    /\ receipt[q].plan = plan
    /\ ~receipt[q].done
    /\ rows' = [k \in Slots |-> IF k \in plan.rows THEN Erased(k) ELSE rows[k]]
    /\ receipt' = [receipt EXCEPT ![q].done = TRUE]
    /\ UNCHANGED <<host, fences, call, told, writes>>

-----------------------------------------------------------------------------

PushInputs ==
    [status : {"active"}, owner : {None}, spelled : {None}, ref : Endpoints,
     expiry : {"never", "later"}]
WebhookInputs ==
    [status : {"active"}, owner : {None}, spelled : {None}, ref : Connections,
     expiry : {"never"}]

BeginPush(p, c) ==
    \E k \in PushIds :
        RevokePush(p, c, k) \/ \E row \in PushInputs : UpsertPush(p, c, k, row)

\* Every other write needs all data, at the route and again in the store.
BeginManaged(p, c) ==
    \/ CleanupExpired(p, c)
    \/ \E k \in ApiKeys, raw \in Spellings : CreateAPIKey(p, c, k, raw)
    \/ \E k \in IdentityKeys, raw \in Spellings, ref \in Externals :
        UpsertExternalIdentity(p, c, k, raw, ref)
    \/ \E k \in WebhookKeys, row \in WebhookInputs : UpsertWebhookSubscription(p, c, k, row)
    \/ \E k \in ApiKeys \cup IdentityKeys \cup WebhookKeys :
        \/ RotateAPIKey(p, c, k)
        \/ DeleteWebhookSubscription(p, c, k)
        \/ DisableAPIKey(p, c, k)
        \/ DisableExternalIdentity(p, c, k)
        \/ DisableWebhookSubscription(p, c, k)

FinishWrite(p) ==
    \/ StorePush(p) \/ StoreRevocation(p) \/ StoreCleanup(p)
    \/ StoreManaged(p) \/ StoreStatus(p) \/ StoreDeletion(p)
    \/ Rollback(p)

Erasure(q) ==
    \/ \E u \in Users, v \in Provenances : PrepareSubjectErasure(q, u, v)
    \/ \E plan \in UNION {told[r] : r \in Requests} : ErasePreparedSubject(q, plan)

Next ==
    \/ \E p \in Procs :
        \/ FinishWrite(p)
        \/ MayBegin(p) /\ \E c \in Callers : BeginPush(p, c)
        \/ MayBegin(p) /\ \E c \in Managers : BeginManaged(p, c)
    \/ \E k \in PushIds : ExpiryPasses(k)
    \/ \E q \in Requests : Erasure(q)

Spec == Init /\ [][Next]_vars

-----------------------------------------------------------------------------
(* Properties. *)

\* What the contract promises (cleanup includes "account API keys, external
\* bindings", "with permanent ownership fences"): from the preparation of an
\* erasure on, every web push subscription, API key and external identity of
\* the subject is frozen, and after its execution there is none. The code does
\* not keep it: CreateAPIKey and UpsertExternalIdentity ask the fence about
\* actor_id as the request spells it and store it trimmed.
ErasedSubjectKeepsNothing ==
    host = "one" =>
        \A q \in Requests : receipt[q].plan # None =>
            \A k \in Slots \ WebhookKeys : rows[k].owner = receipt[q].plan.subject =>
                rows[k].status = "erasing" /\ ~receipt[q].done

\* What the code does keep of it: a row that outlives the erasure of its owner,
\* or comes after it, was written by a request that spelled the owner in another
\* way than the fence does. Whoever names the subject as it is is refused, in
\* all three tables, through lookups that were answered before the fence was
\* there and plans that overlap (guardSubjectWrite against
\* PrepareSubjectErasure). It needs the one-connection host: on a pool the guard
\* may pass before the fence is there and the row come after it.
FencedNameKeepsNothing ==
    host = "one" =>
        \A q \in Requests : receipt[q].plan # None =>
            \A k \in Slots \ WebhookKeys : rows[k].owner = receipt[q].plan.subject =>
                \/ rows[k].status = "erasing" /\ ~receipt[q].done
                \/ rows[k].spelled # receipt[q].plan.subject

\* An external subject that belonged to an erased account is bound to nobody
\* again, under its old key or another, by the same administrator or another
\* (the contract: "External subject digest fences reject later private ingress
\* and rebinding after raw external bindings have been removed"). This rests on
\* the unique key too: a second binding would survive the preparation.
FencedExternalsStayUnbound ==
    host = "one" =>
        \A k \in IdentityKeys : <<"external", rows[k].ref>> \in fences =>
            rows[k].status = "erasing"

\* All answers to the preparations of one request are the same plan, through
\* rows that changed or went in between, and that plan is the one that runs
\* (the contract: "Source prepared receipts support exact replay", "A different
\* plan cannot execute against the saved receipt").
PlansAgree ==
    \A q \in Requests : \A plan, other \in (told[q] \cup {receipt[q].plan}) \ {None} :
        plan = other

\* The caller may write a row of this owner by the meaning of its policies,
\* whichever organization the owner is in: the table does not know.
Entitled(c, k) ==
    IF Scoped(c)
    THEN \A u \in (IF k \in PushIds THEN {rows[k].owner} ELSE Users), o \in Orgs \cup {NoOrg} :
            Permitted(c[2], [user |-> u, org |-> o])
    ELSE k \in PushIds => rows[k].owner = Actor(c)

\* A caller changes an existing row only when its policies cover the row as it
\* is at that moment, and never a frozen one, though the row may have been
\* erased and inserted by another user since the lookup
\* (TestWebPushOwnerScopeCannotReadOrMutateAnotherUser, scopedWhere and
\* subjectRowWriteAllowed in the final statement). Cleanup by an internal
\* caller and the unfenced DELETE of a webhook subscription are the exceptions.
CallersStayInPolicy ==
    [][\A p \in Procs, k \in Slots :
          (call'[p] # call[p] /\ rows'[k] # rows[k] /\ Exists(k)) =>
              /\ \/ Entitled(call[p].caller, k)
                 \/ call[p].op = "cleanup_push" /\ ~Scoped(call[p].caller)
              /\ rows[k].status = "erasing" => call[p].op = "delete_webhook"]_vars

\* A cleanup clears all the subscriptions it found or none, and none that was
\* renewed or revoked since (TestWebPushCleanupRollsBackWholeCandidateSet).
CleanupIsAllOrNothing ==
    [][\A p \in Procs :
          (call[p].op = "cleanup_push" /\ call'[p] # call[p] /\ rows' # rows) =>
              \A k \in call[p].ids :
                  rows[k] = [rows[k] EXCEPT !.status = "active", !.expiry = "passed"]
                  /\ rows'[k].status = "expired"]_vars

=============================================================================
