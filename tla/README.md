# Domainry Integration: a TLA+ verification project

Domainry Integration is the boundary between a runtime and external providers.
It selects connections, holds their credentials, calls providers, receives
their webhooks, runs their background work, and erases the traces of a person
who asks for it. Everything it knows is in SQL tables; several replicas, each
with request goroutines and one worker loop, share them, and almost every
operation is several statements long. These modules model the tables and the
statements that compete for them.

## 1. Inventory

Sources below are relative to `src/internal/infrastructure/persistence/database/integration/`
unless they start with `src/`.

| Component | State | Operations | Hard behaviour | What makes it correct |
| --- | --- | --- | --- | --- |
| Invocation ledger (`delivery_store.go`, `operations_store.go`, `connection_account_write_receipts.go`, account-write executor) | `_integration_invocations` | deliver a message, direct call (standard, sensitive), account write, receipt lookup | crash between provider effect and receipt, racing retries, in-doubt errors | a claimed identity reaches the provider at most once; a recorded outcome agrees with the effect |
| Reconciliation (`provider_worker_store.go`) | the same rows | scan, claim, lookup, persist | stale metadata, takeover after a minute | success only with an effect; account writes and frozen rows untouched |
| Provider tasks and commits (`provider_worker_store.go`) | `_integration_connector_provider_states`, `..._commits` | synchronise, claim, execute, store the result and its outbox, deliver commits | replicas with one lease owner, new versions under a running task | only the current lease stores; outbox and state commit together; attempts bound deliveries |
| Event inbox (`inbound_store.go`, `event_worker_store.go`, `event_mapping_store.go`) | `_integration_events`, nonces, mapping intents | accept a webhook, replay, claim, map, hand off to the Runtime, finish | leases outlived by their holder, lost answers, racing intent inserts | one request processes an event, processed means executed, no early dead letter, every event settles |
| Credential store (`secret_resolver.go`, `provider_secret_updates.go`, `management_secret_store.go`) | `_integration_secrets`, `..._materials` | snapshot, rotate, administer, expire | reads in two statements per field; a clock too coarse to tell writes apart | rotation replaces what was used, all the fields an answer names or none, never after a revocation |
| OAuth authorization (`oauth_session_store.go`, application store) | `_integration_oauth_sessions` | start, poll, callback, exchange, provision | racing callbacks, timeout against a late exchange, edited application | a code is exchanged once; an account exists exactly for a connected session |
| Connections and accounts (`management_store.go`, `connection_account_store.go`, `requirements_store.go`, `connection_readiness.go`) | connections, accounts, reservations, grants | upsert, register, delete, revoke, provision, synchronise manifests | checks and writes at the database's default isolation; read and write-back without a transaction | a reserved credential belongs to one connection |
| Subject erasure (`subject_erasure.go`, fences, guards) | receipts, fences, and the rows of every table above | preview, prepare (busy check, fence, freeze), erase | preparation between another actor's read and write | a frozen row is written only by its erasure |
| Connection pool (`src/cmd/integration-server/main.go`) | one `sql.DB` connection | query, cursor, transaction | a query under an open cursor | no operation waits for itself |
| Worker loop (`src/internal/assembly/saas/service.go`) | none | the four `ProcessDue...` rounds | | each round comes again |
| Personal records (`web_push_subscription_store.go`, `management_api_key_store.go`, `management_identity_store.go`, `management_webhook_store.go`) | web push subscriptions, API keys, external identities, webhook subscriptions | upsert, revoke, clean up, create, disable, rotate, delete | lookup and statement apart; ids derived from keys, so a row inserted again has its old id; callers of different scopes on one row | a caller changes what its policies permit; an erased subject keeps and regains nothing |
| Authorization (`src/internal/application/integration/authorization.go`, `access_scope.go`, `src/internal/transport/http/module/adapter.go`) | none | compile a bundle into a scope, a scope into a WHERE clause | denials on columns a table does not have | no row outside the policies is touched |
| Catalog, HTTP and SDK adapters, connector transport, migrations, assembly | definitions, or none | | | not modelled, see section 8 |

How they interact: deliveries, calls and commits resolve credentials and store
what the provider rotated; a task's result inserts events and commits, and a
commit's delivery is a delivery of the ledger; OAuth provisions secrets, a
connection, an account, a reservation and a grant in one transaction; erasure
freezes rows of all of them, and each of their writes asks its fences
(`guardSubjectWrite` before, `subjectRowWriteAllowed` in the statement).

## 2. Modules and their correspondence to the code

One action is one SQL statement, one transaction, or one call to a provider or
the Runtime; processes interleave between actions, and may stop there where a
crash is modelled. `PROJECT.json` maps each definition to its lines. A
definition that has a "variant" above it is followed by the code's form; the
variants are plausible bugs, used to see that each property can fail.

* **InvocationLedger**: `ledger[i]` is the row of id `i` (status, account-write
  evidence, whether a payload is stored, terminal flag, `updated_at` as a
  counter). `pc`, `job` are a request's next step and what it knows;
  `wpc`, `snap` the reconciler's; `subjectFenced`, `rowFenced` the erasure's
  fences. `AcceptDelivery`, `Call`, `WriteConnectionAccount` and
  `ReadConnectionAccountWriteReceipt` begin requests; `PrepareInvocation` to
  `ReplyAccountWrite` are their statements; `ScanReconciliation` to
  `PersistReconciliation` the reconciler's. `ProviderCall` chooses the
  provider's answer: applied, rejected, or lost with or without an effect.
  `io`, `effect`, `told` are history: calls made, effects, answers given.
* **ProviderTasks**: `task[t]` and `commit[c]` are the rows; a claim is
  `<<task, token>>`. The workers write the same `lease_owner`, so only tokens
  tell them apart. `payload_json` is the number of results absorbed; `due_at`
  is the number of times it was written, since the code compares it for
  equality. `inbox` and `receipt` are what a commit leaves in the inbox and in
  the ledger. `made[t]` is history: the claims whose commit rows were inserted
  since the state of `t` was last started afresh, to compare with the state.
* **EventInbox**: `event[e]`, `nonces`, `intent[e]`, the current `mapping`, the
  Runtime's executed keys (`started`, external; that it executes a key once is its
  own promise and no property here). A process serves webhooks, replays and worker
  rounds in any order.
* **CredentialStore**: rows and materials of one connection; a value is its
  number of issue, a fingerprint identifies a value, `clock` may stand still
  between writes. An answer of a provider names new values for any of the fields,
  and only those are compared and written; `granted[n]` is history, the fields that
  issue `n` named.
* **OAuthSession**: `session[s]` with the application revision it was started
  with, `late` for a deadline that has passed, `account[s]` for what was
  provisioned.
* **ConnectionAccounts**: `conn`, `account`, `reserved`, `secret`, `grant` are
  the tables. A write is two actions, the checks and the commit, which the
  constant `SingleConnection` keeps together (a pool of one) or lets interleave
  (PostgreSQL, MySQL at their defaults). "open" stands for the statuses
  configured, active, inactive and error; `ProvisionAccount` is atomic, its
  details being OAuthSession's. Administrators are never the erased subject.
  Connection and secret keys are trimmed before the stores see them, as the module's
  HTTP handlers do; section 5 says what happens where they are not.
* **ConnectionPool**: how the three shapes of operations hold connections.
* **AccountWrite**: the contract of an account write as its host sees it, with no
  processes: one claim with one payload, one call, one true outcome, an erasure
  that waits for it, and replies that are true when given and stay so. One step
  erases a set of writes, because one preparation freezes all of a subject's.
  **AccountWriteRefinement** maps the ledger's rows to it (`PhaseOf`, `ContentOf`):
  a running row is claimed, and called once its call was made; a row that is
  frozen or has lost its evidence is erased.
* **AccessScopes**: `AuthorizeDataAccess`, `scopedWhere`, `requireAllDataScope`
  and `ConnectionAccountAccess` as operators on a bundle, next to `Permitted`,
  what the policies mean without lists and columns.
* **PersonalRecords**: `rows[k]` is the row with the id of slot `k`, over the four
  small tables; `receipt[q]` the saved plan of an erasure request. A write is two
  actions: its checks and lookup, then its statement and commit. On
  `host = "one"` transactions follow each other (one connection), on a pool they
  interleave; the two statements are each atomic. Callers are HTTP principals with
  a bundle that `Authorized` accepts, or internal calls with a user and no scope;
  all writes but those of one's own push subscriptions need `AllData`. A request
  spells an actor in one of `Spellings`, the name itself or a padded form; `Trim` is
  `strings.TrimSpace`, applied where the code applies it, after the guard for API
  keys and external identities. `spelled` is history, what the writer put. Inputs are
  active rows: other statuses that a caller may give are reached by disabling.
  `InitialRows` are tables as earlier writes leave them (empty, or filled).
* **InvocationLedgerProofs** (with the refinement of AccountWrite),
  **ProviderTasksProofs**, **EventInboxProofs**, **CredentialStoreProofs**,
  **OAuthSessionProofs**, **ConnectionAccountsProofs**, **PersonalRecordsProofs**
  and **AccessScopeProofs**: the theorems about the module each is named after.
* **MC\***: model values, functions and symmetry sets for TLC.

The erasure is not a module of its own: its preparation and execution are
actions of each module that owns the rows, so that they interleave with the
writers they compete with. PersonalRecords has the receipt, its replay and a plan
that spans four tables; the other modules have one subject and its rows.

## 3. Runs

| Run | Instance | Shows |
| --- | --- | --- |
| `ledger` | 2 requests, 1 reconciler, one id of each kind (account write, sensitive call, standard call, delivery), 2 payloads, 1 change of the account | at most one provider call for account writes and sensitive identities; a held claim is intact; failed means no effect, succeeded means an effect; callers are not contradicted; terminal evidence and frozen rows stay; the ledger implements `AccountWrite` |
| `tasks_safety` | 2 replicas that declare different versions of 1 task, 3 claims, 1 crash, 2 attempts | a claim never runs on an overtaken state; one lease holder; state advances by one; every absorbed result has its commit and events and no other claim has; deliveries are counted; frozen tasks stay and send nothing |
| `tasks_live` | 2 replicas of one release, 2 tasks, one of which may wake the other, 3 attempts | every commit is delivered, given up or erased |
| `inbox_safety` | 2 processes, 1 event, 1 nonce, 2 requests, 1 replay, 1 republished mapping, 1 fault, 2 attempts | one request processes; no early dead letter; processed means started with a receipt; claims are exclusive; frozen events stay |
| `inbox_live` | 2 processes, 1 event, 6 claims, 1 replay, 1 fault | every event settles |
| `credential_rotation` | 2 calls that refresh any of 2 fields, 3 values, 2 instants, 1 administrative write | no field is older than what it was issued with; rotation replaces what was used, and nothing after revocation |
| `oauth` | 2 requests, 1 session, 2 application revisions, 1 crash | one exchange; connected exactly with an account; current client credentials; nothing after erasure; sessions settle |
| `accounts` | 2 requests, 2 connections (one OAuth), 1 credential and 1 environment reference, 1 user, one-connection host | reserved credentials are exclusive; reservations follow references; an erased subject holds nothing; revocation disables no foreign credential |
| `accounts_shared` (violated) | 1 request | section 5 |
| `records` | 2 goroutines, 2 users and a padded spelling of one, 7 bundles, 2 push ids and 2 endpoints, 1 API key, 2 identity keys and 1 external subject, 1 webhook key, 2 connections (one personal), 2 erasure requests with 2 provenances, 2 writes, both hosts | an erased subject keeps and regains nothing under its own name, and its external subjects stay unbound (one connection); all answers of a request are one plan; no caller leaves its policies or touches a frozen row; a cleanup is all or nothing (both hosts) |
| `records_padded` (violated) | 1 goroutine, one spelling more than users | section 5 |
| `pool_nested` (violated) | 2 goroutines, 1 connection | section 5 |

Each module states its type invariant (`TypeOK`), which no run lists; section 6
says where it is proved. `ImplementsAccountWrite` is the abstract specification
itself, checked as a property of the ledger.

Why the bounds are enough to be interesting: every race in these tables is
between two writers of one row, so two processes and one row of each kind reach
it; a third party (erasure, reconciler, timer, administrator) is always an
actor of its own. Claims, attempts and values are bounded one or two above what
a takeover, a retry and an exhausted limit need: the code's limit of 5 attempts
is 2 or 3, which keeps a first failure, a retry and the last one apart. Two requests with
one credential are enough for an alias, which needs one reference and one
publication. The bundles of `records` are an administrator, users with their own
scope, an organization's scope, and each kind of denial: one on a column the
table has, one on a column it lacks, and a guardrail. Two writes and two requests
reach a lookup, an erasure, another user's insert under the old id, and the
statement. The theorems of section 6 remove the bounds from every safety property.
Deadlock is checked where the system cannot stop (`accounts`); elsewhere
the bounds on requests and crashes end behaviours.

## 4. Fairness

* `ProviderTasks!FairSpec` and `EventInbox!FairSpec`: `StartWorkers`
  (`src/internal/assembly/saas/service.go:45`) runs every processor again after
  each tick, whatever errors a round returned. So a process finishes what it began (weak
  fairness of `Work`), and the rounds come back to a row that is due time and
  again, though it may be busy in between (strong fairness of the scans). Time
  passes (`LeaseExpires`). The tasks run has no crash: the scans of tasks
  and commits do not take `processing` rows, so a crash there is final, which
  is listed as a hazard. The inbox run has a crash: its scan takes expired leases.
* `OAuthSession!FairSpec`: the page that started the authorization polls it, and
  deadlines pass. Without polls an abandoned session keeps its stored status.

## 5. Where the code and its documents disagree

Runs show three of them:

* `accounts_shared`: `DeleteConnection` asks no fence and drops the reservations
  of a prepared connection; another connection may then reference the frozen
  credential, which the erasure deletes. The erasure contract says shared
  credentials are preserved.
* `pool_nested`: `ListEvents` and `synchronizeProviderTasks` query while their
  cursor holds the only connection of the standalone server. The comment at
  `connection_account_store.go:125` states the rule they break.
* `records_padded`: `CreateAPIKey` (`management_api_key_store.go:109`) and
  `UpsertExternalIdentity` (`management_identity_store.go:87`) ask the fence about
  `actor_id` as the request spells it, and trim it afterwards (`:116`, `:106`).
  `guardSubjectWrite` compares exactly, so after the erasure of `u1` a request with
  spaces around `u1` stores an active row of `u1`, on any host. The erasure contract
  calls the fences permanent. `FencedNameKeepsNothing` is what the code does keep:
  a request that names the subject as it is, is refused. Web push trims first
  (`web_push_subscription_store.go:147`), and so do the provider and the external
  subject of an identity.

The models also contain the following, for which no run is kept:

* `UpsertConnection` and `UpsertSecret` guard their key before they trim it too
  (`management_store.go:187`, `management_secret_store.go:91`). The module's handlers
  trim the key of the path (`src/internal/transport/http/module/management.go:263`,
  `:335`), those of the standalone service do not
  (`src/internal/transport/http/saas/management.go:99`, `:136`); ConnectionAccounts,
  and its theorems, are of trimmed keys. `RegisterConnectionAccount` guards again in
  its transaction, with what it trimmed;
* the comment at `connection_account_store.go:433` relies on both alias checks
  running inside the write transaction. At the default isolation of PostgreSQL or
  MySQL a request that references a credential and one that publishes an account
  on it both pass, and the reserved credential is shared (ConnectionAccounts with
  `SingleConnection = FALSE` violates `ReservedExclusively`);
* of two overlapping deliveries of a message the later failure overwrites the
  success of the other (`delivery.md`: "A confirmed success completes
  reconciliation"), and an erasure can be prepared between the two although the
  second is about to call the provider;
* a standard call with the RequestID of a sensitive one resets its row, and
  reconciliation stores a response in a sensitive row when its operation
  declares provider lookup;
* a row left running by a crash blocks preparation although nothing runs; a task
  reset by a new version while it runs does not;
* a webhook repeated with its nonce is refused instead of answered with the
  receipt (`src/capability/agent/webhooks.md:11`); an event replayed after its mapping
  was replaced starts a second target under another key (`webhooks.md:9`: "once"); an event can be inserted after its sender was fenced;
* a denial that arrives after the application was edited leaves the session
  pending until a poll finds it expired;
* a manifest requirement writes back the status it read and undoes a revocation
  in between; a grant row outlives the credentials it was given for;
* on a pool, a row whose guard passed before the erasure was prepared is inserted
  after it; the guards of the four small tables are statements of a transaction at
  the default isolation;
* webhook subscriptions are deleted without a fence, and a new one under the key
  of a planned row has its id, so the erasure blanks it; they are also created
  without one, on a personal connection whose owner was erased;
* the rotation of a frozen API key updates no row and still returns a token;
* a revoked or expired push subscription keeps its endpoint's hash, and the
  endpoint cannot be registered under another id.

## 6. Proofs

Every safety property of a passing run, invariant or action property, and the
refinement of `AccountWrite` are proved for all values of the constants. Each
proof module has one inductive invariant (checked by TLC on an instance or
proved inductive directly), a lemma for each action or group of actions that
move alike, `NextInv` which combines them, and the theorems that follow from it.
None of the properties is inductive alone; what the invariants add is said below.

Assumptions on the constants, each named in the module that declares it and
evaluated by TLC in its runs: bounds are naturals and attempt limits positive;
kinds of ids and of slots are disjoint; markers such as `None` and `NoContent`
are no values of their sets; a user's name is its own spelling; sets from which an idle process has a default
(`Sessions`, `Events`, `Tasks`, `Connections`, ids) are not empty;
`InitialRows` of PersonalRecords are rows of their types, none frozen, with an
external subject bound at most once (its unique key); a bundle belongs to a user.

**InvocationLedgerProofs**

| Theorem | States |
| --- | --- |
| `TypeCorrect` | `Spec => []TypeOK` |
| `AtMostOnce` | account writes and purely sensitive identities reach the provider at most once |
| `ClaimsStayIntact` | a held claim's row is running, carries its evidence and is not frozen |
| `FailureMeansNoEffect`, `SuccessMeansEffect` | recorded outcomes agree with the provider |
| `ConsistentReplies` | nobody is told failed once the effect happened, or failed after another caller was told succeeded |
| `FrozenStaysFrozen`, `EvidenceIsStable` | action properties: frozen rows and terminal account writes are only touched by an erasure |
| `Refinement` | `Spec => ImplementsAccountWrite` |

That a call is the first one depends on nobody else being past the claim, that a
failure means no effect on the outcome the process carries, and both on the claim
still being in the row. `IndInv` adds which handler a process is in (`KindFits`),
what a reconciler may hold (`LookupFits`), that claims under insert-only ids are
exclusive (`ClaimIsExclusive`), that a call made leaves nobody on the way to another
(`CallsAreSpent`), that outcomes in flight agree with the effect (`OutcomeFits`),
that a failed reply closes the identity (`RepliesSettle`), and that fences only
cover existing rows (`FencesFit`).

The refinement needs two facts more: an uncertain outcome in flight follows a call
(`UncertainWasCalled`), and a reply read earlier still agrees with its row
(`RepliesStand`). `Simulates` maps each step to a step of `AccountWrite` or to a
stutter. The proof corrected the contract: it used to erase one write at a time,
while `PrepareSubjectErasure` freezes all the writes of a subject in one
transaction. The run has one write id and could not tell the two apart.

**ProviderTasksProofs**: `TypeCorrect`, `HoldersAreCurrent`, `LeasesAreExclusive`,
`OutboxIsTransactional`, `SendsAreCounted`, and the action properties
`ResultsApplyOnce` and `FencedTasksKept`. `TasksInv` relates what a worker read to
the row as it is now (`TaskReader`, `CommitReader`): tokens and due times never run
backwards, a row with the scanned token and due time has the scanned state, and
claimed tokens and commits have one holder. `OutboxIsTransactional` counts: the
commits made since the state was started afresh are as many as the results it has
absorbed, all distinct, and present with their events. `OutboxInv` is inductive over
`TasksInv`: a result appends a claim whose token is above all earlier ones of its
task, so the commit row it inserts is new, and `StateStep` says which steps move a
state at all. Dropping the lease's token from the update, the token from the claim,
or the reset of a new version each breaks the property in TLC, next to a rollback
that leaves the outbox behind.

**EventInboxProofs**: `TypeCorrect`, `OneInlineProcessing`,
`DeadLettersWereTried`, `ProcessedEventsRan`, `OneWorkerPerClaim`, and the action
property `FencedRowsKept`. In `InboxInv` a process is never ahead of the tables: the
attempt it carries was counted, its token was issued, and a result "processed" in
flight was executed. Lost leases are why tokens must stay exclusive also among
workers that were overtaken.

**CredentialStoreProofs**: `GrantsAreNotTorn`, and the action properties
`RotationIsOfTheValueUsed` and `RevokedSecretsAreKept`. `StoreInv` says that the
fingerprint of a row is that of its material, that the values of a field grow in the
order of issue, and that a call's fingerprint is no newer than its value and that
no newer than the material. So a row that still has the fingerprint read first has
the value read second, although the two reads are not one. A grant is not torn
because an answer's fields are written together and a field is only ever replaced by
a later issue: the fields that were issued with a stored value hold that issue or a
newer one, whatever subsets later answers name. `NewStamp`
is a fold over the fields, for which no type can be proved; nothing depends on it,
and no `TypeCorrect` is claimed here.

**OAuthSessionProofs**: `TypeCorrect`, `CodesAreSingleUse`,
`ConnectedExactlyWithAccount`, and the action properties `NoStaleCredentials` and
`FenceStopsProvisioning`. `SessionInv` says that a drawn id is nobody else's, that a
claimed session has one request past the claim, which has not sent the code yet,
and that a timeout or a failure closes only open sessions, to a state without an account.

**ConnectionAccountsProofs**: `TypeCorrect`, `ReservationsAreExclusive`,
`ReservationsAreOfRefs`, `ErasureIsFinal` and the action property
`RevocationIsPrivate`, all under `SingleConnection`, without which the first is
false (section 5). `AccountsInv` says that what the one open transaction checked
still holds (`JobInv`), that an account has a connection (`RowInv`), and what a plan
and the rows owe each other (`PlanInv`): a fenced connection belongs to the subject,
or its row was deleted and it references nothing, and the reservations, grants and
rows of the subject's accounts are those of the plan.

**PersonalRecordsProofs**: `TypeCorrect`, `FencedNamesStayErased`,
`ExternalsStayUnbound`, `OnePlanPerRequest`, and the action properties
`WritesStayInPolicy` and `CleanupIsWhole`. The first two invariants are of the
one-connection host by their statement, the others of both. `RecordsInv` says that a
frozen row is fenced, that a row an internal caller found as its own is its own or
fenced, that a receipt's fences stand and its answers are its plan, and on one
connection that a guard that passed still holds, for the name the request spelled:
the conclusion is of rows whose writer spelled the subject as the fence does, which
is as far as the code goes (section 5). `WritesStayInPolicy` rests on the
theorems of AccessScopeProofs.

**AccessScopeProofs**, without assumptions on the constants:

| Theorem | States |
| --- | --- |
| `VisibleIsPermitted` | a row that a scoped statement touches is permitted by the policies, whatever the owner columns that the table lacks would have said |
| `AllDataPermitsEverything` | a scope that passes the all-data check permits every row |
| `AccountAccessIsPermitted` | the accounts that `ConnectionAccountAccess` opens are permitted |

The argument has two lemmas: what a policy denies is in a denied list
(`DenialIsListed`), and what an allow list names is covered by an allowing scope
(`AllowanceIsGranted`).

Only model-checked: liveness (`CommitsSettle`, `EventsSettle`, `SessionsSettle`), since fairness and ENABLED are out of the prover's reach; that
`NewStamp` and its fold are of their types, which takes induction over the sequence
of fields; and the three violated properties, which are counterexamples.

## 7. Plan

Done: the ledger with its theorems and its contract, a model of every table that
several actors write, authorization, an erasure whose plan spans tables, and a
proof of every safety property. Next, in this order:

1. what holds on a pool of several connections: which of the properties of
   ConnectionAccounts and PersonalRecords survive without `SingleConnection`
   (reservations are unique, and a row's fence holds, on any host), as theorems of
   their own;
2. the reconciliation scan's page, which is limited before rows that are not due
   are skipped (`provider_worker_store.go:497`), and `due_at` as text and instant;
3. spellings of connection and secret keys in ConnectionAccounts, as PersonalRecords
   has them for actors.

## 8. Not modelled

The catalog (idempotent rewrites at start-up), HTTP and SDK adapters beyond the
authorization of a route (decoding, encoding and forwarding), connector transport
and migrations (I/O and wiring). Within modelled components: connection selection,
listings, readiness reports, payload mapping, signatures, encryption, tokens and
push keys, `ResolveExternalIdentity` (which sets only `last_resolved_at`), the
validation of an access bundle, preview and export of an erasure. Providers and
the Runtime are external: they appear as the answers the code distinguishes.
