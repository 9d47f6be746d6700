------------------------- MODULE ConnectionAccounts -------------------------
(***************************************************************************)
(* Who may use which credential: connections, the accounts published on    *)
(* them, and the credentials reserved for an account, as ManagementStore   *)
(* administers them, OAuth provisioning creates them, manifest             *)
(* requirements synchronise them and subject erasure removes them.         *)
(*                                                                         *)
(* A write is a transaction at the isolation the database defaults to: it  *)
(* reads what it checks, then writes and commits.  On the standalone       *)
(* service the pool has one connection, so transactions run one at a time  *)
(* (SingleConnection); a PostgreSQL or MySQL host interleaves them.  Only  *)
(* erasure asks for serializable transactions.                             *)
(***************************************************************************)
EXTENDS FiniteSets

CONSTANTS
    Procs,             \* requests in flight
    Connections,       \* connection keys, as the handlers trim them
    Sessions,          \* the keys that OAuth sessions provision
    Secrets,           \* secret keys, trimmed likewise
    TokenOf,           \* TokenOf[c]: the secret that session c stores
    Users,             \* owners of personal accounts
    EnvRef,            \* a reference that is not managed material (env:...)
    Shared,            \* the owner of a workspace account
    None,              \* no row
    SingleConnection   \* the pool holds one connection

ASSUME AccountsAssumption ==
    /\ Sessions \subseteq Connections
    /\ TokenOf \in [Sessions -> Secrets]
    /\ \A c, d \in Sessions : TokenOf[c] = TokenOf[d] => c = d
    /\ EnvRef \notin Secrets /\ Shared \notin Users
    /\ None \notin Connections \cup Users \cup {Shared}
    /\ None \notin {"connection", "manifest", "active", "unusable", "erasing"}
    /\ Connections # {}
    /\ SingleConnection \in BOOLEAN

VARIABLES
    conn,         \* conn[c]: the row of _integration_connections
    account,      \* account[c]: the owner in _integration_connection_accounts
    reserved,     \* reserved[s]: the row of _integration_connection_account_secrets
    secret,       \* secret[s]: the row and material of s
    grant,        \* connections with a row in _integration_connection_grants
    plan,         \* plan[u]: the erasure receipt of subject u
    job,          \* job[p]: what request p has read
    lost          \* history: credentials erased under another connection

vars == <<conn, account, reserved, secret, grant, plan, job, lost>>

-----------------------------------------------------------------------------
Owners == Users \cup {Shared}

\* The references normalizeProviderConnection lets through.
Refs == SUBSET (Secrets \cup {EnvRef})

\* An administrator's row and a manifest's row have different primary keys.
\* "open" stands for configured, active, inactive and error.
ConnRow == [id: {None, "connection", "manifest"},
            status: {"open", "revoked", "erasing"}, refs: Refs]

\* "active": active managed material; "unusable": any other row.
SecretRow == {None, "active", "unusable", "erasing"}

\* The rows a prepared erasure froze, and the keys it fenced.
Plan == [state: {"none", "prepared", "erased"}, keys: SUBSET Connections,
         rows: SUBSET (Connections \X {"connection", "manifest"}),
         pairs: SUBSET (Connections \X Secrets), grants: SUBSET Connections,
         secrets: SUBSET Secrets]

Job == [op: {"idle", "upsert", "register", "sync"}, c: Connections,
        refs: Refs, owner: Owners \cup {None},
        id: {None, "connection", "manifest"}, status: {"open", "revoked"}]

TypeOK ==
    /\ conn \in [Connections -> ConnRow]
    /\ account \in [Connections -> Owners \cup {None}]
    /\ reserved \in [Secrets -> Connections \cup {None}]
    /\ secret \in [Secrets -> SecretRow]
    /\ grant \in SUBSET Connections
    /\ plan \in [Users -> Plan]
    /\ job \in [Procs -> Job]
    /\ lost \in SUBSET Secrets

NoRow == [id |-> None, status |-> "open", refs |-> {}]
NoPlan == [state |-> "none", keys |-> {}, rows |-> {}, pairs |-> {},
           grants |-> {}, secrets |-> {}]
Idle == [op |-> "idle", c |-> CHOOSE c \in Connections : TRUE, refs |-> {},
         owner |-> None, id |-> None, status |-> "open"]

Init ==
    /\ conn = [c \in Connections |-> NoRow]
    /\ account = [c \in Connections |-> None]
    /\ reserved = [s \in Secrets |-> None]
    /\ secret = [s \in Secrets |-> None]
    /\ grant = {}
    /\ plan = [u \in Users |-> NoPlan]
    /\ job = [p \in Procs |-> Idle]
    /\ lost = {}

-----------------------------------------------------------------------------
(* Fences, transactions and the checks on credentials.                     *)

FencedSubjects == {u \in Users : plan[u].state # "none"}
FencedConnections == UNION {plan[u].keys : u \in Users}

\* The variant forgets the fences when the erasure is done.
FencedWhilePrepared ==
    UNION {plan[u].secrets : u \in {v \in Users : plan[v].state = "prepared"}}
FencedSecrets == UNION {plan[u].secrets : u \in Users}

RowFences == UNION {plan[u].rows : u \in Users}

RowWriteAllowed(c) == conn[c].id # None /\ <<c, conn[c].id>> \notin RowFences

\* A transaction can begin: the one connection of the pool is free.
CanBegin ==
    SingleConnection => \A p \in Procs : job[p].op \notin {"upsert", "register"}

\* UpsertConnection writes its row first and holds it to the end.
Unlocked(c) == \A p \in Procs : ~(job[p].op = "upsert" /\ job[p].c = c)

\* rejectReservedAccountSecrets
NotReservedByOther(c, refs) ==
    \A s \in refs \cap Secrets : reserved[s] \in {None, c}

\* rejectExistingCredentialAliases; the variant looks at published accounts
\* only.
NoAliasOfAccounts(c, refs) ==
    \A d \in Connections \ {c} : account[d] # None => refs \cap conn[d].refs = {}
NoAlias(c, refs) == \A d \in Connections \ {c} : refs \cap conn[d].refs = {}

\* What syncConnectionAccountSecrets asks of an account's references.
Publishable(c, refs) ==
    /\ refs \subseteq Secrets
    /\ NoAlias(c, refs)
    /\ \A s \in refs : secret[s] = "active"

\* syncConnectionAccountSecrets replaces the account's reservations.
Reserve(c, refs) ==
    [s \in Secrets |-> IF s \in refs THEN c
                       ELSE IF reserved[s] = c THEN None ELSE reserved[s]]

-----------------------------------------------------------------------------
(* UpsertConnection and RegisterConnectionAccount, each a transaction.     *)

CheckUpsert(p, c, refs) ==
    /\ job[p].op = "idle" /\ CanBegin /\ Unlocked(c)
    /\ c \notin FencedConnections
    /\ NotReservedByOther(c, refs)
    /\ account[c] # None => Publishable(c, refs)
    /\ job' = [job EXCEPT ![p] = [op |-> "upsert", c |-> c, refs |-> refs,
                                  owner |-> account[c], id |-> None, status |-> "open"]]
    /\ UNCHANGED <<conn, account, reserved, secret, grant, plan, lost>>

\* The row the statement leaves behind: inserted, updated, or fenced and kept.
Upserted(c, refs) ==
    IF conn[c].id = None
    THEN [id |-> "connection", status |-> "open", refs |-> refs]
    ELSE IF RowWriteAllowed(c)
    THEN [id |-> conn[c].id, status |-> "open", refs |-> refs]
    ELSE conn[c]

\* Only an account's references are reserved; (workspace, secret) is unique.
CommitUpsert(p) ==
    LET j == job[p]
        publishes == j.owner # None
        fails == publishes /\ ~NotReservedByOther(j.c, j.refs)
    IN /\ j.op = "upsert"
       /\ job' = [job EXCEPT ![p] = Idle]
       /\ conn' = IF fails THEN conn
                  ELSE [conn EXCEPT ![j.c] = Upserted(j.c, j.refs)]
       /\ reserved' = IF publishes /\ ~fails THEN Reserve(j.c, j.refs) ELSE reserved
       /\ UNCHANGED <<account, secret, grant, plan, lost>>

\* Registering an existing account reads it back, or fails on another owner.
CheckRegister(p, c, owner) ==
    LET refs == conn[c].refs
    IN /\ job[p].op = "idle" /\ CanBegin
       /\ c \notin FencedConnections /\ owner \notin FencedSubjects
       /\ conn[c].id # None /\ account[c] = None
       /\ NotReservedByOther(c, refs) /\ Publishable(c, refs)
       /\ job' = [job EXCEPT ![p] = [op |-> "register", c |-> c, refs |-> refs,
                                     owner |-> owner, id |-> None, status |-> "open"]]
       /\ UNCHANGED <<conn, account, reserved, secret, grant, plan, lost>>

\* A second account row, a reservation taken meanwhile, or a connection that
\* has gone when the account is read back: the transaction rolls back.
CommitRegister(p) ==
    LET j == job[p]
        fails == \/ account[j.c] # None
                 \/ conn[j.c].id = None
                 \/ ~NotReservedByOther(j.c, j.refs)
    IN /\ j.op = "register"
       /\ job' = [job EXCEPT ![p] = Idle]
       /\ account' = IF fails THEN account ELSE [account EXCEPT ![j.c] = j.owner]
       /\ reserved' = IF fails THEN reserved ELSE Reserve(j.c, j.refs)
       /\ UNCHANGED <<conn, secret, grant, plan, lost>>

-----------------------------------------------------------------------------
(* The other administrative writes.                                        *)

\* No fence is asked, and the grant row stays.
DeleteConnection(c) ==
    /\ CanBegin /\ Unlocked(c)
    /\ conn[c].id # None
    /\ conn' = [conn EXCEPT ![c] = NoRow]
    /\ account' = [account EXCEPT ![c] = None]
    /\ reserved' = Reserve(c, {})
    /\ UNCHANGED <<secret, grant, plan, job, lost>>

SetConnectionStatus(c, status) ==
    /\ CanBegin /\ Unlocked(c)
    /\ RowWriteAllowed(c)
    /\ conn' = [conn EXCEPT ![c] =
           [id |-> conn[c].id, status |-> status, refs |-> conn[c].refs]]
    /\ UNCHANGED <<account, reserved, secret, grant, plan, job, lost>>

\* The credentials RevokeConnectionAccount revokes with the account; the
\* variant takes those of all the owner's accounts.
OwnerSecrets(c) ==
    {s \in Secrets : reserved[s] # None /\ account[reserved[s]] = account[c]}
AccountSecrets(c) == {s \in Secrets : reserved[s] = c}

RevokeConnectionAccount(c) ==
    /\ CanBegin /\ Unlocked(c)
    /\ account[c] # None /\ conn[c].status # "revoked" /\ RowWriteAllowed(c)
    /\ conn' = [conn EXCEPT ![c] =
           [id |-> conn[c].id, status |-> "revoked", refs |-> conn[c].refs]]
    /\ secret' = [s \in Secrets |->
           IF s \in AccountSecrets(c) \ FencedSecrets /\ secret[s] = "active"
           THEN "unusable" ELSE secret[s]]
    /\ UNCHANGED <<account, reserved, grant, plan, job, lost>>

\* With a value the secret becomes managed material; a new one without is not.
UpsertSecret(s) ==
    /\ CanBegin
    /\ s \notin FencedSecrets
    /\ \E status \in {"active", "unusable"} :
           /\ status = "unusable" => secret[s] = None
           /\ secret' = [secret EXCEPT ![s] = status]
    /\ UNCHANGED <<conn, account, reserved, grant, plan, job, lost>>

\* Disabled, expired or revoked; or rotated back to active.
TransitionSecret(s) ==
    /\ CanBegin
    /\ secret[s] # None /\ s \notin FencedSecrets
    /\ \E status \in {"active", "unusable"} : secret' = [secret EXCEPT ![s] = status]
    /\ UNCHANGED <<conn, account, reserved, grant, plan, job, lost>>

\* CompleteAuthorization's last transaction: the token, the connection, the
\* account and the grant row, whose key is unique.
ProvisionAccount(c, owner) ==
    LET token == TokenOf[c]
    IN /\ CanBegin /\ Unlocked(c)
       /\ c \notin FencedConnections /\ owner \notin FencedSubjects
       /\ token \notin FencedSecrets
       /\ NotReservedByOther(c, {token}) /\ NoAlias(c, {token})
       /\ account[c] \in {None, owner} /\ c \notin grant
       /\ secret' = [secret EXCEPT ![token] = "active"]
       /\ conn' = [conn EXCEPT ![c] = Upserted(c, {token})]
       /\ account' = [account EXCEPT ![c] = owner]
       /\ reserved' = Reserve(c, {token})
       /\ grant' = grant \cup {c}
       /\ UNCHANGED <<plan, job, lost>>

\* enrichAccountReadiness reports the account available when all its references
\* are active managed material; a provider may require no reference at all.
Available(c) ==
    /\ account[c] # None /\ conn[c].status = "open"
    /\ conn[c].refs \subseteq {s \in Secrets : secret[s] = "active"}

-----------------------------------------------------------------------------
(* SynchronizeConnections reads a row and writes it later, in no           *)
(* transaction.                                                            *)

ValidConnectionStatus(status) == status \in {"open", "revoked"}

ReadRequirement(p, c) ==
    /\ job[p].op = "idle" /\ CanBegin
    /\ ValidConnectionStatus(conn[c].status)
    /\ job' = [job EXCEPT ![p] = [op |-> "sync", c |-> c, refs |-> conn[c].refs,
                                  owner |-> None, id |-> conn[c].id,
                                  status |-> conn[c].status]]
    /\ UNCHANGED <<conn, account, reserved, secret, grant, plan, lost>>

\* The row was found: its status is written back, its references are not, and
\* in the variant they are.  It was not: a row without references is inserted,
\* if none has appeared.
WrittenBack(j, refs) ==
    CASE j.id # None /\ conn[j.c].id = j.id /\ RowWriteAllowed(j.c) ->
             [id |-> j.id, status |-> j.status, refs |-> refs]
      [] j.id = None /\ conn[j.c].id = None ->
             [id |-> "manifest", status |-> "open", refs |-> {}]
      [] OTHER -> conn[j.c]
SynchronizedWhole(j) == WrittenBack(j, j.refs)
Synchronized(j) == WrittenBack(j, conn[j.c].refs)

WriteRequirement(p) ==
    LET j == job[p]
    IN /\ j.op = "sync" /\ CanBegin /\ Unlocked(j.c)
       /\ job' = [job EXCEPT ![p] = Idle]
       /\ conn' = [conn EXCEPT ![j.c] = Synchronized(j)]
       /\ UNCHANGED <<account, reserved, secret, grant, plan, lost>>

-----------------------------------------------------------------------------
(* Subject erasure.                                                        *)

PersonalConnections(u) == {c \in Connections : account[c] = u}

\* The credentials of the subject's connections that no other one references.
ExclusiveSecrets(u) ==
    LET keys == PersonalConnections(u)
        owned == (UNION {conn[c].refs \cap Secrets : c \in keys})
                     \cup {s \in Secrets : reserved[s] \in keys}
        shared == UNION {conn[c].refs : c \in Connections \ keys}
    IN owned \ shared

PrepareSubjectErasure(u) ==
    LET keys == PersonalConnections(u)
        secrets == ExclusiveSecrets(u)
        rows == {<<c, conn[c].id>> : c \in {d \in keys : conn[d].id # None}}
        frozen == [state |-> "prepared", keys |-> keys, rows |-> rows,
                   pairs |-> {q \in keys \X Secrets : reserved[q[2]] = q[1]},
                   grants |-> grant \cap keys, secrets |-> secrets]
    IN /\ CanBegin /\ \A c \in keys : Unlocked(c)
       /\ plan[u].state = "none"
       /\ plan' = [plan EXCEPT ![u] = frozen]
       /\ conn' = [c \in Connections |->
              IF <<c, conn[c].id>> \in rows
              THEN [id |-> conn[c].id, status |-> "erasing", refs |-> conn[c].refs]
              ELSE conn[c]]
       /\ secret' = [s \in Secrets |->
              IF s \in secrets /\ secret[s] # None THEN "erasing" ELSE secret[s]]
       /\ UNCHANGED <<account, reserved, grant, job, lost>>

\* Each frozen row is cleared or deleted by its primary key.
ErasePreparedSubject(u) ==
    LET p == plan[u]
    IN /\ CanBegin /\ \A c \in p.keys : Unlocked(c)
       /\ p.state = "prepared"
       /\ plan' = [plan EXCEPT ![u].state = "erased"]
       /\ conn' = [c \in Connections |->
              IF <<c, conn[c].id>> \in p.rows
              THEN [id |-> conn[c].id, status |-> "revoked", refs |-> {}]
              ELSE conn[c]]
       /\ reserved' = [s \in Secrets |->
              IF <<reserved[s], s>> \in p.pairs THEN None ELSE reserved[s]]
       /\ secret' = [s \in Secrets |-> IF s \in p.secrets THEN None ELSE secret[s]]
       /\ grant' = grant \ p.grants
       /\ lost' = lost \cup {s \in p.secrets :
              \E c \in Connections \ p.keys : s \in conn[c].refs}
       /\ UNCHANGED <<account, job>>

-----------------------------------------------------------------------------
Next ==
    \/ \E p \in Procs, c \in Connections, refs \in Refs : CheckUpsert(p, c, refs)
    \/ \E p \in Procs : CommitUpsert(p)
    \/ \E p \in Procs, c \in Connections, u \in Owners : CheckRegister(p, c, u)
    \/ \E p \in Procs : CommitRegister(p)
    \/ \E c \in Connections : DeleteConnection(c)
    \/ \E c \in Connections, status \in {"open", "revoked"} :
           SetConnectionStatus(c, status)
    \/ \E c \in Connections : RevokeConnectionAccount(c)
    \/ \E s \in Secrets : UpsertSecret(s)
    \/ \E s \in Secrets : TransitionSecret(s)
    \/ \E c \in Sessions, u \in Owners : ProvisionAccount(c, u)
    \/ \E p \in Procs, c \in Connections \ Sessions : ReadRequirement(p, c)
    \/ \E p \in Procs : WriteRequirement(p)
    \/ \E u \in Users : PrepareSubjectErasure(u)
    \/ \E u \in Users : ErasePreparedSubject(u)

Spec == Init /\ [][Next]_vars

-----------------------------------------------------------------------------
(* A credential reserved for a published account is referenced by no other *)
(* connection: rejectReservedAccountSecrets refuses the reference and      *)
(* rejectExistingCredentialAliases the publication, whichever comes first, *)
(* and deletion, synchronisation and erasure keep it so.                   *)
ReservedExclusively ==
    \A s \in Secrets, c \in Connections :
        reserved[s] \notin {None, c} => s \notin conn[c].refs

(* The reservations of an account are exactly the credentials its          *)
(* connection references, and a connection without an account has none:    *)
(* UpsertConnection and RegisterConnectionAccount roll back as a whole and *)
(* a requirement written back late brings no old references with it.       *)
ReservationsFollowRefs ==
    \A c \in Connections :
        {s \in Secrets : reserved[s] = c} = IF account[c] = None THEN {}
                                           ELSE conn[c].refs

(* Once a subject is erased, no account of theirs references a credential, *)
(* holds a grant or is reported available, and the credentials frozen with *)
(* the plan do not come back: the fences on the subject, the connections   *)
(* and the secrets stop every later write.                                 *)
ErasedSubjectHoldsNothing ==
    \A u \in Users : plan[u].state = "erased" =>
        /\ \A c \in PersonalConnections(u) :
              conn[c].refs = {} /\ c \notin grant /\ ~Available(c)
        /\ \A s \in plan[u].secrets : secret[s] = None

(* RevokeConnectionAccount disables no credential that another connection  *)
(* references, although it takes them from the reservation table and never *)
(* looks at the other connections.                                         *)
RevocationStaysPrivate ==
    [][\A c \in Connections, s \in Secrets :
          /\ conn[c].status # "revoked" /\ conn'[c].status = "revoked"
          /\ secret[s] = "active" /\ secret'[s] = "unusable"
          => \A d \in Connections \ {c} : s \notin conn[d].refs]_vars

(* An erasure deletes no credential that a connection outside the plan     *)
(* references when it runs: "credentials referenced by another connection  *)
(* are preserved".  DeleteConnection asks no fence, so it can drop the     *)
(* reservation of a frozen credential between preparation and erasure.     *)
SharedCredentialsArePreserved == lost = {}

=============================================================================
