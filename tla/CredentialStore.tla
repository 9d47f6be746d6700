-------------------------- MODULE CredentialStore --------------------------
(***************************************************************************)
(* The credentials of one connection account: the rows of                  *)
(* _integration_secrets and the encrypted values in                        *)
(* _integration_secret_materials, as ManagementStore administers them,     *)
(* SecretResolver reads them for a provider call, and                      *)
(* persistProviderSecretUpdates stores what the provider rotated meanwhile. *)
(*                                                                         *)
(* A reader takes a secret's row and its material in two statements, field *)
(* by field; writers are transactions.  Values are numbered in the order   *)
(* they are issued, 0 is no value, and a fingerprint identifies its value. *)
(***************************************************************************)
EXTENDS Naturals, SequencesExt

CONSTANTS
    Procs,       \* provider calls in flight
    FieldOrder,  \* the secret fields of the connection, sorted
    MaxIssued,   \* bound: values issued
    MaxClock,    \* bound: instants of the clock
    MaxAdmin     \* bound: administrative writes

ASSUME CredentialAssumption ==
    /\ Len(FieldOrder) > 0
    /\ MaxIssued \in Nat \ {0} /\ MaxClock \in Nat /\ MaxAdmin \in Nat

Fields == Range(FieldOrder)

VARIABLES
    secret,      \* secret[f]: status, fingerprint, updated_at
    material,    \* material[f]: the stored value
    lapsed,      \* fields whose expires_at has passed
    expiring,    \* fields the expiration worker has read as due
    connection,  \* "active" or "revoked"
    clock,       \* the host's clock; several writes may share an instant
    issued,      \* values issued so far
    granted,     \* granted[n]: the fields for which value n was issued (history)
    admin,       \* administrative writes so far
    pc,          \* pc[p]: the next step of call p
    cand         \* cand[p]: what call p has read and been given

rows == <<secret, material, lapsed, connection>>
vars == <<rows, expiring, clock, issued, granted, admin, pc, cand>>

-----------------------------------------------------------------------------
Statuses == {"active", "disabled", "expired", "revoked"}
Version == [fingerprint: Nat, stamp: Nat]
SecretRow == [status: Statuses, fingerprint: Nat, stamp: Nat]
Steps == {"idle", "row", "material", "call", "apply"}

\* todo: fields still to resolve; field: the one whose row was just read;
\* version, value: the snapshot; updates: what the provider returned, 0 for none.
Cand == [todo: SUBSET Fields, field: Fields, version: [Fields -> Version],
         value: [Fields -> Nat], updates: [Fields -> Nat]]

TypeOK ==
    /\ secret \in [Fields -> SecretRow]
    /\ material \in [Fields -> Nat]
    /\ lapsed \in SUBSET Fields
    /\ expiring \in SUBSET Fields
    /\ connection \in {"active", "revoked"}
    /\ clock \in Nat
    /\ issued \in 1..MaxIssued
    /\ granted \in [1..MaxIssued -> SUBSET Fields]
    /\ admin \in Nat
    /\ pc \in [Procs -> Steps]
    /\ cand \in [Procs -> Cand]

NoCand == [todo |-> Fields, field |-> CHOOSE f \in Fields : TRUE,
           version |-> [f \in Fields |-> [fingerprint |-> 0, stamp |-> 0]],
           value |-> [f \in Fields |-> 0], updates |-> [f \in Fields |-> 0]]

\* The account has been connected: its fields hold the values of one grant.
Init ==
    /\ secret = [f \in Fields |-> [status |-> "active", fingerprint |-> 1, stamp |-> 0]]
    /\ material = [f \in Fields |-> 1]
    /\ lapsed = {}
    /\ expiring = {}
    /\ connection = "active"
    /\ clock = 0
    /\ issued = 1
    /\ granted = [n \in 1..MaxIssued |-> IF n = 1 THEN Fields ELSE {}]
    /\ admin = 0
    /\ pc = [p \in Procs |-> "idle"]
    /\ cand = [p \in Procs |-> NoCand]

Goto(p, step) == pc' = [pc EXCEPT ![p] = step]
Return(p) == Goto(p, "idle") /\ cand' = [cand EXCEPT ![p] = NoCand]

-----------------------------------------------------------------------------
(* ResolveSecretReferencesSnapshot, for a call on an active connection *)

StartCall(p) ==
    /\ pc[p] = "idle"
    /\ connection = "active"
    /\ Goto(p, "row")
    /\ UNCHANGED <<rows, expiring, clock, issued, granted, admin, cand>>

\* The secret's row; it must be active and not past its expires_at.
ReadRow(p) ==
    \E f \in cand[p].todo :
        /\ pc[p] = "row"
        /\ \/ /\ secret[f].status = "active" /\ f \notin lapsed
              /\ cand' = [cand EXCEPT ![p].field = f,
                    ![p].version[f] = [fingerprint |-> secret[f].fingerprint,
                                       stamp |-> secret[f].stamp]]
              /\ Goto(p, "material")
           \/ /\ ~(secret[f].status = "active" /\ f \notin lapsed)
              /\ Return(p)
        /\ UNCHANGED <<rows, expiring, clock, issued, granted, admin>>

\* Its material, in a second statement.
ReadMaterial(p) ==
    LET f == cand[p].field IN
    /\ pc[p] = "material"
    /\ cand' = [cand EXCEPT ![p].todo = @ \ {f}, ![p].value[f] = material[f]]
    /\ Goto(p, IF cand[p].todo = {f} THEN "call" ELSE "row")
    /\ UNCHANGED <<rows, expiring, clock, issued, granted, admin>>

\* A new value for some fields at once.
Issue(fields) ==
    /\ issued < MaxIssued
    /\ issued' = issued + 1
    /\ granted' = [granted EXCEPT ![issued + 1] = fields]

\* The provider is called with the values; its answer names no new value, or
\* those of any fields that it rotated together: an OAuth refresh may return
\* an access token alone, or a refresh token with it.
CallProvider(p) ==
    /\ pc[p] = "call"
    /\ \/ /\ Return(p)
          /\ UNCHANGED <<issued, granted>>
       \/ \E fields \in SUBSET Fields \ {{}} :
          /\ Issue(fields)
          /\ cand' = [cand EXCEPT ![p].updates =
                [f \in Fields |-> IF f \in fields THEN issued + 1 ELSE 0]]
          /\ Goto(p, "apply")
    /\ UNCHANGED <<rows, expiring, clock, admin>>

-----------------------------------------------------------------------------
(* ApplySecretUpdatesIfCurrent, one transaction *)

\* The row is active material and still the version that was read.  The
\* variants compare the time alone, and forget the status.
SameStamp(row, version) == row.status = "active" /\ row.stamp = version.stamp
AnyStatus(row, version) == row.fingerprint = version.fingerprint
                           /\ row.stamp = version.stamp
Current(row, version) == /\ row.status = "active"
                         /\ row.fingerprint = version.fingerprint
                         /\ row.stamp = version.stamp

Updated(p) == {f \in Fields : cand[p].updates[f] # 0}

\* The fields a transaction writes: all that the answer names, or none.  Fields
\* it does not name are neither compared nor written.  The variant writes those
\* that are current and leaves the others.
WritableEach(p) == {f \in Updated(p) : Current(secret[f], cand[p].version[f])}
Writable(p) == IF \A f \in Updated(p) : Current(secret[f], cand[p].version[f])
               THEN Updated(p) ELSE {}

\* The time written: one loop over the updated rows moves it past a time it
\* equals.
NewStamp(p) ==
    FoldLeft(LAMBDA now, f : IF f \in Updated(p) /\ now = secret[f].stamp
                             THEN now + 1 ELSE now,
             clock, FieldOrder)

\* The materials after an update.
Rotated(p) == [f \in Fields |->
    IF f \in Writable(p) THEN cand[p].updates[f] ELSE material[f]]

ApplyUpdates(p) ==
    /\ pc[p] = "apply"
    /\ secret' = [f \in Fields |->
          IF f \in Writable(p)
          THEN [status |-> secret[f].status, fingerprint |-> cand[p].updates[f],
                stamp |-> NewStamp(p)]
          ELSE secret[f]]
    /\ material' = Rotated(p)
    /\ Return(p)
    /\ UNCHANGED <<lapsed, connection, expiring, clock, issued, granted, admin>>

-----------------------------------------------------------------------------
(* Administration, one transaction each *)

Administer == admin < MaxAdmin /\ admin' = admin + 1

\* UpsertSecret, with a new value or without one, and RotateSecret, which adds
\* the transition to it: the secret is active again and may expire later.
UpsertSecret ==
    \E f \in Fields, replace \in BOOLEAN :
        /\ Administer
        /\ IF replace THEN Issue({f}) ELSE UNCHANGED <<issued, granted>>
        /\ material' = IF replace THEN [material EXCEPT ![f] = issued + 1] ELSE material
        /\ secret' = [secret EXCEPT ![f] =
              [status |-> "active", stamp |-> clock,
               fingerprint |-> IF replace THEN issued + 1 ELSE @.fingerprint]]
        /\ lapsed' = lapsed \ {f}
        /\ UNCHANGED <<connection, expiring, clock, pc, cand>>

\* The status a transition leads to.
Transitions == {"disable", "expire", "revoke", "rotate"}
TransitionStatus(t) == CASE t = "disable" -> "disabled"
                         [] t = "expire" -> "expired"
                         [] t = "revoke" -> "revoked"
                         [] t = "rotate" -> "active"

\* TransitionSecret; "rotate" makes the secret active with the value it has.
TransitionSecret ==
    \E f \in Fields, t \in Transitions :
        /\ Administer
        /\ secret' = [secret EXCEPT ![f] =
              [status |-> TransitionStatus(t), fingerprint |-> @.fingerprint,
               stamp |-> clock]]
        /\ lapsed' = IF t = "expire" THEN lapsed \cup {f} ELSE lapsed
        /\ UNCHANGED <<material, connection, expiring, clock, issued, granted, pc, cand>>

\* RevokeConnectionAccount: the connection and its active secrets.
RevokeAccount ==
    /\ connection = "active"
    /\ connection' = "revoked"
    /\ secret' = [f \in Fields |->
          IF secret[f].status # "active" THEN secret[f]
          ELSE [status |-> "revoked", fingerprint |-> secret[f].fingerprint,
                stamp |-> clock]]
    /\ UNCHANGED <<material, lapsed, expiring, clock, issued, granted, admin, pc, cand>>

-----------------------------------------------------------------------------
(* ProcessDueCredentialExpirations: the scan, then one update per secret *)

ScanExpired ==
    /\ expiring = {}
    /\ expiring' = {f \in lapsed : secret[f].status = "active"}
    /\ expiring' # {}
    /\ UNCHANGED <<rows, clock, issued, granted, admin, pc, cand>>

ExpireSecret ==
    \E f \in expiring :
        /\ expiring' = expiring \ {f}
        /\ secret' = IF secret[f].status # "active" THEN secret
                     ELSE [secret EXCEPT ![f] =
                       [status |-> "expired", fingerprint |-> @.fingerprint,
                        stamp |-> clock]]
        /\ UNCHANGED <<material, lapsed, connection, clock, issued, granted, admin, pc, cand>>

\* Time passes, and with it the expires_at of some secret.
Tick ==
    /\ clock < MaxClock
    /\ clock' = clock + 1
    /\ \E due \in SUBSET Fields : lapsed' = lapsed \cup due
    /\ UNCHANGED <<secret, material, connection, expiring, issued, granted, admin, pc, cand>>

Call(p) == ReadRow(p) \/ ReadMaterial(p) \/ CallProvider(p) \/ ApplyUpdates(p)

Next ==
    \/ \E p \in Procs : StartCall(p) \/ Call(p)
    \/ UpsertSecret \/ TransitionSecret \/ RevokeAccount
    \/ ScanExpired \/ ExpireSecret
    \/ Tick

Spec == Init /\ [][Next]_vars

-----------------------------------------------------------------------------
(* Properties *)

\* No account holds a value next to an older one of the fields that it was
\* issued with: the answers of calls in flight may name different fields, and
\* neither a refresh that finds one of its fields changed writes the others,
\* nor does a late one take back a field of a newer grant
\* (applyPreparedSecretUpdates checks and writes what an answer names together,
\* "credential changed while the request was running").
NoTornGrant ==
    \A f \in Fields : \A g \in granted[material[f]] : material[g] >= material[f]

\* What a call rotated replaces the value that the call was given, and only
\* that: a value entered or rotated meanwhile is never overwritten.
RotationReplacesWhatWasUsed ==
    [][\A p \in Procs : pc[p] = "apply" /\ pc'[p] = "idle" =>
          \A f \in Fields : material'[f] # material[f] =>
              cand[p].value[f] = material[f]]_vars

\* A call in flight cannot write a secret that was revoked, disabled or expired
\* meanwhile ("Revocation prevents future local credential use and refresh
\* commits", README.md).
NoRotationAfterRevocation ==
    [][\A p \in Procs : pc[p] = "apply" /\ pc'[p] = "idle" =>
          \A f \in Fields : secret[f].status # "active" =>
              secret'[f] = secret[f] /\ material'[f] = material[f]]_vars

=============================================================================
