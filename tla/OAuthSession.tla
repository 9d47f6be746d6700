---------------------------- MODULE OAuthSession ----------------------------
(***************************************************************************)
(* Initial OAuth authorization: StartOAuthAuthorization,                   *)
(* GetOAuthAuthorization and CompleteOAuthAuthorization of ManagementStore *)
(* over _integration_oauth_sessions, the application they depend on, and   *)
(* the account a successful exchange provisions.                           *)
(*                                                                         *)
(* All sessions are one user's, for personal accounts.  One action is one  *)
(* statement or transaction sent to the database, or the provider's code   *)
(* exchange.                                                               *)
(***************************************************************************)
EXTENDS Naturals

CONSTANTS
    Procs,        \* requests in flight
    Sessions,     \* session ids StartOAuthAuthorization may draw
    MaxRevision,  \* bound: versions of the application
    MaxCrashes    \* bound: requests that stop half-way

ASSUME OAuthAssumption == /\ MaxRevision \in Nat \ {0} /\ MaxCrashes \in Nat
                          /\ Sessions # {}

VARIABLES
    session,     \* session[s]: status and application revision
    late,        \* sessions whose expires_at or exchange_deadline has passed
    app,         \* the OAuth application: revision and enabled
    account,     \* account[s]: revision of the client credentials it holds, 0: none
    fenced,      \* the user's erasure has been prepared
    frozen,      \* sessions whose row it fenced
    pc, cand,    \* each request's next step, and what it has read
    crashes,     \* crashes so far
    exchanges    \* exchanges[s]: code exchanges sent to the provider (history)

tables == <<session, late, app, account, fenced, frozen>>
vars == <<tables, pc, cand, crashes, exchanges>>

-----------------------------------------------------------------------------
Outcomes == {"connected", "rejected", "needs_reauthorization", "expired"}
Statuses == {"absent", "pending", "exchanging", "erasing", "erased"} \cup Outcomes
SessionRow == [status: Statuses, revision: Nat]
Steps == {"idle", "insert", "check", "timeout", "application", "reject",
          "claim", "exchange", "fail", "commit"}
Cand == [session: Sessions, kind: {"get", "code", "denial"}, revision: Nat,
         previous: Statuses, result: Outcomes]

TypeOK ==
    /\ session \in [Sessions -> SessionRow]
    /\ late \in SUBSET Sessions
    /\ app \in [revision: Nat, enabled: BOOLEAN]
    /\ account \in [Sessions -> Nat]
    /\ fenced \in BOOLEAN
    /\ frozen \in SUBSET Sessions
    /\ pc \in [Procs -> Steps]
    /\ cand \in [Procs -> Cand]
    /\ crashes \in Nat
    /\ exchanges \in [Sessions -> Nat]

NoSession == [status |-> "absent", revision |-> 0]
NoCand == [session |-> CHOOSE s \in Sessions : TRUE, kind |-> "get", revision |-> 0,
           previous |-> "absent", result |-> "expired"]

Init ==
    /\ session = [s \in Sessions |-> NoSession]
    /\ late = {}
    /\ app = [revision |-> 1, enabled |-> TRUE]
    /\ account = [s \in Sessions |-> 0]
    /\ fenced = FALSE
    /\ frozen = {}
    /\ pc = [p \in Procs |-> "idle"]
    /\ cand = [p \in Procs |-> NoCand]
    /\ crashes = 0
    /\ exchanges = [s \in Sessions |-> 0]

Goto(p, step) == pc' = [pc EXCEPT ![p] = step]
Keep(p, c) == cand' = [cand EXCEPT ![p] = c]
Return(p) == Goto(p, "idle") /\ Keep(p, NoCand)

\* updateOAuthSession: the status is compared and the row must not be fenced;
\* the variant does not compare.
UpdateAnyStatus(s, previous) == s \notin frozen /\ session[s].status \notin {"absent", "erased"}
UpdateAllowed(s, previous) == s \notin frozen /\ session[s].status = previous

Updated(s, previous, status) ==
    IF UpdateAllowed(s, previous) THEN [session EXCEPT ![s].status = status] ELSE session

-----------------------------------------------------------------------------
(* StartOAuthAuthorization *)

\* The user's fence and the application are read; the id is drawn at random.
StartAuthorization(p) ==
    \E s \in Sessions :
        /\ pc[p] = "idle"
        /\ ~fenced /\ app.enabled
        /\ session[s].status = "absent"
        /\ \A q \in Procs : pc[q] = "insert" => cand[q].session # s
        /\ Goto(p, "insert")
        /\ Keep(p, [NoCand EXCEPT !.session = s, !.revision = app.revision])
        /\ UNCHANGED <<tables, crashes, exchanges>>

InsertSession(p) ==
    /\ pc[p] = "insert"
    /\ session' = [session EXCEPT ![cand[p].session] =
                     [status |-> "pending", revision |-> cand[p].revision]]
    /\ Return(p)
    /\ UNCHANGED <<late, app, account, fenced, frozen, crashes, exchanges>>

-----------------------------------------------------------------------------
(* GetOAuthAuthorization, by itself or as CompleteOAuthAuthorization's second *)
(* step                                                                      *)

Request(p) ==
    \E s \in Sessions, kind \in {"get", "code", "denial"} :
        /\ pc[p] = "idle"
        /\ session[s].status \notin {"absent", "erased"}
        /\ Goto(p, "check")
        /\ Keep(p, [NoCand EXCEPT !.session = s, !.kind = kind,
                                  !.revision = session[s].revision])
        /\ UNCHANGED <<tables, crashes, exchanges>>

\* The sessions that time closes; the variant leaves an exchange open.
NotStarted == {"pending"}
Open == {"pending", "exchanging"}

\* The state a session past its time is moved to.
TimedOut(status) == IF status = "pending" THEN "expired" ELSE "needs_reauthorization"

\* The session is read again.  Past its time it is closed; a callback goes on
\* only with a pending one.
CheckSession(p) ==
    LET s == cand[p].session
        status == session[s].status
    IN
    /\ pc[p] = "check"
    /\ \/ /\ status \in Open /\ s \in late
          /\ Goto(p, "timeout")
          /\ Keep(p, [cand[p] EXCEPT !.previous = status, !.result = TimedOut(status)])
       \/ /\ status = "pending" /\ s \notin late /\ cand[p].kind # "get"
          /\ Goto(p, "application")
          /\ UNCHANGED cand
       \/ /\ ~(status \in Open /\ s \in late)
          /\ status = "pending" => cand[p].kind = "get"
          /\ Return(p)
    /\ UNCHANGED <<tables, crashes, exchanges>>

CloseSession(p) ==
    LET s == cand[p].session IN
    /\ pc[p] = "timeout"
    /\ session' = Updated(s, cand[p].previous, cand[p].result)
    /\ Return(p)
    /\ UNCHANGED <<late, app, account, fenced, frozen, crashes, exchanges>>

-----------------------------------------------------------------------------
(* CompleteOAuthAuthorization *)

SameApplication(revision) == app.enabled /\ app.revision = revision

\* An application that has changed ends the request; so do, for a code, an
\* unavailable provider and credentials that cannot be read.
CheckApplication(p) ==
    /\ pc[p] = "application"
    /\ \/ /\ SameApplication(cand[p].revision)
          /\ Goto(p, IF cand[p].kind = "denial" THEN "reject" ELSE "claim")
          /\ UNCHANGED cand
       \/ /\ cand[p].kind = "code"
          /\ Return(p)
       \/ /\ ~SameApplication(cand[p].revision)
          /\ Return(p)
    /\ UNCHANGED <<tables, crashes, exchanges>>

RejectSession(p) ==
    /\ pc[p] = "reject"
    /\ session' = Updated(cand[p].session, "pending", "rejected")
    /\ Return(p)
    /\ UNCHANGED <<late, app, account, fenced, frozen, crashes, exchanges>>

\* The one-time claim before the exchange; it sets the exchange deadline.
ClaimSession(p) ==
    LET s == cand[p].session IN
    /\ pc[p] = "claim"
    /\ \/ /\ UpdateAllowed(s, "pending")
          /\ session' = Updated(s, "pending", "exchanging")
          /\ late' = late \ {s}
          /\ Goto(p, "exchange")
          /\ UNCHANGED cand
       \/ /\ ~UpdateAllowed(s, "pending")
          /\ Return(p)
          /\ UNCHANGED <<session, late>>
    /\ UNCHANGED <<app, account, fenced, frozen, crashes, exchanges>>

\* The provider answers with tokens, refuses for good, or fails in doubt; a
\* missing refresh token counts as doubt.
Exchange(p) ==
    /\ pc[p] = "exchange"
    /\ exchanges' = [exchanges EXCEPT ![cand[p].session] = @ + 1]
    /\ \/ Goto(p, "commit") /\ UNCHANGED cand
       \/ \E result \in {"rejected", "needs_reauthorization"} :
             /\ Goto(p, "fail")
             /\ Keep(p, [cand[p] EXCEPT !.result = result])
    /\ UNCHANGED <<tables, crashes>>

FailSession(p) ==
    /\ pc[p] = "fail"
    /\ session' = Updated(cand[p].session, "exchanging", cand[p].result)
    /\ Return(p)
    /\ UNCHANGED <<late, app, account, fenced, frozen, crashes, exchanges>>

\* What the provisioning transaction checks before it commits: the session, the
\* application, and, in UpsertSecret, UpsertConnection and
\* RegisterConnectionAccount, the user's fence.  The variants leave out the
\* application, the fence.
ProvisionUnderAnyApp(s, revision) == UpdateAllowed(s, "exchanging") /\ ~fenced
ProvisionFenced(s, revision) == UpdateAllowed(s, "exchanging") /\ SameApplication(revision)
MayProvision(s, revision) == /\ UpdateAllowed(s, "exchanging")
                             /\ SameApplication(revision)
                             /\ ~fenced

\* Secrets, connection, account, grant and session in one transaction; the
\* variant leaves the session to be updated after it.
CommitApart(p) == session
CommitSession(p) == Updated(cand[p].session, "exchanging", "connected")

\* The transaction commits, or leaves everything as it was.
ProvisionAccount(p) ==
    LET s == cand[p].session IN
    /\ pc[p] = "commit"
    /\ \/ /\ MayProvision(s, cand[p].revision)
          /\ account' = [account EXCEPT ![s] = cand[p].revision]
          /\ session' = CommitSession(p)
       \/ UNCHANGED <<account, session>>
    /\ Return(p)
    /\ UNCHANGED <<late, app, fenced, frozen, crashes, exchanges>>

-----------------------------------------------------------------------------
(* The rest of the system *)

\* UpsertOAuthApplication, under the administrator's expected revision.
EditApplication ==
    /\ app.revision < MaxRevision
    /\ \E enabled \in BOOLEAN : app' = [revision |-> app.revision + 1, enabled |-> enabled]
    /\ UNCHANGED <<session, late, account, fenced, frozen, pc, cand, crashes, exchanges>>

TimePasses ==
    \E s \in Sessions \ late :
        /\ session[s].status \in {"pending", "exchanging"}
        /\ late' = late \cup {s}
        /\ UNCHANGED <<session, app, account, fenced, frozen, pc, cand, crashes, exchanges>>

CrashRequest(p) ==
    /\ pc[p] # "idle"
    /\ crashes < MaxCrashes
    /\ crashes' = crashes + 1
    /\ Return(p)
    /\ UNCHANGED <<tables, exchanges>>

\* PrepareSubjectErasure: refused while a session is exchanging.
PrepareErasure ==
    LET present == {s \in Sessions : session[s].status # "absent"} IN
    /\ ~fenced
    /\ \A s \in Sessions : session[s].status # "exchanging"
    /\ fenced' = TRUE
    /\ frozen' = present
    /\ session' = [s \in Sessions |->
          IF s \in present THEN [session[s] EXCEPT !.status = "erasing"] ELSE session[s]]
    /\ UNCHANGED <<late, app, account, pc, cand, crashes, exchanges>>

\* ErasePreparedSubject: the session rows and the account's secrets are deleted.
EraseSubject ==
    /\ \E s \in frozen : session[s].status = "erasing"
    /\ session' = [s \in Sessions |->
          IF s \in frozen THEN [session[s] EXCEPT !.status = "erased"] ELSE session[s]]
    /\ account' = [s \in Sessions |-> IF s \in frozen THEN 0 ELSE account[s]]
    /\ UNCHANGED <<late, app, fenced, frozen, pc, cand, crashes, exchanges>>

Work(p) ==
    \/ InsertSession(p) \/ CheckSession(p) \/ CloseSession(p)
    \/ CheckApplication(p) \/ RejectSession(p) \/ ClaimSession(p)
    \/ Exchange(p) \/ FailSession(p) \/ ProvisionAccount(p)

Next ==
    \/ \E p \in Procs : StartAuthorization(p) \/ Request(p)
    \/ \E p \in Procs : Work(p)
    \/ \E p \in Procs : CrashRequest(p)
    \/ EditApplication
    \/ TimePasses
    \/ PrepareErasure
    \/ EraseSubject

Spec == Init /\ [][Next]_vars

\* The user's page polls GetOAuthAuthorization while a session is open.
Poll(p, s) ==
    /\ pc[p] = "idle"
    /\ session[s].status \in {"pending", "exchanging"}
    /\ Goto(p, "check")
    /\ Keep(p, [NoCand EXCEPT !.session = s, !.revision = session[s].revision])
    /\ UNCHANGED <<tables, crashes, exchanges>>

FairSpec ==
    /\ Spec
    /\ WF_vars(TimePasses)
    /\ \A p \in Procs : WF_vars(Work(p)) /\ \A s \in Sessions : SF_vars(Poll(p, s))

-----------------------------------------------------------------------------
(* Properties *)

\* A code is single-use: whatever callbacks race, it is exchanged once
\* (TestOAuthConcurrentCallbacksAndCancellationPersistOneEncryptedAccount).
CodeExchangedOnce == \A s \in Sessions : exchanges[s] <= 1

\* A session is connected exactly when its account was provisioned, although a
\* crash, a timeout or an erasure may fall between the exchange and the commit.
ConnectedHasAccount ==
    \A s \in Sessions :
        /\ session[s].status = "connected" => account[s] # 0
        /\ account[s] # 0 => session[s].status \in {"connected", "erasing"}

\* An account is provisioned with client credentials that are current: an
\* application edited during the exchange leaves no account behind
\* (TestOAuthApplicationChangeDuringExchangeRollsBackCredentialsAndNeedsNewAuthorization).
AccountsHoldCurrentCredentials ==
    [][\A s \in Sessions :
          account'[s] # account[s] /\ account'[s] # 0 =>
              app.enabled /\ account'[s] = app.revision]_vars

\* Once the user's erasure is prepared nothing provisions an account for them,
\* not even a session whose start the fence overtook.
NoAccountAfterErasure ==
    [][fenced => \A s \in Sessions : account'[s] \in {account[s], 0}]_vars

\* A session that is polled does not stay open.
SessionsSettle ==
    \A s \in Sessions :
        session[s].status \in {"pending", "exchanging"} ~>
            session[s].status \in Outcomes \cup {"erasing", "erased"}

=============================================================================
