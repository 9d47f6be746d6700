------------------------- MODULE OAuthSessionProofs -------------------------
(***************************************************************************)
(* What OAuthSession promises, for every set of requests and sessions.     *)
(* The inductive invariant SessionInv says what the one-time claim, the    *)
(* status comparison of updateOAuthSession and the provisioning            *)
(* transaction each rely on.                                               *)
(***************************************************************************)
EXTENDS OAuthSession, TLAPS

\* Steps of a request that has claimed its session.
PastClaim == {"exchange", "fail", "commit"}

\* An id that StartOAuthAuthorization has drawn is nobody else's, and no other
\* request works on a session that has no row.
DrawnIdsAreFresh ==
    /\ \A p \in Procs :
          pc[p] = "insert" => session[cand[p].session].status = "absent"
    /\ \A p, q \in Procs :
          pc[p] = "insert" /\ pc[q] = "insert" /\ p # q =>
              cand[p].session # cand[q].session
    /\ \A p \in Procs :
          pc[p] \notin {"idle", "insert"} => session[cand[p].session].status # "absent"

\* A row that may still be claimed has not been, and a claim has one holder,
\* which has not sent the code yet.
ClaimIsOneTime ==
    /\ \A s \in Sessions :
          session[s].status \in {"absent", "pending"} => exchanges[s] = 0
    /\ \A p \in Procs :
          pc[p] \in PastClaim =>
              session[cand[p].session].status \notin {"absent", "pending"}
    /\ \A p, q \in Procs :
          pc[p] \in PastClaim /\ pc[q] \in PastClaim /\ p # q =>
              cand[p].session # cand[q].session
    /\ \A p \in Procs : pc[p] = "exchange" => exchanges[cand[p].session] = 0

\* A request closes a session only from an open state, and only to a state
\* without an account.
ClosesOpenSessions ==
    /\ \A p \in Procs :
          pc[p] = "timeout" =>
              /\ cand[p].previous \in Open
              /\ cand[p].result \in {"expired", "needs_reauthorization"}
    /\ \A p \in Procs :
          pc[p] = "fail" => cand[p].result \in {"rejected", "needs_reauthorization"}

\* Revisions count from one, so an account's credentials are never revision 0.
RevisionsStart == app.revision # 0

\* The erasure fences the rows that exist.
FrozenHaveRows == \A s \in frozen : session[s].status \in {"erasing", "erased"}

SessionInv ==
    /\ TypeOK
    /\ FrozenHaveRows
    /\ DrawnIdsAreFresh
    /\ ClaimIsOneTime
    /\ CodeExchangedOnce
    /\ ClosesOpenSessions
    /\ RevisionsStart
    /\ ConnectedHasAccount

-----------------------------------------------------------------------------
(* Types *)

\* The rows and candidates that stand for nothing are of their types.
LEMMA NoCandType == NoCand \in Cand
<1>1. (CHOOSE s \in Sessions : TRUE) \in Sessions
  BY OAuthAssumption
<1>2. QED
  BY <1>1 DEF NoCand, Cand, Statuses, Outcomes

\* A request that returns forgets what it has read.
LEMMA ReturnType ==
  ASSUME TypeOK, NEW p \in Procs, Return(p)
  PROVE  /\ pc' \in [Procs -> Steps]
         /\ cand' \in [Procs -> Cand]
         /\ pc'[p] = "idle"
         /\ \A q \in Procs \ {p} : pc'[q] = pc[q] /\ cand'[q] = cand[q]
BY NoCandType DEF TypeOK, Return, Goto, Keep, Steps

\* A request that goes on with what it has read.
LEMMA GoType ==
  ASSUME TypeOK, NEW p \in Procs, NEW step \in Steps, Goto(p, step),
         NEW c \in Cand, Keep(p, c)
  PROVE  /\ pc' \in [Procs -> Steps]
         /\ cand' \in [Procs -> Cand]
         /\ pc'[p] = step /\ cand'[p] = c
         /\ \A q \in Procs \ {p} : pc'[q] = pc[q] /\ cand'[q] = cand[q]
BY DEF TypeOK, Goto, Keep

\* Moving a process keeps its type.
LEMMA GotoType ==
  ASSUME TypeOK, NEW p \in Procs, NEW step \in Steps, Goto(p, step), UNCHANGED cand
  PROVE  /\ pc' \in [Procs -> Steps]
         /\ cand' \in [Procs -> Cand]
         /\ pc'[p] = step
         /\ \A q \in Procs : cand'[q] = cand[q]
         /\ \A q \in Procs \ {p} : pc'[q] = pc[q]
BY DEF TypeOK, Goto

\* updateOAuthSession changes one status, or nothing.
LEMMA UpdatedType ==
  ASSUME TypeOK, NEW s \in Sessions, NEW previous \in Statuses, NEW status \in Statuses
  PROVE  /\ Updated(s, previous, status) \in [Sessions -> SessionRow]
         /\ \A t \in Sessions : Updated(s, previous, status)[t].status =
              IF t = s /\ UpdateAllowed(s, previous) THEN status ELSE session[t].status
BY DEF TypeOK, Updated, SessionRow

\* The fields of a request's candidate.
LEMMA CandFields ==
  ASSUME TypeOK, NEW p \in Procs
  PROVE  /\ cand[p] \in Cand
         /\ cand[p].session \in Sessions
         /\ cand[p].revision \in Nat
         /\ cand[p].previous \in Statuses
         /\ cand[p].result \in Outcomes
BY DEF TypeOK, Cand

\* The invariant holds initially.
LEMMA InitInv == Init => SessionInv
<1> SUFFICES ASSUME Init PROVE SessionInv
  OBVIOUS
<1>1. TypeOK
  BY NoCandType DEF Init, TypeOK, NoSession, SessionRow, Statuses, Steps
<1>2. QED
  BY <1>1 DEF Init, SessionInv, FrozenHaveRows, DrawnIdsAreFresh, ClaimIsOneTime,
              CodeExchangedOnce,
              ClosesOpenSessions, RevisionsStart, ConnectedHasAccount, NoSession,
              PastClaim

-----------------------------------------------------------------------------
(* Steps *)

\* A step that only moves one request, to a step that neither draws an id nor
\* claims a session, disturbs nothing.
LEMMA MoveInv ==
  ASSUME SessionInv, NEW p \in Procs, UNCHANGED <<tables, exchanges>>,
         crashes' \in Nat,
         pc' \in [Procs -> Steps], cand' \in [Procs -> Cand],
         \A q \in Procs \ {p} : pc'[q] = pc[q] /\ cand'[q] = cand[q],
         pc'[p] \notin PastClaim \cup {"insert"},
         pc'[p] # "idle" => session[cand'[p].session].status # "absent",
         pc'[p] = "timeout" =>
             /\ cand'[p].previous \in Open
             /\ cand'[p].result \in {"expired", "needs_reauthorization"}
  PROVE  SessionInv'
<1>1. TypeOK'
  BY DEF SessionInv, TypeOK, tables
<1>2. DrawnIdsAreFresh'
  BY DEF SessionInv, DrawnIdsAreFresh, tables
<1>3. ClaimIsOneTime'
  BY DEF SessionInv, ClaimIsOneTime, tables, PastClaim
<1>4. ClosesOpenSessions'
  BY DEF SessionInv, ClosesOpenSessions, PastClaim
<1>5. QED
  BY <1>1, <1>2, <1>3, <1>4
     DEF SessionInv, FrozenHaveRows, CodeExchangedOnce, RevisionsStart,
         ConnectedHasAccount, tables

\* A request that compares a session's open status and replaces it, by one
\* without an account, and returns.
LEMMA CloseInv ==
  ASSUME SessionInv, NEW p \in Procs, NEW previous \in Open,
         NEW status \in {"rejected", "needs_reauthorization", "expired"},
         pc[p] \notin {"idle", "insert"},
         session' = Updated(cand[p].session, previous, status),
         Return(p),
         UNCHANGED <<late, app, account, fenced, frozen, crashes, exchanges>>
  PROVE  SessionInv'
<1> DEFINE s == cand[p].session
<1>0. TypeOK /\ s \in Sessions /\ previous \in Statuses /\ status \in Statuses
  BY CandFields DEF SessionInv, Open, Statuses, Outcomes
<1>1. /\ session' \in [Sessions -> SessionRow]
      /\ \A t \in Sessions : session'[t].status =
            IF t = s /\ UpdateAllowed(s, previous) THEN status ELSE session[t].status
  BY <1>0, UpdatedType
<1>2. UpdateAllowed(s, previous) => session[s].status = previous
  BY DEF UpdateAllowed
<1>3. /\ pc' \in [Procs -> Steps]
      /\ cand' \in [Procs -> Cand]
      /\ pc'[p] = "idle"
      /\ \A q \in Procs \ {p} : pc'[q] = pc[q] /\ cand'[q] = cand[q]
  BY <1>0, ReturnType
<1>c. \A q \in Procs : cand[q].session \in Sessions
  BY <1>0, CandFields
<1>4. TypeOK'
  BY <1>0, <1>1, <1>3 DEF TypeOK
<1>5. DrawnIdsAreFresh'
  BY <1>1, <1>2, <1>3, <1>c DEF SessionInv, DrawnIdsAreFresh, Open
<1>6. ClaimIsOneTime'
  BY <1>1, <1>2, <1>3, <1>c DEF SessionInv, ClaimIsOneTime, Open, PastClaim
<1>7. ClosesOpenSessions'
  BY <1>3 DEF SessionInv, ClosesOpenSessions
<1>8. ConnectedHasAccount'
  BY <1>1, <1>2 DEF SessionInv, ConnectedHasAccount, Open
<1>9. FrozenHaveRows'
  BY <1>0, <1>1 DEF SessionInv, FrozenHaveRows, UpdateAllowed, TypeOK
<1>10. QED
  BY <1>4, <1>5, <1>6, <1>7, <1>8, <1>9 DEF SessionInv, CodeExchangedOnce, RevisionsStart

\* StartAuthorization keeps SessionInv.
LEMMA StartInv ==
  ASSUME SessionInv, NEW p \in Procs, StartAuthorization(p)
  PROVE  SessionInv'
<1>0. TypeOK
  BY DEF SessionInv
<1>1. PICK s \in Sessions :
        /\ pc[p] = "idle"
        /\ session[s].status = "absent"
        /\ \A q \in Procs : pc[q] = "insert" => cand[q].session # s
        /\ Goto(p, "insert")
        /\ Keep(p, [NoCand EXCEPT !.session = s, !.revision = app.revision])
        /\ UNCHANGED <<tables, crashes, exchanges>>
  BY DEF StartAuthorization
<1> DEFINE c == [NoCand EXCEPT !.session = s, !.revision = app.revision]
<1>2. c \in Cand /\ c.session = s
  BY <1>0, NoCandType DEF Cand, TypeOK
<1>3. /\ pc' \in [Procs -> Steps]
      /\ cand' \in [Procs -> Cand]
      /\ pc'[p] = "insert" /\ cand'[p].session = s
      /\ \A q \in Procs \ {p} : pc'[q] = pc[q] /\ cand'[q] = cand[q]
  BY <1>0, <1>1, <1>2, GoType DEF Steps
<1>4. TypeOK'
  BY <1>0, <1>1, <1>3 DEF TypeOK, tables
<1>5. DrawnIdsAreFresh'
  BY <1>1, <1>3 DEF SessionInv, DrawnIdsAreFresh, tables
<1>6. ClaimIsOneTime'
  BY <1>1, <1>3 DEF SessionInv, ClaimIsOneTime, PastClaim, tables
<1>7. ClosesOpenSessions'
  BY <1>1, <1>3 DEF SessionInv, ClosesOpenSessions
<1>8. QED
  BY <1>1, <1>4, <1>5, <1>6, <1>7
     DEF SessionInv, FrozenHaveRows, CodeExchangedOnce, RevisionsStart,
         ConnectedHasAccount, tables

\* InsertSession keeps SessionInv.
LEMMA InsertInv ==
  ASSUME SessionInv, NEW p \in Procs, InsertSession(p)
  PROVE  SessionInv'
<1> DEFINE s == cand[p].session
<1>0. TypeOK /\ s \in Sessions /\ cand[p].revision \in Nat
  BY CandFields DEF SessionInv
<1>1. /\ session' \in [Sessions -> SessionRow]
      /\ session[s].status = "absent"
      /\ \A t \in Sessions : session'[t].status =
            IF t = s THEN "pending" ELSE session[t].status
  BY <1>0 DEF SessionInv, DrawnIdsAreFresh, InsertSession, TypeOK, SessionRow, Statuses
<1>3. /\ pc' \in [Procs -> Steps]
      /\ cand' \in [Procs -> Cand]
      /\ pc'[p] = "idle"
      /\ \A q \in Procs \ {p} : pc'[q] = pc[q] /\ cand'[q] = cand[q]
  BY <1>0, ReturnType DEF InsertSession
<1>c. \A q \in Procs : cand[q].session \in Sessions
  BY <1>0, CandFields
<1>4. TypeOK'
  BY <1>0, <1>1, <1>3 DEF TypeOK, InsertSession
<1>5. DrawnIdsAreFresh'
  BY <1>1, <1>3, <1>c DEF SessionInv, DrawnIdsAreFresh, InsertSession
<1>6. ClaimIsOneTime'
  BY <1>1, <1>3, <1>c DEF SessionInv, ClaimIsOneTime, PastClaim, InsertSession
<1>7. ClosesOpenSessions'
  BY <1>1, <1>3 DEF SessionInv, ClosesOpenSessions
<1>8. ConnectedHasAccount'
  BY <1>1 DEF SessionInv, ConnectedHasAccount, InsertSession
<1>9. FrozenHaveRows'
  BY <1>0, <1>1 DEF SessionInv, FrozenHaveRows, InsertSession, TypeOK
<1>10. QED
  BY <1>4, <1>5, <1>6, <1>7, <1>8, <1>9
     DEF SessionInv, CodeExchangedOnce, RevisionsStart, InsertSession

\* Reading a session, and reading the application: the request moves, and keeps
\* no more than what it compares later.
LEMMA ReadInv ==
  ASSUME SessionInv, NEW p \in Procs,
         Request(p) \/ CheckSession(p) \/ CheckApplication(p) \/ CrashRequest(p)
  PROVE  SessionInv'
<1>0. TypeOK /\ cand[p] \in Cand /\ cand[p].session \in Sessions
  BY CandFields DEF SessionInv
<1>n. pc[p] \notin {"idle", "insert"} => session[cand[p].session].status # "absent"
  BY DEF SessionInv, DrawnIdsAreFresh
<1>r. ASSUME Return(p), UNCHANGED <<tables, exchanges>>, crashes' \in Nat
      PROVE  SessionInv'
  BY <1>0, <1>r, ReturnType, MoveInv DEF PastClaim
<1>1. CASE Request(p)
  <2>1. PICK s \in Sessions, kind \in {"get", "code", "denial"} :
          /\ session[s].status \notin {"absent", "erased"}
          /\ Goto(p, "check")
          /\ Keep(p, [NoCand EXCEPT !.session = s, !.kind = kind,
                                    !.revision = session[s].revision])
          /\ UNCHANGED <<tables, crashes, exchanges>>
    BY <1>1 DEF Request
  <2>2. session[s].revision \in Nat
    BY <1>0 DEF TypeOK, SessionRow
  <2> DEFINE c == [NoCand EXCEPT !.session = s, !.kind = kind,
                                 !.revision = session[s].revision]
  <2>3. c \in Cand /\ c.session = s
    BY <2>2, NoCandType DEF Cand
  <2>4. /\ pc' \in [Procs -> Steps]
        /\ cand' \in [Procs -> Cand]
        /\ pc'[p] = "check" /\ cand'[p].session = s
        /\ \A q \in Procs \ {p} : pc'[q] = pc[q] /\ cand'[q] = cand[q]
    BY <1>0, <2>1, <2>3, GoType DEF Steps
  <2>5. QED
    BY <1>0, <2>1, <2>4, MoveInv DEF PastClaim, TypeOK
<1>2. CASE CheckSession(p)
  <2> DEFINE s == cand[p].session
             status == session[s].status
             c == [cand[p] EXCEPT !.previous = status, !.result = TimedOut(status)]
  <2>0. UNCHANGED <<tables, crashes, exchanges>> /\ crashes' \in Nat /\ status # "absent"
    BY <1>0, <1>2, <1>n DEF CheckSession, TypeOK
  <2>1. CASE status \in Open /\ Goto(p, "timeout") /\ Keep(p, c)
    <3>1. TimedOut(status) \in {"expired", "needs_reauthorization"}
      BY DEF TimedOut
    <3>2. /\ c \in Cand
          /\ c.session = s /\ c.previous = status /\ c.result = TimedOut(status)
      BY <1>0, <2>1, <3>1 DEF Cand, Open, Statuses, Outcomes
    <3>3. /\ pc' \in [Procs -> Steps]
          /\ cand' \in [Procs -> Cand]
          /\ pc'[p] = "timeout" /\ cand'[p] = c
          /\ \A q \in Procs \ {p} : pc'[q] = pc[q] /\ cand'[q] = cand[q]
      BY <1>0, <2>1, <3>2, GoType DEF Steps
    <3>4. QED
      BY <2>0, <2>1, <3>1, <3>2, <3>3, MoveInv DEF PastClaim
  <2>2. CASE Goto(p, "application") /\ UNCHANGED cand
    BY <1>0, <2>0, <2>2, GotoType, MoveInv DEF Steps, PastClaim
  <2>3. CASE Return(p)
    BY <1>r, <2>0, <2>3
  <2>4. QED
    BY <1>2, <2>1, <2>2, <2>3 DEF CheckSession
<1>3. CASE CheckApplication(p)
  <2>0. UNCHANGED <<tables, crashes, exchanges>> /\ crashes' \in Nat
        /\ session[cand[p].session].status # "absent"
    BY <1>0, <1>3, <1>n DEF CheckApplication, TypeOK
  <2>1. CASE Return(p)
    BY <1>r, <2>0, <2>1
  <2>2. CASE /\ Goto(p, IF cand[p].kind = "denial" THEN "reject" ELSE "claim")
             /\ UNCHANGED cand
    BY <1>0, <2>0, <2>2, GotoType, MoveInv DEF Steps, PastClaim
  <2>3. QED
    BY <1>3, <2>1, <2>2 DEF CheckApplication
<1>4. CASE CrashRequest(p)
  BY <1>0, <1>r, <1>4 DEF CrashRequest, TypeOK
<1>5. QED
  BY <1>1, <1>2, <1>3, <1>4

\* The one-time claim: a pending session was never claimed.
LEMMA ClaimInv ==
  ASSUME SessionInv, NEW p \in Procs, ClaimSession(p)
  PROVE  SessionInv'
<1> DEFINE s == cand[p].session
<1>0. TypeOK /\ s \in Sessions
  BY CandFields DEF SessionInv
<1>c. \A q \in Procs : cand[q].session \in Sessions
  BY <1>0, CandFields
<1>1. CASE ~UpdateAllowed(s, "pending")
  <2>1. Return(p) /\ UNCHANGED <<tables, crashes, exchanges>>
    BY <1>1 DEF ClaimSession, tables
  <2>2. QED
    BY <1>0, <2>1, ReturnType, MoveInv DEF PastClaim, TypeOK
<1>2. CASE UpdateAllowed(s, "pending")
  <2>1. /\ session' = Updated(s, "pending", "exchanging")
        /\ late' = late \ {s}
        /\ Goto(p, "exchange")
        /\ UNCHANGED <<cand, app, account, fenced, frozen, crashes, exchanges>>
    BY <1>2 DEF ClaimSession
  <2>2. /\ session' \in [Sessions -> SessionRow]
        /\ session[s].status = "pending"
        /\ \A t \in Sessions : session'[t].status =
              IF t = s THEN "exchanging" ELSE session[t].status
    <3>1. "pending" \in Statuses /\ "exchanging" \in Statuses
      BY DEF Statuses
    <3>2. session[s].status = "pending"
      BY <1>2 DEF UpdateAllowed
    <3>3. QED
      BY <1>0, <1>2, <2>1, <3>1, <3>2, UpdatedType
  <2>3. /\ pc' \in [Procs -> Steps]
        /\ pc'[p] = "exchange"
        /\ \A q \in Procs \ {p} : pc'[q] = pc[q]
    BY <1>0, <2>1, GotoType DEF Steps
  <2>4. TypeOK'
    BY <1>0, <2>1, <2>2, <2>3 DEF TypeOK
  <2>5. DrawnIdsAreFresh'
    BY <1>c, <2>1, <2>2, <2>3 DEF SessionInv, DrawnIdsAreFresh
  <2>6. ClaimIsOneTime'
    BY <1>c, <2>1, <2>2, <2>3 DEF SessionInv, ClaimIsOneTime, PastClaim
  <2>7. ClosesOpenSessions'
    BY <2>1, <2>3 DEF SessionInv, ClosesOpenSessions
  <2>8. ConnectedHasAccount'
    BY <2>1, <2>2 DEF SessionInv, ConnectedHasAccount
  <2>9. FrozenHaveRows'
    BY <1>0, <2>1, <2>2 DEF SessionInv, FrozenHaveRows, TypeOK
  <2>10. QED
    BY <2>1, <2>4, <2>5, <2>6, <2>7, <2>8, <2>9
       DEF SessionInv, CodeExchangedOnce, RevisionsStart
<1>3. QED
  BY <1>1, <1>2

\* The code goes to the provider.
LEMMA ExchangeInv ==
  ASSUME SessionInv, NEW p \in Procs, Exchange(p)
  PROVE  SessionInv'
<1> DEFINE s == cand[p].session
<1>0. TypeOK /\ cand[p] \in Cand /\ s \in Sessions
  BY CandFields DEF SessionInv
<1>1. /\ pc[p] = "exchange" /\ exchanges[s] = 0
      /\ exchanges' = [exchanges EXCEPT ![s] = @ + 1]
      /\ UNCHANGED <<tables, crashes>>
  BY DEF Exchange, SessionInv, ClaimIsOneTime
<1>2. /\ exchanges' \in [Sessions -> Nat]
      /\ exchanges'[s] = 1
      /\ \A t \in Sessions \ {s} : exchanges'[t] = exchanges[t]
  BY <1>0, <1>1 DEF TypeOK
<1>3. /\ pc' \in [Procs -> Steps]
      /\ cand' \in [Procs -> Cand]
      /\ pc'[p] \in {"commit", "fail"}
      /\ cand'[p].session = s
      /\ pc'[p] = "fail" => cand'[p].result \in {"rejected", "needs_reauthorization"}
      /\ \A q \in Procs \ {p} : pc'[q] = pc[q] /\ cand'[q] = cand[q]
  <2>1. CASE Goto(p, "commit") /\ UNCHANGED cand
    BY <1>0, <2>1, GotoType DEF Steps
  <2>2. ASSUME NEW result \in {"rejected", "needs_reauthorization"},
               Goto(p, "fail"), Keep(p, [cand[p] EXCEPT !.result = result])
        PROVE  <1>3!:
    <3>1. /\ [cand[p] EXCEPT !.result = result] \in Cand
          /\ [cand[p] EXCEPT !.result = result].session = s
          /\ [cand[p] EXCEPT !.result = result].result = result
      BY <1>0 DEF Cand, Outcomes
    <3>2. QED
      BY <1>0, <2>2, <3>1, GoType DEF Steps
  <2>3. QED
    BY <2>1, <2>2 DEF Exchange
<1>c. \A q \in Procs : cand[q].session \in Sessions
  BY <1>0, CandFields
<1>4. TypeOK'
  BY <1>0, <1>1, <1>2, <1>3 DEF TypeOK, tables
<1>5. DrawnIdsAreFresh'
  BY <1>1, <1>3 DEF SessionInv, DrawnIdsAreFresh, tables
<1>6. ClaimIsOneTime'
  BY <1>1, <1>2, <1>3, <1>c DEF SessionInv, ClaimIsOneTime, PastClaim, tables
<1>7. ClosesOpenSessions'
  BY <1>1, <1>3 DEF SessionInv, ClosesOpenSessions
<1>8. CodeExchangedOnce'
  BY <1>2 DEF SessionInv, CodeExchangedOnce
<1>9. QED
  BY <1>1, <1>4, <1>5, <1>6, <1>7, <1>8
     DEF SessionInv, FrozenHaveRows, RevisionsStart, ConnectedHasAccount, tables

\* The provisioning transaction: an account appears together with its session's
\* outcome, and only from a session that had none.
LEMMA ProvisionInv ==
  ASSUME SessionInv, NEW p \in Procs, ProvisionAccount(p)
  PROVE  SessionInv'
<1> DEFINE s == cand[p].session
<1>0. TypeOK /\ s \in Sessions /\ cand[p].revision \in Nat
  BY CandFields DEF SessionInv
<1>r. /\ pc' \in [Procs -> Steps]
      /\ cand' \in [Procs -> Cand]
      /\ pc'[p] = "idle"
      /\ \A q \in Procs \ {p} : pc'[q] = pc[q] /\ cand'[q] = cand[q]
  BY <1>0, ReturnType DEF ProvisionAccount
<1>f. UNCHANGED <<late, app, fenced, frozen, crashes, exchanges>>
  BY DEF ProvisionAccount
<1>c. \A q \in Procs : cand[q].session \in Sessions
  BY <1>0, CandFields
<1>1. CASE UNCHANGED <<account, session>>
  BY <1>0, <1>1, <1>r, <1>f, MoveInv DEF PastClaim, TypeOK, tables
<1>2. CASE /\ MayProvision(s, cand[p].revision)
           /\ account' = [account EXCEPT ![s] = cand[p].revision]
           /\ session' = CommitSession(p)
  <2>1. /\ session[s].status = "exchanging"
        /\ cand[p].revision # 0
        /\ UpdateAllowed(s, "exchanging")
    BY <1>2 DEF MayProvision, UpdateAllowed, SameApplication, SessionInv, RevisionsStart
  <2>2. /\ session' \in [Sessions -> SessionRow]
        /\ \A t \in Sessions : session'[t].status =
              IF t = s THEN "connected" ELSE session[t].status
    <3>1. "exchanging" \in Statuses /\ "connected" \in Statuses
      BY DEF Statuses, Outcomes
    <3>2. QED
      BY <1>0, <1>2, <2>1, <3>1, UpdatedType DEF CommitSession
  <2>3. /\ account' \in [Sessions -> Nat]
        /\ \A t \in Sessions : account'[t] =
              IF t = s THEN cand[p].revision ELSE account[t]
    BY <1>0, <1>2 DEF TypeOK
  <2>4. TypeOK'
    BY <1>0, <1>r, <1>f, <2>2, <2>3 DEF TypeOK
  <2>5. DrawnIdsAreFresh'
    BY <1>c, <1>r, <2>1, <2>2 DEF SessionInv, DrawnIdsAreFresh
  <2>6. ClaimIsOneTime'
    BY <1>c, <1>r, <1>f, <2>1, <2>2 DEF SessionInv, ClaimIsOneTime, PastClaim
  <2>7. ClosesOpenSessions'
    BY <1>r DEF SessionInv, ClosesOpenSessions
  <2>8. ConnectedHasAccount'
    BY <2>1, <2>2, <2>3 DEF SessionInv, ConnectedHasAccount
  <2>9. FrozenHaveRows'
    BY <1>0, <1>f, <2>1, <2>2 DEF SessionInv, FrozenHaveRows, TypeOK
  <2>10. QED
    BY <1>f, <2>4, <2>5, <2>6, <2>7, <2>8, <2>9
       DEF SessionInv, CodeExchangedOnce, RevisionsStart
<1>3. QED
  BY <1>1, <1>2 DEF ProvisionAccount

\* The administrator, time and the user's erasure.
LEMMA EnvironmentInv ==
  ASSUME SessionInv, EditApplication \/ TimePasses \/ PrepareErasure \/ EraseSubject
  PROVE  SessionInv'
<1>0. TypeOK
  BY DEF SessionInv
<1>c. \A q \in Procs : cand[q].session \in Sessions
  BY <1>0, CandFields
<1>1. CASE EditApplication
  <2>1. app' \in [revision: Nat, enabled: BOOLEAN] /\ app'.revision # 0
    BY <1>0, <1>1 DEF EditApplication, TypeOK
  <2>2. QED
    BY <1>0, <1>1, <2>1
       DEF EditApplication, SessionInv, TypeOK, FrozenHaveRows, DrawnIdsAreFresh,
           ClaimIsOneTime,
           CodeExchangedOnce, ClosesOpenSessions, RevisionsStart, ConnectedHasAccount
<1>2. CASE TimePasses
  BY <1>0, <1>2
     DEF TimePasses, SessionInv, TypeOK, FrozenHaveRows, DrawnIdsAreFresh, ClaimIsOneTime,
         CodeExchangedOnce, ClosesOpenSessions, RevisionsStart, ConnectedHasAccount
<1>3. CASE PrepareErasure
  <2> DEFINE present == {s \in Sessions : session[s].status # "absent"}
  <2>1. /\ session' \in [Sessions -> SessionRow]
        /\ \A s \in Sessions : session'[s].status =
              IF session[s].status # "absent" THEN "erasing" ELSE "absent"
    <3>1. session' = [s \in Sessions |->
             IF s \in present THEN [session[s] EXCEPT !.status = "erasing"] ELSE session[s]]
      BY <1>3 DEF PrepareErasure
    <3>2. "erasing" \in Statuses
      BY DEF Statuses
    <3>3. QED
      BY <1>0, <3>1, <3>2 DEF TypeOK, SessionRow
  <2>2. /\ fenced' = TRUE /\ frozen' \in SUBSET Sessions
        /\ UNCHANGED <<late, app, account, pc, cand, crashes, exchanges>>
    BY <1>3 DEF PrepareErasure
  <2>3. TypeOK'
    BY <1>0, <2>1, <2>2 DEF TypeOK
  <2>4. DrawnIdsAreFresh'
    BY <1>c, <2>1, <2>2 DEF SessionInv, DrawnIdsAreFresh
  <2>5. ClaimIsOneTime'
    BY <1>c, <2>1, <2>2 DEF SessionInv, ClaimIsOneTime
  <2>6. ConnectedHasAccount'
    BY <2>1, <2>2 DEF SessionInv, ConnectedHasAccount
  <2>7. FrozenHaveRows'
    <3>1. frozen' = present
      BY <1>3 DEF PrepareErasure
    <3>2. QED
      BY <2>1, <3>1 DEF FrozenHaveRows
  <2>8. QED
    BY <2>2, <2>3, <2>4, <2>5, <2>6, <2>7
       DEF SessionInv, CodeExchangedOnce, ClosesOpenSessions, RevisionsStart
<1>4. CASE EraseSubject
  <2>0. /\ session' = [s \in Sessions |->
             IF s \in frozen THEN [session[s] EXCEPT !.status = "erased"] ELSE session[s]]
        /\ account' = [s \in Sessions |-> IF s \in frozen THEN 0 ELSE account[s]]
        /\ UNCHANGED <<late, app, fenced, frozen, pc, cand, crashes, exchanges>>
    BY <1>4 DEF EraseSubject
  <2>1. /\ session' \in [Sessions -> SessionRow]
        /\ \A s \in Sessions : session'[s].status =
              IF s \in frozen THEN "erased" ELSE session[s].status
    <3>1. "erased" \in Statuses
      BY DEF Statuses
    <3>2. QED
      BY <1>0, <2>0, <3>1 DEF TypeOK, SessionRow
  <2>2. /\ account' \in [Sessions -> Nat]
        /\ \A s \in Sessions : account'[s] = IF s \in frozen THEN 0 ELSE account[s]
    BY <1>0, <2>0 DEF TypeOK
  <2>3. TypeOK'
    BY <1>0, <2>0, <2>1, <2>2 DEF TypeOK
  <2>4. DrawnIdsAreFresh'
    BY <1>c, <2>0, <2>1 DEF SessionInv, DrawnIdsAreFresh, FrozenHaveRows
  <2>5. ClaimIsOneTime'
    BY <1>c, <2>0, <2>1 DEF SessionInv, ClaimIsOneTime
  <2>6. ConnectedHasAccount'
    BY <2>1, <2>2 DEF SessionInv, ConnectedHasAccount
  <2>7. FrozenHaveRows'
    BY <1>0, <2>0, <2>1 DEF FrozenHaveRows, TypeOK
  <2>8. QED
    BY <2>0, <2>3, <2>4, <2>5, <2>6, <2>7
       DEF SessionInv, CodeExchangedOnce, ClosesOpenSessions, RevisionsStart
<1>5. QED
  BY <1>1, <1>2, <1>3, <1>4

\* Every step keeps the inductive invariant.
LEMMA NextInv == SessionInv /\ [Next]_vars => SessionInv'
<1> SUFFICES ASSUME SessionInv, [Next]_vars PROVE SessionInv'
  OBVIOUS
<1>1. CASE UNCHANGED vars
  BY <1>1 DEF vars, tables, SessionInv, TypeOK, FrozenHaveRows, DrawnIdsAreFresh,
              ClaimIsOneTime,
              CodeExchangedOnce, ClosesOpenSessions, RevisionsStart, ConnectedHasAccount
<1>2. ASSUME NEW p \in Procs, CloseSession(p) PROVE SessionInv'
  <2>1. cand[p].previous \in Open /\ cand[p].result \in {"expired", "needs_reauthorization"}
    BY <1>2 DEF SessionInv, ClosesOpenSessions, CloseSession
  <2>2. QED
    BY <1>2, <2>1, CloseInv DEF CloseSession
<1>3. ASSUME NEW p \in Procs, RejectSession(p) PROVE SessionInv'
  BY <1>3, CloseInv DEF RejectSession, Open
<1>4. ASSUME NEW p \in Procs, FailSession(p) PROVE SessionInv'
  <2>1. cand[p].result \in {"rejected", "needs_reauthorization"}
    BY <1>4 DEF SessionInv, ClosesOpenSessions, FailSession
  <2>2. QED
    BY <1>4, <2>1, CloseInv DEF FailSession, Open
<1>5. ASSUME NEW p \in Procs, Work(p) PROVE SessionInv'
  BY <1>2, <1>3, <1>4, <1>5, InsertInv, ReadInv, ClaimInv, ExchangeInv, ProvisionInv
     DEF Work
<1>6. QED
  BY <1>1, <1>5, StartInv, ReadInv, EnvironmentInv DEF Next

\* The invariant holds in every reachable state.
LEMMA Invariance == Spec => []SessionInv
BY InitInv, NextInv, PTL DEF Spec

-----------------------------------------------------------------------------
(* Theorems *)

\* Every variable keeps its type.
THEOREM TypeCorrect == Spec => []TypeOK
<1>1. SessionInv => TypeOK
  BY DEF SessionInv
<1>2. QED
  BY <1>1, Invariance, PTL

\* A code is exchanged at most once, however many callbacks race for its
\* session and wherever a request stops (CompleteOAuthAuthorization).
THEOREM CodesAreSingleUse == Spec => []CodeExchangedOnce
<1>1. SessionInv => CodeExchangedOnce
  BY DEF SessionInv
<1>2. QED
  BY <1>1, Invariance, PTL

\* The provisioning transaction keeps the session's outcome and its account
\* together, through timeouts, late exchanges and the user's erasure.
THEOREM ConnectedExactlyWithAccount == Spec => []ConnectedHasAccount
<1>1. SessionInv => ConnectedHasAccount
  BY DEF SessionInv
<1>2. QED
  BY <1>1, Invariance, PTL

\* What a step may do to an account: provision it under the application as it
\* is now and before the user's fence, or erase it.
LEMMA AccountSteps ==
  ASSUME SessionInv, [Next]_vars, NEW s \in Sessions
  PROVE  \/ account'[s] \in {account[s], 0}
         \/ ~fenced /\ app.enabled /\ account'[s] = app.revision
<1>0. account \in [Sessions -> Nat]
  BY DEF SessionInv, TypeOK
<1>1. CASE account' = account
  BY <1>1
<1>2. CASE EraseSubject
  BY <1>0, <1>2 DEF EraseSubject
<1>3. ASSUME NEW p \in Procs, ProvisionAccount(p), account' # account
      PROVE  \/ account'[s] \in {account[s], 0}
             \/ ~fenced /\ app.enabled /\ account'[s] = app.revision
  <2>1. /\ MayProvision(cand[p].session, cand[p].revision)
        /\ account' = [account EXCEPT ![cand[p].session] = cand[p].revision]
    BY <1>3 DEF ProvisionAccount
  <2>2. ~fenced /\ app.enabled /\ app.revision = cand[p].revision
    BY <2>1 DEF MayProvision, SameApplication
  <2>3. QED
    BY <1>0, <2>1, <2>2
<1>4. QED
  BY <1>1, <1>2, <1>3
     DEF Next, Work, vars, tables, StartAuthorization, Request, CrashRequest,
         InsertSession, CheckSession, CloseSession, CheckApplication, RejectSession,
         ClaimSession, Exchange, FailSession, EditApplication, TimePasses, PrepareErasure

\* An application edited during an exchange leaves no account behind: an account
\* is provisioned with the client credentials that are current.
THEOREM NoStaleCredentials == Spec => AccountsHoldCurrentCredentials
<1>1. ASSUME SessionInv, [Next]_vars
      PROVE  [\A s \in Sessions :
                account'[s] # account[s] /\ account'[s] # 0 =>
                    app.enabled /\ account'[s] = app.revision]_vars
  BY <1>1, AccountSteps
<1>2. QED
  BY <1>1, Invariance, PTL DEF Spec, AccountsHoldCurrentCredentials

\* The user's fence holds back the provisioning of a session whose exchange or
\* start it overtook.
THEOREM FenceStopsProvisioning == Spec => NoAccountAfterErasure
<1>1. ASSUME SessionInv, [Next]_vars
      PROVE  [fenced => \A s \in Sessions : account'[s] \in {account[s], 0}]_vars
  BY <1>1, AccountSteps
<1>2. QED
  BY <1>1, Invariance, PTL DEF Spec, NoAccountAfterErasure

=============================================================================
