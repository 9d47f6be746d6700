---------------------- MODULE ConnectionAccountsProofs ----------------------
(***************************************************************************)
(* Proofs about ConnectionAccounts on a host whose pool holds one          *)
(* connection, for any number of requests, connections, credentials and    *)
(* subjects.                                                               *)
(*                                                                         *)
(* A transaction that has begun holds the connection, so what it checked   *)
(* still holds when it commits (JobInv).  What an erasure froze stays as   *)
(* it was until the erasure runs, except that DeleteConnection may take it *)
(* away, and a manifest may then insert an empty row under the same key    *)
(* (PlanInv).                                                              *)
(***************************************************************************)
EXTENDS ConnectionAccounts, TLAPS

\* A connection without a row has no account and references nothing.
RowInv(c) ==
    conn[c].id = None => account[c] = None /\ conn[c].refs = {}

\* What the plan of subject u, once prepared, says of the rows.
PlanInv(u) ==
    /\ plan[u].state = "none" => plan[u] = NoPlan
    /\ \A c \in Connections, id \in {"connection", "manifest"} :
          <<c, id>> \in plan[u].rows => c \in plan[u].keys
    /\ \A c \in Connections, s \in Secrets :
          <<c, s>> \in plan[u].pairs => c \in plan[u].keys
    /\ \A c \in plan[u].keys : /\ account[c] \in {u, None}
                               /\ account[c] = None => conn[c].refs = {}
    /\ plan[u].state # "none" =>
          \A c \in Connections : account[c] = u =>
              c \in plan[u].keys /\ <<c, conn[c].id>> \in plan[u].rows
    /\ plan[u].state = "prepared" =>
          /\ \A s \in Secrets : reserved[s] \in plan[u].keys =>
                                    <<reserved[s], s>> \in plan[u].pairs
          /\ grant \cap plan[u].keys \subseteq plan[u].grants
    /\ plan[u].state = "erased" =>
          /\ grant \cap plan[u].keys = {}
          /\ \A c \in Connections : account[c] = u =>
                 conn[c].refs = {} /\ conn[c].status # "open"
          /\ \A s \in plan[u].secrets : secret[s] = None

\* A request in a transaction.
Open(t) == t.op \in {"upsert", "register"}

\* What an open transaction has checked.
JobInv(t) == Open(t) =>
    /\ t.c \notin FencedConnections
    /\ NotReservedByOther(t.c, t.refs)
    /\ t.owner # None => t.refs \subseteq Secrets /\ NoAlias(t.c, t.refs)
    /\ t.op = "upsert" => t.owner = account[t.c]
    /\ t.op = "register" =>
          /\ t.owner \in Owners \ FencedSubjects
          /\ account[t.c] = None /\ conn[t.c].id # None
          /\ t.refs = conn[t.c].refs

\* What the rows owe each other.
TablesInv ==
    /\ ReservedExclusively
    /\ ReservationsFollowRefs
    /\ \A c \in Connections : RowInv(c)
    /\ \A u \in Users : PlanInv(u)

JobsInv ==
    /\ \A p, q \in Procs : Open(job[p]) /\ Open(job[q]) => p = q
    /\ \A p \in Procs : JobInv(job[p])

\* The inductive invariant, on a host whose pool holds one connection.
AccountsInv ==
    /\ SingleConnection
    /\ TypeOK
    /\ TablesInv
    /\ JobsInv

-----------------------------------------------------------------------------
(* Steps that leave references, accounts and reservations as they are      *)

\* No row changes its references, a published one keeps its key and, when it is
\* fenced, its status, and fenced credentials are left alone.
LEMMA QuietInv ==
    ASSUME TypeOK, TablesInv, UNCHANGED <<account, reserved, grant, plan>>,
           \A c \in Connections : conn'[c].refs = conn[c].refs,
           \A c \in Connections : conn'[c].id = None => conn[c].id = None,
           \A c \in Connections : account[c] # None => conn'[c].id = conn[c].id,
           \A c \in Connections : <<c, conn[c].id>> \in RowFences /\ account[c] # None =>
               conn'[c].status = conn[c].status,
           \A s \in FencedSecrets : secret'[s] = secret[s]
    PROVE  TablesInv'
<1>1. ReservedExclusively' /\ ReservationsFollowRefs'
  BY DEF TablesInv, ReservedExclusively, ReservationsFollowRefs
<1>2. \A c \in Connections : RowInv(c)'
  BY DEF TablesInv, RowInv
<1>3. ASSUME NEW u \in Users PROVE PlanInv(u)'
  <2>1. PlanInv(u)
    BY DEF TablesInv
  <2>2. \A c \in Connections : account[c] = u => account[c] # None
    BY AccountsAssumption
  <2>3. plan[u].state = "erased" => \A c \in Connections : account[c] = u =>
            conn'[c].status = conn[c].status
    BY <2>1, <2>2 DEF PlanInv, RowFences
  <2>4. \A s \in plan[u].secrets : secret'[s] = secret[s]
    BY DEF FencedSecrets
  <2>5. plan[u].keys \subseteq Connections
    BY DEF TypeOK, Plan
  <2> QED BY <2>1, <2>2, <2>3, <2>4, <2>5 DEF PlanInv
<1> QED BY <1>1, <1>2, <1>3 DEF TablesInv

-----------------------------------------------------------------------------
(* Steps that write one connection that is not fenced                      *)

\* Connection c gets the references refs and the owner o, or none, and an owner's
\* credentials are reserved.
LEMMA PublishedInv ==
    ASSUME TypeOK, TablesInv, NEW c \in Connections, NEW refs \in Refs,
           NEW o \in Owners \cup {None},
           c \notin FencedConnections, o \notin FencedSubjects,
           NotReservedByOther(c, refs),
           o = None => account[c] = None,
           o # None => refs \subseteq Secrets /\ NoAlias(c, refs),
           UNCHANGED plan,
           conn'[c].id # None, conn'[c].refs = refs,
           \A d \in Connections \ {c} : conn'[d] = conn[d],
           account' = [account EXCEPT ![c] = o],
           reserved' = IF o = None THEN reserved ELSE Reserve(c, refs),
           grant \subseteq grant', grant' \subseteq grant \cup {c},
           \A s \in FencedSecrets : secret'[s] = secret[s]
    PROVE  TablesInv'
<1>1. \A d \in Connections : account'[d] = IF d = c THEN o ELSE account[d]
  BY DEF TypeOK
<1>2. c # None
  BY AccountsAssumption
<1>3. ReservationsFollowRefs'
  <2>1. CASE o = None
    BY <2>1, <1>1, <1>2 DEF TablesInv, ReservationsFollowRefs
  <2>2. CASE o # None
    <3>1. \A s \in Secrets : reserved'[s] =
              IF s \in refs THEN c ELSE IF reserved[s] = c THEN None ELSE reserved[s]
      BY <2>2 DEF Reserve
    <3>2. {s \in Secrets : reserved'[s] = c} = refs
      BY <2>2, <3>1, <1>2
    <3>3. ASSUME NEW d \in Connections, d # c
          PROVE  {s \in Secrets : reserved'[s] = d} = {s \in Secrets : reserved[s] = d}
      <4>1. d # None
        BY AccountsAssumption
      <4>2. \A s \in refs \cap Secrets : reserved[s] # d
        BY <3>3, <4>1 DEF NotReservedByOther
      <4> QED BY <3>1, <3>3, <4>1, <4>2
    <3>4. ASSUME NEW d \in Connections
          PROVE  {s \in Secrets : reserved'[s] = d} =
                     IF account'[d] = None THEN {} ELSE conn'[d].refs
      <4>1. CASE d = c
        BY <4>1, <2>2, <1>1, <3>2
      <4>2. CASE d # c
        BY <4>2, <1>1, <3>3 DEF TablesInv, ReservationsFollowRefs
      <4> QED BY <4>1, <4>2
    <3> QED BY <3>4 DEF ReservationsFollowRefs
  <2> QED BY <2>1, <2>2
<1>4. ReservedExclusively'
  <2>1. CASE o = None
    BY <2>1, <1>2 DEF TablesInv, ReservedExclusively, NotReservedByOther
  <2>2. CASE o # None
    <3> SUFFICES ASSUME NEW s \in Secrets, NEW d \in Connections,
                        reserved'[s] \notin {None, d}
                 PROVE  s \notin conn'[d].refs
      BY DEF ReservedExclusively
    <3>1. reserved'[s] =
              IF s \in refs THEN c ELSE IF reserved[s] = c THEN None ELSE reserved[s]
      BY <2>2 DEF Reserve
    <3>2. CASE s \in refs
      BY <2>2, <3>1, <3>2 DEF NoAlias
    <3>3. CASE s \notin refs
      BY <3>1, <3>3 DEF TablesInv, ReservedExclusively
    <3> QED BY <3>2, <3>3
  <2> QED BY <2>1, <2>2
<1>5. \A d \in Connections : RowInv(d)'
  BY <1>1 DEF TablesInv, RowInv
<1>6. ASSUME NEW u \in Users PROVE PlanInv(u)'
  <2>1. PlanInv(u) /\ u # None
    BY AccountsAssumption DEF TablesInv
  <2>2. /\ plan[u].keys \subseteq Connections \ {c}
        /\ plan[u].secrets \subseteq FencedSecrets
        /\ plan[u].state # "none" => o # u
    BY DEF TypeOK, Plan, FencedConnections, FencedSecrets, FencedSubjects
  <2>3. \A d \in Connections \ {c} : account'[d] = account[d]
    BY <1>1
  <2>4. plan[u].state # "none" => account'[c] # u
    BY <1>1, <2>2
  <2>5. grant' \cap plan[u].keys = grant \cap plan[u].keys
    BY <2>2
  <2>6. \A s \in Secrets : reserved'[s] \in plan[u].keys => reserved'[s] = reserved[s]
    <3>1. CASE o = None
      BY <3>1
    <3>2. CASE o # None
      <4>1. \A s \in Secrets : reserved'[s] \in {c, None, reserved[s]}
        BY <3>2 DEF Reserve
      <4> QED BY <2>2, <4>1, AccountsAssumption
    <3> QED BY <3>1, <3>2
  <2>7. plan'[u] = plan[u]
    OBVIOUS
  <2>8. \A d \in plan[u].keys : d \in Connections /\ d # c /\ account'[d] = account[d]
                                /\ conn'[d] = conn[d]
    BY <2>2, <2>3
  <2>9. \A d \in plan[u].keys : /\ account'[d] \in {u, None}
                                /\ account'[d] = None => conn'[d].refs = {}
    BY <2>1, <2>8 DEF PlanInv
  <2>10. plan[u].state # "none" =>
          \A d \in Connections : account'[d] = u =>
              d # c /\ d \in plan[u].keys /\ <<d, conn'[d].id>> \in plan[u].rows
    BY <2>1, <2>3, <2>4 DEF PlanInv
  <2>11. plan[u].state = "prepared" =>
          /\ \A s \in Secrets : reserved'[s] \in plan[u].keys =>
                                    <<reserved'[s], s>> \in plan[u].pairs
          /\ grant' \cap plan[u].keys \subseteq plan[u].grants
    BY <2>1, <2>5, <2>6 DEF PlanInv
  <2>12. plan[u].state = "erased" =>
          /\ grant' \cap plan[u].keys = {}
          /\ \A d \in Connections : account'[d] = u =>
                 conn'[d].refs = {} /\ conn'[d].status # "open"
          /\ \A s \in plan[u].secrets : secret'[s] = None
    <3> SUFFICES ASSUME plan[u].state = "erased"
                 PROVE  /\ grant' \cap plan[u].keys = {}
                        /\ \A d \in Connections : account'[d] = u =>
                               conn'[d].refs = {} /\ conn'[d].status # "open"
                        /\ \A s \in plan[u].secrets : secret'[s] = None
      OBVIOUS
    <3>1. \A d \in Connections : account'[d] = u => conn'[d] = conn[d] /\ account[d] = u
      BY <2>3, <2>4
    <3> QED BY <2>1, <2>2, <2>5, <3>1 DEF PlanInv
  <2> QED BY <2>1, <2>7, <2>9, <2>10, <2>11, <2>12 DEF PlanInv
<1> QED BY <1>3, <1>4, <1>5, <1>6 DEF TablesInv

-----------------------------------------------------------------------------
(* Deletion and erasure                                                    *)

\* DeleteConnection takes the row, the account and the reservations together.
LEMMA DeleteTables ==
    ASSUME TypeOK, TablesInv, NEW c \in Connections, DeleteConnection(c)
    PROVE  TablesInv'
<1>1. /\ conn'[c] = NoRow /\ \A d \in Connections \ {c} : conn'[d] = conn[d]
      /\ account'[c] = None /\ \A d \in Connections \ {c} : account'[d] = account[d]
      /\ \A s \in Secrets : reserved'[s] = IF reserved[s] = c THEN None ELSE reserved[s]
      /\ UNCHANGED <<secret, grant, plan>>
  BY DEF DeleteConnection, Reserve, TypeOK
<1>2. None \notin Connections \cup Users
  BY AccountsAssumption
<1>3. ReservedExclusively'
  BY <1>1 DEF TablesInv, ReservedExclusively, NoRow
<1>4. ReservationsFollowRefs'
  <2> SUFFICES ASSUME NEW d \in Connections
               PROVE  {s \in Secrets : reserved'[s] = d} =
                          IF account'[d] = None THEN {} ELSE conn'[d].refs
    BY DEF ReservationsFollowRefs
  <2>1. CASE d = c
    BY <2>1, <1>1, <1>2
  <2>2. CASE d # c
    <3>1. {s \in Secrets : reserved'[s] = d} = {s \in Secrets : reserved[s] = d}
      BY <1>1, <1>2, <2>2
    <3> QED BY <1>1, <2>2, <3>1 DEF TablesInv, ReservationsFollowRefs
  <2> QED BY <2>1, <2>2
<1>5. \A d \in Connections : RowInv(d)'
  BY <1>1 DEF TablesInv, RowInv, NoRow
<1>6. ASSUME NEW u \in Users PROVE PlanInv(u)'
  <2>1. PlanInv(u) /\ u # None /\ plan[u].keys \subseteq Connections
    BY <1>2 DEF TablesInv, TypeOK, Plan
  <2>2. \A d \in Connections : account'[d] = u => account[d] = u /\ conn'[d] = conn[d]
    BY <1>1, <2>1
  <2>3. \A s \in Secrets : reserved'[s] \in plan[u].keys => reserved'[s] = reserved[s]
    BY <1>1, <1>2, <2>1
  <2>4. \A d \in plan[u].keys : /\ account'[d] \in {u, None}
                                /\ account'[d] = None => conn'[d].refs = {}
    BY <1>1, <2>1 DEF PlanInv, NoRow
  <2> QED BY <1>1, <2>1, <2>2, <2>3, <2>4 DEF PlanInv
<1> QED BY <1>3, <1>4, <1>5, <1>6 DEF TablesInv

\* Preparation freezes rows and credentials and writes nothing else of them.
LEMMA PrepareTables ==
    ASSUME TypeOK, TablesInv, NEW u \in Users, PrepareSubjectErasure(u)
    PROVE  TablesInv'
<1> DEFINE keys == PersonalConnections(u)
<1> DEFINE rows == {<<c, conn[c].id>> : c \in {d \in keys : conn[d].id # None}}
<1>1. PICK k : k = keys
  OBVIOUS
<1>2. PICK z : z = ExclusiveSecrets(u)
  OBVIOUS
<1>3. PICK r : r = rows
  OBVIOUS
<1>4. /\ plan[u].state = "none"
      /\ plan' = [plan EXCEPT ![u] =
            [state |-> "prepared", keys |-> k, rows |-> r,
             pairs |-> {q \in k \X Secrets : reserved[q[2]] = q[1]},
             grants |-> grant \cap k, secrets |-> z]]
      /\ conn' = [c \in Connections |->
             IF <<c, conn[c].id>> \in r
             THEN [id |-> conn[c].id, status |-> "erasing", refs |-> conn[c].refs]
             ELSE conn[c]]
      /\ secret' = [s \in Secrets |->
             IF s \in z /\ secret[s] # None THEN "erasing" ELSE secret[s]]
      /\ UNCHANGED <<account, reserved, grant>>
  BY <1>1, <1>2, <1>3 DEF PrepareSubjectErasure
<1>5. k = {c \in Connections : account[c] = u}
  BY <1>1 DEF PersonalConnections
<1>6. \A c \in Connections : <<c, conn[c].id>> \in r <=> account[c] = u
  <2>1. \A c \in Connections : account[c] = u => conn[c].id # None
    BY AccountsAssumption DEF TablesInv, RowInv
  <2> QED BY <1>1, <1>3, <1>5, <2>1
<1>7. \A c \in Connections, id \in {"connection", "manifest"} : <<c, id>> \in r => c \in k
  BY <1>1, <1>3
<1> HIDE DEF keys, rows
<1>8. \A c \in Connections : /\ conn'[c].id = conn[c].id /\ conn'[c].refs = conn[c].refs
                             /\ account[c] # u => conn'[c] = conn[c]
  BY <1>4, <1>6
<1>9. ReservedExclusively' /\ ReservationsFollowRefs'
  BY <1>4, <1>8 DEF TablesInv, ReservedExclusively, ReservationsFollowRefs
<1>10. \A c \in Connections : RowInv(c)'
  BY <1>4, <1>8 DEF TablesInv, RowInv
<1>11. PlanInv(u)'
  <2>1. /\ plan'[u].state = "prepared" /\ plan'[u].keys = k /\ plan'[u].rows = r
        /\ plan'[u].pairs = {q \in k \X Secrets : reserved[q[2]] = q[1]}
        /\ plan'[u].grants = grant \cap k
    BY <1>4 DEF TypeOK
  <2>2. \A s \in Secrets : reserved[s] \in k => <<reserved[s], s>> \in plan'[u].pairs
    BY <2>1
  <2>3. \A c \in Connections, s \in Secrets : <<c, s>> \in plan'[u].pairs => c \in k
    BY <2>1
  <2>4. \A c \in k : account'[c] = u /\ u # None
    BY <1>4, <1>5, AccountsAssumption
  <2>5. \A c \in Connections : account'[c] = u => c \in k /\ <<c, conn'[c].id>> \in r
    BY <1>4, <1>5, <1>6, <1>8
  <2> QED BY <1>4, <1>7, <2>1, <2>2, <2>3, <2>4, <2>5 DEF PlanInv
<1>12. ASSUME NEW v \in Users, v # u PROVE PlanInv(v)'
  <2>1. plan'[v] = plan[v] /\ PlanInv(v) /\ plan[v].keys \subseteq Connections
    BY <1>4, <1>12 DEF TypeOK, Plan, TablesInv
  <2>2. \A c \in Connections : account[c] = v => conn'[c] = conn[c]
    BY <1>8, <1>12
  <2>3. \A s \in Secrets : secret[s] = None => secret'[s] = None
    BY <1>4
  <2>4. plan[v].secrets \subseteq Secrets
    BY DEF TypeOK, Plan
  <2> QED BY <1>4, <1>8, <2>1, <2>2, <2>3, <2>4 DEF PlanInv
<1> QED BY <1>9, <1>10, <1>11, <1>12 DEF TablesInv

\* Erasure clears the rows and reservations of the subject and of nobody else.
LEMMA EraseTables ==
    ASSUME TypeOK, TablesInv, NEW u \in Users, ErasePreparedSubject(u)
    PROVE  TablesInv'
<1>1. PICK p : p = plan[u]
  OBVIOUS
<1>2. /\ p.state = "prepared"
      /\ plan' = [plan EXCEPT ![u].state = "erased"]
      /\ conn' = [c \in Connections |->
              IF <<c, conn[c].id>> \in p.rows
              THEN [id |-> conn[c].id, status |-> "revoked", refs |-> {}]
              ELSE conn[c]]
      /\ reserved' = [s \in Secrets |->
              IF <<reserved[s], s>> \in p.pairs THEN None ELSE reserved[s]]
      /\ secret' = [s \in Secrets |-> IF s \in p.secrets THEN None ELSE secret[s]]
      /\ grant' = grant \ p.grants
      /\ UNCHANGED account
  BY <1>1 DEF ErasePreparedSubject
<1>3. PlanInv(u) /\ p \in Plan /\ u # None /\ None \notin Connections
  BY <1>1, AccountsAssumption DEF TablesInv, TypeOK
<1>4. \A c \in Connections : <<c, conn[c].id>> \in p.rows => c \in p.keys
  BY <1>1, <1>3 DEF PlanInv, Plan
<1>5. \A s \in Secrets : <<reserved[s], s>> \in p.pairs <=> reserved[s] \in p.keys
  BY <1>1, <1>2, <1>3 DEF PlanInv, Plan
<1>6. \A c \in Connections : account[c] = u => c \in p.keys /\ <<c, conn[c].id>> \in p.rows
  BY <1>1, <1>2, <1>3 DEF PlanInv
<1>7. \A c \in p.keys : /\ account[c] \in {u, None}
                        /\ account[c] = None => conn[c].refs = {}
  BY <1>1, <1>3 DEF PlanInv
<1>8. \A c \in p.keys : c \in Connections /\ conn'[c].refs = {}
  BY <1>2, <1>3, <1>6, <1>7 DEF Plan
<1>9. \A c \in Connections \ p.keys : conn'[c] = conn[c]
  BY <1>2, <1>4
<1>10. \A s \in Secrets : reserved'[s] = IF reserved[s] \in p.keys THEN None ELSE reserved[s]
  BY <1>2, <1>5
<1>11. \A c \in Connections : conn'[c].id = conn[c].id
  BY <1>2
<1>12. ReservedExclusively'
  BY <1>8, <1>9, <1>10 DEF TablesInv, ReservedExclusively
<1>13. ReservationsFollowRefs'
  <2> SUFFICES ASSUME NEW c \in Connections
               PROVE  {s \in Secrets : reserved'[s] = c} =
                          IF account'[c] = None THEN {} ELSE conn'[c].refs
    BY DEF ReservationsFollowRefs
  <2>1. CASE c \in p.keys
    BY <2>1, <1>3, <1>8, <1>10
  <2>2. CASE c \notin p.keys
    <3>1. {s \in Secrets : reserved'[s] = c} = {s \in Secrets : reserved[s] = c}
      BY <1>3, <1>10, <2>2
    <3> QED BY <1>2, <1>9, <2>2, <3>1 DEF TablesInv, ReservationsFollowRefs
  <2> QED BY <2>1, <2>2
<1>14. \A c \in Connections : conn[c].refs = {} => conn'[c].refs = {}
  BY <1>8, <1>9
<1>15. \A c \in Connections : RowInv(c)'
  BY <1>2, <1>11, <1>14 DEF TablesInv, RowInv
<1>16. PlanInv(u)'
  <2>1. /\ plan'[u].state = "erased" /\ plan'[u].keys = p.keys /\ plan'[u].rows = p.rows
        /\ plan'[u].pairs = p.pairs /\ plan'[u].secrets = p.secrets
    BY <1>1, <1>2 DEF TypeOK, Plan
  <2>2. grant' \cap p.keys = {}
    BY <1>1, <1>2, <1>3 DEF PlanInv
  <2>3. \A c \in Connections : account'[c] = u =>
            conn'[c].refs = {} /\ conn'[c].status # "open"
    BY <1>2, <1>6, <1>8
  <2>4. \A s \in p.secrets : secret'[s] = None
    BY <1>2, <1>3 DEF Plan
  <2>5. \A c \in p.keys : /\ account'[c] \in {u, None}
                          /\ account'[c] = None => conn'[c].refs = {}
    BY <1>2, <1>7, <1>8
  <2>6. \A c \in Connections : account'[c] = u => c \in p.keys /\ <<c, conn'[c].id>> \in p.rows
    BY <1>2, <1>6, <1>11
  <2>7. /\ \A c \in Connections, id \in {"connection", "manifest"} :
               <<c, id>> \in p.rows => c \in p.keys
        /\ \A c \in Connections, s \in Secrets : <<c, s>> \in p.pairs => c \in p.keys
    BY <1>1, <1>3 DEF PlanInv
  <2> QED BY <2>1, <2>2, <2>3, <2>4, <2>5, <2>6, <2>7 DEF PlanInv
<1>17. ASSUME NEW v \in Users, v # u PROVE PlanInv(v)'
  <2>1. plan'[v] = plan[v] /\ PlanInv(v) /\ plan[v] \in Plan
    BY <1>2, <1>17 DEF TypeOK, TablesInv
  <2>2. \A c \in Connections : account[c] = v => c \notin p.keys
    BY <1>7, <1>17, AccountsAssumption
  <2>3. \A c \in Connections : account[c] = v => conn'[c] = conn[c]
    BY <1>9, <2>2
  <2>4. \A s \in Secrets : /\ secret[s] = None => secret'[s] = None
                           /\ reserved'[s] \in plan[v].keys => reserved'[s] = reserved[s]
    BY <1>2, <1>3, <1>10, <2>1 DEF Plan
  <2>5. \A c \in plan[v].keys : c \in Connections /\ account'[c] = account[c]
                                /\ (conn[c].refs = {} => conn'[c].refs = {})
    BY <1>2, <1>14, <2>1 DEF Plan
  <2>6. \A s \in plan[v].secrets : s \in Secrets
    BY <2>1 DEF Plan
  <2> QED BY <1>2, <2>1, <2>3, <2>4, <2>5, <2>6 DEF PlanInv
<1> QED BY <1>12, <1>13, <1>15, <1>16, <1>17 DEF TablesInv

-----------------------------------------------------------------------------
(* Transactions                                                            *)

\* The constants of the rows are of their types.
LEMMA Empty == Idle \in Job /\ ~Open(Idle) /\ NoRow \in ConnRow /\ NoPlan \in Plan
<1>1. PICK c \in Connections : c = CHOOSE d \in Connections : TRUE
  BY AccountsAssumption
<1>2. Idle = [op |-> "idle", c |-> c, refs |-> {}, owner |-> None, id |-> None,
              status |-> "open"]
  BY <1>1 DEF Idle
<1> QED BY <1>1, <1>2 DEF Job, Open, NoRow, ConnRow, NoPlan, Plan, Refs, Owners

\* When a statement can begin, no transaction is open.
LEMMA NoneOpen ==
    ASSUME AccountsInv, CanBegin
    PROVE  \A p \in Procs : ~Open(job[p])
BY DEF AccountsInv, CanBegin, Open

\* Without an open transaction nothing is owed to one.
LEMMA NoneOpenInv ==
    ASSUME \A p \in Procs : ~Open(job'[p])
    PROVE  JobsInv'
BY DEF JobsInv, JobInv, Open

\* A step that leaves the requests alone, or ends one.
LEMMA BeginJobs ==
    ASSUME AccountsInv, CanBegin,
           UNCHANGED job \/ \E p \in Procs : job' = [job EXCEPT ![p] = Idle]
    PROVE  job' \in [Procs -> Job] /\ JobsInv'
<1>1. job' \in [Procs -> Job]
  BY Empty DEF AccountsInv, TypeOK
<1>2. \A p \in Procs : ~Open(job'[p])
  BY NoneOpen, Empty DEF AccountsInv, TypeOK
<1> QED BY <1>1, <1>2, NoneOpenInv

\* The open transaction commits or rolls back.
LEMMA EndJobs ==
    ASSUME AccountsInv, NEW p \in Procs, Open(job[p]), job' = [job EXCEPT ![p] = Idle]
    PROVE  job' \in [Procs -> Job] /\ JobsInv'
<1>1. job' \in [Procs -> Job]
  BY Empty DEF AccountsInv, TypeOK
<1>2. \A q \in Procs : ~Open(job'[q])
  BY Empty DEF AccountsInv, TypeOK, JobsInv
<1> QED BY <1>1, <1>2, NoneOpenInv

\* A request begins and has read t; no row changes.
LEMMA BeginInv ==
    ASSUME AccountsInv, CanBegin, NEW p \in Procs, NEW t \in Job, JobInv(t),
           job' = [job EXCEPT ![p] = t],
           UNCHANGED <<conn, account, reserved, secret, grant, plan, lost>>
    PROVE  AccountsInv'
<1>1. TypeOK'
  BY DEF AccountsInv, TypeOK
<1>2. TablesInv'
  BY QuietInv DEF AccountsInv
<1>3. JobInv(t)'
  BY DEF JobInv, Open, FencedConnections, FencedSubjects, NotReservedByOther, NoAlias
<1>4. \A q \in Procs : job'[q] = IF q = p THEN t ELSE job[q]
  BY DEF AccountsInv, TypeOK
<1>5. \A q \in Procs : q # p => ~Open(job'[q])
  BY <1>4, NoneOpen
<1>6. \A q \in Procs : JobInv(job[q])'
  <2> SUFFICES ASSUME NEW q \in Procs PROVE JobInv(job[q])'
    OBVIOUS
  <2>1. CASE q = p
    BY <2>1, <1>3, <1>4
  <2>2. CASE q # p
    BY <2>2, <1>5 DEF JobInv, Open
  <2> QED BY <2>1, <2>2
<1>7. JobsInv'
  BY <1>5, <1>6 DEF JobsInv, Open
<1> QED BY <1>1, <1>2, <1>7 DEF AccountsInv

-----------------------------------------------------------------------------
(* The actions                                                             *)

\* CheckUpsert keeps AccountsInv.
LEMMA CheckUpsertInv ==
    ASSUME AccountsInv, NEW p \in Procs, NEW c \in Connections, NEW refs \in Refs,
           CheckUpsert(p, c, refs)
    PROVE  AccountsInv'
<1>1. PICK t : t = [op |-> "upsert", c |-> c, refs |-> refs, owner |-> account[c],
                    id |-> None, status |-> "open"]
  OBVIOUS
<1>2. t \in Job
  BY <1>1 DEF Job, AccountsInv, TypeOK
<1>3. JobInv(t)
  BY <1>1 DEF CheckUpsert, JobInv, Open, Publishable
<1>4. /\ CanBegin /\ job' = [job EXCEPT ![p] = t]
      /\ UNCHANGED <<conn, account, reserved, secret, grant, plan, lost>>
  BY <1>1 DEF CheckUpsert
<1> QED BY <1>2, <1>3, <1>4, BeginInv

\* CheckRegister keeps AccountsInv.
LEMMA CheckRegisterInv ==
    ASSUME AccountsInv, NEW p \in Procs, NEW c \in Connections, NEW o \in Owners,
           CheckRegister(p, c, o)
    PROVE  AccountsInv'
<1>1. PICK t : t = [op |-> "register", c |-> c, refs |-> conn[c].refs, owner |-> o,
                    id |-> None, status |-> "open"]
  OBVIOUS
<1>2. t \in Job
  BY <1>1 DEF Job, AccountsInv, TypeOK, ConnRow
<1>3. JobInv(t)
  BY <1>1 DEF CheckRegister, JobInv, Open, Publishable
<1>4. /\ CanBegin /\ job' = [job EXCEPT ![p] = t]
      /\ UNCHANGED <<conn, account, reserved, secret, grant, plan, lost>>
  BY <1>1 DEF CheckRegister
<1> QED BY <1>2, <1>3, <1>4, BeginInv

\* ReadRequirement keeps AccountsInv.
LEMMA ReadRequirementInv ==
    ASSUME AccountsInv, NEW p \in Procs, NEW c \in Connections, ReadRequirement(p, c)
    PROVE  AccountsInv'
<1>1. PICK t : t = [op |-> "sync", c |-> c, refs |-> conn[c].refs, owner |-> None,
                    id |-> conn[c].id, status |-> conn[c].status]
  OBVIOUS
<1>2. t \in Job
  BY <1>1 DEF Job, AccountsInv, TypeOK, ConnRow, ReadRequirement, ValidConnectionStatus
<1>3. JobInv(t)
  BY <1>1 DEF JobInv, Open
<1>4. /\ CanBegin /\ job' = [job EXCEPT ![p] = t]
      /\ UNCHANGED <<conn, account, reserved, secret, grant, plan, lost>>
  BY <1>1 DEF ReadRequirement
<1> QED BY <1>2, <1>3, <1>4, BeginInv

\* A connection that is not fenced is written: its row is not fenced either.
LEMMA UpsertedRow ==
    ASSUME AccountsInv, NEW c \in Connections, NEW refs \in Refs,
           c \notin FencedConnections
    PROVE  /\ Upserted(c, refs) \in ConnRow
           /\ Upserted(c, refs).id # None /\ Upserted(c, refs).refs = refs
<1>1. conn[c] \in ConnRow
  BY DEF AccountsInv, TypeOK
<1>2. conn[c].id # None => <<c, conn[c].id>> \notin RowFences
  <2> SUFFICES ASSUME NEW u \in Users, conn[c].id # None,
                      <<c, conn[c].id>> \in plan[u].rows
               PROVE  FALSE
    BY DEF RowFences
  <2>1. PlanInv(u) /\ conn[c].id \in {"connection", "manifest"}
    BY <1>1 DEF AccountsInv, TablesInv, ConnRow
  <2> QED BY <2>1 DEF PlanInv, FencedConnections
<1> QED BY <1>1, <1>2, AccountsAssumption DEF Upserted, RowWriteAllowed, ConnRow

\* Reservations are of their type.
LEMMA ReserveType ==
    ASSUME TypeOK, NEW c \in Connections, NEW refs
    PROVE  Reserve(c, refs) \in [Secrets -> Connections \cup {None}]
BY DEF TypeOK, Reserve

\* CommitUpsert keeps AccountsInv.
LEMMA CommitUpsertInv ==
    ASSUME AccountsInv, NEW p \in Procs, CommitUpsert(p)
    PROVE  AccountsInv'
<1>1. PICK j : j = job[p]
  OBVIOUS
<1>2. j \in Job /\ JobInv(j) /\ j.op = "upsert" /\ Open(j)
  BY <1>1 DEF AccountsInv, TypeOK, JobsInv, CommitUpsert, Open
<1>3. /\ j.c \in Connections /\ j.refs \in Refs /\ j.owner = account[j.c]
      /\ j.c \notin FencedConnections /\ NotReservedByOther(j.c, j.refs)
      /\ j.owner # None => j.refs \subseteq Secrets /\ NoAlias(j.c, j.refs)
  BY <1>2 DEF Job, JobInv
<1>4. /\ conn' = [conn EXCEPT ![j.c] = Upserted(j.c, j.refs)]
      /\ reserved' = IF j.owner = None THEN reserved ELSE Reserve(j.c, j.refs)
      /\ job' = [job EXCEPT ![p] = Idle]
      /\ UNCHANGED <<account, secret, grant, plan, lost>>
  BY <1>1, <1>3 DEF CommitUpsert
<1>5. j.owner \in Owners \cup {None} /\ j.owner \notin FencedSubjects
  <2>1. j.owner \in Owners \cup {None}
    BY <1>3 DEF AccountsInv, TypeOK
  <2>2. ASSUME NEW u \in Users, plan[u].state # "none", account[j.c] = u PROVE FALSE
    <3>1. PlanInv(u)
      BY DEF AccountsInv, TablesInv
    <3>2. j.c \in plan[u].keys
      BY <1>3, <2>2, <3>1 DEF PlanInv
    <3> QED BY <1>3, <3>2 DEF FencedConnections
  <2> QED BY <1>3, <2>1, <2>2 DEF FencedSubjects
<1>6. /\ Upserted(j.c, j.refs) \in ConnRow /\ Upserted(j.c, j.refs).id # None
      /\ Upserted(j.c, j.refs).refs = j.refs
  BY <1>3, UpsertedRow
<1>7. /\ conn'[j.c].id # None /\ conn'[j.c].refs = j.refs
      /\ \A d \in Connections \ {j.c} : conn'[d] = conn[d]
      /\ account' = [account EXCEPT ![j.c] = j.owner]
  BY <1>3, <1>4, <1>6 DEF AccountsInv, TypeOK
<1>8. TablesInv'
  BY <1>3, <1>4, <1>5, <1>7, PublishedInv DEF AccountsInv
<1>9. job' \in [Procs -> Job] /\ JobsInv'
  BY <1>1, <1>2, <1>4, EndJobs
<1>10. TypeOK'
  BY <1>3, <1>4, <1>6, <1>9, ReserveType DEF AccountsInv, TypeOK
<1> QED BY <1>8, <1>9, <1>10 DEF AccountsInv

\* CommitRegister keeps AccountsInv.
LEMMA CommitRegisterInv ==
    ASSUME AccountsInv, NEW p \in Procs, CommitRegister(p)
    PROVE  AccountsInv'
<1>1. PICK j : j = job[p]
  OBVIOUS
<1>2. j \in Job /\ JobInv(j) /\ j.op = "register" /\ Open(j)
  BY <1>1 DEF AccountsInv, TypeOK, JobsInv, CommitRegister, Open
<1>3. /\ j.c \in Connections /\ j.refs \in Refs /\ j.owner \in Owners \ FencedSubjects
      /\ j.c \notin FencedConnections /\ NotReservedByOther(j.c, j.refs)
      /\ account[j.c] = None /\ conn[j.c].id # None /\ j.refs = conn[j.c].refs
      /\ j.owner # None => j.refs \subseteq Secrets /\ NoAlias(j.c, j.refs)
  BY <1>2 DEF Job, JobInv
<1>4. j.owner # None
  BY <1>3, AccountsAssumption DEF Owners
<1>5. /\ account' = [account EXCEPT ![j.c] = j.owner]
      /\ reserved' = Reserve(j.c, j.refs)
      /\ job' = [job EXCEPT ![p] = Idle]
      /\ UNCHANGED <<conn, secret, grant, plan, lost>>
  BY <1>1, <1>3 DEF CommitRegister
<1>6. TablesInv'
  BY <1>3, <1>4, <1>5, PublishedInv DEF AccountsInv
<1>7. job' \in [Procs -> Job] /\ JobsInv'
  BY <1>1, <1>2, <1>5, EndJobs
<1>8. TypeOK'
  BY <1>3, <1>5, <1>7, ReserveType DEF AccountsInv, TypeOK
<1> QED BY <1>6, <1>7, <1>8 DEF AccountsInv

\* DeleteConnection keeps AccountsInv.
LEMMA DeleteConnectionInv ==
    ASSUME AccountsInv, NEW c \in Connections, DeleteConnection(c)
    PROVE  AccountsInv'
<1>1. TablesInv'
  BY DeleteTables DEF AccountsInv
<1>2. CanBegin /\ UNCHANGED job
  BY DEF DeleteConnection
<1>3. job' \in [Procs -> Job] /\ JobsInv'
  BY <1>2, BeginJobs
<1>4. TypeOK'
  BY <1>3, ReserveType, Empty DEF AccountsInv, TypeOK, DeleteConnection
<1> QED BY <1>1, <1>3, <1>4 DEF AccountsInv

\* SetConnectionStatus keeps AccountsInv.
LEMMA SetConnectionStatusInv ==
    ASSUME AccountsInv, NEW c \in Connections, NEW status \in {"open", "revoked"},
           SetConnectionStatus(c, status)
    PROVE  AccountsInv'
<1>1. /\ CanBegin /\ RowWriteAllowed(c)
      /\ conn' = [conn EXCEPT ![c] =
             [id |-> conn[c].id, status |-> status, refs |-> conn[c].refs]]
      /\ UNCHANGED <<account, reserved, secret, grant, plan, job, lost>>
  BY DEF SetConnectionStatus
<1>2. conn' \in [Connections -> ConnRow]
  BY <1>1 DEF AccountsInv, TypeOK, ConnRow
<1>3. \A d \in Connections :
        /\ conn'[d].id = conn[d].id /\ conn'[d].refs = conn[d].refs
        /\ <<d, conn[d].id>> \in RowFences => conn'[d].status = conn[d].status
  BY <1>1 DEF AccountsInv, TypeOK, RowWriteAllowed
<1>4. TablesInv'
  BY <1>1, <1>3, QuietInv DEF AccountsInv
<1>5. JobsInv'
  BY <1>1, BeginJobs
<1> QED BY <1>1, <1>2, <1>4, <1>5 DEF AccountsInv, TypeOK

\* RevokeConnectionAccount keeps AccountsInv.
LEMMA RevokeConnectionAccountInv ==
    ASSUME AccountsInv, NEW c \in Connections, RevokeConnectionAccount(c)
    PROVE  AccountsInv'
<1>1. /\ CanBegin /\ RowWriteAllowed(c)
      /\ conn' = [conn EXCEPT ![c] =
             [id |-> conn[c].id, status |-> "revoked", refs |-> conn[c].refs]]
      /\ secret' = [s \in Secrets |->
             IF s \in AccountSecrets(c) \ FencedSecrets /\ secret[s] = "active"
             THEN "unusable" ELSE secret[s]]
      /\ UNCHANGED <<account, reserved, grant, plan, job, lost>>
  BY DEF RevokeConnectionAccount
<1>2. conn' \in [Connections -> ConnRow] /\ secret' \in [Secrets -> SecretRow]
  BY <1>1 DEF AccountsInv, TypeOK, ConnRow, SecretRow
<1>3. \A d \in Connections :
        /\ conn'[d].id = conn[d].id /\ conn'[d].refs = conn[d].refs
        /\ <<d, conn[d].id>> \in RowFences => conn'[d].status = conn[d].status
  BY <1>1 DEF AccountsInv, TypeOK, RowWriteAllowed
<1>4. \A s \in FencedSecrets : secret'[s] = secret[s]
  BY <1>1 DEF AccountsInv, TypeOK, FencedSecrets, Plan
<1>5. TablesInv'
  BY <1>1, <1>3, <1>4, QuietInv DEF AccountsInv
<1>6. JobsInv'
  BY <1>1, BeginJobs
<1> QED BY <1>1, <1>2, <1>5, <1>6 DEF AccountsInv, TypeOK

\* UpsertSecret and TransitionSecret.
LEMMA SecretInv ==
    ASSUME AccountsInv, NEW s \in Secrets, UpsertSecret(s) \/ TransitionSecret(s)
    PROVE  AccountsInv'
<1>1. PICK status \in {"active", "unusable"} :
        /\ CanBegin /\ s \notin FencedSecrets /\ secret' = [secret EXCEPT ![s] = status]
        /\ UNCHANGED <<conn, account, reserved, grant, plan, job, lost>>
  BY DEF UpsertSecret, TransitionSecret
<1>2. secret' \in [Secrets -> SecretRow]
  BY <1>1 DEF AccountsInv, TypeOK, SecretRow
<1>3. \A z \in FencedSecrets : secret'[z] = secret[z]
  BY <1>1 DEF AccountsInv, TypeOK, FencedSecrets, Plan
<1>4. TablesInv'
  BY <1>1, <1>3, QuietInv DEF AccountsInv
<1>5. JobsInv'
  BY <1>1, BeginJobs
<1> QED BY <1>1, <1>2, <1>4, <1>5 DEF AccountsInv, TypeOK

\* ProvisionAccount keeps AccountsInv.
LEMMA ProvisionAccountInv ==
    ASSUME AccountsInv, NEW c \in Sessions, NEW o \in Owners, ProvisionAccount(c, o)
    PROVE  AccountsInv'
<1>1. PICK z : z = TokenOf[c]
  OBVIOUS
<1>2. c \in Connections /\ z \in Secrets /\ {z} \in Refs /\ o # None
  BY <1>1, AccountsAssumption DEF Refs, Owners
<1>3. /\ CanBegin /\ c \notin FencedConnections /\ o \notin FencedSubjects
      /\ z \notin FencedSecrets
      /\ NotReservedByOther(c, {z}) /\ NoAlias(c, {z})
      /\ secret' = [secret EXCEPT ![z] = "active"]
      /\ conn' = [conn EXCEPT ![c] = Upserted(c, {z})]
      /\ account' = [account EXCEPT ![c] = o]
      /\ reserved' = Reserve(c, {z})
      /\ grant' = grant \cup {c}
      /\ UNCHANGED <<plan, job, lost>>
  BY <1>1 DEF ProvisionAccount
<1>4. /\ Upserted(c, {z}) \in ConnRow /\ Upserted(c, {z}).id # None
      /\ Upserted(c, {z}).refs = {z}
  BY <1>2, <1>3, UpsertedRow
<1>5. /\ conn'[c].id # None /\ conn'[c].refs = {z}
      /\ \A d \in Connections \ {c} : conn'[d] = conn[d]
  BY <1>2, <1>3, <1>4 DEF AccountsInv, TypeOK
<1>6. \A s \in FencedSecrets : secret'[s] = secret[s]
  BY <1>3 DEF AccountsInv, TypeOK, FencedSecrets, Plan
<1>7. TablesInv'
  BY <1>2, <1>3, <1>5, <1>6, PublishedInv DEF AccountsInv
<1>8. JobsInv' /\ job' \in [Procs -> Job]
  BY <1>3, BeginJobs
<1>9. TypeOK'
  BY <1>2, <1>3, <1>4, <1>8, ReserveType DEF AccountsInv, TypeOK, SecretRow
<1> QED BY <1>7, <1>8, <1>9 DEF AccountsInv

\* WriteRequirement keeps AccountsInv.
LEMMA WriteRequirementInv ==
    ASSUME AccountsInv, NEW p \in Procs, WriteRequirement(p)
    PROVE  AccountsInv'
<1>1. PICK j : j = job[p]
  OBVIOUS
<1>2. j \in Job /\ j.c \in Connections
  BY <1>1 DEF AccountsInv, TypeOK, Job
<1>3. PICK c \in Connections : c = j.c
  BY <1>2
<1>4. PICK r : r = Synchronized(j)
  OBVIOUS
<1>5. /\ CanBegin /\ job' = [job EXCEPT ![p] = Idle]
      /\ conn' = [conn EXCEPT ![c] = r]
      /\ UNCHANGED <<account, reserved, secret, grant, plan, lost>>
  BY <1>1, <1>3, <1>4 DEF WriteRequirement
<1>6. /\ conn[c] \in ConnRow
      /\ conn[c].id = None => account[c] = None /\ conn[c].refs = {}
  BY DEF AccountsInv, TypeOK, TablesInv, RowInv
<1>7. /\ r \in ConnRow /\ r.refs = conn[c].refs
      /\ r.id = None => conn[c].id = None
      /\ account[c] # None => r.id = conn[c].id
      /\ <<c, conn[c].id>> \in RowFences /\ account[c] # None =>
             r.status = conn[c].status
  <2>1. CASE j.id # None /\ conn[c].id = j.id /\ RowWriteAllowed(c)
    <3>1. r = [id |-> j.id, status |-> j.status, refs |-> conn[c].refs]
      BY <1>3, <1>4, <2>1 DEF Synchronized, WrittenBack
    <3> QED BY <1>2, <1>6, <2>1, <3>1 DEF ConnRow, Job, RowWriteAllowed
  <2>2. CASE j.id = None /\ conn[c].id = None
    <3>1. r = [id |-> "manifest", status |-> "open", refs |-> {}]
      BY <1>3, <1>4, <2>2 DEF Synchronized, WrittenBack
    <3> QED BY <1>6, <2>2, <3>1, AccountsAssumption DEF ConnRow, Refs
  <2>3. CASE /\ ~(j.id # None /\ conn[c].id = j.id /\ RowWriteAllowed(c))
             /\ ~(j.id = None /\ conn[c].id = None)
    <3>1. r = conn[c]
      BY <1>3, <1>4, <2>3 DEF Synchronized, WrittenBack
    <3> QED BY <1>6, <3>1
  <2> QED BY <2>1, <2>2, <2>3
<1>8. \A d \in Connections : conn'[d] = IF d = c THEN r ELSE conn[d]
  BY <1>5 DEF AccountsInv, TypeOK
<1>9. TablesInv'
  BY <1>5, <1>7, <1>8, QuietInv DEF AccountsInv, FencedSecrets
<1>10. job' \in [Procs -> Job] /\ JobsInv'
  BY <1>5, BeginJobs
<1>11. TypeOK'
  BY <1>5, <1>7, <1>10 DEF AccountsInv, TypeOK
<1> QED BY <1>9, <1>10, <1>11 DEF AccountsInv

\* PrepareSubjectErasure keeps AccountsInv.
LEMMA PrepareSubjectErasureInv ==
    ASSUME AccountsInv, NEW u \in Users, PrepareSubjectErasure(u)
    PROVE  AccountsInv'
<1>1. TablesInv'
  BY PrepareTables DEF AccountsInv
<1>2. CanBegin /\ UNCHANGED job
  BY DEF PrepareSubjectErasure
<1>3. job' \in [Procs -> Job] /\ JobsInv'
  BY <1>2, BeginJobs
<1>4. PICK f : /\ f \in Plan
               /\ plan' = [plan EXCEPT ![u] = f]
  <2> DEFINE keys == PersonalConnections(u)
  <2> DEFINE rows == {<<c, conn[c].id>> : c \in {d \in keys : conn[d].id # None}}
  <2>1. keys \subseteq Connections
    BY DEF PersonalConnections
  <2>2. rows \subseteq Connections \X {"connection", "manifest"}
    BY <2>1 DEF AccountsInv, TypeOK, ConnRow
  <2>3. ExclusiveSecrets(u) \subseteq Secrets
    <3>1. UNION {conn[c].refs \cap Secrets : c \in keys} \subseteq Secrets
      OBVIOUS
    <3> QED BY <3>1 DEF ExclusiveSecrets
  <2>4. PICK r, z : r = rows /\ z = ExclusiveSecrets(u)
    OBVIOUS
  <2> HIDE DEF rows
  <2>5. [state |-> "prepared", keys |-> keys, rows |-> r,
         pairs |-> {q \in keys \X Secrets : reserved[q[2]] = q[1]},
         grants |-> grant \cap keys, secrets |-> z] \in Plan
    BY <2>1, <2>2, <2>3, <2>4 DEF Plan
  <2>6. plan' = [plan EXCEPT ![u] =
           [state |-> "prepared", keys |-> keys, rows |-> r,
            pairs |-> {q \in keys \X Secrets : reserved[q[2]] = q[1]},
            grants |-> grant \cap keys, secrets |-> z]]
    BY <2>4 DEF PrepareSubjectErasure, rows
  <2> QED BY <2>5, <2>6
<1>5. plan' \in [Users -> Plan]
  BY <1>4 DEF AccountsInv, TypeOK
<1>6. conn' \in [Connections -> ConnRow]
  BY DEF AccountsInv, TypeOK, ConnRow, PrepareSubjectErasure
<1>7. secret' \in [Secrets -> SecretRow]
  BY DEF AccountsInv, TypeOK, SecretRow, PrepareSubjectErasure
<1>8. UNCHANGED <<account, reserved, grant, lost>>
  BY DEF PrepareSubjectErasure
<1> QED BY <1>1, <1>3, <1>5, <1>6, <1>7, <1>8 DEF AccountsInv, TypeOK

\* ErasePreparedSubject keeps AccountsInv.
LEMMA ErasePreparedSubjectInv ==
    ASSUME AccountsInv, NEW u \in Users, ErasePreparedSubject(u)
    PROVE  AccountsInv'
<1>1. TablesInv'
  BY EraseTables DEF AccountsInv
<1>2. CanBegin /\ UNCHANGED <<job, account>>
  BY DEF ErasePreparedSubject
<1>3. job' \in [Procs -> Job] /\ JobsInv'
  BY <1>2, BeginJobs
<1>4. plan' \in [Users -> Plan]
  BY DEF AccountsInv, TypeOK, Plan, ErasePreparedSubject
<1>5. conn' \in [Connections -> ConnRow]
  BY DEF AccountsInv, TypeOK, ConnRow, Refs, ErasePreparedSubject
<1>6. secret' \in [Secrets -> SecretRow] /\ reserved' \in [Secrets -> Connections \cup {None}]
  BY DEF AccountsInv, TypeOK, SecretRow, ErasePreparedSubject
<1>7. grant' \in SUBSET Connections
  BY DEF AccountsInv, TypeOK, ErasePreparedSubject
<1>8. lost' \in SUBSET Secrets
  BY DEF AccountsInv, TypeOK, Plan, ErasePreparedSubject
<1> QED BY <1>1, <1>2, <1>3, <1>4, <1>5, <1>6, <1>7, <1>8 DEF AccountsInv, TypeOK

-----------------------------------------------------------------------------
LEMMA InitInv == Init /\ SingleConnection => AccountsInv
<1> SUFFICES ASSUME Init, SingleConnection PROVE AccountsInv
  OBVIOUS
<1>1. TypeOK
  BY Empty DEF Init, TypeOK, SecretRow
<1>2. JobsInv
  BY Empty DEF Init, JobsInv, JobInv
<1>3. \A c \in Connections : conn[c] = NoRow /\ account[c] = None
  BY DEF Init
<1>4. \A u \in Users : plan[u] = NoPlan
  BY DEF Init
<1>5. \A s \in Secrets : reserved[s] = None
  BY DEF Init
<1>6. ReservedExclusively /\ ReservationsFollowRefs
  BY <1>3, <1>5, AccountsAssumption DEF ReservedExclusively, ReservationsFollowRefs
<1>7. \A c \in Connections : RowInv(c)
  BY <1>3 DEF RowInv, NoRow
<1>8. \A u \in Users : PlanInv(u)
  BY <1>4 DEF PlanInv, NoPlan
<1> QED BY <1>1, <1>2, <1>6, <1>7, <1>8 DEF AccountsInv, TablesInv

\* Every step keeps the inductive invariant.
LEMMA NextInv == AccountsInv /\ [Next]_vars => AccountsInv'
<1> SUFFICES ASSUME AccountsInv, [Next]_vars PROVE AccountsInv'
  OBVIOUS
<1>1. CASE UNCHANGED vars
  <2>1. TypeOK' /\ UNCHANGED <<conn, account, reserved, secret, grant, plan, job>>
    BY <1>1 DEF vars, AccountsInv, TypeOK
  <2>2. TablesInv'
    BY <2>1, QuietInv DEF AccountsInv
  <2>3. \A p \in Procs : JobInv(job[p])'
    <3> SUFFICES ASSUME NEW p \in Procs PROVE JobInv(job[p])'
      OBVIOUS
    <3>1. PICK t : t = job[p]
      OBVIOUS
    <3>2. JobInv(t)
      BY <3>1 DEF AccountsInv, JobsInv
    <3>3. JobInv(t)'
      BY <2>1, <3>2 DEF JobInv, Open, FencedConnections, FencedSubjects,
                        NotReservedByOther, NoAlias
    <3> QED BY <2>1, <3>1, <3>3
  <2>4. JobsInv'
    BY <2>1, <2>3 DEF AccountsInv, JobsInv
  <2> QED BY <2>1, <2>2, <2>4 DEF AccountsInv
<1>2. CASE \/ \E p \in Procs, c \in Connections, refs \in Refs : CheckUpsert(p, c, refs)
           \/ \E p \in Procs : CommitUpsert(p)
           \/ \E p \in Procs, c \in Connections, u \in Owners : CheckRegister(p, c, u)
           \/ \E p \in Procs : CommitRegister(p)
  BY <1>2, CheckUpsertInv, CommitUpsertInv, CheckRegisterInv, CommitRegisterInv
<1>3. CASE \/ \E c \in Connections : DeleteConnection(c)
           \/ \E c \in Connections, status \in {"open", "revoked"} :
                  SetConnectionStatus(c, status)
           \/ \E c \in Connections : RevokeConnectionAccount(c)
           \/ \E s \in Secrets : UpsertSecret(s)
           \/ \E s \in Secrets : TransitionSecret(s)
           \/ \E c \in Sessions, u \in Owners : ProvisionAccount(c, u)
  BY <1>3, DeleteConnectionInv, SetConnectionStatusInv, RevokeConnectionAccountInv,
     SecretInv, ProvisionAccountInv
<1>4. CASE \/ \E p \in Procs, c \in Connections \ Sessions : ReadRequirement(p, c)
           \/ \E p \in Procs : WriteRequirement(p)
  BY <1>4, ReadRequirementInv, WriteRequirementInv
<1>5. CASE \/ \E u \in Users : PrepareSubjectErasure(u)
           \/ \E u \in Users : ErasePreparedSubject(u)
  BY <1>5, PrepareSubjectErasureInv, ErasePreparedSubjectInv
<1> QED BY <1>1, <1>2, <1>3, <1>4, <1>5 DEF Next

\* The invariant holds in every reachable state.
LEMMA Invariance == Spec /\ SingleConnection => []AccountsInv
BY InitInv, NextInv, PTL DEF Spec

-----------------------------------------------------------------------------
(***************************************************************************)
(* The tables hold rows of their types.                                    *)
(***************************************************************************)
THEOREM TypeCorrect == Spec /\ SingleConnection => []TypeOK
<1>1. AccountsInv => TypeOK
  BY DEF AccountsInv
<1> QED BY <1>1, Invariance, PTL

(***************************************************************************)
(* On a host whose pool holds one connection no connection references a    *)
(* credential reserved for the account of another: the check when a        *)
(* reference is written and the check when an account is published close   *)
(* the two orders, and what they read cannot change before the commit.     *)
(***************************************************************************)
THEOREM ReservationsAreExclusive == Spec /\ SingleConnection => []ReservedExclusively
<1>1. AccountsInv => ReservedExclusively
  BY DEF AccountsInv, TablesInv
<1> QED BY <1>1, Invariance, PTL

(***************************************************************************)
(* The reservations of an account are the credentials of its connection,   *)
(* through upserts, deletion, provisioning, late manifest writes and       *)
(* erasures of any number of subjects.                                     *)
(***************************************************************************)
THEOREM ReservationsAreOfRefs == Spec /\ SingleConnection => []ReservationsFollowRefs
<1>1. AccountsInv => ReservationsFollowRefs
  BY DEF AccountsInv, TablesInv
<1> QED BY <1>1, Invariance, PTL

(***************************************************************************)
(* After an erasure the subject's accounts reference nothing, hold no      *)
(* grant and are not available, and the erased credentials stay away.      *)
(***************************************************************************)
THEOREM ErasureIsFinal == Spec /\ SingleConnection => []ErasedSubjectHoldsNothing
<1>1. AccountsInv => ErasedSubjectHoldsNothing
  <2> SUFFICES ASSUME AccountsInv, NEW u \in Users, plan[u].state = "erased"
               PROVE  /\ \A c \in PersonalConnections(u) :
                            conn[c].refs = {} /\ c \notin grant /\ ~Available(c)
                      /\ \A s \in plan[u].secrets : secret[s] = None
    BY DEF ErasedSubjectHoldsNothing
  <2>1. PlanInv(u)
    BY DEF AccountsInv, TablesInv
  <2> QED BY <2>1 DEF PlanInv, PersonalConnections, Available
<1> QED BY <1>1, Invariance, PTL

(***************************************************************************)
(* Revoking an account disables no credential of another connection,       *)
(* because what is reserved is exclusive.                                  *)
(***************************************************************************)
THEOREM RevocationIsPrivate == Spec /\ SingleConnection => RevocationStaysPrivate
<1>1. AccountsInv /\ [Next]_vars =>
        [\A c \in Connections, s \in Secrets :
          /\ conn[c].status # "revoked" /\ conn'[c].status = "revoked"
          /\ secret[s] = "active" /\ secret'[s] = "unusable"
          => \A d \in Connections \ {c} : s \notin conn[d].refs]_vars
  <2> SUFFICES ASSUME AccountsInv, [Next]_vars,
                      NEW c \in Connections, NEW s \in Secrets,
                      conn[c].status # "revoked", conn'[c].status = "revoked",
                      secret[s] = "active", secret'[s] = "unusable",
                      NEW d \in Connections \ {c}
               PROVE  s \notin conn[d].refs
    OBVIOUS
  <2>1. conn' # conn /\ secret' # secret
    OBVIOUS
  <2>2. \/ \E e \in Connections : RevokeConnectionAccount(e)
        \/ \E e \in Sessions, o \in Owners : ProvisionAccount(e, o)
        \/ \E u \in Users : PrepareSubjectErasure(u) \/ ErasePreparedSubject(u)
    BY <2>1 DEF Next, vars, CheckUpsert, CommitUpsert, CheckRegister, CommitRegister,
                DeleteConnection, SetConnectionStatus, UpsertSecret, TransitionSecret,
                ReadRequirement, WriteRequirement
  <2>3. ASSUME NEW e \in Sessions, NEW o \in Owners, ProvisionAccount(e, o) PROVE FALSE
    BY <2>3 DEF ProvisionAccount, AccountsInv, TypeOK
  <2>4. ASSUME NEW u \in Users, PrepareSubjectErasure(u) PROVE FALSE
    BY <2>4 DEF PrepareSubjectErasure
  <2>5. ASSUME NEW u \in Users, ErasePreparedSubject(u) PROVE FALSE
    <3>1. secret'[s] \in {None, secret[s]}
      BY <2>5 DEF ErasePreparedSubject
    <3>2. secret'[s] # None
      BY AccountsAssumption
    <3> QED BY <3>1, <3>2
  <2>6. ASSUME NEW e \in Connections, RevokeConnectionAccount(e)
        PROVE  s \notin conn[d].refs
    <3>1. e = c
      BY <2>6 DEF RevokeConnectionAccount, AccountsInv, TypeOK
    <3>2. reserved[s] = c
      BY <2>6, <3>1 DEF RevokeConnectionAccount, AccountSecrets
    <3>3. c # None
      BY AccountsAssumption
    <3> QED BY <3>2, <3>3 DEF AccountsInv, TablesInv, ReservedExclusively
  <2> QED BY <2>2, <2>3, <2>4, <2>5, <2>6
<1> QED BY <1>1, Invariance, PTL DEF Spec, RevocationStaysPrivate

=============================================================================
