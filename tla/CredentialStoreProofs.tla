----------------------- MODULE CredentialStoreProofs -----------------------
(***************************************************************************)
(* Proofs about CredentialStore, for any number of calls, fields and       *)
(* values.                                                                 *)
(*                                                                         *)
(* The row and the material of a field are read in two statements, so what *)
(* a call holds may be of two versions.  It does no harm because the       *)
(* fingerprint of a row is that of its material and the values of a field  *)
(* only grow in the order they were issued: the version a call read is no  *)
(* newer than the value it read, and that is no newer than the material.   *)
(* When the row still has the fingerprint read first, the three are one.   *)
(*                                                                         *)
(* What the time of an update is takes a loop over the fields (NewStamp);  *)
(* nothing here depends on it, and no type is claimed for it.              *)
(***************************************************************************)
EXTENDS CredentialStore, TLAPS

CandFields == {"todo", "field", "version", "value", "updates"}

\* What a call has read and been given, without the times.
CandShape(t) ==
    /\ DOMAIN t = CandFields
    /\ t.todo \subseteq Fields
    /\ DOMAIN t.version = Fields
    /\ \A f \in Fields : t.version[f].fingerprint \in Nat
    /\ t.value \in [Fields -> Nat]
    /\ t.updates \in [Fields -> Nat]

\* The rows: a fingerprint identifies the stored value, which was issued.
RowsInv ==
    /\ issued \in 1..MaxIssued
    /\ granted \in [1..MaxIssued -> SUBSET Fields]
    /\ material \in [Fields -> Nat]
    /\ DOMAIN secret = Fields
    /\ \A f \in Fields : /\ secret[f].fingerprint = material[f]
                         /\ material[f] \in 1..issued

\* Value n and the fields it was issued for are what the provider returned.
Answer(t, n) ==
    \A f \in Fields : /\ t.updates[f] = IF f \in granted[n] THEN n ELSE 0
                      /\ t.value[f] < n

\* A call at a step: the fields it has resolved, the one it is resolving, and
\* the answer that the provider returned.
CallInv(t, step) ==
    /\ CandShape(t)
    /\ \A f \in Fields \ t.todo : /\ t.version[f].fingerprint <= t.value[f]
                                  /\ t.value[f] <= material[f]
    /\ step = "material" => /\ t.field \in t.todo
                            /\ t.version[t.field].fingerprint <= material[t.field]
    /\ step \in {"call", "apply"} => t.todo = {}
    /\ step = "apply" => \E n \in 1..issued : Answer(t, n)

\* The inductive invariant.
StoreInv ==
    /\ RowsInv
    /\ admin \in Nat
    /\ pc \in [Procs -> Steps]
    /\ DOMAIN cand = Procs
    /\ \A p \in Procs : CallInv(cand[p], pc[p])
    /\ NoTornGrant

-----------------------------------------------------------------------------
\* The values of the fields only grow.
Grows ==
    /\ issued' \in 1..MaxIssued /\ issued <= issued'
    /\ \A n \in 1..issued : granted'[n] = granted[n]
    /\ material' \in [Fields -> Nat]
    /\ \A f \in Fields : material[f] <= material'[f]

\* What a call holds stays true while the values grow.
LEMMA CallStands ==
    ASSUME StoreInv, Grows, NEW t, NEW step, CallInv(t, step)
    PROVE  CallInv(t, step)'
<1> DEFINE Holds(m) ==
        /\ \A f \in Fields \ t.todo : /\ t.version[f].fingerprint <= t.value[f]
                                      /\ t.value[f] <= m[f]
        /\ step = "material" => /\ t.field \in t.todo
                                /\ t.version[t.field].fingerprint <= m[t.field]
<1>1. CandShape(t) /\ Holds(material)
  BY DEF CallInv
<1>2. Holds(material')
  BY <1>1 DEF CandShape, StoreInv, RowsInv, Grows
<1>3. CandShape(t)'
  BY <1>1 DEF CandShape
<1>4. ASSUME step = "apply" PROVE \E n \in 1..issued' : Answer(t, n)'
  <2>1. PICK n \in 1..issued : Answer(t, n)
    BY <1>4 DEF CallInv
  <2>2. n \in 1..issued' /\ granted'[n] = granted[n]
    BY DEF StoreInv, RowsInv, Grows
  <2> QED BY <2>1, <2>2 DEF Answer
<1>5. step \in {"call", "apply"} => t.todo = {}
  BY DEF CallInv
<1> QED BY <1>2, <1>3, <1>4, <1>5 DEF CallInv

\* Where a value stays, what it was issued with is no older, while the values
\* grow.
LEMMA GrantStands ==
    ASSUME StoreInv, Grows, NEW f \in Fields, material'[f] = material[f]
    PROVE  \A g \in granted'[material'[f]] : material'[g] >= material'[f]
<1>1. material[f] \in 1..issued /\ granted[material[f]] \subseteq Fields
  <2>1. material[f] \in 1..issued /\ 1..issued \subseteq 1..MaxIssued
    BY CredentialAssumption DEF StoreInv, RowsInv
  <2> QED BY <2>1 DEF StoreInv, RowsInv
<1>2. granted'[material'[f]] = granted[material[f]]
  BY <1>1 DEF Grows
<1>3. \A g \in granted[material[f]] : material[g] >= material[f]
  BY DEF StoreInv, NoTornGrant
<1> QED BY <1>1, <1>2, <1>3 DEF StoreInv, RowsInv, Grows

\* A step that writes no material.
LEMMA GrantsStand ==
    ASSUME StoreInv, Grows, material' = material
    PROVE  NoTornGrant'
BY GrantStands DEF NoTornGrant

\* A call that ends holds nothing.
LEMMA NoCandInv == CallInv(NoCand, "idle")
BY DEF NoCand, CallInv, CandShape, CandFields

\* A step that moves at most one call, from t to u.
LEMMA CallsKept ==
    ASSUME StoreInv, Grows, NEW p \in Procs, NEW step \in Steps, NEW u,
           pc' = [pc EXCEPT ![p] = step], DOMAIN cand' = Procs,
           \A q \in Procs : cand'[q] = IF q = p THEN u ELSE cand[q],
           CallInv(u, step)'
    PROVE  /\ pc' \in [Procs -> Steps] /\ DOMAIN cand' = Procs
           /\ \A q \in Procs : CallInv(cand[q], pc[q])'
<1>1. pc' \in [Procs -> Steps] /\ DOMAIN cand' = Procs
  BY DEF StoreInv
<1>2. SUFFICES ASSUME NEW q \in Procs PROVE CallInv(cand[q], pc[q])'
  BY <1>1
<1>3. CASE q = p
  <2>1. cand'[q] = u /\ pc'[q] = step
    BY <1>3 DEF StoreInv
  <2> QED BY <2>1
<1>4. CASE q # p
  <2>1. cand'[q] = cand[q] /\ pc'[q] = pc[q]
    BY <1>4 DEF StoreInv
  <2>2. PICK t, s : t = cand[q] /\ s = pc[q]
    OBVIOUS
  <2>3. CallInv(t, s)
    BY <2>2 DEF StoreInv
  <2>4. CallInv(t, s)'
    BY <2>3, CallStands
  <2> QED BY <2>1, <2>2, <2>4
<1> QED BY <1>3, <1>4

\* A step that moves no call.
LEMMA CallsStay ==
    ASSUME StoreInv, Grows, UNCHANGED <<pc, cand>>
    PROVE  /\ pc' \in [Procs -> Steps] /\ DOMAIN cand' = Procs
           /\ \A q \in Procs : CallInv(cand[q], pc[q])'
<1>1. pc' \in [Procs -> Steps] /\ DOMAIN cand' = Procs
  BY DEF StoreInv
<1>2. SUFFICES ASSUME NEW q \in Procs PROVE CallInv(cand[q], pc[q])'
  BY <1>1
<1>3. PICK t, s : t = cand[q] /\ s = pc[q]
  OBVIOUS
<1>4. CallInv(t, s)
  BY <1>3 DEF StoreInv
<1>5. CallInv(t, s)'
  BY <1>4, CallStands
<1> QED BY <1>3, <1>5

\* A step that leaves the rows and the counters of values alone.
LEMMA RowsStay ==
    ASSUME StoreInv, UNCHANGED <<rows, issued, granted>>
    PROVE  RowsInv' /\ Grows
BY DEF StoreInv, RowsInv, Grows, rows

-----------------------------------------------------------------------------
(* The steps of a call                                                     *)

\* StartCall keeps StoreInv.
LEMMA StartCallInv ==
    ASSUME StoreInv, NEW p \in Procs, StartCall(p)
    PROVE  StoreInv'
<1>1. RowsInv' /\ Grows
  BY RowsStay DEF StartCall
<1>2. PICK t : t = cand[p] /\ CallInv(t, "idle")
  BY DEF StoreInv, StartCall
<1>3. CallInv(t, "row")
  BY <1>2 DEF CallInv
<1>4. CallInv(t, "row")'
  BY <1>1, <1>3, CallStands
<1>5. /\ pc' = [pc EXCEPT ![p] = "row"] /\ DOMAIN cand' = Procs
      /\ \A q \in Procs : cand'[q] = IF q = p THEN t ELSE cand[q]
  BY <1>2 DEF StartCall, Goto, StoreInv
<1>6. /\ pc' \in [Procs -> Steps] /\ DOMAIN cand' = Procs
      /\ \A q \in Procs : CallInv(cand[q], pc[q])'
  BY <1>1, <1>4, <1>5, CallsKept DEF Steps
<1>7. UNCHANGED <<admin, material>>
  BY DEF StartCall, rows
<1> QED BY <1>1, <1>6, <1>7, GrantsStand DEF StoreInv

\* A call that returns leaves the others as they are.
LEMMA ReturnInv ==
    ASSUME StoreInv, NEW p \in Procs, Return(p), Grows
    PROVE  /\ pc' \in [Procs -> Steps] /\ DOMAIN cand' = Procs
           /\ \A q \in Procs : CallInv(cand[q], pc[q])'
<1>1. CallInv(NoCand, "idle")'
  BY NoCandInv, CallStands
<1>2. PICK u : u = NoCand
  OBVIOUS
<1>3. /\ pc' = [pc EXCEPT ![p] = "idle"] /\ DOMAIN cand' = Procs
      /\ \A q \in Procs : cand'[q] = IF q = p THEN u ELSE cand[q]
  BY <1>2 DEF Return, Goto, StoreInv
<1>4. CallInv(u, "idle")' /\ "idle" \in Steps
  BY <1>1, <1>2 DEF Steps
<1> QED BY <1>3, <1>4, CallsKept

\* ReadRow keeps StoreInv.
LEMMA ReadRowInv ==
    ASSUME StoreInv, NEW p \in Procs, ReadRow(p)
    PROVE  StoreInv'
<1>1. UNCHANGED <<rows, issued, granted, admin>>
  BY DEF ReadRow
<1>2. RowsInv' /\ Grows
  BY <1>1, RowsStay
<1>3. PICK t : t = cand[p]
  OBVIOUS
<1>4. PICK f \in t.todo :
        /\ pc[p] = "row"
        /\ \/ /\ cand' = [cand EXCEPT ![p].field = f,
                     ![p].version[f] = [fingerprint |-> secret[f].fingerprint,
                                        stamp |-> secret[f].stamp]]
              /\ Goto(p, "material")
           \/ Return(p)
  BY <1>3 DEF ReadRow
<1>5. CASE Return(p)
  BY <1>1, <1>2, <1>5, ReturnInv, GrantsStand DEF StoreInv, rows
<1>6. CASE /\ cand' = [cand EXCEPT ![p].field = f,
                  ![p].version[f] = [fingerprint |-> secret[f].fingerprint,
                                     stamp |-> secret[f].stamp]]
           /\ Goto(p, "material")
  <2>1. CallInv(t, "row")
    BY <1>3, <1>4 DEF StoreInv
  <2>2. f \in Fields
    BY <2>1, <1>4 DEF CallInv, CandShape
  <2>3. PICK v : v = [fingerprint |-> secret[f].fingerprint, stamp |-> secret[f].stamp]
    OBVIOUS
  <2>4. PICK u : u = [t EXCEPT !.field = f, !.version[f] = v]
    OBVIOUS
  <2>5. /\ DOMAIN cand' = Procs
        /\ \A q \in Procs : cand'[q] = IF q = p THEN u ELSE cand[q]
    BY <1>3, <1>6, <2>3, <2>4 DEF StoreInv
  <2>6. /\ DOMAIN u = CandFields /\ u.todo = t.todo /\ u.field = f
        /\ u.version = [t.version EXCEPT ![f] = v]
        /\ u.value = t.value /\ u.updates = t.updates
    BY <2>1, <2>4 DEF CallInv, CandShape, CandFields
  <2>7. v.fingerprint = material[f] /\ v.fingerprint \in Nat
    BY <2>2, <2>3 DEF StoreInv, RowsInv
  <2>8. CallInv(u, "material")
    BY <2>1, <2>2, <2>6, <2>7, <1>4 DEF CallInv, CandShape
  <2>9. CallInv(u, "material")'
    BY <2>8, <1>2, CallStands
  <2>10. pc' = [pc EXCEPT ![p] = "material"] /\ "material" \in Steps
    BY <1>6 DEF Goto, Steps
  <2>11. /\ pc' \in [Procs -> Steps] /\ DOMAIN cand' = Procs
         /\ \A q \in Procs : CallInv(cand[q], pc[q])'
    BY <1>2, <2>5, <2>9, <2>10, CallsKept
  <2> QED BY <1>1, <1>2, <2>11, GrantsStand DEF StoreInv, rows
<1> QED BY <1>4, <1>5, <1>6

\* ReadMaterial keeps StoreInv.
LEMMA ReadMaterialInv ==
    ASSUME StoreInv, NEW p \in Procs, ReadMaterial(p)
    PROVE  StoreInv'
<1>1. UNCHANGED <<rows, issued, granted, admin>>
  BY DEF ReadMaterial
<1>2. RowsInv' /\ Grows
  BY <1>1, RowsStay
<1>3. PICK t : t = cand[p]
  OBVIOUS
<1>4. PICK f : f = t.field
  OBVIOUS
<1>5. /\ pc[p] = "material"
      /\ cand' = [cand EXCEPT ![p].todo = @ \ {f}, ![p].value[f] = material[f]]
      /\ Goto(p, IF t.todo = {f} THEN "call" ELSE "row")
  BY <1>3, <1>4 DEF ReadMaterial
<1>6. CallInv(t, "material")
  BY <1>3, <1>5 DEF StoreInv
<1>7. f \in Fields /\ f \in t.todo /\ material[f] \in Nat
  BY <1>4, <1>6 DEF CallInv, CandShape, StoreInv, RowsInv
<1>8. PICK u : u = [t EXCEPT !.todo = t.todo \ {f}, !.value[f] = material[f]]
  OBVIOUS
<1>9. /\ DOMAIN cand' = Procs
      /\ \A q \in Procs : cand'[q] = IF q = p THEN u ELSE cand[q]
  BY <1>3, <1>5, <1>8 DEF StoreInv
<1>10. /\ DOMAIN u = CandFields /\ u.todo = t.todo \ {f}
       /\ u.version = t.version
       /\ u.value = [t.value EXCEPT ![f] = material[f]] /\ u.updates = t.updates
  BY <1>6, <1>8 DEF CallInv, CandShape, CandFields
<1>11. PICK step : step = IF t.todo = {f} THEN "call" ELSE "row"
  OBVIOUS
<1>12. CallInv(u, step)
  <2>1. CandShape(u)
    BY <1>6, <1>7, <1>10 DEF CallInv, CandShape
  <2>2. \A g \in Fields \ u.todo : /\ u.version[g].fingerprint <= u.value[g]
                                   /\ u.value[g] <= material[g]
    BY <1>4, <1>6, <1>7, <1>10 DEF CallInv, CandShape
  <2>3. step = "call" => u.todo = {}
    BY <1>10, <1>11
  <2> QED BY <1>11, <2>1, <2>2, <2>3 DEF CallInv
<1>13. CallInv(u, step)'
  BY <1>12, <1>2, CallStands
<1>14. pc' = [pc EXCEPT ![p] = step] /\ step \in Steps
  BY <1>5, <1>11 DEF Goto, Steps
<1>15. /\ pc' \in [Procs -> Steps] /\ DOMAIN cand' = Procs
       /\ \A q \in Procs : CallInv(cand[q], pc[q])'
  BY <1>2, <1>9, <1>13, <1>14, CallsKept
<1> QED BY <1>1, <1>2, <1>15, GrantsStand DEF StoreInv, rows

\* A value issued and not yet stored.
LEMMA IssueGrows ==
    ASSUME StoreInv, NEW fields \in SUBSET Fields, Issue(fields),
           UNCHANGED <<secret, material>>
    PROVE  RowsInv' /\ Grows
<1>1. /\ issued' = issued + 1 /\ issued + 1 \in 1..MaxIssued
      /\ granted' = [granted EXCEPT ![issued + 1] = fields]
  BY CredentialAssumption DEF Issue, StoreInv, RowsInv
<1>2. granted' \in [1..MaxIssued -> SUBSET Fields]
  BY <1>1 DEF StoreInv, RowsInv
<1>3. \A n \in 1..issued : granted'[n] = granted[n]
  BY <1>1 DEF StoreInv, RowsInv
<1> QED BY <1>1, <1>2, <1>3 DEF StoreInv, RowsInv, Grows

\* CallProvider keeps StoreInv.
LEMMA CallProviderInv ==
    ASSUME StoreInv, NEW p \in Procs, CallProvider(p)
    PROVE  StoreInv'
<1>1. UNCHANGED <<rows, admin>> /\ pc[p] = "call"
  BY DEF CallProvider
<1>2. CASE Return(p) /\ UNCHANGED <<issued, granted>>
  <2>1. RowsInv' /\ Grows
    BY <1>1, <1>2, RowsStay
  <2> QED BY <1>1, <1>2, <2>1, ReturnInv, GrantsStand DEF StoreInv, rows
<1>3. ASSUME NEW fields \in SUBSET Fields, Issue(fields),
             cand' = [cand EXCEPT ![p].updates =
                         [f \in Fields |-> IF f \in fields THEN issued + 1 ELSE 0]],
             Goto(p, "apply")
      PROVE  StoreInv'
  <2>1. RowsInv' /\ Grows
    BY <1>1, <1>3, IssueGrows DEF rows
  <2>2. PICK t : t = cand[p]
    OBVIOUS
  <2>3. CallInv(t, "call")
    BY <1>1, <2>2 DEF StoreInv
  <2>4. PICK n : n = issued + 1
    OBVIOUS
  <2>5. PICK u : u = [t EXCEPT !.updates = [f \in Fields |-> IF f \in fields THEN n ELSE 0]]
    OBVIOUS
  <2>6. /\ DOMAIN cand' = Procs
        /\ \A q \in Procs : cand'[q] = IF q = p THEN u ELSE cand[q]
    BY <1>3, <2>2, <2>4, <2>5 DEF StoreInv
  <2>7. /\ DOMAIN u = CandFields /\ u.todo = {} /\ u.version = t.version
        /\ u.value = t.value
        /\ u.updates = [f \in Fields |-> IF f \in fields THEN n ELSE 0]
    BY <2>3, <2>5 DEF CallInv, CandShape, CandFields
  <2>8. /\ n \in Nat /\ n \in 1..issued' /\ granted'[n] = fields
        /\ \A f \in Fields : material'[f] < n
    <3>1. issued' = n /\ n \in 1..MaxIssued /\ granted' = [granted EXCEPT ![n] = fields]
      BY <1>3, <2>4, CredentialAssumption DEF StoreInv, RowsInv, Issue
    <3>2. n \in Nat /\ n \in 1..issued' /\ granted'[n] = fields
      BY <3>1, CredentialAssumption DEF StoreInv, RowsInv
    <3>3. \A f \in Fields : material'[f] < n
      BY <1>1, <2>4 DEF StoreInv, RowsInv, rows
    <3> QED BY <3>2, <3>3
  <2>9. CallInv(t, "call")'
    BY <2>1, <2>3, CallStands
  <2>10. CallInv(u, "apply")'
    <3>1. CandShape(u)
      BY <2>3, <2>7, <2>8 DEF CallInv, CandShape
    <3>2. \A f \in Fields : /\ u.version[f].fingerprint <= u.value[f]
                            /\ u.value[f] <= material'[f]
      BY <2>3, <2>7, <2>9 DEF CallInv
    <3>3. \A f \in Fields : u.value[f] < n
      BY <2>1, <2>7, <2>8, <3>1, <3>2 DEF CandShape, Grows
    <3>4. Answer(u, n)'
      BY <2>7, <2>8, <3>3 DEF Answer
    <3>5. CandShape(u)'
      BY <3>1 DEF CandShape
    <3> QED BY <2>7, <2>8, <3>2, <3>4, <3>5 DEF CallInv
  <2>11. pc' = [pc EXCEPT ![p] = "apply"] /\ "apply" \in Steps
    BY <1>3 DEF Goto, Steps
  <2>12. /\ pc' \in [Procs -> Steps] /\ DOMAIN cand' = Procs
         /\ \A q \in Procs : CallInv(cand[q], pc[q])'
    BY <2>1, <2>6, <2>10, <2>11, CallsKept
  <2> QED BY <1>1, <2>1, <2>12, GrantsStand DEF StoreInv, rows
<1> QED BY <1>2, <1>3 DEF CallProvider

\* A field that an update writes is active, and its material is the value that
\* the call was given.
LEMMA WrittenWasUsed ==
    ASSUME StoreInv, NEW p \in Procs, pc[p] = "apply", NEW f \in Writable(p)
    PROVE  /\ f \in Fields /\ secret[f].status = "active"
           /\ cand[p].value[f] = material[f]
           /\ material[f] < cand[p].updates[f]
<1>1. CallInv(cand[p], "apply")
  BY DEF StoreInv
<1>2. /\ f \in Fields /\ secret[f].status = "active"
      /\ cand[p].version[f].fingerprint = secret[f].fingerprint
      /\ cand[p].updates[f] # 0
  BY DEF Writable, Updated, Current
<1>3. cand[p].version[f].fingerprint <= cand[p].value[f]
      /\ cand[p].value[f] <= material[f]
  BY <1>1, <1>2 DEF CallInv
<1>4. secret[f].fingerprint = material[f] /\ material[f] \in Nat
      /\ cand[p].value[f] \in Nat
  BY <1>1, <1>2 DEF StoreInv, RowsInv, CallInv, CandShape
<1>5. cand[p].value[f] = material[f]
  BY <1>2, <1>3, <1>4
<1>6. cand[p].value[f] < cand[p].updates[f]
  BY <1>1, <1>2 DEF CallInv, Answer
<1> QED BY <1>2, <1>5, <1>6

\* ApplyUpdates keeps StoreInv.
LEMMA ApplyUpdatesInv ==
    ASSUME StoreInv, NEW p \in Procs, ApplyUpdates(p)
    PROVE  StoreInv'
<1> DEFINE w == Writable(p)
<1> DEFINE new == cand[p].updates
<1>1. CallInv(cand[p], "apply") /\ pc[p] = "apply"
  BY DEF StoreInv, ApplyUpdates
<1>2. PICK n \in 1..issued : Answer(cand[p], n)
  BY <1>1 DEF CallInv
<1>3. \A f \in w : material[f] < new[f]
  BY <1>1, WrittenWasUsed
<1>4. /\ w \subseteq Fields /\ new \in [Fields -> Nat]
      /\ \A f \in w : f \in granted[n] /\ new[f] = n
      /\ w # {} => granted[n] \subseteq w
  <2>1. /\ granted[n] \subseteq Fields /\ n # 0
    <3>1. n \in 1..MaxIssued /\ n # 0
      BY CredentialAssumption DEF StoreInv, RowsInv
    <3> QED BY <3>1 DEF StoreInv, RowsInv
  <2>2. Updated(p) = granted[n]
    BY <1>2, <2>1 DEF Answer, Updated
  <2>3. w = Updated(p) \/ w = {}
    BY DEF Writable
  <2>4. new \in [Fields -> Nat]
    BY <1>1 DEF CallInv, CandShape
  <2> QED BY <1>2, <2>1, <2>2, <2>3, <2>4 DEF Answer
<1>5. /\ material' = [f \in Fields |-> IF f \in w THEN new[f] ELSE material[f]]
      /\ DOMAIN secret' = Fields
      /\ \A f \in Fields : secret'[f].fingerprint =
             IF f \in w THEN new[f] ELSE secret[f].fingerprint
      /\ UNCHANGED <<issued, granted, admin>> /\ Return(p)
  BY DEF ApplyUpdates, Rotated
<1> HIDE DEF w, new
<1>6. RowsInv' /\ Grows
  BY <1>3, <1>4, <1>5 DEF StoreInv, RowsInv, Grows
<1>7. NoTornGrant'
  <2> SUFFICES ASSUME NEW f \in Fields
               PROVE  \A g \in granted'[material'[f]] : material'[g] >= material'[f]
    BY DEF NoTornGrant
  <2>1. CASE f \in w
    <3>1. material'[f] = n /\ granted'[n] = granted[n] /\ granted[n] \subseteq w
      BY <2>1, <1>4, <1>5
    <3>2. \A g \in w : material'[g] = n
      BY <1>4, <1>5
    <3> QED BY <3>1, <3>2 DEF StoreInv, RowsInv
  <2>2. CASE f \notin w
    BY <2>2, <1>5, <1>6, GrantStands
  <2> QED BY <2>1, <2>2
<1>8. /\ pc' \in [Procs -> Steps] /\ DOMAIN cand' = Procs
      /\ \A q \in Procs : CallInv(cand[q], pc[q])'
  BY <1>5, <1>6, ReturnInv
<1> QED BY <1>5, <1>6, <1>7, <1>8 DEF StoreInv

-----------------------------------------------------------------------------
(* Administration, the expiration worker and time                          *)

\* The statuses and times may change, nothing else does.
LEMMA StatusesInv ==
    ASSUME StoreInv, UNCHANGED <<material, issued, granted, pc, cand>>,
           admin' \in Nat, DOMAIN secret' = Fields,
           \A f \in Fields : secret'[f].fingerprint = secret[f].fingerprint
    PROVE  StoreInv'
<1>1. RowsInv' /\ Grows
  BY DEF StoreInv, RowsInv, Grows
<1> QED BY <1>1, CallsStay, GrantsStand DEF StoreInv

\* UpsertSecret keeps StoreInv.
LEMMA UpsertSecretInv ==
    ASSUME StoreInv, UpsertSecret
    PROVE  StoreInv'
<1>1. PICK f \in Fields, replace \in BOOLEAN :
        /\ admin' = admin + 1
        /\ IF replace THEN Issue({f}) ELSE UNCHANGED <<issued, granted>>
        /\ material' = IF replace THEN [material EXCEPT ![f] = issued + 1] ELSE material
        /\ secret' = [secret EXCEPT ![f] =
              [status |-> "active", stamp |-> clock,
               fingerprint |-> IF replace THEN issued + 1 ELSE secret[f].fingerprint]]
        /\ UNCHANGED <<pc, cand>>
  BY DEF UpsertSecret, Administer
<1>2. /\ DOMAIN secret' = Fields /\ admin' \in Nat
      /\ \A g \in Fields : secret'[g].fingerprint =
             IF g = f /\ replace THEN issued + 1 ELSE secret[g].fingerprint
  BY <1>1 DEF StoreInv, RowsInv
<1>3. CASE replace
  <2>1. /\ issued' = issued + 1 /\ issued + 1 \in 1..MaxIssued
        /\ granted' = [granted EXCEPT ![issued + 1] = {f}]
        /\ material' = [material EXCEPT ![f] = issued + 1]
    BY <1>1, <1>3, CredentialAssumption DEF Issue, StoreInv, RowsInv
  <2>2. /\ granted' \in [1..MaxIssued -> SUBSET Fields]
        /\ \A n \in 1..issued : granted'[n] = granted[n]
        /\ granted'[issued + 1] = {f}
    BY <2>1 DEF StoreInv, RowsInv
  <2>3. /\ material' \in [Fields -> Nat] /\ material'[f] = issued + 1
        /\ \A g \in Fields \ {f} : material'[g] = material[g]
    BY <2>1 DEF StoreInv, RowsInv
  <2>4. RowsInv' /\ Grows
    BY <1>2, <1>3, <2>1, <2>2, <2>3 DEF StoreInv, RowsInv, Grows
  <2>5. ASSUME NEW g \in Fields
        PROVE  \A h \in granted'[material'[g]] : material'[h] >= material'[g]
    <3>1. CASE g = f
      BY <3>1, <2>2, <2>3, <2>4 DEF RowsInv
    <3>2. CASE g # f
      BY <3>2, <2>3, <2>4, GrantStands
    <3> QED BY <3>1, <3>2
  <2>6. NoTornGrant'
    BY <2>5 DEF NoTornGrant
  <2> QED BY <1>1, <1>2, <2>4, <2>6, CallsStay DEF StoreInv
<1>4. CASE ~replace
  <2>1. UNCHANGED <<issued, granted, material>>
    BY <1>1, <1>4
  <2> QED BY <1>1, <1>2, <1>4, <2>1, StatusesInv
<1> QED BY <1>3, <1>4

\* TransitionSecret keeps StoreInv.
LEMMA TransitionSecretInv ==
    ASSUME StoreInv, TransitionSecret
    PROVE  StoreInv'
<1>1. PICK f \in Fields, t \in Transitions :
        /\ secret' = [secret EXCEPT ![f] =
              [status |-> TransitionStatus(t), fingerprint |-> secret[f].fingerprint,
               stamp |-> clock]]
        /\ admin' = admin + 1 /\ UNCHANGED <<material, issued, granted, pc, cand>>
  BY DEF TransitionSecret, Administer
<1> QED BY <1>1, StatusesInv DEF StoreInv, RowsInv

\* RevokeAccount keeps StoreInv.
LEMMA RevokeAccountInv ==
    ASSUME StoreInv, RevokeAccount
    PROVE  StoreInv'
<1>1. /\ secret' = [f \in Fields |->
          IF secret[f].status # "active" THEN secret[f]
          ELSE [status |-> "revoked", fingerprint |-> secret[f].fingerprint,
                stamp |-> clock]]
      /\ UNCHANGED <<material, issued, granted, admin, pc, cand>>
  BY DEF RevokeAccount
<1> QED BY <1>1, StatusesInv DEF StoreInv, RowsInv

\* ExpireSecret keeps StoreInv.
LEMMA ExpireSecretInv ==
    ASSUME StoreInv, ExpireSecret
    PROVE  StoreInv'
<1>1. PICK f \in expiring :
        /\ secret' = IF secret[f].status # "active" THEN secret
                     ELSE [secret EXCEPT ![f] =
                       [status |-> "expired", fingerprint |-> secret[f].fingerprint,
                        stamp |-> clock]]
        /\ UNCHANGED <<material, issued, granted, admin, pc, cand>>
  BY DEF ExpireSecret
<1> QED BY <1>1, StatusesInv DEF StoreInv, RowsInv

\* Steps that write no row.
LEMMA OtherInv ==
    ASSUME StoreInv, ScanExpired \/ Tick \/ UNCHANGED vars
    PROVE  StoreInv'
<1>1. UNCHANGED <<secret, material, issued, granted, admin, pc, cand>>
  BY DEF ScanExpired, Tick, vars, rows
<1> QED BY <1>1, StatusesInv DEF StoreInv, RowsInv

-----------------------------------------------------------------------------
LEMMA InitInv == Init => StoreInv
<1> SUFFICES ASSUME Init PROVE StoreInv
  OBVIOUS
<1>1. RowsInv
  BY CredentialAssumption DEF Init, RowsInv
<1>2. /\ pc \in [Procs -> Steps] /\ DOMAIN cand = Procs
      /\ \A p \in Procs : cand[p] = NoCand /\ pc[p] = "idle"
  BY DEF Init, Steps
<1>3. \A p \in Procs : CallInv(cand[p], pc[p])
  BY <1>2, NoCandInv
<1>4. admin \in Nat /\ NoTornGrant
  BY CredentialAssumption DEF Init, NoTornGrant
<1> QED BY <1>1, <1>2, <1>3, <1>4 DEF StoreInv

\* Every step keeps the inductive invariant.
LEMMA NextInv == StoreInv /\ [Next]_vars => StoreInv'
<1> SUFFICES ASSUME StoreInv, [Next]_vars PROVE StoreInv'
  OBVIOUS
<1>1. ASSUME NEW p \in Procs, StartCall(p) \/ Call(p) PROVE StoreInv'
  BY <1>1, StartCallInv, ReadRowInv, ReadMaterialInv, CallProviderInv,
     ApplyUpdatesInv DEF Call
<1> QED BY <1>1, UpsertSecretInv, TransitionSecretInv, RevokeAccountInv,
           ExpireSecretInv, OtherInv DEF Next

\* The invariant holds in every reachable state.
LEMMA Invariance == Spec => []StoreInv
BY InitInv, NextInv, PTL DEF Spec

-----------------------------------------------------------------------------
(***************************************************************************)
(* The fields of one answer are compared and written together, and the     *)
(* values of a field only grow, so an account never holds a value next to  *)
(* an older one of the fields that it was issued with, whatever subsets of *)
(* the fields the calls in flight and the administrators renew.            *)
(***************************************************************************)
THEOREM GrantsAreNotTorn == Spec => []NoTornGrant
<1>1. StoreInv => NoTornGrant
  BY DEF StoreInv
<1> QED BY <1>1, Invariance, PTL

\* Only ApplyUpdates takes a call from "apply" to "idle".
LEMMA AppliedBy ==
    ASSUME StoreInv, [Next]_vars, NEW p \in Procs,
           pc[p] = "apply", pc'[p] = "idle"
    PROVE  ApplyUpdates(p)
<1>1. pc' # pc
  OBVIOUS
<1>2. PICK q \in Procs : StartCall(q) \/ Call(q)
  BY <1>1 DEF Next, vars, UpsertSecret, TransitionSecret, RevokeAccount, ScanExpired,
              ExpireSecret, Tick
<1>3. pc' = [pc EXCEPT ![q] = pc'[q]] /\ pc \in [Procs -> Steps]
  BY <1>2 DEF Call, StartCall, ReadRow, ReadMaterial, CallProvider, ApplyUpdates,
              Return, Goto, StoreInv
<1>4. q = p
  BY <1>3
<1>5. pc[q] = "apply"
  BY <1>4
<1> QED BY <1>2, <1>4, <1>5 DEF Call, StartCall, ReadRow, ReadMaterial, CallProvider

(***************************************************************************)
(* A refresh replaces the value that its call was given and no other: the  *)
(* fingerprint read before the material is compared when the update is     *)
(* applied, and values of a field are never issued twice.                  *)
(***************************************************************************)
THEOREM RotationIsOfTheValueUsed == Spec => RotationReplacesWhatWasUsed
<1>1. StoreInv /\ [Next]_vars =>
        [\A p \in Procs : pc[p] = "apply" /\ pc'[p] = "idle" =>
            \A f \in Fields : material'[f] # material[f] =>
                cand[p].value[f] = material[f]]_vars
  <2> SUFFICES ASSUME StoreInv, [Next]_vars, NEW p \in Procs,
                      pc[p] = "apply", pc'[p] = "idle",
                      NEW f \in Fields, material'[f] # material[f]
               PROVE  cand[p].value[f] = material[f]
    OBVIOUS
  <2>1. ApplyUpdates(p)
    BY AppliedBy
  <2>2. f \in Writable(p)
    BY <2>1 DEF ApplyUpdates, Rotated
  <2> QED BY <2>2, WrittenWasUsed
<1> QED BY <1>1, Invariance, PTL DEF Spec, RotationReplacesWhatWasUsed

(***************************************************************************)
(* A call in flight when its account is revoked, or a secret disabled or   *)
(* expired, writes neither the row nor the material.                       *)
(***************************************************************************)
THEOREM RevokedSecretsAreKept == Spec => NoRotationAfterRevocation
<1>1. StoreInv /\ [Next]_vars =>
        [\A p \in Procs : pc[p] = "apply" /\ pc'[p] = "idle" =>
            \A f \in Fields : secret[f].status # "active" =>
                secret'[f] = secret[f] /\ material'[f] = material[f]]_vars
  <2> SUFFICES ASSUME StoreInv, [Next]_vars, NEW p \in Procs,
                      pc[p] = "apply", pc'[p] = "idle",
                      NEW f \in Fields, secret[f].status # "active"
               PROVE  secret'[f] = secret[f] /\ material'[f] = material[f]
    OBVIOUS
  <2>1. ApplyUpdates(p)
    BY AppliedBy
  <2>2. f \notin Writable(p)
    BY WrittenWasUsed
  <2> QED BY <2>1, <2>2 DEF ApplyUpdates, Rotated
<1> QED BY <1>1, Invariance, PTL DEF Spec, NoRotationAfterRevocation

=============================================================================
