-------------------------- MODULE EventInboxProofs --------------------------
(***************************************************************************)
(* What EventInbox promises, for every set of goroutines, events, nonces   *)
(* and mappings.  The inductive invariant InboxInv has a part for each     *)
(* process (what it has read is never ahead of the tables), one for each   *)
(* event's row, and one for the keys Runtime has seen.                     *)
(***************************************************************************)
EXTENDS EventInbox, TLAPS

Handled(e) == \E x \in started : x.event = e

\* What a process has read of its event, and how far it has got with it.
ProcInv(p) ==
    LET c == cand[p] IN
    /\ pc[p] = "nonce" => c.nonce \in Nonces
    /\ pc[p] \in {"guard", "trigger"} => c.mapping \in Mappings
    /\ c.attempt <= failures[c.event]
    /\ c.claimed => c.token > 0 /\ c.token <= event[c.event].token
    /\ /\ pc[p] \in {"lookup", "insertIntent", "updateIntent", "finish"}
       /\ c.result = "processed"
       => Handled(c.event)
    /\ pc[p] = "updateIntent" => intent[c.event] # "none"
    /\ pc[p] = "finish" /\ c.result = "processed" => intent[c.event] # "none"

\* A claimed token has one holder, also after the holder has been overtaken.
TokensAreExclusive ==
    \A p, q \in Procs :
        p # q /\ cand[p].claimed /\ cand[q].claimed =>
            ~(cand[p].event = cand[q].event /\ cand[p].token = cand[q].token)

RowInv(e) ==
    LET row == event[e] IN
    /\ row.status = "absent" => inline[e] = 0 /\ row.token = 0
    /\ inline[e] <= 1
    /\ row.attempt <= failures[e]
    /\ row.status = "dead_letter" => failures[e] >= AttemptLimit
    /\ row.status = "processed" => intent[e] # "none" /\ Handled(e)
    /\ e \in frozen => row.status \in {"erasing", "cancelled"} /\ row.lease = "none"

InboxInv ==
    /\ TypeOK
    /\ \A p \in Procs : ProcInv(p)
    /\ TokensAreExclusive
    /\ \A e \in Events : RowInv(e)

-----------------------------------------------------------------------------
(* Types *)

\* The rows and candidates that stand for nothing are of their types.
LEMMA NoCandType ==
  /\ NoCand \in Cand
  /\ NoCand.attempt = 0
  /\ NoCand.claimed = FALSE
<1>1. (CHOOSE e \in Events : TRUE) \in Events
  BY InboxAssumption
<1>2. QED
  BY <1>1 DEF NoCand, Cand, Statuses

\* The fields of a candidate.
LEMMA CandFields ==
  ASSUME TypeOK, NEW p \in Procs
  PROVE  /\ cand[p] \in Cand
         /\ cand[p].event \in Events
         /\ cand[p].nonce \in Nonces \cup {NoNonce}
         /\ cand[p].token \in Nat
         /\ cand[p].attempt \in Nat
         /\ cand[p].claimed \in BOOLEAN
         /\ cand[p].result \in {"processed", "ignored", "failed"}
BY DEF TypeOK, Cand

\* The fields of a row.
LEMMA RowFields ==
  ASSUME TypeOK, NEW e \in Events
  PROVE  /\ event[e] \in EventRow
         /\ event[e].status \in Statuses
         /\ event[e].attempt \in Nat
         /\ event[e].token \in Nat
         /\ event[e].lease \in Leases
BY DEF TypeOK, EventRow

\* The ways a process moves.
Moves(p, step, c) ==
    /\ pc' \in [Procs -> Steps]
    /\ cand' \in [Procs -> Cand]
    /\ pc'[p] = step /\ cand'[p] = c
    /\ \A q \in Procs \ {p} : pc'[q] = pc[q] /\ cand'[q] = cand[q]

\* Where the control operators take a process.
LEMMA GoMoves ==
  ASSUME TypeOK, NEW p \in Procs, NEW step \in Steps, NEW c \in Cand,
         Goto(p, step), Keep(p, c)
  PROVE  Moves(p, step, c)
BY DEF TypeOK, Goto, Keep, Moves

\* Proceeding changes the step of one process.
LEMMA ProceedMoves ==
  ASSUME TypeOK, NEW p \in Procs, NEW step \in Steps, Proceed(p, step)
  PROVE  Moves(p, step, cand[p])
BY DEF TypeOK, Goto, Proceed, Moves

\* Returning makes one process idle.
LEMMA ReturnMoves ==
  ASSUME TypeOK, NEW p \in Procs, Return(p)
  PROVE  Moves(p, "idle", NoCand)
BY NoCandType, GoMoves DEF Return, Steps

\* The rows, counters and keys that processes rely on only grow.
Grows ==
    /\ \A e \in Events : /\ event'[e].token >= event[e].token
                         /\ failures'[e] >= failures[e]
                         /\ intent[e] # "none" => intent'[e] # "none"
    /\ started \subseteq started'

\* What the other processes have read stays true, when the tables grow.
LEMMA OthersInv ==
  ASSUME InboxInv, TypeOK', Grows, NEW q \in Procs, pc'[q] = pc[q], cand'[q] = cand[q]
  PROVE  ProcInv(q)'
<1> DEFINE e == cand[q].event
<1>0. TypeOK /\ ProcInv(q)
  BY DEF InboxInv
<1>1. /\ e \in Events /\ cand[q].token \in Nat /\ cand[q].attempt \in Nat
      /\ event[e].token \in Nat /\ event'[e].token \in Nat
      /\ failures[e] \in Nat /\ failures'[e] \in Nat
  BY <1>0, CandFields, RowFields DEF TypeOK, EventRow
<1>2. /\ event'[e].token >= event[e].token
      /\ failures'[e] >= failures[e]
      /\ intent[e] # "none" => intent'[e] # "none"
  BY <1>1 DEF Grows
<1>3. Handled(e) => Handled(e)'
  BY DEF Grows, Handled
<1>4. QED
  BY <1>0, <1>1, <1>2, <1>3 DEF ProcInv

\* A step of one process: what is left to show of it.
LEMMA ProcessStepInv ==
  ASSUME InboxInv, TypeOK', Grows, NEW p \in Procs,
         \A q \in Procs \ {p} : pc'[q] = pc[q] /\ cand'[q] = cand[q],
         ProcInv(p)',
         \A e \in Events : RowInv(e)',
         cand'[p].claimed =>
            \/ /\ cand[p].claimed
               /\ cand'[p].event = cand[p].event /\ cand'[p].token = cand[p].token
            \/ cand'[p].token > event[cand'[p].event].token
  PROVE  InboxInv'
<1>1. \A q \in Procs : ProcInv(q)'
  BY OthersInv
<1>2. TokensAreExclusive'
  <2> SUFFICES ASSUME NEW q \in Procs \ {p}, cand'[p].claimed, cand[q].claimed
               PROVE  ~(cand'[p].event = cand[q].event /\ cand'[p].token = cand[q].token)
    BY DEF InboxInv, TokensAreExclusive
  <2>1. TypeOK /\ ProcInv(q) /\ TokensAreExclusive
    BY DEF InboxInv
  <2>2. /\ cand[q].event \in Events /\ cand[q].token \in Nat
        /\ event[cand[q].event].token \in Nat
    BY <2>1, CandFields, RowFields
  <2>3. cand'[p].token \in Nat
    BY DEF TypeOK, Cand
  <2>4. QED
    BY <2>1, <2>2, <2>3 DEF ProcInv, TokensAreExclusive
<1>3. QED
  BY <1>1, <1>2 DEF InboxInv

\* A step of one process that leaves the rows and counters alone.
LEMMA ReadStepInv ==
  ASSUME InboxInv, NEW p \in Procs, NEW step \in Steps, NEW c \in Cand,
         Moves(p, step, c),
         UNCHANGED <<event, intent, mapping, external, frozen, started, inline, failures>>,
         nonces' \in SUBSET Nonces, used' \in Bounds,
         ProcInv(p)',
         c.claimed => /\ cand[p].claimed
                      /\ c.event = cand[p].event /\ c.token = cand[p].token
  PROVE  InboxInv'
<1>0. TypeOK
  BY DEF InboxInv
<1>1. TypeOK'
  BY <1>0 DEF TypeOK, Moves
<1>2. Grows
  <2> SUFFICES ASSUME NEW e \in Events
               PROVE  event[e].token >= event[e].token /\ failures[e] >= failures[e]
    BY DEF Grows
  <2>1. event[e].token \in Nat /\ failures[e] \in Nat
    BY <1>0, RowFields DEF TypeOK
  <2>2. QED
    BY <2>1
<1>3. \A e \in Events : RowInv(e)'
  BY DEF InboxInv, RowInv, Handled
<1>4. QED
  BY <1>1, <1>2, <1>3, ProcessStepInv DEF Moves

\* The invariant holds initially.
LEMMA InitInv == Init => InboxInv
<1> SUFFICES ASSUME Init PROVE InboxInv
  OBVIOUS
<1>1. TypeOK
  BY NoCandType, InboxAssumption
     DEF Init, TypeOK, NoEvent, EventRow, Statuses, Leases, IntentStatuses, Steps, Bounds
<1>2. \A p \in Procs : ProcInv(p)
  <2> SUFFICES ASSUME NEW p \in Procs PROVE ProcInv(p)
    OBVIOUS
  <2>1. cand[p] = NoCand /\ pc[p] = "idle" /\ failures[NoCand.event] = 0
    BY NoCandType DEF Init, Cand
  <2>2. QED
    BY <2>1, NoCandType DEF ProcInv
<1>3. QED
  BY <1>1, <1>2, NoCandType
     DEF Init, InboxInv, TokensAreExclusive, RowInv, NoEvent

-----------------------------------------------------------------------------
(* Steps of a process that write no row *)

\* What a bound counts stays within it.
LEMMA UsedType ==
  ASSUME TypeOK
  PROVE  /\ used.requests < MaxRequests =>
               [used EXCEPT !.requests = @ + 1] \in Bounds
         /\ used.replays < MaxReplays => [used EXCEPT !.replays = @ + 1] \in Bounds
         /\ used.remaps < MaxRemaps => [used EXCEPT !.remaps = @ + 1] \in Bounds
         /\ used.faults < MaxFaults => [used EXCEPT !.faults = @ + 1] \in Bounds
         /\ used \in Bounds
BY InboxAssumption DEF TypeOK, Bounds

\* A process that returns leaves the rows as they are.
LEMMA ReturnInv ==
  ASSUME InboxInv, NEW p \in Procs, Return(p),
         UNCHANGED <<event, intent, mapping, external, frozen, started, inline, failures>>,
         nonces' \in SUBSET Nonces, used' \in Bounds
  PROVE  InboxInv'
<1>1. Moves(p, "idle", NoCand)
  BY ReturnMoves DEF InboxInv
<1>2. failures'[NoCand.event] \in Nat
  BY NoCandType DEF InboxInv, TypeOK, Cand
<1>3. ProcInv(p)'
  BY <1>1, <1>2, NoCandType DEF ProcInv, Moves
<1>4. QED
  BY <1>1, <1>3, NoCandType, ReadStepInv DEF Steps

\* ReceiveWebhook keeps InboxInv.
LEMMA ReceiveWebhookInv ==
  ASSUME InboxInv, NEW p \in Procs, ReceiveWebhook(p)
  PROVE  InboxInv'
<1>0. TypeOK
  BY DEF InboxInv
<1>1. PICK e \in Events, n \in Nonces \cup {NoNonce} :
        /\ used.requests < MaxRequests
        /\ used' = [used EXCEPT !.requests = @ + 1]
        /\ \/ UNCHANGED <<pc, cand>>
           \/ /\ Goto(p, IF n = NoNonce THEN "accept" ELSE "nonce")
              /\ Keep(p, [NoCand EXCEPT !.event = e, !.nonce = n])
        /\ UNCHANGED <<tables, inline, failures>>
  BY DEF ReceiveWebhook
<1>2. used' \in Bounds
  BY <1>0, <1>1, UsedType
<1>3. CASE UNCHANGED <<pc, cand>>
  BY <1>0, <1>1, <1>2, <1>3
     DEF InboxInv, TypeOK, ProcInv, TokensAreExclusive, RowInv, Handled, tables
<1>4. CASE /\ Goto(p, IF n = NoNonce THEN "accept" ELSE "nonce")
           /\ Keep(p, [NoCand EXCEPT !.event = e, !.nonce = n])
  <2> DEFINE c == [NoCand EXCEPT !.event = e, !.nonce = n]
             step == IF n = NoNonce THEN "accept" ELSE "nonce"
  <2>1. c \in Cand /\ c.attempt = 0 /\ c.claimed = FALSE /\ c.event = e /\ c.nonce = n
    BY NoCandType DEF Cand
  <2>2. step \in Steps
    BY DEF Steps
  <2>3. Moves(p, step, c)
    BY <1>0, <1>4, <2>1, <2>2, GoMoves
  <2>4. failures'[e] \in Nat
    BY <1>0, <1>1 DEF TypeOK
  <2>5. ProcInv(p)'
    BY <2>1, <2>3, <2>4 DEF ProcInv, Moves
  <2>6. UNCHANGED <<event, intent, mapping, external, frozen, started, inline, failures>>
        /\ nonces' \in SUBSET Nonces
    BY <1>0, <1>1 DEF tables, TypeOK
  <2> HIDE DEF c, step
  <2>7. QED
    BY <1>2, <2>1, <2>2, <2>3, <2>5, <2>6, ReadStepInv
<1>5. QED
  BY <1>1, <1>3, <1>4

\* ScanEvent keeps InboxInv.
LEMMA ScanEventInv ==
  ASSUME InboxInv, NEW p \in Procs, ScanEvent(p)
  PROVE  InboxInv'
<1>0. TypeOK
  BY DEF InboxInv
<1>1. PICK e \in Events :
        /\ Goto(p, "claim")
        /\ Keep(p, [NoCand EXCEPT !.event = e, !.status = event[e].status,
                                  !.token = event[e].token])
        /\ UNCHANGED <<tables, used, history>>
  BY DEF ScanEvent
<1> DEFINE c == [NoCand EXCEPT !.event = e, !.status = event[e].status,
                               !.token = event[e].token]
<1>2. c \in Cand /\ c.attempt = 0 /\ c.claimed = FALSE /\ c.event = e
  BY <1>0, RowFields, NoCandType DEF Cand
<1>3. Moves(p, "claim", c)
  BY <1>0, <1>1, <1>2, GoMoves DEF Steps
<1>4. failures'[e] \in Nat
  BY <1>0, <1>1 DEF TypeOK, history
<1>5. ProcInv(p)'
  BY <1>2, <1>3, <1>4 DEF ProcInv, Moves
<1>6. UNCHANGED <<event, intent, mapping, external, frozen, started, inline, failures>>
      /\ nonces' \in SUBSET Nonces /\ used' \in Bounds
  BY <1>0, <1>1 DEF tables, history, TypeOK
<1>7. "claim" \in Steps
  BY DEF Steps
<1> HIDE DEF c
<1>8. QED
  BY <1>2, <1>3, <1>5, <1>6, <1>7, ReadStepInv

\* acceptWebhookNonce and acceptEvent's reads.
LEMMA AcceptInv ==
  ASSUME InboxInv, NEW p \in Procs, AcceptNonce(p) \/ AcceptEvent(p)
  PROVE  InboxInv'
<1>0. TypeOK /\ cand[p] \in Cand /\ cand[p].nonce \in Nonces \cup {NoNonce} /\ ProcInv(p)
  BY CandFields DEF InboxInv
<1>1. UNCHANGED <<event, intent, mapping, external, frozen, started, inline, failures>>
      /\ used' \in Bounds
  BY <1>0 DEF AcceptNonce, AcceptEvent, tables, TypeOK
<1>2. CASE Return(p) /\ nonces' = nonces
  BY <1>0, <1>1, <1>2, ReturnInv DEF TypeOK
<1>3. ASSUME NEW step \in {"accept", "insert"}, Proceed(p, step), nonces' \in SUBSET Nonces
      PROVE  InboxInv'
  <2>1. step \in Steps
    BY DEF Steps
  <2>2. Moves(p, step, cand[p])
    BY <1>0, <1>3, <2>1, ProceedMoves
  <2>3. ProcInv(p)'
    BY <1>0, <1>1, <2>2 DEF ProcInv, Moves
  <2>4. QED
    BY <1>0, <1>1, <1>3, <2>1, <2>2, <2>3, ReadStepInv
<1>4. CASE AcceptNonce(p)
  <2>1. cand[p].nonce \in Nonces
    BY <1>0, <1>4 DEF AcceptNonce, ProcInv
  <2>2. QED
    BY <1>0, <1>2, <1>3, <1>4, <2>1 DEF AcceptNonce, TypeOK
<1>5. CASE AcceptEvent(p)
  BY <1>2, <1>3, <1>5, <1>0 DEF AcceptEvent, tables, TypeOK
<1>6. QED
  BY <1>4, <1>5

\* A process that goes on with what it has read, and a result or a mapping.
LEMMA LoadEventInv ==
  ASSUME InboxInv, NEW p \in Procs, LoadEvent(p)
  PROVE  InboxInv'
<1> DEFINE e == cand[p].event
           c == [cand[p] EXCEPT !.attempt = event[e].attempt]
<1>0. TypeOK /\ cand[p] \in Cand /\ e \in Events /\ ProcInv(p) /\ RowInv(e)
  BY CandFields DEF InboxInv
<1>1. /\ c \in Cand /\ c.event = e /\ c.attempt = event[e].attempt
      /\ c.claimed = cand[p].claimed /\ c.token = cand[p].token
  BY <1>0, RowFields DEF Cand
<1>2. Moves(p, "map", c)
  BY <1>0, <1>1, GoMoves DEF LoadEvent, Steps
<1>3. UNCHANGED <<event, intent, mapping, external, frozen, started, inline, failures>>
      /\ nonces' \in SUBSET Nonces /\ used' \in Bounds
  BY <1>0 DEF LoadEvent, tables, history, TypeOK
<1>4. ProcInv(p)'
  BY <1>0, <1>1, <1>2, <1>3 DEF ProcInv, RowInv, Moves
<1>5. "map" \in Steps
  BY DEF Steps
<1> HIDE DEF c
<1>6. QED
  BY <1>1, <1>2, <1>3, <1>4, <1>5, ReadStepInv

\* MapEvent keeps InboxInv.
LEMMA MapEventInv ==
  ASSUME InboxInv, NEW p \in Procs, MapEvent(p)
  PROVE  InboxInv'
<1>0. TypeOK /\ cand[p] \in Cand /\ ProcInv(p)
  BY CandFields DEF InboxInv
<1>1. UNCHANGED <<event, intent, mapping, external, frozen, started, inline, failures>>
      /\ nonces' \in SUBSET Nonces
  BY <1>0 DEF MapEvent, tables, history, TypeOK
<1>2. ASSUME NEW result \in {"ignored", "failed"}, Goto(p, "finish"),
             Keep(p, [cand[p] EXCEPT !.result = result]), UNCHANGED used
      PROVE  InboxInv'
  <2> DEFINE c == [cand[p] EXCEPT !.result = result]
  <2>1. /\ c \in Cand /\ c.result = result /\ c.event = cand[p].event
        /\ c.claimed = cand[p].claimed /\ c.token = cand[p].token
        /\ c.attempt = cand[p].attempt
    BY <1>0 DEF Cand
  <2>2. "finish" \in Steps
    BY DEF Steps
  <2>3. Moves(p, "finish", c)
    BY <1>0, <1>2, <2>1, <2>2, GoMoves
  <2>4. ProcInv(p)'
    BY <1>0, <1>1, <2>1, <2>3 DEF ProcInv, Moves
  <2> HIDE DEF c
  <2>5. QED
    BY <1>0, <1>1, <1>2, <2>1, <2>2, <2>3, <2>4, ReadStepInv DEF TypeOK
<1>3. CASE /\ mapping # NoMapping /\ Goto(p, "guard")
           /\ Keep(p, [cand[p] EXCEPT !.mapping = mapping]) /\ UNCHANGED used
  <2> DEFINE c == [cand[p] EXCEPT !.mapping = mapping]
  <2>0. mapping \in Mappings
    BY <1>0, <1>3 DEF TypeOK
  <2>1. /\ c \in Cand /\ c.mapping = mapping /\ c.event = cand[p].event
        /\ c.claimed = cand[p].claimed /\ c.token = cand[p].token
        /\ c.attempt = cand[p].attempt
    BY <1>0, <2>0 DEF Cand
  <2>2. "guard" \in Steps
    BY DEF Steps
  <2>3. Moves(p, "guard", c)
    BY <1>0, <1>3, <2>1, <2>2, GoMoves
  <2>4. ProcInv(p)'
    BY <1>0, <1>1, <2>0, <2>1, <2>3 DEF ProcInv, Moves
  <2> HIDE DEF c
  <2>5. QED
    BY <1>0, <1>1, <1>3, <2>1, <2>2, <2>3, <2>4, ReadStepInv DEF TypeOK
<1>4. CASE used.faults < MaxFaults /\ used' = [used EXCEPT !.faults = @ + 1] /\ Return(p)
  BY <1>0, <1>1, <1>4, UsedType, ReturnInv
<1>5. QED
  BY <1>2, <1>3, <1>4 DEF MapEvent

\* The guard, the lookup of the intent, and a crash.
LEMMA PassInv ==
  ASSUME InboxInv, NEW p \in Procs,
         GuardEvent(p) \/ LookupIntent(p) \/ CrashProcess(p)
  PROVE  InboxInv'
<1>0. TypeOK /\ cand[p] \in Cand /\ ProcInv(p)
  BY CandFields DEF InboxInv
<1>1. UNCHANGED <<event, intent, mapping, external, frozen, started, inline, failures>>
      /\ nonces' \in SUBSET Nonces
  BY <1>0 DEF GuardEvent, LookupIntent, CrashProcess, tables, history, TypeOK
<1>2. CASE GuardEvent(p)
  <2>1. CASE Return(p)
    BY <1>0, <1>1, <1>2, <2>1, ReturnInv DEF GuardEvent, TypeOK
  <2>2. CASE Proceed(p, "trigger")
    <3>1. "trigger" \in Steps
      BY DEF Steps
    <3>2. Moves(p, "trigger", cand[p])
      BY <1>0, <2>2, <3>1, ProceedMoves
    <3>3. ProcInv(p)'
      BY <1>0, <1>1, <1>2, <3>2 DEF ProcInv, Moves, GuardEvent
    <3>4. QED
      BY <1>0, <1>1, <1>2, <3>1, <3>2, <3>3, ReadStepInv DEF GuardEvent, TypeOK
  <2>3. QED
    BY <1>2, <2>1, <2>2 DEF GuardEvent
<1>3. CASE LookupIntent(p)
  <2> DEFINE step == IF intent[cand[p].event] = "none" THEN "insertIntent" ELSE "updateIntent"
  <2>1. step \in Steps
    BY DEF Steps
  <2>2. Moves(p, step, cand[p])
    BY <1>0, <1>3, <2>1, ProceedMoves DEF LookupIntent
  <2>3. ProcInv(p)'
    BY <1>0, <1>1, <1>3, <2>2 DEF ProcInv, Moves, LookupIntent, Handled
  <2>4. QED
    BY <1>0, <1>1, <1>3, <2>1, <2>2, <2>3, ReadStepInv DEF LookupIntent, TypeOK
<1>4. CASE CrashProcess(p)
  BY <1>0, <1>1, <1>4, UsedType, ReturnInv DEF CrashProcess
<1>5. QED
  BY <1>2, <1>3, <1>4

-----------------------------------------------------------------------------
(* The handoff to Runtime and its receipt *)

\* A step of one process that leaves the event rows alone.
LEMMA HandoffStepInv ==
  ASSUME InboxInv, NEW p \in Procs, NEW step \in Steps, NEW c \in Cand,
         Moves(p, step, c),
         UNCHANGED <<event, nonces, mapping, external, frozen, used, inline, failures>>,
         started \subseteq started',
         started' \in SUBSET [event: Events, mapping: Mappings],
         intent' \in [Events -> IntentStatuses],
         \A e \in Events : intent[e] # "none" => intent'[e] # "none",
         ProcInv(p)',
         c.claimed => /\ cand[p].claimed
                      /\ c.event = cand[p].event /\ c.token = cand[p].token
  PROVE  InboxInv'
<1>0. TypeOK
  BY DEF InboxInv
<1>1. TypeOK'
  BY <1>0 DEF TypeOK, Moves
<1>2. Grows
  <2> SUFFICES ASSUME NEW e \in Events
               PROVE  event[e].token >= event[e].token /\ failures[e] >= failures[e]
    BY DEF Grows
  <2>1. event[e].token \in Nat /\ failures[e] \in Nat
    BY <1>0, RowFields DEF TypeOK
  <2>2. QED
    BY <2>1
<1>3. \A e \in Events : RowInv(e)'
  <2> SUFFICES ASSUME NEW e \in Events PROVE RowInv(e)'
    OBVIOUS
  <2>1. Handled(e) => Handled(e)'
    BY DEF Handled
  <2>2. QED
    BY <2>1 DEF InboxInv, RowInv
<1>4. QED
  BY <1>1, <1>2, <1>3, ProcessStepInv DEF Moves

\* Handing the event to Runtime keeps InboxInv.
LEMMA TriggerInv ==
  ASSUME InboxInv, NEW p \in Procs, Trigger(p)
  PROVE  InboxInv'
<1> DEFINE key == IdempotencyKey(cand[p])
<1>0. /\ TypeOK /\ cand[p] \in Cand /\ cand[p].event \in Events
      /\ ProcInv(p)
  BY CandFields DEF InboxInv
<1>1. PICK answered \in BOOLEAN :
        /\ \/ started' = started \cup {key}
           \/ ~answered /\ UNCHANGED started
        /\ Keep(p, [cand[p] EXCEPT !.result = HandoffResult(answered)])
  BY DEF Trigger
<1> DEFINE c == [cand[p] EXCEPT !.result = HandoffResult(answered)]
<1>2. /\ c \in Cand /\ c.event = cand[p].event /\ c.claimed = cand[p].claimed
      /\ c.token = cand[p].token /\ c.attempt = cand[p].attempt
      /\ c.result = HandoffResult(answered)
  <2>1. HandoffResult(answered) \in {"processed", "failed"}
    BY DEF HandoffResult
  <2>2. QED
    BY <1>0, <2>1 DEF Cand
<1>3. "lookup" \in Steps
  BY DEF Steps
<1>4. Moves(p, "lookup", c)
  BY <1>0, <1>1, <1>2, <1>3, GoMoves DEF Trigger
<1>5. /\ key \in [event: Events, mapping: Mappings]
      /\ key.event = cand[p].event
  BY <1>0 DEF IdempotencyKey, ProcInv, Trigger
<1>6. /\ started \subseteq started'
      /\ started' \in SUBSET [event: Events, mapping: Mappings]
      /\ answered => \E x \in started' : x.event = cand[p].event
  <2> HIDE DEF key
  <2>1. QED
    BY <1>0, <1>1, <1>5 DEF TypeOK
<1>7. UNCHANGED <<event, nonces, intent, mapping, external, frozen, used, inline, failures>>
  BY DEF Trigger, history
<1>8. ProcInv(p)'
  BY <1>0, <1>2, <1>4, <1>6, <1>7 DEF ProcInv, Moves, HandoffResult, Handled
<1> HIDE DEF c, key
<1>9. QED
  BY <1>0, <1>2, <1>3, <1>4, <1>6, <1>7, <1>8, HandoffStepInv DEF TypeOK

\* InsertIntent and UpdateIntent keep InboxInv.
LEMMA ReceiptInv ==
  ASSUME InboxInv, NEW p \in Procs, InsertIntent(p) \/ UpdateIntent(p)
  PROVE  InboxInv'
<1> DEFINE e == cand[p].event
<1>0. TypeOK /\ cand[p] \in Cand /\ e \in Events /\ ProcInv(p)
  BY CandFields DEF InboxInv
<1>1. UNCHANGED <<event, nonces, mapping, external, frozen, started, used, inline, failures>>
  BY DEF InsertIntent, UpdateIntent, history
<1>2. CASE Return(p) /\ UNCHANGED intent
  BY <1>0, <1>1, <1>2, ReturnInv DEF TypeOK
<1>3. ASSUME Proceed(p, "finish"), intent' \in [Events -> IntentStatuses],
             intent'[e] # "none", \A f \in Events : intent[f] # "none" => intent'[f] # "none",
             pc[p] \in {"insertIntent", "updateIntent"}
      PROVE  InboxInv'
  <2>1. "finish" \in Steps
    BY DEF Steps
  <2>2. Moves(p, "finish", cand[p])
    BY <1>0, <1>3, <2>1, ProceedMoves
  <2>3. ProcInv(p)'
    BY <1>0, <1>1, <1>3, <2>2 DEF ProcInv, Moves, Handled
  <2>4. started' \in SUBSET [event: Events, mapping: Mappings]
    BY <1>0, <1>1 DEF TypeOK
  <2>5. QED
    BY <1>0, <1>1, <1>3, <2>1, <2>2, <2>3, <2>4, HandoffStepInv
<1>4. ReceiptStatus(p) \in IntentStatuses \ {"none"}
  BY DEF ReceiptStatus, IntentStatuses
<1>5. CASE InsertIntent(p)
  BY <1>0, <1>2, <1>3, <1>4, <1>5 DEF InsertIntent, TypeOK
<1>6. CASE UpdateIntent(p)
  <2>1. intent[e] # "none" /\ intent \in [Events -> IntentStatuses]
    BY <1>0, <1>6 DEF UpdateIntent, ProcInv, TypeOK
  <2>2. QED
    BY <1>0, <1>3, <1>4, <1>6, <2>1 DEF UpdateIntent
<1>7. QED
  BY <1>5, <1>6

-----------------------------------------------------------------------------
(* Steps that write an event's row *)

\* A step that writes one event's row, and leaves the rest of the tables alone.
WritesRow(e, row) ==
    /\ event' = [event EXCEPT ![e] = row]
    /\ UNCHANGED <<nonces, intent, mapping, external, frozen, started>>

\* A step that writes one event row, and what it owes the row and its readers.
LEMMA RowStepInv ==
  ASSUME InboxInv, NEW p \in Procs, NEW step \in Steps, NEW c \in Cand,
         Moves(p, step, c), used' \in Bounds,
         NEW e \in Events, NEW row \in EventRow, WritesRow(e, row),
         row.token >= event[e].token,
         inline' \in [Events -> Nat], failures' \in [Events -> Nat],
         failures'[e] >= failures[e],
         \A f \in Events \ {e} : inline'[f] = inline[f] /\ failures'[f] = failures[f],
         RowInv(e)', ProcInv(p)',
         c.claimed => \/ /\ cand[p].claimed
                         /\ c.event = cand[p].event /\ c.token = cand[p].token
                      \/ c.token > event[c.event].token
  PROVE  InboxInv'
<1>0. TypeOK
  BY DEF InboxInv
<1>1. TypeOK'
  BY <1>0 DEF TypeOK, Moves, WritesRow
<1>2. event'[e] = row /\ \A f \in Events \ {e} : event'[f] = event[f]
  BY <1>0 DEF TypeOK, WritesRow
<1>3. \A f \in Events : /\ event[f].token \in Nat /\ failures[f] \in Nat
  BY <1>0, RowFields DEF TypeOK
<1>4. Grows
  <2> SUFFICES ASSUME NEW f \in Events
               PROVE  event'[f].token >= event[f].token /\ failures'[f] >= failures[f]
    BY DEF Grows, WritesRow
  <2>1. QED
    BY <1>2, <1>3
<1>5. \A f \in Events : RowInv(f)'
  BY <1>2 DEF InboxInv, RowInv, Handled, WritesRow
<1>6. QED
  BY <1>1, <1>4, <1>5, ProcessStepInv DEF Moves

\* The request that inserts the row is the first for its event.
LEMMA InsertEventInv ==
  ASSUME InboxInv, NEW p \in Procs, InsertEvent(p)
  PROVE  InboxInv'
<1>e. PICK e \in Events : e = cand[p].event
  BY CandFields DEF InboxInv
<1> DEFINE row == [NoEvent EXCEPT !.status = "received"]
<1>0. TypeOK /\ cand[p] \in Cand /\ e \in Events /\ ProcInv(p) /\ RowInv(e)
      /\ event[e] \in EventRow
  BY CandFields, RowFields DEF InboxInv
<1>1. CASE event[e].status # "absent"
  BY <1>e, <1>0, <1>1, ReturnInv DEF InsertEvent, ConflictAnswers, TypeOK
<1>2. CASE event[e].status = "absent"
  <2>1. /\ event' = [event EXCEPT ![e] = row]
        /\ inline' = [inline EXCEPT ![e] = @ + 1]
        /\ Proceed(p, "load")
        /\ UNCHANGED <<nonces, intent, mapping, external, frozen, started, used, failures>>
    BY <1>e, <1>2 DEF InsertEvent
  <2>2. /\ row \in EventRow /\ row.status = "received" /\ row.token = 0
        /\ row.attempt = 0 /\ row.lease = "none"
    BY DEF EventRow, NoEvent, Statuses, Leases
  <2>3. "load" \in Steps
    BY DEF Steps
  <2>4. Moves(p, "load", cand[p])
    BY <1>e, <1>0, <2>1, <2>3, ProceedMoves
  <2>5. event[e].token = 0 /\ inline[e] = 0 /\ e \notin frozen
    BY <1>e, <1>0, <1>2 DEF RowInv
  <2>6. event'[e] = row
    BY <1>e, <1>0, <2>1 DEF TypeOK
  <2>7. failures[e] \in Nat /\ failures' = failures
    BY <1>e, <1>0, <2>1 DEF TypeOK
  <2>8. RowInv(e)'
    <3>1. inline'[e] = 1 /\ frozen' = frozen
      BY <1>e, <1>0, <2>1, <2>5 DEF TypeOK
    <3> HIDE DEF row
    <3>2. ~(event'[e].status = "absent") /\ event'[e].attempt <= failures'[e]
          /\ event'[e].status # "dead_letter" /\ event'[e].status # "processed"
      BY <2>2, <2>6, <2>7
    <3>3. pc'[p] = "load" /\ cand'[p] = cand[p]
      BY <2>4 DEF Moves
    <3>4. QED
      BY <2>5, <3>1, <3>2, <3>3 DEF RowInv
  <2>9. ProcInv(p)'
    <3>1. pc'[p] = "load" /\ cand'[p] = cand[p]
      BY <2>4 DEF Moves
    <3>2. ~cand[p].claimed
      BY <1>e, <1>0, <2>5, CandFields DEF ProcInv
    <3>3. cand[p].attempt <= failures'[e]
      BY <1>e, <1>0, <2>7 DEF ProcInv
    <3>4. QED
      BY <1>e, <3>1, <3>2, <3>3 DEF ProcInv
  <2>10. WritesRow(e, row)
    BY <2>1 DEF WritesRow
  <2>11. /\ inline' \in [Events -> Nat] /\ failures' \in [Events -> Nat]
         /\ failures'[e] >= failures[e] /\ used' \in Bounds
         /\ \A f \in Events \ {e} : inline'[f] = inline[f] /\ failures'[f] = failures[f]
    BY <1>e, <1>0, <2>1, <2>7 DEF TypeOK
  <2>12. row.token >= event[e].token
    BY <2>2, <2>5
  <2> HIDE DEF row
  <2>13. QED
    BY <1>e, <1>0, <2>2, <2>3, <2>4, <2>8, <2>9, <2>10, <2>11, <2>12, RowStepInv
<1>3. QED
  BY <1>e, <1>1, <1>2

\* What a claim leaves in the row, and what the claimant knows.
ClaimedRow(r, n) == [r EXCEPT !.status = "processing", !.lease = "held", !.token = n]
ClaimedCand(k, n) == [k EXCEPT !.token = n, !.claimed = TRUE]

\* A claimed row is of its type.
LEMMA ClaimedType ==
  ASSUME NEW n \in Nat
  PROVE  /\ \A r \in EventRow :
               /\ ClaimedRow(r, n) \in EventRow
               /\ ClaimedRow(r, n).status = "processing"
               /\ ClaimedRow(r, n).token = n
               /\ ClaimedRow(r, n).attempt = r.attempt
         /\ \A k \in Cand :
               /\ ClaimedCand(k, n) \in Cand
               /\ ClaimedCand(k, n).token = n
               /\ ClaimedCand(k, n).event = k.event
               /\ ClaimedCand(k, n).attempt = k.attempt
<1>1. "processing" \in Statuses /\ "held" \in Leases
  BY DEF Statuses, Leases
<1>2. QED
  BY <1>1 DEF EventRow, ClaimedRow, Cand, ClaimedCand

\* A claim's token is newer than every token handed out before.
LEMMA ClaimEventInv ==
  ASSUME InboxInv, NEW p \in Procs, ClaimEvent(p)
  PROVE  InboxInv'
<1>e. PICK e \in Events : e = cand[p].event
  BY CandFields DEF InboxInv
<1> DEFINE row == ClaimedRow(event[e], cand[p].token + 1)
           c == ClaimedCand(cand[p], cand[p].token + 1)
<1>0. TypeOK /\ cand[p] \in Cand /\ e \in Events /\ ProcInv(p) /\ RowInv(e)
      /\ event[e] \in EventRow /\ cand[p].token \in Nat
  BY CandFields, RowFields DEF InboxInv
<1>1. CASE ~(RowWriteAllowed(e) /\ SameClaim(event[e], cand[p]))
  BY <1>e, <1>0, <1>1, ReturnInv DEF ClaimEvent, TypeOK, history
<1>2. CASE RowWriteAllowed(e) /\ SameClaim(event[e], cand[p])
  <2>1. /\ event' = [event EXCEPT ![e] = row]
        /\ Goto(p, "load") /\ Keep(p, c)
        /\ UNCHANGED <<nonces, intent, mapping, external, frozen, started, used,
                       inline, failures>>
    <3>1. event' = [event EXCEPT ![e] =
                [@ EXCEPT !.status = "processing", !.lease = "held",
                          !.token = cand[p].token + 1]]
      BY <1>e, <1>2 DEF ClaimEvent
    <3>2. QED
      BY <1>e, <1>0, <1>2, <3>1 DEF ClaimEvent, history, TypeOK, ClaimedRow, ClaimedCand
  <2>2. /\ row \in EventRow /\ row.status = "processing" /\ row.token = cand[p].token + 1
        /\ row.attempt = event[e].attempt
    <3>1. cand[p].token + 1 \in Nat
      BY <1>0
    <3>2. QED
      BY <1>0, <3>1, ClaimedType
  <2>3. /\ c \in Cand /\ c.token = cand[p].token + 1 /\ c.event = e
        /\ c.attempt = cand[p].attempt
    <3>1. cand[p].token + 1 \in Nat
      BY <1>0
    <3>2. QED
      BY <1>e, <1>0, <3>1, ClaimedType
  <2>4. Moves(p, "load", c)
    BY <1>e, <1>0, <2>1, <2>3, GoMoves DEF Steps
  <2>5. event[e].token = cand[p].token /\ e \notin frozen
    BY <1>e, <1>2 DEF SameClaim, RowWriteAllowed
  <2>6. event'[e] = row /\ failures[e] \in Nat
    BY <1>e, <1>0, <2>1 DEF TypeOK
  <2> HIDE DEF row, c
  <2>7. cand'[p] = c /\ pc'[p] = "load"
    BY <2>4 DEF Moves
  <2>8. ProcInv(p)'
    BY <1>e, <1>0, <2>1, <2>2, <2>3, <2>5, <2>6, <2>7 DEF ProcInv
  <2>9. RowInv(e)'
    BY <1>e, <1>0, <2>1, <2>2, <2>5, <2>6 DEF RowInv
  <2>10. WritesRow(e, row) /\ "load" \in Steps
    BY <2>1 DEF WritesRow, Steps
  <2>11. /\ inline' \in [Events -> Nat] /\ failures' \in [Events -> Nat]
         /\ failures'[e] >= failures[e] /\ used' \in Bounds
         /\ \A f \in Events \ {e} : inline'[f] = inline[f] /\ failures'[f] = failures[f]
    BY <1>e, <1>0, <2>1, <2>6 DEF TypeOK
  <2>12. row.token >= event[e].token /\ c.token > event[c.event].token
    BY <1>e, <1>0, <2>2, <2>3, <2>5
  <2>13. QED
    BY <1>e, <1>0, <2>2, <2>3, <2>4, <2>8, <2>9, <2>10, <2>11, <2>12, RowStepInv
<1>3. QED
  BY <1>e, <1>1, <1>2

\* An operator's replay makes the event received again; what its row counts stays.
LEMMA ReplayEventInv ==
  ASSUME InboxInv, NEW p \in Procs, ReplayEvent(p)
  PROVE  InboxInv'
<1>0. TypeOK
  BY DEF InboxInv
<1>1. PICK e \in Events :
        /\ event[e].status # "absent" /\ RowWriteAllowed(e)
        /\ used.replays < MaxReplays
        /\ used' = [used EXCEPT !.replays = @ + 1]
        /\ event' = [event EXCEPT ![e].status = "received"]
        /\ Goto(p, "map")
        /\ Keep(p, [NoCand EXCEPT !.event = e, !.attempt = event[e].attempt])
        /\ UNCHANGED <<nonces, intent, mapping, external, frozen, started, history>>
  BY DEF ReplayEvent
<1> DEFINE row == [event[e] EXCEPT !.status = "received"]
           c == [NoCand EXCEPT !.event = e, !.attempt = event[e].attempt]
<1>2. event[e] \in EventRow /\ event[e].attempt \in Nat /\ event[e].token \in Nat
      /\ RowInv(e)
  BY <1>0, RowFields DEF InboxInv
<1>3. /\ row \in EventRow /\ row.status = "received" /\ row.token = event[e].token
      /\ row.attempt = event[e].attempt
  <2>1. "received" \in Statuses
    BY DEF Statuses
  <2>2. QED
    BY <1>2, <2>1 DEF EventRow
<1>4. /\ c \in Cand /\ c.event = e /\ c.attempt = event[e].attempt /\ c.claimed = FALSE
  BY <1>2, NoCandType DEF Cand
<1>5. Moves(p, "map", c) /\ "map" \in Steps
  BY <1>0, <1>1, <1>4, GoMoves DEF Steps
<1>6. event'[e] = row /\ e \notin frozen /\ WritesRow(e, row)
  BY <1>0, <1>1 DEF TypeOK, RowWriteAllowed, WritesRow
<1> HIDE DEF row, c
<1>7. /\ inline' \in [Events -> Nat] /\ failures' \in [Events -> Nat]
      /\ inline' = inline /\ failures' = failures /\ frozen' = frozen
      /\ failures[e] \in Nat
  BY <1>0, <1>1 DEF TypeOK, history
<1>8. RowInv(e)'
  BY <1>1, <1>2, <1>3, <1>6, <1>7 DEF RowInv
<1>9. ProcInv(p)'
  BY <1>2, <1>4, <1>5, <1>7 DEF ProcInv, RowInv, Moves
<1>10. used' \in Bounds /\ row.token >= event[e].token /\ failures'[e] >= failures[e]
  BY <1>0, <1>1, <1>2, <1>3, <1>7, UsedType
<1>11. QED
  BY <1>3, <1>4, <1>5, <1>6, <1>7, <1>8, <1>9, <1>10, RowStepInv

\* What updateEventStatus makes of a row.
LEMMA FinishedType ==
  ASSUME NEW row \in EventRow, NEW c \in Cand
  PROVE  /\ Finished(row, c) \in EventRow
         /\ Finished(row, c).token = row.token
         /\ c.result = "failed" =>
               /\ Finished(row, c).attempt = c.attempt + 1
               /\ Finished(row, c).status =
                     IF c.attempt + 1 >= AttemptLimit THEN "dead_letter" ELSE "failed"
         /\ c.result # "failed" =>
               /\ Finished(row, c).attempt = row.attempt
               /\ Finished(row, c).status = c.result
               /\ c.result \in {"processed", "ignored"}
<1>1. /\ c.attempt + 1 \in Nat /\ "none" \in Leases
      /\ FailedStatus(c.attempt + 1) \in Statuses
  BY DEF Cand, Leases, FailedStatus, Statuses
<1>2. CASE c.result = "failed"
  <2>1. Finished(row, c) = [row EXCEPT !.status = FailedStatus(c.attempt + 1),
                                       !.attempt = c.attempt + 1, !.lease = "none"]
    BY <1>2 DEF Finished
  <2>3. FailedStatus(c.attempt + 1) =
          IF c.attempt + 1 >= AttemptLimit THEN "dead_letter" ELSE "failed"
    BY DEF FailedStatus
  <2> DEFINE st == FailedStatus(c.attempt + 1)
             n == c.attempt + 1
  <2>4. st \in Statuses /\ n \in Nat
    BY <1>1
  <2>5. Finished(row, c) = [row EXCEPT !.status = st, !.attempt = n, !.lease = "none"]
    BY <2>1
  <2>6. st = IF n >= AttemptLimit THEN "dead_letter" ELSE "failed"
    BY <2>3
  <2>7. /\ Finished(row, c) \in EventRow
        /\ Finished(row, c).token = row.token
        /\ Finished(row, c).attempt = n /\ Finished(row, c).status = st
    <3> HIDE DEF st, n
    <3>1. QED
      BY <1>1, <2>4, <2>5 DEF EventRow
  <2>8. QED
    BY <1>2, <2>6, <2>7
<1>3. CASE c.result # "failed"
  <2>1. c.result \in {"processed", "ignored"} /\ c.result \in Statuses
    BY <1>3 DEF Cand, Statuses
  <2>2. Finished(row, c) = [row EXCEPT !.status = c.result, !.lease = "none"]
    BY <1>3 DEF Finished
  <2>3. QED
    BY <1>1, <1>3, <2>1, <2>2 DEF EventRow
<1>4. QED
  BY <1>2, <1>3

\* A late writer takes the row with it, but never counts an attempt that was not
\* a failure, and never says processed of what Runtime did not run.
LEMMA FinishEventInv ==
  ASSUME InboxInv, NEW p \in Procs, FinishEvent(p)
  PROVE  InboxInv'
<1>e. PICK e \in Events : e = cand[p].event
  BY CandFields DEF InboxInv
<1>0. TypeOK /\ cand[p] \in Cand /\ ProcInv(p) /\ RowInv(e) /\ event[e] \in EventRow
      /\ cand[p].attempt \in Nat
  BY CandFields, RowFields DEF InboxInv
<1>1. /\ pc[p] = "finish"
      /\ event' = IF RowWriteAllowed(e)
                  THEN [event EXCEPT ![e] = Finished(event[e], cand[p])]
                  ELSE event
      /\ failures' = IF cand[p].result = "failed"
                     THEN [failures EXCEPT ![e] = failures[e] + 1] ELSE failures
      /\ Return(p)
      /\ UNCHANGED <<nonces, intent, mapping, external, frozen, started, used, inline>>
  BY <1>e DEF FinishEvent
<1>2. /\ failures' \in [Events -> Nat] /\ failures[e] \in Nat /\ failures'[e] >= failures[e]
      /\ cand[p].result = "failed" => failures'[e] = failures[e] + 1
      /\ \A f \in Events \ {e} : failures'[f] = failures[f]
  BY <1>0, <1>1 DEF TypeOK
<1>3. Moves(p, "idle", NoCand)
  BY <1>0, <1>1, ReturnMoves
<1>4. ProcInv(p)'
  <2>1. failures'[NoCand.event] \in Nat
    BY <1>2, NoCandType DEF Cand
  <2>2. QED
    BY <1>3, <2>1, NoCandType DEF ProcInv, Moves
<1>5. /\ inline' \in [Events -> Nat] /\ used' \in Bounds /\ inline' = inline
      /\ "idle" \in Steps /\ event[e].token \in Nat /\ event[e].attempt \in Nat
  BY <1>0, <1>1, RowFields DEF TypeOK, Steps
<1>6. ASSUME NEW row \in EventRow, WritesRow(e, row), RowInv(e)',
             row.token = event[e].token
      PROVE  InboxInv'
  BY <1>2, <1>3, <1>4, <1>5, <1>6, NoCandType, RowStepInv
<1>7. CASE RowWriteAllowed(e)
  <2> DEFINE row == Finished(event[e], cand[p])
  <2>1. WritesRow(e, row) /\ event'[e] = row
    BY <1>0, <1>1, <1>7 DEF WritesRow, TypeOK
  <2>2. row \in EventRow /\ row.token = event[e].token
    BY <1>0, FinishedType
  <2>3. e \notin frozen' /\ Handled(e)' = Handled(e) /\ intent' = intent
    BY <1>1, <1>7 DEF RowWriteAllowed, Handled
  <2>4. CASE cand[p].result = "failed"
    <3>1. /\ row.attempt = cand[p].attempt + 1
          /\ row.status = IF cand[p].attempt + 1 >= AttemptLimit THEN "dead_letter" ELSE "failed"
      BY <1>0, <2>4, FinishedType
    <3>2. cand[p].attempt <= failures[e]
      BY <1>e, <1>0 DEF ProcInv
    <3> HIDE DEF row
    <3>3. RowInv(e)'
      BY <1>0, <1>2, <1>5, <2>1, <2>3, <2>4, <3>1, <3>2, InboxAssumption DEF RowInv
    <3>4. QED
      BY <1>6, <2>1, <2>2, <3>3
  <2>5. CASE cand[p].result # "failed"
    <3>1. /\ row.attempt = event[e].attempt
          /\ row.status \in {"processed", "ignored"}
          /\ row.status = cand[p].result
      BY <1>0, <2>5, FinishedType
    <3>2. cand[p].result = "processed" => intent[e] # "none" /\ Handled(e)
      BY <1>e, <1>0, <1>1 DEF ProcInv
    <3> HIDE DEF row
    <3>3. RowInv(e)'
      BY <1>0, <1>2, <1>5, <2>1, <2>3, <3>1, <3>2 DEF RowInv
    <3>4. QED
      BY <1>6, <2>1, <2>2, <3>3
  <2>6. QED
    BY <2>4, <2>5
<1>8. CASE ~RowWriteAllowed(e)
  <2>1. WritesRow(e, event[e]) /\ event' = event
    BY <1>0, <1>1, <1>8 DEF WritesRow, TypeOK
  <2>2. RowInv(e)'
    BY <1>0, <1>1, <1>2, <1>5, <2>1, InboxAssumption DEF RowInv, Handled
  <2>3. QED
    BY <1>0, <1>6, <2>1, <2>2
<1>9. QED
  BY <1>7, <1>8

-----------------------------------------------------------------------------
(* The rest of the system *)

\* A step of no process: what is left to show of it.
LEMMA EnvironmentStepInv ==
  ASSUME InboxInv, TypeOK', Grows, UNCHANGED <<pc, cand>>,
         \A e \in Events : RowInv(e)', UNCHANGED started
  PROVE  InboxInv'
<1>1. \A q \in Procs : ProcInv(q)'
  BY OthersInv
<1>2. QED
  BY <1>1 DEF InboxInv, TokensAreExclusive

\* PublishMapping keeps InboxInv.
LEMMA PublishMappingInv ==
  ASSUME InboxInv, PublishMapping
  PROVE  InboxInv'
<1>0. TypeOK
  BY DEF InboxInv
<1>1. TypeOK'
  BY <1>0, UsedType DEF TypeOK, PublishMapping, history
<1>2. \A e \in Events : event[e].token \in Nat /\ failures[e] \in Nat
  BY <1>0, RowFields DEF TypeOK
<1>3. UNCHANGED <<event, nonces, intent, external, frozen, started, pc, cand, inline, failures>>
  BY DEF PublishMapping, history
<1>4. Grows
  BY <1>2, <1>3 DEF Grows
<1>5. \A e \in Events : RowInv(e)'
  BY <1>3 DEF InboxInv, RowInv, Handled
<1>6. QED
  BY <1>1, <1>3, <1>4, <1>5, EnvironmentStepInv

\* LeaseExpires keeps InboxInv.
LEMMA LeaseExpiresInv ==
  ASSUME InboxInv, LeaseExpires
  PROVE  InboxInv'
<1>0. TypeOK
  BY DEF InboxInv
<1>1. PICK e \in Events :
        /\ event[e].lease = "held"
        /\ \/ UNCHANGED used
           \/ used.faults < MaxFaults /\ used' = [used EXCEPT !.faults = @ + 1]
        /\ event' = [event EXCEPT ![e].lease = "expired"]
        /\ UNCHANGED <<nonces, intent, mapping, external, frozen, started, pc, cand, history>>
  BY DEF LeaseExpires
<1>2. used' \in Bounds
  BY <1>0, <1>1, UsedType
<1>3. /\ event' \in [Events -> EventRow]
      /\ \A f \in Events : /\ event'[f].status = event[f].status
                           /\ event'[f].attempt = event[f].attempt
                           /\ event'[f].token = event[f].token
                           /\ f # e => event'[f].lease = event[f].lease
  BY <1>0, <1>1 DEF TypeOK, EventRow, Leases
<1>4. TypeOK'
  BY <1>0, <1>1, <1>2, <1>3 DEF TypeOK, history
<1>5. \A f \in Events : event[f].token \in Nat /\ failures[f] \in Nat
  BY <1>0, RowFields DEF TypeOK
<1>6. Grows
  BY <1>1, <1>3, <1>5 DEF Grows, history
<1>7. e \notin frozen
  BY <1>1 DEF InboxInv, RowInv
<1>8. \A f \in Events : RowInv(f)'
  BY <1>1, <1>3, <1>7 DEF InboxInv, RowInv, Handled, history
<1>9. QED
  BY <1>1, <1>4, <1>6, <1>8, EnvironmentStepInv

\* The preparation fences a row and advances its token.
LEMMA PrepareErasureInv ==
  ASSUME InboxInv, PrepareErasure
  PROVE  InboxInv'
<1>0. TypeOK
  BY DEF InboxInv
<1>1. PICK e \in Erasable \ external :
        /\ external' = external \cup {e}
        /\ IF event[e].status = "absent" THEN UNCHANGED <<event, intent, frozen>>
           ELSE /\ frozen' = frozen \cup {e}
                /\ event' = [event EXCEPT ![e] =
                      [@ EXCEPT !.status = "erasing", !.token = event[e].token + 1,
                                !.lease = "none"]]
                /\ intent' = IF intent[e] = "none" THEN intent
                             ELSE [intent EXCEPT ![e] = "erasing"]
        /\ UNCHANGED <<nonces, mapping, started, pc, cand, used, history>>
  BY DEF PrepareErasure
<1>2. e \in Events /\ event[e] \in EventRow /\ event[e].token \in Nat
  BY <1>0, InboxAssumption, RowFields
<1>3. \A f \in Events : event[f].token \in Nat /\ failures[f] \in Nat
  BY <1>0, RowFields DEF TypeOK
<1>4. CASE event[e].status = "absent"
  <2>1. UNCHANGED <<event, intent, frozen>>
    BY <1>1, <1>4
  <2>2. TypeOK'
    BY <1>0, <1>1, <2>1 DEF TypeOK, history
  <2>3. Grows
    BY <1>1, <1>3, <2>1 DEF Grows, history
  <2>4. \A f \in Events : RowInv(f)'
    BY <1>1, <2>1 DEF InboxInv, RowInv, Handled, history
  <2>5. QED
    BY <1>1, <2>2, <2>3, <2>4, EnvironmentStepInv
<1>5. CASE event[e].status # "absent"
  <2> DEFINE n == event[e].token + 1
             row == [event[e] EXCEPT !.status = "erasing", !.token = n, !.lease = "none"]
  <2>1. event' = [event EXCEPT ![e] = row]
    BY <1>1, <1>5
  <2>2. /\ row \in EventRow /\ row.status = "erasing" /\ row.lease = "none"
        /\ row.attempt = event[e].attempt /\ row.token = n
    <3>1. "erasing" \in Statuses /\ "none" \in Leases /\ n \in Nat
      BY <1>2 DEF Statuses, Leases
    <3> HIDE DEF n
    <3>2. QED
      BY <1>2, <3>1 DEF EventRow
  <2> HIDE DEF row
  <2>3. /\ event' \in [Events -> EventRow]
        /\ event'[e] = row
        /\ \A f \in Events \ {e} : event'[f] = event[f]
    BY <1>0, <1>2, <2>1, <2>2 DEF TypeOK
  <2>4. /\ intent' \in [Events -> IntentStatuses]
        /\ \A f \in Events : intent[f] # "none" => intent'[f] # "none"
        /\ \A f \in Events \ {e} : intent'[f] = intent[f]
    BY <1>0, <1>1, <1>2, <1>5 DEF TypeOK, IntentStatuses
  <2>5. frozen' = frozen \cup {e}
    BY <1>1, <1>5
  <2>6. TypeOK'
    BY <1>0, <1>1, <2>3, <2>4, <2>5 DEF TypeOK, history
  <2>7. Grows
    BY <1>1, <1>3, <2>2, <2>3, <2>4 DEF Grows, history
  <2>8. \A f \in Events : RowInv(f)'
    BY <1>1, <2>2, <2>3, <2>4, <2>5 DEF InboxInv, RowInv, Handled, history
  <2>9. QED
    BY <1>1, <2>6, <2>7, <2>8, EnvironmentStepInv
<1>6. QED
  BY <1>4, <1>5

\* EraseSubject keeps InboxInv.
LEMMA EraseSubjectInv ==
  ASSUME InboxInv, EraseSubject
  PROVE  InboxInv'
<1>0. TypeOK
  BY DEF InboxInv
<1>1. PICK e \in frozen :
        /\ event' = [event EXCEPT ![e] =
              [@ EXCEPT !.status = "cancelled", !.lease = "none"]]
        /\ intent' = IF intent[e] = "erasing"
                     THEN [intent EXCEPT ![e] = "cancelled"] ELSE intent
        /\ UNCHANGED <<nonces, mapping, external, frozen, started, pc, cand, used, history>>
  BY DEF EraseSubject
<1>2. e \in Events
  BY <1>0, InboxAssumption DEF TypeOK
<1>3. /\ event' \in [Events -> EventRow]
      /\ event'[e].status = "cancelled" /\ event'[e].lease = "none"
      /\ event'[e].token = event[e].token /\ event'[e].attempt = event[e].attempt
      /\ \A f \in Events \ {e} : event'[f] = event[f]
  BY <1>0, <1>1, <1>2 DEF TypeOK, EventRow, Statuses, Leases
<1>4. /\ intent' \in [Events -> IntentStatuses]
      /\ \A f \in Events : intent[f] # "none" => intent'[f] # "none"
  BY <1>0, <1>1, <1>2 DEF TypeOK, IntentStatuses
<1>5. TypeOK'
  BY <1>0, <1>1, <1>3, <1>4 DEF TypeOK, history
<1>6. \A f \in Events : event[f].token \in Nat /\ failures[f] \in Nat
  BY <1>0, RowFields DEF TypeOK
<1>7. Grows
  BY <1>1, <1>3, <1>4, <1>6 DEF Grows, history
<1>8. \A f \in Events : RowInv(f)'
  BY <1>1, <1>3, <1>4 DEF InboxInv, RowInv, Handled, history
<1>9. QED
  BY <1>1, <1>5, <1>7, <1>8, EnvironmentStepInv

\* Every step keeps the inductive invariant.
LEMMA NextInv == InboxInv /\ [Next]_vars => InboxInv'
<1> SUFFICES ASSUME InboxInv, [Next]_vars PROVE InboxInv'
  OBVIOUS
<1>1. CASE UNCHANGED vars
  BY <1>1 DEF vars, tables, history, InboxInv, TypeOK, ProcInv, TokensAreExclusive,
              RowInv, Handled
<1>2. ASSUME NEW p \in Procs, Work(p) PROVE InboxInv'
  BY <1>2, AcceptInv, InsertEventInv, ClaimEventInv, LoadEventInv, MapEventInv, PassInv,
     TriggerInv, ReceiptInv, FinishEventInv DEF Work
<1>3. QED
  BY <1>1, <1>2, ReceiveWebhookInv, ScanEventInv, ReplayEventInv, PassInv,
     PublishMappingInv, LeaseExpiresInv, PrepareErasureInv, EraseSubjectInv DEF Next

\* The invariant holds in every reachable state.
LEMMA Invariance == Spec => []InboxInv
BY InitInv, NextInv, PTL DEF Spec

-----------------------------------------------------------------------------
(* Theorems *)

\* Every variable keeps its type.
THEOREM TypeCorrect == Spec => []TypeOK
<1>1. InboxInv => TypeOK
  BY DEF InboxInv
<1>2. QED
  BY <1>1, Invariance, PTL

\* Of all the deliveries of an event at most one goes on to process it in its
\* request (acceptEvent's insert).
THEOREM OneInlineProcessing == Spec => []IngressProcessesOnce
<1>1. InboxInv => IngressProcessesOnce
  BY DEF InboxInv, RowInv, IngressProcessesOnce
<1>2. QED
  BY <1>1, Invariance, PTL

\* An event is dead-lettered only after AttemptLimit counted failures, although
\* updateEventStatus compares nothing.
THEOREM DeadLettersWereTried == Spec => []DeadLetterAfterLimit
<1>1. InboxInv => DeadLetterAfterLimit
  BY DEF InboxInv, RowInv, DeadLetterAfterLimit
<1>2. QED
  BY <1>1, Invariance, PTL

\* A processed event was executed by Runtime and has a receipt
\* (persistExecutionReceipt before updateEventStatus).
THEOREM ProcessedEventsRan == Spec => []ProcessedWasStarted
<1>1. InboxInv => ProcessedWasStarted
  BY DEF InboxInv, RowInv, Handled, ProcessedWasStarted
<1>2. QED
  BY <1>1, Invariance, PTL

\* The token comparison of the claim keeps two workers from the same claim.
THEOREM OneWorkerPerClaim == Spec => []ClaimsAreExclusive
<1>1. InboxInv => ClaimsAreExclusive
  BY DEF InboxInv, TokensAreExclusive, ClaimsAreExclusive
<1>2. QED
  BY <1>1, Invariance, PTL

\* The row's fence: after PrepareSubjectErasure only the erasure writes it.
THEOREM FencedRowsKept == Spec => FrozenEventsStayFrozen
<1>1. ASSUME InboxInv, [Next]_vars
      PROVE  [\A e \in frozen :
                event'[e] = event[e] \/ event'[e].status = "cancelled"]_vars
  <2> SUFFICES ASSUME NEW e \in frozen
               PROVE  event'[e] = event[e] \/ event'[e].status = "cancelled"
    OBVIOUS
  <2>0. /\ e \in Events /\ event \in [Events -> EventRow]
        /\ e \in external
    BY <1>1, InboxAssumption DEF InboxInv, TypeOK
  <2>1. event[e].status \in {"erasing", "cancelled"} /\ event[e].lease = "none"
    BY <1>1, <2>0 DEF InboxInv, RowInv
  <2>2. ASSUME NEW p \in Procs, Work(p) PROVE event'[e] = event[e]
    <3>1. CASE InsertEvent(p)
      BY <2>0, <2>1, <3>1 DEF InsertEvent
    <3>2. CASE ClaimEvent(p)
      BY <2>0, <3>2 DEF ClaimEvent, RowWriteAllowed
    <3>3. CASE FinishEvent(p)
      BY <2>0, <3>3 DEF FinishEvent, RowWriteAllowed
    <3>4. QED
      BY <2>2, <3>1, <3>2, <3>3
         DEF Work, AcceptNonce, AcceptEvent, LoadEvent, MapEvent, GuardEvent, Trigger,
             LookupIntent, InsertIntent, UpdateIntent, tables
  <2>3. ASSUME NEW p \in Procs, ReplayEvent(p) PROVE event'[e] = event[e]
    BY <2>0, <2>3 DEF ReplayEvent, RowWriteAllowed
  <2>4. CASE EraseSubject
    <3>1. PICK f \in frozen :
            event' = [event EXCEPT ![f] =
                        [@ EXCEPT !.status = "cancelled", !.lease = "none"]]
      BY <2>4 DEF EraseSubject
    <3>2. QED
      BY <2>0, <3>1 DEF EventRow
  <2>5. CASE LeaseExpires
    BY <2>0, <2>1, <2>5 DEF LeaseExpires
  <2>6. CASE PrepareErasure
    BY <2>0, <2>6 DEF PrepareErasure
  <2>7. QED
    BY <1>1, <2>2, <2>3, <2>4, <2>5, <2>6
       DEF Next, vars, tables, ReceiveWebhook, ScanEvent, CrashProcess, PublishMapping
<1>2. QED
  BY <1>1, Invariance, PTL DEF Spec, FrozenEventsStayFrozen

=============================================================================
